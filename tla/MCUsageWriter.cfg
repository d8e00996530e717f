SPECIFICATION Spec
CONSTANTS
  r1 = r1
  r2 = r2
  r3 = r3
  r4 = r4
  Requests = {r1, r2, r3, r4}
  QueueMax = 1
  BatchSize = 2
  FrameMax = 1
  HardLimit = 3
  CompactThreshold = 1
  ShutdownRetryLimit = 2
  MaxFaults = 2
  MaxCrashes = 1
  Outage = FALSE
SYMMETRY Symmetry
INVARIANTS
  SlotsConserved
  NothingLostSilently
  PassedFramesLanded
  InsertedOnce
  BacklogDiscipline
PROPERTIES
  Promises
