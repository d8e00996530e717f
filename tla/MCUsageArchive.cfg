SPECIFICATION ArchiveSpec
CONSTANTS
  r1 = r1
  r2 = r2
  Requests = {r1, r2}
  QueueMax = 2
  BatchSize = 2
  FrameMax = 1
  HardLimit = 4
  CompactThreshold = 2
  ShutdownRetryLimit = 2
  MaxFaults = 1
  MaxCrashes = 1
  Outage = FALSE
SYMMETRY Symmetry
INVARIANTS
  ArchiveExact
