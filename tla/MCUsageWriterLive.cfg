SPECIFICATION FairSpec
CONSTANTS
  r1 = r1
  r2 = r2
  r3 = r3
  r4 = r4
  Requests = {r1, r2}
  QueueMax = 2
  BatchSize = 1
  FrameMax = 1
  HardLimit = 3
  CompactThreshold = 1
  ShutdownRetryLimit = 2
  MaxFaults = 1
  MaxCrashes = 1
  Outage = TRUE
PROPERTIES
  PipelineEnds
