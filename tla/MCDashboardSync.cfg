SPECIFICATION FairSpec
CONSTANTS
  m1 = m1
  Machines = {m1}
  Operations = {"export", "archive"}
  Lags = {TRUE, FALSE}
  MaxRow = 2
  MaxArtifacts = 3
  MaxStops = 1
  MaxAttempts = 2
INVARIANTS
  MarkedIsPublished
  OneMachineExact
PROPERTIES
  MarkMovesByExport
  RequestReturns
CHECK_DEADLOCK FALSE
