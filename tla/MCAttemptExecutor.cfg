SPECIFICATION Spec
CONSTANTS
  k1 = k1
  k2 = k2
  r1 = r1
  r2 = r2
  None = None
  Keys = {k1, k2}
  MaxConcurrency <- OneFirst
  QuotaHolds = {2}
  RateHolds = {1}
  AuthHold = 1
  FaultHold = 1
  Requests = {r1, r2}
  Streaming = {r1}
  Extended = {k2}
  Orders <- OneOrder
  LapsedSets <- AllOrNone
  Budget = 1
INVARIANTS
  SlotsRight
  FallbackSound
PROPERTIES
  EvidenceOnly
