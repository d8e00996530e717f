SPECIFICATION Spec
CONSTANTS
  FreshFor = 10
  LapseFor = 20
  Lists <- AllLists
  Offsets = {0, 1}
  Now = 100
  MaxChanges = 1
INVARIANTS
  OrderKept
CHECK_DEADLOCK FALSE
