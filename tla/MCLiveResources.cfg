CONSTANTS
    Machines = {A, B}
    First = A
    None = None
    MaxEdits = 3
    MaxRequests = 1
    MaxFailures = 1
SPECIFICATION Spec
INVARIANTS
    GraphWhole
    OwnerKept
    MergedIsCloud
PROPERTY LocalHalfKept
CHECK_DEADLOCK FALSE
