SPECIFICATION Spec
CONSTANTS
    None = None
    a = a
    b = b
    Agents = {a, b}
    AgentId <- const_AgentId
    MaxCrashes = 2
    MaxFailures = 1
    MaxRequests = 1
INVARIANTS
    NothingLost
    DoneIsCurrent
PROPERTIES
    MajorsMoveTogether
    EventuallyUp
CHECK_DEADLOCK FALSE
