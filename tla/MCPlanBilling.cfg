SPECIFICATION Spec
CONSTANTS
    K = K
    L = L
    Keys = {K, L}
    Periodic = Periodic
    Woken = Woken
    Pollers = {Periodic, Woken}
    Prices = {1, 2}
    Currencies = {"CNY", "USD"}
    Month = 2
    Age = 1
    Grace = 1
    Terms = {2}
    MaxNow = 3
    MaxPolls = 2
    MaxFetches = 2
    MaxEdits = 2
    MaxInputs = 3
INVARIANTS
    PeriodsDisjoint
PROPERTIES
    FactsFrozen
    NoLapseBackfill
    FrozenBeforeDeletion
    EndedAccountGoes
CHECK_DEADLOCK FALSE
