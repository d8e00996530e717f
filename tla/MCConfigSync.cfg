SPECIFICATION Spec
CONSTANTS
    A = A
    B = B
    E = E
    F = F
    Machines = {A, B}
    Endpoints = {E, F}
    Edits = {1, 2}
    Version <- OldAndNew
    NoEndpoint = NoEndpoint
    Configured = {E, NoEndpoint}
    MaxNow = 2
    MaxPulls = 1
    MaxFaults = 1
    MaxStops = 2
    MaxTroubles = 2

    
    
PROPERTIES
    SyncingEnds
    NewestSchemaGrows
CHECK_DEADLOCK FALSE
