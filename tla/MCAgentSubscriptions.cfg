SPECIFICATION Spec
CONSTANTS
    A = A
    B = B
    S = S
    I = I
    J = J
    Software = {A, B}
    Subs = {S}
    Insts = {I, J}
    NoOne = NoOne
    Month = 2
    MaxDay = 3
    MaxEdits = 4
SYMMETRY Symmetry
INVARIANTS
    OneAgentADay
    ExportedOnce
PROPERTIES
    OwnerFixed
    FrozenBeforeEnding
CHECK_DEADLOCK FALSE
