SPECIFICATION Spec
CONSTANTS
    Requests = {r1, r2, r3, r4}
    Window = 2
    Trigger = 4
    InitialStored = {0, 2, 6}
SYMMETRY Symmetry
INVARIANTS
    SummaryHonest
    NewestOutside
PROPERTY RefreshCatchesUp
CHECK_DEADLOCK FALSE
