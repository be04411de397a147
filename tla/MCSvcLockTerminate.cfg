SPECIFICATION Spec
CONSTANTS
    Tasks = {t1, t2}
    MaxCalls = 3
    MayReenter = FALSE
    BreakRaises = FALSE
    MayTerminateHolder = TRUE
SYMMETRY Symmetry
INVARIANTS
    DormantHasNoLock
