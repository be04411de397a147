SPECIFICATION Spec
CONSTANTS
    Tasks = {t1, t2}
    MaxCalls = 3
    MayReenter = TRUE
    BreakRaises = FALSE
    MayTerminateHolder = FALSE
SYMMETRY Symmetry
INVARIANTS
    SectionsLocked
