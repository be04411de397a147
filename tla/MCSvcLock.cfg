SPECIFICATION Spec
CONSTANTS
    Tasks = {t1, t2, t3}
    MaxCalls = 3
    MayReenter = FALSE
    BreakRaises = FALSE
    MayTerminateHolder = FALSE
SYMMETRY Symmetry
INVARIANTS
    HeldAsNested
    LocksExact
    BreakExclusive
    NoCircle
    DormantHasNoLock
