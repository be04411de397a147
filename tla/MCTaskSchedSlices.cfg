SPECIFICATION Spec
CONSTANTS
    NULL = NULL
    Tasks = {t1, t2, t3}
    NUM_PRI = 2
    Locks = {l1}
    SliceTimes = {0, 1}
    TIMER_PERIOD = 1
    MaxSus = 0
    MaxWup = 0
SYMMETRY Symmetry
INVARIANTS
    TopScheduled
    IndexExact
