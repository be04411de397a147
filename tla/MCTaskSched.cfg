SPECIFICATION Spec
CONSTANTS
    NULL = NULL
    Tasks = {t1, t2, t3}
    NUM_PRI = 2
    Locks = {}
    SliceTimes = {0}
    TIMER_PERIOD = 1
    MaxSus = 2
    MaxWup = 1
SYMMETRY Symmetry
INVARIANTS
    SuspendCounted
    NoWakeupLost
