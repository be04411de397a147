SPECIFICATION Spec
CONSTANTS
    NULL = NULL
    Tasks = {t1, t2, t3}
    NUM_PRI = 2
    Locks = {}
    SliceTimes = {0}
    TIMER_PERIOD = 1
    MaxSus = 1
    MaxWup = 0
SYMMETRY Symmetry
INVARIANTS
    DisableRecorded
