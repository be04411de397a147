SPECIFICATION Spec
CONSTANTS
    NULL = NULL
    Tasks = {t1, t2, t3}
    Mutexes = {m1, m2}
    NUM_PRI = 3
    CeilPris = {1}
SYMMETRY Symmetry
CHECK_DEADLOCK FALSE
INVARIANTS
    CancelRemoves
