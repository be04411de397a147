SPECIFICATION OwnersSpec
CONSTANTS
    NULL = NULL
    Tasks = {t1, t2, t3}
    Mutexes = {m1, m2}
    NUM_PRI = 3
    CeilPris = {1}
    DevTasks = {t1, t2, t3}
    Opens = {m1, m2}
    Reqs = {r1, r2}
    NoTask = NoTask
    NoOpen = NoOpen
    MinSync = 0
SYMMETRY Symmetry
INVARIANTS
    OwnershipExact
    WaitQueuesExact
    PriorityExact
    InheritanceExact
    CeilingKept
    ChainEnds
    DriverMatches
    InService
    SleepersAreWoken
PROPERTY
    HighestHeir
