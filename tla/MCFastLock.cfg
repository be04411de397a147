SPECIFICATION FairSpec
CONSTANTS
    t1 = t1
    t2 = t2
    t3 = t3
    t4 = t4
    Tasks <- MCTasks
    Priority <- MCPriority
INVARIANTS
    MutualExclusion
    NoSignalOverflow
    SleeperHasWaker
PROPERTY
    TopTaskServed
