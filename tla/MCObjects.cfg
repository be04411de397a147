SPECIFICATION ObjectsSpec
CONSTANTS
    t1 = t1
    t2 = t2
    t3 = t3
    Tasks = {t1, t2, t3}
    Pri = {0, 1}
    MaxSem = 3
    m1 = m1
    m2 = m2
    m3 = m3
    Msgs = {m1, m2, m3}
    MsgSize <- MCSize
    BufSizes = {0, 24}
    Nothing = Nothing
    b0 = b0
    b1 = b1
    Bits = {b0, b1}
    Waits <- MCWaits
    Locks = {0, 1}
    Rank <- MCRank
    p1 = p1
    p2 = p2
    Ports = {p1, p2}
    ByPri = {p2}
    MaxRmsz <- MCMaxRmsz
    CallPris = {0}
    CallPtns = {{0}, {1}}
    MaxMsgSz = 1
    RdvLimit = 2
    TimerTasks = {t1}
    Cycs = {c1}
    Alms = {a1}
    TIMER_PERIOD = 2
    RelTimes = {1, 3}
    MaxTime = 6
INVARIANTS
    NoneServable
    NoIdleWait
    NoneSatisfied
    LockExclusive
    SleeperHasUnlocker
    NoMatchWaits
    QueuedExactly
    NeverEarly
PROPERTIES
    ServedInOrder
    ImplementsMsgQueue
    OwnAnswer
CHECK_DEADLOCK FALSE
