SPECIFICATION FairSpec
CONSTANTS
    e1 = e1
    e2 = e2
    loop = loop
    t1 = t1
    Loop = loop
    NoEvent = NoEvent
    NoTime = NoTime
    Events <- MCTwoEvents
    Threads <- MCOneThread
    Scheduler = TRUE
    Grace = 1
    Window = 1
    MaxTime = 3
    MaxViewers = 1
    MaxFaults = 1
INVARIANTS
    TypeOK
    PendingHasDue
    RaisedOnce
    GraceRespected
PROPERTIES
    StopResolved
CHECK_DEADLOCK FALSE
