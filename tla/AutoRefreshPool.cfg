CONSTANTS
    a1 = a1
    a2 = a2
    w1 = w1
    Auths <- TwoAuths
    Workers <- OneWorker
    LateAuths = {}
    Interval = 1
    PendingBackoff = 2
    FailureBackoff = 1
    JobCap = 1
    LagMax = 0
    FlightMax = 1
    Lifetimes = {1}
    MaxUpdates = 0
    MayStop = TRUE
SPECIFICATION PoolSpec
INVARIANTS TypeOK NoneForgotten WakesInTime DirtyIsRung TimerCoversHeap OneRefreshAtATime
PROPERTIES EveryAuthRefreshed StopEndsEverything
\* A loop and workers that were stopped stay where they are.
CHECK_DEADLOCK FALSE
