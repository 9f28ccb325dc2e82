\* The timing functions on a clock of six ticks with leads up to three ticks, and the
\* loop over one credential on one worker.
CONSTANTS
    a1 = a1
    w1 = w1
    Times <- MCTimes
    Durations <- MCDurations
    Auths <- OneAuth
    Workers <- OneWorker
    LateAuths <- OneAuth
    Interval = 1
    PendingBackoff = 2
    FailureBackoff = 1
    JobCap = 1
    LagMax = 1
    FlightMax = 2
    Lifetimes = {1}
    MaxUpdates = 1
    MayStop = TRUE
SPECIFICATION SettingSpec
INVARIANTS
    TimingOK
    NeverOversleeps
    LoopKeepsUp
PROPERTY NeverSpins
\* The clock stops at its last tick.
CHECK_DEADLOCK FALSE
