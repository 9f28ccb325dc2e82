CONSTANTS
    f1 = f1
    c1 = c1
    Files = {f1}
    Channels = {}
    Contents = {1}
    Capacity = 1
    Affected <- FileAffected
    Overlap = TRUE
    Quick = TRUE
    MayStop = TRUE
    MaxChanges = 1
    MaxReloads = 1
    MaxKiro = 1
    MaxRefreshes = 2
    Kinds = {"object", "postgres", "git"}
    Reliable = {"git"}
    Early = {}
    Inflight = FALSE
    MaxContents = 2
    MaxResults = 1
    MaxRemovals = 1
    MaxFailures = 1
    MaxCrashes = 1
SPECIFICATION SettingSpec
CHECK_DEADLOCK FALSE
INVARIANT Durable
PROPERTIES KeepsThePromise LoopGetsOn Settles
