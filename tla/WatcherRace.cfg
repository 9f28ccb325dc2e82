CONSTANTS
    f1 = f1
    c1 = c1
    Files = {f1}
    Channels = {}
    Contents = {1, 2}
    Capacity = 1
    Affected <- NoneAffected
    Overlap = TRUE
    Quick = FALSE
    MayStop = FALSE
    MaxChanges = 1
    MaxReloads = 1
    MaxKiro = 0
    MaxRefreshes = 1
SPECIFICATION Spec
CHECK_DEADLOCK FALSE
INVARIANTS LatestApplied
