CONSTANTS
    f1 = f1
    c1 = c1
    Files = {f1}
    Channels = {}
    Contents = {1}
    Capacity = 1
    Affected <- NoneAffected
    Overlap = TRUE
    Quick = FALSE
    MayStop = FALSE
    MaxChanges = 2
    MaxReloads = 0
    MaxKiro = 1
    MaxRefreshes = 1
SPECIFICATION Spec
CHECK_DEADLOCK FALSE
INVARIANTS MirrorsDisk
