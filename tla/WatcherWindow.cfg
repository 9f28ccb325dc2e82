CONSTANTS
    f1 = f1
    c1 = c1
    Files = {f1}
    Channels = {}
    Contents = {1}
    Capacity = 1
    Affected <- NoneAffected
    Overlap = FALSE
    Quick = TRUE
    MayStop = FALSE
    MaxChanges = 4
    MaxReloads = 0
    MaxKiro = 0
    MaxRefreshes = 1
SPECIFICATION Spec
CHECK_DEADLOCK FALSE
INVARIANTS MirrorsDisk
