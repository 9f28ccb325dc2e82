CONSTANTS
    f1 = f1
    c1 = c1
    Files = {f1}
    Channels = {c1}
    Contents = {1, 2}
    Capacity = 1
    Affected <- NoneAffected
    Overlap = FALSE
    Quick = FALSE
    MayStop = TRUE
    MaxChanges = 2
    MaxReloads = 1
    MaxKiro = 1
    MaxRefreshes = 1
SPECIFICATION Spec
CHECK_DEADLOCK FALSE
INVARIANTS MirrorsDisk ConnectedServed
