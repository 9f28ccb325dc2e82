CONSTANTS
    Auths = {a1}
    Requests = {r1}
    Nobody = nobody
    Retries = 0
    MaxCredentials = 0
    MaxWait = 0
    Uncooled = {}
    Outcomes <- Rejected
    Hints = {0}
    Short = 1
    Long = 2
    MaxBackoff = 2
    Reregisters = TRUE
SPECIFICATION Spec
INVARIANT
    ReconcileAligns
