CONSTANTS
    Auths = {a1}
    Requests = {r1, r2}
    Nobody = nobody
    Retries = 0
    MaxCredentials = 0
    MaxWait = 0
    Uncooled = {}
    Outcomes <- AllOutcomes
    Hints = {0}
    Short = 1
    Long = 2
    MaxBackoff = 1
    Reregisters = TRUE
SPECIFICATION Spec
SYMMETRY Perms
PROPERTY
    LoneRequestServed
