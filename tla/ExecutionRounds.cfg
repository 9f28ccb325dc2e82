CONSTANTS
    Auths = {a1, a2}
    Requests = {r1, r2}
    Nobody = nobody
    Retries = 1
    MaxCredentials = 1
    MaxWait = 2
    Uncooled = {a2}
    Outcomes <- Racing
    Hints = {0, 1}
    Short = 1
    Long = 2
    MaxBackoff = 2
    Reregisters = FALSE
SPECIFICATION FairSpec
INVARIANTS
    TypeOK
    CallsBounded
PROPERTY
    EveryRequestEnds
