CONSTANTS
    s1 = s1
    r1 = r1
    r2 = r2
    Sessions = {s1}
    Requests = {r1}
    Slots = 2
    MaxReplies <- OneRequest
    RashStop = FALSE
    Quirks = {}
    RashPeek = FALSE
SPECIFICATION RouteSpec
\* Streams end, and a crashed program stops.
CHECK_DEADLOCK FALSE
INVARIANTS
    TypeOK
    NoneStranded
    ServedAreConnected
    Grammatical
    ToldAll
    Signed
    OneCall
    OneResult
PROPERTIES
    KeepsThePromise
    EveryGoroutineEnds
