CONSTANTS
    s1 = s1
    r1 = r1
    r2 = r2
    Sessions = {s1}
    Requests = {r1}
    Slots = 2
    MaxReplies <- OneRequest
    RashStop = FALSE
    Quirks = {}
    RashPeek = TRUE
SPECIFICATION RouteSpec
CHECK_DEADLOCK FALSE
INVARIANT ToldAll
