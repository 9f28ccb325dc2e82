CONSTANTS
    Kinds = {"object"}
    Reliable = {}
    Early = {}
    Inflight = TRUE
    MaxContents = 2
    MaxResults = 1
    MaxRemovals = 1
    MaxFailures = 0
    MaxCrashes = 0
SPECIFICATION Spec
CHECK_DEADLOCK FALSE
PROPERTY Settles
