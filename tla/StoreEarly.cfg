CONSTANTS
    Kinds = {"postgres"}
    Reliable = {}
    Early = {"save"}
    Inflight = FALSE
    MaxContents = 2
    MaxResults = 0
    MaxRemovals = 0
    MaxFailures = 1
    MaxCrashes = 0
SPECIFICATION Spec
CHECK_DEADLOCK FALSE
INVARIANT Durable
