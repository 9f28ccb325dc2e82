CONSTANTS
    Calls = {1}
    MaxPieces = 1
    MaxEvents = 2
    Quirks = {}
SPECIFICATION Spec
CHECK_DEADLOCK FALSE
INVARIANT ThinkingCloses
