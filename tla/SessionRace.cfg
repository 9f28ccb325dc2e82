CONSTANTS
    Auths = {1, 2}
    Providers = {1}
    Parents = {}
    Priorities = {1, 2}
    Snapshots <- LateSnapshots
    TriedSets <- NoTried
    Websockets <- Plain
    Strategies <- Plain
    History = 0
    SessionAuths = {1, 2}
    Requests = {"first", "second"}
    TTL = 1
SPECIFICATION RacySpec
PROPERTIES
    Sticky
