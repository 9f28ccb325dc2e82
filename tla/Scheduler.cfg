CONSTANTS
    Auths = {1, 2, 3}
    Providers = {1, 2}
    Parents = {1, 2}
    Priorities = {1, 2}
    Snapshots <- AllSnapshots
    TriedSets <- Tried
    Websockets <- Both
    Strategies <- Both
    History = 3
    SessionAuths = {1, 2}
    Requests = {"first", "second"}
    TTL = 1
SPECIFICATION SettingSpec
INVARIANTS
    OneHome
    IndexExact
    SelectorAgrees
    RotationFair
PROPERTIES
    Sticky
