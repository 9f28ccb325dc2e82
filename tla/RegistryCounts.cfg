CONSTANTS
    Clients = {c1, c2}
    Models = {m1, m2}
    Providers = {p1, p2}
    NoProvider = none
    Lists <- TwoEntries
    Window = 1
    Requests = {r1}
SPECIFICATION Spec
SYMMETRY Perms
INVARIANTS
    CountsExact
    InfosFollowProviders
    CacheFresh
