CONSTANTS
    Clients = {c1, c2}
    Models = {m1}
    Providers = {p1}
    NoProvider = none
    Lists <- OneEntry
    Window = 1
    Requests = {r1}
SPECIFICATION Spec
SYMMETRY Perms
INVARIANTS
    ListsServable
