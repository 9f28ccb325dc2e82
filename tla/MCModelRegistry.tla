-------------------------- MODULE MCModelRegistry --------------------------
(* ModelRegistry with two clients, that list up to two models or one model *)
(* twice, and a request that reports.                                      *)
EXTENDS ModelRegistry, TLC

Entries(n) == {l \in [Models -> 0..n] : \A m, o \in Models : m = o \/ l[m] + l[o] <= n}
OneEntry == Entries(1)
TwoEntries == Entries(2)

Perms == Permutations(Clients) \union Permutations(Models) \union Permutations(Providers)
=============================================================================
