------------------------ MODULE ModelRegistry_proofs ------------------------
(***************************************************************************)
(* For any finite set of clients, any models, providers and lists: the     *)
(* counters that the registry keeps by increments are what a recount would *)
(* find, InfoByProvider has a provider's definition of a model exactly     *)
(* while one of its clients offers it, and the cached listing is what a    *)
(* new one would be.                                                       *)
(*                                                                         *)
(* The recount is split into the part of one client, whose registration    *)
(* changes, and that of the others (Share), so that every change is a sum  *)
(* of two numbers.  The bindings are a finite set (Countable), which is    *)
(* kept beside them: what a client lists is not bounded.  The listing goes *)
(* with the earliest of the quota marks (Lapses).                          *)
(***************************************************************************)
EXTENDS ModelRegistry, FiniteSetTheorems, WellFoundedInduction, TLAPS

Everyone == Providers \union {NoProvider}
Countable == \A m \in Models : IsFiniteSet(Bindings(m, Everyone))

\* The bindings of all clients but one.
OfOthers(c, m, ps) ==
    UNION {{d} \X (1..held[d][m]) : d \in {e \in Clients \ {c} : provider[e] \in ps}}

Counted == TypeOK /\ Countable /\ CountsExact

\* A listing that may still be answered has been made without quota marks, or lapses
\* with the first of them.
Lapses == Fresh(cache) =>
    \A m \in Models, c \in Clients : quota[m][c] > 0 => cache.left > 0 /\ cache.left <= quota[m][c]

-----------------------------------------------------------------------------
(* Types.                                                                  *)

LEMMA HeldType ==
    ASSUME TypeOK, NEW c \in Clients, NEW m \in Models
    PROVE  held[c][m] \in Nat /\ provider[c] \in Everyone /\ held[c] \in [Models -> Nat]
  BY RegistryAssumption DEF TypeOK, Everyone

\* A nonempty set of numbers has a least one.
Smaller == {x \in Nat \X Nat : x[1] < x[2]}
LEMMA SmallerWellFounded == IsWellFoundedOn(Smaller, Nat)
  BY NatLessThanWellFounded DEF OpToRel, Smaller

LEMMA LeastOf ==
    ASSUME NEW T, T \subseteq Nat, T # {}
    PROVE  \E t \in T : \A u \in T : t <= u
  <1>1. PICK t \in T : \A u \in T : ~(<<u, t>> \in Smaller)
    BY SmallerWellFounded, WFMin
  <1>2. \A u \in T : u \in Nat /\ t \in Nat /\ ~(u < t)
    <2>1. SUFFICES ASSUME NEW u \in T PROVE u \in Nat /\ t \in Nat /\ ~(u < t)
      OBVIOUS
    <2>2. ~(<<u, t>> \in Smaller)
      BY <1>1
    <2> QED BY <2>2 DEF Smaller
  <1>3. \A u \in T : t <= u
    BY <1>2
  <1> QED BY <1>3

LEMMA ListedForType ==
    ASSUME TypeOK
    PROVE  /\ ListedFor \in (1..Window) \union {Never}
           /\ ListedFor = Never => \A m \in Models, c \in Clients : quota[m][c] = 0
           /\ \A m \in Models, c \in Clients :
                 quota[m][c] > 0 => ListedFor > 0 /\ ListedFor <= quota[m][c]
  <1>1. Recoveries \subseteq 1..Window
    BY RegistryAssumption DEF Recoveries, OverQuotaClients, TypeOK
  <1>2. \A m \in Models, c \in Clients : quota[m][c] > 0 => quota[m][c] \in Recoveries
    BY DEF Recoveries, OverQuotaClients
  <1>3. \A m \in Models, c \in Clients : quota[m][c] \in 0..Window
    BY DEF TypeOK
  <1>4. CASE Recoveries = {}
    BY <1>2, <1>3, <1>4, RegistryAssumption DEF ListedFor, Never
  <1>5. CASE Recoveries # {}
    <2>0. Recoveries \subseteq Nat
      BY <1>1
    <2>1. \E t \in Recoveries : \A u \in Recoveries : t <= u
      BY <2>0, <1>5, LeastOf
    <2>2. ListedFor \in Recoveries /\ \A u \in Recoveries : ListedFor <= u
      BY <1>5, <2>1 DEF ListedFor
    <2> QED BY <1>1, <1>2, <1>3, <2>2, RegistryAssumption DEF Never
  <1> QED BY <1>4, <1>5

LEMMA DebitType ==
    ASSUME NEW table \in [Providers -> Nat], NEW p \in Everyone, NEW n \in Nat
    PROVE  /\ Debit(table, p, n) \in [Providers -> Nat]
           /\ \A q \in Providers : Debit(table, p, n)[q] =
                 IF q = p THEN Excess(table[q], n) ELSE table[q]
  BY RegistryAssumption DEF Debit, Excess, Everyone

LEMMA CreditType ==
    ASSUME NEW table \in [Providers -> Nat], NEW p \in Everyone, NEW n \in Nat
    PROVE  /\ Credit(table, p, n) \in [Providers -> Nat]
           /\ \A q \in Providers : Credit(table, p, n)[q] =
                 IF q = p THEN table[q] + n ELSE table[q]
  BY RegistryAssumption DEF Credit, Everyone

LEMMA ClearMarksType ==
    ASSUME TypeOK, NEW gone, ClearMarks(gone)
    PROVE  /\ quota' \in [Models -> [Clients -> 0..Window]]
           /\ suspended' \in [Models -> [Clients -> Reasons]]
  BY RegistryAssumption DEF TypeOK, ClearMarks, Unmarked, Reasons

LEMMA NoListingType == NoListing \in [valid : BOOLEAN, models : SUBSET Models, left : (0..Window) \union {Never}]
  BY DEF NoListing

-----------------------------------------------------------------------------
(* Counting.                                                               *)

\* A client that lists a model n times has n bindings of it.
LEMMA BlockSize ==
    ASSUME NEW c, NEW n \in Nat
    PROVE  IsFiniteSet({c} \X (1..n)) /\ Cardinality({c} \X (1..n)) = n
  <1> DEFINE f == [x \in 1..n |-> <<c, x>>]
  <1>1. f \in Bijection(1..n, {c} \X (1..n))
    <2>1. f \in [1..n -> {c} \X (1..n)] /\ \A x, y \in 1..n : f[x] = f[y] => x = y
      OBVIOUS
    <2>2. \A t \in {c} \X (1..n) : \E x \in 1..n : f[x] = t
      OBVIOUS
    <2> HIDE DEF f
    <2> QED BY <2>1, <2>2 DEF Bijection, Injection, Surjection, IsInjective
  <1>2. IsFiniteSet(1..n) /\ Cardinality(1..n) = n
    BY FS_Interval
  <1>3. ExistsBijection(1..n, {c} \X (1..n))
    BY <1>1 DEF ExistsBijection
  <1> QED BY <1>2, <1>3, FS_Bijection

\* The bindings of one client and those of the others.
LEMMA Split ==
    ASSUME NEW others, IsFiniteSet(others), NEW c, NEW n \in Nat,
           others \intersect ({c} \X (1..n)) = {},
           NEW all, all = others \union ({c} \X (1..n))
    PROVE  /\ IsFiniteSet(all) /\ Cardinality(others) \in Nat
           /\ Cardinality(all) = Cardinality(others) + n
  <1> DEFINE own == {c} \X (1..n)
  <1>1. IsFiniteSet(own) /\ Cardinality(own) = n
    BY BlockSize
  <1>2. all = others \union own /\ others \intersect own = {}
    OBVIOUS
  <1> HIDE DEF own
  <1>3. /\ IsFiniteSet(all)
        /\ Cardinality(all) = Cardinality(others) + Cardinality(own) - Cardinality(others \intersect own)
    BY <1>1, <1>2, FS_Union
  <1>4. Cardinality(others \intersect own) = 0
    BY <1>2, FS_EmptySet
  <1>5. Cardinality(others) \in Nat
    BY FS_CardinalityType
  <1> QED BY <1>1, <1>3, <1>4, <1>5

\* The bindings of the others, and n of this client's.
LEMMA Beside ==
    ASSUME Counted, NEW c \in Clients, NEW m \in Models, NEW ps \in SUBSET Everyone, NEW n \in Nat,
           NEW all, all = OfOthers(c, m, ps) \union ({c} \X (1..n))
    PROVE  /\ IsFiniteSet(all) /\ Cardinality(OfOthers(c, m, ps)) \in Nat
           /\ IsFiniteSet(OfOthers(c, m, ps))
           /\ Cardinality(all) = Cardinality(OfOthers(c, m, ps)) + n
  <1>1. OfOthers(c, m, ps) \intersect ({c} \X (1..n)) = {}
    BY DEF OfOthers
  <1>2. IsFiniteSet(OfOthers(c, m, ps))
    <2>1. OfOthers(c, m, ps) \subseteq Bindings(m, Everyone)
      BY DEF Bindings, OfOthers
    <2> QED BY <2>1, FS_Subset DEF Counted, Countable
  <1> QED BY <1>1, <1>2, Split

\* The part of one client in the counters.
LEMMA Share ==
    ASSUME Counted, NEW c \in Clients, NEW m \in Models, NEW ps \in SUBSET Everyone
    PROVE  /\ IsFiniteSet(OfOthers(c, m, ps)) /\ Cardinality(OfOthers(c, m, ps)) \in Nat
           /\ Cardinality(Bindings(m, ps)) = Cardinality(OfOthers(c, m, ps))
                                              + (IF provider[c] \in ps THEN held[c][m] ELSE 0)
  <1> DEFINE n == IF provider[c] \in ps THEN held[c][m] ELSE 0
  <1>1. n \in Nat
    BY HeldType DEF Counted
  <1>2. Bindings(m, ps) = OfOthers(c, m, ps) \union ({c} \X (1..n))
    BY DEF Bindings, OfOthers
  <1> HIDE DEF n
  <1>3. /\ IsFiniteSet(OfOthers(c, m, ps)) /\ Cardinality(OfOthers(c, m, ps)) \in Nat
        /\ Cardinality(Bindings(m, ps)) = Cardinality(OfOthers(c, m, ps)) + n
    BY <1>1, <1>2, Beside
  <1> QED BY <1>3 DEF n

\* Everything the counters say, as sums with the part of one client.
LEMMA Sums ==
    ASSUME Counted, NEW c \in Clients, NEW m \in Models
    PROVE  /\ Cardinality(OfOthers(c, m, Everyone)) \in Nat /\ held[c][m] \in Nat
           /\ count[m] = Cardinality(OfOthers(c, m, Everyone)) + held[c][m]
           /\ \A p \in Providers :
                 /\ Cardinality(OfOthers(c, m, {p})) \in Nat
                 /\ Cardinality(OfOthers(c, m, {p})) <= Cardinality(OfOthers(c, m, Everyone))
                 /\ providers[m][p] = Cardinality(OfOthers(c, m, {p}))
                                      + (IF provider[c] = p THEN held[c][m] ELSE 0)
  <1>1. held[c][m] \in Nat /\ provider[c] \in Everyone
    BY HeldType DEF Counted
  <1>2. IsFiniteSet(OfOthers(c, m, Everyone)) /\ Cardinality(OfOthers(c, m, Everyone)) \in Nat
    BY Share
  <1>3. count[m] = Cardinality(OfOthers(c, m, Everyone)) + held[c][m]
    BY <1>1, Share DEF Counted, CountsExact, Everyone
  <1>4. ASSUME NEW p \in Providers
        PROVE  /\ Cardinality(OfOthers(c, m, {p})) \in Nat
               /\ Cardinality(OfOthers(c, m, {p})) <= Cardinality(OfOthers(c, m, Everyone))
               /\ providers[m][p] = Cardinality(OfOthers(c, m, {p}))
                                     + (IF provider[c] = p THEN held[c][m] ELSE 0)
    <2>1. {p} \in SUBSET Everyone
      BY DEF Everyone
    <2>2. OfOthers(c, m, {p}) \subseteq OfOthers(c, m, Everyone)
      BY DEF OfOthers, Everyone
    <2>3. Cardinality(OfOthers(c, m, {p})) <= Cardinality(OfOthers(c, m, Everyone))
      BY <1>2, <2>2, FS_Subset
    <2>4. providers[m][p] = Cardinality(Bindings(m, {p}))
      BY DEF Counted, CountsExact
    <2> QED BY <2>1, <2>3, <2>4, Share
  <1> QED BY <1>1, <1>2, <1>3, <1>4

\* A change to one client keeps the counters exact if it changes its part in them.
LEMMA Recount ==
    ASSUME Counted, TypeOK', NEW c \in Clients,
           \A d \in Clients \ {c} : held'[d] = held[d] /\ provider'[d] = provider[d],
           \A m \in Models :
              /\ count'[m] = Cardinality(OfOthers(c, m, Everyone)) + held'[c][m]
              /\ \A p \in Providers : providers'[m][p] = Cardinality(OfOthers(c, m, {p}))
                                         + (IF provider'[c] = p THEN held'[c][m] ELSE 0)
    PROVE  Counted'
  <1>1. \A m \in Models : held'[c][m] \in Nat /\ provider'[c] \in Everyone
    BY RegistryAssumption DEF TypeOK, Everyone
  <1>2. ASSUME NEW m \in Models, NEW ps \in SUBSET Everyone
        PROVE  /\ IsFiniteSet(Bindings(m, ps)')
               /\ Cardinality(Bindings(m, ps)') = Cardinality(OfOthers(c, m, ps))
                                                  + (IF provider'[c] \in ps THEN held'[c][m] ELSE 0)
    <2>1. PICK n \in Nat : n = IF provider'[c] \in ps THEN held'[c][m] ELSE 0
      BY <1>1
    <2>2. Bindings(m, ps)' = OfOthers(c, m, ps) \union ({c} \X (1..n))
      BY <2>1 DEF Bindings, OfOthers
    <2>3. ASSUME NEW all, all = OfOthers(c, m, ps) \union ({c} \X (1..n))
          PROVE  IsFiniteSet(all) /\ Cardinality(all) = Cardinality(OfOthers(c, m, ps)) + n
      BY <2>1, <2>3, Beside
    <2> QED BY <2>1, <2>2, <2>3
  <1>3. Countable'
    BY <1>2 DEF Countable, Everyone
  <1>4. CountsExact'
    <2>1. ASSUME NEW m \in Models PROVE count'[m] = Cardinality(Bindings(m, Everyone)')
      BY <1>1, <1>2
    <2>2. ASSUME NEW m \in Models, NEW p \in Providers
          PROVE  providers'[m][p] = Cardinality(Bindings(m, {p})')
      <3>1. {p} \in SUBSET Everyone
        BY DEF Everyone
      <3> QED BY <1>2, <3>1
    <2> QED BY <2>1, <2>2 DEF CountsExact, Everyone
  <1> QED BY <1>3, <1>4 DEF Counted

-----------------------------------------------------------------------------
(* Registrations.                                                          *)

\* The tables of models after a change.
TablesOK == /\ count \in [Models -> Nat]
            /\ providers \in [Models -> [Providers -> Nat]]
            /\ infos \in [Models -> SUBSET Providers]
            /\ quota \in [Models -> [Clients -> 0..Window]]
            /\ suspended \in [Models -> [Clients -> Reasons]]

LEMMA DropTypes ==
    ASSUME TypeOK, NEW c \in Clients, DropBinding(c)
    PROVE  /\ TablesOK'
           /\ \A m \in Models : /\ count'[m] = Excess(count[m], held[c][m])
                               /\ held'[c][m] = 0
                               /\ \A p \in Providers : providers'[m][p] =
                                     IF count'[m] # 0 /\ p = provider[c]
                                     THEN Excess(providers[m][p], held[c][m])
                                     ELSE IF count'[m] = 0 THEN 0 ELSE providers[m][p]
  <1>1. \A m \in Models : held[c][m] \in Nat /\ count[m] \in Nat /\ provider[c] \in Everyone
                         /\ providers[m] \in [Providers -> Nat]
    BY HeldType DEF TypeOK
  <1>2. count' \in [Models -> Nat] /\ \A m \in Models : count'[m] = Excess(count[m], held[c][m])
    BY <1>1 DEF DropBinding, Excess
  <1>3. \A m \in Models : /\ Debit(providers[m], provider[c], held[c][m]) \in [Providers -> Nat]
                         /\ \A p \in Providers : Debit(providers[m], provider[c], held[c][m])[p] =
                               IF p = provider[c] THEN Excess(providers[m][p], held[c][m]) ELSE providers[m][p]
    BY <1>1, DebitType
  <1>4. NoCounts \in [Providers -> Nat] /\ \A p \in Providers : NoCounts[p] = 0
    BY DEF NoCounts
  <1>5. \A m \in Models : providers'[m] = IF count'[m] = 0 THEN NoCounts
                                         ELSE Debit(providers[m], provider[c], held[c][m])
    BY DEF DropBinding
  <1>6. providers' \in [Models -> [Providers -> Nat]]
    <2>1. providers' = [m \in Models |-> IF count'[m] = 0 THEN NoCounts
                                         ELSE Debit(providers[m], provider[c], held[c][m])]
      BY DEF DropBinding
    <2> QED BY <1>3, <1>4, <2>1
  <1>7. infos' \in [Models -> SUBSET Providers]
    BY DEF DropBinding, KeptInfos, TypeOK
  <1>8. \A m \in Models : held'[c][m] = 0
    BY DEF DropBinding, TypeOK
  <1>9. /\ quota' \in [Models -> [Clients -> 0..Window]]
        /\ suspended' \in [Models -> [Clients -> Reasons]]
    BY ClearMarksType DEF DropBinding
  <1>10. TablesOK'
    BY <1>2, <1>6, <1>7, <1>9 DEF TablesOK
  <1> QED BY <1>2, <1>3, <1>4, <1>5, <1>8, <1>10

LEMMA FirstTypes ==
    ASSUME TypeOK, NEW c \in Clients, NEW p \in Everyone, NEW list \in [Models -> Nat],
           FirstRegistration(c, p, list)
    PROVE  /\ TablesOK'
           /\ \A m \in Models : /\ count'[m] = count[m] + list[m]
                               /\ \A q \in Providers : providers'[m][q] =
                                     IF q = p THEN providers[m][q] + list[m] ELSE providers[m][q]
  <1>1. \A m \in Models : list[m] \in Nat /\ count[m] \in Nat /\ providers[m] \in [Providers -> Nat]
    BY DEF TypeOK
  <1>2. \A m \in Models : /\ Credit(providers[m], p, list[m]) \in [Providers -> Nat]
                         /\ \A q \in Providers : Credit(providers[m], p, list[m])[q] =
                               IF q = p THEN providers[m][q] + list[m] ELSE providers[m][q]
    BY <1>1, CreditType
  <1>3. providers' = [m \in Models |-> Credit(providers[m], p, list[m])]
    BY DEF FirstRegistration
  <1>4. providers' \in [Models -> [Providers -> Nat]]
    BY <1>2, <1>3
  <1>5. count' \in [Models -> Nat] /\ \A m \in Models : count'[m] = count[m] + list[m]
    BY <1>1 DEF FirstRegistration
  <1>6. infos' \in [Models -> SUBSET Providers]
    BY DEF FirstRegistration, TypeOK, Everyone
  <1>7. TablesOK'
    BY <1>4, <1>5, <1>6 DEF TablesOK, TypeOK, FirstRegistration, marks
  <1> QED BY <1>2, <1>3, <1>5, <1>7

LEMMA ReconciliationTypes ==
    ASSUME TypeOK, NEW c \in Clients, NEW p \in Everyone, NEW list \in [Models -> Nat],
           Reconciliation(c, p, list)
    PROVE  /\ TablesOK'
           /\ \A m \in Models :
                 LET h == held[c][m]
                     l == list[m]
                     moved == IF p # provider[c] THEN Least(h, l) ELSE 0
                 IN /\ count'[m] = Excess(count[m], Excess(h, l)) + Excess(l, h)
                    /\ \A q \in Providers : providers'[m][q] =
                         (IF q = provider[c] THEN Excess(Excess(providers[m][q], moved), Excess(h, l))
                          ELSE providers[m][q])
                         + (IF q = p THEN Excess(l, h) + moved ELSE 0)
  <1> DEFINE lost(m) == Excess(held[c][m], list[m])
             gained(m) == Excess(list[m], held[c][m])
             left(m) == Debit(Debit(providers[m], provider[c], Moved(c, m, p, list)), provider[c], lost(m))
             made(m) == Credit(Credit(left(m), p, gained(m)), p, Moved(c, m, p, list))
  <1>1. \A m \in Models : held[c][m] \in Nat /\ count[m] \in Nat /\ provider[c] \in Everyone
                         /\ providers[m] \in [Providers -> Nat] /\ list[m] \in Nat
    BY HeldType DEF TypeOK
  <1>2. \A m \in Models : lost(m) \in Nat /\ gained(m) \in Nat /\ Moved(c, m, p, list) \in Nat
    BY <1>1 DEF Excess, Moved, Least
  <1>3. /\ count' = [m \in Models |-> Excess(count[m], lost(m)) + gained(m)]
        /\ providers' = [m \in Models |-> made(m)]
    BY DEF Reconciliation
  <1>4. count' \in [Models -> Nat]
    BY <1>1, <1>2, <1>3 DEF Excess
  <1>5. ASSUME NEW m \in Models
        PROVE  /\ made(m) \in [Providers -> Nat]
               /\ \A q \in Providers : made(m)[q] =
                    (IF q = provider[c] THEN Excess(Excess(providers[m][q], Moved(c, m, p, list)), lost(m))
                     ELSE providers[m][q])
                    + (IF q = p THEN gained(m) + Moved(c, m, p, list) ELSE 0)
    <2> HIDE DEF lost, gained
    <2> DEFINE n == Moved(c, m, p, list)
               one == Debit(providers[m], provider[c], n)
               two == Debit(one, provider[c], lost(m))
               three == Credit(two, p, gained(m))
    <2>1. n \in Nat /\ lost(m) \in Nat /\ gained(m) \in Nat
      BY <1>2
    <2> HIDE DEF n
    <2>2. /\ one \in [Providers -> Nat]
          /\ \A q \in Providers : one[q] = IF q = provider[c] THEN Excess(providers[m][q], n) ELSE providers[m][q]
      BY <1>1, <2>1, DebitType
    <2> HIDE DEF one
    <2>3. /\ two \in [Providers -> Nat]
          /\ \A q \in Providers : two[q] = IF q = provider[c] THEN Excess(one[q], lost(m)) ELSE one[q]
      BY <1>1, <2>1, <2>2, DebitType
    <2> HIDE DEF two
    <2>4. /\ three \in [Providers -> Nat]
          /\ \A q \in Providers : three[q] = IF q = p THEN two[q] + gained(m) ELSE two[q]
      BY <2>1, <2>3, CreditType
    <2> HIDE DEF three
    <2>5. /\ Credit(three, p, n) \in [Providers -> Nat]
          /\ \A q \in Providers : Credit(three, p, n)[q] = IF q = p THEN three[q] + n ELSE three[q]
      BY <2>1, <2>4, CreditType
    <2>6. made(m) = Credit(three, p, n)
      BY DEF n, one, two, three
    <2> QED BY <2>1, <2>2, <2>3, <2>4, <2>5, <2>6 DEF n, Excess
  <1>6. providers' \in [Models -> [Providers -> Nat]]
    BY <1>3, <1>5
  <1>7. infos' \in [Models -> SUBSET Providers]
    BY DEF Reconciliation, KeptInfos, TypeOK, Everyone
  <1>8. /\ quota' \in [Models -> [Clients -> 0..Window]]
        /\ suspended' \in [Models -> [Clients -> Reasons]]
    BY ClearMarksType DEF Reconciliation
  <1>9. TablesOK'
    BY <1>4, <1>6, <1>7, <1>8 DEF TablesOK
  <1> QED BY <1>3, <1>5, <1>9 DEF Moved

\* A client's registration changes: what RegisterClient and UnregisterClient come to.
Rebinds(c) ==
    /\ \/ DropBinding(c)
       \/ \E p \in Everyone, list \in Lists :
             /\ held' = [held EXCEPT ![c] = list]
             /\ provider' = [provider EXCEPT ![c] = p]
             /\ \/ Registered(c) /\ Reconciliation(c, p, list)
                \/ ~Registered(c) /\ FirstRegistration(c, p, list)
    /\ cache' = NoListing /\ request' = request

LEMMA RebindTypes ==
    ASSUME TypeOK, NEW c \in Clients, Rebinds(c)
    PROVE  /\ TypeOK'
           /\ \A d \in Clients \ {c} : held'[d] = held[d] /\ provider'[d] = provider[d]
  <1>1. /\ \A d \in Clients \ {c} : held'[d] = held[d] /\ provider'[d] = provider[d]
        /\ held' \in [Clients -> Lists \union {[m \in Models |-> 0]}]
        /\ provider' \in [Clients -> Everyone]
    <2>1. /\ held \in [Clients -> Lists \union {[m \in Models |-> 0]}]
          /\ provider \in [Clients -> Everyone] /\ NoProvider \in Everyone
      BY DEF TypeOK, Everyone
    <2>2. CASE DropBinding(c)
      BY <2>1, <2>2 DEF DropBinding
    <2>3. ASSUME NEW p \in Everyone, NEW list \in Lists,
                 held' = [held EXCEPT ![c] = list], provider' = [provider EXCEPT ![c] = p]
          PROVE  /\ \A d \in Clients \ {c} : held'[d] = held[d] /\ provider'[d] = provider[d]
                 /\ held' \in [Clients -> Lists \union {[m \in Models |-> 0]}]
                 /\ provider' \in [Clients -> Everyone]
      BY <2>1, <2>3
    <2> QED BY <2>2, <2>3 DEF Rebinds
  <1>2. TablesOK'
    BY RegistryAssumption, DropTypes, FirstTypes, ReconciliationTypes DEF Rebinds
  <1> QED BY <1>1, <1>2, NoListingType DEF Rebinds, TypeOK, TablesOK, Everyone

-----------------------------------------------------------------------------
(* Reports.                                                                *)

RequestType == [Requests -> [step : {"idle"}] \union [step : Steps, client : Clients, model : Models]]

LEMMA ReportTypes ==
    ASSUME TypeOK, NEW r \in Requests, NEW from \in Steps, NEW to \in Steps \union {"done"},
           Report(r, from, to)
    PROVE  /\ request' \in RequestType
           /\ request[r].client \in Clients /\ request[r].model \in Models
           /\ UNCHANGED <<held, provider, registrations>>
  <1>1. request[r] \in [step : Steps, client : Clients, model : Models]
    BY DEF TypeOK, Report, Steps
  <1>2. request' = [request EXCEPT ![r] = IF to = "done" THEN Idle ELSE [@ EXCEPT !.step = to]]
    BY DEF Report
  <1>3. Idle \in [step : {"idle"}]
    BY DEF Idle
  <1>4. to # "done" => [request[r] EXCEPT !.step = to] \in [step : Steps, client : Clients, model : Models]
    BY <1>1
  <1>5. request' \in RequestType
    BY <1>2, <1>3, <1>4 DEF RequestType, TypeOK
  <1> QED BY <1>1, <1>5 DEF Report

\* What a call to the registry does to the marks: nothing, or it throws the listing away.
Marked == \/ UNCHANGED <<marks, cache>>
          \/ /\ cache' = NoListing
             /\ quota' \in [Models -> [Clients -> 0..Window]]
             /\ suspended' \in [Models -> [Clients -> Reasons]]

LEMMA MarkTypes ==
    ASSUME TypeOK, NEW c \in Clients, NEW m \in Models, NEW reason \in Reasons,
           \/ SetModelQuotaExceeded(c, m) \/ ClearModelQuotaExceeded(c, m)
           \/ SuspendClientModel(c, m, reason) \/ ResumeClientModel(c, m)
    PROVE  Marked
  <1>1. UNCHANGED suspended => suspended' \in [Models -> [Clients -> Reasons]]
    BY DEF TypeOK
  <1>2. UNCHANGED quota => quota' \in [Models -> [Clients -> 0..Window]]
    BY DEF TypeOK
  <1>3. \A n \in 0..Window : [quota EXCEPT ![m][c] = n] \in [Models -> [Clients -> 0..Window]]
    BY DEF TypeOK
  <1>4. \A why \in Reasons : [suspended EXCEPT ![m][c] = why] \in [Models -> [Clients -> Reasons]]
    BY DEF TypeOK
  <1>5. 0 \in 0..Window /\ Window \in 0..Window /\ "no" \in Reasons
    BY RegistryAssumption DEF Reasons
  <1>6. CASE SetModelQuotaExceeded(c, m)
    BY <1>1, <1>3, <1>5, <1>6 DEF SetModelQuotaExceeded, Marked, marks, Invalidate
  <1>7. CASE ClearModelQuotaExceeded(c, m)
    BY <1>1, <1>3, <1>5, <1>7 DEF ClearModelQuotaExceeded, Marked, marks, Invalidate
  <1>8. CASE SuspendClientModel(c, m, reason)
    BY <1>2, <1>4, <1>5, <1>8 DEF SuspendClientModel, Marked, marks, Invalidate
  <1>9. CASE ResumeClientModel(c, m)
    BY <1>2, <1>4, <1>5, <1>9 DEF ResumeClientModel, Marked, marks, Invalidate
  <1> QED BY <1>6, <1>7, <1>8, <1>9

Reporting(r) == Succeeds(r) \/ Resumes(r) \/ OverQuota(r) \/ Cools(r) \/ Refused(r) \/ FailsOtherwise(r)

LEMMA ReportingTypes ==
    ASSUME TypeOK, NEW r \in Requests, Reporting(r)
    PROVE  request' \in RequestType /\ Marked /\ UNCHANGED <<held, provider, registrations>>
  <1> DEFINE Reported == /\ request' \in RequestType
                         /\ request[r].client \in Clients /\ request[r].model \in Models
                         /\ UNCHANGED <<held, provider, registrations>>
  <1>1. CASE Succeeds(r)
    <2>1. Reported
      BY <1>1, ReportTypes DEF Succeeds, Steps
    <2> QED BY <1>1, <2>1, MarkTypes DEF Succeeds, Reasons
  <1>2. CASE Resumes(r)
    <2>1. Reported
      BY <1>2, ReportTypes DEF Resumes, Steps
    <2> QED BY <1>2, <2>1, MarkTypes DEF Resumes, Reasons
  <1>3. CASE OverQuota(r)
    <2>1. Reported
      BY <1>3, ReportTypes DEF OverQuota, Steps
    <2> QED BY <1>3, <2>1, MarkTypes DEF OverQuota, Reasons
  <1>4. CASE Cools(r)
    <2>1. Reported
      BY <1>4, ReportTypes DEF Cools, Steps
    <2> QED BY <1>4, <2>1, MarkTypes DEF Cools, Reasons
  <1>5. CASE Refused(r)
    <2>1. Reported
      BY <1>5, ReportTypes DEF Refused, Steps
    <2> QED BY <1>5, <2>1, MarkTypes DEF Refused, Reasons
  <1>6. CASE FailsOtherwise(r)
    <2>1. Reported
      BY <1>6, ReportTypes DEF FailsOtherwise, Steps
    <2> QED BY <1>6, <2>1 DEF FailsOtherwise, Marked
  <1> QED BY <1>1, <1>2, <1>3, <1>4, <1>5, <1>6 DEF Reporting

-----------------------------------------------------------------------------
(* Types, of every step.                                                   *)

CacheType == [valid : BOOLEAN, models : SUBSET Models, left : (0..Window) \union {Never}]

LEMMA ListingTypes ==
    ASSUME TypeOK, GetAvailableModels
    PROVE  TypeOK'
  <1>1. [valid |-> TRUE, models |-> Listing, left |-> ListedFor] \in CacheType
    BY ListedForType DEF CacheType, Listing
  <1>2. cache' \in CacheType
    BY <1>1 DEF GetAvailableModels, TypeOK, CacheType
  <1> QED BY <1>2 DEF TypeOK, CacheType, GetAvailableModels, registrations, marks

LEMMA TickTypes ==
    ASSUME TypeOK, Tick
    PROVE  TypeOK'
  <1>1. quota' \in [Models -> [Clients -> 0..Window]]
    <2>1. \A m \in Models, c \in Clients : Excess(quota[m][c], 1) \in 0..Window
      BY RegistryAssumption DEF TypeOK, Excess
    <2> QED BY <2>1 DEF Tick
  <1>2. cache' \in CacheType
    <2>1. cache \in CacheType
      BY DEF TypeOK, CacheType
    <2>2. cache.left > 0 => [cache EXCEPT !.left = @ - 1] \in CacheType
      BY <2>1, RegistryAssumption DEF CacheType, Never
    <2> QED BY <2>1, <2>2 DEF Tick
  <1> QED BY <1>1, <1>2 DEF TypeOK, CacheType, Tick, registrations

LEMMA StartTypes ==
    ASSUME TypeOK, NEW r \in Requests, NEW c \in Clients, NEW m \in Models, Start(r, c, m)
    PROVE  TypeOK'
  <1>1. [step |-> "asked", client |-> c, model |-> m] \in [step : Steps, client : Clients, model : Models]
    BY DEF Steps
  <1>2. request' \in RequestType
    BY <1>1 DEF Start, TypeOK, RequestType
  <1> QED BY <1>2 DEF TypeOK, Start, registrations, marks, RequestType

LEMMA InitTypes == Init => TypeOK
  BY RegistryAssumption, NoListingType DEF Init, TypeOK, NoCounts, Reasons, Idle

\* What a step is: a client's registration changes, or something else does.
LEMMA StepKinds ==
    ASSUME TypeOK, [Next]_vars
    PROVE  \/ \E c \in Clients : Rebinds(c)
           \/ \E r \in Requests, c \in Clients, m \in Models : Start(r, c, m)
           \/ \E r \in Requests : Reporting(r)
           \/ GetAvailableModels
           \/ Tick
           \/ UNCHANGED vars
  <1>1. ASSUME NEW c \in Clients, NEW p \in Everyone, NEW list \in Lists, RegisterClient(c, p, list)
        PROVE  Rebinds(c)
    BY <1>1 DEF RegisterClient, Rebinds, Invalidate
  <1>2. ASSUME NEW c \in Clients, UnregisterClient(c)
        PROVE  Rebinds(c)
    BY <1>2 DEF UnregisterClient, Rebinds, Invalidate
  <1> QED BY <1>1, <1>2 DEF Next, Everyone, Reporting

LEMMA TypeStep ==
    ASSUME TypeOK, [Next]_vars
    PROVE  TypeOK'
  <1>1. CASE \E c \in Clients : Rebinds(c)
    BY <1>1, RebindTypes
  <1>2. CASE \E r \in Requests, c \in Clients, m \in Models : Start(r, c, m)
    BY <1>2, StartTypes
  <1>3. CASE \E r \in Requests : Reporting(r)
    <2>1. request' \in RequestType /\ Marked /\ UNCHANGED <<held, provider, registrations>>
      BY <1>3, ReportingTypes
    <2> QED BY <2>1, NoListingType DEF TypeOK, Marked, marks, registrations, RequestType
  <1>4. CASE GetAvailableModels
    BY <1>4, ListingTypes
  <1>5. CASE Tick
    BY <1>5, TickTypes
  <1>6. CASE UNCHANGED vars
    BY <1>6 DEF vars, TypeOK, registrations, marks
  <1> QED BY <1>1, <1>2, <1>3, <1>4, <1>5, <1>6, StepKinds

\* The registry's tables and marks, the listing and what each goroutine will report
\* keep their types through every sequence of registrations and reports.
THEOREM TypeCorrect == Spec => []TypeOK
  BY InitTypes, TypeStep, PTL DEF Spec

-----------------------------------------------------------------------------
(* The counters.                                                           *)

\* Only a changed registration touches the bindings and the counters.
LEMMA OtherSteps ==
    ASSUME TypeOK, [Next]_vars, ~\E c \in Clients : Rebinds(c)
    PROVE  UNCHANGED <<held, provider, registrations>>
  <1>1. CASE \E r \in Requests : Reporting(r)
    BY <1>1, ReportingTypes
  <1> QED BY <1>1, StepKinds DEF Start, GetAvailableModels, Tick, vars

LEMMA InitCounted == Init => Counted
  <1> SUFFICES ASSUME Init PROVE Counted
    OBVIOUS
  <1>1. \A m \in Models : \A ps : Bindings(m, ps) = {}
    BY DEF Bindings, Init
  <1>2. \A m \in Models : count[m] = 0 /\ \A p \in Providers : providers[m][p] = 0
    BY DEF Init, NoCounts
  <1>3. Countable /\ CountsExact
    BY <1>1, <1>2, FS_EmptySet DEF Countable, CountsExact
  <1> QED BY <1>3, InitTypes DEF Counted

LEMMA RebindCounts ==
    ASSUME Counted, NEW c \in Clients, Rebinds(c)
    PROVE  Counted'
  <1> DEFINE Part(m) ==
        /\ count'[m] = Cardinality(OfOthers(c, m, Everyone)) + held'[c][m]
        /\ \A p \in Providers : providers'[m][p] = Cardinality(OfOthers(c, m, {p}))
                                   + (IF provider'[c] = p THEN held'[c][m] ELSE 0)
  <1>1. /\ TypeOK /\ TypeOK'
        /\ \A d \in Clients \ {c} : held'[d] = held[d] /\ provider'[d] = provider[d]
    BY RebindTypes DEF Counted
  <1>2. CASE DropBinding(c)
    <2>1. ASSUME NEW m \in Models PROVE Part(m)
      <3>1. /\ count'[m] = Excess(count[m], held[c][m])
            /\ held'[c][m] = 0
            /\ \A p \in Providers : providers'[m][p] =
                  IF count'[m] # 0 /\ p = provider[c]
                  THEN Excess(providers[m][p], held[c][m])
                  ELSE IF count'[m] = 0 THEN 0 ELSE providers[m][p]
        BY <1>1, <1>2, DropTypes
      <3> QED BY <3>1, Sums DEF Excess
    <2> HIDE DEF Part
    <2>2. \A m \in Models : Part(m)
      BY <2>1
    <2> QED BY <1>1, <2>2, Recount DEF Part
  <1>3. ASSUME NEW p \in Everyone, NEW list \in Lists,
               held' = [held EXCEPT ![c] = list], provider' = [provider EXCEPT ![c] = p],
               ~Registered(c), FirstRegistration(c, p, list)
        PROVE  Counted'
    <2>0. list \in [Models -> Nat] /\ held'[c] = list /\ provider'[c] = p
      BY <1>1, <1>3, RegistryAssumption DEF TypeOK
    <2>1. ASSUME NEW m \in Models PROVE Part(m)
      <3>1. /\ count'[m] = count[m] + list[m]
            /\ \A q \in Providers : providers'[m][q] =
                  IF q = p THEN providers[m][q] + list[m] ELSE providers[m][q]
        BY <1>1, <1>3, <2>0, FirstTypes
      <3>2. held[c][m] = 0
        BY <1>3, Sums DEF Registered
      <3>3. list[m] \in Nat
        BY <2>0
      <3> QED BY <2>0, <3>1, <3>2, <3>3, Sums
    <2> HIDE DEF Part
    <2>2. \A m \in Models : Part(m)
      BY <2>1
    <2> QED BY <1>1, <2>2, Recount DEF Part
  <1>4. ASSUME NEW p \in Everyone, NEW list \in Lists,
               held' = [held EXCEPT ![c] = list], provider' = [provider EXCEPT ![c] = p],
               Reconciliation(c, p, list)
        PROVE  Counted'
    <2>0. list \in [Models -> Nat] /\ held'[c] = list /\ provider'[c] = p
      BY <1>1, <1>4, RegistryAssumption DEF TypeOK
    <2>1. ASSUME NEW m \in Models PROVE Part(m)
      <3> DEFINE h == held[c][m]
                 l == list[m]
                 moved == IF p # provider[c] THEN Least(h, l) ELSE 0
      <3>1. /\ count'[m] = Excess(count[m], Excess(h, l)) + Excess(l, h)
            /\ \A q \in Providers : providers'[m][q] =
                 (IF q = provider[c] THEN Excess(Excess(providers[m][q], moved), Excess(h, l))
                  ELSE providers[m][q])
                 + (IF q = p THEN Excess(l, h) + moved ELSE 0)
        BY <1>1, <1>4, <2>0, ReconciliationTypes
      <3>2. l \in Nat /\ h \in Nat
        BY <2>0, Sums
      <3>3. held'[c][m] = l
        BY <2>0
      <3>4. count'[m] = Cardinality(OfOthers(c, m, Everyone)) + held'[c][m]
        <4> HIDE DEF h, l, moved
        <4> QED BY <3>1, <3>2, <3>3, Sums DEF Excess, h
      <3>5. ASSUME NEW q \in Providers
            PROVE  providers'[m][q] = Cardinality(OfOthers(c, m, {q}))
                                      + (IF provider'[c] = q THEN held'[c][m] ELSE 0)
        <4>1. providers[m][q] = Cardinality(OfOthers(c, m, {q})) + (IF provider[c] = q THEN h ELSE 0)
              /\ Cardinality(OfOthers(c, m, {q})) \in Nat
          BY Sums
        <4>2. moved = IF p # provider[c] THEN Least(h, l) ELSE 0
          OBVIOUS
        <4> HIDE DEF h, l, moved
        <4> QED BY <2>0, <3>1, <3>2, <3>3, <4>1, <4>2 DEF Excess, Least
      <3> QED BY <3>4, <3>5
    <2> HIDE DEF Part
    <2>2. \A m \in Models : Part(m)
      BY <2>1
    <2> QED BY <1>1, <2>2, Recount DEF Part
  <1> QED BY <1>2, <1>3, <1>4 DEF Rebinds

LEMMA CountedStep ==
    ASSUME Counted, [Next]_vars
    PROVE  Counted'
  <1>1. CASE \E c \in Clients : Rebinds(c)
    BY <1>1, RebindCounts
  <1>2. CASE ~\E c \in Clients : Rebinds(c)
    <2>1. UNCHANGED <<held, provider, count, providers>>
      BY <1>2, OtherSteps DEF Counted, registrations
    <2>2. \A m, ps : Bindings(m, ps)' = Bindings(m, ps)
      BY <2>1 DEF Bindings
    <2> QED BY <2>1, <2>2, TypeStep DEF Counted, Countable, CountsExact
  <1> QED BY <1>1, <1>2

\* However clients register, change their lists or their provider, and leave, the total
\* of every model and its counts per provider are those of the bindings that there are.
THEOREM Recounted == Spec => []CountsExact
  <1>1. Spec => []Counted
    BY InitCounted, CountedStep, PTL DEF Spec
  <1>2. Counted => CountsExact
    BY DEF Counted
  <1> QED BY <1>1, <1>2, PTL

-----------------------------------------------------------------------------
(* The providers' definitions.                                             *)

Defined == Counted /\ InfosFollowProviders

LEMMA RebindInfos ==
    ASSUME Defined, NEW c \in Clients, Rebinds(c)
    PROVE  InfosFollowProviders'
  <1>1. TypeOK /\ TypeOK' /\ Counted
    BY RebindTypes DEF Defined, Counted
  <1>2. SUFFICES ASSUME NEW m \in Models, NEW q \in Providers
                 PROVE  q \in infos'[m] <=> providers'[m][q] > 0
    BY <1>1 DEF InfosFollowProviders, TypeOK
  <1>3. /\ q \in infos[m] <=> providers[m][q] > 0
        /\ providers[m][q] \in Nat /\ count[m] \in Nat /\ held[c][m] \in Nat
        /\ provider[c] = q => providers[m][q] >= held[c][m]
    <2>1. q \in infos[m] <=> providers[m][q] > 0
      BY DEF Defined, InfosFollowProviders
    <2>2. providers[m][q] \in Nat /\ count[m] \in Nat
      BY <1>1 DEF TypeOK
    <2>3. /\ held[c][m] \in Nat /\ Cardinality(OfOthers(c, m, {q})) \in Nat
          /\ providers[m][q] = Cardinality(OfOthers(c, m, {q}))
                               + (IF provider[c] = q THEN held[c][m] ELSE 0)
      BY <1>1, Sums
    <2> QED BY <2>1, <2>2, <2>3
  <1>4. CASE DropBinding(c)
    <2>1. /\ providers'[m][q] = IF count'[m] # 0 /\ q = provider[c]
                                THEN Excess(providers[m][q], held[c][m])
                                ELSE IF count'[m] = 0 THEN 0 ELSE providers[m][q]
      BY <1>1, <1>4, DropTypes
    <2>2. infos'[m] = IF count'[m] = 0 THEN {} ELSE KeptInfos(m, provider[c], providers'[m])
      BY <1>4 DEF DropBinding
    <2> QED BY <1>3, <2>1, <2>2 DEF KeptInfos, Excess
  <1>5. ASSUME NEW p \in Everyone, NEW list \in Lists, FirstRegistration(c, p, list)
        PROVE  q \in infos'[m] <=> providers'[m][q] > 0
    <2>0. list \in [Models -> Nat] /\ list[m] \in Nat
      BY RegistryAssumption
    <2>1. providers'[m][q] = IF q = p THEN providers[m][q] + list[m] ELSE providers[m][q]
      BY <1>1, <1>5, <2>0, FirstTypes
    <2>2. infos'[m] = IF list[m] > 0 THEN infos[m] \union ({p} \ {NoProvider}) ELSE infos[m]
      BY <1>5 DEF FirstRegistration
    <2> QED BY <1>3, <2>0, <2>1, <2>2, RegistryAssumption
  <1>6. ASSUME NEW p \in Everyone, NEW list \in Lists, Reconciliation(c, p, list)
        PROVE  q \in infos'[m] <=> providers'[m][q] > 0
    <2>0. list \in [Models -> Nat]
      BY RegistryAssumption
    <2> DEFINE h == held[c][m]
               l == list[m]
               moved == IF p # provider[c] THEN Least(h, l) ELSE 0
    <2>1. providers'[m][q] =
             (IF q = provider[c] THEN Excess(Excess(providers[m][q], moved), Excess(h, l))
              ELSE providers[m][q])
             + (IF q = p THEN Excess(l, h) + moved ELSE 0)
      BY <1>1, <1>6, <2>0, ReconciliationTypes
    <2>2. infos'[m] = KeptInfos(m, provider[c], providers'[m])
                      \union (IF l > 0 THEN {p} \ {NoProvider} ELSE {})
      BY <1>6 DEF Reconciliation
    <2>3. q \in infos'[m] <=> \/ q \in infos[m] /\ (q = provider[c] => providers'[m][q] > 0)
                              \/ l > 0 /\ q = p
      BY <2>2, RegistryAssumption DEF KeptInfos
    <2>4. l \in Nat /\ h \in Nat /\ (provider[c] = q => providers[m][q] >= h)
      BY <1>3, <2>0
    <2>5. moved = IF p # provider[c] THEN Least(h, l) ELSE 0
      OBVIOUS
    <2> HIDE DEF h, l, moved
    <2> QED BY <1>3, <2>1, <2>3, <2>4, <2>5 DEF Excess, Least
  <1> QED BY <1>4, <1>5, <1>6 DEF Rebinds

\* InfoByProvider has a definition of a model for a provider exactly while one of the
\* provider's clients offers the model, through changed lists and changed providers too.
THEOREM Definitions == Spec => []InfosFollowProviders
  <1>1. Init => Defined
    BY InitCounted DEF Defined, InfosFollowProviders, Init, NoCounts
  <1>2. Defined /\ [Next]_vars => Defined'
    <2> SUFFICES ASSUME Defined, [Next]_vars PROVE Defined'
      OBVIOUS
    <2>1. Counted'
      BY CountedStep DEF Defined
    <2>2. CASE \E c \in Clients : Rebinds(c)
      BY <2>1, <2>2, RebindInfos DEF Defined
    <2>3. CASE ~\E c \in Clients : Rebinds(c)
      <3>1. UNCHANGED <<infos, providers>>
        BY <2>3, OtherSteps DEF Defined, Counted, registrations
      <3> QED BY <2>1, <3>1 DEF Defined, InfosFollowProviders
    <2> QED BY <2>2, <2>3
  <1>3. Defined => InfosFollowProviders
    BY DEF Defined
  <1> QED BY <1>1, <1>2, <1>3, PTL DEF Spec

-----------------------------------------------------------------------------
(* The listing.                                                            *)

Listed == TypeOK /\ CacheFresh /\ Lapses

\* What the listing is made from: a quota mark counts until it is used up.
LEMMA SameListing ==
    ASSUME UNCHANGED <<count, suspended>>,
           \A m \in Models, c \in Clients : quota'[m][c] > 0 <=> quota[m][c] > 0
    PROVE  Listing' = Listing
  <1>1. \A m \in Models : OverQuotaClients(m)' = OverQuotaClients(m)
    BY DEF OverQuotaClients
  <1>2. \A m \in Models, reason \in Reasons : Suspended(m, reason)' = Suspended(m, reason)
    BY DEF Suspended
  <1>3. \A m \in Models : Available(m)' = Available(m)
    BY <1>1, <1>2 DEF Available, Reasons
  <1> QED BY <1>3 DEF Listing

LEMMA TickListed ==
    ASSUME Listed, Tick
    PROVE  Listed'
  <1>1. TypeOK /\ TypeOK'
    BY TickTypes DEF Listed
  <1>2. CASE Fresh(cache')
    <2>1. cache.left \in (0..Window) \union {Never} /\ cache.valid \in BOOLEAN
      BY <1>1 DEF TypeOK
    <2>2. cache'.models = cache.models /\ cache'.valid = cache.valid
          /\ cache'.left = IF cache.left > 0 THEN cache.left - 1 ELSE cache.left
      BY <1>1 DEF Tick, TypeOK
    <2>3. Fresh(cache)
      BY <1>2, <2>1, <2>2, RegistryAssumption DEF Fresh, Never
    <2>4. \A m \in Models, c \in Clients :
             /\ quota[m][c] \in Nat
             /\ quota'[m][c] = Excess(quota[m][c], 1)
             /\ quota[m][c] > 0 => cache.left > 0 /\ cache.left <= quota[m][c]
      BY <1>1, <2>3, RegistryAssumption DEF Listed, Lapses, Tick, TypeOK
    <2>5. \A m \in Models, c \in Clients : quota[m][c] > 0 => quota'[m][c] > 0
      <3> SUFFICES ASSUME NEW m \in Models, NEW c \in Clients, quota[m][c] > 0
                   PROVE  quota'[m][c] > 0
        OBVIOUS
      <3>1. cache'.left # 0
        BY <1>2 DEF Fresh
      <3> QED BY <2>1, <2>2, <2>4, <3>1, RegistryAssumption DEF Excess, Never
    <2>6. \A m \in Models, c \in Clients : quota'[m][c] > 0 => quota[m][c] > 0
      BY <2>4 DEF Excess
    <2>7. Listing' = Listing
      BY <2>5, <2>6, SameListing DEF Tick, registrations
    <2>8. cache'.models = Listing'
      BY <2>2, <2>3, <2>7 DEF Listed, CacheFresh
    <2>9. Lapses'
      <3> SUFFICES ASSUME NEW m \in Models, NEW c \in Clients, quota'[m][c] > 0
                   PROVE  cache'.left > 0 /\ cache'.left <= quota'[m][c]
        BY DEF Lapses
      <3>1. cache.left > 0 /\ cache.left <= quota[m][c] /\ cache'.left # 0
        BY <1>2, <2>4, <2>6 DEF Fresh
      <3>2. cache'.left = cache.left - 1
        BY <2>2, <3>1
      <3>3. quota[m][c] \in Nat /\ quota'[m][c] = Excess(quota[m][c], 1)
        BY <2>4
      <3>4. cache.left \in Int
        BY <2>1, RegistryAssumption DEF Never
      <3> QED BY <3>1, <3>2, <3>3, <3>4 DEF Excess
    <2> QED BY <1>1, <2>8, <2>9 DEF Listed, CacheFresh
  <1>3. CASE ~Fresh(cache')
    BY <1>1, <1>3 DEF Listed, CacheFresh, Lapses, Fresh
  <1> QED BY <1>2, <1>3

\* A listing made or kept over an unchanged registry.
LEMMA SameListed ==
    ASSUME Listed, TypeOK', UNCHANGED <<count, quota, suspended, cache>>
    PROVE  Listed'
  <1>1. Listing' = Listing
    BY SameListing
  <1> QED BY <1>1 DEF Listed, CacheFresh, Lapses, Fresh

LEMMA NoneListed ==
    ASSUME TypeOK', cache' = NoListing
    PROVE  Listed'
  BY DEF Listed, CacheFresh, Lapses, Fresh, NoListing

\* A listing from the cache is what a new one would be: no registration, report or
\* recovery of a client leaves a stale one behind.
THEOREM FreshListing == Spec => []CacheFresh
  <1>1. Init => Listed
    BY InitTypes DEF Init, Listed, CacheFresh, Lapses, Fresh, NoListing
  <1>2. Listed /\ [Next]_vars => Listed'
    <2> SUFFICES ASSUME Listed, [Next]_vars PROVE Listed'
      OBVIOUS
    <2>1. TypeOK /\ TypeOK'
      BY TypeStep DEF Listed
    <2>2. CASE \E c \in Clients : Rebinds(c)
      BY <2>1, <2>2, NoneListed DEF Rebinds
    <2>3. CASE \E r \in Requests, c \in Clients, m \in Models : Start(r, c, m)
      BY <2>1, <2>3, SameListed DEF Start, registrations, marks
    <2>4. CASE \E r \in Requests : Reporting(r)
      <3>1. Marked /\ UNCHANGED <<held, provider, registrations>>
        BY <2>1, <2>4, ReportingTypes
      <3>2. CASE UNCHANGED <<marks, cache>>
        BY <2>1, <3>1, <3>2, SameListed DEF registrations, marks
      <3>3. CASE cache' = NoListing
        BY <2>1, <3>3, NoneListed
      <3> QED BY <3>1, <3>2, <3>3 DEF Marked
    <2>5. CASE GetAvailableModels
      <3>1. CASE Fresh(cache)
        BY <2>1, <2>5, <3>1, SameListed DEF GetAvailableModels, registrations, marks
      <3>2. CASE ~Fresh(cache)
        <4>1. cache' = [valid |-> TRUE, models |-> Listing, left |-> ListedFor]
          BY <2>5, <3>2 DEF GetAvailableModels
        <4>2. Listing' = Listing /\ quota' = quota
          BY <2>5, SameListing DEF GetAvailableModels, registrations, marks
        <4>3. cache'.models = Listing' /\ cache'.left = ListedFor
          BY <4>1, <4>2
        <4>4. Lapses'
          BY <2>1, <4>2, <4>3, ListedForType DEF Lapses
        <4> QED BY <2>1, <4>3, <4>4 DEF Listed, CacheFresh
      <3> QED BY <3>1, <3>2
    <2>6. CASE Tick
      BY <2>6, TickListed
    <2>7. CASE UNCHANGED vars
      BY <2>1, <2>7, SameListed DEF vars, registrations, marks
    <2> QED BY <2>1, <2>2, <2>3, <2>4, <2>5, <2>6, <2>7, StepKinds
  <1>3. Listed => CacheFresh
    BY DEF Listed
  <1> QED BY <1>1, <1>2, <1>3, PTL DEF Spec
=============================================================================
