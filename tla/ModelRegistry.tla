---------------------------- MODULE ModelRegistry ----------------------------
(***************************************************************************)
(* The global model registry of internal/registry/model_registry.go: which *)
(* client (credential) offers which model, how many clients a model has,   *)
(* in all and per provider, which of them are over quota or suspended, and *)
(* the cached listing of the models that can be had.  Every method runs    *)
(* under one mutex, so each is one step; what interleaves is the service   *)
(* (re-)registering clients with the requests that report what became of   *)
(* them (Manager.MarkResult makes up to two registry calls per result,     *)
(* after the manager's lock is released).                                  *)
(*                                                                         *)
(* Metadata (ModelInfo) is left out but for the fact that a provider has a *)
(* definition of its own.  A quota mark is the number of ticks it has left *)
(* of modelQuotaExceededWindow; one whose window is over and one that was  *)
(* deleted (CleanupExpiredQuotas) are the same to every reader.            *)
(***************************************************************************)
EXTENDS Integers, FiniteSets

CONSTANTS Clients, Models, Providers,
          NoProvider,  \* the empty provider string
          Lists,       \* what a client may offer: how often it lists each model
          Window,      \* modelQuotaExceededWindow in ticks
          Requests     \* goroutines that report results

ASSUME RegistryAssumption ==
    /\ IsFiniteSet(Clients) /\ NoProvider \notin Providers
    /\ Lists \subseteq [Models -> Nat] /\ Window \in Nat \ {0}

VARIABLES
  held,       \* clientModels: how often a client lists a model
  provider,   \* clientProviders
  count, providers, infos,   \* ModelRegistration.Count, .Providers, .InfoByProvider
  quota, suspended,          \* .QuotaExceededClients, .SuspendedClients
  cache,      \* availableModelsCache, of one handler type
  request     \* what each reporting goroutine is about to do

registrations == <<count, providers, infos>>
marks == <<quota, suspended>>
vars == <<held, provider, registrations, marks, cache, request>>

Reasons == {"no", "quota", "other"}
Never == -1
NoListing == [valid |-> FALSE, models |-> {}, left |-> Never]
Idle == [step |-> "idle"]

Least(s, t) == IF s <= t THEN s ELSE t
Difference(s, t) == s - t              \* bug: not cut off at zero
Excess(s, t) == IF s > t THEN s - t ELSE 0

Registered(c) == \E m \in Models : held[c][m] > 0
Offers(c, m) == held[c][m] > 0

-----------------------------------------------------------------------------
(* addModelRegistration and removeModelRegistration, n times over, on the  *)
(* per-provider counts of one model.                                       *)
Credit(table, p, n) == IF p = NoProvider THEN table ELSE [table EXCEPT ![p] = @ + n]
DebitNot(table, p, n) == table         \* bug: only the total goes down
Debit(table, p, n) == IF p = NoProvider THEN table ELSE [table EXCEPT ![p] = Excess(@, n)]

(* The provider's definition goes with its last client. *)
AllInfos(m, p, left) == infos[m]       \* bug: it stays
KeptInfos(m, p, left) == {q \in infos[m] : q = p => left[q] > 0}

(* A model left without clients is deleted with everything kept for it.    *)
NoCounts == [p \in Providers |-> 0]
Unmarked(table, gone) ==
    [m \in Models |-> [c \in Clients |-> IF <<c, m>> \in gone THEN table.none ELSE table.of[m][c]]]
ClearMarks(gone) ==
    /\ quota' = Unmarked([of |-> quota, none |-> 0], gone)
    /\ suspended' = Unmarked([of |-> suspended, none |-> "no"], gone)
DeletedModels == {m \in Models : count'[m] = 0}

InvalidateNot == cache' = cache        \* bug: the listing survives the change
Invalidate == cache' = NoListing

(* unregisterClientInternal. *)
DropBinding(c) ==
    /\ held' = [held EXCEPT ![c] = [m \in Models |-> 0]]
    /\ provider' = [provider EXCEPT ![c] = NoProvider]
    /\ count' = [m \in Models |-> Excess(count[m], held[c][m])]
    /\ providers' = [m \in Models |-> IF count'[m] = 0 THEN NoCounts
                                      ELSE Debit(providers[m], provider[c], held[c][m])]
    /\ infos' = [m \in Models |-> IF count'[m] = 0 THEN {}
                                  ELSE KeptInfos(m, provider[c], providers'[m])]
    /\ ClearMarks({x \in Clients \X Models :
                     (x[1] = c /\ held[c][x[2]] > 0) \/ x[2] \in DeletedModels})

UnregisterClient(c) ==
    /\ DropBinding(c)
    /\ Invalidate
    /\ UNCHANGED request

(* RegisterClient: first registration, all additions.  Marks of the client *)
(* on a model that others offer are not touched.                           *)
FirstRegistration(c, p, list) ==
    /\ count' = [m \in Models |-> count[m] + list[m]]
    /\ providers' = [m \in Models |-> Credit(providers[m], p, list[m])]
    /\ infos' = [m \in Models |-> IF list[m] > 0 THEN infos[m] \union ({p} \ {NoProvider}) ELSE infos[m]]
    /\ UNCHANGED marks

(* RegisterClient: reconciliation of an existing registration.  With a new *)
(* provider the copies a model keeps move from the old one's count to the  *)
(* new one's; the copies it loses leave the old, the copies it gains join  *)
(* the new.                                                                *)
Moved(c, m, p, list) == IF p # provider[c] THEN Least(held[c][m], list[m]) ELSE 0
Reconciliation(c, p, list) ==
    LET lost(m) == Excess(held[c][m], list[m])
        gained(m) == Excess(list[m], held[c][m])
    IN
    /\ count' = [m \in Models |-> Excess(count[m], lost(m)) + gained(m)]
    /\ providers' = [m \in Models |->
          LET left == Debit(Debit(providers[m], provider[c], Moved(c, m, p, list)),
                            provider[c], lost(m))
          IN Credit(Credit(left, p, gained(m)), p, Moved(c, m, p, list))]
    /\ infos' = [m \in Models |->
          KeptInfos(m, provider[c], providers'[m])
             \union (IF list[m] > 0 THEN {p} \ {NoProvider} ELSE {})]
    /\ ClearMarks({x \in Clients \X Models :
                     (x[1] = c /\ held[c][x[2]] + list[x[2]] > 0) \/ x[2] \in DeletedModels})

RegisterClient(c, p, list) ==
    /\ IF \A m \in Models : list[m] = 0 THEN DropBinding(c)
       ELSE /\ IF Registered(c) THEN Reconciliation(c, p, list)
                                ELSE FirstRegistration(c, p, list)
            /\ held' = [held EXCEPT ![c] = list]
            /\ provider' = [provider EXCEPT ![c] = p]
    /\ Invalidate
    /\ UNCHANGED request

-----------------------------------------------------------------------------
(* The four calls a result makes; none asks whether the client (still)     *)
(* offers the model, only whether somebody does.                           *)
SetModelQuotaExceeded(c, m) ==
    /\ IF count[m] > 0 THEN quota' = [quota EXCEPT ![m][c] = Window] /\ Invalidate
                       ELSE UNCHANGED <<quota, cache>>
    /\ UNCHANGED suspended

ClearModelQuotaExceeded(c, m) ==
    /\ IF count[m] > 0 THEN quota' = [quota EXCEPT ![m][c] = 0] /\ Invalidate
                       ELSE UNCHANGED <<quota, cache>>
    /\ UNCHANGED suspended

SuspendClientModel(c, m, reason) ==
    /\ IF count[m] > 0 /\ suspended[m][c] = "no"
       THEN suspended' = [suspended EXCEPT ![m][c] = reason] /\ Invalidate
       ELSE UNCHANGED <<suspended, cache>>
    /\ UNCHANGED quota

ResumeClientModel(c, m) ==
    /\ IF count[m] > 0 /\ suspended[m][c] # "no"
       THEN suspended' = [suspended EXCEPT ![m][c] = "no"] /\ Invalidate
       ELSE UNCHANGED <<suspended, cache>>
    /\ UNCHANGED quota

(* A request is given a client that offers the model ... *)
Start(r, c, m) ==
    /\ request[r] = Idle /\ Offers(c, m)
    /\ request' = [request EXCEPT ![r] = [step |-> "asked", client |-> c, model |-> m]]
    /\ UNCHANGED <<held, provider, registrations, marks, cache>>

(* ... and its MarkResult makes its first call to the registry, if any,    *)
(* and then its second.                                                    *)
Report(r, from, to) ==
    /\ request[r].step = from
    /\ request' = [request EXCEPT ![r] = IF to = "done" THEN Idle ELSE [@ EXCEPT !.step = to]]
    /\ UNCHANGED <<held, provider, registrations>>
Succeeds(r) == /\ Report(r, "asked", "resume")
               /\ ClearModelQuotaExceeded(request[r].client, request[r].model)
Resumes(r) == /\ Report(r, "resume", "done")
              /\ ResumeClientModel(request[r].client, request[r].model)
OverQuota(r) == /\ Report(r, "asked", "cool")
                /\ SetModelQuotaExceeded(request[r].client, request[r].model)
Cools(r) == /\ Report(r, "cool", "done")
            /\ SuspendClientModel(request[r].client, request[r].model, "quota")
Refused(r) == /\ Report(r, "asked", "done")
              /\ SuspendClientModel(request[r].client, request[r].model, "other")
FailsOtherwise(r) == Report(r, "asked", "done") /\ UNCHANGED <<marks, cache>>

-----------------------------------------------------------------------------
(* buildAvailableModelsLocked: the models to list, and when to look again. *)
OverQuotaClients(m) == {c \in Clients : quota[m][c] > 0}
Suspended(m, reason) == {c \in Clients : suspended[m][c] = reason}
Available(m) ==
    LET others == Cardinality(Suspended(m, "other"))
        limited == Cardinality(OverQuotaClients(m))
    IN \/ count[m] - limited - others > 0
       \/ /\ count[m] > 0 /\ others = 0
          /\ limited > 0 \/ Suspended(m, "quota") # {}
Listing == {m \in Models : Available(m)}
Recoveries == UNION {{quota[m][c] : c \in OverQuotaClients(m)} : m \in Models}
ListedFor == IF Recoveries = {} THEN Never
             ELSE CHOOSE t \in Recoveries : \A u \in Recoveries : t <= u

(* GetAvailableModels: the cache while it lasts, else a new listing. *)
Fresh(l) == l.valid /\ l.left # 0
GetAvailableModels ==
    /\ cache' = IF Fresh(cache) THEN cache
                ELSE [valid |-> TRUE, models |-> Listing, left |-> ListedFor]
    /\ UNCHANGED <<held, provider, registrations, marks, request>>

(* GetModelCount. *)
GetModelCount(m) ==
    IF count[m] = 0 THEN 0
    ELSE Excess(count[m], Cardinality(OverQuotaClients(m))
                          + Cardinality(Suspended(m, "quota") \union Suspended(m, "other")))

Tick ==
    /\ quota' = [m \in Models |-> [c \in Clients |-> Excess(quota[m][c], 1)]]
    /\ cache' = IF cache.left > 0 THEN [cache EXCEPT !.left = @ - 1] ELSE cache
    /\ UNCHANGED <<held, provider, registrations, suspended, request>>

-----------------------------------------------------------------------------
Init ==
    /\ held = [c \in Clients |-> [m \in Models |-> 0]]
    /\ provider = [c \in Clients |-> NoProvider]
    /\ count = [m \in Models |-> 0]
    /\ providers = [m \in Models |-> NoCounts]
    /\ infos = [m \in Models |-> {}]
    /\ quota = [m \in Models |-> [c \in Clients |-> 0]]
    /\ suspended = [m \in Models |-> [c \in Clients |-> "no"]]
    /\ cache = NoListing
    /\ request = [r \in Requests |-> Idle]

Next ==
    \/ \E c \in Clients, p \in Providers \union {NoProvider}, list \in Lists :
          RegisterClient(c, p, list)
    \/ \E c \in Clients : UnregisterClient(c)
    \/ \E r \in Requests, c \in Clients, m \in Models : Start(r, c, m)
    \/ \E r \in Requests : \/ Succeeds(r) \/ Resumes(r) \/ OverQuota(r) \/ Cools(r)
                           \/ Refused(r) \/ FailsOtherwise(r)
    \/ GetAvailableModels
    \/ Tick

Spec == Init /\ [][Next]_vars

-----------------------------------------------------------------------------
Steps == {"asked", "resume", "cool"}
TypeOK ==
    /\ held \in [Clients -> Lists \union {[m \in Models |-> 0]}]
    /\ provider \in [Clients -> Providers \union {NoProvider}]
    /\ count \in [Models -> Nat]
    /\ providers \in [Models -> [Providers -> Nat]]
    /\ infos \in [Models -> SUBSET Providers]
    /\ quota \in [Models -> [Clients -> 0..Window]]
    /\ suspended \in [Models -> [Clients -> Reasons]]
    /\ cache \in [valid : BOOLEAN, models : SUBSET Models, left : (0..Window) \union {Never}]
    /\ request \in [Requests -> [step : {"idle"}]
                                \union [step : Steps, client : Clients, model : Models]]

(* Each copy of a model in a client's list is one binding. *)
Bindings(m, ps) == UNION {{c} \X (1..held[c][m]) : c \in {d \in Clients : provider[d] \in ps}}

(* The counters, kept by increments through registrations, changed lists,  *)
(* changed providers and removals, are what a recount would find.          *)
CountsExact ==
    \A m \in Models :
        /\ count[m] = Cardinality(Bindings(m, Providers \union {NoProvider}))
        /\ \A p \in Providers : providers[m][p] = Cardinality(Bindings(m, {p}))

(* RegisterClient, removeModelRegistration: the definition of a model that *)
(* InfoByProvider keeps for a provider, which GetModelInfo prefers, exists *)
(* exactly while one of the provider's clients offers the model.  What     *)
(* GetModelInfo falls back to, the definition registered last, is not      *)
(* modelled: it stays when its provider leaves.                            *)
InfosFollowProviders ==
    \A m \in Models : infos[m] = {p \in Providers : providers[m][p] > 0}

(* What the cache would answer is what a new listing would: every change   *)
(* that matters throws it away, and it lapses when the first quota mark    *)
(* does.                                                                   *)
CacheFresh == Fresh(cache) => cache.models = Listing

(* A client of a model that is neither over quota nor suspended.           *)
Free(c, m) == Offers(c, m) /\ quota[m][c] = 0 /\ suspended[m][c] = "no"

(* "GetAvailableModels returns all models that have at least one available *)
(* client" (model_registry.go:755): no model with a free client is hidden. *)
ListsServable == \A m \in Models : (\E c \in Clients : Free(c, m)) => m \in Listing

(* "GetModelCount returns the number of available clients for a specific   *)
(* model" (model_registry.go:1011): asked when no report is half done and  *)
(* every mark belongs to a client that offers the model.                   *)
Settled == /\ \A r \in Requests : request[r] = Idle
           /\ \A c \in Clients, m \in Models :
                 quota[m][c] > 0 \/ suspended[m][c] # "no" => Offers(c, m)
CountsAvailable ==
    Settled => \A m \in Models : GetModelCount(m) = Cardinality({c \in Clients : Free(c, m)})
=============================================================================
