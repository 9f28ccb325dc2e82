------------------------------ MODULE Execution ------------------------------
(***************************************************************************)
(* Requests through Manager.Execute of sdk/cliproxy/auth/conductor.go: the *)
(* rounds of picks, calls and waits, and what every answer does to the     *)
(* credential it was asked of.  MarkResult changes the manager's state in  *)
(* one critical section and tells the scheduler and the registry after it, *)
(* so the news of two requests, and of the service that registers a        *)
(* changed credential again, may arrive in another order than they were    *)
(* made.  A pick that finds nothing rebuilds the scheduler and picks once  *)
(* more.                                                                   *)
(*                                                                         *)
(* All credentials are enabled, offer the one model and have no upstream   *)
(* model pool; which of the ready ones the scheduler prefers is module     *)
(* Scheduler's.  Instants are ticks from now.                              *)
(***************************************************************************)
EXTENDS Integers, FiniteSets

CONSTANTS Auths, Requests, Nobody,
          Retries,         \* requestRetry: further rounds
          MaxCredentials,  \* maxRetryCredentials: calls in a round, 0 for no limit
          MaxWait,         \* maxRetryInterval
          Uncooled,        \* credentials with disable_cooling
          Outcomes,        \* what an upstream may answer
          Hints,           \* the Retry-After of a 429, 0 for none
          Short, Long,     \* cooldowns: one minute, half an hour
          MaxBackoff,      \* quotaBackoffMax; quotaBackoffBase is one tick
          Reregisters      \* whether the service registers credentials again

Answers == {"ok", "unauthorized", "quota", "transient", "invalid", "missing", "other"}
ASSUME ExecutionAssumption ==
    /\ IsFiniteSet(Auths) /\ Nobody \notin Auths /\ Nobody \notin Requests /\ Retries \in Nat /\ MaxCredentials \in Nat /\ MaxWait \in Nat
    /\ Uncooled \subseteq Auths /\ Reregisters \in BOOLEAN
    /\ Outcomes \subseteq Answers
    /\ Hints \subseteq Nat /\ 0 \in Hints /\ \E h \in Hints : \A i \in Hints : i <= h
    /\ Short \in Nat /\ Long \in Nat /\ MaxBackoff \in Nat \ {0}

\* Arithmetic the provers have no rule for.
ASSUME PowersAssumption == \A n \in 0..MaxBackoff : 2 ^ n \in Nat /\ n < 2 ^ n

VARIABLES
  state,      \* the manager's ModelState of each credential
  view,       \* the scheduler's entry: when it serves, and whether its Auth
              \* is the very object the manager keeps
  suspended,  \* registry: the credentials suspended for the model
  request, service

vars == <<state, view, suspended, request, service>>

NoState == [retry |-> 0, recover |-> 0, exceeded |-> FALSE, level |-> 0, kind |-> "none"]
Clean == [NoState EXCEPT !.kind = "clean"]
Idle == [step |-> "idle"]

Earliest(T) == CHOOSE t \in T : \A u \in T : t <= u
Down(n) == IF n > 0 THEN n - 1 ELSE 0
Later(m, n) == IF m > n THEN m ELSE n

-----------------------------------------------------------------------------
(* nextQuotaCooldown. *)
Uncapped(level) == <<2 ^ level, level + 1>>  \* bug: the back-off doubles for ever
Backoff(level) == IF 2 ^ level >= MaxBackoff THEN <<MaxBackoff, level>> ELSE <<2 ^ level, level + 1>>

(* MarkResult, under the manager's lock. *)
Failed(a, s, wait) == [s EXCEPT !.retry = IF a \in Uncooled THEN 0 ELSE wait, !.kind = "error"]
OverQuota(a, s, hint) ==
    LET next == IF a \in Uncooled THEN <<0, s.level>>
                ELSE IF hint > 0 THEN <<hint, s.level>> ELSE Backoff(s.level)
    IN [retry |-> next[1], recover |-> next[1], exceeded |-> TRUE, level |-> next[2], kind |-> "error"]
After(a, s, outcome, hint) ==
    CASE outcome = "ok" -> Clean
      [] outcome = "unauthorized" -> Failed(a, s, Long)
      [] outcome = "quota" -> OverQuota(a, s, hint)
      [] outcome = "transient" -> Failed(a, s, Short)
      [] outcome = "missing" -> s
      [] outcome \in {"invalid", "other"} -> Failed(a, s, 0)

(* isAuthBlockedForModel, and when the scheduler serves a credential of    *)
(* which it last heard s: at its retry time, but not before it looks again *)
(* at the recovery time of its quota.                                      *)
Blocked(s) == s.retry > 0
NextRetry(s) == IF s.recover > 0 THEN s.recover ELSE s.retry
Wait(s) == IF Blocked(s) THEN Later(s.retry, s.recover) ELSE 0
Snapshot(s) == [wait |-> Wait(s), shared |-> FALSE]

-----------------------------------------------------------------------------
Others(r) == {q \in Requests \ {r} : request[q] # Idle}
Disturbed(except) ==
    [q \in Requests |-> IF q = except \/ request[q] = Idle THEN request[q]
                        ELSE [request[q] EXCEPT !.lone = FALSE]]
Goes(r, to) == request' = [request EXCEPT ![r] = to]
Step(r, from, to) == request[r].step = from /\ Goes(r, [request[r] EXCEPT !.step = to])

NewRound(attempt, lone) ==
    [step |-> "pick", attempt |-> attempt, tried |-> {}, auth |-> Nobody, error |-> "none",
     hint |-> 0, snap |-> [a \in Auths |-> 0], wait |-> 0, lone |-> lone]
Begin(r) ==
    /\ request[r] = Idle
    /\ request' = [Disturbed(r) EXCEPT ![r] = NewRound(0, Others(r) = {} /\ service = Idle)]
    /\ UNCHANGED <<state, view, suspended, service>>

(* executeMixedOnce's loop: the limit of credentials, a pick, a call.      *)
OverLimit(r) == MaxCredentials > 0 /\ Cardinality(request[r].tried) > MaxCredentials  \* bug
AtLimit(r) == MaxCredentials > 0 /\ Cardinality(request[r].tried) >= MaxCredentials
Ready(r) == {a \in Auths \ request[r].tried : view[a].wait = 0}

LimitReached(r) ==
    /\ Step(r, "pick", "failed") /\ AtLimit(r)
    /\ UNCHANGED <<state, view, suspended, service>>
ServedAgain(r) ==                      \* bug: the call is not remembered
    /\ request[r].step \in {"pick", "repick"}
    /\ \E a \in Ready(r) : Goes(r, [request[r] EXCEPT !.step = "asked", !.auth = a])
    /\ UNCHANGED <<state, view, suspended, service>>
Served(r) ==
    /\ request[r].step \in {"pick", "repick"}
    /\ request[r].step = "pick" => ~AtLimit(r)
    /\ \E a \in Ready(r) :
          Goes(r, [request[r] EXCEPT !.step = "asked", !.auth = a, !.tried = @ \union {a}])
    /\ UNCHANGED <<state, view, suspended, service>>

(* pickNextMixed: a refusal rebuilds the scheduler and picks again.        *)
Refused(r) ==
    /\ Step(r, "pick", "sync") /\ ~AtLimit(r) /\ Ready(r) = {}
    /\ UNCHANGED <<state, view, suspended, service>>
Snapshots(r) ==
    /\ request[r].step = "sync"
    /\ Goes(r, [request[r] EXCEPT !.step = "rebuild", !.snap = [a \in Auths |-> Wait(state[a])]])
    /\ UNCHANGED <<state, view, suspended, service>>
OldView(r) == view                     \* bug: the refusal stands
RebuiltView(r) == [a \in Auths |-> [wait |-> request[r].snap[a], shared |-> FALSE]]
Rebuilds(r) ==
    /\ Step(r, "rebuild", "repick")
    /\ view' = RebuiltView(r)
    /\ UNCHANGED <<state, suspended, service>>
RefusedAgain(r) ==
    /\ Step(r, "repick", "failed") /\ Ready(r) = {}
    /\ UNCHANGED <<state, view, suspended, service>>

(* The executor's answer, and MarkResult's three parts.                    *)
Answer(r, outcome, hint) ==
    LET a == request[r].auth
        s == After(a, state[a], outcome, hint)
    IN /\ request[r].step = "asked"
       /\ state' = [state EXCEPT ![a] = s]
       /\ Goes(r, [request[r] EXCEPT !.step = "post", !.error = outcome, !.hint = hint,
                                     !.snap = [@ EXCEPT ![a] = Wait(s)]])
       /\ UNCHANGED <<view, suspended, service>>
Posts(r) ==
    LET a == request[r].auth IN
    /\ Step(r, "post", "report")
    /\ view' = [view EXCEPT ![a] = [wait |-> request[r].snap[a], shared |-> FALSE]]
    /\ UNCHANGED <<state, suspended, service>>
Reports(r) ==
    LET ended == request[r].error \in {"ok", "invalid", "missing"} IN
    /\ request[r].step = "report"
    /\ suspended' = CASE request[r].error = "ok" -> suspended \ {request[r].auth}
                      [] request[r].error \in {"unauthorized", "quota"} /\ request[r].auth \notin Uncooled
                           -> suspended \union {request[r].auth}
                      [] OTHER -> suspended
    /\ Goes(r, IF ended THEN Idle ELSE [request[r] EXCEPT !.step = "pick", !.snap = [a \in Auths |-> 0]])
    /\ UNCHANGED <<state, view, service>>

(* shouldRetryAfterError. *)
MayRetry(r) == request[r].attempt < Retries
Waits(r) == {NextRetry(state[a]) : a \in {b \in Auths : MayRetry(r) /\ Blocked(state[b])}}
RetryWaits(r) ==                       \* at most one
    IF MaxWait = 0 THEN {}
    ELSE IF Waits(r) # {} THEN {Earliest(Waits(r))} \intersect 0..MaxWait
    ELSE IF request[r].error = "quota" /\ MayRetry(r) THEN {request[r].hint} \intersect 1..MaxWait
    ELSE {}
Sleeps(r) ==
    /\ request[r].step = "failed"
    /\ \E wait \in RetryWaits(r) : Goes(r, [NewRound(request[r].attempt, request[r].lone)
                                             EXCEPT !.step = "waiting", !.wait = wait])
    /\ UNCHANGED <<state, view, suspended, service>>
GivesUp(r) ==
    /\ request[r].step = "failed" /\ RetryWaits(r) = {}
    /\ Goes(r, Idle)
    /\ UNCHANGED <<state, view, suspended, service>>
Wakes(r) ==
    /\ request[r].step = "waiting" /\ request[r].wait = 0
    /\ Goes(r, NewRound(request[r].attempt + 1, request[r].lone))
    /\ UNCHANGED <<state, view, suspended, service>>

(* The client goes away: no result is recorded. *)
Cancelled(r) ==
    /\ request[r].step \in {"asked", "waiting"}
    /\ Goes(r, Idle)
    /\ UNCHANGED <<state, view, suspended, service>>

-----------------------------------------------------------------------------
(* Service.applyCoreAuthAddOrUpdate of a changed credential. *)
ServiceStep(from, to) == service.step = from /\ service' = to
ServiceGoes(from, to) == ServiceStep(from, [service EXCEPT !.step = to])

ReadsAuth(a) ==                        \* GetByID
    /\ Reregisters /\ ServiceStep("idle", [step |-> "update", auth |-> a, copy |-> state[a]])
    /\ request' = Disturbed(Nobody)
    /\ UNCHANGED <<state, view, suspended>>
Updates ==                             \* Update: a new object, with the states read
    /\ ServiceGoes("update", "share")
    /\ state' = [state EXCEPT ![service.auth] = IF service.copy.kind = "none" THEN @ ELSE service.copy]
    /\ view' = [view EXCEPT ![service.auth].shared = FALSE]
    /\ UNCHANGED <<suspended, request>>
Shares ==                              \* ... which the scheduler is given as it is
    /\ ServiceGoes("share", "register")
    /\ view' = [view EXCEPT ![service.auth] = [wait |-> Wait(state[service.auth]), shared |-> TRUE]]
    /\ UNCHANGED <<state, suspended, request>>
RegistersModels ==                     \* RegisterClient clears the marks
    /\ ServiceGoes("register", "reconcile")
    /\ suspended' = suspended \ {service.auth}
    /\ UNCHANGED <<state, view, request>>
Reconciles ==                          \* ReconcileRegistryModelStates
    /\ service.step = "reconcile"
    /\ IF state[service.auth].kind # "error" THEN ServiceGoes("reconcile", "entry") /\ UNCHANGED state
       ELSE /\ ServiceGoes("reconcile", "postclean")
            /\ state' = [state EXCEPT ![service.auth] = Clean]
    /\ UNCHANGED <<view, suspended, request>>
PostsClean ==
    /\ ServiceGoes("postclean", "entry")
    /\ view' = [view EXCEPT ![service.auth] = Snapshot(Clean)]
    /\ UNCHANGED <<state, suspended, request>>
ReadsEntry ==                          \* RefreshSchedulerEntry
    /\ ServiceStep("entry", [service EXCEPT !.step = "postentry", !.copy = state[service.auth]])
    /\ UNCHANGED <<state, view, suspended, request>>
PostsEntry ==
    /\ ServiceStep("postentry", Idle)
    /\ view' = [view EXCEPT ![service.auth] = Snapshot(service.copy)]
    /\ UNCHANGED <<state, suspended, request>>
ServiceNext == Updates \/ Shares \/ RegistersModels \/ Reconciles \/ PostsClean \/ ReadsEntry \/ PostsEntry

-----------------------------------------------------------------------------
Aged(s) == [s EXCEPT !.retry = Down(@), !.recover = Down(@)]
Tick ==
    /\ state' = [a \in Auths |-> Aged(state[a])]
    /\ view' = [a \in Auths |-> [view[a] EXCEPT
          !.wait = IF @ = 1 /\ view[a].shared THEN Wait(state'[a]) ELSE Down(@)]]
    /\ request' = [r \in Requests |-> IF request[r] = Idle THEN Idle ELSE
          [request[r] EXCEPT !.snap = [a \in Auths |-> Down(@[a])], !.wait = Down(@)]]
    /\ service' = IF service = Idle THEN Idle ELSE [service EXCEPT !.copy = Aged(@)]
    /\ UNCHANGED suspended

Init ==
    /\ state = [a \in Auths |-> NoState]
    /\ view = [a \in Auths |-> Snapshot(NoState)]
    /\ suspended = {}
    /\ request = [r \in Requests |-> Idle]
    /\ service = Idle

RequestNext(r) ==
    \/ LimitReached(r) \/ Served(r) \/ Refused(r) \/ Snapshots(r) \/ Rebuilds(r) \/ RefusedAgain(r)
    \/ \E outcome \in Outcomes, hint \in Hints :
          (hint = 0 \/ outcome = "quota") /\ Answer(r, outcome, hint)
    \/ Posts(r) \/ Reports(r) \/ Sleeps(r) \/ GivesUp(r) \/ Wakes(r)
Next ==
    \/ \E r \in Requests : Begin(r) \/ RequestNext(r) \/ Cancelled(r)
    \/ \E a \in Auths : ReadsAuth(a)
    \/ ServiceNext
    \/ Tick

Spec == Init /\ [][Next]_vars

(* Goroutines run, upstreams answer, and time passes.                      *)
FairSpec == Spec /\ (\A r \in Requests : WF_vars(RequestNext(r))) /\ WF_vars(Tick)

-----------------------------------------------------------------------------
Delays == 0..Later(Later(Short, Long), Later(MaxBackoff, CHOOSE h \in Hints : \A i \in Hints : i <= h))
ModelStates == [retry : Delays, recover : Delays, exceeded : BOOLEAN, level : 0..MaxBackoff,
                kind : {"none", "clean", "error"}]
RequestSteps == {"pick", "sync", "rebuild", "repick", "asked", "post", "report", "failed", "waiting"}
ServiceSteps == {"update", "share", "register", "reconcile", "postclean", "entry", "postentry"}
TypeOK ==
    /\ state \in [Auths -> ModelStates]
    /\ view \in [Auths -> [wait : Delays, shared : BOOLEAN]]
    /\ suspended \subseteq Auths
    /\ \A r \in Requests : request[r] = Idle \/
          request[r] \in [step : RequestSteps, attempt : 0..Retries, tried : SUBSET Auths,
                          auth : Auths \union {Nobody}, error : Answers \union {"none"},
                          hint : Hints, snap : [Auths -> Delays], wait : 0..MaxWait, lone : BOOLEAN]
    /\ service = Idle \/ service \in [step : ServiceSteps, auth : Auths, copy : ModelStates]

(* However the scheduler's view went stale before, a request that has the  *)
(* program for itself is not turned away while a credential it has not     *)
(* tried is free and its quota's recovery time is past.                    *)
LoneRequestServed ==
    [][\A r \in Requests :
          request[r] # Idle /\ request[r].lone /\ request[r].step = "repick" /\ request'[r] # Idle
             /\ request'[r].step = "failed"
          => \A a \in Auths \ request[r].tried : NextRetry(state[a]) > 0]_vars

(* A round calls no more credentials than allowed, and no request has more *)
(* rounds than the first and its retries.                                  *)
CallsBounded == \A r \in Requests : request[r] # Idle =>
    /\ MaxCredentials > 0 => Cardinality(request[r].tried) <= MaxCredentials
    /\ request[r].attempt <= Retries

(* Every request ends, through any sequence of refusals, failures, waits   *)
(* and retries.                                                            *)
EveryRequestEnds == \A r \in Requests : request[r] # Idle ~> request[r] = Idle

(* "ReconcileRegistryModelStates aligns per-model runtime state with the   *)
(* current registry snapshot for one auth" (conductor.go:253): with nobody *)
(* at work, no credential is suspended in the registry for a failure that  *)
(* the manager's state no longer knows of.                                 *)
Settled == service = Idle /\ \A r \in Requests : request[r] = Idle
ReconcileAligns == Settled => \A a \in suspended : state[a].kind = "error"

(* "scheduledAuthMeta stores the immutable scheduling fields derived from  *)
(* an auth snapshot" (scheduler.go:49), the Auth among them: nobody but    *)
(* the clock changes the object the scheduler holds.                       *)
SnapshotsImmutable ==
    [][\A a \in Auths : view[a].shared /\ view'[a].shared
          => state'[a] \in {state[a], Aged(state[a])}]_vars
=============================================================================
