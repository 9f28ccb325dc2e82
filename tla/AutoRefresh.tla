----------------------------- MODULE AutoRefresh -----------------------------
(***************************************************************************)
(* The background token refresh of sdk/cliproxy/auth: one loop goroutine   *)
(* (auto_refresh_loop.go) sleeps on a timer over a heap of wake-ups, hands *)
(* due credentials to a pool of workers over a bounded channel, and learns *)
(* of changed credentials from a dirty set that every writer of the        *)
(* manager (conductor.go: Register, Update, markRefreshPending,            *)
(* refreshAuth) fills and rings a one-slot wake channel for.               *)
(*                                                                         *)
(* Time is relative to the wall clock: an instant t ticks away is the      *)
(* number t, and Tick lowers every pending instant by one.  A pass of the  *)
(* loop samples time.Now() once; `lag` is how many ticks ago that was, so  *)
(* the pass's `now` is the number -lag.  What makes a credential due is    *)
(* RefreshTiming's subject; here it is one instant, due[a].                *)
(***************************************************************************)
EXTENDS Integers, Sequences, FiniteSets

CONSTANTS Auths,          \* credential identifiers
          Workers,        \* the pool's goroutines
          LateAuths,      \* credentials whose executor is registered only later
          Interval,       \* the loop's check interval
          PendingBackoff, \* the gate markRefreshPending sets
          FailureBackoff, \* the gate a failed refresh sets
          JobCap,         \* capacity of the jobs channel
          LagMax,         \* bound: ticks a pass of the loop may take
          FlightMax,      \* bound: ticks from the pending gate to the refresh's end
          Lifetimes,      \* how far ahead a new token is due
          MaxUpdates,     \* bound: registrations and updates from outside
          MayStop         \* whether StopAutoRefresh is called

ASSUME TimingAssumption ==
    /\ {Interval, PendingBackoff, FailureBackoff} \subseteq Nat \ {0}
    /\ {LagMax, FlightMax, MaxUpdates} \subseteq Nat
    /\ Lifetimes \subseteq Nat
ASSUME PoolAssumption == JobCap \in Nat \ {0} /\ LateAuths \subseteq Auths /\ MayStop \in BOOLEAN

Writer == "writer"   \* the goroutine of the service that registers and updates
Nobody == "nobody"
ASSUME NamesAssumption == Nobody \notin Auths /\ Writer \notin Workers

VARIABLES
  \* Manager.auths, and Manager.executors as the credentials that have one
  known, disabled, gate, due, execs,
  \* the loop object: heap and index, dirty set, wake channel, jobs channel
  index, dirty, wake, jobs,
  \* the loop goroutine
  pc, phase, hand, cur, lag, timer,
  \* the workers and the writer: their step, their credential, what they read
  at, on, seen,
  age,       \* ticks since a credential's pending gate, while it is in flight
  updates, stopped

managerVars == <<known, disabled, gate, due, execs>>
queueVars == <<index, dirty, wake, jobs>>
loopVars == <<pc, phase, hand, cur, lag, timer>>
actorVars == <<at, on, seen, age>>
vars == <<managerVars, queueVars, loopVars, actorVars, updates, stopped>>

Actors == Workers \union {Writer}
NoTimer == -1
Past == -LagMax           \* the zero time, or any instant no pass can still see ahead
Now == -lag

NothingSeen == [disabled |-> FALSE, gate |-> Past, due |-> Past]

Larger(s, t) == IF s <= t THEN t ELSE s
OneTickOn(t) == Larger(t - 1, Past)

-----------------------------------------------------------------------------
(* nextRefreshCheckAt and shouldRefresh over the loop's now (RefreshTiming *)
(* gives them in full).                                                    *)
Scheduled(a) == a \in known /\ ~disabled[a]
CheckAt(a) == IF gate[a] > Now THEN gate[a] ELSE Larger(due[a], Now)
ShouldRefresh(a) == Scheduled(a) /\ gate[a] <= Now /\ due[a] <= Now

(* upsert and remove on the heap and its index. *)
Insert(a, t) ==                                   \* bug: keeps an entry's old instant
    index' = [b \in DOMAIN index \union {a} |-> IF b \in DOMAIN index THEN index[b] ELSE t]
Upsert(a, t) == index' = [b \in DOMAIN index \union {a} |-> IF b = a THEN t ELSE index[b]]
Remove(a) == index' = [b \in DOMAIN index \ {a} |-> index[b]]
Reschedule(a) == IF Scheduled(a) THEN Upsert(a, CheckAt(a)) ELSE Remove(a)

(* Where queueReschedule leaves its traces: the dirty set, then the wake   *)
(* channel, whose one slot may be taken already.                           *)
Unmarked(a) == dirty                              \* bug: only rings
Marked(a) == dirty \union {a}
RingNobody == wake' = wake                        \* bug: only marks
RingLoop == wake' = TRUE

(* The gate markRefreshPending sets. *)
NoGate(a) == gate                                 \* bug: sets none
PendingGate(a) == [gate EXCEPT ![a] = Now + PendingBackoff]

Loop(from, to) == pc = from /\ pc' = to

-----------------------------------------------------------------------------
(* The loop reads credentials under the manager's lock and writes the heap *)
(* under its own.  Nobody else reads the heap, so a reading and the upsert *)
(* it leads to are one step; a change that slips in between is posted to   *)
(* the dirty set afterwards, as if it came after both.                     *)

(* rebuild, before the loop's goroutine starts. *)
Rebuild ==
    /\ Loop("rebuild", "next")
    /\ index' = [a \in {b \in known : ~disabled[b]} |-> CheckAt(a)]
    /\ UNCHANGED <<managerVars, dirty, wake, jobs, phase, hand, cur, lag, timer, actorVars,
                   updates, stopped>>

(* resetTimer: the wait is measured from the pass's now but starts here. *)
HeadOfHeap == {a \in DOMAIN index : \A b \in DOMAIN index : index[a] <= index[b]}
ArmIdle ==                                        \* bug: leaves a running timer alone
    \/ (DOMAIN index = {} \/ timer # NoTimer) /\ timer' = timer
    \/ timer = NoTimer /\ \E a \in HeadOfHeap : timer' = Larger(index[a] + lag, 0)
Arm == \/ DOMAIN index = {} /\ timer' = NoTimer
       \/ \E a \in HeadOfHeap : timer' = Larger(index[a] + lag, 0)
ResetTimer ==
    /\ Loop("next", "select") /\ phase = "dirty" /\ hand = {}
    /\ Arm
    /\ lag' = 0
    /\ UNCHANGED <<managerVars, queueVars, phase, hand, cur, actorVars, updates, stopped>>

(* loop, case <-l.wakeCh. *)
Woken ==
    /\ Loop("select", "drain")
    /\ wake /\ wake' = FALSE
    /\ UNCHANGED <<managerVars, index, dirty, jobs, phase, hand, cur, lag, timer, actorVars,
                   updates, stopped>>

(* loop, case <-timerCh, and popDue at its start. *)
TimerFires ==
    /\ Loop("select", "next")
    /\ timer = 0 /\ timer' = NoTimer
    /\ phase' = "due"
    /\ hand' = {a \in DOMAIN index : index[a] <= 0}
    /\ index' = [a \in DOMAIN index \ hand' |-> index[a]]
    /\ UNCHANGED <<managerVars, dirty, wake, jobs, cur, lag, actorVars, updates, stopped>>

(* handleDue is through with its list; applyDirty follows. *)
HandledDue ==
    /\ Loop("next", "drain") /\ phase = "due" /\ hand = {}
    /\ UNCHANGED <<managerVars, queueVars, phase, hand, cur, lag, timer, actorVars, updates, stopped>>

(* drainDirty. *)
DrainDirty ==
    /\ Loop("drain", "next")
    /\ phase' = "dirty"
    /\ hand' = dirty /\ dirty' = {}
    /\ UNCHANGED <<managerVars, index, wake, jobs, cur, lag, timer, actorVars, updates, stopped>>

(* applyDirty for one identifier. *)
ApplyDirty(a) ==
    /\ Loop("next", "next") /\ phase = "dirty" /\ a \in hand
    /\ hand' = hand \ {a}
    /\ Reschedule(a)
    /\ UNCHANGED <<managerVars, dirty, wake, jobs, phase, cur, lag, timer, actorVars, updates, stopped>>

(* handleDueAuth for one that is not to be refreshed now: unknown, not to  *)
(* be scheduled, not due, or without an executor.                          *)
PassOver(a) ==
    /\ Loop("next", "next") /\ phase = "due" /\ a \in hand
    /\ hand' = hand \ {a}
    /\ \/ a \notin known /\ index' = index
       \/ a \in known /\ ~ShouldRefresh(a) /\ Reschedule(a)
       \/ ShouldRefresh(a) /\ a \notin execs /\ Upsert(a, Now + Interval)
    /\ UNCHANGED <<managerVars, dirty, wake, jobs, phase, cur, lag, timer, actorVars, updates, stopped>>

(* handleDueAuth for one that is; the lock is released before              *)
(* markRefreshPending takes it again.                                      *)
FindDue(a) ==
    /\ Loop("next", "mark") /\ phase = "due" /\ a \in hand
    /\ ShouldRefresh(a) /\ a \in execs
    /\ hand' = hand \ {a} /\ cur' = a
    /\ UNCHANGED <<managerVars, queueVars, phase, lag, timer, actorVars, updates, stopped>>

(* markRefreshPending sets the gate, *)
MarkRefreshPending ==
    /\ Loop("mark", "marked")
    /\ Scheduled(cur) /\ gate[cur] <= Now
    /\ gate' = PendingGate(cur)
    /\ age' = [age EXCEPT ![cur] = 0]
    /\ UNCHANGED <<known, disabled, due, execs, queueVars, phase, hand, cur, lag, timer,
                   at, on, seen, updates, stopped>>

(* or declines, and handleDueAuth reads the credential once more. *)
MarkDeclined ==
    /\ pc = "mark" /\ ~(Scheduled(cur) /\ gate[cur] <= Now)
    /\ pc' = "reread"
    /\ UNCHANGED <<managerVars, queueVars, phase, hand, cur, lag, timer, actorVars, updates, stopped>>

Reread ==
    /\ Loop("reread", "next")
    /\ Reschedule(cur)
    /\ cur' = Nobody
    /\ UNCHANGED <<managerVars, dirty, wake, jobs, phase, hand, lag, timer, actorVars, updates, stopped>>

(* The loop's own queueReschedule, and with it the wake-up for the pass    *)
(* after this one: only the loop receives from the wake channel.           *)
LoopPosts ==
    /\ Loop("marked", "send")
    /\ \/ dirty' = Marked(cur) /\ RingLoop
       \/ stopped /\ UNCHANGED <<dirty, wake>>
    /\ UNCHANGED <<managerVars, index, jobs, phase, hand, cur, lag, timer, actorVars, updates, stopped>>

(* The send that blocks while every slot of the jobs channel is taken. *)
Unbounded == jobs' = Append(jobs, cur)            \* bug: no capacity
Dropping ==                                       \* bug: a full channel loses the job
    jobs' = IF Len(jobs) < JobCap THEN Append(jobs, cur) ELSE jobs
Send == Len(jobs) < JobCap /\ jobs' = Append(jobs, cur)
SendJob ==
    /\ Loop("send", "next")
    /\ Send
    /\ cur' = Nobody
    /\ UNCHANGED <<managerVars, index, dirty, wake, phase, hand, lag, timer, actorVars, updates, stopped>>

(* ctx.Done in handleDueAuth's select instead of the send; the pass goes   *)
(* on with the identifiers left.                                           *)
NeverAbandon == FALSE /\ UNCHANGED vars           \* bug: the send ignores the context
AbandonSend ==
    /\ stopped /\ Loop("send", "next")
    /\ cur' = Nobody
    /\ UNCHANGED <<managerVars, queueVars, phase, hand, lag, timer, actorVars, updates, stopped>>

(* ctx.Done in loop's select. *)
LoopExits ==
    /\ stopped /\ Loop("select", "exited")
    /\ UNCHANGED <<managerVars, queueVars, phase, hand, cur, lag, timer, actorVars, updates, stopped>>

LoopStep == \/ Rebuild \/ ResetTimer \/ Woken \/ TimerFires \/ HandledDue \/ DrainDirty
            \/ \E a \in Auths : ApplyDirty(a) \/ PassOver(a) \/ FindDue(a)
            \/ MarkRefreshPending \/ MarkDeclined \/ Reread \/ LoopPosts \/ SendJob

-----------------------------------------------------------------------------
(* worker, case authID := <-l.jobs, and the start of refreshAuth: read the *)
(* credential and its executor under the lock, clone it.                   *)
TakeJob(w) ==
    /\ at[w] = "idle" /\ jobs # <<>>
    /\ jobs' = Tail(jobs)
    /\ LET a == Head(jobs) IN
         /\ on' = [on EXCEPT ![w] = a]
         /\ at' = [at EXCEPT ![w] = IF a \in known \intersect execs THEN "refresh" ELSE "repost"]
         /\ seen' = [seen EXCEPT ![w] = [disabled |-> disabled[a], gate |-> gate[a], due |-> due[a]]]
    /\ UNCHANGED <<managerVars, index, dirty, wake, loopVars, age, updates, stopped>>

(* A refresh is over, and its clone gone. *)
EndRefresh(w, to) ==
    /\ at[w] = "refresh"
    /\ at' = [at EXCEPT ![w] = to]
    /\ seen' = [seen EXCEPT ![w] = NothingSeen]
    /\ UNCHANGED <<known, execs, queueVars, loopVars, on, age, updates, stopped>>

(* refreshAuth, err == nil: Update writes the refreshed clone back over    *)
(* whatever the manager holds by now.  The gate is the clone's, or one the *)
(* authenticator chose (the instant the new token is due).                 *)
RefreshSucceeds(w) ==
    /\ EndRefresh(w, "post")
    /\ \E d \in Lifetimes :
         /\ due' = [due EXCEPT ![on[w]] = d]
         /\ \E g \in {seen[w].gate, d} : gate' = [gate EXCEPT ![on[w]] = g]
    /\ disabled' = [disabled EXCEPT ![on[w]] = seen[w].disabled]

(* refreshAuth, err != nil: only the gate of the current credential. *)
RefreshFails(w) ==
    /\ EndRefresh(w, "post")
    /\ gate' = [gate EXCEPT ![on[w]] = FailureBackoff]
    /\ UNCHANGED <<disabled, due>>

(* refreshAuth, context.Canceled: nothing, the pending gate stays. *)
RefreshCancelled(w) ==
    /\ stopped
    /\ EndRefresh(w, "repost")
    /\ UNCHANGED <<disabled, gate, due>>

(* queueReschedule(on[p]), first half: through the manager ("post", where  *)
(* a stopped loop is no longer known) or by the worker itself ("repost").  *)
Post(p) ==
    /\ at[p] \in {"post", "repost"}
    /\ \/ /\ dirty' = Marked(on[p])
          /\ at' = [at EXCEPT ![p] = IF at[p] = "post" THEN "ring" ELSE "rering"]
          /\ on' = on
       \/ /\ stopped /\ at[p] = "post"
          /\ dirty' = dirty
          /\ at' = [at EXCEPT ![p] = IF p = Writer THEN "idle" ELSE "repost"]
          /\ on' = [on EXCEPT ![p] = IF p = Writer THEN Nobody ELSE @]
    /\ UNCHANGED <<managerVars, index, wake, jobs, loopVars, seen, age, updates, stopped>>

(* queueReschedule, second half: the send that finds the slot taken does   *)
(* nothing.  A worker then posts once more by itself.                      *)
Ring(p) ==
    /\ at[p] \in {"ring", "rering"}
    /\ RingLoop
    /\ LET more == p # Writer /\ at[p] = "ring" IN
         /\ at' = [at EXCEPT ![p] = IF more THEN "repost" ELSE "idle"]
         /\ on' = [on EXCEPT ![p] = IF more THEN @ ELSE Nobody]
    /\ UNCHANGED <<managerVars, index, dirty, jobs, loopVars, seen, age, updates, stopped>>

(* worker, case <-ctx.Done. *)
WorkerExits(w) ==
    /\ stopped /\ at[w] = "idle"
    /\ at' = [at EXCEPT ![w] = "exited"]
    /\ UNCHANGED <<managerVars, queueVars, loopVars, on, seen, age, updates, stopped>>

WorkerStep(w) == \/ TakeJob(w) \/ RefreshSucceeds(w) \/ RefreshFails(w) \/ RefreshCancelled(w)
                 \/ Post(w) \/ Ring(w)

-----------------------------------------------------------------------------
(* The writer: the service applying credential updates one at a time.      *)
WriterGoes(to, a, what) ==
    /\ at' = [at EXCEPT ![Writer] = to]
    /\ on' = [on EXCEPT ![Writer] = a]
    /\ seen' = [seen EXCEPT ![Writer] = what]

(* ensureExecutorsForAuth, then Register. *)
Register(a) ==
    /\ at[Writer] = "idle" /\ a \notin known /\ updates < MaxUpdates
    /\ updates' = updates + 1
    /\ WriterGoes("post", a, NothingSeen)
    /\ known' = known \union {a}
    /\ execs' = execs \union ({a} \ LateAuths)
    /\ \E d \in Lifetimes \union {Past}, off \in BOOLEAN :
         due' = [due EXCEPT ![a] = d] /\ disabled' = [disabled EXCEPT ![a] = off]
    /\ gate' = [gate EXCEPT ![a] = Past]
    /\ UNCHANGED <<queueVars, loopVars, age, stopped>>

(* applyCoreAuthAddOrUpdate and applyCoreAuthRemoval first read the        *)
(* credential with GetByID ...                                             *)
GetByID(a) ==
    /\ at[Writer] = "idle" /\ a \in known /\ updates < MaxUpdates
    /\ updates' = updates + 1
    /\ WriterGoes("got", a, [disabled |-> disabled[a], gate |-> gate[a], due |-> due[a]])
    /\ UNCHANGED <<managerVars, queueVars, loopVars, age, stopped>>

(* ... and then write with Update: the file's credential with the gate     *)
(* that was read, when both are active,                                    *)
AddOrUpdate ==
    /\ at[Writer] = "got"
    /\ WriterGoes("post", on[Writer], NothingSeen)
    /\ \E d \in Lifetimes \union {Past}, off \in BOOLEAN :
         /\ due' = [due EXCEPT ![on[Writer]] = d]
         /\ disabled' = [disabled EXCEPT ![on[Writer]] = off]
         /\ gate' = [gate EXCEPT ![on[Writer]] =
                        IF off \/ seen[Writer].disabled THEN Past ELSE seen[Writer].gate]
    /\ UNCHANGED <<known, execs, queueVars, loopVars, age, updates, stopped>>

(* or the credential that was read, disabled. *)
Removal ==
    /\ at[Writer] = "got"
    /\ WriterGoes("post", on[Writer], NothingSeen)
    /\ due' = [due EXCEPT ![on[Writer]] = seen[Writer].due]
    /\ gate' = [gate EXCEPT ![on[Writer]] = seen[Writer].gate]
    /\ disabled' = [disabled EXCEPT ![on[Writer]] = TRUE]
    /\ UNCHANGED <<known, execs, queueVars, loopVars, age, updates, stopped>>

(* RegisterExecutor for a provider whose credentials came first; it tells  *)
(* the loop nothing.                                                       *)
RegisterExecutor(a) ==
    /\ a \in LateAuths \ execs
    /\ execs' = execs \union {a}
    /\ UNCHANGED <<known, disabled, gate, due, queueVars, loopVars, actorVars, updates, stopped>>

WriterStep == \/ \E a \in Auths : Register(a) \/ GetByID(a)
              \/ AddOrUpdate \/ Removal \/ Post(Writer) \/ Ring(Writer)

(* StopAutoRefresh: the manager forgets the loop and cancels its context.  *)
StopAutoRefresh ==
    /\ MayStop /\ ~stopped /\ stopped' = TRUE
    /\ UNCHANGED <<managerVars, queueVars, loopVars, actorVars, updates>>

(* The refreshes of a credential that are queued, running or being queued. *)
InFlight(a) == Cardinality({i \in DOMAIN jobs : jobs[i] = a})
               + Cardinality({w \in Workers : at[w] = "refresh" /\ on[w] = a})
               + (IF cur = a /\ pc \in {"marked", "send"} THEN 1 ELSE 0)

(* A tick of the clock, within the bounds on a pass and on a refresh.      *)
InPass == pc \notin {"select", "exited"}
Tick ==
    /\ InPass => lag < LagMax
    /\ \A a \in Auths : InFlight(a) > 0 /\ ~stopped => age[a] < FlightMax
    /\ gate' = [a \in Auths |-> OneTickOn(gate[a])]
    /\ due' = [a \in Auths |-> OneTickOn(due[a])]
    /\ index' = [a \in DOMAIN index |-> OneTickOn(index[a])]
    /\ seen' = [p \in Actors |-> [seen[p] EXCEPT !.gate = OneTickOn(@), !.due = OneTickOn(@)]]
    /\ timer' = IF timer > 0 THEN timer - 1 ELSE timer
    /\ lag' = IF InPass THEN lag + 1 ELSE lag
    /\ age' = [a \in Auths |-> IF InFlight(a) > 0 /\ ~stopped THEN age[a] + 1 ELSE 0]
    /\ UNCHANGED <<known, disabled, execs, dirty, wake, jobs, pc, phase, hand, cur, at, on,
                   updates, stopped>>

-----------------------------------------------------------------------------
(* StartAutoRefresh has published the loop and is about to rebuild it;     *)
(* Load has read the store: any of the credentials may be there, due or    *)
(* not, disabled or not, and has its executor unless it is a late one.     *)
Init ==
    /\ known \in SUBSET Auths
    /\ disabled \in [Auths -> BOOLEAN]
    /\ gate = [a \in Auths |-> Past]
    /\ due \in [Auths -> Lifetimes \union {Past}]
    /\ \A a \in Auths \ known : disabled[a] = FALSE /\ due[a] = Past
    /\ execs = known \ LateAuths
    /\ index = [a \in {} |-> Past] /\ dirty = {} /\ wake = FALSE /\ jobs = <<>>
    /\ pc = "rebuild" /\ phase = "dirty" /\ hand = {} /\ cur = Nobody
    /\ lag = 0 /\ timer = NoTimer
    /\ at = [p \in Actors |-> "idle"] /\ on = [p \in Actors |-> Nobody]
    /\ seen = [p \in Actors |-> NothingSeen] /\ age = [a \in Auths |-> 0]
    /\ updates = 0 /\ stopped = FALSE

Next == \/ LoopStep \/ AbandonSend \/ LoopExits
        \/ \E w \in Workers : WorkerStep(w) \/ WorkerExits(w)
        \/ WriterStep
        \/ \E a \in Auths : RegisterExecutor(a)
        \/ StopAutoRefresh
        \/ Tick

Spec == Init /\ [][Next]_vars

(* The Go scheduler runs every goroutine that can run, every refresh       *)
(* returns, time passes; a select with two ready cases picks at random, so *)
(* a context that stays done is chosen in the end.                         *)
Fairness == /\ WF_vars(LoopStep \/ AbandonSend) /\ SF_vars(LoopExits)
            /\ \A w \in Workers : WF_vars(WorkerStep(w)) /\ SF_vars(WorkerExits(w))
            /\ WF_vars(AddOrUpdate \/ Post(Writer) \/ Ring(Writer))
            /\ \A a \in Auths : WF_vars(RegisterExecutor(a))
            /\ WF_vars(Tick)

FairSpec == Spec /\ Fairness

-----------------------------------------------------------------------------
LoopSteps == {"rebuild", "select", "next", "drain", "mark", "reread", "marked", "send", "exited"}
ActorSteps == {"idle", "refresh", "got", "post", "ring", "repost", "rering", "exited"}

ManagerOK == /\ known \subseteq Auths /\ execs \subseteq Auths
             /\ disabled \in [Auths -> BOOLEAN]
             /\ gate \in [Auths -> Int] /\ due \in [Auths -> Int]
QueueOK == /\ DOMAIN index \subseteq Auths /\ index \in [DOMAIN index -> Int]
           /\ dirty \subseteq Auths /\ wake \in BOOLEAN
           /\ jobs \in Seq(Auths) /\ Len(jobs) <= JobCap
LoopOK == /\ pc \in LoopSteps /\ phase \in {"due", "dirty"}
          /\ hand \subseteq Auths /\ cur \in Auths \union {Nobody}
          /\ lag \in 0..LagMax /\ timer \in Int
          /\ pc \in {"mark", "reread", "marked", "send"} <=> cur # Nobody
ActorsOK == /\ at \in [Actors -> ActorSteps] /\ on \in [Actors -> Auths \union {Nobody}]
            /\ seen \in [Actors -> [disabled : BOOLEAN, gate : Int, due : Int]]
            /\ age \in [Auths -> Nat]
            /\ \A p \in Actors : at[p] \notin {"idle", "exited"} => on[p] \in Auths

TypeOK == /\ ManagerOK /\ QueueOK /\ LoopOK /\ ActorsOK
          /\ updates \in 0..MaxUpdates /\ stopped \in BOOLEAN

(* A change the loop has not digested yet: a writer about to post it, the  *)
(* dirty mark, or the loop holding the identifier in the current pass.     *)
Announced(a) == \/ a \in dirty \/ a \in hand \/ a = cur \/ pc = "rebuild"
                \/ \E p \in Actors : on[p] = a /\ at[p] \in {"post", "repost"}

(* No credential is forgotten: while the loop runs, every enabled one has  *)
(* a wake-up in the heap or is announced, however registrations, updates,  *)
(* passes and refreshes interleave (auto_refresh_loop.go keeps no other    *)
(* trace of it, so a forgotten credential would never be refreshed again). *)
NoneForgotten ==
    ~stopped => \A a \in Auths : Scheduled(a) => a \in DOMAIN index \/ Announced(a)

(* The wake-up of a credential with no change in flight is not later than  *)
(* the instant its refresh becomes allowed and due; a credential found     *)
(* without its executor is looked at again within the check interval.      *)
WakesInTime ==
    ~stopped => \A a \in Auths :
        Scheduled(a) /\ a \in DOMAIN index /\ ~Announced(a) =>
            \/ index[a] <= Larger(gate[a], Larger(due[a], 0))
            \/ a \in LateAuths /\ index[a] <= Interval

(* A dirty mark is never left behind without a wake-up: the token is in    *)
(* the channel, or somebody is about to put it there, or the loop has the  *)
(* drain of this pass still ahead.                                         *)
DirtyIsRung ==
    dirty # {} => \/ wake
                  \/ \E p \in Actors : at[p] \in {"ring", "rering"}
                  \/ pc = "drain"
                  \/ phase = "due" /\ pc # "select"

(* Where the loop stands and what it holds: identifiers only during a pass, *)
(* the one in hand only while handleDueAuth deals with it.                 *)
HandsFree == /\ pc \in {"rebuild", "select", "drain", "exited"} => hand = {}
             /\ pc = "select" => phase = "dirty"
             /\ cur # Nobody => phase = "due"
             /\ pc = "send" /\ ~stopped => cur \in dirty

(* Asleep, the loop has a timer for its earliest wake-up, late by no more  *)
(* than the pass that armed it took.                                       *)
TimerCoversHeap ==
    pc = "select" /\ ~wake => \A a \in DOMAIN index :
        timer # NoTimer /\ timer <= Larger(index[a], 0) + LagMax

(* One refresh at a time per credential (a refresh token is often good for *)
(* one use): it is the pending gate that ensures it, so it holds as long   *)
(* as a refresh, its wait in the queue included, ends before the gate does *)
(* (which nobody bounds once the loop is stopped) and nobody else writes   *)
(* the gate.                                                               *)
OneRefreshAtATime == ~stopped => \A a \in Auths : InFlight(a) <= 1

(* Every enabled credential with an executor is refreshed again and again: *)
(* none starves behind the others, the queue, the gates or lost wake-ups.  *)
Refreshing(a) == \E w \in Workers : at[w] = "refresh" /\ on[w] = a
EveryAuthRefreshed ==
    \A a \in Auths : (Scheduled(a) ~> (Refreshing(a) \/ ~Scheduled(a) \/ stopped))

(* StopAutoRefresh leaves no goroutine behind, not even a loop blocked on  *)
(* a full queue or workers whose refresh is under way.                     *)
StopEndsEverything ==
    stopped ~> (pc = "exited" /\ \A w \in Workers : at[w] = "exited")
=============================================================================
