------------------------ MODULE AutoRefresh_proofs ------------------------
(***************************************************************************)
(* For any number of credentials and workers, any back-offs and any queue  *)
(* capacity: the refresh loop forgets no credential, sleeps over none and  *)
(* leaves no dirty mark without a wake-up; and a credential is refreshed   *)
(* once at a time where its pending gate can see to it.                    *)
(*                                                                         *)
(* nextRefreshCheckAt and shouldRefresh agree for every credential, every  *)
(* clock and every interval and lead: the loop neither sleeps through a    *)
(* due refresh nor spins on a credential that is not due.                  *)
(***************************************************************************)
EXTENDS MCRefresh, FiniteSetTheorems, TLAPS

InTime(a) == \/ index[a] <= Larger(gate[a], Larger(due[a], 0))
             \/ a \in LateAuths /\ index[a] <= Interval

(* Every enabled credential is announced or has a wake-up that is not too  *)
(* late: what both NoneForgotten and WakesInTime say, in one formula, for  *)
(* neither is inductive by itself once a pass drops an announcement.       *)
Safe(a) == Announced(a) \/ (a \in DOMAIN index /\ InTime(a))
Covered == ~stopped => \A a \in Auths : Scheduled(a) => Safe(a)

(* Only a late credential is without its executor. *)
ExecutorsBound == known \ LateAuths \subseteq execs

IInv == TypeOK /\ HandsFree /\ ExecutorsBound /\ Covered /\ DirtyIsRung

-----------------------------------------------------------------------------
Clones == [disabled : BOOLEAN, gate : Int, due : Int]

\* The sentinel instants and clones have the types they stand in for.
LEMMA Constants == /\ Past \in Int /\ NoTimer \in Int /\ NothingSeen \in Clones
                   /\ LagMax \in Nat /\ MaxUpdates \in Nat /\ JobCap \in Nat \ {0}
                   /\ Interval \in Nat /\ PendingBackoff \in Nat /\ FailureBackoff \in Nat
                   /\ Lifetimes \subseteq Int /\ LateAuths \subseteq Auths
                   /\ Writer \in Actors /\ Workers \subseteq Actors
BY TimingAssumption, PoolAssumption DEF Past, NoTimer, NothingSeen, Clones, Actors

\* The clock's arithmetic stays among the integers.
LEMMA Clocks == \A s, t \in Int : Larger(s, t) \in Int /\ OneTickOn(t) \in Int
BY Constants DEF Larger, OneTickOn

\* The initial states are well typed.
LEMMA TypeInit == Init => TypeOK
<1> SUFFICES ASSUME Init PROVE TypeOK
  OBVIOUS
<1>1. ManagerOK
  BY Constants DEF Init, ManagerOK
<1>2. QueueOK
  <2>1. index = [a \in {} |-> Past]
    BY DEF Init
  <2>. DOMAIN index = {} /\ index \in [DOMAIN index -> Int]
    BY <2>1
  <2>2. dirty = {} /\ wake = FALSE /\ jobs = <<>>
    BY DEF Init
  <2>3. jobs \in Seq(Auths) /\ Len(jobs) = 0
    BY <2>2
  <2>4. Len(jobs) <= JobCap
    BY <2>3, Constants
  <2>5. QED
    BY <2>2, <2>3, <2>4 DEF QueueOK
<1>3. LoopOK
  BY Constants DEF Init, LoopOK, LoopSteps
<1>4. ActorsOK
  BY Constants DEF Init, ActorsOK, ActorSteps, Clones
<1>5. updates \in 0..MaxUpdates /\ stopped \in BOOLEAN
  <2>1. updates \in 0..MaxUpdates
    BY Constants DEF Init
  <2>2. stopped \in BOOLEAN
    BY DEF Init
  <2>3. QED
    BY <2>1, <2>2
<1>6. QED
  BY <1>1, <1>2, <1>3, <1>4, <1>5 DEF TypeOK

\* nextRefreshCheckAt yields an instant.
LEMMA CheckIsInstant == TypeOK => \A a \in Auths : CheckAt(a) \in Int
BY Constants, Clocks DEF TypeOK, ManagerOK, LoopOK, CheckAt, Now

\* upsert (auto_refresh_loop.go) leaves a heap of unique credentials with instants.
LEMMA UpsertType ==
    ASSUME QueueOK, NEW a \in Auths, NEW t \in Int, Upsert(a, t)
    PROVE  /\ DOMAIN index' = DOMAIN index \union {a}
           /\ index'[a] = t
           /\ \A b \in DOMAIN index \ {a} : index'[b] = index[b]
           /\ DOMAIN index' \subseteq Auths /\ index' \in [DOMAIN index' -> Int]
BY DEF QueueOK, Upsert

\* remove leaves such a heap too.
LEMMA RemoveType ==
    ASSUME QueueOK, NEW a \in Auths, Remove(a)
    PROVE  /\ DOMAIN index' = DOMAIN index \ {a}
           /\ \A b \in DOMAIN index \ {a} : index'[b] = index[b]
           /\ DOMAIN index' \subseteq Auths /\ index' \in [DOMAIN index' -> Int]
BY DEF QueueOK, Remove

\* So does rescheduling, which does one or the other.
LEMMA RescheduleType ==
    ASSUME TypeOK, NEW a \in Auths, Reschedule(a)
    PROVE  /\ \A b \in DOMAIN index \ {a} : b \in DOMAIN index' /\ index'[b] = index[b]
           /\ Scheduled(a) => a \in DOMAIN index' /\ index'[a] = CheckAt(a)
           /\ DOMAIN index' \subseteq Auths /\ index' \in [DOMAIN index' -> Int]
           /\ DOMAIN index' \subseteq DOMAIN index \union {a}
BY CheckIsInstant, UpsertType, RemoveType DEF Reschedule, TypeOK

\* A step of the loop goroutine keeps the types.
LEMMA LoopType == TypeOK /\ LoopStep => TypeOK'
<1> SUFFICES ASSUME TypeOK, LoopStep PROVE TypeOK'
  OBVIOUS
<1> USE DEF managerVars, actorVars, Loop, TypeOK
<1>1. CASE Rebuild
  <2>1. index' = [a \in {b \in known : ~disabled[b]} |-> CheckAt(a)]
    BY <1>1 DEF Rebuild
  <2>2. DOMAIN index' \subseteq Auths /\ index' \in [DOMAIN index' -> Int]
    BY <2>1, CheckIsInstant DEF ManagerOK
  <2>3. QED
    BY <1>1, <2>2 DEF Rebuild, ManagerOK, QueueOK, LoopOK, ActorsOK, LoopSteps
<1>2. CASE ResetTimer
  <2>1. timer' \in Int
    <3>1. CASE timer' = NoTimer
      BY <3>1, Constants
    <3>2. ASSUME NEW a \in HeadOfHeap, timer' = Larger(index[a] + lag, 0)
          PROVE  timer' \in Int
      <4>1. index[a] \in Int /\ lag \in Int
        BY Constants DEF HeadOfHeap, QueueOK, LoopOK
      <4>2. index[a] + lag \in Int /\ 0 \in Int
        BY <4>1
      <4>3. QED
        BY <3>2, <4>2, Clocks
    <3>3. QED
      BY <1>2, <3>1, <3>2 DEF ResetTimer, Arm
  <2>2. QED
    BY <1>2, <2>1, Constants DEF ResetTimer, ManagerOK, QueueOK, LoopOK, ActorsOK, LoopSteps, queueVars
<1>3. CASE Woken
  BY <1>3 DEF Woken, ManagerOK, QueueOK, LoopOK, ActorsOK, LoopSteps
<1>4. CASE TimerFires
  <2>1. DOMAIN index' \subseteq Auths /\ index' \in [DOMAIN index' -> Int] /\ hand' \subseteq Auths
    BY <1>4 DEF TimerFires, QueueOK
  <2>2. QED
    BY <1>4, <2>1, Constants DEF TimerFires, ManagerOK, QueueOK, LoopOK, ActorsOK, LoopSteps
<1>5. CASE HandledDue
  BY <1>5 DEF HandledDue, ManagerOK, QueueOK, LoopOK, ActorsOK, LoopSteps, queueVars
<1>6. CASE DrainDirty
  BY <1>6 DEF DrainDirty, ManagerOK, QueueOK, LoopOK, ActorsOK, LoopSteps
<1>7. ASSUME NEW a \in Auths, ApplyDirty(a)
      PROVE  TypeOK'
  BY <1>7, RescheduleType DEF ApplyDirty, ManagerOK, QueueOK, LoopOK, ActorsOK
<1>8. ASSUME NEW a \in Auths, PassOver(a)
      PROVE  TypeOK'
  <2>1. Now + Interval \in Int
    BY Constants DEF Now, LoopOK
  <2>2. DOMAIN index' \subseteq Auths /\ index' \in [DOMAIN index' -> Int]
    BY <1>8, <2>1, RescheduleType, UpsertType DEF PassOver, QueueOK
  <2>3. QED
    BY <1>8, <2>2 DEF PassOver, ManagerOK, QueueOK, LoopOK, ActorsOK
<1>9. ASSUME NEW a \in Auths, FindDue(a)
      PROVE  TypeOK'
  BY <1>9, NamesAssumption DEF FindDue, ManagerOK, QueueOK, LoopOK, ActorsOK, LoopSteps, queueVars
<1>10. CASE MarkRefreshPending
  <2>1. gate' \in [Auths -> Int] /\ age' \in [Auths -> Nat]
    BY <1>10, Constants DEF MarkRefreshPending, PendingGate, Now, ManagerOK, LoopOK, ActorsOK
  <2>2. QED
    BY <1>10, <2>1 DEF MarkRefreshPending, ManagerOK, QueueOK, LoopOK, ActorsOK, LoopSteps, queueVars
<1>11. CASE MarkDeclined
  BY <1>11 DEF MarkDeclined, ManagerOK, QueueOK, LoopOK, ActorsOK, LoopSteps, queueVars
<1>12. CASE Reread /\ cur \in Auths
  BY <1>12, RescheduleType DEF Reread, ManagerOK, QueueOK, LoopOK, ActorsOK, LoopSteps
<1>13. CASE LoopPosts /\ cur \in Auths
  BY <1>13 DEF LoopPosts, Marked, RingLoop, ManagerOK, QueueOK, LoopOK, ActorsOK, LoopSteps
<1>14. CASE SendJob /\ cur \in Auths
  <2>1. jobs' \in Seq(Auths) /\ Len(jobs') <= JobCap
    BY <1>14, Constants DEF SendJob, Send, QueueOK
  <2>2. QED
    BY <1>14, <2>1 DEF SendJob, ManagerOK, QueueOK, LoopOK, ActorsOK, LoopSteps
<1>15. Reread \/ LoopPosts \/ SendJob => cur \in Auths
  BY DEF Reread, LoopPosts, SendJob, LoopOK
<1>16. QED
  BY <1>1, <1>2, <1>3, <1>4, <1>5, <1>6, <1>7, <1>8, <1>9, <1>10, <1>11, <1>12, <1>13, <1>14,
     <1>15 DEF LoopStep

\* So does ending the loop.
LEMMA StopType == TypeOK /\ (AbandonSend \/ LoopExits \/ StopAutoRefresh) => TypeOK'
BY DEF AbandonSend, LoopExits, StopAutoRefresh, Loop, TypeOK, ManagerOK, QueueOK, LoopOK, ActorsOK,
       LoopSteps, managerVars, queueVars, loopVars, actorVars

(* queueReschedule, by a worker or by the writer. *)
LEMMA PostType ==
    ASSUME TypeOK, NEW p \in Actors, Post(p) \/ Ring(p)
    PROVE  TypeOK'
<1>1. on[p] \in Auths
  BY DEF TypeOK, ActorsOK, Post, Ring
<1>2. ActorsOK'
  BY <1>1 DEF Post, Ring, TypeOK, ActorsOK, ActorSteps
<1>3. ManagerOK' /\ LoopOK' /\ updates' = updates /\ stopped' = stopped
  BY DEF Post, Ring, TypeOK, ManagerOK, LoopOK, managerVars, loopVars
<1>4. QueueOK'
  BY <1>1 DEF Post, Ring, Marked, RingLoop, TypeOK, QueueOK
<1>5. QED
  BY <1>2, <1>3, <1>4 DEF TypeOK

\* A worker's refresh, from its start to its result, keeps the types.
LEMMA RefreshType ==
    ASSUME TypeOK, NEW w \in Workers,
           RefreshSucceeds(w) \/ RefreshFails(w) \/ RefreshCancelled(w)
    PROVE  TypeOK'
<1>1. /\ at[w] = "refresh" /\ on' = on /\ age' = age /\ seen' = [seen EXCEPT ![w] = NothingSeen]
      /\ \E s \in {"post", "repost"} : at' = [at EXCEPT ![w] = s]
  BY DEF RefreshSucceeds, RefreshFails, RefreshCancelled, EndRefresh
<1>2. w \in Actors /\ on[w] \in Auths
  BY <1>1, Constants DEF TypeOK, ActorsOK
<1>3. ActorsOK'
  BY <1>1, <1>2, Constants DEF TypeOK, ActorsOK, ActorSteps, Clones
<1>4. seen[w].disabled \in BOOLEAN /\ seen[w].gate \in Int
  BY <1>2 DEF TypeOK, ActorsOK
<1>5. known' = known /\ execs' = execs /\ UNCHANGED <<queueVars, loopVars, updates, stopped>>
  BY DEF RefreshSucceeds, RefreshFails, RefreshCancelled, EndRefresh
<1>6. disabled' \in [Auths -> BOOLEAN] /\ gate' \in [Auths -> Int] /\ due' \in [Auths -> Int]
  BY <1>4, Constants DEF RefreshSucceeds, RefreshFails, RefreshCancelled, TypeOK, ManagerOK
<1>7. QED
  BY <1>3, <1>5, <1>6 DEF TypeOK, ManagerOK, QueueOK, LoopOK, queueVars, loopVars

\* So does every step of a worker.
LEMMA WorkerType ==
    ASSUME TypeOK, NEW w \in Workers, WorkerStep(w) \/ WorkerExits(w)
    PROVE  TypeOK'
<1>1. w \in Actors
  BY Constants
<1>2. CASE TakeJob(w)
  <2>1. jobs # <<>> /\ Head(jobs) \in Auths /\ jobs' = Tail(jobs)
        /\ jobs' \in Seq(Auths) /\ Len(jobs') <= JobCap
    BY <1>2, Constants DEF TakeJob, TypeOK, QueueOK
  <2>2. ActorsOK'
    BY <1>1, <1>2, <2>1 DEF TakeJob, TypeOK, ManagerOK, ActorsOK, ActorSteps
  <2>3. QED
    BY <1>2, <2>1, <2>2 DEF TakeJob, TypeOK, ManagerOK, QueueOK, LoopOK, managerVars, loopVars
<1>3. CASE WorkerExits(w)
  BY <1>1, <1>3 DEF WorkerExits, TypeOK, ManagerOK, QueueOK, LoopOK, ActorsOK, ActorSteps,
                    managerVars, queueVars, loopVars
<1>4. QED
  BY <1>1, <1>2, <1>3, PostType, RefreshType DEF WorkerStep

\* So does every step of the service writing credentials.
LEMMA WriterType == TypeOK /\ WriterStep => TypeOK'
<1> SUFFICES ASSUME TypeOK, WriterStep PROVE TypeOK'
  OBVIOUS
<1>1. Writer \in Actors
  BY Constants
<1>2. ASSUME NEW a \in Auths, Register(a)
      PROVE  TypeOK'
  <2>1. ActorsOK'
    BY <1>1, <1>2, Constants DEF Register, WriterGoes, TypeOK, ActorsOK, ActorSteps, Clones
  <2>2. ManagerOK'
    BY <1>2, Constants DEF Register, TypeOK, ManagerOK
  <2>3. updates' \in 0..MaxUpdates
    BY <1>2, Constants DEF Register, TypeOK
  <2>4. QED
    BY <1>2, <2>1, <2>2, <2>3 DEF Register, TypeOK, QueueOK, LoopOK, queueVars, loopVars
<1>3. ASSUME NEW a \in Auths, GetByID(a)
      PROVE  TypeOK'
  <2>1. ActorsOK'
    BY <1>1, <1>3 DEF GetByID, WriterGoes, TypeOK, ManagerOK, ActorsOK, ActorSteps
  <2>2. updates' \in 0..MaxUpdates
    BY <1>3, Constants DEF GetByID, TypeOK
  <2>3. QED
    BY <1>3, <2>1, <2>2 DEF GetByID, TypeOK, ManagerOK, QueueOK, LoopOK, managerVars, queueVars, loopVars
<1>4. CASE AddOrUpdate \/ Removal
  <2>1. at[Writer] = "got" /\ WriterGoes("post", on[Writer], NothingSeen)
    BY <1>4 DEF AddOrUpdate, Removal
  <2>2. on[Writer] \in Auths /\ seen[Writer] \in Clones
    BY <1>1, <2>1 DEF TypeOK, ActorsOK, Clones
  <2>3. age' = age /\ known' = known /\ execs' = execs
        /\ UNCHANGED <<queueVars, loopVars, updates, stopped>>
    BY <1>4 DEF AddOrUpdate, Removal
  <2>4. ActorsOK'
    BY <1>1, <2>1, <2>2, <2>3, Constants DEF WriterGoes, TypeOK, ActorsOK, ActorSteps, Clones
  <2>5. seen[Writer].gate \in Int /\ seen[Writer].due \in Int
    BY <2>2 DEF Clones
  <2>6. disabled' \in [Auths -> BOOLEAN] /\ gate' \in [Auths -> Int] /\ due' \in [Auths -> Int]
    <3>1. CASE AddOrUpdate
      <4>1. PICK d \in Lifetimes \union {Past}, off \in BOOLEAN :
               /\ due' = [due EXCEPT ![on[Writer]] = d]
               /\ disabled' = [disabled EXCEPT ![on[Writer]] = off]
               /\ gate' = [gate EXCEPT ![on[Writer]] =
                              IF off \/ seen[Writer].disabled THEN Past ELSE seen[Writer].gate]
        BY <3>1 DEF AddOrUpdate
      <4>2. d \in Int
        BY Constants
      <4>3. QED
        BY <2>5, <4>1, <4>2, Constants DEF TypeOK, ManagerOK
    <3>2. CASE Removal
      BY <2>5, <3>2 DEF Removal, TypeOK, ManagerOK
    <3>3. QED
      BY <1>4, <3>1, <3>2
  <2>7. QED
    BY <2>3, <2>4, <2>6 DEF TypeOK, ManagerOK, QueueOK, LoopOK, queueVars, loopVars
<1>5. QED
  BY <1>1, <1>2, <1>3, <1>4, PostType DEF WriterStep

\* So does the passing of time.
LEMMA TickType == TypeOK /\ Tick => TypeOK'
<1> SUFFICES ASSUME TypeOK, Tick PROVE TypeOK'
  OBVIOUS
<1>1. ManagerOK'
  BY Clocks DEF Tick, TypeOK, ManagerOK
<1>2. QueueOK'
  <2>1. index' = [a \in DOMAIN index |-> OneTickOn(index[a])]
    BY DEF Tick
  <2>2. DOMAIN index' \subseteq Auths /\ index' \in [DOMAIN index' -> Int]
    BY <2>1, Clocks DEF TypeOK, QueueOK
  <2>3. QED
    BY <2>2 DEF Tick, TypeOK, QueueOK
<1>3. LoopOK'
  <2>1. lag' \in 0..LagMax
    <3>1. lag' = (IF InPass THEN lag + 1 ELSE lag) /\ (InPass => lag < LagMax)
      BY DEF Tick
    <3>2. QED
      BY <3>1, Constants DEF TypeOK, LoopOK
  <2>2. timer' \in Int
    <3>1. timer' = IF timer > 0 THEN timer - 1 ELSE timer
      BY DEF Tick
    <3>2. QED
      BY <3>1 DEF TypeOK, LoopOK
  <2>3. QED
    BY <2>1, <2>2 DEF Tick, TypeOK, LoopOK
<1>4. ActorsOK'
  <2>1. at' = at /\ on' = on
    BY DEF Tick
  <2>2. age' \in [Auths -> Nat]
    <3>1. age' = [a \in Auths |-> IF InFlight(a) > 0 /\ ~stopped THEN age[a] + 1 ELSE 0]
      BY DEF Tick
    <3>2. QED
      BY <3>1 DEF TypeOK, ActorsOK
  <2>3. seen' \in [Actors -> [disabled : BOOLEAN, gate : Int, due : Int]]
    BY Clocks DEF Tick, TypeOK, ActorsOK
  <2>4. QED
    BY <2>1, <2>2, <2>3 DEF TypeOK, ActorsOK
<1>5. QED
  BY <1>1, <1>2, <1>3, <1>4 DEF Tick, TypeOK

\* Every step keeps the types.
LEMMA TypeStep == TypeOK /\ [Next]_vars => TypeOK'
<1> SUFFICES ASSUME TypeOK, [Next]_vars PROVE TypeOK'
  OBVIOUS
<1>1. ASSUME NEW a \in Auths, RegisterExecutor(a)
      PROVE  TypeOK'
  BY <1>1, Constants DEF RegisterExecutor, TypeOK, ManagerOK, QueueOK, LoopOK, ActorsOK,
                         queueVars, loopVars, actorVars
<1>2. CASE UNCHANGED vars
  BY <1>2 DEF vars, TypeOK, ManagerOK, QueueOK, LoopOK, ActorsOK, managerVars, queueVars,
              loopVars, actorVars
<1>3. QED
  BY <1>1, <1>2, LoopType, StopType, WorkerType, WriterType, TickType DEF Next

-----------------------------------------------------------------------------
(* Where the loop stands and what it holds. *)
LEMMA HandsStep == TypeOK /\ HandsFree /\ [Next]_vars => HandsFree'
<1> SUFFICES ASSUME TypeOK, HandsFree, [Next]_vars PROVE HandsFree'
  OBVIOUS
<1> USE DEF HandsFree
<1>1. CASE LoopStep
  <2>1. CASE Rebuild \/ ResetTimer \/ Woken \/ TimerFires \/ HandledDue \/ DrainDirty
    BY <2>1 DEF Rebuild, ResetTimer, Woken, TimerFires, HandledDue, DrainDirty, Loop, TypeOK, LoopOK
  <2>2. ASSUME NEW a \in Auths, ApplyDirty(a) \/ PassOver(a) \/ FindDue(a)
        PROVE  HandsFree'
    BY <2>2 DEF ApplyDirty, PassOver, FindDue, Loop, TypeOK, LoopOK
  <2>3. CASE MarkRefreshPending \/ MarkDeclined \/ Reread \/ SendJob
    BY <2>3 DEF MarkRefreshPending, MarkDeclined, Reread, SendJob, Loop, TypeOK, LoopOK
  <2>4. CASE LoopPosts
    BY <2>4 DEF LoopPosts, Marked, Loop
  <2>5. QED
    BY <1>1, <2>1, <2>2, <2>3, <2>4 DEF LoopStep
<1>2. CASE AbandonSend \/ LoopExits \/ StopAutoRefresh
  BY <1>2 DEF AbandonSend, LoopExits, StopAutoRefresh, Loop, loopVars, queueVars, TypeOK, LoopOK
<1>3. UNCHANGED <<loopVars, dirty, stopped>> => HandsFree'
  BY DEF loopVars
<1>4. ASSUME NEW p \in Actors, Post(p) \/ Ring(p)
      PROVE  HandsFree'
  BY <1>4 DEF Post, Ring, Marked, loopVars
<1>5. ASSUME NEW w \in Workers, WorkerStep(w) \/ WorkerExits(w)
      PROVE  HandsFree'
  BY <1>3, <1>4, <1>5, Constants DEF WorkerStep, WorkerExits, TakeJob, RefreshSucceeds, RefreshFails,
     RefreshCancelled, EndRefresh, queueVars
<1>6. CASE WriterStep
  BY <1>3, <1>4, <1>6, Constants DEF WriterStep, Register, GetByID, AddOrUpdate, Removal, queueVars
<1>7. ASSUME NEW a \in Auths, RegisterExecutor(a)
      PROVE  HandsFree'
  BY <1>3, <1>7 DEF RegisterExecutor, queueVars
<1>8. CASE Tick
  BY <1>8 DEF Tick
<1>9. CASE UNCHANGED vars
  BY <1>3, <1>9 DEF vars, queueVars
<1>10. QED
  BY <1>1, <1>2, <1>5, <1>6, <1>7, <1>8, <1>9 DEF Next

(* A dirty mark has its wake-up. *)
LEMMA RungStep == TypeOK /\ HandsFree /\ DirtyIsRung /\ [Next]_vars => DirtyIsRung'
<1> SUFFICES ASSUME TypeOK, HandsFree, DirtyIsRung, [Next]_vars PROVE DirtyIsRung'
  OBVIOUS
<1> DEFINE Ringing == \E p \in Actors : at[p] \in {"ring", "rering"}
<1>1. CASE LoopStep
  <2>1. at' = at
    BY <1>1 DEF LoopStep, Rebuild, ResetTimer, Woken, TimerFires, HandledDue, DrainDirty,
       ApplyDirty, PassOver, FindDue, MarkRefreshPending, MarkDeclined, Reread, LoopPosts, SendJob,
       actorVars
  <2>2. CASE Rebuild \/ ResetTimer \/ Woken \/ TimerFires \/ HandledDue \/ DrainDirty
    BY <2>1, <2>2 DEF Rebuild, ResetTimer, Woken, TimerFires, HandledDue, DrainDirty, Loop,
                      DirtyIsRung, HandsFree, queueVars
  <2>3. ASSUME NEW a \in Auths, ApplyDirty(a) \/ PassOver(a) \/ FindDue(a)
        PROVE  DirtyIsRung'
    BY <2>1, <2>3 DEF ApplyDirty, PassOver, FindDue, Loop, DirtyIsRung, queueVars
  <2>4. CASE MarkRefreshPending \/ MarkDeclined \/ Reread \/ SendJob \/ LoopPosts
    BY <2>1, <2>4 DEF MarkRefreshPending, MarkDeclined, Reread, SendJob, LoopPosts, RingLoop, Loop,
                      DirtyIsRung, queueVars, HandsFree, TypeOK, LoopOK
  <2>5. QED
    BY <1>1, <2>2, <2>3, <2>4 DEF LoopStep
<1>2. CASE AbandonSend \/ LoopExits \/ StopAutoRefresh
  BY <1>2 DEF AbandonSend, LoopExits, StopAutoRefresh, Loop, loopVars, queueVars, actorVars,
              DirtyIsRung, HandsFree
<1>3. ASSUME UNCHANGED <<dirty, wake, pc, phase>>,
             \A p \in Actors : at[p] \in {"ring", "rering"} => at'[p] = at[p]
      PROVE  DirtyIsRung'
  BY <1>3 DEF DirtyIsRung
<1>4. ASSUME NEW p \in Actors, Post(p)
      PROVE  DirtyIsRung'
  <2>1. pc' = pc /\ phase' = phase /\ wake' = wake
    BY <1>4 DEF Post, loopVars
  <2>2. CASE at'[p] \in {"ring", "rering"}
    BY <2>2 DEF DirtyIsRung
  <2>3. CASE at'[p] \notin {"ring", "rering"}
    <3>1. dirty' = dirty
      BY <1>4, <2>3 DEF Post, TypeOK, ActorsOK
    <3>2. \A q \in Actors : at[q] \in {"ring", "rering"} => at'[q] = at[q]
      BY <1>4 DEF Post, TypeOK, ActorsOK
    <3>3. QED
      BY <1>3, <2>1, <3>1, <3>2
  <2>4. QED
    BY <2>2, <2>3
<1>5. ASSUME NEW p \in Actors, Ring(p)
      PROVE  DirtyIsRung'
  BY <1>5 DEF Ring, RingLoop, DirtyIsRung
<1>6. ASSUME NEW w \in Workers, WorkerStep(w) \/ WorkerExits(w)
      PROVE  DirtyIsRung'
  <2>1. CASE Post(w) \/ Ring(w)
    BY <1>4, <1>5, <2>1, Constants
  <2>2. CASE TakeJob(w) \/ WorkerExits(w)
    BY <1>3, <2>2 DEF TakeJob, WorkerExits, loopVars, queueVars, TypeOK, ActorsOK
  <2>3. CASE RefreshSucceeds(w) \/ RefreshFails(w) \/ RefreshCancelled(w)
    BY <1>3, <2>3 DEF RefreshSucceeds, RefreshFails, RefreshCancelled, EndRefresh, loopVars,
                      queueVars, TypeOK, ActorsOK
  <2>4. QED
    BY <1>6, <2>1, <2>2, <2>3 DEF WorkerStep
<1>7. CASE WriterStep
  <2>1. CASE Post(Writer) \/ Ring(Writer)
    BY <1>4, <1>5, <2>1, Constants
  <2>2. ASSUME NEW a \in Auths, Register(a) \/ GetByID(a)
        PROVE  DirtyIsRung'
    BY <1>3, <2>2 DEF Register, GetByID, WriterGoes, loopVars, queueVars, TypeOK, ActorsOK
  <2>3. CASE AddOrUpdate \/ Removal
    BY <1>3, <2>3 DEF AddOrUpdate, Removal, WriterGoes, loopVars, queueVars, TypeOK, ActorsOK
  <2>4. QED
    BY <1>7, <2>1, <2>2, <2>3 DEF WriterStep
<1>8. ASSUME NEW a \in Auths, RegisterExecutor(a)
      PROVE  DirtyIsRung'
  BY <1>3, <1>8 DEF RegisterExecutor, queueVars, loopVars, actorVars
<1>9. CASE Tick
  BY <1>3, <1>9 DEF Tick
<1>10. CASE UNCHANGED vars
  BY <1>3, <1>10 DEF vars, queueVars, loopVars, actorVars
<1>11. QED
  BY <1>1, <1>2, <1>6, <1>7, <1>8, <1>9, <1>10 DEF Next

(* Only late credentials wait for their executor. *)
LEMMA ExecutorsStep == ExecutorsBound /\ [Next]_vars => ExecutorsBound'
<1>1. UNCHANGED <<known, execs>> => (ExecutorsBound => ExecutorsBound')
  BY DEF ExecutorsBound
<1>2. QED
  BY <1>1 DEF ExecutorsBound, Next, vars, managerVars, LoopStep, Rebuild, ResetTimer, Woken,
     TimerFires, HandledDue, DrainDirty, ApplyDirty, PassOver, FindDue, MarkRefreshPending,
     MarkDeclined, Reread, LoopPosts, SendJob, AbandonSend, LoopExits, StopAutoRefresh,
     WorkerStep, WorkerExits, TakeJob, RefreshSucceeds, RefreshFails, RefreshCancelled, EndRefresh,
     Post, Ring, WriterStep, Register, GetByID, AddOrUpdate, Removal, RegisterExecutor, Tick

-----------------------------------------------------------------------------
(* What nextRefreshCheckAt answers is never too late, ... *)
LEMMA CheckInTime ==
    TypeOK => \A a \in Auths : CheckAt(a) <= Larger(gate[a], Larger(due[a], 0))
BY Constants DEF TypeOK, ManagerOK, LoopOK, CheckAt, Larger, Now

(* ... and a credential just rescheduled is safe. *)
LEMMA RescheduledIsSafe ==
    ASSUME TypeOK, NEW a \in Auths, Scheduled(a), Reschedule(a), gate' = gate, due' = due
    PROVE  Safe(a)'
BY CheckInTime, RescheduleType DEF Safe, InTime

(* A step that leaves a credential, its wake-up and its announcement alone *)
(* leaves it safe.                                                         *)
LEMMA Frame ==
    ASSUME Covered, stopped' = stopped, NEW a \in Auths, Scheduled(a)', ~stopped,
           known' = known, disabled'[a] = disabled[a], gate'[a] = gate[a], due'[a] = due[a],
           a \in DOMAIN index => a \in DOMAIN index' /\ index'[a] = index[a],
           Announced(a) => Announced(a)'
    PROVE  Safe(a)'
BY DEF Covered, Safe, Scheduled, InTime

\* No step of the loop forgets a credential.
LEMMA CoveredLoop == IInv /\ LoopStep => Covered'
<1> SUFFICES ASSUME IInv, LoopStep, ~stopped', NEW a \in Auths, Scheduled(a)'
             PROVE  Safe(a)'
  BY DEF Covered
<1> USE DEF IInv
<1>1. stopped' = stopped /\ UNCHANGED <<known, disabled, due>> /\ at' = at /\ on' = on
  BY DEF LoopStep, Rebuild, ResetTimer, Woken, TimerFires, HandledDue, DrainDirty,
     ApplyDirty, PassOver, FindDue, MarkRefreshPending, MarkDeclined, Reread, LoopPosts, SendJob,
     actorVars, managerVars
<1>2. Scheduled(a)
  BY <1>1 DEF Scheduled
<1>3. CASE Rebuild
  <2>1. gate' = gate /\ index' = [b \in {c \in known : ~disabled[c]} |-> CheckAt(b)]
    BY <1>3 DEF Rebuild, managerVars
  <2>2. a \in DOMAIN index' /\ index'[a] = CheckAt(a)
    BY <1>2, <2>1 DEF Scheduled
  <2>3. QED
    BY <1>1, <2>1, <2>2, CheckInTime DEF Safe, InTime
<1>4. CASE ResetTimer \/ Woken \/ HandledDue
  BY <1>1, <1>2, <1>4, Frame DEF ResetTimer, Woken, HandledDue, Loop, Announced, managerVars, queueVars
<1>5. CASE TimerFires
  <2>1. CASE a \in hand'
    BY <2>1 DEF Safe, Announced
  <2>2. CASE a \notin hand'
    <3>1. gate' = gate /\ dirty' = dirty /\ cur' = cur /\ hand = {} /\ pc # "rebuild"
      BY <1>5 DEF TimerFires, HandsFree, Loop, managerVars
    <3>2. a \in DOMAIN index => a \in DOMAIN index' /\ index'[a] = index[a]
      BY <1>5, <2>2 DEF TimerFires
    <3>3. QED
      BY <1>1, <3>1, <3>2, Frame DEF Announced
  <2>3. QED
    BY <2>1, <2>2
<1>6. CASE DrainDirty
  <2>1. gate' = gate /\ index' = index /\ cur' = cur /\ hand = {} /\ hand' = dirty /\ pc # "rebuild"
    BY <1>6 DEF DrainDirty, HandsFree, Loop, managerVars
  <2>2. QED
    BY <1>1, <2>1, Frame DEF Announced
<1>7. ASSUME NEW b \in Auths, ApplyDirty(b) \/ PassOver(b)
      PROVE  Safe(a)'
  <2>1. gate' = gate /\ dirty' = dirty /\ cur' = cur /\ hand' = hand \ {b} /\ pc # "rebuild"
    BY <1>7 DEF ApplyDirty, PassOver, Loop, managerVars
  <2>2. CASE Reschedule(b)
    <3>1. CASE a = b
      BY <1>1, <1>2, <2>1, <2>2, <3>1, RescheduledIsSafe
    <3>2. CASE a # b
      BY <1>1, <2>1, <2>2, <3>2, RescheduleType, Frame DEF Announced
    <3>3. QED
      BY <3>1, <3>2
  <2>3. CASE b \notin known /\ index' = index
    BY <1>1, <1>2, <2>1, <2>3, Frame DEF Announced, Scheduled
  <2>4. CASE b \notin execs /\ ShouldRefresh(b) /\ Upsert(b, Now + Interval)
    <3>1. Now + Interval \in Int /\ Now + Interval <= Interval
      BY Constants DEF Now, TypeOK, LoopOK
    <3>2. b \in LateAuths
      BY <2>4 DEF ExecutorsBound, ShouldRefresh, Scheduled
    <3>3. CASE a = b
      BY <2>4, <3>1, <3>2, <3>3, UpsertType DEF Safe, InTime, TypeOK
    <3>4. CASE a # b
      BY <1>1, <2>1, <2>4, <3>1, <3>4, UpsertType, Frame DEF Announced, TypeOK
    <3>5. QED
      BY <3>3, <3>4
  <2>5. QED
    BY <1>7, <2>2, <2>3, <2>4 DEF ApplyDirty, PassOver
<1>8. ASSUME NEW b \in Auths, FindDue(b)
      PROVE  Safe(a)'
  <2>1. gate' = gate /\ dirty' = dirty /\ index' = index /\ hand' = hand \ {b} /\ cur' = b
        /\ pc = "next"
    BY <1>8 DEF FindDue, Loop, managerVars, queueVars
  <2>2. cur = Nobody
    BY <2>1 DEF TypeOK, LoopOK
  <2>3. QED
    BY <1>1, <2>1, <2>2, NamesAssumption, Frame DEF Announced
<1>9. CASE MarkRefreshPending
  <2>1. /\ gate' = PendingGate(cur) /\ UNCHANGED <<index, dirty, hand, cur>> /\ pc # "rebuild"
    BY <1>9 DEF MarkRefreshPending, Loop, queueVars
  <2>2. CASE a = cur
    BY <2>1, <2>2 DEF Safe, Announced
  <2>3. CASE a # cur
    <3>1. gate'[a] = gate[a]
      BY <2>1, <2>3 DEF PendingGate, TypeOK, ManagerOK
    <3>2. QED
      BY <1>1, <2>1, <3>1, Frame DEF Announced
  <2>4. QED
    BY <2>2, <2>3
<1>10. CASE MarkDeclined
  BY <1>1, <1>10, Frame DEF MarkDeclined, Announced, managerVars, queueVars
<1>11. CASE Reread
  <2>1. gate' = gate /\ dirty' = dirty /\ hand' = hand /\ pc = "reread" /\ Reschedule(cur)
    BY <1>11 DEF Reread, Loop, managerVars
  <2>2. cur \in Auths
    BY <2>1 DEF TypeOK, LoopOK
  <2>3. CASE a = cur
    BY <1>1, <1>2, <2>1, <2>3, RescheduledIsSafe
  <2>4. CASE a # cur
    BY <1>1, <2>1, <2>2, <2>4, RescheduleType, Frame DEF Announced
  <2>5. QED
    BY <2>3, <2>4
<1>12. CASE LoopPosts
  BY <1>1, <1>12, Frame DEF LoopPosts, Marked, Loop, Announced, managerVars
<1>13. CASE SendJob
  <2>1. UNCHANGED <<gate, index, dirty, hand>> /\ pc = "send"
    BY <1>13 DEF SendJob, Loop, managerVars
  <2>2. cur \in dirty
    BY <1>1, <2>1 DEF HandsFree
  <2>3. QED
    BY <1>1, <2>1, <2>2, Frame DEF Announced
<1>14. QED
  BY <1>3, <1>4, <1>5, <1>6, <1>7, <1>8, <1>9, <1>10, <1>11, <1>12, <1>13 DEF LoopStep

(* The other goroutines only change credentials they then post. *)
LEMMA CoveredPost ==
    ASSUME IInv, NEW p \in Actors, Post(p) \/ Ring(p)
    PROVE  Covered'
<1> SUFFICES ASSUME ~stopped', NEW a \in Auths, Scheduled(a)'
             PROVE  Safe(a)'
  BY DEF Covered
<1>1. UNCHANGED <<known, disabled, gate, due, index, hand, cur, pc, stopped>>
  BY DEF Post, Ring, managerVars, loopVars
<1>2. \A q \in Actors \ {p} : at'[q] = at[q] /\ on'[q] = on[q]
  BY DEF Post, Ring, IInv, TypeOK, ActorsOK
<1>3. CASE Post(p)
  <2>1. dirty' = dirty \union {on[p]}
    BY <1>1, <1>3 DEF Post, Marked
  <2>2. QED
    BY <1>1, <1>2, <2>1, Frame DEF Announced, IInv
<1>4. CASE Ring(p)
  <2>1. dirty' = dirty /\ at[p] \notin {"post", "repost"}
    BY <1>4 DEF Ring
  <2>2. QED
    BY <1>1, <1>2, <2>1, Frame DEF Announced, IInv
<1>5. QED
  BY <1>3, <1>4

\* No step of a worker does.
LEMMA CoveredWorker ==
    ASSUME IInv, NEW w \in Workers, WorkerStep(w) \/ WorkerExits(w)
    PROVE  Covered'
<1>1. w \in Actors
  BY Constants
<1>2. CASE Post(w) \/ Ring(w)
  BY <1>1, <1>2, CoveredPost
<1> SUFFICES ASSUME ~(Post(w) \/ Ring(w)), ~stopped', NEW a \in Auths, Scheduled(a)'
             PROVE  Safe(a)'
  BY <1>2 DEF Covered
<1>3. UNCHANGED <<known, index, dirty, hand, cur, pc, stopped>>
  BY DEF WorkerStep, WorkerExits, TakeJob, RefreshSucceeds, RefreshFails, RefreshCancelled,
     EndRefresh, managerVars, queueVars, loopVars
<1>4. CASE TakeJob(w) \/ WorkerExits(w)
  <2>1. /\ \A q \in Actors \ {w} : at'[q] = at[q] /\ on'[q] = on[q]
        /\ at[w] = "idle" /\ UNCHANGED <<disabled, gate, due>>
    BY <1>4 DEF TakeJob, WorkerExits, managerVars, IInv, TypeOK, ActorsOK
  <2>2. QED
    BY <1>3, <2>1, Frame DEF Announced, IInv
<1>5. CASE RefreshSucceeds(w) \/ RefreshFails(w)
  <2>1. /\ at[w] = "refresh" /\ on' = on /\ at' = [at EXCEPT ![w] = "post"]
    BY <1>5 DEF RefreshSucceeds, RefreshFails, EndRefresh
  <2>2. CASE a = on[w]
    BY <1>1, <2>1, <2>2 DEF Safe, Announced, IInv, TypeOK, ActorsOK
  <2>3. CASE a # on[w]
    <3>1. disabled'[a] = disabled[a] /\ gate'[a] = gate[a] /\ due'[a] = due[a]
      BY <1>5, <2>3 DEF RefreshSucceeds, RefreshFails, IInv, TypeOK, ManagerOK
    <3>2. \A q \in Actors \ {w} : at'[q] = at[q] /\ on'[q] = on[q]
      BY <2>1 DEF IInv, TypeOK, ActorsOK
    <3>3. QED
      BY <1>3, <2>1, <3>1, <3>2, Frame DEF Announced, IInv
  <2>4. QED
    BY <2>2, <2>3
<1>6. CASE RefreshCancelled(w)
  BY <1>3, <1>6 DEF RefreshCancelled
<1>7. QED
  BY <1>4, <1>5, <1>6 DEF WorkerStep

\* No step of the service does.
LEMMA CoveredWriter == IInv /\ WriterStep => Covered'
<1> SUFFICES ASSUME IInv, WriterStep PROVE Covered'
  OBVIOUS
<1>1. Writer \in Actors
  BY Constants
<1>2. CASE Post(Writer) \/ Ring(Writer)
  BY <1>1, <1>2, CoveredPost
<1>3. ASSUME NEW b \in Auths, Register(b), ~stopped', NEW a \in Auths, Scheduled(a)'
      PROVE  Safe(a)'
  <2>1. /\ UNCHANGED <<index, dirty, hand, cur, pc, stopped>> /\ at[Writer] = "idle"
        /\ at'[Writer] = "post" /\ on'[Writer] = b
        /\ \A q \in Actors \ {Writer} : at'[q] = at[q] /\ on'[q] = on[q]
    BY <1>1, <1>3 DEF Register, WriterGoes, queueVars, loopVars, IInv, TypeOK, ActorsOK
  <2>2. CASE a = b
    BY <1>1, <2>1, <2>2 DEF Safe, Announced
  <2>3. CASE a # b
    <3>1. Scheduled(a) /\ disabled'[a] = disabled[a] /\ gate'[a] = gate[a] /\ due'[a] = due[a]
      BY <1>3, <2>3 DEF Register, Scheduled, IInv, TypeOK, ManagerOK
    <3>2. Announced(a) => Announced(a)'
      BY <2>1 DEF Announced
    <3>3. Safe(a)
      BY <1>3, <2>1, <3>1 DEF Covered, IInv
    <3>4. QED
      BY <2>1, <3>1, <3>2, <3>3 DEF Safe, InTime
  <2>4. QED
    BY <2>2, <2>3
<1>4. ASSUME NEW b \in Auths, GetByID(b), ~stopped', NEW a \in Auths, Scheduled(a)'
      PROVE  Safe(a)'
  <2>1. /\ UNCHANGED <<known, disabled, gate, due, index, dirty, hand, cur, pc, stopped>>
        /\ at[Writer] = "idle"
        /\ \A q \in Actors \ {Writer} : at'[q] = at[q] /\ on'[q] = on[q]
    BY <1>1, <1>4 DEF GetByID, WriterGoes, managerVars, queueVars, loopVars, IInv, TypeOK, ActorsOK
  <2>2. QED
    BY <1>4, <2>1, Frame DEF Announced, IInv
<1>5. ASSUME AddOrUpdate \/ Removal, ~stopped', NEW a \in Auths, Scheduled(a)'
      PROVE  Safe(a)'
  <2>1. /\ UNCHANGED <<known, index, dirty, hand, cur, pc, stopped>> /\ at[Writer] = "got"
        /\ at'[Writer] = "post" /\ on'[Writer] = on[Writer]
        /\ \A q \in Actors \ {Writer} : at'[q] = at[q] /\ on'[q] = on[q]
    BY <1>1, <1>5 DEF AddOrUpdate, Removal, WriterGoes, queueVars, loopVars, IInv, TypeOK, ActorsOK
  <2>2. CASE a = on[Writer]
    BY <1>1, <2>1, <2>2 DEF Safe, Announced
  <2>3. CASE a # on[Writer]
    <3>1. disabled'[a] = disabled[a] /\ gate'[a] = gate[a] /\ due'[a] = due[a]
      BY <1>5, <2>3 DEF AddOrUpdate, Removal, IInv, TypeOK, ManagerOK
    <3>2. QED
      BY <1>5, <2>1, <3>1, Frame DEF Announced, IInv
  <2>4. QED
    BY <2>2, <2>3
<1>6. QED
  BY <1>2, <1>3, <1>4, <1>5 DEF WriterStep, Covered

(* A tick brings every wake-up nearer by as much as the instant it is for. *)
LEMMA CoveredTick == IInv /\ Tick => Covered'
<1> SUFFICES ASSUME IInv, Tick, ~stopped', NEW a \in Auths, Scheduled(a)'
             PROVE  Safe(a)'
  BY DEF Covered
<1>1. UNCHANGED <<known, disabled, dirty, hand, cur, pc, at, on, stopped>> /\ DOMAIN index' = DOMAIN index
  BY DEF Tick
<1>2. Safe(a)
  BY <1>1 DEF Covered, IInv, Scheduled
<1>3. CASE Announced(a)
  BY <1>1, <1>3 DEF Announced, Safe
<1>4. CASE a \in DOMAIN index /\ InTime(a)
  <2>1. index'[a] = OneTickOn(index[a]) /\ gate'[a] = OneTickOn(gate[a]) /\ due'[a] = OneTickOn(due[a])
    BY <1>4 DEF Tick
  <2>2. index[a] \in Int /\ gate[a] \in Int /\ due[a] \in Int
    BY <1>4 DEF IInv, TypeOK, ManagerOK, QueueOK
  <2>3. InTime(a)'
    BY <1>4, <2>1, <2>2, Constants, TimingAssumption DEF InTime, OneTickOn, Larger, Past
  <2>4. QED
    BY <1>1, <1>4, <2>3 DEF Safe
<1>5. QED
  BY <1>2, <1>3, <1>4 DEF Safe

\* The inductive invariant holds initially.
LEMMA InitInv == Init => IInv
<1> SUFFICES ASSUME Init PROVE IInv
  OBVIOUS
<1>1. TypeOK
  BY TypeInit
<1>2. HandsFree
  BY DEF Init, HandsFree
<1>3. ExecutorsBound
  BY DEF Init, ExecutorsBound
<1>4. Covered /\ DirtyIsRung
  BY DEF Init, Covered, Safe, Announced, DirtyIsRung
<1>5. QED
  BY <1>1, <1>2, <1>3, <1>4 DEF IInv

\* Every step keeps it.
LEMMA StepInv == IInv /\ [Next]_vars => IInv'
<1> SUFFICES ASSUME IInv, [Next]_vars PROVE IInv'
  OBVIOUS
<1>1. TypeOK' /\ HandsFree' /\ ExecutorsBound' /\ DirtyIsRung'
  BY TypeStep, HandsStep, ExecutorsStep, RungStep DEF IInv
<1>2. ASSUME UNCHANGED vars
      PROVE  Covered'
  BY <1>2 DEF IInv, Covered, Safe, Announced, InTime, Scheduled, vars, managerVars, queueVars,
              loopVars, actorVars
<1>3. CASE AbandonSend \/ LoopExits
  <2>1. stopped /\ stopped' = stopped
    BY <1>3 DEF AbandonSend, LoopExits
  <2>2. QED
    BY <1>1, <2>1 DEF IInv, Covered
<1>4. ASSUME NEW b \in Auths, RegisterExecutor(b)
      PROVE  Covered'
  BY <1>4 DEF RegisterExecutor, IInv, Covered, Safe, Announced, InTime, Scheduled, queueVars,
              loopVars, actorVars
<1>5. Covered'
  <2>1. CASE StopAutoRefresh
    BY <2>1 DEF StopAutoRefresh, Covered
  <2>2. QED
    BY <1>2, <1>3, <1>4, <2>1, CoveredLoop, CoveredWorker, CoveredWriter, CoveredTick
       DEF Next, IInv
<1>6. QED
  BY <1>1, <1>5 DEF IInv

\* So it holds always.
LEMMA Inductive == Spec => []IInv
BY InitInv, StepInv, PTL DEF Spec

\* No credential is lost or late then.
LEMMA NoneLost == IInv => NoneForgotten /\ WakesInTime
BY DEF IInv, Covered, Safe, InTime, NoneForgotten, WakesInTime

(* Every variable keeps its type; in particular the jobs channel never     *)
(* holds more than its capacity.                                           *)
THEOREM TypeCorrect == Spec => []TypeOK
BY Inductive, PTL DEF IInv

(* The loop forgets no enabled credential, however its passes, the         *)
(* workers' refreshes and the updates from outside interleave.             *)
THEOREM Remembers == Spec => []NoneForgotten
BY Inductive, NoneLost, PTL

(* The loop never sleeps past the instant a credential's refresh is        *)
(* allowed and due.                                                        *)
THEOREM Punctual == Spec => []WakesInTime
BY Inductive, NoneLost, PTL

(* No dirty mark waits without a wake-up on its way. *)
THEOREM WakesForDirt == Spec => []DirtyIsRung
BY Inductive, PTL DEF IInv

-----------------------------------------------------------------------------
(* While the loop waits in its select, rung or not, its timer is set for   *)
(* the earliest wake-up: nobody else writes the heap, and a tick brings    *)
(* timer and heap nearer together.                                         *)
Asleep == pc = "select" => \A a \in DOMAIN index :
              timer # NoTimer /\ timer <= Larger(index[a], 0) + LagMax

\* resetTimer sets it late by no more than its pass is old.
LEMMA ArmedAsleep == TypeOK /\ ResetTimer => Asleep'
<1> SUFFICES ASSUME TypeOK, ResetTimer, NEW a \in DOMAIN index'
             PROVE  timer' # NoTimer /\ timer' <= Larger(index'[a], 0) + LagMax
  BY DEF Asleep
<1>1. index' = index
  BY DEF ResetTimer, queueVars
<1>2. PICK h \in HeadOfHeap : timer' = Larger(index[h] + lag, 0)
  BY <1>1 DEF ResetTimer, Arm
<1>3. index[h] \in Int /\ index[a] \in Int /\ index[h] <= index[a] /\ lag \in 0..LagMax
  BY <1>1 DEF HeadOfHeap, TypeOK, QueueOK, LoopOK
<1>4. QED
  BY <1>1, <1>2, <1>3, Constants DEF Larger, NoTimer

\* Every step keeps it so.
LEMMA AsleepStep == TypeOK /\ Asleep /\ [Next]_vars => Asleep'
<1> SUFFICES ASSUME TypeOK, Asleep, [Next]_vars PROVE Asleep'
  OBVIOUS
<1>1. UNCHANGED <<pc, index, timer>> => Asleep'
  BY DEF Asleep
<1>2. ASSUME LoopStep \/ AbandonSend \/ LoopExits, ~ResetTimer
      PROVE  Asleep'
  <2>1. pc' # "select"
    BY <1>2 DEF LoopStep, Rebuild, Woken, TimerFires, HandledDue, DrainDirty, ApplyDirty, PassOver,
       FindDue, MarkRefreshPending, MarkDeclined, Reread, LoopPosts, SendJob, AbandonSend, LoopExits,
       Loop
  <2>2. QED
    BY <2>1 DEF Asleep
<1>3. ASSUME \/ \E w \in Workers : WorkerStep(w) \/ WorkerExits(w)
             \/ WriterStep \/ StopAutoRefresh
             \/ \E a \in Auths : RegisterExecutor(a)
             \/ UNCHANGED vars
      PROVE  UNCHANGED <<pc, index, timer>>
  BY <1>3 DEF WorkerStep, WorkerExits, TakeJob, RefreshSucceeds, RefreshFails, RefreshCancelled,
     EndRefresh, Post, Ring, WriterStep, Register, GetByID, AddOrUpdate, Removal, StopAutoRefresh,
     RegisterExecutor, vars, queueVars, loopVars
<1>4. CASE Tick
  <2> SUFFICES ASSUME pc = "select", NEW a \in DOMAIN index
               PROVE  timer' # NoTimer /\ timer' <= Larger(index'[a], 0) + LagMax
    BY <1>4 DEF Asleep, Tick
  <2>1. /\ index'[a] = OneTickOn(index[a])
        /\ timer' = IF timer > 0 THEN timer - 1 ELSE timer
    BY <1>4 DEF Tick
  <2>2. index[a] \in Int /\ timer \in Int /\ timer # NoTimer /\ timer <= Larger(index[a], 0) + LagMax
    BY DEF Asleep, TypeOK, QueueOK, LoopOK
  <2>3. QED
    BY <2>1, <2>2, Constants DEF OneTickOn, Larger, Past, NoTimer
<1>5. QED
  BY <1>1, <1>2, <1>3, <1>4, ArmedAsleep DEF Next

\* At first the loop is awake.
LEMMA AsleepInit == Init => Asleep
BY DEF Init, Asleep

LEMMA AsleepCovers == Asleep => TimerCoversHeap
BY DEF Asleep, TimerCoversHeap

(* Asleep, the loop has a timer for its earliest wake-up, late by no more  *)
(* than the pass that armed it took.                                       *)
THEOREM TimerIsArmed == Spec => []TimerCoversHeap
<1>1. IInv /\ Asleep /\ [Next]_vars => Asleep'
  BY AsleepStep DEF IInv
<1>2. QED
  BY Inductive, AsleepInit, AsleepCovers, <1>1, PTL DEF Spec

-----------------------------------------------------------------------------
(* Where a refresh of a credential may be: in the loop's hand once its gate *)
(* is set, in the jobs channel, or with a worker.                          *)
Held(a) == cur = a /\ pc \in {"marked", "send"}
Waiting(a) == {i \in DOMAIN jobs : jobs[i] = a}
Running(a) == {w \in Workers : at[w] = "refresh" /\ on[w] = a}
Flying(a) == Held(a) \/ Waiting(a) # {} \/ Running(a) # {}

\* At most one place, and there once.
Single(a) == /\ \A i, j \in Waiting(a) : i = j
             /\ \A w, v \in Running(a) : w = v
             /\ ~(Waiting(a) # {} /\ Running(a) # {})
             /\ Held(a) => ~(Waiting(a) # {} \/ Running(a) # {})

(* What keeps a second one away: the pending gate has come nearer by the   *)
(* age of the refresh it was set for, and by no more.                      *)
Gated(a) == Flying(a) => a \in known /\ gate[a] + age[a] >= PendingBackoff - LagMax

Flights == /\ \A a \in Auths : age[a] <= FlightMax
           /\ ~stopped => \A a \in Auths : Single(a) /\ Gated(a)

(* The hypotheses of OneAtATime: the gate outlives the refresh it was set  *)
(* for, late as it may be set, and the service, which knows nothing of     *)
(* refreshes, happens to write no credential whose refresh is under way.   *)
GateOutlives == PendingBackoff > LagMax + FlightMax
KeepsOff == AddOrUpdate \/ Removal => InFlight(on[Writer]) = 0

\* The size of a set that has no two members.
LEMMA NoTwo ==
    ASSUME NEW S, \A x, y \in S : x = y
    PROVE  Cardinality(S) = IF S = {} THEN 0 ELSE 1
<1>1. CASE S = {}
  BY <1>1, FS_EmptySet
<1>2. CASE S # {}
  <2>1. PICK x \in S : TRUE
    BY <1>2
  <2>2. S = {x}
    BY <2>1
  <2>3. QED
    BY <1>2, <2>2, FS_Singleton
<1>3. QED
  BY <1>1, <1>2

\* Counting the refreshes of a credential that has at most one.
LEMMA CountFlights ==
    ASSUME NEW a \in Auths, Single(a)
    PROVE  /\ InFlight(a) \in 0..1
           /\ InFlight(a) > 0 <=> Flying(a)
<1>. DEFINE n == Cardinality(Waiting(a))
            k == Cardinality(Running(a))
<1>1. n = IF Waiting(a) = {} THEN 0 ELSE 1
  BY NoTwo DEF Single
<1>2. k = IF Running(a) = {} THEN 0 ELSE 1
  BY NoTwo DEF Single
<1>3. InFlight(a) = n + k + (IF Held(a) THEN 1 ELSE 0)
  BY DEF InFlight, Held, Waiting, Running
<1>. HIDE DEF n, k
<1>4. QED
  BY <1>1, <1>2, <1>3 DEF Single, Flying

\* A step that leaves the places of a credential's refresh alone.
LEMMA FlightFrame ==
    ASSUME NEW a \in Auths, Flights, ~stopped,
           Waiting(a)' = Waiting(a), Running(a)' = Running(a), Held(a)' <=> Held(a),
           known \subseteq known',
           Flying(a) => gate'[a] = gate[a] /\ age'[a] = age[a]
    PROVE  Single(a)' /\ Gated(a)'
BY DEF Flights, Single, Gated, Flying

\* Nothing but the clock and the gate's setting changes an age.
LEMMA AgeStep == TypeOK /\ Flights /\ [Next]_vars => \A a \in Auths : age'[a] <= FlightMax
<1> SUFFICES ASSUME TypeOK, Flights, [Next]_vars, NEW a \in Auths PROVE age'[a] <= FlightMax
  OBVIOUS
<1>1. FlightMax \in Nat /\ age \in [Auths -> Nat] /\ age[a] <= FlightMax
  BY TimingAssumption DEF TypeOK, ActorsOK, Flights
<1>2. age' = age => age'[a] <= FlightMax
  BY <1>1
<1>3. CASE MarkRefreshPending
  BY <1>1, <1>3 DEF MarkRefreshPending
<1>4. CASE Tick
  <2>1. age'[a] = IF InFlight(a) > 0 /\ ~stopped THEN age[a] + 1 ELSE 0
    BY <1>4 DEF Tick
  <2>2. InFlight(a) > 0 /\ ~stopped => age[a] < FlightMax
    BY <1>4 DEF Tick
  <2>3. QED
    BY <1>1, <2>1, <2>2
<1>5. LoopStep /\ ~MarkRefreshPending => age' = age
  BY DEF LoopStep, Rebuild, ResetTimer, Woken, TimerFires, HandledDue, DrainDirty, ApplyDirty,
     PassOver, FindDue, MarkDeclined, Reread, LoopPosts, SendJob, actorVars
<1>6. ASSUME NEW w \in Workers, WorkerStep(w) \/ WorkerExits(w)
      PROVE  age' = age
  BY <1>6 DEF WorkerStep, WorkerExits, TakeJob, RefreshSucceeds, RefreshFails, RefreshCancelled,
     EndRefresh, Post, Ring
<1>7. ASSUME \/ WriterStep \/ AbandonSend \/ LoopExits \/ StopAutoRefresh
             \/ \E b \in Auths : RegisterExecutor(b)
             \/ UNCHANGED vars
      PROVE  age' = age
  BY <1>7 DEF WriterStep, Register, GetByID, AddOrUpdate, Removal, Post, Ring, AbandonSend, LoopExits,
     StopAutoRefresh, RegisterExecutor, vars, actorVars
<1>8. QED
  BY <1>2, <1>3, <1>4, <1>5, <1>6, <1>7 DEF Next

(* The loop sends a second refresh after none: a gate that is still up     *)
(* makes markRefreshPending decline.                                       *)
LEMMA FlightsLoop ==
    ASSUME TypeOK, Flights, GateOutlives, LoopStep, ~stopped, NEW a \in Auths
    PROVE  Single(a)' /\ Gated(a)'
<1>1. UNCHANGED <<known, at, on>>
  BY DEF LoopStep, Rebuild, ResetTimer, Woken, TimerFires, HandledDue, DrainDirty, ApplyDirty,
     PassOver, FindDue, MarkRefreshPending, MarkDeclined, Reread, LoopPosts, SendJob, managerVars,
     actorVars
<1>2. Running(a)' = Running(a)
  BY <1>1 DEF Running
<1>3. CASE MarkRefreshPending
  <2>1. /\ pc = "mark" /\ cur' = cur /\ jobs' = jobs /\ pc' = "marked"
        /\ cur \in known /\ gate[cur] <= Now
        /\ gate' = PendingGate(cur) /\ age' = [age EXCEPT ![cur] = 0]
    BY <1>3 DEF MarkRefreshPending, Loop, Scheduled, queueVars
  <2>2. Waiting(a)' = Waiting(a) /\ ~Held(a)
    BY <2>1 DEF Waiting, Held
  <2>3. CASE a # cur
    <3>1. ~Held(a)' /\ gate'[a] = gate[a] /\ age'[a] = age[a]
      BY <2>1, <2>3 DEF Held, PendingGate, TypeOK, ManagerOK, ActorsOK
    <3>2. QED
      BY <1>1, <1>2, <2>2, <3>1, FlightFrame
  <2>4. CASE a = cur
    <3>1. gate \in [Auths -> Int] /\ age \in [Auths -> Nat] /\ lag \in 0..LagMax
      BY DEF TypeOK, ManagerOK, ActorsOK, LoopOK
    <3>2. age[a] <= FlightMax /\ FlightMax \in Nat
      BY TimingAssumption DEF Flights
    <3>3. ~Flying(a)
      <4>1. gate[a] <= 0 - lag
        BY <2>1, <2>4, <3>1 DEF Now
      <4>2. gate[a] + age[a] < PendingBackoff - LagMax
        BY <3>1, <3>2, <4>1, Constants DEF GateOutlives
      <4>3. QED
        BY <3>1, <4>2, Constants DEF Flights, Gated
    <3>4. Waiting(a)' = {} /\ Running(a)' = {}
      BY <1>2, <2>2, <3>3 DEF Flying
    <3>5. gate'[a] + age'[a] = Now + PendingBackoff
      BY <2>1, <2>4, <3>1, Constants DEF PendingGate, Now
    <3>6. gate'[a] + age'[a] >= PendingBackoff - LagMax
      BY <3>1, <3>5, Constants DEF Now
    <3>7. QED
      BY <1>1, <2>1, <2>4, <3>4, <3>6 DEF Single, Gated
  <2>5. QED
    BY <2>3, <2>4
<1>4. CASE SendJob
  <2>1. /\ pc = "send" /\ pc' = "next" /\ jobs' = Append(jobs, cur) /\ jobs \in Seq(Auths)
        /\ gate' = gate /\ age' = age /\ cur \in Auths
    BY <1>4 DEF SendJob, Send, Loop, managerVars, actorVars, TypeOK, QueueOK, LoopOK
  <2>2. ~Held(a)'
    BY <2>1 DEF Held
  <2>3. PICK n \in Nat : n = Len(jobs)
    BY <2>1
  <2>4. /\ DOMAIN jobs = 1..n /\ DOMAIN jobs' = 1..(n + 1) /\ jobs'[n + 1] = cur
        /\ \A i \in 1..n : jobs'[i] = jobs[i]
    BY <2>1, <2>3
  <2>5. CASE a # cur
    <3>1. Waiting(a)' = Waiting(a) /\ ~Held(a)
      BY <2>4, <2>5 DEF Waiting, Held
    <3>2. QED
      BY <1>1, <1>2, <2>1, <2>2, <3>1, FlightFrame
  <2>6. CASE a = cur
    <3>1. Held(a)
      BY <2>1, <2>6 DEF Held
    <3>2. Waiting(a) = {} /\ Running(a) = {} /\ Gated(a)
      BY <3>1 DEF Flights, Single
    <3>3. Waiting(a)' = {n + 1}
      BY <2>4, <2>6, <3>2 DEF Waiting
    <3>4. Single(a)'
      BY <1>2, <2>2, <3>2, <3>3 DEF Single
    <3>5. Gated(a)'
      BY <1>1, <2>1, <3>1, <3>2 DEF Gated, Flying
    <3>6. QED
      BY <3>4, <3>5
  <2>7. QED
    BY <2>5, <2>6
<1>5. ASSUME ~MarkRefreshPending, ~SendJob
      PROVE  jobs' = jobs /\ gate' = gate /\ age' = age
  BY <1>5 DEF LoopStep, Rebuild, ResetTimer, Woken, TimerFires, HandledDue, DrainDirty, ApplyDirty,
     PassOver, FindDue, MarkDeclined, Reread, LoopPosts, managerVars, queueVars, actorVars
<1>6. ASSUME ~MarkRefreshPending, ~SendJob
      PROVE  Held(a)' <=> Held(a)
  <2>1. CASE LoopPosts
    BY <2>1 DEF LoopPosts, Loop, Held
  <2>2. CASE ~LoopPosts
    BY <1>6, <2>2 DEF LoopStep, Rebuild, ResetTimer, Woken, TimerFires, HandledDue, DrainDirty,
       ApplyDirty, PassOver, FindDue, MarkDeclined, Reread, Loop, Held
  <2>3. QED
    BY <2>1, <2>2
<1>7. QED
  <2>1. CASE ~MarkRefreshPending /\ ~SendJob
    <3>1. Waiting(a)' = Waiting(a)
      BY <1>5, <2>1 DEF Waiting
    <3>2. QED
      BY <1>1, <1>2, <1>5, <1>6, <2>1, <3>1, FlightFrame
  <2>2. QED
    BY <1>3, <1>4, <2>1

(* A worker takes a refresh out of the channel or ends the one it has. *)
LEMMA FlightsWorker ==
    ASSUME TypeOK, Flights, NEW w \in Workers, WorkerStep(w) \/ WorkerExits(w), ~stopped,
           NEW a \in Auths
    PROVE  Single(a)' /\ Gated(a)'
<1>1. w \in Actors /\ Workers \subseteq Actors
  BY Constants
<1>2. /\ UNCHANGED <<known, loopVars, age>>
      /\ at \in [Actors -> ActorSteps] /\ on \in [Actors -> Auths \union {Nobody}]
  BY DEF WorkerStep, WorkerExits, TakeJob, RefreshSucceeds, RefreshFails, RefreshCancelled,
     EndRefresh, Post, Ring, managerVars, TypeOK, ActorsOK
<1>3. Held(a)' <=> Held(a)
  BY <1>2 DEF Held, loopVars
<1>4. CASE TakeJob(w)
  <2>1. /\ at[w] = "idle" /\ jobs # <<>> /\ jobs' = Tail(jobs) /\ jobs \in Seq(Auths)
        /\ gate' = gate /\ on' = [on EXCEPT ![w] = Head(jobs)]
        /\ \E s \in {"refresh", "repost"} : at' = [at EXCEPT ![w] = s]
    BY <1>4 DEF TakeJob, managerVars, TypeOK, QueueOK
  <2>2. PICK n \in Nat : n + 1 = Len(jobs)
    BY <2>1
  <2>3. /\ DOMAIN jobs = 1..(n + 1) /\ DOMAIN jobs' = 1..n /\ Head(jobs) = jobs[1]
        /\ \A i \in 1..n : jobs'[i] = jobs[i + 1]
    BY <2>1, <2>2
  <2>4. \A v \in Workers \ {w} : at'[v] = at[v] /\ on'[v] = on[v]
    BY <1>1, <1>2, <2>1
  <2>5. on'[w] = Head(jobs) /\ w \notin Running(a)
    BY <1>1, <1>2, <2>1 DEF Running
  <2>6. Single(a) /\ Gated(a)
    BY DEF Flights
  <2>7. CASE a # Head(jobs)
    <3>1. Running(a)' = Running(a)
      BY <2>4, <2>5, <2>7 DEF Running
    <3>2. \A i \in Waiting(a)' : i + 1 \in Waiting(a) /\ i \in Nat
      BY <2>3 DEF Waiting
    <3>3. Waiting(a)' # {} => Waiting(a) # {}
      BY <3>2
    <3>4. \A i, j \in Waiting(a)' : i = j
      BY <2>6, <3>2 DEF Single
    <3>5. Single(a)'
      BY <1>3, <2>6, <3>1, <3>3, <3>4 DEF Single
    <3>6. Gated(a)'
      BY <1>2, <1>3, <2>1, <2>6, <3>1, <3>3 DEF Gated, Flying
    <3>7. QED
      BY <3>5, <3>6
  <2>8. CASE a = Head(jobs)
    <3>1. 1 \in Waiting(a)
      BY <2>3, <2>8 DEF Waiting
    <3>2. Waiting(a)' = {}
      BY <2>3, <2>6, <3>1 DEF Waiting, Single
    <3>3. Running(a) = {} /\ ~Held(a)
      BY <2>6, <3>1 DEF Single
    <3>4. \A v \in Running(a)' : v = w
      BY <2>4, <3>3 DEF Running
    <3>5. Single(a)'
      BY <1>3, <3>2, <3>3, <3>4 DEF Single
    <3>6. Gated(a)'
      BY <1>2, <2>1, <2>6, <3>1 DEF Gated, Flying
    <3>7. QED
      BY <3>5, <3>6
  <2>9. QED
    BY <2>7, <2>8
<1>5. CASE RefreshSucceeds(w) \/ RefreshFails(w)
  <2>1. /\ at[w] = "refresh" /\ at' = [at EXCEPT ![w] = "post"] /\ on' = on /\ jobs' = jobs
        /\ \A b \in Auths \ {on[w]} : gate'[b] = gate[b]
    BY <1>5 DEF RefreshSucceeds, RefreshFails, EndRefresh, queueVars, TypeOK, ManagerOK
  <2>2. Waiting(a)' = Waiting(a) /\ Running(a)' = Running(a) \ {w}
    BY <1>1, <1>2, <2>1 DEF Waiting, Running
  <2>3. CASE a # on[w]
    <3>1. Running(a)' = Running(a)
      BY <2>2, <2>3 DEF Running
    <3>2. QED
      BY <1>2, <1>3, <2>1, <2>2, <2>3, <3>1, FlightFrame
  <2>4. CASE a = on[w]
    <3>1. w \in Running(a) /\ Single(a)
      BY <2>1, <2>4 DEF Running, Flights
    <3>2. Waiting(a)' = {} /\ Running(a)' = {} /\ ~Held(a)'
      BY <1>3, <2>2, <3>1 DEF Single
    <3>3. QED
      BY <3>2 DEF Single, Gated, Flying
  <2>5. QED
    BY <2>3, <2>4
<1>6. CASE Post(w) \/ Ring(w) \/ WorkerExits(w)
  <2>1. /\ at[w] # "refresh" /\ at'[w] # "refresh" /\ jobs' = jobs /\ gate' = gate
        /\ \A v \in Workers \ {w} : at'[v] = at[v] /\ on'[v] = on[v]
    BY <1>1, <1>2, <1>6 DEF Post, Ring, WorkerExits, managerVars, queueVars
  <2>2. Waiting(a)' = Waiting(a) /\ Running(a)' = Running(a)
    BY <2>1 DEF Waiting, Running
  <2>3. QED
    BY <1>2, <1>3, <2>1, <2>2, FlightFrame
<1>7. QED
  BY <1>4, <1>5, <1>6 DEF WorkerStep, RefreshCancelled

(* The service writes a gate only where no refresh is under way: of a      *)
(* credential that is new, or by the hypothesis.                           *)
LEMMA FlightsWriter ==
    ASSUME TypeOK, Flights, WriterStep, KeepsOff, ~stopped, NEW a \in Auths
    PROVE  Single(a)' /\ Gated(a)'
<1>1. Writer \in Actors /\ Writer \notin Workers /\ Workers \subseteq Actors
  BY Constants, NamesAssumption
<1>2. /\ known \subseteq known' /\ UNCHANGED <<jobs, loopVars, age>>
      /\ \A w \in Workers : at'[w] = at[w] /\ on'[w] = on[w]
  BY <1>1 DEF WriterStep, Register, GetByID, AddOrUpdate, Removal, Post, Ring, WriterGoes,
     managerVars, queueVars, TypeOK, ActorsOK
<1>3. Waiting(a)' = Waiting(a) /\ Running(a)' = Running(a) /\ (Held(a)' <=> Held(a))
  BY <1>2 DEF Waiting, Running, Held, loopVars
<1>4. Flying(a) => gate'[a] = gate[a]
  <2>1. ASSUME NEW b \in Auths, Register(b), Flying(a)
        PROVE  gate'[a] = gate[a]
    <3>1. a \in known /\ b \notin known /\ gate' = [gate EXCEPT ![b] = Past]
      BY <2>1 DEF Register, Flights, Gated
    <3>2. QED
      BY <3>1 DEF TypeOK, ManagerOK
  <2>2. ASSUME AddOrUpdate \/ Removal, Flying(a)
        PROVE  gate'[a] = gate[a]
    <3>1. on[Writer] \in Auths
      BY <1>1, <2>2 DEF AddOrUpdate, Removal, TypeOK, ActorsOK
    <3>2. InFlight(on[Writer]) = 0 /\ Single(on[Writer])
      BY <2>2, <3>1 DEF KeepsOff, Flights
    <3>3. on[Writer] # a
      BY <2>2, <3>1, <3>2, CountFlights
    <3>4. QED
      BY <2>2, <3>3 DEF AddOrUpdate, Removal, TypeOK, ManagerOK
  <2>3. ASSUME (\E b \in Auths : GetByID(b)) \/ Post(Writer) \/ Ring(Writer)
        PROVE  gate' = gate
    BY <2>3 DEF GetByID, Post, Ring, managerVars
  <2>4. QED
    BY <2>1, <2>2, <2>3 DEF WriterStep
<1>5. QED
  BY <1>2, <1>3, <1>4, FlightFrame

(* A tick takes one from the gate and adds one to the age. *)
LEMMA FlightsTick ==
    ASSUME TypeOK, Flights, Tick, ~stopped, NEW a \in Auths
    PROVE  Single(a)' /\ Gated(a)'
<1>1. UNCHANGED <<known, jobs, pc, cur, at, on>>
  BY DEF Tick
<1>2. Waiting(a)' = Waiting(a) /\ Running(a)' = Running(a) /\ (Held(a)' <=> Held(a))
  BY <1>1 DEF Waiting, Running, Held
<1>3. Single(a) /\ Gated(a)
  BY DEF Flights
<1>4. Single(a)'
  BY <1>2, <1>3 DEF Single
<1>5. ASSUME Flying(a)
      PROVE  gate'[a] + age'[a] >= PendingBackoff - LagMax
  <2>1. InFlight(a) > 0
    BY <1>3, <1>5, CountFlights
  <2>2. age'[a] = age[a] + 1 /\ gate'[a] = OneTickOn(gate[a])
    BY <2>1 DEF Tick
  <2>3. gate[a] \in Int /\ age[a] \in Nat /\ gate[a] + age[a] >= PendingBackoff - LagMax
    BY <1>3, <1>5 DEF Gated, TypeOK, ManagerOK, ActorsOK
  <2>4. QED
    BY <2>2, <2>3, Constants DEF OneTickOn, Larger
<1>6. QED
  BY <1>1, <1>2, <1>3, <1>4, <1>5 DEF Gated, Flying

\* Every step keeps it so.
LEMMA FlightsStep ==
    ASSUME TypeOK, Flights, GateOutlives, [Next]_vars, [KeepsOff]_vars
    PROVE  Flights'
<1> SUFFICES ASSUME ~stopped', NEW a \in Auths
             PROVE  Single(a)' /\ Gated(a)'
  BY AgeStep DEF Flights
<1>1. ~stopped
  BY DEF Next, LoopStep, Rebuild, ResetTimer, Woken, TimerFires, HandledDue, DrainDirty, ApplyDirty,
     PassOver, FindDue, MarkRefreshPending, MarkDeclined, Reread, LoopPosts, SendJob, AbandonSend,
     LoopExits, WorkerStep, WorkerExits, TakeJob, RefreshSucceeds, RefreshFails, RefreshCancelled,
     EndRefresh, Post, Ring, WriterStep, Register, GetByID, AddOrUpdate, Removal, RegisterExecutor,
     StopAutoRefresh, Tick, vars
<1>2. ASSUME UNCHANGED <<known, gate, jobs, pc, cur, at, on, age>>
      PROVE  Single(a)' /\ Gated(a)'
  <2>1. Waiting(a)' = Waiting(a) /\ Running(a)' = Running(a) /\ (Held(a)' <=> Held(a))
    BY <1>2 DEF Waiting, Running, Held
  <2>2. QED
    BY <1>1, <1>2, <2>1, FlightFrame
<1>3. ASSUME UNCHANGED vars \/ \E b \in Auths : RegisterExecutor(b)
      PROVE  UNCHANGED <<known, gate, jobs, pc, cur, at, on, age>>
  BY <1>3 DEF RegisterExecutor, vars, managerVars, queueVars, loopVars, actorVars
<1>4. CASE WriterStep /\ ~UNCHANGED vars
  BY <1>1, <1>4, FlightsWriter
<1>5. QED
  BY <1>1, <1>2, <1>3, <1>4, FlightsLoop, FlightsWorker, FlightsTick
     DEF Next, AbandonSend, LoopExits, StopAutoRefresh

\* At the start no refresh is anywhere.
LEMMA FlightsInit == Init => Flights
<1> SUFFICES ASSUME Init PROVE Flights
  OBVIOUS
<1>1. jobs = <<>> /\ cur = Nobody /\ pc = "rebuild" /\ at = [p \in Actors |-> "idle"]
      /\ age = [a \in Auths |-> 0]
  BY DEF Init
<1>2. ASSUME NEW a \in Auths
      PROVE  Waiting(a) = {} /\ Running(a) = {} /\ ~Held(a)
  BY <1>1, Constants DEF Waiting, Running, Held
<1>3. QED
  BY <1>1, <1>2, TimingAssumption DEF Flights, Single, Gated, Flying

(* A credential is refreshed once at a time, whatever the loop, the queue  *)
(* and the workers do meanwhile: as long as the pending gate outlives a    *)
(* refresh and the service keeps off a credential that is being refreshed. *)
THEOREM OneAtATime ==
    ASSUME GateOutlives
    PROVE  Spec /\ [][KeepsOff]_vars => []OneRefreshAtATime
<1>1. TypeOK /\ Flights /\ [Next]_vars /\ [KeepsOff]_vars => Flights'
  BY GateOutlives, FlightsStep
<1>2. Flights => OneRefreshAtATime
  BY CountFlights DEF Flights, OneRefreshAtATime
<1>3. IInv => TypeOK
  BY DEF IInv
<1>4. QED
  BY Inductive, FlightsInit, <1>1, <1>2, <1>3, PTL DEF Spec

-----------------------------------------------------------------------------
(* In the setting of the run, whatever its parameters, no wake-up of the   *)
(* loop is lost, late, without a ringer or slept through.                  *)
THEOREM LoopKeepsItsWakeUps == SettingSpec => []LoopKeepsUp
<1> DEFINE Kept == IInv /\ Asleep
<1>1. SettingInit => Kept
  BY InitInv, AsleepInit DEF SettingInit
<1>2. Kept /\ [SettingNext]_<<setting, timing, vars>> => Kept'
  <2> SUFFICES ASSUME Kept, [SettingNext]_<<setting, timing, vars>> PROVE Kept'
    OBVIOUS
  <2>1. [Next]_vars
    BY DEF SettingNext
  <2>2. QED
    BY <2>1, StepInv, AsleepStep DEF IInv
<1>3. Kept => LoopKeepsUp
  BY NoneLost, AsleepCovers DEF IInv, LoopKeepsUp
<1>4. QED
  BY <1>1, <1>2, <1>3, PTL DEF SettingSpec

-----------------------------------------------------------------------------
(* The two functions that time it (RefreshTiming).                         *)

(* Credentials whose times and durations are any natural numbers. *)
AnyCredential == [disabled : BOOLEAN, apiKey : BOOLEAN, evaluator : BOOLEAN,
                  gate : Nat, last : Nat, expiry : Nat, pref : Nat, lead : Nat]

(* A credential the loop can manage without asking an evaluator. *)
Managed(a) == a \in AnyCredential /\ ~a.evaluator

\* The credentials enumerated are among those of any instants.
LEMMA CredentialIsAny == Timing!Credential \subseteq AnyCredential
BY TimesAssumption DEF Timing!Credential, AnyCredential

(* nextRefreshCheckAt answers Unset, or an instant that is not in the past. *)
LEMMA CheckIsNotPast ==
    ASSUME NEW a, Managed(a), NEW t \in Nat \ {Timing!Unset}
    PROVE  /\ Timing!NextRefreshCheckAt(a, t) \in Nat
           /\ Timing!NextRefreshCheckAt(a, t) # Timing!Unset => Timing!NextRefreshCheckAt(a, t) >= t
<1>1. Timing!PreferredDue(a, t) \in Nat /\ Timing!PreferredDue(a, t) >= t
  BY DEF Managed, AnyCredential, Timing!PreferredDue, Timing!Earlier, Timing!Later, Timing!Unset
<1>2. Timing!LeadDue(a, t) \in Nat /\ Timing!LeadDue(a, t) >= t
  BY DEF Managed, AnyCredential, Timing!LeadDue, Timing!Later, Timing!Unset
<1>3. Timing!Gated(a, t) => a.gate \in Nat /\ a.gate >= t
  BY DEF Managed, AnyCredential, Timing!Gated, Timing!Unset
<1>4. QED
  BY <1>1, <1>2, <1>3 DEF Managed, Timing!NextRefreshCheckAt, Timing!Unset

(* From the instant of the check to the wake-up it answered, shouldRefresh *)
(* stays false: sleeping until then misses nothing.                        *)
LEMMA CheckCoversSleep ==
    ASSUME NEW a, Managed(a), NEW t \in Nat \ {Timing!Unset}, NEW u \in Nat, t <= u,
           u < Timing!NextRefreshCheckAt(a, t)
    PROVE  ~Timing!ShouldRefresh(a, u)
BY SMTT(30)
   DEF Managed, AnyCredential, Timing!NextRefreshCheckAt, Timing!ShouldRefresh, Timing!Gated,
       Timing!PreferredDue, Timing!LeadDue, Timing!Earlier, Timing!Later, Timing!Unset

(* A credential the loop does not schedule is never due, unless it is an   *)
(* API key.                                                                *)
LEMMA UnscheduledIsNeverDue ==
    ASSUME NEW a, Managed(a), ~a.apiKey, NEW t \in Nat \ {Timing!Unset}, NEW u \in Nat,
           Timing!NextRefreshCheckAt(a, t) = Timing!Unset
    PROVE  ~Timing!ShouldRefresh(a, u)
BY SMTT(30)
   DEF Managed, AnyCredential, Timing!NextRefreshCheckAt, Timing!ShouldRefresh, Timing!Gated,
       Timing!PreferredDue, Timing!LeadDue, Timing!Earlier, Timing!Later, Timing!Unset

(* A credential nextRefreshCheckAt calls due at once is one shouldRefresh  *)
(* accepts: the wake-up it causes is not in vain.                          *)
LEMMA DueNowIsAccepted ==
    ASSUME NEW a, Managed(a), NEW t \in Nat \ {Timing!Unset}, Timing!NextRefreshCheckAt(a, t) = t
    PROVE  Timing!ShouldRefresh(a, t)
BY SMTT(30)
   DEF Managed, AnyCredential, Timing!NextRefreshCheckAt, Timing!ShouldRefresh, Timing!Gated,
       Timing!PreferredDue, Timing!LeadDue, Timing!Earlier, Timing!Later, Timing!Unset

-----------------------------------------------------------------------------
(* What the loop relies on while it sleeps: every instant from now to the  *)
(* wake-up is one at which shouldRefresh is false.                         *)
SleepIsSafe == /\ next = Timing!Unset /\ ~auth.apiKey => \A u \in Nat : ~Timing!ShouldRefresh(auth, u)
               /\ next # Timing!Unset => \A u \in Nat : now <= u /\ u < next => ~Timing!ShouldRefresh(auth, u)

TimingInv == Timing!TypeOK /\ SleepIsSafe

(* What one look at the credential establishes, whenever it is taken. *)
LEMMA CheckMakesSleepSafe ==
    ASSUME NEW a, Managed(a), NEW t \in Nat \ {Timing!Unset}, NEW n, n = Timing!NextRefreshCheckAt(a, t)
    PROVE  /\ n \in Nat
           /\ n = Timing!Unset /\ ~a.apiKey => \A u \in Nat : ~Timing!ShouldRefresh(a, u)
           /\ n # Timing!Unset => \A u \in Nat : t <= u /\ u < n => ~Timing!ShouldRefresh(a, u)
BY CheckIsNotPast, CheckCoversSleep, UnscheduledIsNeverDue

\* A credential just rescheduled sleeps no longer than it may.
LEMMA TimingInit == Timing!Init => TimingInv
<1> SUFFICES ASSUME Timing!Init PROVE TimingInv
  OBVIOUS
<1>1. Managed(auth) /\ now \in Nat \ {Timing!Unset}
  BY CredentialIsAny, TimesAssumption DEF Timing!Init, Managed
<1>2. QED
  BY <1>1, CheckMakesSleepSafe DEF Timing!Init, TimingInv, Timing!TypeOK, SleepIsSafe

\* Time, passes and refreshes keep it so.
LEMMA TimingStep == TimingInv /\ [Timing!Next]_(Timing!vars) => TimingInv'
<1> SUFFICES ASSUME TimingInv, [Timing!Next]_(Timing!vars) PROVE TimingInv'
  OBVIOUS
<1>1. Managed(auth) /\ now \in Nat \ {Timing!Unset} /\ next \in Nat
  BY CredentialIsAny, TimesAssumption DEF TimingInv, Timing!TypeOK, Managed
<1>2. CASE Timing!Sleep
  <2>1. now' = now + 1 /\ auth' = auth /\ next' = next
    BY <1>2 DEF Timing!Sleep
  <2>2. Timing!TypeOK'
    BY <1>1, <1>2, <2>1 DEF TimingInv, Timing!TypeOK, Timing!Sleep, Timing!Unset
  <2>3. SleepIsSafe'
    BY <1>1, <2>1 DEF TimingInv, SleepIsSafe
  <2>4. QED
    BY <2>2, <2>3 DEF TimingInv
<1>3. CASE Timing!Recheck
  BY <1>1, <1>3, CheckMakesSleepSafe DEF Timing!Recheck, TimingInv, Timing!TypeOK, SleepIsSafe
<1>4. CASE Timing!Refresh
  <2>1. auth' \in Timing!Credential /\ ~auth'.evaluator
    <3>1. PICK e \in Times, g \in Times :
             auth' = [auth EXCEPT !.last = now, !.expiry = e, !.gate = g]
      BY <1>4 DEF Timing!Refresh
    <3>2. now \in Times
      BY DEF TimingInv, Timing!TypeOK
    <3>3. QED
      BY <3>1, <3>2 DEF TimingInv, Timing!TypeOK, Timing!Credential
  <2>2. Managed(auth') /\ now' = now /\ next' = Timing!NextRefreshCheckAt(auth', now')
    BY <1>4, <2>1, CredentialIsAny DEF Timing!Refresh, Managed
  <2>3. QED
    BY <1>1, <2>1, <2>2, CheckMakesSleepSafe DEF TimingInv, Timing!TypeOK, SleepIsSafe
<1>5. CASE UNCHANGED Timing!vars
  BY <1>5 DEF Timing!vars, TimingInv, Timing!TypeOK, SleepIsSafe, Timing!ShouldRefresh, Timing!Gated
<1>6. QED
  BY <1>2, <1>3, <1>4, <1>5 DEF Timing!Next

\* So it holds always.
LEMMA TimingKept == Timing!Spec => []TimingInv
BY TimingInit, TimingStep, PTL DEF Timing!Spec

(* Every behaviour keeps the types of the credential, the clock and the    *)
(* wake-up.                                                                *)
THEOREM TimingTypeCorrect == Timing!Spec => []TimingOK
BY TimingKept, PTL DEF TimingInv, TimingOK

(* The loop never sleeps over a credential shouldRefresh accepts, whatever *)
(* its expiry, its last refresh, its preferred interval and the provider's *)
(* lead.                                                                   *)
THEOREM TimingPunctual == Timing!Spec => []NeverOversleeps
<1>1. TimingInv => NeverOversleeps
  <2> SUFFICES ASSUME TimingInv, Timing!ShouldRefresh(auth, now), ~auth.apiKey
               PROVE  next # Timing!Unset /\ next <= now
    BY DEF NeverOversleeps, Timing!NeverOversleeps
  <2>1. now \in Nat /\ next \in Nat
    BY TimesAssumption DEF TimingInv, Timing!TypeOK
  <2>2. next # Timing!Unset
    BY <2>1 DEF TimingInv, SleepIsSafe
  <2>3. QED
    BY <2>1, <2>2 DEF TimingInv, SleepIsSafe
<1>2. QED
  BY TimingKept, <1>1, PTL

(* A wake-up of a credential that is not due moves the next one strictly   *)
(* into the future or unschedules it.                                      *)
THEOREM TimingNeverSpins == Timing!Spec => NeverSpins
<1>1. ASSUME TimingInv, [Timing!Next]_(Timing!vars)
      PROVE  [next # Timing!Unset /\ next <= now /\ ~Timing!ShouldRefresh(auth, now) /\ UNCHANGED <<auth, now>>
                 => next' = Timing!Unset \/ next' > now]_(Timing!vars)
  <2> SUFFICES ASSUME next # Timing!Unset, next <= now, ~Timing!ShouldRefresh(auth, now),
                      auth' = auth, now' = now, Timing!vars' # Timing!vars
               PROVE  next' = Timing!Unset \/ next' > now
    OBVIOUS
  <2>1. Managed(auth) /\ now \in Nat \ {Timing!Unset}
    BY <1>1, CredentialIsAny, TimesAssumption DEF TimingInv, Timing!TypeOK, Managed
  <2>2. Timing!Recheck
    <3>1. ~Timing!Sleep
      BY <2>1 DEF Timing!Sleep
    <3>2. ~Timing!Refresh
      BY DEF Timing!Refresh
    <3>3. QED
      BY <1>1, <3>1, <3>2 DEF Timing!Next
  <2>3. next' = Timing!NextRefreshCheckAt(auth, now)
    BY <2>2 DEF Timing!Recheck
  <2>4. Timing!NextRefreshCheckAt(auth, now) # now
    BY <2>1, DueNowIsAccepted
  <2>5. QED
    BY <2>1, <2>3, <2>4, CheckIsNotPast
<1>2. QED
  BY <1>1, TimingKept, PTL DEF Timing!Spec, NeverSpins, Timing!NeverSpins
=============================================================================
