---------------------------- MODULE MCScheduler ----------------------------
(***************************************************************************)
(* Scheduler in two settings that one run explores side by side: two       *)
(* credentials with priorities, cooldowns and websockets, which is about   *)
(* the index, and three with virtual parents, which is about rotation.     *)
(* The bounds that both lie within are those of Scheduler itself.  A third *)
(* setting is about the selector that keeps a conversation with its        *)
(* credential (SessionAffinity).                                           *)
(***************************************************************************)
EXTENDS Scheduler

CONSTANTS SessionAuths, Requests, TTL  \* SessionAffinity's

VARIABLES setting,
          entries, available, pick, anchor, age  \* SessionAffinity's

Ok == [prio |-> 1, parent |-> 0, ws |-> FALSE, supports |-> TRUE, off |-> FALSE,
       retry |-> 0, recover |-> 0, exceeded |-> FALSE]
Urgent == [Ok EXCEPT !.prio = 2]
Socket == [Ok EXCEPT !.ws = TRUE]
Off == [Ok EXCEPT !.off = TRUE]
Without == [Ok EXCEPT !.supports = FALSE]
Failed == [Ok EXCEPT !.retry = 1]
OverQuotaSoon == [Urgent EXCEPT !.retry = 2, !.recover = 1, !.exceeded = TRUE]
FailedOverQuota == [Urgent EXCEPT !.retry = 1, !.recover = 2, !.exceeded = TRUE]
Child(g) == [Ok EXCEPT !.parent = g]

IndexSnapshots == {Ok, Urgent, Socket, Off, Without, Failed, OverQuotaSoon}
RotationSnapshots == {Ok, Failed, Child(1), Child(2)}
AllSnapshots == IndexSnapshots \union RotationSnapshots
LateSnapshots == {Ok, FailedOverQuota}
Tried == {{}, {1}}
NoTried == {{}}
Both == {TRUE, FALSE}
Plain == {FALSE}

Index == INSTANCE Scheduler WITH
    Snapshots <- IndexSnapshots, TriedSets <- Tried, Websockets <- Both,
    Strategies <- Both, History <- 0
Rotation == INSTANCE Scheduler WITH
    Snapshots <- RotationSnapshots, TriedSets <- NoTried, Websockets <- Plain, Strategies <- Plain

Session == INSTANCE SessionAffinity WITH Auths <- SessionAuths, Racy <- FALSE
RacySession == INSTANCE SessionAffinity WITH Auths <- SessionAuths, Racy <- TRUE

ASSUME SessionAssumption == TTL \in Nat /\ Session!None \notin SessionAuths

UnusedSession == UNCHANGED <<entries, available, pick, anchor, age>>

\* The third credential takes part in the second setting only.
Absent(a) == owner'[a] = Nowhere

SettingInit == /\ Session!Init
               /\ \/ setting = "index" /\ Index!Init
                  \/ setting \in {"rotation", "session"} /\ Rotation!Init
SettingNext == \/ setting = "index" /\ Index!Next /\ Absent(3) /\ UnusedSession /\ UNCHANGED setting
               \/ setting = "rotation" /\ Rotation!Next /\ UnusedSession /\ UNCHANGED setting
               \/ setting = "session" /\ Session!Next /\ UNCHANGED vars /\ UNCHANGED setting

allVars == <<vars, setting, entries, available, pick, anchor, age>>
SettingSpec == SettingInit /\ [][SettingNext]_allVars

\* Scheduler itself, under the bounds of the .cfg (SchedulerLate); requests of two turns
\* that overlap (SessionRace).
PlainSpec == /\ Init /\ Session!Init /\ setting = "plain"
             /\ [][Next /\ UnusedSession /\ UNCHANGED setting]_allVars
RacySpec == /\ Init /\ Session!Init /\ setting = "racy"
            /\ [][RacySession!Next /\ UNCHANGED vars /\ UNCHANGED setting]_allVars

\* A conversation stays with its credential: SessionAffinity says which.
Sticky == Session!Sticky
=============================================================================
