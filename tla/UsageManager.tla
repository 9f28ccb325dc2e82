---------------------------- MODULE UsageManager ----------------------------
(***************************************************************************)
(* How requests are counted: a streamed call's reporter publishes one      *)
(* record (UsageReporter, as the executors for compatible providers use    *)
(* it), the manager's dispatcher takes it from a queue to the statistics,  *)
(* and the management API exports and imports these, also into another     *)
(* life of the program (sdk/cliproxy/usage, internal/usage).               *)
(*                                                                         *)
(* A record is told from others by its instant (dedupKey): here, by its    *)
(* request.  Sums per key, model, day and hour, and further plugins are    *)
(* left out.                                                               *)
(***************************************************************************)
EXTENDS Naturals, Sequences, FiniteSets

CONSTANTS Requests, MaxImports, MaxRestarts  \* bounds on imports and restarts

VARIABLES
    body,       \* body[r]: where the goroutine is that reads r's answer, or who calls it
    reported,   \* "no"; the reporter's record was "queued" or "dropped"; or "lost" in a restart
    queue, stop,      \* the manager's records, and where its Stop is
    dispatcher,       \* where run is, and the record it handles
    stats, exported,  \* the statistics' details; those in the exported file
    imports, restarts

vars == <<body, reported, queue, stop, dispatcher, stats, exported, imports, restarts>>

closed == stop \in {"closed", "told"}
Counted(r, s) == Cardinality({i \in DOMAIN s : s[i].req = r})
Looks == [at |-> "looks", item |-> [req |-> "none", failed |-> FALSE]]

Begin(place, run) == /\ body = [r \in Requests |-> [at |-> place, next |-> "over"]]
                     /\ reported = [r \in Requests |-> "no"]
                     /\ queue = <<>> /\ stop = "no" /\ dispatcher = run
                     /\ stats = <<>> /\ exported = {} /\ imports = 0 /\ restarts = 0
Init == Begin("calls", Looks)
Unused == Begin("over", [Looks EXCEPT !.at = "asleep"])  \* nobody calls

------------------------------------------------------------------------------
(* An executor's stream: once.Do(PublishRecord), a signal after the lock.  *)

GoOn(r, place) == body' = [body EXCEPT ![r] = [at |-> place, next |-> "over"]]
NeverReported(r) == FALSE  \* bug: the reporter has no once
Reported(r) == reported[r] # "no"
Publish(r, failed, next) ==
    IF Reported(r) THEN GoOn(r, next) /\ UNCHANGED <<reported, queue>>
    ELSE IF closed THEN GoOn(r, next) /\ reported' = [reported EXCEPT ![r] = "dropped"] /\ UNCHANGED queue
    ELSE /\ reported' = [reported EXCEPT ![r] = "queued"]
         /\ queue' = Append(queue, [req |-> r, failed |-> failed])
         /\ body' = [body EXCEPT ![r] = [at |-> "signals", next |-> next]]

\* The call is refused (TrackFailure) or answered; lines with a usage, an error, the end.
Refuse(r) == body[r].at = "calls" /\ Publish(r, TRUE, "over")
Answer(r) == body[r].at = "calls" /\ GoOn(r, "reads") /\ UNCHANGED <<reported, queue>>
UsageLine(r) == body[r].at = "reads" /\ Publish(r, FALSE, "reads")
ScanError(r) == body[r].at = "reads" /\ Publish(r, TRUE, "ends")
ScanEnds(r) == body[r].at = "reads" /\ GoOn(r, "ends") /\ UNCHANGED <<reported, queue>>
EnsurePublished(r) == body[r].at = "ends" /\ Publish(r, FALSE, "over")

Unwoken == dispatcher  \* bug: neither Publish nor Stop wakes the dispatcher
Woken == IF dispatcher.at = "asleep" THEN Looks ELSE dispatcher
Signal(r) == /\ body[r].at = "signals" /\ GoOn(r, body[r].next)
             /\ dispatcher' = Woken /\ UNCHANGED <<reported, queue>>
ExecutorStep(r) ==
    /\ \/ (Refuse(r) \/ Answer(r) \/ UsageLine(r) \/ ScanError(r) \/ ScanEnds(r) \/ EnsurePublished(r)) /\ UNCHANGED dispatcher
       \/ Signal(r)
    /\ UNCHANGED <<stop, stats, exported, imports, restarts>>

------------------------------------------------------------------------------
(* The manager's dispatcher (run), and Stop.                               *)

Dropped == closed  \* bug: a stop leaves what is queued
Stopped == queue = <<>> /\ closed
Look == /\ dispatcher.at = "looks"
        /\ \/ Stopped /\ dispatcher' = [Looks EXCEPT !.at = "over"] /\ UNCHANGED queue
           \/ ~Stopped /\ queue = <<>> /\ dispatcher' = [Looks EXCEPT !.at = "asleep"] /\ UNCHANGED queue
           \/ ~Stopped /\ queue # <<>> /\ queue' = Tail(queue)
              /\ dispatcher' = [at |-> "handles", item |-> Head(queue)]
        /\ UNCHANGED <<body, reported, stop, stats, exported, imports, restarts>>
\* dispatch, HandleUsage, Record
Handle == /\ dispatcher.at = "handles"
          /\ stats' = Append(stats, dispatcher.item) /\ dispatcher' = Looks
          /\ UNCHANGED <<body, reported, queue, stop, exported, imports, restarts>>
Stop == /\ stop = "no" /\ stop' = "closed"
        /\ UNCHANGED <<body, reported, queue, dispatcher, stats, exported, imports, restarts>>
Broadcast == /\ stop = "closed" /\ stop' = "told" /\ dispatcher' = Woken
             /\ UNCHANGED <<body, reported, queue, stats, exported, imports, restarts>>

------------------------------------------------------------------------------
(* Snapshot and MergeSnapshot; the program ends and starts again.          *)

Snapshot == /\ exported' = {stats[i] : i \in DOMAIN stats}
            /\ UNCHANGED <<body, reported, queue, stop, dispatcher, stats, imports, restarts>>
Added(details) == \E s \in [1 .. Cardinality(details) -> details] :
                     {s[i] : i \in DOMAIN s} = details /\ stats' = stats \o s
MergeSnapshot == /\ imports < MaxImports /\ imports' = imports + 1
                 /\ Added({d \in exported : \A i \in DOMAIN stats : stats[i] # d})
                 /\ UNCHANGED <<body, reported, queue, stop, dispatcher, exported, restarts>>
Restart == /\ restarts < MaxRestarts /\ restarts' = restarts + 1
           /\ body' = [r \in Requests |-> IF body[r].at = "calls" THEN body[r] ELSE [at |-> "over", next |-> "over"]]
           /\ reported' = [r \in Requests |-> IF body[r].at = "calls" THEN "no" ELSE "lost"]
           /\ queue' = <<>> /\ stop' = "no" /\ dispatcher' = Looks /\ stats' = <<>>
           /\ UNCHANGED <<exported, imports>>

Program == Look \/ Handle \/ Broadcast \/ \E r \in Requests : ExecutorStep(r)
Next == Program \/ Stop \/ Snapshot \/ MergeSnapshot \/ Restart
\* Goroutines are scheduled and answers end: what was begun takes finitely many steps.
Fairness == WF_vars(Program)
Spec == Init /\ [][Next]_vars /\ Fairness

------------------------------------------------------------------------------
\* UsageReporter, manager and statistics: a request is counted once, however often its
\* executor reports it and a snapshot with it is merged; when the dispatcher ends, every
\* record that was accepted has been.
OneRecord == /\ \A r \in Requests : Counted(r, stats) <= 1
             /\ dispatcher.at = "over" => \A r \in Requests : reported[r] = "queued" => Counted(r, stats) = 1

\* run, Publish and Stop: in the end each record that was accepted, and not lost in a
\* restart, has been counted, and a stopped dispatcher is over.
Drained == /\ \A r \in Requests : reported[r] = "queued" => Counted(r, stats) = 1
           /\ stop # "no" => dispatcher.at = "over"
Drains == <>[]Drained
=============================================================================
