-------------------------- MODULE CoalescingQueue --------------------------
(***************************************************************************)
(* What the watcher promises the service about credential updates          *)
(* (docs/sdk-watcher.md): updates are applied in the order they were sent; *)
(* one that has not left yet may be merged into a later one of the same    *)
(* credential, which takes its place; while the queue is open the last one *)
(* of a credential is never lost and is applied in the end.                *)
(* WatcherDispatch implements this with a buffer, a dispatch loop, a       *)
(* bounded channel and a consumer.                                         *)
(***************************************************************************)
EXTENDS Integers, Sequences

CONSTANTS Ids,      \* credentials
          Payloads  \* what an update carries

VARIABLES waiting,  \* updates sent and not applied, oldest first
          sent,     \* sent[i]: the update of i sent last
          applied,  \* applied[i]: the update of i applied last
          open      \* FALSE once the queue has been told to stop

vars == <<waiting, sent, applied, open>>

Update == [id : Ids, auth : Payloads]

Init == /\ waiting = << >>
        /\ applied \in [Ids -> Payloads] /\ sent = applied
        /\ open = TRUE

\* The n-th of the updates q is the newest of its credential.
Newest(q, n) == \A m \in DOMAIN q : m > n => q[m].id # q[n].id

\* Updates of the credentials S are sent.  Each is the newest of its credential,
\* in the place of one that was still there or behind all others.
Send == \E S \in SUBSET Ids :
    /\ sent' \in [Ids -> Payloads] /\ \A i \in Ids \ S : sent'[i] = sent[i]
    /\ waiting' \in Seq(Update) /\ Len(waiting) <= Len(waiting')
    /\ \A n \in DOMAIN waiting :
         \/ waiting'[n] = waiting[n]
         \/ Newest(waiting', n) /\ waiting[n].id \in S /\ waiting'[n].id = waiting[n].id
    /\ \A n \in DOMAIN waiting' \ DOMAIN waiting : Newest(waiting', n) /\ waiting'[n].id \in S
    /\ \A i \in S : \E n \in DOMAIN waiting' :
         Newest(waiting', n) /\ waiting'[n] = [id |-> i, auth |-> sent'[i]]
    /\ UNCHANGED <<applied, open>>

Apply == /\ waiting # << >>
         /\ applied' = [applied EXCEPT ![Head(waiting).id] = Head(waiting).auth]
         /\ waiting' = Tail(waiting)
         /\ UNCHANGED <<sent, open>>

Close == open /\ open' = FALSE /\ UNCHANGED <<waiting, sent, applied>>

\* After the close updates that wait may be given up; the others keep their order.
Lose == /\ ~open
        /\ \E m, n \in 0..Len(waiting) :
             m <= n /\ waiting' = SubSeq(waiting, 1, m) \o SubSeq(waiting, n + 1, Len(waiting))
        /\ UNCHANGED <<sent, applied, open>>

\* After the close an update may overtake others, or not wait at all.
Bypass == /\ ~open /\ UNCHANGED open
          /\ \E u \in Update :
               /\ sent' = [sent EXCEPT ![u.id] = u.auth]
               /\ \/ /\ applied' = [applied EXCEPT ![u.id] = u.auth] /\ UNCHANGED waiting
                  \/ /\ \E m \in 0..Len(waiting) :
                          waiting' = SubSeq(waiting, 1, m) \o <<u>> \o SubSeq(waiting, m + 1, Len(waiting))
                     /\ UNCHANGED applied

Next == Send \/ Apply \/ Close \/ Lose \/ Bypass

Promise == Init /\ [][Next]_vars
AppliedInTheEnd == WF_vars(open /\ Apply)

Spec == Promise /\ AppliedInTheEnd

\* While the queue is open, what waits for a credential ends with the update sent last;
\* where nothing waits, that one is applied.
NoneLost == open => \A i \in Ids :
    \/ \E n \in DOMAIN waiting : Newest(waiting, n) /\ waiting[n] = [id |-> i, auth |-> sent[i]]
    \/ applied[i] = sent[i] /\ \A n \in DOMAIN waiting : waiting[n].id # i

=============================================================================
