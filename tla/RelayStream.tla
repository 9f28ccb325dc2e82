---------------------------- MODULE RelayStream ----------------------------
(***************************************************************************)
(* What the websocket relay promises about each request it forwards        *)
(* (internal/wsrelay): the replies it reads reach the caller in their      *)
(* order and at most once; some may be missing; the caller is told an end  *)
(* once, and nothing after it; it is told of success only if the client    *)
(* ended the reply.  The last promise has two exceptions, in which the     *)
(* caller gave up or could not keep up: they excuse.                       *)
(***************************************************************************)
EXTENDS Naturals, Sequences

CONSTANT Requests

VARIABLES read,     \* read[r]: how many replies to r have been read
          ended,    \* ended[r]: the last of them ends the reply
          got,      \* got[r]: the numbers of those the caller was given
          outcome,  \* outcome[r]: "none", or what the caller was told
          excused   \* excused[r]: cancelled, or too slow for the slots it has

vars == <<read, ended, got, outcome, excused>>

Latest(r) == IF got[r] = <<>> THEN 0 ELSE got[r][Len(got[r])]

Init == /\ read = [r \in Requests |-> 0]
        /\ ended = [r \in Requests |-> FALSE]
        /\ got = [r \in Requests |-> <<>>]
        /\ outcome = [r \in Requests |-> "none"]
        /\ excused = [r \in Requests |-> FALSE]

Read(r, end) == /\ ~ended[r]
                /\ read' = [read EXCEPT ![r] = @ + 1]
                /\ ended' = [ended EXCEPT ![r] = end]
                /\ UNCHANGED <<got, outcome, excused>>

Excuse(r) == /\ excused' = [excused EXCEPT ![r] = TRUE]
             /\ UNCHANGED <<read, ended, got, outcome>>

Give(r, n) == /\ outcome[r] = "none"
              /\ n \in (Latest(r) + 1)..read[r]
              /\ got' = [got EXCEPT ![r] = Append(@, n)]
              /\ UNCHANGED <<read, ended, outcome, excused>>

\* The last reply is given and the end told in one step.
GiveLast(r) == /\ outcome[r] = "none" /\ ended[r] /\ Latest(r) < read[r]
               /\ got' = [got EXCEPT ![r] = Append(@, read[r])]
               /\ outcome' \in {[outcome EXCEPT ![r] = o] : o \in {"complete", "failed"}}
               /\ UNCHANGED <<read, ended, excused>>

Tell(r, o) == /\ outcome[r] = "none"
              /\ o = "complete" => excused[r]
              /\ outcome' = [outcome EXCEPT ![r] = o]
              /\ UNCHANGED <<read, ended, got, excused>>

Next == \E r \in Requests :
           \/ \E end \in BOOLEAN : Read(r, end)
           \/ Excuse(r)
           \/ \E n \in 1..read[r] : Give(r, n)
           \/ GiveLast(r)
           \/ \E o \in {"complete", "failed", "cancelled"} : Tell(r, o)

Spec == Init /\ [][Next]_vars
=============================================================================
