---------------------------- MODULE ClaudeStream ----------------------------
(***************************************************************************)
(* What a client makes of the events of a streamed Anthropic message, one  *)
(* operator per event: message_start, then content blocks numbered from 0  *)
(* in the order they start, each fed by deltas of its own kind between its *)
(* start and its stop, then message_delta with the reason the message      *)
(* ended, then message_stop.  An event that does not fit, or repeats what  *)
(* was heard, breaks the message for good.  Clients put a block at the end of a list when it     *)
(* starts and find it by its index afterwards, hence the numbering.        *)
(*                                                                         *)
(* What the upstream says comes in fragments; heard are those whose deltas *)
(* the client has seen.                                                    *)
(***************************************************************************)
EXTENDS Integers

Kinds == {"text", "thinking", "tool"}
Phases == {"new", "body", "ending", "stopped", "broken"}
Reasons == {"none", "end_turn", "max_tokens", "tool_use"}

\* The fragments of a kind.
Of(kind, fragments) == {f \in fragments : f.kind = kind}

Block(i, kind) == [at |-> i, kind |-> kind]

Fresh == [phase |-> "new", open |-> {}, next |-> 0, tools |-> 0, reason |-> "none", heard |-> {}]
Broken(c) == [c EXCEPT !.phase = "broken"]

MessageStart(c) == IF c.phase = "new" THEN [c EXCEPT !.phase = "body"] ELSE Broken(c)

BlockStart(c, i, kind) ==
    IF c.phase = "body" /\ i = c.next
    THEN [c EXCEPT !.open = @ \union {Block(i, kind)}, !.next = i + 1,
                   !.tools = IF kind = "tool" THEN @ + 1 ELSE @]
    ELSE Broken(c)

BlockDelta(c, i, kind, fragments) ==
    IF c.phase = "body" /\ Block(i, kind) \in c.open /\ fragments \intersect c.heard = {}
    THEN [c EXCEPT !.heard = @ \union fragments]
    ELSE Broken(c)

BlockStop(c, i) ==
    IF c.phase = "body" /\ \E b \in c.open : b.at = i
    THEN [c EXCEPT !.open = {b \in @ : b.at # i}]
    ELSE Broken(c)

\* A delta and a stop for each of some tool blocks, in any order.
ToolBlocksEnd(c, indices, fragments) ==
    IF indices = {} THEN c
    ELSE IF c.phase = "body" /\ \A i \in indices : Block(i, "tool") \in c.open
    THEN [c EXCEPT !.open = {b \in @ : b.at \notin indices}, !.heard = @ \union fragments]
    ELSE Broken(c)

\* The usage may be reported more than once, the last time before message_stop.
MessageDelta(c, reason) ==
    IF c.phase \in {"body", "ending"} /\ c.open = {}
    THEN [c EXCEPT !.phase = "ending", !.reason = reason]
    ELSE Broken(c)

MessageStop(c) ==
    IF c.phase \in {"body", "ending"} /\ c.open = {}
    THEN [c EXCEPT !.phase = "stopped"]
    ELSE Broken(c)
=============================================================================
