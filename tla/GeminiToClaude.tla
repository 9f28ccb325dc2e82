--------------------------- MODULE GeminiToClaude ---------------------------
(***************************************************************************)
(* A Gemini stream turned into an Anthropic message stream                 *)
(* (internal/translator/gemini/claude, gemini_claude_response.go).         *)
(*                                                                         *)
(* One block is open at a time: a part of another kind, and each named     *)
(* function call, stops it and starts the next.  Its last chunk has the    *)
(* finish reason and the token counts, which stop the last block and tell  *)
(* the reason; the executor's [DONE] stops the message.  The parts of a    *)
(* chunk are taken one by one, which no one can tell from chunks of one    *)
(* part each.                                                              *)
(***************************************************************************)
EXTENDS ClaudeStream

CONSTANTS MaxParts,  \* bound: parts of a stream
          Quirks     \* "cut" (the lines end before the finish), "uncounted" (a finish
                     \* without candidatesTokenCount)

VARIABLES up, conv

vars == <<up, conv>>

Finishes == {"STOP", "MAX_TOKENS"}
Parts == {"text", "thinking", "call", "continuation"}

\* Params, and what the client has made of the events.  type is ResponseType:
\* none, or the kind of the block that is open; index is ResponseIndex.
NewConversion == [client |-> Fresh, started |-> FALSE, type |-> "none", index |-> 0,
                  hasContent |-> FALSE, sawToolCall |-> FALSE]

------------------------------------------------------------------------------
Started(s) == IF s.started THEN s
              ELSE [s EXCEPT !.started = TRUE, !.client = MessageStart(@)]

CloseBlockInPlace(s) ==                \* bug: the index stays
    IF s.type = "none" THEN s
    ELSE [s EXCEPT !.client = BlockStop(@, s.index), !.type = "none"]
CloseBlock(s) ==
    IF s.type = "none" THEN s
    ELSE [s EXCEPT !.client = BlockStop(@, s.index), !.type = "none", !.index = @ + 1]
OpenBlock(s, kind) ==
    LET t == CloseBlock(s)
    IN [t EXCEPT !.client = BlockStart(@, t.index, kind), !.type = kind, !.hasContent = TRUE]
Feed(s, kind, F) == [s EXCEPT !.client = BlockDelta(@, s.index, kind, F)]

Spoken(s, kind, F) == Feed(IF s.type = kind THEN s ELSE OpenBlock(s, kind), kind, F)

\* A call without a name continues the block of the one before.
CallRead(s, named, F) ==
    LET t == [s EXCEPT !.sawToolCall = TRUE]
    IN Feed(IF t.type = "tool" /\ ~named THEN t ELSE OpenBlock(t, "tool"), "tool", F)

PartRead(s, part, F) ==
    LET t == Started(s)
    IN CASE part = "text" -> Spoken(t, "text", F)
         [] part = "thinking" -> Spoken(t, "thinking", F)
         [] part = "call" -> CallRead(t, TRUE, F)
         [] part = "continuation" -> CallRead(t, FALSE, F)

StopReasonOfFinish(s, finish) ==       \* bug: a call is forgotten by the finish
    IF finish = "MAX_TOKENS" THEN "max_tokens" ELSE "end_turn"
StopReason(s, finish) ==
    IF s.sawToolCall THEN "tool_use"
    ELSE IF finish = "MAX_TOKENS" THEN "max_tokens" ELSE "end_turn"

\* The block is stopped although the type stays: nothing comes after it.
FinishRead(s, finish, counted) ==
    LET t == Started(s)
    IN IF ~counted \/ ~t.hasContent THEN t
       ELSE [t EXCEPT !.client = MessageDelta(BlockStop(@, t.index), StopReason(t, finish))]

DoneRead(s) == IF s.hasContent THEN [s EXCEPT !.client = MessageStop(@)] ELSE s

------------------------------------------------------------------------------
(* The upstream and the executor.                                          *)

Init == /\ up = [state |-> "open", count |-> 0, called |-> FALSE, finish |-> "", said |-> {}]
        /\ conv = NewConversion

KindOf(part) == IF part \in {"call", "continuation"} THEN "tool" ELSE part

\* A part; a continuation follows a call or another continuation.
Part(part) ==
    /\ up.state = "open" /\ up.count < MaxParts
    /\ part = "continuation" => up.called
    /\ LET f == [chunk |-> up.count + 1, kind |-> KindOf(part)] IN
       /\ conv' = PartRead(conv, part, {f})
       /\ up' = [up EXCEPT !.count = @ + 1, !.said = @ \union {f},
                           !.called = KindOf(part) = "tool"]

\* The end of the chunk that has the finish reason.
Finish(finish, counted) ==
    /\ up.state = "open"
    /\ counted \/ "uncounted" \in Quirks
    /\ conv' = FinishRead(conv, finish, counted)
    /\ up' = [up EXCEPT !.state = "finished", !.finish = finish]

\* The lines are over, or reading them fails: the executor's [DONE], either way.
Over == /\ up.state = "finished" \/ (up.state = "open" /\ "cut" \in Quirks)
        /\ conv' = DoneRead(conv)
        /\ up' = [up EXCEPT !.state = "over"]

Next == \/ \E part \in Parts : Part(part)
        \/ \E finish \in Finishes, counted \in BOOLEAN : Finish(finish, counted)
        \/ Over

Spec == Init /\ [][Next]_vars

------------------------------------------------------------------------------
(* Properties.                                                             *)

\* The events fit together, one block after the other, in whatever order parts of
\* all kinds come; with the whole of a finished stream there is none left open.
Grammatical == /\ conv.client.phase # "broken"
                     /\ \A b, c \in conv.client.open : b = c

\* A finished stream that said something has told the client all of it, that the
\* message is over and why: a call anywhere in the stream makes it tool_use.
ToldAll ==
    up.state = "over" /\ up.finish # "" /\ up.said # {} =>
        /\ conv.client.phase = "stopped"
        /\ conv.client.heard = up.said
        /\ conv.client.reason = "tool_use" <=> conv.client.tools > 0
        /\ conv.client.reason = "max_tokens" <=> conv.client.tools = 0 /\ up.finish = "MAX_TOKENS"
=============================================================================
