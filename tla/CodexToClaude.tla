--------------------------- MODULE CodexToClaude ---------------------------
(***************************************************************************)
(* A stream of Responses events turned into an Anthropic message stream    *)
(* (internal/translator/codex/claude, codex_claude_response.go).           *)
(*                                                                         *)
(* Items come one after the other: reasoning with any number of summary    *)
(* parts, messages with parts of text, function calls.  A thinking block   *)
(* is left open at the end of its part, because its signature may come     *)
(* with the end of the item, and stopped when that comes or something else *)
(* begins.  Text and arguments come as deltas or, from some upstreams,     *)
(* only with the item or the arguments done.                               *)
(***************************************************************************)
EXTENDS ClaudeStream

CONSTANTS MaxEvents,  \* bound: events that say something, and items
          Quirks      \* "messages" (several messages without deltas, or among others)

VARIABLES up, conv

vars == <<up, conv>>

NoItem == 0

\* ConvertCodexResponseToClaudeParams, and what the client has made of the events.
\* signature is the item whose signature is held, thinks the item of the thinking
\* block, signed the pairs of these two at each signature fed.
NewConversion ==
    [client |-> Fresh, index |-> 0, hasToolCall |-> FALSE, hasReceivedArgumentsDelta |-> FALSE,
     hasTextDelta |-> FALSE, textOpen |-> FALSE, thinkingOpen |-> FALSE, stopPending |-> FALSE,
     signature |-> NoItem, thinks |-> NoItem, signed |-> {}]

------------------------------------------------------------------------------
StartBlock(s, kind) == [s EXCEPT !.client = BlockStart(@, s.index, kind)]
Feed(s, kind, F) == [s EXCEPT !.client = BlockDelta(@, s.index, kind, F)]
StopBlock(s) == [s EXCEPT !.client = BlockStop(@, s.index), !.index = @ + 1]

\* finalizeCodexThinkingBlock
Finalize(s) ==
    IF ~s.thinkingOpen THEN s
    ELSE LET t == IF s.signature = NoItem THEN s
                  ELSE [Feed(s, "thinking", {}) EXCEPT !.signed = @ \union {<<s.thinks, s.signature>>}]
         IN [StopBlock(t) EXCEPT !.thinkingOpen = FALSE, !.stopPending = FALSE]
FinalizeIf(s, condition) == IF condition THEN Finalize(s) ELSE s
LeavePending(s) == s                   \* bug: the pending stop is forgotten
FinalizePending(s) == FinalizeIf(s, s.thinkingOpen /\ s.stopPending)

Created(s) == [s EXCEPT !.client = MessageStart(@)]

ReasoningAdded(s, signature) == LET t == [s EXCEPT !.signature = signature]
                                IN FinalizeIf(t, t.stopPending)
SummaryAdded(s, item) ==
    [StartBlock(FinalizePending(s), "thinking") EXCEPT !.thinkingOpen = TRUE, !.stopPending = FALSE,
                                                       !.thinks = item]
SummaryDelta(s, F) == Feed(s, "thinking", F)
SummaryDone(s) == LET t == [s EXCEPT !.stopPending = TRUE]
                  IN FinalizeIf(t, t.signature # NoItem)
ReasoningDoneKept(s, signature) ==     \* bug: the signature is kept for the next item
    Finalize([s EXCEPT !.signature = IF signature = NoItem THEN @ ELSE signature])
ReasoningDone(s, signature) ==
    LET t == Finalize([s EXCEPT !.signature = IF signature = NoItem THEN @ ELSE signature])
    IN [t EXCEPT !.signature = NoItem]

PartAdded(s) == [StartBlock(FinalizePending(s), "text") EXCEPT !.textOpen = TRUE]
TextDelta(s, F) == [Feed(s, "text", F) EXCEPT !.hasTextDelta = TRUE]
PartDone(s) == [StopBlock(s) EXCEPT !.textOpen = FALSE]
\* A message is done; what it says in full counts if no text has come as deltas.
MessageDone(s, F) ==
    IF s.hasTextDelta \/ F = {} THEN s
    ELSE LET t == Finalize(s)
             u == IF t.textOpen THEN t ELSE StartBlock(t, "text")
         IN [StopBlock(Feed(u, "text", F)) EXCEPT !.textOpen = FALSE, !.hasTextDelta = TRUE]

CallAddedAgain(s) ==                   \* bug: the arguments of an earlier call count
    [Feed(StartBlock(Finalize(s), "tool"), "tool", {}) EXCEPT !.hasToolCall = TRUE]
CallAdded(s) ==
    [Feed(StartBlock(Finalize(s), "tool"), "tool", {}) EXCEPT !.hasToolCall = TRUE,
                                                              !.hasReceivedArgumentsDelta = FALSE]
ArgumentsDelta(s, F) == [Feed(s, "tool", F) EXCEPT !.hasReceivedArgumentsDelta = TRUE]
ArgumentsDone(s, F) == IF s.hasReceivedArgumentsDelta \/ F = {} THEN s ELSE Feed(s, "tool", F)
CallDone(s) == StopBlock(s)

\* "stop" and "max_tokens" are passed on.
StopReason(s, reason) == IF s.hasToolCall THEN "tool_use"
                         ELSE IF reason = "max_tokens" THEN "max_tokens" ELSE "end_turn"
Completed(s, reason) ==
    LET t == FinalizePending(s)
    IN [t EXCEPT !.client = MessageStop(MessageDelta(@, StopReason(t, reason)))]

------------------------------------------------------------------------------
(* The upstream.  at is where it is in an item; announces, streams and     *)
(* signs are its habits: reasoning items are announced, text comes as      *)
(* deltas, signatures come with the announcement.  A reasoning item may    *)
(* end without being done.                                                 *)

Init == /\ up \in [at : {"new"}, announces : BOOLEAN, streams : BOOLEAN, signs : BOOLEAN,
                   item : {NoItem}, count : {0}, messages : {0}, said : {{}}, own : {{}}]
        /\ conv = NewConversion

\* The upstream goes on to a place in its item, or begins another, and says F; own is
\* what it has said in the item.
Moves(at, F) == up' = [up EXCEPT !.at = at, !.count = @ + 1,
                                 !.said = @ \union F, !.own = @ \union F]
Begins(at, F) == up' = [up EXCEPT !.at = at, !.count = @ + 1, !.item = @ + 1,
                                  !.said = @ \union F, !.own = F]
Fragment(kind) == {[chunk |-> up.count + 1, kind |-> kind]}
More == up.count < MaxEvents
Free == up.at \in {"idle", "reasoning"}
Signature(early) == IF up.signs = early THEN up.item ELSE NoItem

Create == /\ up.at = "new"
          /\ conv' = Created(conv)
          /\ up' = [up EXCEPT !.at = "idle"]

AddReasoning == /\ More /\ Free /\ up.announces
                /\ Begins("reasoning", {})
                /\ conv' = ReasoningAdded(conv, IF up.signs THEN up.item + 1 ELSE NoItem)
\* Another part of an item, or the first of one that was not announced.
AddSummary ==
    /\ More
    /\ \/ up.at = "reasoning" /\ Moves("summary", {}) /\ conv' = SummaryAdded(conv, up.item)
       \/ up.at = "idle" /\ ~up.announces
          /\ Begins("summary", {}) /\ conv' = SummaryAdded(conv, up.item + 1)
SaySummary == /\ More /\ up.at = "summary"
              /\ conv' = SummaryDelta(conv, Fragment("thinking"))
              /\ Moves("summary", Fragment("thinking"))
EndSummary == /\ up.at = "summary"
              /\ conv' = SummaryDone(conv)
              /\ up' = [up EXCEPT !.at = "reasoning"]
EndReasoning == /\ up.at = "reasoning"
                /\ conv' = ReasoningDone(conv, IF up.announces THEN Signature(FALSE) ELSE up.item)
                /\ up' = [up EXCEPT !.at = "idle"]

AddPart == /\ More /\ up.streams
           /\ Free \/ up.at = "message"
           /\ conv' = PartAdded(conv)
           /\ IF Free THEN Begins("text", {}) ELSE Moves("text", {})
SayText == /\ More /\ up.at = "text"
           /\ conv' = TextDelta(conv, Fragment("text"))
           /\ Moves("text", Fragment("text"))
EndPart == /\ up.at = "text"
           /\ conv' = PartDone(conv)
           /\ up' = [up EXCEPT !.at = "message"]
EndMessage == /\ up.at = "message"
              /\ conv' = MessageDone(conv, up.own)
              /\ up' = [up EXCEPT !.at = "idle"]
\* A message that comes as a whole.
SayMessage == /\ More /\ Free
              /\ (~up.streams /\ up.messages = 0) \/ "messages" \in Quirks
              /\ conv' = MessageDone(conv, Fragment("text"))
              /\ up' = [up EXCEPT !.at = "idle", !.count = @ + 1, !.item = @ + 1, !.messages = @ + 1,
                                  !.said = @ \union Fragment("text"), !.own = {}]

AddCall == /\ More /\ Free
           /\ conv' = CallAdded(conv)
           /\ Begins("call", {})
SayArguments == /\ More /\ up.at = "call"
                /\ conv' = ArgumentsDelta(conv, Fragment("tool"))
                /\ Moves("call", Fragment("tool"))
\* All the arguments, which may be those that have been said.
EndArguments ==
    /\ More /\ up.at = "call"
    /\ LET F == IF up.own # {} THEN up.own ELSE Fragment("tool") IN
       /\ conv' = ArgumentsDone(conv, F)
       /\ Moves("called", F)
EndCall == /\ up.at = "called"
           /\ conv' = CallDone(conv)
           /\ up' = [up EXCEPT !.at = "idle"]

Complete(reason) == /\ Free
                    /\ conv' = Completed(conv, reason)
                    /\ up' = [up EXCEPT !.at = "completed"]
\* The lines are over without it: the client hears of it from the handler.
Cut == /\ up.at \notin {"completed", "cut"}
       /\ up' = [up EXCEPT !.at = "cut"]
       /\ UNCHANGED conv

Next == \/ Create \/ AddReasoning \/ AddSummary \/ SaySummary \/ EndSummary \/ EndReasoning
        \/ AddPart \/ SayText \/ EndPart \/ EndMessage \/ SayMessage
        \/ AddCall \/ SayArguments \/ EndArguments \/ EndCall
        \/ \E reason \in {"", "max_tokens"} : Complete(reason)
        \/ Cut

Spec == Init /\ [][Next]_vars

------------------------------------------------------------------------------
(* Properties.                                                             *)

\* The events fit together, one block after the other, wherever the stop of a
\* thinking block is put off to.
Grammatical == /\ conv.client.phase # "broken"
                    /\ \A b, c \in conv.client.open : b = c

\* A response that was completed has told the client all that was said, whether it
\* came as deltas or as a whole and never twice, that the message is over and why.
ToldAll ==
    up.at = "completed" =>
        /\ conv.client.phase = "stopped"
        /\ conv.client.heard = up.said
        /\ conv.client.reason = "tool_use" <=> conv.client.tools > 0

\* A thinking block is signed with the signature of the item its thinking is of.
Signed == \A p \in conv.signed : p[1] = p[2]
=============================================================================
