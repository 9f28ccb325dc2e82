------------------------ MODULE AntigravityToClaude ------------------------
(***************************************************************************)
(* An Antigravity stream turned into an Anthropic message stream           *)
(* (internal/translator/antigravity/claude,                                *)
(* antigravity_claude_response.go).                                        *)
(*                                                                         *)
(* As with Gemini one block is open at a time.  The thinking is signed:    *)
(* the signature is fed to the thinking block and kept in the signature    *)
(* cache under the thinking since the last one.  The finish and the usage  *)
(* may come in chunks of their own; the last events are sent when both     *)
(* have come, or at the executor's [DONE], once.                           *)
(***************************************************************************)
EXTENDS ClaudeStream

CONSTANTS MaxParts,  \* bound: parts of a stream
          Quirks     \* "empty" (a text part without text before the last chunk),
                     \* "signature" (a signature without thinking in front of it)

VARIABLES up, conv

vars == <<up, conv>>

Finishes == {"STOP", "MAX_TOKENS"}
Parts == {"text", "thinking", "signed", "signature", "call", "empty"}

\* Params, what the client has made of the events, and the thinking that is cached
\* with its signature.
NewConversion == [client |-> Fresh, started |-> FALSE, type |-> "none", index |-> 0,
                  hasContent |-> FALSE, hasToolUse |-> FALSE, finish |-> "", hasUsage |-> FALSE,
                  sentFinal |-> FALSE, thinking |-> {}, cached |-> {}]

------------------------------------------------------------------------------
Started(s) == IF s.started THEN s
              ELSE [s EXCEPT !.started = TRUE, !.client = MessageStart(@)]

\* The index moves on; the type stays until the next block sets it.
CloseBlock(s) == IF s.type = "none" THEN s
                 ELSE [s EXCEPT !.client = BlockStop(@, s.index), !.index = @ + 1]
OpenBlock(s, kind) ==
    LET t == CloseBlock(s)
    IN [t EXCEPT !.client = BlockStart(@, t.index, kind), !.type = kind]
Feed(s, kind, F) == [s EXCEPT !.client = BlockDelta(@, s.index, kind, F), !.hasContent = TRUE]

TextRead(s, F) == Feed(IF s.type = "text" THEN s ELSE OpenBlock(s, "text"), "text", F)

\* An empty text of a chunk without finish reason feeds an open text block, or stops
\* another one and starts none.
EmptyRead(s, last) == IF last THEN s
                      ELSE IF s.type = "text" THEN Feed(s, "text", {})
                      ELSE CloseBlock(s)

OpenThinking(s) == IF s.type = "thinking" THEN s
                   ELSE [OpenBlock(s, "thinking") EXCEPT !.thinking = {}]
ThinkingRead(s, F) ==
    Feed([OpenThinking(s) EXCEPT !.thinking = @ \union F], "thinking", F)

KeepThinking(s) == [s EXCEPT !.cached = @ \union {s.thinking}]   \* bug: never reset
CacheSignature(s) == IF s.thinking = {} THEN s
                     ELSE [s EXCEPT !.cached = @ \union {s.thinking}, !.thinking = {}]
\* A signature, after the thinking it came with, if any.
SignatureRead(s, F) ==
    LET t == CacheSignature(IF F = {} THEN s ELSE ThinkingRead(s, F))
    IN Feed(t, "thinking", {})

CallRead(s, F) == Feed([OpenBlock(s, "tool") EXCEPT !.hasToolUse = TRUE], "tool", F)

PartRead(s, part, last, F) ==
    LET t == Started(s)
    IN CASE part = "text" -> TextRead(t, F)
         [] part = "empty" -> EmptyRead(t, last)
         [] part = "thinking" -> ThinkingRead(t, F)
         [] part = "signed" -> SignatureRead(t, F)
         [] part = "signature" -> SignatureRead(t, {})
         [] part = "call" -> CallRead(t, F)

StopReasonOfFinish(s) ==               \* bug: a call is forgotten by the finish
    IF s.finish = "MAX_TOKENS" THEN "max_tokens" ELSE "end_turn"
StopReason(s) == IF s.hasToolUse THEN "tool_use"
                 ELSE IF s.finish = "MAX_TOKENS" THEN "max_tokens" ELSE "end_turn"

\* appendFinalEvents
AppendFinalEventsAgain(s, force) ==    \* bug: whether or not they were sent
    IF (~s.hasUsage /\ ~force) \/ ~s.hasContent THEN s
    ELSE [s EXCEPT !.client = MessageDelta(IF s.type = "none" THEN @ ELSE BlockStop(@, s.index),
                                           StopReason(s)),
                   !.sentFinal = TRUE]
AppendFinalEvents(s, force) ==
    IF s.sentFinal \/ (~s.hasUsage /\ ~force) \/ ~s.hasContent THEN s
    ELSE [s EXCEPT !.client = MessageDelta(IF s.type = "none" THEN @ ELSE BlockStop(@, s.index),
                                           StopReason(s)),
                   !.type = "none",
                   !.sentFinal = TRUE]

\* What follows the parts of a chunk with a finish reason, or the usage.
EndRead(s, finish, usage) ==
    LET t == [Started(s) EXCEPT !.finish = IF finish = "" THEN @ ELSE finish, !.hasUsage = @ \/ usage]
    IN IF t.hasUsage /\ t.finish # "" THEN AppendFinalEvents(t, FALSE) ELSE t

DoneRead(s) ==
    IF s.hasContent
    THEN LET t == AppendFinalEvents(s, TRUE) IN [t EXCEPT !.client = MessageStop(@)]
    ELSE s

------------------------------------------------------------------------------
(* The upstream and the executor.                                          *)

Init == /\ up = [state |-> "open", count |-> 0, runs |-> {}, run |-> {}, finish |-> "", said |-> {}]
        /\ conv = NewConversion

Silent == {"signature", "empty"}
KindOf(part) == IF part \in {"thinking", "signed", "signature"} THEN "thinking"
                ELSE IF part = "call" THEN "tool" ELSE "text"

\* What the upstream has said that one signature is for: run is the thinking since
\* the last block or signature, runs those that were signed.
Heeded(u, part, F) ==
    LET run == CASE KindOf(part) = "thinking" -> u.run \union F
                 [] part = "empty" -> u.run
                 [] OTHER -> {}
        signed == part \in {"signed", "signature"} /\ run # {}
    IN [u EXCEPT !.said = @ \union F,
                 !.run = IF signed THEN {} ELSE run,
                 !.runs = IF signed THEN @ \union {run} ELSE @]

\* A part of any chunk, or of the last.
Part(part, last) ==
    /\ up.state = IF last THEN "last" ELSE "open"
    /\ up.count < MaxParts
    /\ part = "empty" => last \/ "empty" \in Quirks
    /\ part = "signature" => conv.type = "thinking" \/ "signature" \in Quirks
    /\ LET F == IF part \in Silent THEN {} ELSE {[chunk |-> up.count + 1, kind |-> KindOf(part)]} IN
       /\ conv' = PartRead(conv, part, last, F)
       /\ up' = Heeded([up EXCEPT !.count = @ + 1], part, F)

\* The chunk with the finish reason begins.
Last == /\ up.state = "open"
        /\ up' = [up EXCEPT !.state = "last"]
        /\ UNCHANGED conv

Finish(finish, usage) ==
    /\ up.state = "last"
    /\ conv' = EndRead(conv, finish, usage)
    /\ up' = [up EXCEPT !.state = "finished", !.finish = finish]

\* Usage in a chunk after the finish: FilterSSEUsageMetadata lets it through.
Usage == /\ up.state = "finished" /\ ~conv.hasUsage
         /\ conv' = EndRead(conv, "", TRUE)
         /\ UNCHANGED up

\* The lines are over, or reading them fails: the executor's [DONE], either way.
Over == /\ up.state \in {"open", "finished"}
        /\ conv' = DoneRead(conv)
        /\ up' = [up EXCEPT !.state = "over"]

Next == \/ \E part \in Parts, last \in BOOLEAN : Part(part, last)
        \/ Last
        \/ \E finish \in Finishes, usage \in BOOLEAN : Finish(finish, usage)
        \/ Usage
        \/ Over

Spec == Init /\ [][Next]_vars

------------------------------------------------------------------------------
(* Properties.                                                             *)

\* The events fit together, one block after the other, whether the stream is whole
\* or cut off, and whichever of the finish and the usage comes last.
Grammatical == /\ conv.client.phase # "broken"
                          /\ \A b, c \in conv.client.open : b = c

\* A stream that is over and gave the client anything has told it all, that the
\* message is over and why.
ToldAll ==
    up.state = "over" /\ conv.hasContent =>
        /\ conv.client.phase = "stopped"
        /\ conv.client.heard = up.said
        /\ conv.client.reason = "tool_use" <=> conv.client.tools > 0
        /\ conv.client.reason = "max_tokens" <=> conv.client.tools = 0 /\ up.finish = "MAX_TOKENS"

\* A signature is cached under the thinking it signs: all of it since the block began
\* or the last signature, and nothing else.
Signed == conv.cached = up.runs
=============================================================================
