--------------------------- MODULE OpenAIToClaude ---------------------------
(***************************************************************************)
(* A chat completion stream turned into an Anthropic message stream        *)
(* (internal/translator/openai/claude, openai_claude_response.go), fed     *)
(* line by line by the OpenAI-compatible executor.                         *)
(*                                                                         *)
(* Text and thinking have one block each at a time; a tool call keeps its  *)
(* block, and its arguments, until the upstream says why it finished.      *)
(* Usage comes with the finish or after it; without it the end is told at  *)
(* [DONE], which the executor adds when the upstream's lines are over,     *)
(* whether or not the upstream sent one itself.                            *)
(***************************************************************************)
EXTENDS ClaudeStream

CONSTANTS Calls,      \* indices of the upstream's tool calls
          MaxChunks,  \* bound: chunks of a stream
          Quirks      \* what some upstreams do: "names" (a call's name in each of
                      \* its chunks), "usages" (usage after every chunk), "empty"
                      \* (no chunk at all)

VARIABLES up, conv

vars == <<up, conv>>

None == -1
NoCall == -1
Finishes == {"stop", "length", "tool_calls"}
Chunks == [thinks : BOOLEAN, speaks : BOOLEAN, call : Calls \union {NoCall}, named : BOOLEAN,
           args : BOOLEAN, finish : Finishes \union {""}, usage : BOOLEAN]

\* ConvertOpenAIResponseToAnthropicParams, and what the client has made of the
\* events.  block is ToolCallBlockIndexes; args the accumulated arguments.
NewConversion ==
    [client |-> Fresh, started |-> FALSE, text |-> None, thinking |-> None, next |-> 0,
     seen |-> {}, block |-> [i \in Calls |-> None], args |-> [i \in Calls |-> {}],
     finish |-> "", blocksStopped |-> FALSE, deltaSent |-> FALSE, stopSent |-> FALSE]

------------------------------------------------------------------------------
Started(s) == IF s.started THEN s
              ELSE [s EXCEPT !.started = TRUE, !.client = MessageStart(@)]

StopText(s) == IF s.text = None THEN s
               ELSE [s EXCEPT !.client = BlockStop(@, s.text), !.text = None]
StopThinking(s) == IF s.thinking = None THEN s
                   ELSE [s EXCEPT !.client = BlockStop(@, s.thinking), !.thinking = None]

OpenText(s) == IF s.text # None THEN s
               ELSE [s EXCEPT !.text = s.next, !.next = @ + 1, !.client = BlockStart(@, s.next, "text")]
OpenThinking(s) ==
    IF s.thinking # None THEN s
    ELSE [s EXCEPT !.thinking = s.next, !.next = @ + 1, !.client = BlockStart(@, s.next, "thinking")]

Thinks(s, F) == LET t == OpenThinking(StopText(s))
                IN [t EXCEPT !.client = BlockDelta(@, t.thinking, "thinking", F)]
Speaks(s, F) == LET t == IF s.text = None THEN OpenText(StopThinking(s)) ELSE s
                IN [t EXCEPT !.client = BlockDelta(@, t.text, "text", F)]

\* toolContentBlockIndex
Indexed(s, i) == IF s.block[i] # None THEN s
                 ELSE [s EXCEPT !.block[i] = s.next, !.next = @ + 1]
OpenCall(s, i) == LET t == StopText(StopThinking(s))
                  IN [t EXCEPT !.client = BlockStart(@, t.block[i], "tool")]
CallRead(s, i, named, F) ==
    LET t == [Indexed(s, i) EXCEPT !.seen = @ \union {i}, !.args[i] = @ \union F]
    IN IF named THEN OpenCall(t, i) ELSE t

\* bug: the blocks are stopped and the arguments forgotten
StopCallsUnfed(s) ==
    IF s.blocksStopped THEN s
    ELSE [s EXCEPT !.client = ToolBlocksEnd(@, {s.block[i] : i \in s.seen}, {}),
                   !.block = [i \in Calls |-> None],
                   !.blocksStopped = TRUE]
StopCalls(s) ==
    IF s.blocksStopped THEN s
    ELSE [s EXCEPT !.client = ToolBlocksEnd(@, {s.block[i] : i \in s.seen}, UNION {s.args[i] : i \in s.seen}),
                   !.block = [i \in Calls |-> None],
                   !.blocksStopped = TRUE]
StopAll(s) == StopCalls(StopText(StopThinking(s)))

StopReason(s) == IF s.seen # {} THEN "tool_use"
                 ELSE CASE s.finish = "length" -> "max_tokens"
                        [] s.finish = "tool_calls" -> "tool_use"
                        [] OTHER -> "end_turn"
TellReason(s) == [s EXCEPT !.client = MessageDelta(@, StopReason(s)), !.deltaSent = TRUE]

StopMessageAgain(s) ==            \* bug: whether or not it was sent
    [s EXCEPT !.client = MessageStop(@), !.stopSent = TRUE]
StopMessage(s) == IF s.stopSent THEN s
                  ELSE [s EXCEPT !.client = MessageStop(@), !.stopSent = TRUE]

FinishRead(s, finish) == IF finish = "" THEN s ELSE StopAll([s EXCEPT !.finish = finish])
UsageRead(s) == IF s.finish = "" THEN s ELSE StopMessage(TellReason(s))

\* What the n-th chunk says of a kind.
Fragment(n, kind) == [chunk |-> n, kind |-> kind]
Said(c, n) == {Fragment(n, kind) : kind \in {k \in Kinds :
                  \/ k = "thinking" /\ c.thinks
                  \/ k = "text" /\ c.speaks
                  \/ k = "tool" /\ c.call # NoCall /\ c.args}}

\* convertOpenAIStreamingChunkToAnthropic, of a chunk that says F.
Convert(s, c, F) ==
    LET thought == IF c.thinks THEN Thinks(Started(s), Of("thinking", F)) ELSE Started(s)
        spoken == IF c.speaks THEN Speaks(thought, Of("text", F)) ELSE thought
        called == IF c.call = NoCall THEN spoken ELSE CallRead(spoken, c.call, c.named, Of("tool", F))
        finished == FinishRead(called, c.finish)
    IN IF c.usage THEN UsageRead(finished) ELSE finished

\* convertOpenAIDoneToAnthropic
Finish(s) ==
    LET t == StopAll(s)
    IN StopMessage(IF t.finish # "" /\ ~t.deltaSent THEN TellReason(t) ELSE t)

------------------------------------------------------------------------------
(* The upstream and the executor.                                          *)

Init == /\ up = [state |-> "open", count |-> 0, named |-> {}, used |-> FALSE, said |-> {}]
        /\ conv = NewConversion

\* A chunk the upstream may send: a call's first chunk, and no other, has its
\* name; after the finish there is only usage, once.
Fits(c) ==
    /\ IF c.call = NoCall THEN ~c.named /\ ~c.args
       ELSE c.named <=> (c.call \notin up.named \/ "names" \in Quirks)
    /\ c.finish = "tool_calls" => up.named # {} \/ c.call # NoCall
    /\ up.state = "finished" => /\ ~c.thinks /\ ~c.speaks /\ c.call = NoCall /\ c.finish = ""
                                /\ c.usage /\ (~up.used \/ "usages" \in Quirks)

Chunk(c) ==
    /\ up.state \in {"open", "finished"} /\ up.count < MaxChunks /\ Fits(c)
    /\ conv' = Convert(conv, c, Said(c, up.count + 1))
    /\ up' = [up EXCEPT !.state = IF c.finish = "" THEN @ ELSE "finished",
                        !.count = @ + 1,
                        !.named = IF c.call = NoCall THEN @ ELSE @ \union {c.call},
                        !.used = @ \/ (c.usage /\ (c.finish # "" \/ up.state = "finished")),
                        !.said = @ \union Said(c, up.count + 1)]

\* The upstream's own [DONE].
Done == /\ up.state \in {"open", "finished"}
        /\ up.count > 0 \/ "empty" \in Quirks
        /\ conv' = Finish(conv)
        /\ up' = [up EXCEPT !.state = "done"]

\* The lines are over: the executor's.
Over == /\ up.state \in {"open", "finished", "done"}
        /\ up.count > 0 \/ "empty" \in Quirks
        /\ conv' = Finish(conv)
        /\ up' = [up EXCEPT !.state = "over"]

\* Reading fails: the executor tells the handler, the converter nothing.
Fail == /\ up.state \in {"open", "finished", "done"}
        /\ up' = [up EXCEPT !.state = "failed"]
        /\ UNCHANGED conv

Next == (\E c \in Chunks : Chunk(c)) \/ Done \/ Over \/ Fail

Spec == Init /\ [][Next]_vars

------------------------------------------------------------------------------
(* Properties.                                                             *)

\* The events fit together, however the upstream mixes its chunks: blocks that end
\* when another begins or all at the finish, an end told with the usage, at [DONE]
\* or at the executor's own [DONE] after it.
Grammatical == conv.client.phase # "broken"

\* A stream that is over has told the client all that was said, the arguments of
\* the calls included, that the message is over, and, if the upstream said it, why:
\* a tool is to be used if and only if the client has been given one.
ToldAll ==
    up.state \in {"done", "over"} =>
        /\ conv.client.phase = "stopped"
        /\ conv.client.heard = up.said
        /\ (conv.client.reason = "none") <=> (conv.finish = "")
        /\ conv.finish # "" => (conv.client.reason = "tool_use" <=> conv.client.tools > 0)
=============================================================================
