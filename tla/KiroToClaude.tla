--------------------------- MODULE KiroToClaude ---------------------------
(***************************************************************************)
(* A Kiro event stream turned into an Anthropic message stream by the Kiro *)
(* executor itself (streamToChannel, internal/runtime/executor,            *)
(* kiro_executor.go; ProcessToolUseEvent, internal/translator/kiro/claude).*)
(*                                                                         *)
(* Thinking comes in events of its own or, as long as none of those was    *)
(* seen, as text between two tags, which may be cut anywhere: the end of a *)
(* text that might be the beginning of a tag is held back until the next   *)
(* text.  A call comes in fragments that are delivered in one piece when   *)
(* it stops, or whole in a list; both are told apart by its identifier.    *)
(*                                                                         *)
(* A text is a sequence of pieces: plain words, white space, words that    *)
(* end like the beginning of a tag ("angle"), a whole tag, or one that is  *)
(* cut in two.                                                             *)
(***************************************************************************)
EXTENDS ClaudeStream, Sequences, SequencesExt

CONSTANTS Calls,      \* identifiers of calls
          MaxPieces,  \* bound: pieces of a text
          MaxEvents,  \* bound: events of a stream
          Quirks      \* "empty" (a stream without events), "open" (thinking not closed by
                      \* its tag), "held" (text that ends like a tag and is the last before
                      \* the end or a thinking event), "blank" (white space at the ends of
                      \* a text) and "both" (a call beside a text), the two after a thinking
                      \* event, "cut" (a call that does not stop, after text), "interleave"
                      \* (a call that is over begins again while another goes on)

VARIABLES up, conv

vars == <<up, conv>>

NoCall == [id |-> 0, input |-> {}]

\* The variables of streamToChannel, with what the client has made of the events.
NewConversion == [client |-> Fresh, started |-> FALSE, index |-> -1, textOpen |-> FALSE,
                  thinkOpen |-> FALSE, thinkIndex |-> -1, inThink |-> FALSE, official |-> FALSE,
                  pending |-> <<>>, tool |-> NoCall, processed |-> {}, hasToolUses |-> FALSE,
                  reason |-> "none"]

------------------------------------------------------------------------------
Started(s) == IF s.started THEN s
              ELSE [s EXCEPT !.started = TRUE, !.client = MessageStart(@)]

OpenText(s) == IF s.textOpen THEN s
               ELSE [s EXCEPT !.client = BlockStart(@, s.index + 1, "text"),
                              !.index = @ + 1, !.textOpen = TRUE]
CloseText(s) == IF s.textOpen THEN [s EXCEPT !.client = BlockStop(@, s.index), !.textOpen = FALSE]
                ELSE s
TextRead(s, F) == LET t == OpenText(s) IN [t EXCEPT !.client = BlockDelta(@, t.index, "text", F)]

OpenThinking(s) == IF s.thinkOpen THEN s
                   ELSE [s EXCEPT !.client = BlockStart(@, s.index + 1, "thinking"),
                                  !.index = @ + 1, !.thinkIndex = s.index + 1, !.thinkOpen = TRUE]
CloseThinking(s) == IF s.thinkOpen
                    THEN [s EXCEPT !.client = BlockStop(@, s.thinkIndex), !.thinkOpen = FALSE]
                    ELSE s
ThinkingRead(s, F) ==
    LET t == OpenThinking(s) IN [t EXCEPT !.client = BlockDelta(@, t.thinkIndex, "thinking", F)]

\* A tag ends what was, and begins nothing: a block opens with its first words.
TagRead(s) == IF s.inThink THEN [CloseThinking(s) EXCEPT !.inThink = FALSE]
              ELSE [CloseText(s) EXCEPT !.inThink = TRUE]

WordsRead(s, piece) == IF s.inThink THEN ThinkingRead(s, piece.words) ELSE TextRead(s, piece.words)
PieceRead(s, piece) == IF piece.sort = "tag" THEN TagRead(s) ELSE WordsRead(s, piece)

\* The loop over a text, after what was held back of the one before.
Joined(pending, text) ==
    IF pending # <<>> /\ pending[1].sort = "half"
    THEN <<[pending[1] EXCEPT !.sort = "tag"]>> \o Tail(text)
    ELSE pending \o text
MaybeTag(text) == Last(text).sort \in {"half", "angle"}
HeldLost(text) == <<>>                 \* bug: cut off, and not kept
Held(text) == IF MaybeTag(text) THEN <<Last(text)>> ELSE <<>>
TagsRead(s, text) ==
    LET joined == Joined(s.pending, text)
        read == IF MaybeTag(joined) THEN Front(joined) ELSE joined
    IN [FoldLeft(PieceRead, s, read) EXCEPT !.pending = Held(joined)]

\* Once thinking has come in events of its own, tags are cut out of a text, and the
\* white space around it.
AllWords(text) == UNION {text[k].words : k \in DOMAIN text}
Trimmed(text) == LET kept == {k \in DOMAIN text : text[k].sort # "blank"}
                 IN UNION {text[k].words : k \in {k \in DOMAIN text :
                                \E i, j \in kept : i <= k /\ k <= j}}

\* A call in one piece: a block that is started, fed and stopped.
ToolBlock(s, call) ==
    LET t == [CloseText(s) EXCEPT !.client = BlockStart(@, s.index + 1, "tool"), !.index = @ + 1]
        fed == IF call.input = {} THEN t.client ELSE BlockDelta(t.client, t.index, "tool", call.input)
    IN [t EXCEPT !.client = BlockStop(fed, t.index), !.hasToolUses = TRUE]

\* The calls listed in an assistantResponseEvent, here one at most.
Listed(s, call) ==
    IF call = NoCall \/ call.id \in s.processed THEN s
    ELSE ToolBlock([s EXCEPT !.processed = @ \union {call.id}], call)

\* assistantResponseEvent: with thinking events, a text hides the calls beside it.
ResponseRead(s, text, call) ==
    IF text = <<>> THEN Listed(s, call)
    ELSE IF s.official THEN IF Trimmed(text) = {} THEN s ELSE TextRead(s, Trimmed(text))
    ELSE Listed(TagsRead(s, text), call)

\* reasoningContentEvent
OverText(s, F) == ThinkingRead([s EXCEPT !.official = TRUE], F)   \* bug: the text stays open
ReasoningRead(s, F) == ThinkingRead(CloseText([s EXCEPT !.official = TRUE]), F)

\* toolUseEvent: another call in progress is completed first, and forgotten again
\* when this one was seen before.
ToolUseRead(s, id, F, stop, truncated) ==
    LET another == s.tool # NoCall /\ s.tool.id # id
        broken == another /\ s.tool.id \notin s.processed
        processed == IF broken THEN s.processed \union {s.tool.id} ELSE s.processed
        seen == (another \/ s.tool = NoCall) /\ id \in processed
        t == [IF broken /\ ~seen THEN ToolBlock(s, s.tool) ELSE s EXCEPT !.processed = processed]
        call == [id |-> id, input |-> IF another THEN F ELSE s.tool.input \union F]
    IN IF seen THEN [t EXCEPT !.tool = NoCall]
       ELSE IF ~stop THEN [t EXCEPT !.tool = call]
       ELSE [IF truncated THEN t ELSE ToolBlock(t, call) EXCEPT !.tool = NoCall,
                                                                !.processed = @ \union {id}]

StopReason(s) == IF s.reason # "none" THEN s.reason
                 ELSE IF s.hasToolUses THEN "tool_use" ELSE "end_turn"

\* The end of the stream: a call in progress is delivered (an open text block is not
\* looked at), the text is closed, and the message.
Flushed(s) ==
    IF s.tool = NoCall \/ s.tool.id \in s.processed THEN s
    ELSE [ToolBlock([s EXCEPT !.textOpen = FALSE], s.tool) EXCEPT !.textOpen = s.textOpen,
                                                                  !.tool = NoCall]
EndRead(s) ==
    LET t == CloseText(Flushed(s))
    IN [t EXCEPT !.client = MessageStop(MessageDelta(@, StopReason(t)))]

------------------------------------------------------------------------------
(* The upstream.                                                           *)

Sorts == {"words", "angle", "tag", "half", "rest"}
         \union IF "blank" \in Quirks THEN {"blank"} ELSE {}

\* How a text may be made up: a tag cut in two ends one text and begins the next, and
\* two pieces of words in a row are one.
Shapes == {s \in UNION {[1..n -> Sorts] : n \in 1..MaxPieces} :
             \A k \in DOMAIN s : /\ s[k] = "rest" => k = 1
                                 /\ s[k] = "half" => k = Len(s)
                                 /\ s[k] = "angle" /\ k < Len(s) => s[k + 1] = "words"
                                 /\ s[k] = "words" /\ k < Len(s) => s[k + 1] # "words"}
Flips(shape, k) == Cardinality({j \in 1..k : shape[j] \in {"tag", "rest"}}) % 2 = 1
InsideAt(shape, k) == up.inside # Flips(shape, k)

Fragment(k, kind) == [event |-> up.count + 1, piece |-> k, kind |-> kind]
Pieces(shape) ==
    [k \in DOMAIN shape |->
        [sort |-> shape[k],
         words |-> IF shape[k] \in {"words", "angle", "blank"}
                   THEN {Fragment(k, IF InsideAt(shape, k) THEN "thinking" ELSE "text")} ELSE {}]]

Init == /\ up = [state |-> "open", count |-> 0, inside |-> FALSE, half |-> FALSE, held |-> FALSE,
                 calls |-> [c \in Calls |-> [state |-> "new", input |-> {}]],
                 reason |-> "none", said |-> {}]
        /\ conv = NewConversion

Going == {c \in Calls : up.calls[c].state = "going"}
More == up.state = "open" /\ up.count < MaxEvents

\* Identifiers are given out in order, which loses nothing: the code only compares them.
Named == {c \in Calls : \A d \in Calls : d < c => up.calls[d].state # "new"}
Event == [up EXCEPT !.count = @ + 1]

\* assistantResponseEvent with a text, and with a call beside it or none.
Say(shape, c) ==
    /\ More
    /\ up.half <=> shape[1] = "rest"
    /\ conv.official => \A k \in DOMAIN shape : shape[k] \in {"words", "angle", "blank"}
    /\ c # 0 => /\ up.calls[c].state # "going"
                /\ conv.official => "both" \in Quirks
    /\ LET text == Pieces(shape)
           call == IF c = 0 THEN NoCall
                   ELSE [id |-> c, input |-> {Fragment(0, "tool")}]
           fresh == c # 0 /\ up.calls[c].state = "new"
       IN /\ conv' = ResponseRead(Started(conv), text, call)
          /\ up' = [Event EXCEPT !.said = @ \union AllWords(text)
                                            \union (IF fresh THEN call.input ELSE {}),
                                 !.inside = InsideAt(shape, Len(shape)),
                                 !.half = Last(shape) = "half",
                                 !.held = Last(shape) = "angle" /\ ~conv.official,
                                 !.calls = IF fresh THEN [@ EXCEPT ![c].state = "done"] ELSE @]

\* assistantResponseEvent with a call only.
List(c) ==
    /\ More /\ up.calls[c].state # "going"
    /\ LET call == [id |-> c, input |-> {Fragment(0, "tool")}]
           fresh == up.calls[c].state = "new"
       IN /\ conv' = ResponseRead(Started(conv), <<>>, call)
          /\ up' = [Event EXCEPT !.said = @ \union (IF fresh THEN call.input ELSE {}),
                                 !.calls[c].state = "done"]

Think ==
    /\ More /\ ~up.inside /\ ~up.half
    /\ up.held => "held" \in Quirks
    /\ LET F == {Fragment(1, "thinking")}
       IN /\ conv' = ReasoningRead(Started(conv), F)
          /\ up' = [Event EXCEPT !.said = @ \union F]

\* toolUseEvent: a fragment, the stop, or what was said before.
UseTool(c, stop, truncated) ==
    /\ More
    /\ Going \ {c} # {} => up.calls[c].state = "new" \/ "interleave" \in Quirks
    /\ truncated => stop /\ up.calls[c].state # "done"
    /\ LET F == IF up.calls[c].state = "done" THEN {} ELSE {Fragment(0, "tool")}
           input == up.calls[c].input \union F
       IN /\ conv' = ToolUseRead(Started(conv), c, F, stop, truncated)
          /\ up' = [Event EXCEPT !.said = IF truncated THEN @ \ input ELSE @ \union F,
                                 !.calls = [d \in Calls |->
                                     IF d = c THEN [state |-> IF stop \/ up.calls[c].state = "done"
                                                              THEN "done" ELSE "going",
                                                    input |-> input]
                                     ELSE IF @[d].state = "going" THEN [@[d] EXCEPT !.state = "done"]
                                     ELSE @[d]]]

\* messageStopEvent, and whatever else has a reason to give, or nothing to say.
GiveReason(r) ==
    /\ More /\ up.reason = "none"
    /\ conv' = [Started(conv) EXCEPT !.reason = r]
    /\ up' = [Event EXCEPT !.reason = r]

\* A frame that cannot be read, a client that has gone, or an event that says an error,
\* which may be the first.
Fail == /\ up.state = "open"
        /\ up' = [up EXCEPT !.state = "failed"]
        /\ conv' \in {conv, Started(conv)}

Over == /\ up.state = "open" /\ ~up.half
        /\ up.count = 0 => "empty" \in Quirks
        /\ up.inside => "open" \in Quirks
        /\ up.held => "held" \in Quirks
        /\ Going # {} /\ conv.textOpen => "cut" \in Quirks
        /\ conv' = EndRead(conv)
        /\ up' = [up EXCEPT !.state = "over"]

Next == \/ \E shape \in Shapes, c \in Named \union {0} : Say(shape, c)
        \/ \E c \in Named : List(c)
        \/ Think
        \/ \E c \in Named, stop, truncated \in BOOLEAN : UseTool(c, stop, truncated)
        \/ \E r \in Reasons : GiveReason(r)
        \/ Fail
        \/ Over

Spec == Init /\ [][Next]_vars

------------------------------------------------------------------------------
(* Properties.                                                             *)

\* Events fit together as long as the stream lasts, and at its end unless thinking came
\* in events of its own: the code leaves that block open (ThinkingCloses).
Grammatical == conv.client.phase = "broken" => up.state = "over" /\ conv.official

\* A stream that is over has told the client all that was said and, but for the same
\* streams, that the message is over and why.
ToldAll ==
    up.state = "over" =>
        /\ conv.client.heard = up.said
        /\ conv.official \/
              /\ conv.client.phase = "stopped"
              /\ conv.client.reason = IF up.reason # "none" THEN up.reason
                                      ELSE IF conv.client.tools > 0 THEN "tool_use" ELSE "end_turn"

\* "We don't close the thinking block here - it will be closed when we see the next
\* assistantResponseEvent or at the end of the stream" (kiro_executor.go:3234).
ThinkingCloses ==
    conv.official => \A b \in conv.client.open : b.kind = "thinking" => ~conv.textOpen /\ up.state # "over"
=============================================================================
