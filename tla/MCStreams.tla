----------------------------- MODULE MCStreams -----------------------------
(***************************************************************************)
(* The ways a streamed reply may take, explored side by side by one run:   *)
(* from the upstream to the client of one request, through the websocket   *)
(* relay, with one session and one request, or through one of the          *)
(* converters to Anthropic events; and how two replies are counted.  The   *)
(* route is chosen at the beginning; what belongs to the others stays as   *)
(* it began.                                                               *)
(***************************************************************************)
EXTENDS WsRelay, TLC

CONSTANTS s1, r1, r2, Quirks, RashPeek

OneRequest == r1 :> 3
OneAnswered == (r1 :> 2) @@ (r2 :> 0)

VARIABLES route, up, conv, manager, calls, wraps, drained, pump, errs, peer, left, done, written, told,
          body, reported, queue, stop, dispatcher, stats, exported, imports, restarts

\* The module of proofs, that they may be cited of this instance.
Forward == INSTANCE StreamForwarding_proofs WITH Models <- 2, Retries <- 1, MaxCalls <- 2, MaxChunks <- 2,
                                                 handler <- peer, cancelled <- done, outcome <- told

Usage == INSTANCE UsageManager WITH Requests <- {r1, r2}, MaxImports <- 1, MaxRestarts <- 1

OpenAI == INSTANCE OpenAIToClaude WITH Calls <- {0, 1}, MaxChunks <- 3
Gemini == INSTANCE GeminiToClaude WITH MaxParts <- 5
Antigravity == INSTANCE AntigravityToClaude WITH MaxParts <- 5
Codex == INSTANCE CodexToClaude WITH MaxEvents <- 6
Kiro == INSTANCE KiroToClaude WITH Calls <- {1, 2}, MaxPieces <- 2, MaxEvents <- 3

convs == <<up, conv>>
fwds == <<manager, calls, wraps, drained, pump, errs, peer, left, done, written, told>>
records == <<body, reported, queue, stop, dispatcher, stats, exported, imports, restarts>>

Quiet == Init /\ mode = [r \in Requests |-> "whole"]
RouteInit == /\ Forward!Init
             /\ \/ route = "relay" /\ Init /\ up = <<>> /\ conv = <<>>
                \/ route = "forward" /\ Quiet /\ up = <<>> /\ conv = <<>>
                \/ route = "usage" /\ Quiet /\ up = <<>> /\ conv = <<>>
                \/ route = "openai" /\ Quiet /\ OpenAI!Init
                \/ route = "gemini" /\ Quiet /\ Gemini!Init
                \/ route = "antigravity" /\ Quiet /\ Antigravity!Init
                \/ route = "codex" /\ Quiet /\ Codex!Init
                \/ route = "kiro" /\ Quiet /\ Kiro!Init
             /\ IF route = "usage" THEN Usage!Init ELSE Usage!Unused

RouteNext == \/ route = "relay" /\ Next /\ UNCHANGED <<route, convs, fwds, records>>
             \/ route = "forward" /\ Forward!Next /\ UNCHANGED <<route, convs, records, vars>>
             \/ route = "usage" /\ Usage!Next /\ UNCHANGED <<route, convs, fwds, vars>>
             \/ route = "openai" /\ OpenAI!Next /\ UNCHANGED <<route, fwds, records, vars>>
             \/ route = "gemini" /\ Gemini!Next /\ UNCHANGED <<route, fwds, records, vars>>
             \/ route = "antigravity" /\ Antigravity!Next /\ UNCHANGED <<route, fwds, records, vars>>
             \/ route = "codex" /\ Codex!Next /\ UNCHANGED <<route, fwds, records, vars>>
             \/ route = "kiro" /\ Kiro!Next /\ UNCHANGED <<route, fwds, records, vars>>

RouteSpec == /\ RouteInit /\ [][RouteNext]_<<route, convs, fwds, records, vars>>
             /\ Fairness /\ Forward!Fairness /\ Usage!Fairness

\* The events a client gets fit together (each converter says of which streams).
Grammatical == /\ route = "openai" => OpenAI!Grammatical
               /\ route = "gemini" => Gemini!Grammatical
               /\ route = "antigravity" => Antigravity!Grammatical
               /\ route = "codex" => Codex!Grammatical
               /\ route = "kiro" => Kiro!Grammatical

\* A stream that is over has told the client all that was said, that it is over, and why.
ToldAll == /\ Forward!ToldAll
           /\ route = "openai" => OpenAI!ToldAll
           /\ route = "gemini" => Gemini!ToldAll
           /\ route = "antigravity" => Antigravity!ToldAll
           /\ route = "codex" => Codex!ToldAll
           /\ route = "kiro" => Kiro!ToldAll

\* A client is given one call's stream.
OneCall == Forward!OneCall

\* A call is reported once to the manager, and counted once in the statistics.
OneResult == Forward!OneResult /\ Usage!OneRecord

\* Every goroutine started for a request ends, be it forwarded, relayed or to be counted.
EveryGoroutineEnds == Forward!EveryStreamEnds /\ EveryCallEnds /\ Usage!Drains

\* Signatures are cached under, and fed to, the thinking they are of.
Signed == /\ route = "antigravity" => Antigravity!Signed
          /\ route = "codex" => Codex!Signed
=============================================================================
