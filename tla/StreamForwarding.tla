-------------------------- MODULE StreamForwarding --------------------------
(***************************************************************************)
(* One streamed request from the upstream to the client: the manager's     *)
(* ExecuteStream calls executors until one of them has given a first       *)
(* payload (conductor.go), a goroutine of each such call reports its       *)
(* result, another of the handler ("pump": ExecuteStreamWithAuthManager)   *)
(* starts over while nothing was sent, and the handler itself peeks at the *)
(* beginning and forwards the rest (code_handlers.go, stream_forwarder.go).*)
(* All of them hand chunks on over channels without slots and give up when *)
(* the request's context is done.                                          *)
(*                                                                         *)
(* Which credential is picked, and further rounds, are modules Scheduler's *)
(* and Execution's.  Keep-alives, headers and payloads are left out.       *)
(***************************************************************************)
EXTENDS Naturals, Sequences

CONSTANTS Models,     \* bound: models in a credential's pool
          Retries,    \* streaming.bootstrap-retries
          MaxCalls,   \* bound: calls of executors
          MaxChunks,  \* bound: chunks of a call
          RashPeek    \* may the peek look at the end before the error

VARIABLES
    manager,    \* where ExecuteStream is, who has called it waits
    calls,      \* calls[i]: the i-th call's executor, and what was reported of it
    wraps,      \* wraps[i]: wrapStreamResult's goroutine
    drained,    \* calls whose chunks are discarded
    pump,       \* ExecuteStreamWithAuthManager's goroutine
    errs,       \* what is in errChan
    handler,    \* where the handler is
    left,       \* the client has gone: the request's context is done
    cancelled,  \* the context handed to all others is
    written, outcome  \* what the client was given, and told at the end

stream == <<manager, calls, wraps, drained>>
client == <<handler, left, written, outcome>>
vars == <<stream, pump, errs, cancelled, client>>

Calls == 1 .. MaxCalls
\* Errors: of the request itself (isRequestInvalidError), of a status that is not
\* retried (bootstrapEligible), or passing.
Errors == {"invalid", "other", "passing"}
None == "none"
Nothing == [kind |-> "blank", call |-> 0, n |-> 0]
Fault(e) == [kind |-> e, call |-> 0, n |-> 0]

Init ==
    /\ manager = [at |-> "idle", call |-> 0, pool |-> 0, buffered |-> <<>>, last |-> None, boot |-> FALSE]
    /\ calls = [i \in Calls |-> [at |-> "none", chunk |-> Nothing, given |-> 0, said |-> 0, fate |-> "open", results |-> <<>>]]
    /\ wraps = [i \in Calls |-> [at |-> "none", rest |-> <<>>, failed |-> FALSE]]
    /\ drained = {}
    /\ pump = [at |-> "none", source |-> 0, sent |-> FALSE, retries |-> 0, chunk |-> Nothing]
    /\ errs = <<>> /\ handler = "new" /\ left = FALSE /\ cancelled = FALSE
    /\ written = <<>> /\ outcome = None

------------------------------------------------------------------------------
(* Executors: ExecuteStream's goroutine reads the upstream's body and      *)
(* offers what it says, an error last of all.                              *)

Offering(call, c) == [call EXCEPT !.at = "offer", !.chunk = c, !.given = @ + 1,
                         !.said = IF c.kind = "data" THEN c.n ELSE @,
                         !.fate = IF c.kind \in Errors THEN "failed" ELSE @]
Offer(i, c) == calls' = [calls EXCEPT ![i] = Offering(@, c)]
Says(i) == /\ calls[i].at = "reads" /\ calls[i].given < MaxChunks
           /\ \E c \in {[kind |-> "data", call |-> i, n |-> calls[i].said + 1], Nothing} : Offer(i, c)
Fails(i) == calls[i].at = "reads" /\ \E e \in Errors : Offer(i, Fault(e))
Ends(i) == /\ calls[i].at = "reads"
           /\ calls' = [calls EXCEPT ![i].at = "over", ![i].fate = "fine"]
Executor(i) == (Says(i) \/ Fails(i) \/ Ends(i)) /\ UNCHANGED <<manager, wraps, drained, pump, errs, cancelled, client>>

Taken(call) == [call EXCEPT !.at = IF call.chunk.kind \in Errors THEN "over" ELSE "reads", !.chunk = Nothing]
Marked(call, r) == [call EXCEPT !.results = Append(@, r)]

(* discardStreamChunks. *)
Drain(i) == /\ i \in drained /\ calls[i].at = "offer"
            /\ calls' = [calls EXCEPT ![i] = Taken(@)]
            /\ UNCHANGED <<manager, wraps, drained, pump, errs, cancelled, client>>
Forget(i) == UNCHANGED drained  \* bug: a call given up is not read to its end
Discard(i) == drained' = drained \cup {i}

------------------------------------------------------------------------------
(* ExecuteStream of the manager: executeStreamMixedOnce with               *)
(* executeStreamWithModelPool and readStreamBootstrap.                     *)

Started == [manager EXCEPT !.at = "pick", !.last = None, !.boot = FALSE]
Fail(e) == [manager EXCEPT !.at = "failed", !.last = e]

Pick == /\ manager.at = "pick"
        /\ \E k \in 1 .. Models : /\ manager.call + k <= MaxCalls
                                  /\ manager' = [manager EXCEPT !.at = "call", !.pool = k]
        /\ UNCHANGED <<calls, wraps, drained>>
NonePicked == /\ manager.at = "pick"
              /\ manager' = IF manager.last = None THEN Fail("passing")
                            ELSE IF manager.boot THEN [manager EXCEPT !.at = "error"] ELSE Fail(manager.last)
              /\ UNCHANGED <<calls, wraps, drained>>

\* After call i failed with e: the request is not retried, goes on to the next
\* model, or, unless it has been cancelled, to the next credential.
GoOn(e, bootstrap) ==
    manager' = IF e = "invalid" THEN [Fail(e) EXCEPT !.call = manager.call + (IF bootstrap THEN 0 ELSE 1)]
               ELSE [manager EXCEPT !.at = IF manager.pool > 1 THEN "call" ELSE "check", !.pool = @ - 1,
                        !.call = @ + (IF bootstrap THEN 0 ELSE 1),
                        !.last = e, !.boot = bootstrap /\ manager.pool = 1, !.buffered = <<>>]

Check == /\ manager.at = "check"
         /\ manager' = IF cancelled THEN Fail("passing") ELSE [manager EXCEPT !.at = "pick"]
         /\ UNCHANGED <<calls, wraps, drained>>

Refused == LET i == manager.call + 1 IN
    /\ manager.at = "call"
    /\ \E e \in Errors :
         IF cancelled THEN /\ manager' = [Fail(e) EXCEPT !.call = i]
                           /\ calls' = [calls EXCEPT ![i].at = "refused"]
         ELSE GoOn(e, FALSE) /\ calls' = [calls EXCEPT ![i] = Marked([@ EXCEPT !.at = "refused"], "failed")]
    /\ UNCHANGED <<wraps, drained>>
Accepted == LET i == manager.call + 1 IN
    /\ manager.at = "call"
    /\ manager' = [manager EXCEPT !.at = "boot", !.call = i, !.buffered = <<>>]
    /\ calls' = [calls EXCEPT ![i].at = "reads"]
    /\ UNCHANGED <<wraps, drained>>

\* wrapStreamResult, to begin with
Wrap(i, buffered) == /\ manager' = [manager EXCEPT !.at = "stream", !.buffered = <<>>]
                     /\ wraps' = [wraps EXCEPT ![i] = [at |-> "runs", rest |-> buffered, failed |-> FALSE]]
                     /\ UNCHANGED drained

Bootstrap == LET i == manager.call
                 c == calls[i].chunk IN
    /\ manager.at = "boot" /\ calls[i].at = "offer"
    /\ \/ /\ c.kind = "data"
          /\ Wrap(i, Append(manager.buffered, c)) /\ calls' = [calls EXCEPT ![i] = Taken(@)]
       \/ /\ c.kind = "blank"
          /\ manager' = [manager EXCEPT !.buffered = Append(@, c)]
          /\ calls' = [calls EXCEPT ![i] = Taken(@)] /\ UNCHANGED <<wraps, drained>>
       \/ /\ c.kind \in Errors /\ Discard(i) /\ UNCHANGED wraps
          /\ IF cancelled THEN manager' = Fail(c.kind) /\ calls' = [calls EXCEPT ![i] = Taken(@)]
             ELSE GoOn(c.kind, TRUE) /\ calls' = [calls EXCEPT ![i] = Marked(Taken(@), "failed")]
BootstrapOver == LET i == manager.call IN
    /\ manager.at = "boot" /\ calls[i].at = "over"
    /\ \/ /\ manager.buffered = <<>>
          /\ GoOn("passing", TRUE) /\ calls' = [calls EXCEPT ![i] = Marked(@, "failed")]
          /\ UNCHANGED <<wraps, drained>>
       \/ manager.buffered # <<>> /\ Wrap(i, manager.buffered) /\ UNCHANGED calls
BootstrapLeft == /\ manager.at = "boot" /\ cancelled
                 /\ manager' = Fail("passing") /\ Discard(manager.call) /\ UNCHANGED <<calls, wraps>>

Manager == /\ \/ Pick \/ NonePicked \/ Check \/ Refused \/ Accepted
              \/ Bootstrap \/ BootstrapOver \/ BootstrapLeft
           /\ UNCHANGED <<pump, errs, cancelled, client>>

------------------------------------------------------------------------------
(* wrapStreamResult: emits the buffered chunks, then the remaining.        *)

Emits(i) == wraps[i].at = "runs" /\ wraps[i].rest # <<>>
\* bug: a failure does not stop success from being reported at the end
WrapTakeLightly(i) ==
    LET c == calls[i].chunk IN
    /\ wraps' = [wraps EXCEPT ![i].rest = <<c>>]
    /\ calls' = [calls EXCEPT ![i] = IF c.kind \in Errors THEN Marked(Taken(@), "failed") ELSE Taken(@)]
\* A failure is reported before it is handed on.
WrapTake(i) ==
    LET c == calls[i].chunk
        fails == c.kind \in Errors IN
    /\ wraps' = [wraps EXCEPT ![i].rest = <<c>>, ![i].failed = @ \/ fails]
    /\ calls' = [calls EXCEPT ![i] = IF fails /\ ~wraps[i].failed THEN Marked(Taken(@), "failed") ELSE Taken(@)]
WrapQuit(i) == /\ Emits(i) /\ cancelled
               /\ wraps' = [wraps EXCEPT ![i].at = "over", ![i].rest = <<>>]
               /\ Discard(i) /\ UNCHANGED calls
WrapOver(i) == /\ wraps' = [wraps EXCEPT ![i].at = "over"]
               /\ calls' = IF wraps[i].failed THEN calls ELSE [calls EXCEPT ![i] = Marked(@, "ok")]
Wrapper(i) == /\ \/ WrapQuit(i)
                 \/ /\ wraps[i].at = "runs" /\ ~Emits(i)
                    /\ \/ calls[i].at = "offer" /\ WrapTake(i)
                       \/ calls[i].at = "over" /\ WrapOver(i)
                    /\ UNCHANGED drained
              /\ UNCHANGED <<manager, pump, errs, cancelled, client>>

------------------------------------------------------------------------------
(* The goroutine of ExecuteStreamWithAuthManager.                          *)

Eligible(e) == e = "passing"
Always == TRUE  \* bug: starts over whatever was sent
Safe == ~pump.sent
\* Source 0 is what streamErrorResult returns: one error.
Source == IF manager.at = "stream" THEN manager.call ELSE 0

PumpFails(e) == IF Safe /\ pump.retries < Retries /\ Eligible(e)
                THEN /\ manager' = Started
                     /\ pump' = [pump EXCEPT !.at = "retry", !.retries = @ + 1]
                ELSE /\ pump' = [pump EXCEPT !.at = "err", !.chunk = Fault(e)]
                     /\ UNCHANGED manager
ReceiveError == /\ pump.at = "take" /\ pump.source = 0
                /\ PumpFails(manager.last) /\ UNCHANGED <<calls, wraps, drained, errs>>
Receive == LET i == pump.source
               c == Head(wraps[i].rest) IN
    /\ pump.at = "take" /\ i # 0 /\ Emits(i)
    /\ wraps' = [wraps EXCEPT ![i].rest = Tail(@)]
    /\ \/ /\ c.kind = "data" /\ pump' = [pump EXCEPT !.at = "give", !.sent = TRUE, !.chunk = c]
          /\ UNCHANGED manager
       \/ \* validateSSEDataJSON of the Responses handler
          /\ c.kind = "data" /\ pump' = [pump EXCEPT !.at = "err", !.chunk = Fault("other")]
          /\ UNCHANGED manager
       \/ c.kind = "blank" /\ UNCHANGED <<pump, manager>>
       \/ c.kind \in Errors /\ PumpFails(c.kind)
    /\ UNCHANGED <<calls, drained, errs>>
ReceiveEnd == /\ pump.at = "take" /\ pump.source # 0
              /\ wraps[pump.source].at = "over"
              /\ pump' = [pump EXCEPT !.at = "closing"] /\ UNCHANGED <<stream, errs>>
Retried == /\ pump.at = "retry"
           /\ \/ /\ manager.at \in {"stream", "error"}
                 /\ pump' = [pump EXCEPT !.at = "take", !.source = Source]
              \/ manager.at = "failed" /\ pump' = [pump EXCEPT !.at = "err", !.chunk = Fault(manager.last)]
           /\ UNCHANGED <<stream, errs>>
PumpQuit == /\ pump.at \in {"take", "give", "err"} /\ cancelled
            /\ pump' = [pump EXCEPT !.at = "closing", !.chunk = Nothing] /\ UNCHANGED <<stream, errs>>
SendErr == /\ pump.at = "err"
           /\ errs' = <<pump.chunk.kind>>
           /\ pump' = [pump EXCEPT !.at = "closing", !.chunk = Nothing] /\ UNCHANGED stream
\* errChan is closed, then dataChan.
CloseData == /\ pump.at = "closing"
             /\ pump' = [pump EXCEPT !.at = "over"] /\ UNCHANGED <<stream, errs>>
Pump == /\ \/ ReceiveError \/ Receive \/ ReceiveEnd \/ Retried
           \/ PumpQuit \/ SendErr \/ CloseData
        /\ UNCHANGED <<cancelled, client>>

------------------------------------------------------------------------------
(* The handler of a streamed request, and its client.                      *)

\* The client leaves, and a goroutine of GetContextWithCancel notices.
Ask == /\ handler = "new" /\ handler' = "executes" /\ manager' = Started
       /\ UNCHANGED <<calls, wraps, drained, pump, errs, cancelled, left, written, outcome>>
Leave == /\ handler # "new" /\ ~left /\ left' = TRUE
         /\ UNCHANGED <<stream, pump, errs, cancelled, handler, written, outcome>>
Notice == /\ left /\ ~cancelled /\ cancelled' = TRUE
          /\ UNCHANGED <<stream, pump, errs, client>>

\* A failure before the stream began is put in errChan, and there is no dataChan.
Executed == /\ handler = "executes"
            /\ \/ /\ manager.at \in {"stream", "error"}
                  /\ pump' = [pump EXCEPT !.at = "take", !.source = Source] /\ UNCHANGED errs
               \/ manager.at = "failed" /\ errs' = <<manager.last>> /\ UNCHANGED pump
            /\ handler' = "peeks"
            /\ UNCHANGED <<stream, cancelled, left, written, outcome>>

Tell(o) == handler' = "over" /\ outcome' = o /\ cancelled' = TRUE /\ UNCHANGED <<stream, pump, errs, left, written>>
HandlerLeft == handler \in {"peeks", "forwards"} /\ left /\ Tell("left")
Given == /\ handler \in {"peeks", "forwards"} /\ pump.at = "give"
         /\ written' = Append(written, pump.chunk)
         /\ handler' = "forwards"
         /\ pump' = [pump EXCEPT !.at = "take", !.chunk = Nothing]
         /\ UNCHANGED <<stream, errs, cancelled, left, outcome>>
PeekError == handler = "peeks" /\ errs # <<>> /\ Tell("refused")
PeekOver == handler = "peeks" /\ pump.at = "over" /\ (RashPeek \/ errs = <<>>) /\ Tell("empty")
\* ForwardStream
ForwardError == handler = "forwards" /\ errs # <<>> /\ Tell("cut")
ForwardOverBlindly == handler = "forwards" /\ pump.at = "over" /\ Tell("done")  \* bug: no look for a pending error
ForwardOver == handler = "forwards" /\ pump.at = "over" /\ Tell(IF errs # <<>> THEN "cut" ELSE "done")
Handler == Executed \/ HandlerLeft \/ Given \/ PeekError \/ PeekOver \/ ForwardError \/ ForwardOver

Step == \/ Manager \/ Pump \/ Handler \/ Notice
        \/ \E i \in Calls : Executor(i) \/ Drain(i) \/ Wrapper(i)
Next == Ask \/ Leave \/ Step
\* Every goroutine is scheduled and every upstream ends: a request takes finitely many steps.
Fairness == WF_vars(Step)
Spec == Init /\ [][Next]_vars /\ Fairness

------------------------------------------------------------------------------
\* What the client gets is the beginning of one call's stream, in order: a stream is
\* started over, or another credential or model tried, only before the first payload.
OneCall == \E i \in Calls : \A n \in DOMAIN written : written[n] = [kind |-> "data", call |-> i, n |-> n]

\* A client that stayed and is told that the stream is done, or was empty, was given
\* all that a call said, and the call did not fail.
ToldAll == outcome \in {"done", "empty"} /\ ~left =>
    \E i \in Calls : calls[i].fate = "fine" /\ pump.source = i /\ Len(written) = calls[i].said

\* No call is reported twice, none that failed as a success, and none is forgotten
\* unless its request was cancelled.
OneResult == \A i \in Calls :
    /\ Len(calls[i].results) <= 1
    /\ calls[i].results = <<"ok">> => calls[i].fate = "fine"
    /\ ~cancelled /\ calls[i].at \in {"over", "refused"} /\ wraps[i].at # "runs"
          /\ ~(manager.at = "boot" /\ manager.call = i) => Len(calls[i].results) = 1

\* A request's handler answers, and every goroutine started for it ends.
StreamEnds == handler = "over" /\ pump.at \in {"none", "over"}
              /\ \A i \in Calls : calls[i].at \in {"none", "over", "refused"} /\ wraps[i].at \in {"none", "over"}
EveryStreamEnds == handler # "new" ~> StreamEnds
=============================================================================
