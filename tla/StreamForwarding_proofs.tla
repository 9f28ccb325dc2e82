---------------------- MODULE StreamForwarding_proofs ----------------------
(***************************************************************************)
(* For any number of calls, models of a credential, retries and chunks:    *)
(* every call is reported once and as what it was, what the client is      *)
(* given is one call's stream, whichever channel the peek looks at first,  *)
(* and all of it if the client is told that it is done, where the peek     *)
(* looks for an error first.                                               *)
(*                                                                         *)
(* None is inductive.  What was reported of a call follows from where its  *)
(* chunks are (the bootstrap, the wrapper, discarded: CallOK) and from     *)
(* whose turn it is (TurnsOK); what was written follows from how many      *)
(* payloads have left the call and its wrapper (OrderOK) and from what the *)
(* pump holds (PumpOK); that all was written follows from where an error   *)
(* of the call still is (StreamOK) and from what an end then means (EndOK).*)
(***************************************************************************)
EXTENDS StreamForwarding, Integers, SequenceTheorems, TLAPS

Chunks == [kind : {"data", "blank"} \cup Errors, call : Nat, n : Nat]
ChunkSeq == Seq(Chunks)
Results == Seq({"ok", "failed"})
ManagerType == [at : {"idle", "pick", "check", "call", "boot", "stream", "error", "failed"}, call : Nat,
                pool : Nat, buffered : ChunkSeq, last : Errors \cup {None}, boot : BOOLEAN]
CallType == [at : {"none", "reads", "offer", "over", "refused"}, chunk : Chunks, given : Nat, said : Nat,
             fate : {"open", "fine", "failed"}, results : Results]
WrapType == [at : {"none", "runs", "over"}, rest : ChunkSeq, failed : BOOLEAN]
PumpType == [at : {"none", "take", "give", "retry", "err", "closing", "over"}, source : Nat,
             sent : BOOLEAN, retries : Nat, chunk : Chunks]
TypeOK == /\ manager \in ManagerType /\ pump \in PumpType
          /\ calls \in [Calls -> CallType] /\ wraps \in [Calls -> WrapType]
          /\ drained \subseteq Calls
          /\ written \in ChunkSeq

\* Whose turn it is: ExecuteStream runs while the handler or the pump waits for it.
Active == manager.at \in {"pick", "check", "call", "boot"}
Boots(i) == manager.at = "boot" /\ manager.call = i
TurnsOK ==
    /\ handler = "new" => manager.at = "idle"
    /\ handler \in {"new", "executes"} => pump.at = "none"
    /\ Active => handler = "executes" \/ pump.at = "retry"
    /\ manager.at \in {"call", "boot"} => manager.pool >= 1
    /\ manager.at = "call" => manager.call + manager.pool <= MaxCalls
    /\ manager.at = "boot" => manager.call + manager.pool - 1 <= MaxCalls
    /\ manager.at \in {"boot", "stream"} => manager.call \in Calls
    /\ manager.at \in {"error", "failed"} \/ (pump.at = "take" /\ pump.source = 0) => manager.last # None
    /\ pump.source \in Calls \cup {0} /\ (pump.at = "give" => pump.source # 0)

\* A call is the bootstrap's, its wrapper's, or done with.
CallOK(i) ==
    /\ (calls[i].at = "none") <=> (i > manager.call)
    /\ calls[i].at \in {"none", "refused"} => wraps[i].at = "none" /\ i \notin drained
    /\ calls[i].at \in {"none", "reads"} => calls[i].fate = "open"
    /\ calls[i].at = "offer" => calls[i].fate = IF calls[i].chunk.kind \in Errors THEN "failed" ELSE "open"
    /\ calls[i].at = "none" => calls[i].results = <<>>
    /\ Boots(i) => /\ calls[i].at # "refused" /\ wraps[i].at = "none" /\ i \notin drained
                   /\ calls[i].results = <<>>
                   /\ calls[i].at = "over" => calls[i].fate = "fine"
    /\ wraps[i].at = "runs" =>
          /\ i \notin drained
          /\ calls[i].results = IF wraps[i].failed THEN <<"failed">> ELSE <<>>
          /\ wraps[i].failed => calls[i].at = "over"
          /\ calls[i].at = "over" /\ ~wraps[i].failed => calls[i].fate = "fine"
    /\ ~Boots(i) /\ wraps[i].at # "runs" /\ calls[i].at # "none" =>
          /\ calls[i].results \in {<<"ok">>, <<"failed">>} \/ (cancelled /\ calls[i].results = <<>>)
          /\ calls[i].results = <<"ok">> => calls[i].fate = "fine" /\ calls[i].at = "over"

\* Payloads of call i that its executor has handed over, and its wrapper.
Out(i) == IF calls[i].at = "offer" /\ calls[i].chunk.kind = "data" THEN calls[i].said - 1 ELSE calls[i].said
Data(i, n) == [kind |-> "data", call |-> i, n |-> n]
EndsInData(s) == s # <<>> /\ s[Len(s)].kind = "data"
HandedOn(i) == IF EndsInData(wraps[i].rest) THEN Out(i) - 1 ELSE Out(i)
Blank(s, k) == \A n \in 1 .. k : s[n].kind = "blank"
OrderOK(i) ==
    /\ calls[i].at = "offer" /\ calls[i].chunk.kind = "data" => calls[i].chunk = Data(i, calls[i].said)
    /\ calls[i].at = "none" => calls[i].said = 0
    /\ Boots(i) => Out(i) = 0 /\ Blank(manager.buffered, Len(manager.buffered))
    /\ wraps[i].at = "runs" =>
         /\ Blank(wraps[i].rest, Len(wraps[i].rest) - 1)
         /\ EndsInData(wraps[i].rest) => wraps[i].rest[Len(wraps[i].rest)] = Data(i, Out(i))
         /\ IF pump.source = i
            THEN pump.at \in {"take", "give", "retry"} => HandedOn(i) = Len(written) + (IF pump.at = "give" THEN 1 ELSE 0)
            ELSE HandedOn(i) = 0
PumpOK ==
    /\ ~pump.sent => written = <<>>
    /\ pump.at \in {"none", "retry"} => ~pump.sent
    /\ pump.at = "none" => pump.source = 0
    /\ pump.at = "give" => pump.sent /\ pump.source \in Calls /\ pump.chunk = Data(pump.source, Len(written) + 1)
    /\ pump.sent => pump.source \in Calls
    /\ pump.source \in Calls => wraps[pump.source].at # "none"
    /\ manager.at = "stream" => wraps[manager.call].at # "none"
    /\ pump.at \in {"none", "retry"} /\ manager.at = "stream" => pump.source # manager.call
    /\ \A n \in DOMAIN written : written[n] = Data(pump.source, n)

IInv == TypeOK /\ TurnsOK /\ (\A i \in Calls : CallOK(i))
OInv == IInv /\ PumpOK /\ (\A i \in Calls : OrderOK(i))

\* Errors, empty chunks and payloads are chunks.
LEMMA Chunk ==
  /\ Nothing \in Chunks /\ (\A e \in Errors : Fault(e) \in Chunks)
  /\ \A i, n \in Nat : Data(i, n) \in Chunks
BY DEF Chunks, Nothing, Fault, Data, Errors

\* Sequences of chunks stay such when one is added or taken.
LEMMA ChunkSeqs ==
  /\ <<>> \in ChunkSeq
  /\ \A s \in ChunkSeq, c \in Chunks : Append(s, c) \in ChunkSeq /\ <<c>> \in ChunkSeq
  /\ \A s \in ChunkSeq : s # <<>> => Head(s) \in Chunks /\ Tail(s) \in ChunkSeq
BY DEF ChunkSeq

\* A call whose chunk was taken is a call.
LEMMA TakenType == \A c \in CallType : Taken(c) \in CallType
BY Chunk DEF Taken, CallType

\* So is one a result of which was reported.
LEMMA MarkedType == \A c \in CallType, r \in {"ok", "failed"} : Marked(c, r) \in CallType
<1>1. \A s \in Results, r \in {"ok", "failed"} : Append(s, r) \in Results
  BY DEF Results
<1>2. QED
  BY <1>1 DEF Marked, CallType

\* ExecuteStream, failed, keeps its type,
LEMMA FailType == ASSUME TypeOK, NEW e \in Errors, NEW k \in Nat
                  PROVE Fail(e) \in ManagerType /\ [Fail(e) EXCEPT !.call = k] \in ManagerType
BY DEF Fail, ManagerType, TypeOK

\* and so it does when started,
LEMMA StartedType == ASSUME TypeOK PROVE Started \in ManagerType
BY DEF Started, ManagerType, TypeOK

\* or gone on to the next model or credential.
LEMMA GoOnType ==
  ASSUME TypeOK, manager.pool >= 1, NEW e \in Errors, NEW b \in BOOLEAN, GoOn(e, b)
  PROVE  manager' \in ManagerType
<1>1. manager.call + (IF b THEN 0 ELSE 1) \in Nat /\ manager.pool - 1 \in Nat
  BY DEF TypeOK, ManagerType
<1>2. CASE e = "invalid"
  BY <1>1, <1>2, FailType DEF GoOn
<1>3. CASE e # "invalid"
  BY <1>1, <1>3, ChunkSeqs DEF GoOn, TypeOK, ManagerType
<1>4. QED
  BY <1>2, <1>3

\* A stream handed to its wrapper keeps the types of both.
LEMMA WrapOK ==
  ASSUME TypeOK, NEW i \in Calls, NEW s \in ChunkSeq, Wrap(i, s)
  PROVE  manager' \in ManagerType /\ wraps' \in [Calls -> WrapType]
<1>1. [at |-> "runs", rest |-> s, failed |-> FALSE] \in WrapType
  BY DEF WrapType
<1>2. manager' \in ManagerType
  BY ChunkSeqs DEF Wrap, TypeOK, ManagerType
<1>3. QED
  BY <1>1, <1>2 DEF Wrap, TypeOK

\* Every step preserves the types.
LEMMA TypeStep ==
  ASSUME MaxCalls \in Nat, Models \in Nat, TypeOK, TurnsOK, Next
  PROVE  TypeOK'
<1> USE DEF stream, client
<1> DEFINE FM == UNCHANGED <<pump, errs, cancelled, client>>
<1>1. CASE Pick /\ FM
  <2>1. PICK k \in 1 .. Models : manager' = [manager EXCEPT !.at = "call", !.pool = k]
    BY <1>1 DEF Pick
  <2>2. k \in Nat /\ manager \in ManagerType
    BY DEF TypeOK
  <2>3. manager' \in ManagerType
    BY <2>1, <2>2 DEF ManagerType
  <2>4. QED
    BY <1>1, <2>3 DEF Pick, TypeOK
<1>2. CASE NonePicked /\ FM
  <2>1. manager.last # None => manager.last \in Errors
    BY DEF TypeOK, ManagerType
  <2>2. "passing" \in Errors /\ [manager EXCEPT !.at = "error"] \in ManagerType
    BY DEF Errors, TypeOK, ManagerType
  <2>3. QED
    BY <1>2, <2>1, <2>2, FailType DEF NonePicked, TypeOK
<1>3. CASE Check /\ FM
  <2>1. "passing" \in Errors /\ [manager EXCEPT !.at = "pick"] \in ManagerType
    BY DEF Errors, TypeOK, ManagerType
  <2>2. QED
    BY <1>3, <2>1, FailType DEF Check, TypeOK
<1>4. CASE Refused /\ FM
  <2> DEFINE i == manager.call + 1
  <2>1. i \in Nat /\ i \in Calls /\ manager.pool >= 1
    BY <1>4 DEF Refused, TurnsOK, TypeOK, ManagerType, Calls
  <2>2. [calls[i] EXCEPT !.at = "refused"] \in CallType
    BY <2>1 DEF TypeOK, CallType
  <2>3. manager' \in ManagerType
    BY <1>4, <2>1, GoOnType, FailType DEF Refused
  <2>4. calls' \in [Calls -> CallType]
    BY <1>4, <2>1, <2>2, MarkedType DEF Refused, TypeOK
  <2>5. QED
    BY <1>4, <2>3, <2>4 DEF Refused, TypeOK
<1>5. CASE Accepted /\ FM
  <2> DEFINE i == manager.call + 1
  <2>1. i \in Nat /\ i \in Calls
    BY <1>5 DEF Accepted, TurnsOK, TypeOK, ManagerType, Calls
  <2>2. [calls[i] EXCEPT !.at = "reads"] \in CallType
    BY <2>1 DEF TypeOK, CallType
  <2>3. manager' \in ManagerType
    BY <1>5, <2>1, ChunkSeqs DEF Accepted, TypeOK, ManagerType
  <2>4. QED
    BY <1>5, <2>1, <2>2, <2>3 DEF Accepted, TypeOK
<1>6. CASE Bootstrap /\ FM
  <2> DEFINE i == manager.call
             c == calls[i].chunk
  <2>1. i \in Calls /\ manager.pool >= 1 /\ c \in Chunks /\ calls[i] \in CallType
    BY <1>6 DEF Bootstrap, TurnsOK, TypeOK, CallType
  <2>2. Append(manager.buffered, c) \in ChunkSeq /\ [manager EXCEPT !.buffered = Append(@, c)] \in ManagerType
    BY <2>1, ChunkSeqs DEF TypeOK, ManagerType
  <2>3. Taken(calls[i]) \in CallType /\ Marked(Taken(calls[i]), "failed") \in CallType
    BY <2>1, TakenType, MarkedType
  <2>4. calls' \in [Calls -> CallType]
    BY <1>6, <2>1, <2>3 DEF Bootstrap, TypeOK
  <2>5. manager' \in ManagerType /\ wraps' \in [Calls -> WrapType] /\ drained' \subseteq Calls
    BY <1>6, <2>1, <2>2, WrapOK, GoOnType, FailType DEF Bootstrap, TypeOK, Discard, Wrap
  <2>6. QED
    BY <1>6, <2>4, <2>5 DEF TypeOK
<1>7. CASE BootstrapOver /\ FM
  <2> DEFINE i == manager.call
  <2>1. i \in Calls /\ manager.pool >= 1 /\ calls[i] \in CallType /\ manager.buffered \in ChunkSeq /\ "passing" \in Errors
    BY <1>7 DEF BootstrapOver, TurnsOK, TypeOK, ManagerType, Errors
  <2>2. Marked(calls[i], "failed") \in CallType
    BY <2>1, MarkedType
  <2>3. QED
    BY <1>7, <2>1, <2>2, WrapOK, GoOnType DEF BootstrapOver, TypeOK, Wrap
<1>8. CASE BootstrapLeft /\ FM
  <2>1. "passing" \in Errors /\ manager.call \in Calls
    BY <1>8 DEF BootstrapLeft, TurnsOK, Errors
  <2>2. QED
    BY <1>8, <2>1, FailType DEF BootstrapLeft, Discard, TypeOK
<1>9. ASSUME NEW e \in Errors, PumpFails(e) PROVE manager' \in ManagerType /\ pump' \in PumpType
  <2>1. /\ [pump EXCEPT !.at = "retry", !.retries = @ + 1] \in PumpType
        /\ [pump EXCEPT !.at = "err", !.chunk = Fault(e)] \in PumpType
    <3>1. pump \in PumpType /\ Fault(e) \in Chunks /\ pump.retries + 1 \in Nat
      BY Chunk DEF TypeOK, PumpType
    <3>2. QED
      BY <3>1 DEF PumpType
  <2>2. QED
    BY <1>9, <2>1, StartedType DEF PumpFails, TypeOK
<1>10. CASE ReceiveError /\ UNCHANGED <<cancelled, client>>
  BY <1>9, <1>10 DEF ReceiveError, TurnsOK, TypeOK, ManagerType
<1>11. CASE Receive /\ UNCHANGED <<cancelled, client>>
  <2> DEFINE i == pump.source
             c == Head(wraps[i].rest)
  <2>1. i \in Calls /\ wraps[i] \in WrapType /\ c \in Chunks /\ Tail(wraps[i].rest) \in ChunkSeq /\ "other" \in Errors
    BY <1>11, ChunkSeqs DEF Receive, Emits, TurnsOK, TypeOK, WrapType, Errors
  <2>2. [wraps[i] EXCEPT !.rest = Tail(@)] \in WrapType
    BY <2>1 DEF WrapType
  <2>3. [pump EXCEPT !.at = "give", !.sent = TRUE, !.chunk = c] \in PumpType
        /\ [pump EXCEPT !.at = "err", !.chunk = Fault("other")] \in PumpType
    BY <2>1, Chunk DEF TypeOK, PumpType
  <2>4. manager' \in ManagerType /\ pump' \in PumpType
    BY <1>9, <1>11, <2>3 DEF Receive, TypeOK
  <2>5. wraps' \in [Calls -> WrapType]
    BY <1>11, <2>1, <2>2 DEF Receive, TypeOK
  <2>6. QED
    BY <1>11, <2>4, <2>5 DEF Receive, TypeOK
<1>12. CASE (ReceiveEnd \/ PumpQuit \/ CloseData \/ SendErr) /\ UNCHANGED <<cancelled, client>>
  <2>1. pump' \in PumpType
    BY <1>12, Chunk DEF ReceiveEnd, PumpQuit, CloseData, SendErr, TypeOK, PumpType
  <2>2. QED
    BY <1>12, <2>1 DEF ReceiveEnd, PumpQuit, CloseData, SendErr, TypeOK
<1>13. Source \in Nat
  BY DEF Source, TypeOK, ManagerType
<1>14. CASE Retried /\ UNCHANGED <<cancelled, client>>
  <2>1. manager.at = "failed" => Fault(manager.last) \in Chunks
    BY Chunk DEF TurnsOK, TypeOK, ManagerType
  <2>2. pump' \in PumpType
    BY <1>13, <1>14, <2>1 DEF Retried, TypeOK, PumpType
  <2>3. QED
    BY <1>14, <2>2 DEF Retried, TypeOK
<1>15. CASE Executed
  <2>1. pump' \in PumpType
    BY <1>13, <1>15 DEF Executed, TypeOK, PumpType
  <2>2. QED
    BY <1>15, <2>1 DEF Executed, TypeOK
<1>16. CASE Given
  <2>1. pump.chunk \in Chunks /\ pump' \in PumpType
    BY <1>16, Chunk DEF Given, TypeOK, PumpType
  <2>2. QED
    BY <1>16, <2>1, ChunkSeqs DEF Given, TypeOK
<1>17. CASE HandlerLeft \/ PeekError \/ PeekOver \/ ForwardError \/ ForwardOver \/ Notice \/ Leave
  <2>1. UNCHANGED <<manager, calls, wraps, drained, pump, written>>
    BY <1>17 DEF HandlerLeft, PeekError, PeekOver, ForwardError, ForwardOver, Notice, Leave, Tell
  <2>2. QED
    BY <2>1 DEF TypeOK
<1>18. CASE Ask
  BY <1>18, StartedType DEF Ask, TypeOK
<1>19. ASSUME NEW i \in Calls, Executor(i) PROVE TypeOK'
  <2>1. ASSUME NEW c \in Chunks, Offer(i, c) PROVE calls' \in [Calls -> CallType]
    <3>1. /\ calls[i] \in CallType /\ calls[i].given + 1 \in Nat
          /\ (IF c.kind = "data" THEN c.n ELSE calls[i].said) \in Nat
          /\ (IF c.kind \in Errors THEN "failed" ELSE calls[i].fate) \in {"open", "fine", "failed"}
      BY DEF TypeOK, CallType, Chunks
    <3>2. Offering(calls[i], c) \in CallType
      BY <3>1 DEF Offering, CallType
    <3>3. QED
      BY <2>1, <3>2 DEF Offer, TypeOK
  <2>2. Data(i, calls[i].said + 1) \in Chunks
    BY Chunk DEF TypeOK, CallType, Calls
  <2>3. CASE Ends(i)
    <3>1. calls' \in [Calls -> CallType]
      BY <2>3 DEF Ends, TypeOK, CallType
    <3>2. QED
      BY <1>19, <3>1 DEF Executor, TypeOK
  <2>4. Says(i) \/ Fails(i) => calls' \in [Calls -> CallType]
    BY <2>1, <2>2, Chunk DEF Says, Fails, Data
  <2>5. QED
    BY <1>19, <2>3, <2>4 DEF Executor, TypeOK
<1>20. ASSUME NEW i \in Calls, Drain(i) PROVE TypeOK'
  BY <1>20, TakenType DEF Drain, TypeOK
<1>21. ASSUME NEW i \in Calls, Wrapper(i) PROVE TypeOK'
  <2>1. calls[i].chunk \in Chunks /\ calls[i] \in CallType /\ wraps[i] \in WrapType
    BY DEF TypeOK, CallType
  <2>2. CASE WrapQuit(i)
    <3>1. wraps' \in [Calls -> WrapType]
      BY <2>2, ChunkSeqs DEF WrapQuit, TypeOK, WrapType
    <3>2. QED
      BY <1>21, <2>2, <3>1 DEF Wrapper, WrapQuit, Discard, TypeOK
  <2>3. CASE WrapTake(i) /\ UNCHANGED drained
    <3>1. Taken(calls[i]) \in CallType /\ Marked(Taken(calls[i]), "failed") \in CallType
      BY <2>1, TakenType, MarkedType
    <3>2. wraps' \in [Calls -> WrapType]
      BY <2>1, <2>3, ChunkSeqs DEF WrapTake, TypeOK, WrapType
    <3>3. QED
      BY <1>21, <2>3, <3>1, <3>2 DEF Wrapper, WrapTake, TypeOK
  <2>4. CASE WrapOver(i) /\ UNCHANGED drained
    <3>1. wraps' \in [Calls -> WrapType]
      BY <2>4 DEF WrapOver, TypeOK, WrapType
    <3>2. calls' \in [Calls -> CallType]
      BY <2>1, <2>4, MarkedType DEF WrapOver, TypeOK
    <3>3. QED
      BY <1>21, <2>4, <3>1, <3>2 DEF Wrapper, TypeOK
  <2>5. QED
    BY <1>21, <2>2, <2>3, <2>4 DEF Wrapper
<1>22. QED
  BY <1>1, <1>2, <1>3, <1>4, <1>5, <1>6, <1>7, <1>8, <1>10, <1>11, <1>12, <1>14, <1>15, <1>16, <1>17, <1>18, <1>19, <1>20, <1>21
  DEF Next, Step, Manager, Pump, Handler

\* Every step preserves whose turn it is.
LEMMA TurnsStep ==
  ASSUME MaxCalls \in Nat, Models \in Nat, TypeOK, TurnsOK, Next
  PROVE  TurnsOK'
<1> USE DEF stream, client, Active, None
<1> DEFINE FM == UNCHANGED <<pump, errs, cancelled, client>>
<1>1. CASE Pick /\ FM
  <2>1. PICK k \in 1 .. Models : manager' = [manager EXCEPT !.at = "call", !.pool = k] /\ manager.call + k <= MaxCalls
    BY <1>1 DEF Pick
  <2>2. k \in Nat /\ k >= 1 /\ manager \in ManagerType
    BY DEF TypeOK
  <2>3. manager'.at = "call" /\ manager'.pool = k /\ manager'.call = manager.call /\ manager'.last = manager.last
    BY <2>1, <2>2 DEF ManagerType
  <2>4. QED
    BY <1>1, <2>1, <2>2, <2>3 DEF Pick, TurnsOK
<1>2. CASE NonePicked /\ FM
  BY <1>2 DEF NonePicked, Fail, TurnsOK, TypeOK, ManagerType
<1>3. CASE Check /\ FM
  BY <1>3 DEF Check, Fail, TurnsOK, TypeOK, ManagerType
<1>4. ASSUME NEW e \in Errors, NEW b \in BOOLEAN, GoOn(e, b), FM, manager.at = IF b THEN "boot" ELSE "call"
      PROVE  TurnsOK'
  <2>1. manager \in ManagerType /\ e # "none"
    BY DEF TypeOK, Errors
  <2>2. /\ manager'.at \in {"failed", "call", "check"} /\ manager'.last = e
        /\ manager'.at = "call" => /\ manager'.pool = manager.pool - 1 /\ manager.pool > 1
                                   /\ manager'.call = manager.call + (IF b THEN 0 ELSE 1)
    BY <1>4, <2>1 DEF GoOn, Fail, ManagerType
  <2>3. manager.call \in Nat /\ manager.pool \in Nat
    BY <2>1 DEF ManagerType
  <2>4. QED
    BY <1>4, <2>1, <2>2, <2>3 DEF TurnsOK
<1>5. ASSUME NEW e \in Errors, FM, Active, manager' = Fail(e) \/ \E k : manager' = [Fail(e) EXCEPT !.call = k] PROVE TurnsOK'
  <2>1. manager \in ManagerType /\ e # "none"
    BY DEF TypeOK, Errors
  <2>2. manager'.at = "failed" /\ manager'.last = e
    BY <1>5, <2>1 DEF Fail, ManagerType
  <2>3. QED
    BY <1>5, <2>1, <2>2 DEF TurnsOK
<1>6. CASE Refused /\ FM
  BY <1>4, <1>5, <1>6 DEF Refused
<1>7. CASE Accepted /\ FM
  BY <1>7 DEF Accepted, TurnsOK, TypeOK, ManagerType, Calls
<1>8. ASSUME NEW s, Wrap(manager.call, s), FM, manager.at = "boot" PROVE TurnsOK'
  BY <1>8 DEF Wrap, TurnsOK, TypeOK, ManagerType
<1>9. CASE Bootstrap /\ FM
  <2>1. calls[manager.call].chunk.kind = "blank" => TurnsOK'
    BY <1>9 DEF Bootstrap, TurnsOK, TypeOK, ManagerType, Errors
  <2>2. QED
    BY <1>4, <1>5, <1>8, <1>9, <2>1 DEF Bootstrap
<1>10. CASE BootstrapOver /\ FM
  BY <1>4, <1>8, <1>10 DEF BootstrapOver, Errors
<1>11. CASE BootstrapLeft /\ FM
  BY <1>5, <1>11 DEF BootstrapLeft, Errors
<1>12. ASSUME NEW e \in Errors, PumpFails(e), pump.at = "take", UNCHANGED client PROVE TurnsOK'
  BY <1>12 DEF PumpFails, Started, TurnsOK, TypeOK, ManagerType, PumpType
<1>13. CASE ReceiveError /\ UNCHANGED client
  BY <1>12, <1>13 DEF ReceiveError, TurnsOK, TypeOK, ManagerType
<1>14. CASE Receive /\ UNCHANGED client
  <2>1. CASE PumpFails(Head(wraps[pump.source].rest).kind) /\ Head(wraps[pump.source].rest).kind \in Errors
    BY <1>12, <1>14, <2>1 DEF Receive
  <2>2. CASE UNCHANGED manager /\ (pump' = pump \/ (pump'.at \in {"give", "err"} /\ pump'.source = pump.source))
    BY <1>14, <2>2 DEF Receive, TurnsOK, TypeOK, PumpType
  <2>3. QED
    BY <1>14, <2>1, <2>2 DEF Receive, TypeOK, PumpType
<1>15. CASE (ReceiveEnd \/ PumpQuit \/ SendErr \/ CloseData) /\ UNCHANGED client
  BY <1>15 DEF ReceiveEnd, PumpQuit, SendErr, CloseData, TurnsOK, TypeOK, PumpType
<1>16. CASE Retried /\ UNCHANGED client
  <2>1. pump \in PumpType /\ (Source = 0 => manager.at # "stream") /\ (manager.at = "stream" => Source \in Calls)
        /\ (manager.at # "stream" => Source = 0)
    BY DEF Source, TurnsOK, TypeOK, Calls
  <2>2. UNCHANGED manager /\ manager.at \in {"stream", "error", "failed"} /\ handler' # "new" /\ handler' # "executes"
    BY <1>16 DEF Retried, TurnsOK
  <2>3. pump'.at \in {"take", "err"} \/ (pump' = pump)
    BY <1>16, <2>1 DEF Retried, PumpType
  <2>4. pump'.at = "take" => pump'.source = Source
    BY <1>16, <2>1 DEF Retried, PumpType, TurnsOK
  <2>5. pump'.at # "take" => pump'.source = pump.source
    BY <1>16, <2>1 DEF Retried, PumpType, TurnsOK
  <2>6. QED
    BY <2>1, <2>2, <2>3, <2>4, <2>5 DEF TurnsOK
<1>17. CASE Executed
  <2>1. pump \in PumpType /\ (Source = 0 => manager.at # "stream") /\ (manager.at = "stream" => Source \in Calls)
        /\ (manager.at # "stream" => Source = 0)
    BY DEF Source, TurnsOK, TypeOK, Calls
  <2>2. UNCHANGED manager /\ manager.at \in {"stream", "error", "failed"} /\ handler' # "new" /\ handler' # "executes"
    BY <1>17 DEF Executed, TurnsOK
  <2>3. pump'.at \in {"take", "err"} \/ (pump' = pump)
    BY <1>17, <2>1 DEF Executed, PumpType
  <2>4. pump'.at = "take" => pump'.source = Source
    BY <1>17, <2>1 DEF Executed, PumpType, TurnsOK
  <2>5. pump'.at # "take" => pump'.source = pump.source
    BY <1>17, <2>1 DEF Executed, PumpType, TurnsOK
  <2>6. QED
    BY <2>1, <2>2, <2>3, <2>4, <2>5 DEF TurnsOK
<1>18. CASE Given
  <2>1. pump'.at = "take" /\ pump'.source = pump.source /\ UNCHANGED manager /\ handler' = "forwards"
    BY <1>18 DEF Given, TypeOK, PumpType
  <2>2. QED
    BY <1>18, <2>1 DEF Given, TurnsOK
<1>19. CASE HandlerLeft \/ PeekError \/ PeekOver \/ ForwardError \/ ForwardOver
  BY <1>19 DEF HandlerLeft, PeekError, PeekOver, ForwardError, ForwardOver, Tell, TurnsOK
<1>20. CASE Notice \/ Leave
  BY <1>20 DEF Notice, Leave, TurnsOK
<1>21. CASE Ask
  BY <1>21 DEF Ask, Started, TurnsOK, TypeOK, ManagerType
<1>22. CASE \E i \in Calls : Executor(i) \/ Drain(i) \/ Wrapper(i)
  BY <1>22 DEF Executor, Drain, Wrapper, TurnsOK
<1>23. QED
  BY <1>1, <1>2, <1>3, <1>6, <1>7, <1>9, <1>10, <1>11, <1>13, <1>14, <1>15, <1>16, <1>17, <1>18, <1>19, <1>20, <1>21, <1>22
  DEF Next, Step, Manager, Pump, Handler

-----------------------------------------------------------------------------
\* What CallOK says of a call depends on this call, its wrapper and its part of
\* the manager, and survives the request's cancellation.
LEMMA CallFrame ==
  ASSUME NEW i \in Calls, CallOK(i), calls'[i] = calls[i], wraps'[i] = wraps[i], i \in drained' <=> i \in drained,
         Boots(i)' <=> Boots(i), i > manager'.call <=> i > manager.call, cancelled => cancelled'
  PROVE  CallOK(i)'
BY DEF CallOK

\* What Taken, Marked and Offering change of a call.
LEMMA Fields ==
  ASSUME NEW c \in CallType
  PROVE  /\ Taken(c).at = (IF c.chunk.kind \in Errors THEN "over" ELSE "reads")
         /\ Taken(c).fate = c.fate /\ Taken(c).results = c.results /\ Taken(c).said = c.said
         /\ \A r : /\ Marked(c, r).at = c.at /\ Marked(c, r).fate = c.fate /\ Marked(c, r).said = c.said
                   /\ Marked(c, r).chunk = c.chunk /\ Marked(c, r).results = Append(c.results, r)
         /\ \A d \in Chunks : /\ Offering(c, d).at = "offer" /\ Offering(c, d).chunk = d
                              /\ Offering(c, d).results = c.results
                              /\ Offering(c, d).said = (IF d.kind = "data" THEN d.n ELSE c.said)
                              /\ Offering(c, d).fate = (IF d.kind \in Errors THEN "failed" ELSE c.fate)
BY DEF Taken, Marked, Offering, CallType

\* Where ExecuteStream is after it failed, went on, or returned a stream.
LEMMA ManagerMoves ==
  ASSUME TypeOK
  PROVE  /\ \A e : Fail(e).at = "failed" /\ Fail(e).call = manager.call
                   /\ \A k : [Fail(e) EXCEPT !.call = k].at = "failed" /\ [Fail(e) EXCEPT !.call = k].call = k
         /\ \A e : GoOn(e, TRUE) => manager'.at # "boot" /\ manager'.call = manager.call
         /\ \A e : GoOn(e, FALSE) => manager'.at # "boot" /\ manager'.call = manager.call + 1
         /\ \A i, s : Wrap(i, s) => manager'.at = "stream" /\ manager'.call = manager.call
         /\ Started.at = "pick" /\ Started.call = manager.call
<1>1. manager \in ManagerType
  BY DEF TypeOK
<1>2. \A e : /\ Fail(e).at = "failed" /\ Fail(e).call = manager.call
             /\ \A k : [Fail(e) EXCEPT !.call = k].at = "failed" /\ [Fail(e) EXCEPT !.call = k].call = k
  BY <1>1 DEF Fail, ManagerType
<1>3. ASSUME NEW e, GoOn(e, TRUE) PROVE manager'.at # "boot" /\ manager'.call = manager.call
  <2>1. CASE e = "invalid"
    BY <1>1, <1>2, <1>3, <2>1 DEF GoOn, ManagerType
  <2>2. CASE e # "invalid"
    BY <1>1, <1>3, <2>2 DEF GoOn, ManagerType
  <2>3. QED
    BY <2>1, <2>2
<1>4. ASSUME NEW e, GoOn(e, FALSE) PROVE manager'.at # "boot" /\ manager'.call = manager.call + 1
  <2>1. CASE e = "invalid"
    BY <1>1, <1>2, <1>4, <2>1 DEF GoOn, ManagerType
  <2>2. CASE e # "invalid"
    BY <1>1, <1>4, <2>2 DEF GoOn, ManagerType
  <2>3. QED
    BY <2>1, <2>2
<1>5. /\ \A i, s : Wrap(i, s) => manager'.at = "stream" /\ manager'.call = manager.call
      /\ Started.at = "pick" /\ Started.call = manager.call
  BY <1>1 DEF Wrap, Started, ManagerType
<1>6. QED
  BY <1>2, <1>3, <1>4, <1>5

\* Every step preserves what is known of each call.
LEMMA CallStep ==
  ASSUME MaxCalls \in Nat, Models \in Nat, IInv, Next, NEW i \in Calls
  PROVE  CallOK(i)'
<1> USE DEF stream, client, Boots
<1> DEFINE FM == UNCHANGED <<pump, errs, cancelled, client>>
<1>0. /\ TypeOK /\ TurnsOK /\ CallOK(i) /\ manager \in ManagerType /\ manager.call \in Nat /\ i \in Nat
      /\ calls[i] \in CallType /\ calls \in [Calls -> CallType] /\ wraps[i] \in WrapType
      /\ wraps \in [Calls -> WrapType] /\ drained \subseteq Calls
  BY DEF IInv, TypeOK, ManagerType, Calls
<1>1. CASE (Pick \/ NonePicked \/ Check) /\ FM
  <2>1. CASE Pick
    <3>1. PICK k : manager' = [manager EXCEPT !.at = "call", !.pool = k]
      BY <2>1 DEF Pick
    <3>2. manager'.call = manager.call /\ manager'.at # "boot" /\ manager.at # "boot"
      BY <1>0, <2>1, <3>1 DEF Pick, ManagerType
    <3>3. QED
      BY <1>0, <1>1, <2>1, <3>2, CallFrame DEF Pick
  <2>2. CASE NonePicked \/ Check
    <3>1. manager'.call = manager.call /\ manager'.at # "boot" /\ manager.at # "boot"
      BY <1>0, <2>2 DEF NonePicked, Check, Fail, ManagerType
    <3>2. QED
      BY <1>0, <1>1, <2>2, <3>1, CallFrame DEF NonePicked, Check
  <2>3. QED
    BY <1>1, <2>1, <2>2
<1>2. CASE (Refused \/ Accepted) /\ FM
  <2> DEFINE k == manager.call + 1
  <2>1. k \in Calls /\ manager.at = "call" /\ k > manager.call /\ calls[k] \in CallType
    <3>1. manager.at = "call"
      BY <1>2, Zenon DEF Refused, Accepted
    <3>2. k \in Calls /\ k > manager.call
      <4>1. manager.pool \in Nat
        BY <1>0 DEF ManagerType
      <4>2. QED
        BY <1>0, <3>1, <4>1 DEF TurnsOK, Calls
    <3>3. QED
      BY <1>0, <3>1, <3>2
  <2>2. manager'.call = k /\ manager'.at = (IF Accepted THEN "boot" ELSE manager'.at)
        /\ (manager'.at = "boot" => Accepted) /\ UNCHANGED <<wraps, drained, cancelled>>
    <3>1. CASE Refused
      <4>1. manager'.call = k /\ manager'.at # "boot"
        <5>1. CASE cancelled
          <6>1. PICK e : manager' = [Fail(e) EXCEPT !.call = k]
            BY <3>1, <5>1 DEF Refused
          <6>2. QED
            BY <1>0, <6>1, ManagerMoves
        <5>2. CASE ~cancelled
          BY <1>0, <3>1, <5>2, ManagerMoves DEF Refused
        <5>3. QED
          BY <5>1, <5>2
      <4>2. ~Accepted
        BY <1>0, <4>1 DEF Accepted, ManagerType
      <4>3. QED
        BY <1>2, <3>1, <4>1, <4>2 DEF Refused
    <3>2. CASE Accepted
      BY <1>0, <1>2, <2>1, <3>2 DEF Accepted, ManagerType
    <3>3. QED
      BY <1>2, <3>1, <3>2
  <2>3. CASE i = k
    <3>1. calls[k].at = "none" /\ calls[k].results = <<>> /\ calls[k].fate = "open"
          /\ wraps[k].at = "none" /\ k \notin drained /\ ~(k > manager'.call)
      BY <1>0, <2>1, <2>2, <2>3 DEF CallOK
    <3>2. CASE Refused
      <4>1. [calls[k] EXCEPT !.at = "refused"] \in CallType
        BY <2>1 DEF CallType
      <4>2. calls'[k] = (IF cancelled THEN [calls[k] EXCEPT !.at = "refused"]
                         ELSE Marked([calls[k] EXCEPT !.at = "refused"], "failed"))
        BY <1>0, <2>1, <3>2 DEF Refused
      <4>3. /\ calls'[k].at = "refused" /\ calls'[k].fate = "open"
            /\ calls'[k].results = (IF cancelled THEN <<>> ELSE <<"failed">>)
        BY <2>1, <3>1, <4>1, <4>2, Fields DEF CallType
      <4>4. manager'.at # "boot"
        <5>1. CASE cancelled
          BY <1>0, <3>2, <5>1, ManagerMoves DEF Refused
        <5>2. CASE ~cancelled
          BY <1>0, <3>2, <5>2, ManagerMoves DEF Refused
        <5>3. QED
          BY <5>1, <5>2
      <4>5. QED
        BY <2>2, <2>3, <3>1, <4>3, <4>4 DEF CallOK
    <3>3. CASE Accepted
      <4>1. calls'[k].at = "reads" /\ calls'[k].fate = "open" /\ calls'[k].results = <<>>
        BY <1>0, <2>1, <3>1, <3>3 DEF Accepted, CallType
      <4>2. QED
        BY <2>2, <2>3, <3>1, <3>3, <4>1 DEF CallOK
    <3>4. QED
      BY <1>2, <3>2, <3>3
  <2>4. CASE i # k
    <3>1. calls'[i] = calls[i]
      BY <1>0, <1>2, <2>4 DEF Refused, Accepted
    <3>2. (i > manager'.call <=> i > manager.call) /\ ~Boots(i) /\ ~Boots(i)'
      BY <1>0, <2>1, <2>2, <2>4
    <3>3. QED
      BY <1>0, <2>2, <3>1, <3>2, CallFrame
  <2>5. QED
    BY <2>3, <2>4
<1>3. CASE (Bootstrap \/ BootstrapOver \/ BootstrapLeft) /\ FM
  <2> DEFINE k == manager.call
             c == calls[k].chunk
  <2>1. k \in Calls /\ manager.at = "boot" /\ manager'.call = k
    <3>1. k \in Calls /\ manager.at = "boot"
      BY <1>0, <1>3 DEF Bootstrap, BootstrapOver, BootstrapLeft, TurnsOK
    <3>2. Bootstrap => manager'.call = k
      <4>1. [manager EXCEPT !.buffered = Append(@, c)].call = k
        BY <1>0 DEF ManagerType
      <4>2. ASSUME Bootstrap PROVE \/ \E s : Wrap(k, s)
                                  \/ manager' = [manager EXCEPT !.buffered = Append(@, c)]
                                  \/ \E e : manager' = Fail(e) \/ GoOn(e, TRUE)
        BY <4>2 DEF Bootstrap
      <4>3. QED
        BY <1>0, <4>1, <4>2, ManagerMoves
    <3>3. BootstrapOver \/ BootstrapLeft => manager'.call = k
      BY <1>0, ManagerMoves DEF BootstrapOver, BootstrapLeft
    <3>4. QED
      BY <1>3, <3>1, <3>2, <3>3
  <2>2. CASE i # k
    <3>1. calls'[i] = calls[i] /\ wraps'[i] = wraps[i] /\ (i \in drained' <=> i \in drained) /\ UNCHANGED cancelled
      BY <1>0, <1>3, <2>1, <2>2 DEF Bootstrap, BootstrapOver, BootstrapLeft, Wrap, Discard
    <3>2. QED
      BY <1>0, <2>1, <2>2, <3>1, CallFrame
  <2>3. CASE i = k
    <3>0. /\ Boots(k) /\ calls[k].results = <<>> /\ wraps[k].at = "none" /\ k \notin drained /\ ~(k > manager'.call)
          /\ calls[k] \in CallType /\ Taken(calls[k]) \in CallType /\ CallOK(k)
      BY <1>0, <2>1, <2>3, TakenType DEF CallOK
    <3>1. CASE c.kind = "data" /\ Bootstrap
      <4>1. /\ calls'[k] = Taken(calls[k]) /\ manager'.at = "stream" /\ drained' = drained
            /\ calls[k].at = "offer" /\ c.kind \notin Errors
            /\ wraps'[k] = [at |-> "runs", rest |-> Append(manager.buffered, c), failed |-> FALSE]
        BY <1>0, <1>3, <2>1, <3>1, ManagerMoves DEF Bootstrap, Wrap, Errors
      <4>2. QED
        BY <2>3, <3>0, <4>1, Fields DEF CallOK
    <3>2. CASE c.kind = "blank" /\ Bootstrap
      <4>1. /\ calls'[k] = Taken(calls[k]) /\ manager'.at = "boot" /\ drained' = drained
            /\ wraps' = wraps /\ calls[k].at = "offer" /\ c.kind \notin Errors
        BY <1>0, <1>3, <2>1, <3>2 DEF Bootstrap, ManagerType, Errors
      <4>2. QED
        BY <2>1, <2>3, <3>0, <4>1, Fields DEF CallOK
    <3>3. CASE c.kind \in Errors /\ Bootstrap
      <4>1. /\ calls'[k] = (IF cancelled THEN Taken(calls[k]) ELSE Marked(Taken(calls[k]), "failed"))
            /\ manager'.at # "boot" /\ wraps' = wraps /\ calls[k].at = "offer" /\ cancelled' = cancelled
        BY <1>0, <1>3, <2>1, <3>3, ManagerMoves DEF Bootstrap, Errors
      <4>2. QED
        BY <2>3, <3>0, <3>3, <4>1, Fields DEF CallOK
    <3>4. CASE BootstrapOver
      <4>1. CASE manager.buffered = <<>>
        <5>1. /\ calls'[k] = Marked(calls[k], "failed") /\ manager'.at # "boot" /\ wraps' = wraps
              /\ calls[k].at = "over" /\ drained' = drained
          BY <1>0, <1>3, <2>1, <3>4, <4>1, ManagerMoves DEF BootstrapOver
        <5>2. QED
          BY <2>3, <3>0, <5>1, Fields DEF CallOK
      <4>2. CASE manager.buffered # <<>>
        <5>1. calls' = calls /\ calls[k].at = "over" /\ Wrap(k, manager.buffered)
          BY <3>4, <4>2 DEF BootstrapOver
        <5>2. /\ manager'.at = "stream" /\ drained' = drained
              /\ wraps'[k] = [at |-> "runs", rest |-> manager.buffered, failed |-> FALSE]
          BY <1>0, <2>1, <5>1, ManagerMoves DEF Wrap
        <5>3. QED
          BY <2>3, <3>0, <5>1, <5>2 DEF CallOK
      <4>3. QED
        BY <4>1, <4>2
    <3>5. CASE BootstrapLeft
      <4>1. /\ calls' = calls /\ manager'.at = "failed" /\ wraps' = wraps /\ cancelled /\ cancelled'
        BY <1>0, <1>3, <3>5, ManagerMoves DEF BootstrapLeft
      <4>2. calls[k].at # "none" /\ calls[k].at # "refused"
        BY <1>0, <3>0, <2>1 DEF CallOK
      <4>3. QED
        BY <2>3, <3>0, <4>1, <4>2 DEF CallOK
    <3>6. QED
      BY <1>3, <3>1, <3>2, <3>3, <3>4, <3>5 DEF Bootstrap
  <2>4. QED
    BY <2>2, <2>3
<1>4. CASE Pump
  <2>1. UNCHANGED <<calls, drained, cancelled>>
    BY <1>4 DEF Pump, ReceiveError, Receive, ReceiveEnd, Retried, PumpQuit, SendErr, CloseData
  <2>2. manager'.call = manager.call /\ (manager' = manager \/ (manager.at # "boot" /\ manager'.at # "boot"))
    <3>1. pump.at = "take" => manager.at # "boot"
      BY <1>0 DEF TurnsOK, Active
    <3>2. CASE ReceiveError \/ Receive
      BY <1>0, <3>1, <3>2, ManagerMoves DEF ReceiveError, Receive, PumpFails
    <3>3. CASE ReceiveEnd \/ Retried \/ PumpQuit \/ SendErr \/ CloseData
      <4>1. UNCHANGED stream
        BY <3>3, Zenon DEF ReceiveEnd, Retried, PumpQuit, SendErr, CloseData
      <4>2. QED
        BY <4>1
    <3>4. QED
      BY <1>4, <3>2, <3>3 DEF Pump
  <2>3. wraps'[i].at = wraps[i].at /\ wraps'[i].failed = wraps[i].failed
    BY <1>0, <1>4 DEF Pump, ReceiveError, Receive, ReceiveEnd, Retried, PumpQuit, SendErr, CloseData, WrapType
  <2>4. QED
    BY <1>0, <2>1, <2>2, <2>3 DEF CallOK
<1>5. CASE Handler \/ Notice \/ Leave
  <2>1. UNCHANGED <<manager, calls, wraps, drained>> /\ (cancelled => cancelled')
    BY <1>5 DEF Handler, Executed, HandlerLeft, Given, PeekError, PeekOver, ForwardError, ForwardOver, Tell, Notice, Leave
  <2>2. QED
    BY <1>0, <2>1, CallFrame
<1>6. CASE Ask
  <2>1. manager'.call = manager.call /\ manager.at # "boot" /\ manager'.at # "boot"
    BY <1>0, <1>6, ManagerMoves DEF Ask, TurnsOK
  <2>2. QED
    BY <1>0, <1>6, <2>1, CallFrame DEF Ask
<1>7. ASSUME NEW k \in Calls, Executor(k) \/ Drain(k) \/ Wrapper(k), i # k PROVE CallOK(i)'
  <2>1. calls'[i] = calls[i] /\ wraps'[i] = wraps[i] /\ (i \in drained' <=> i \in drained) /\ UNCHANGED <<manager, cancelled>>
    BY <1>0, <1>7 DEF Executor, Says, Fails, Ends, Offer, Drain, Wrapper, WrapQuit, WrapTake, WrapOver, Discard
  <2>2. QED
    BY <1>0, <2>1, CallFrame
<1>8. CASE Executor(i)
  <2>1. /\ calls[i].at = "reads" /\ UNCHANGED <<manager, wraps, drained, cancelled>>
        /\ \/ \E c \in Chunks : calls'[i] = Offering(calls[i], c)
           \/ calls'[i].at = "over" /\ calls'[i].fate = "fine" /\ calls'[i].results = calls[i].results
    <3>1. Data(i, calls[i].said + 1) \in Chunks
      BY <1>0, Chunk DEF CallType
    <3>2. QED
      BY <1>0, <1>8, <3>1, Chunk DEF Executor, Says, Fails, Ends, Offer, Data, CallType
  <2>2. CASE \E c \in Chunks : calls'[i] = Offering(calls[i], c)
    BY <1>0, <2>1, <2>2, Fields DEF CallOK
  <2>3. CASE calls'[i].at = "over" /\ calls'[i].fate = "fine" /\ calls'[i].results = calls[i].results
    BY <1>0, <2>1, <2>3 DEF CallOK
  <2>4. QED
    BY <2>1, <2>2, <2>3
<1>9. CASE Drain(i)
  <2>1. calls'[i] = Taken(calls[i]) /\ UNCHANGED <<manager, wraps, drained, cancelled>> /\ i \in drained /\ calls[i].at = "offer"
    BY <1>0, <1>9 DEF Drain
  <2>2. QED
    BY <1>0, <2>1, Fields DEF CallOK
<1>10. CASE Wrapper(i)
  <2>0. wraps[i].at = "runs" /\ ~Boots(i) /\ UNCHANGED <<manager, cancelled>>
    BY <1>0, <1>10 DEF Wrapper, WrapQuit, Emits, CallOK
  <2>1. CASE WrapQuit(i)
    <3>1. wraps'[i].at = "over" /\ calls' = calls /\ cancelled
      BY <1>0, <2>1 DEF WrapQuit, WrapType
    <3>2. QED
      BY <1>0, <2>0, <3>1 DEF CallOK
  <2>2. CASE WrapTake(i) /\ calls[i].at = "offer" /\ UNCHANGED drained
    <3>1. /\ wraps'[i].at = "runs" /\ wraps'[i].failed = (wraps[i].failed \/ calls[i].chunk.kind \in Errors)
          /\ calls'[i] = (IF calls[i].chunk.kind \in Errors /\ ~wraps[i].failed
                         THEN Marked(Taken(calls[i]), "failed") ELSE Taken(calls[i]))
      BY <1>0, <2>0, <2>2 DEF WrapTake, WrapType
    <3>2. ~wraps[i].failed /\ calls[i].results = <<>> /\ Taken(calls[i]) \in CallType
      BY <1>0, <2>0, <2>2, TakenType DEF CallOK
    <3>3. CASE calls[i].chunk.kind \in Errors
      <4>1. /\ calls'[i].at = "over" /\ calls'[i].results = <<"failed">> /\ calls'[i].fate = "failed"
        <5>1. Append(<<>>, "failed") = <<"failed">> /\ Taken(calls[i]).at = "over" /\ calls[i].fate = "failed"
          BY <1>0, <2>2, <3>3, Fields DEF CallOK
        <5>2. QED
          BY <1>0, <3>1, <3>2, <3>3, <5>1, Fields
      <4>2. wraps'[i].at = "runs" /\ wraps'[i].failed
        BY <3>1, <3>3, Zenon
      <4>3. QED
        BY <1>0, <2>0, <2>2, <4>1, <4>2 DEF CallOK
    <3>4. CASE calls[i].chunk.kind \notin Errors
      <4>1. /\ calls'[i].at = "reads" /\ calls'[i].results = <<>> /\ calls'[i].fate = "open"
        BY <1>0, <2>2, <3>1, <3>2, <3>4, Fields DEF CallOK
      <4>2. wraps'[i].at = "runs" /\ ~wraps'[i].failed
        BY <3>1, <3>2, <3>4, Zenon
      <4>3. QED
        BY <1>0, <2>0, <2>2, <4>1, <4>2 DEF CallOK
    <3>5. QED
      BY <3>3, <3>4
  <2>3. CASE WrapOver(i) /\ calls[i].at = "over" /\ UNCHANGED drained
    <3>1. wraps'[i].at = "over" /\ calls'[i] = (IF wraps[i].failed THEN calls[i] ELSE Marked(calls[i], "ok"))
      BY <1>0, <2>3 DEF WrapOver, WrapType
    <3>2. QED
      BY <1>0, <2>0, <2>3, <3>1, Fields DEF CallOK
  <2>4. QED
    BY <1>10, <2>1, <2>2, <2>3 DEF Wrapper
<1>11. QED
  BY <1>1, <1>2, <1>3, <1>4, <1>5, <1>6, <1>7, <1>8, <1>9, <1>10 DEF Next, Step, Manager

\* All invariants hold at the beginning.
LEMMA Initially ==
  ASSUME MaxCalls \in Nat, Init
  PROVE  OInv
<1>1. TypeOK
  <2>1. manager \in ManagerType
    BY ChunkSeqs DEF Init, ManagerType, None
  <2>2. pump \in PumpType
    BY Chunk DEF Init, PumpType
  <2>3. calls \in [Calls -> CallType]
    BY Chunk DEF Init, CallType, Results
  <2>4. wraps \in [Calls -> WrapType] /\ written \in ChunkSeq
    BY ChunkSeqs DEF Init, WrapType
  <2>5. QED
    BY <2>1, <2>2, <2>3, <2>4 DEF Init, TypeOK
<1>2. TurnsOK /\ PumpOK
  BY DEF Init, TurnsOK, PumpOK, Active, Calls
<1>3. \A i \in Calls : CallOK(i) /\ OrderOK(i)
  BY DEF Init, CallOK, OrderOK, Boots, Out, Calls, Nothing
<1>4. QED
  BY <1>1, <1>2, <1>3 DEF IInv, OInv

\* The invariant of the results is inductive.
LEMMA ResultsStep ==
  ASSUME MaxCalls \in Nat, Models \in Nat, IInv, [Next]_vars
  PROVE  IInv'
<1>1. CASE Next
  <2>1. TypeOK' /\ TurnsOK'
    BY <1>1, TypeStep, TurnsStep DEF IInv
  <2>2. \A i \in Calls : CallOK(i)'
    BY <1>1, CallStep
  <2>3. QED
    BY <2>1, <2>2 DEF IInv
<1>2. CASE UNCHANGED vars
  BY <1>2 DEF vars, stream, client, IInv, TypeOK, TurnsOK, CallOK, Active, Boots
<1>3. QED
  BY <1>1, <1>2

\* It implies the property.
LEMMA ResultsFollow ==
  ASSUME IInv
  PROVE  OneResult
<1> SUFFICES ASSUME NEW i \in Calls
             PROVE  /\ Len(calls[i].results) <= 1
                    /\ calls[i].results = <<"ok">> => calls[i].fate = "fine"
                    /\ ~cancelled /\ calls[i].at \in {"over", "refused"} /\ wraps[i].at # "runs" /\ ~Boots(i)
                          => Len(calls[i].results) = 1
  BY DEF OneResult, Boots
<1>1. CallOK(i) /\ wraps[i] \in WrapType
  BY DEF IInv, TypeOK
<1>2. Len(<<>>) = 0 /\ Len(<<"ok">>) = 1 /\ Len(<<"failed">>) = 1
  OBVIOUS
<1>3. calls[i].results \in {<<>>, <<"ok">>, <<"failed">>}
  BY <1>1 DEF CallOK
<1>4. calls[i].results = <<"ok">> => calls[i].fate = "fine"
  BY <1>1 DEF CallOK
<1>5. ~cancelled /\ calls[i].at # "none" /\ wraps[i].at # "runs" /\ ~Boots(i) => calls[i].results # <<>>
  BY <1>1 DEF CallOK
<1>6. /\ Len(calls[i].results) <= 1
      /\ calls[i].results # <<>> => Len(calls[i].results) = 1
  <2>1. CASE calls[i].results = <<>>
    BY <1>2, <2>1
  <2>2. CASE calls[i].results = <<"ok">>
    BY <1>2, <2>2
  <2>3. CASE calls[i].results = <<"failed">>
    BY <1>2, <2>3
  <2>4. QED
    BY <1>3, <2>1, <2>2, <2>3
<1>7. QED
  BY <1>4, <1>5, <1>6

(* For any number of calls, models, retries and chunks: each call's result *)
(* is reported once, and as a success only if the call did not fail.       *)
THEOREM ResultsReportedOnce ==
  ASSUME MaxCalls \in Nat, Models \in Nat
  PROVE  Spec => []OneResult
<1>1. Init => IInv
  BY Initially DEF OInv
<1>2. IInv /\ [Next]_vars => IInv'
  BY ResultsStep
<1>3. IInv => OneResult
  BY ResultsFollow
<1>4. QED
  BY <1>1, <1>2, <1>3, PTL DEF Spec

-----------------------------------------------------------------------------
\* What OrderOK says depends on what was handed over and on, and on the pump.
LEMMA OrderFrame ==
  ASSUME NEW i \in Calls, OrderOK(i), wraps'[i] = wraps[i], Out(i)' = Out(i),
         calls'[i].at = "offer" /\ calls'[i].chunk.kind = "data" => calls'[i].chunk = Data(i, calls'[i].said),
         calls'[i].at = "none" => calls'[i].said = 0,
         Boots(i)' => Boots(i) /\ manager'.buffered = manager.buffered,
         pump'.source = i <=> pump.source = i,
         pump.source = i => written' = written /\ (\/ pump'.at = pump.at
                                                   \/ pump'.at \notin {"take", "give", "retry"})
  PROVE  OrderOK(i)'
<1>1. HandedOn(i)' = HandedOn(i)
  BY DEF HandedOn, EndsInData
<1>2. QED
  BY <1>1 DEF OrderOK, EndsInData, Blank

\* A step that hands nothing over preserves OrderOK.
LEMMA SameOrder ==
  ASSUME NEW i \in Calls, OrderOK(i), wraps'[i] = wraps[i], calls'[i] = calls[i],
         Boots(i)' => Boots(i) /\ manager'.buffered = manager.buffered,
         pump'.source = i <=> pump.source = i,
         pump.source = i => written' = written /\ (\/ pump'.at = pump.at
                                                   \/ pump'.at \notin {"take", "give", "retry"})
  PROVE  OrderOK(i)'
<1>1. Out(i)' = Out(i)
  BY DEF Out
<1>2. QED
  BY <1>1, OrderFrame DEF OrderOK

\* A bootstrap that ends hands over at most one payload, the last.
LEMMA ManagerOrder ==
  ASSUME MaxCalls \in Nat, Models \in Nat, OInv, Manager, NEW i \in Calls
  PROVE  OrderOK(i)'
<1> USE DEF Boots
<1>0. /\ TypeOK /\ TurnsOK /\ CallOK(i) /\ OrderOK(i) /\ PumpOK /\ manager \in ManagerType /\ manager.call \in Nat
      /\ calls[i] \in CallType /\ calls \in [Calls -> CallType] /\ wraps[i] \in WrapType
      /\ wraps \in [Calls -> WrapType] /\ UNCHANGED <<pump, written>> /\ manager.buffered \in ChunkSeq
  BY DEF OInv, IInv, TypeOK, ManagerType, Manager, client
<1>1. CASE manager.at # "boot" /\ manager'.at # "boot" /\ wraps' = wraps /\ calls'[i] = calls[i]
  BY <1>0, <1>1, SameOrder
<1>2. CASE Pick \/ NonePicked \/ Check
  <2>1. wraps' = wraps /\ calls' = calls /\ manager.at # "boot"
    BY <1>2 DEF Pick, NonePicked, Check
  <2>2. manager'.at # "boot"
    BY <1>0, <1>2, ManagerMoves DEF Pick, NonePicked, Check, ManagerType
  <2>3. QED
    BY <1>1, <2>1, <2>2
<1>3. CASE Refused
  <2> DEFINE k == manager.call + 1
  <2>1. wraps' = wraps /\ manager.at = "call" /\ (i # k => calls'[i] = calls[i])
    BY <1>0, <1>3 DEF Refused
  <2>2. manager'.at # "boot"
    <3>1. CASE cancelled
      <4>1. PICK e : manager' = [Fail(e) EXCEPT !.call = k]
        BY <1>3, <3>1 DEF Refused
      <4>2. QED
        BY <1>0, <4>1, ManagerMoves
    <3>2. CASE ~cancelled
      BY <1>0, <1>3, <3>2, ManagerMoves DEF Refused
    <3>3. QED
      BY <3>1, <3>2
  <2>3. CASE i = k
    <3>1. wraps[i].at = "none"
      BY <1>0, <2>3 DEF CallOK
    <3>2. [calls[k] EXCEPT !.at = "refused"] \in CallType
      BY <1>0, <2>3 DEF CallType
    <3>3. calls'[i].at = "refused"
      <4>1. \/ calls'[i] = [calls[k] EXCEPT !.at = "refused"]
            \/ calls'[i] = Marked([calls[k] EXCEPT !.at = "refused"], "failed")
        BY <1>0, <1>3, <2>3 DEF Refused
      <4>2. QED
        BY <1>0, <2>3, <3>2, <4>1, Fields DEF CallType
    <3>4. QED
      BY <2>1, <2>2, <3>1, <3>3 DEF OrderOK
  <2>4. QED
    BY <1>1, <2>1, <2>2, <2>3
<1>4. CASE Accepted
  <2> DEFINE k == manager.call + 1
  <2>1. wraps' = wraps /\ manager.at = "call" /\ (i # k => calls'[i] = calls[i])
        /\ manager'.call = k /\ manager'.buffered = <<>>
    BY <1>0, <1>4 DEF Accepted, ManagerType
  <2>2. CASE i = k
    <3>1. wraps[i].at = "none" /\ calls[i].said = 0
      BY <1>0, <2>2 DEF CallOK, OrderOK
    <3>2. calls'[i].at = "reads" /\ calls'[i].said = 0
      BY <1>0, <1>4, <2>2, <3>1 DEF Accepted, CallType
    <3>3. QED
      BY <2>1, <3>1, <3>2 DEF OrderOK, Out, Blank
  <2>3. CASE i # k
    BY <1>0, <2>1, <2>3, SameOrder
  <2>4. QED
    BY <2>2, <2>3
<1>5. CASE Bootstrap \/ BootstrapOver \/ BootstrapLeft
  <2> DEFINE k == manager.call
             c == calls[k].chunk
  <2>1. manager.at = "boot" /\ (i # k => calls'[i] = calls[i] /\ wraps'[i] = wraps[i])
    BY <1>0, <1>5 DEF Bootstrap, BootstrapOver, BootstrapLeft, Wrap
  <2>2. ~Wrap(k, Append(manager.buffered, c)) /\ ~Wrap(k, manager.buffered) => wraps' = wraps
    BY <1>5 DEF Bootstrap, BootstrapOver, BootstrapLeft
  <2>3. CASE i # k
    <3>1. manager'.call = k
      <4>1. [manager EXCEPT !.buffered = Append(@, c)].call = k
        BY <1>0 DEF ManagerType
      <4>2. \/ \E s : Wrap(k, s)
            \/ manager' = [manager EXCEPT !.buffered = Append(@, c)]
            \/ \E e : manager' = Fail(e) \/ GoOn(e, TRUE)
        BY <1>5 DEF Bootstrap, BootstrapOver, BootstrapLeft
      <4>3. QED
        BY <1>0, <4>1, <4>2, ManagerMoves
    <3>2. QED
      BY <1>0, <2>1, <2>3, <3>1, SameOrder
  <2>4. CASE i = k
    <3>0. /\ Out(i) = 0 /\ Blank(manager.buffered, Len(manager.buffered)) /\ wraps[i].at = "none"
          /\ pump.source # i /\ calls[i].said \in Nat /\ c \in Chunks /\ Taken(calls[i]) \in CallType
      BY <1>0, <2>1, <2>4, TakenType DEF OrderOK, CallOK, PumpOK, CallType
    <3>1. CASE Wrap(k, Append(manager.buffered, c)) /\ calls[k].at = "offer" /\ c.kind = "data" /\ calls' = [calls EXCEPT ![k] = Taken(@)]
      <4>1. c = Data(i, 1) /\ calls[i].said = 1
        BY <1>0, <2>4, <3>0, <3>1 DEF OrderOK, Out
      <4>2. calls'[i].at = "reads" /\ calls'[i].said = 1
        BY <1>0, <2>4, <3>1, <4>1, Fields DEF Errors
      <4>3. Out(i)' = 1
        BY <4>2 DEF Out
      <4>4. wraps'[i].rest = Append(manager.buffered, c) /\ manager'.at = "stream"
        BY <1>0, <2>4, <3>1, ManagerMoves DEF Wrap
      <4>5. /\ Len(wraps'[i].rest) = Len(manager.buffered) + 1 /\ Len(manager.buffered) \in Nat
            /\ wraps'[i].rest[Len(wraps'[i].rest)] = c /\ wraps'[i].rest # <<>>
            /\ \A n \in 1 .. Len(manager.buffered) : wraps'[i].rest[n] = manager.buffered[n]
        BY <1>0, <3>0, <4>4 DEF ChunkSeq
      <4>6. Blank(wraps'[i].rest, Len(wraps'[i].rest) - 1)
        BY <3>0, <4>5 DEF Blank
      <4>7. EndsInData(wraps'[i].rest)
        BY <3>1, <4>5 DEF EndsInData
      <4>8. HandedOn(i)' = 0
        BY <4>3, <4>7 DEF HandedOn
      <4>9. QED
        BY <1>0, <3>0, <4>1, <4>2, <4>3, <4>4, <4>5, <4>6, <4>8 DEF OrderOK
    <3>2. CASE Wrap(k, manager.buffered) /\ calls' = calls
      <4>1. Out(i)' = 0
        BY <3>0, <3>2 DEF Out
      <4>2. wraps'[i].rest = manager.buffered /\ manager'.at = "stream"
        BY <1>0, <2>4, <3>2, ManagerMoves DEF Wrap
      <4>3. Len(manager.buffered) \in Nat /\ (manager.buffered # <<>> => Len(manager.buffered) >= 1)
        BY <1>0 DEF ChunkSeq
      <4>4. ~EndsInData(wraps'[i].rest) /\ Blank(wraps'[i].rest, Len(wraps'[i].rest) - 1)
        BY <3>0, <4>2, <4>3 DEF EndsInData, Blank
      <4>5. HandedOn(i)' = 0
        BY <4>1, <4>4 DEF HandedOn
      <4>6. QED
        BY <1>0, <3>0, <3>2, <4>2, <4>4, <4>5 DEF OrderOK
    <3>3. CASE manager' = [manager EXCEPT !.buffered = Append(@, c)] /\ wraps' = wraps /\ calls[k].at = "offer"
               /\ c.kind = "blank" /\ calls' = [calls EXCEPT ![k] = Taken(@)]
      <4>1. calls'[i].at = "reads" /\ calls'[i].said = calls[i].said
        BY <1>0, <2>4, <3>3, Fields DEF Errors
      <4>2. Out(i)' = 0
        BY <2>4, <3>0, <3>3, <4>1 DEF Out
      <4>3. manager'.buffered = Append(manager.buffered, c)
        BY <1>0, <3>3 DEF ManagerType
      <4>4. /\ Len(manager'.buffered) = Len(manager.buffered) + 1 /\ Len(manager.buffered) \in Nat
            /\ manager'.buffered[Len(manager.buffered) + 1] = c
            /\ \A n \in 1 .. Len(manager.buffered) : manager'.buffered[n] = manager.buffered[n]
        BY <1>0, <3>0, <4>3 DEF ChunkSeq
      <4>5. Blank(manager'.buffered, Len(manager'.buffered))
        BY <3>0, <3>3, <4>4 DEF Blank
      <4>6. QED
        BY <3>0, <3>3, <4>1, <4>2, <4>5 DEF OrderOK
    <3>4. CASE manager'.at # "boot" /\ wraps' = wraps /\ (calls'[i].at \notin {"none", "offer"} \/ calls' = calls)
      <4>1. calls'[i].at # "none"
        <5>1. ~(i > manager.call)
          BY <1>0, <2>4
        <5>2. QED
          BY <1>0, <3>4, <5>1 DEF CallOK
      <4>2. QED
        BY <1>0, <3>0, <3>4, <4>1 DEF OrderOK
    <3>5. CASE Bootstrap
      <4>1. CASE c.kind \in Errors
        <5>0. /\ wraps' = wraps
              /\ \/ calls'[i] = Taken(calls[i])
                 \/ calls'[i] = Marked(Taken(calls[i]), "failed")
          BY <1>0, <2>4, <3>5, <4>1 DEF Bootstrap, Errors
        <5>1. calls'[i].at = "over"
          BY <1>0, <2>4, <3>0, <4>1, <5>0, Fields
        <5>2. manager'.at # "boot"
          BY <1>0, <3>5, <4>1, ManagerMoves DEF Bootstrap, Errors
        <5>3. QED
          <6>1. calls'[i].at \notin {"none", "offer"}
            BY <5>1
          <6>2. QED
            BY <3>4, <5>0, <5>2, <6>1, Zenon
      <4>2. CASE c.kind \notin Errors
        BY <3>1, <3>3, <3>5, <4>2 DEF Bootstrap
      <4>3. QED
        BY <4>1, <4>2
    <3>6. CASE BootstrapOver
      <4>1. CASE manager.buffered = <<>>
        <5>1. calls'[i].at = "over" /\ wraps' = wraps /\ manager'.at # "boot"
          <6>1. calls'[i] = Marked(calls[i], "failed") /\ calls[i].at = "over" /\ wraps' = wraps /\ GoOn("passing", TRUE)
            BY <1>0, <2>4, <3>6, <4>1 DEF BootstrapOver
          <6>2. calls'[i].at = "over"
            BY <1>0, <6>1, Fields
          <6>3. QED
            BY <1>0, <6>1, <6>2, ManagerMoves
        <5>2. QED
          BY <3>4, <5>1
      <4>2. QED
        BY <3>2, <3>6, <4>1 DEF BootstrapOver
    <3>7. CASE BootstrapLeft
      BY <1>0, <3>4, <3>7, ManagerMoves DEF BootstrapLeft
    <3>8. QED
      BY <1>5, <3>5, <3>6, <3>7
  <2>5. QED
    BY <2>3, <2>4
<1>6. QED
  BY <1>2, <1>3, <1>4, <1>5 DEF Manager

\* A chunk taken from the front leaves the end as it was.
LEMMA Tails ==
  ASSUME NEW s \in ChunkSeq, s # <<>>
  PROVE  /\ Len(s) \in Nat /\ Len(s) >= 1 /\ Head(s) = s[1]
         /\ Len(Tail(s)) = Len(s) - 1
         /\ \A n \in 1 .. Len(s) - 1 : Tail(s)[n] = s[n + 1]
         /\ Len(s) > 1 => Tail(s) # <<>>
         /\ Len(s) = 1 => Tail(s) = <<>>
<1>1. s \in Seq(Chunks)
  BY DEF ChunkSeq
<1>2. Tail(s) \in Seq(Chunks) /\ Len(Tail(s)) = Len(s) - 1 /\ \A n \in 1 .. Len(Tail(s)) : Tail(s)[n] = s[n + 1]
  BY <1>1, HeadTailProperties
<1>3. Len(s) \in Nat /\ Len(s) >= 1 /\ Head(s) = s[1]
  BY <1>1
<1>4. Tail(s) = <<>> <=> Len(Tail(s)) = 0
  BY <1>2, EmptySeq
<1>5. QED
  BY <1>2, <1>3, <1>4

\* What the pump takes from a wrapper is the next to be written.
LEMMA PumpOrder ==
  ASSUME MaxCalls \in Nat, Models \in Nat, OInv, NEW i \in Calls,
         (Pump \/ Executed \/ Given)
  PROVE  OrderOK(i)'
<1> USE DEF Boots, stream, client
<1>0. /\ TypeOK /\ TurnsOK /\ CallOK(i) /\ OrderOK(i) /\ PumpOK /\ pump \in PumpType
      /\ wraps[i] \in WrapType /\ wraps \in [Calls -> WrapType] /\ written \in ChunkSeq
      /\ Len(written) \in Nat /\ calls' = calls
  BY DEF OInv, IInv, TypeOK, ChunkSeq, Pump, ReceiveError, Receive, ReceiveEnd, Retried, PumpQuit, SendErr, CloseData,
         Executed, Given
<1>1. Out(i)' = Out(i) /\ Out(i) \in Int
  BY <1>0 DEF Out, TypeOK, CallType
<1>2. Boots(i)' => manager' = manager
  <2>1. pump.at = "take" => manager.at # "boot"
    BY <1>0 DEF TurnsOK, Active
  <2>2. CASE ReceiveError \/ Receive
    BY <1>0, <2>1, <2>2, ManagerMoves DEF ReceiveError, Receive, PumpFails
  <2>3. CASE ReceiveEnd \/ Retried \/ PumpQuit \/ SendErr \/ CloseData \/ Executed \/ Given
    BY <2>3 DEF ReceiveEnd, Retried, PumpQuit, SendErr, CloseData, Executed, Given
  <2>4. QED
    BY <2>2, <2>3 DEF Pump
<1>3. CASE pump'.source = pump.source /\ wraps' = wraps /\ written' = written /\ pump'.at \notin {"take", "give", "retry"}
  BY <1>0, <1>2, <1>3, SameOrder
<1>4. ASSUME NEW e, PumpFails(e)
      PROVE  pump'.source = pump.source /\ (pump'.at = "err" \/ (pump'.at = "retry" /\ ~pump.sent))
  BY <1>0, <1>4 DEF PumpFails, Safe, PumpType
<1>5. CASE ReceiveError /\ UNCHANGED client
  <2>1. pump'.source = 0 /\ pump.source = 0
    BY <1>4, <1>5 DEF ReceiveError
  <2>2. i # 0
    BY DEF Calls
  <2>3. QED
    BY <1>0, <1>2, <1>5, <2>1, <2>2, SameOrder DEF ReceiveError
<1>6. CASE Receive /\ UNCHANGED client
  <2> DEFINE k == pump.source
             c == Head(wraps[k].rest)
  <2>1. k \in Calls /\ pump.at = "take" /\ wraps[k].at = "runs" /\ wraps[k].rest # <<>> /\ wraps[k].rest \in ChunkSeq
        /\ c \in Chunks
    BY <1>0, <1>6, ChunkSeqs DEF Receive, Emits, TurnsOK, WrapType
  <2>2. pump'.source = k
    BY <1>0, <1>4, <1>6 DEF Receive, PumpType
  <2>3. CASE i # k
    <3>1. wraps'[i] = wraps[i]
      BY <1>0, <1>6, <2>3 DEF Receive
    <3>2. QED
      BY <1>0, <1>2, <2>2, <2>3, <3>1, SameOrder
  <2>4. CASE i = k
    <3>1. wraps'[i].at = "runs" /\ wraps'[i].rest = Tail(wraps[i].rest)
      BY <1>0, <1>6, <2>1, <2>4 DEF Receive, WrapType
    <3>2. HandedOn(i) = Len(written) /\ Blank(wraps[i].rest, Len(wraps[i].rest) - 1)
          /\ (EndsInData(wraps[i].rest) => wraps[i].rest[Len(wraps[i].rest)] = Data(i, Out(i)))
      BY <1>0, <2>1, <2>4 DEF OrderOK
    <3> DEFINE rest == wraps[i].rest
               tail == wraps'[i].rest
    <3>3. /\ Len(rest) \in Nat /\ Len(rest) >= 1 /\ c = rest[1]
          /\ Len(tail) = Len(rest) - 1
          /\ \A n \in 1 .. Len(rest) - 1 : tail[n] = rest[n + 1]
          /\ Len(rest) > 1 => tail # <<>>
          /\ Len(rest) = 1 => tail = <<>>
      BY <2>1, <2>4, <3>1, Tails
    <3>4. Blank(tail, Len(tail) - 1)
      <4>1. ASSUME NEW n \in 1 .. Len(tail) - 1 PROVE tail[n].kind = "blank"
        <5>1. n + 1 \in 1 .. Len(rest) - 1 /\ tail[n] = rest[n + 1]
          BY <3>3
        <5>2. QED
          BY <3>2, <5>1 DEF Blank
      <4>2. QED
        BY <4>1 DEF Blank
    <3>5. CASE Len(wraps[i].rest) > 1
      <4>2. tail[Len(tail)] = rest[Len(rest)]
        <5>1. Len(rest) - 1 \in 1 .. Len(rest) - 1 /\ Len(rest) - 1 + 1 = Len(rest)
          BY <3>3, <3>5
        <5>2. QED
          BY <3>3, <5>1
      <4>1. EndsInData(tail) <=> EndsInData(rest)
        BY <2>1, <2>4, <3>3, <3>5, <4>2 DEF EndsInData
      <4>3. HandedOn(i)' = HandedOn(i)
        BY <1>1, <4>1 DEF HandedOn
      <4>4. c.kind = "blank"
        BY <3>2, <3>3, <3>5 DEF Blank
      <4>5. pump' = pump
        BY <1>6, <4>4 DEF Receive, Errors
      <4>6. QED
        BY <1>0, <1>1, <1>2, <1>6, <2>1, <2>4, <3>1, <3>2, <3>4, <4>1, <4>2, <4>3, <4>5 DEF OrderOK
    <3>6. CASE Len(wraps[i].rest) = 1
      <4>1. wraps'[i].rest = <<>> /\ ~EndsInData(wraps'[i].rest) /\ c = wraps[i].rest[Len(wraps[i].rest)]
        BY <3>3, <3>6 DEF EndsInData
      <4>2. HandedOn(i)' = Out(i)
        BY <1>1, <4>1 DEF HandedOn
      <4>3. (c.kind = "data") <=> EndsInData(wraps[i].rest)
        BY <2>1, <2>4, <4>1 DEF EndsInData
      <4>4. Out(i) = Len(written) + (IF c.kind = "data" THEN 1 ELSE 0)
        BY <1>0, <1>1, <3>2, <4>3 DEF HandedOn
      <4>5. pump'.at \in {"take", "give", "retry"} => (pump'.at = "give" <=> c.kind = "data")
        BY <1>0, <1>4, <1>6, <2>1 DEF Receive, Errors, PumpType
      <4>6. QED
        BY <1>0, <1>1, <1>2, <1>6, <2>2, <2>4, <3>1, <3>4, <4>1, <4>2, <4>4, <4>5 DEF OrderOK
    <3>7. Len(rest) > 1 \/ Len(rest) = 1
      <4>1. Len(rest) \in Nat /\ Len(rest) >= 1
        BY <2>1, <2>4, Tails
      <4>2. \A n \in Nat : n >= 1 => n > 1 \/ n = 1
        OBVIOUS
      <4>3. QED
        BY <4>1, <4>2
    <3>8. QED
      BY <3>5, <3>6, <3>7
  <2>5. QED
    BY <2>3, <2>4
<1>7. CASE (ReceiveEnd \/ PumpQuit \/ SendErr \/ CloseData) /\ UNCHANGED client
  <2>1. pump'.source = pump.source /\ pump'.at \in {"closing", "over"} /\ wraps' = wraps
    BY <1>0, <1>7 DEF ReceiveEnd, PumpQuit, SendErr, CloseData, PumpType
  <2>2. QED
    BY <1>3, <1>7, <2>1
<1>8. CASE (Retried /\ UNCHANGED client) \/ Executed
  <2>1. UNCHANGED <<manager, wraps>> /\ pump.at \in {"none", "retry"} /\ written' = written
        /\ \/ pump' = [pump EXCEPT !.at = "take", !.source = Source]
           \/ pump' = [pump EXCEPT !.at = "err", !.chunk = Fault(manager.last)]
           \/ pump' = pump
    BY <1>0, <1>8 DEF Retried, Executed, TurnsOK
  <2>2. ~pump.sent /\ written = <<>>
    BY <1>0, <2>1 DEF PumpOK
  <2>3. wraps[i].at = "runs" => HandedOn(i) = 0
    BY <1>0, <2>1, <2>2 DEF OrderOK, PumpOK, Calls
  <2>4. HandedOn(i)' = HandedOn(i) /\ Len(written') = 0
    BY <1>1, <2>1, <2>2 DEF HandedOn, EndsInData
  <2>5. pump'.at # "give"
    BY <1>0, <2>1 DEF PumpType
  <2>6. QED
    BY <1>0, <1>1, <2>1, <2>3, <2>4, <2>5 DEF OrderOK, Blank, EndsInData
<1>9. CASE Given
  <2>1. /\ pump'.at = "take" /\ pump'.source = pump.source /\ UNCHANGED <<manager, wraps>> /\ pump.at = "give"
        /\ Len(written') = Len(written) + 1
    BY <1>0, <1>9 DEF Given, PumpType, ChunkSeq
  <2>2. HandedOn(i)' = HandedOn(i)
    BY <1>1, <2>1 DEF HandedOn, EndsInData
  <2>3. QED
    BY <1>0, <1>1, <2>1, <2>2 DEF OrderOK, Blank, EndsInData
<1>10. QED
  BY <1>5, <1>6, <1>7, <1>8, <1>9 DEF Pump

\* Executors, wrappers and discarding keep the payloads in order.
LEMMA CallsOrder ==
  ASSUME MaxCalls \in Nat, Models \in Nat, OInv, NEW i \in Calls, NEW k \in Calls,
         Executor(k) \/ Drain(k) \/ Wrapper(k)
  PROVE  OrderOK(i)'
<1> USE DEF Boots, client
<1>0. /\ TypeOK /\ TurnsOK /\ CallOK(i) /\ OrderOK(i) /\ PumpOK /\ calls \in [Calls -> CallType]
      /\ calls[i] \in CallType /\ wraps[i] \in WrapType /\ wraps \in [Calls -> WrapType] /\ calls[i].said \in Nat
      /\ UNCHANGED <<manager, pump, written>>
  BY DEF OInv, IInv, TypeOK, CallType, Executor, Drain, Wrapper
<1>1. CASE i # k
  <2>1. calls'[i] = calls[i] /\ wraps'[i] = wraps[i]
    BY <1>0, <1>1 DEF Executor, Says, Fails, Ends, Offer, Drain, Wrapper, WrapQuit, WrapTake, WrapOver
  <2>2. QED
    BY <1>0, <2>1, SameOrder
<1>2. CASE i = k /\ Executor(k)
  <2>1. /\ calls[i].at = "reads" /\ UNCHANGED wraps
        /\ \/ \E c \in Chunks : /\ calls'[i] = Offering(calls[i], c)
                                /\ c.kind = "data" => c = Data(i, calls[i].said + 1)
           \/ calls'[i].at = "over" /\ calls'[i].said = calls[i].said
    <3>1. Data(i, calls[i].said + 1) \in Chunks
      BY <1>0, Chunk DEF Calls
    <3>2. CASE Says(k)
      BY <1>0, <1>2, <3>1, <3>2, Chunk DEF Executor, Says, Offer, Data, Nothing
    <3>3. CASE Fails(k)
      BY <1>0, <1>2, <3>3, Chunk DEF Executor, Fails, Offer, Fault, Errors
    <3>4. CASE Ends(k)
      BY <1>0, <1>2, <3>4 DEF Executor, Ends, CallType
    <3>5. QED
      BY <1>2, <3>2, <3>3, <3>4 DEF Executor
  <2>2. Out(i) = calls[i].said
    BY <2>1 DEF Out
  <2>3. CASE \E c \in Chunks : calls'[i] = Offering(calls[i], c) /\ (c.kind = "data" => c = Data(i, calls[i].said + 1))
    <3>1. PICK c \in Chunks : calls'[i] = Offering(calls[i], c) /\ (c.kind = "data" => c = Data(i, calls[i].said + 1))
      BY <2>3
    <3>2. calls'[i].at = "offer" /\ calls'[i].chunk = c /\ calls'[i].said = (IF c.kind = "data" THEN c.n ELSE calls[i].said)
      BY <1>0, <3>1, Fields
    <3>3. c.kind = "data" => c = Data(i, calls'[i].said) /\ calls'[i].said = calls[i].said + 1
      BY <3>1, <3>2 DEF Data
    <3>4. Out(i)' = Out(i)
      BY <1>0, <2>2, <3>2, <3>3 DEF Out
    <3>5. QED
      BY <1>0, <2>1, <3>2, <3>3, <3>4, OrderFrame
  <2>4. CASE calls'[i].at = "over" /\ calls'[i].said = calls[i].said
    <3>1. Out(i)' = Out(i)
      BY <2>2, <2>4 DEF Out
    <3>2. QED
      BY <1>0, <2>1, <2>4, <3>1, OrderFrame
  <2>5. QED
    BY <2>1, <2>3, <2>4
<1>3. CASE i = k /\ Drain(k)
  <2>1. calls'[i] = Taken(calls[i]) /\ UNCHANGED wraps /\ i \in drained
    BY <1>0, <1>3 DEF Drain
  <2>2. ~Boots(i) /\ wraps[i].at # "runs" /\ calls'[i].at \notin {"none", "offer"}
    BY <1>0, <2>1, Fields DEF CallOK
  <2>3. QED
    BY <1>0, <2>1, <2>2 DEF OrderOK
<1>4. CASE i = k /\ Wrapper(k)
  <2>0. wraps[i].at = "runs" /\ ~Boots(i)
    BY <1>0, <1>4 DEF Wrapper, WrapQuit, Emits, CallOK
  <2>1. CASE WrapQuit(i)
    <3>1. wraps'[i].at = "over" /\ calls' = calls
      BY <1>0, <2>1 DEF WrapQuit, WrapType
    <3>2. QED
      BY <1>0, <2>0, <3>1 DEF OrderOK
  <2>2. CASE WrapOver(i) /\ calls[i].at = "over"
    <3>1. wraps'[i].at = "over" /\ (calls'[i] = calls[i] \/ calls'[i] = Marked(calls[i], "ok"))
      BY <1>0, <2>2 DEF WrapOver, WrapType
    <3>2. calls'[i].at = "over"
      BY <1>0, <2>2, <3>1, Fields
    <3>3. QED
      BY <1>0, <2>0, <3>1, <3>2 DEF OrderOK
  <2>3. CASE WrapTake(i) /\ calls[i].at = "offer" /\ ~Emits(i)
    <3> DEFINE c == calls[i].chunk
    <3>1. /\ wraps[i].rest = <<>> /\ wraps'[i].rest = <<c>> /\ wraps'[i].at = "runs"
          /\ \/ calls'[i] = Taken(calls[i])
             \/ calls'[i] = Marked(Taken(calls[i]), "failed")
      BY <1>0, <2>0, <2>3 DEF WrapTake, Emits, WrapType
    <3>2. calls'[i].at \notin {"none", "offer"} /\ calls'[i].said = calls[i].said
      <4>1. Taken(calls[i]) \in CallType
        BY <1>0, TakenType
      <4>2. QED
        BY <1>0, <3>1, <4>1, Fields
    <3>3. Out(i)' = calls[i].said
      BY <3>2 DEF Out
    <3>4. HandedOn(i) = Out(i)
      BY <3>1 DEF HandedOn, EndsInData
    <3>5. Len(wraps'[i].rest) = 1 /\ wraps'[i].rest[1] = c /\ wraps'[i].rest # <<>>
      BY <3>1
    <3>6. EndsInData(wraps'[i].rest) <=> c.kind = "data"
      BY <3>5 DEF EndsInData
    <3>7. HandedOn(i)' = HandedOn(i)
      BY <1>0, <2>3, <3>3, <3>4, <3>6 DEF HandedOn, Out
    <3>8. Blank(wraps'[i].rest, Len(wraps'[i].rest) - 1)
      BY <3>5 DEF Blank
    <3>9. c.kind = "data" => c = Data(i, Out(i)')
      BY <1>0, <2>3, <3>3 DEF OrderOK
    <3>10. QED
      BY <1>0, <2>0, <3>1, <3>2, <3>5, <3>6, <3>7, <3>8, <3>9 DEF OrderOK
  <2>4. QED
    BY <1>4, <2>1, <2>2, <2>3 DEF Wrapper
<1>5. QED
  BY <1>1, <1>2, <1>3, <1>4

\* Every step preserves the order of payloads.
LEMMA OrderStep ==
  ASSUME MaxCalls \in Nat, Models \in Nat, OInv, Next, NEW i \in Calls
  PROVE  OrderOK(i)'
<1>0. OrderOK(i) /\ TurnsOK
  BY DEF OInv, IInv
<1>1. CASE Manager
  BY <1>1, ManagerOrder
<1>2. CASE Pump \/ Executed \/ Given
  BY <1>2, PumpOrder
<1>3. CASE \E k \in Calls : Executor(k) \/ Drain(k) \/ Wrapper(k)
  BY <1>3, CallsOrder
<1>4. CASE HandlerLeft \/ PeekError \/ PeekOver \/ ForwardError \/ ForwardOver \/ Notice \/ Leave
  <2>1. UNCHANGED <<manager, calls, wraps, pump, written>>
    BY <1>4 DEF HandlerLeft, PeekError, PeekOver, ForwardError, ForwardOver, Notice, Leave, Tell, stream, client
  <2>2. QED
    BY <1>0, <2>1, SameOrder DEF Boots
<1>5. CASE Ask
  <2>1. UNCHANGED <<calls, wraps, pump, written>> /\ manager'.at # "boot"
    BY <1>5, ManagerMoves DEF Ask, OInv, IInv
  <2>2. QED
    BY <1>0, <2>1, SameOrder DEF Boots
<1>6. QED
  BY <1>1, <1>2, <1>3, <1>4, <1>5 DEF Next, Step, Handler

\* ExecuteStream that goes on has not returned a stream.
LEMMA GoOnGoesOn ==
  ASSUME TypeOK
  PROVE  \A e, b : GoOn(e, b) => manager'.at \in {"failed", "call", "check"}
<1> SUFFICES ASSUME NEW e, NEW b, GoOn(e, b) PROVE manager'.at \in {"failed", "call", "check"}
  OBVIOUS
<1>1. manager \in ManagerType
  BY DEF TypeOK
<1>2. CASE e = "invalid"
  BY <1>1, <1>2 DEF GoOn, Fail, ManagerType
<1>3. CASE e # "invalid"
  BY <1>1, <1>3 DEF GoOn, ManagerType
<1>4. QED
  BY <1>2, <1>3

\* ExecuteStream returns a stream in one way: it hands what it has kept, which
\* is something, to a wrapper.
LEMMA ManagerReturns ==
  ASSUME TypeOK, TurnsOK, Manager
  PROVE  \/ wraps' = wraps /\ manager'.at # "stream"
         \/ manager.at = "boot" /\ \E s \in ChunkSeq : s # <<>> /\ Wrap(manager.call, s)
<1> DEFINE k == manager.call
<1>0. manager \in ManagerType /\ manager.buffered \in ChunkSeq /\ (manager.at = "boot" => calls[k].chunk \in Chunks)
  BY DEF TypeOK, TurnsOK, ManagerType, CallType
<1>1. CASE Refused
  <2>1. CASE cancelled
    BY <1>0, <1>1, <2>1 DEF Refused, Fail, ManagerType
  <2>2. CASE ~cancelled
    BY <1>0, <1>1, <2>2, GoOnGoesOn DEF Refused
  <2>3. QED
    BY <1>1, <2>1, <2>2 DEF Refused
<1>2. CASE Pick
  BY <1>0, <1>2 DEF Pick, ManagerType
<1>3. CASE NonePicked \/ Check \/ Accepted \/ BootstrapLeft
  BY <1>0, <1>3 DEF NonePicked, Check, Accepted, BootstrapLeft, Fail, ManagerType
<1>4. CASE Bootstrap
  <2>1. [manager EXCEPT !.buffered = Append(@, calls[k].chunk)].at = manager.at /\ manager.at = "boot"
    BY <1>0, <1>4 DEF Bootstrap, ManagerType
  <2>2. Append(manager.buffered, calls[k].chunk) \in ChunkSeq /\ Append(manager.buffered, calls[k].chunk) # <<>>
    BY <1>0, <2>1 DEF ChunkSeq
  <2>3. \/ manager' = [manager EXCEPT !.buffered = Append(@, calls[k].chunk)] /\ wraps' = wraps
        \/ (\E e : manager' = Fail(e) \/ GoOn(e, TRUE)) /\ wraps' = wraps
        \/ Wrap(k, Append(manager.buffered, calls[k].chunk))
    BY <1>4 DEF Bootstrap
  <2>4. QED
    BY <1>0, <2>1, <2>2, <2>3, GoOnGoesOn, ManagerMoves
<1>5. CASE BootstrapOver
  BY <1>0, <1>5, GoOnGoesOn DEF BootstrapOver
<1>6. QED
  BY <1>1, <1>2, <1>3, <1>4, <1>5 DEF Manager

\* The pump, which has sent nothing, turns to what ExecuteStream returned.
LEMMA SourceTaken ==
  ASSUME TypeOK, TurnsOK, PumpOK, (Retried /\ UNCHANGED written) \/ Executed
  PROVE  PumpOK'
<1>1. /\ UNCHANGED <<manager, wraps, written>> /\ pump.at \in {"none", "retry"} /\ pump \in PumpType
      /\ \/ pump' = [pump EXCEPT !.at = "take", !.source = Source]
         \/ pump' = [pump EXCEPT !.at = "err", !.chunk = Fault(manager.last)]
         \/ pump' = pump
  BY DEF Retried, Executed, TurnsOK, TypeOK, stream
<1>2. ~pump.sent /\ written = <<>>
  BY <1>1 DEF PumpOK
<1>3. pump' = pump => PumpOK'
  BY <1>1 DEF PumpOK
<1>4. CASE pump' = [pump EXCEPT !.at = "take", !.source = Source]
  <2>1. pump'.at = "take" /\ pump'.source = Source /\ pump'.sent = pump.sent
    BY <1>1, <1>4 DEF PumpType
  <2>2. Source \in Calls => wraps[Source].at # "none"
    BY DEF Source, PumpOK, Calls
  <2>3. QED
    BY <1>1, <1>2, <2>1, <2>2 DEF PumpOK
<1>5. CASE pump' = [pump EXCEPT !.at = "err", !.chunk = Fault(manager.last)]
  <2>1. pump'.at = "err" /\ pump'.source = pump.source /\ pump'.sent = pump.sent
    BY <1>1, <1>5 DEF PumpType
  <2>2. QED
    BY <1>1, <1>2, <2>1 DEF PumpOK
<1>6. QED
  BY <1>1, <1>3, <1>4, <1>5

\* Every step preserves what is written and what the pump holds.
LEMMA PumpStep ==
  ASSUME MaxCalls \in Nat, Models \in Nat, OInv, Next
  PROVE  PumpOK'
<1> USE DEF stream, client
<1>0. /\ TypeOK /\ TurnsOK /\ PumpOK /\ pump \in PumpType /\ wraps \in [Calls -> WrapType] /\ written \in ChunkSeq
      /\ manager \in ManagerType /\ (pump.at = "take" => manager.at # "boot")
  BY DEF OInv, IInv, TypeOK, TurnsOK, Active
<1>1. ASSUME UNCHANGED <<pump, written>>, wraps' = wraps,
             manager'.at = "stream" => manager.at = "stream" /\ manager'.call = manager.call
      PROVE  PumpOK'
  BY <1>0, <1>1 DEF PumpOK
<1>2. CASE Manager
  <2> DEFINE k == manager.call
  <2>1. UNCHANGED <<pump, written>>
    BY <1>2 DEF Manager
  <2>2. CASE manager.at = "boot" /\ \E s \in ChunkSeq : s # <<>> /\ Wrap(k, s)
    <3>1. k \in Calls /\ wraps[k].at = "none" /\ manager'.at = "stream" /\ manager'.call = k
      BY <1>0, <2>2, ManagerMoves DEF OInv, IInv, CallOK, Boots, TurnsOK
    <3>2. wraps'[k].at = "runs" /\ \A i \in Calls : i # k => wraps'[i] = wraps[i]
      BY <1>0, <2>2, <3>1 DEF Wrap
    <3>3. pump.source # k
      BY <1>0, <3>1 DEF PumpOK
    <3>4. QED
      BY <1>0, <2>1, <3>1, <3>2, <3>3 DEF PumpOK, TurnsOK
  <2>3. QED
    BY <1>0, <1>1, <1>2, <2>1, <2>2, ManagerReturns
<1>3. ASSUME NEW e, PumpFails(e), pump.at = "take", \A i \in Calls : wraps'[i].at = wraps[i].at, UNCHANGED written
      PROVE  PumpOK'
  <2>1. pump'.source = pump.source /\ pump'.sent = pump.sent /\ pump'.at \in {"err", "retry"}
        /\ (pump'.at = "retry" => ~pump.sent /\ manager'.at # "stream")
        /\ (pump'.at = "err" => manager' = manager)
    BY <1>0, <1>3, ManagerMoves DEF PumpFails, Safe, PumpType
  <2>2. QED
    BY <1>0, <1>3, <2>1 DEF PumpOK, TurnsOK
<1>4. CASE Pump
  <2>1. written' = written
    BY <1>4 DEF Pump
  <2>2. CASE ReceiveError
    BY <1>3, <2>1, <2>2 DEF ReceiveError
  <2>3. CASE Receive
    <3> DEFINE i == pump.source
               c == Head(wraps[i].rest)
    <3>1. /\ i \in Calls /\ pump.at = "take" /\ wraps[i].at = "runs" /\ wraps[i].rest # <<>> /\ wraps[i].rest \in ChunkSeq
          /\ \A j \in Calls : wraps'[j].at = wraps[j].at
      BY <1>0, <2>3 DEF Receive, Emits, TurnsOK, WrapType
    <3>2. CASE c.kind = "data" /\ pump' = [pump EXCEPT !.at = "give", !.sent = TRUE, !.chunk = c] /\ UNCHANGED manager
      <4>1. OrderOK(i)
        BY <3>1 DEF OInv
      <4>2. /\ HandedOn(i) = Len(written) /\ Blank(wraps[i].rest, Len(wraps[i].rest) - 1)
            /\ (EndsInData(wraps[i].rest) => wraps[i].rest[Len(wraps[i].rest)] = Data(i, Out(i)))
            /\ Len(written) \in Nat
        BY <1>0, <3>1, <4>1 DEF OrderOK, ChunkSeq
      <4>3. Len(wraps[i].rest) = 1
        <5>1. Len(wraps[i].rest) \in Nat /\ Len(wraps[i].rest) >= 1 /\ c = wraps[i].rest[1]
          BY <3>1, Tails
        <5>2. ~(Len(wraps[i].rest) > 1)
          BY <3>2, <4>2, <5>1 DEF Blank
        <5>3. \A n \in Nat : n >= 1 /\ ~(n > 1) => n = 1
          OBVIOUS
        <5>4. QED
          BY <5>1, <5>2, <5>3
      <4>4. c = wraps[i].rest[Len(wraps[i].rest)]
        BY <3>1, <4>3, Tails
      <4>5. EndsInData(wraps[i].rest) /\ c = Data(i, Out(i))
        BY <3>1, <3>2, <4>2, <4>4 DEF EndsInData
      <4>6. Out(i) \in Int
        BY <1>0, <3>1 DEF Out, TypeOK, CallType
      <4>7. Out(i) = Len(written) + 1
        BY <4>2, <4>5, <4>6 DEF HandedOn
      <4>8. /\ pump'.at = "give" /\ pump'.sent /\ pump'.chunk = c /\ pump'.source = i
        BY <1>0, <3>2 DEF PumpType
      <4>9. QED
        BY <1>0, <2>1, <3>1, <3>2, <4>5, <4>7, <4>8 DEF PumpOK, TurnsOK
    <3>3. CASE pump' = [pump EXCEPT !.at = "err", !.chunk = Fault("other")] /\ UNCHANGED manager
      <4>1. pump'.at = "err" /\ pump'.source = pump.source /\ pump'.sent = pump.sent
        BY <1>0, <3>3 DEF PumpType
      <4>2. QED
        BY <1>0, <2>1, <3>1, <3>3, <4>1 DEF PumpOK, TurnsOK
    <3>4. CASE UNCHANGED <<pump, manager>>
      BY <1>0, <2>1, <3>1, <3>4 DEF PumpOK, TurnsOK
    <3>5. CASE PumpFails(c.kind)
      BY <1>3, <2>1, <3>1, <3>5
    <3>6. QED
      BY <2>3, <3>2, <3>3, <3>4, <3>5 DEF Receive
  <2>4. CASE ReceiveEnd \/ PumpQuit \/ SendErr \/ CloseData
    <3>1. /\ pump'.at \in {"closing", "over"} /\ pump'.source = pump.source /\ pump'.sent = pump.sent
          /\ UNCHANGED <<manager, wraps>>
      BY <1>0, <2>4 DEF ReceiveEnd, PumpQuit, SendErr, CloseData, PumpType
    <3>2. QED
      BY <1>0, <2>1, <3>1 DEF PumpOK
  <2>5. CASE Retried
    BY <1>0, <2>1, <2>5, SourceTaken
  <2>6. QED
    BY <1>4, <2>2, <2>3, <2>4, <2>5 DEF Pump
<1>5. CASE Executed
  BY <1>0, <1>5, SourceTaken
<1>6. CASE Given
  <2>1. /\ pump.at = "give" /\ pump'.at = "take" /\ pump'.source = pump.source /\ pump'.sent = pump.sent
        /\ written' = Append(written, pump.chunk) /\ UNCHANGED <<manager, wraps>>
    BY <1>0, <1>6 DEF Given, PumpType
  <2>2. pump.chunk = Data(pump.source, Len(written) + 1) /\ pump.sent
    BY <1>0, <2>1 DEF PumpOK
  <2>3. ASSUME NEW n \in DOMAIN written' PROVE written'[n] = Data(pump.source, n)
    <3>1. Len(written) \in Nat /\ DOMAIN written = 1 .. Len(written) /\ pump.chunk \in Chunks
      BY <1>0 DEF ChunkSeq, PumpType
    <3>2. DOMAIN written' = 1 .. Len(written) + 1
      BY <1>0, <2>1, <3>1 DEF ChunkSeq
    <3>3. CASE n = Len(written) + 1
      BY <1>0, <2>1, <2>2, <3>1, <3>3 DEF ChunkSeq
    <3>4. CASE n \in 1 .. Len(written)
      <4>1. written'[n] = written[n]
        BY <1>0, <2>1, <3>1, <3>4 DEF ChunkSeq
      <4>2. QED
        BY <1>0, <3>1, <3>4, <4>1 DEF PumpOK
    <3>5. QED
      BY <3>1, <3>2, <3>3, <3>4
  <2>4. QED
    BY <1>0, <2>1, <2>2, <2>3 DEF PumpOK
<1>7. CASE HandlerLeft \/ PeekError \/ PeekOver \/ ForwardError \/ ForwardOver \/ Notice \/ Leave
  <2>1. UNCHANGED <<manager, wraps, pump, written>>
    BY <1>7 DEF HandlerLeft, PeekError, PeekOver, ForwardError, ForwardOver, Notice, Leave, Tell
  <2>2. QED
    BY <1>1, <2>1
<1>8. CASE Ask
  <2>1. UNCHANGED <<wraps, pump, written>> /\ manager'.at = "pick"
    BY <1>0, <1>8, ManagerMoves DEF Ask
  <2>2. QED
    BY <1>1, <2>1
<1>9. CASE \E k \in Calls : Executor(k) \/ Drain(k) \/ Wrapper(k)
  <2>1. /\ UNCHANGED <<manager, pump, written>>
        /\ \A i \in Calls : wraps'[i].at # "none" \/ wraps'[i].at = wraps[i].at
    BY <1>0, <1>9 DEF Executor, Drain, Wrapper, WrapQuit, Emits, WrapTake, WrapOver, WrapType
  <2>2. QED
    BY <1>0, <2>1 DEF PumpOK, TurnsOK
<1>10. QED
  BY <1>2, <1>4, <1>5, <1>6, <1>7, <1>8, <1>9 DEF Next, Step, Handler

\* Every step preserves the invariant.
LEMMA OrderedStep ==
  ASSUME MaxCalls \in Nat, Models \in Nat, OInv, [Next]_vars
  PROVE  OInv'
<1>1. Next => OInv'
  BY ResultsStep, OrderStep, PumpStep DEF OInv
<1>2. UNCHANGED vars => OInv'
  BY ResultsStep DEF vars, stream, client, OInv, PumpOK, OrderOK, Boots, Out, HandedOn, Blank, EndsInData
<1>3. QED
  BY <1>1, <1>2

\* It implies the property.
LEMMA OneCallFollows ==
  ASSUME MaxCalls \in Nat \ {0}, OInv
  PROVE  OneCall
<1>1. PumpOK /\ written \in ChunkSeq
  BY DEF OInv, IInv, TypeOK
<1>2. CASE written = <<>>
  <2>1. 1 \in Calls /\ DOMAIN written = {}
    BY <1>2 DEF Calls
  <2>2. QED
    BY <2>1 DEF OneCall
<1>3. CASE written # <<>>
  BY <1>1, <1>3 DEF PumpOK, OneCall, Data
<1>4. QED
  BY <1>2, <1>3

(* For any number of calls, models, retries and chunks: what the client    *)
(* was given is the beginning of one call's stream, in order and complete. *)
THEOREM ClientGetsOneCall ==
  ASSUME MaxCalls \in Nat \ {0}, Models \in Nat
  PROVE  Spec => []OneCall
<1>1. Init => OInv
  BY Initially
<1>2. OInv /\ [Next]_vars => OInv'
  BY OrderedStep
<1>3. OInv => OneCall
  BY OneCallFollows
<1>4. QED
  BY <1>1, <1>2, <1>3, PTL DEF Spec

-----------------------------------------------------------------------------
(* All is told.                                                            *)

\* The stream ExecuteStream has returned and nobody has read from,
Fresh(i) == manager.at = "stream" /\ manager.call = i /\ pump.at \in {"none", "retry"}
\* and the one the pump reads.
Read(i) == pump.source = i /\ pump.at \in {"take", "give"}
Complete(i) == calls[i].at = "over" /\ calls[i].fate = "fine" /\ Len(written) = calls[i].said

\* Unless the request is cancelled, a stream begins with what the bootstrap
\* kept, an error waits in it until it is read, and it is over when its call
\* is, all of it handed on.
StreamOK(i) == ~cancelled =>
    /\ Fresh(i) => wraps[i].at = "runs" /\ ~wraps[i].failed /\ wraps[i].rest # <<>>
    /\ wraps[i].failed /\ wraps[i].rest # <<>> =>
          Len(wraps[i].rest) = 1 /\ wraps[i].rest[1].kind \in Errors
    /\ Read(i) /\ wraps[i].failed => wraps[i].rest # <<>>
    /\ wraps[i].at = "over" => /\ calls[i].at = "over" /\ wraps[i].rest = <<>>
                               /\ ~wraps[i].failed => calls[i].fate = "fine"
    /\ Read(i) /\ wraps[i].at = "over" => calls[i].said = Len(written) + (IF pump.at = "give" THEN 1 ELSE 0)

EndOK ==
    /\ cancelled => left \/ handler = "over"
    /\ handler # "over" /\ ~left /\ pump.at \in {"closing", "over"} /\ errs = <<>> =>
          pump.source \in Calls /\ Complete(pump.source)
    /\ outcome \in {"done", "empty"} /\ ~left =>
          pump.at = "over" /\ pump.source \in Calls /\ Complete(pump.source)

AllOK == EndOK /\ \A i \in Calls : StreamOK(i)

\* What is not read from, or read from as before, is told as before.
LEMMA SameStream ==
  ASSUME NEW i \in Calls, StreamOK(i), wraps'[i] = wraps[i], cancelled => cancelled',
         wraps[i].at = "over" /\ ~cancelled => calls'[i] = calls[i],
         Fresh(i)' => Fresh(i), Read(i)' => Read(i) /\ pump'.at = pump.at /\ written' = written
  PROVE  StreamOK(i)'
BY DEF StreamOK

\* ExecuteStream leaves the calls that have wrappers to them.
LEMMA WrappedCallsKept ==
  ASSUME OInv, Manager, NEW i \in Calls, wraps[i].at # "none"
  PROVE  calls'[i] = calls[i]
<1> USE DEF Boots
<1>0. /\ TypeOK /\ TurnsOK /\ CallOK(i) /\ manager \in ManagerType /\ i \in Nat /\ manager.call \in Nat
      /\ calls \in [Calls -> CallType]
  BY DEF OInv, IInv, TypeOK, ManagerType, Calls
<1>1. CASE Pick \/ NonePicked \/ Check \/ BootstrapLeft
  BY <1>1 DEF Pick, NonePicked, Check, BootstrapLeft
<1>2. CASE Refused \/ Accepted
  <2>1. i # manager.call + 1
    BY <1>0 DEF CallOK
  <2>2. QED
    BY <1>0, <1>2, <2>1 DEF Refused, Accepted
<1>3. CASE Bootstrap \/ BootstrapOver
  <2>1. manager.at = "boot"
    BY <1>3 DEF Bootstrap, BootstrapOver
  <2>2. i # manager.call
    BY <1>0, <2>1 DEF CallOK
  <2>3. QED
    BY <1>0, <1>3, <2>2 DEF Bootstrap, BootstrapOver
<1>4. QED
  BY <1>1, <1>2, <1>3 DEF Manager

\* ExecuteStream keeps what it has returned, and adds to it a stream that is begun.
LEMMA ManagerTells ==
  ASSUME OInv, Manager, NEW i \in Calls, StreamOK(i)
  PROVE  StreamOK(i)'
<1>0. /\ TypeOK /\ TurnsOK /\ manager \in ManagerType /\ wraps \in [Calls -> WrapType]
      /\ UNCHANGED <<pump, written, cancelled>>
  BY DEF OInv, IInv, TypeOK, Manager, client
<1>1. wraps[i].at = "over" => calls'[i] = calls[i]
  BY WrappedCallsKept
<1>2. CASE wraps' = wraps /\ manager'.at # "stream"
  BY <1>0, <1>1, <1>2, SameStream DEF Fresh, Read
<1>3. CASE manager.at = "boot" /\ \E s \in ChunkSeq : s # <<>> /\ Wrap(manager.call, s)
  <2>1. PICK s \in ChunkSeq : s # <<>> /\ Wrap(manager.call, s)
    BY <1>3
  <2>2. manager'.call = manager.call
    BY <1>0, <2>1, ManagerMoves
  <2>3. CASE i = manager.call
    <3>1. wraps'[i].at = "runs" /\ wraps'[i].rest # <<>> /\ ~wraps'[i].failed
      BY <1>0, <2>1, <2>3 DEF Wrap
    <3>2. QED
      BY <3>1 DEF StreamOK
  <2>4. CASE i # manager.call
    <3>1. wraps'[i] = wraps[i]
      BY <1>0, <2>1, <2>4 DEF Wrap
    <3>2. QED
      BY <1>0, <1>1, <2>2, <2>4, <3>1, SameStream DEF Fresh, Read
  <2>5. QED
    BY <2>3, <2>4
<1>4. QED
  BY <1>0, <1>2, <1>3, ManagerReturns

\* The pump hands on a stream as it comes.
LEMMA PumpTells ==
  ASSUME OInv, Pump \/ Executed \/ Given, NEW i \in Calls, StreamOK(i)
  PROVE  StreamOK(i)'
<1> USE DEF stream, client
<1>0. /\ TypeOK /\ TurnsOK /\ PumpOK /\ pump \in PumpType /\ manager \in ManagerType
      /\ wraps \in [Calls -> WrapType] /\ wraps[i] \in WrapType /\ written \in ChunkSeq /\ i # 0
      /\ UNCHANGED <<calls, cancelled>>
  BY DEF OInv, IInv, TypeOK, Pump, Executed, Given, ReceiveError, Receive, ReceiveEnd, Retried, PumpQuit, SendErr,
         CloseData, Calls
<1>1. ASSUME NEW e, PumpFails(e)
      PROVE  pump'.at \in {"err", "retry"} /\ (pump'.at = "retry" => manager'.at = "pick")
  BY <1>0, <1>1, ManagerMoves DEF PumpFails, PumpType
<1>2. CASE ReceiveError
  <2>1. wraps' = wraps /\ pump'.at \in {"err", "retry"} /\ (pump'.at = "retry" => manager'.at = "pick")
    BY <1>1, <1>2 DEF ReceiveError
  <2>2. QED
    BY <1>0, <2>1, SameStream DEF Fresh, Read
<1>3. CASE Receive
  <2> DEFINE c == Head(wraps[pump.source].rest)
  <2>1. /\ pump.at = "take" /\ pump.source \in Calls /\ Emits(pump.source)
        /\ wraps' = [wraps EXCEPT ![pump.source].rest = Tail(@)]
    BY <1>0, <1>3 DEF Receive, TurnsOK
  <2>2. \/ c.kind \in {"data", "blank"} /\ pump'.at \in {"give", "err", "take"}
        \/ c.kind \in Errors /\ pump'.at \in {"err", "retry"} /\ (pump'.at = "retry" => manager'.at = "pick")
    BY <1>0, <1>1, <1>3 DEF Receive, PumpType
  <2>3. pump'.source = pump.source
    BY <1>0, <1>3 DEF Receive, PumpFails, PumpType
  <2>4. ~Fresh(i)'
    BY <2>2 DEF Fresh
  <2>5. CASE i # pump.source
    <3>1. wraps'[i] = wraps[i]
      BY <1>0, <2>1, <2>5
    <3>2. QED
      BY <1>0, <2>3, <2>4, <2>5, <3>1, SameStream DEF Read
  <2>6. CASE i = pump.source
    <3>1. wraps[i].at = "runs" /\ wraps[i].rest # <<>> /\ wraps[i].rest \in ChunkSeq
      BY <1>0, <2>1, <2>6 DEF Emits, WrapType
    <3>2. wraps'[i].at = "runs" /\ wraps'[i].rest = Tail(wraps[i].rest) /\ wraps'[i].failed = wraps[i].failed
      BY <1>0, <2>1, <2>6, <3>1 DEF WrapType
    <3>3. ~cancelled /\ wraps[i].failed => wraps'[i].rest = <<>> /\ c.kind \in Errors
      BY <2>6, <3>1, <3>2, Tails DEF StreamOK
    <3>4. c.kind \in Errors => ~Read(i)'
      BY <2>2 DEF Read, Errors
    <3>5. QED
      BY <1>0, <2>4, <3>2, <3>3, <3>4 DEF StreamOK
  <2>7. QED
    BY <2>5, <2>6
<1>4. CASE ReceiveEnd \/ PumpQuit \/ SendErr \/ CloseData
  <2>1. pump'.at \in {"closing", "over"} /\ wraps' = wraps
    BY <1>0, <1>4 DEF ReceiveEnd, PumpQuit, SendErr, CloseData, PumpType
  <2>2. QED
    BY <1>0, <2>1, SameStream DEF Fresh, Read
<1>5. CASE (Pump /\ Retried) \/ Executed
  <2>1. pump.at \in {"none", "retry"} /\ UNCHANGED <<wraps, manager, written>>
    BY <1>0, <1>5 DEF Pump, Retried, Executed, TurnsOK
  <2>2. \/ pump' = pump
        \/ pump'.at = "err"
        \/ pump'.at = "take" /\ pump'.source = Source
    BY <1>0, <1>5 DEF Retried, Executed, PumpType
  <2>3. CASE pump' = pump \/ pump'.at = "err"
    BY <1>0, <2>1, <2>3, SameStream DEF Fresh, Read
  <2>4. CASE pump'.at = "take" /\ pump'.source = Source
    <3>1. Read(i)' => Fresh(i)
      BY <1>0, <2>1, <2>4 DEF Read, Fresh, Source
    <3>2. ~Fresh(i)'
      BY <2>4 DEF Fresh
    <3>3. QED
      BY <1>0, <2>1, <3>1, <3>2 DEF StreamOK
  <2>5. QED
    BY <2>2, <2>3, <2>4
<1>6. CASE Given
  <2>1. /\ pump.at = "give" /\ pump'.at = "take" /\ pump'.source = pump.source /\ wraps' = wraps
        /\ Len(written') = Len(written) + 1 /\ Len(written) \in Nat
    <3>1. pump.chunk \in Chunks
      BY <1>0 DEF PumpType
    <3>2. QED
      BY <1>0, <1>6, <3>1 DEF Given, PumpType, ChunkSeq
  <2>2. QED
    BY <1>0, <2>1 DEF StreamOK, Fresh, Read
<1>7. QED
  BY <1>2, <1>3, <1>4, <1>5, <1>6 DEF Pump

\* So do executors and wrappers.
LEMMA CallsTell ==
  ASSUME OInv, NEW k \in Calls, Executor(k) \/ Drain(k) \/ Wrapper(k), NEW i \in Calls, StreamOK(i)
  PROVE  StreamOK(i)'
<1> USE DEF client
<1>0. /\ TypeOK /\ CallOK(i) /\ OrderOK(i) /\ calls \in [Calls -> CallType] /\ calls[i] \in CallType
      /\ wraps \in [Calls -> WrapType] /\ wraps[i] \in WrapType /\ written \in ChunkSeq
      /\ UNCHANGED <<manager, pump, written, cancelled>>
  BY DEF OInv, IInv, TypeOK, Executor, Drain, Wrapper
<1>1. CASE i # k
  <2>1. calls'[i] = calls[i] /\ wraps'[i] = wraps[i]
    BY <1>0, <1>1 DEF Executor, Drain, Wrapper, Says, Fails, Ends, Offer, WrapQuit, WrapTake, WrapOver
  <2>2. QED
    BY <1>0, <2>1, SameStream DEF Fresh, Read
<1>2. CASE i = k /\ (Executor(k) \/ Drain(k))
  <2>1. calls[i].at \in {"reads", "offer"} /\ wraps' = wraps
    BY <1>2 DEF Executor, Drain, Says, Fails, Ends
  <2>2. wraps[i].at = "over" => cancelled
    BY <2>1 DEF StreamOK
  <2>3. QED
    BY <1>0, <2>1, <2>2, SameStream DEF Fresh, Read
<1>3. CASE i = k /\ WrapQuit(k)
  BY <1>0, <1>3 DEF WrapQuit, StreamOK
<1>4. ASSUME wraps[i].at = "runs", ~Emits(i) PROVE wraps[i].rest = <<>> /\ (Fresh(i) => cancelled)
  BY <1>4 DEF Emits, StreamOK
<1>5. CASE i = k /\ wraps[k].at = "runs" /\ ~Emits(k) /\ calls[k].at = "offer" /\ WrapTake(k)
  <2> DEFINE c == calls[i].chunk
  <2>1. ~wraps[i].failed
    BY <1>0, <1>5 DEF CallOK
  <2>2. wraps'[i].at = "runs" /\ wraps'[i].rest = <<c>> /\ (wraps'[i].failed => c.kind \in Errors)
    BY <1>0, <1>5, <2>1 DEF WrapTake, WrapType
  <2>3. Len(<<c>>) = 1 /\ <<c>>[1] = c /\ <<c>> # <<>>
    OBVIOUS
  <2>4. Fresh(i)' => cancelled
    BY <1>0, <1>4, <1>5 DEF Fresh
  <2>5. QED
    BY <1>0, <2>2, <2>3, <2>4 DEF StreamOK
<1>6. CASE i = k /\ wraps[k].at = "runs" /\ ~Emits(k) /\ calls[k].at = "over" /\ WrapOver(k)
  <2>1. wraps'[i].at = "over" /\ wraps'[i].rest = wraps[i].rest /\ wraps'[i].failed = wraps[i].failed
    BY <1>0, <1>6 DEF WrapOver, WrapType
  <2>2. calls'[i].at = "over" /\ calls'[i].said = calls[i].said /\ calls'[i].fate = calls[i].fate
    BY <1>0, <1>6, Fields DEF WrapOver
  <2>3. ~wraps[i].failed => calls[i].fate = "fine"
    BY <1>0, <1>6 DEF CallOK
  <2>4. Read(i) => calls[i].said = Len(written) + (IF pump.at = "give" THEN 1 ELSE 0)
    <3>1. Out(i) = calls[i].said
      BY <1>6 DEF Out
    <3>2. HandedOn(i) = Out(i)
      BY <1>4, <1>6 DEF HandedOn, EndsInData
    <3>3. QED
      BY <1>0, <1>6, <3>1, <3>2 DEF OrderOK, Read
  <2>5. Fresh(i)' => cancelled
    BY <1>0, <1>4, <1>6 DEF Fresh
  <2>6. Read(i)' <=> Read(i)
    BY <1>0 DEF Read
  <2>7. Read(i) /\ wraps[i].failed => cancelled
    BY <1>4, <1>6 DEF StreamOK
  <2>8. QED
    BY <1>0, <1>4, <1>6, <2>1, <2>2, <2>3, <2>4, <2>5, <2>6, <2>7 DEF StreamOK
<1>7. QED
  BY <1>1, <1>2, <1>3, <1>5, <1>6 DEF Wrapper

\* Every step tells on.
LEMMA StreamStep ==
  ASSUME OInv, Next, NEW i \in Calls, StreamOK(i)
  PROVE  StreamOK(i)'
<1> USE DEF stream, client
<1>1. CASE HandlerLeft \/ PeekError \/ PeekOver \/ ForwardError \/ ForwardOver \/ Notice \/ Leave
  <2>1. UNCHANGED <<manager, calls, wraps, pump, written>> /\ (cancelled => cancelled')
    BY <1>1 DEF HandlerLeft, PeekError, PeekOver, ForwardError, ForwardOver, Notice, Leave, Tell
  <2>2. QED
    BY <2>1, SameStream DEF Fresh, Read
<1>2. CASE Ask
  <2>1. UNCHANGED <<calls, wraps, pump, written, cancelled>> /\ manager'.at = "pick"
    BY <1>2, ManagerMoves DEF Ask, OInv, IInv
  <2>2. QED
    BY <2>1, SameStream DEF Fresh, Read
<1>3. QED
  BY <1>1, <1>2, ManagerTells, PumpTells, CallsTell DEF Next, Step, Handler

\* Who is told that it is over stays told, and is told so with all handed on.
LEMMA EndStep ==
  ASSUME ~RashPeek, OInv, AllOK, Next
  PROVE  EndOK'
<1> USE DEF stream, client
<1>0. /\ TypeOK /\ TurnsOK /\ PumpOK /\ EndOK /\ pump \in PumpType /\ written \in ChunkSeq /\ calls \in [Calls -> CallType]
  BY DEF OInv, IInv, TypeOK, AllOK
<1>1. ASSUME UNCHANGED <<pump, errs, cancelled, handler, left, written, outcome>>,
             pump.source \in Calls /\ Complete(pump.source) => Complete(pump.source)'
      PROVE  EndOK'
  BY <1>0, <1>1 DEF EndOK
<1>2. CASE Manager
  <2>1. pump.source \in Calls => calls'[pump.source] = calls[pump.source]
    BY <1>0, <1>2, WrappedCallsKept DEF PumpOK
  <2>2. QED
    BY <1>1, <1>2, <2>1 DEF Manager, Complete
<1>3. CASE \E k \in Calls : Executor(k) \/ Drain(k) \/ Wrapper(k)
  <2>1. PICK k \in Calls : Executor(k) \/ Drain(k) \/ Wrapper(k)
    BY <1>3
  <2>2. /\ UNCHANGED <<pump, errs, cancelled, handler, left, written, outcome>>
        /\ \A i \in Calls : i # k => calls'[i] = calls[i]
    BY <1>0, <2>1 DEF Executor, Drain, Wrapper, Says, Fails, Ends, Offer, WrapQuit, WrapTake, WrapOver
  <2>3. ASSUME calls[k].at = "over"
        PROVE  calls'[k].at = "over" /\ calls'[k].fate = calls[k].fate /\ calls'[k].said = calls[k].said
    <3>1. ~Executor(k) /\ ~Drain(k)
      BY <2>3 DEF Executor, Drain, Says, Fails, Ends
    <3>2. calls' = calls \/ WrapOver(k)
      BY <2>1, <2>3, <3>1 DEF Wrapper, WrapQuit
    <3>3. QED
      BY <1>0, <2>3, <3>2, Fields DEF WrapOver
  <2>4. QED
    BY <1>1, <2>2, <2>3 DEF Complete
<1>4. CASE Pump
  <2>1. UNCHANGED <<calls, cancelled, handler, left, written, outcome>> /\ pump.at # "over"
    BY <1>4 DEF Pump, ReceiveError, Receive, ReceiveEnd, Retried, PumpQuit, SendErr, CloseData
  <2>2. SUFFICES ASSUME handler # "over", ~left, pump'.at \in {"closing", "over"}, errs' = <<>>
                 PROVE  (pump.source \in Calls /\ Complete(pump.source))'
    BY <1>0, <2>1 DEF EndOK
  <2>3. ~cancelled
    BY <1>0, <2>2 DEF EndOK
  <2>4. CASE ReceiveError \/ Receive \/ Retried
    BY <1>0, <2>2, <2>4 DEF ReceiveError, Receive, Retried, PumpFails, PumpType
  <2>5. CASE ReceiveEnd
    <3> DEFINE i == pump.source
    <3>1. i \in Calls /\ Read(i) /\ wraps[i].at = "over" /\ pump.at = "take" /\ pump'.source = i /\ StreamOK(i)
      BY <1>0, <2>5 DEF ReceiveEnd, Read, TurnsOK, PumpType, AllOK
    <3>2. calls[i].at = "over" /\ calls[i].fate = "fine" /\ calls[i].said = Len(written)
      BY <1>0, <2>3, <3>1 DEF StreamOK, ChunkSeq
    <3>3. QED
      BY <2>1, <3>1, <3>2 DEF Complete
  <2>6. CASE PumpQuit \/ SendErr
    BY <2>2, <2>3, <2>6 DEF PumpQuit, SendErr
  <2>7. CASE CloseData
    BY <1>0, <2>1, <2>2, <2>7 DEF CloseData, EndOK, Complete, PumpType
  <2>8. QED
    BY <1>4, <2>4, <2>5, <2>6, <2>7 DEF Pump
<1>5. CASE Executed \/ Given
  <2>1. /\ pump.at \in {"none", "give"} /\ pump'.at \notin {"closing", "over"} /\ handler # "over"
        /\ UNCHANGED <<cancelled, left, outcome>>
    BY <1>0, <1>5 DEF Executed, Given, TurnsOK, PumpType
  <2>2. QED
    BY <1>0, <2>1 DEF EndOK
<1>6. CASE PeekOver \/ ForwardOver
  <2>1. /\ pump.at = "over" /\ handler # "over" /\ (outcome' \in {"done", "empty"} => errs = <<>>)
        /\ UNCHANGED <<calls, pump, written, left>> /\ handler' = "over"
    BY <1>6 DEF PeekOver, ForwardOver, Tell
  <2>2. QED
    BY <1>0, <2>1 DEF EndOK, Complete
<1>7. CASE HandlerLeft \/ PeekError \/ ForwardError
  BY <1>7 DEF HandlerLeft, PeekError, ForwardError, Tell, EndOK
<1>8. CASE Notice \/ Leave
  BY <1>0, <1>8 DEF Notice, Leave, EndOK, Complete
<1>9. CASE Ask
  <2>1. pump.at = "none" /\ handler # "over" /\ UNCHANGED <<pump, cancelled, left, outcome>>
    BY <1>0, <1>9 DEF Ask, TurnsOK
  <2>2. QED
    BY <1>0, <2>1 DEF EndOK
<1>10. QED
  BY <1>2, <1>3, <1>4, <1>5, <1>6, <1>7, <1>8, <1>9 DEF Next, Step, Handler

\* It holds at the beginning,
LEMMA ToldInitially ==
  ASSUME MaxCalls \in Nat, Init
  PROVE  OInv /\ AllOK
<1>1. OInv
  BY Initially
<1>2. AllOK
  BY DEF Init, AllOK, EndOK, StreamOK, Fresh, Read, None
<1>3. QED
  BY <1>1, <1>2

\* and after every step,
LEMMA ToldStep ==
  ASSUME MaxCalls \in Nat, Models \in Nat, ~RashPeek, OInv /\ AllOK, [Next]_vars
  PROVE  (OInv /\ AllOK)'
<1>1. OInv'
  BY OrderedStep
<1>2. Next => AllOK'
  BY StreamStep, EndStep DEF AllOK
<1>3. UNCHANGED vars => AllOK'
  BY DEF vars, stream, client, AllOK, EndOK, StreamOK, Fresh, Read, Complete
<1>4. QED
  BY <1>1, <1>2, <1>3

\* and implies the property.
LEMMA ToldFollows ==
  ASSUME AllOK
  PROVE  ToldAll
BY DEF AllOK, EndOK, Complete, ToldAll

\* Where the peek looks for an error before it takes the end for one: a client
\* that stayed, and is told that its stream is done or was empty, was given all
\* that a call said, and that call did not fail.
THEOREM ClientIsToldAll ==
  ASSUME MaxCalls \in Nat, Models \in Nat, ~RashPeek
  PROVE  Spec => []ToldAll
<1>1. Init => OInv /\ AllOK
  BY ToldInitially
<1>2. (OInv /\ AllOK) /\ [Next]_vars => (OInv /\ AllOK)'
  BY ToldStep
<1>3. AllOK => ToldAll
  BY ToldFollows
<1>4. QED
  BY <1>1, <1>2, <1>3, PTL DEF Spec
=============================================================================
