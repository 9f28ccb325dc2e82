---------------------------- MODULE WsRelay_proofs ----------------------------
(***************************************************************************)
(* For any sessions, requests, slots and replies: the relay implements     *)
(* RelayStream, what it promises about each request, and no caller is left *)
(* waiting on a session whose cleanup is through.                          *)
(*                                                                         *)
(* Nothing of this is inductive.  That replies stay in order needs what is *)
(* in the channel and in the reader's hands (ChannelsOK, ReadersOK); that  *)
(* success is not told of a reply cut short needs that a channel is closed *)
(* only with an end or an error in it, or with an excuse (ShutOK), the     *)
(* reader's own removal of an ended request included (EndsOK); that nobody *)
(* is stranded needs who was pending when the cleanup began (PassedOK).    *)
(* That the credentials served are those of the sessions that can be       *)
(* reached (ServedOK) holds when no stop of the manager comes while a      *)
(* session is being set up, and only then: see RelayStop.cfg.              *)
(***************************************************************************)
EXTENDS WsRelay, Integers, SequenceTheorems, TLAPS

Latest(r) == IF got[r] = <<>> THEN 0 ELSE got[r][Len(got[r])]
Excused(r) == r \in cancelled \/ r \in dropped

\* The caller has been told, will be told, or has an excuse.
Answered(r) == \/ pc[r] = "over" \/ Excused(r)
               \/ chan[r] # <<>> /\ chan[r][Len(chan[r])].kind # "part"

\* Only a request's own session handles it.
HomesOK ==
    /\ \A s \in Sessions : \A r \in pending[s] : home[r] = s
    /\ \A s \in Sessions : held[s] # NoRequest => home[held[s]] = s
    /\ \A s \in Sessions : reader[s] # "idle" => reply[s].req \in Requests /\ home[reply[s].req] = s

\* A caller is told once, and nothing is read for it before its request is written.
CallsOK == \A r \in Requests :
    /\ pc[r] # "over" => outcome[r] = "none"
    /\ pc[r] \in {"new", "store", "load", "check", "write", "drop"} => waiter[r] = "none"
    /\ waiter[r] = "none" => ~ended[r]

\* The reader's next reply is the latest one read.
Latecomer(r, m) == /\ m.kind \in Kinds /\ m.n = read[r] /\ Latest(r) < m.n
                   /\ ended[r] = (m.kind # "part")
                   /\ \A i \in 1..Len(chan[r]) : chan[r][i].n < m.n
ReadersOK == \A s \in Sessions :
    /\ reader[s] = "put" => Latecomer(reply[s].req, reply[s].msg)
    /\ reader[s] = "remove" => ended[reply[s].req] /\ Answered(reply[s].req)

\* A request whose end was read is pending only until the reader takes it out.
EndsOK == \A r \in Requests :
    ended[r] /\ r \in pending[home[r]] => reader[home[r]] # "idle" /\ reply[home[r]].req = r

\* What is in a channel is read, not given yet, in order, and ends with the end.
Ready(r, m) == /\ m.kind = "lost" => m.n = 0 /\ r \in shut
               /\ m.kind # "lost" => m.n > Latest(r) /\ m.n <= read[r]
               /\ m.kind \in {"end", "fail"} => m.n = read[r] /\ ended[r]
ChannelsOK == \A r \in Requests :
    /\ Latest(r) \in Nat /\ Latest(r) <= read[r]
    /\ \A i \in 1..Len(chan[r]) : Ready(r, chan[r][i])
    /\ \A i, j \in 1..Len(chan[r]) : i < j /\ chan[r][j].kind # "lost" => chan[r][i].n < chan[r][j].n

\* A closed channel ends with an end or an error, unless there is an excuse.
ShutOK == \A r \in shut : Answered(r)

\* Whoever passed the check for a closed session was there when its pending requests
\* began to be looked through, and stays until its channel is closed.
PassedOK ==
    /\ \A s \in Sessions : (s \in closed <=> cleaner[s] # "no") /\ visited[s] \subseteq shut
    /\ \A r \in Requests :
          /\ pc[r] \in {"load", "check", "write", "wait"} /\ cleaner[home[r]] \in {"no", "range"}
                => r \in pending[home[r]] \/ r \in shut
          /\ pc[r] \in {"write", "wait"} =>
                /\ cleaner[home[r]] = "range" => r \in old[home[r]] \/ r \in shut
                /\ cleaner[home[r]] \in {"unmap", "callback", "done"} => r \in shut

Sound == TypeOK /\ HomesOK

-----------------------------------------------------------------------------
(* Types, and who handles a request.                                       *)

Messages == [req : Requests \cup {NoRequest}, msg : Replies]

\* The error a cleanup puts in a channel is a reply as another.
LEMMA LostType == Lost \in Replies
  BY DEF Lost, Replies, Kinds

\* A channel with a message more, if there is room.
LEMMA PutType ==
    ASSUME TypeOK, NEW r \in Requests, NEW m \in Replies, Put(r, m)
    PROVE  /\ chan' \in [Requests -> Seq(Replies)]
           /\ \A q \in Requests : Len(chan'[q]) <= Slots
           /\ \A q \in Requests : chan'[q] = IF q = r /\ Roomy(r) THEN Append(chan[r], m) ELSE chan[q]
  <1>1. chan \in [Requests -> Seq(Replies)] /\ \A q \in Requests : Len(chan[q]) <= Slots
    BY DEF TypeOK
  <1>2. chan[r] \in Seq(Replies) /\ Append(chan[r], m) \in Seq(Replies)
        /\ Len(Append(chan[r], m)) = Len(chan[r]) + 1
    BY <1>1, AppendProperties
  <1>3. chan' = [chan EXCEPT ![r] = IF Roomy(r) THEN Append(chan[r], m) ELSE chan[r]]
    BY DEF Put
  <1>4. chan' \in [Requests -> Seq(Replies)]
    BY <1>1, <1>2, <1>3
  <1>5. \A q \in Requests : chan'[q] = IF q = r /\ Roomy(r) THEN Append(chan[r], m) ELSE chan[q]
    BY <1>1, <1>3
  <1>6. Roomy(r) => Len(chan[r]) + 1 <= Slots
    <2>1. Len(chan[r]) \in Nat /\ Slots \in Nat
      BY <1>2, LenProperties, RelayAssumption
    <2> QED BY <2>1 DEF Roomy
  <1> QED BY <1>1, <1>2, <1>4, <1>5, <1>6

-----------------------------------------------------------------------------
(* What the four steps that move messages come to.                         *)

\* A sequence with a length is not the empty one.
LEMMA NotEmpty ==
    ASSUME NEW S, NEW t \in Seq(S), Len(t) > 0
    PROVE  t # <<>>
  BY EmptySeq

\* A message more in r's channel; without room it is dropped.
Added(r, m) ==
    /\ \A q \in Requests \ {r} : chan'[q] = chan[q]
    /\ dropped' = IF Roomy(r) THEN dropped ELSE dropped \cup {r}
    /\ ~Roomy(r) => chan'[r] = chan[r]
    /\ Roomy(r) => /\ Len(chan[r]) \in Nat /\ Len(chan'[r]) = Len(chan[r]) + 1 /\ chan'[r] # <<>>
                   /\ chan'[r][Len(chan'[r])] = m
                   /\ \A i \in 1..Len(chan'[r]) :
                         i = Len(chan'[r]) \/ (i \in 1..Len(chan[r]) /\ chan'[r][i] = chan[r][i])

\* A message that is put, or dropped, is added in the sense of Added.
LEMMA PutAdds ==
    ASSUME TypeOK, NEW r \in Requests, NEW m \in Replies, Put(r, m), Drop(r)
    PROVE  Added(r, m)
  <1>1. chan[r] \in Seq(Replies)
    BY DEF TypeOK
  <1>2. \A q \in Requests : chan'[q] = IF q = r /\ Roomy(r) THEN Append(chan[r], m) ELSE chan[q]
    BY PutType
  <1>3. /\ Append(chan[r], m) \in Seq(Replies) /\ Append(chan[r], m) # <<>>
        /\ Len(chan[r]) \in Nat /\ Len(Append(chan[r], m)) = Len(chan[r]) + 1
        /\ Append(chan[r], m)[Len(chan[r]) + 1] = m
        /\ \A i \in 1..Len(chan[r]) : Append(chan[r], m)[i] = chan[r][i]
    BY <1>1, AppendProperties, LenProperties
  <1>4. CASE Roomy(r)
    <2>1. chan'[r] = Append(chan[r], m)
      BY <1>2, <1>4
    <2>2. \A i \in 1..Len(chan'[r]) :
             i = Len(chan'[r]) \/ (i \in 1..Len(chan[r]) /\ chan'[r][i] = chan[r][i])
      BY <1>3, <2>1
    <2> QED BY <1>2, <1>3, <1>4, <2>1, <2>2 DEF Added, Drop
  <1>5. CASE ~Roomy(r)
    BY <1>2, <1>5 DEF Added, Drop
  <1> QED BY <1>4, <1>5

\* Everything but the channels, what is dropped of them, and who closes them.
Still == /\ pending' = pending /\ reply' = reply /\ pc' = pc /\ home' = home /\ waiter' = waiter
         /\ cancelled' = cancelled /\ read' = read /\ ended' = ended /\ got' = got /\ outcome' = outcome
         /\ closed' = closed /\ cleaner' = cleaner /\ old' = old
Nothing == /\ Still
           /\ reader' = reader /\ visited' = visited /\ held' = held /\ shut' = shut
           /\ chan' = chan /\ dropped' = dropped

Closes(s) ==
    /\ Still /\ UNCHANGED reader
    /\ held[s] \in Requests /\ home[held[s]] = s /\ held[s] \notin shut
    /\ Added(held[s], Lost)
    /\ shut' = shut \cup {held[s]}
    /\ visited' = [visited EXCEPT ![s] = @ \cup {held[s]}]
    /\ held' = [held EXCEPT ![s] = NoRequest]
    /\ chan' \in [Requests -> Seq(Replies)] /\ \A r \in Requests : Len(chan'[r]) <= Slots

\* The cleanup closes one channel, unless sending on it is a panic.
LEMMA CloseRequestDoes ==
    ASSUME Sound, NEW s \in Sessions, CloseRequest(s)
    PROVE  Nothing \/ Closes(s)
  <1>1. held[s] \in Requests /\ home[held[s]] = s
    BY DEF Sound, TypeOK, HomesOK, CloseRequest
  <1>2. CASE held[s] \in shut
    BY <1>2 DEF CloseRequest, Crash, Nothing, Still, cleaning, reading, caller, history
  <1>3. CASE held[s] \notin shut
    <2>1. Put(held[s], Lost) /\ Drop(held[s])
      BY <1>3 DEF CloseRequest
    <2>2. Added(held[s], Lost) /\ chan' \in [Requests -> Seq(Replies)] /\ \A r \in Requests : Len(chan'[r]) <= Slots
      BY <1>1, <2>1, LostType, PutType, PutAdds DEF Sound
    <2> QED BY <1>1, <1>3, <2>2 DEF CloseRequest, Closes, Still, reading, caller
  <1> QED BY <1>2, <1>3

Dispatches(s) ==
    /\ Still /\ UNCHANGED <<visited, held, shut>>
    /\ reply[s].req \in Requests /\ home[reply[s].req] = s /\ reply[s].req \notin shut
    /\ reader[s] = "put" /\ reply[s].msg \in Replies
    /\ Added(reply[s].req, reply[s].msg)
    /\ reader' = [reader EXCEPT ![s] = IF reply[s].msg.kind = "part" THEN "idle" ELSE "remove"]
    /\ chan' \in [Requests -> Seq(Replies)] /\ \A r \in Requests : Len(chan'[r]) <= Slots

\* The reader puts its reply in the channel, unless sending on it is a panic.
LEMMA DispatchDoes ==
    ASSUME Sound, NEW s \in Sessions, Dispatch(s)
    PROVE  Nothing \/ Dispatches(s)
  <1>1. /\ reader[s] = "put" /\ reply[s].req \in Requests /\ home[reply[s].req] = s
        /\ reply[s].msg \in Replies
    BY DEF Sound, TypeOK, HomesOK, Dispatch
  <1>2. CASE reply[s].req \in shut
    BY <1>2 DEF Dispatch, Crash, Nothing, Still, cleaning, reading, caller, history
  <1>3. CASE reply[s].req \notin shut
    <2>1. Put(reply[s].req, reply[s].msg) /\ Drop(reply[s].req)
      BY <1>3 DEF Dispatch
    <2>2. /\ Added(reply[s].req, reply[s].msg)
          /\ chan' \in [Requests -> Seq(Replies)] /\ \A r \in Requests : Len(chan'[r]) <= Slots
      BY <1>1, <2>1, PutType, PutAdds DEF Sound
    <2> QED BY <1>1, <1>3, <2>2 DEF Dispatch, Dispatches, Still, cleaning, caller
  <1> QED BY <1>2, <1>3

\* The channel loses its first message, and the caller has it unless it is the error.
Receives(r, m) ==
    /\ pc[r] = "wait" /\ chan[r] # <<>> /\ m = chan[r][1] /\ m \in Replies /\ Len(chan[r]) \in Nat \ {0}
    /\ chan' \in [Requests -> Seq(Replies)] /\ got' \in [Requests -> Seq(Nat)]
    /\ Len(chan'[r]) = Len(chan[r]) - 1
    /\ Len(chan[r]) > 1 => chan'[r] # <<>>
    /\ \A i \in 1..Len(chan'[r]) : chan'[r][i] = chan[r][i + 1]
    /\ \A q \in Requests \ {r} : chan'[q] = chan[q]
    /\ got' = [got EXCEPT ![r] = IF m.kind = "lost" THEN @ ELSE Append(@, m.n)]
    /\ \A q \in Requests : Latest(q)' = IF q = r /\ m.kind # "lost" THEN m.n ELSE Latest(q)
    /\ outcome' = [outcome EXCEPT ![r] = Result(m.kind)]
    /\ pc' = [pc EXCEPT ![r] = IF m.kind = "part" THEN "wait" ELSE "over"]
    /\ UNCHANGED <<pending, reader, reply, home, waiter, cancelled, shut, read, ended, dropped,
                   closed, cleaner, old, visited, held>>

\* The caller takes the first message.
LEMMA ReceiveDoes ==
    ASSUME Sound, NEW r \in Requests, Receive(r)
    PROVE  Receives(r, chan[r][1])
  <1> DEFINE m == chan[r][1]
  <1>1. /\ pc[r] = "wait" /\ chan[r] # <<>> /\ chan[r] \in Seq(Replies) /\ got[r] \in Seq(Nat)
        /\ chan \in [Requests -> Seq(Replies)] /\ got \in [Requests -> Seq(Nat)]
    BY DEF Sound, TypeOK, Receive
  <1>2. /\ Head(chan[r]) = m /\ m \in Replies /\ Tail(chan[r]) \in Seq(Replies)
        /\ Len(chan[r]) \in Nat \ {0} /\ Len(Tail(chan[r])) = Len(chan[r]) - 1
        /\ \A i \in 1..Len(Tail(chan[r])) : Tail(chan[r])[i] = chan[r][i + 1]
    <2>1. Len(chan[r]) \in Nat /\ (chan[r] = <<>> <=> Len(chan[r]) = 0)
      BY <1>1, LenProperties, EmptySeq
    <2>2. /\ Head(chan[r]) = m /\ Head(chan[r]) \in Replies /\ Tail(chan[r]) \in Seq(Replies)
          /\ Len(Tail(chan[r])) = Len(chan[r]) - 1
          /\ \A i \in 1..Len(Tail(chan[r])) : Tail(chan[r])[i] = chan[r][i + 1]
      BY <1>1, HeadTailProperties
    <2> QED BY <1>1, <2>1, <2>2
  <1>3. Len(chan[r]) > 1 => Tail(chan[r]) # <<>>
    BY <1>2, NotEmpty
  <1>4. /\ Append(got[r], m.n) \in Seq(Nat) /\ Append(got[r], m.n) # <<>>
        /\ Append(got[r], m.n)[Len(Append(got[r], m.n))] = m.n
    <2>1. m.n \in Nat
      BY <1>2 DEF Replies
    <2> HIDE DEF m
    <2>2. ASSUME NEW t \in Seq(Nat), NEW n \in Nat
          PROVE  /\ Append(t, n) \in Seq(Nat) /\ Append(t, n) # <<>>
                 /\ Append(t, n)[Len(Append(t, n))] = n
      BY AppendProperties
    <2> QED BY <1>1, <2>1, <2>2
  <1>5. /\ chan' = [chan EXCEPT ![r] = Tail(chan[r])]
        /\ got' = [got EXCEPT ![r] = IF m.kind = "lost" THEN got[r] ELSE Append(got[r], m.n)]
        /\ outcome' = [outcome EXCEPT ![r] = Result(m.kind)]
        /\ pc' = [pc EXCEPT ![r] = IF m.kind = "part" THEN "wait" ELSE "over"]
    BY <1>2 DEF Receive, At
  <1>6. UNCHANGED <<pending, reader, reply, home, waiter, cancelled, shut, read, ended, dropped,
                    closed, cleaner, old, visited, held>>
    BY DEF Receive, Taking, reading, cleaning
  <1>7. /\ chan'[r] = Tail(chan[r]) /\ \A q \in Requests \ {r} : chan'[q] = chan[q]
        /\ chan' \in [Requests -> Seq(Replies)] /\ got' \in [Requests -> Seq(Nat)]
    BY <1>1, <1>2, <1>4, <1>5
  <1>8. \A q \in Requests : got'[q] = IF q = r /\ m.kind # "lost" THEN Append(got[r], m.n) ELSE got[q]
    BY <1>1, <1>5
  <1> HIDE DEF m
  <1>9. \A q \in Requests : Latest(q)' = IF q = r /\ m.kind # "lost" THEN m.n ELSE Latest(q)
    BY <1>4, <1>8 DEF Latest
  <1> QED BY <1>1, <1>2, <1>3, <1>5, <1>6, <1>7, <1>9 DEF m, Receives

\* What ends a channel stays when a part is taken from it.
LEMMA LastLeft ==
    ASSUME NEW r \in Requests, TypeOK, Receives(r, chan[r][1]), Answered(r)
    PROVE  Answered(r)'
  <1>1. CASE Len(chan[r]) = 1 \/ chan[r][1].kind # "part"
    BY <1>1 DEF Receives, Answered, Excused, TypeOK
  <1>2. CASE Len(chan[r]) > 1
    <2>1. /\ chan'[r] # <<>> /\ Len(chan'[r]) \in 1..Len(chan'[r]) /\ Len(chan'[r]) + 1 = Len(chan[r])
      BY <1>2 DEF Receives
    <2>2. chan'[r][Len(chan'[r])] = chan[r][Len(chan[r])]
      BY <2>1 DEF Receives
    <2>3. CASE chan[r][1].kind = "part"
      BY <2>1, <2>2, <2>3 DEF Receives, Answered, Excused, TypeOK
    <2> QED BY <1>1, <2>3
  <1>3. Len(chan[r]) = 1 \/ Len(chan[r]) > 1
    <2>1. PICK n \in Nat \ {0} : n = Len(chan[r])
      BY DEF Receives
    <2>2. n = 1 \/ n > 1
      OBVIOUS
    <2> QED BY <2>1, <2>2
  <1> QED BY <1>1, <1>2, <1>3

\* A reply to a request that is pending.
Reads(s, r, kind) ==
    /\ home[r] = s /\ reader[s] = "idle" /\ waiter[r] # "none" /\ r \in pending[s]
    /\ read[r] \in Nat
    /\ \A q \in Requests : read'[q] = IF q = r THEN read[r] + 1 ELSE read[q]
    /\ \A q \in Requests : ended'[q] = IF q = r THEN kind # "part" ELSE ended[q]
    /\ \A t \in Sessions : reader'[t] = IF t = s THEN "put" ELSE reader[t]
    /\ \A t \in Sessions \ {s} : reply'[t] = reply[t]
    /\ reply'[s].req = r /\ reply'[s].msg.n = read[r] + 1 /\ reply'[s].msg.kind = kind
    /\ UNCHANGED <<pending, pc, home, waiter, cancelled, dropped, chan, shut, got, outcome,
                   closed, cleaner, old, visited, held>>

\* The reader takes a reply to a request of its own session.
LEMMA ReadReplyDoes ==
    ASSUME Sound, NEW s \in Sessions, NEW r \in Requests, NEW kind \in Kinds, ReadReply(s, r, kind)
    PROVE  Reads(s, r, kind)
  BY DEF Sound, TypeOK, HomesOK, ReadReply, Reads, Written, cleaning, caller
-----------------------------------------------------------------------------
(* Each part of the invariant is kept by every step.                       *)

\* Types are kept.
LEMMA TypeStep ==
    ASSUME Sound, Next
    PROVE  TypeOK'
  <1>1. ASSUME NEW s \in Sessions, Enter(s)
        PROVE  TypeOK'
    BY <1>1 DEF Sound, TypeOK, Enter, session, cleaning, reading, caller, history
  <1>2. ASSUME NEW s \in Sessions, Connected(s)
        PROVE  TypeOK'
    BY <1>2 DEF Sound, TypeOK, Connected, session, cleaning, reading, caller, history
  <1>3. ASSUME NEW s \in Sessions, Break(s)
        PROVE  TypeOK'
    BY <1>3 DEF Sound, TypeOK, Break, session, cleaning, reading, caller, history
  <1>4. ASSUME NEW s \in Sessions, FindBroken(s)
        PROVE  TypeOK'
    BY <1>4 DEF Sound, TypeOK, FindBroken, CloseClosed, session, cleaning, reading, caller, history
  <1>5. ASSUME NEW s \in Sessions, HeartbeatFails(s)
        PROVE  TypeOK'
    BY <1>5 DEF Sound, TypeOK, HeartbeatFails, CloseClosed, session, cleaning, reading, caller, history
  <1>6. ASSUME Stop
        PROVE  TypeOK'
    BY <1>6 DEF Sound, TypeOK, Stop, session, cleaning, reading, caller, history
  <1>7. ASSUME NEW s \in Sessions, StopSession(s)
        PROVE  TypeOK'
    BY <1>7 DEF Sound, TypeOK, StopSession, CloseClosed, session, cleaning, reading, caller, history
  <1>8. ASSUME NEW s \in Sessions, Visit(s)
        PROVE  TypeOK'
    BY <1>8 DEF Sound, TypeOK, Visit, session, cleaning, reading, caller, history
  <1>9. ASSUME NEW s \in Sessions, CloseRequest(s)
        PROVE  TypeOK'
    <2>1. UNCHANGED <<handler, sessions, stopping, served, broken, mode>> /\ crashed' \in BOOLEAN
      BY <1>9 DEF CloseRequest, Crash, Sound, TypeOK, session, caller
    <2>2. CASE Nothing
      BY <2>1, <2>2 DEF Sound, TypeOK, Nothing, Still
    <2>3. CASE Closes(s)
      <3>1. dropped' \subseteq Requests /\ visited' \in [Sessions -> SUBSET Requests]
            /\ held' \in [Sessions -> Requests \cup {NoRequest}] /\ shut' \subseteq Requests
        BY <2>3 DEF Sound, TypeOK, Closes, Added
      <3> QED BY <2>1, <2>3, <3>1 DEF Sound, TypeOK, Closes, Still
    <2> QED BY <1>9, <2>2, <2>3, CloseRequestDoes
  <1>10. ASSUME NEW s \in Sessions, Reset(s)
        PROVE  TypeOK'
    BY <1>10 DEF Sound, TypeOK, Reset, session, cleaning, reading, caller, history
  <1>11. ASSUME NEW s \in Sessions, Unmap(s)
        PROVE  TypeOK'
    BY <1>11 DEF Sound, TypeOK, Unmap, session, cleaning, reading, caller, history
  <1>12. ASSUME NEW s \in Sessions, Disconnected(s)
        PROVE  TypeOK'
    BY <1>12 DEF Sound, TypeOK, Disconnected, session, cleaning, reading, caller, history
  <1>13. ASSUME NEW s \in Sessions, Dispatch(s)
        PROVE  TypeOK'
    <2>1. UNCHANGED <<handler, sessions, stopping, served, broken, mode>> /\ crashed' \in BOOLEAN
      BY <1>13 DEF Dispatch, Crash, Sound, TypeOK, session, caller
    <2>2. CASE Nothing
      BY <2>1, <2>2 DEF Sound, TypeOK, Nothing, Still
    <2>3. CASE Dispatches(s)
      <3>1. dropped' \subseteq Requests /\ reader' \in [Sessions -> {"idle", "put", "remove"}]
        BY <2>3 DEF Sound, TypeOK, Dispatches, Added
      <3> QED BY <2>1, <2>3, <3>1 DEF Sound, TypeOK, Dispatches, Still
    <2> QED BY <1>13, <2>2, <2>3, DispatchDoes
  <1>14. ASSUME NEW s \in Sessions, RemoveEnded(s)
        PROVE  TypeOK'
    <2>1. reply[s].req \in Requests
      BY <1>14 DEF Sound, HomesOK, RemoveEnded
    <2>2. pending' \in [Sessions -> SUBSET Requests] /\ shut' \subseteq Requests
      BY <1>14, <2>1 DEF Sound, TypeOK, RemoveEnded, TakeOut
    <2>3. reader' \in [Sessions -> {"idle", "put", "remove"}]
      BY <1>14 DEF Sound, TypeOK, RemoveEnded
    <2> QED BY <1>14, <2>2, <2>3 DEF Sound, TypeOK, RemoveEnded, session, cleaning, caller, history
  <1>15. ASSUME NEW s \in Sessions, NEW r \in Requests, NEW kind \in Kinds, ReadReply(s, r, kind)
        PROVE  TypeOK'
    <2>1. [req |-> r, msg |-> [n |-> read[r] + 1, kind |-> kind]] \in Messages
      BY DEF Sound, TypeOK, Messages, Replies
    <2>2. reply' \in [Sessions -> Messages] /\ reader' \in [Sessions -> {"idle", "put", "remove"}]
      BY <1>15, <2>1 DEF Sound, TypeOK, ReadReply, Messages
    <2>3. read' \in [Requests -> Nat] /\ ended' \in [Requests -> BOOLEAN]
      BY <1>15 DEF Sound, TypeOK, ReadReply
    <2> QED BY <1>15, <2>2, <2>3 DEF Sound, TypeOK, ReadReply, Messages, session, cleaning, caller
  <1>16. ASSUME NEW r \in Requests, Send(r)
        PROVE  TypeOK'
    BY <1>16 DEF Sound, TypeOK, Send, At, Sending, session, cleaning, reading, caller, history
  <1>17. ASSUME NEW r \in Requests, Store(r)
        PROVE  TypeOK'
    BY <1>17 DEF Sound, TypeOK, Store, At, Sending, session, cleaning, reading, caller, history
  <1>18. ASSUME NEW r \in Requests, Load(r)
        PROVE  TypeOK'
    BY <1>18 DEF Sound, TypeOK, Load, At, Sending, session, cleaning, reading, caller, history
  <1>19. ASSUME NEW r \in Requests, CheckClosed(r)
        PROVE  TypeOK'
    BY <1>19 DEF Sound, TypeOK, CheckClosed, At, Sending, session, cleaning, reading, caller, history
  <1>20. ASSUME NEW r \in Requests, Write(r)
        PROVE  TypeOK'
    <2>1. \/ pc' = [pc EXCEPT ![r] = "wait"] /\ waiter' = [waiter EXCEPT ![r] = "armed"]
          \/ pc' = [pc EXCEPT ![r] = "drop"] /\ waiter' = waiter
      BY <1>20 DEF Write, At
    <2>2. /\ pc' \in [Requests -> {"new", "store", "load", "check", "write", "drop", "wait", "over", "panicked"}]
          /\ waiter' \in [Requests -> {"none", "armed", "gone"}]
      <3>1. /\ pc \in [Requests -> {"new", "store", "load", "check", "write", "drop", "wait", "over", "panicked"}]
            /\ waiter \in [Requests -> {"none", "armed", "gone"}]
        BY DEF Sound, TypeOK
      <3>2. CASE pc' = [pc EXCEPT ![r] = "wait"] /\ waiter' = [waiter EXCEPT ![r] = "armed"]
        BY <3>1, <3>2
      <3>3. CASE pc' = [pc EXCEPT ![r] = "drop"] /\ waiter' = waiter
        BY <3>1, <3>3
      <3> QED BY <2>1, <3>2, <3>3
    <2> QED BY <1>20, <2>2 DEF Sound, TypeOK, Write, Sending, session, cleaning, reading
  <1>21. ASSUME NEW r \in Requests, Withdraw(r)
        PROVE  TypeOK'
    BY <1>21 DEF Sound, TypeOK, Withdraw, TakeOut, At, Sending, session, cleaning, reading, caller, history
  <1>22. ASSUME NEW r \in Requests, Receive(r)
        PROVE  TypeOK'
    <2> DEFINE m == Head(chan[r])
    <2>1. /\ m \in Replies /\ Tail(chan[r]) \in Seq(Replies) /\ Len(Tail(chan[r])) = Len(chan[r]) - 1
          /\ Len(chan[r]) \in Nat
      BY <1>22, HeadTailProperties, LenProperties DEF Sound, TypeOK, Receive
    <2>2. chan' = [chan EXCEPT ![r] = Tail(chan[r])]
      BY <1>22 DEF Receive
    <2>3. chan' \in [Requests -> Seq(Replies)] /\ \A q \in Requests : Len(chan'[q]) <= Slots
      BY <2>1, <2>2, RelayAssumption DEF Sound, TypeOK
    <2>4. got' = [got EXCEPT ![r] = IF m.kind = "lost" THEN got[r] ELSE Append(got[r], m.n)]
      BY <1>22 DEF Receive
    <2>5. got[r] \in Seq(Nat) /\ Append(got[r], m.n) \in Seq(Nat)
      BY <2>1, AppendProperties DEF Sound, TypeOK, Replies
    <2>6. got' \in [Requests -> Seq(Nat)]
      BY <2>4, <2>5 DEF Sound, TypeOK
    <2>7. /\ outcome' \in [Requests -> {"none", "complete", "failed", "cancelled"}]
          /\ pc' \in [Requests -> {"new", "store", "load", "check", "write", "drop", "wait", "over", "panicked"}]
      BY <1>22 DEF Sound, TypeOK, Receive, At, Result
    <2> QED BY <1>22, <2>3, <2>6, <2>7 DEF Sound, TypeOK, Receive, Taking, session, cleaning, reading
  <1>23. ASSUME NEW r \in Requests, ReceiveClosed(r)
        PROVE  TypeOK'
    BY <1>23 DEF Sound, TypeOK, ReceiveClosed, At, Taking, session, cleaning, reading, caller, history
  <1>24. ASSUME NEW r \in Requests, ReceiveDone(r)
        PROVE  TypeOK'
    BY <1>24 DEF Sound, TypeOK, ReceiveDone, At, Taking, session, cleaning, reading, caller, history
  <1>25. ASSUME NEW r \in Requests, GiveUp(r)
        PROVE  TypeOK'
    BY <1>25 DEF Sound, TypeOK, GiveUp, TakeOut, Sending, session, cleaning, reading, caller, history
  <1>26. ASSUME NEW r \in Requests, StandDown(r)
        PROVE  TypeOK'
    BY <1>26 DEF Sound, TypeOK, StandDown, Sending, session, cleaning, reading, caller, history
  <1>27. ASSUME NEW r \in Requests, Cancel(r)
        PROVE  TypeOK'
    BY <1>27 DEF Sound, TypeOK, Cancel, Sending, session, cleaning, reading, caller, history
  <1> QED BY <1>1, <1>2, <1>3, <1>4, <1>5, <1>6, <1>7, <1>8, <1>9, <1>10, <1>11, <1>12, <1>13, <1>14, <1>15, <1>16,
         <1>17, <1>18, <1>19, <1>20, <1>21, <1>22, <1>23, <1>24, <1>25, <1>26, <1>27
     DEF Next, CleanerStep, ReaderStep, SendStep, CallerStep, WaiterStep

\* A session handles only its own requests.
LEMMA HomesOKStep ==
    ASSUME Sound, Next
    PROVE  HomesOK'
  <1>1. ASSUME NEW s \in Sessions, Enter(s)
        PROVE  HomesOK'
    BY <1>1 DEF Sound, TypeOK, HomesOK, Enter, session, cleaning, reading, caller, history
  <1>2. ASSUME NEW s \in Sessions, Connected(s)
        PROVE  HomesOK'
    BY <1>2 DEF Sound, TypeOK, HomesOK, Connected, session, cleaning, reading, caller, history
  <1>3. ASSUME NEW s \in Sessions, Break(s)
        PROVE  HomesOK'
    BY <1>3 DEF Sound, TypeOK, HomesOK, Break, session, cleaning, reading, caller, history
  <1>4. ASSUME NEW s \in Sessions, FindBroken(s)
        PROVE  HomesOK'
    BY <1>4 DEF Sound, TypeOK, HomesOK, FindBroken, CloseClosed, session, cleaning, reading, caller, history
  <1>5. ASSUME NEW s \in Sessions, HeartbeatFails(s)
        PROVE  HomesOK'
    BY <1>5 DEF Sound, TypeOK, HomesOK, HeartbeatFails, CloseClosed, session, cleaning, reading, caller, history
  <1>6. ASSUME Stop
        PROVE  HomesOK'
    BY <1>6 DEF Sound, TypeOK, HomesOK, Stop, session, cleaning, reading, caller, history
  <1>7. ASSUME NEW s \in Sessions, StopSession(s)
        PROVE  HomesOK'
    BY <1>7 DEF Sound, TypeOK, HomesOK, StopSession, CloseClosed, session, cleaning, reading, caller, history
  <1>8. ASSUME NEW s \in Sessions, Visit(s)
        PROVE  HomesOK'
    BY <1>8 DEF Sound, TypeOK, HomesOK, Visit, session, cleaning, reading, caller, history
  <1>9. ASSUME NEW s \in Sessions, CloseRequest(s)
        PROVE  HomesOK'
    <2>1. Nothing \/ Closes(s)
      BY <1>9, CloseRequestDoes
    <2>2. CASE Nothing
      BY <2>2 DEF Sound, HomesOK, Nothing, Still
    <2>3. CASE Closes(s)
      BY <2>3 DEF Sound, TypeOK, HomesOK, Closes, Still
    <2> QED BY <2>1, <2>2, <2>3
  <1>10. ASSUME NEW s \in Sessions, Reset(s)
        PROVE  HomesOK'
    BY <1>10 DEF Sound, TypeOK, HomesOK, Reset, session, cleaning, reading, caller, history
  <1>11. ASSUME NEW s \in Sessions, Unmap(s)
        PROVE  HomesOK'
    BY <1>11 DEF Sound, TypeOK, HomesOK, Unmap, session, cleaning, reading, caller, history
  <1>12. ASSUME NEW s \in Sessions, Disconnected(s)
        PROVE  HomesOK'
    BY <1>12 DEF Sound, TypeOK, HomesOK, Disconnected, session, cleaning, reading, caller, history
  <1>13. ASSUME NEW s \in Sessions, Dispatch(s)
        PROVE  HomesOK'
    <2>1. Nothing \/ Dispatches(s)
      BY <1>13, DispatchDoes
    <2>2. CASE Nothing
      BY <2>2 DEF Sound, HomesOK, Nothing, Still
    <2>3. CASE Dispatches(s)
      BY <2>3 DEF Sound, TypeOK, HomesOK, Dispatches, Still
    <2> QED BY <2>1, <2>2, <2>3
  <1>14. ASSUME NEW s \in Sessions, RemoveEnded(s)
        PROVE  HomesOK'
    BY <1>14 DEF Sound, TypeOK, HomesOK, RemoveEnded, TakeOut, session, cleaning, reading, caller, history
  <1>15. ASSUME NEW s \in Sessions, NEW r \in Requests, NEW kind \in Kinds, ReadReply(s, r, kind)
        PROVE  HomesOK'
    <2>3. Reads(s, r, kind)
      BY <1>15, ReadReplyDoes DEF Sound
    <2>1. \A t \in Sessions : \A q \in pending'[t] : home'[q] = t
      BY <2>3 DEF Sound, HomesOK, Reads
    <2>2. \A t \in Sessions : held'[t] # NoRequest => home'[held'[t]] = t
      BY <2>3 DEF Sound, HomesOK, Reads
    <2>4. \A t \in Sessions : reader'[t] # "idle" => reply'[t].req \in Requests /\ home'[reply'[t].req] = t
      BY <2>3 DEF Sound, HomesOK, Reads
    <2> QED BY <2>1, <2>2, <2>4 DEF HomesOK
  <1>16. ASSUME NEW r \in Requests, Send(r)
        PROVE  HomesOK'
    BY <1>16 DEF Sound, TypeOK, HomesOK, Send, At, Sending, session, cleaning, reading, caller, history
  <1>17. ASSUME NEW r \in Requests, Store(r)
        PROVE  HomesOK'
    BY <1>17 DEF Sound, TypeOK, HomesOK, Store, At, Sending, session, cleaning, reading, caller, history
  <1>18. ASSUME NEW r \in Requests, Load(r)
        PROVE  HomesOK'
    BY <1>18 DEF Sound, TypeOK, HomesOK, Load, At, Sending, session, cleaning, reading, caller, history
  <1>19. ASSUME NEW r \in Requests, CheckClosed(r)
        PROVE  HomesOK'
    BY <1>19 DEF Sound, TypeOK, HomesOK, CheckClosed, At, Sending, session, cleaning, reading, caller, history
  <1>20. ASSUME NEW r \in Requests, Write(r)
        PROVE  HomesOK'
    BY <1>20 DEF Sound, TypeOK, HomesOK, Write, At, Sending, session, cleaning, reading, caller, history
  <1>21. ASSUME NEW r \in Requests, Withdraw(r)
        PROVE  HomesOK'
    BY <1>21 DEF Sound, TypeOK, HomesOK, Withdraw, TakeOut, At, Sending, session, cleaning, reading, caller, history
  <1>22. ASSUME NEW r \in Requests, Receive(r)
        PROVE  HomesOK'
    <2>3. Receives(r, chan[r][1])
      BY <1>22, ReceiveDoes DEF Sound
    <2> QED BY <2>3 DEF Sound, TypeOK, HomesOK, Receives
  <1>23. ASSUME NEW r \in Requests, ReceiveClosed(r)
        PROVE  HomesOK'
    BY <1>23 DEF Sound, TypeOK, HomesOK, ReceiveClosed, At, Taking, session, cleaning, reading, caller, history
  <1>24. ASSUME NEW r \in Requests, ReceiveDone(r)
        PROVE  HomesOK'
    BY <1>24 DEF Sound, TypeOK, HomesOK, ReceiveDone, At, Taking, session, cleaning, reading, caller, history
  <1>25. ASSUME NEW r \in Requests, GiveUp(r)
        PROVE  HomesOK'
    BY <1>25 DEF Sound, TypeOK, HomesOK, GiveUp, TakeOut, Sending, session, cleaning, reading, caller, history
  <1>26. ASSUME NEW r \in Requests, StandDown(r)
        PROVE  HomesOK'
    BY <1>26 DEF Sound, TypeOK, HomesOK, StandDown, Sending, session, cleaning, reading, caller, history
  <1>27. ASSUME NEW r \in Requests, Cancel(r)
        PROVE  HomesOK'
    BY <1>27 DEF Sound, TypeOK, HomesOK, Cancel, Sending, session, cleaning, reading, caller, history
  <1> QED BY <1>1, <1>2, <1>3, <1>4, <1>5, <1>6, <1>7, <1>8, <1>9, <1>10, <1>11, <1>12, <1>13, <1>14, <1>15, <1>16,
         <1>17, <1>18, <1>19, <1>20, <1>21, <1>22, <1>23, <1>24, <1>25, <1>26, <1>27
     DEF Next, CleanerStep, ReaderStep, SendStep, CallerStep, WaiterStep

\* Who passes the check is looked through: closed is closed before the Range begins.
LEMMA PassedOKStep ==
    ASSUME Sound, PassedOK, Next
    PROVE  PassedOK'
  <1>1. ASSUME NEW s \in Sessions, Enter(s)
        PROVE  PassedOK'
    BY <1>1 DEF Sound, TypeOK, HomesOK, PassedOK, Enter, session, cleaning, reading, caller, history
  <1>2. ASSUME NEW s \in Sessions, Connected(s)
        PROVE  PassedOK'
    BY <1>2 DEF Sound, TypeOK, HomesOK, PassedOK, Connected, session, cleaning, reading, caller, history
  <1>3. ASSUME NEW s \in Sessions, Break(s)
        PROVE  PassedOK'
    BY <1>3 DEF Sound, TypeOK, HomesOK, PassedOK, Break, session, cleaning, reading, caller, history
  <1>4. ASSUME NEW s \in Sessions, FindBroken(s)
        PROVE  PassedOK'
    BY <1>4 DEF Sound, TypeOK, HomesOK, PassedOK, FindBroken, CloseClosed, session, cleaning, reading, caller, history
  <1>5. ASSUME NEW s \in Sessions, HeartbeatFails(s)
        PROVE  PassedOK'
    BY <1>5 DEF Sound, TypeOK, HomesOK, PassedOK, HeartbeatFails, CloseClosed, session, cleaning, reading, caller,
       history
  <1>6. ASSUME Stop
        PROVE  PassedOK'
    BY <1>6 DEF Sound, TypeOK, HomesOK, PassedOK, Stop, session, cleaning, reading, caller, history
  <1>7. ASSUME NEW s \in Sessions, StopSession(s)
        PROVE  PassedOK'
    BY <1>7 DEF Sound, TypeOK, HomesOK, PassedOK, StopSession, CloseClosed, session, cleaning, reading, caller,
       history
  <1>8. ASSUME NEW s \in Sessions, Visit(s)
        PROVE  PassedOK'
    BY <1>8 DEF Sound, TypeOK, HomesOK, PassedOK, Visit, session, cleaning, reading, caller, history
  <1>9. ASSUME NEW s \in Sessions, CloseRequest(s)
        PROVE  PassedOK'
    <2>1. Nothing \/ Closes(s)
      BY <1>9, CloseRequestDoes
    <2>2. CASE Nothing
      BY <2>2 DEF Sound, PassedOK, Nothing, Still
    <2>3. CASE Closes(s)
      BY <2>3 DEF Sound, TypeOK, HomesOK, PassedOK, Closes, Still
    <2> QED BY <2>1, <2>2, <2>3
  <1>10. ASSUME NEW s \in Sessions, Reset(s)
        PROVE  PassedOK'
    BY <1>10 DEF Sound, TypeOK, HomesOK, PassedOK, Reset, session, cleaning, reading, caller, history
  <1>11. ASSUME NEW s \in Sessions, Unmap(s)
        PROVE  PassedOK'
    BY <1>11 DEF Sound, TypeOK, HomesOK, PassedOK, Unmap, session, cleaning, reading, caller, history
  <1>12. ASSUME NEW s \in Sessions, Disconnected(s)
        PROVE  PassedOK'
    BY <1>12 DEF Sound, TypeOK, HomesOK, PassedOK, Disconnected, session, cleaning, reading, caller, history
  <1>13. ASSUME NEW s \in Sessions, Dispatch(s)
        PROVE  PassedOK'
    <2>1. Nothing \/ Dispatches(s)
      BY <1>13, DispatchDoes
    <2>2. CASE Nothing
      BY <2>2 DEF Sound, PassedOK, Nothing, Still
    <2>3. CASE Dispatches(s)
      BY <2>3 DEF Sound, TypeOK, HomesOK, PassedOK, Dispatches, Still
    <2> QED BY <2>1, <2>2, <2>3
  <1>14. ASSUME NEW s \in Sessions, RemoveEnded(s)
        PROVE  PassedOK'
    BY <1>14 DEF Sound, TypeOK, HomesOK, PassedOK, RemoveEnded, TakeOut, session, cleaning, reading, caller, history
  <1>15. ASSUME NEW s \in Sessions, NEW r \in Requests, NEW kind \in Kinds, ReadReply(s, r, kind)
        PROVE  PassedOK'
    <2>3. Reads(s, r, kind)
      BY <1>15, ReadReplyDoes DEF Sound
    <2> QED BY <2>3 DEF Sound, TypeOK, HomesOK, PassedOK, Reads
  <1>16. ASSUME NEW r \in Requests, Send(r)
        PROVE  PassedOK'
    BY <1>16 DEF Sound, TypeOK, HomesOK, PassedOK, Send, At, Sending, session, cleaning, reading, caller, history
  <1>17. ASSUME NEW r \in Requests, Store(r)
        PROVE  PassedOK'
    BY <1>17 DEF Sound, TypeOK, HomesOK, PassedOK, Store, At, Sending, session, cleaning, reading, caller, history
  <1>18. ASSUME NEW r \in Requests, Load(r)
        PROVE  PassedOK'
    BY <1>18 DEF Sound, TypeOK, HomesOK, PassedOK, Load, At, Sending, session, cleaning, reading, caller, history
  <1>19. ASSUME NEW r \in Requests, CheckClosed(r)
        PROVE  PassedOK'
    BY <1>19 DEF Sound, TypeOK, HomesOK, PassedOK, CheckClosed, At, Sending, session, cleaning, reading, caller,
       history
  <1>20. ASSUME NEW r \in Requests, Write(r)
        PROVE  PassedOK'
    BY <1>20 DEF Sound, TypeOK, HomesOK, PassedOK, Write, At, Sending, session, cleaning, reading, caller, history
  <1>21. ASSUME NEW r \in Requests, Withdraw(r)
        PROVE  PassedOK'
    BY <1>21 DEF Sound, TypeOK, HomesOK, PassedOK, Withdraw, TakeOut, At, Sending, session, cleaning, reading,
       caller, history
  <1>22. ASSUME NEW r \in Requests, Receive(r)
        PROVE  PassedOK'
    <2>3. Receives(r, chan[r][1])
      BY <1>22, ReceiveDoes DEF Sound
    <2> QED BY <2>3 DEF Sound, TypeOK, HomesOK, PassedOK, Receives
  <1>23. ASSUME NEW r \in Requests, ReceiveClosed(r)
        PROVE  PassedOK'
    BY <1>23 DEF Sound, TypeOK, HomesOK, PassedOK, ReceiveClosed, At, Taking, session, cleaning, reading, caller,
       history
  <1>24. ASSUME NEW r \in Requests, ReceiveDone(r)
        PROVE  PassedOK'
    BY <1>24 DEF Sound, TypeOK, HomesOK, PassedOK, ReceiveDone, At, Taking, session, cleaning, reading, caller,
       history
  <1>25. ASSUME NEW r \in Requests, GiveUp(r)
        PROVE  PassedOK'
    BY <1>25 DEF Sound, TypeOK, HomesOK, PassedOK, GiveUp, TakeOut, Sending, session, cleaning, reading, caller,
       history
  <1>26. ASSUME NEW r \in Requests, StandDown(r)
        PROVE  PassedOK'
    BY <1>26 DEF Sound, TypeOK, HomesOK, PassedOK, StandDown, Sending, session, cleaning, reading, caller, history
  <1>27. ASSUME NEW r \in Requests, Cancel(r)
        PROVE  PassedOK'
    BY <1>27 DEF Sound, TypeOK, HomesOK, PassedOK, Cancel, Sending, session, cleaning, reading, caller, history
  <1> QED BY <1>1, <1>2, <1>3, <1>4, <1>5, <1>6, <1>7, <1>8, <1>9, <1>10, <1>11, <1>12, <1>13, <1>14, <1>15, <1>16,
         <1>17, <1>18, <1>19, <1>20, <1>21, <1>22, <1>23, <1>24, <1>25, <1>26, <1>27
     DEF Next, CleanerStep, ReaderStep, SendStep, CallerStep, WaiterStep

\* A caller is told once.
LEMMA CallsOKStep ==
    ASSUME Sound, CallsOK, Next
    PROVE  CallsOK'
  <1>1. ASSUME NEW s \in Sessions, Enter(s)
        PROVE  CallsOK'
    BY <1>1 DEF Sound, TypeOK, HomesOK, CallsOK, Enter, session, cleaning, reading, caller, history
  <1>2. ASSUME NEW s \in Sessions, Connected(s)
        PROVE  CallsOK'
    BY <1>2 DEF Sound, TypeOK, HomesOK, CallsOK, Connected, session, cleaning, reading, caller, history
  <1>3. ASSUME NEW s \in Sessions, Break(s)
        PROVE  CallsOK'
    BY <1>3 DEF Sound, TypeOK, HomesOK, CallsOK, Break, session, cleaning, reading, caller, history
  <1>4. ASSUME NEW s \in Sessions, FindBroken(s)
        PROVE  CallsOK'
    BY <1>4 DEF Sound, TypeOK, HomesOK, CallsOK, FindBroken, CloseClosed, session, cleaning, reading, caller, history
  <1>5. ASSUME NEW s \in Sessions, HeartbeatFails(s)
        PROVE  CallsOK'
    BY <1>5 DEF Sound, TypeOK, HomesOK, CallsOK, HeartbeatFails, CloseClosed, session, cleaning, reading, caller,
       history
  <1>6. ASSUME Stop
        PROVE  CallsOK'
    BY <1>6 DEF Sound, TypeOK, HomesOK, CallsOK, Stop, session, cleaning, reading, caller, history
  <1>7. ASSUME NEW s \in Sessions, StopSession(s)
        PROVE  CallsOK'
    BY <1>7 DEF Sound, TypeOK, HomesOK, CallsOK, StopSession, CloseClosed, session, cleaning, reading, caller, history
  <1>8. ASSUME NEW s \in Sessions, Visit(s)
        PROVE  CallsOK'
    BY <1>8 DEF Sound, TypeOK, HomesOK, CallsOK, Visit, session, cleaning, reading, caller, history
  <1>9. ASSUME NEW s \in Sessions, CloseRequest(s)
        PROVE  CallsOK'
    <2>1. Nothing \/ Closes(s)
      BY <1>9, CloseRequestDoes
    <2>2. CASE Nothing
      BY <2>2 DEF Sound, CallsOK, Nothing, Still
    <2>3. CASE Closes(s)
      BY <2>3 DEF Sound, TypeOK, HomesOK, CallsOK, Closes, Still
    <2> QED BY <2>1, <2>2, <2>3
  <1>10. ASSUME NEW s \in Sessions, Reset(s)
        PROVE  CallsOK'
    BY <1>10 DEF Sound, TypeOK, HomesOK, CallsOK, Reset, session, cleaning, reading, caller, history
  <1>11. ASSUME NEW s \in Sessions, Unmap(s)
        PROVE  CallsOK'
    BY <1>11 DEF Sound, TypeOK, HomesOK, CallsOK, Unmap, session, cleaning, reading, caller, history
  <1>12. ASSUME NEW s \in Sessions, Disconnected(s)
        PROVE  CallsOK'
    BY <1>12 DEF Sound, TypeOK, HomesOK, CallsOK, Disconnected, session, cleaning, reading, caller, history
  <1>13. ASSUME NEW s \in Sessions, Dispatch(s)
        PROVE  CallsOK'
    <2>1. Nothing \/ Dispatches(s)
      BY <1>13, DispatchDoes
    <2>2. CASE Nothing
      BY <2>2 DEF Sound, CallsOK, Nothing, Still
    <2>3. CASE Dispatches(s)
      BY <2>3 DEF Sound, TypeOK, HomesOK, CallsOK, Dispatches, Still
    <2> QED BY <2>1, <2>2, <2>3
  <1>14. ASSUME NEW s \in Sessions, RemoveEnded(s)
        PROVE  CallsOK'
    BY <1>14 DEF Sound, TypeOK, HomesOK, CallsOK, RemoveEnded, TakeOut, session, cleaning, reading, caller, history
  <1>15. ASSUME NEW s \in Sessions, NEW r \in Requests, NEW kind \in Kinds, ReadReply(s, r, kind)
        PROVE  CallsOK'
    <2>3. Reads(s, r, kind)
      BY <1>15, ReadReplyDoes DEF Sound
    <2> QED BY <2>3 DEF Sound, TypeOK, HomesOK, CallsOK, Reads
  <1>16. ASSUME NEW r \in Requests, Send(r)
        PROVE  CallsOK'
    BY <1>16 DEF Sound, TypeOK, HomesOK, CallsOK, Send, At, Sending, session, cleaning, reading, caller, history
  <1>17. ASSUME NEW r \in Requests, Store(r)
        PROVE  CallsOK'
    BY <1>17 DEF Sound, TypeOK, HomesOK, CallsOK, Store, At, Sending, session, cleaning, reading, caller, history
  <1>18. ASSUME NEW r \in Requests, Load(r)
        PROVE  CallsOK'
    BY <1>18 DEF Sound, TypeOK, HomesOK, CallsOK, Load, At, Sending, session, cleaning, reading, caller, history
  <1>19. ASSUME NEW r \in Requests, CheckClosed(r)
        PROVE  CallsOK'
    BY <1>19 DEF Sound, TypeOK, HomesOK, CallsOK, CheckClosed, At, Sending, session, cleaning, reading, caller,
       history
  <1>20. ASSUME NEW r \in Requests, Write(r)
        PROVE  CallsOK'
    BY <1>20 DEF Sound, TypeOK, HomesOK, CallsOK, Write, At, Sending, session, cleaning, reading, caller, history
  <1>21. ASSUME NEW r \in Requests, Withdraw(r)
        PROVE  CallsOK'
    BY <1>21 DEF Sound, TypeOK, HomesOK, CallsOK, Withdraw, TakeOut, At, Sending, session, cleaning, reading, caller,
       history
  <1>22. ASSUME NEW r \in Requests, Receive(r)
        PROVE  CallsOK'
    <2>3. Receives(r, chan[r][1])
      BY <1>22, ReceiveDoes DEF Sound
    <2> QED BY <2>3 DEF Sound, TypeOK, CallsOK, Receives, Result
  <1>23. ASSUME NEW r \in Requests, ReceiveClosed(r)
        PROVE  CallsOK'
    BY <1>23 DEF Sound, TypeOK, HomesOK, CallsOK, ReceiveClosed, At, Taking, session, cleaning, reading, caller,
       history
  <1>24. ASSUME NEW r \in Requests, ReceiveDone(r)
        PROVE  CallsOK'
    BY <1>24 DEF Sound, TypeOK, HomesOK, CallsOK, ReceiveDone, At, Taking, session, cleaning, reading, caller, history
  <1>25. ASSUME NEW r \in Requests, GiveUp(r)
        PROVE  CallsOK'
    BY <1>25 DEF Sound, TypeOK, HomesOK, CallsOK, GiveUp, TakeOut, Sending, session, cleaning, reading, caller,
       history
  <1>26. ASSUME NEW r \in Requests, StandDown(r)
        PROVE  CallsOK'
    BY <1>26 DEF Sound, TypeOK, HomesOK, CallsOK, StandDown, Sending, session, cleaning, reading, caller, history
  <1>27. ASSUME NEW r \in Requests, Cancel(r)
        PROVE  CallsOK'
    BY <1>27 DEF Sound, TypeOK, HomesOK, CallsOK, Cancel, Sending, session, cleaning, reading, caller, history
  <1> QED BY <1>1, <1>2, <1>3, <1>4, <1>5, <1>6, <1>7, <1>8, <1>9, <1>10, <1>11, <1>12, <1>13, <1>14, <1>15, <1>16,
         <1>17, <1>18, <1>19, <1>20, <1>21, <1>22, <1>23, <1>24, <1>25, <1>26, <1>27
     DEF Next, CleanerStep, ReaderStep, SendStep, CallerStep, WaiterStep

\* What the reader holds is later than what is in the channel.
LEMMA ReadersOKStep ==
    ASSUME Sound, CallsOK, ReadersOK, EndsOK, ChannelsOK, ShutOK, Next
    PROVE  ReadersOK'
  <1>1. ASSUME NEW s \in Sessions, Enter(s)
        PROVE  ReadersOK'
    BY <1>1 DEF Sound, TypeOK, HomesOK, ReadersOK, Latecomer, EndsOK, ChannelsOK, Answered, Excused, Latest, Enter,
       session, cleaning, reading, caller, history
  <1>2. ASSUME NEW s \in Sessions, Connected(s)
        PROVE  ReadersOK'
    BY <1>2 DEF Sound, TypeOK, HomesOK, ReadersOK, Latecomer, EndsOK, ChannelsOK, Answered, Excused, Latest,
       Connected, session, cleaning, reading, caller, history
  <1>3. ASSUME NEW s \in Sessions, Break(s)
        PROVE  ReadersOK'
    BY <1>3 DEF Sound, TypeOK, HomesOK, ReadersOK, Latecomer, EndsOK, ChannelsOK, Answered, Excused, Latest, Break,
       session, cleaning, reading, caller, history
  <1>4. ASSUME NEW s \in Sessions, FindBroken(s)
        PROVE  ReadersOK'
    BY <1>4 DEF Sound, TypeOK, HomesOK, ReadersOK, Latecomer, EndsOK, ChannelsOK, Answered, Excused, Latest,
       FindBroken, CloseClosed, session, cleaning, reading, caller, history
  <1>5. ASSUME NEW s \in Sessions, HeartbeatFails(s)
        PROVE  ReadersOK'
    BY <1>5 DEF Sound, TypeOK, HomesOK, ReadersOK, Latecomer, EndsOK, ChannelsOK, Answered, Excused, Latest,
       HeartbeatFails, CloseClosed, session, cleaning, reading, caller, history
  <1>6. ASSUME Stop
        PROVE  ReadersOK'
    BY <1>6 DEF Sound, TypeOK, HomesOK, ReadersOK, Latecomer, EndsOK, ChannelsOK, Answered, Excused, Latest, Stop,
       session, cleaning, reading, caller, history
  <1>7. ASSUME NEW s \in Sessions, StopSession(s)
        PROVE  ReadersOK'
    BY <1>7 DEF Sound, TypeOK, HomesOK, ReadersOK, Latecomer, EndsOK, ChannelsOK, Answered, Excused, Latest,
       StopSession, CloseClosed, session, cleaning, reading, caller, history
  <1>8. ASSUME NEW s \in Sessions, Visit(s)
        PROVE  ReadersOK'
    BY <1>8 DEF Sound, TypeOK, HomesOK, ReadersOK, Latecomer, EndsOK, ChannelsOK, Answered, Excused, Latest, Visit,
       session, cleaning, reading, caller, history
  <1>9. ASSUME NEW s \in Sessions, CloseRequest(s)
        PROVE  ReadersOK'
    <2>1. Nothing \/ Closes(s)
      BY <1>9, CloseRequestDoes
    <2>2. CASE Nothing
      BY <2>2 DEF Sound, ReadersOK, Latecomer, EndsOK, ChannelsOK, Answered, Excused, Latest, Nothing, Still
    <2>3. CASE Closes(s)
      <3>1. SUFFICES ASSUME NEW t \in Sessions
                     PROVE  /\ reader[t] = "put" => Latecomer(reply[t].req, reply[t].msg)'
                            /\ reader[t] = "remove" => ended[reply[t].req] /\ Answered(reply[t].req)'
        BY <2>3 DEF ReadersOK, Closes, Still
      <3>2. CASE reader[t] = "put"
        <4>1. Latecomer(reply[t].req, reply[t].msg) /\ reply[t].req \in Requests
          BY <3>2 DEF Sound, HomesOK, ReadersOK
        <4>2. Latest(reply[t].req) \in Nat
          BY <4>1 DEF ChannelsOK
        <4>3. Lost.n = 0
          BY DEF Lost
        <4>4. \A i \in 1..Len(chan'[reply[t].req]) : chan'[reply[t].req][i].n < reply[t].msg.n
          <5>1. /\ \A i \in 1..Len(chan[reply[t].req]) : chan[reply[t].req][i].n < reply[t].msg.n
                /\ Lost.n < reply[t].msg.n /\ Added(held[s], Lost)
            BY <2>3, <4>1, <4>2, <4>3 DEF Closes, Latecomer, Sound, TypeOK
          <5>2. CASE chan'[reply[t].req] = chan[reply[t].req]
            BY <5>1, <5>2
          <5>3. CASE reply[t].req = held[s] /\ Roomy(held[s])
            BY <5>1, <5>3 DEF Added
          <5> QED BY <4>1, <5>1, <5>2, <5>3 DEF Added
        <4> QED BY <2>3, <3>2, <4>1, <4>4 DEF Closes, Still, Latecomer, Latest
      <3>3. CASE reader[t] = "remove"
        <4>1. ended[reply[t].req] /\ Answered(reply[t].req) /\ reply[t].req \in Requests
          BY <3>3 DEF Sound, HomesOK, ReadersOK
        <4>2. Lost.kind # "part"
          BY DEF Lost
        <4> QED BY <2>3, <3>3, <4>1, <4>2 DEF Closes, Still, Added, Answered, Excused
      <3> QED BY <3>2, <3>3 DEF Sound, TypeOK
    <2> QED BY <2>1, <2>2, <2>3
  <1>10. ASSUME NEW s \in Sessions, Reset(s)
        PROVE  ReadersOK'
    BY <1>10 DEF Sound, TypeOK, HomesOK, ReadersOK, Latecomer, EndsOK, ChannelsOK, Answered, Excused, Latest, Reset,
       session, cleaning, reading, caller, history
  <1>11. ASSUME NEW s \in Sessions, Unmap(s)
        PROVE  ReadersOK'
    BY <1>11 DEF Sound, TypeOK, HomesOK, ReadersOK, Latecomer, EndsOK, ChannelsOK, Answered, Excused, Latest, Unmap,
       session, cleaning, reading, caller, history
  <1>12. ASSUME NEW s \in Sessions, Disconnected(s)
        PROVE  ReadersOK'
    BY <1>12 DEF Sound, TypeOK, HomesOK, ReadersOK, Latecomer, EndsOK, ChannelsOK, Answered, Excused, Latest,
       Disconnected, session, cleaning, reading, caller, history
  <1>13. ASSUME NEW s \in Sessions, Dispatch(s)
        PROVE  ReadersOK'
    <2>1. Nothing \/ Dispatches(s)
      BY <1>13, DispatchDoes
    <2>2. CASE Nothing
      BY <2>2 DEF Sound, ReadersOK, Latecomer, EndsOK, ChannelsOK, Answered, Excused, Latest, Nothing, Still
    <2>3. CASE Dispatches(s)
      <3>1. SUFFICES ASSUME NEW t \in Sessions
                     PROVE  /\ reader'[t] = "put" => Latecomer(reply[t].req, reply[t].msg)'
                            /\ reader'[t] = "remove" => ended[reply[t].req] /\ Answered(reply[t].req)'
        BY <2>3 DEF ReadersOK, Dispatches, Still
      <3>2. CASE t = s
        <4>1. /\ reader'[s] # "put" /\ (reader'[s] = "remove" => reply[s].msg.kind # "part")
              /\ Latecomer(reply[s].req, reply[s].msg)
          BY <2>3 DEF Sound, TypeOK, ReadersOK, Dispatches
        <4>2. reply[s].msg.kind # "part" => ended[reply[s].req] /\ Answered(reply[s].req)'
          <5>1. /\ ended[reply[s].req] = (reply[s].msg.kind # "part") /\ reply' = reply
                /\ Added(reply[s].req, reply[s].msg)
            BY <2>3, <4>1 DEF Dispatches, Still, Latecomer
          <5>2. CASE Roomy(reply[s].req)
            BY <5>1, <5>2 DEF Added, Answered
          <5>3. CASE ~Roomy(reply[s].req)
            BY <5>1, <5>3 DEF Added, Answered, Excused
          <5> QED BY <5>2, <5>3
        <4> QED BY <3>2, <4>1, <4>2 DEF Answered, Excused
      <3>3. CASE t # s /\ reader[t] # "idle"
        <4>1. reader'[t] = reader[t] /\ reply[t].req \in Requests \ {reply[s].req}
          BY <2>3, <3>3 DEF Sound, TypeOK, HomesOK, Dispatches
        <4>2. chan'[reply[t].req] = chan[reply[t].req] /\ dropped \subseteq dropped'
          BY <2>3, <4>1 DEF Dispatches, Added
        <4> QED BY <2>3, <4>1, <4>2 DEF ReadersOK, Dispatches, Still, Latecomer, Latest, Answered, Excused
      <3>4. CASE t # s /\ reader[t] = "idle"
        BY <2>3, <3>4 DEF Sound, TypeOK, Dispatches
      <3> QED BY <3>2, <3>3, <3>4
    <2> QED BY <2>1, <2>2, <2>3
  <1>14. ASSUME NEW s \in Sessions, RemoveEnded(s)
        PROVE  ReadersOK'
    BY <1>14 DEF Sound, TypeOK, HomesOK, ReadersOK, Latecomer, EndsOK, ChannelsOK, Answered, Excused, Latest,
       RemoveEnded, TakeOut, session, cleaning, reading, caller, history
  <1>15. ASSUME NEW s \in Sessions, NEW r \in Requests, NEW kind \in Kinds, ReadReply(s, r, kind)
        PROVE  ReadersOK'
    <2>3. Reads(s, r, kind)
      BY <1>15, ReadReplyDoes DEF Sound
    <2>4. SUFFICES ASSUME NEW t \in Sessions
                   PROVE  /\ reader'[t] = "put" => Latecomer(reply[t].req, reply[t].msg)'
                          /\ reader'[t] = "remove" => ended'[reply'[t].req] /\ Answered(reply[t].req)'
      BY DEF ReadersOK
    <2>5. CASE t = s
      <3>1. Latest(r) \in Nat /\ Latest(r) <= read[r] /\ read[r] \in Nat
        BY DEF ChannelsOK, Sound, TypeOK
      <3>2. \A i \in 1..Len(chan[r]) : chan[r][i].n <= read[r]
        BY <3>1 DEF ChannelsOK, Ready
      <3>3. Latest(r)' = Latest(r) /\ \A i \in 1..Len(chan[r]) : chan[r][i].n \in Nat
        <4>1. \A i \in 1..Len(chan[r]) : chan[r][i] \in Replies
          BY ElementOfSeq DEF Sound, TypeOK
        <4> QED BY <2>3, <4>1 DEF Reads, Latest, Replies
      <3>4. /\ reader'[s] = "put" /\ reply'[s].req = r /\ reply'[s].msg.n = read[r] + 1
            /\ reply'[s].msg.kind = kind /\ read'[r] = read[r] + 1 /\ ended'[r] = (kind # "part") /\ chan' = chan
        BY <2>3 DEF Reads
      <3>5. Latecomer(reply[s].req, reply[s].msg)'
        BY <3>1, <3>2, <3>3, <3>4 DEF Latecomer
      <3> QED BY <2>5, <3>4, <3>5
    <2>6. CASE t # s /\ reader[t] # "idle"
      <3>1. reply[t].req \in Requests \ {r}
        BY <2>3, <2>6 DEF Sound, HomesOK, Reads
      <3>2. /\ reader'[t] = reader[t] /\ reply'[t] = reply[t] /\ chan' = chan /\ got' = got
            /\ read'[reply[t].req] = read[reply[t].req] /\ ended'[reply[t].req] = ended[reply[t].req]
            /\ pc' = pc /\ cancelled' = cancelled /\ dropped' = dropped
        BY <2>3, <2>6, <3>1 DEF Reads
      <3> QED BY <3>2 DEF ReadersOK, Latecomer, Latest, Answered, Excused
    <2>7. CASE t # s /\ reader[t] = "idle"
      BY <2>3, <2>7 DEF Reads
    <2> QED BY <2>5, <2>6, <2>7
  <1>16. ASSUME NEW r \in Requests, Send(r)
        PROVE  ReadersOK'
    BY <1>16 DEF Sound, TypeOK, HomesOK, ReadersOK, Latecomer, EndsOK, ChannelsOK, Answered, Excused, Latest, Send,
       At, Sending, session, cleaning, reading, caller, history
  <1>17. ASSUME NEW r \in Requests, Store(r)
        PROVE  ReadersOK'
    BY <1>17 DEF Sound, TypeOK, HomesOK, ReadersOK, Latecomer, EndsOK, ChannelsOK, Answered, Excused, Latest, Store,
       At, Sending, session, cleaning, reading, caller, history
  <1>18. ASSUME NEW r \in Requests, Load(r)
        PROVE  ReadersOK'
    BY <1>18 DEF Sound, TypeOK, HomesOK, ReadersOK, Latecomer, EndsOK, ChannelsOK, Answered, Excused, Latest, Load,
       At, Sending, session, cleaning, reading, caller, history
  <1>19. ASSUME NEW r \in Requests, CheckClosed(r)
        PROVE  ReadersOK'
    BY <1>19 DEF Sound, TypeOK, HomesOK, ReadersOK, Latecomer, EndsOK, ChannelsOK, Answered, Excused, Latest,
       CheckClosed, At, Sending, session, cleaning, reading, caller, history
  <1>20. ASSUME NEW r \in Requests, Write(r)
        PROVE  ReadersOK'
    BY <1>20 DEF Sound, TypeOK, HomesOK, ReadersOK, Latecomer, EndsOK, ChannelsOK, Answered, Excused, Latest, Write,
       At, Sending, session, cleaning, reading, caller, history
  <1>21. ASSUME NEW r \in Requests, Withdraw(r)
        PROVE  ReadersOK'
    BY <1>21 DEF Sound, TypeOK, HomesOK, ReadersOK, Latecomer, EndsOK, ChannelsOK, Answered, Excused, Latest,
       Withdraw, TakeOut, At, Sending, session, cleaning, reading, caller, history
  <1>22. ASSUME NEW r \in Requests, Receive(r)
        PROVE  ReadersOK'
    <2>3. Receives(r, chan[r][1])
      BY <1>22, ReceiveDoes DEF Sound
    <2>4. SUFFICES ASSUME NEW t \in Sessions, reader[t] # "idle"
                   PROVE  /\ reader[t] = "put" => Latecomer(reply[t].req, reply[t].msg)'
                          /\ reader[t] = "remove" => ended[reply[t].req] /\ Answered(reply[t].req)'
      BY <2>3 DEF ReadersOK, Receives
    <2>5. PICK q \in Requests : q = reply[t].req
      BY <2>4 DEF Sound, HomesOK
    <2>6. CASE q # r
      <3>1. /\ reply' = reply /\ read' = read /\ ended' = ended /\ cancelled' = cancelled /\ dropped' = dropped
            /\ chan'[q] = chan[q] /\ Latest(q)' = Latest(q) /\ pc'[q] = pc[q]
        BY <2>3, <2>5, <2>6 DEF Receives, Sound, TypeOK
      <3>2. /\ reader[t] = "put" => Latecomer(q, reply[t].msg)
            /\ reader[t] = "remove" => ended[q] /\ Answered(q)
        BY <2>5 DEF ReadersOK
      <3>3. Latecomer(q, reply[t].msg) => Latecomer(q, reply[t].msg)'
        BY <3>1 DEF Latecomer
      <3>4. Answered(q) => Answered(q)'
        BY <3>1 DEF Answered, Excused
      <3> QED BY <2>5, <3>1, <3>2, <3>3, <3>4
    <2>7. CASE q = r
      <3>1. CASE reader[t] = "put"
        <4>1. Latecomer(r, reply[t].msg)
          BY <2>5, <2>7, <3>1 DEF ReadersOK
        <4>2. chan[r][1].n < reply[t].msg.n /\ \A i \in 1..Len(chan'[r]) : chan'[r][i].n < reply[t].msg.n
          <5>1. /\ Len(chan[r]) \in Nat \ {0} /\ Len(chan'[r]) = Len(chan[r]) - 1
                /\ \A i \in 1..Len(chan'[r]) : chan'[r][i] = chan[r][i + 1]
            BY <2>3 DEF Receives
          <5>2. \A i \in 1..Len(chan[r]) : chan[r][i].n < reply[t].msg.n
            BY <4>1 DEF Latecomer
          <5> QED BY <5>1, <5>2
        <4>3. Latest(r)' < reply[t].msg.n
          BY <2>3, <4>1, <4>2 DEF Receives, Latecomer
        <4> QED BY <2>3, <2>5, <2>7, <3>1, <4>1, <4>2, <4>3 DEF Receives, Latecomer
      <3>2. CASE reader[t] = "remove"
        <4>1. Answered(r)'
          BY <2>3, <2>5, <2>7, <3>2, LastLeft DEF ReadersOK, Sound
        <4>2. reply' = reply /\ ended[reply[t].req]
          BY <2>3, <3>2 DEF Receives, ReadersOK
        <4> QED BY <2>5, <2>7, <3>2, <4>1, <4>2 DEF Answered, Excused
      <3> QED BY <2>4, <3>1, <3>2 DEF Sound, TypeOK
    <2> QED BY <2>6, <2>7
  <1>23. ASSUME NEW r \in Requests, ReceiveClosed(r)
        PROVE  ReadersOK'
    BY <1>23 DEF Sound, TypeOK, HomesOK, ReadersOK, Latecomer, EndsOK, ChannelsOK, Answered, Excused, Latest,
       ReceiveClosed, At, Taking, session, cleaning, reading, caller, history
  <1>24. ASSUME NEW r \in Requests, ReceiveDone(r)
        PROVE  ReadersOK'
    BY <1>24 DEF Sound, TypeOK, HomesOK, ReadersOK, Latecomer, EndsOK, ChannelsOK, Answered, Excused, Latest,
       ReceiveDone, At, Taking, session, cleaning, reading, caller, history
  <1>25. ASSUME NEW r \in Requests, GiveUp(r)
        PROVE  ReadersOK'
    BY <1>25 DEF Sound, TypeOK, HomesOK, ReadersOK, Latecomer, EndsOK, ChannelsOK, Answered, Excused, Latest, GiveUp,
       TakeOut, Sending, session, cleaning, reading, caller, history
  <1>26. ASSUME NEW r \in Requests, StandDown(r)
        PROVE  ReadersOK'
    BY <1>26 DEF Sound, TypeOK, HomesOK, ReadersOK, Latecomer, EndsOK, ChannelsOK, Answered, Excused, Latest,
       StandDown, Sending, session, cleaning, reading, caller, history
  <1>27. ASSUME NEW r \in Requests, Cancel(r)
        PROVE  ReadersOK'
    BY <1>27 DEF Sound, TypeOK, HomesOK, ReadersOK, Latecomer, EndsOK, ChannelsOK, Answered, Excused, Latest, Cancel,
       Sending, session, cleaning, reading, caller, history
  <1> QED BY <1>1, <1>2, <1>3, <1>4, <1>5, <1>6, <1>7, <1>8, <1>9, <1>10, <1>11, <1>12, <1>13, <1>14, <1>15, <1>16,
         <1>17, <1>18, <1>19, <1>20, <1>21, <1>22, <1>23, <1>24, <1>25, <1>26, <1>27
     DEF Next, CleanerStep, ReaderStep, SendStep, CallerStep, WaiterStep

\* An ended request is pending only while its reader is at it.
LEMMA EndsOKStep ==
    ASSUME Sound, CallsOK, ReadersOK, EndsOK, ChannelsOK, ShutOK, Next
    PROVE  EndsOK'
  <1>1. ASSUME NEW s \in Sessions, Enter(s)
        PROVE  EndsOK'
    BY <1>1 DEF Sound, TypeOK, HomesOK, EndsOK, CallsOK, ReadersOK, Latecomer, Enter, session, cleaning, reading,
       caller, history
  <1>2. ASSUME NEW s \in Sessions, Connected(s)
        PROVE  EndsOK'
    BY <1>2 DEF Sound, TypeOK, HomesOK, EndsOK, CallsOK, ReadersOK, Latecomer, Connected, session, cleaning, reading,
       caller, history
  <1>3. ASSUME NEW s \in Sessions, Break(s)
        PROVE  EndsOK'
    BY <1>3 DEF Sound, TypeOK, HomesOK, EndsOK, CallsOK, ReadersOK, Latecomer, Break, session, cleaning, reading,
       caller, history
  <1>4. ASSUME NEW s \in Sessions, FindBroken(s)
        PROVE  EndsOK'
    BY <1>4 DEF Sound, TypeOK, HomesOK, EndsOK, CallsOK, ReadersOK, Latecomer, FindBroken, CloseClosed, session,
       cleaning, reading, caller, history
  <1>5. ASSUME NEW s \in Sessions, HeartbeatFails(s)
        PROVE  EndsOK'
    BY <1>5 DEF Sound, TypeOK, HomesOK, EndsOK, CallsOK, ReadersOK, Latecomer, HeartbeatFails, CloseClosed, session,
       cleaning, reading, caller, history
  <1>6. ASSUME Stop
        PROVE  EndsOK'
    BY <1>6 DEF Sound, TypeOK, HomesOK, EndsOK, CallsOK, ReadersOK, Latecomer, Stop, session, cleaning, reading,
       caller, history
  <1>7. ASSUME NEW s \in Sessions, StopSession(s)
        PROVE  EndsOK'
    BY <1>7 DEF Sound, TypeOK, HomesOK, EndsOK, CallsOK, ReadersOK, Latecomer, StopSession, CloseClosed, session,
       cleaning, reading, caller, history
  <1>8. ASSUME NEW s \in Sessions, Visit(s)
        PROVE  EndsOK'
    BY <1>8 DEF Sound, TypeOK, HomesOK, EndsOK, CallsOK, ReadersOK, Latecomer, Visit, session, cleaning, reading,
       caller, history
  <1>9. ASSUME NEW s \in Sessions, CloseRequest(s)
        PROVE  EndsOK'
    <2>1. Nothing \/ Closes(s)
      BY <1>9, CloseRequestDoes
    <2>2. CASE Nothing
      BY <2>2 DEF Sound, EndsOK, CallsOK, ReadersOK, Latecomer, Nothing, Still
    <2>3. CASE Closes(s)
      BY <2>3 DEF Sound, TypeOK, HomesOK, EndsOK, CallsOK, ReadersOK, Latecomer, Closes, Still
    <2> QED BY <2>1, <2>2, <2>3
  <1>10. ASSUME NEW s \in Sessions, Reset(s)
        PROVE  EndsOK'
    BY <1>10 DEF Sound, TypeOK, HomesOK, EndsOK, CallsOK, ReadersOK, Latecomer, Reset, session, cleaning, reading,
       caller, history
  <1>11. ASSUME NEW s \in Sessions, Unmap(s)
        PROVE  EndsOK'
    BY <1>11 DEF Sound, TypeOK, HomesOK, EndsOK, CallsOK, ReadersOK, Latecomer, Unmap, session, cleaning, reading,
       caller, history
  <1>12. ASSUME NEW s \in Sessions, Disconnected(s)
        PROVE  EndsOK'
    BY <1>12 DEF Sound, TypeOK, HomesOK, EndsOK, CallsOK, ReadersOK, Latecomer, Disconnected, session, cleaning,
       reading, caller, history
  <1>13. ASSUME NEW s \in Sessions, Dispatch(s)
        PROVE  EndsOK'
    <2>1. Nothing \/ Dispatches(s)
      BY <1>13, DispatchDoes
    <2>2. CASE Nothing
      BY <2>2 DEF Sound, EndsOK, CallsOK, ReadersOK, Latecomer, Nothing, Still
    <2>3. CASE Dispatches(s)
      BY <2>3 DEF Sound, TypeOK, HomesOK, EndsOK, CallsOK, ReadersOK, Latecomer, Dispatches, Still
    <2> QED BY <2>1, <2>2, <2>3
  <1>14. ASSUME NEW s \in Sessions, RemoveEnded(s)
        PROVE  EndsOK'
    BY <1>14 DEF Sound, TypeOK, HomesOK, EndsOK, CallsOK, ReadersOK, Latecomer, RemoveEnded, TakeOut, session,
       cleaning, reading, caller, history
  <1>15. ASSUME NEW s \in Sessions, NEW r \in Requests, NEW kind \in Kinds, ReadReply(s, r, kind)
        PROVE  EndsOK'
    <2>3. Reads(s, r, kind)
      BY <1>15, ReadReplyDoes DEF Sound
    <2>4. SUFFICES ASSUME NEW q \in Requests, ended'[q], q \in pending'[home'[q]]
                   PROVE  reader'[home'[q]] # "idle" /\ reply'[home'[q]].req = q
      BY DEF EndsOK
    <2>5. CASE q = r
      BY <2>3, <2>5 DEF Reads
    <2>6. CASE q # r
      <3>1. ended[q] /\ q \in pending[home[q]] /\ home'[q] = home[q] /\ home[q] \in Sessions
        BY <2>3, <2>4, <2>6 DEF Reads, Sound, TypeOK
      <3>2. reader[home[q]] # "idle" /\ reply[home[q]].req = q
        BY <3>1 DEF EndsOK
      <3> QED BY <2>3, <3>1, <3>2 DEF Reads
    <2> QED BY <2>5, <2>6
  <1>16. ASSUME NEW r \in Requests, Send(r)
        PROVE  EndsOK'
    BY <1>16 DEF Sound, TypeOK, HomesOK, EndsOK, CallsOK, ReadersOK, Latecomer, Send, At, Sending, session, cleaning,
       reading, caller, history
  <1>17. ASSUME NEW r \in Requests, Store(r)
        PROVE  EndsOK'
    BY <1>17 DEF Sound, TypeOK, HomesOK, EndsOK, CallsOK, ReadersOK, Latecomer, Store, At, Sending, session,
       cleaning, reading, caller, history
  <1>18. ASSUME NEW r \in Requests, Load(r)
        PROVE  EndsOK'
    BY <1>18 DEF Sound, TypeOK, HomesOK, EndsOK, CallsOK, ReadersOK, Latecomer, Load, At, Sending, session, cleaning,
       reading, caller, history
  <1>19. ASSUME NEW r \in Requests, CheckClosed(r)
        PROVE  EndsOK'
    BY <1>19 DEF Sound, TypeOK, HomesOK, EndsOK, CallsOK, ReadersOK, Latecomer, CheckClosed, At, Sending, session,
       cleaning, reading, caller, history
  <1>20. ASSUME NEW r \in Requests, Write(r)
        PROVE  EndsOK'
    BY <1>20 DEF Sound, TypeOK, HomesOK, EndsOK, CallsOK, ReadersOK, Latecomer, Write, At, Sending, session,
       cleaning, reading, caller, history
  <1>21. ASSUME NEW r \in Requests, Withdraw(r)
        PROVE  EndsOK'
    BY <1>21 DEF Sound, TypeOK, HomesOK, EndsOK, CallsOK, ReadersOK, Latecomer, Withdraw, TakeOut, At, Sending,
       session, cleaning, reading, caller, history
  <1>22. ASSUME NEW r \in Requests, Receive(r)
        PROVE  EndsOK'
    <2>3. Receives(r, chan[r][1])
      BY <1>22, ReceiveDoes DEF Sound
    <2> QED BY <2>3 DEF Sound, TypeOK, HomesOK, EndsOK, CallsOK, ReadersOK, Latecomer, Receives
  <1>23. ASSUME NEW r \in Requests, ReceiveClosed(r)
        PROVE  EndsOK'
    BY <1>23 DEF Sound, TypeOK, HomesOK, EndsOK, CallsOK, ReadersOK, Latecomer, ReceiveClosed, At, Taking, session,
       cleaning, reading, caller, history
  <1>24. ASSUME NEW r \in Requests, ReceiveDone(r)
        PROVE  EndsOK'
    BY <1>24 DEF Sound, TypeOK, HomesOK, EndsOK, CallsOK, ReadersOK, Latecomer, ReceiveDone, At, Taking, session,
       cleaning, reading, caller, history
  <1>25. ASSUME NEW r \in Requests, GiveUp(r)
        PROVE  EndsOK'
    BY <1>25 DEF Sound, TypeOK, HomesOK, EndsOK, CallsOK, ReadersOK, Latecomer, GiveUp, TakeOut, Sending, session,
       cleaning, reading, caller, history
  <1>26. ASSUME NEW r \in Requests, StandDown(r)
        PROVE  EndsOK'
    BY <1>26 DEF Sound, TypeOK, HomesOK, EndsOK, CallsOK, ReadersOK, Latecomer, StandDown, Sending, session,
       cleaning, reading, caller, history
  <1>27. ASSUME NEW r \in Requests, Cancel(r)
        PROVE  EndsOK'
    BY <1>27 DEF Sound, TypeOK, HomesOK, EndsOK, CallsOK, ReadersOK, Latecomer, Cancel, Sending, session, cleaning,
       reading, caller, history
  <1> QED BY <1>1, <1>2, <1>3, <1>4, <1>5, <1>6, <1>7, <1>8, <1>9, <1>10, <1>11, <1>12, <1>13, <1>14, <1>15, <1>16,
         <1>17, <1>18, <1>19, <1>20, <1>21, <1>22, <1>23, <1>24, <1>25, <1>26, <1>27
     DEF Next, CleanerStep, ReaderStep, SendStep, CallerStep, WaiterStep

\* The channel stays in order.
LEMMA ChannelsOKStep ==
    ASSUME Sound, CallsOK, ReadersOK, EndsOK, ChannelsOK, ShutOK, Next
    PROVE  ChannelsOK'
  <1>1. ASSUME NEW s \in Sessions, Enter(s)
        PROVE  ChannelsOK'
    BY <1>1 DEF Sound, TypeOK, HomesOK, ChannelsOK, Ready, ReadersOK, EndsOK, CallsOK, Latest, Enter, session,
       cleaning, reading, caller, history
  <1>2. ASSUME NEW s \in Sessions, Connected(s)
        PROVE  ChannelsOK'
    BY <1>2 DEF Sound, TypeOK, HomesOK, ChannelsOK, Ready, ReadersOK, EndsOK, CallsOK, Latest, Connected, session,
       cleaning, reading, caller, history
  <1>3. ASSUME NEW s \in Sessions, Break(s)
        PROVE  ChannelsOK'
    BY <1>3 DEF Sound, TypeOK, HomesOK, ChannelsOK, Ready, ReadersOK, EndsOK, CallsOK, Latest, Break, session,
       cleaning, reading, caller, history
  <1>4. ASSUME NEW s \in Sessions, FindBroken(s)
        PROVE  ChannelsOK'
    BY <1>4 DEF Sound, TypeOK, HomesOK, ChannelsOK, Ready, ReadersOK, EndsOK, CallsOK, Latest, FindBroken,
       CloseClosed, session, cleaning, reading, caller, history
  <1>5. ASSUME NEW s \in Sessions, HeartbeatFails(s)
        PROVE  ChannelsOK'
    BY <1>5 DEF Sound, TypeOK, HomesOK, ChannelsOK, Ready, ReadersOK, EndsOK, CallsOK, Latest, HeartbeatFails,
       CloseClosed, session, cleaning, reading, caller, history
  <1>6. ASSUME Stop
        PROVE  ChannelsOK'
    BY <1>6 DEF Sound, TypeOK, HomesOK, ChannelsOK, Ready, ReadersOK, EndsOK, CallsOK, Latest, Stop, session,
       cleaning, reading, caller, history
  <1>7. ASSUME NEW s \in Sessions, StopSession(s)
        PROVE  ChannelsOK'
    BY <1>7 DEF Sound, TypeOK, HomesOK, ChannelsOK, Ready, ReadersOK, EndsOK, CallsOK, Latest, StopSession,
       CloseClosed, session, cleaning, reading, caller, history
  <1>8. ASSUME NEW s \in Sessions, Visit(s)
        PROVE  ChannelsOK'
    BY <1>8 DEF Sound, TypeOK, HomesOK, ChannelsOK, Ready, ReadersOK, EndsOK, CallsOK, Latest, Visit, session,
       cleaning, reading, caller, history
  <1>9. ASSUME NEW s \in Sessions, CloseRequest(s)
        PROVE  ChannelsOK'
    <2>1. Nothing \/ Closes(s)
      BY <1>9, CloseRequestDoes
    <2>2. CASE Nothing
      BY <2>2 DEF Sound, ChannelsOK, Ready, ReadersOK, EndsOK, CallsOK, Latest, Nothing, Still
    <2>3. CASE Closes(s)
      <3>1. /\ read' = read /\ ended' = ended /\ shut \subseteq shut' /\ held[s] \in shut'
            /\ Added(held[s], Lost) /\ \A r \in Requests : Latest(r)' = Latest(r)
        BY <2>3 DEF Closes, Still, Latest
      <3>2. Lost.n = 0 /\ Lost.kind = "lost"
        BY DEF Lost
      <3>3. \A r \in Requests : \A m : Ready(r, m) => Ready(r, m)'
        BY <3>1 DEF Ready
      <3>4. ASSUME NEW r \in Requests
            PROVE  /\ \A i \in 1..Len(chan'[r]) : Ready(r, chan[r][i])'
                   /\ \A i, j \in 1..Len(chan'[r]) : i < j /\ chan'[r][j].kind # "lost" => chan'[r][i].n < chan'[r][j].n
        <4>1. CASE chan'[r] = chan[r]
          BY <3>3, <4>1 DEF ChannelsOK
        <4>2. CASE r = held[s] /\ Roomy(r)
          <5>1. /\ Len(chan[r]) \in Nat /\ Len(chan'[r]) = Len(chan[r]) + 1 /\ chan'[r][Len(chan'[r])] = Lost
                /\ \A i \in 1..Len(chan'[r]) :
                      i = Len(chan'[r]) \/ (i \in 1..Len(chan[r]) /\ chan'[r][i] = chan[r][i])
            BY <3>1, <4>2 DEF Added
          <5>2. Ready(r, Lost)'
            BY <3>1, <3>2, <4>2 DEF Ready
          <5>3. ASSUME NEW i \in 1..Len(chan'[r])
                PROVE  Ready(r, chan[r][i])'
            <6>1. CASE i = Len(chan'[r])
              BY <5>1, <5>2, <6>1 DEF Lost
            <6>2. CASE i \in 1..Len(chan[r]) /\ chan'[r][i] = chan[r][i]
              BY <3>3, <6>2 DEF ChannelsOK
            <6> QED BY <5>1, <6>1, <6>2
          <5>4. ASSUME NEW i \in 1..Len(chan'[r]), NEW j \in 1..Len(chan'[r]), i < j, chan'[r][j].kind # "lost"
                PROVE  chan'[r][i].n < chan'[r][j].n
            <6>1. /\ i \in 1..Len(chan[r]) /\ chan'[r][i] = chan[r][i]
                  /\ j \in 1..Len(chan[r]) /\ chan'[r][j] = chan[r][j]
              BY <3>2, <5>1, <5>4
            <6> QED BY <5>4, <6>1 DEF ChannelsOK
          <5> QED BY <5>3, <5>4
        <4> QED BY <3>1, <4>1, <4>2 DEF Added
      <3> QED BY <3>1, <3>4 DEF ChannelsOK
    <2> QED BY <2>1, <2>2, <2>3
  <1>10. ASSUME NEW s \in Sessions, Reset(s)
        PROVE  ChannelsOK'
    <2>1. UNCHANGED <<chan, shut, read, ended, got>>
      BY <1>10 DEF Reset, history
    <2> QED BY <2>1 DEF ChannelsOK, Ready, Latest
  <1>11. ASSUME NEW s \in Sessions, Unmap(s)
        PROVE  ChannelsOK'
    BY <1>11 DEF Sound, TypeOK, HomesOK, ChannelsOK, Ready, ReadersOK, EndsOK, CallsOK, Latest, Unmap, session,
       cleaning, reading, caller, history
  <1>12. ASSUME NEW s \in Sessions, Disconnected(s)
        PROVE  ChannelsOK'
    BY <1>12 DEF Sound, TypeOK, HomesOK, ChannelsOK, Ready, ReadersOK, EndsOK, CallsOK, Latest, Disconnected,
       session, cleaning, reading, caller, history
  <1>13. ASSUME NEW s \in Sessions, Dispatch(s)
        PROVE  ChannelsOK'
    <2>1. Nothing \/ Dispatches(s)
      BY <1>13, DispatchDoes
    <2>2. CASE Nothing
      BY <2>2 DEF Sound, ChannelsOK, Ready, ReadersOK, EndsOK, CallsOK, Latest, Nothing, Still
    <2>3. CASE Dispatches(s)
      <3> DEFINE q == reply[s].req
                 n == reply[s].msg
      <3>1. /\ read' = read /\ ended' = ended /\ shut' = shut /\ q \notin shut /\ q \in Requests
            /\ Added(q, n) /\ \A r \in Requests : Latest(r)' = Latest(r)
            /\ Latecomer(q, n)
        BY <2>3 DEF Dispatches, Still, Latest, ReadersOK
      <3> HIDE DEF q, n
      <3>2. Ready(q, n)
        BY <3>1 DEF Latecomer, Ready, Kinds, Sound, TypeOK
      <3>3. ASSUME NEW r \in Requests
            PROVE  /\ \A i \in 1..Len(chan'[r]) : Ready(r, chan'[r][i])
                   /\ \A i, j \in 1..Len(chan'[r]) : i < j /\ chan'[r][j].kind # "lost" => chan'[r][i].n < chan'[r][j].n
        <4>1. CASE chan'[r] = chan[r]
          BY <4>1 DEF ChannelsOK
        <4>2. CASE r = q /\ Roomy(r)
          <5>1. /\ Len(chan[r]) \in Nat /\ Len(chan'[r]) = Len(chan[r]) + 1 /\ chan'[r][Len(chan'[r])] = n
                /\ \A i \in 1..Len(chan'[r]) :
                      i = Len(chan'[r]) \/ (i \in 1..Len(chan[r]) /\ chan'[r][i] = chan[r][i])
                /\ \A i \in 1..Len(chan[r]) : chan[r][i].n < n.n
            BY <3>1, <4>2 DEF Added, Latecomer
          <5>2. \A i \in 1..Len(chan'[r]) : Ready(r, chan'[r][i])
            BY <3>2, <4>2, <5>1 DEF ChannelsOK
          <5>3. ASSUME NEW i \in 1..Len(chan'[r]), NEW j \in 1..Len(chan'[r]), i < j, chan'[r][j].kind # "lost"
                PROVE  chan'[r][i].n < chan'[r][j].n
            <6>1. i \in 1..Len(chan[r]) /\ chan'[r][i] = chan[r][i]
              BY <5>1, <5>3
            <6> QED BY <5>1, <5>3, <6>1 DEF ChannelsOK
          <5> QED BY <5>2, <5>3
        <4> QED BY <3>1, <4>1, <4>2 DEF Added
      <3> QED BY <3>1, <3>3 DEF ChannelsOK, Ready
    <2> QED BY <2>1, <2>2, <2>3
  <1>14. ASSUME NEW s \in Sessions, RemoveEnded(s)
        PROVE  ChannelsOK'
    BY <1>14 DEF Sound, TypeOK, HomesOK, ChannelsOK, Ready, ReadersOK, EndsOK, CallsOK, Latest, RemoveEnded, TakeOut,
       session, cleaning, reading, caller, history
  <1>15. ASSUME NEW s \in Sessions, NEW r \in Requests, NEW kind \in Kinds, ReadReply(s, r, kind)
        PROVE  ChannelsOK'
    <2>3. Reads(s, r, kind)
      BY <1>15, ReadReplyDoes DEF Sound
    <2>4. /\ chan' = chan /\ shut' = shut /\ read[r] \in Nat /\ \A q \in Requests : Latest(q)' = Latest(q)
          /\ \A q \in Requests : read'[q] = IF q = r THEN read[r] + 1 ELSE read[q]
          /\ \A q \in Requests \ {r} : ended'[q] = ended[q]
      BY <2>3 DEF Reads, Latest
    <2>5. ~ended[r]
      BY <2>3 DEF Reads, EndsOK
    <2>6. ASSUME NEW q \in Requests, NEW i \in 1..Len(chan[q])
          PROVE  Ready(q, chan[q][i])'
      <3>1. Ready(q, chan[q][i]) /\ chan[q][i] \in Replies
        BY ElementOfSeq DEF ChannelsOK, Sound, TypeOK
      <3>2. CASE q = r
        BY <2>4, <2>5, <3>1, <3>2 DEF Ready, Replies
      <3>3. CASE q # r
        BY <2>4, <3>1, <3>3 DEF Ready
      <3> QED BY <3>2, <3>3
    <2>7. \A q \in Requests : Latest(q) \in Nat /\ Latest(q) <= read'[q]
      BY <2>4 DEF ChannelsOK
    <2> QED BY <2>4, <2>6, <2>7 DEF ChannelsOK
  <1>16. ASSUME NEW r \in Requests, Send(r)
        PROVE  ChannelsOK'
    BY <1>16 DEF Sound, TypeOK, HomesOK, ChannelsOK, Ready, ReadersOK, EndsOK, CallsOK, Latest, Send, At, Sending,
       session, cleaning, reading, caller, history
  <1>17. ASSUME NEW r \in Requests, Store(r)
        PROVE  ChannelsOK'
    BY <1>17 DEF Sound, TypeOK, HomesOK, ChannelsOK, Ready, ReadersOK, EndsOK, CallsOK, Latest, Store, At, Sending,
       session, cleaning, reading, caller, history
  <1>18. ASSUME NEW r \in Requests, Load(r)
        PROVE  ChannelsOK'
    BY <1>18 DEF Sound, TypeOK, HomesOK, ChannelsOK, Ready, ReadersOK, EndsOK, CallsOK, Latest, Load, At, Sending,
       session, cleaning, reading, caller, history
  <1>19. ASSUME NEW r \in Requests, CheckClosed(r)
        PROVE  ChannelsOK'
    BY <1>19 DEF Sound, TypeOK, HomesOK, ChannelsOK, Ready, ReadersOK, EndsOK, CallsOK, Latest, CheckClosed, At,
       Sending, session, cleaning, reading, caller, history
  <1>20. ASSUME NEW r \in Requests, Write(r)
        PROVE  ChannelsOK'
    BY <1>20 DEF Sound, TypeOK, HomesOK, ChannelsOK, Ready, ReadersOK, EndsOK, CallsOK, Latest, Write, At, Sending,
       session, cleaning, reading, caller, history
  <1>21. ASSUME NEW r \in Requests, Withdraw(r)
        PROVE  ChannelsOK'
    BY <1>21 DEF Sound, TypeOK, HomesOK, ChannelsOK, Ready, ReadersOK, EndsOK, CallsOK, Latest, Withdraw, TakeOut,
       At, Sending, session, cleaning, reading, caller, history
  <1>22. ASSUME NEW r \in Requests, Receive(r)
        PROVE  ChannelsOK'
    <2>3. Receives(r, chan[r][1])
      BY <1>22, ReceiveDoes DEF Sound
    <2>4. /\ read' = read /\ ended' = ended /\ shut' = shut
          /\ \A q \in Requests \ {r} : chan'[q] = chan[q] /\ Latest(q)' = Latest(q)
      BY <2>3 DEF Receives
    <2>5. ASSUME NEW q \in Requests, q # r
          PROVE  /\ Latest(q)' \in Nat /\ Latest(q)' <= read'[q]
                 /\ \A i \in 1..Len(chan'[q]) : Ready(q, chan[q][i])'
                 /\ \A i, j \in 1..Len(chan'[q]) : i < j /\ chan'[q][j].kind # "lost" => chan'[q][i].n < chan'[q][j].n
      BY <2>4, <2>5 DEF ChannelsOK, Ready
    <2>6. /\ Len(chan[r]) \in Nat \ {0} /\ Len(chan'[r]) = Len(chan[r]) - 1 /\ chan[r][1] \in Replies
          /\ \A i \in 1..Len(chan'[r]) : chan'[r][i] = chan[r][i + 1] /\ i + 1 \in 1..Len(chan[r])
          /\ Latest(r)' = IF chan[r][1].kind # "lost" THEN chan[r][1].n ELSE Latest(r)
      BY <2>3 DEF Receives
    <2>7. /\ Latest(r) \in Nat /\ Latest(r) <= read[r] /\ Ready(r, chan[r][1])
          /\ \A i \in 1..Len(chan'[r]) : Ready(r, chan[r][i + 1])
          /\ \A i \in 1..Len(chan'[r]) : chan[r][i + 1].kind # "lost" => chan[r][1].n < chan[r][i + 1].n
          /\ \A i, j \in 1..Len(chan'[r]) : i < j /\ chan[r][j + 1].kind # "lost" => chan[r][i + 1].n < chan[r][j + 1].n
      BY <2>6 DEF ChannelsOK
    <2>8. Latest(r)' \in Nat /\ Latest(r)' <= read[r]
      BY <2>6, <2>7 DEF Ready, Replies
    <2>9. ASSUME NEW i \in 1..Len(chan'[r])
          PROVE  Ready(r, chan[r][i])'
      <3>1. /\ Ready(r, chan[r][i + 1]) /\ chan'[r][i] = chan[r][i + 1]
            /\ chan[r][i + 1].kind # "lost" => chan[r][1].n < chan[r][i + 1].n
        BY <2>6, <2>7
      <3> QED BY <2>4, <2>6, <3>1 DEF Ready
    <2>10. \A i, j \in 1..Len(chan'[r]) : i < j /\ chan'[r][j].kind # "lost" => chan'[r][i].n < chan'[r][j].n
      BY <2>6, <2>7
    <2> QED BY <2>4, <2>5, <2>8, <2>9, <2>10 DEF ChannelsOK
  <1>23. ASSUME NEW r \in Requests, ReceiveClosed(r)
        PROVE  ChannelsOK'
    BY <1>23 DEF Sound, TypeOK, HomesOK, ChannelsOK, Ready, ReadersOK, EndsOK, CallsOK, Latest, ReceiveClosed, At,
       Taking, session, cleaning, reading, caller, history
  <1>24. ASSUME NEW r \in Requests, ReceiveDone(r)
        PROVE  ChannelsOK'
    BY <1>24 DEF Sound, TypeOK, HomesOK, ChannelsOK, Ready, ReadersOK, EndsOK, CallsOK, Latest, ReceiveDone, At,
       Taking, session, cleaning, reading, caller, history
  <1>25. ASSUME NEW r \in Requests, GiveUp(r)
        PROVE  ChannelsOK'
    BY <1>25 DEF Sound, TypeOK, HomesOK, ChannelsOK, Ready, ReadersOK, EndsOK, CallsOK, Latest, GiveUp, TakeOut,
       Sending, session, cleaning, reading, caller, history
  <1>26. ASSUME NEW r \in Requests, StandDown(r)
        PROVE  ChannelsOK'
    BY <1>26 DEF Sound, TypeOK, HomesOK, ChannelsOK, Ready, ReadersOK, EndsOK, CallsOK, Latest, StandDown, Sending,
       session, cleaning, reading, caller, history
  <1>27. ASSUME NEW r \in Requests, Cancel(r)
        PROVE  ChannelsOK'
    <2>1. UNCHANGED <<chan, shut, read, ended, got>>
      BY <1>27 DEF Cancel, Sending
    <2> QED BY <2>1 DEF ChannelsOK, Ready, Latest
  <1> QED BY <1>1, <1>2, <1>3, <1>4, <1>5, <1>6, <1>7, <1>8, <1>9, <1>10, <1>11, <1>12, <1>13, <1>14, <1>15, <1>16,
         <1>17, <1>18, <1>19, <1>20, <1>21, <1>22, <1>23, <1>24, <1>25, <1>26, <1>27
     DEF Next, CleanerStep, ReaderStep, SendStep, CallerStep, WaiterStep

\* No channel is closed on a caller that is not told, except for an excuse.
LEMMA ShutOKStep ==
    ASSUME Sound, CallsOK, ReadersOK, EndsOK, ChannelsOK, ShutOK, Next
    PROVE  ShutOK'
  <1>1. ASSUME NEW s \in Sessions, Enter(s)
        PROVE  ShutOK'
    BY <1>1 DEF Sound, TypeOK, HomesOK, ShutOK, ReadersOK, Answered, Excused, Enter, session, cleaning, reading,
       caller, history
  <1>2. ASSUME NEW s \in Sessions, Connected(s)
        PROVE  ShutOK'
    BY <1>2 DEF Sound, TypeOK, HomesOK, ShutOK, ReadersOK, Answered, Excused, Connected, session, cleaning, reading,
       caller, history
  <1>3. ASSUME NEW s \in Sessions, Break(s)
        PROVE  ShutOK'
    BY <1>3 DEF Sound, TypeOK, HomesOK, ShutOK, ReadersOK, Answered, Excused, Break, session, cleaning, reading,
       caller, history
  <1>4. ASSUME NEW s \in Sessions, FindBroken(s)
        PROVE  ShutOK'
    BY <1>4 DEF Sound, TypeOK, HomesOK, ShutOK, ReadersOK, Answered, Excused, FindBroken, CloseClosed, session,
       cleaning, reading, caller, history
  <1>5. ASSUME NEW s \in Sessions, HeartbeatFails(s)
        PROVE  ShutOK'
    BY <1>5 DEF Sound, TypeOK, HomesOK, ShutOK, ReadersOK, Answered, Excused, HeartbeatFails, CloseClosed, session,
       cleaning, reading, caller, history
  <1>6. ASSUME Stop
        PROVE  ShutOK'
    BY <1>6 DEF Sound, TypeOK, HomesOK, ShutOK, ReadersOK, Answered, Excused, Stop, session, cleaning, reading,
       caller, history
  <1>7. ASSUME NEW s \in Sessions, StopSession(s)
        PROVE  ShutOK'
    BY <1>7 DEF Sound, TypeOK, HomesOK, ShutOK, ReadersOK, Answered, Excused, StopSession, CloseClosed, session,
       cleaning, reading, caller, history
  <1>8. ASSUME NEW s \in Sessions, Visit(s)
        PROVE  ShutOK'
    BY <1>8 DEF Sound, TypeOK, HomesOK, ShutOK, ReadersOK, Answered, Excused, Visit, session, cleaning, reading,
       caller, history
  <1>9. ASSUME NEW s \in Sessions, CloseRequest(s)
        PROVE  ShutOK'
    <2>1. Nothing \/ Closes(s)
      BY <1>9, CloseRequestDoes
    <2>2. CASE Nothing
      BY <2>2 DEF Sound, ShutOK, ReadersOK, Answered, Excused, Nothing, Still
    <2>3. CASE Closes(s)
      BY <2>3 DEF Sound, TypeOK, HomesOK, ShutOK, ReadersOK, Answered, Excused, Closes, Still, Added, Lost
    <2> QED BY <2>1, <2>2, <2>3
  <1>10. ASSUME NEW s \in Sessions, Reset(s)
        PROVE  ShutOK'
    BY <1>10 DEF Sound, TypeOK, HomesOK, ShutOK, ReadersOK, Answered, Excused, Reset, session, cleaning, reading,
       caller, history
  <1>11. ASSUME NEW s \in Sessions, Unmap(s)
        PROVE  ShutOK'
    BY <1>11 DEF Sound, TypeOK, HomesOK, ShutOK, ReadersOK, Answered, Excused, Unmap, session, cleaning, reading,
       caller, history
  <1>12. ASSUME NEW s \in Sessions, Disconnected(s)
        PROVE  ShutOK'
    BY <1>12 DEF Sound, TypeOK, HomesOK, ShutOK, ReadersOK, Answered, Excused, Disconnected, session, cleaning,
       reading, caller, history
  <1>13. ASSUME NEW s \in Sessions, Dispatch(s)
        PROVE  ShutOK'
    <2>1. Nothing \/ Dispatches(s)
      BY <1>13, DispatchDoes
    <2>2. CASE Nothing
      BY <2>2 DEF Sound, ShutOK, ReadersOK, Answered, Excused, Nothing, Still
    <2>3. CASE Dispatches(s)
      BY <2>3 DEF Sound, TypeOK, HomesOK, ShutOK, ReadersOK, Answered, Excused, Dispatches, Still, Added, Lost
    <2> QED BY <2>1, <2>2, <2>3
  <1>14. ASSUME NEW s \in Sessions, RemoveEnded(s)
        PROVE  ShutOK'
    BY <1>14 DEF Sound, TypeOK, HomesOK, ShutOK, ReadersOK, Answered, Excused, RemoveEnded, TakeOut, session,
       cleaning, reading, caller, history
  <1>15. ASSUME NEW s \in Sessions, NEW r \in Requests, NEW kind \in Kinds, ReadReply(s, r, kind)
        PROVE  ShutOK'
    <2>3. Reads(s, r, kind)
      BY <1>15, ReadReplyDoes DEF Sound
    <2> QED BY <2>3 DEF Sound, TypeOK, HomesOK, ShutOK, ReadersOK, Answered, Excused, Reads
  <1>16. ASSUME NEW r \in Requests, Send(r)
        PROVE  ShutOK'
    BY <1>16 DEF Sound, TypeOK, HomesOK, ShutOK, ReadersOK, Answered, Excused, Send, At, Sending, session, cleaning,
       reading, caller, history
  <1>17. ASSUME NEW r \in Requests, Store(r)
        PROVE  ShutOK'
    BY <1>17 DEF Sound, TypeOK, HomesOK, ShutOK, ReadersOK, Answered, Excused, Store, At, Sending, session, cleaning,
       reading, caller, history
  <1>18. ASSUME NEW r \in Requests, Load(r)
        PROVE  ShutOK'
    BY <1>18 DEF Sound, TypeOK, HomesOK, ShutOK, ReadersOK, Answered, Excused, Load, At, Sending, session, cleaning,
       reading, caller, history
  <1>19. ASSUME NEW r \in Requests, CheckClosed(r)
        PROVE  ShutOK'
    BY <1>19 DEF Sound, TypeOK, HomesOK, ShutOK, ReadersOK, Answered, Excused, CheckClosed, At, Sending, session,
       cleaning, reading, caller, history
  <1>20. ASSUME NEW r \in Requests, Write(r)
        PROVE  ShutOK'
    BY <1>20 DEF Sound, TypeOK, HomesOK, ShutOK, ReadersOK, Answered, Excused, Write, At, Sending, session, cleaning,
       reading, caller, history
  <1>21. ASSUME NEW r \in Requests, Withdraw(r)
        PROVE  ShutOK'
    BY <1>21 DEF Sound, TypeOK, HomesOK, ShutOK, ReadersOK, Answered, Excused, Withdraw, TakeOut, At, Sending,
       session, cleaning, reading, caller, history
  <1>22. ASSUME NEW r \in Requests, Receive(r)
        PROVE  ShutOK'
    <2>3. Receives(r, chan[r][1])
      BY <1>22, ReceiveDoes DEF Sound
    <2>4. ASSUME NEW q \in shut, q # r
          PROVE  Answered(q)'
      BY <2>3, <2>4 DEF Receives, ShutOK, Answered, Excused, Sound, TypeOK
    <2>5. r \in shut => Answered(r)'
      BY <2>3, LastLeft DEF ShutOK, Sound
    <2>6. shut' = shut
      BY <2>3 DEF Receives
    <2> QED BY <2>4, <2>5, <2>6 DEF ShutOK
  <1>23. ASSUME NEW r \in Requests, ReceiveClosed(r)
        PROVE  ShutOK'
    BY <1>23 DEF Sound, TypeOK, HomesOK, ShutOK, ReadersOK, Answered, Excused, ReceiveClosed, At, Taking, session,
       cleaning, reading, caller, history
  <1>24. ASSUME NEW r \in Requests, ReceiveDone(r)
        PROVE  ShutOK'
    BY <1>24 DEF Sound, TypeOK, HomesOK, ShutOK, ReadersOK, Answered, Excused, ReceiveDone, At, Taking, session,
       cleaning, reading, caller, history
  <1>25. ASSUME NEW r \in Requests, GiveUp(r)
        PROVE  ShutOK'
    BY <1>25 DEF Sound, TypeOK, HomesOK, ShutOK, ReadersOK, Answered, Excused, GiveUp, TakeOut, Sending, session,
       cleaning, reading, caller, history
  <1>26. ASSUME NEW r \in Requests, StandDown(r)
        PROVE  ShutOK'
    BY <1>26 DEF Sound, TypeOK, HomesOK, ShutOK, ReadersOK, Answered, Excused, StandDown, Sending, session, cleaning,
       reading, caller, history
  <1>27. ASSUME NEW r \in Requests, Cancel(r)
        PROVE  ShutOK'
    BY <1>27 DEF Sound, TypeOK, HomesOK, ShutOK, ReadersOK, Answered, Excused, Cancel, Sending, session, cleaning,
       reading, caller, history
  <1> QED BY <1>1, <1>2, <1>3, <1>4, <1>5, <1>6, <1>7, <1>8, <1>9, <1>10, <1>11, <1>12, <1>13, <1>14, <1>15, <1>16,
         <1>17, <1>18, <1>19, <1>20, <1>21, <1>22, <1>23, <1>24, <1>25, <1>26, <1>27
     DEF Next, CleanerStep, ReaderStep, SendStep, CallerStep, WaiterStep

-----------------------------------------------------------------------------
(* The whole invariant, and what it gives.                                 *)

Inv == Sound /\ PassedOK /\ CallsOK /\ ReadersOK /\ EndsOK /\ ChannelsOK /\ ShutOK

\* Nothing is pending, read or told at the start.
LEMMA InitInv == Init => Inv
  <1> SUFFICES ASSUME Init
               PROVE  Inv
    OBVIOUS
  <1>1. TypeOK
    <2>1. <<>> \in Seq(Replies) /\ Len(<<>>) = 0 /\ <<>> \in Seq(Nat)
      OBVIOUS
    <2>2. \A r \in Requests : Len(chan[r]) <= Slots
      BY <2>1, RelayAssumption DEF Init
    <2> QED BY <2>1, <2>2 DEF Init, TypeOK, Replies, Kinds
  <1>2. HomesOK /\ PassedOK /\ CallsOK /\ ReadersOK /\ EndsOK /\ ShutOK
    BY DEF Init, HomesOK, PassedOK, CallsOK, ReadersOK, EndsOK, ShutOK
  <1>3. ChannelsOK
    <2>1. \A r \in Requests : chan[r] = <<>> /\ Len(chan[r]) = 0 /\ Latest(r) = 0 /\ read[r] = 0
      BY DEF Init, Latest
    <2> QED BY <2>1 DEF ChannelsOK
  <1> QED BY <1>1, <1>2, <1>3 DEF Inv, Sound

\* The invariant speaks of the variables only.
LEMMA StutterInv ==
    ASSUME Inv, UNCHANGED vars
    PROVE  Inv'
  <1>1. /\ UNCHANGED <<handler, sessions, stopping, served, broken, closed, cleaner, old, visited, held>>
        /\ UNCHANGED <<pending, reader, reply, pc, home, mode, waiter, cancelled, chan, shut, crashed>>
        /\ UNCHANGED <<read, ended, got, outcome, dropped>>
    BY DEF vars, session, cleaning, reading, caller, history
  <1>2. TypeOK'
    BY <1>1 DEF Inv, Sound, TypeOK
  <1>3. HomesOK' /\ PassedOK' /\ CallsOK' /\ EndsOK'
    BY <1>1 DEF Inv, Sound, HomesOK, PassedOK, CallsOK, EndsOK
  <1>4. ReadersOK' /\ ShutOK'
    BY <1>1 DEF Inv, ReadersOK, ShutOK, Latecomer, Latest, Answered, Excused
  <1>5. ChannelsOK'
    BY <1>1 DEF Inv, ChannelsOK, Ready, Latest
  <1> QED BY <1>2, <1>3, <1>4, <1>5 DEF Inv, Sound

\* The parts of the invariant are kept together: most need one another.
LEMMA NextInv ==
    ASSUME Inv, [Next]_vars
    PROVE  Inv'
  <1>1. CASE Next
    BY <1>1, TypeStep, HomesOKStep, PassedOKStep, CallsOKStep, ReadersOKStep, EndsOKStep, ChannelsOKStep, ShutOKStep
       DEF Inv, Sound
  <1>2. CASE UNCHANGED vars
    BY <1>2, StutterInv
  <1> QED BY <1>1, <1>2

\* The invariant holds throughout.
LEMMA Invariance == Spec => []Inv
  <1>1. Inv /\ [Next]_vars => Inv'
    BY NextInv
  <1> QED BY InitInv, <1>1, PTL DEF Spec

\* The types, and that no channel holds more than its slots: whichever of the
\* reader, the cleanup and the caller moves a message.
THEOREM TypeCorrect == Spec => []TypeOK
  <1>1. Inv => TypeOK
    BY DEF Inv, Sound
  <1> QED BY Invariance, <1>1, PTL

\* Once a session's pending requests have been looked through, the channel of every
\* caller that waits on it is closed: one that entered its request meanwhile is
\* there too, or finds the session closed before it waits (session.go, request and
\* cleanup: closed is closed before Range).
THEOREM NobodyStranded == Spec => []NoneStranded
  <1>1. Inv => NoneStranded
    BY DEF Inv, PassedOK, NoneStranded
  <1> QED BY Invariance, <1>1, PTL

-----------------------------------------------------------------------------
(* The promise, step by step.                                              *)

\* A cancellation, or a message dropped, is an excuse.
LEMMA Excuses ==
    ASSUME NEW r \in Requests, cancelled' \cup dropped' = cancelled \cup dropped \cup {r},
           UNCHANGED <<read, ended, got, outcome>>
    PROVE  Promise!Next
  <1>1. \A q \in Requests : (q \in cancelled' \/ q \in dropped') <=> (q = r \/ q \in cancelled \/ q \in dropped)
    OBVIOUS
  <1>2. [q \in Requests |-> q \in cancelled' \/ q \in dropped']
           = [[q \in Requests |-> q \in cancelled \/ q \in dropped] EXCEPT ![r] = TRUE]
    BY <1>1
  <1>3. Promise!Excuse(r)
    BY <1>2 DEF Promise!Excuse
  <1> QED BY <1>3 DEF Promise!Next

\* What neither reads, gives, tells nor excuses is a stutter.
LEMMA Stutters ==
    ASSUME UNCHANGED <<read, ended, got, outcome, cancelled, dropped>>
    PROVE  UNCHANGED Promise!vars
  BY DEF Promise!vars

\* A reply is read for a request whose end has not been read.
LEMMA ReadReplyKeeps ==
    ASSUME Inv, NEW s \in Sessions, NEW r \in Requests, NEW kind \in Kinds, ReadReply(s, r, kind)
    PROVE  Promise!Next
  <1>1. ~ended[r]
    <2>1. Reads(s, r, kind)
      BY ReadReplyDoes DEF Inv
    <2> QED BY <2>1 DEF Reads, Inv, EndsOK
  <1>2. UNCHANGED <<got, outcome, cancelled, dropped>>
    BY DEF ReadReply, caller
  <1>3. Promise!Read(r, kind # "part")
    BY <1>1, <1>2 DEF ReadReply, Promise!Read
  <1>4. (kind # "part") \in BOOLEAN
    OBVIOUS
  <1> QED BY <1>3, <1>4 DEF Promise!Next

\* Putting a reply in a channel is nothing to the caller, dropping it an excuse.
LEMMA DispatchKeeps ==
    ASSUME Inv, NEW s \in Sessions, Dispatch(s)
    PROVE  [Promise!Next]_(Promise!vars)
  <1>1. Nothing \/ Dispatches(s)
    BY DispatchDoes DEF Inv
  <1>2. CASE Nothing
    BY <1>2, Stutters DEF Nothing, Still
  <1>3. CASE Dispatches(s)
    <2>1. CASE dropped' = dropped
      BY <1>3, <2>1, Stutters DEF Dispatches, Still
    <2>2. CASE dropped' = dropped \cup {reply[s].req}
      BY <1>3, <2>2, Excuses DEF Dispatches, Still
    <2> QED BY <1>3, <2>1, <2>2 DEF Dispatches, Added
  <1> QED BY <1>1, <1>2, <1>3

\* So is putting the cleanup's error in it.
LEMMA CloseRequestKeeps ==
    ASSUME Inv, NEW s \in Sessions, CloseRequest(s)
    PROVE  [Promise!Next]_(Promise!vars)
  <1>1. Nothing \/ Closes(s)
    BY CloseRequestDoes DEF Inv
  <1>2. CASE Nothing
    BY <1>2, Stutters DEF Nothing, Still
  <1>3. CASE Closes(s)
    <2>1. CASE dropped' = dropped
      BY <1>3, <2>1, Stutters DEF Closes, Still
    <2>2. CASE dropped' = dropped \cup {held[s]}
      BY <1>3, <2>2, Excuses DEF Closes, Still
    <2> QED BY <1>3, <2>1, <2>2 DEF Closes, Added
  <1> QED BY <1>1, <1>2, <1>3

\* Giving up is an excuse.
LEMMA CancelKeeps ==
    ASSUME Inv, NEW r \in Requests, Cancel(r)
    PROVE  Promise!Next
  <1>1. cancelled' = cancelled \cup {r} /\ UNCHANGED <<read, ended, got, outcome, dropped>>
    BY DEF Cancel, Sending
  <1>2. cancelled' \cup dropped' = cancelled \cup dropped \cup {r}
    BY <1>1
  <1> QED BY <1>1, <1>2, Excuses

\* A part is given, an end is given and told, the error of the cleanup is told.
LEMMA ReceiveKeeps ==
    ASSUME Inv, NEW r \in Requests, Receive(r)
    PROVE  Promise!Next
  <1>1. Receives(r, chan[r][1])
    BY ReceiveDoes DEF Inv
  <1>2. PICK m \in Replies : m = chan[r][1]
    BY <1>1 DEF Receives
  <1>3. /\ got' = [got EXCEPT ![r] = IF m.kind = "lost" THEN got[r] ELSE Append(got[r], m.n)]
        /\ outcome' = [outcome EXCEPT ![r] = Result(m.kind)]
        /\ UNCHANGED <<read, ended, cancelled, dropped>>
    BY <1>1, <1>2 DEF Receives
  <1>4. Ready(r, m)
    <2>1. 1 \in 1..Len(chan[r])
      BY <1>1 DEF Receives
    <2> QED BY <1>2, <2>1 DEF Inv, ChannelsOK
  <1>5. /\ outcome[r] = "none" /\ outcome \in [Requests -> {"none", "complete", "failed", "cancelled"}]
        /\ m.n \in Nat /\ m.kind \in {"part", "end", "fail", "lost"} /\ read[r] \in Nat
        /\ Latest(r) \in Nat
        /\ got \in [Requests -> Seq(Nat)]
    BY <1>1 DEF Inv, Sound, TypeOK, CallsOK, ChannelsOK, Receives, Replies, Kinds
  <1>6. Promise!Latest(r) = Latest(r)
    BY DEF Promise!Latest, Latest
  <1>7. CASE m.kind = "part"
    <2>1. outcome' = outcome /\ got' = [got EXCEPT ![r] = Append(got[r], m.n)]
      BY <1>3, <1>5, <1>7 DEF Result
    <2>2. m.n \in (Latest(r) + 1)..read[r] /\ m.n \in 1..read[r]
      BY <1>4, <1>5, <1>7 DEF Ready
    <2>3. Promise!Give(r, m.n)
      BY <1>3, <1>5, <1>6, <2>1, <2>2 DEF Promise!Give
    <2> QED BY <2>2, <2>3 DEF Promise!Next
  <1>8. CASE m.kind \in {"end", "fail"}
    <2>1. ended[r] /\ Latest(r) < read[r] /\ m.n = read[r]
      BY <1>4, <1>5, <1>8 DEF Ready
    <2>2. got' = [got EXCEPT ![r] = Append(got[r], read[r])]
      BY <1>3, <1>8, <2>1
    <2>3. outcome' \in {[outcome EXCEPT ![r] = o] : o \in {"complete", "failed"}}
      BY <1>3, <1>8 DEF Result
    <2>4. Promise!GiveLast(r)
      BY <1>3, <1>5, <1>6, <2>1, <2>2, <2>3 DEF Promise!GiveLast
    <2> QED BY <2>4 DEF Promise!Next
  <1>9. CASE m.kind = "lost"
    <2>1. got' = got /\ outcome' = [outcome EXCEPT ![r] = "failed"]
      BY <1>3, <1>5, <1>9 DEF Result
    <2>2. Promise!Tell(r, "failed")
      BY <1>3, <1>5, <2>1 DEF Promise!Tell
    <2> QED BY <2>2 DEF Promise!Next
  <1> QED BY <1>5, <1>7, <1>8, <1>9

\* NonStream takes part of a reply for all of it only when there is an excuse.
LEMMA ReceiveClosedKeeps ==
    ASSUME Inv, NEW r \in Requests, ReceiveClosed(r)
    PROVE  Promise!Next
  <1>1. outcome[r] = "none" /\ Excused(r)
    BY DEF ReceiveClosed, Inv, CallsOK, ShutOK, Answered
  <1>2. PICK o \in {"complete", "failed"} : outcome' = [outcome EXCEPT ![r] = o]
    BY DEF ReceiveClosed
  <1>3. UNCHANGED <<read, ended, got, cancelled, dropped>>
    BY DEF ReceiveClosed, Taking
  <1>4. Promise!Tell(r, o)
    BY <1>1, <1>2, <1>3 DEF Promise!Tell, Excused
  <1> QED BY <1>4 DEF Promise!Next

\* A caller that gives up is told so, once.
LEMMA ReceiveDoneKeeps ==
    ASSUME Inv, NEW r \in Requests, ReceiveDone(r)
    PROVE  Promise!Next
  <1>1. outcome[r] = "none"
    BY DEF ReceiveDone, Inv, CallsOK
  <1>2. Promise!Tell(r, "cancelled")
    BY <1>1 DEF ReceiveDone, Taking, Promise!Tell
  <1> QED BY <1>2 DEF Promise!Next

\* A request that could not be sent fails, once.
LEMMA WithdrawKeeps ==
    ASSUME Inv, NEW r \in Requests, Withdraw(r)
    PROVE  Promise!Next
  <1>1. outcome[r] = "none"
    BY DEF Withdraw, Inv, CallsOK
  <1>2. Promise!Tell(r, "failed")
    BY <1>1 DEF Withdraw, Sending, Promise!Tell
  <1> QED BY <1>2 DEF Promise!Next

\* Both begin with nothing read and nothing told.
LEMMA InitKeeps == Init => Promise!Init
  BY DEF Init, Promise!Init

\* Every step of the relay is a step of RelayStream, or a stutter.
LEMMA NextKeeps ==
    ASSUME Inv, [Next]_vars
    PROVE  [Promise!Next]_(Promise!vars)
  <1>1. ASSUME NEW s \in Sessions, Enter(s)
        PROVE  [Promise!Next]_(Promise!vars)
    BY <1>1, Stutters DEF Enter, caller, history
  <1>2. ASSUME NEW s \in Sessions, Connected(s)
        PROVE  [Promise!Next]_(Promise!vars)
    BY <1>2, Stutters DEF Connected, caller, history
  <1>3. ASSUME NEW s \in Sessions, Break(s)
        PROVE  [Promise!Next]_(Promise!vars)
    BY <1>3, Stutters DEF Break, caller, history
  <1>4. ASSUME NEW s \in Sessions, FindBroken(s)
        PROVE  [Promise!Next]_(Promise!vars)
    BY <1>4, Stutters DEF FindBroken, CloseClosed, caller, history
  <1>5. ASSUME NEW s \in Sessions, HeartbeatFails(s)
        PROVE  [Promise!Next]_(Promise!vars)
    BY <1>5, Stutters DEF HeartbeatFails, CloseClosed, caller, history
  <1>6. ASSUME Stop
        PROVE  [Promise!Next]_(Promise!vars)
    BY <1>6, Stutters DEF Stop, caller, history
  <1>7. ASSUME NEW s \in Sessions, StopSession(s)
        PROVE  [Promise!Next]_(Promise!vars)
    BY <1>7, Stutters DEF StopSession, CloseClosed, caller, history
  <1>8. ASSUME NEW s \in Sessions, Visit(s)
        PROVE  [Promise!Next]_(Promise!vars)
    BY <1>8, Stutters DEF Visit, caller, history
  <1>9. ASSUME NEW s \in Sessions, CloseRequest(s)
        PROVE  [Promise!Next]_(Promise!vars)
    BY <1>9, CloseRequestKeeps
  <1>10. ASSUME NEW s \in Sessions, Reset(s)
        PROVE  [Promise!Next]_(Promise!vars)
    BY <1>10, Stutters DEF Reset, caller, history
  <1>11. ASSUME NEW s \in Sessions, Unmap(s)
        PROVE  [Promise!Next]_(Promise!vars)
    BY <1>11, Stutters DEF Unmap, caller, history
  <1>12. ASSUME NEW s \in Sessions, Disconnected(s)
        PROVE  [Promise!Next]_(Promise!vars)
    BY <1>12, Stutters DEF Disconnected, caller, history
  <1>13. ASSUME NEW s \in Sessions, Dispatch(s)
        PROVE  [Promise!Next]_(Promise!vars)
    BY <1>13, DispatchKeeps
  <1>14. ASSUME NEW s \in Sessions, RemoveEnded(s)
        PROVE  [Promise!Next]_(Promise!vars)
    BY <1>14, Stutters DEF RemoveEnded, TakeOut, caller, history
  <1>15. ASSUME NEW s \in Sessions, NEW r \in Requests, NEW kind \in Kinds, ReadReply(s, r, kind)
        PROVE  [Promise!Next]_(Promise!vars)
    BY <1>15, ReadReplyKeeps
  <1>16. ASSUME NEW r \in Requests, Send(r)
        PROVE  [Promise!Next]_(Promise!vars)
    BY <1>16, Stutters DEF Send, At, Sending, caller, history
  <1>17. ASSUME NEW r \in Requests, Store(r)
        PROVE  [Promise!Next]_(Promise!vars)
    BY <1>17, Stutters DEF Store, At, Sending, caller, history
  <1>18. ASSUME NEW r \in Requests, Load(r)
        PROVE  [Promise!Next]_(Promise!vars)
    BY <1>18, Stutters DEF Load, At, Sending, caller, history
  <1>19. ASSUME NEW r \in Requests, CheckClosed(r)
        PROVE  [Promise!Next]_(Promise!vars)
    BY <1>19, Stutters DEF CheckClosed, At, Sending, caller, history
  <1>20. ASSUME NEW r \in Requests, Write(r)
        PROVE  [Promise!Next]_(Promise!vars)
    BY <1>20, Stutters DEF Write, At, Sending, caller, history
  <1>21. ASSUME NEW r \in Requests, Withdraw(r)
        PROVE  [Promise!Next]_(Promise!vars)
    BY <1>21, WithdrawKeeps
  <1>22. ASSUME NEW r \in Requests, Receive(r)
        PROVE  [Promise!Next]_(Promise!vars)
    BY <1>22, ReceiveKeeps
  <1>23. ASSUME NEW r \in Requests, ReceiveClosed(r)
        PROVE  [Promise!Next]_(Promise!vars)
    BY <1>23, ReceiveClosedKeeps
  <1>24. ASSUME NEW r \in Requests, ReceiveDone(r)
        PROVE  [Promise!Next]_(Promise!vars)
    BY <1>24, ReceiveDoneKeeps
  <1>25. ASSUME NEW r \in Requests, GiveUp(r)
        PROVE  [Promise!Next]_(Promise!vars)
    BY <1>25, Stutters DEF GiveUp, TakeOut, Sending, caller, history
  <1>26. ASSUME NEW r \in Requests, StandDown(r)
        PROVE  [Promise!Next]_(Promise!vars)
    BY <1>26, Stutters DEF StandDown, Sending, caller, history
  <1>27. ASSUME NEW r \in Requests, Cancel(r)
        PROVE  [Promise!Next]_(Promise!vars)
    BY <1>27, CancelKeeps
  <1>28. CASE UNCHANGED vars
    BY <1>28, Stutters DEF vars, caller, history
  <1> QED BY <1>1, <1>2, <1>3, <1>4, <1>5, <1>6, <1>7, <1>8, <1>9, <1>10, <1>11, <1>12, <1>13, <1>14, <1>15, <1>16,
         <1>17, <1>18, <1>19, <1>20, <1>21, <1>22, <1>23, <1>24, <1>25, <1>26, <1>27, <1>28
     DEF Next, CleanerStep, ReaderStep, SendStep, CallerStep, WaiterStep


\* Replies reach their caller in order and at most once, an end is told once and
\* nothing after it, and success is told only of a reply the client ended, unless
\* the caller gave up or a message found no slot.
THEOREM RelayKeepsThePromise == Spec => KeepsThePromise
  <1>1. Inv /\ [Next]_vars => [Promise!Next]_(Promise!vars)
    BY NextKeeps
  <1> QED BY InitKeeps, Invariance, <1>1, PTL DEF Spec, KeepsThePromise, Promise!Spec

-----------------------------------------------------------------------------
(* Credentials and sessions.                                               *)

\* How far a session has come says whether it can be reached and is served.
ServedOK == \A s \in Sessions :
    /\ handler[s] # "running" => s \notin served /\ s \notin stopping /\ cleaner[s] = "no"
    /\ handler[s] = "new" => s \notin sessions
    /\ handler[s] = "running" /\ cleaner[s] \in {"no", "range", "unmap", "callback"} => s \in served
    /\ handler[s] # "new" /\ cleaner[s] = "no" => s \in sessions \/ s \in stopping
    /\ cleaner[s] \in {"callback", "done"} => s \notin sessions
    /\ cleaner[s] = "done" => s \notin served

\* The credentials served follow the sessions.
LEMMA ServedOKStep ==
    ASSUME Sound, ServedOK, ~RashStop, Next
    PROVE  ServedOK'
  <1>1. ASSUME NEW s \in Sessions, Enter(s)
        PROVE  ServedOK'
    BY <1>1 DEF Sound, TypeOK, ServedOK, Enter, session, cleaning
  <1>2. ASSUME NEW s \in Sessions, Connected(s)
        PROVE  ServedOK'
    BY <1>2 DEF Sound, TypeOK, ServedOK, Connected, session, cleaning
  <1>3. ASSUME NEW s \in Sessions, Break(s)
        PROVE  ServedOK'
    BY <1>3 DEF Sound, TypeOK, ServedOK, Break, session, cleaning
  <1>4. ASSUME NEW s \in Sessions, FindBroken(s)
        PROVE  ServedOK'
    BY <1>4 DEF Sound, TypeOK, ServedOK, FindBroken, CloseClosed, session, cleaning
  <1>5. ASSUME NEW s \in Sessions, HeartbeatFails(s)
        PROVE  ServedOK'
    BY <1>5 DEF Sound, TypeOK, ServedOK, HeartbeatFails, CloseClosed, session, cleaning
  <1>6. ASSUME Stop
        PROVE  ServedOK'
    BY <1>6 DEF Sound, TypeOK, ServedOK, Stop, session, cleaning
  <1>7. ASSUME NEW s \in Sessions, StopSession(s)
        PROVE  ServedOK'
    BY <1>7 DEF Sound, TypeOK, ServedOK, StopSession, CloseClosed, session, cleaning
  <1>8. ASSUME NEW s \in Sessions, Visit(s)
        PROVE  ServedOK'
    BY <1>8 DEF Sound, TypeOK, ServedOK, Visit, session, cleaning
  <1>9. ASSUME NEW s \in Sessions, CloseRequest(s)
        PROVE  ServedOK'
    BY <1>9 DEF Sound, TypeOK, ServedOK, CloseRequest, Crash, Drop, session, cleaning
  <1>10. ASSUME NEW s \in Sessions, Reset(s)
        PROVE  ServedOK'
    BY <1>10 DEF Sound, TypeOK, ServedOK, Reset, session, cleaning
  <1>11. ASSUME NEW s \in Sessions, Unmap(s)
        PROVE  ServedOK'
    BY <1>11 DEF Sound, TypeOK, ServedOK, Unmap, session, cleaning
  <1>12. ASSUME NEW s \in Sessions, Disconnected(s)
        PROVE  ServedOK'
    BY <1>12 DEF Sound, TypeOK, ServedOK, Disconnected, session, cleaning
  <1>13. ASSUME NEW s \in Sessions, Dispatch(s)
        PROVE  ServedOK'
    BY <1>13 DEF Sound, TypeOK, ServedOK, Dispatch, Crash, Drop, session, cleaning
  <1>14. ASSUME NEW s \in Sessions, RemoveEnded(s)
        PROVE  ServedOK'
    BY <1>14 DEF Sound, TypeOK, ServedOK, RemoveEnded, TakeOut, session, cleaning
  <1>15. ASSUME NEW s \in Sessions, NEW r \in Requests, NEW kind \in Kinds, ReadReply(s, r, kind)
        PROVE  ServedOK'
    BY <1>15 DEF Sound, TypeOK, ServedOK, ReadReply, session, cleaning
  <1>16. ASSUME NEW r \in Requests, Send(r)
        PROVE  ServedOK'
    BY <1>16 DEF Sound, TypeOK, ServedOK, Send, At, Sending, session, cleaning
  <1>17. ASSUME NEW r \in Requests, Store(r)
        PROVE  ServedOK'
    BY <1>17 DEF Sound, TypeOK, ServedOK, Store, At, Sending, session, cleaning
  <1>18. ASSUME NEW r \in Requests, Load(r)
        PROVE  ServedOK'
    BY <1>18 DEF Sound, TypeOK, ServedOK, Load, At, Sending, session, cleaning
  <1>19. ASSUME NEW r \in Requests, CheckClosed(r)
        PROVE  ServedOK'
    BY <1>19 DEF Sound, TypeOK, ServedOK, CheckClosed, At, Sending, session, cleaning
  <1>20. ASSUME NEW r \in Requests, Write(r)
        PROVE  ServedOK'
    BY <1>20 DEF Sound, TypeOK, ServedOK, Write, At, Sending, session, cleaning
  <1>21. ASSUME NEW r \in Requests, Withdraw(r)
        PROVE  ServedOK'
    BY <1>21 DEF Sound, TypeOK, ServedOK, Withdraw, TakeOut, At, Sending, session, cleaning
  <1>22. ASSUME NEW r \in Requests, Receive(r)
        PROVE  ServedOK'
    BY <1>22 DEF Sound, TypeOK, ServedOK, Receive, At, Taking, session, cleaning
  <1>23. ASSUME NEW r \in Requests, ReceiveClosed(r)
        PROVE  ServedOK'
    BY <1>23 DEF Sound, TypeOK, ServedOK, ReceiveClosed, At, Taking, session, cleaning
  <1>24. ASSUME NEW r \in Requests, ReceiveDone(r)
        PROVE  ServedOK'
    BY <1>24 DEF Sound, TypeOK, ServedOK, ReceiveDone, At, Taking, session, cleaning
  <1>25. ASSUME NEW r \in Requests, GiveUp(r)
        PROVE  ServedOK'
    BY <1>25 DEF Sound, TypeOK, ServedOK, GiveUp, TakeOut, Sending, session, cleaning
  <1>26. ASSUME NEW r \in Requests, StandDown(r)
        PROVE  ServedOK'
    BY <1>26 DEF Sound, TypeOK, ServedOK, StandDown, Sending, session, cleaning
  <1>27. ASSUME NEW r \in Requests, Cancel(r)
        PROVE  ServedOK'
    BY <1>27 DEF Sound, TypeOK, ServedOK, Cancel, Sending, session, cleaning
  <1> QED BY <1>1, <1>2, <1>3, <1>4, <1>5, <1>6, <1>7, <1>8, <1>9, <1>10, <1>11, <1>12, <1>13, <1>14, <1>15, <1>16,
         <1>17, <1>18, <1>19, <1>20, <1>21, <1>22, <1>23, <1>24, <1>25, <1>26, <1>27
     DEF Next, CleanerStep, ReaderStep, SendStep, CallerStep, WaiterStep


\* A manager that does not stop while a session is being set up serves, once nothing
\* is under way, the credentials of exactly the sessions that can be reached
\* (service.go, wsOnConnected and wsOnDisconnected).
THEOREM ServedAreReached ==
    ASSUME ~RashStop
    PROVE  Spec => []ServedAreConnected
  <1>1. Init => ServedOK
    <2> SUFFICES ASSUME Init, NEW s \in Sessions
                 PROVE  /\ handler[s] = "new" /\ cleaner[s] = "no"
                        /\ s \notin served /\ s \notin stopping /\ s \notin sessions
      BY DEF ServedOK
    <2> QED BY DEF Init
  <1>2. Inv /\ ServedOK /\ [Next]_vars => ServedOK'
    <2> SUFFICES ASSUME Inv, ServedOK, [Next]_vars
                 PROVE  ServedOK'
      OBVIOUS
    <2>1. CASE Next
      BY <2>1, ServedOKStep DEF Inv
    <2>2. CASE UNCHANGED vars
      BY <2>2 DEF ServedOK, vars, session, cleaning
    <2> QED BY <2>1, <2>2
  <1>3. Inv /\ ServedOK => ServedAreConnected
    <2> SUFFICES ASSUME Inv, ServedOK, Settled
                 PROVE  served = sessions
      BY DEF ServedAreConnected
    <2>1. served \subseteq Sessions /\ sessions \subseteq Sessions
      BY DEF Inv, Sound, TypeOK
    <2>2. ASSUME NEW s \in Sessions
          PROVE  s \in served <=> s \in sessions
      <3>1. handler[s] \in {"new", "running"} /\ cleaner[s] \in {"no", "done"}
        BY DEF Inv, Sound, TypeOK, Settled
      <3> QED BY <3>1 DEF ServedOK, Settled
    <2> QED BY <2>1, <2>2
  <1> QED BY <1>1, <1>2, <1>3, Invariance, PTL DEF Spec

=============================================================================
