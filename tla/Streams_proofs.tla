---------------------------- MODULE Streams_proofs ----------------------------
(***************************************************************************)
(* For the routes that MCStreams lays side by side: the events a client    *)
(* gets fit together, tell all that was said and why it ended, feed each   *)
(* signature to its own thinking, are of one call, and every call is       *)
(* counted once.                                                           *)
(*                                                                         *)
(* None of it is inductive.  The forwarding brings the invariant of its    *)
(* own proofs, cited through the instance.  Of the counting, what was      *)
(* reported and is not counted yet is in the queue or in the dispatcher's  *)
(* hands (UsageInv).  Of a converter, the blocks open at the client are    *)
(* those its flags and indices say, numbered as the client numbers them,   *)
(* and what was said is what the client heard and what the converter       *)
(* still holds: for OpenAI's the arguments gathered of its calls (Talks,   *)
(* Told), for Kiro's the end of a text and the call that goes on (KOpen).  *)
(*                                                                         *)
(* A converter's state is a record that each of its operators changes in a *)
(* few fields, so there is a lemma for each operator, of states that need  *)
(* not be those of a behaviour; the lemmas about the actions cite them.    *)
(***************************************************************************)
EXTENDS MCStreams, Integers, SequenceTheorems, FiniteSetTheorems, TLAPS

moving == <<route, convs, fwds, records, vars>>

\* Every step is a step of forwarding, or leaves that as it was.
LEMMA ForwardMoves == [RouteNext]_moving => [Forward!Next]_(Forward!vars)
BY DEF RouteNext, moving, fwds, convs, records, Forward!vars, Forward!stream, Forward!client

\* The counting alike.
LEMMA UsageMoves == [RouteNext]_moving => [Usage!Next]_(Usage!vars)
BY DEF RouteNext, moving, fwds, convs, records, Usage!vars

FInv == Forward!OInv
ToldInv == Forward!AllOK

\* The routes move the forwarding as its own steps do, so its invariant comes with them.
LEMMA Forwarded ==
  /\ RouteInit => FInv
  /\ FInv /\ [RouteNext]_moving => FInv'
  /\ FInv => Forward!OneCall /\ Forward!OneResult
<1>1. RouteInit => FInv
  BY Forward!Initially DEF RouteInit, FInv
<1>2. FInv /\ [RouteNext]_moving => FInv'
  BY ForwardMoves, Forward!OrderedStep DEF FInv
<1>3. FInv => Forward!OneCall
  BY Forward!OneCallFollows DEF FInv
<1>4. FInv => Forward!OneResult
  BY Forward!ResultsFollow DEF FInv, Forward!OInv
<1>5. QED
  BY <1>1, <1>2, <1>3, <1>4

\* On every route what a client gets is of one upstream call: once a payload was forwarded, no other credential's stream
\* is begun and none of another call's chunks follow.
THEOREM OneCallOnEveryRoute == RouteSpec => []OneCall
<1>1. FInv => OneCall
  BY Forwarded DEF OneCall
<1>2. QED
  BY Forwarded, <1>1, PTL DEF RouteSpec, moving

\* With a peek that waits for what it reads, so does what the forwarding has told.
LEMMA ForwardTold ==
  ASSUME ~RashPeek
  PROVE  /\ RouteInit => FInv /\ ToldInv
         /\ (FInv /\ ToldInv) /\ [RouteNext]_moving => (FInv /\ ToldInv)'
         /\ ToldInv => Forward!ToldAll
<1>1. RouteInit => FInv /\ ToldInv
  BY Forward!ToldInitially DEF RouteInit, FInv, ToldInv
<1>2. (FInv /\ ToldInv) /\ [RouteNext]_moving => (FInv /\ ToldInv)'
  BY ForwardMoves, Forward!ToldStep DEF FInv, ToldInv
<1>3. ToldInv => Forward!ToldAll
  BY Forward!ToldFollows DEF ToldInv
<1>4. QED
  BY <1>1, <1>2, <1>3

Askers == {r1, r2}
Record == [req : Askers, failed : BOOLEAN]
InHand == dispatcher.at = "handles"

Place == [at : {"calls", "reads", "ends", "signals", "over"}, next : {"reads", "ends", "over"}]
UsageType ==
    /\ body \in [Askers -> Place]
    /\ reported \in [Askers -> {"no", "queued", "dropped", "lost"}]
    /\ queue \in Seq(Record) /\ stats \in Seq(Record) /\ exported \subseteq Record
    /\ dispatcher \in [at : {"looks", "asleep", "handles", "over"}, item : Record \cup {Usage!Looks.item}]
    /\ InHand => dispatcher.item \in Record

\* A request's record is in one place: the queue, the dispatcher's hand, or the statistics;
Apart == /\ \A i, j \in DOMAIN queue : queue[i].req = queue[j].req => i = j
         /\ \A i, j \in DOMAIN stats : stats[i].req = stats[j].req => i = j
         /\ \A i \in DOMAIN queue, j \in DOMAIN stats : queue[i].req # stats[j].req
         /\ InHand => /\ \A i \in DOMAIN queue : queue[i].req # dispatcher.item.req
                      /\ \A i \in DOMAIN stats : stats[i].req # dispatcher.item.req
\* one that was exported is the same as that of the statistics, and in neither other place;
Copied == /\ \A d, e \in exported : d.req = e.req => d = e
          /\ \A d \in exported : /\ \A i \in DOMAIN stats : stats[i].req = d.req => stats[i] = d
                                 /\ \A i \in DOMAIN queue : queue[i].req # d.req
                                 /\ InHand => dispatcher.item.req # d.req
\* one that was not reported is nowhere;
Kept(r) == \/ \E i \in DOMAIN queue : queue[i].req = r
           \/ InHand /\ dispatcher.item.req = r
           \/ \E i \in DOMAIN stats : stats[i].req = r
Unreported == \A r \in Askers :
    /\ body[r].at = "calls" => reported[r] = "no"
    /\ reported[r] = "no" => ~Kept(r) /\ \A d \in exported : d.req # r
\* one that was accepted is somewhere, and not in the queue when the dispatcher is over.
Accepted == /\ \A r \in Askers : reported[r] = "queued" => Kept(r)
            /\ dispatcher.at = "over" => queue = <<>> /\ Usage!closed

UsageInv == UsageType /\ Apart /\ Copied /\ Unreported /\ Accepted

\* Nothing was reported before the first request.
LEMMA UsageInit == RouteInit => UsageInv
<1> SUFFICES ASSUME RouteInit PROVE UsageInv
  OBVIOUS
<1>1. /\ body \in [Askers -> [at : {"calls", "over"}, next : {"over"}]]
      /\ reported = [r \in Askers |-> "no"]
      /\ queue = <<>> /\ stop = "no" /\ stats = <<>> /\ exported = {}
      /\ dispatcher \in [at : {"looks", "asleep"}, item : {Usage!Looks.item}]
  BY DEF RouteInit, Usage!Init, Usage!Unused, Usage!Begin, Usage!Looks, Askers
<1>2. <<>> \in Seq(Record) /\ DOMAIN <<>> = {}
  OBVIOUS
<1>3. ~InHand /\ dispatcher.at # "over"
  BY <1>1 DEF InHand
<1>4. UsageType
  BY <1>1, <1>2, <1>3 DEF UsageType, Place
<1>5. Apart /\ Copied /\ Unreported /\ Accepted
  BY <1>1, <1>2, <1>3 DEF Apart, Copied, Unreported, Accepted, Kept, Askers
<1>6. QED
  BY <1>4, <1>5 DEF UsageInv

\* A record joins the queue, or none does.
LEMMA PublishKeeps ==
  ASSUME UsageInv, NEW r \in Askers, NEW failed \in BOOLEAN, NEW next \in {"reads", "ends", "over"},
         Usage!Publish(r, failed, next), UNCHANGED <<dispatcher, stop, stats, exported>>
  PROVE  UsageInv'
<1> DEFINE new == [req |-> r, failed |-> failed]
<1>1. new \in Record /\ new.req = r
  BY DEF Record
<1>2. UsageType'
  <2>1. /\ body \in [Askers -> Place] /\ queue \in Seq(Record)
        /\ reported \in [Askers -> {"no", "queued", "dropped", "lost"}]
    BY DEF UsageInv, UsageType
  <2>2. body' \in [Askers -> Place]
    BY <2>1 DEF Usage!Publish, Usage!GoOn, Place
  <2>3. reported' \in [Askers -> {"no", "queued", "dropped", "lost"}]
    BY <2>1 DEF Usage!Publish
  <2>4. queue' = queue \/ queue' = Append(queue, new)
    BY DEF Usage!Publish
  <2>5. queue' \in Seq(Record)
    BY <1>1, <2>1, <2>4
  <2>6. QED
    BY <2>2, <2>3, <2>5 DEF UsageInv, UsageType, InHand
<1>3. body'[r].at # "calls" /\ \A q \in Askers \ {r} : body'[q] = body[q] /\ reported'[q] = reported[q]
  BY DEF Usage!Publish, Usage!GoOn, UsageInv, UsageType, Place
<1>4. CASE Usage!Reported(r)
  <2>1. UNCHANGED <<queue, reported>>
    BY <1>4 DEF Usage!Publish
  <2>2. (Apart /\ Copied /\ Accepted)'
    BY <2>1 DEF UsageInv, Apart, Copied, Accepted, Kept, InHand, Usage!closed
  <2>3. Unreported'
    BY <1>3, <1>4, <2>1 DEF UsageInv, Unreported, Kept, InHand, Usage!Reported
  <2>4. QED
    BY <1>2, <2>2, <2>3 DEF UsageInv
<1>5. CASE ~Usage!Reported(r) /\ Usage!closed
  <2>1. queue' = queue /\ reported'[r] = "dropped"
    BY <1>5 DEF Usage!Publish, UsageInv, UsageType
  <2>2. (Apart /\ Copied)'
    BY <2>1 DEF UsageInv, Apart, Copied, InHand
  <2>3. (Unreported /\ Accepted)'
    BY <1>3, <2>1 DEF UsageInv, Unreported, Accepted, Kept, InHand, Usage!closed
  <2>4. QED
    BY <1>2, <2>2, <2>3 DEF UsageInv
<1>6. CASE ~Usage!Reported(r) /\ ~Usage!closed
  <2> HIDE DEF new
  <2>1. queue' = Append(queue, new) /\ reported'[r] = "queued" /\ queue \in Seq(Record)
    BY <1>6 DEF Usage!Publish, UsageInv, UsageType, new
  <2>2. /\ ~Kept(r) /\ \A d \in exported : d.req # r
    BY <1>6 DEF UsageInv, Unreported, Usage!Reported
  <2>3. /\ DOMAIN queue' = DOMAIN queue \cup {Len(queue) + 1}
        /\ Len(queue) + 1 \notin DOMAIN queue
        /\ \A i \in DOMAIN queue : queue'[i] = queue[i]
        /\ queue'[Len(queue) + 1] = new
    BY <2>1
  <2>4. (Apart /\ Copied)'
    BY <1>1, <2>2, <2>3 DEF UsageInv, Apart, Copied, Kept, InHand
  <2>5. \A q \in Askers : Kept(q)' <=> Kept(q) \/ q = r
    BY <1>1, <2>3 DEF Kept, InHand
  <2>6. Unreported'
    BY <1>3, <2>1, <2>5 DEF UsageInv, Unreported
  <2>7. dispatcher.at # "over"
    BY <1>6 DEF UsageInv, Accepted
  <2>8. Accepted'
    BY <1>3, <2>1, <2>5, <2>7 DEF UsageInv, Accepted
  <2>9. QED
    BY <1>2, <2>4, <2>6, <2>8 DEF UsageInv
<1>7. QED
  BY <1>4, <1>5, <1>6

\* A goroutine goes on, and the dispatcher may be woken.
LEMMA SignalKeeps ==
  ASSUME UsageInv, UNCHANGED <<reported, queue, stats, exported>>,
         stop' = stop \/ stop' \in {"closed", "told"},
         dispatcher' = dispatcher \/ dispatcher' = Usage!Woken,
         \/ body' = body
         \/ \E r \in Askers, place \in {"reads", "ends", "over"} : Usage!GoOn(r, place)
  PROVE  UsageInv'
<1>1. /\ (dispatcher'.at = dispatcher.at /\ dispatcher'.item = dispatcher.item)
         \/ (dispatcher.at = "asleep" /\ dispatcher'.at = "looks")
      /\ dispatcher' \in [at : {"looks", "asleep", "handles", "over"}, item : Record \cup {Usage!Looks.item}]
  BY DEF Usage!Woken, Usage!Looks, UsageInv, UsageType
<1>2. (InHand' <=> InHand) /\ (InHand => dispatcher'.item = dispatcher.item)
  BY <1>1 DEF InHand
<1>3. \A r \in Askers : body'[r].at = "calls" => body[r].at = "calls"
  BY DEF Usage!GoOn, UsageInv, UsageType
<1>4. body' \in [Askers -> Place]
  BY DEF Usage!GoOn, UsageInv, UsageType, Place
<1>5. UsageType'
  BY <1>1, <1>2, <1>4 DEF UsageInv, UsageType
<1>6. \A r \in Askers : Kept(r)' <=> Kept(r)
  BY <1>2 DEF Kept
<1>7. (Apart /\ Copied)'
  BY <1>2 DEF UsageInv, Apart, Copied
<1>8. (Unreported /\ Accepted)'
  BY <1>1, <1>3, <1>6 DEF UsageInv, Unreported, Accepted, Usage!closed
<1>9. QED
  BY <1>5, <1>7, <1>8 DEF UsageInv

\* The dispatcher takes the first record, or none,
LEMMA LookKeeps ==
  ASSUME UsageInv, Usage!Look
  PROVE  UsageInv'
<1>1. UNCHANGED <<body, reported, stop, stats, exported>> /\ ~InHand /\ dispatcher.at # "over"
  BY DEF Usage!Look, InHand
<1>2. queue \in Seq(Record)
  BY DEF UsageInv, UsageType
<1>3. CASE queue' = queue /\ dispatcher' \in {[Usage!Looks EXCEPT !.at = "over"], [Usage!Looks EXCEPT !.at = "asleep"]}
           /\ (dispatcher'.at = "over" => Usage!Stopped)
  <2>1. ~InHand' /\ dispatcher' \in [at : {"asleep", "over"}, item : {Usage!Looks.item}]
    BY <1>3 DEF InHand, Usage!Looks
  <2>2. UsageType' /\ \A r \in Askers : Kept(r)' <=> Kept(r)
    BY <1>1, <1>3, <2>1 DEF UsageInv, UsageType, Kept
  <2>3. (Apart /\ Copied)'
    BY <1>1, <1>3, <2>1 DEF UsageInv, Apart, Copied
  <2>4. (Unreported /\ Accepted)'
    BY <1>1, <1>3, <2>2 DEF UsageInv, Unreported, Accepted, Usage!Stopped, Usage!closed
  <2>5. QED
    BY <2>2, <2>3, <2>4 DEF UsageInv
<1>4. CASE queue # <<>> /\ queue' = Tail(queue) /\ dispatcher' = [at |-> "handles", item |-> Head(queue)]
  <2>1. /\ InHand' /\ dispatcher'.item = queue[1] /\ queue[1] \in Record /\ dispatcher'.at = "handles"
        /\ 1 \in DOMAIN queue /\ queue' \in Seq(Record)
        /\ \A i \in DOMAIN queue' : i \in Nat /\ i + 1 \in DOMAIN queue /\ queue'[i] = queue[i + 1] /\ i + 1 # 1
        /\ \A i \in DOMAIN queue : i # 1 => i \in Nat /\ i - 1 \in DOMAIN queue' /\ queue'[i - 1] = queue[i]
    BY <1>2, <1>4 DEF InHand
  <2>2. UsageType'
    BY <1>1, <1>4, <2>1 DEF UsageInv, UsageType
  <2>3. \A r \in Askers : Kept(r)' <=> Kept(r)
    <3> SUFFICES ASSUME NEW r \in Askers PROVE Kept(r)' <=> Kept(r)
      OBVIOUS
    <3>1. (\E i \in DOMAIN queue : queue[i].req = r) <=> (\E i \in DOMAIN queue' : queue'[i].req = r) \/ queue[1].req = r
      BY <2>1
    <3>2. QED
      BY <1>1, <2>1, <3>1 DEF Kept
  <2>4. Apart'
    <3>1. \A i, j \in DOMAIN queue' : queue'[i].req = queue'[j].req => i = j
      <4> SUFFICES ASSUME NEW i \in DOMAIN queue', NEW j \in DOMAIN queue', queue'[i].req = queue'[j].req PROVE i = j
        OBVIOUS
      <4>1. i + 1 = j + 1
        BY <2>1 DEF UsageInv, Apart
      <4>2. QED
        BY <2>1, <4>1
    <3>2. \A i \in DOMAIN queue' : queue'[i].req # queue[1].req
      BY <2>1 DEF UsageInv, Apart
    <3>3. \A i \in DOMAIN queue', j \in DOMAIN stats : queue'[i].req # stats[j].req
      BY <2>1 DEF UsageInv, Apart
    <3>4. \A j \in DOMAIN stats : stats[j].req # queue[1].req
      BY <2>1 DEF UsageInv, Apart
    <3>5. \A i, j \in DOMAIN stats : stats[i].req = stats[j].req => i = j
      BY DEF UsageInv, Apart
    <3>6. QED
      BY <1>1, <2>1, <3>1, <3>2, <3>3, <3>4, <3>5 DEF Apart
  <2>5. Copied'
    BY <1>1, <2>1 DEF UsageInv, Copied
  <2>6. (Unreported /\ Accepted)'
    BY <1>1, <2>1, <2>3 DEF UsageInv, Unreported, Accepted
  <2>7. QED
    BY <2>2, <2>4, <2>5, <2>6 DEF UsageInv
<1>5. QED
  BY <1>3, <1>4 DEF Usage!Look, Usage!Looks

\* and adds it to the statistics.
LEMMA HandleKeeps ==
  ASSUME UsageInv, Usage!Handle
  PROVE  UsageInv'
<1> DEFINE new == dispatcher.item
<1>1. /\ UNCHANGED <<body, reported, queue, stop, exported>> /\ InHand
      /\ stats' = Append(stats, new) /\ new \in Record /\ stats \in Seq(Record) /\ dispatcher' = Usage!Looks
  BY DEF Usage!Handle, InHand, UsageInv, UsageType
<1>2. ~InHand' /\ dispatcher' \in [at : {"looks"}, item : {Usage!Looks.item}]
  BY <1>1 DEF InHand, Usage!Looks
<1> HIDE DEF new
<1>3. /\ DOMAIN stats' = DOMAIN stats \cup {Len(stats) + 1} /\ Len(stats) + 1 \notin DOMAIN stats
      /\ \A i \in DOMAIN stats : stats'[i] = stats[i]
      /\ stats'[Len(stats) + 1] = new /\ stats' \in Seq(Record)
  BY <1>1
<1>4. /\ \A i \in DOMAIN queue : queue[i].req # new.req
      /\ \A i \in DOMAIN stats : stats[i].req # new.req
      /\ \A d \in exported : d.req # new.req
  BY <1>1 DEF UsageInv, Apart, Copied, new
<1>5. UsageType'
  BY <1>1, <1>2, <1>3 DEF UsageInv, UsageType
<1>6. \A r \in Askers : Kept(r)' <=> Kept(r)
  BY <1>1, <1>2, <1>3 DEF Kept, new
<1>7. (Apart /\ Copied)'
  BY <1>1, <1>2, <1>3, <1>4 DEF UsageInv, Apart, Copied
<1>8. (Unreported /\ Accepted)'
  BY <1>1, <1>2, <1>6 DEF UsageInv, Unreported, Accepted
<1>9. QED
  BY <1>5, <1>7, <1>8 DEF UsageInv

\* What is exported is what the statistics have.
LEMMA SnapshotKeeps ==
  ASSUME UsageInv, Usage!Snapshot
  PROVE  UsageInv'
<1>1. /\ UNCHANGED <<body, reported, queue, stop, dispatcher, stats>>
      /\ \A d : d \in exported' <=> \E i \in DOMAIN stats : d = stats[i]
  BY DEF Usage!Snapshot
<1>2. \A i \in DOMAIN stats : stats[i] \in Record
  BY DEF UsageInv, UsageType
<1>3. (UsageType /\ Apart /\ Accepted)'
  BY <1>1, <1>2 DEF UsageInv, UsageType, Apart, Accepted, Kept, InHand, Usage!closed
<1>4. Copied'
  BY <1>1 DEF UsageInv, Copied, Apart, InHand
<1>5. Unreported'
  <2>1. \A r \in Askers : (\E i \in DOMAIN stats : stats[i].req = r) => Kept(r)
    BY DEF Kept
  <2>2. QED
    BY <1>1, <1>2, <2>1 DEF UsageInv, Unreported, Kept, InHand
<1>6. QED
  BY <1>3, <1>4, <1>5 DEF UsageInv

\* Both count alike.
LEMMA UsageCounts == \A S : Usage!Cardinality(S) = Cardinality(S)
BY DEF Usage!Cardinality, Cardinality

\* There are finitely many records.
LEMMA RecordsFinite == IsFiniteSet(Record)
<1>1. \A w, x, y, z : IsFiniteSet({w, x, y, z})
  <2> SUFFICES ASSUME NEW w, NEW x, NEW y, NEW z PROVE IsFiniteSet({w, x, y, z})
    OBVIOUS
  <2>1. IsFiniteSet({w} \cup {x})
    BY FS_Singleton, FS_AddElement
  <2>2. IsFiniteSet(({w} \cup {x}) \cup {y})
    BY <2>1, FS_AddElement
  <2>3. IsFiniteSet((({w} \cup {x}) \cup {y}) \cup {z})
    BY <2>2, FS_AddElement
  <2>4. {w, x, y, z} = (({w} \cup {x}) \cup {y}) \cup {z}
    OBVIOUS
  <2>5. QED
    BY <2>3, <2>4
<1>2. Record \subseteq {[req |-> r1, failed |-> TRUE], [req |-> r1, failed |-> FALSE],
                        [req |-> r2, failed |-> TRUE], [req |-> r2, failed |-> FALSE]}
  BY DEF Record, Askers
<1>3. QED
  BY <1>1, <1>2, FS_Subset

\* The program starts again: what was counted or under way is lost, but for the exported.
LEMMA RestartKeeps ==
  ASSUME UsageInv, Usage!Restart
  PROVE  UsageInv'
<1>1. /\ \A r \in Askers : body[r].at = "calls" => body'[r] = body[r] /\ reported'[r] = "no" /\ reported[r] = "no"
      /\ \A r \in Askers : body[r].at # "calls" => body'[r].at # "calls" /\ reported'[r] = "lost"
  BY DEF Usage!Restart, Askers, UsageInv, Unreported
<1>2. queue' = <<>> /\ stop' = "no" /\ stats' = <<>> /\ exported' = exported
  BY DEF Usage!Restart
<1>3. ~InHand' /\ dispatcher' \in [at : {"looks"}, item : {Usage!Looks.item}]
  BY DEF Usage!Restart, InHand, Usage!Looks
<1>4. body' \in [Askers -> Place] /\ reported' \in [Askers -> {"no", "queued", "dropped", "lost"}]
  BY DEF Usage!Restart, Askers, UsageInv, UsageType, Place
<1>5. <<>> \in Seq(Record) /\ DOMAIN <<>> = {}
  OBVIOUS
<1>6. UsageType'
  BY <1>2, <1>3, <1>4, <1>5 DEF UsageInv, UsageType
<1>7. (Apart /\ Copied)'
  BY <1>2, <1>3, <1>5 DEF UsageInv, Apart, Copied
<1>8. \A r \in Askers : ~Kept(r)'
  BY <1>2, <1>3, <1>5 DEF Kept
<1>9. (Unreported /\ Accepted)'
  BY <1>1, <1>2, <1>3, <1>8 DEF UsageInv, Unreported, Accepted
<1>10. QED
  BY <1>6, <1>7, <1>9 DEF UsageInv

\* What two sequences make, one after the other.
LEMMA Joined ==
  ASSUME NEW S, NEW p \in Seq(S), NEW q \in Seq(S)
  PROVE  /\ p \o q \in Seq(S) /\ Len(p \o q) = Len(p) + Len(q)
         /\ \A i \in 1 .. Len(p) : (p \o q)[i] = p[i]
         /\ \A i \in 1 .. Len(p \o q) : i \notin 1 .. Len(p) => /\ i - Len(p) \in 1 .. Len(q)
                                                             /\ (p \o q)[i] = q[i - Len(p)]
<1>1. p \o q \in Seq(S) /\ Len(p \o q) = Len(p) + Len(q) /\ Len(p) \in Nat /\ Len(q) \in Nat
  OBVIOUS
<1>2. \A i \in 1 .. Len(p) + Len(q) : (p \o q)[i] = IF i <= Len(p) THEN p[i] ELSE q[i - Len(p)]
  OBVIOUS
<1>3. QED
  BY <1>1, <1>2

\* A file brings back what the statistics have not, each record once.
LEMMA MergeKeeps ==
  ASSUME UsageInv, Usage!MergeSnapshot
  PROVE  UsageInv'
<1> DEFINE new == {d \in exported : \A i \in DOMAIN stats : stats[i] # d}
           c == Cardinality(new)
<1>1. PICK s \in [1 .. c -> new] : {s[i] : i \in DOMAIN s} = new /\ stats' = stats \o s
  BY UsageCounts DEF Usage!MergeSnapshot, Usage!Added
<1>2. UNCHANGED <<body, reported, queue, stop, dispatcher, exported>> /\ (InHand' <=> InHand)
  BY DEF Usage!MergeSnapshot, InHand
<1>3. new \subseteq Record /\ stats \in Seq(Record)
  BY DEF UsageInv, UsageType
<1>4. IsFiniteSet(new) /\ c \in Nat
  BY <1>3, RecordsFinite, FS_Subset, FS_CardinalityType
<1> HIDE DEF c
<1>5. \A i, j \in 1 .. c : s[i] = s[j] => i = j
  <2>1. s \in Surjection(1 .. c, new)
    BY <1>1 DEF Surjection
  <2>2. IsFiniteSet(1 .. c) /\ Cardinality(1 .. c) = Cardinality(new)
    BY <1>4, FS_Interval DEF c
  <2>3. s \in Injection(1 .. c, new)
    BY <2>1, <2>2, FS_SurjSameCardinalityImpliesInj
  <2>4. QED
    BY <2>3 DEF Injection, IsInjective
<1>6. \A d \in new : /\ d \in exported
                     /\ \A i \in DOMAIN stats : stats[i].req # d.req
                     /\ \A i \in DOMAIN queue : queue[i].req # d.req
                     /\ InHand => dispatcher.item.req # d.req
  BY DEF UsageInv, Copied
<1>7. \A d, e \in new : d.req = e.req => d = e
  BY DEF UsageInv, Copied
<1> HIDE DEF new
<1>8. s \in Seq(Record) /\ Len(s) = c
  <2>1. s \in [1 .. c -> Record]
    BY <1>1, <1>3
  <2>2. QED
    BY ONLY <1>4, <2>1
<1>9. /\ stats' \in Seq(Record) /\ Len(stats) \in Nat
      /\ \A i \in 1 .. Len(stats) : stats'[i] = stats[i]
      /\ \A i \in 1 .. Len(stats') : i \notin 1 .. Len(stats) => i - Len(stats) \in 1 .. c /\ stats'[i] = s[i - Len(stats)]
      /\ DOMAIN stats = 1 .. Len(stats) /\ DOMAIN stats' = 1 .. Len(stats') /\ DOMAIN stats \subseteq DOMAIN stats'
  <2>1. stats' = stats \o s /\ stats \in Seq(Record) /\ s \in Seq(Record) /\ Len(s) = c /\ c \in Nat
    BY <1>1, <1>3, <1>4, <1>8
  <2>2. /\ stats' \in Seq(Record) /\ Len(stats') = Len(stats) + c
        /\ \A i \in 1 .. Len(stats) : stats'[i] = stats[i]
        /\ \A i \in 1 .. Len(stats') : i \notin 1 .. Len(stats) => i - Len(stats) \in 1 .. c /\ stats'[i] = s[i - Len(stats)]
    <3> DEFINE all == stats \o s
    <3>1. /\ all \in Seq(Record) /\ Len(all) = Len(stats) + Len(s)
          /\ \A i \in 1 .. Len(stats) : all[i] = stats[i]
          /\ \A i \in 1 .. Len(all) : i \notin 1 .. Len(stats) => i - Len(stats) \in 1 .. Len(s) /\ all[i] = s[i - Len(stats)]
      BY <2>1, Joined, ZenonT(40)
    <3> HIDE DEF all
    <3>2. stats' = all /\ Len(s) = c
      BY <2>1 DEF all
    <3>3. QED
      BY ONLY <3>1, <3>2
  <2>3. /\ DOMAIN stats = 1 .. Len(stats) /\ DOMAIN stats' = 1 .. Len(stats') /\ Len(stats) \in Nat
        /\ DOMAIN stats \subseteq DOMAIN stats'
    BY ONLY <2>1, <2>2
  <2>4. QED
    BY <2>2, <2>3
<1>10. \A i \in DOMAIN stats' : i \notin DOMAIN stats => stats'[i] \in new
  BY <1>1, <1>9
<1>11. \A i, j \in DOMAIN stats' : stats'[i].req = stats'[j].req => i = j
  <2> SUFFICES ASSUME NEW i \in DOMAIN stats', NEW j \in DOMAIN stats', stats'[i].req = stats'[j].req
               PROVE  i = j
    OBVIOUS
  <2>1. CASE i \in DOMAIN stats /\ j \in DOMAIN stats
    BY <1>9, <2>1 DEF UsageInv, Apart
  <2>2. CASE i \in DOMAIN stats /\ j \notin DOMAIN stats
    BY <1>6, <1>9, <1>10, <2>2
  <2>3. CASE i \notin DOMAIN stats /\ j \in DOMAIN stats
    BY <1>6, <1>9, <1>10, <2>3
  <2>4. CASE i \notin DOMAIN stats /\ j \notin DOMAIN stats
    <3>1. stats'[i] = stats'[j]
      BY <1>7, <1>10, <2>4
    <3>2. i - Len(stats) = j - Len(stats)
      BY <1>5, <1>9, <2>4, <3>1
    <3>3. QED
      BY <1>9, <3>2
  <2>5. QED
    BY <2>1, <2>2, <2>3, <2>4
<1>12. Apart'
  <2>1. \A i \in DOMAIN queue, j \in DOMAIN stats' : queue[i].req # stats'[j].req
    BY <1>6, <1>9, <1>10 DEF UsageInv, Apart
  <2>2. InHand => \A i \in DOMAIN stats' : stats'[i].req # dispatcher.item.req
    BY <1>6, <1>9, <1>10 DEF UsageInv, Apart
  <2>3. QED
    BY <1>2, <1>11, <2>1, <2>2 DEF UsageInv, Apart
<1>13. Copied'
  <2>1. \A d \in exported : \A i \in DOMAIN stats' : stats'[i].req = d.req => stats'[i] = d
    BY <1>6, <1>9, <1>10 DEF UsageInv, Copied
  <2>2. QED
    BY <1>2, <2>1 DEF UsageInv, Copied
<1>14. \A r \in Askers : /\ Kept(r) => Kept(r)'
                         /\ Kept(r)' => Kept(r) \/ \E d \in exported : d.req = r
  BY <1>2, <1>6, <1>9, <1>10 DEF Kept
<1>15. (Unreported /\ Accepted)'
  BY <1>2, <1>14 DEF UsageInv, Unreported, Accepted, Usage!closed
<1>16. UsageType'
  BY <1>2, <1>9 DEF UsageInv, UsageType
<1>17. QED
  BY <1>12, <1>13, <1>15, <1>16 DEF UsageInv

\* Every step keeps the invariant,
LEMMA UsageStep ==
  ASSUME UsageInv, [Usage!Next]_(Usage!vars)
  PROVE  UsageInv'
<1>1. \A r \in Askers : body[r].next \in {"reads", "ends", "over"}
  BY DEF UsageInv, UsageType, Place
<1>2. ASSUME NEW r \in Askers, Usage!ExecutorStep(r)
      PROVE  UsageInv'
  <2>0. UNCHANGED <<stop, stats, exported>>
    BY <1>2 DEF Usage!ExecutorStep
  <2>1. CASE (Usage!Answer(r) \/ Usage!ScanEnds(r)) /\ UNCHANGED dispatcher
    BY <2>0, <2>1, SignalKeeps DEF Usage!Answer, Usage!ScanEnds
  <2>2. CASE Usage!Signal(r)
    BY <1>1, <2>0, <2>2, SignalKeeps DEF Usage!Signal
  <2>3. CASE (Usage!Refuse(r) \/ Usage!UsageLine(r) \/ Usage!ScanError(r) \/ Usage!EnsurePublished(r)) /\ UNCHANGED dispatcher
    BY <2>0, <2>3, PublishKeeps DEF Usage!Refuse, Usage!UsageLine, Usage!ScanError, Usage!EnsurePublished
  <2>4. QED
    BY <1>2, <2>1, <2>2, <2>3 DEF Usage!ExecutorStep
<1>3. CASE Usage!Stop \/ Usage!Broadcast \/ UNCHANGED Usage!vars
  BY <1>3, SignalKeeps DEF Usage!Stop, Usage!Broadcast, Usage!vars
<1>4. QED
  BY <1>2, <1>3, LookKeeps, HandleKeeps, SnapshotKeeps, MergeKeeps, RestartKeeps
     DEF Usage!Next, Usage!Program, Askers

\* which implies the property.
LEMMA UsageFollows ==
  ASSUME UsageInv
  PROVE  Usage!OneRecord
<1> DEFINE at(r) == {i \in DOMAIN stats : stats[i].req = r}
<1>1. ASSUME NEW r \in Askers
      PROVE  /\ at(r) = {} \/ \E i \in DOMAIN stats : at(r) = {i}
             /\ (\E i \in DOMAIN stats : stats[i].req = r) => at(r) # {}
  BY DEF UsageInv, Apart
<1>2. \A r \in Askers : /\ Usage!Counted(r, stats) <= 1
                        /\ (\E i \in DOMAIN stats : stats[i].req = r) => Usage!Counted(r, stats) = 1
  <2> SUFFICES ASSUME NEW r \in Askers
               PROVE  /\ Usage!Counted(r, stats) <= 1
                      /\ (\E i \in DOMAIN stats : stats[i].req = r) => Usage!Counted(r, stats) = 1
    OBVIOUS
  <2>1. Usage!Counted(r, stats) = Cardinality(at(r))
    BY UsageCounts DEF Usage!Counted
  <2> HIDE DEF at
  <2>2. Cardinality(at(r)) \in {0, 1} /\ (at(r) # {} => Cardinality(at(r)) = 1)
    BY <1>1, FS_EmptySet, FS_Singleton
  <2>3. QED
    BY <1>1, <2>1, <2>2
<1>3. ASSUME dispatcher.at = "over", NEW r \in Askers, reported[r] = "queued"
      PROVE  \E i \in DOMAIN stats : stats[i].req = r
  <2>1. queue = <<>> /\ ~InHand /\ Kept(r)
    BY <1>3 DEF UsageInv, Accepted, InHand
  <2>2. QED
    BY <2>1 DEF Kept
<1>4. QED
  BY <1>2, <1>3 DEF Usage!OneRecord, Askers

\* A call is reported once to the manager, and counted once in the statistics: however
\* calls are retried, a stream ends, a reporter publishes, the dispatcher is stopped, a
\* snapshot is merged, or the program starts again.
THEOREM ResultsAreTakenOnce == RouteSpec => []OneResult
<1>1. FInv /\ UsageInv => OneResult
  BY Forwarded, UsageFollows DEF OneResult
<1>2. UsageInv /\ [RouteNext]_moving => UsageInv'
  BY UsageMoves, UsageStep
<1>3. QED
  BY Forwarded, UsageInit, <1>1, <1>2, PTL DEF RouteSpec, moving

Claude == INSTANCE ClaudeStream

\* What a client has made of events, and what the upstream says.
Said == [chunk : Nat, kind : Claude!Kinds]
Client(S) == [phase : Claude!Phases, open : SUBSET [at : Int, kind : Claude!Kinds], next : Int, tools : Nat,
              reason : Claude!Reasons, heard : SUBSET S]

\* What was said came in chunks up to this one.
UpTo(count, said) == said \subseteq Said /\ \A f \in said : f.chunk <= count

\* A message starts;
LEMMA MessageStarts ==
  ASSUME NEW S, NEW c \in Client(S), c.phase = "new"
  PROVE  LET d == Claude!MessageStart(c) IN
         /\ d \in Client(S) /\ d.phase = "body"
         /\ d.open = c.open /\ d.next = c.next /\ d.tools = c.tools /\ d.reason = c.reason /\ d.heard = c.heard
BY DEF Client, Claude!MessageStart, Claude!Phases

\* a block starts,
LEMMA BlockStarts ==
  ASSUME NEW S, NEW c \in Client(S), NEW kind \in Claude!Kinds, NEW i \in Int, c.phase = "body", i = c.next
  PROVE  LET d == Claude!BlockStart(c, i, kind) IN
         /\ d \in Client(S) /\ d.phase = "body"
         /\ d.open = c.open \cup {Claude!Block(i, kind)} /\ d.next = i + 1
         /\ d.tools = (IF kind = "tool" THEN c.tools + 1 ELSE c.tools) /\ d.reason = c.reason /\ d.heard = c.heard
<1> DEFINE o == c.open \cup {Claude!Block(i, kind)}
           n == i + 1
           k == IF kind = "tool" THEN c.tools + 1 ELSE c.tools
           d == Claude!BlockStart(c, i, kind)
<1>1. d = [c EXCEPT !.open = o, !.next = n, !.tools = k]
  BY DEF Claude!BlockStart
<1>2. o \in SUBSET [at : Int, kind : Claude!Kinds]
  BY DEF Client, Claude!Block
<1>3. n \in Int /\ k \in Nat
  BY DEF Client
<1> HIDE DEF o, n, k, d
<1>4. /\ d \in Client(S) /\ d.phase = c.phase /\ d.open = o /\ d.next = n /\ d.tools = k
      /\ d.reason = c.reason /\ d.heard = c.heard
  BY <1>1, <1>2, <1>3 DEF Client
<1>5. QED
  BY <1>4 DEF o, n, k, d

\* is fed
LEMMA BlockFed ==
  ASSUME NEW S, NEW c \in Client(S), NEW kind \in Claude!Kinds, NEW i \in Int, NEW F \in SUBSET S,
         c.phase = "body", Claude!Block(i, kind) \in c.open, F \cap c.heard = {}
  PROVE  LET d == Claude!BlockDelta(c, i, kind, F) IN
         /\ d \in Client(S) /\ d.phase = "body"
         /\ d.open = c.open /\ d.next = c.next /\ d.tools = c.tools /\ d.reason = c.reason
         /\ d.heard = c.heard \cup F
BY DEF Client, Claude!BlockDelta, Claude!Block

\* and stops.
LEMMA BlockStops ==
  ASSUME NEW S, NEW c \in Client(S), NEW i \in Int, c.phase = "body", \E b \in c.open : b.at = i
  PROVE  LET d == Claude!BlockStop(c, i) IN
         /\ d \in Client(S) /\ d.phase = "body"
         /\ d.open = {b \in c.open : b.at # i} /\ d.next = c.next /\ d.tools = c.tools /\ d.reason = c.reason
         /\ d.heard = c.heard
BY DEF Client, Claude!BlockStop

\* The reason is told,
LEMMA ReasonTold ==
  ASSUME NEW S, NEW c \in Client(S), NEW reason \in Claude!Reasons, c.phase \in {"body", "ending"}, c.open = {}
  PROVE  LET d == Claude!MessageDelta(c, reason) IN
         /\ d \in Client(S) /\ d.phase = "ending"
         /\ d.open = {} /\ d.next = c.next /\ d.tools = c.tools /\ d.reason = reason /\ d.heard = c.heard
BY DEF Client, Claude!MessageDelta, Claude!Phases

\* and the message stops.
LEMMA MessageStops ==
  ASSUME NEW S, NEW c \in Client(S), c.phase \in {"body", "ending"}, c.open = {}
  PROVE  LET d == Claude!MessageStop(c) IN
         /\ d \in Client(S) /\ d.phase = "stopped"
         /\ d.open = {} /\ d.next = c.next /\ d.tools = c.tools /\ d.reason = c.reason /\ d.heard = c.heard
BY DEF Client, Claude!MessageStop, Claude!Phases

\* Every converter speaks of the same events.
LEMMA GeminiEvents ==
  \A c, i, kind, F, reason :
     /\ Gemini!MessageStart(c) = Claude!MessageStart(c)
     /\ Gemini!BlockStart(c, i, kind) = Claude!BlockStart(c, i, kind)
     /\ Gemini!BlockDelta(c, i, kind, F) = Claude!BlockDelta(c, i, kind, F)
     /\ Gemini!BlockStop(c, i) = Claude!BlockStop(c, i)
     /\ Gemini!MessageDelta(c, reason) = Claude!MessageDelta(c, reason)
     /\ Gemini!MessageStop(c) = Claude!MessageStop(c)
BY DEF Gemini!MessageStart, Gemini!BlockStart, Gemini!BlockDelta, Gemini!BlockStop, Gemini!MessageDelta, Gemini!MessageStop,
       Gemini!Broken, Gemini!Block,
       Claude!MessageStart, Claude!BlockStart, Claude!BlockDelta, Claude!BlockStop, Claude!MessageDelta, Claude!MessageStop,
       Claude!Broken, Claude!Block

\* Antigravity's instance writes Claude's events as the others do,
LEMMA AntigravityEvents ==
  \A c, i, kind, F, reason :
     /\ Antigravity!MessageStart(c) = Claude!MessageStart(c)
     /\ Antigravity!BlockStart(c, i, kind) = Claude!BlockStart(c, i, kind)
     /\ Antigravity!BlockDelta(c, i, kind, F) = Claude!BlockDelta(c, i, kind, F)
     /\ Antigravity!BlockStop(c, i) = Claude!BlockStop(c, i)
     /\ Antigravity!MessageDelta(c, reason) = Claude!MessageDelta(c, reason)
     /\ Antigravity!MessageStop(c) = Claude!MessageStop(c)
BY DEF Antigravity!MessageStart, Antigravity!BlockStart, Antigravity!BlockDelta, Antigravity!BlockStop, Antigravity!MessageDelta,
       Antigravity!MessageStop, Antigravity!Broken, Antigravity!Block,
       Claude!MessageStart, Claude!BlockStart, Claude!BlockDelta, Claude!BlockStop, Claude!MessageDelta, Claude!MessageStop,
       Claude!Broken, Claude!Block

\* and so does Codex's.
LEMMA CodexEvents ==
  \A c, i, kind, F, reason :
     /\ Codex!MessageStart(c) = Claude!MessageStart(c)
     /\ Codex!BlockStart(c, i, kind) = Claude!BlockStart(c, i, kind)
     /\ Codex!BlockDelta(c, i, kind, F) = Claude!BlockDelta(c, i, kind, F)
     /\ Codex!BlockStop(c, i) = Claude!BlockStop(c, i)
     /\ Codex!MessageDelta(c, reason) = Claude!MessageDelta(c, reason)
     /\ Codex!MessageStop(c) = Claude!MessageStop(c)
BY DEF Codex!MessageStart, Codex!BlockStart, Codex!BlockDelta, Codex!BlockStop, Codex!MessageDelta, Codex!MessageStop,
       Codex!Broken, Codex!Block,
       Claude!MessageStart, Claude!BlockStart, Claude!BlockDelta, Claude!BlockStop, Claude!MessageDelta, Claude!MessageStop,
       Claude!Broken, Claude!Block

\* A message with one block open at most, of this type and index.
OneBlock(s) ==
    /\ s.client.phase = (IF s.started THEN "body" ELSE "new")
    /\ s.client.open = (IF s.type = "none" THEN {} ELSE {Claude!Block(s.index, s.type)})
    /\ s.client.next = (IF s.type = "none" THEN s.index ELSE s.index + 1)
    /\ s.client.reason = "none"
    /\ ~s.started => s.type = "none"
    /\ s.type = "tool" => s.client.tools > 0
Types == Claude!Kinds \cup {"none"}

-----------------------------------------------------------------------------
(* Gemini.                                                                 *)

GeminiConv == [client : Client(Said), started : BOOLEAN, type : Types, index : Nat,
               hasContent : BOOLEAN, sawToolCall : BOOLEAN]
GeminiFlows(s) == s \in GeminiConv /\ OneBlock(s)

\* The message is begun,
LEMMA GeminiStarts ==
  ASSUME NEW s, GeminiFlows(s)
  PROVE  LET t == Gemini!Started(s) IN
         /\ GeminiFlows(t) /\ t.started /\ t.type = s.type /\ t.hasContent = s.hasContent /\ t.sawToolCall = s.sawToolCall
         /\ t.client.tools = s.client.tools /\ t.client.heard = s.client.heard
<1> DEFINE d == Claude!MessageStart(s.client)
<1>1. CASE s.started
  BY <1>1 DEF Gemini!Started
<1>2. CASE ~s.started
  <2>1. Gemini!Started(s) = [s EXCEPT !.started = TRUE, !.client = d]
    BY <1>2, GeminiEvents DEF Gemini!Started
  <2>2. s.client \in Client(Said) /\ s.client.phase = "new"
    BY <1>2 DEF GeminiFlows, GeminiConv, OneBlock
  <2>3. /\ d \in Client(Said) /\ d.phase = "body" /\ d.open = s.client.open /\ d.next = s.client.next
        /\ d.tools = s.client.tools /\ d.reason = s.client.reason /\ d.heard = s.client.heard
    BY <2>2, MessageStarts
  <2> HIDE DEF d
  <2>4. QED
    BY <1>2, <2>1, <2>3 DEF GeminiFlows, GeminiConv, OneBlock
<1>3. QED
  BY <1>1, <1>2 DEF GeminiFlows, GeminiConv

\* a block closed,
LEMMA GeminiCloses ==
  ASSUME NEW s, GeminiFlows(s), s.started
  PROVE  LET t == Gemini!CloseBlock(s) IN
         /\ GeminiFlows(t) /\ t.started /\ t.type = "none" /\ t.sawToolCall = s.sawToolCall
         /\ t.client.tools = s.client.tools /\ t.client.heard = s.client.heard
<1> DEFINE d == Claude!BlockStop(s.client, s.index)
<1>1. CASE s.type = "none"
  BY <1>1 DEF Gemini!CloseBlock
<1>2. CASE s.type # "none"
  <2>1. Gemini!CloseBlock(s) = [s EXCEPT !.client = d, !.type = "none", !.index = s.index + 1]
    BY <1>2, GeminiEvents DEF Gemini!CloseBlock
  <2>2. /\ s.client \in Client(Said) /\ s.client.phase = "body" /\ s.index \in Int
        /\ \A b : b \in s.client.open <=> b = Claude!Block(s.index, s.type)
        /\ Claude!Block(s.index, s.type).at = s.index
    BY <1>2 DEF GeminiFlows, GeminiConv, OneBlock, Claude!Block
  <2>3. /\ d \in Client(Said) /\ d.phase = "body" /\ d.open = {b \in s.client.open : b.at # s.index} /\ d.next = s.client.next
        /\ d.tools = s.client.tools /\ d.reason = s.client.reason /\ d.heard = s.client.heard
    BY <2>2, BlockStops
  <2>4. d.open = {}
    BY <2>2, <2>3
  <2> DEFINE t == Gemini!CloseBlock(s)
  <2> HIDE DEF d, t
  <2>0. "none" \in Types /\ s \in GeminiConv /\ s.index + 1 \in Nat /\ t = Gemini!CloseBlock(s)
    BY DEF Types, GeminiFlows, GeminiConv, t
  <2>5. /\ t \in GeminiConv /\ t.client = d /\ t.type = "none" /\ t.index = s.index + 1 /\ t.started
        /\ t.sawToolCall = s.sawToolCall
    BY <2>0, <2>1, <2>3 DEF GeminiConv
  <2>6. s.client.next = s.index + 1 /\ s.client.reason = "none"
    BY <1>2 DEF GeminiFlows, OneBlock
  <2>7. OneBlock(t)
    BY <2>3, <2>4, <2>5, <2>6 DEF OneBlock
  <2>8. QED
    BY <2>3, <2>5, <2>7 DEF GeminiFlows, t
<1>3. QED
  BY <1>1, <1>2 DEF GeminiFlows, GeminiConv

\* another opened,
LEMMA GeminiOpens ==
  ASSUME NEW s, GeminiFlows(s), s.started, NEW kind \in Claude!Kinds
  PROVE  LET t == Gemini!OpenBlock(s, kind) IN
         /\ GeminiFlows(t) /\ t.started /\ t.type = kind /\ t.hasContent
         /\ t.sawToolCall = s.sawToolCall /\ t.client.heard = s.client.heard
         /\ t.client.tools = IF kind = "tool" THEN s.client.tools + 1 ELSE s.client.tools
<1> DEFINE u == Gemini!CloseBlock(s)
           d == Claude!BlockStart(u.client, u.index, kind)
<1>1. /\ GeminiFlows(u) /\ u.started /\ u.type = "none" /\ u.sawToolCall = s.sawToolCall
      /\ u.client.tools = s.client.tools /\ u.client.heard = s.client.heard
  BY GeminiCloses
<1>2. Gemini!OpenBlock(s, kind) = [u EXCEPT !.client = d, !.type = kind, !.hasContent = TRUE]
  BY GeminiEvents DEF Gemini!OpenBlock
<1> HIDE DEF u
<1>3. u.client \in Client(Said) /\ u.client.phase = "body" /\ u.index \in Int /\ u.index = u.client.next /\ u.client.open = {}
      /\ u.client.reason = "none" /\ u.client.tools \in Nat
  BY <1>1 DEF Client, GeminiFlows, GeminiConv, OneBlock
<1>4. /\ d \in Client(Said) /\ d.phase = "body" /\ d.open = u.client.open \cup {Claude!Block(u.index, kind)}
      /\ d.next = u.index + 1 /\ d.tools = (IF kind = "tool" THEN u.client.tools + 1 ELSE u.client.tools)
      /\ d.reason = u.client.reason /\ d.heard = u.client.heard
  BY <1>3, BlockStarts
<1>5. d.open = {Claude!Block(u.index, kind)} /\ kind # "none" /\ kind \in Types
  BY <1>3, <1>4 DEF Claude!Kinds, Types
<1> DEFINE t == Gemini!OpenBlock(s, kind)
<1> HIDE DEF d, t
<1>6. /\ t \in GeminiConv /\ t.client = d /\ t.type = kind /\ t.index = u.index /\ t.started /\ t.hasContent
      /\ t.sawToolCall = u.sawToolCall
  BY <1>1, <1>2, <1>4, <1>5 DEF GeminiFlows, GeminiConv, t
<1>7. OneBlock(t)
  BY <1>3, <1>4, <1>5, <1>6 DEF OneBlock
<1>8. QED
  BY <1>1, <1>4, <1>6, <1>7 DEF GeminiFlows, t

\* and fed.
LEMMA GeminiFeeds ==
  ASSUME NEW s, GeminiFlows(s), s.started, NEW kind \in Claude!Kinds, s.type = kind,
         NEW F \in SUBSET Said, F \cap s.client.heard = {}
  PROVE  LET t == Gemini!Feed(s, kind, F) IN
         /\ GeminiFlows(t) /\ t.started /\ t.type = kind /\ t.hasContent = s.hasContent
         /\ t.sawToolCall = s.sawToolCall /\ t.client.tools = s.client.tools
         /\ t.client.heard = s.client.heard \cup F
<1> DEFINE d == Claude!BlockDelta(s.client, s.index, kind, F)
<1>1. Gemini!Feed(s, kind, F) = [s EXCEPT !.client = d]
  BY GeminiEvents DEF Gemini!Feed
<1>2. s.client \in Client(Said) /\ s.client.phase = "body" /\ s.index \in Int /\ Claude!Block(s.index, kind) \in s.client.open
  BY DEF GeminiFlows, GeminiConv, OneBlock, Claude!Kinds
<1>3. /\ d \in Client(Said) /\ d.phase = "body" /\ d.open = s.client.open
      /\ d.next = s.client.next /\ d.tools = s.client.tools /\ d.reason = s.client.reason
      /\ d.heard = s.client.heard \cup F
  BY <1>2, BlockFed
<1> HIDE DEF d
<1>4. QED
  BY <1>1, <1>3, ZenonT(40) DEF GeminiFlows, GeminiConv, OneBlock

GeminiUp == [state : {"open", "finished", "over"}, count : Nat, called : BOOLEAN,
             finish : Gemini!Finishes \cup {""}, said : SUBSET Said]

\* While parts come the client has heard them all, in blocks one after the other; after
\* the finish no block is open, and the reason is told if anything was.
GeminiInv ==
    /\ up \in GeminiUp /\ UpTo(up.count, up.said) /\ conv \in GeminiConv
    /\ conv.client.heard = up.said
    /\ conv.sawToolCall <=> conv.client.tools > 0
    /\ conv.hasContent <=> up.said # {}
    /\ up.state = "open" => OneBlock(conv) /\ up.finish = "" /\ (conv.type # "none" <=> conv.hasContent)
    /\ up.state # "open" =>
          /\ conv.client.open = {} /\ up.finish # ""
          /\ conv.client.phase = (IF up.said = {} THEN "body" ELSE IF up.state = "over" THEN "stopped" ELSE "ending")
          /\ up.said # {} => conv.client.reason = Gemini!StopReason(conv, up.finish)

\* t has told F after s.
GeminiTold(s, F, t) == /\ GeminiFlows(t) /\ t.type # "none" /\ t.client.heard = s.client.heard \cup F
                       /\ t.sawToolCall <=> t.client.tools > 0
                       /\ s.hasContent = (s.type # "none") => t.hasContent

\* A part is told.
LEMMA GeminiReads ==
  ASSUME NEW s, GeminiFlows(s), NEW part \in Gemini!Parts, s.sawToolCall <=> s.client.tools > 0,
         NEW F \in SUBSET Said, F \cap s.client.heard = {}
  PROVE  GeminiTold(s, F, Gemini!PartRead(s, part, F))
<1> DEFINE u == Gemini!Started(s)
<1>1. /\ GeminiFlows(u) /\ u.started /\ u.type = s.type /\ u.hasContent = s.hasContent /\ u.sawToolCall = s.sawToolCall
      /\ u.client.tools = s.client.tools /\ u.client.heard = s.client.heard
  BY GeminiStarts
<1> HIDE DEF u
<1>0. u.client.tools \in Nat
  BY <1>1 DEF GeminiFlows, GeminiConv, Client
<1>2. ASSUME NEW kind \in {"text", "thinking"}, Gemini!PartRead(s, part, F) = Gemini!Spoken(u, kind, F)
      PROVE  GeminiTold(s, F, Gemini!PartRead(s, part, F))
  <2> DEFINE v == IF u.type = kind THEN u ELSE Gemini!OpenBlock(u, kind)
  <2>1. /\ GeminiFlows(v) /\ v.started /\ v.type = kind /\ (s.hasContent = (s.type # "none") => v.hasContent)
        /\ v.sawToolCall = u.sawToolCall /\ v.client.tools = u.client.tools /\ v.client.heard = u.client.heard
    <3>1. CASE u.type = kind
      BY <1>1, <3>1 DEF GeminiFlows, GeminiConv
    <3>2. CASE u.type # kind
      BY <1>1, <3>2, GeminiOpens DEF Claude!Kinds
    <3>3. QED
      BY <3>1, <3>2
  <2>2. Gemini!PartRead(s, part, F) = Gemini!Feed(v, kind, F)
    BY <1>2 DEF Gemini!Spoken
  <2> HIDE DEF v
  <2>3. kind # "none" /\ kind \in Claude!Kinds
    BY DEF Claude!Kinds
  <2>4. QED
    BY <1>0, <1>1, <2>1, <2>2, <2>3, GeminiFeeds DEF GeminiTold
<1>3. ASSUME NEW named \in BOOLEAN, Gemini!PartRead(s, part, F) = Gemini!CallRead(u, named, F)
      PROVE  GeminiTold(s, F, Gemini!PartRead(s, part, F))
  <2> DEFINE w == [u EXCEPT !.sawToolCall = TRUE]
             v == IF w.type = "tool" /\ ~named THEN w ELSE Gemini!OpenBlock(w, "tool")
  <2>1. /\ GeminiFlows(w) /\ w.started /\ w.type = u.type /\ w.hasContent = u.hasContent /\ w.sawToolCall
        /\ w.client = u.client
    BY <1>1 DEF GeminiFlows, GeminiConv, OneBlock
  <2>2. Gemini!PartRead(s, part, F) = Gemini!Feed(v, "tool", F)
    BY <1>3 DEF Gemini!CallRead
  <2> HIDE DEF w
  <2>3. /\ GeminiFlows(v) /\ v.started /\ v.type = "tool" /\ (s.hasContent = (s.type # "none") => v.hasContent)
        /\ v.sawToolCall /\ v.client.heard = u.client.heard
        /\ v.client.tools = IF w.type = "tool" /\ ~named THEN u.client.tools ELSE u.client.tools + 1
    <3>1. CASE w.type = "tool" /\ ~named
      BY <1>1, <2>1, <3>1 DEF GeminiFlows, GeminiConv
    <3>2. CASE ~(w.type = "tool" /\ ~named)
      BY <1>1, <2>1, <3>2, GeminiOpens DEF Claude!Kinds
    <3>3. QED
      BY <3>1, <3>2
  <2>4. v.client.tools > 0
    BY <1>0, <1>1, <2>1, <2>3 DEF GeminiFlows, OneBlock
  <2> HIDE DEF v
  <2>5. "tool" \in Claude!Kinds
    BY DEF Claude!Kinds
  <2>6. QED
    BY <1>1, <2>2, <2>3, <2>4, <2>5, GeminiFeeds DEF GeminiTold
<1>4. QED
  BY <1>2, <1>3 DEF Gemini!PartRead, Gemini!Parts, u

\* Nothing has been said that a later chunk says.
LEMMA NothingYet ==
  ASSUME NEW count \in Nat, NEW said, UpTo(count, said), NEW kind \in Claude!Kinds
  PROVE  LET f == [chunk |-> count + 1, kind |-> kind] IN
         /\ f \in Said /\ f \notin said /\ UpTo(count + 1, said) /\ UpTo(count + 1, said \cup {f})
BY DEF UpTo, Said

\* A client that has heard nothing.
LEMMA FreshClient ==
  /\ Claude!Fresh = [phase |-> "new", open |-> {}, next |-> 0, tools |-> 0, reason |-> "none", heard |-> {}]
  /\ \A S : Claude!Fresh \in Client(S)
BY DEF Claude!Fresh, Client, Claude!Phases, Claude!Reasons

\* A Gemini stream begins with nothing told and nothing open,
LEMMA GeminiBegins == Gemini!Init => GeminiInv
<1> SUFFICES ASSUME Gemini!Init PROVE GeminiInv
  OBVIOUS
<1>1. /\ up = [state |-> "open", count |-> 0, called |-> FALSE, finish |-> "", said |-> {}]
      /\ conv = [client |-> Claude!Fresh, started |-> FALSE, type |-> "none", index |-> 0,
                 hasContent |-> FALSE, sawToolCall |-> FALSE]
  BY DEF Gemini!Init, Gemini!NewConversion, Gemini!Fresh, Claude!Fresh
<1>2. up \in GeminiUp /\ UpTo(up.count, up.said)
  BY <1>1 DEF GeminiUp, UpTo
<1>3. conv \in GeminiConv
  BY <1>1, FreshClient DEF GeminiConv, Types
<1>4. OneBlock(conv)
  BY <1>1, FreshClient DEF OneBlock
<1>5. /\ conv.client.heard = {} /\ conv.client.tools = 0 /\ conv.sawToolCall = FALSE /\ conv.hasContent = FALSE
      /\ conv.type = "none" /\ up.said = {} /\ up.state = "open" /\ up.finish = ""
  BY <1>1, FreshClient
<1>6. QED
  BY <1>2, <1>3, <1>4, <1>5 DEF GeminiInv

\* a part of it is told in a block of its kind,
LEMMA GeminiParts ==
  ASSUME GeminiInv, NEW part \in Gemini!Parts, Gemini!Part(part)
  PROVE  GeminiInv'
<1> DEFINE f == [chunk |-> up.count + 1, kind |-> Gemini!KindOf(part)]
<1>1. /\ up.state = "open" /\ conv' = Gemini!PartRead(conv, part, {f})
      /\ \E called \in BOOLEAN :
            up' = [up EXCEPT !.count = up.count + 1, !.said = up.said \cup {f}, !.called = called]
  BY DEF Gemini!Part
<1>2. up.count \in Nat /\ Gemini!KindOf(part) \in Claude!Kinds /\ UpTo(up.count, up.said) /\ up.said \subseteq Said
  BY DEF GeminiInv, GeminiUp, Gemini!KindOf, Gemini!Parts, Claude!Kinds
<1>3. /\ f \in Said /\ f \notin up.said /\ UpTo(up.count + 1, up.said \cup {f})
  BY <1>2, NothingYet
<1> HIDE DEF f
<1>4. GeminiTold(conv, {f}, Gemini!PartRead(conv, part, {f}))
  <2>1. GeminiFlows(conv) /\ {f} \cap conv.client.heard = {} /\ {f} \in SUBSET Said
    BY <1>1, <1>3 DEF GeminiInv, GeminiFlows
  <2>2. conv.sawToolCall <=> conv.client.tools > 0
    BY DEF GeminiInv
  <2>3. QED
    BY <2>1, <2>2, GeminiReads
<1>5. GeminiTold(conv, {f}, conv')
  BY <1>1, <1>4
<1>6. /\ up' \in GeminiUp /\ up'.state = "open" /\ up'.finish = up.finish /\ up'.said = up.said \cup {f}
      /\ up'.count = up.count + 1
  <2>1. up \in GeminiUp /\ up.count + 1 \in Nat /\ up.said \cup {f} \in SUBSET Said
    <3>1. up \in GeminiUp
      BY DEF GeminiInv
    <3>2. QED
      BY ONLY <1>2, <1>3, <3>1
  <2>2. QED
    BY ONLY <1>1, <2>1 DEF GeminiUp
<1>7. conv.hasContent = (conv.type # "none") /\ conv.client.heard = up.said /\ up.finish = ""
  BY <1>1 DEF GeminiInv, GeminiConv
<1>8. conv' \in GeminiConv /\ OneBlock(conv') /\ conv'.type # "none" /\ conv'.hasContent
      /\ (conv'.sawToolCall <=> conv'.client.tools > 0) /\ conv'.client.heard = up.said \cup {f}
  BY <1>5, <1>7 DEF GeminiTold, GeminiFlows
<1>9. QED
  BY <1>3, <1>6, <1>7, <1>8 DEF GeminiInv

\* its last chunk, which counts the tokens, ends the message,
LEMMA GeminiFinishes ==
  ASSUME GeminiInv, "uncounted" \notin Quirks,
         NEW finish \in Gemini!Finishes, NEW counted \in BOOLEAN, Gemini!Finish(finish, counted)
  PROVE  GeminiInv'
<1> DEFINE t == Gemini!Started(conv)
           c == Claude!BlockStop(t.client, t.index)
           d == Claude!MessageDelta(c, Gemini!StopReason(t, finish))
<1>1. /\ up.state = "open" /\ counted /\ conv' = Gemini!FinishRead(conv, finish, TRUE)
      /\ up' = [up EXCEPT !.state = "finished", !.finish = finish]
  BY DEF Gemini!Finish
<1>2. /\ GeminiFlows(t) /\ t.started /\ t.type = conv.type /\ t.hasContent = conv.hasContent
      /\ t.sawToolCall = conv.sawToolCall /\ t.client.tools = conv.client.tools /\ t.client.heard = conv.client.heard
  BY <1>1, GeminiStarts DEF GeminiInv, GeminiFlows
<1>3. conv' = IF ~t.hasContent THEN t ELSE [t EXCEPT !.client = d]
  BY <1>1, GeminiEvents DEF Gemini!FinishRead
<1> HIDE DEF t
<1>4. /\ up' \in GeminiUp /\ up'.state = "finished" /\ up'.finish = finish /\ up'.said = up.said /\ up'.count = up.count
      /\ finish # ""
  BY <1>1 DEF GeminiInv, GeminiUp, Gemini!Finishes
<1>5. CASE ~t.hasContent
  <2>1. conv' = t /\ up.said = {} /\ t.type = "none"
    BY <1>1, <1>2, <1>3, <1>5 DEF GeminiInv
  <2>2. t.client.open = {} /\ t.client.phase = "body" /\ t \in GeminiConv
    BY <1>2, <2>1 DEF GeminiFlows, OneBlock
  <2>3. QED
    BY <1>2, <1>4, <1>5, <2>1, <2>2 DEF GeminiInv
<1>6. CASE t.hasContent
  <2>1. up.said # {} /\ t.type # "none" /\ t.type \in Types
    BY <1>1, <1>2, <1>6 DEF GeminiInv, GeminiFlows, GeminiConv
  <2>2. /\ t.client \in Client(Said) /\ t.client.phase = "body" /\ t.index \in Int
        /\ \A b : b \in t.client.open <=> b = Claude!Block(t.index, t.type)
        /\ Claude!Block(t.index, t.type).at = t.index
    BY <1>2, <2>1 DEF GeminiFlows, GeminiConv, OneBlock, Claude!Block
  <2>3. /\ c \in Client(Said) /\ c.phase = "body" /\ c.open = {b \in t.client.open : b.at # t.index}
        /\ c.tools = t.client.tools /\ c.heard = t.client.heard
    BY <2>2, BlockStops
  <2>4. c.open = {}
    BY <2>2, <2>3
  <2> HIDE DEF c
  <2>5. Gemini!StopReason(t, finish) \in Claude!Reasons
    BY DEF Gemini!StopReason, Claude!Reasons
  <2>6. /\ d \in Client(Said) /\ d.phase = "ending" /\ d.open = {} /\ d.tools = t.client.tools
        /\ d.reason = Gemini!StopReason(t, finish) /\ d.heard = t.client.heard
    BY <2>3, <2>4, <2>5, ReasonTold
  <2> HIDE DEF d
  <2>7. conv' = [t EXCEPT !.client = d] /\ t \in GeminiConv
    BY <1>2, <1>3, <1>6 DEF GeminiFlows
  <2>8. /\ conv' \in GeminiConv /\ conv'.client = d /\ conv'.sawToolCall = t.sawToolCall /\ conv'.hasContent
    BY ONLY <1>6, <2>6, <2>7 DEF GeminiConv
  <2>9. d.reason = Gemini!StopReason(conv', finish)
    BY <2>6, <2>8 DEF Gemini!StopReason
  <2>10. QED
    BY <1>2, <1>4, <2>1, <2>6, <2>8, <2>9 DEF GeminiInv
<1>7. QED
  BY <1>2, <1>5, <1>6 DEF GeminiFlows, GeminiConv

\* and the stream ends after it, so that nothing is left open:
LEMMA GeminiIsOver ==
  ASSUME GeminiInv, "cut" \notin Quirks, Gemini!Over
  PROVE  GeminiInv'
<1> DEFINE d == Claude!MessageStop(conv.client)
<1>1. /\ up.state = "finished" /\ conv' = (IF conv.hasContent THEN [conv EXCEPT !.client = d] ELSE conv)
      /\ up' = [up EXCEPT !.state = "over"]
  BY GeminiEvents DEF Gemini!Over, Gemini!DoneRead
<1>2. /\ up' \in GeminiUp /\ up'.state = "over" /\ up'.finish = up.finish /\ up'.said = up.said /\ up'.count = up.count
  BY <1>1 DEF GeminiInv, GeminiUp
<1>3. CASE ~conv.hasContent
  BY <1>1, <1>2, <1>3 DEF GeminiInv
<1>4. CASE conv.hasContent
  <2>1. conv.client \in Client(Said) /\ conv.client.phase = "ending" /\ conv.client.open = {}
    BY <1>1, <1>4 DEF GeminiInv, GeminiConv
  <2>2. /\ d \in Client(Said) /\ d.phase = "stopped" /\ d.open = {} /\ d.tools = conv.client.tools
        /\ d.reason = conv.client.reason /\ d.heard = conv.client.heard
    BY <2>1, MessageStops
  <2> HIDE DEF d
  <2>3. conv' = [conv EXCEPT !.client = d] /\ conv \in GeminiConv
    BY <1>1, <1>4 DEF GeminiInv
  <2>4. /\ conv' \in GeminiConv /\ conv'.client = d /\ conv'.sawToolCall = conv.sawToolCall /\ conv'.hasContent
    BY ONLY <1>4, <2>2, <2>3 DEF GeminiConv
  <2>5. Gemini!StopReason(conv', up.finish) = Gemini!StopReason(conv, up.finish)
    BY <2>4 DEF Gemini!StopReason
  <2>6. QED
    BY <1>1, <1>2, <1>4, <2>2, <2>4, <2>5 DEF GeminiInv
<1>5. QED
  BY <1>3, <1>4

\* no step of the route disturbs that.
LEMMA GeminiStep ==
  ASSUME GeminiInv, Quirks = {}, [Gemini!Next]_(Gemini!vars)
  PROVE  GeminiInv'
<1>1. Gemini!Next => GeminiInv'
  BY GeminiParts, GeminiFinishes, GeminiIsOver DEF Gemini!Next
<1>2. UNCHANGED Gemini!vars => GeminiInv'
  BY DEF Gemini!vars, GeminiInv
<1>3. QED
  BY <1>1, <1>2

\* It is what the properties say of the route.
LEMMA GeminiFollows ==
  ASSUME GeminiInv
  PROVE  Gemini!Grammatical /\ Gemini!ToldAll
<1>1. conv.client.phase # "broken" /\ \A b, c \in conv.client.open : b = c
  BY DEF GeminiInv, OneBlock
<1>2. conv.client.tools \in Nat
  BY DEF GeminiInv, GeminiConv, Client
<1>3. Gemini!Grammatical
  BY <1>1 DEF Gemini!Grammatical
<1>4. ASSUME up.state = "over", up.said # {}
      PROVE  /\ conv.client.phase = "stopped"
             /\ conv.client.heard = up.said
             /\ conv.client.reason = "tool_use" <=> conv.client.tools > 0
             /\ conv.client.reason = "max_tokens" <=> conv.client.tools = 0 /\ up.finish = "MAX_TOKENS"
  <2>1. /\ conv.client.phase = "stopped" /\ conv.client.heard = up.said
        /\ conv.client.reason = Gemini!StopReason(conv, up.finish)
        /\ conv.sawToolCall <=> conv.client.tools > 0
    BY <1>4 DEF GeminiInv
  <2>2. CASE conv.sawToolCall
    BY <1>2, <2>1, <2>2 DEF Gemini!StopReason
  <2>3. CASE ~conv.sawToolCall
    BY <1>2, <2>1, <2>3 DEF Gemini!StopReason
  <2>4. QED
    BY <2>2, <2>3
<1>5. QED
  BY <1>3, <1>4 DEF Gemini!ToldAll

-----------------------------------------------------------------------------
(* Antigravity.                                                            *)

AntiConv == [client : Client(Said), started : BOOLEAN, type : Types, index : Nat,
             hasContent : BOOLEAN, hasToolUse : BOOLEAN, finish : Antigravity!Finishes \cup {""}, hasUsage : BOOLEAN,
             sentFinal : BOOLEAN, thinking : SUBSET Said, cached : SUBSET SUBSET Said]
AntiFlows(s) == s \in AntiConv /\ OneBlock(s)

\* t knows as much as s of the end, and of what is cached.
SameEnd(s, t) == t.finish = s.finish /\ t.hasUsage = s.hasUsage /\ t.sentFinal = s.sentFinal /\ t.cached = s.cached

\* The fields of the state, for the leaves that need no more than their types.
LEMMA AntiFields ==
  ASSUME NEW s \in AntiConv
  PROVE  /\ s.client \in Client(Said) /\ s.type \in Types /\ s.index \in Nat /\ s.index \in Int /\ s.index + 1 \in Nat
         /\ s.client.tools \in Nat
<1>1. s.client \in Client(Said) /\ s.type \in Types /\ s.index \in Nat
  BY DEF AntiConv
<1>2. s.client.tools \in Nat
  BY <1>1 DEF Client
<1>3. QED
  BY <1>1, <1>2

\* The message is begun,
LEMMA AntiStarts ==
  ASSUME NEW s, AntiFlows(s)
  PROVE  LET t == Antigravity!Started(s) IN
         /\ AntiFlows(t) /\ SameEnd(s, t) /\ t.started /\ t.type = s.type /\ t.hasContent = s.hasContent
         /\ t.hasToolUse = s.hasToolUse /\ t.thinking = s.thinking
         /\ t.client.tools = s.client.tools /\ t.client.heard = s.client.heard
<1> DEFINE d == Claude!MessageStart(s.client)
<1>1. CASE s.started
  BY <1>1 DEF Antigravity!Started, SameEnd
<1>2. CASE ~s.started
  <2>1. Antigravity!Started(s) = [s EXCEPT !.started = TRUE, !.client = d]
    BY <1>2, AntigravityEvents DEF Antigravity!Started
  <2>2. s.client \in Client(Said) /\ s.client.phase = "new"
    BY <1>2 DEF AntiFlows, AntiConv, OneBlock
  <2>3. /\ d \in Client(Said) /\ d.phase = "body" /\ d.open = s.client.open /\ d.next = s.client.next
        /\ d.tools = s.client.tools /\ d.reason = s.client.reason /\ d.heard = s.client.heard
    BY <2>2, MessageStarts
  <2> HIDE DEF d
  <2> DEFINE t == Antigravity!Started(s)
  <2>4. s \in AntiConv /\ OneBlock(s) /\ t = [s EXCEPT !.started = TRUE, !.client = d]
    BY <2>1 DEF AntiFlows
  <2> HIDE DEF t
  <2>5. /\ t \in AntiConv /\ SameEnd(s, t) /\ t.started /\ t.type = s.type /\ t.hasContent = s.hasContent
        /\ t.hasToolUse = s.hasToolUse /\ t.thinking = s.thinking /\ t.client = d /\ t.index = s.index
    BY ONLY <2>3, <2>4 DEF AntiConv, SameEnd
  <2>6. OneBlock(t)
    BY ONLY <1>2, <2>3, <2>4, <2>5 DEF OneBlock
  <2>7. QED
    BY <2>3, <2>5, <2>6 DEF AntiFlows, t
<1>3. QED
  BY <1>1, <1>2 DEF AntiFlows, AntiConv

\* a block closed, although its type stays,
LEMMA AntiCloses ==
  ASSUME NEW s, AntiFlows(s), s.started
  PROVE  LET t == Antigravity!CloseBlock(s)
             d == t.client IN
         /\ \E i \in Nat : t = [s EXCEPT !.client = d, !.index = i]
         /\ d \in Client(Said) /\ d.phase = "body" /\ d.open = {} /\ d.next = t.index /\ t.index \in Nat
         /\ d.tools = s.client.tools /\ d.reason = "none" /\ d.heard = s.client.heard
<1> DEFINE d == Claude!BlockStop(s.client, s.index)
<1>0. s \in AntiConv /\ OneBlock(s)
  BY DEF AntiFlows
<1>1. CASE s.type = "none"
  <2>1. Antigravity!CloseBlock(s) = s
    BY <1>1 DEF Antigravity!CloseBlock
  <2>2. s = [s EXCEPT !.client = s.client, !.index = s.index] /\ s.index \in Nat /\ s.client \in Client(Said)
    BY <1>0 DEF AntiConv
  <2>3. QED
    BY <1>0, <1>1, <2>1, <2>2 DEF OneBlock
<1>2. CASE s.type # "none"
  <2>1. Antigravity!CloseBlock(s) = [s EXCEPT !.client = d, !.index = s.index + 1]
    BY <1>2, AntigravityEvents DEF Antigravity!CloseBlock
  <2>2. /\ s.client \in Client(Said) /\ s.client.phase = "body" /\ s.index \in Int /\ s.index + 1 \in Nat
        /\ \A b : b \in s.client.open <=> b = Claude!Block(s.index, s.type)
        /\ Claude!Block(s.index, s.type).at = s.index
        /\ s.client.next = s.index + 1 /\ s.client.reason = "none"
    BY <1>0, <1>2, AntiFields DEF OneBlock, Claude!Block
  <2>3. /\ d \in Client(Said) /\ d.phase = "body" /\ d.open = {b \in s.client.open : b.at # s.index} /\ d.next = s.client.next
        /\ d.tools = s.client.tools /\ d.reason = s.client.reason /\ d.heard = s.client.heard
    BY <2>2, BlockStops
  <2>4. d.open = {}
    BY <2>2, <2>3
  <2> DEFINE t == Antigravity!CloseBlock(s)
  <2> HIDE DEF d, t
  <2>5. t.client = d /\ t.index = s.index + 1 /\ t = [s EXCEPT !.client = d, !.index = s.index + 1]
    BY <1>0, <2>1 DEF AntiConv, t
  <2>6. QED
    BY <2>2, <2>3, <2>4, <2>5 DEF t
<1>3. QED
  BY <1>1, <1>2

\* another opened,
LEMMA AntiOpens ==
  ASSUME NEW s, AntiFlows(s), s.started, NEW kind \in Claude!Kinds
  PROVE  LET t == Antigravity!OpenBlock(s, kind) IN
         /\ AntiFlows(t) /\ SameEnd(s, t) /\ t.started /\ t.type = kind /\ t.thinking = s.thinking
         /\ t.hasContent = s.hasContent /\ t.hasToolUse = s.hasToolUse /\ t.client.heard = s.client.heard
         /\ t.client.tools = IF kind = "tool" THEN s.client.tools + 1 ELSE s.client.tools
<1> DEFINE u == Antigravity!CloseBlock(s)
           d == Claude!BlockStart(u.client, u.index, kind)
           t == Antigravity!OpenBlock(s, kind)
<1>1. /\ \E i \in Nat : u = [s EXCEPT !.client = u.client, !.index = i]
      /\ u.client \in Client(Said) /\ u.client.phase = "body" /\ u.client.open = {} /\ u.client.next = u.index
      /\ u.index \in Nat
      /\ u.client.tools = s.client.tools /\ u.client.reason = "none" /\ u.client.heard = s.client.heard
  BY AntiCloses
<1>2. t = [u EXCEPT !.client = d, !.type = kind]
  BY AntigravityEvents DEF Antigravity!OpenBlock
<1> HIDE DEF u, t
<1>3. s \in AntiConv
  BY DEF AntiFlows
<1>4. /\ u \in AntiConv /\ SameEnd(s, u) /\ u.started /\ u.thinking = s.thinking
      /\ u.hasContent = s.hasContent /\ u.hasToolUse = s.hasToolUse
  BY <1>1, <1>3 DEF AntiConv, SameEnd
<1>5. /\ d \in Client(Said) /\ d.phase = "body" /\ d.open = u.client.open \cup {Claude!Block(u.index, kind)}
      /\ d.next = u.index + 1 /\ d.tools = (IF kind = "tool" THEN u.client.tools + 1 ELSE u.client.tools)
      /\ d.reason = u.client.reason /\ d.heard = u.client.heard
  <2>1. u.client \in Client(Said) /\ u.index \in Int /\ u.client.phase = "body" /\ u.index = u.client.next
    BY <1>1
  <2>2. QED
    BY ONLY <2>1, BlockStarts, kind \in Claude!Kinds
<1>6. d.open = {Claude!Block(u.index, kind)} /\ kind # "none" /\ kind \in Types /\ s.client.tools \in Nat
  BY <1>1, <1>3, <1>5, AntiFields DEF Claude!Kinds, Types
<1> HIDE DEF d
<1>7. /\ t \in AntiConv /\ t.client = d /\ t.type = kind /\ t.index = u.index /\ t.started /\ t.thinking = u.thinking
      /\ t.hasContent = u.hasContent /\ t.hasToolUse = u.hasToolUse /\ SameEnd(u, t)
  BY <1>2, <1>4, <1>5, <1>6 DEF AntiConv, SameEnd
<1>8. OneBlock(t)
  BY <1>1, <1>5, <1>6, <1>7 DEF OneBlock
<1>9. QED
  BY <1>1, <1>4, <1>5, <1>7, <1>8 DEF AntiFlows, SameEnd, t

\* and fed.
LEMMA AntiFeeds ==
  ASSUME NEW s, AntiFlows(s), s.started, NEW kind \in Claude!Kinds, s.type = kind,
         NEW F \in SUBSET Said, F \cap s.client.heard = {}
  PROVE  LET t == Antigravity!Feed(s, kind, F) IN
         /\ AntiFlows(t) /\ SameEnd(s, t) /\ t.started /\ t.type = kind /\ t.hasContent /\ t.thinking = s.thinking
         /\ t.hasToolUse = s.hasToolUse /\ t.client.tools = s.client.tools
         /\ t.client.heard = s.client.heard \cup F
<1> DEFINE d == Claude!BlockDelta(s.client, s.index, kind, F)
<1>1. Antigravity!Feed(s, kind, F) = [s EXCEPT !.client = d, !.hasContent = TRUE]
  BY AntigravityEvents DEF Antigravity!Feed
<1>2. s.client \in Client(Said) /\ s.client.phase = "body" /\ s.index \in Int /\ Claude!Block(s.index, kind) \in s.client.open
  BY AntiFields DEF AntiFlows, OneBlock, Claude!Kinds
<1>3. /\ d \in Client(Said) /\ d.phase = "body" /\ d.open = s.client.open
      /\ d.next = s.client.next /\ d.tools = s.client.tools /\ d.reason = s.client.reason
      /\ d.heard = s.client.heard \cup F
  BY <1>2, BlockFed
<1> DEFINE t == Antigravity!Feed(s, kind, F)
<1>4. s \in AntiConv /\ OneBlock(s) /\ t = [s EXCEPT !.client = d, !.hasContent = TRUE]
  BY <1>1 DEF AntiFlows
<1> HIDE DEF d, t
<1>5. /\ t \in AntiConv /\ SameEnd(s, t) /\ t.started = s.started /\ t.type = s.type /\ t.hasContent
      /\ t.hasToolUse = s.hasToolUse /\ t.thinking = s.thinking /\ t.client = d /\ t.index = s.index
  BY ONLY <1>3, <1>4 DEF AntiConv, SameEnd
<1>6. OneBlock(t)
  BY <1>3, <1>4, <1>5 DEF OneBlock
<1>7. QED
  BY <1>3, <1>5, <1>6 DEF AntiFlows, t

\* s has signed the runs, and this one is in its thinking block.
Signs(s, run, runs) == /\ s.type = "thinking" => s.thinking = run
                       /\ s.type # "thinking" => run = {}
                       /\ s.cached = runs
\* s flows, and what it knows of its blocks is true.
AntiGoes(s) == AntiFlows(s) /\ (s.hasContent <=> s.type # "none") /\ (s.hasToolUse <=> s.client.tools > 0)
\* After s, t has told F, and nothing of the end.
AntiTold(s, F, t) == /\ AntiGoes(t) /\ t.client.heard = s.client.heard \cup F
                     /\ t.finish = s.finish /\ t.hasUsage = s.hasUsage /\ t.sentFinal = s.sentFinal

\* A text, or a call, in a block of its own;
LEMMA AntiBlocks ==
  ASSUME NEW s, AntiGoes(s), s.started, NEW F \in SUBSET Said, F \cap s.client.heard = {}, NEW runs, NEW run, Signs(s, run, runs)
  PROVE  /\ AntiTold(s, F, Antigravity!TextRead(s, F)) /\ Signs(Antigravity!TextRead(s, F), {}, runs)
         /\ AntiTold(s, F, Antigravity!CallRead(s, F)) /\ Signs(Antigravity!CallRead(s, F), {}, runs)
<1>0. AntiFlows(s) /\ s.client.tools \in Nat /\ {"text", "tool"} \subseteq Claude!Kinds
  BY AntiFields DEF AntiGoes, AntiFlows, Claude!Kinds
<1>1. AntiTold(s, F, Antigravity!TextRead(s, F)) /\ Signs(Antigravity!TextRead(s, F), {}, runs)
  <2> DEFINE v == IF s.type = "text" THEN s ELSE Antigravity!OpenBlock(s, "text")
             t == Antigravity!Feed(v, "text", F)
  <2>1. /\ AntiFlows(v) /\ SameEnd(s, v) /\ v.started /\ v.type = "text" /\ v.hasToolUse = s.hasToolUse
        /\ v.client.tools = s.client.tools /\ v.client.heard = s.client.heard
    BY <1>0, AntiOpens DEF SameEnd
  <2>2. Antigravity!TextRead(s, F) = t
    BY DEF Antigravity!TextRead
  <2> HIDE DEF v
  <2>3. /\ AntiFlows(t) /\ SameEnd(v, t) /\ t.type = "text" /\ t.hasContent
        /\ t.hasToolUse = v.hasToolUse /\ t.client.tools = v.client.tools /\ t.client.heard = v.client.heard \cup F
    BY <1>0, <2>1, AntiFeeds
  <2> HIDE DEF t
  <2>4. QED
    BY <2>1, <2>2, <2>3 DEF AntiTold, AntiGoes, SameEnd, Signs
<1>2. AntiTold(s, F, Antigravity!CallRead(s, F)) /\ Signs(Antigravity!CallRead(s, F), {}, runs)
  <2> DEFINE u == Antigravity!OpenBlock(s, "tool")
             v == [u EXCEPT !.hasToolUse = TRUE]
             t == Antigravity!Feed(v, "tool", F)
  <2>1. /\ AntiFlows(u) /\ SameEnd(s, u) /\ u.started /\ u.type = "tool"
        /\ u.client.tools > 0 /\ u.client.heard = s.client.heard
    BY <1>0, AntiOpens
  <2> HIDE DEF u
  <2>2. /\ v \in AntiConv /\ SameEnd(u, v) /\ v.started /\ v.type = "tool" /\ v.hasToolUse /\ v.client = u.client
        /\ v.index = u.index
    BY <2>1 DEF AntiFlows, AntiConv, SameEnd
  <2>3. Antigravity!CallRead(s, F) = t
    BY DEF Antigravity!CallRead, u
  <2> HIDE DEF v
  <2>4. AntiFlows(v)
    BY <2>1, <2>2 DEF AntiFlows, OneBlock
  <2>5. /\ AntiFlows(t) /\ SameEnd(v, t) /\ t.type = "tool" /\ t.hasContent
        /\ t.hasToolUse = v.hasToolUse /\ t.client.tools = v.client.tools /\ t.client.heard = v.client.heard \cup F
    <3>1. AntiFlows(v) /\ v.started /\ v.type = "tool" /\ "tool" \in Claude!Kinds /\ F \cap v.client.heard = {}
      BY <1>0, <2>1, <2>2, <2>4
    <3>2. QED
      BY ONLY <3>1, AntiFeeds, F \in SUBSET Said
  <2> HIDE DEF t
  <2>6. QED
    BY <2>1, <2>2, <2>3, <2>5 DEF AntiTold, AntiGoes, SameEnd, Signs
<1>3. QED
  BY <1>1, <1>2

\* thinking, in the block of the thinking before it if there is one;
LEMMA AntiThinks ==
  ASSUME NEW s, AntiGoes(s), s.started, NEW F \in SUBSET Said, F \cap s.client.heard = {},
         NEW runs, NEW run \in SUBSET Said, Signs(s, run, runs)
  PROVE  LET t == Antigravity!ThinkingRead(s, F) IN
         AntiTold(s, F, t) /\ Signs(t, run \cup F, runs) /\ t.started /\ t.type = "thinking"
<1> DEFINE o == Antigravity!OpenBlock(s, "thinking")
           u == Antigravity!OpenThinking(s)
           v == [u EXCEPT !.thinking = u.thinking \cup F]
           t == Antigravity!Feed(v, "thinking", F)
<1>0. AntiFlows(s) /\ s.client.tools \in Nat /\ "thinking" \in Claude!Kinds
  BY AntiFields DEF AntiGoes, AntiFlows, Claude!Kinds
<1>1. /\ u \in AntiConv /\ OneBlock(u) /\ SameEnd(s, u) /\ u.started /\ u.type = "thinking" /\ u.thinking = run
      /\ u.hasToolUse = s.hasToolUse /\ u.client.tools = s.client.tools /\ u.client.heard = s.client.heard
  <2>1. CASE s.type = "thinking"
    BY <1>0, <2>1 DEF Antigravity!OpenThinking, AntiFlows, SameEnd, Signs
  <2>2. CASE s.type # "thinking"
    <3>1. u = [o EXCEPT !.thinking = {}] /\ run = {}
      BY <2>2 DEF Antigravity!OpenThinking, Signs
    <3>2. /\ o \in AntiConv /\ OneBlock(o) /\ SameEnd(s, o) /\ o.started /\ o.type = "thinking"
          /\ o.hasToolUse = s.hasToolUse /\ o.client.tools = s.client.tools /\ o.client.heard = s.client.heard
      BY <1>0, AntiOpens DEF AntiFlows
    <3> HIDE DEF o, u
    <3>3. /\ u \in AntiConv /\ SameEnd(o, u) /\ u.started /\ u.type = o.type /\ u.thinking = {} /\ u.client = o.client
          /\ u.index = o.index /\ u.hasToolUse = o.hasToolUse
      BY ONLY <3>1, <3>2 DEF AntiConv, SameEnd
    <3>4. OneBlock(u)
      BY <3>2, <3>3 DEF OneBlock
    <3>5. QED
      BY <3>1, <3>2, <3>3, <3>4 DEF SameEnd
  <2>3. QED
    BY <2>1, <2>2
<1>2. Antigravity!ThinkingRead(s, F) = t
  BY DEF Antigravity!ThinkingRead
<1> HIDE DEF u
<1>3. /\ v \in AntiConv /\ SameEnd(u, v) /\ v.started /\ v.type = u.type /\ v.client = u.client
      /\ v.index = u.index /\ v.hasToolUse = u.hasToolUse /\ v.thinking = run \cup F
  <2>1. run \cup F \in SUBSET Said /\ v = [u EXCEPT !.thinking = run \cup F] /\ u \in AntiConv /\ u.started
    BY <1>1
  <2>2. QED
    BY ONLY <2>1 DEF AntiConv, SameEnd
<1> HIDE DEF v
<1>4. AntiFlows(v)
  BY <1>1, <1>3 DEF AntiFlows, OneBlock
<1>5. /\ AntiFlows(t) /\ SameEnd(v, t) /\ t.type = "thinking" /\ t.hasContent /\ t.started
      /\ t.hasToolUse = v.hasToolUse /\ t.client.tools = v.client.tools /\ t.client.heard = v.client.heard \cup F
      /\ t.thinking = v.thinking
  BY <1>0, <1>1, <1>3, <1>4, AntiFeeds
<1> HIDE DEF t
<1>6. /\ AntiTold(s, F, t) /\ Signs(t, run \cup F, runs) /\ t.started /\ t.type = "thinking"
  BY <1>1, <1>3, <1>5 DEF AntiTold, AntiGoes, SameEnd, Signs
<1>7. QED
  BY <1>2, <1>6

\* and a signature, for the thinking since the last one.
LEMMA AntiSigns ==
  ASSUME NEW s, AntiGoes(s), s.started, s.type = "thinking", NEW runs, NEW run \in SUBSET Said, Signs(s, run, runs)
  PROVE  LET t == Antigravity!Feed(Antigravity!CacheSignature(s), "thinking", {}) IN
         AntiTold(s, {}, t) /\ Signs(t, {}, IF run = {} THEN runs ELSE runs \cup {run})
<1> DEFINE v == Antigravity!CacheSignature(s)
           t == Antigravity!Feed(v, "thinking", {})
<1>0. s \in AntiConv /\ OneBlock(s) /\ "thinking" \in Claude!Kinds /\ s.thinking = run /\ s.cached = runs
  BY DEF AntiGoes, AntiFlows, Claude!Kinds, Signs
<1>1. /\ v \in AntiConv /\ v.started /\ v.type = "thinking" /\ v.client = s.client
      /\ v.index = s.index /\ v.hasToolUse = s.hasToolUse /\ v.thinking = {}
      /\ v.finish = s.finish /\ v.hasUsage = s.hasUsage /\ v.sentFinal = s.sentFinal
      /\ v.cached = IF run = {} THEN runs ELSE runs \cup {run}
  <2>1. CASE run = {}
    BY <1>0, <2>1 DEF Antigravity!CacheSignature
  <2>2. CASE run # {}
    <3>1. v = [s EXCEPT !.cached = runs \cup {run}, !.thinking = {}]
      BY <1>0, <2>2 DEF Antigravity!CacheSignature
    <3>2. s.cached \in SUBSET SUBSET Said
      BY <1>0 DEF AntiConv
    <3>3. runs \cup {run} \in SUBSET SUBSET Said /\ s \in AntiConv /\ s.started /\ s.type = "thinking" /\ {} \in SUBSET Said
      BY <1>0, <3>2
    <3> HIDE DEF v
    <3>4. QED
      BY ONLY <2>2, <3>1, <3>3 DEF AntiConv
  <2>3. QED
    BY <2>1, <2>2
<1> HIDE DEF v
<1>2. AntiFlows(v)
  BY <1>0, <1>1 DEF AntiFlows, OneBlock
<1>3. /\ AntiFlows(t) /\ SameEnd(v, t) /\ t.type = "thinking" /\ t.hasContent
      /\ t.hasToolUse = v.hasToolUse /\ t.client.tools = v.client.tools /\ t.client.heard = v.client.heard \cup {}
      /\ t.thinking = v.thinking
  <2>1. PICK nothing : nothing = {}
    OBVIOUS
  <2>2. /\ nothing \in SUBSET Said /\ nothing \cap v.client.heard = {}
        /\ AntiFlows(v) /\ v.started /\ v.type = "thinking" /\ "thinking" \in Claude!Kinds
    BY <1>0, <1>1, <1>2, <2>1
  <2> DEFINE w == Antigravity!Feed(v, "thinking", nothing)
  <2>3. /\ AntiFlows(w) /\ SameEnd(v, w) /\ w.type = "thinking" /\ w.hasContent
        /\ w.hasToolUse = v.hasToolUse /\ w.client.tools = v.client.tools /\ w.client.heard = v.client.heard \cup nothing
        /\ w.thinking = v.thinking
    BY ONLY <2>2, AntiFeeds
  <2>4. QED
    BY ONLY <2>1, <2>3
<1> HIDE DEF t
<1>4. AntiTold(s, {}, t) /\ Signs(t, {}, IF run = {} THEN runs ELSE runs \cup {run})
  BY <1>1, <1>3 DEF AntiTold, AntiGoes, SameEnd, Signs
<1>5. QED
  BY <1>4 DEF t, v

AntiUp == [state : {"open", "last", "finished", "over"}, count : Nat, runs : SUBSET SUBSET Said, run : SUBSET Said,
           finish : Antigravity!Finishes \cup {""}, said : SUBSET Said]

\* The message of s has this phase, and why it ended is told.
AntiEnded(s, phase) == s.client.phase = phase /\ s.client.open = {} /\ s.client.reason = Antigravity!StopReason(s)

\* While parts come the client has heard them all, in blocks one after the other, and
\* the thinking not yet signed is that of the open block; once the finish and the usage
\* have come no block is open and the reason is told, if anything was.
AntiInv ==
    /\ up \in AntiUp /\ UpTo(up.count, up.said) /\ conv \in AntiConv
    /\ conv.client.heard = up.said /\ conv.cached = up.runs /\ conv.finish = up.finish
    /\ conv.hasToolUse <=> conv.client.tools > 0
    /\ up.state \in {"open", "last"} => /\ AntiGoes(conv) /\ Signs(conv, up.run, up.runs)
                                        /\ up.finish = "" /\ ~conv.hasUsage /\ ~conv.sentFinal
    /\ up.state = "finished" => /\ up.finish # ""
                                /\ IF conv.hasUsage /\ conv.hasContent
                                   THEN AntiEnded(conv, "ending") /\ conv.sentFinal
                                   ELSE AntiGoes(conv) /\ ~conv.sentFinal
    /\ up.state = "over" => IF conv.hasContent THEN AntiEnded(conv, "stopped")
                            ELSE conv.client.open = {} /\ conv.client.phase # "broken"

\* An Antigravity stream begins with nothing told and no thinking to sign.
LEMMA AntiBegins == Antigravity!Init => AntiInv
<1> SUFFICES ASSUME Antigravity!Init PROVE AntiInv
  OBVIOUS
<1>1. /\ up = [state |-> "open", count |-> 0, runs |-> {}, run |-> {}, finish |-> "", said |-> {}]
      /\ conv = [client |-> Claude!Fresh, started |-> FALSE, type |-> "none", index |-> 0,
                 hasContent |-> FALSE, hasToolUse |-> FALSE, finish |-> "", hasUsage |-> FALSE,
                 sentFinal |-> FALSE, thinking |-> {}, cached |-> {}]
  BY DEF Antigravity!Init, Antigravity!NewConversion, Antigravity!Fresh, Claude!Fresh
<1>2. up \in AntiUp /\ UpTo(up.count, up.said)
  BY <1>1 DEF AntiUp, UpTo
<1>3. conv \in AntiConv
  BY <1>1, FreshClient DEF AntiConv, Types
<1>4. OneBlock(conv)
  BY <1>1, FreshClient DEF OneBlock
<1>5. /\ conv.client.heard = {} /\ conv.client.tools = 0 /\ conv.hasToolUse = FALSE /\ conv.hasContent = FALSE
      /\ conv.type = "none" /\ up.said = {} /\ up.state = "open" /\ up.finish = "" /\ conv.finish = ""
      /\ conv.hasUsage = FALSE /\ conv.sentFinal = FALSE /\ conv.cached = {} /\ up.run = {} /\ up.runs = {}
  BY <1>1, FreshClient
<1>6. AntiGoes(conv) /\ Signs(conv, up.run, up.runs)
  BY <1>3, <1>4, <1>5 DEF AntiGoes, AntiFlows, Signs
<1>7. QED
  BY <1>2, <1>3, <1>5, <1>6 DEF AntiInv

\* F is told and heeded, and signed is what was to be.
AntiHeeds(s, F, t, u, v) == /\ AntiTold(s, F, t) /\ Signs(t, v.run, v.runs)
                            /\ v \in AntiUp /\ v.state = u.state /\ v.count = u.count /\ v.finish = u.finish
                            /\ v.said = u.said \cup F

\* What a step tells, and how it leaves the thinking that is to be signed, is what the invariant asks of the upstream's side.
LEMMA AntiHeeded ==
  ASSUME NEW s, NEW F \in SUBSET Said, NEW t, NEW u \in AntiUp, NEW v,
         NEW new \in SUBSET Said, NEW kept \in SUBSET SUBSET Said,
         v = [u EXCEPT !.said = u.said \cup F, !.run = new, !.runs = kept],
         AntiTold(s, F, t), Signs(t, new, kept)
  PROVE  AntiHeeds(s, F, t, u, v)
<1>1. u.said \cup F \in SUBSET Said
  BY DEF AntiUp
<1>2. /\ v.run = new /\ v.runs = kept
      /\ v \in AntiUp /\ v.state = u.state /\ v.count = u.count /\ v.finish = u.finish /\ v.said = u.said \cup F
  BY <1>1 DEF AntiUp
<1>3. QED
  BY <1>2 DEF AntiHeeds

\* A part is told, and heeded.
LEMMA AntiReads ==
  ASSUME NEW s, AntiGoes(s), NEW part \in Antigravity!Parts, NEW last \in BOOLEAN,
         part = "empty" => last, part = "signature" => s.type = "thinking",
         NEW F \in SUBSET Said, F \cap s.client.heard = {}, part \in Antigravity!Silent => F = {},
         part \notin Antigravity!Silent => F # {},
         NEW u, u \in AntiUp, Signs(s, u.run, u.runs)
  PROVE  AntiHeeds(s, F, Antigravity!PartRead(s, part, last, F), u, Antigravity!Heeded(u, part, F))
<1> DEFINE w == Antigravity!Started(s)
           t == Antigravity!PartRead(s, part, last, F)
           v == Antigravity!Heeded(u, part, F)
<1>1. /\ AntiFlows(w) /\ SameEnd(s, w) /\ w.started /\ w.type = s.type /\ w.hasContent = s.hasContent
      /\ w.hasToolUse = s.hasToolUse /\ w.thinking = s.thinking
      /\ w.client.tools = s.client.tools /\ w.client.heard = s.client.heard
  BY AntiStarts DEF AntiGoes
<1> HIDE DEF w
<1>2. AntiGoes(w) /\ w.started /\ F \cap w.client.heard = {} /\ Signs(w, u.run, u.runs) /\ AntiTold(s, {}, w)
  BY <1>1 DEF AntiGoes, Signs, SameEnd, AntiTold
<1>3. \A G, x : AntiTold(w, G, x) => AntiTold(s, G, x)
  BY <1>1 DEF AntiTold, SameEnd
<1>4. PICK run, runs : run = u.run /\ runs = u.runs
  OBVIOUS
<1>5. run \in SUBSET Said /\ runs \in SUBSET SUBSET Said
  BY <1>4 DEF AntiUp
<1>6. u \in AntiUp /\ F \in SUBSET Said
  OBVIOUS
<1>7. CASE part \in {"text", "call"}
  <2>1. v = [u EXCEPT !.said = u.said \cup F, !.run = {}, !.runs = runs]
    BY <1>4, <1>7 DEF Antigravity!Heeded, Antigravity!KindOf
  <2>2. t = Antigravity!TextRead(w, F) \/ t = Antigravity!CallRead(w, F)
    BY <1>7 DEF Antigravity!PartRead, w
  <2>3. Signs(w, run, runs) /\ F \in SUBSET Said
    BY <1>2, <1>4
  <2>4. /\ AntiTold(w, F, Antigravity!TextRead(w, F)) /\ Signs(Antigravity!TextRead(w, F), {}, runs)
        /\ AntiTold(w, F, Antigravity!CallRead(w, F)) /\ Signs(Antigravity!CallRead(w, F), {}, runs)
    BY ONLY <1>2, <2>3, AntiBlocks
  <2> HIDE DEF t, v
  <2>5. AntiTold(s, F, t) /\ Signs(t, {}, runs)
    BY <1>3, <2>2, <2>4
  <2>6. {} \in SUBSET Said
    OBVIOUS
  <2>7. QED
    BY <1>5, <1>6, <2>1, <2>5, <2>6, AntiHeeded DEF t, v
<1>8. CASE part = "empty"
  <2>1. v = [u EXCEPT !.said = u.said \cup F, !.run = run, !.runs = runs] /\ F = {}
    BY <1>4, <1>8 DEF Antigravity!Heeded, Antigravity!KindOf, Antigravity!Silent
  <2>2. t = w
    BY <1>8 DEF Antigravity!PartRead, Antigravity!EmptyRead, w
  <2> HIDE DEF t, v
  <2>3. AntiTold(s, F, t) /\ Signs(t, run, runs)
    BY <1>2, <1>4, <2>1, <2>2
  <2>4. QED
    BY <1>5, <1>6, <2>1, <2>3, AntiHeeded DEF t, v
<1>9. CASE part \in {"thinking", "signed"}
  <2> DEFINE x == Antigravity!ThinkingRead(w, F)
  <2>1. Signs(w, run, runs) /\ F \in SUBSET Said /\ run \in SUBSET Said
    BY <1>2, <1>4, <1>5
  <2>2. AntiTold(w, F, x) /\ Signs(x, run \cup F, runs) /\ x.started /\ x.type = "thinking"
    BY ONLY <1>2, <2>1, AntiThinks
  <2>3. F # {} /\ run \cup F \in SUBSET Said /\ run \cup F # {}
    BY <1>9, <2>1 DEF Antigravity!Silent
  <2>4. CASE part = "thinking"
    <3>1. v = [u EXCEPT !.said = u.said \cup F, !.run = run \cup F, !.runs = runs]
      BY <1>4, <2>4 DEF Antigravity!Heeded, Antigravity!KindOf
    <3>2. t = x
      BY <2>4 DEF Antigravity!PartRead, w
    <3> HIDE DEF t, v, x
    <3>3. AntiTold(s, F, t) /\ Signs(t, run \cup F, runs)
      BY <1>3, <2>2, <3>2
    <3>4. QED
      BY <1>5, <1>6, <2>3, <3>1, <3>3, AntiHeeded DEF t, v
  <2>5. CASE part = "signed"
    <3> DEFINE new == run \cup F
               y == Antigravity!Feed(Antigravity!CacheSignature(x), "thinking", {})
    <3>1. v = [u EXCEPT !.said = u.said \cup F, !.run = {}, !.runs = runs \cup {new}]
      BY <1>4, <2>3, <2>5 DEF Antigravity!Heeded, Antigravity!KindOf
    <3>2. t = y
      BY <2>3, <2>5 DEF Antigravity!PartRead, Antigravity!SignatureRead, w
    <3> HIDE DEF x, new
    <3>3. AntiGoes(x) /\ x.started /\ x.type = "thinking" /\ new \in SUBSET Said /\ Signs(x, new, runs)
      BY <2>2, <2>3 DEF new, AntiTold
    <3>4. AntiTold(x, {}, y) /\ Signs(y, {}, IF new = {} THEN runs ELSE runs \cup {new})
      BY ONLY <3>3, AntiSigns
    <3> HIDE DEF t, v, y
    <3>5. AntiTold(s, F, t) /\ Signs(t, {}, runs \cup {new})
      <4>1. new # {}
        BY <2>3 DEF new
      <4>2. AntiTold(w, F, y)
        BY <2>2, <3>4 DEF AntiTold
      <4>3. QED
        BY <1>3, <3>2, <3>4, <4>1, <4>2
    <3>6. {} \in SUBSET Said /\ runs \cup {new} \in SUBSET SUBSET Said
      BY <1>5, <3>3
    <3>7. QED
      BY <1>6, <3>1, <3>5, <3>6, AntiHeeded DEF t, v
  <2>6. QED
    BY <1>9, <2>4, <2>5
<1>10. CASE part = "signature"
  <2> DEFINE y == Antigravity!Feed(Antigravity!CacheSignature(w), "thinking", {})
             kept == IF run = {} THEN runs ELSE runs \cup {run}
  <2>1. F = {} /\ w.type = "thinking" /\ Signs(w, run, runs) /\ run \in SUBSET Said
    BY <1>1, <1>2, <1>4, <1>5, <1>10 DEF Antigravity!Silent
  <2>2. v = [u EXCEPT !.said = u.said \cup F, !.run = {}, !.runs = kept]
    <3>1. run \cup F = run
      BY <2>1
    <3>2. CASE run = {}
      BY <1>4, <1>10, <3>1, <3>2 DEF Antigravity!Heeded, Antigravity!KindOf
    <3>3. CASE run # {}
      BY <1>4, <1>10, <3>1, <3>3 DEF Antigravity!Heeded, Antigravity!KindOf
    <3>4. QED
      BY <3>2, <3>3
  <2>3. t = y
    BY <1>10, <2>1 DEF Antigravity!PartRead, Antigravity!SignatureRead, w
  <2>4. AntiTold(w, {}, y) /\ Signs(y, {}, kept)
    BY ONLY <1>2, <2>1, AntiSigns
  <2> HIDE DEF t, v, y
  <2>5. AntiTold(s, F, t) /\ Signs(t, {}, kept)
    BY <1>3, <2>1, <2>3, <2>4
  <2>6. {} \in SUBSET Said /\ kept \in SUBSET SUBSET Said
    BY <1>5, <2>1
  <2> HIDE DEF kept
  <2>7. QED
    BY <1>6, <2>2, <2>5, <2>6, AntiHeeded DEF t, v
<1>11. QED
  BY <1>7, <1>8, <1>9, <1>10 DEF Antigravity!Parts

\* A part that is not empty is told, or signs the thinking before it,
LEMMA AntiParts ==
  ASSUME AntiInv, "empty" \notin Quirks, "signature" \notin Quirks,
         NEW part \in Antigravity!Parts, NEW last \in BOOLEAN, Antigravity!Part(part, last)
  PROVE  AntiInv'
<1> DEFINE f == [chunk |-> up.count + 1, kind |-> Antigravity!KindOf(part)]
           F == IF part \in Antigravity!Silent THEN {} ELSE {f}
           u == [up EXCEPT !.count = up.count + 1]
<1>1. /\ up.state \in {"open", "last"} /\ conv' = Antigravity!PartRead(conv, part, last, F)
      /\ up' = Antigravity!Heeded(u, part, F)
      /\ (part = "empty" => last) /\ (part = "signature" => conv.type = "thinking")
  BY DEF Antigravity!Part
<1>2. up.count \in Nat /\ Antigravity!KindOf(part) \in Claude!Kinds /\ UpTo(up.count, up.said) /\ up.said \subseteq Said
  BY DEF AntiInv, AntiUp, Antigravity!KindOf, Antigravity!Parts, Claude!Kinds
<1>3. /\ f \in Said /\ f \notin up.said /\ UpTo(up.count + 1, up.said) /\ UpTo(up.count + 1, up.said \cup {f})
  BY <1>2, NothingYet
<1> HIDE DEF f
<1>4. /\ F \in SUBSET Said /\ F \cap up.said = {} /\ UpTo(up.count + 1, up.said \cup F)
      /\ (part \in Antigravity!Silent => F = {}) /\ (part \notin Antigravity!Silent => F # {})
  <2>1. CASE part \in Antigravity!Silent
    <3>1. F = {} /\ up.said \cup F = up.said
      BY <2>1
    <3> HIDE DEF F
    <3>2. QED
      BY <1>3, <2>1, <3>1
  <2>2. CASE part \notin Antigravity!Silent
    BY <1>3, <2>2
  <2>3. QED
    BY <2>1, <2>2
<1>5. /\ AntiGoes(conv) /\ Signs(conv, up.run, up.runs) /\ up.finish = "" /\ ~conv.hasUsage /\ ~conv.sentFinal
      /\ conv.client.heard = up.said /\ conv.finish = up.finish
      /\ up \in AntiUp /\ up.count + 1 \in Nat
  <2>1. up.count + 1 \in Nat
    BY <1>2
  <2>2. up.state \in {"open", "last"}
    BY <1>1
  <2>3. QED
    BY ONLY <2>1, <2>2, AntiInv DEF AntiInv
<1> HIDE DEF F
<1>6. /\ u \in AntiUp /\ u.state = up.state /\ u.count = up.count + 1 /\ u.finish = up.finish /\ u.said = up.said
      /\ u.run = up.run /\ u.runs = up.runs
  BY ONLY <1>5 DEF AntiUp
<1> HIDE DEF u
<1> DEFINE t == Antigravity!PartRead(conv, part, last, F)
           v == Antigravity!Heeded(u, part, F)
<1>7. AntiHeeds(conv, F, t, u, v)
  <2>1. /\ part = "empty" => last
        /\ part = "signature" => conv.type = "thinking"
    BY <1>1
  <2>2. F \cap conv.client.heard = {} /\ Signs(conv, u.run, u.runs)
    BY <1>4, <1>5, <1>6
  <2>3. QED
    BY <1>4, <1>5, <1>6, <2>1, <2>2, AntiReads
<1> HIDE DEF t, v
<1>8. conv' = t /\ up' = v
  BY <1>1 DEF t, v
<1>9. AntiHeeds(conv, F, conv', u, up')
  BY <1>7, <1>8
<1>10. /\ AntiGoes(conv') /\ conv'.client.heard = up.said \cup F /\ conv'.finish = "" /\ ~conv'.hasUsage /\ ~conv'.sentFinal
       /\ Signs(conv', up'.run, up'.runs) /\ up' \in AntiUp /\ up'.state = up.state /\ up'.count = up.count + 1
       /\ up'.finish = "" /\ up'.said = up.said \cup F
  BY <1>5, <1>6, <1>9 DEF AntiHeeds, AntiTold
<1>11. /\ conv' \in AntiConv /\ (conv'.hasToolUse <=> conv'.client.tools > 0) /\ conv'.cached = up'.runs
  BY <1>10 DEF AntiGoes, AntiFlows, Signs
<1>12. UpTo(up'.count, up'.said) /\ conv'.client.heard = up'.said /\ conv'.finish = up'.finish
  BY <1>4, <1>10
<1>13. QED
  BY <1>1, <1>10, <1>11, <1>12 DEF AntiInv

\* The last events, of a message that has content.
LEMMA AntiEnds ==
  ASSUME NEW s, AntiGoes(s), s.hasContent, ~s.sentFinal, NEW force \in BOOLEAN, s.hasUsage \/ force
  PROVE  LET t == Antigravity!AppendFinalEvents(s, force) IN
         /\ t \in AntiConv /\ AntiEnded(t, "ending") /\ t.hasContent /\ t.sentFinal /\ t.hasUsage = s.hasUsage
         /\ t.finish = s.finish /\ t.cached = s.cached /\ t.client.heard = s.client.heard
         /\ t.hasToolUse <=> t.client.tools > 0
<1> DEFINE c == Claude!BlockStop(s.client, s.index)
           r == Antigravity!StopReason(s)
           d == Claude!MessageDelta(c, r)
           t == Antigravity!AppendFinalEvents(s, force)
<1>1. /\ s \in AntiConv /\ OneBlock(s) /\ s.type # "none" /\ (s.hasToolUse <=> s.client.tools > 0)
      /\ s.hasContent = TRUE /\ s.sentFinal = FALSE
  BY DEF AntiGoes, AntiFlows, AntiConv
<1>2. t = [s EXCEPT !.client = d, !.type = "none", !.sentFinal = TRUE]
  <2>1. t = [s EXCEPT !.client = Antigravity!MessageDelta(Antigravity!BlockStop(s.client, s.index), r),
                      !.type = "none", !.sentFinal = TRUE]
    <3>1. ~(s.sentFinal \/ (~s.hasUsage /\ ~force) \/ ~s.hasContent) /\ s.type # "none"
      BY <1>1
    <3> HIDE DEF r
    <3>2. QED
      BY <3>1 DEF Antigravity!AppendFinalEvents, r
  <2> HIDE DEF r, t
  <2>2. Antigravity!BlockStop(s.client, s.index) = c
    BY AntigravityEvents
  <2> HIDE DEF c
  <2>3. Antigravity!MessageDelta(c, r) = d
    BY AntigravityEvents
  <2> HIDE DEF d
  <2>4. QED
    BY ONLY <2>1, <2>2, <2>3
<1>3. /\ s.client \in Client(Said) /\ s.client.phase = "body" /\ s.index \in Int
      /\ \A b : b \in s.client.open <=> b = Claude!Block(s.index, s.type)
      /\ Claude!Block(s.index, s.type).at = s.index
  BY <1>1, AntiFields DEF OneBlock, Claude!Block
<1>4. /\ c \in Client(Said) /\ c.phase = "body" /\ c.open = {b \in s.client.open : b.at # s.index}
      /\ c.tools = s.client.tools /\ c.heard = s.client.heard
  BY <1>3, BlockStops
<1>5. c.open = {} /\ r \in Claude!Reasons
  BY <1>3, <1>4 DEF Antigravity!StopReason, Claude!Reasons
<1> HIDE DEF c, r
<1>6. /\ d \in Client(Said) /\ d.phase = "ending" /\ d.open = {} /\ d.tools = s.client.tools /\ d.reason = r
      /\ d.heard = s.client.heard
  BY <1>4, <1>5, ReasonTold
<1> HIDE DEF d, t
<1>7. /\ t \in AntiConv /\ t.client = d /\ t.hasContent /\ t.sentFinal /\ t.hasUsage = s.hasUsage
      /\ t.finish = s.finish /\ t.cached = s.cached /\ t.hasToolUse = s.hasToolUse
  <2>1. "none" \in Types
    BY DEF Types
  <2>2. QED
    BY ONLY <1>1, <1>2, <1>6, <2>1 DEF AntiConv
<1>8. r = Antigravity!StopReason(t)
  BY <1>7 DEF r, Antigravity!StopReason
<1>9. QED
  BY <1>1, <1>6, <1>7, <1>8 DEF AntiEnded, t

\* t is s after the finish or the usage has come.
AntiFinished(s, finish, usage, t) ==
    /\ t \in AntiConv /\ t.finish = (IF finish = "" THEN s.finish ELSE finish)
    /\ t.cached = s.cached /\ t.client.heard = s.client.heard /\ (t.hasToolUse <=> t.client.tools > 0)
    /\ IF t.hasUsage /\ t.hasContent THEN AntiEnded(t, "ending") /\ t.sentFinal
       ELSE AntiGoes(t) /\ ~t.sentFinal

\* The finish, or the usage, comes.
LEMMA AntiEndRead ==
  ASSUME NEW s, AntiGoes(s), ~s.sentFinal, NEW finish \in Antigravity!Finishes \cup {""}, NEW usage \in BOOLEAN,
         s.finish # "" \/ finish # ""
  PROVE  AntiFinished(s, finish, usage, Antigravity!EndRead(s, finish, usage))
<1> DEFINE w == Antigravity!Started(s)
           given == IF finish = "" THEN s.finish ELSE finish
           x == [w EXCEPT !.finish = given, !.hasUsage = s.hasUsage \/ usage]
           t == Antigravity!EndRead(s, finish, usage)
<1>1. /\ AntiFlows(w) /\ SameEnd(s, w) /\ w.started /\ w.type = s.type /\ w.hasContent = s.hasContent
      /\ w.hasToolUse = s.hasToolUse
      /\ w.client.tools = s.client.tools /\ w.client.heard = s.client.heard
  BY AntiStarts DEF AntiGoes
<1>2. t = IF x.hasUsage /\ x.finish # "" THEN Antigravity!AppendFinalEvents(x, FALSE) ELSE x
  BY <1>1 DEF Antigravity!EndRead, SameEnd
<1> HIDE DEF w
<1>3. PICK used \in BOOLEAN : used <=> s.hasUsage \/ usage
  OBVIOUS
<1>4. w \in AntiConv /\ OneBlock(w) /\ s \in AntiConv
  BY <1>1 DEF AntiFlows, AntiGoes
<1>5. given \in Antigravity!Finishes \cup {""} /\ given # ""
  BY <1>4 DEF AntiConv
<1>6. x = [w EXCEPT !.finish = given, !.hasUsage = used]
  <2>1. s.hasUsage \in BOOLEAN
    BY <1>4 DEF AntiConv
  <2>2. (s.hasUsage \/ usage) = used
    BY <1>3, <2>1
  <2>3. QED
    BY <2>2
<1> HIDE DEF given, x
<1>7. /\ x \in AntiConv /\ x.finish = given /\ x.hasUsage = used /\ x.client = w.client /\ x.cached = w.cached
      /\ x.type = w.type /\ x.index = w.index /\ x.started = w.started /\ x.hasContent = w.hasContent
      /\ x.hasToolUse = w.hasToolUse /\ x.sentFinal = w.sentFinal
  BY ONLY <1>4, <1>5, <1>6 DEF AntiConv
<1>8. AntiGoes(x) /\ ~x.sentFinal
  BY <1>1, <1>4, <1>7 DEF AntiGoes, AntiFlows, OneBlock, SameEnd
<1>9. x.cached = s.cached /\ x.client.heard = s.client.heard
  BY <1>1, <1>7 DEF SameEnd
<1> HIDE DEF t
<1>10. /\ t \in AntiConv /\ t.finish = given /\ t.hasUsage = used
       /\ t.cached = s.cached /\ t.client.heard = s.client.heard /\ (t.hasToolUse <=> t.client.tools > 0)
       /\ IF t.hasUsage /\ t.hasContent THEN AntiEnded(t, "ending") /\ t.sentFinal
          ELSE AntiGoes(t) /\ ~t.sentFinal
  <2>1. CASE ~used
    <3>1. t = x
      BY <1>2, <1>7, <2>1
    <3>2. QED
      BY <1>7, <1>8, <1>9, <2>1, <3>1 DEF AntiGoes
  <2>2. CASE used /\ ~x.hasContent
    <3>1. t = x
      BY <1>2, <1>8, <2>2 DEF Antigravity!AppendFinalEvents
    <3>2. QED
      BY <1>7, <1>8, <1>9, <2>2, <3>1 DEF AntiGoes
  <2>3. CASE used /\ x.hasContent
    <3>1. PICK force \in BOOLEAN : force = FALSE
      OBVIOUS
    <3>2. t = Antigravity!AppendFinalEvents(x, force)
      BY <1>2, <1>5, <1>7, <2>3, <3>1
    <3>3. AntiGoes(x) /\ x.hasContent /\ ~x.sentFinal /\ x.hasUsage
      BY <1>7, <1>8, <2>3
    <3> DEFINE y == Antigravity!AppendFinalEvents(x, force)
    <3>4. /\ y \in AntiConv /\ AntiEnded(y, "ending") /\ y.hasContent /\ y.sentFinal /\ y.hasUsage = x.hasUsage
          /\ y.finish = x.finish /\ y.cached = x.cached /\ y.client.heard = x.client.heard
          /\ y.hasToolUse <=> y.client.tools > 0
      BY ONLY <3>3, AntiEnds, force \in BOOLEAN
    <3> HIDE DEF y
    <3>5. t = y
      BY <3>2 DEF y
    <3>6. QED
      BY <1>7, <1>9, <2>3, <3>4, <3>5
  <2>4. QED
    BY <2>1, <2>2, <2>3
<1>11. QED
  BY <1>10 DEF AntiFinished, t, given

\* the reason to end is kept or sent,
LEMMA AntiFinishes ==
  ASSUME AntiInv, NEW finish \in Antigravity!Finishes, NEW usage \in BOOLEAN, Antigravity!Finish(finish, usage)
  PROVE  AntiInv'
<1> DEFINE t == Antigravity!EndRead(conv, finish, usage)
<1>1. /\ up.state = "last" /\ conv' = t /\ up' = [up EXCEPT !.state = "finished", !.finish = finish]
      /\ finish \in Antigravity!Finishes \cup {""} /\ finish # ""
  BY DEF Antigravity!Finish, Antigravity!Finishes
<1>2. AntiGoes(conv) /\ ~conv.sentFinal
  BY <1>1 DEF AntiInv
<1>3. /\ t \in AntiConv /\ t.finish = finish
      /\ t.cached = conv.cached /\ t.client.heard = conv.client.heard /\ (t.hasToolUse <=> t.client.tools > 0)
      /\ IF t.hasUsage /\ t.hasContent THEN AntiEnded(t, "ending") /\ t.sentFinal
         ELSE AntiGoes(t) /\ ~t.sentFinal
  <2>1. conv.finish # "" \/ finish # ""
    BY <1>1
  <2>2. AntiFinished(conv, finish, usage, t)
    BY <1>1, <1>2, <2>1, AntiEndRead
  <2>3. QED
    BY <1>1, <2>2 DEF AntiFinished
<1> HIDE DEF t
<1>4. /\ up' \in AntiUp /\ up'.state = "finished" /\ up'.finish = finish /\ up'.said = up.said /\ up'.count = up.count
      /\ up'.runs = up.runs
  BY <1>1 DEF AntiInv, AntiUp
<1>5. QED
  BY <1>1, <1>3, <1>4 DEF AntiInv

\* a count of tokens sends what was kept,
LEMMA AntiUsed ==
  ASSUME AntiInv, Antigravity!Usage
  PROVE  AntiInv'
<1>1. PICK finish, usage : finish = "" /\ usage = TRUE
  OBVIOUS
<1> DEFINE t == Antigravity!EndRead(conv, finish, usage)
<1>2. /\ up.state = "finished" /\ conv' = t /\ up' = up /\ ~conv.hasUsage
      /\ finish \in Antigravity!Finishes \cup {""} /\ usage \in BOOLEAN
  BY <1>1 DEF Antigravity!Usage
<1>3. AntiGoes(conv) /\ ~conv.sentFinal /\ conv.finish # ""
  BY <1>2 DEF AntiInv
<1>4. /\ t \in AntiConv /\ t.finish = (IF finish = "" THEN conv.finish ELSE finish)
      /\ t.cached = conv.cached /\ t.client.heard = conv.client.heard /\ (t.hasToolUse <=> t.client.tools > 0)
      /\ IF t.hasUsage /\ t.hasContent THEN AntiEnded(t, "ending") /\ t.sentFinal
         ELSE AntiGoes(t) /\ ~t.sentFinal
  <2>1. AntiFinished(conv, finish, usage, t)
    BY <1>2, <1>3, AntiEndRead
  <2>2. QED
    BY <2>1 DEF AntiFinished
<1> HIDE DEF t
<1>5. QED
  BY <1>1, <1>2, <1>4 DEF AntiInv

\* and the end of the stream sends what is still missing:
LEMMA AntiIsOver ==
  ASSUME AntiInv, Antigravity!Over
  PROVE  AntiInv'
<1> DEFINE t == Antigravity!AppendFinalEvents(conv, TRUE)
           d == Claude!MessageStop(t.client)
<1>1. /\ up.state \in {"open", "finished"} /\ up' = [up EXCEPT !.state = "over"]
      /\ conv' = IF conv.hasContent THEN [t EXCEPT !.client = d] ELSE conv
  BY AntigravityEvents DEF Antigravity!Over, Antigravity!DoneRead
<1>2. /\ up' \in AntiUp /\ up'.state = "over" /\ up'.finish = up.finish /\ up'.said = up.said /\ up'.count = up.count
      /\ up'.runs = up.runs
  BY <1>1 DEF AntiInv, AntiUp
<1>3. CASE ~conv.hasContent
  <2>1. AntiGoes(conv)
    BY <1>1, <1>3 DEF AntiInv
  <2>2. conv.client.open = {} /\ conv.client.phase # "broken"
    BY <1>3, <2>1 DEF AntiGoes, AntiFlows, OneBlock
  <2>3. QED
    BY <1>1, <1>2, <1>3, <2>2 DEF AntiInv
<1>4. CASE conv.hasContent
  <2>1. /\ t \in AntiConv /\ AntiEnded(t, "ending") /\ t.hasContent
        /\ t.finish = conv.finish /\ t.cached = conv.cached /\ t.client.heard = conv.client.heard
        /\ (t.hasToolUse <=> t.client.tools > 0)
    <3>1. CASE conv.sentFinal
      <4>1. t = conv
        BY <3>1 DEF Antigravity!AppendFinalEvents
      <4>2. AntiEnded(conv, "ending")
        BY <1>1, <1>4, <3>1 DEF AntiInv
      <4>3. QED
        BY <1>4, <4>1, <4>2 DEF AntiInv
    <3>2. CASE ~conv.sentFinal
      <4>1. PICK force \in BOOLEAN : force = TRUE
        OBVIOUS
      <4>2. AntiGoes(conv) /\ conv.hasContent /\ ~conv.sentFinal /\ force
        BY <1>1, <1>4, <3>2, <4>1 DEF AntiInv
      <4> DEFINE y == Antigravity!AppendFinalEvents(conv, force)
      <4>3. /\ y \in AntiConv /\ AntiEnded(y, "ending") /\ y.hasContent
            /\ y.finish = conv.finish /\ y.cached = conv.cached /\ y.client.heard = conv.client.heard
            /\ (y.hasToolUse <=> y.client.tools > 0)
        BY ONLY <4>2, AntiEnds, force \in BOOLEAN
      <4>4. y = t
        BY <4>1
      <4>5. QED
        BY ONLY <4>3, <4>4
    <3>3. QED
      BY <3>1, <3>2
  <2> HIDE DEF t
  <2>2. t.client \in Client(Said) /\ t.client.phase = "ending" /\ t.client.open = {}
    BY <2>1 DEF AntiConv, AntiEnded
  <2>3. /\ d \in Client(Said) /\ d.phase = "stopped" /\ d.open = {} /\ d.tools = t.client.tools
        /\ d.reason = t.client.reason /\ d.heard = t.client.heard
    BY <2>2, MessageStops
  <2> HIDE DEF d
  <2>4. conv' = [t EXCEPT !.client = d] /\ t \in AntiConv
    BY <1>1, <1>4, <2>1
  <2>5. /\ conv' \in AntiConv /\ conv'.client = d /\ conv'.hasContent = t.hasContent /\ conv'.finish = t.finish
        /\ conv'.cached = t.cached /\ conv'.hasToolUse = t.hasToolUse
    BY ONLY <2>3, <2>4 DEF AntiConv
  <2>6. Antigravity!StopReason(conv') = Antigravity!StopReason(t)
    BY <2>5 DEF Antigravity!StopReason
  <2>7. AntiEnded(conv', "stopped")
    BY <2>1, <2>3, <2>5, <2>6 DEF AntiEnded
  <2>8. QED
    BY <1>2, <2>1, <2>3, <2>5, <2>7 DEF AntiInv
<1>5. QED
  BY <1>3, <1>4

\* no step of the route disturbs the invariant.
LEMMA AntiStep ==
  ASSUME AntiInv, Quirks = {}, [Antigravity!Next]_(Antigravity!vars)
  PROVE  AntiInv'
<1>1. ASSUME Antigravity!Last PROVE AntiInv'
  <2>1. up.state = "open" /\ up' = [up EXCEPT !.state = "last"] /\ conv' = conv
    BY <1>1 DEF Antigravity!Last
  <2>2. /\ up' \in AntiUp /\ up'.state = "last" /\ up'.finish = up.finish /\ up'.said = up.said /\ up'.count = up.count
        /\ up'.runs = up.runs /\ up'.run = up.run
    BY <2>1 DEF AntiInv, AntiUp
  <2>3. QED
    BY <2>1, <2>2 DEF AntiInv
<1>2. "empty" \notin Quirks /\ "signature" \notin Quirks
  OBVIOUS
<1>3. Antigravity!Next => AntiInv'
  BY <1>1, <1>2, AntiParts, AntiFinishes, AntiUsed, AntiIsOver DEF Antigravity!Next
<1>4. UNCHANGED Antigravity!vars => AntiInv'
  BY DEF Antigravity!vars, AntiInv
<1>5. QED
  BY <1>3, <1>4

\* It is what the properties say of the route.
LEMMA AntiFollows ==
  ASSUME AntiInv
  PROVE  Antigravity!Grammatical /\ Antigravity!ToldAll /\ Antigravity!Signed
<1>0. /\ conv \in AntiConv /\ up \in AntiUp
  BY DEF AntiInv
<1>1. conv.client.phase # "broken" /\ \A b, c \in conv.client.open : b = c
  <2>1. AntiGoes(conv) => conv.client.phase # "broken" /\ \A b, c \in conv.client.open : b = c
    BY DEF AntiGoes, AntiFlows, OneBlock
  <2>2. \A phase : AntiEnded(conv, phase) => conv.client.phase = phase /\ conv.client.open = {}
    BY DEF AntiEnded
  <2>3. up.state \in {"open", "last", "finished", "over"}
    BY <1>0 DEF AntiUp
  <2>4. QED
    BY <2>1, <2>2, <2>3 DEF AntiInv
<1>2. conv.client.tools \in Nat
  BY <1>0, AntiFields
<1>3. ASSUME up.state = "over", conv.hasContent
      PROVE  /\ conv.client.phase = "stopped"
             /\ conv.client.heard = up.said
             /\ conv.client.reason = "tool_use" <=> conv.client.tools > 0
             /\ conv.client.reason = "max_tokens" <=> conv.client.tools = 0 /\ up.finish = "MAX_TOKENS"
  <2>1. /\ conv.client.phase = "stopped" /\ conv.client.heard = up.said /\ conv.finish = up.finish
        /\ conv.client.reason = Antigravity!StopReason(conv)
        /\ conv.hasToolUse <=> conv.client.tools > 0
    BY <1>3 DEF AntiInv, AntiEnded
  <2>2. CASE conv.hasToolUse
    BY <1>2, <2>1, <2>2 DEF Antigravity!StopReason
  <2>3. CASE ~conv.hasToolUse
    BY <1>2, <2>1, <2>3 DEF Antigravity!StopReason
  <2>4. QED
    BY <2>2, <2>3
<1>4. conv.cached = up.runs
  BY DEF AntiInv
<1>5. QED
  BY <1>1, <1>3, <1>4 DEF Antigravity!Grammatical, Antigravity!ToldAll, Antigravity!Signed

\* A client with no block open, or the one of this index and kind.
Flow(c, i, kind) ==
    /\ c \in Client(Said) /\ i \in Nat /\ c.phase = "body" /\ c.reason = "none"
    /\ c.open = (IF kind = "none" THEN {} ELSE {Claude!Block(i, kind)})
    /\ c.next = (IF kind = "none" THEN i ELSE i + 1)

-----------------------------------------------------------------------------
(* Codex.                                                                  *)

CodexConv == [client : Client(Said), index : Nat, hasToolCall : BOOLEAN, hasReceivedArgumentsDelta : BOOLEAN,
              hasTextDelta : BOOLEAN, textOpen : BOOLEAN, thinkingOpen : BOOLEAN, stopPending : BOOLEAN,
              signature : Nat, thinks : Nat, signed : SUBSET (Nat \X Nat)]
CodexUp == [at : {"new", "idle", "reasoning", "summary", "message", "text", "call", "called", "completed", "cut"},
            announces : BOOLEAN, streams : BOOLEAN, signs : BOOLEAN,
            item : Nat, count : Nat, messages : Nat, said : SUBSET Said, own : SUBSET Said]

\* The open block, if any, is of this kind, and what was signed was signed well.
Opens(s, kind) ==
    /\ s \in CodexConv /\ Flow(s.client, s.index, kind)
    /\ s.thinkingOpen <=> kind = "thinking"
    /\ s.textOpen <=> kind = "text"
    /\ s.hasToolCall <=> s.client.tools > 0
    /\ \A p \in s.signed : p[1] = p[2]

\* What is open where the upstream is, and what the signature that is held is of: a block
\* whose stop is put off waits for a signature that has not come.
Within(u, s) ==
    /\ u.at \in {"idle", "message"} => Opens(s, "none")
    /\ u.at = "reasoning" => Opens(s, "none") \/ Opens(s, "thinking")
    /\ u.at = "summary" => Opens(s, "thinking")
    /\ u.at = "text" => Opens(s, "text")
    /\ u.at \in {"call", "called"} => Opens(s, "tool")
    /\ s.stopPending <=> u.at = "reasoning" /\ s.thinkingOpen
    /\ s.stopPending => s.signature = Codex!NoItem
    /\ s.thinkingOpen => s.thinks = u.item
    /\ s.signature # Codex!NoItem => u.announces /\ u.signs
    /\ u.at \in {"reasoning", "summary"} =>
          u.item > 0 /\ (u.announces /\ u.signs => s.signature = u.item)
    /\ u.at \in {"text", "message"} => u.streams /\ (u.own # {} => s.hasTextDelta)
    /\ ~u.streams /\ u.messages = 0 => ~s.hasTextDelta
    /\ u.at = "call" => (u.own # {} <=> s.hasReceivedArgumentsDelta)

CodexHolds(u, s) ==
    /\ u \in CodexUp /\ UpTo(u.count, u.said) /\ s \in CodexConv
    /\ s.client.heard = u.said /\ u.own \subseteq u.said
    /\ \A p \in s.signed : p[1] = p[2]
    /\ u.at = "new" => s = Codex!NewConversion /\ u.messages = 0
    /\ u.at \notin {"new", "completed", "cut"} => Within(u, s)
    /\ u.at = "completed" => /\ s.client.phase = "stopped" /\ s.client.open = {}
                             /\ s.client.reason = "tool_use" <=> s.client.tools > 0
    /\ u.at = "cut" => s.client.phase # "broken" /\ \A b, c \in s.client.open : b = c
CodexInv == CodexHolds(up, conv)

\* Claude's events where one block is open at a time: a block may be started when none is,
LEMMA FlowStarts ==
  ASSUME NEW c, NEW i, Flow(c, i, "none"), NEW kind \in Claude!Kinds
  PROVE  LET d == Claude!BlockStart(c, i, kind) IN
         /\ Flow(d, i, kind) /\ d.heard = c.heard /\ d.tools = IF kind = "tool" THEN c.tools + 1 ELSE c.tools
<1> DEFINE d == Claude!BlockStart(c, i, kind)
<1>1. /\ c \in Client(Said) /\ i \in Nat /\ i \in Int /\ c.phase = "body" /\ i = c.next /\ c.open = {}
      /\ c.reason = "none"
  BY DEF Flow
<1>2. /\ d \in Client(Said) /\ d.phase = "body" /\ d.open = c.open \cup {Claude!Block(i, kind)} /\ d.next = i + 1
      /\ d.tools = (IF kind = "tool" THEN c.tools + 1 ELSE c.tools) /\ d.reason = c.reason /\ d.heard = c.heard
  BY <1>1, BlockStarts
<1>3. kind # "none"
  BY DEF Claude!Kinds
<1> HIDE DEF d
<1>4. Flow(d, i, kind)
  BY <1>1, <1>2, <1>3 DEF Flow
<1>5. QED
  BY <1>2, <1>4 DEF d

\* fed while it is open, with what was not heard before,
LEMMA FlowFed ==
  ASSUME NEW c, NEW i, NEW kind \in Claude!Kinds, Flow(c, i, kind), NEW F \in SUBSET Said, F \cap c.heard = {}
  PROVE  LET d == Claude!BlockDelta(c, i, kind, F) IN
         /\ Flow(d, i, kind) /\ d.heard = c.heard \cup F /\ d.tools = c.tools
<1> DEFINE d == Claude!BlockDelta(c, i, kind, F)
<1>1. kind # "none"
  BY DEF Claude!Kinds
<1>2. /\ c \in Client(Said) /\ i \in Nat /\ i \in Int /\ c.phase = "body" /\ Claude!Block(i, kind) \in c.open
  BY <1>1 DEF Flow
<1>3. /\ d \in Client(Said) /\ d.phase = "body" /\ d.open = c.open /\ d.next = c.next
      /\ d.tools = c.tools /\ d.reason = c.reason /\ d.heard = c.heard \cup F
  BY <1>2, BlockFed
<1> HIDE DEF d
<1>4. Flow(d, i, kind)
  BY <1>1, <1>2, <1>3 DEF Flow
<1>5. QED
  BY <1>3, <1>4 DEF d

\* and stopped, and the next one has the next index.
LEMMA FlowStops ==
  ASSUME NEW c, NEW i, NEW kind \in Claude!Kinds, Flow(c, i, kind)
  PROVE  LET d == Claude!BlockStop(c, i) IN
         /\ Flow(d, i + 1, "none") /\ d.heard = c.heard /\ d.tools = c.tools
<1> DEFINE d == Claude!BlockStop(c, i)
<1>1. kind # "none"
  BY DEF Claude!Kinds
<1>2. /\ c \in Client(Said) /\ i \in Nat /\ i \in Int /\ c.phase = "body" /\ c.next = i + 1 /\ c.reason = "none"
      /\ \A b : b \in c.open <=> b = Claude!Block(i, kind)
      /\ Claude!Block(i, kind).at = i
  BY <1>1 DEF Flow, Claude!Block
<1>3. /\ d \in Client(Said) /\ d.phase = "body" /\ d.open = {b \in c.open : b.at # i} /\ d.next = c.next
      /\ d.tools = c.tools /\ d.reason = c.reason /\ d.heard = c.heard
  BY <1>2, BlockStops
<1>4. d.open = {} /\ i + 1 \in Nat
  BY <1>2, <1>3
<1> HIDE DEF d
<1>5. Flow(d, i + 1, "none")
  BY <1>2, <1>3, <1>4 DEF Flow
<1>6. QED
  BY <1>3, <1>5 DEF d

\* t carries what s knows of the items.
Carries(s, t) == /\ t.client.heard = s.client.heard /\ t.signature = s.signature
                 /\ t.hasTextDelta = s.hasTextDelta /\ t.hasReceivedArgumentsDelta = s.hasReceivedArgumentsDelta

\* A thinking block is signed, if its signature is held, and stopped.
LEMMA CodexFinalizes ==
  ASSUME NEW s, Opens(s, "none") \/ Opens(s, "thinking"),
         s.thinkingOpen => s.signature = Codex!NoItem \/ s.signature = s.thinks
  PROVE  LET t == Codex!Finalize(s) IN
         /\ Opens(t, "none") /\ Carries(s, t)
         /\ s.thinkingOpen => ~t.stopPending
         /\ ~s.thinkingOpen => t.stopPending = s.stopPending
<1>1. CASE ~s.thinkingOpen
  <2>1. Opens(s, "none")
    BY <1>1 DEF Opens
  <2>2. Codex!Finalize(s) = s
    BY <1>1 DEF Codex!Finalize
  <2>3. QED
    BY <1>1, <2>1, <2>2 DEF Carries
<1>2. CASE s.thinkingOpen
  <2> DEFINE none == {}
             c == Claude!BlockDelta(s.client, s.index, "thinking", none)
             fed == [[s EXCEPT !.client = c] EXCEPT !.signed = s.signed \cup {<<s.thinks, s.signature>>}]
             u == IF s.signature = Codex!NoItem THEN s ELSE fed
             d == Claude!BlockStop(u.client, u.index)
             t == Codex!Finalize(s)
  <2>1. t = [[u EXCEPT !.client = d, !.index = u.index + 1] EXCEPT !.thinkingOpen = FALSE, !.stopPending = FALSE]
    <3>1. Codex!BlockDelta(s.client, s.index, "thinking", {}) = c
      BY CodexEvents
    <3> HIDE DEF c
    <3>2. t = [[u EXCEPT !.client = Codex!BlockStop(u.client, u.index), !.index = u.index + 1]
                  EXCEPT !.thinkingOpen = FALSE, !.stopPending = FALSE]
      BY <1>2, <3>1 DEF Codex!Finalize, Codex!Feed, Codex!StopBlock
    <3>3. Codex!BlockStop(u.client, u.index) = d
      BY CodexEvents
    <3> HIDE DEF u, t, d
    <3>4. QED
      BY ONLY <3>2, <3>3
  <2>2. /\ s \in CodexConv /\ Flow(s.client, s.index, "thinking") /\ s.textOpen = FALSE
        /\ (s.hasToolCall <=> s.client.tools > 0)
        /\ \A p \in s.signed : p[1] = p[2]
    <3>1. Opens(s, "thinking")
      BY <1>2 DEF Opens
    <3>2. QED
      BY <3>1 DEF Opens, CodexConv
  <2>3. "thinking" \in Claude!Kinds /\ none \in SUBSET Said /\ none \cap s.client.heard = {}
    BY DEF Claude!Kinds
  <2>4. Flow(c, s.index, "thinking") /\ c.heard = s.client.heard \cup none /\ c.tools = s.client.tools
    <3> HIDE DEF none
    <3>1. QED
      BY ONLY <2>2, <2>3, FlowFed
  <2> HIDE DEF c
  <2>5. /\ u \in CodexConv /\ Flow(u.client, s.index, "thinking") /\ u.index = s.index /\ Carries(s, u)
        /\ u.client.tools = s.client.tools /\ u.hasToolCall = s.hasToolCall /\ u.textOpen = s.textOpen
        /\ \A p \in u.signed : p[1] = p[2]
    <3>1. CASE s.signature = Codex!NoItem
      BY <2>2, <3>1 DEF Carries
    <3>2. CASE s.signature # Codex!NoItem
      <4>1. s.signature = s.thinks /\ s.thinks \in Nat /\ s.signed \in SUBSET (Nat \X Nat)
        BY <1>2, <2>2, <3>2 DEF CodexConv
      <4> DEFINE p == <<s.thinks, s.signature>>
                 all == s.signed \cup {p}
      <4>2. p \in Nat \X Nat /\ p[1] = p[2]
        BY <4>1
      <4> HIDE DEF p
      <4>3. all \in SUBSET (Nat \X Nat) /\ \A q \in all : q[1] = q[2]
        BY <2>2, <4>1, <4>2
      <4> HIDE DEF all
      <4>4. u = [[s EXCEPT !.client = c] EXCEPT !.signed = all]
        BY <3>2 DEF all, p
      <4>5. c \in Client(Said) /\ c.heard = s.client.heard
        BY <2>4 DEF Flow, none
      <4> HIDE DEF u
      <4>6. /\ u \in CodexConv /\ u.client = c /\ u.index = s.index /\ u.signed = all
            /\ u.signature = s.signature /\ u.hasToolCall = s.hasToolCall /\ u.textOpen = s.textOpen
            /\ u.hasTextDelta = s.hasTextDelta /\ u.hasReceivedArgumentsDelta = s.hasReceivedArgumentsDelta
        BY ONLY <2>2, <4>3, <4>4, <4>5 DEF CodexConv
      <4>7. QED
        BY <2>4, <4>3, <4>5, <4>6 DEF Carries
    <3>3. QED
      BY <3>1, <3>2
  <2> HIDE DEF u, fed
  <2>6. Flow(d, u.index + 1, "none") /\ d.heard = u.client.heard /\ d.tools = u.client.tools
    BY <2>3, <2>5, FlowStops
  <2> HIDE DEF d, t
  <2>7. d \in Client(Said) /\ u.index + 1 \in Nat /\ u \in CodexConv
    BY <2>5, <2>6 DEF Flow
  <2>8. /\ t \in CodexConv /\ t.client = d /\ t.index = u.index + 1 /\ t.signed = u.signed
        /\ t.signature = u.signature /\ t.hasToolCall = u.hasToolCall /\ t.textOpen = u.textOpen
        /\ t.hasTextDelta = u.hasTextDelta /\ t.hasReceivedArgumentsDelta = u.hasReceivedArgumentsDelta
        /\ ~t.thinkingOpen /\ ~t.stopPending
    BY ONLY <2>1, <2>7 DEF CodexConv
  <2>9. Opens(t, "none") /\ Carries(s, t)
    BY <2>2, <2>5, <2>6, <2>8 DEF Opens, Carries
  <2>10. QED
    BY <1>2, <2>8, <2>9 DEF t
<1>3. QED
  BY <1>1, <1>2

\* t is s but for its client and its index.
Alike(s, t) == /\ t \in CodexConv /\ t.hasToolCall = s.hasToolCall /\ t.textOpen = s.textOpen
               /\ t.hasTextDelta = s.hasTextDelta /\ t.hasReceivedArgumentsDelta = s.hasReceivedArgumentsDelta
               /\ t.thinkingOpen = s.thinkingOpen /\ t.stopPending = s.stopPending
               /\ t.signature = s.signature /\ t.thinks = s.thinks /\ t.signed = s.signed

\* The converter's own helpers do the same and leave the rest of its state alone: a block is started,
LEMMA CodexStarts ==
  ASSUME NEW s \in CodexConv, Flow(s.client, s.index, "none"), NEW kind \in Claude!Kinds
  PROVE  LET t == Codex!StartBlock(s, kind) IN
         /\ Alike(s, t) /\ Flow(t.client, t.index, kind) /\ t.client.heard = s.client.heard
         /\ t.client.tools = IF kind = "tool" THEN s.client.tools + 1 ELSE s.client.tools
<1> DEFINE d == Claude!BlockStart(s.client, s.index, kind)
           t == Codex!StartBlock(s, kind)
<1>1. t = [s EXCEPT !.client = d]
  BY CodexEvents DEF Codex!StartBlock
<1>2. /\ Flow(d, s.index, kind) /\ d.heard = s.client.heard
      /\ d.tools = IF kind = "tool" THEN s.client.tools + 1 ELSE s.client.tools
  BY FlowStarts
<1>3. d \in Client(Said)
  BY <1>2 DEF Flow
<1> HIDE DEF d, t
<1>4. Alike(s, t) /\ t.client = d /\ t.index = s.index
  BY ONLY <1>1, <1>3, s \in CodexConv DEF CodexConv, Alike
<1>5. QED
  BY <1>2, <1>4 DEF t

\* fed,
LEMMA CodexFed ==
  ASSUME NEW s \in CodexConv, NEW kind \in Claude!Kinds, Flow(s.client, s.index, kind),
         NEW F \in SUBSET Said, F \cap s.client.heard = {}
  PROVE  LET t == Codex!Feed(s, kind, F) IN
         /\ Alike(s, t) /\ Flow(t.client, t.index, kind) /\ t.client.heard = s.client.heard \cup F
         /\ t.client.tools = s.client.tools
<1> DEFINE d == Claude!BlockDelta(s.client, s.index, kind, F)
           t == Codex!Feed(s, kind, F)
<1>1. t = [s EXCEPT !.client = d]
  BY CodexEvents DEF Codex!Feed
<1>2. Flow(d, s.index, kind) /\ d.heard = s.client.heard \cup F /\ d.tools = s.client.tools
  BY FlowFed
<1>3. d \in Client(Said)
  BY <1>2 DEF Flow
<1> HIDE DEF d, t
<1>4. Alike(s, t) /\ t.client = d /\ t.index = s.index
  BY ONLY <1>1, <1>3, s \in CodexConv DEF CodexConv, Alike
<1>5. QED
  BY <1>2, <1>4 DEF t

\* and stopped.
LEMMA CodexStopped ==
  ASSUME NEW s \in CodexConv, NEW kind \in Claude!Kinds, Flow(s.client, s.index, kind)
  PROVE  LET t == Codex!StopBlock(s) IN
         /\ Alike(s, t) /\ Flow(t.client, t.index, "none") /\ t.client.heard = s.client.heard
         /\ t.client.tools = s.client.tools
<1> DEFINE d == Claude!BlockStop(s.client, s.index)
           t == Codex!StopBlock(s)
<1>1. t = [s EXCEPT !.client = d, !.index = s.index + 1]
  BY CodexEvents DEF Codex!StopBlock
<1>2. Flow(d, s.index + 1, "none") /\ d.heard = s.client.heard /\ d.tools = s.client.tools
  BY FlowStops
<1>3. d \in Client(Said) /\ s.index + 1 \in Nat
  BY <1>2 DEF Flow
<1> HIDE DEF d, t
<1>4. Alike(s, t) /\ t.client = d /\ t.index = s.index + 1
  BY ONLY <1>1, <1>3, s \in CodexConv DEF CodexConv, Alike
<1>5. QED
  BY <1>2, <1>4 DEF t

\* Between items, or parts: a thinking block that is open waits for its signature.
Ready(s) == /\ Opens(s, "none") \/ Opens(s, "thinking")
            /\ s.stopPending <=> s.thinkingOpen
            /\ s.stopPending => s.signature = Codex!NoItem

\* finalizeCodexThinkingBlock leaves no block open where only thinking, perhaps with a stop pending, can be.
LEMMA CodexReady ==
  ASSUME NEW s, Ready(s)
  PROVE  LET t == Codex!Finalize(s) IN
         /\ Opens(t, "none") /\ Carries(s, t) /\ ~t.stopPending /\ ~t.thinkingOpen
         /\ Codex!FinalizePending(s) = t
         /\ t.stopPending = FALSE
<1> DEFINE t == Codex!Finalize(s)
<1>1. s.thinkingOpen => s.signature = Codex!NoItem \/ s.signature = s.thinks
  BY DEF Ready
<1>2. /\ Opens(t, "none") /\ Carries(s, t)
      /\ s.thinkingOpen => ~t.stopPending
      /\ ~s.thinkingOpen => t.stopPending = s.stopPending
  BY <1>1, CodexFinalizes DEF Ready
<1>3. ~t.stopPending /\ ~t.thinkingOpen /\ t.stopPending \in BOOLEAN
  <2> HIDE DEF t
  <2>1. QED
    BY <1>2 DEF Ready, Opens, CodexConv
<1>4. Codex!FinalizePending(s) = t
  <2>1. CASE s.thinkingOpen
    BY <2>1 DEF Codex!FinalizePending, Codex!FinalizeIf, Ready
  <2>2. CASE ~s.thinkingOpen
    BY <2>2 DEF Codex!FinalizePending, Codex!FinalizeIf, Codex!Finalize
  <2>3. QED
    BY <2>1, <2>2
<1>5. QED
  BY <1>2, <1>3, <1>4

\* A part of the reasoning;
LEMMA CodexSummary ==
  ASSUME NEW s, Ready(s), NEW item \in Nat
  PROVE  LET t == Codex!SummaryAdded(s, item) IN
         Opens(t, "thinking") /\ Carries(s, t) /\ ~t.stopPending /\ t.thinks = item
<1> DEFINE u == Codex!Finalize(s)
           v == Codex!StartBlock(u, "thinking")
           t == Codex!SummaryAdded(s, item)
<1>1. Opens(u, "none") /\ Carries(s, u) /\ Codex!FinalizePending(s) = u
  BY CodexReady
<1>2. t = [v EXCEPT !.thinkingOpen = TRUE, !.stopPending = FALSE, !.thinks = item]
  BY <1>1 DEF Codex!SummaryAdded
<1> HIDE DEF u
<1>3. u \in CodexConv /\ Flow(u.client, u.index, "none") /\ "thinking" \in Claude!Kinds
  BY <1>1 DEF Opens, Claude!Kinds
<1>4. /\ Alike(u, v) /\ Flow(v.client, v.index, "thinking") /\ v.client.heard = u.client.heard
      /\ v.client.tools = u.client.tools
  BY <1>3, CodexStarts
<1> HIDE DEF v, t
<1>5. v \in CodexConv
  BY <1>4 DEF Alike
<1>6. /\ t \in CodexConv /\ t.thinkingOpen /\ ~t.stopPending /\ t.thinks = item /\ t.client = v.client /\ t.index = v.index
      /\ t.textOpen = v.textOpen /\ t.hasToolCall = v.hasToolCall /\ t.signed = v.signed /\ t.signature = v.signature
      /\ t.hasTextDelta = v.hasTextDelta /\ t.hasReceivedArgumentsDelta = v.hasReceivedArgumentsDelta
  BY ONLY <1>2, <1>5, item \in Nat DEF CodexConv
<1>7. Opens(t, "thinking") /\ Carries(s, t)
  BY <1>1, <1>4, <1>6 DEF Opens, Carries, Alike
<1>8. QED
  BY <1>6, <1>7 DEF t

\* or of a message;
LEMMA CodexPart ==
  ASSUME NEW s, Ready(s)
  PROVE  LET t == Codex!PartAdded(s) IN
         Opens(t, "text") /\ Carries(s, t) /\ ~t.stopPending
<1> DEFINE u == Codex!Finalize(s)
           v == Codex!StartBlock(u, "text")
           t == Codex!PartAdded(s)
<1>1. Opens(u, "none") /\ Carries(s, u) /\ Codex!FinalizePending(s) = u /\ ~u.stopPending
  BY CodexReady
<1>2. t = [v EXCEPT !.textOpen = TRUE]
  BY <1>1 DEF Codex!PartAdded
<1> HIDE DEF u
<1>3. u \in CodexConv /\ Flow(u.client, u.index, "none") /\ "text" \in Claude!Kinds
  BY <1>1 DEF Opens, Claude!Kinds
<1>4. /\ Alike(u, v) /\ Flow(v.client, v.index, "text") /\ v.client.heard = u.client.heard
      /\ v.client.tools = u.client.tools
  BY <1>3, CodexStarts
<1> HIDE DEF v, t
<1>5. v \in CodexConv
  BY <1>4 DEF Alike
<1>6. /\ t \in CodexConv /\ t.textOpen /\ t.stopPending = v.stopPending /\ t.client = v.client /\ t.index = v.index
      /\ t.thinkingOpen = v.thinkingOpen /\ t.hasToolCall = v.hasToolCall /\ t.signed = v.signed /\ t.signature = v.signature
      /\ t.hasTextDelta = v.hasTextDelta /\ t.hasReceivedArgumentsDelta = v.hasReceivedArgumentsDelta
  BY ONLY <1>2, <1>5 DEF CodexConv
<1>7. Opens(t, "text") /\ Carries(s, t) /\ ~t.stopPending
  BY <1>1, <1>4, <1>6 DEF Opens, Carries, Alike
<1>8. QED
  BY <1>7 DEF t

\* a call;
LEMMA CodexCall ==
  ASSUME NEW s, Ready(s)
  PROVE  LET t == Codex!CallAdded(s) IN
         /\ Opens(t, "tool") /\ t.client.heard = s.client.heard /\ t.signature = s.signature
         /\ t.hasTextDelta = s.hasTextDelta /\ ~t.hasReceivedArgumentsDelta /\ ~t.stopPending
<1> DEFINE u == Codex!Finalize(s)
           v == Codex!StartBlock(u, "tool")
           nothing == {}
           w == Codex!Feed(v, "tool", nothing)
           t == Codex!CallAdded(s)
<1>1. Opens(u, "none") /\ Carries(s, u) /\ ~u.stopPending
  BY CodexReady
<1>2. t = [w EXCEPT !.hasToolCall = TRUE, !.hasReceivedArgumentsDelta = FALSE]
  BY DEF Codex!CallAdded
<1> HIDE DEF u
<1>3. u \in CodexConv /\ Flow(u.client, u.index, "none") /\ "tool" \in Claude!Kinds
  BY <1>1 DEF Opens, Claude!Kinds
<1>4. /\ Alike(u, v) /\ Flow(v.client, v.index, "tool") /\ v.client.heard = u.client.heard
      /\ v.client.tools = u.client.tools + 1
  BY <1>3, CodexStarts
<1> HIDE DEF v
<1>5. v \in CodexConv /\ nothing \in SUBSET Said /\ nothing \cap v.client.heard = {}
  BY <1>4 DEF Alike
<1>6. /\ Alike(v, w) /\ Flow(w.client, w.index, "tool") /\ w.client.heard = v.client.heard \cup nothing
      /\ w.client.tools = v.client.tools
  <2> HIDE DEF nothing
  <2>1. QED
    BY ONLY <1>3, <1>4, <1>5, CodexFed
<1>7. w.client.heard = v.client.heard
  BY <1>6
<1> HIDE DEF w, t, nothing
<1>8. w \in CodexConv
  BY <1>6 DEF Alike
<1>9. /\ t \in CodexConv /\ t.hasToolCall /\ ~t.hasReceivedArgumentsDelta /\ t.stopPending = w.stopPending
      /\ t.client = w.client /\ t.index = w.index
      /\ t.thinkingOpen = w.thinkingOpen /\ t.textOpen = w.textOpen /\ t.signed = w.signed /\ t.signature = w.signature
      /\ t.hasTextDelta = w.hasTextDelta
  BY ONLY <1>2, <1>8 DEF CodexConv
<1>10. u.client.tools \in Nat /\ t.client.tools > 0
  <2>1. u.client.tools \in Nat
    BY <1>3 DEF CodexConv, Client
  <2>2. t.client.tools = u.client.tools + 1
    BY <1>4, <1>6, <1>9
  <2>3. QED
    BY <2>1, <2>2
<1>11. Opens(t, "tool")
  BY <1>1, <1>4, <1>6, <1>9, <1>10 DEF Opens, Alike
<1>12. t.client.heard = s.client.heard /\ t.signature = s.signature /\ t.hasTextDelta = s.hasTextDelta /\ ~t.stopPending
  BY <1>1, <1>4, <1>6, <1>7, <1>9 DEF Alike, Carries
<1>13. QED
  BY <1>9, <1>11, <1>12 DEF t

\* a message that comes as a whole.
LEMMA CodexMessage ==
  ASSUME NEW s, Ready(s), ~s.hasTextDelta, NEW F \in SUBSET Said, F # {}, F \cap s.client.heard = {}
  PROVE  LET t == Codex!MessageDone(s, F) IN
         /\ Opens(t, "none") /\ t.client.heard = s.client.heard \cup F /\ t.signature = s.signature /\ ~t.stopPending
<1> DEFINE u == Codex!Finalize(s)
           v == Codex!StartBlock(u, "text")
           w == Codex!Feed(v, "text", F)
           x == Codex!StopBlock(w)
           t == Codex!MessageDone(s, F)
<1>1. Opens(u, "none") /\ Carries(s, u) /\ ~u.stopPending
  BY CodexReady
<1>2. t = [x EXCEPT !.textOpen = FALSE, !.hasTextDelta = TRUE]
  <2>1. ~u.textOpen
    BY <1>1 DEF Opens
  <2>2. QED
    BY <2>1 DEF Codex!MessageDone
<1> HIDE DEF u
<1>3. u \in CodexConv /\ Flow(u.client, u.index, "none") /\ "text" \in Claude!Kinds
  BY <1>1 DEF Opens, Claude!Kinds
<1>4. /\ Alike(u, v) /\ Flow(v.client, v.index, "text") /\ v.client.heard = u.client.heard
      /\ v.client.tools = u.client.tools
  BY <1>3, CodexStarts
<1> HIDE DEF v
<1>5. v \in CodexConv /\ F \cap v.client.heard = {}
  BY <1>1, <1>4 DEF Alike, Carries
<1>6. /\ Alike(v, w) /\ Flow(w.client, w.index, "text") /\ w.client.heard = v.client.heard \cup F
      /\ w.client.tools = v.client.tools
  BY ONLY <1>3, <1>4, <1>5, CodexFed, F \in SUBSET Said
<1> HIDE DEF w
<1>7. w \in CodexConv
  BY <1>6 DEF Alike
<1>8. /\ Alike(w, x) /\ Flow(x.client, x.index, "none") /\ x.client.heard = w.client.heard
      /\ x.client.tools = w.client.tools
  BY ONLY <1>3, <1>6, <1>7, CodexStopped
<1> HIDE DEF x, t
<1>9. x \in CodexConv
  BY <1>8 DEF Alike
<1>10. /\ t \in CodexConv /\ t.hasToolCall = x.hasToolCall /\ t.stopPending = x.stopPending
       /\ t.client = x.client /\ t.index = x.index
       /\ t.thinkingOpen = x.thinkingOpen /\ ~t.textOpen /\ t.signed = x.signed /\ t.signature = x.signature
  BY ONLY <1>2, <1>9 DEF CodexConv
<1>11. Opens(t, "none")
  BY <1>1, <1>4, <1>6, <1>8, <1>10 DEF Opens, Alike
<1>12. t.client.heard = s.client.heard \cup F /\ t.signature = s.signature /\ ~t.stopPending
  BY <1>1, <1>4, <1>6, <1>8, <1>10 DEF Alike, Carries
<1>13. QED
  BY <1>11, <1>12 DEF t

Live == {"idle", "reasoning", "summary", "message", "text", "call", "called"}

\* The upstream of u has gone on, to be v, and said F.
Gone(u, v, at, item, F, own) ==
    /\ v \in CodexUp /\ UpTo(v.count, v.said) /\ v.at = at /\ v.item = item /\ v.said = u.said \cup F /\ v.own = own
    /\ v.announces = u.announces /\ v.streams = u.streams /\ v.signs = u.signs /\ v.messages = u.messages

\* How the upstream goes on: within an item, or to the next one.
LEMMA CodexMoves ==
  ASSUME NEW u \in CodexUp, NEW at \in Live, NEW F \in SUBSET Said, UpTo(u.count + 1, u.said \cup F)
  PROVE  /\ Gone(u, [u EXCEPT !.at = at, !.count = u.count + 1, !.said = u.said \cup F, !.own = u.own \cup F],
                 at, u.item, F, u.own \cup F)
         /\ Gone(u, [u EXCEPT !.at = at, !.count = u.count + 1, !.item = u.item + 1, !.said = u.said \cup F, !.own = F],
                 at, u.item + 1, F, F)
<1>1. /\ u.item + 1 \in Nat /\ u.count + 1 \in Nat /\ u.said \cup F \in SUBSET Said /\ u.own \cup F \in SUBSET Said
  BY DEF CodexUp
<1>2. at \in {"new", "idle", "reasoning", "summary", "message", "text", "call", "called", "completed", "cut"}
  BY DEF Live
<1> DEFINE v == [u EXCEPT !.at = at, !.count = u.count + 1, !.said = u.said \cup F, !.own = u.own \cup F]
           w == [u EXCEPT !.at = at, !.count = u.count + 1, !.item = u.item + 1, !.said = u.said \cup F, !.own = F]
<1>3. /\ v \in CodexUp /\ v.at = at /\ v.item = u.item /\ v.said = u.said \cup F /\ v.own = u.own \cup F
      /\ v.announces = u.announces /\ v.streams = u.streams /\ v.signs = u.signs /\ v.messages = u.messages
      /\ v.count = u.count + 1
  BY ONLY <1>1, <1>2, u \in CodexUp DEF CodexUp
<1>4. /\ w \in CodexUp /\ w.at = at /\ w.item = u.item + 1 /\ w.said = u.said \cup F /\ w.own = F
      /\ w.announces = u.announces /\ w.streams = u.streams /\ w.signs = u.signs /\ w.messages = u.messages
      /\ w.count = u.count + 1
  BY ONLY <1>1, <1>2, u \in CodexUp, F \in SUBSET Said DEF CodexUp
<1> HIDE DEF v, w
<1>5. Gone(u, v, at, u.item, F, u.own \cup F) /\ Gone(u, w, at, u.item + 1, F, F)
  BY <1>3, <1>4 DEF Gone
<1>6. QED
  BY <1>5 DEF v, w

\* The invariant holds where the upstream is in an item, or between two.
LEMMA CodexGoes ==
  ASSUME NEW u, NEW s, u \in CodexUp, UpTo(u.count, u.said), u.at \in Live,
         s.client.heard = u.said, u.own \subseteq u.said, NEW kind, Opens(s, kind), Within(u, s)
  PROVE  CodexHolds(u, s)
<1>1. s \in CodexConv /\ \A p \in s.signed : p[1] = p[2]
  BY DEF Opens
<1>2. u.at \notin {"new", "completed", "cut"}
  BY DEF Live
<1>3. QED
  BY <1>1, <1>2 DEF CodexHolds

\* What it says in the next of its events is new.
LEMMA CodexSays ==
  ASSUME CodexInv, NEW kind \in Claude!Kinds
  PROVE  LET F == Codex!Fragment(kind) IN
         /\ F \in SUBSET Said /\ F \cap up.said = {} /\ F # {} /\ UpTo(up.count + 1, up.said \cup F)
         /\ UpTo(up.count + 1, up.said)
<1> DEFINE f == [chunk |-> up.count + 1, kind |-> kind]
<1>1. up.count \in Nat /\ UpTo(up.count, up.said)
  BY DEF CodexInv, CodexHolds, CodexUp
<1>2. f \in Said /\ f \notin up.said /\ UpTo(up.count + 1, up.said) /\ UpTo(up.count + 1, up.said \cup {f})
  BY <1>1, NothingYet
<1>3. Codex!Fragment(kind) = {f}
  BY DEF Codex!Fragment
<1> HIDE DEF f
<1>4. QED
  BY <1>2, <1>3

\* An item is added, when the client is ready for it.
LEMMA CodexFree ==
  ASSUME CodexInv, up.at \in {"idle", "reasoning"}
  PROVE  /\ Ready(conv) /\ Within(up, conv) /\ up \in CodexUp /\ conv.client.heard = up.said /\ conv \in CodexConv
         /\ up.own \subseteq up.said
<1>1. /\ Within(up, conv) /\ up \in CodexUp /\ conv.client.heard = up.said /\ conv \in CodexConv
      /\ up.own \subseteq up.said
  BY DEF CodexInv, CodexHolds
<1>2. Opens(conv, "none") \/ Opens(conv, "thinking")
  BY <1>1 DEF Within
<1>3. conv.stopPending <=> conv.thinkingOpen
  <2>1. Opens(conv, "none") => ~conv.thinkingOpen
    BY DEF Opens
  <2>2. up.at = "idle" => Opens(conv, "none")
    BY <1>1 DEF Within
  <2>3. conv.stopPending <=> up.at = "reasoning" /\ conv.thinkingOpen
    BY <1>1 DEF Within
  <2>4. QED
    BY <2>1, <2>2, <2>3
<1>4. conv.stopPending => conv.signature = Codex!NoItem
  BY <1>1 DEF Within
<1>5. QED
  BY <1>1, <1>2, <1>3, <1>4 DEF Ready

\* A Codex stream begins with nothing told,
LEMMA CodexBegins == Codex!Init => CodexInv
<1> SUFFICES ASSUME Codex!Init PROVE CodexInv
  OBVIOUS
<1>1. /\ up \in [at : {"new"}, announces : BOOLEAN, streams : BOOLEAN, signs : BOOLEAN,
                 item : {0}, count : {0}, messages : {0}, said : {{}}, own : {{}}]
      /\ conv = Codex!NewConversion
      /\ conv = [client |-> Claude!Fresh, index |-> 0, hasToolCall |-> FALSE, hasReceivedArgumentsDelta |-> FALSE,
                 hasTextDelta |-> FALSE, textOpen |-> FALSE, thinkingOpen |-> FALSE, stopPending |-> FALSE,
                 signature |-> 0, thinks |-> 0, signed |-> {}]
  BY DEF Codex!Init, Codex!NewConversion, Codex!Fresh, Claude!Fresh, Codex!NoItem
<1>2. /\ up \in CodexUp /\ up.at = "new" /\ up.said = {} /\ up.own = {} /\ up.count = 0 /\ up.messages = 0
  BY <1>1 DEF CodexUp
<1>3. conv \in CodexConv /\ conv.signed = {} /\ conv.client.heard = {}
  BY <1>1, FreshClient DEF CodexConv
<1>4. UpTo(up.count, up.said)
  BY <1>2 DEF UpTo
<1>5. QED
  BY <1>1, <1>2, <1>3, <1>4 DEF CodexInv, CodexHolds

\* and its first event starts the message.
LEMMA CodexCreates ==
  ASSUME CodexInv, Codex!Create
  PROVE  CodexInv'
<1> DEFINE d == Claude!MessageStart(conv.client)
<1>1. up.at = "new" /\ conv' = [conv EXCEPT !.client = d] /\ up' = [up EXCEPT !.at = "idle"]
  BY CodexEvents DEF Codex!Create, Codex!Created
<1>2. /\ up \in CodexUp /\ UpTo(up.count, up.said) /\ conv \in CodexConv /\ conv.client.heard = up.said
      /\ up.own \subseteq up.said /\ conv = Codex!NewConversion /\ up.messages = 0
  BY <1>1 DEF CodexInv, CodexHolds
<1>3. /\ up' \in CodexUp /\ up'.at = "idle" /\ up'.said = up.said /\ up'.own = up.own /\ up'.count = up.count
      /\ up'.streams = up.streams
  BY ONLY <1>1, <1>2 DEF CodexUp
<1>4. /\ conv.client = Claude!Fresh /\ conv.index = 0 /\ ~conv.hasToolCall /\ ~conv.hasTextDelta /\ ~conv.textOpen
      /\ ~conv.thinkingOpen /\ ~conv.stopPending /\ conv.signature = Codex!NoItem /\ conv.signed = {}
  BY <1>2 DEF Codex!NewConversion, Codex!Fresh, Claude!Fresh, Codex!NoItem
<1>5. conv.client \in Client(Said) /\ conv.client.phase = "new"
  BY <1>2, <1>4, FreshClient DEF CodexConv
<1>6. /\ d \in Client(Said) /\ d.phase = "body" /\ d.open = {} /\ d.next = 0 /\ d.tools = 0 /\ d.reason = "none"
      /\ d.heard = conv.client.heard
  <2>1. /\ d \in Client(Said) /\ d.phase = "body" /\ d.open = conv.client.open /\ d.next = conv.client.next
        /\ d.tools = conv.client.tools /\ d.reason = conv.client.reason /\ d.heard = conv.client.heard
    BY <1>5, MessageStarts
  <2>2. QED
    BY <1>4, <2>1, FreshClient
<1> HIDE DEF d
<1>7. /\ conv' \in CodexConv /\ conv'.client = d /\ conv'.index = conv.index /\ conv'.hasToolCall = conv.hasToolCall
      /\ conv'.textOpen = conv.textOpen /\ conv'.thinkingOpen = conv.thinkingOpen /\ conv'.stopPending = conv.stopPending
      /\ conv'.signature = conv.signature /\ conv'.signed = conv.signed /\ conv'.hasTextDelta = conv.hasTextDelta
  BY ONLY <1>1, <1>2, <1>6 DEF CodexConv
<1>8. Opens(conv', "none")
  BY <1>4, <1>6, <1>7 DEF Opens, Flow
<1>9. Within(up', conv')
  BY <1>3, <1>4, <1>7, <1>8 DEF Within
<1>10. QED
  BY <1>2, <1>3, <1>6, <1>7, <1>8, <1>9, CodexGoes DEF CodexInv, Live

\* The upstream of u has gone on, to be v, and said nothing.
Turned(u, v, at) ==
    /\ v \in CodexUp /\ v.at = at /\ v.item = u.item /\ v.said = u.said /\ v.own = u.own /\ v.count = u.count
    /\ v.announces = u.announces /\ v.streams = u.streams /\ v.signs = u.signs /\ v.messages = u.messages

\* An event that says nothing only moves the upstream.
LEMMA CodexTurns ==
  ASSUME NEW u \in CodexUp, NEW at \in Live \cup {"completed", "cut"}
  PROVE  Turned(u, [u EXCEPT !.at = at], at)
BY DEF Turned, CodexUp, Live

\* An item of reasoning opens nothing,
LEMMA CodexAddsReasoning ==
  ASSUME CodexInv, Codex!AddReasoning
  PROVE  CodexInv'
<1> DEFINE sig == IF up.signs THEN up.item + 1 ELSE Codex!NoItem
           t == [conv EXCEPT !.signature = sig]
           v == Codex!Finalize(t)
<1>1. /\ up.at \in {"idle", "reasoning"} /\ up.announces
      /\ conv' = Codex!FinalizeIf(t, t.stopPending)
      /\ up' = [up EXCEPT !.at = "reasoning", !.count = up.count + 1, !.item = up.item + 1, !.said = up.said \cup {}, !.own = {}]
  BY DEF Codex!AddReasoning, Codex!Free, Codex!Begins, Codex!ReasoningAdded
<1>2. /\ Ready(conv) /\ Within(up, conv) /\ up \in CodexUp /\ conv.client.heard = up.said /\ conv \in CodexConv
  BY <1>1, CodexFree
<1>3. UpTo(up.count + 1, up.said) /\ UpTo(up.count + 1, up.said \cup {})
  <2>1. "text" \in Claude!Kinds /\ up.said \cup {} = up.said
    BY DEF Claude!Kinds
  <2>2. QED
    BY <2>1, CodexSays
<1>4. PICK none \in SUBSET Said : none = {}
  OBVIOUS
<1>5. Gone(up, up', "reasoning", up.item + 1, none, none)
  <2>1. UpTo(up.count + 1, up.said \cup none) /\ "reasoning" \in Live
    BY <1>3, <1>4 DEF Live
  <2>2. up' = [up EXCEPT !.at = "reasoning", !.count = up.count + 1, !.item = up.item + 1,
                         !.said = up.said \cup none, !.own = none]
    BY <1>1, <1>4
  <2>3. QED
    BY <1>2, <2>1, <2>2, CodexMoves
<1>6. sig \in Nat /\ up.item \in Nat
  BY <1>2 DEF CodexUp, Codex!NoItem
<1>7. conv.stopPending => sig = Codex!NoItem
  <2>1. conv.stopPending /\ up.signs => conv.signature = up.item /\ up.item > 0 /\ conv.signature = Codex!NoItem
    BY <1>1, <1>2 DEF Within
  <2>2. QED
    BY <1>6, <2>1 DEF Codex!NoItem
<1> HIDE DEF sig
<1>8. /\ t \in CodexConv /\ t.client = conv.client /\ t.index = conv.index /\ t.hasToolCall = conv.hasToolCall
      /\ t.textOpen = conv.textOpen /\ t.thinkingOpen = conv.thinkingOpen /\ t.stopPending = conv.stopPending
      /\ t.signature = sig /\ t.signed = conv.signed /\ t.hasTextDelta = conv.hasTextDelta
  BY ONLY <1>2, <1>6 DEF CodexConv
<1> HIDE DEF t
<1>9. Ready(t)
  BY <1>2, <1>7, <1>8 DEF Ready, Opens
<1>10. Opens(v, "none") /\ Carries(t, v) /\ ~v.stopPending /\ ~v.thinkingOpen /\ Codex!FinalizePending(t) = v
  BY <1>9, CodexReady
<1>11. conv' = v
  BY <1>1, <1>9, <1>10 DEF Codex!FinalizePending, Codex!FinalizeIf, Ready
<1> HIDE DEF v
<1>12. Within(up', conv')
  <2>1. sig # Codex!NoItem => up.announces /\ up.signs
    BY <1>1 DEF sig
  <2>2. up.announces /\ up.signs => sig = up.item + 1
    BY DEF sig
  <2>3. ~up.streams /\ up.messages = 0 => ~conv.hasTextDelta
    BY <1>2 DEF Within
  <2>4. conv'.signature = sig /\ conv'.hasTextDelta = conv.hasTextDelta /\ up.item + 1 > 0
    BY <1>6, <1>8, <1>10, <1>11 DEF Carries
  <2>5. /\ up'.at = "reasoning" /\ up'.item = up.item + 1 /\ up'.announces = up.announces /\ up'.streams = up.streams
        /\ up'.signs = up.signs /\ up'.messages = up.messages
    BY <1>5 DEF Gone
  <2>6. Opens(conv', "none") /\ ~conv'.stopPending /\ ~conv'.thinkingOpen
    BY <1>10, <1>11
  <2>7. QED
    BY ONLY <2>1, <2>2, <2>3, <2>4, <2>5, <2>6 DEF Within
<1>13. /\ up' \in CodexUp /\ UpTo(up'.count, up'.said) /\ up'.at \in Live /\ conv'.client.heard = up'.said
       /\ up'.own \subseteq up'.said
  BY <1>2, <1>4, <1>5, <1>8, <1>10, <1>11 DEF Gone, Carries, Live
<1>14. QED
  BY <1>10, <1>11, <1>12, <1>13, CodexGoes DEF CodexInv

\* a part of its summary starts a block of thinking, the last one's stopped first,
LEMMA CodexAddsSummary ==
  ASSUME CodexInv, Codex!AddSummary
  PROVE  CodexInv'
<1>1. PICK none \in SUBSET Said : none = {}
  OBVIOUS
<1>2. PICK item : /\ item = IF up.at = "reasoning" THEN up.item ELSE up.item + 1
  OBVIOUS
<1>3. /\ up.at \in {"idle", "reasoning"} /\ conv' = Codex!SummaryAdded(conv, item)
      /\ up.at = "idle" => ~up.announces
      /\ \/ /\ up.at = "reasoning"
            /\ up' = [up EXCEPT !.at = "summary", !.count = up.count + 1, !.said = up.said \cup none, !.own = up.own \cup none]
         \/ /\ up.at = "idle"
            /\ up' = [up EXCEPT !.at = "summary", !.count = up.count + 1, !.item = up.item + 1,
                                !.said = up.said \cup none, !.own = none]
  BY <1>1, <1>2 DEF Codex!AddSummary, Codex!Moves, Codex!Begins
<1>4. /\ Ready(conv) /\ Within(up, conv) /\ up \in CodexUp /\ conv.client.heard = up.said /\ conv \in CodexConv
      /\ up.own \subseteq up.said
  BY <1>3, CodexFree
<1>5. UpTo(up.count + 1, up.said \cup none) /\ up.said \cup none = up.said /\ "summary" \in Live
  <2>1. "text" \in Claude!Kinds /\ up.said \cup none = up.said
    BY <1>1 DEF Claude!Kinds
  <2>2. QED
    BY <2>1, CodexSays DEF Live
<1>6. \/ up.at = "reasoning" /\ Gone(up, up', "summary", item, none, up.own \cup none)
      \/ up.at = "idle" /\ Gone(up, up', "summary", item, none, none)
  <2> DEFINE v == [up EXCEPT !.at = "summary", !.count = up.count + 1, !.said = up.said \cup none, !.own = up.own \cup none]
             w == [up EXCEPT !.at = "summary", !.count = up.count + 1, !.item = up.item + 1,
                             !.said = up.said \cup none, !.own = none]
  <2>1. /\ Gone(up, v, "summary", up.item, none, up.own \cup none)
        /\ Gone(up, w, "summary", up.item + 1, none, none)
    BY <1>4, <1>5, CodexMoves
  <2>2. (up.at = "reasoning" /\ up' = v) \/ (up.at = "idle" /\ up' = w)
    BY <1>3
  <2> HIDE DEF v, w
  <2>3. QED
    BY <1>2, <2>1, <2>2
<1>7. item \in Nat /\ item > 0
  <2>1. up.item \in Nat /\ (up.at = "reasoning" => up.item > 0)
    BY <1>4 DEF CodexUp, Within
  <2>2. QED
    BY <1>2, <2>1
<1> DEFINE t == Codex!SummaryAdded(conv, item)
<1>8. Opens(t, "thinking") /\ Carries(conv, t) /\ ~t.stopPending /\ t.thinks = item
  BY <1>4, <1>7, CodexSummary
<1> HIDE DEF t
<1>9. conv' = t
  BY <1>3 DEF t
<1>10. /\ up' \in CodexUp /\ UpTo(up'.count, up'.said) /\ up'.at = "summary" /\ up'.said = up.said /\ up'.own \subseteq up'.said
       /\ up'.item = item
       /\ up'.announces = up.announces /\ up'.streams = up.streams /\ up'.signs = up.signs /\ up'.messages = up.messages
  BY <1>1, <1>4, <1>5, <1>6 DEF Gone
<1>11. Within(up', conv')
  <2>1. /\ conv.signature # Codex!NoItem => up.announces /\ up.signs
        /\ up.at = "reasoning" => (up.announces /\ up.signs => conv.signature = up.item)
        /\ ~up.streams /\ up.messages = 0 => ~conv.hasTextDelta
    BY <1>4 DEF Within
  <2>2. up.announces /\ up.signs => conv.signature = item
    BY <1>2, <1>3, <2>1
  <2>3. conv'.signature = conv.signature /\ conv'.hasTextDelta = conv.hasTextDelta
    BY <1>8, <1>9 DEF Carries
  <2>4. Opens(conv', "thinking") /\ ~conv'.stopPending /\ conv'.thinks = item
    BY <1>8, <1>9
  <2>5. QED
    BY ONLY <1>7, <1>10, <2>1, <2>2, <2>3, <2>4 DEF Within
<1>12. conv'.client.heard = up'.said /\ up'.at \in Live
  BY <1>4, <1>8, <1>9, <1>10 DEF Carries, Live
<1>13. QED
  BY <1>8, <1>9, <1>10, <1>11, <1>12, CodexGoes DEF CodexInv

\* a fragment of it is told there,
LEMMA CodexSaysSummary ==
  ASSUME CodexInv, Codex!SaySummary
  PROVE  CodexInv'
<1> DEFINE F == Codex!Fragment("thinking")
           t == Codex!Feed(conv, "thinking", F)
<1>1. /\ up.at = "summary" /\ conv' = t
      /\ up' = [up EXCEPT !.at = "summary", !.count = up.count + 1, !.said = up.said \cup F, !.own = up.own \cup F]
  BY DEF Codex!SaySummary, Codex!SummaryDelta, Codex!Moves
<1>2. /\ Within(up, conv) /\ up \in CodexUp /\ conv.client.heard = up.said /\ conv \in CodexConv
      /\ up.own \subseteq up.said
  BY <1>1 DEF CodexInv, CodexHolds
<1>3. "thinking" \in Claude!Kinds /\ "summary" \in Live
  BY DEF Claude!Kinds, Live
<1>4. F \in SUBSET Said /\ F \cap up.said = {} /\ UpTo(up.count + 1, up.said \cup F)
  BY <1>3, CodexSays
<1> HIDE DEF F
<1>5. Gone(up, up', "summary", up.item, F, up.own \cup F)
  BY <1>1, <1>2, <1>3, <1>4, CodexMoves
<1>6. Opens(conv, "thinking") /\ Flow(conv.client, conv.index, "thinking")
  BY <1>1, <1>2 DEF Within, Opens
<1>7. /\ Alike(conv, t) /\ Flow(t.client, t.index, "thinking") /\ t.client.heard = conv.client.heard \cup F
      /\ t.client.tools = conv.client.tools
  BY <1>2, <1>3, <1>4, <1>6, CodexFed
<1> HIDE DEF t
<1>8. Opens(t, "thinking")
  BY <1>6, <1>7 DEF Opens, Alike
<1>9. Within(up', conv')
  BY ONLY <1>1, <1>2, <1>5, <1>7, <1>8 DEF Within, Gone, Alike
<1>10. /\ up' \in CodexUp /\ UpTo(up'.count, up'.said) /\ up'.at \in Live /\ conv'.client.heard = up'.said
       /\ up'.own \subseteq up'.said
  BY <1>1, <1>2, <1>3, <1>5, <1>7 DEF Gone
<1>11. QED
  BY <1>1, <1>8, <1>9, <1>10, CodexGoes DEF CodexInv

\* its end leaves the stop pending,
LEMMA CodexEndsSummary ==
  ASSUME CodexInv, Codex!EndSummary
  PROVE  CodexInv'
<1> DEFINE t == [conv EXCEPT !.stopPending = TRUE]
           v == Codex!Finalize(t)
<1>1. /\ up.at = "summary" /\ conv' = Codex!FinalizeIf(t, t.signature # Codex!NoItem)
      /\ up' = [up EXCEPT !.at = "reasoning"]
  BY DEF Codex!EndSummary, Codex!SummaryDone
<1>2. /\ Within(up, conv) /\ up \in CodexUp /\ conv.client.heard = up.said /\ conv \in CodexConv
      /\ up.own \subseteq up.said /\ UpTo(up.count, up.said)
  BY <1>1 DEF CodexInv, CodexHolds
<1>3. Turned(up, up', "reasoning")
  BY <1>1, <1>2, CodexTurns DEF Live
<1>4. /\ Opens(conv, "thinking") /\ up.item > 0 /\ up.item \in Nat /\ conv.thinks = up.item
      /\ (up.announces /\ up.signs => conv.signature = up.item)
      /\ (conv.signature # Codex!NoItem => up.announces /\ up.signs)
      /\ (~up.streams /\ up.messages = 0 => ~conv.hasTextDelta)
  BY <1>1, <1>2 DEF Within, Opens, CodexUp
<1>5. /\ t \in CodexConv /\ t.client = conv.client /\ t.index = conv.index /\ t.hasToolCall = conv.hasToolCall
      /\ t.textOpen = conv.textOpen /\ t.thinkingOpen = conv.thinkingOpen /\ t.stopPending /\ t.thinks = conv.thinks
      /\ t.signature = conv.signature /\ t.signed = conv.signed /\ t.hasTextDelta = conv.hasTextDelta
  BY ONLY <1>2 DEF CodexConv
<1> HIDE DEF t
<1>6. Opens(t, "thinking")
  BY <1>4, <1>5 DEF Opens
<1>7. CASE conv.signature = Codex!NoItem
  <2>1. conv' = t
    BY <1>1, <1>5, <1>7 DEF Codex!FinalizeIf
  <2>2. ~(up.announces /\ up.signs)
    BY <1>4, <1>7 DEF Codex!NoItem
  <2>3. t.thinkingOpen
    BY <1>6 DEF Opens
  <2>4. Within(up', conv')
    BY ONLY <1>3, <1>4, <1>5, <1>6, <1>7, <2>1, <2>2, <2>3 DEF Within, Turned
  <2>5. /\ up' \in CodexUp /\ UpTo(up'.count, up'.said) /\ up'.at \in Live /\ conv'.client.heard = up'.said
        /\ up'.own \subseteq up'.said
    BY <1>2, <1>3, <1>5, <2>1 DEF Turned, Live
  <2>6. QED
    BY <1>6, <2>1, <2>4, <2>5, CodexGoes DEF CodexInv
<1>8. CASE conv.signature # Codex!NoItem
  <2>1. conv' = v
    BY <1>1, <1>5, <1>8 DEF Codex!FinalizeIf
  <2>2. t.signature = t.thinks /\ t.signature = up.item
    BY <1>4, <1>5, <1>8
  <2>3. t.thinkingOpen
    BY <1>6 DEF Opens
  <2>4. Opens(v, "none") /\ Carries(t, v) /\ ~v.stopPending
    BY <1>6, <2>2, <2>3, CodexFinalizes
  <2> HIDE DEF v
  <2>5. ~v.thinkingOpen /\ v.signature = up.item /\ v.hasTextDelta = conv.hasTextDelta
    BY <1>5, <2>2, <2>4 DEF Opens, Carries
  <2>6. up.announces /\ up.signs
    BY <1>4, <1>8
  <2>7. Within(up', conv')
    BY ONLY <1>3, <1>4, <2>1, <2>4, <2>5, <2>6 DEF Within, Turned
  <2>8. /\ up' \in CodexUp /\ UpTo(up'.count, up'.said) /\ up'.at \in Live /\ conv'.client.heard = up'.said
        /\ up'.own \subseteq up'.said
    BY <1>2, <1>3, <1>5, <2>1, <2>4 DEF Turned, Live, Carries
  <2>9. QED
    BY <2>1, <2>4, <2>7, <2>8, CodexGoes DEF CodexInv
<1>9. QED
  BY <1>7, <1>8

\* and the end of the item stops it, signed or not.
LEMMA CodexEndsReasoning ==
  ASSUME CodexInv, Codex!EndReasoning
  PROVE  CodexInv'
<1> DEFINE g == IF up.announces THEN Codex!Signature(FALSE) ELSE up.item
           sig == IF g = Codex!NoItem THEN conv.signature ELSE g
           t == [conv EXCEPT !.signature = sig]
           v == Codex!Finalize(t)
<1>1. /\ up.at = "reasoning" /\ conv' = [v EXCEPT !.signature = Codex!NoItem] /\ up' = [up EXCEPT !.at = "idle"]
  BY DEF Codex!EndReasoning, Codex!ReasoningDone
<1>2. /\ Ready(conv) /\ Within(up, conv) /\ up \in CodexUp /\ conv.client.heard = up.said /\ conv \in CodexConv
      /\ up.own \subseteq up.said /\ UpTo(up.count, up.said)
  BY <1>1, CodexFree DEF CodexInv, CodexHolds
<1>3. Turned(up, up', "idle")
  BY <1>1, <1>2, CodexTurns DEF Live
<1>4. /\ up.item > 0 /\ up.item \in Nat /\ (conv.thinkingOpen => conv.thinks = up.item /\ conv.stopPending)
      /\ (up.announces /\ up.signs => conv.signature = up.item)
      /\ (conv.signature # Codex!NoItem => up.announces /\ up.signs)
      /\ (conv.stopPending => conv.signature = Codex!NoItem)
      /\ (~up.streams /\ up.messages = 0 => ~conv.hasTextDelta)
  BY <1>1, <1>2 DEF Within, CodexUp
<1>5. sig = up.item
  <2>1. CASE up.announces /\ up.signs
    <3>1. g = Codex!NoItem
      BY <1>2, <2>1 DEF Codex!Signature, CodexUp
    <3>2. QED
      BY <1>4, <2>1, <3>1
  <2>2. CASE ~(up.announces /\ up.signs)
    <3>1. g = up.item
      BY <1>2, <2>2 DEF Codex!Signature, CodexUp
    <3>2. QED
      BY <1>4, <3>1 DEF Codex!NoItem
  <2>3. QED
    BY <2>1, <2>2
<1> HIDE DEF g, sig
<1>6. /\ t \in CodexConv /\ t.client = conv.client /\ t.index = conv.index /\ t.hasToolCall = conv.hasToolCall
      /\ t.textOpen = conv.textOpen /\ t.thinkingOpen = conv.thinkingOpen /\ t.stopPending = conv.stopPending
      /\ t.thinks = conv.thinks
      /\ t.signature = up.item /\ t.signed = conv.signed /\ t.hasTextDelta = conv.hasTextDelta
  BY ONLY <1>2, <1>4, <1>5 DEF CodexConv
<1> HIDE DEF t
<1>7. Opens(t, "none") \/ Opens(t, "thinking")
  BY <1>2, <1>6 DEF Ready, Opens
<1>8. t.thinkingOpen => t.signature = t.thinks
  BY <1>4, <1>6
<1>9. /\ Opens(v, "none") /\ Carries(t, v)
      /\ t.thinkingOpen => ~v.stopPending
      /\ ~t.thinkingOpen => v.stopPending = t.stopPending
  BY <1>7, <1>8, CodexFinalizes
<1> HIDE DEF v
<1>10. ~v.stopPending /\ v \in CodexConv
  BY <1>2, <1>6, <1>9 DEF Ready, Opens
<1>11. /\ conv' \in CodexConv /\ conv'.client = v.client /\ conv'.index = v.index /\ conv'.hasToolCall = v.hasToolCall
       /\ conv'.textOpen = v.textOpen /\ conv'.thinkingOpen = v.thinkingOpen /\ conv'.stopPending = v.stopPending
       /\ conv'.signature = Codex!NoItem /\ conv'.signed = v.signed /\ conv'.hasTextDelta = v.hasTextDelta
  <2>1. Codex!NoItem \in Nat
    BY DEF Codex!NoItem
  <2>2. QED
    BY ONLY <1>1, <1>10, <2>1 DEF CodexConv
<1>12. Opens(conv', "none") /\ ~conv'.stopPending /\ ~conv'.thinkingOpen /\ conv'.hasTextDelta = conv.hasTextDelta
       /\ conv'.client.heard = up.said
  BY <1>2, <1>6, <1>9, <1>10, <1>11 DEF Opens, Carries
<1>13. Within(up', conv')
  BY ONLY <1>3, <1>4, <1>11, <1>12 DEF Within, Turned
<1>14. /\ up' \in CodexUp /\ UpTo(up'.count, up'.said) /\ up'.at \in Live /\ conv'.client.heard = up'.said
       /\ up'.own \subseteq up'.said
  BY <1>2, <1>3, <1>12 DEF Turned, Live
<1>15. QED
  BY <1>12, <1>13, <1>14, CodexGoes DEF CodexInv

\* A part of a message starts a block of text,
LEMMA CodexAddsPart ==
  ASSUME CodexInv, Codex!AddPart
  PROVE  CodexInv'
<1> DEFINE t == Codex!PartAdded(conv)
<1>1. PICK none \in SUBSET Said : none = {}
  OBVIOUS
<1>2. /\ up.at \in {"idle", "reasoning", "message"} /\ up.streams /\ conv' = t
      /\ \/ up' = [up EXCEPT !.at = "text", !.count = up.count + 1, !.item = up.item + 1,
                             !.said = up.said \cup none, !.own = none]
         \/ up.at = "message" /\ up' = [up EXCEPT !.at = "text", !.count = up.count + 1,
                                                  !.said = up.said \cup none, !.own = up.own \cup none]
  BY <1>1 DEF Codex!AddPart, Codex!Moves, Codex!Begins, Codex!Free
<1>3. /\ Within(up, conv) /\ up \in CodexUp /\ conv.client.heard = up.said /\ conv \in CodexConv
      /\ up.own \subseteq up.said
  BY <1>2 DEF CodexInv, CodexHolds
<1>4. Ready(conv)
  <2>1. CASE up.at = "message"
    BY <1>3, <2>1 DEF Within, Ready, Opens
  <2>2. CASE up.at # "message"
    BY <1>2, <2>2, CodexFree
  <2>3. QED
    BY <2>1, <2>2
<1>5. UpTo(up.count + 1, up.said \cup none) /\ up.said \cup none = up.said /\ up.own \cup none = up.own /\ "text" \in Live
  <2>1. "text" \in Claude!Kinds /\ up.said \cup none = up.said
    BY <1>1 DEF Claude!Kinds
  <2>2. QED
    BY <1>1, <2>1, CodexSays DEF Live
<1>6. /\ up' \in CodexUp /\ UpTo(up'.count, up'.said) /\ up'.at = "text" /\ up'.said = up.said
      /\ up'.own = none \/ (up.at = "message" /\ up'.own = up.own)
      /\ up'.announces = up.announces /\ up'.streams = up.streams /\ up'.signs = up.signs /\ up'.messages = up.messages
  <2> DEFINE v == [up EXCEPT !.at = "text", !.count = up.count + 1, !.said = up.said \cup none, !.own = up.own \cup none]
             w == [up EXCEPT !.at = "text", !.count = up.count + 1, !.item = up.item + 1,
                             !.said = up.said \cup none, !.own = none]
  <2>1. /\ Gone(up, v, "text", up.item, none, up.own \cup none)
        /\ Gone(up, w, "text", up.item + 1, none, none)
    BY <1>3, <1>5, CodexMoves
  <2>2. (up.at = "message" /\ up' = v) \/ up' = w
    BY <1>2
  <2> HIDE DEF v, w
  <2>3. QED
    BY <1>5, <2>1, <2>2 DEF Gone
<1>7. Opens(t, "text") /\ Carries(conv, t) /\ ~t.stopPending
  BY <1>4, CodexPart
<1> HIDE DEF t
<1>8. /\ (conv.signature # Codex!NoItem => up.announces /\ up.signs)
      /\ (up.at = "message" /\ up.own # {} => conv.hasTextDelta)
      /\ ~t.thinkingOpen /\ t.signature = conv.signature /\ t.hasTextDelta = conv.hasTextDelta
  BY <1>3, <1>7 DEF Within, Opens, Carries
<1>9. Within(up', conv')
  BY ONLY <1>1, <1>2, <1>6, <1>7, <1>8 DEF Within
<1>10. up'.at \in Live /\ conv'.client.heard = up'.said /\ up'.own \subseteq up'.said
  BY <1>1, <1>2, <1>3, <1>6, <1>7 DEF Carries, Live
<1>11. QED
  BY <1>2, <1>6, <1>7, <1>9, <1>10, CodexGoes DEF CodexInv

\* a fragment of it is told there,
LEMMA CodexSaysText ==
  ASSUME CodexInv, Codex!SayText
  PROVE  CodexInv'
<1> DEFINE F == Codex!Fragment("text")
           t == Codex!Feed(conv, "text", F)
<1>1. /\ up.at = "text" /\ conv' = [t EXCEPT !.hasTextDelta = TRUE]
      /\ up' = [up EXCEPT !.at = "text", !.count = up.count + 1, !.said = up.said \cup F, !.own = up.own \cup F]
  BY DEF Codex!SayText, Codex!TextDelta, Codex!Moves
<1>2. /\ Within(up, conv) /\ up \in CodexUp /\ conv.client.heard = up.said /\ conv \in CodexConv
      /\ up.own \subseteq up.said
  BY <1>1 DEF CodexInv, CodexHolds
<1>3. "text" \in Claude!Kinds /\ "text" \in Live
  BY DEF Claude!Kinds, Live
<1>4. F \in SUBSET Said /\ F \cap up.said = {} /\ UpTo(up.count + 1, up.said \cup F)
  BY <1>3, CodexSays
<1> HIDE DEF F
<1>5. Gone(up, up', "text", up.item, F, up.own \cup F)
  BY <1>1, <1>2, <1>3, <1>4, CodexMoves
<1>6. Opens(conv, "text") /\ Flow(conv.client, conv.index, "text") /\ up.streams
  BY <1>1, <1>2 DEF Within, Opens
<1>7. /\ Alike(conv, t) /\ Flow(t.client, t.index, "text") /\ t.client.heard = conv.client.heard \cup F
      /\ t.client.tools = conv.client.tools
  BY <1>2, <1>3, <1>4, <1>6, CodexFed
<1> HIDE DEF t
<1>8. t \in CodexConv
  BY <1>7 DEF Alike
<1>9. /\ conv' \in CodexConv /\ conv'.client = t.client /\ conv'.index = t.index /\ conv'.hasToolCall = t.hasToolCall
      /\ conv'.textOpen = t.textOpen /\ conv'.thinkingOpen = t.thinkingOpen /\ conv'.stopPending = t.stopPending
      /\ conv'.signature = t.signature /\ conv'.signed = t.signed /\ conv'.hasTextDelta
  BY ONLY <1>1, <1>8 DEF CodexConv
<1>10. Opens(conv', "text")
  BY <1>6, <1>7, <1>9 DEF Opens, Alike
<1>11. ~conv.thinkingOpen /\ ~conv.stopPending /\ (conv.signature # Codex!NoItem => up.announces /\ up.signs)
  BY <1>1, <1>2, <1>6 DEF Within, Opens
<1>12. Within(up', conv')
  BY ONLY <1>5, <1>6, <1>7, <1>9, <1>10, <1>11 DEF Within, Gone, Alike
<1>13. /\ up' \in CodexUp /\ UpTo(up'.count, up'.said) /\ up'.at \in Live /\ conv'.client.heard = up'.said
       /\ up'.own \subseteq up'.said
  BY <1>2, <1>3, <1>5, <1>7, <1>9 DEF Gone
<1>14. QED
  BY <1>10, <1>12, <1>13, CodexGoes DEF CodexInv

\* its end stops the block,
LEMMA CodexEndsPart ==
  ASSUME CodexInv, Codex!EndPart
  PROVE  CodexInv'
<1> DEFINE t == Codex!StopBlock(conv)
<1>1. /\ up.at = "text" /\ conv' = [t EXCEPT !.textOpen = FALSE]
      /\ up' = [up EXCEPT !.at = "message"]
  BY DEF Codex!EndPart, Codex!PartDone
<1>2. /\ Within(up, conv) /\ up \in CodexUp /\ conv.client.heard = up.said /\ conv \in CodexConv
      /\ up.own \subseteq up.said /\ UpTo(up.count, up.said)
  BY <1>1 DEF CodexInv, CodexHolds
<1>3. Turned(up, up', "message") /\ "text" \in Claude!Kinds
  BY <1>1, <1>2, CodexTurns DEF Live, Claude!Kinds
<1>4. Opens(conv, "text") /\ Flow(conv.client, conv.index, "text")
  BY <1>1, <1>2 DEF Within, Opens
<1>5. /\ Alike(conv, t) /\ Flow(t.client, t.index, "none") /\ t.client.heard = conv.client.heard
      /\ t.client.tools = conv.client.tools
  BY <1>2, <1>3, <1>4, CodexStopped
<1> HIDE DEF t
<1>6. t \in CodexConv
  BY <1>5 DEF Alike
<1>7. /\ conv' \in CodexConv /\ conv'.client = t.client /\ conv'.index = t.index /\ conv'.hasToolCall = t.hasToolCall
      /\ ~conv'.textOpen /\ conv'.thinkingOpen = t.thinkingOpen /\ conv'.stopPending = t.stopPending
      /\ conv'.signature = t.signature /\ conv'.signed = t.signed /\ conv'.hasTextDelta = t.hasTextDelta
  BY ONLY <1>1, <1>6 DEF CodexConv
<1>8. Opens(conv', "none")
  BY <1>4, <1>5, <1>7 DEF Opens, Alike
<1>9. /\ ~conv.thinkingOpen /\ ~conv.stopPending /\ (conv.signature # Codex!NoItem => up.announces /\ up.signs)
      /\ up.streams /\ (up.own # {} => conv.hasTextDelta)
  BY <1>1, <1>2, <1>4 DEF Within, Opens
<1>10. Within(up', conv')
  BY ONLY <1>3, <1>5, <1>7, <1>8, <1>9 DEF Within, Turned, Alike
<1>11. /\ up' \in CodexUp /\ UpTo(up'.count, up'.said) /\ up'.at \in Live /\ conv'.client.heard = up'.said
       /\ up'.own \subseteq up'.said
  BY <1>2, <1>3, <1>5, <1>7 DEF Turned, Live
<1>12. QED
  BY <1>8, <1>10, <1>11, CodexGoes DEF CodexInv

\* the end of the message has nothing to add,
LEMMA CodexEndsMessage ==
  ASSUME CodexInv, Codex!EndMessage
  PROVE  CodexInv'
<1>1. /\ up.at = "message" /\ conv' = Codex!MessageDone(conv, up.own)
      /\ up' = [up EXCEPT !.at = "idle"]
  BY DEF Codex!EndMessage
<1>2. /\ Within(up, conv) /\ up \in CodexUp /\ conv.client.heard = up.said /\ conv \in CodexConv
      /\ up.own \subseteq up.said /\ UpTo(up.count, up.said)
  BY <1>1 DEF CodexInv, CodexHolds
<1>3. Turned(up, up', "idle")
  BY <1>1, <1>2, CodexTurns DEF Live
<1>4. conv' = conv
  BY <1>1, <1>2 DEF Within, Codex!MessageDone
<1>5. Opens(conv, "none")
  BY <1>1, <1>2 DEF Within
<1>6. ~conv.thinkingOpen
  BY <1>5 DEF Opens
<1>7. Within(up', conv')
  BY ONLY <1>1, <1>2, <1>3, <1>4, <1>5, <1>6 DEF Within, Turned
<1>8. /\ up' \in CodexUp /\ UpTo(up'.count, up'.said) /\ up'.at \in Live /\ conv'.client.heard = up'.said
      /\ up'.own \subseteq up'.said
  BY <1>2, <1>3, <1>4 DEF Turned, Live
<1>9. QED
  BY <1>4, <1>5, <1>7, <1>8, CodexGoes DEF CodexInv

\* and a message that was never streamed is told as a whole.
LEMMA CodexSaysMessage ==
  ASSUME CodexInv, "messages" \notin Quirks, Codex!SayMessage
  PROVE  CodexInv'
<1> DEFINE F == Codex!Fragment("text")
           t == Codex!MessageDone(conv, F)
<1>1. /\ up.at \in {"idle", "reasoning"} /\ conv' = t /\ ~up.streams /\ up.messages = 0
      /\ up' = [up EXCEPT !.at = "idle", !.count = up.count + 1, !.item = up.item + 1, !.messages = up.messages + 1,
                          !.said = up.said \cup F, !.own = {}]
  BY DEF Codex!SayMessage, Codex!Free
<1>2. /\ Ready(conv) /\ Within(up, conv) /\ up \in CodexUp /\ conv.client.heard = up.said /\ conv \in CodexConv
  BY <1>1, CodexFree
<1>3. F \in SUBSET Said /\ F \cap up.said = {} /\ F # {} /\ UpTo(up.count + 1, up.said \cup F)
  <2>1. "text" \in Claude!Kinds
    BY DEF Claude!Kinds
  <2>2. QED
    BY <2>1, CodexSays
<1> HIDE DEF F
<1>4. /\ up' \in CodexUp /\ up'.at = "idle" /\ up'.said = up.said \cup F /\ up'.own = {} /\ up'.count = up.count + 1
      /\ up'.messages = up.messages + 1 /\ up'.announces = up.announces /\ up'.signs = up.signs
  <2>1. /\ up.count + 1 \in Nat /\ up.item + 1 \in Nat /\ up.messages + 1 \in Nat /\ up.said \cup F \in SUBSET Said
    BY <1>2, <1>3 DEF CodexUp
  <2>2. QED
    BY ONLY <1>1, <1>2, <2>1 DEF CodexUp
<1>5. ~conv.hasTextDelta /\ (conv.signature # Codex!NoItem => up.announces /\ up.signs)
  BY <1>1, <1>2 DEF Within
<1>6. Opens(t, "none") /\ t.client.heard = conv.client.heard \cup F /\ t.signature = conv.signature /\ ~t.stopPending
  BY <1>2, <1>3, <1>5, CodexMessage
<1> HIDE DEF t
<1>7. ~t.thinkingOpen /\ up'.messages # 0
  BY <1>1, <1>4, <1>6 DEF Opens
<1>8. Within(up', conv')
  BY ONLY <1>1, <1>4, <1>5, <1>6, <1>7 DEF Within
<1>9. UpTo(up'.count, up'.said) /\ up'.at \in Live /\ conv'.client.heard = up'.said /\ up'.own \subseteq up'.said
  BY <1>1, <1>2, <1>3, <1>4, <1>6 DEF Live
<1>10. QED
  BY <1>1, <1>4, <1>6, <1>8, <1>9, CodexGoes DEF CodexInv

\* A call starts a block of its own,
LEMMA CodexAddsCall ==
  ASSUME CodexInv, Codex!AddCall
  PROVE  CodexInv'
<1> DEFINE t == Codex!CallAdded(conv)
<1>1. PICK none \in SUBSET Said : none = {}
  OBVIOUS
<1>2. /\ up.at \in {"idle", "reasoning"} /\ conv' = t
      /\ up' = [up EXCEPT !.at = "call", !.count = up.count + 1, !.item = up.item + 1, !.said = up.said \cup none, !.own = none]
  BY <1>1 DEF Codex!AddCall, Codex!Begins, Codex!Free
<1>3. /\ Ready(conv) /\ Within(up, conv) /\ up \in CodexUp /\ conv.client.heard = up.said /\ conv \in CodexConv
  BY <1>2, CodexFree
<1>4. UpTo(up.count + 1, up.said \cup none) /\ up.said \cup none = up.said /\ "call" \in Live
  <2>1. "text" \in Claude!Kinds /\ up.said \cup none = up.said
    BY <1>1 DEF Claude!Kinds
  <2>2. QED
    BY <2>1, CodexSays DEF Live
<1>5. Gone(up, up', "call", up.item + 1, none, none)
  BY <1>2, <1>3, <1>4, CodexMoves
<1>6. /\ Opens(t, "tool") /\ t.client.heard = conv.client.heard /\ t.signature = conv.signature
      /\ t.hasTextDelta = conv.hasTextDelta /\ ~t.hasReceivedArgumentsDelta /\ ~t.stopPending
  BY <1>3, CodexCall
<1> HIDE DEF t
<1>7. /\ (conv.signature # Codex!NoItem => up.announces /\ up.signs) /\ ~t.thinkingOpen
      /\ (~up.streams /\ up.messages = 0 => ~conv.hasTextDelta)
  BY <1>3, <1>6 DEF Within, Opens
<1>8. Within(up', conv')
  BY ONLY <1>1, <1>2, <1>5, <1>6, <1>7 DEF Within, Gone
<1>9. /\ up' \in CodexUp /\ UpTo(up'.count, up'.said) /\ up'.at \in Live /\ conv'.client.heard = up'.said
      /\ up'.own \subseteq up'.said
  BY <1>1, <1>2, <1>3, <1>4, <1>5, <1>6 DEF Gone
<1>10. QED
  BY <1>2, <1>6, <1>8, <1>9, CodexGoes DEF CodexInv

\* a fragment of its arguments is told there,
LEMMA CodexSaysArguments ==
  ASSUME CodexInv, Codex!SayArguments
  PROVE  CodexInv'
<1> DEFINE F == Codex!Fragment("tool")
           t == Codex!Feed(conv, "tool", F)
<1>1. /\ up.at = "call" /\ conv' = [t EXCEPT !.hasReceivedArgumentsDelta = TRUE]
      /\ up' = [up EXCEPT !.at = "call", !.count = up.count + 1, !.said = up.said \cup F, !.own = up.own \cup F]
  BY DEF Codex!SayArguments, Codex!ArgumentsDelta, Codex!Moves
<1>2. /\ Within(up, conv) /\ up \in CodexUp /\ conv.client.heard = up.said /\ conv \in CodexConv
      /\ up.own \subseteq up.said
  BY <1>1 DEF CodexInv, CodexHolds
<1>3. "tool" \in Claude!Kinds /\ "call" \in Live
  BY DEF Claude!Kinds, Live
<1>4. F \in SUBSET Said /\ F \cap up.said = {} /\ F # {} /\ UpTo(up.count + 1, up.said \cup F)
  BY <1>3, CodexSays
<1> HIDE DEF F
<1>5. Gone(up, up', "call", up.item, F, up.own \cup F)
  BY <1>1, <1>2, <1>3, <1>4, CodexMoves
<1>6. Opens(conv, "tool") /\ Flow(conv.client, conv.index, "tool")
  BY <1>1, <1>2 DEF Within, Opens
<1>7. /\ Alike(conv, t) /\ Flow(t.client, t.index, "tool") /\ t.client.heard = conv.client.heard \cup F
      /\ t.client.tools = conv.client.tools
  BY <1>2, <1>3, <1>4, <1>6, CodexFed
<1> HIDE DEF t
<1>8. t \in CodexConv
  BY <1>7 DEF Alike
<1>9. /\ conv' \in CodexConv /\ conv'.client = t.client /\ conv'.index = t.index /\ conv'.hasToolCall = t.hasToolCall
      /\ conv'.textOpen = t.textOpen /\ conv'.thinkingOpen = t.thinkingOpen /\ conv'.stopPending = t.stopPending
      /\ conv'.signature = t.signature /\ conv'.signed = t.signed /\ conv'.hasTextDelta = t.hasTextDelta
      /\ conv'.hasReceivedArgumentsDelta
  BY ONLY <1>1, <1>8 DEF CodexConv
<1>10. Opens(conv', "tool")
  BY <1>6, <1>7, <1>9 DEF Opens, Alike
<1>11. /\ ~conv.thinkingOpen /\ ~conv.stopPending /\ (conv.signature # Codex!NoItem => up.announces /\ up.signs)
       /\ (~up.streams /\ up.messages = 0 => ~conv.hasTextDelta)
  BY <1>1, <1>2, <1>6 DEF Within, Opens
<1>12. up.own \cup F # {}
  BY <1>4
<1>13. Within(up', conv')
  BY ONLY <1>5, <1>7, <1>9, <1>10, <1>11, <1>12 DEF Within, Gone, Alike
<1>14. /\ up' \in CodexUp /\ UpTo(up'.count, up'.said) /\ up'.at \in Live /\ conv'.client.heard = up'.said
       /\ up'.own \subseteq up'.said
  BY <1>2, <1>3, <1>5, <1>7, <1>9 DEF Gone
<1>15. QED
  BY <1>10, <1>13, <1>14, CodexGoes DEF CodexInv

\* their end tells what was not streamed,
LEMMA CodexEndsArguments ==
  ASSUME CodexInv, Codex!EndArguments
  PROVE  CodexInv'
<1> DEFINE G == Codex!Fragment("tool")
           F == IF up.own # {} THEN up.own ELSE G
<1>1. /\ up.at = "call" /\ conv' = Codex!ArgumentsDone(conv, F)
      /\ up' = [up EXCEPT !.at = "called", !.count = up.count + 1, !.said = up.said \cup F, !.own = up.own \cup F]
  BY DEF Codex!EndArguments, Codex!Moves
<1>2. /\ Within(up, conv) /\ up \in CodexUp /\ conv.client.heard = up.said /\ conv \in CodexConv
      /\ up.own \subseteq up.said
  BY <1>1 DEF CodexInv, CodexHolds
<1>3. "tool" \in Claude!Kinds /\ "called" \in Live
  BY DEF Claude!Kinds, Live
<1>4. G \in SUBSET Said /\ G \cap up.said = {} /\ G # {} /\ UpTo(up.count + 1, up.said \cup G) /\ UpTo(up.count + 1, up.said)
  BY <1>3, CodexSays
<1> HIDE DEF G
<1>5. F \in SUBSET Said /\ UpTo(up.count + 1, up.said \cup F) /\ F # {}
  <2>1. CASE up.own = {}
    BY <1>4, <2>1
  <2>2. CASE up.own # {}
    <3>1. up.said \cup up.own = up.said /\ up.own \in SUBSET Said
      BY <1>2 DEF CodexUp
    <3>2. QED
      BY <1>4, <2>2, <3>1
  <2>3. QED
    BY <2>1, <2>2
<1>6. Gone(up, up', "called", up.item, F, up.own \cup F)
  <2> HIDE DEF F
  <2>1. QED
    BY <1>1, <1>2, <1>3, <1>5, CodexMoves
<1>7. /\ Opens(conv, "tool") /\ Flow(conv.client, conv.index, "tool") /\ ~conv.thinkingOpen /\ ~conv.stopPending
      /\ (conv.signature # Codex!NoItem => up.announces /\ up.signs)
      /\ (~up.streams /\ up.messages = 0 => ~conv.hasTextDelta)
      /\ (up.own # {} <=> conv.hasReceivedArgumentsDelta)
  BY <1>1, <1>2 DEF Within, Opens
<1>8. /\ Opens(conv', "tool") /\ conv'.client.heard = up.said \cup F /\ ~conv'.thinkingOpen /\ ~conv'.stopPending
      /\ conv'.signature = conv.signature /\ conv'.hasTextDelta = conv.hasTextDelta
  <2>1. CASE up.own # {}
    <3>1. conv' = conv
      BY <1>1, <1>7, <2>1 DEF Codex!ArgumentsDone
    <3>2. up.said \cup F = up.said
      BY <1>2, <2>1
    <3>3. QED
      BY <1>2, <1>7, <3>1, <3>2
  <2>2. CASE up.own = {}
    <3> DEFINE t == Codex!Feed(conv, "tool", G)
    <3>1. F = G /\ conv' = t
      BY <1>1, <1>4, <1>7, <2>2 DEF Codex!ArgumentsDone
    <3>2. /\ Alike(conv, t) /\ Flow(t.client, t.index, "tool") /\ t.client.heard = conv.client.heard \cup G
          /\ t.client.tools = conv.client.tools
      BY <1>2, <1>3, <1>4, <1>7, CodexFed
    <3> HIDE DEF t
    <3>3. QED
      BY <1>2, <1>7, <3>1, <3>2 DEF Opens, Alike
  <2>3. QED
    BY <2>1, <2>2
<1> HIDE DEF F
<1>9. Within(up', conv')
  BY ONLY <1>6, <1>7, <1>8 DEF Within, Gone
<1>10. /\ up' \in CodexUp /\ UpTo(up'.count, up'.said) /\ up'.at \in Live /\ conv'.client.heard = up'.said
       /\ up'.own \subseteq up'.said
  BY <1>2, <1>3, <1>6, <1>8 DEF Gone
<1>11. QED
  BY <1>8, <1>9, <1>10, CodexGoes DEF CodexInv

\* and the end of the call stops it.
LEMMA CodexEndsCall ==
  ASSUME CodexInv, Codex!EndCall
  PROVE  CodexInv'
<1> DEFINE t == Codex!StopBlock(conv)
<1>1. up.at = "called" /\ conv' = t /\ up' = [up EXCEPT !.at = "idle"]
  BY DEF Codex!EndCall, Codex!CallDone
<1>2. /\ Within(up, conv) /\ up \in CodexUp /\ conv.client.heard = up.said /\ conv \in CodexConv
      /\ up.own \subseteq up.said /\ UpTo(up.count, up.said)
  BY <1>1 DEF CodexInv, CodexHolds
<1>3. Turned(up, up', "idle") /\ "tool" \in Claude!Kinds
  BY <1>1, <1>2, CodexTurns DEF Live, Claude!Kinds
<1>4. Opens(conv, "tool") /\ Flow(conv.client, conv.index, "tool")
  BY <1>1, <1>2 DEF Within, Opens
<1>5. /\ Alike(conv, t) /\ Flow(t.client, t.index, "none") /\ t.client.heard = conv.client.heard
      /\ t.client.tools = conv.client.tools
  BY <1>2, <1>3, <1>4, CodexStopped
<1> HIDE DEF t
<1>6. Opens(t, "none")
  BY <1>4, <1>5 DEF Opens, Alike
<1>7. /\ ~conv.thinkingOpen /\ ~conv.stopPending /\ (conv.signature # Codex!NoItem => up.announces /\ up.signs)
      /\ (~up.streams /\ up.messages = 0 => ~conv.hasTextDelta)
  BY <1>1, <1>2, <1>4 DEF Within, Opens
<1>8. Within(up', conv')
  BY ONLY <1>1, <1>3, <1>5, <1>6, <1>7 DEF Within, Turned, Alike
<1>9. /\ up' \in CodexUp /\ UpTo(up'.count, up'.said) /\ up'.at \in Live /\ conv'.client.heard = up'.said
      /\ up'.own \subseteq up'.said
  BY <1>1, <1>2, <1>3, <1>5 DEF Turned, Live
<1>10. QED
  BY <1>1, <1>6, <1>8, <1>9, CodexGoes DEF CodexInv

\* A completed response ends the message,
LEMMA CodexCompletes ==
  ASSUME CodexInv, NEW reason, Codex!Complete(reason)
  PROVE  CodexInv'
<1> DEFINE t == Codex!Finalize(conv)
           r == Codex!StopReason(t, reason)
           c == Claude!MessageDelta(t.client, r)
           d == Claude!MessageStop(c)
<1>0. up.at \in {"idle", "reasoning"}
  BY DEF Codex!Complete, Codex!Free
<1>1. /\ Ready(conv) /\ Within(up, conv) /\ up \in CodexUp /\ conv.client.heard = up.said /\ conv \in CodexConv
      /\ up.own \subseteq up.said /\ UpTo(up.count, up.said)
  BY <1>0, CodexFree DEF CodexInv, CodexHolds
<1>2. Opens(t, "none") /\ Carries(conv, t) /\ Codex!FinalizePending(conv) = t
  BY <1>1, CodexReady
<1>3. /\ conv' = [t EXCEPT !.client = d] /\ up' = [up EXCEPT !.at = "completed"]
  <2>1. /\ conv' = [t EXCEPT !.client = Codex!MessageStop(Codex!MessageDelta(t.client, r))]
        /\ up' = [up EXCEPT !.at = "completed"]
    BY <1>2 DEF Codex!Complete, Codex!Completed
  <2> HIDE DEF r, t
  <2>2. Codex!MessageDelta(t.client, r) = c
    BY CodexEvents
  <2> HIDE DEF c
  <2>3. Codex!MessageStop(c) = d
    BY CodexEvents
  <2> HIDE DEF d
  <2>4. QED
    BY ONLY <2>1, <2>2, <2>3
<1>4. r \in Claude!Reasons /\ (r = "tool_use" <=> t.hasToolCall)
  BY DEF Codex!StopReason, Claude!Reasons
<1> HIDE DEF r, t
<1>5. /\ t \in CodexConv /\ t.client \in Client(Said) /\ t.client.phase \in {"body", "ending"} /\ t.client.open = {}
      /\ (t.hasToolCall <=> t.client.tools > 0) /\ \A p \in t.signed : p[1] = p[2]
  BY <1>2 DEF Opens, Flow
<1>6. /\ c \in Client(Said) /\ c.phase = "ending" /\ c.open = {} /\ c.tools = t.client.tools /\ c.reason = r
      /\ c.heard = t.client.heard
  BY <1>4, <1>5, ReasonTold
<1> HIDE DEF c
<1>7. c.phase \in {"body", "ending"}
  BY <1>6
<1>8. /\ d \in Client(Said) /\ d.phase = "stopped" /\ d.open = {} /\ d.tools = c.tools /\ d.reason = c.reason
      /\ d.heard = c.heard
  BY <1>6, <1>7, MessageStops
<1> HIDE DEF d
<1>9. conv' \in CodexConv /\ conv'.client = d /\ conv'.signed = t.signed
  BY ONLY <1>3, <1>5, <1>8 DEF CodexConv
<1>10. Turned(up, up', "completed")
  BY <1>1, <1>3, CodexTurns
<1>11. conv'.client.heard = up.said
  BY <1>1, <1>2, <1>6, <1>8, <1>9 DEF Carries
<1>12. conv'.client.phase = "stopped" /\ conv'.client.open = {} /\ (conv'.client.reason = "tool_use" <=> conv'.client.tools > 0)
  BY <1>4, <1>5, <1>6, <1>8, <1>9
<1>13. CodexHolds(up', conv')
  BY <1>1, <1>5, <1>9, <1>10, <1>11, <1>12 DEF CodexHolds, Turned
<1>14. QED
  BY <1>13 DEF CodexInv

\* Where the upstream is in an item, the client's events fit together.
LEMMA CodexFlows ==
  ASSUME CodexInv
  PROVE  conv.client.phase # "broken" /\ \A b, c \in conv.client.open : b = c
<1>1. up.at \in Live => \E kind : Opens(conv, kind)
  <2>1. up.at \in Live => Within(up, conv)
    BY DEF CodexInv, CodexHolds, Live
  <2>2. QED
    BY <2>1 DEF Within, Live
<1>2. \A kind : Opens(conv, kind) => conv.client.phase # "broken" /\ \A b, c \in conv.client.open : b = c
  BY DEF Opens, Flow
<1>3. up.at \in Live \cup {"new", "completed", "cut"}
  BY DEF CodexInv, CodexHolds, CodexUp, Live
<1>4. up.at = "new" => conv.client.phase # "broken" /\ \A b, c \in conv.client.open : b = c
  <2>1. Codex!NewConversion.client = Claude!Fresh
    BY DEF Codex!NewConversion, Codex!Fresh, Claude!Fresh
  <2>2. QED
    BY <2>1, FreshClient DEF CodexInv, CodexHolds
<1>5. QED
  BY <1>1, <1>2, <1>3, <1>4 DEF CodexInv, CodexHolds

\* and one that breaks off tells nothing more:
LEMMA CodexIsCut ==
  ASSUME CodexInv, Codex!Cut
  PROVE  CodexInv'
<1>1. up' = [up EXCEPT !.at = "cut"] /\ conv' = conv
  BY DEF Codex!Cut
<1>2. /\ up \in CodexUp /\ conv.client.heard = up.said /\ conv \in CodexConv
      /\ up.own \subseteq up.said /\ UpTo(up.count, up.said) /\ \A p \in conv.signed : p[1] = p[2]
  BY DEF CodexInv, CodexHolds
<1>3. Turned(up, up', "cut")
  BY <1>1, <1>2, CodexTurns
<1>4. CodexHolds(up', conv')
  BY <1>1, <1>2, <1>3, CodexFlows DEF CodexHolds, Turned
<1>5. QED
  BY <1>4 DEF CodexInv

\* no step of the route disturbs the invariant.
LEMMA CodexStep ==
  ASSUME CodexInv, Quirks = {}, [Codex!Next]_(Codex!vars)
  PROVE  CodexInv'
<1>1. "messages" \notin Quirks
  OBVIOUS
<1>2. Codex!Next => CodexInv'
  BY <1>1, CodexCreates, CodexAddsReasoning, CodexAddsSummary, CodexSaysSummary, CodexEndsSummary, CodexEndsReasoning,
     CodexAddsPart, CodexSaysText, CodexEndsPart, CodexEndsMessage, CodexSaysMessage,
     CodexAddsCall, CodexSaysArguments, CodexEndsArguments, CodexEndsCall, CodexCompletes, CodexIsCut
     DEF Codex!Next
<1>3. UNCHANGED Codex!vars => CodexInv'
  BY DEF Codex!vars, CodexInv
<1>4. QED
  BY <1>2, <1>3

\* It is what the properties say of the route.
LEMMA CodexFollows ==
  ASSUME CodexInv
  PROVE  Codex!Grammatical /\ Codex!ToldAll /\ Codex!Signed
<1>1. Codex!Grammatical
  BY CodexFlows DEF Codex!Grammatical
<1>2. Codex!ToldAll
  BY DEF Codex!ToldAll, CodexInv, CodexHolds
<1>3. Codex!Signed
  BY DEF Codex!Signed, CodexInv, CodexHolds
<1>4. QED
  BY <1>1, <1>2, <1>3

-----------------------------------------------------------------------------
(* OpenAI: several blocks may be open at a time.                           *)

OpenAt(c, i, k) == Claude!Block(i, k) \in c.open

\* OpenAI's instance writes Claude's events as the others do.
LEMMA OpenAIEvents ==
  \A c, i, kind, F, reason, I :
     /\ OpenAI!MessageStart(c) = Claude!MessageStart(c)
     /\ OpenAI!BlockStart(c, i, kind) = Claude!BlockStart(c, i, kind)
     /\ OpenAI!BlockDelta(c, i, kind, F) = Claude!BlockDelta(c, i, kind, F)
     /\ OpenAI!BlockStop(c, i) = Claude!BlockStop(c, i)
     /\ OpenAI!ToolBlocksEnd(c, I, F) = Claude!ToolBlocksEnd(c, I, F)
     /\ OpenAI!MessageDelta(c, reason) = Claude!MessageDelta(c, reason)
     /\ OpenAI!MessageStop(c) = Claude!MessageStop(c)
BY DEF OpenAI!MessageStart, OpenAI!BlockStart, OpenAI!BlockDelta, OpenAI!BlockStop, OpenAI!ToolBlocksEnd, OpenAI!MessageDelta,
       OpenAI!MessageStop, OpenAI!Broken, OpenAI!Block,
       Claude!MessageStart, Claude!BlockStart, Claude!BlockDelta, Claude!BlockStop, Claude!ToolBlocksEnd, Claude!MessageDelta,
       Claude!MessageStop, Claude!Broken, Claude!Block

\* A block more is open;
LEMMA OneMore ==
  ASSUME NEW S, NEW c \in Client(S), NEW i \in Int, NEW kind \in Claude!Kinds, c.phase = "body", i = c.next
  PROVE  LET d == Claude!BlockStart(c, i, kind) IN
         /\ d \in Client(S) /\ d.phase = "body" /\ d.next = i + 1 /\ d.reason = c.reason /\ d.heard = c.heard
         /\ d.tools = IF kind = "tool" THEN c.tools + 1 ELSE c.tools
         /\ \A j \in Int, k \in Claude!Kinds : OpenAt(d, j, k) <=> OpenAt(c, j, k) \/ (j = i /\ k = kind)
<1> DEFINE d == Claude!BlockStart(c, i, kind)
<1>1. /\ d \in Client(S) /\ d.phase = "body" /\ d.open = c.open \cup {Claude!Block(i, kind)} /\ d.next = i + 1
      /\ d.tools = (IF kind = "tool" THEN c.tools + 1 ELSE c.tools) /\ d.reason = c.reason /\ d.heard = c.heard
  BY BlockStarts
<1> HIDE DEF d
<1>2. \A j \in Int, k \in Claude!Kinds : Claude!Block(j, k) = Claude!Block(i, kind) <=> j = i /\ k = kind
  BY DEF Claude!Block
<1>3. \A j \in Int, k \in Claude!Kinds : OpenAt(d, j, k) <=> OpenAt(c, j, k) \/ (j = i /\ k = kind)
  BY <1>1, <1>2 DEF OpenAt
<1>4. QED
  BY <1>1, <1>3 DEF d

\* one less;
LEMMA OneLess ==
  ASSUME NEW S, NEW c \in Client(S), NEW i \in Int, NEW kind \in Claude!Kinds, c.phase = "body", OpenAt(c, i, kind)
  PROVE  LET d == Claude!BlockStop(c, i) IN
         /\ d \in Client(S) /\ d.phase = "body" /\ d.next = c.next /\ d.reason = c.reason /\ d.heard = c.heard
         /\ d.tools = c.tools
         /\ \A j \in Int, k \in Claude!Kinds : OpenAt(d, j, k) <=> OpenAt(c, j, k) /\ j # i
<1> DEFINE d == Claude!BlockStop(c, i)
<1>1. \E b \in c.open : b.at = i
  BY DEF OpenAt, Claude!Block
<1>2. /\ d \in Client(S) /\ d.phase = "body" /\ d.open = {b \in c.open : b.at # i} /\ d.next = c.next
      /\ d.tools = c.tools /\ d.reason = c.reason /\ d.heard = c.heard
  BY <1>1, BlockStops
<1> HIDE DEF d
<1>3. \A j \in Int, k \in Claude!Kinds : Claude!Block(j, k).at = j
  BY DEF Claude!Block
<1>4. \A j \in Int, k \in Claude!Kinds : OpenAt(d, j, k) <=> OpenAt(c, j, k) /\ j # i
  BY <1>2, <1>3 DEF OpenAt
<1>5. QED
  BY <1>2, <1>4 DEF d

\* the tools no more.
LEMMA ToolsEnd ==
  ASSUME NEW c \in Client(Said), NEW I \in SUBSET Int, \A i \in I : OpenAt(c, i, "tool"), c.phase = "body",
         NEW F \in SUBSET Said, I = {} => F = {}
  PROVE  LET d == Claude!ToolBlocksEnd(c, I, F) IN
         /\ d \in Client(Said) /\ d.phase = "body" /\ d.next = c.next /\ d.reason = c.reason
         /\ d.heard = c.heard \cup F /\ d.tools = c.tools
         /\ \A j \in Int, k \in Claude!Kinds : OpenAt(d, j, k) <=> OpenAt(c, j, k) /\ j \notin I
<1> DEFINE d == Claude!ToolBlocksEnd(c, I, F)
<1>1. CASE I = {}
  <2>1. d = c /\ c.heard \cup F = c.heard
    BY <1>1 DEF Claude!ToolBlocksEnd
  <2> HIDE DEF d
  <2>2. QED
    BY <1>1, <2>1 DEF d
<1>2. CASE I # {}
  <2> DEFINE o == {b \in c.open : b.at \notin I}
             h == c.heard \cup F
  <2>1. d = [c EXCEPT !.open = o, !.heard = h]
    BY <1>2 DEF Claude!ToolBlocksEnd, OpenAt
  <2>2. o \in SUBSET [at : Int, kind : Claude!Kinds] /\ h \in SUBSET Said
    BY DEF Client
  <2>3. \A j \in Int, k \in Claude!Kinds : Claude!Block(j, k).at = j
    BY DEF Claude!Block
  <2>4. \A j \in Int, k \in Claude!Kinds : Claude!Block(j, k) \in o <=> OpenAt(c, j, k) /\ j \notin I
    BY <2>3 DEF OpenAt
  <2> HIDE DEF o, h, d
  <2>5. /\ d \in Client(Said) /\ d.phase = c.phase /\ d.next = c.next /\ d.reason = c.reason
        /\ d.heard = h /\ d.tools = c.tools /\ d.open = o
    BY ONLY <2>1, <2>2, c \in Client(Said) DEF Client
  <2>6. QED
    BY <2>4, <2>5 DEF d, h, OpenAt
<1>3. QED
  BY <1>1, <1>2

\* A client with no open block at any index has none.
LEMMA NoneOpen ==
  ASSUME NEW S, NEW c \in Client(S), \A j \in Int, k \in Claude!Kinds : ~OpenAt(c, j, k)
  PROVE  c.open = {}
<1>1. \A b \in c.open : b.at \in Int /\ b.kind \in Claude!Kinds /\ b = Claude!Block(b.at, b.kind)
  BY DEF Client, Claude!Block
<1>2. QED
  BY <1>1 DEF OpenAt

None == OpenAI!None

\* The index that stands for no block is no index of one.
LEMMA NoneIsNone == None \in Int /\ \A n \in Nat : n # None
BY DEF None, OpenAI!None

OpenAIConv == [client : Client(Said), started : BOOLEAN, text : Int, thinking : Int, next : Nat, seen : SUBSET {0, 1},
               block : [{0, 1} -> Int], args : [{0, 1} -> SUBSET Said], finish : OpenAI!Finishes \cup {""},
               blocksStopped : BOOLEAN, deltaSent : BOOLEAN, stopSent : BOOLEAN]

\* One text or thinking block is open at most, and those of the calls so far.
Spoken(s) == /\ s.text \in Nat \cup {None} /\ s.thinking \in Nat \cup {None}
             /\ s.text = None \/ s.thinking = None
             /\ s.text # None => s.text < s.next
             /\ s.thinking # None => s.thinking < s.next
Called(s) == /\ \A j \in {0, 1} : s.block[j] # None <=> j \in s.seen
             /\ \A j \in s.seen : s.block[j] \in Nat /\ s.block[j] < s.next /\ s.block[j] # s.text /\ s.block[j] # s.thinking
             /\ \A j \in {0, 1} : j \notin s.seen => s.args[j] = {}
             /\ s.client.tools > 0 <=> s.seen # {}
Begun(s) == /\ s \in OpenAIConv /\ s.started /\ ~s.blocksStopped /\ ~s.deltaSent /\ ~s.stopSent
            /\ s.client.phase = "body" /\ s.client.reason = "none" /\ s.client.next = s.next
Talks(s) == /\ Begun(s) /\ Spoken(s) /\ Called(s)
            /\ \A i \in Int, k \in Claude!Kinds : OpenAt(s.client, i, k) <=>
                  \/ k = "text" /\ i # None /\ i = s.text
                  \/ k = "thinking" /\ i # None /\ i = s.thinking
                  \/ k = "tool" /\ \E j \in s.seen : i = s.block[j]

\* What the client has been told, or will be when the calls end.
Told(s) == s.client.heard \cup UNION {s.args[j] : j \in s.seen}
\* t is s but for text and thinking.
Kept2(s, t) == t.seen = s.seen /\ t.block = s.block /\ t.args = s.args /\ t.finish = s.finish

\* stopTextContentBlock closes the text and leaves the rest,
LEMMA StopsText ==
  ASSUME NEW s, Talks(s)
  PROVE  LET t == OpenAI!StopText(s) IN
         Talks(t) /\ Kept2(s, t) /\ t.text = None /\ t.thinking = s.thinking /\ t.client.heard = s.client.heard
<1> DEFINE d == Claude!BlockStop(s.client, s.text)
           t == OpenAI!StopText(s)
<1>1. CASE s.text = None
  BY <1>1 DEF OpenAI!StopText, Kept2, None
<1>2. CASE s.text # None
  <2>1. t = [s EXCEPT !.client = d, !.text = None]
    BY <1>2, OpenAIEvents DEF OpenAI!StopText, None
  <2>2. /\ s.client \in Client(Said) /\ s.client.phase = "body" /\ s.text \in Nat /\ s.text \in Int /\ s \in OpenAIConv
        /\ s.thinking = None /\ "text" \in Claude!Kinds
    BY <1>2 DEF Talks, Begun, OpenAIConv, Spoken, Claude!Kinds
  <2>3. OpenAt(s.client, s.text, "text")
    BY <1>2, <2>2 DEF Talks
  <2>4. /\ d \in Client(Said) /\ d.phase = "body" /\ d.next = s.client.next /\ d.reason = s.client.reason
        /\ d.heard = s.client.heard /\ d.tools = s.client.tools
        /\ \A j \in Int, k \in Claude!Kinds : OpenAt(d, j, k) <=> OpenAt(s.client, j, k) /\ j # s.text
    BY <2>2, <2>3, OneLess
  <2> HIDE DEF d, t
  <2>5. /\ t \in OpenAIConv /\ t.client = d /\ t.text = None /\ t.thinking = s.thinking /\ t.started = s.started
        /\ t.finish = s.finish /\ t.blocksStopped = s.blocksStopped /\ t.deltaSent = s.deltaSent /\ t.stopSent = s.stopSent
        /\ t.next = s.next /\ Kept2(s, t)
    BY ONLY <2>1, <2>2, <2>4, NoneIsNone DEF OpenAIConv, Kept2
  <2>6. Begun(t) /\ Spoken(t)
    BY <2>2, <2>4, <2>5 DEF Talks, Begun, Spoken
  <2>7. Called(t)
    <3>1. Called(s) /\ \A j \in s.seen : s.block[j] # None
      BY NoneIsNone DEF Talks, Called
    <3>2. QED
      BY <2>4, <2>5, <3>1 DEF Called, Kept2
  <2>8. \A i \in Int, k \in Claude!Kinds : OpenAt(t.client, i, k) <=>
                  \/ k = "text" /\ i # None /\ i = t.text
                  \/ k = "thinking" /\ i # None /\ i = t.thinking
                  \/ k = "tool" /\ \E j \in t.seen : i = t.block[j]
    <3> TAKE i \in Int, k \in Claude!Kinds
    <3>1. OpenAt(s.client, i, k) <=>
                  \/ k = "text" /\ i # None /\ i = s.text
                  \/ k = "thinking" /\ i # None /\ i = s.thinking
                  \/ k = "tool" /\ \E j \in s.seen : i = s.block[j]
      BY DEF Talks
    <3>2. \A j \in s.seen : s.block[j] # s.text
      BY DEF Talks, Called
    <3>3. QED
      BY <2>2, <2>4, <2>5, <3>1, <3>2 DEF Kept2
  <2>9. QED
    BY <2>4, <2>5, <2>6, <2>7, <2>8 DEF Talks, t
<1>3. QED
  BY <1>1, <1>2

\* and stopThinkingContentBlock the thinking.
LEMMA StopsThinking ==
  ASSUME NEW s, Talks(s)
  PROVE  LET t == OpenAI!StopThinking(s) IN
         Talks(t) /\ Kept2(s, t) /\ t.thinking = None /\ t.text = s.text /\ t.client.heard = s.client.heard
<1> DEFINE d == Claude!BlockStop(s.client, s.thinking)
           t == OpenAI!StopThinking(s)
<1>1. CASE s.thinking = None
  BY <1>1 DEF OpenAI!StopThinking, Kept2, None
<1>2. CASE s.thinking # None
  <2>1. t = [s EXCEPT !.client = d, !.thinking = None]
    BY <1>2, OpenAIEvents DEF OpenAI!StopThinking, None
  <2>2. /\ s.client \in Client(Said) /\ s.client.phase = "body" /\ s.thinking \in Nat /\ s.thinking \in Int /\ s \in OpenAIConv
        /\ s.text = None /\ "thinking" \in Claude!Kinds
    BY <1>2 DEF Talks, Begun, OpenAIConv, Spoken, Claude!Kinds
  <2>3. OpenAt(s.client, s.thinking, "thinking")
    BY <1>2, <2>2 DEF Talks
  <2>4. /\ d \in Client(Said) /\ d.phase = "body" /\ d.next = s.client.next /\ d.reason = s.client.reason
        /\ d.heard = s.client.heard /\ d.tools = s.client.tools
        /\ \A j \in Int, k \in Claude!Kinds : OpenAt(d, j, k) <=> OpenAt(s.client, j, k) /\ j # s.thinking
    BY <2>2, <2>3, OneLess
  <2> HIDE DEF d, t
  <2>5. /\ t \in OpenAIConv /\ t.client = d /\ t.thinking = None /\ t.text = s.text /\ t.started = s.started
        /\ t.finish = s.finish /\ t.blocksStopped = s.blocksStopped /\ t.deltaSent = s.deltaSent /\ t.stopSent = s.stopSent
        /\ t.next = s.next /\ Kept2(s, t)
    BY ONLY <2>1, <2>2, <2>4, NoneIsNone DEF OpenAIConv, Kept2
  <2>6. Begun(t) /\ Spoken(t)
    BY <2>2, <2>4, <2>5 DEF Talks, Begun, Spoken
  <2>7. Called(t)
    <3>1. Called(s) /\ \A j \in s.seen : s.block[j] # None
      BY NoneIsNone DEF Talks, Called
    <3>2. QED
      BY <2>4, <2>5, <3>1 DEF Called, Kept2
  <2>8. \A i \in Int, k \in Claude!Kinds : OpenAt(t.client, i, k) <=>
                  \/ k = "text" /\ i # None /\ i = t.text
                  \/ k = "thinking" /\ i # None /\ i = t.thinking
                  \/ k = "tool" /\ \E j \in t.seen : i = t.block[j]
    <3> TAKE i \in Int, k \in Claude!Kinds
    <3>1. OpenAt(s.client, i, k) <=>
                  \/ k = "text" /\ i # None /\ i = s.text
                  \/ k = "thinking" /\ i # None /\ i = s.thinking
                  \/ k = "tool" /\ \E j \in s.seen : i = s.block[j]
      BY DEF Talks
    <3>2. \A j \in s.seen : s.block[j] # s.thinking
      BY DEF Talks, Called
    <3>3. QED
      BY <2>2, <2>4, <2>5, <3>1, <3>2 DEF Kept2
  <2>9. QED
    BY <2>4, <2>5, <2>6, <2>7, <2>8 DEF Talks, t
<1>3. QED
  BY <1>1, <1>2

\* The fields of the state, for the leaves that need no more than their types.
LEMMA OpenAIFields ==
  ASSUME NEW s \in OpenAIConv
  PROVE  /\ s.client \in Client(Said) /\ s.next \in Nat /\ s.next \in Int /\ s.next + 1 \in Nat /\ s.next # None
         /\ s.text \in Int /\ s.thinking \in Int /\ s.seen \subseteq {0, 1}
<1>1. s.client \in Client(Said) /\ s.next \in Nat /\ s.text \in Int /\ s.thinking \in Int /\ s.seen \subseteq {0, 1}
  BY DEF OpenAIConv
<1>2. QED
  BY <1>1, NoneIsNone

\* A text is opened when no thinking is,
LEMMA OpensText ==
  ASSUME NEW s, Talks(s), s.thinking = None
  PROVE  LET t == OpenAI!OpenText(s) IN
         Talks(t) /\ Kept2(s, t) /\ t.text # None /\ t.client.heard = s.client.heard
<1> DEFINE d == Claude!BlockStart(s.client, s.next, "text")
           t == OpenAI!OpenText(s)
<1>1. CASE s.text # None
  BY <1>1 DEF OpenAI!OpenText, Kept2, None
<1>2. CASE s.text = None
  <2>1. t = [s EXCEPT !.text = s.next, !.next = s.next + 1, !.client = d]
    BY <1>2, OpenAIEvents DEF OpenAI!OpenText, None
  <2>2. /\ s.client \in Client(Said) /\ s.client.phase = "body" /\ s.next \in Nat /\ s.next \in Int /\ s \in OpenAIConv
        /\ s.next + 1 \in Nat /\ s.client.next = s.next /\ "text" \in Claude!Kinds /\ s.next # None
    <3>1. s \in OpenAIConv /\ s.client.phase = "body" /\ s.client.next = s.next
      BY DEF Talks, Begun
    <3>2. QED
      BY <3>1, OpenAIFields DEF Claude!Kinds
  <2>3. /\ d \in Client(Said) /\ d.phase = "body" /\ d.next = s.next + 1 /\ d.reason = s.client.reason
        /\ d.heard = s.client.heard /\ d.tools = s.client.tools
        /\ \A j \in Int, k \in Claude!Kinds : OpenAt(d, j, k) <=> OpenAt(s.client, j, k) \/ (j = s.next /\ k = "text")
    BY <2>2, OneMore
  <2> HIDE DEF d, t
  <2>4. /\ t \in OpenAIConv /\ t.client = d /\ t.text = s.next /\ t.thinking = s.thinking /\ t.started = s.started
        /\ t.finish = s.finish /\ t.blocksStopped = s.blocksStopped /\ t.deltaSent = s.deltaSent /\ t.stopSent = s.stopSent
        /\ t.next = s.next + 1 /\ Kept2(s, t)
    BY ONLY <2>1, <2>2, <2>3 DEF OpenAIConv, Kept2
  <2>5. Begun(t)
    BY <2>2, <2>3, <2>4 DEF Talks, Begun
  <2>6. Spoken(t)
    BY <2>2, <2>4 DEF Spoken
  <2>7. Called(t)
    <3>1. Called(s) /\ \A j \in s.seen : s.block[j] # s.next /\ s.block[j] < s.next + 1
      BY <2>2 DEF Talks, Called
    <3>2. QED
      BY <2>3, <2>4, <3>1 DEF Called, Kept2
  <2>8. \A i \in Int, k \in Claude!Kinds : OpenAt(t.client, i, k) <=>
                  \/ k = "text" /\ i # None /\ i = t.text
                  \/ k = "thinking" /\ i # None /\ i = t.thinking
                  \/ k = "tool" /\ \E j \in t.seen : i = t.block[j]
    <3> TAKE i \in Int, k \in Claude!Kinds
    <3>1. OpenAt(s.client, i, k) <=>
                  \/ k = "text" /\ i # None /\ i = s.text
                  \/ k = "thinking" /\ i # None /\ i = s.thinking
                  \/ k = "tool" /\ \E j \in s.seen : i = s.block[j]
      BY DEF Talks
    <3>2. QED
      BY <1>2, <2>2, <2>3, <2>4, <3>1 DEF Kept2
  <2>9. QED
    BY <2>2, <2>3, <2>4, <2>5, <2>6, <2>7, <2>8 DEF Talks, t
<1>3. QED
  BY <1>1, <1>2

\* a thinking when no text is;
LEMMA OpensThinking ==
  ASSUME NEW s, Talks(s), s.text = None
  PROVE  LET t == OpenAI!OpenThinking(s) IN
         Talks(t) /\ Kept2(s, t) /\ t.thinking # None /\ t.client.heard = s.client.heard
<1> DEFINE d == Claude!BlockStart(s.client, s.next, "thinking")
           t == OpenAI!OpenThinking(s)
<1>1. CASE s.thinking # None
  BY <1>1 DEF OpenAI!OpenThinking, Kept2, None
<1>2. CASE s.thinking = None
  <2>1. t = [s EXCEPT !.thinking = s.next, !.next = s.next + 1, !.client = d]
    BY <1>2, OpenAIEvents DEF OpenAI!OpenThinking, None
  <2>2. /\ s.client \in Client(Said) /\ s.client.phase = "body" /\ s.next \in Nat /\ s.next \in Int /\ s \in OpenAIConv
        /\ s.next + 1 \in Nat /\ s.client.next = s.next /\ "thinking" \in Claude!Kinds /\ s.next # None
    <3>1. s \in OpenAIConv /\ s.client.phase = "body" /\ s.client.next = s.next
      BY DEF Talks, Begun
    <3>2. QED
      BY <3>1, OpenAIFields DEF Claude!Kinds
  <2>3. /\ d \in Client(Said) /\ d.phase = "body" /\ d.next = s.next + 1 /\ d.reason = s.client.reason
        /\ d.heard = s.client.heard /\ d.tools = s.client.tools
        /\ \A j \in Int, k \in Claude!Kinds : OpenAt(d, j, k) <=> OpenAt(s.client, j, k) \/ (j = s.next /\ k = "thinking")
    BY <2>2, OneMore
  <2> HIDE DEF d, t
  <2>4. /\ t \in OpenAIConv /\ t.client = d /\ t.thinking = s.next /\ t.text = s.text /\ t.started = s.started
        /\ t.finish = s.finish /\ t.blocksStopped = s.blocksStopped /\ t.deltaSent = s.deltaSent /\ t.stopSent = s.stopSent
        /\ t.next = s.next + 1 /\ Kept2(s, t)
    BY ONLY <2>1, <2>2, <2>3 DEF OpenAIConv, Kept2
  <2>5. Begun(t)
    BY <2>2, <2>3, <2>4 DEF Talks, Begun
  <2>6. Spoken(t)
    BY <2>2, <2>4 DEF Spoken
  <2>7. Called(t)
    <3>1. Called(s) /\ \A j \in s.seen : s.block[j] # s.next /\ s.block[j] < s.next + 1
      BY <2>2 DEF Talks, Called
    <3>2. QED
      BY <2>3, <2>4, <3>1 DEF Called, Kept2
  <2>8. \A i \in Int, k \in Claude!Kinds : OpenAt(t.client, i, k) <=>
                  \/ k = "text" /\ i # None /\ i = t.text
                  \/ k = "thinking" /\ i # None /\ i = t.thinking
                  \/ k = "tool" /\ \E j \in t.seen : i = t.block[j]
    <3> TAKE i \in Int, k \in Claude!Kinds
    <3>1. OpenAt(s.client, i, k) <=>
                  \/ k = "text" /\ i # None /\ i = s.text
                  \/ k = "thinking" /\ i # None /\ i = s.thinking
                  \/ k = "tool" /\ \E j \in s.seen : i = s.block[j]
      BY DEF Talks
    <3>2. QED
      BY <1>2, <2>2, <2>3, <2>4, <3>1 DEF Kept2
  <2>9. QED
    BY <2>2, <2>3, <2>4, <2>5, <2>6, <2>7, <2>8 DEF Talks, t
<1>3. QED
  BY <1>1, <1>2

\* The fragments are told in a block that is open.
LEMMA TalkIsFed ==
  ASSUME NEW s, Talks(s), NEW kind \in Claude!Kinds, NEW i \in Int, OpenAt(s.client, i, kind),
         NEW F \in SUBSET Said, F \cap s.client.heard = {}
  PROVE  LET t == [s EXCEPT !.client = Claude!BlockDelta(s.client, i, kind, F)] IN
         Talks(t) /\ Kept2(s, t) /\ Told(t) = Told(s) \cup F /\ t.client.heard = s.client.heard \cup F
<1> DEFINE d == Claude!BlockDelta(s.client, i, kind, F)
           t == [s EXCEPT !.client = d]
<1>1. s.client \in Client(Said) /\ s.client.phase = "body" /\ Claude!Block(i, kind) \in s.client.open /\ s \in OpenAIConv
  BY DEF Talks, Begun, OpenAIConv, OpenAt
<1>2. /\ d \in Client(Said) /\ d.phase = "body" /\ d.open = s.client.open /\ d.next = s.client.next
      /\ d.tools = s.client.tools /\ d.reason = s.client.reason /\ d.heard = s.client.heard \cup F
  BY <1>1, BlockFed
<1> HIDE DEF d
<1>3. /\ t \in OpenAIConv /\ t.client = d /\ t.text = s.text /\ t.thinking = s.thinking /\ t.started = s.started
      /\ t.finish = s.finish /\ t.blocksStopped = s.blocksStopped /\ t.deltaSent = s.deltaSent /\ t.stopSent = s.stopSent
      /\ t.next = s.next /\ Kept2(s, t)
  BY ONLY <1>1, <1>2 DEF OpenAIConv, Kept2
<1> HIDE DEF t
<1>4. Begun(t) /\ Spoken(t) /\ Called(t)
  <2>1. Begun(s) /\ Spoken(s) /\ Called(s)
    BY DEF Talks
  <2>2. Begun(t) /\ Spoken(t)
    BY ONLY <1>2, <1>3, <2>1 DEF Begun, Spoken
  <2>3. Called(t)
    BY ONLY <1>2, <1>3, <2>1 DEF Called, Kept2
  <2>4. QED
    BY <2>2, <2>3
<1>5. \A j \in Int, k \in Claude!Kinds : OpenAt(t.client, j, k) <=> OpenAt(s.client, j, k)
  BY <1>2, <1>3 DEF OpenAt
<1>6. Talks(t)
  BY <1>3, <1>4, <1>5 DEF Talks, Kept2
<1>7. Told(t) = Told(s) \cup F /\ t.client.heard = s.client.heard \cup F
  BY <1>2, <1>3 DEF Told, Kept2
<1>8. QED
  BY <1>3, <1>6, <1>7 DEF t, d

\* what is thought is told in the one, the text being closed first,
LEMMA ThinksWell ==
  ASSUME NEW s, Talks(s), NEW F \in SUBSET Said, F \cap s.client.heard = {}
  PROVE  LET t == OpenAI!Thinks(s, F) IN
         Talks(t) /\ Kept2(s, t) /\ Told(t) = Told(s) \cup F /\ t.client.heard = s.client.heard \cup F
<1> DEFINE u == OpenAI!StopText(s)
           v == OpenAI!OpenThinking(u)
           t == OpenAI!Thinks(s, F)
<1>1. Talks(u) /\ Kept2(s, u) /\ u.text = None /\ u.client.heard = s.client.heard
  BY StopsText
<1> HIDE DEF u
<1>2. Talks(v) /\ Kept2(s, v) /\ v.thinking # None /\ v.client.heard = s.client.heard
  BY <1>1, OpensThinking DEF Kept2
<1>3. t = [v EXCEPT !.client = Claude!BlockDelta(v.client, v.thinking, "thinking", F)]
  BY OpenAIEvents DEF OpenAI!Thinks, u, None
<1> HIDE DEF v, t
<1>4. v.thinking \in Int /\ OpenAt(v.client, v.thinking, "thinking") /\ "thinking" \in Claude!Kinds
  BY <1>2 DEF Talks, Begun, OpenAIConv, Claude!Kinds
<1>5. PICK i \in Int : i = v.thinking
  BY <1>4
<1>6. Talks(v) /\ OpenAt(v.client, i, "thinking") /\ F \cap v.client.heard = {} /\ "thinking" \in Claude!Kinds
      /\ t = [v EXCEPT !.client = Claude!BlockDelta(v.client, i, "thinking", F)]
  BY <1>2, <1>3, <1>4, <1>5
<1>7. Talks(t) /\ Kept2(v, t) /\ Told(t) = Told(v) \cup F /\ t.client.heard = v.client.heard \cup F
  BY ONLY <1>6, TalkIsFed, F \in SUBSET Said
<1>8. QED
  BY <1>2, <1>7 DEF Kept2, Told, t

\* and what is said in the other.
LEMMA SpeaksWell ==
  ASSUME NEW s, Talks(s), NEW F \in SUBSET Said, F \cap s.client.heard = {}
  PROVE  LET t == OpenAI!Speaks(s, F) IN
         Talks(t) /\ Kept2(s, t) /\ Told(t) = Told(s) \cup F /\ t.client.heard = s.client.heard \cup F
<1> DEFINE u == OpenAI!StopThinking(s)
           v == IF s.text = None THEN OpenAI!OpenText(u) ELSE s
           t == OpenAI!Speaks(s, F)
<1>1. Talks(u) /\ Kept2(s, u) /\ u.thinking = None /\ u.client.heard = s.client.heard
  BY StopsThinking
<1> HIDE DEF u
<1>2. Talks(v) /\ Kept2(s, v) /\ v.text # None /\ v.client.heard = s.client.heard
  <2>1. CASE s.text = None
    BY <1>1, <2>1, OpensText DEF Kept2
  <2>2. CASE s.text # None
    BY <2>2 DEF Kept2
  <2>3. QED
    BY <2>1, <2>2
<1>3. t = [v EXCEPT !.client = Claude!BlockDelta(v.client, v.text, "text", F)]
  BY OpenAIEvents DEF OpenAI!Speaks, u, None
<1> HIDE DEF v, t
<1>4. v.text \in Int /\ OpenAt(v.client, v.text, "text") /\ "text" \in Claude!Kinds
  BY <1>2 DEF Talks, Begun, OpenAIConv, Claude!Kinds
<1>5. PICK i \in Int : i = v.text
  BY <1>4
<1>6. Talks(v) /\ OpenAt(v.client, i, "text") /\ F \cap v.client.heard = {} /\ "text" \in Claude!Kinds
      /\ t = [v EXCEPT !.client = Claude!BlockDelta(v.client, i, "text", F)]
  BY <1>2, <1>3, <1>4, <1>5
<1>7. Talks(t) /\ Kept2(v, t) /\ Told(t) = Told(v) \cup F /\ t.client.heard = v.client.heard \cup F
  BY ONLY <1>6, TalkIsFed, F \in SUBSET Said
<1>8. QED
  BY <1>2, <1>7 DEF Kept2, Told, t

\* A call is begun with its name, or goes on.
LEMMA CallsWell ==
  ASSUME NEW s, Talks(s), NEW i \in {0, 1}, NEW named \in BOOLEAN, named <=> i \notin s.seen,
         NEW F \in SUBSET Said
  PROVE  LET t == OpenAI!CallRead(s, i, named, F) IN
         Talks(t) /\ t.seen = s.seen \cup {i} /\ Told(t) = Told(s) \cup F /\ t.client.heard = s.client.heard /\ t.finish = s.finish
<1> DEFINE a == [s.args EXCEPT ![i] = s.args[i] \cup F]
           t == OpenAI!CallRead(s, i, named, F)
<1>1. /\ s \in OpenAIConv /\ s.args \in [{0, 1} -> SUBSET Said] /\ s.block \in [{0, 1} -> Int] /\ s.seen \cup {i} \in SUBSET {0, 1}
  BY DEF Talks, Begun, OpenAIConv
<1>2. /\ a \in [{0, 1} -> SUBSET Said] /\ a[i] = s.args[i] \cup F /\ \A j \in {0, 1} : j # i => a[j] = s.args[j]
  <2>1. s.args[i] \cup F \in SUBSET Said
    BY <1>1
  <2>2. QED
    BY <1>1, <2>1
<1>3. UNION {a[j] : j \in s.seen \cup {i}} = (UNION {s.args[j] : j \in s.seen}) \cup F
  <2>1. \A j \in {0, 1} : j \notin s.seen => s.args[j] = {}
    BY DEF Talks, Called
  <2>2. \A x : (\E j \in s.seen \cup {i} : x \in a[j]) <=> (\E j \in s.seen : x \in s.args[j]) \/ x \in F
    <3> TAKE x
    <3>1. i \in s.seen \/ x \notin s.args[i]
      BY <2>1
    <3>2. \A j \in s.seen \cup {i} : j \in {0, 1}
      BY <1>1
    <3>3. x \in a[i] <=> x \in s.args[i] \/ x \in F
      BY <1>2
    <3>4. \A j \in s.seen \cup {i} : j # i => (x \in a[j] <=> x \in s.args[j])
      BY <1>2, <3>2
    <3> HIDE DEF a
    <3>5. QED
      BY <3>1, <3>3, <3>4
  <2> HIDE DEF a
  <2>3. QED
    BY <2>2
<1> HIDE DEF a
<1>4. CASE i \in s.seen
  <2>1. s.block[i] # None /\ s.seen \cup {i} = s.seen /\ ~named
    BY <1>4 DEF Talks, Called
  <2>2. t = [s EXCEPT !.seen = s.seen, !.args = a]
    BY <2>1 DEF OpenAI!CallRead, OpenAI!Indexed, None, a
  <2> HIDE DEF t
  <2>3. /\ t \in OpenAIConv /\ t.client = s.client /\ t.text = s.text /\ t.thinking = s.thinking /\ t.started = s.started
        /\ t.finish = s.finish /\ t.blocksStopped = s.blocksStopped /\ t.deltaSent = s.deltaSent /\ t.stopSent = s.stopSent
        /\ t.next = s.next /\ t.seen = s.seen /\ t.block = s.block /\ t.args = a
    BY ONLY <1>1, <1>2, <2>2 DEF OpenAIConv
  <2>4. Begun(s) /\ Spoken(s) /\ Called(s)
    BY DEF Talks
  <2>5. Begun(t) /\ Spoken(t)
    BY ONLY <2>3, <2>4 DEF Begun, Spoken
  <2>6. Called(t)
    BY ONLY <1>2, <1>4, <2>3, <2>4 DEF Called
  <2>7. Talks(t)
    BY <2>3, <2>5, <2>6 DEF Talks
  <2>8. Told(t) = Told(s) \cup F
    BY <1>3, <2>1, <2>3 DEF Told
  <2>9. QED
    BY <2>1, <2>3, <2>7, <2>8 DEF t
<1>5. CASE i \notin s.seen
  <2> DEFINE b == [s.block EXCEPT ![i] = s.next]
             r == [s EXCEPT !.block = b, !.next = s.next + 1, !.seen = s.seen \cup {i}, !.args = a]
             u == OpenAI!StopThinking(s)
             v == OpenAI!StopText(u)
             d == Claude!BlockStart(v.client, s.next, "tool")
  <2>1. s.block[i] = None /\ named
    BY <1>5 DEF Talks, Called
  \* The text and the thinking stop as they would have before the call.
  <2>2. /\ Talks(v) /\ Kept2(s, v) /\ v.text = None /\ v.thinking = None /\ v.client.heard = s.client.heard
    <3>1. Talks(u) /\ Kept2(s, u) /\ u.thinking = None /\ u.client.heard = s.client.heard
      BY StopsThinking
    <3> HIDE DEF u
    <3>2. Talks(v) /\ Kept2(u, v) /\ v.text = None /\ v.thinking = u.thinking /\ v.client.heard = u.client.heard
      BY <3>1, StopsText
    <3>3. QED
      BY <3>1, <3>2 DEF Kept2
  <2>3. v.next = s.next
    <3>1. u.next = s.next
      <4>1. s \in OpenAIConv
        BY <1>1
      <4>2. QED
        BY <4>1 DEF OpenAI!StopThinking, OpenAIConv
    <3>2. Talks(u)
      BY StopsThinking
    <3> HIDE DEF u
    <3>3. v.next = u.next
      BY <3>2 DEF OpenAI!StopText, Talks, Begun, OpenAIConv
    <3>4. QED
      BY <3>1, <3>3
  <2>4. t = [v EXCEPT !.client = d, !.block = b, !.next = s.next + 1, !.seen = s.seen \cup {i}, !.args = a]
    <3>1. t = OpenAI!OpenCall(r, i)
      BY <2>1 DEF OpenAI!CallRead, OpenAI!Indexed, None, a
    <3>2. r.client = s.client /\ r.text = s.text /\ r.thinking = s.thinking
      BY <1>1 DEF OpenAIConv
    <3> DEFINE w == OpenAI!StopThinking(r)
               x == OpenAI!StopText(w)
    <3>3. w = [u EXCEPT !.block = b, !.next = s.next + 1, !.seen = s.seen \cup {i}, !.args = a]
      <4> HIDE DEF b, a
      <4>1. CASE s.thinking = OpenAI!None
        BY <3>2, <4>1 DEF OpenAI!StopThinking
      <4>2. CASE s.thinking # OpenAI!None
        <5>1. w = [r EXCEPT !.client = OpenAI!BlockStop(r.client, r.thinking), !.thinking = OpenAI!None]
          BY <3>2, <4>2 DEF OpenAI!StopThinking
        <5>2. u = [s EXCEPT !.client = OpenAI!BlockStop(s.client, s.thinking), !.thinking = OpenAI!None]
          BY <4>2 DEF OpenAI!StopThinking
        <5> DEFINE e == OpenAI!BlockStop(s.client, s.thinking)
        <5>3. w = [r EXCEPT !.client = e, !.thinking = OpenAI!None] /\ u = [s EXCEPT !.client = e, !.thinking = OpenAI!None]
          BY <3>2, <5>1, <5>2
        <5> HIDE DEF e, w, u
        <5>4. QED
          BY <1>1, <5>3 DEF OpenAIConv
      <4>3. QED
        BY <4>1, <4>2
    <3>4. u \in OpenAIConv
      BY StopsThinking DEF Talks, Begun
    <3> HIDE DEF w, u, r
    <3>5. w.client = u.client /\ w.text = u.text
      BY <3>3, <3>4 DEF OpenAIConv
    <3>6. x = [v EXCEPT !.block = b, !.next = s.next + 1, !.seen = s.seen \cup {i}, !.args = a]
      <4> HIDE DEF b, a
      <4>1. CASE u.text = OpenAI!None
        BY <3>3, <3>5, <4>1 DEF OpenAI!StopText
      <4>2. CASE u.text # OpenAI!None
        <5>1. x = [w EXCEPT !.client = OpenAI!BlockStop(w.client, w.text), !.text = OpenAI!None]
          BY <3>5, <4>2 DEF OpenAI!StopText
        <5>2. v = [u EXCEPT !.client = OpenAI!BlockStop(u.client, u.text), !.text = OpenAI!None]
          BY <4>2 DEF OpenAI!StopText
        <5> DEFINE e == OpenAI!BlockStop(u.client, u.text)
        <5>3. x = [w EXCEPT !.client = e, !.text = OpenAI!None] /\ v = [u EXCEPT !.client = e, !.text = OpenAI!None]
          BY <3>5, <5>1, <5>2
        <5> HIDE DEF e, x, v
        <5>4. QED
          BY <3>3, <3>4, <5>3 DEF OpenAIConv
      <4>3. QED
        BY <4>1, <4>2
    <3>7. v \in OpenAIConv /\ b[i] = s.next
      BY <1>1, <2>2 DEF Talks, Begun
    <3>8. t = [x EXCEPT !.client = OpenAI!BlockStart(x.client, x.block[i], "tool")]
      BY <3>1 DEF OpenAI!OpenCall, x, w
    <3> HIDE DEF x, v
    <3>9. x.client = v.client /\ x.block[i] = s.next
      <4> HIDE DEF b
      <4>1. x.client = v.client /\ x.block = b
        BY <3>6, <3>7 DEF OpenAIConv
      <4>2. QED
        BY <3>7, <4>1
    <3>10. OpenAI!BlockStart(x.client, x.block[i], "tool") = d
      BY <3>9, OpenAIEvents
    <3> HIDE DEF d, b
    <3>11. QED
      BY <3>6, <3>7, <3>8, <3>10 DEF OpenAIConv
  <2>5. /\ v \in OpenAIConv /\ v.client \in Client(Said) /\ v.client.phase = "body" /\ s.next \in Int /\ s.next = v.client.next
        /\ "tool" \in Claude!Kinds /\ s.next \in Nat /\ s.next + 1 \in Nat /\ s.next # None
    <3>1. Begun(v)
      BY <2>2 DEF Talks
    <3> HIDE DEF v
    <3>2. QED
      BY <1>1, <2>3, <3>1, OpenAIFields DEF Begun, Claude!Kinds
  <2> HIDE DEF u, v, r
  <2>6. /\ d \in Client(Said) /\ d.phase = "body" /\ d.next = s.next + 1 /\ d.reason = v.client.reason
        /\ d.heard = v.client.heard /\ d.tools = v.client.tools + 1
        /\ \A j \in Int, k \in Claude!Kinds : OpenAt(d, j, k) <=> OpenAt(v.client, j, k) \/ (j = s.next /\ k = "tool")
    BY <2>5, OneMore
  <2>7. b \in [{0, 1} -> Int] /\ b[i] = s.next /\ \A j \in {0, 1} : j # i => b[j] = s.block[j]
    BY <1>1, <2>5
  <2> HIDE DEF b, d, t
  <2>8. /\ t \in OpenAIConv /\ t.client = d /\ t.text = v.text /\ t.thinking = v.thinking /\ t.started = v.started
        /\ t.finish = v.finish /\ t.blocksStopped = v.blocksStopped /\ t.deltaSent = v.deltaSent /\ t.stopSent = v.stopSent
        /\ t.next = s.next + 1 /\ t.seen = s.seen \cup {i} /\ t.block = b /\ t.args = a
    BY ONLY <1>1, <1>2, <2>4, <2>5, <2>6, <2>7 DEF OpenAIConv
  <2>9. Begun(v) /\ Spoken(v) /\ Called(v)
    BY <2>2 DEF Talks
  <2>10. Begun(t) /\ Spoken(t)
    BY ONLY <2>2, <2>6, <2>8, <2>9 DEF Begun, Spoken
  <2>11. v.client.tools \in Nat /\ t.client.tools > 0
    BY <2>5, <2>6, <2>8 DEF Client
  <2>12. /\ \A j \in {0, 1} : s.block[j] # None <=> j \in s.seen
         /\ \A j \in s.seen : s.block[j] \in Nat /\ s.block[j] < s.next
    BY <2>2, <2>3, <2>9 DEF Called, Kept2
  <2>13. Called(t)
    <3>1. \A j \in {0, 1} : t.block[j] # None <=> j \in t.seen
      BY <2>5, <2>7, <2>8, <2>12
    <3>2. \A j \in t.seen : t.block[j] \in Nat /\ t.block[j] < t.next
      BY <1>1, <2>5, <2>7, <2>8, <2>12
    <3>3. \A j \in t.seen : t.block[j] # t.text /\ t.block[j] # t.thinking
      BY <2>2, <2>8, <3>2, NoneIsNone
    <3>4. \A j \in {0, 1} : j \notin t.seen => t.args[j] = {}
      <4>1. \A j \in {0, 1} : j \notin s.seen => s.args[j] = {}
        BY DEF Talks, Called
      <4>2. QED
        BY <1>2, <2>8, <4>1
    <3>5. QED
      BY <2>8, <2>11, <3>1, <3>2, <3>3, <3>4 DEF Called
  <2>14. \A j \in Int, k \in Claude!Kinds : OpenAt(t.client, j, k) <=>
                  \/ k = "text" /\ j # None /\ j = t.text
                  \/ k = "thinking" /\ j # None /\ j = t.thinking
                  \/ k = "tool" /\ \E m \in t.seen : j = t.block[m]
    <3> TAKE j \in Int, k \in Claude!Kinds
    <3>1. OpenAt(v.client, j, k) <=> k = "tool" /\ \E m \in s.seen : j = s.block[m]
      BY <2>2 DEF Talks, Kept2
    <3>2. (\E m \in t.seen : j = t.block[m]) <=> (\E m \in s.seen : j = s.block[m]) \/ j = s.next
      <4>1. \A m \in s.seen : m \in {0, 1} /\ m # i
        BY <1>1, <1>5
      <4>2. QED
        BY <2>7, <2>8, <4>1
    <3>3. QED
      BY <2>2, <2>6, <2>8, <3>1, <3>2
  <2>15. Talks(t)
    BY <2>10, <2>13, <2>14 DEF Talks
  <2>16. Told(t) = Told(s) \cup F /\ t.client.heard = s.client.heard
    BY <1>3, <2>2, <2>6, <2>8 DEF Told
  <2>17. t.finish = s.finish
    BY <2>2, <2>8 DEF Kept2
  <2>18. QED
    BY <2>8, <2>15, <2>16, <2>17 DEF t
<1>6. QED
  BY <1>4, <1>5

\* All blocks are stopped, the message is not over;
Closed(s) == /\ s \in OpenAIConv /\ s.started /\ s.text = None /\ s.thinking = None /\ s.blocksStopped
             /\ s.client.open = {} /\ (s.client.tools > 0 <=> s.seen # {})
Unended(s) == ~s.deltaSent /\ ~s.stopSent /\ s.client.phase = "body" /\ s.client.reason = "none"
\* and it is, with the reason if it was said.
Ended(s) == /\ s.stopSent /\ s.client.phase = "stopped"
            /\ s.finish = "" => s.client.reason = "none"
            /\ s.finish # "" => s.deltaSent /\ s.client.reason = OpenAI!StopReason(s)
Kept3(s, t) == t.seen = s.seen /\ t.finish = s.finish /\ t.client.heard = s.client.heard

\* The calls end: their arguments are told.
LEMMA CallsStop ==
  ASSUME NEW s, Talks(s), s.text = None, s.thinking = None
  PROVE  LET t == OpenAI!StopCalls(s) IN
         Closed(t) /\ Unended(t) /\ t.client.heard = Told(s) /\ t.seen = s.seen /\ t.finish = s.finish
<1> DEFINE I == {s.block[i] : i \in s.seen}
           F == UNION {s.args[i] : i \in s.seen}
           b == [i \in {0, 1} |-> None]
           d == Claude!ToolBlocksEnd(s.client, I, F)
           t == OpenAI!StopCalls(s)
<1>1. s \in OpenAIConv /\ ~s.blocksStopped /\ s.client.phase = "body"
  BY DEF Talks, Begun
<1>2. /\ s.client \in Client(Said) /\ s.seen \subseteq {0, 1} /\ s.args \in [{0, 1} -> SUBSET Said]
      /\ s.block \in [{0, 1} -> Int]
  BY <1>1 DEF OpenAIConv
<1>3. t = [s EXCEPT !.client = d, !.block = b, !.blocksStopped = TRUE]
  <2>1. OpenAI!ToolBlocksEnd(s.client, I, F) = d
    BY OpenAIEvents
  <2>2. t = [s EXCEPT !.client = OpenAI!ToolBlocksEnd(s.client, I, F), !.block = b, !.blocksStopped = TRUE]
    BY <1>1 DEF OpenAI!StopCalls, None
  <2> HIDE DEF d, t, b, I, F
  <2>3. QED
    BY <2>1, <2>2
<1>4. I \in SUBSET Int /\ F \in SUBSET Said /\ (I = {} => F = {})
  BY <1>2
<1>5. \A i \in I : OpenAt(s.client, i, "tool")
  <2>1. "tool" \in Claude!Kinds /\ \A i \in I : i \in Int /\ \E j \in s.seen : i = s.block[j]
    BY <1>4 DEF Claude!Kinds
  <2> HIDE DEF I
  <2>2. QED
    BY <2>1 DEF Talks
<1>6. b \in [{0, 1} -> Int]
  BY NoneIsNone
<1>7. Told(s) = s.client.heard \cup F
  BY DEF Told
<1>8. \A i \in Int, k \in Claude!Kinds : OpenAt(s.client, i, k) => i \in I
  <2> TAKE i \in Int, k \in Claude!Kinds
  <2>1. OpenAt(s.client, i, k) <=>
                  \/ k = "text" /\ i # None /\ i = s.text
                  \/ k = "thinking" /\ i # None /\ i = s.thinking
                  \/ k = "tool" /\ \E j \in s.seen : i = s.block[j]
    BY DEF Talks
  <2>2. QED
    BY <2>1
<1> HIDE DEF I, F, b
<1>9. /\ d \in Client(Said) /\ d.phase = "body" /\ d.next = s.client.next /\ d.reason = s.client.reason
      /\ d.heard = s.client.heard \cup F /\ d.tools = s.client.tools
      /\ \A j \in Int, k \in Claude!Kinds : OpenAt(d, j, k) <=> OpenAt(s.client, j, k) /\ j \notin I
  BY <1>1, <1>2, <1>4, <1>5, ToolsEnd
<1> HIDE DEF d
<1>10. d.open = {}
  BY <1>8, <1>9, NoneOpen
<1> HIDE DEF t
<1>11. /\ t \in OpenAIConv /\ t.client = d /\ t.text = s.text /\ t.thinking = s.thinking /\ t.started = s.started
       /\ t.finish = s.finish /\ t.blocksStopped /\ t.deltaSent = s.deltaSent /\ t.stopSent = s.stopSent
       /\ t.seen = s.seen
  BY ONLY <1>1, <1>3, <1>6, <1>9 DEF OpenAIConv
<1>12. Begun(s) /\ (s.client.tools > 0 <=> s.seen # {})
  BY DEF Talks, Called
<1>13. Closed(t)
  BY ONLY <1>9, <1>10, <1>11, <1>12, s.text = None, s.thinking = None DEF Closed, Begun
<1>14. Unended(t)
  BY ONLY <1>9, <1>11, <1>12 DEF Unended, Begun
<1>15. QED
  BY <1>7, <1>9, <1>11, <1>13, <1>14 DEF t

\* All ends:
LEMMA AllStops ==
  ASSUME NEW s, Talks(s)
  PROVE  LET t == OpenAI!StopAll(s) IN
         Closed(t) /\ Unended(t) /\ t.client.heard = Told(s) /\ t.seen = s.seen /\ t.finish = s.finish
<1> DEFINE u == OpenAI!StopThinking(s)
           v == OpenAI!StopText(u)
           t == OpenAI!StopAll(s)
<1>1. Talks(u) /\ Kept2(s, u) /\ u.thinking = None /\ u.client.heard = s.client.heard
  BY StopsThinking
<1>2. t = OpenAI!StopCalls(v)
  BY DEF OpenAI!StopAll
<1> HIDE DEF u, t
<1>3. Talks(v) /\ Kept2(u, v) /\ v.text = None /\ v.thinking = u.thinking /\ v.client.heard = u.client.heard
  BY <1>1, StopsText
<1> HIDE DEF v
<1>4. Closed(t) /\ Unended(t) /\ t.client.heard = Told(v) /\ t.seen = v.seen /\ t.finish = v.finish
  BY <1>1, <1>2, <1>3, CallsStop
<1>5. QED
  BY <1>1, <1>3, <1>4 DEF Kept2, Told, t

\* once.
LEMMA AllStopsOnce ==
  ASSUME NEW s, Closed(s)
  PROVE  OpenAI!StopAll(s) = s
BY DEF Closed, None, OpenAI!StopAll, OpenAI!StopThinking, OpenAI!StopText, OpenAI!StopCalls

\* The reason is one of those there are.
LEMMA OpenAIReason ==
  ASSUME NEW s
  PROVE  OpenAI!StopReason(s) \in Claude!Reasons
BY DEF OpenAI!StopReason, Claude!Reasons

\* The message stops,
LEMMA OpenAIStops ==
  ASSUME NEW s, Closed(s), ~s.stopSent, s.client.phase \in {"body", "ending"},
         s.finish = "" => s.client.reason = "none",
         s.finish # "" => s.deltaSent /\ s.client.reason = OpenAI!StopReason(s)
  PROVE  LET t == OpenAI!StopMessage(s) IN Closed(t) /\ Ended(t) /\ Kept3(s, t)
<1> DEFINE d == Claude!MessageStop(s.client)
           t == OpenAI!StopMessage(s)
<1>1. s \in OpenAIConv /\ s.client \in Client(Said) /\ s.client.open = {}
  BY DEF Closed, OpenAIConv
<1>2. t = [s EXCEPT !.client = d, !.stopSent = TRUE]
  BY OpenAIEvents DEF OpenAI!StopMessage
<1>3. /\ d \in Client(Said) /\ d.phase = "stopped"
      /\ d.open = {} /\ d.tools = s.client.tools /\ d.reason = s.client.reason /\ d.heard = s.client.heard
  BY <1>1, MessageStops
<1> HIDE DEF d, t
<1>4. /\ t \in OpenAIConv /\ t.client = d /\ t.text = s.text /\ t.thinking = s.thinking /\ t.started = s.started
      /\ t.finish = s.finish /\ t.blocksStopped = s.blocksStopped /\ t.deltaSent = s.deltaSent /\ t.stopSent /\ t.seen = s.seen
  BY ONLY <1>1, <1>2, <1>3 DEF OpenAIConv
<1>5. OpenAI!StopReason(t) = OpenAI!StopReason(s)
  BY <1>4 DEF OpenAI!StopReason
<1>6. Closed(t)
  BY <1>3, <1>4 DEF Closed
<1>7. Ended(t)
  BY <1>3, <1>4, <1>5 DEF Ended
<1>8. QED
  BY <1>3, <1>4, <1>6, <1>7 DEF Kept3, t

\* after the reason,
LEMMA OpenAITells ==
  ASSUME NEW s, Closed(s), Unended(s), s.finish # ""
  PROVE  LET t == OpenAI!StopMessage(OpenAI!TellReason(s)) IN Closed(t) /\ Ended(t) /\ Kept3(s, t)
<1> DEFINE r == OpenAI!StopReason(s)
           d == Claude!MessageDelta(s.client, r)
           u == OpenAI!TellReason(s)
           t == OpenAI!StopMessage(u)
<1>1. /\ s \in OpenAIConv /\ s.client \in Client(Said) /\ s.client.open = {} /\ s.client.phase \in {"body", "ending"}
      /\ r \in Claude!Reasons
  BY OpenAIReason DEF Closed, OpenAIConv, Unended
<1>2. u = [s EXCEPT !.client = d, !.deltaSent = TRUE]
  BY OpenAIEvents DEF OpenAI!TellReason
<1> HIDE DEF r
<1>3. /\ d \in Client(Said) /\ d.phase = "ending"
      /\ d.open = {} /\ d.tools = s.client.tools /\ d.reason = r /\ d.heard = s.client.heard
  BY ONLY <1>1, ReasonTold
<1> HIDE DEF d, u, t
<1>4. /\ u \in OpenAIConv /\ u.client = d /\ u.text = s.text /\ u.thinking = s.thinking /\ u.started = s.started
      /\ u.finish = s.finish /\ u.blocksStopped = s.blocksStopped /\ u.deltaSent /\ u.stopSent = s.stopSent /\ u.seen = s.seen
  BY ONLY <1>1, <1>2, <1>3 DEF OpenAIConv
<1>5. OpenAI!StopReason(u) = r
  BY <1>4 DEF OpenAI!StopReason, r
<1>6. Closed(u)
  BY <1>3, <1>4 DEF Closed
<1>7. ~u.stopSent /\ u.client.phase \in {"body", "ending"} /\ u.finish # "" /\ u.deltaSent /\ u.client.reason = OpenAI!StopReason(u)
  BY <1>3, <1>4, <1>5 DEF Unended
<1>8. Closed(t) /\ Ended(t) /\ Kept3(u, t)
  BY ONLY <1>6, <1>7, OpenAIStops DEF t
<1>9. QED
  BY <1>3, <1>4, <1>8 DEF Kept3, t, u

\* and at [DONE], whatever came before, once.
LEMMA OpenAIEnds ==
  ASSUME NEW s, Closed(s), Unended(s) \/ Ended(s)
  PROVE  LET t == OpenAI!StopMessage(IF s.finish # "" /\ ~s.deltaSent THEN OpenAI!TellReason(s) ELSE s) IN
         Closed(t) /\ Ended(t) /\ Kept3(s, t)
<1>1. CASE Ended(s)
  <2>1. (s.finish # "" => s.deltaSent) /\ s.stopSent
    BY <1>1 DEF Ended
  <2>2. (IF s.finish # "" /\ ~s.deltaSent THEN OpenAI!TellReason(s) ELSE s) = s
    BY <2>1
  <2>3. OpenAI!StopMessage(s) = s
    BY <2>1 DEF OpenAI!StopMessage
  <2>4. QED
    BY <1>1, <2>2, <2>3 DEF Kept3
<1>2. CASE Unended(s) /\ s.finish # ""
  <2>1. ~s.deltaSent
    BY <1>2 DEF Unended
  <2>2. QED
    BY <1>2, <2>1, OpenAITells
<1>3. CASE Unended(s) /\ s.finish = ""
  <2>1. ~s.stopSent /\ s.client.phase \in {"body", "ending"} /\ s.client.reason = "none"
    BY <1>3 DEF Unended
  <2>2. QED
    BY <1>3, <2>1, OpenAIStops
<1>4. QED
  BY <1>1, <1>2, <1>3

\* The message starts with the first chunk.
LEMMA OpenAIBegin ==
  LET t == OpenAI!Started(OpenAI!NewConversion) IN
  Talks(t) /\ Told(t) = {} /\ t.client.heard = {} /\ t.seen = {} /\ t.finish = ""
<1> DEFINE s == OpenAI!NewConversion
           d == Claude!MessageStart(s.client)
           t == OpenAI!Started(s)
<1>1. /\ s \in OpenAIConv /\ s.client \in Client(Said) /\ s.client = Claude!Fresh /\ ~s.started /\ s.text = None /\ s.thinking = None
      /\ s.next = 0 /\ s.seen = {} /\ s.finish = "" /\ ~s.blocksStopped /\ ~s.deltaSent /\ ~s.stopSent
      /\ \A j \in {0, 1} : s.block[j] = None /\ s.args[j] = {}
  <2>1. OpenAI!Fresh = Claude!Fresh
    BY DEF OpenAI!Fresh, Claude!Fresh
  <2>2. Claude!Fresh \in Client(Said)
    BY DEF Client, Claude!Fresh, Claude!Phases, Claude!Reasons
  <2>3. s \in OpenAIConv
    BY <2>1, <2>2, NoneIsNone DEF OpenAIConv, OpenAI!NewConversion, None
  <2>4. QED
    BY <2>1, <2>2, <2>3 DEF OpenAI!NewConversion, None
<1>2. t = [s EXCEPT !.started = TRUE, !.client = d]
  BY <1>1, OpenAIEvents DEF OpenAI!Started
<1> HIDE DEF s
<1>3. s.client.phase = "new" /\ s.client.open = {} /\ s.client.next = 0 /\ s.client.tools = 0
      /\ s.client.reason = "none" /\ s.client.heard = {}
  <2>1. LET f == Claude!Fresh IN f.phase = "new" /\ f.open = {} /\ f.next = 0 /\ f.tools = 0 /\ f.reason = "none" /\ f.heard = {}
    BY DEF Claude!Fresh
  <2>2. QED
    BY <1>1, <2>1
<1>4. /\ d \in Client(Said) /\ d.phase = "body" /\ d.open = s.client.open /\ d.next = s.client.next
      /\ d.tools = s.client.tools /\ d.reason = s.client.reason /\ d.heard = s.client.heard
  BY <1>1, <1>3, MessageStarts
<1> HIDE DEF d, t
<1>5. /\ t \in OpenAIConv /\ t.client = d /\ t.started /\ t.text = None /\ t.thinking = None
      /\ t.next = 0 /\ t.seen = {} /\ t.finish = "" /\ ~t.blocksStopped /\ ~t.deltaSent /\ ~t.stopSent
      /\ \A j \in {0, 1} : t.block[j] = None /\ t.args[j] = {}
  BY ONLY <1>1, <1>2, <1>4 DEF OpenAIConv
<1>6. Begun(t) /\ Spoken(t)
  BY <1>3, <1>4, <1>5 DEF Begun, Spoken
<1>7. Called(t)
  <2>1. t.client.tools = 0
    BY <1>3, <1>4, <1>5
  <2>2. \A j \in {0, 1} : t.block[j] = None /\ t.args[j] = {} /\ j \notin t.seen
    BY <1>5
  <2>3. t.client.tools > 0 <=> t.seen # {}
    <3>1. \A n \in Nat : n = 0 => ~(n > 0)
      OBVIOUS
    <3>2. ~(t.client.tools > 0)
      BY ONLY <2>1, <3>1
    <3>3. t.seen = {}
      BY <1>5
    <3>4. QED
      BY ONLY <3>2, <3>3
  <2>4. \A j \in t.seen : FALSE
    BY ONLY <1>5
  <2>5. \A j \in {0, 1} : t.block[j] # None <=> j \in t.seen
    BY ONLY <2>2
  <2>6. QED
    BY ONLY <2>2, <2>3, <2>4, <2>5 DEF Called
<1>8. \A i \in Int, k \in Claude!Kinds : ~OpenAt(t.client, i, k)
  BY <1>3, <1>4, <1>5 DEF OpenAt
<1>9. Talks(t)
  BY <1>5, <1>6, <1>7, <1>8 DEF Talks
<1>10. QED
  BY <1>3, <1>4, <1>5, <1>9 DEF Told, t, s

\* What a chunk says, by kind.
LEMMA OpenAISays ==
  ASSUME NEW c \in OpenAI!Chunks, NEW n \in Nat
  PROVE  LET F == OpenAI!Said(c, n) IN
         /\ F \in SUBSET Said /\ \A f \in F : f.chunk = n
         /\ F = OpenAI!Of("thinking", F) \cup OpenAI!Of("text", F) \cup OpenAI!Of("tool", F)
         /\ OpenAI!Of("thinking", F) \cap OpenAI!Of("text", F) = {}
         /\ ~c.thinks => OpenAI!Of("thinking", F) = {}
         /\ ~c.speaks => OpenAI!Of("text", F) = {}
         /\ c.call = OpenAI!NoCall => OpenAI!Of("tool", F) = {}
<1> DEFINE F == OpenAI!Said(c, n)
<1>1. OpenAI!Kinds = Claude!Kinds /\ Claude!Kinds = {"text", "thinking", "tool"}
  BY DEF OpenAI!Kinds, Claude!Kinds
<1>2. \A f \in F : /\ f.chunk = n /\ f \in Said /\ f.kind \in Claude!Kinds
                   /\ f.kind = "thinking" => c.thinks
                   /\ f.kind = "text" => c.speaks
                   /\ f.kind = "tool" => c.call # OpenAI!NoCall
  BY <1>1 DEF OpenAI!Said, OpenAI!Fragment, Said
<1> HIDE DEF F
<1>3. QED
  BY <1>1, <1>2 DEF OpenAI!Of, F

\* The text, the thinking and the call of a chunk are read, before its finish and its usage.
HasRead(s, t, c, F) == /\ Talks(t) /\ Told(t) = Told(s) \cup F /\ t.finish = s.finish
                       /\ t.seen = IF c.call = OpenAI!NoCall THEN s.seen ELSE s.seen \cup {c.call}
EndsRead(t, c) == LET finished == OpenAI!FinishRead(t, c.finish)
                  IN IF c.usage THEN OpenAI!UsageRead(finished) ELSE finished

\* A chunk is read thinking first, then text, then its call, and last the reason to end and the count of tokens.
LEMMA OpenAIReads ==
  ASSUME NEW s, Talks(s), NEW c \in OpenAI!Chunks, NEW n \in Nat, OpenAI!Said(c, n) \cap s.client.heard = {},
         c.call # OpenAI!NoCall => (c.named <=> c.call \notin s.seen), s.started
  PROVE  \E t : HasRead(s, t, c, OpenAI!Said(c, n)) /\ OpenAI!Convert(s, c, OpenAI!Said(c, n)) = EndsRead(t, c)
<1> DEFINE F == OpenAI!Said(c, n)
           Fh == OpenAI!Of("thinking", F)
           Fx == OpenAI!Of("text", F)
           Fo == OpenAI!Of("tool", F)
           u == IF c.thinks THEN OpenAI!Thinks(s, Fh) ELSE s
           v == IF c.speaks THEN OpenAI!Speaks(u, Fx) ELSE u
           t == IF c.call = OpenAI!NoCall THEN v ELSE OpenAI!CallRead(v, c.call, c.named, Fo)
<1>1. OpenAI!Started(s) = s
  BY DEF OpenAI!Started
<1>2. OpenAI!Convert(s, c, F) = EndsRead(t, c)
  BY <1>1 DEF OpenAI!Convert, EndsRead
<1>3. /\ F \in SUBSET Said /\ F = Fh \cup Fx \cup Fo /\ Fh \cap Fx = {}
      /\ ~c.thinks => Fh = {}
      /\ ~c.speaks => Fx = {}
      /\ c.call = OpenAI!NoCall => Fo = {}
  BY OpenAISays
<1>4. Fh \in SUBSET Said /\ Fx \in SUBSET Said /\ Fo \in SUBSET Said /\ Fh \cap s.client.heard = {} /\ Fx \cap s.client.heard = {}
  <2> HIDE DEF Fh, Fx, Fo
  <2>1. QED
    BY <1>3
<1>5. c.named \in BOOLEAN /\ (c.call # OpenAI!NoCall => c.call \in {0, 1})
  BY DEF OpenAI!Chunks
<1> HIDE DEF F, Fh, Fx, Fo
<1>6. Talks(u) /\ Kept2(s, u) /\ Told(u) = Told(s) \cup Fh /\ u.client.heard = s.client.heard \cup Fh
  <2>1. CASE c.thinks
    <3>1. u = OpenAI!Thinks(s, Fh)
      BY <2>1
    <3> HIDE DEF u
    <3>2. QED
      BY <1>4, <3>1, ThinksWell
  <2>2. CASE ~c.thinks
    BY <1>3, <2>2 DEF Kept2
  <2>3. QED
    BY <2>1, <2>2
<1> HIDE DEF u
<1>7. Talks(v) /\ Kept2(s, v) /\ Told(v) = Told(s) \cup Fh \cup Fx
  <2>1. CASE c.speaks
    <3>1. v = OpenAI!Speaks(u, Fx) /\ Fx \cap u.client.heard = {}
      BY <1>3, <1>4, <1>6, <2>1
    <3> HIDE DEF v
    <3>2. Talks(v) /\ Kept2(u, v) /\ Told(v) = Told(u) \cup Fx
      BY <1>4, <1>6, <3>1, SpeaksWell
    <3>3. QED
      BY <1>6, <3>2 DEF Kept2
  <2>2. CASE ~c.speaks
    BY <1>3, <1>6, <2>2
  <2>3. QED
    BY <2>1, <2>2
<1> HIDE DEF v
<1>8. /\ Talks(t) /\ Told(t) = Told(s) \cup F /\ t.finish = s.finish
      /\ t.seen = IF c.call = OpenAI!NoCall THEN s.seen ELSE s.seen \cup {c.call}
  <2>1. CASE c.call = OpenAI!NoCall
    BY <1>3, <1>7, <2>1 DEF Kept2
  <2>2. CASE c.call # OpenAI!NoCall
    <3>1. PICK i \in {0, 1}, named \in BOOLEAN : i = c.call /\ named = c.named
      BY <1>5, <2>2
    <3>2. t = OpenAI!CallRead(v, i, named, Fo)
      BY <2>2, <3>1
    <3>3. named <=> i \notin v.seen
      BY <1>7, <2>2, <3>1 DEF Kept2
    <3> HIDE DEF t
    <3>4. Talks(t) /\ t.seen = v.seen \cup {i} /\ Told(t) = Told(v) \cup Fo /\ t.finish = v.finish
      BY <1>4, <1>7, <3>2, <3>3, CallsWell
    <3>5. QED
      BY <1>3, <1>7, <2>2, <3>1, <3>4 DEF Kept2
  <2>3. QED
    BY <2>1, <2>2
<1> HIDE DEF t
<1>9. QED
  BY <1>2, <1>8 DEF F, HasRead

\* Why the upstream finished does not matter to what it says.
LEMMA FinishIsTold ==
  ASSUME NEW s, Talks(s), NEW finish \in OpenAI!Finishes
  PROVE  LET t == [s EXCEPT !.finish = finish] IN
         Talks(t) /\ Told(t) = Told(s) /\ t.finish = finish /\ t.seen = s.seen
<1> DEFINE t == [s EXCEPT !.finish = finish]
<1>1. s \in OpenAIConv
  BY DEF Talks, Begun
<1>2. /\ t \in OpenAIConv /\ t.client = s.client /\ t.text = s.text /\ t.thinking = s.thinking /\ t.started = s.started
      /\ t.finish = finish /\ t.blocksStopped = s.blocksStopped /\ t.deltaSent = s.deltaSent /\ t.stopSent = s.stopSent
      /\ t.next = s.next /\ t.seen = s.seen /\ t.block = s.block /\ t.args = s.args
  BY <1>1 DEF OpenAIConv
<1> HIDE DEF t
<1>3. Begun(s) /\ Spoken(s) /\ Called(s)
  BY DEF Talks
<1>4. Begun(t) /\ Spoken(t)
  BY ONLY <1>2, <1>3 DEF Begun, Spoken
<1>5. Called(t)
  BY ONLY <1>2, <1>3 DEF Called
<1>6. Talks(t) /\ Told(t) = Told(s)
  BY <1>2, <1>4, <1>5 DEF Talks, Told
<1>7. QED
  BY <1>2, <1>6 DEF t

\* What the upstream has sent, and what the converter and the client hold of it.
OpenAIUp == [state : {"open", "finished", "done", "over", "failed"}, count : Nat, named : SUBSET {0, 1},
             used : BOOLEAN, said : SUBSET Said]
OpenAIOpen(u, s) == /\ ~u.used /\ u.named = s.seen /\ s.finish = ""
                    /\ IF u.count = 0 THEN s = OpenAI!NewConversion /\ u.said = {}
                       ELSE Talks(s) /\ Told(s) = u.said
OpenAIFinished(u, s) == /\ Closed(s) /\ s.finish # "" /\ s.client.heard = u.said /\ u.count > 0
                        /\ s.finish = "tool_calls" => s.seen # {}
                        /\ u.used => Ended(s)
                        /\ ~u.used => Unended(s)
OpenAIOver(u, s) == /\ Closed(s) /\ s.client.heard = u.said /\ u.count > 0
                    /\ s.finish = "tool_calls" => s.seen # {}
                    /\ Ended(s)
OpenAIHolds(u, s) ==
    /\ u \in OpenAIUp /\ UpTo(u.count, u.said) /\ s.client.phase # "broken"
    /\ u.state = "open" => OpenAIOpen(u, s)
    /\ u.state = "finished" => OpenAIFinished(u, s)
    /\ u.state \in {"done", "over"} => OpenAIOver(u, s)
OpenAIInv == OpenAIHolds(up, conv)

\* Neither has an ended, nor a closed, stream broken down.
LEMMA OpenAISound ==
  ASSUME NEW u, NEW s, u \in OpenAIUp, UpTo(u.count, u.said)
  PROVE  /\ u.state = "open" /\ OpenAIOpen(u, s) => OpenAIHolds(u, s)
         /\ u.state = "finished" /\ OpenAIFinished(u, s) => OpenAIHolds(u, s)
         /\ u.state \in {"done", "over"} /\ OpenAIOver(u, s) => OpenAIHolds(u, s)
<1>1. OpenAI!NewConversion.client.phase # "broken"
  BY DEF OpenAI!NewConversion, OpenAI!Fresh
<1>2. Talks(s) => s.client.phase # "broken"
  BY DEF Talks, Begun
<1>3. OpenAIOpen(u, s) => s.client.phase # "broken"
  BY <1>1, <1>2 DEF OpenAIOpen
<1>4. (Ended(s) => s.client.phase # "broken") /\ (Unended(s) => s.client.phase # "broken")
  BY DEF Ended, Unended
<1>5. OpenAIFinished(u, s) => s.client.phase # "broken"
  BY <1>4 DEF OpenAIFinished, OpenAIUp
<1>6. OpenAIOver(u, s) => s.client.phase # "broken"
  BY <1>4 DEF OpenAIOver
<1>7. QED
  BY <1>3, <1>5, <1>6 DEF OpenAIHolds

\* The invariant holds initially,
LEMMA OpenAIBegins == OpenAI!Init => OpenAIInv
<1> SUFFICES ASSUME OpenAI!Init PROVE OpenAIInv
  OBVIOUS
<1>1. up \in OpenAIUp /\ up.state = "open" /\ up.count = 0 /\ up.said = {} /\ up.named = {} /\ ~up.used /\ UpTo(up.count, up.said)
  BY DEF OpenAI!Init, OpenAIUp, UpTo
<1>2. conv = OpenAI!NewConversion /\ conv.seen = {} /\ conv.finish = ""
  BY DEF OpenAI!Init, OpenAI!NewConversion
<1>3. OpenAIOpen(up, conv)
  BY <1>1, <1>2 DEF OpenAIOpen
<1>4. QED
  BY <1>1, <1>3, OpenAISound DEF OpenAIInv

\* of what each chunk says the client has not heard,
LEMMA OpenAINews ==
  ASSUME NEW u \in OpenAIUp, UpTo(u.count, u.said), NEW c \in OpenAI!Chunks
  PROVE  LET F == OpenAI!Said(c, u.count + 1) IN
         /\ F \cap u.said = {} /\ u.said \cup F \in SUBSET Said /\ UpTo(u.count + 1, u.said \cup F)
<1> DEFINE F == OpenAI!Said(c, u.count + 1)
<1>1. PICK n \in Nat : n = u.count
  BY DEF OpenAIUp
<1>2. F \in SUBSET Said /\ \A f \in F : f.chunk = n + 1
  BY <1>1, OpenAISays
<1>3. u.said \in SUBSET Said /\ \A f \in u.said : f.chunk \in Nat /\ f.chunk <= n
  BY <1>1 DEF UpTo, Said
<1> HIDE DEF F
<1>4. F \cap u.said = {} /\ u.said \cup F \in SUBSET Said /\ \A f \in u.said \cup F : f.chunk <= n + 1
  BY <1>2, <1>3
<1>5. QED
  BY <1>1, <1>4 DEF UpTo, F

\* and a chunk, of a stream that goes on, leaves it going on or finished.
LEMMA OpenAIGoesOn ==
  ASSUME NEW u, NEW s, OpenAIHolds(u, s), u.state = "open", NEW c \in OpenAI!Chunks,
         c.call # OpenAI!NoCall => (c.named <=> c.call \notin u.named),
         c.finish = "tool_calls" => u.named # {} \/ c.call # OpenAI!NoCall,
         NEW w \in OpenAIUp, UpTo(w.count, w.said), w.count = u.count + 1,
         w.state = (IF c.finish = "" THEN u.state ELSE "finished"),
         w.named = (IF c.call = OpenAI!NoCall THEN u.named ELSE u.named \cup {c.call}),
         w.used <=> (u.used \/ (c.usage /\ c.finish # "")),
         w.said = u.said \cup OpenAI!Said(c, u.count + 1)
  PROVE  OpenAIHolds(w, OpenAI!Convert(s, c, OpenAI!Said(c, u.count + 1)))
<1> DEFINE F == OpenAI!Said(c, u.count + 1)
           b == OpenAI!Started(s)
           t == OpenAI!Convert(s, c, F)
<1>1. u \in OpenAIUp /\ UpTo(u.count, u.said) /\ OpenAIOpen(u, s) /\ u.count \in Nat /\ u.count + 1 \in Nat /\ w.count > 0 /\ w.count # 0
  <2>1. u \in OpenAIUp /\ UpTo(u.count, u.said) /\ OpenAIOpen(u, s)
    BY DEF OpenAIHolds
  <2>2. u.count \in Nat
    BY <2>1 DEF OpenAIUp
  <2>3. u.count + 1 \in Nat /\ u.count + 1 > 0 /\ u.count + 1 # 0
    BY ONLY <2>2
  <2>4. QED
    BY ONLY <2>1, <2>2, <2>3, w.count = u.count + 1
<1>2. Talks(b) /\ Told(b) = u.said /\ b.seen = u.named /\ b.finish = "" /\ b.started /\ b.client.heard \subseteq u.said
  <2>1. CASE u.count = 0
    <3>1. s = OpenAI!NewConversion /\ u.said = {} /\ u.named = s.seen
      BY <1>1, <2>1 DEF OpenAIOpen
    <3>2. u.named = {}
      BY <3>1 DEF OpenAI!NewConversion
    <3> HIDE DEF b
    <3>3. b = OpenAI!Started(OpenAI!NewConversion)
      BY <3>1 DEF b
    <3>4. Talks(b) /\ Told(b) = {} /\ b.client.heard = {} /\ b.seen = {} /\ b.finish = ""
      BY <3>3, OpenAIBegin
    <3>5. b.started
      BY <3>4 DEF Talks, Begun
    <3>6. QED
      BY <3>1, <3>2, <3>4, <3>5
  <2>2. CASE u.count # 0
    <3>1. Talks(s) /\ Told(s) = u.said /\ s.seen = u.named /\ s.finish = ""
      BY <1>1, <2>2 DEF OpenAIOpen
    <3>2. s.started
      BY <3>1 DEF Talks, Begun
    <3>3. b = s
      BY <3>2 DEF OpenAI!Started
    <3>4. s.client.heard \subseteq Told(s)
      BY DEF Told
    <3> HIDE DEF b
    <3>5. QED
      BY <3>1, <3>2, <3>3, <3>4
  <2>3. QED
    BY <2>1, <2>2
<1>3. OpenAI!Convert(b, c, F) = t
  <2>1. OpenAI!Started(b) = b
    BY <1>2 DEF OpenAI!Started
  <2>2. QED
    BY <2>1 DEF OpenAI!Convert
<1>4. F \cap u.said = {}
  BY <1>1, OpenAINews
<1> HIDE DEF b, t
<1>5. F \cap b.client.heard = {} /\ (c.call # OpenAI!NoCall => (c.named <=> c.call \notin b.seen))
  BY <1>2, <1>4
<1>6. PICK v : HasRead(b, v, c, F) /\ t = EndsRead(v, c)
  <2>1. PICK n \in Nat : n = u.count + 1
    BY <1>1
  <2>2. Talks(b) /\ b.started /\ OpenAI!Said(c, n) \cap b.client.heard = {} /\ F = OpenAI!Said(c, n)
    BY <1>2, <1>5, <2>1
  <2>3. \E v : HasRead(b, v, c, OpenAI!Said(c, n)) /\ OpenAI!Convert(b, c, OpenAI!Said(c, n)) = EndsRead(v, c)
    BY ONLY c \in OpenAI!Chunks, <1>5, <2>2, OpenAIReads
  <2>4. t = OpenAI!Convert(b, c, OpenAI!Said(c, n))
    BY <1>3, <2>2
  <2> HIDE DEF F
  <2>5. QED
    BY <2>2, <2>3, <2>4
<1> HIDE DEF F
<1>7. Talks(v) /\ Told(v) = w.said /\ v.seen = w.named /\ v.finish = ""
  BY <1>2, <1>6 DEF F, HasRead
<1>8. CASE c.finish = ""
  <2>1. t = v
    BY <1>6, <1>7, <1>8 DEF EndsRead, OpenAI!FinishRead, OpenAI!UsageRead
  <2>2. OpenAIOpen(w, v) /\ w.state = "open"
    BY <1>1, <1>7, <1>8 DEF OpenAIOpen
  <2>3. QED
    BY <2>1, <2>2, OpenAISound DEF t, F
<1>9. CASE c.finish # ""
  <2> DEFINE x == [v EXCEPT !.finish = c.finish]
             y == OpenAI!StopAll(x)
  <2>1. c.finish \in OpenAI!Finishes /\ c.usage \in BOOLEAN
    BY <1>9 DEF OpenAI!Chunks
  <2>2. Talks(x) /\ Told(x) = Told(v) /\ x.finish = c.finish /\ x.seen = v.seen
    <3>1. PICK f \in OpenAI!Finishes : f = c.finish
      BY <2>1
    <3>2. QED
      BY ONLY <1>7, <3>1, FinishIsTold
  <2>3. t = IF c.usage THEN OpenAI!UsageRead(y) ELSE y
    BY <1>6, <1>9 DEF EndsRead, OpenAI!FinishRead
  <2> HIDE DEF x
  <2>4. Closed(y) /\ Unended(y) /\ y.client.heard = Told(x) /\ y.seen = x.seen /\ y.finish = x.finish
    BY <2>2, AllStops
  <2> HIDE DEF y
  <2>5. y.finish = "tool_calls" => y.seen # {}
    BY <1>7, <2>2, <2>4
  <2>6. w.state = "finished" /\ (w.used <=> c.usage)
    BY <1>1, <1>9 DEF OpenAIOpen
  <2>7. CASE ~c.usage
    <3>1. t = y /\ y.finish # "" /\ y.client.heard = w.said /\ ~w.used
      BY <1>7, <1>9, <2>2, <2>3, <2>4, <2>6, <2>7
    <3>2. OpenAIFinished(w, t)
      BY <1>1, <2>4, <2>5, <3>1 DEF OpenAIFinished
    <3>3. QED
      BY <2>6, <3>2, OpenAISound DEF t, F
  <2>8. CASE c.usage
    <3>1. t = OpenAI!StopMessage(OpenAI!TellReason(y)) /\ y.finish # "" /\ y.client.heard = w.said /\ w.used
      BY <1>7, <1>9, <2>2, <2>3, <2>4, <2>6, <2>8 DEF OpenAI!UsageRead
    <3>2. Closed(t) /\ Ended(t) /\ Kept3(y, t)
      BY <2>4, <3>1, OpenAITells
    <3>3. OpenAIFinished(w, t)
      BY <1>1, <2>5, <3>1, <3>2 DEF OpenAIFinished, Kept3
    <3>4. QED
      BY <2>6, <3>3, OpenAISound DEF t, F
  <2>9. QED
    BY <2>7, <2>8
<1>10. QED
  BY <1>8, <1>9

\* The usage that comes after the finish ends it;
LEMMA OpenAIIsUsed ==
  ASSUME NEW u, NEW s, OpenAIHolds(u, s), u.state = "finished", ~u.used, NEW c \in OpenAI!Chunks, NEW F,
         ~c.thinks, ~c.speaks, c.call = OpenAI!NoCall, c.finish = "", c.usage
  PROVE  LET t == OpenAI!Convert(s, c, F) IN
         /\ Closed(t) /\ Ended(t) /\ Kept3(s, t)
<1>1. Closed(s) /\ Unended(s) /\ s.finish # "" /\ s.started
  BY DEF OpenAIHolds, OpenAIFinished, Closed
<1>2. OpenAI!Convert(s, c, F) = OpenAI!StopMessage(OpenAI!TellReason(s))
  <2>1. OpenAI!Started(s) = s
    BY <1>1 DEF OpenAI!Started
  <2>2. OpenAI!FinishRead(s, c.finish) = s
    BY DEF OpenAI!FinishRead
  <2>3. OpenAI!UsageRead(s) = OpenAI!StopMessage(OpenAI!TellReason(s))
    BY <1>1 DEF OpenAI!UsageRead
  <2>4. OpenAI!Convert(s, c, F) = OpenAI!UsageRead(OpenAI!FinishRead(OpenAI!Started(s), c.finish))
    BY DEF OpenAI!Convert
  <2>5. QED
    BY <2>1, <2>2, <2>3, <2>4
<1>3. QED
  BY <1>1, <1>2, OpenAITells

\* and the end of the lines, told once or twice, whatever was before.
LEMMA OpenAIIsDone ==
  ASSUME NEW u, NEW s, OpenAIHolds(u, s), u.state \in {"open", "finished", "done"}, u.count > 0
  PROVE  LET t == OpenAI!Finish(s) IN
         /\ Closed(t) /\ Ended(t) /\ t.client.heard = u.said
         /\ t.finish = "tool_calls" => t.seen # {}
<1> DEFINE x == OpenAI!StopAll(s)
           t == OpenAI!Finish(s)
<1>1. Closed(x) /\ (Unended(x) \/ Ended(x)) /\ x.client.heard = u.said /\ (x.finish = "tool_calls" => x.seen # {})
  <2>1. CASE u.state = "open"
    <3>1. Talks(s) /\ Told(s) = u.said /\ s.finish = ""
      <4>1. OpenAIOpen(u, s) /\ u.count # 0
        <5>1. u.count \in Nat /\ OpenAIOpen(u, s)
          BY <2>1 DEF OpenAIHolds, OpenAIUp
        <5>2. QED
          BY <5>1
      <4>2. QED
        BY <4>1 DEF OpenAIOpen
    <3> HIDE DEF x
    <3>2. Closed(x) /\ Unended(x) /\ x.client.heard = Told(s) /\ x.seen = s.seen /\ x.finish = s.finish
      BY <3>1, AllStops DEF x
    <3>3. QED
      BY <3>1, <3>2
  <2>2. CASE u.state # "open"
    <3>1. Closed(s) /\ (Unended(s) \/ Ended(s)) /\ s.client.heard = u.said /\ (s.finish = "tool_calls" => s.seen # {})
      BY <2>2 DEF OpenAIHolds, OpenAIFinished, OpenAIOver, OpenAIUp
    <3>2. QED
      BY <3>1, AllStopsOnce
  <2>3. QED
    BY <2>1, <2>2
<1>2. t = OpenAI!StopMessage(IF x.finish # "" /\ ~x.deltaSent THEN OpenAI!TellReason(x) ELSE x)
  BY DEF OpenAI!Finish
<1> HIDE DEF x, t
<1>3. Closed(t) /\ Ended(t) /\ Kept3(x, t)
  BY <1>1, <1>2, OpenAIEnds
<1>4. QED
  BY <1>1, <1>3 DEF Kept3, t

\* Of a chunk;
LEMMA OpenAIChunks ==
  ASSUME OpenAIInv, Quirks = {}, NEW c \in OpenAI!Chunks, OpenAI!Chunk(c)
  PROVE  OpenAIInv'
<1> DEFINE F == OpenAI!Said(c, up.count + 1)
           x == IF c.finish = "" THEN up.state ELSE "finished"
           n == up.count + 1
           o == IF c.call = OpenAI!NoCall THEN up.named ELSE up.named \cup {c.call}
           g == up.said \cup F
           w == [up EXCEPT !.state = x, !.count = n, !.named = o,
                           !.used = up.used \/ (c.usage /\ (c.finish # "" \/ up.state = "finished")), !.said = g]
           t == OpenAI!Convert(conv, c, F)
<1>1. /\ up.state \in {"open", "finished"} /\ up' = w /\ conv' = t /\ OpenAI!Fits(c)
  BY DEF OpenAI!Chunk
<1>2. up \in OpenAIUp /\ UpTo(up.count, up.said) /\ OpenAIHolds(up, conv)
  BY DEF OpenAIInv, OpenAIHolds
<1>3. g \in SUBSET Said /\ UpTo(n, g)
  BY <1>2, OpenAINews
<1>4. x \in {"open", "finished"} /\ n \in Nat /\ o \in SUBSET {0, 1} /\ up.count \in Nat
  <2>1. up.count \in Nat /\ up.named \in SUBSET {0, 1} /\ c.call \in {0, 1} \cup {OpenAI!NoCall}
    BY <1>2 DEF OpenAIUp, OpenAI!Chunks
  <2>2. n \in Nat
    BY ONLY <2>1
  <2>3. x \in {"open", "finished"}
    BY <1>1
  <2> HIDE DEF n, x
  <2>4. QED
    BY <2>1, <2>2, <2>3
<1>5. PICK b \in BOOLEAN : b <=> up.used \/ (c.usage /\ (c.finish # "" \/ up.state = "finished"))
  OBVIOUS
<1>6. w = [up EXCEPT !.state = x, !.count = n, !.named = o, !.used = b, !.said = g]
  <2>1. (up.used \/ (c.usage /\ (c.finish # "" \/ up.state = "finished"))) = b
    BY <1>2, <1>5 DEF OpenAIUp, OpenAI!Chunks
  <2> HIDE DEF x, n, o, g
  <2>2. QED
    BY <2>1
<1> HIDE DEF w, x, n, o, g, t, F
<1>7. w \in OpenAIUp /\ w.state = x /\ w.count = n /\ w.named = o /\ w.used = b /\ w.said = g
  BY ONLY <1>2, <1>3, <1>4, <1>6, b \in BOOLEAN DEF OpenAIUp
<1>8. UpTo(w.count, w.said)
  BY <1>3, <1>7
<1>9. /\ c.call # OpenAI!NoCall => (c.named <=> c.call \notin up.named)
      /\ c.finish = "tool_calls" => up.named # {} \/ c.call # OpenAI!NoCall
      /\ up.state = "finished" => ~c.thinks /\ ~c.speaks /\ c.call = OpenAI!NoCall /\ c.finish = "" /\ c.usage /\ ~up.used
  BY <1>1 DEF OpenAI!Fits
<1>10. CASE up.state = "open"
  <2>1. w.used <=> up.used \/ (c.usage /\ c.finish # "")
    BY <1>5, <1>7, <1>10
  <2>2. /\ w.count = up.count + 1 /\ w.state = (IF c.finish = "" THEN up.state ELSE "finished")
        /\ w.named = (IF c.call = OpenAI!NoCall THEN up.named ELSE up.named \cup {c.call})
        /\ w.said = up.said \cup OpenAI!Said(c, up.count + 1)
    BY <1>7 DEF x, n, o, g, F
  <2>3. OpenAIHolds(w, OpenAI!Convert(conv, c, OpenAI!Said(c, up.count + 1)))
    BY ONLY c \in OpenAI!Chunks, <1>2, <1>7, <1>8, <1>9, <1>10, <2>1, <2>2, OpenAIGoesOn
  <2>4. QED
    BY <1>1, <2>3 DEF OpenAIInv, t, F
<1>11. CASE up.state = "finished"
  <2>1. Closed(t) /\ Ended(t) /\ Kept3(conv, t)
    BY <1>2, <1>9, <1>11, OpenAIIsUsed DEF t
  <2>2. F = {}
    <3>1. OpenAI!Kinds = {"text", "thinking", "tool"}
      BY DEF OpenAI!Kinds
    <3>2. QED
      BY <1>9, <1>11, <3>1 DEF F, OpenAI!Said
  <2>3. w.state = "finished" /\ w.used /\ w.said = up.said /\ w.count > 0
    <3>1. w.state = "finished" /\ w.used /\ w.said = up.said
      BY <1>5, <1>7, <1>9, <1>11, <2>2 DEF x, g
    <3>2. w.count = up.count + 1 /\ up.count \in Nat
      BY <1>4, <1>7 DEF n
    <3>3. w.count > 0
      BY ONLY <3>2
    <3>4. QED
      BY ONLY <3>1, <3>3
  <2>4. OpenAIFinished(up, conv)
    BY <1>2, <1>11 DEF OpenAIHolds
  <2>5. OpenAIFinished(w, t)
    BY <2>1, <2>3, <2>4 DEF OpenAIFinished, Kept3
  <2>6. QED
    BY <1>1, <1>7, <1>8, <2>3, <2>5, OpenAISound DEF OpenAIInv
<1>12. QED
  BY <1>1, <1>10, <1>11

\* of the end, told once or twice;
LEMMA OpenAIDone ==
  ASSUME OpenAIInv, Quirks = {}, NEW x \in {"done", "over"}, up.state \in {"open", "finished", "done"},
         up.count > 0, conv' = OpenAI!Finish(conv), up' = [up EXCEPT !.state = x]
  PROVE  OpenAIInv'
<1>1. up \in OpenAIUp /\ UpTo(up.count, up.said) /\ OpenAIHolds(up, conv)
  BY DEF OpenAIInv, OpenAIHolds
<1>2. up' \in OpenAIUp /\ up'.state = x /\ up'.count = up.count /\ up'.said = up.said
  BY ONLY <1>1, x \in {"done", "over"}, up' = [up EXCEPT !.state = x] DEF OpenAIUp
<1>3. /\ Closed(conv') /\ Ended(conv') /\ conv'.client.heard = up.said
      /\ conv'.finish = "tool_calls" => conv'.seen # {}
  BY <1>1, OpenAIIsDone
<1>4. OpenAIOver(up', conv')
  BY <1>2, <1>3 DEF OpenAIOver
<1>5. QED
  BY <1>1, <1>2, <1>4, OpenAISound DEF OpenAIInv

\* and of every step.
LEMMA OpenAIStep ==
  ASSUME OpenAIInv, Quirks = {}, [OpenAI!Next]_(OpenAI!vars)
  PROVE  OpenAIInv'
<1>1. ASSUME OpenAI!Done \/ OpenAI!Over PROVE OpenAIInv'
  <2>1. up.state \in {"open", "finished", "done"} /\ up.count > 0 /\ conv' = OpenAI!Finish(conv)
    BY <1>1 DEF OpenAI!Done, OpenAI!Over
  <2>2. PICK x \in {"done", "over"} : up' = [up EXCEPT !.state = x]
    BY <1>1 DEF OpenAI!Done, OpenAI!Over
  <2>3. QED
    BY <2>1, <2>2, OpenAIDone
<1>2. ASSUME OpenAI!Fail PROVE OpenAIInv'
  <2>1. up' = [up EXCEPT !.state = "failed"] /\ conv' = conv
    BY <1>2 DEF OpenAI!Fail
  <2>2. up \in OpenAIUp /\ UpTo(up.count, up.said) /\ conv.client.phase # "broken"
    BY DEF OpenAIInv, OpenAIHolds
  <2>3. up' \in OpenAIUp /\ up'.state = "failed" /\ up'.count = up.count /\ up'.said = up.said
    BY <2>1, <2>2 DEF OpenAIUp
  <2>4. QED
    BY <2>1, <2>2, <2>3 DEF OpenAIInv, OpenAIHolds
<1>3. OpenAI!Next => OpenAIInv'
  BY <1>1, <1>2, OpenAIChunks DEF OpenAI!Next
<1>4. UNCHANGED OpenAI!vars => OpenAIInv'
  BY DEF OpenAI!vars, OpenAIInv
<1>5. QED
  BY <1>3, <1>4

\* The invariant is what the properties say of the route.
LEMMA OpenAIFollows ==
  ASSUME OpenAIInv
  PROVE  OpenAI!Grammatical /\ OpenAI!ToldAll
<1>1. conv.client.phase # "broken"
  BY DEF OpenAIInv, OpenAIHolds
<1>2. ASSUME up.state \in {"done", "over"}
      PROVE  /\ conv.client.phase = "stopped"
             /\ conv.client.heard = up.said
             /\ (conv.client.reason = "none") <=> (conv.finish = "")
             /\ conv.finish # "" => (conv.client.reason = "tool_use" <=> conv.client.tools > 0)
  <2>1. OpenAIOver(up, conv)
    BY <1>2 DEF OpenAIInv, OpenAIHolds
  <2>2. Closed(conv) /\ Ended(conv)
    BY <2>1 DEF OpenAIOver
  <2>3. OpenAI!StopReason(conv) # "none"
    BY DEF OpenAI!StopReason
  <2>4. conv.finish = "tool_calls" => conv.seen # {}
    BY <2>1 DEF OpenAIOver
  <2>5. OpenAI!StopReason(conv) = "tool_use" <=> conv.seen # {}
    BY <2>4 DEF OpenAI!StopReason
  <2>6. conv.client.tools > 0 <=> conv.seen # {}
    BY <2>2 DEF Closed
  <2>7. QED
    BY <2>1, <2>2, <2>3, <2>5, <2>6 DEF Ended, OpenAIOver
<1>3. QED
  BY <1>1, <1>2 DEF OpenAI!Grammatical, OpenAI!ToldAll

-----------------------------------------------------------------------------
(* What is cached under a run is of that run.                              *)

SignedInv == /\ route = "antigravity" => AntiInv
             /\ route = "codex" => CodexInv

\* The signatures a stream caches under its thinking, and those fed back, are of the very
\* thinking they stand by, in every stream of Antigravity's and of Codex's.
THEOREM EveryRunIsSigned == ASSUME Quirks = {} PROVE RouteSpec => []Signed
<1>1. RouteInit => SignedInv
  BY AntiBegins, CodexBegins DEF RouteInit, SignedInv
<1>2. SignedInv /\ [RouteNext]_moving => SignedInv'
  <2> SUFFICES ASSUME SignedInv, [RouteNext]_moving PROVE SignedInv'
    OBVIOUS
  <2>1. /\ route' = route
        /\ route = "antigravity" => [Antigravity!Next]_(Antigravity!vars)
        /\ route = "codex" => [Codex!Next]_(Codex!vars)
    BY DEF RouteNext, moving, convs, Antigravity!vars, Codex!vars
  <2>2. route = "antigravity" => AntiInv'
    BY <2>1, AntiStep DEF SignedInv
  <2>3. route = "codex" => CodexInv'
    BY <2>1, CodexStep DEF SignedInv
  <2>4. QED
    BY <2>1, <2>2, <2>3 DEF SignedInv
<1>3. SignedInv => Signed
  BY AntiFollows, CodexFollows DEF SignedInv, Signed
<1>4. QED
  BY <1>1, <1>2, <1>3, PTL DEF RouteSpec, moving

-----------------------------------------------------------------------------
(* Kiro: a text block, a thinking block, and texts read piece by piece.    *)

\* Kiro's instance writes Claude's events as the others do.
LEMMA KiroEvents ==
  \A c, i, kind, F, reason :
     /\ Kiro!MessageStart(c) = Claude!MessageStart(c)
     /\ Kiro!BlockStart(c, i, kind) = Claude!BlockStart(c, i, kind)
     /\ Kiro!BlockDelta(c, i, kind, F) = Claude!BlockDelta(c, i, kind, F)
     /\ Kiro!BlockStop(c, i) = Claude!BlockStop(c, i)
     /\ Kiro!MessageDelta(c, reason) = Claude!MessageDelta(c, reason)
     /\ Kiro!MessageStop(c) = Claude!MessageStop(c)
BY DEF Kiro!MessageStart, Kiro!BlockStart, Kiro!BlockDelta, Kiro!BlockStop, Kiro!MessageDelta, Kiro!MessageStop,
       Kiro!Broken, Kiro!Block,
       Claude!MessageStart, Claude!BlockStart, Claude!BlockDelta, Claude!BlockStop, Claude!MessageDelta, Claude!MessageStop,
       Claude!Broken, Claude!Block

KSaid == [event : Nat, piece : Nat, kind : Claude!Kinds]
KCall == [id : {0, 1, 2}, input : SUBSET KSaid]
KPiece == [sort : {"words", "angle", "tag", "half", "rest"}, words : SUBSET KSaid]
KiroConv == [client : Client(KSaid), started : BOOLEAN, index : Int, textOpen : BOOLEAN, thinkOpen : BOOLEAN,
             thinkIndex : Int, inThink : BOOLEAN, official : BOOLEAN, pending : Seq(KPiece), tool : KCall,
             processed : SUBSET {1, 2}, hasToolUses : BOOLEAN, reason : Claude!Reasons]

\* The blocks open are the text's, if it is open, and the thinking's, if that is.
KBlocks(s) == \A i \in Int, k \in Claude!Kinds : OpenAt(s.client, i, k) <=>
                 \/ k = "text" /\ s.textOpen /\ i = s.index
                 \/ k = "thinking" /\ s.thinkOpen /\ i = s.thinkIndex
KOrder(s) == /\ s.thinkOpen => s.thinkIndex <= s.index
             /\ s.thinkOpen /\ s.textOpen => s.thinkIndex < s.index
KBody(s) == /\ s \in KiroConv /\ s.started /\ s.client.phase = "body" /\ s.client.reason = "none"
            /\ s.client.next = s.index + 1 /\ (s.hasToolUses <=> s.client.tools > 0)
KFlows(s) == KBody(s) /\ KOrder(s) /\ KBlocks(s)

\* What most of the converter leaves alone.
KKept(s, t) == /\ t.official = s.official /\ t.pending = s.pending /\ t.tool = s.tool /\ t.processed = s.processed
               /\ t.reason = s.reason
KSame(s, t) == KKept(s, t) /\ t.inThink = s.inThink

\* The fields of a state that goes on, for the leaves that need no more than their types.
LEMMA KiroFields ==
  ASSUME NEW s, KFlows(s)
  PROVE  /\ s \in KiroConv /\ s.client \in Client(KSaid) /\ s.client.phase = "body" /\ s.index \in Int /\ s.index + 1 \in Int
         /\ s.client.next = s.index + 1 /\ s.thinkIndex \in Int /\ s.textOpen \in BOOLEAN /\ s.thinkOpen \in BOOLEAN
         /\ s.client.tools \in Nat
<1>1. s \in KiroConv /\ s.client.phase = "body" /\ s.client.next = s.index + 1
  BY DEF KFlows, KBody
<1>2. /\ s.client \in Client(KSaid) /\ s.index \in Int /\ s.thinkIndex \in Int /\ s.textOpen \in BOOLEAN
      /\ s.thinkOpen \in BOOLEAN
  BY <1>1 DEF KiroConv
<1>3. s.index + 1 \in Int
  BY <1>2
<1>4. s.client.tools \in Nat
  BY <1>2 DEF Client
<1>5. QED
  BY <1>1, <1>2, <1>3, <1>4

\* The converter's helpers: a block of text is opened,
LEMMA KiroOpensText ==
  ASSUME NEW s, KFlows(s)
  PROVE  LET t == Kiro!OpenText(s) IN
         /\ KFlows(t) /\ KSame(s, t) /\ t.textOpen /\ t.thinkOpen = s.thinkOpen /\ t.client.heard = s.client.heard
<1> DEFINE n == s.index + 1
           d == Claude!BlockStart(s.client, n, "text")
           t == Kiro!OpenText(s)
<1>0. /\ s \in KiroConv /\ s.client \in Client(KSaid) /\ s.client.phase = "body" /\ s.index \in Int /\ n \in Int
      /\ s.client.next = n /\ s.thinkIndex \in Int /\ s.textOpen \in BOOLEAN /\ s.thinkOpen \in BOOLEAN
      /\ s.client.tools \in Nat /\ "text" \in Claude!Kinds
  BY KiroFields DEF Claude!Kinds
<1>1. CASE s.textOpen
  BY <1>1 DEF Kiro!OpenText, KSame, KKept
<1>2. CASE ~s.textOpen
  <2>1. t = [s EXCEPT !.client = d, !.index = n, !.textOpen = TRUE]
    BY <1>2, KiroEvents DEF Kiro!OpenText
  <2> HIDE DEF n
  <2>2. /\ d \in Client(KSaid) /\ d.phase = "body" /\ d.next = n + 1 /\ d.reason = s.client.reason
        /\ d.heard = s.client.heard /\ d.tools = s.client.tools
        /\ \A j \in Int, k \in Claude!Kinds : OpenAt(d, j, k) <=> OpenAt(s.client, j, k) \/ (j = n /\ k = "text")
    BY <1>0, OneMore
  <2> HIDE DEF d, t
  <2>3. /\ t \in KiroConv /\ t.client = d /\ t.index = n /\ t.textOpen /\ t.started = s.started /\ t.thinkOpen = s.thinkOpen
        /\ t.thinkIndex = s.thinkIndex /\ t.hasToolUses = s.hasToolUses /\ KSame(s, t)
    BY ONLY <1>0, <2>1, <2>2 DEF KiroConv, KSame, KKept
  <2>4. KBody(s) /\ KOrder(s)
    BY DEF KFlows
  <2>5. KBody(t)
    BY <2>2, <2>3, <2>4 DEF KBody
  <2>6. KOrder(t)
    BY <1>0, <2>3, <2>4 DEF KOrder, n
  <2>7. KBlocks(t)
    <3> SUFFICES ASSUME NEW i \in Int, NEW k \in Claude!Kinds
                 PROVE  OpenAt(t.client, i, k) <=> \/ k = "text" /\ t.textOpen /\ i = t.index
                                                   \/ k = "thinking" /\ t.thinkOpen /\ i = t.thinkIndex
      BY DEF KBlocks
    <3>1. OpenAt(s.client, i, k) <=> k = "thinking" /\ s.thinkOpen /\ i = s.thinkIndex
      BY <1>2 DEF KFlows, KBlocks
    <3>2. QED
      BY <2>2, <2>3, <3>1
  <2>8. QED
    BY <2>2, <2>3, <2>5, <2>6, <2>7 DEF KFlows, t
<1>3. QED
  BY <1>0, <1>1, <1>2

\* and closed,
LEMMA KiroClosesText ==
  ASSUME NEW s, KFlows(s)
  PROVE  LET t == Kiro!CloseText(s) IN
         /\ KFlows(t) /\ KSame(s, t) /\ ~t.textOpen /\ t.thinkOpen = s.thinkOpen /\ t.client.heard = s.client.heard
         /\ t.index = s.index
<1> DEFINE d == Claude!BlockStop(s.client, s.index)
           t == Kiro!CloseText(s)
<1>0. /\ s \in KiroConv /\ s.client \in Client(KSaid) /\ s.client.phase = "body" /\ s.index \in Int
      /\ s.thinkIndex \in Int /\ s.textOpen \in BOOLEAN /\ s.thinkOpen \in BOOLEAN
      /\ s.client.tools \in Nat /\ "text" \in Claude!Kinds
  BY KiroFields DEF Claude!Kinds
<1>1. CASE ~s.textOpen
  BY <1>1 DEF Kiro!CloseText, KSame, KKept
<1>2. CASE s.textOpen
  <2>1. t = [s EXCEPT !.client = d, !.textOpen = FALSE]
    BY <1>2, KiroEvents DEF Kiro!CloseText
  <2>2. OpenAt(s.client, s.index, "text")
    BY <1>0, <1>2 DEF KFlows, KBlocks
  <2>3. /\ d \in Client(KSaid) /\ d.phase = "body" /\ d.next = s.client.next /\ d.reason = s.client.reason
        /\ d.heard = s.client.heard /\ d.tools = s.client.tools
        /\ \A j \in Int, k \in Claude!Kinds : OpenAt(d, j, k) <=> OpenAt(s.client, j, k) /\ j # s.index
    BY <1>0, <2>2, OneLess
  <2> HIDE DEF d, t
  <2>4. /\ t \in KiroConv /\ t.client = d /\ t.index = s.index /\ ~t.textOpen /\ t.started = s.started /\ t.thinkOpen = s.thinkOpen
        /\ t.thinkIndex = s.thinkIndex /\ t.hasToolUses = s.hasToolUses /\ KSame(s, t)
    BY ONLY <1>0, <2>1, <2>3 DEF KiroConv, KSame, KKept
  <2>5. KBody(s) /\ KOrder(s)
    BY DEF KFlows
  <2>6. KBody(t)
    BY <2>3, <2>4, <2>5 DEF KBody
  <2>7. KOrder(t)
    BY <1>0, <2>4, <2>5 DEF KOrder
  <2>8. KBlocks(t)
    <3> SUFFICES ASSUME NEW i \in Int, NEW k \in Claude!Kinds
                 PROVE  OpenAt(t.client, i, k) <=> \/ k = "text" /\ t.textOpen /\ i = t.index
                                                   \/ k = "thinking" /\ t.thinkOpen /\ i = t.thinkIndex
      BY DEF KBlocks
    <3>1. OpenAt(s.client, i, k) <=> (k = "text" /\ i = s.index) \/ (k = "thinking" /\ s.thinkOpen /\ i = s.thinkIndex)
      BY <1>2 DEF KFlows, KBlocks
    <3>2. s.thinkOpen => s.thinkIndex # s.index
      BY <1>0, <1>2, <2>5 DEF KOrder
    <3>3. QED
      BY <2>3, <2>4, <3>1, <3>2
  <2>9. QED
    BY <2>3, <2>4, <2>6, <2>7, <2>8 DEF KFlows, t
<1>3. QED
  BY <1>0, <1>1, <1>2

\* a block of thinking is opened when no text is,
LEMMA KiroOpensThinking ==
  ASSUME NEW s, KFlows(s), ~s.textOpen
  PROVE  LET t == Kiro!OpenThinking(s) IN
         /\ KFlows(t) /\ KSame(s, t) /\ t.thinkOpen /\ ~t.textOpen /\ t.client.heard = s.client.heard
<1> DEFINE n == s.index + 1
           d == Claude!BlockStart(s.client, n, "thinking")
           t == Kiro!OpenThinking(s)
<1>0. /\ s \in KiroConv /\ s.client \in Client(KSaid) /\ s.client.phase = "body" /\ s.index \in Int /\ n \in Int
      /\ s.client.next = n /\ s.thinkIndex \in Int /\ s.textOpen \in BOOLEAN /\ s.thinkOpen \in BOOLEAN
      /\ s.client.tools \in Nat /\ "thinking" \in Claude!Kinds
  BY KiroFields DEF Claude!Kinds
<1>1. CASE s.thinkOpen
  BY <1>1 DEF Kiro!OpenThinking, KSame, KKept
<1>2. CASE ~s.thinkOpen
  <2>1. t = [s EXCEPT !.client = d, !.index = n, !.thinkIndex = n, !.thinkOpen = TRUE]
    BY <1>2, KiroEvents DEF Kiro!OpenThinking
  <2> HIDE DEF n
  <2>2. /\ d \in Client(KSaid) /\ d.phase = "body" /\ d.next = n + 1 /\ d.reason = s.client.reason
        /\ d.heard = s.client.heard /\ d.tools = s.client.tools
        /\ \A j \in Int, k \in Claude!Kinds : OpenAt(d, j, k) <=> OpenAt(s.client, j, k) \/ (j = n /\ k = "thinking")
    BY <1>0, OneMore
  <2> HIDE DEF d, t
  <2>3. /\ t \in KiroConv /\ t.client = d /\ t.index = n /\ ~t.textOpen /\ t.started = s.started /\ t.thinkOpen
        /\ t.thinkIndex = n /\ t.hasToolUses = s.hasToolUses /\ KSame(s, t)
    BY ONLY <1>0, <2>1, <2>2, ~s.textOpen DEF KiroConv, KSame, KKept
  <2>4. KBody(s)
    BY DEF KFlows
  <2>5. KBody(t)
    BY <2>2, <2>3, <2>4 DEF KBody
  <2>6. KOrder(t)
    BY <1>0, <2>3 DEF KOrder
  <2>7. KBlocks(t)
    <3> SUFFICES ASSUME NEW i \in Int, NEW k \in Claude!Kinds
                 PROVE  OpenAt(t.client, i, k) <=> \/ k = "text" /\ t.textOpen /\ i = t.index
                                                   \/ k = "thinking" /\ t.thinkOpen /\ i = t.thinkIndex
      BY DEF KBlocks
    <3>1. ~OpenAt(s.client, i, k)
      BY <1>2 DEF KFlows, KBlocks
    <3>2. QED
      BY <2>2, <2>3, <3>1
  <2>8. QED
    BY <2>2, <2>3, <2>5, <2>6, <2>7 DEF KFlows, t
<1>3. QED
  BY <1>0, <1>1, <1>2

\* and closed.
LEMMA KiroClosesThinking ==
  ASSUME NEW s, KFlows(s)
  PROVE  LET t == Kiro!CloseThinking(s) IN
         /\ KFlows(t) /\ KSame(s, t) /\ ~t.thinkOpen /\ t.textOpen = s.textOpen /\ t.client.heard = s.client.heard
<1> DEFINE d == Claude!BlockStop(s.client, s.thinkIndex)
           t == Kiro!CloseThinking(s)
<1>0. /\ s \in KiroConv /\ s.client \in Client(KSaid) /\ s.client.phase = "body" /\ s.index \in Int
      /\ s.thinkIndex \in Int /\ s.textOpen \in BOOLEAN /\ s.thinkOpen \in BOOLEAN
      /\ s.client.tools \in Nat /\ "thinking" \in Claude!Kinds
  BY KiroFields DEF Claude!Kinds
<1>1. CASE ~s.thinkOpen
  BY <1>1 DEF Kiro!CloseThinking, KSame, KKept
<1>2. CASE s.thinkOpen
  <2>1. t = [s EXCEPT !.client = d, !.thinkOpen = FALSE]
    BY <1>2, KiroEvents DEF Kiro!CloseThinking
  <2>2. OpenAt(s.client, s.thinkIndex, "thinking")
    BY <1>0, <1>2 DEF KFlows, KBlocks
  <2>3. /\ d \in Client(KSaid) /\ d.phase = "body" /\ d.next = s.client.next /\ d.reason = s.client.reason
        /\ d.heard = s.client.heard /\ d.tools = s.client.tools
        /\ \A j \in Int, k \in Claude!Kinds : OpenAt(d, j, k) <=> OpenAt(s.client, j, k) /\ j # s.thinkIndex
    BY <1>0, <2>2, OneLess
  <2> HIDE DEF d, t
  <2>4. /\ t \in KiroConv /\ t.client = d /\ t.index = s.index /\ t.textOpen = s.textOpen /\ t.started = s.started /\ ~t.thinkOpen
        /\ t.thinkIndex = s.thinkIndex /\ t.hasToolUses = s.hasToolUses /\ KSame(s, t)
    BY ONLY <1>0, <2>1, <2>3 DEF KiroConv, KSame, KKept
  <2>5. KBody(s) /\ KOrder(s)
    BY DEF KFlows
  <2>6. KBody(t)
    BY <2>3, <2>4, <2>5 DEF KBody
  <2>7. KOrder(t)
    BY <2>4 DEF KOrder
  <2>8. KBlocks(t)
    <3> SUFFICES ASSUME NEW i \in Int, NEW k \in Claude!Kinds
                 PROVE  OpenAt(t.client, i, k) <=> \/ k = "text" /\ t.textOpen /\ i = t.index
                                                   \/ k = "thinking" /\ t.thinkOpen /\ i = t.thinkIndex
      BY DEF KBlocks
    <3>1. OpenAt(s.client, i, k) <=> (k = "text" /\ s.textOpen /\ i = s.index) \/ (k = "thinking" /\ i = s.thinkIndex)
      BY <1>2 DEF KFlows, KBlocks
    <3>2. s.textOpen => s.thinkIndex # s.index
      BY <1>0, <1>2, <2>5 DEF KOrder
    <3>3. QED
      BY <2>3, <2>4, <3>1, <3>2
  <2>9. QED
    BY <2>3, <2>4, <2>6, <2>7, <2>8 DEF KFlows, t
<1>3. QED
  BY <1>0, <1>1, <1>2

\* The fragments are told in a block that is open.
KFed(s, t, F) == /\ KFlows(t) /\ KSame(s, t) /\ t.textOpen = s.textOpen /\ t.thinkOpen = s.thinkOpen
                 /\ t.client.heard = s.client.heard \cup F

\* An open block may be fed with what was not heard before.
LEMMA KiroIsFed ==
  ASSUME NEW s, KFlows(s), NEW kind \in Claude!Kinds, NEW i \in Int, OpenAt(s.client, i, kind),
         NEW F \in SUBSET KSaid, F \cap s.client.heard = {}
  PROVE  KFed(s, [s EXCEPT !.client = Claude!BlockDelta(s.client, i, kind, F)], F)
<1> DEFINE d == Claude!BlockDelta(s.client, i, kind, F)
           t == [s EXCEPT !.client = d]
<1>1. s \in KiroConv /\ s.client \in Client(KSaid) /\ s.client.phase = "body" /\ Claude!Block(i, kind) \in s.client.open
  BY KiroFields DEF OpenAt
<1>2. /\ d \in Client(KSaid) /\ d.phase = "body" /\ d.open = s.client.open /\ d.next = s.client.next
      /\ d.tools = s.client.tools /\ d.reason = s.client.reason /\ d.heard = s.client.heard \cup F
  BY <1>1, BlockFed
<1> HIDE DEF d
<1>3. /\ t \in KiroConv /\ t.client = d /\ t.index = s.index /\ t.textOpen = s.textOpen /\ t.started = s.started
      /\ t.thinkOpen = s.thinkOpen /\ t.thinkIndex = s.thinkIndex /\ t.hasToolUses = s.hasToolUses /\ KSame(s, t)
  BY ONLY <1>1, <1>2 DEF KiroConv, KSame, KKept
<1> HIDE DEF t
<1>4. KBody(s) /\ KOrder(s) /\ KBlocks(s)
  BY DEF KFlows
<1>5. KBody(t) /\ KOrder(t)
  BY ONLY <1>2, <1>3, <1>4 DEF KBody, KOrder
<1>6. \A j \in Int, k \in Claude!Kinds : OpenAt(t.client, j, k) <=> OpenAt(s.client, j, k)
  BY <1>2, <1>3 DEF OpenAt
<1>7. KBlocks(t)
  BY ONLY <1>3, <1>4, <1>6 DEF KBlocks
<1>8. QED
  BY <1>2, <1>3, <1>5, <1>7 DEF KFed, KFlows, t, d

\* So a text is told in a block of text,
LEMMA KiroTextRead ==
  ASSUME NEW s, KFlows(s), NEW F \in SUBSET KSaid, F \cap s.client.heard = {}
  PROVE  LET t == Kiro!TextRead(s, F) IN
         /\ KFlows(t) /\ KSame(s, t) /\ t.textOpen /\ t.thinkOpen = s.thinkOpen /\ t.client.heard = s.client.heard \cup F
<1> DEFINE u == Kiro!OpenText(s)
           t == Kiro!TextRead(s, F)
<1>1. /\ KFlows(u) /\ KSame(s, u) /\ u.textOpen /\ u.thinkOpen = s.thinkOpen /\ u.client.heard = s.client.heard
  BY KiroOpensText
<1>2. t = [u EXCEPT !.client = Claude!BlockDelta(u.client, u.index, "text", F)]
  BY KiroEvents DEF Kiro!TextRead
<1> HIDE DEF u, t
<1>3. PICK i \in Int : i = u.index
  BY <1>1, KiroFields
<1>4. OpenAt(u.client, i, "text") /\ "text" \in Claude!Kinds
  BY <1>1, <1>3 DEF KFlows, KBlocks, Claude!Kinds
<1>5. F \cap u.client.heard = {} /\ t = [u EXCEPT !.client = Claude!BlockDelta(u.client, i, "text", F)]
  BY <1>1, <1>2, <1>3
<1>6. KFed(u, t, F)
  BY ONLY <1>1, <1>4, <1>5, KiroIsFed, F \in SUBSET KSaid
<1>7. QED
  BY <1>1, <1>6 DEF KFed, KSame, KKept, t

\* and a thought in one of thinking.
LEMMA KiroThinkingRead ==
  ASSUME NEW s, KFlows(s), ~s.textOpen, NEW F \in SUBSET KSaid, F \cap s.client.heard = {}
  PROVE  LET t == Kiro!ThinkingRead(s, F) IN
         /\ KFlows(t) /\ KSame(s, t) /\ ~t.textOpen /\ t.thinkOpen /\ t.client.heard = s.client.heard \cup F
<1> DEFINE u == Kiro!OpenThinking(s)
           t == Kiro!ThinkingRead(s, F)
<1>1. /\ KFlows(u) /\ KSame(s, u) /\ u.thinkOpen /\ ~u.textOpen /\ u.client.heard = s.client.heard
  BY KiroOpensThinking
<1>2. t = [u EXCEPT !.client = Claude!BlockDelta(u.client, u.thinkIndex, "thinking", F)]
  BY KiroEvents DEF Kiro!ThinkingRead
<1> HIDE DEF u, t
<1>3. PICK i \in Int : i = u.thinkIndex
  BY <1>1, KiroFields
<1>4. OpenAt(u.client, i, "thinking") /\ "thinking" \in Claude!Kinds
  BY <1>1, <1>3 DEF KFlows, KBlocks, Claude!Kinds
<1>5. F \cap u.client.heard = {} /\ t = [u EXCEPT !.client = Claude!BlockDelta(u.client, i, "thinking", F)]
  BY <1>1, <1>2, <1>3
<1>6. KFed(u, t, F)
  BY ONLY <1>1, <1>4, <1>5, KiroIsFed, F \in SUBSET KSaid
<1>7. QED
  BY <1>1, <1>6 DEF KFed, KSame, KKept, t

\* A call's block is told whole, after the text.
LEMMA KiroToolBlock ==
  ASSUME NEW s, KFlows(s), NEW call \in KCall, call.input \cap s.client.heard = {}
  PROVE  LET t == Kiro!ToolBlock(s, call) IN
         /\ KFlows(t) /\ KSame(s, t) /\ ~t.textOpen /\ t.thinkOpen = s.thinkOpen
         /\ t.client.heard = s.client.heard \cup call.input
<1> DEFINE u == Kiro!CloseText(s)
           n == s.index + 1
           F == call.input
           c == Claude!BlockStart(u.client, n, "tool")
           f == IF F = {} THEN c ELSE Claude!BlockDelta(c, n, "tool", F)
           d == Claude!BlockStop(f, n)
           t == Kiro!ToolBlock(s, call)
<1>1. /\ KFlows(u) /\ KSame(s, u) /\ ~u.textOpen /\ u.thinkOpen = s.thinkOpen /\ u.client.heard = s.client.heard
      /\ u.index = s.index
  BY KiroClosesText
<1>2. /\ u \in KiroConv /\ u.client \in Client(KSaid) /\ u.client.phase = "body" /\ u.index \in Int /\ n \in Int
      /\ u.client.next = n /\ u.thinkIndex \in Int /\ u.textOpen \in BOOLEAN /\ u.thinkOpen \in BOOLEAN
      /\ u.client.tools \in Nat /\ "tool" \in Claude!Kinds /\ F \in SUBSET KSaid /\ F \cap u.client.heard = {}
  <2>1. "tool" \in Claude!Kinds /\ F \in SUBSET KSaid
    BY DEF Claude!Kinds, KCall
  <2> HIDE DEF u, F
  <2>2. QED
    BY <1>1, <2>1, KiroFields DEF F
<1>3. t = [u EXCEPT !.client = d, !.index = n, !.hasToolUses = TRUE]
  <2> DEFINE v == [u EXCEPT !.client = c, !.index = n]
             e == IF F = {} THEN v.client ELSE Claude!BlockDelta(v.client, v.index, "tool", F)
  <2>1. t = [v EXCEPT !.client = Claude!BlockStop(e, v.index), !.hasToolUses = TRUE]
    <3>1. [u EXCEPT !.client = Kiro!BlockStart(@, s.index + 1, "tool"), !.index = @ + 1] = v
      <4>1. Kiro!BlockStart(u.client, s.index + 1, "tool") = c /\ u.index + 1 = n
        BY <1>1, KiroEvents
      <4> HIDE DEF c, n, u
      <4>2. QED
        BY <4>1 DEF n
    <3>2. t = LET x == [u EXCEPT !.client = Kiro!BlockStart(@, s.index + 1, "tool"), !.index = @ + 1]
                  fed == IF F = {} THEN x.client ELSE Kiro!BlockDelta(x.client, x.index, "tool", F)
              IN [x EXCEPT !.client = Kiro!BlockStop(fed, x.index), !.hasToolUses = TRUE]
      BY DEF Kiro!ToolBlock
    <3>3. t = LET fed == IF F = {} THEN v.client ELSE Kiro!BlockDelta(v.client, v.index, "tool", F)
              IN [v EXCEPT !.client = Kiro!BlockStop(fed, v.index), !.hasToolUses = TRUE]
      BY <3>1, <3>2
    <3> HIDE DEF v, t
    <3>4. (IF F = {} THEN v.client ELSE Kiro!BlockDelta(v.client, v.index, "tool", F)) = e
      BY KiroEvents
    <3>5. t = [v EXCEPT !.client = Kiro!BlockStop(e, v.index), !.hasToolUses = TRUE]
      BY <3>3, <3>4
    <3> HIDE DEF e
    <3>6. QED
      BY <3>5, KiroEvents
  <2> HIDE DEF u, c, n, t
  <2>2. v.client = c /\ v.index = n
    BY <1>2 DEF KiroConv
  <2>3. Claude!BlockStop(e, v.index) = d
    BY <2>2
  <2> HIDE DEF d, e
  <2>4. t = [v EXCEPT !.client = d, !.hasToolUses = TRUE]
    BY <2>1, <2>3
  <2>5. QED
    BY <1>2, <2>4 DEF KiroConv
<1> HIDE DEF u, n, F
<1>4. /\ c \in Client(KSaid) /\ c.phase = "body" /\ c.next = n + 1 /\ c.reason = u.client.reason
      /\ c.heard = u.client.heard /\ c.tools = u.client.tools + 1
      /\ \A j \in Int, k \in Claude!Kinds : OpenAt(c, j, k) <=> OpenAt(u.client, j, k) \/ (j = n /\ k = "tool")
  BY <1>2, OneMore
<1> HIDE DEF c
<1>5. /\ f \in Client(KSaid) /\ f.phase = "body" /\ f.next = c.next /\ f.reason = c.reason
      /\ f.heard = u.client.heard \cup F /\ f.tools = c.tools /\ f.open = c.open
  <2>1. CASE F = {}
    BY <1>4, <2>1
  <2>2. CASE F # {}
    <3>1. Claude!Block(n, "tool") \in c.open
      BY <1>2, <1>4 DEF OpenAt
    <3>2. F \cap c.heard = {} /\ f = Claude!BlockDelta(c, n, "tool", F)
      BY <1>2, <1>4, <2>2
    <3> HIDE DEF f
    <3>3. QED
      BY <1>2, <1>4, <3>1, <3>2, BlockFed
  <2>3. QED
    BY <2>1, <2>2
<1> HIDE DEF f
<1>6. \A j \in Int, k \in Claude!Kinds : OpenAt(f, j, k) <=> OpenAt(c, j, k)
  BY <1>5 DEF OpenAt
<1>7. OpenAt(f, n, "tool")
  BY <1>2, <1>4, <1>6
<1>8. /\ d \in Client(KSaid) /\ d.phase = "body" /\ d.next = f.next /\ d.reason = f.reason
      /\ d.heard = f.heard /\ d.tools = f.tools
      /\ \A j \in Int, k \in Claude!Kinds : OpenAt(d, j, k) <=> OpenAt(f, j, k) /\ j # n
  BY <1>2, <1>5, <1>7, OneLess
<1> HIDE DEF d, t
<1>9. /\ t \in KiroConv /\ t.client = d /\ t.index = n /\ t.textOpen = u.textOpen /\ t.started = u.started
      /\ t.thinkOpen = u.thinkOpen /\ t.thinkIndex = u.thinkIndex /\ t.hasToolUses /\ KSame(u, t)
  BY ONLY <1>2, <1>3, <1>8 DEF KiroConv, KSame, KKept
<1>10. KBody(u) /\ KOrder(u)
  BY <1>1 DEF KFlows
<1>11. t.client.tools > 0
  BY <1>2, <1>4, <1>5, <1>8, <1>9
<1>12. KBody(t)
  BY <1>4, <1>5, <1>8, <1>9, <1>10, <1>11 DEF KBody
<1>13. KOrder(t)
  BY <1>1, <1>2, <1>9, <1>10 DEF KOrder, n
<1>14. KBlocks(t)
  <2> SUFFICES ASSUME NEW i \in Int, NEW k \in Claude!Kinds
               PROVE  OpenAt(t.client, i, k) <=> \/ k = "text" /\ t.textOpen /\ i = t.index
                                                 \/ k = "thinking" /\ t.thinkOpen /\ i = t.thinkIndex
    BY DEF KBlocks
  <2>1. OpenAt(u.client, i, k) <=> k = "thinking" /\ u.thinkOpen /\ i = u.thinkIndex
    BY <1>1 DEF KFlows, KBlocks
  <2>2. u.thinkOpen => u.thinkIndex # n
    BY <1>1, <1>2, <1>10 DEF KOrder, n
  <2>3. QED
    BY <1>1, <1>4, <1>6, <1>8, <1>9, <2>1, <2>2
<1>15. QED
  BY <1>1, <1>5, <1>8, <1>9, <1>12, <1>13, <1>14 DEF KFlows, KSame, KKept, t, F

\* Between texts, and without events of thinking, thinking is open only inside the tags, and text outside.
KMode(s) == (s.thinkOpen => s.inThink) /\ (s.textOpen => ~s.inThink)

\* What has the client, and its blocks, as they were.
KStill(s, t) == /\ t.client = s.client /\ t.started = s.started /\ t.index = s.index /\ t.textOpen = s.textOpen
                /\ t.thinkOpen = s.thinkOpen /\ t.thinkIndex = s.thinkIndex /\ t.hasToolUses = s.hasToolUses

\* A state that differs in what was gathered only goes on as well.
LEMMA KiroStill ==
  ASSUME NEW s, NEW t, KFlows(s), t \in KiroConv, KStill(s, t)
  PROVE  KFlows(t)
<1>1. KBody(s) /\ KOrder(s) /\ KBlocks(s)
  BY DEF KFlows
<1>2. KBody(t) /\ KOrder(t) /\ KBlocks(t)
  BY ONLY <1>1, t \in KiroConv, KStill(s, t) DEF KBody, KOrder, KBlocks, KStill
<1>3. QED
  BY <1>2 DEF KFlows

\* A piece is read.
KRead(s, t, words, tag) ==
    /\ KFlows(t) /\ KMode(t) /\ KKept(s, t) /\ t.client.heard = s.client.heard \cup words
    /\ t.inThink <=> (s.inThink <=> ~tag)

\* A piece of text is told in a block of its mode, and a tag turns the mode over.
LEMMA KiroPieceRead ==
  ASSUME NEW s, KFlows(s), KMode(s), NEW p \in KPiece, p.words \cap s.client.heard = {}, p.sort = "tag" => p.words = {}
  PROVE  KRead(s, Kiro!PieceRead(s, p), p.words, p.sort = "tag")
<1> DEFINE t == Kiro!PieceRead(s, p)
           F == p.words
<1>0. F \in SUBSET KSaid /\ s.inThink \in BOOLEAN
  BY KiroFields DEF KPiece, KiroConv
<1>1. ASSUME NEW u, NEW b \in BOOLEAN, KFlows(u), t = [u EXCEPT !.inThink = b]
      PROVE  /\ KFlows(t) /\ KKept(u, t) /\ (t.inThink <=> b) /\ t.textOpen = u.textOpen /\ t.thinkOpen = u.thinkOpen
             /\ t.client = u.client
  <2>1. u \in KiroConv
    BY <1>1, KiroFields
  <2> HIDE DEF t
  <2>2. t \in KiroConv /\ KStill(u, t) /\ KKept(u, t) /\ (t.inThink <=> b)
    BY ONLY <1>1, <2>1 DEF KiroConv, KStill, KKept
  <2>3. KFlows(t)
    BY <1>1, <2>2, KiroStill
  <2>4. QED
    BY <2>2, <2>3 DEF KStill
<1>2. CASE p.sort = "tag" /\ s.inThink
  <2> DEFINE u == Kiro!CloseThinking(s)
  <2>1. /\ KFlows(u) /\ KSame(s, u) /\ ~u.thinkOpen /\ u.textOpen = s.textOpen /\ u.client.heard = s.client.heard
    BY KiroClosesThinking
  <2>2. t = [u EXCEPT !.inThink = FALSE]
    BY <1>2 DEF Kiro!PieceRead, Kiro!TagRead
  <2> HIDE DEF u, t, F
  <2>3. PICK b \in BOOLEAN : b = FALSE
    OBVIOUS
  <2>4. /\ KFlows(t) /\ KKept(u, t) /\ (t.inThink <=> b) /\ t.textOpen = u.textOpen /\ t.thinkOpen = u.thinkOpen
        /\ t.client = u.client
    BY <1>1, <2>1, <2>2, <2>3
  <2>5. KMode(t)
    BY <1>2, <2>1, <2>3, <2>4 DEF KMode
  <2>6. KKept(s, t) /\ t.client.heard = s.client.heard \cup F
    BY <1>2, <2>1, <2>4 DEF KSame, KKept, F
  <2>7. QED
    BY <1>2, <2>3, <2>4, <2>5, <2>6 DEF KRead, t, F
<1>3. CASE p.sort = "tag" /\ ~s.inThink
  <2> DEFINE u == Kiro!CloseText(s)
  <2>1. /\ KFlows(u) /\ KSame(s, u) /\ ~u.textOpen /\ u.thinkOpen = s.thinkOpen /\ u.client.heard = s.client.heard
    BY KiroClosesText
  <2>2. t = [u EXCEPT !.inThink = TRUE]
    BY <1>3 DEF Kiro!PieceRead, Kiro!TagRead
  <2> HIDE DEF u, t, F
  <2>3. PICK b \in BOOLEAN : b = TRUE
    OBVIOUS
  <2>4. /\ KFlows(t) /\ KKept(u, t) /\ (t.inThink <=> b) /\ t.textOpen = u.textOpen /\ t.thinkOpen = u.thinkOpen
        /\ t.client = u.client
    BY <1>1, <2>1, <2>2, <2>3
  <2>5. KMode(t)
    BY <1>3, <2>1, <2>3, <2>4 DEF KMode
  <2>6. KKept(s, t) /\ t.client.heard = s.client.heard \cup F
    BY <1>3, <2>1, <2>4 DEF KSame, KKept, F
  <2>7. QED
    BY <1>3, <2>3, <2>4, <2>5, <2>6 DEF KRead, t, F
<1>4. CASE p.sort # "tag" /\ s.inThink
  <2>1. t = Kiro!ThinkingRead(s, F) /\ ~s.textOpen
    BY <1>4 DEF Kiro!PieceRead, Kiro!WordsRead, KMode
  <2> HIDE DEF t, F
  <2>2. F \cap s.client.heard = {}
    BY DEF F
  <2>3. /\ KFlows(t) /\ KSame(s, t) /\ ~t.textOpen /\ t.thinkOpen /\ t.client.heard = s.client.heard \cup F
    BY <1>0, <2>1, <2>2, KiroThinkingRead
  <2>4. QED
    BY <1>4, <2>3 DEF KRead, KMode, KSame, t, F
<1>5. CASE p.sort # "tag" /\ ~s.inThink
  <2>1. t = Kiro!TextRead(s, F) /\ ~s.thinkOpen
    BY <1>5 DEF Kiro!PieceRead, Kiro!WordsRead, KMode
  <2> HIDE DEF t, F
  <2>2. F \cap s.client.heard = {}
    BY DEF F
  <2>3. /\ KFlows(t) /\ KSame(s, t) /\ t.textOpen /\ t.thinkOpen = s.thinkOpen /\ t.client.heard = s.client.heard \cup F
    BY <1>0, <2>1, <2>2, KiroTextRead
  <2>4. QED
    BY <1>5, <2>1, <2>3 DEF KRead, KMode, KSame, t, F
<1>6. QED
  BY <1>2, <1>3, <1>4, <1>5

\* The pieces of a text are read one by one: the fold's function exists,
KFix(s, q, n, f) == f = [e \in SUBSET (1..n) |-> IF e = {} THEN s
                                                ELSE LET x == Kiro!Max(e) IN Kiro!PieceRead(f[e \ {x}], q[x])]

\* The greatest of the numbers up to one that is among them.
LEMMA LastIsMax ==
  ASSUME NEW n \in Nat, NEW e \in SUBSET (1..(n + 1)), n + 1 \in e
  PROVE  Kiro!Max(e) = n + 1
<1>1. n + 1 \in e /\ \A y \in e : n + 1 >= y
  OBVIOUS
<1>2. \A x \in e : (\A y \in e : x >= y) => x = n + 1
  OBVIOUS
<1>3. QED
  BY <1>1, <1>2 DEF Kiro!Max

\* The fold over a text of up to three pieces is the one the recursive definition chooses: it exists for none of them,
LEMMA FoldStarts ==
  ASSUME NEW s, NEW q
  PROVE  \E f : KFix(s, q, 0, f)
<1> DEFINE f == [e \in SUBSET (1..0) |-> s]
<1>1. \A e \in SUBSET (1..0) : e = {}
  OBVIOUS
<1>2. f = [e \in SUBSET (1..0) |-> IF e = {} THEN s ELSE LET x == Kiro!Max(e) IN Kiro!PieceRead(f[e \ {x}], q[x])]
  BY <1>1
<1> HIDE DEF f
<1>3. QED
  BY <1>2 DEF KFix

\* for one more,
LEMMA FoldGrows ==
  ASSUME NEW s, NEW q, NEW n \in Nat, NEW f, KFix(s, q, n, f)
  PROVE  \E g : KFix(s, q, n + 1, g)
<1> DEFINE g == [e \in SUBSET (1..(n + 1)) |-> IF n + 1 \in e THEN Kiro!PieceRead(f[e \ {n + 1}], q[n + 1]) ELSE f[e]]
           h(e) == IF e = {} THEN s ELSE LET x == Kiro!Max(e) IN Kiro!PieceRead(g[e \ {x}], q[x])
<1>1. ASSUME NEW e \in SUBSET (1..(n + 1)) PROVE g[e] = h(e)
  <2>1. CASE n + 1 \in e
    <3>1. Kiro!Max(e) = n + 1 /\ e # {}
      BY <2>1, LastIsMax
    <3>2. e \ {n + 1} \in SUBSET (1..(n + 1)) /\ n + 1 \notin e \ {n + 1}
      OBVIOUS
    <3>3. g[e \ {n + 1}] = f[e \ {n + 1}]
      BY <3>2
    <3>4. g[e] = Kiro!PieceRead(f[e \ {n + 1}], q[n + 1])
      BY <2>1
    <3> HIDE DEF g
    <3>5. QED
      BY <3>1, <3>3, <3>4
  <2>2. CASE n + 1 \notin e
    <3>1. e \in SUBSET (1..n)
      <4>1. \A x \in e : x \in 1..n
        BY <2>2
      <4>2. QED
        BY <4>1
    <3>2. g[e] = f[e]
      BY <2>2
    <3>3. \A x : g[e \ {x}] = f[e \ {x}]
      <4> TAKE x
      <4>1. e \ {x} \in SUBSET (1..(n + 1)) /\ n + 1 \notin e \ {x}
        BY <2>2
      <4>2. QED
        BY <4>1
    <3> HIDE DEF g
    <3>4. f[e] = IF e = {} THEN s ELSE LET x == Kiro!Max(e) IN Kiro!PieceRead(f[e \ {x}], q[x])
      <4>1. f = [d \in SUBSET (1..n) |-> IF d = {} THEN s ELSE LET x == Kiro!Max(d) IN Kiro!PieceRead(f[d \ {x}], q[x])]
        BY DEF KFix
      <4>2. QED
        BY <3>1, <4>1
    <3>5. QED
      BY <3>2, <3>3, <3>4
  <2>3. QED
    BY <2>1, <2>2
<1>2. g = [e \in SUBSET (1..(n + 1)) |-> g[e]]
  OBVIOUS
<1>3. g = [e \in SUBSET (1..(n + 1)) |-> h(e)]
  <2> HIDE DEF g, h
  <2>1. QED
    BY <1>1, <1>2
<1> HIDE DEF g
<1>4. QED
  BY <1>3 DEF KFix

\* so for three,
LEMMA FoldExists ==
  ASSUME NEW s, NEW q, NEW n \in {0, 1, 2, 3}
  PROVE  \E f : KFix(s, q, n, f)
<1>1. \E f : KFix(s, q, 0, f)
  BY FoldStarts
<1>2. \A m \in Nat : (\E f : KFix(s, q, m, f)) => \E f : KFix(s, q, m + 1, f)
  BY FoldGrows
<1>3. (\E f : KFix(s, q, 1, f)) /\ (\E f : KFix(s, q, 2, f)) /\ (\E f : KFix(s, q, 3, f))
  BY <1>1, <1>2
<1>4. QED
  BY <1>1, <1>3

\* and goes through them in order.
LEMMA FoldEnds ==
  ASSUME NEW s, NEW q, NEW n \in Nat, NEW f, KFix(s, q, n, f)
  PROVE  /\ f[1..0] = s
         /\ \A k \in 1..n : f[1..k] = Kiro!PieceRead(f[1..(k - 1)], q[k])
<1>1. f = [d \in SUBSET (1..n) |-> IF d = {} THEN s ELSE LET x == Kiro!Max(d) IN Kiro!PieceRead(f[d \ {x}], q[x])]
  BY DEF KFix
<1>2. f[1..0] = s
  <2>1. 1..0 = {} /\ {} \in SUBSET (1..n)
    OBVIOUS
  <2>2. QED
    BY <1>1, <2>1
<1>3. ASSUME NEW k \in 1..n PROVE f[1..k] = Kiro!PieceRead(f[1..(k - 1)], q[k])
  <2>1. 1..k \in SUBSET (1..n) /\ 1..k # {} /\ (1..k) \ {k} = 1..(k - 1)
    OBVIOUS
  <2>2. Kiro!Max(1..k) = k
    <3>1. k - 1 \in Nat /\ (k - 1) + 1 = k
      OBVIOUS
    <3>2. PICK m \in Nat : m = k - 1 /\ k = m + 1
      BY <3>1
    <3>3. 1..(m + 1) \in SUBSET (1..(m + 1)) /\ m + 1 \in 1..(m + 1)
      OBVIOUS
    <3>4. Kiro!Max(1..(m + 1)) = m + 1
      BY <3>3, LastIsMax
    <3>5. QED
      BY <3>2, <3>4
  <2>3. QED
    BY <1>1, <2>1, <2>2
<1>4. QED
  BY <1>2, <1>3

\* and is what reading them one after the other gives.
LEMMA FoldIsRead ==
  ASSUME NEW s, NEW q, NEW n \in {0, 1, 2, 3}, DOMAIN q = 1..n
  PROVE  \E a, b, c :
            /\ n > 0 => a = Kiro!PieceRead(s, q[1])
            /\ n > 1 => b = Kiro!PieceRead(a, q[2])
            /\ n > 2 => c = Kiro!PieceRead(b, q[3])
            /\ Kiro!FoldLeft(Kiro!PieceRead, s, q) = IF n = 0 THEN s ELSE IF n = 1 THEN a ELSE IF n = 2 THEN b ELSE c
<1> DEFINE f == CHOOSE f : KFix(s, q, n, f)
<1>1. Kiro!FoldLeft(Kiro!PieceRead, s, q) = f[1..n]
  BY DEF Kiro!FoldLeft, Kiro!MapThenFoldSet, KFix
<1>2. KFix(s, q, n, f)
  BY FoldExists
<1> HIDE DEF f
<1>3. f[1..0] = s /\ \A k \in 1..n : f[1..k] = Kiro!PieceRead(f[1..(k - 1)], q[k])
  BY <1>2, FoldEnds
<1>4. /\ n > 0 => f[1..1] = Kiro!PieceRead(f[1..0], q[1])
      /\ n > 1 => f[1..2] = Kiro!PieceRead(f[1..1], q[2])
      /\ n > 2 => f[1..3] = Kiro!PieceRead(f[1..2], q[3])
  <2>1. (n > 0 => 1 \in 1..n) /\ (n > 1 => 2 \in 1..n) /\ (n > 2 => 3 \in 1..n)
    OBVIOUS
  <2>2. 1..(1 - 1) = 1..0 /\ 1..(2 - 1) = 1..1 /\ 1..(3 - 1) = 1..2
    OBVIOUS
  <2>3. n > 0 => f[1..1] = Kiro!PieceRead(f[1..(1 - 1)], q[1])
    BY ONLY <1>3, <2>1
  <2>4. n > 1 => f[1..2] = Kiro!PieceRead(f[1..(2 - 1)], q[2])
    BY ONLY <1>3, <2>1
  <2>5. n > 2 => f[1..3] = Kiro!PieceRead(f[1..(3 - 1)], q[3])
    BY ONLY <1>3, <2>1
  <2>6. QED
    BY ONLY <2>2, <2>3, <2>4, <2>5
<1>5. f[1..n] = IF n = 0 THEN s ELSE IF n = 1 THEN f[1..1] ELSE IF n = 2 THEN f[1..2] ELSE f[1..3]
  BY <1>3
<1>6. QED
  BY <1>1, <1>3, <1>4, <1>5

\* The words of some pieces; whether there is an odd number of tags, of three pieces at most, among them; and
\* that they are all new to the client, and once there.
PWords(q) == UNION {q[k].words : k \in DOMAIN q}
KTag(q, k) == k \in DOMAIN q /\ q[k].sort = "tag"
OddTags(q) == KTag(q, 1) <=> (KTag(q, 2) <=> KTag(q, 3))
KNew(s, q) == /\ \A k \in DOMAIN q : /\ q[k] \in KPiece /\ (q[k].sort = "tag" => q[k].words = {})
                                     /\ q[k].words \cap s.client.heard = {}
              /\ \A j, k \in DOMAIN q : j # k => q[j].words \cap q[k].words = {}

\* So a text tells the words of its pieces and turns the mode over at each tag.
LEMMA KiroTextIsRead ==
  ASSUME NEW s, KFlows(s), KMode(s), NEW q, NEW n \in {0, 1, 2, 3}, DOMAIN q = 1..n, KNew(s, q)
  PROVE  KRead(s, Kiro!FoldLeft(Kiro!PieceRead, s, q), PWords(q), OddTags(q))
<1> DEFINE t == Kiro!FoldLeft(Kiro!PieceRead, s, q)
<1>1. PICK a, b, c :
            /\ n > 0 => a = Kiro!PieceRead(s, q[1])
            /\ n > 1 => b = Kiro!PieceRead(a, q[2])
            /\ n > 2 => c = Kiro!PieceRead(b, q[3])
            /\ t = IF n = 0 THEN s ELSE IF n = 1 THEN a ELSE IF n = 2 THEN b ELSE c
  BY FoldIsRead, ZenonT(40)
<1> HIDE DEF t
<1>2. /\ \A k \in 1..n : /\ q[k] \in KPiece /\ (q[k].sort = "tag" => q[k].words = {})
                         /\ q[k].words \cap s.client.heard = {}
      /\ \A j, k \in 1..n : j # k => q[j].words \cap q[k].words = {}
  BY DEF KNew
<1>3. (n > 0 => 1 \in 1..n) /\ (n > 1 => 2 \in 1..n) /\ (n > 2 => 3 \in 1..n)
  OBVIOUS
<1>4. n > 0 => KRead(s, a, q[1].words, q[1].sort = "tag")
  <2> SUFFICES ASSUME n > 0 PROVE KRead(s, a, q[1].words, q[1].sort = "tag")
    OBVIOUS
  <2>1. PICK p \in KPiece : p = q[1]
    BY <1>2, <1>3
  <2>2. p.words \cap s.client.heard = {} /\ (p.sort = "tag" => p.words = {}) /\ a = Kiro!PieceRead(s, p)
    BY <1>1, <1>2, <1>3, <2>1
  <2>3. KRead(s, a, p.words, p.sort = "tag")
    BY <2>2, KiroPieceRead
  <2>4. QED
    BY ONLY <2>1, <2>3
<1>5. n > 1 => KRead(a, b, q[2].words, q[2].sort = "tag")
  <2> SUFFICES ASSUME n > 1 PROVE KRead(a, b, q[2].words, q[2].sort = "tag")
    OBVIOUS
  <2>1. PICK p \in KPiece : p = q[2]
    BY <1>2, <1>3
  <2>2. KFlows(a) /\ KMode(a) /\ a.client.heard = s.client.heard \cup q[1].words
    BY <1>4 DEF KRead
  <2>3. 1 \in 1..n /\ 2 \in 1..n /\ 1 # 2
    BY <1>3
  <2>4. q[1].words \cap q[2].words = {} /\ q[2].words \cap s.client.heard = {}
    BY <1>2, <2>3
  <2>5. p.words \cap a.client.heard = {} /\ (p.sort = "tag" => p.words = {}) /\ b = Kiro!PieceRead(a, p)
    BY <1>1, <1>2, <1>3, <2>1, <2>2, <2>4
  <2>6. KRead(a, b, p.words, p.sort = "tag")
    BY <2>2, <2>5, KiroPieceRead
  <2>7. QED
    BY ONLY <2>1, <2>6
<1>6. n > 2 => KRead(b, c, q[3].words, q[3].sort = "tag")
  <2> SUFFICES ASSUME n > 2 PROVE KRead(b, c, q[3].words, q[3].sort = "tag")
    OBVIOUS
  <2>1. PICK p \in KPiece : p = q[3]
    BY <1>2, <1>3
  <2>2. KFlows(b) /\ KMode(b) /\ b.client.heard = s.client.heard \cup q[1].words \cup q[2].words
    BY <1>4, <1>5 DEF KRead
  <2>3. 1 \in 1..n /\ 2 \in 1..n /\ 3 \in 1..n /\ 1 # 3 /\ 2 # 3
    BY <1>3
  <2>4. q[1].words \cap q[3].words = {} /\ q[2].words \cap q[3].words = {} /\ q[3].words \cap s.client.heard = {}
    BY <1>2, <2>3
  <2>5. p.words \cap b.client.heard = {} /\ (p.sort = "tag" => p.words = {}) /\ c = Kiro!PieceRead(b, p)
    BY <1>1, <1>2, <1>3, <2>1, <2>2, <2>4
  <2>6. KRead(b, c, p.words, p.sort = "tag")
    BY <2>2, <2>5, KiroPieceRead
  <2>7. QED
    BY ONLY <2>1, <2>6
<1>7. CASE n = 0
  <2>1. 1..0 = {} /\ DOMAIN q = 1..0
    BY <1>7
  <2>2. DOMAIN q = {}
    BY ONLY <2>1
  <2>3. PWords(q) = {} /\ ~OddTags(q)
    BY <2>2 DEF PWords, OddTags, KTag
  <2>4. t = s
    BY <1>1, <1>7
  <2>5. QED
    BY <2>3, <2>4 DEF KRead, KKept, t
<1>8. CASE n = 1
  <2>1. 1..1 = {1} /\ DOMAIN q = 1..1 /\ 2 \notin {1} /\ 3 \notin {1}
    BY <1>8
  <2>2. DOMAIN q = {1} /\ 2 \notin DOMAIN q /\ 3 \notin DOMAIN q
    BY ONLY <2>1
  <2>3. PWords(q) = q[1].words /\ (OddTags(q) <=> q[1].sort = "tag")
    BY <2>2 DEF PWords, OddTags, KTag
  <2>4. KRead(s, t, q[1].words, q[1].sort = "tag")
    BY <1>1, <1>4, <1>8
  <2>5. QED
    BY <2>3, <2>4 DEF KRead, t
<1>9. CASE n = 2
  <2>1. 1..2 = {1, 2} /\ DOMAIN q = 1..2 /\ 3 \notin {1, 2}
    BY <1>9
  <2>2. DOMAIN q = {1, 2} /\ 3 \notin DOMAIN q
    BY ONLY <2>1
  <2>3. PWords(q) = q[1].words \cup q[2].words
    BY <2>2 DEF PWords
  <2>4. OddTags(q) <=> ~(q[1].sort = "tag" <=> q[2].sort = "tag")
    BY <2>2 DEF OddTags, KTag
  <2>5. t = b /\ KRead(s, a, q[1].words, q[1].sort = "tag") /\ KRead(a, b, q[2].words, q[2].sort = "tag")
    BY <1>1, <1>4, <1>5, <1>9
  <2>6. KFlows(t) /\ KMode(t)
    BY <2>5 DEF KRead
  <2>7. KKept(s, t) /\ t.client.heard = s.client.heard \cup PWords(q)
    BY <2>3, <2>5 DEF KRead, KKept
  <2>8. t.inThink <=> (s.inThink <=> ~OddTags(q))
    BY <2>4, <2>5 DEF KRead
  <2>9. QED
    BY <2>6, <2>7, <2>8 DEF KRead, t
<1>10. CASE n = 3
  <2>1. 1..3 = {1, 2, 3} /\ DOMAIN q = 1..3
    BY <1>10
  <2>2. DOMAIN q = {1, 2, 3}
    BY ONLY <2>1
  <2>3. PWords(q) = q[1].words \cup q[2].words \cup q[3].words
    BY <2>2 DEF PWords
  <2>4. OddTags(q) <=> ~(~(q[1].sort = "tag" <=> q[2].sort = "tag") <=> q[3].sort = "tag")
    BY <2>2 DEF OddTags, KTag
  <2>5. /\ t = c /\ KRead(s, a, q[1].words, q[1].sort = "tag") /\ KRead(a, b, q[2].words, q[2].sort = "tag")
        /\ KRead(b, c, q[3].words, q[3].sort = "tag")
    BY <1>1, <1>4, <1>5, <1>6, <1>10
  <2>6. KFlows(t) /\ KMode(t)
    BY <2>5 DEF KRead
  <2>7. KKept(s, t) /\ t.client.heard = s.client.heard \cup PWords(q)
    BY <2>3, <2>5 DEF KRead, KKept
  <2>8. t.inThink <=> (s.inThink <=> ~OddTags(q))
    BY <2>4, <2>5 DEF KRead
  <2>9. QED
    BY <2>6, <2>7, <2>8 DEF KRead, t
<1>11. QED
  BY <1>7, <1>8, <1>9, <1>10

\* What is left for the next text.
KMaybe(p) == p.sort \in {"half", "angle"}
KHolds(s, t, q, n) ==
    /\ KFlows(t) /\ KMode(t)
    /\ t.official = s.official /\ t.tool = s.tool /\ t.processed = s.processed /\ t.reason = s.reason
    /\ t.inThink <=> (s.inThink <=> ~OddTags(q))
    /\ t.client.heard \cup PWords(t.pending) = s.client.heard \cup PWords(q)
    /\ PWords(t.pending) \cap t.client.heard = {}
    /\ KMaybe(q[n]) => t.pending = <<q[n]>>
    /\ ~KMaybe(q[n]) => t.pending = <<>>

\* The words of one piece, and of none.
LEMMA PWordsOfOne ==
  /\ \A p : PWords(<<p>>) = p.words
  /\ PWords(<<>>) = {}
<1>1. ASSUME NEW p PROVE PWords(<<p>>) = p.words
  <2> DEFINE q == <<p>>
  <2>1. DOMAIN q = {1} /\ q[1] = p
    OBVIOUS
  <2> HIDE DEF q
  <2>2. PWords(q) = p.words
    BY <2>1 DEF PWords
  <2>3. QED
    BY <2>2 DEF q
<1>2. PWords(<<>>) = {}
  BY DEF PWords
<1>3. QED
  BY <1>1, <1>2

\* All but the last of some pieces.
LEMMA KiroFront ==
  ASSUME NEW s, NEW q \in Seq(KPiece), NEW n \in {1, 2, 3}, Len(q) = n, KNew(s, q), KMaybe(q[n])
  PROVE  LET g == Kiro!Front(q) IN
         /\ DOMAIN g = 1..(n - 1) /\ KNew(s, g) /\ (OddTags(g) <=> OddTags(q))
         /\ PWords(q) = PWords(g) \cup q[n].words /\ PWords(g) \cap q[n].words = {}
<1> DEFINE g == Kiro!Front(q)
<1>1. g = SubSeq(q, 1, n - 1)
  BY DEF Kiro!Front
<1>2. DOMAIN q = 1..n /\ \A i \in 1..(n - 1) : q[i] \in KPiece
  BY LenProperties
<1>3. g \in Seq(KPiece) /\ Len(g) = n - 1 /\ \A i \in 1..(n - 1) : g[i] = q[i]
  <2>1. /\ SubSeq(q, 1, n - 1) \in Seq(KPiece)
        /\ Len(SubSeq(q, 1, n - 1)) = IF 1 <= n - 1 THEN (n - 1) - 1 + 1 ELSE 0
        /\ \A i \in 1..((n - 1) - 1 + 1) : SubSeq(q, 1, n - 1)[i] = q[1 + i - 1]
    <3>1. 1 \in Int /\ n - 1 \in Int
      OBVIOUS
    <3>2. QED
      BY <1>2, <3>1, SubSeqProperties
  <2>2. (IF 1 <= n - 1 THEN (n - 1) - 1 + 1 ELSE 0) = n - 1 /\ (n - 1) - 1 + 1 = n - 1
    OBVIOUS
  <2>3. \A i \in 1..(n - 1) : 1 + i - 1 = i
    OBVIOUS
  <2> HIDE DEF g
  <2>4. QED
    BY ONLY <1>1, <2>1, <2>2, <2>3
<1> HIDE DEF g
<1>4. DOMAIN g = 1..(n - 1)
  BY <1>3, LenProperties
<1>5. n \in 1..n /\ 1..(n - 1) \subseteq 1..n /\ n \notin 1..(n - 1) /\ \A i \in 1..n : i = n \/ i \in 1..(n - 1)
  OBVIOUS
<1>6. KNew(s, g)
  BY ONLY <1>2, <1>3, <1>4, <1>5, KNew(s, q) DEF KNew
<1>7. \A i : KTag(g, i) <=> KTag(q, i)
  <2>1. q[n].sort # "tag"
    BY DEF KMaybe
  <2>2. QED
    BY ONLY <1>2, <1>3, <1>4, <1>5, <2>1 DEF KTag
<1>8. OddTags(g) <=> OddTags(q)
  BY ONLY <1>7 DEF OddTags
<1>9. PWords(q) = PWords(g) \cup q[n].words
  BY ONLY <1>2, <1>3, <1>4, <1>5 DEF PWords
<1>10. PWords(g) \cap q[n].words = {}
  <2>1. \A i \in 1..(n - 1) : g[i].words \cap q[n].words = {}
    BY ONLY <1>2, <1>3, <1>5, KNew(s, q) DEF KNew
  <2>2. QED
    BY ONLY <1>4, <2>1 DEF PWords
<1>11. QED
  BY <1>4, <1>6, <1>8, <1>9, <1>10 DEF g

\* A text is read, but for the end that may be the beginning of a tag.
LEMMA KiroTagsRead ==
  ASSUME NEW s, KFlows(s), KMode(s), NEW text, NEW q \in Seq(KPiece), q = Kiro!Joined(s.pending, text),
         NEW n \in {1, 2, 3}, Len(q) = n, KNew(s, q)
  PROVE  KHolds(s, Kiro!TagsRead(s, text), q, n)
<1> DEFINE taken == IF Kiro!MaybeTag(q) THEN Kiro!Front(q) ELSE q
           u == Kiro!FoldLeft(Kiro!PieceRead, s, taken)
           h == Kiro!Held(q)
           t == Kiro!TagsRead(s, text)
<1>1. t = [u EXCEPT !.pending = h]
  BY DEF Kiro!TagsRead
<1>2. Kiro!Last(q) = q[n] /\ (Kiro!MaybeTag(q) <=> KMaybe(q[n]))
  BY DEF Kiro!Last, Kiro!MaybeTag, KMaybe
<1>3. h = IF KMaybe(q[n]) THEN <<q[n]>> ELSE <<>>
  BY <1>2 DEF Kiro!Held
<1>4. q[n] \in KPiece
  <2>1. n \in 1..Len(q)
    OBVIOUS
  <2>2. QED
    BY <2>1, ElementOfSeq
<1>5. h \in Seq(KPiece)
  BY <1>3, <1>4
<1>6. \E m \in {0, 1, 2, 3} : DOMAIN taken = 1..m
  <2>1. CASE KMaybe(q[n])
    <3>1. DOMAIN taken = 1..(n - 1)
      BY <1>2, <2>1, KiroFront
    <3>2. n - 1 \in {0, 1, 2, 3}
      OBVIOUS
    <3>3. QED
      BY ONLY <3>1, <3>2
  <2>2. CASE ~KMaybe(q[n])
    BY <1>2, <2>2, LenProperties
  <2>3. QED
    BY <2>1, <2>2
<1>7. /\ KNew(s, taken) /\ (OddTags(taken) <=> OddTags(q))
      /\ PWords(q) = PWords(taken) \cup PWords(h) /\ PWords(taken) \cap PWords(h) = {}
  <2>1. CASE KMaybe(q[n])
    <3>1. taken = Kiro!Front(q) /\ PWords(h) = q[n].words
      BY <1>2, <1>3, <2>1, PWordsOfOne
    <3>2. PICK g : g = Kiro!Front(q)
      OBVIOUS
    <3>3. /\ KNew(s, g) /\ (OddTags(g) <=> OddTags(q))
          /\ PWords(q) = PWords(g) \cup q[n].words /\ PWords(g) \cap q[n].words = {}
      BY <2>1, <3>2, KiroFront
    <3> HIDE DEF taken, h
    <3>4. QED
      BY ONLY <3>1, <3>2, <3>3
  <2>2. CASE ~KMaybe(q[n])
    <3>1. taken = q /\ PWords(h) = {}
      BY <1>2, <1>3, <2>2, PWordsOfOne
    <3>2. QED
      BY <3>1
  <2>3. QED
    BY <2>1, <2>2
<1>8. PWords(h) \cap s.client.heard = {}
  <2>1. CASE KMaybe(q[n])
    <3>1. PWords(h) = q[n].words
      BY <1>3, <2>1, PWordsOfOne
    <3>2. n \in DOMAIN q
      <4>1. DOMAIN q = 1..n /\ n \in 1..n
        BY LenProperties
      <4>2. QED
        BY <4>1
    <3>3. QED
      BY <3>1, <3>2 DEF KNew
  <2>2. CASE ~KMaybe(q[n])
    BY <1>3, <2>2, PWordsOfOne
  <2>3. QED
    BY <2>1, <2>2
<1> HIDE DEF taken, h
<1>9. KRead(s, u, PWords(taken), OddTags(taken))
  <2>1. PICK m \in {0, 1, 2, 3} : DOMAIN taken = 1..m
    BY <1>6
  <2>2. QED
    BY <1>7, <2>1, KiroTextIsRead
<1> HIDE DEF u, t
<1>10. KFlows(u) /\ KMode(u) /\ KKept(s, u) /\ u.client.heard = s.client.heard \cup PWords(taken)
       /\ (u.inThink <=> (s.inThink <=> ~OddTags(q)))
  BY <1>7, <1>9 DEF KRead
<1>11. u \in KiroConv
  BY <1>10, KiroFields
<1>12. /\ t \in KiroConv /\ KStill(u, t) /\ t.pending = h /\ t.official = u.official /\ t.tool = u.tool
       /\ t.processed = u.processed /\ t.reason = u.reason /\ t.inThink = u.inThink
  BY ONLY <1>1, <1>5, <1>11 DEF KiroConv, KStill
<1>13. KFlows(t) /\ t.client = u.client
  BY <1>10, <1>12, KiroStill DEF KStill
<1>14. KMode(t)
  BY <1>10, <1>12 DEF KMode, KStill
<1>15. t.official = s.official /\ t.tool = s.tool /\ t.processed = s.processed /\ t.reason = s.reason
  BY <1>10, <1>12 DEF KKept
<1>16. t.client.heard \cup PWords(t.pending) = s.client.heard \cup PWords(q) /\ PWords(t.pending) \cap t.client.heard = {}
  BY ONLY <1>7, <1>8, <1>10, <1>12, <1>13
<1>17. (KMaybe(q[n]) => t.pending = <<q[n]>>) /\ (~KMaybe(q[n]) => t.pending = <<>>)
  BY ONLY <1>3, <1>12
<1>18. QED
  BY <1>10, <1>12, <1>13, <1>14, <1>15, <1>16, <1>17 DEF KHolds, t

\* What was held back is joined with the next text.
KTurn(q, k) == k \in DOMAIN q /\ q[k].sort \in {"tag", "rest"}
OddTurns(q) == KTurn(q, 1) <=> ~KTurn(q, 2)
KText(q) == \A k \in DOMAIN q : /\ q[k].sort = "rest" => k = 1
                                /\ q[k].sort \in {"tag", "half", "rest"} => q[k].words = {}
KJoins(s, q, n, P, text, m) ==
    /\ q \in Seq(KPiece) /\ Len(q) = n /\ KNew(s, q) /\ PWords(q) = PWords(P) \cup PWords(text)
    /\ OddTags(q) <=> OddTurns(text)
    /\ KMaybe(q[n]) <=> KMaybe(text[m])
    /\ KMaybe(text[m]) => q[n] = text[m]

\* Nothing was held back,
LEMMA KiroJoinsNone ==
  ASSUME NEW s, NEW text \in Seq(KPiece), NEW m \in {1, 2}, Len(text) = m, KNew(s, text), KText(text),
         text[1].sort # "rest"
  PROVE  KJoins(s, Kiro!Joined(<<>>, text), m, <<>>, text, m)
<1>1. Kiro!Joined(<<>>, text) = text
  <2>1. Kiro!Joined(<<>>, text) = <<>> \o text
    BY DEF Kiro!Joined
  <2>2. QED
    BY <2>1, ConcatEmptySeq
<1>2. DOMAIN text = 1..m
  BY LenProperties
<1>3. 3 \notin 1..m
  OBVIOUS
<1>4. \A k : KTag(text, k) <=> KTurn(text, k)
  <2>1. \A k \in DOMAIN text : text[k].sort # "rest"
    BY DEF KText
  <2>2. QED
    BY <2>1 DEF KTag, KTurn
<1>5. OddTags(text) <=> OddTurns(text)
  <2>1. ~KTag(text, 3)
    BY <1>2, <1>3 DEF KTag
  <2>2. QED
    BY <1>4, <2>1 DEF OddTags, OddTurns
<1>6. PWords(text) = PWords(<<>>) \cup PWords(text)
  BY PWordsOfOne
<1>7. QED
  BY <1>1, <1>5, <1>6 DEF KJoins

\* some words that end like a tag were,
LEMMA KiroJoinsWords ==
  ASSUME NEW s, NEW text \in Seq(KPiece), NEW m \in {1, 2}, Len(text) = m, KNew(s, text), KText(text),
         text[1].sort # "rest", NEW p \in KPiece, p.sort = "angle", p.words \cap s.client.heard = {},
         p.words \cap PWords(text) = {}
  PROVE  KJoins(s, Kiro!Joined(<<p>>, text), m + 1, <<p>>, text, m)
<1> DEFINE q == <<p>> \o text
<1>1. Kiro!Joined(<<p>>, text) = q
  BY DEF Kiro!Joined
<1>2. DOMAIN text = 1..m
  BY LenProperties
<1>3. q \in Seq(KPiece) /\ Len(q) = m + 1 /\ q[1] = p /\ \A k \in 1..m : q[k + 1] = text[k]
  <2>1. <<p>> \in Seq(KPiece) /\ Len(<<p>>) = 1 /\ <<p>>[1] = p
    OBVIOUS
  <2> DEFINE o == <<p>>
  <2>2. o \in Seq(KPiece) /\ Len(o) = 1 /\ o[1] = p
    BY <2>1
  <2> HIDE DEF o
  <2>3. /\ o \o text \in Seq(KPiece) /\ Len(o \o text) = Len(o) + Len(text)
        /\ \A i \in 1..(Len(o) + Len(text)) : (o \o text)[i] = IF i <= Len(o) THEN o[i] ELSE text[i - Len(o)]
    BY <2>2, ConcatProperties
  <2> DEFINE r == o \o text
  <2>4. r \in Seq(KPiece) /\ Len(r) = 1 + m /\ \A i \in 1..(1 + m) : r[i] = IF i <= 1 THEN o[i] ELSE text[i - 1]
    BY <2>2, <2>3
  <2> HIDE DEF r
  <2>5. Len(r) = m + 1 /\ r[1] = p
    BY <2>2, <2>4
  <2>6. \A k \in 1..m : r[k + 1] = text[k]
    <3> TAKE k \in 1..m
    <3>1. k + 1 \in 1..(1 + m) /\ ~(k + 1 <= 1) /\ (k + 1) - 1 = k
      OBVIOUS
    <3>2. QED
      BY <2>4, <3>1
  <2>7. q = r
    BY DEF r, o
  <2> HIDE DEF q
  <2>8. QED
    BY <2>4, <2>5, <2>6, <2>7
<1> HIDE DEF q
<1>4. DOMAIN q = 1..(m + 1)
  BY <1>3, LenProperties
<1>5. \A k \in 1..(m + 1) : k = 1 \/ \E j \in 1..m : k = j + 1
  OBVIOUS
<1>6. \A j \in 1..m : j + 1 \in 1..(m + 1) /\ j + 1 # 1
  OBVIOUS
<1>7. \A j \in 1..m : p.words \cap text[j].words = {}
  BY <1>2 DEF PWords
<1>8. KNew(s, q)
  <2>1. /\ \A k \in 1..m : /\ text[k] \in KPiece /\ (text[k].sort = "tag" => text[k].words = {})
                           /\ text[k].words \cap s.client.heard = {}
        /\ \A j, k \in 1..m : j # k => text[j].words \cap text[k].words = {}
    BY <1>2 DEF KNew
  <2>2. \A k \in 1..(m + 1) : /\ q[k] \in KPiece /\ (q[k].sort = "tag" => q[k].words = {})
                              /\ q[k].words \cap s.client.heard = {}
    BY <1>3, <1>5, <2>1
  <2>3. \A i, k \in 1..(m + 1) : i # k => q[i].words \cap q[k].words = {}
    BY <1>3, <1>5, <1>7, <2>1
  <2>4. QED
    BY <1>4, <2>2, <2>3 DEF KNew
<1>9. PWords(q) = PWords(<<p>>) \cup PWords(text)
  <2>1. PWords(<<p>>) = p.words
    BY PWordsOfOne
  <2>2. 1 \in 1..(m + 1)
    OBVIOUS
  <2>3. PWords(q) = p.words \cup PWords(text)
    BY <1>2, <1>3, <1>4, <1>5, <1>6, <2>2 DEF PWords
  <2>4. QED
    BY <2>1, <2>3
<1>10. OddTags(q) <=> OddTurns(text)
  <2>1. ~KTag(q, 1)
    BY <1>3 DEF KTag
  <2>2. \A k \in 1..m : KTag(q, k + 1) <=> KTurn(text, k)
    <3>1. \A k \in 1..m : text[k].sort # "rest"
      BY <1>2 DEF KText
    <3>2. QED
      BY <1>2, <1>3, <1>4, <1>6, <3>1 DEF KTag, KTurn
  <2>3. (KTag(q, 2) <=> KTurn(text, 1)) /\ (KTag(q, 3) <=> KTurn(text, 2))
    <3>1. CASE m = 2
      <4>1. 1 \in 1..m /\ 2 \in 1..m /\ 1 + 1 = 2 /\ 2 + 1 = 3
        BY <3>1
      <4>2. (KTag(q, 1 + 1) <=> KTurn(text, 1)) /\ (KTag(q, 2 + 1) <=> KTurn(text, 2))
        BY ONLY <2>2, <4>1
      <4>3. QED
        BY ONLY <4>1, <4>2
    <3>2. CASE m = 1
      <4>1. 1 \in 1..m /\ 2 \notin 1..m /\ 3 \notin 1..(m + 1) /\ 1 + 1 = 2
        BY <3>2
      <4>2. KTag(q, 1 + 1) <=> KTurn(text, 1)
        BY ONLY <2>2, <4>1
      <4>3. ~KTag(q, 3) /\ ~KTurn(text, 2)
        BY <1>2, <1>4, <4>1 DEF KTag, KTurn
      <4>4. QED
        BY ONLY <4>1, <4>2, <4>3
    <3>3. QED
      BY <3>1, <3>2
  <2>4. QED
    BY <2>1, <2>3 DEF OddTags, OddTurns
<1>11. q[m + 1] = text[m]
  <2>1. m \in 1..m
    OBVIOUS
  <2>2. QED
    BY <1>3, <2>1
<1>12. QED
  BY <1>1, <1>3, <1>8, <1>9, <1>10, <1>11 DEF KJoins

\* or the first half of a tag.
LEMMA KiroJoinsHalf ==
  ASSUME NEW s, NEW text \in Seq(KPiece), NEW m \in {1, 2}, Len(text) = m, KNew(s, text), KText(text),
         text[1].sort = "rest", NEW p \in KPiece, p.sort = "half", p.words = {}
  PROVE  KJoins(s, Kiro!Joined(<<p>>, text), m, <<p>>, text, m)
<1> DEFINE o == [p EXCEPT !.sort = "tag"]
           q == <<o>> \o Tail(text)
<1>1. o \in KPiece /\ o.sort = "tag" /\ o.words = {}
  BY DEF KPiece
<1>2. Kiro!Joined(<<p>>, text) = q
  <2> DEFINE P == <<p>>
  <2>1. P # <<>> /\ P[1] = p
    OBVIOUS
  <2> HIDE DEF P
  <2>2. Kiro!Joined(P, text) = <<[P[1] EXCEPT !.sort = "tag"]>> \o Tail(text)
    BY <2>1 DEF Kiro!Joined
  <2>3. QED
    BY <2>1, <2>2 DEF P
<1>3. DOMAIN text = 1..m /\ 1 \in 1..m
  BY LenProperties
<1> HIDE DEF o
<1>4. Tail(text) \in Seq(KPiece) /\ Len(Tail(text)) = m - 1 /\ \A i \in 1..(m - 1) : Tail(text)[i] = text[i + 1]
  <2>1. text # <<>>
    OBVIOUS
  <2>2. QED
    BY <2>1, HeadTailProperties
<1>5. q \in Seq(KPiece) /\ Len(q) = m /\ q[1] = o /\ (m = 2 => q[2] = text[2])
  <2> DEFINE a == <<o>>
             b == Tail(text)
  <2>1. a \in Seq(KPiece) /\ Len(a) = 1 /\ a[1] = o
    BY <1>1
  <2>2. b \in Seq(KPiece) /\ Len(b) = m - 1 /\ (m = 2 => b[1] = text[2])
    <3>1. m = 2 => 1 \in 1..(m - 1) /\ 1 + 1 = 2
      OBVIOUS
    <3>2. m = 2 => Tail(text)[1] = text[1 + 1]
      BY <1>4, <3>1
    <3>3. QED
      BY <1>4, <3>2
  <2> HIDE DEF a, b
  <2>3. /\ a \o b \in Seq(KPiece) /\ Len(a \o b) = Len(a) + Len(b)
        /\ \A i \in 1..(Len(a) + Len(b)) : (a \o b)[i] = IF i <= Len(a) THEN a[i] ELSE b[i - Len(a)]
    BY <2>1, <2>2, ConcatProperties
  <2> DEFINE r == a \o b
  <2>4. r \in Seq(KPiece) /\ Len(r) = 1 + (m - 1) /\ \A i \in 1..(1 + (m - 1)) : r[i] = IF i <= 1 THEN a[i] ELSE b[i - 1]
    BY <2>1, <2>2, <2>3
  <2>5. q = r
    BY DEF r, a, b
  <2> HIDE DEF r, q
  <2>6. r[1] = o /\ Len(r) = m
    BY <2>1, <2>4
  <2>7. m = 2 => r[2] = text[2]
    <3>1. m = 2 => 2 \in 1..(1 + (m - 1)) /\ ~(2 <= 1) /\ 2 - 1 = 1
      OBVIOUS
    <3>2. m = 2 => r[2] = b[2 - 1]
      BY <2>4, <3>1
    <3>3. QED
      BY <2>2, <3>1, <3>2
  <2>8. QED
    BY <2>4, <2>5, <2>6, <2>7
<1> HIDE DEF q
<1>6. DOMAIN q = 1..m
  BY <1>5, LenProperties
<1>7. text[1].words = {} /\ \A k \in 1..m : k = 1 \/ (k = 2 /\ m = 2)
  BY <1>3 DEF KText
<1>8. \A k \in 1..m : k # 1 => q[k] = text[k]
  BY <1>5, <1>7
<1>9. KNew(s, q)
  <2>1. /\ \A k \in 1..m : /\ text[k] \in KPiece /\ (text[k].sort = "tag" => text[k].words = {})
                           /\ text[k].words \cap s.client.heard = {}
        /\ \A j, k \in 1..m : j # k => text[j].words \cap text[k].words = {}
    BY <1>3 DEF KNew
  <2>2. \A k \in 1..m : /\ q[k] \in KPiece /\ (q[k].sort = "tag" => q[k].words = {})
                        /\ q[k].words \cap s.client.heard = {}
    BY <1>1, <1>5, <1>8, <2>1
  <2>3. \A i, k \in 1..m : i # k => q[i].words \cap q[k].words = {}
    BY <1>1, <1>5, <1>8, <2>1
  <2>4. QED
    BY <1>6, <2>2, <2>3 DEF KNew
<1>10. PWords(q) = PWords(<<p>>) \cup PWords(text)
  <2>1. PWords(<<p>>) = {}
    BY PWordsOfOne
  <2>2. \A k \in 1..m : q[k].words = text[k].words
    BY <1>1, <1>5, <1>7, <1>8
  <2>3. PWords(q) = PWords(text)
    BY <1>3, <1>6, <2>2 DEF PWords
  <2>4. QED
    BY <2>1, <2>3
<1>11. OddTags(q) <=> OddTurns(text)
  <2>1. KTag(q, 1) /\ KTurn(text, 1)
    BY <1>1, <1>3, <1>5, <1>6 DEF KTag, KTurn
  <2>2. KTag(q, 2) <=> KTurn(text, 2)
    <3>1. 2 \in 1..m => text[2].sort # "rest"
      BY <1>3 DEF KText
    <3>2. QED
      BY <1>3, <1>6, <1>8, <3>1 DEF KTag, KTurn
  <2>3. ~KTag(q, 3)
    <3>1. 3 \notin 1..m
      OBVIOUS
    <3>2. QED
      BY <1>6, <3>1 DEF KTag
  <2>4. QED
    BY <2>1, <2>2, <2>3 DEF OddTags, OddTurns
<1>12. (KMaybe(q[m]) <=> KMaybe(text[m])) /\ (KMaybe(text[m]) => q[m] = text[m])
  <2>1. CASE m = 1
    <3>1. ~KMaybe(q[1]) /\ ~KMaybe(text[1])
      BY <1>1, <1>5 DEF KMaybe
    <3>2. QED
      BY <2>1, <3>1
  <2>2. CASE m = 2
    BY <1>5, <2>2
  <2>3. QED
    BY <2>1, <2>2
<1>13. QED
  BY <1>2, <1>5, <1>9, <1>10, <1>11, <1>12 DEF KJoins

\* What the upstream has said to the end of an event.
KiroUp == [state : {"open", "over", "failed"}, count : Nat, inside : BOOLEAN, half : BOOLEAN, held : BOOLEAN,
           calls : [{1, 2} -> [state : {"new", "going", "done"}, input : SUBSET KSaid]],
           reason : Claude!Reasons, said : SUBSET KSaid]

\* The instance's cardinality is the cardinality.
LEMMA KiroCounts == \A S : Kiro!Cardinality(S) = Cardinality(S)
BY DEF Kiro!Cardinality, Cardinality

\* A piece in two is odd.
LEMMA KiroParity ==
  ASSUME NEW T \in SUBSET {1, 2}
  PROVE  Cardinality(T) % 2 = 1 <=> (1 \in T <=> 2 \notin T)
<1>1. Cardinality({}) = 0 /\ IsFiniteSet({})
  BY FS_EmptySet
<1>2. Cardinality({1}) = 1 /\ Cardinality({2}) = 1 /\ IsFiniteSet({1})
  BY FS_Singleton
<1>3. Cardinality({1, 2}) = 2
  <2>1. {1} \cup {2} = {1, 2} /\ 2 \notin {1}
    OBVIOUS
  <2>2. Cardinality({1} \cup {2}) = 1 + 1
    BY <1>2, <2>1, FS_AddElement
  <2>3. QED
    BY <2>1, <2>2
<1>4. 0 % 2 = 0 /\ 1 % 2 = 1 /\ 2 % 2 = 0
  OBVIOUS
<1>5. T = {} \/ T = {1} \/ T = {2} \/ T = {1, 2}
  OBVIOUS
<1>6. CASE T = {}
  BY <1>1, <1>4, <1>6
<1>7. CASE T = {1}
  BY <1>2, <1>4, <1>7
<1>8. CASE T = {2}
  BY <1>2, <1>4, <1>8
<1>9. CASE T = {1, 2}
  BY <1>3, <1>4, <1>9
<1>10. QED
  BY <1>5, <1>6, <1>7, <1>8, <1>9

\* A text is one or two pieces, of words that are new.
KSays(shape, m) ==
    LET text == Kiro!Pieces(shape) IN
    /\ text \in Seq(KPiece) /\ Len(text) = m /\ KText(text)
    /\ \A k \in 1..m : /\ text[k].sort = shape[k]
                       /\ \A f \in text[k].words : f.event = up.count + 1 /\ f.piece = k /\ f.kind # "tool"
    /\ Kiro!AllWords(text) = PWords(text)
    /\ Kiro!Trimmed(text) = PWords(text)
    /\ Kiro!Last(shape) = shape[m]
    /\ Kiro!InsideAt(shape, Len(shape)) <=> (up.inside <=> ~OddTurns(text))

\* A text the upstream says has one piece or two.
LEMMA KiroSays ==
  ASSUME up \in KiroUp, Quirks = {}, NEW shape \in Kiro!Shapes
  PROVE  \E m \in {1, 2} : KSays(shape, m)
<1> DEFINE text == Kiro!Pieces(shape)
           sorts == {"words", "angle", "tag", "half", "rest"}
<1>1. Kiro!Sorts = sorts
  BY DEF Kiro!Sorts
<1>2. PICK m \in {1, 2} : shape \in [1..m -> sorts]
  <2>1. PICK m \in 1..2 : shape \in [1..m -> sorts]
    BY <1>1 DEF Kiro!Shapes
  <2>2. m \in {1, 2}
    OBVIOUS
  <2>3. QED
    BY <2>1, <2>2
<1>3. Len(shape) = m /\ DOMAIN shape = 1..m
  <2>1. shape \in Seq(sorts)
    BY <1>2
  <2>2. DOMAIN shape = 1..Len(shape) /\ Len(shape) \in Nat /\ DOMAIN shape = 1..m
    BY <1>2, <2>1, LenProperties
  <2>3. PICK L \in Nat : L = Len(shape)
    BY <2>2
  <2>4. DOMAIN shape = 1..L /\ DOMAIN shape = 1..m
    BY <2>2, <2>3
  <2>5. L = m
    BY ONLY <2>4, m \in {1, 2}, L \in Nat
  <2>6. QED
    BY <2>2, <2>3, <2>5
<1>4. up.inside \in BOOLEAN /\ up.count \in Nat /\ up.count + 1 \in Nat
  BY DEF KiroUp
<1>5. \A k \in 1..m, kind \in Claude!Kinds : Kiro!Fragment(k, kind) \in KSaid
  <2> SUFFICES ASSUME NEW k \in 1..m, NEW kind \in Claude!Kinds PROVE Kiro!Fragment(k, kind) \in KSaid
    OBVIOUS
  <2>1. k \in Nat
    OBVIOUS
  <2>2. QED
    BY <1>4, <2>1 DEF Kiro!Fragment, KSaid
<1>6. \A k \in 1..m : /\ text[k].sort = shape[k] /\ text[k].words \in SUBSET KSaid /\ text[k] \in KPiece
                      /\ shape[k] \in {"tag", "half", "rest"} => text[k].words = {}
                      /\ \A f \in text[k].words : f.event = up.count + 1 /\ f.piece = k /\ f.kind # "tool"
  <2> SUFFICES ASSUME NEW k \in 1..m
               PROVE  /\ text[k].sort = shape[k] /\ text[k].words \in SUBSET KSaid /\ text[k] \in KPiece
                      /\ shape[k] \in {"tag", "half", "rest"} => text[k].words = {}
                      /\ \A f \in text[k].words : f.event = up.count + 1 /\ f.piece = k /\ f.kind # "tool"
    OBVIOUS
  <2>1. PICK kind \in {"thinking", "text"} : kind = IF Kiro!InsideAt(shape, k) THEN "thinking" ELSE "text"
    OBVIOUS
  <2> DEFINE F == IF shape[k] \in {"words", "angle", "blank"} THEN {Kiro!Fragment(k, kind)} ELSE {}
  <2>2. text[k] = [sort |-> shape[k], words |-> F]
    BY <1>3, <2>1 DEF Kiro!Pieces
  <2>3. kind \in Claude!Kinds /\ kind # "tool"
    BY DEF Claude!Kinds
  <2>4. F \in SUBSET KSaid /\ (shape[k] \in {"tag", "half", "rest"} => F = {})
    BY <1>5, <2>3
  <2>5. \A f \in F : f.event = up.count + 1 /\ f.piece = k /\ f.kind # "tool"
    BY <2>3 DEF Kiro!Fragment
  <2>6. shape[k] \in sorts
    BY <1>2
  <2> HIDE DEF F, text
  <2>7. text[k].sort = shape[k] /\ text[k].words = F
    BY <2>2
  <2>8. text[k] \in KPiece
    BY <2>2, <2>4, <2>6 DEF KPiece
  <2>9. QED
    BY <2>4, <2>5, <2>7, <2>8
<1>7. DOMAIN text = 1..m /\ text = [k \in 1..m |-> text[k]]
  BY <1>3 DEF Kiro!Pieces
<1>8. Kiro!InsideAt(shape, m) <=> (up.inside <=> ~Kiro!Flips(shape, m))
  <2>1. Kiro!Flips(shape, m) \in BOOLEAN
    BY DEF Kiro!Flips
  <2>2. QED
    BY <1>4, <2>1 DEF Kiro!InsideAt
<1> DEFINE T == {j \in 1..m : shape[j] \in {"tag", "rest"}}
<1>9. Kiro!Flips(shape, m) <=> Cardinality(T) % 2 = 1
  BY KiroCounts DEF Kiro!Flips
<1>10. \A k \in 1..m : shape[k] = "rest" => k = 1
  BY <1>3 DEF Kiro!Shapes
<1> HIDE DEF text
<1>11. text \in Seq(KPiece)
  <2>1. text \in [1..m -> KPiece]
    BY <1>6, <1>7
  <2>2. m \in Nat
    OBVIOUS
  <2>3. QED
    BY ONLY <2>1, <2>2
<1>12. Len(text) = m
  <2>1. Len(text) \in Nat /\ DOMAIN text = 1..Len(text)
    BY ONLY <1>11, LenProperties
  <2>2. QED
    BY ONLY <1>7, <2>1, m \in {1, 2}
<1>13. KText(text)
  BY <1>6, <1>7, <1>10 DEF KText
<1>14. Kiro!AllWords(text) = PWords(text)
  BY DEF Kiro!AllWords, PWords
<1>15. Kiro!Trimmed(text) = PWords(text)
  <2> DEFINE kept == {k \in DOMAIN text : text[k].sort # "blank"}
             within == {k \in DOMAIN text : \E i, j \in kept : i <= k /\ k <= j}
  <2>1. \A k \in DOMAIN text : text[k].sort # "blank"
    BY <1>2, <1>6, <1>7
  <2>2. \A k \in DOMAIN text : k <= k
    BY <1>7
  <2>3. within = DOMAIN text
    BY <2>1, <2>2
  <2>4. Kiro!Trimmed(text) = UNION {text[k].words : k \in within}
    BY DEF Kiro!Trimmed
  <2> HIDE DEF within
  <2>5. QED
    BY <2>3, <2>4 DEF PWords
<1>16. Kiro!Last(shape) = shape[m]
  BY <1>3 DEF Kiro!Last
<1>17. Kiro!Flips(shape, m) <=> OddTurns(text)
  <2>1. T \in SUBSET {1, 2}
    OBVIOUS
  <2> HIDE DEF T
  <2>2. Cardinality(T) % 2 = 1 <=> (1 \in T <=> 2 \notin T)
    BY <2>1, KiroParity
  <2>3. \A j : j \in T <=> KTurn(text, j)
    BY <1>6, <1>7 DEF KTurn, T
  <2>4. QED
    BY <1>9, <2>2, <2>3 DEF OddTurns
<1>18. KSays(shape, m)
  BY ONLY <1>3, <1>6, <1>8, <1>11, <1>12, <1>13, <1>14, <1>15, <1>16, <1>17 DEF KSays, text
<1>19. QED
  BY <1>18

\* What is held back is what the upstream may still make a tag of.
KPended(inside, half, angle, s) ==
    /\ KMode(s) /\ (s.inThink <=> inside)
    /\ ~(half /\ angle)
    /\ half => \E p \in KPiece : s.pending = <<p>> /\ p.sort = "half" /\ p.words = {}
    /\ angle => \E p \in KPiece : s.pending = <<p>> /\ p.sort = "angle"
    /\ ~half /\ ~angle => s.pending = <<>>

\* The calls that are done were processed, the one that goes on is held,
KDone(u, s) == \A c \in {1, 2} : /\ c \in s.processed <=> u.calls[c].state = "done"
                                 /\ u.calls[c].state = "new" => u.calls[c].input = {}
KGoing(u, s) == /\ \A c \in {1, 2} : u.calls[c].state = "going" <=> s.tool # Kiro!NoCall /\ s.tool.id = c
                /\ s.tool # Kiro!NoCall => s.tool.id \in {1, 2} /\ u.calls[s.tool.id].input = s.tool.input

\* and what was said is told, held back as the end of a text, or the input of that call.
KHeld(s) == s.client.heard \cup PWords(s.pending)
KShares(u, s, F) == /\ u.said = KHeld(s) \cup F
                    /\ PWords(s.pending) \cap s.client.heard = {}
                    /\ KHeld(s) \cap F = {}

KDated(n, S) == \A f \in S : f.event <= n

KSide(u, s) == IF s.official THEN s.pending = <<>> ELSE KPended(u.inside, u.half, u.held, s)
KAside(u, s, F) == KFlows(s) /\ KSide(u, s) /\ KDone(u, s) /\ KShares(u, s, F) /\ s.reason = u.reason
KOpen(u, s) == KAside(u, s, s.tool.input) /\ KGoing(u, s)

\* Told of nothing but some fragments.
KTold(s, t, F) == /\ KFlows(t)
                  /\ t.official = s.official /\ t.tool = s.tool /\ t.processed = s.processed /\ t.reason = s.reason
                  /\ KHeld(t) = KHeld(s) \cup F
                  /\ PWords(t.pending) \cap t.client.heard = {}

\* What is new is neither told nor held.
LEMMA KiroNews ==
  ASSUME NEW u \in KiroUp, KDated(u.count, u.said), NEW s, NEW G, KShares(u, s, G), NEW F, \A f \in F : f.event = u.count + 1
  PROVE  F \cap u.said = {} /\ F \cap KHeld(s) = {} /\ F \cap s.client.heard = {} /\ F \cap PWords(s.pending) = {}
         /\ F \cap G = {}
<1>1. PICK n \in Nat : n = u.count
  BY DEF KiroUp
<1>2. ~(n + 1 <= n)
  OBVIOUS
<1>3. F \cap u.said = {}
  BY <1>1, <1>2 DEF KDated
<1>4. KHeld(s) \subseteq u.said /\ G \subseteq u.said
  BY DEF KShares
<1>5. QED
  BY <1>3, <1>4 DEF KHeld

\* A text outside of events of thinking is read,
LEMMA KiroTextTold ==
  ASSUME up \in KiroUp, KDated(up.count, up.said), NEW s, KOpen(up, s), ~s.official, NEW shape, NEW m \in {1, 2},
         KSays(shape, m), up.half <=> shape[1] = "rest"
  PROVE  LET t == Kiro!TagsRead(s, Kiro!Pieces(shape)) IN
         /\ KTold(s, t, Kiro!AllWords(Kiro!Pieces(shape)))
         /\ KPended(Kiro!InsideAt(shape, Len(shape)), Kiro!Last(shape) = "half", Kiro!Last(shape) = "angle", t)
<1> DEFINE text == Kiro!Pieces(shape)
           P == s.pending
           q == Kiro!Joined(P, text)
           t == Kiro!TagsRead(s, text)
<1>1. KFlows(s) /\ KMode(s) /\ KPended(up.inside, up.half, up.held, s) /\ KShares(up, s, s.tool.input)
  BY DEF KOpen, KAside, KSide, KPended
<1>2. /\ text \in Seq(KPiece) /\ Len(text) = m /\ KText(text)
      /\ \A k \in 1..m : /\ text[k].sort = shape[k]
                         /\ \A f \in text[k].words : f.event = up.count + 1 /\ f.piece = k
      /\ Kiro!AllWords(text) = PWords(text) /\ Kiro!Last(shape) = shape[m]
      /\ Kiro!InsideAt(shape, Len(shape)) <=> (up.inside <=> ~OddTurns(text))
  BY DEF KSays
<1> HIDE DEF text
<1>3. DOMAIN text = 1..m /\ 1 \in 1..m /\ m \in 1..m
  BY <1>2, LenProperties
<1>4. PWords(text) \cap s.client.heard = {} /\ PWords(text) \cap PWords(P) = {}
  <2> DEFINE F == PWords(text)
  <2>1. \A f \in F : f.event = up.count + 1
    BY <1>2, <1>3 DEF PWords
  <2> HIDE DEF F, q, t
  <2>2. F \cap s.client.heard = {} /\ F \cap PWords(s.pending) = {}
    BY ONLY <1>1, <2>1, up \in KiroUp, KDated(up.count, up.said), KiroNews
  <2>3. QED
    BY <2>2 DEF F
<1>5. KNew(s, text)
  <2>1. \A k \in 1..m : text[k] \in KPiece /\ (text[k].sort = "tag" => text[k].words = {})
    <3>1. \A k \in 1..m : text[k] \in KPiece
      BY <1>2, <1>3, LenProperties
    <3>2. QED
      BY <1>2, <1>3, <3>1 DEF KText
  <2>2. \A k \in 1..m : text[k].words \cap s.client.heard = {}
    BY <1>3, <1>4 DEF PWords
  <2>3. \A j, k \in 1..m : j # k => text[j].words \cap text[k].words = {}
    BY <1>2
  <2>4. QED
    BY <1>3, <2>1, <2>2, <2>3 DEF KNew
<1>6. \E n \in {1, 2, 3} : KJoins(s, Kiro!Joined(P, text), n, P, text, m)
  <2> HIDE DEF P
  <2>5. m \in {1, 2} /\ text \in Seq(KPiece) /\ Len(text) = m /\ KNew(s, text) /\ KText(text)
    BY <1>2, <1>5
  <2>1. CASE up.half
    <3>1. PICK p \in KPiece : P = <<p>> /\ p.sort = "half" /\ p.words = {}
      BY <1>1, <2>1 DEF KPended, P
    <3>2. text[1].sort = "rest"
      BY <1>2, <1>3, <2>1
    <3>3. KJoins(s, Kiro!Joined(<<p>>, text), m, <<p>>, text, m)
      BY ONLY <2>5, <3>1, <3>2, p \in KPiece, KiroJoinsHalf
    <3>4. m \in {1, 2, 3}
      OBVIOUS
    <3>5. QED
      BY <3>1, <3>3, <3>4
  <2>2. CASE ~up.half /\ up.held
    <3>1. PICK p \in KPiece : P = <<p>> /\ p.sort = "angle"
      BY <1>1, <2>2 DEF KPended, P
    <3>2. text[1].sort # "rest"
      BY <1>2, <1>3, <2>2
    <3>3. p.words = PWords(P)
      BY <3>1, PWordsOfOne
    <3>4. p.words \cap s.client.heard = {} /\ p.words \cap PWords(text) = {}
      BY <1>1, <1>4, <3>3 DEF KShares, P
    <3>5. KJoins(s, Kiro!Joined(<<p>>, text), m + 1, <<p>>, text, m)
      BY ONLY <2>5, <3>1, <3>2, <3>4, p \in KPiece, KiroJoinsWords
    <3>6. m + 1 \in {1, 2, 3}
      OBVIOUS
    <3>7. QED
      BY <3>1, <3>5, <3>6
  <2>3. CASE ~up.half /\ ~up.held
    <3>1. P = <<>> /\ text[1].sort # "rest"
      BY <1>1, <1>2, <1>3, <2>3 DEF KPended, P
    <3>2. KJoins(s, Kiro!Joined(<<>>, text), m, <<>>, text, m)
      BY ONLY <2>5, <3>1, KiroJoinsNone
    <3>3. m \in {1, 2, 3}
      OBVIOUS
    <3>4. QED
      BY <3>1, <3>2, <3>3
  <2>4. QED
    BY <2>1, <2>2, <2>3
<1>7. PICK n \in {1, 2, 3} : KJoins(s, q, n, P, text, m)
  BY <1>6
<1>8. /\ q \in Seq(KPiece) /\ Len(q) = n /\ KNew(s, q) /\ PWords(q) = PWords(P) \cup PWords(text)
      /\ OddTags(q) <=> OddTurns(text)
      /\ KMaybe(q[n]) <=> KMaybe(text[m])
      /\ KMaybe(text[m]) => q[n] = text[m]
  BY <1>7 DEF KJoins
<1>9. KHolds(s, t, q, n)
  <2>1. PICK r : r = q
    OBVIOUS
  <2>2. r = Kiro!Joined(s.pending, text) /\ r \in Seq(KPiece) /\ Len(r) = n /\ KNew(s, r)
    BY <1>8, <2>1
  <2> HIDE DEF q, t
  <2>3. KHolds(s, Kiro!TagsRead(s, text), r, n)
    BY ONLY <1>1, <2>2, n \in {1, 2, 3}, KiroTagsRead
  <2>4. QED
    BY <2>1, <2>3 DEF t
<1> HIDE DEF q, t
<1>10. KTold(s, t, PWords(text))
  <2>1. t.client.heard \cup PWords(t.pending) = s.client.heard \cup PWords(P) \cup PWords(text)
    BY <1>8, <1>9 DEF KHolds
  <2>2. QED
    BY <1>9, <2>1 DEF KHolds, KTold, KHeld
<1>11. KMaybe(text[m]) <=> shape[m] \in {"half", "angle"}
  BY <1>2, <1>3 DEF KMaybe
<1>12. shape[m] \in {"half", "angle"} => t.pending = <<text[m]>> /\ text[m] \in KPiece
  BY <1>3, <1>5, <1>8, <1>9, <1>11 DEF KHolds, KNew
<1>13. shape[m] \notin {"half", "angle"} => t.pending = <<>>
  BY <1>8, <1>9, <1>11 DEF KHolds
<1>14. shape[m] = "half" => text[m].words = {} /\ text[m].sort = "half"
  BY <1>2, <1>3 DEF KText
<1>15. shape[m] = "angle" => text[m].sort = "angle"
  BY <1>2, <1>3
<1>16. t.inThink <=> Kiro!InsideAt(shape, Len(shape))
  BY <1>1, <1>2, <1>8, <1>9 DEF KHolds, KPended
<1>17. KMode(t)
  BY <1>9 DEF KHolds
<1>18. KPended(Kiro!InsideAt(shape, Len(shape)), Kiro!Last(shape) = "half", Kiro!Last(shape) = "angle", t)
  BY ONLY <1>2, <1>12, <1>13, <1>14, <1>15, <1>16, <1>17 DEF KPended
<1>19. QED
  BY <1>2, <1>10, <1>18 DEF t, text

\* The call that stands for none has nothing to tell.
LEMMA KiroNone == Kiro!NoCall \in KCall /\ Kiro!NoCall.input = {} /\ Kiro!NoCall.id = 0
BY DEF Kiro!NoCall, KCall

\* The beginning of a message.
LEMMA KiroBeginning ==
  LET s == Kiro!Started(Kiro!NewConversion) IN
  /\ KFlows(s) /\ KMode(s) /\ ~s.inThink /\ ~s.official /\ s.pending = <<>> /\ s.tool = Kiro!NoCall
  /\ s.processed = {} /\ s.reason = "none" /\ s.client.heard = {}
<1> DEFINE r == Kiro!NewConversion
           s == Kiro!Started(r)
           d == Claude!MessageStart(r.client)
<1>1. r \in KiroConv /\ ~r.started /\ r.client.phase = "new"
  BY KiroNone DEF Kiro!NewConversion, KiroConv, Client, Kiro!Fresh, Claude!Phases, Claude!Reasons
<1>2. /\ r.client.open = {} /\ r.client.next = 0 /\ r.client.tools = 0 /\ r.client.reason = "none" /\ r.client.heard = {}
      /\ r.index = -1 /\ ~r.textOpen /\ ~r.thinkOpen /\ ~r.inThink /\ ~r.official /\ r.pending = <<>>
      /\ r.tool = Kiro!NoCall /\ r.processed = {} /\ r.reason = "none" /\ ~r.hasToolUses
  BY DEF Kiro!NewConversion, Kiro!Fresh
<1>3. s = [r EXCEPT !.started = TRUE, !.client = d]
  BY <1>1, KiroEvents DEF Kiro!Started
<1> HIDE DEF r
<1>4. r.client \in Client(KSaid)
  BY <1>1 DEF KiroConv
<1>5. /\ d \in Client(KSaid) /\ d.phase = "body"
      /\ d.open = r.client.open /\ d.next = r.client.next /\ d.tools = r.client.tools /\ d.reason = r.client.reason
      /\ d.heard = r.client.heard
  BY ONLY <1>1, <1>4, MessageStarts
<1> HIDE DEF s, d
<1>6. /\ s \in KiroConv /\ s.started /\ s.client = d /\ s.index = r.index /\ s.textOpen = r.textOpen
      /\ s.thinkOpen = r.thinkOpen /\ s.inThink = r.inThink /\ s.official = r.official /\ s.pending = r.pending
      /\ s.tool = r.tool /\ s.processed = r.processed /\ s.reason = r.reason /\ s.hasToolUses = r.hasToolUses
  BY ONLY <1>1, <1>3, <1>5 DEF KiroConv
<1>7. 0 = -1 + 1 /\ ~(0 > 0)
  OBVIOUS
<1>8. KBody(s)
  BY ONLY <1>2, <1>5, <1>6, <1>7 DEF KBody
<1>9. KOrder(s) /\ KMode(s)
  BY <1>2, <1>6 DEF KOrder, KMode
<1>10. KBlocks(s)
  BY <1>2, <1>5, <1>6 DEF KBlocks, OpenAt
<1>11. QED
  BY <1>2, <1>5, <1>6, <1>8, <1>9, <1>10 DEF KFlows, s, r

\* Marks are kept of the calls.
KMarks(s, t) == KStill(s, t) /\ t.official = s.official /\ t.pending = s.pending /\ t.inThink = s.inThink
                /\ t.reason = s.reason

\* A reason to end changes nothing else.
LEMMA KiroMarks ==
  ASSUME NEW s, KFlows(s), NEW t, t \in KiroConv, KMarks(s, t)
  PROVE  /\ KFlows(t) /\ KHeld(t) = KHeld(s)
         /\ \A u : KSide(u, s) => KSide(u, t)
         /\ \A u, F : KShares(u, s, F) => KShares(u, t, F)
<1>1. KFlows(t)
  BY KiroStill DEF KMarks
<1>2. t.client = s.client /\ t.pending = s.pending
  BY DEF KMarks, KStill
<1>3. ASSUME NEW u, KSide(u, s) PROVE KSide(u, t)
  <2>1. KMode(s) => KMode(t)
    BY DEF KMarks, KStill, KMode
  <2>2. QED
    BY <1>3, <2>1 DEF KSide, KPended, KMarks
<1>4. KHeld(t) = KHeld(s)
  BY <1>2 DEF KHeld
<1>5. QED
  BY <1>1, <1>2, <1>3, <1>4 DEF KShares

\* A call is told.
LEMMA KiroCallTold ==
  ASSUME NEW s, KFlows(s), NEW call \in KCall, KHeld(s) \cap call.input = {}, PWords(s.pending) \cap s.client.heard = {}
  PROVE  LET t == Kiro!ToolBlock(s, call) IN
         /\ KFlows(t) /\ KSame(s, t) /\ ~t.textOpen /\ KHeld(t) = KHeld(s) \cup call.input
         /\ PWords(t.pending) \cap t.client.heard = {}
         /\ \A u : KSide(u, s) => KSide(u, t)
<1> DEFINE t == Kiro!ToolBlock(s, call)
<1>1. call.input \cap s.client.heard = {} /\ call.input \cap PWords(s.pending) = {}
  BY DEF KHeld
<1>2. /\ KFlows(t) /\ KSame(s, t) /\ ~t.textOpen /\ t.thinkOpen = s.thinkOpen
      /\ t.client.heard = s.client.heard \cup call.input
  BY <1>1, KiroToolBlock
<1> HIDE DEF t
<1>3. KMode(s) => KMode(t)
  BY <1>2 DEF KMode, KSame
<1>4. ASSUME NEW u, KSide(u, s) PROVE KSide(u, t)
  BY <1>2, <1>3, <1>4 DEF KSide, KPended, KSame, KKept
<1>5. t.pending = s.pending
  BY <1>2 DEF KSame, KKept
<1>6. KHeld(t) = KHeld(s) \cup call.input /\ PWords(t.pending) \cap t.client.heard = {}
  BY <1>1, <1>2, <1>5 DEF KHeld
<1>7. QED
  BY <1>2, <1>4, <1>6 DEF t

KAlike(u, w) == w.inside = u.inside /\ w.half = u.half /\ w.held = u.held /\ w.reason = u.reason

\* A call that is listed is told, unless it was before.
LEMMA KiroListed ==
  ASSUME NEW u, NEW s, KOpen(u, s), NEW c \in {1, 2}, u.calls[c].state \in {"new", "done"}, NEW F \in SUBSET KSaid,
         F \cap u.said = {}, NEW w, KAlike(u, w),
         w.said = (IF u.calls[c].state = "new" THEN u.said \cup F ELSE u.said),
         \A d \in {1, 2} : w.calls[d].state = (IF d = c THEN "done" ELSE u.calls[d].state) /\ w.calls[d].input = u.calls[d].input
  PROVE  KOpen(w, Kiro!Listed(s, [id |-> c, input |-> F]))
<1> DEFINE call == [id |-> c, input |-> F]
           x == [s EXCEPT !.processed = @ \cup {call.id}]
           t == Kiro!ToolBlock(x, call)
<1>1. call \in KCall /\ call # Kiro!NoCall /\ call.id = c /\ call.input = F
  BY DEF KCall, Kiro!NoCall
<1>2. KFlows(s) /\ KSide(u, s) /\ KDone(u, s) /\ KShares(u, s, s.tool.input) /\ s.reason = u.reason /\ KGoing(u, s)
  BY DEF KOpen, KAside
<1>3. KSide(w, s)
  BY <1>2 DEF KSide, KAlike
<1>4. CASE u.calls[c].state = "done"
  <2>1. c \in s.processed
    BY <1>2, <1>4 DEF KDone
  <2>2. Kiro!Listed(s, call) = s
    BY <1>1, <2>1 DEF Kiro!Listed
  <2>3. \A d \in {1, 2} : w.calls[d].state = u.calls[d].state /\ w.calls[d].input = u.calls[d].input
    BY <1>4
  <2>4. KDone(w, s) /\ KGoing(w, s)
    BY <1>2, <2>3 DEF KDone, KGoing
  <2>5. KShares(w, s, s.tool.input) /\ s.reason = w.reason
    BY <1>2, <1>4 DEF KShares, KAlike
  <2>6. QED
    BY <1>2, <1>3, <2>2, <2>4, <2>5 DEF KOpen, KAside
<1>5. CASE u.calls[c].state = "new"
  <2>1. c \notin s.processed /\ ~(s.tool # Kiro!NoCall /\ s.tool.id = c)
    BY <1>2, <1>5 DEF KDone, KGoing
  <2>2. Kiro!Listed(s, call) = t
    BY <1>1, <2>1 DEF Kiro!Listed
  <2>3. s \in KiroConv
    BY <1>2, KiroFields
  <2> HIDE DEF t, call
  <2>4. x \in KiroConv /\ KMarks(s, x) /\ x.processed = s.processed \cup {c} /\ x.tool = s.tool
    BY <1>1, <2>3 DEF KiroConv, KMarks, KStill
  <2> HIDE DEF x
  <2>5. KFlows(x) /\ KHeld(x) = KHeld(s) /\ KSide(w, x)
    BY <1>2, <1>3, <2>4, KiroMarks
  <2>6. x.client = s.client /\ x.pending = s.pending
    BY <2>4 DEF KMarks, KStill
  <2>7. KHeld(s) \cap F = {} /\ s.tool.input \cap F = {} /\ PWords(s.pending) \cap s.client.heard = {}
    BY <1>2 DEF KShares
  <2>8. /\ KFlows(t) /\ KSame(x, t) /\ KHeld(t) = KHeld(x) \cup F
        /\ PWords(t.pending) \cap t.client.heard = {}
        /\ KSide(w, t)
    BY <1>1, <2>5, <2>6, <2>7, KiroCallTold DEF t
  <2>9. t.processed = s.processed \cup {c} /\ t.tool = s.tool /\ t.reason = s.reason
    BY <2>4, <2>8 DEF KSame, KKept, KMarks
  <2>10. KDone(w, t)
    BY <1>2, <1>5, <2>9 DEF KDone
  <2>11. KGoing(w, t)
    BY <1>2, <1>5, <2>1, <2>9 DEF KGoing
  <2>12. KShares(w, t, t.tool.input)
    BY <1>2, <1>5, <2>5, <2>7, <2>8, <2>9 DEF KShares
  <2>13. t.reason = w.reason
    BY <1>2, <2>9 DEF KAlike
  <2>14. QED
    BY <2>2, <2>8, <2>10, <2>11, <2>12, <2>13 DEF KOpen, KAside, call
<1>6. QED
  BY <1>4, <1>5

\* What the upstream has sent, and what the converter and the client hold of it.
KiroOver(u, s) == /\ s.client.heard = u.said
                  /\ s.official \/ /\ s.client.phase = "stopped" /\ s.client.reason = Kiro!StopReason(s)
                                   /\ s.hasToolUses <=> s.client.tools > 0
                                   /\ s.reason = u.reason
KiroHolds(u, s) ==
    /\ u \in KiroUp /\ KDated(u.count, u.said)
    /\ u.state = "open" => /\ KOpen(u, Kiro!Started(s))
                           /\ IF u.count = 0 THEN s = Kiro!NewConversion ELSE s.started
    /\ u.state = "failed" => s.client.phase # "broken"
    /\ u.state = "over" => KiroOver(u, s)
KiroInv == KiroHolds(up, conv)

\* The invariant holds initially,
LEMMA KiroBegins == Kiro!Init => KiroInv
<1> SUFFICES ASSUME Kiro!Init PROVE KiroInv
  OBVIOUS
<1> DEFINE s == Kiro!Started(Kiro!NewConversion)
<1>1. /\ up.state = "open" /\ up.count = 0 /\ up.inside = FALSE /\ up.half = FALSE /\ up.held = FALSE /\ up.reason = "none"
      /\ up.said = {} /\ \A c \in {1, 2} : up.calls[c] = [state |-> "new", input |-> {}]
      /\ conv = Kiro!NewConversion
  BY DEF Kiro!Init
<1>2. up \in KiroUp
  BY DEF Kiro!Init, KiroUp, Claude!Reasons
<1>3. KDated(up.count, up.said)
  BY <1>1 DEF KDated
<1>4. /\ KFlows(s) /\ KMode(s) /\ ~s.inThink /\ ~s.official /\ s.pending = <<>> /\ s.tool = Kiro!NoCall
      /\ s.processed = {} /\ s.reason = "none" /\ s.client.heard = {}
  BY KiroBeginning
<1> HIDE DEF s
<1>5. KSide(up, s)
  BY <1>1, <1>4 DEF KSide, KPended
<1>6. KDone(up, s) /\ KGoing(up, s)
  BY <1>1, <1>4 DEF KDone, KGoing
<1>7. KShares(up, s, s.tool.input)
  BY <1>1, <1>4, PWordsOfOne, KiroNone DEF KShares, KHeld
<1>8. KOpen(up, s)
  BY <1>1, <1>4, <1>5, <1>6, <1>7 DEF KOpen, KAside
<1>9. QED
  BY <1>1, <1>2, <1>3, <1>8 DEF KiroInv, KiroHolds, s

\* every event finds the message begun,
LEMMA KiroStarts ==
  ASSUME KiroInv, up.state = "open"
  PROVE  LET s == Kiro!Started(conv) IN
         /\ up \in KiroUp /\ KDated(up.count, up.said) /\ KOpen(up, s) /\ s.official = conv.official
         /\ up.count \in Nat /\ up.count + 1 \in Nat /\ up.count + 1 # 0
         /\ up.count # 0 => s = conv
<1>1. up \in KiroUp /\ KDated(up.count, up.said) /\ KOpen(up, Kiro!Started(conv))
  BY DEF KiroInv, KiroHolds
<1>2. up.count \in Nat
  BY <1>1 DEF KiroUp
<1>3. up.count + 1 \in Nat /\ up.count + 1 # 0
  BY ONLY <1>2
<1>4. CASE up.count = 0
  <2>1. conv = Kiro!NewConversion
    BY <1>4 DEF KiroInv, KiroHolds
  <2>2. ~Kiro!Started(conv).official
    BY <2>1, KiroBeginning
  <2>3. Kiro!Started(conv).official = FALSE /\ conv.official = FALSE
    BY <2>1 DEF Kiro!Started, Kiro!NewConversion
  <2>4. QED
    BY <1>1, <1>2, <1>3, <1>4, <2>3
<1>5. CASE up.count # 0
  <2>1. Kiro!Started(conv) = conv
    BY <1>5 DEF KiroInv, KiroHolds, Kiro!Started
  <2>2. QED
    BY <1>1, <1>2, <1>3, <2>1
<1>6. QED
  BY <1>4, <1>5

\* and leaves it going on.
LEMMA KiroGoesOn ==
  ASSUME NEW u \in KiroUp, KDated(u.count, u.said), u.state = "open", u.count # 0, NEW s, KOpen(u, s)
  PROVE  KiroHolds(u, s)
<1>1. s.started
  BY DEF KOpen, KAside, KFlows, KBody
<1>2. Kiro!Started(s) = s
  BY <1>1 DEF Kiro!Started
<1>3. QED
  BY <1>1, <1>2 DEF KiroHolds

\* What is said of an event is of its date.
LEMMA KiroDated ==
  ASSUME NEW u \in KiroUp, KDated(u.count, u.said), NEW F, F \in SUBSET KSaid, \A f \in F : f.event = u.count + 1,
         NEW said, said \subseteq u.said \cup F
  PROVE  said \in SUBSET KSaid /\ KDated(u.count + 1, said)
<1>1. PICK n \in Nat : n = u.count
  BY DEF KiroUp
<1>2. u.said \in SUBSET KSaid /\ \A f \in u.said : f.event \in Nat /\ f.event <= n
  BY <1>1 DEF KDated, KiroUp, KSaid
<1>3. \A k \in Nat : k <= n => k <= n + 1
  OBVIOUS
<1>4. n + 1 <= n + 1
  OBVIOUS
<1>5. QED
  BY <1>1, <1>2, <1>3, <1>4 DEF KDated

\* The fragment of a call is new, and not of a text.
LEMMA KiroFragment ==
  ASSUME up \in KiroUp
  PROVE  LET f == Kiro!Fragment(0, "tool") IN f \in KSaid /\ f.event = up.count + 1 /\ f.kind = "tool" /\ f.piece = 0
<1>1. up.count \in Nat /\ up.count + 1 \in Nat
  BY DEF KiroUp
<1>2. QED
  BY <1>1 DEF Kiro!Fragment, KSaid, Claude!Kinds

\* A text leaves its words told or held, and the call beside it is listed.
LEMMA KiroSay ==
  ASSUME KiroInv, Quirks = {}, NEW shape \in Kiro!Shapes, NEW c \in {0, 1, 2}, Kiro!Say(shape, c)
  PROVE  KiroInv'
<1> DEFINE b == Kiro!Started(conv)
           text == Kiro!Pieces(shape)
           F == Kiro!AllWords(text)
           f == Kiro!Fragment(0, "tool")
           G == {f}
           call == IF c = 0 THEN Kiro!NoCall ELSE [id |-> c, input |-> G]
           fresh == c # 0 /\ up.calls[c].state = "new"
           more == IF fresh THEN call.input ELSE {}
           said == (up.said \cup F) \cup more
           into == IF fresh THEN [up.calls EXCEPT ![c].state = "done"] ELSE up.calls
           n == up.count + 1
<1>1. /\ up.state = "open"
      /\ up.half <=> shape[1] = "rest"
      /\ conv.official => \A k \in DOMAIN shape : shape[k] \in {"words", "angle", "blank"}
      /\ c # 0 => up.calls[c].state # "going" /\ ~conv.official
      /\ conv' = Kiro!ResponseRead(b, text, call)
  BY DEF Kiro!Say, Kiro!More
<1>2. up' = [up EXCEPT !.count = n, !.said = said, !.inside = Kiro!InsideAt(shape, Len(shape)),
                       !.half = (Kiro!Last(shape) = "half"), !.held = (Kiro!Last(shape) = "angle" /\ ~conv.official),
                       !.calls = into]
  BY DEF Kiro!Say, Kiro!Event
<1>3. /\ up \in KiroUp /\ KDated(up.count, up.said) /\ KOpen(up, b) /\ b.official = conv.official
      /\ up.count \in Nat /\ n \in Nat /\ n # 0
  BY <1>1, KiroStarts
<1>4. PICK m \in {1, 2} : KSays(shape, m)
  BY <1>3, KiroSays
<1>5. /\ text \in Seq(KPiece) /\ Len(text) = m
      /\ \A k \in 1..m : /\ text[k].sort = shape[k]
                         /\ \A e \in text[k].words : e.event = n /\ e.kind # "tool"
      /\ F = PWords(text) /\ Kiro!Trimmed(text) = PWords(text) /\ Kiro!Last(shape) = shape[m]
  BY <1>4 DEF KSays
<1>6. text # <<>>
  BY <1>5
<1> HIDE DEF text
<1>7. DOMAIN text = 1..m /\ \A k \in 1..m : text[k] \in KPiece
  BY <1>5, LenProperties
<1>8. F \in SUBSET KSaid /\ \A e \in F : e.event = n /\ e.kind # "tool"
  BY <1>5, <1>7 DEF PWords, KPiece
<1> HIDE DEF F
<1>9. f \in KSaid /\ f.event = n /\ f.kind = "tool"
  BY <1>3, KiroFragment
<1> HIDE DEF f
<1>10. more \in SUBSET G
  <2>1. fresh => call = [id |-> c, input |-> G]
    OBVIOUS
  <2>2. fresh => call.input = G
    BY <2>1
  <2> HIDE DEF call, fresh, G
  <2>3. QED
    BY <2>2
<1>11. G \in SUBSET KSaid /\ (\A e \in G : e.event = n) /\ G \cap F = {}
  BY <1>8, <1>9
<1>12. said \in SUBSET KSaid /\ KDated(n, said)
  <2> DEFINE new == F \cup more
  <2>1. new \in SUBSET KSaid /\ (\A e \in new : e.event = n) /\ said \subseteq up.said \cup new
    BY <1>8, <1>10, <1>11
  <2> HIDE DEF new, said, n
  <2>2. \A e \in new : e.event = up.count + 1
    BY <2>1 DEF n
  <2>3. said \in SUBSET KSaid /\ KDated(up.count + 1, said)
    BY ONLY <1>3, <2>1, <2>2, KiroDated
  <2>4. QED
    BY <2>3 DEF n
<1>13. /\ into \in [{1, 2} -> [state : {"new", "going", "done"}, input : SUBSET KSaid]]
       /\ \A d \in {1, 2} : into[d].state = (IF fresh /\ d = c THEN "done" ELSE up.calls[d].state) /\ into[d].input = up.calls[d].input
  <2>1. up.calls \in [{1, 2} -> [state : {"new", "going", "done"}, input : SUBSET KSaid]]
    BY <1>3 DEF KiroUp
  <2>2. c \in {1, 2} \/ ~fresh
    OBVIOUS
  <2> HIDE DEF fresh
  <2>3. QED
    BY <2>1, <2>2
<1>14. PICK inside \in BOOLEAN, half \in BOOLEAN, angle \in BOOLEAN :
         /\ inside <=> Kiro!InsideAt(shape, Len(shape))
         /\ half <=> Kiro!Last(shape) = "half"
         /\ angle <=> (Kiro!Last(shape) = "angle" /\ ~conv.official)
  OBVIOUS
<1>15. up' = [up EXCEPT !.count = n, !.said = said, !.inside = inside, !.half = half, !.held = angle, !.calls = into]
  <2>1. Kiro!InsideAt(shape, Len(shape)) \in BOOLEAN
    BY DEF Kiro!InsideAt
  <2>2. Kiro!InsideAt(shape, Len(shape)) = inside
    BY <1>14, <2>1
  <2>3. (Kiro!Last(shape) = "half") = half
    BY <1>14
  <2>4. (Kiro!Last(shape) = "angle" /\ ~conv.official) = angle
    BY <1>14
  <2> HIDE DEF n, said, into
  <2>5. QED
    BY <1>2, <2>2, <2>3, <2>4
<1> DEFINE x == [up EXCEPT !.count = n, !.said = up.said \cup F, !.inside = inside, !.half = half, !.held = angle]
<1>16. KDated(up'.count, up'.said) /\ up' \in KiroUp /\ up'.state = "open" /\ up'.count # 0 /\ up'.said = said /\ up'.calls = into
       /\ up'.inside = inside /\ up'.half = half /\ up'.held = angle /\ up'.reason = up.reason
  <2> HIDE DEF n, said, into
  <2>1. up' \in KiroUp /\ up'.state = up.state /\ up'.count = n /\ up'.said = said /\ up'.calls = into
        /\ up'.inside = inside /\ up'.half = half /\ up'.held = angle /\ up'.reason = up.reason
    BY ONLY <1>3, <1>12, <1>13, <1>15, inside \in BOOLEAN, half \in BOOLEAN, angle \in BOOLEAN DEF KiroUp
  <2>2. QED
    BY <1>1, <1>3, <1>12, <2>1
<1>17. /\ x.said = up.said \cup F /\ x.calls = up.calls /\ x.inside = inside /\ x.half = half /\ x.held = angle
       /\ x.reason = up.reason
  <2> HIDE DEF n
  <2>1. QED
    BY ONLY <1>3 DEF KiroUp, x
<1> HIDE DEF x
<1>18. /\ KFlows(b) /\ KSide(up, b) /\ KDone(up, b) /\ KShares(up, b, b.tool.input) /\ b.reason = up.reason /\ KGoing(up, b)
  BY <1>3 DEF KOpen, KAside
<1>19. F \cap KHeld(b) = {} /\ F \cap b.client.heard = {} /\ F \cap b.tool.input = {} /\ G \cap up.said = {}
  <2>1. (\A e \in F : e.event = up.count + 1) /\ (\A e \in G : e.event = up.count + 1)
    BY <1>8, <1>11
  <2> HIDE DEF n, G, b
  <2>2. F \cap KHeld(b) = {} /\ F \cap b.client.heard = {} /\ F \cap b.tool.input = {}
    BY ONLY <1>3, <1>18, <2>1, KiroNews
  <2>3. G \cap up.said = {}
    BY ONLY <1>3, <1>18, <2>1, KiroNews
  <2>4. QED
    BY <2>2, <2>3
<1> HIDE DEF n, G, b
<1>20. ASSUME NEW t, KFlows(t), KSide(x, t), t.processed = b.processed, t.tool = b.tool, t.reason = b.reason,
              KHeld(t) = KHeld(b) \cup F, PWords(t.pending) \cap t.client.heard = {}
       PROVE  KOpen(x, t)
  <2>1. KDone(x, t) /\ KGoing(x, t)
    BY <1>17, <1>18, <1>20 DEF KDone, KGoing
  <2>2. KShares(x, t, t.tool.input)
    BY <1>17, <1>18, <1>19, <1>20 DEF KShares
  <2>3. QED
    BY <1>17, <1>18, <1>20, <2>1, <2>2 DEF KOpen, KAside
<1>21. CASE conv.official
  <2> DEFINE t == IF F = {} THEN b ELSE Kiro!TextRead(b, F)
  <2>1. c = 0 /\ conv' = t
    BY <1>1, <1>3, <1>5, <1>6, <1>21 DEF Kiro!ResponseRead
  <2>2. b.pending = <<>> /\ PWords(b.pending) = {}
    BY <1>3, <1>18, <1>21, PWordsOfOne DEF KSide
  <2>3. KFlows(t) /\ KSame(b, t) /\ t.client.heard = b.client.heard \cup F
    <3>1. CASE F = {}
      BY <1>18, <3>1 DEF KSame, KKept
    <3>2. CASE F # {}
      BY <1>8, <1>18, <1>19, <3>2, KiroTextRead
    <3>3. QED
      BY <3>1, <3>2
  <2> HIDE DEF t
  <2>4. t.pending = <<>> /\ t.official /\ t.processed = b.processed /\ t.tool = b.tool /\ t.reason = b.reason
    BY <1>3, <1>21, <2>2, <2>3 DEF KSame, KKept
  <2>5. KSide(x, t) /\ PWords(t.pending) = {} /\ KHeld(t) = KHeld(b) \cup F
    BY <2>2, <2>3, <2>4 DEF KSide, KHeld
  <2>6. KOpen(x, t)
    BY <1>20, <2>3, <2>4, <2>5
  <2>7. ~fresh /\ up'.said = x.said /\ up'.calls = x.calls
    BY <1>16, <1>17, <2>1
  <2>8. KOpen(up', t)
    BY <1>16, <1>17, <2>6, <2>7 DEF KOpen, KAside, KSide, KPended, KDone, KShares, KGoing
  <2>9. KiroHolds(up', conv')
    BY <1>16, <2>1, <2>8, KiroGoesOn
  <2>10. QED
    BY <2>9 DEF KiroInv
<1>22. CASE ~conv.official
  <2> DEFINE t == Kiro!TagsRead(b, text)
  <2>1. conv' = Kiro!Listed(t, call)
    BY <1>1, <1>3, <1>6, <1>22 DEF Kiro!ResponseRead
  <2>2. /\ KTold(b, t, F)
        /\ KPended(Kiro!InsideAt(shape, Len(shape)), Kiro!Last(shape) = "half", Kiro!Last(shape) = "angle", t)
    BY ONLY <1>1, <1>3, <1>4, <1>22, m \in {1, 2}, KiroTextTold DEF t, text, F
  <2> HIDE DEF t
  <2>3. /\ KFlows(t) /\ ~t.official /\ t.processed = b.processed /\ t.tool = b.tool /\ t.reason = b.reason
        /\ KHeld(t) = KHeld(b) \cup F /\ PWords(t.pending) \cap t.client.heard = {}
    BY <1>3, <1>22, <2>2 DEF KTold
  <2>4. KSide(x, t)
    BY <1>14, <1>17, <1>22, <2>2, <2>3 DEF KSide, KPended
  <2>5. KOpen(x, t)
    BY <1>20, <2>3, <2>4
  <2>6. KOpen(up', conv')
    <3>1. CASE c = 0
      <4>1. conv' = t
        BY <2>1, <3>1 DEF Kiro!Listed
      <4>2. ~fresh /\ up'.said = x.said /\ up'.calls = x.calls
        BY <1>16, <1>17, <3>1
      <4>3. KOpen(up', t)
        BY <1>16, <1>17, <2>5, <4>2 DEF KOpen, KAside, KSide, KPended, KDone, KShares, KGoing
      <4>4. QED
        BY <4>1, <4>3
    <3>2. CASE c # 0
      <4>1. c \in {1, 2} /\ call = [id |-> c, input |-> G] /\ (fresh <=> up.calls[c].state = "new")
        BY <3>2
      <4>2. x.calls[c].state \in {"new", "done"}
        BY <1>1, <1>3, <1>17, <4>1, <3>2 DEF KiroUp
      <4>3. G \cap x.said = {}
        BY <1>11, <1>17, <1>19
      <4>4. up'.said = IF x.calls[c].state = "new" THEN x.said \cup G ELSE x.said
        <5>1. fresh => call.input = G
          BY <4>1
        <5>2. QED
          BY <1>16, <1>17, <4>1, <5>1
      <4>5. KAlike(x, up')
        BY <1>16, <1>17 DEF KAlike
      <4>6. \A d \in {1, 2} : /\ up'.calls[d].state = (IF d = c THEN "done" ELSE x.calls[d].state)
                              /\ up'.calls[d].input = x.calls[d].input
        BY <1>13, <1>16, <1>17, <4>1, <4>2
      <4>7. PICK w : w = up'
        OBVIOUS
      <4>8. KOpen(w, Kiro!Listed(t, [id |-> c, input |-> G]))
        <5>1. /\ c \in {1, 2} /\ G \in SUBSET KSaid /\ KAlike(x, w)
              /\ w.said = (IF x.calls[c].state = "new" THEN x.said \cup G ELSE x.said)
              /\ \A d \in {1, 2} : /\ w.calls[d].state = (IF d = c THEN "done" ELSE x.calls[d].state)
                                   /\ w.calls[d].input = x.calls[d].input
          BY <1>11, <4>1, <4>4, <4>5, <4>6, <4>7
        <5>2. QED
          BY ONLY <2>5, <4>2, <4>3, <5>1, KiroListed
      <4>9. QED
        BY <2>1, <4>1, <4>7, <4>8
    <3>3. QED
      BY <3>1, <3>2
  <2>7. KiroHolds(up', conv')
    BY <1>16, <2>6, KiroGoesOn
  <2>8. QED
    BY <2>7 DEF KiroInv
<1>23. QED
  BY <1>21, <1>22

\* A call that is listed alone,
LEMMA KiroList ==
  ASSUME KiroInv, NEW c \in {1, 2}, Kiro!List(c)
  PROVE  KiroInv'
<1> DEFINE b == Kiro!Started(conv)
           f == Kiro!Fragment(0, "tool")
           G == {f}
           call == [id |-> c, input |-> G]
           fresh == up.calls[c].state = "new"
           more == IF fresh THEN call.input ELSE {}
           said == up.said \cup more
           into == [up.calls EXCEPT ![c].state = "done"]
           n == up.count + 1
<1>1. up.state = "open" /\ up.calls[c].state # "going" /\ conv' = Kiro!ResponseRead(b, <<>>, call)
  BY DEF Kiro!List, Kiro!More
<1>2. up' = [up EXCEPT !.count = n, !.said = said, !.calls = into]
  BY DEF Kiro!List, Kiro!Event
<1>3. /\ up \in KiroUp /\ KDated(up.count, up.said) /\ KOpen(up, b) /\ up.count \in Nat /\ n \in Nat /\ n # 0
  BY <1>1, KiroStarts
<1>4. conv' = Kiro!Listed(b, call)
  BY <1>1 DEF Kiro!ResponseRead
<1>5. f \in KSaid /\ f.event = n
  BY <1>3, KiroFragment
<1> HIDE DEF f
<1>6. G \in SUBSET KSaid /\ (\A e \in G : e.event = n) /\ more \in SUBSET G /\ (fresh => more = G)
  BY <1>5
<1> HIDE DEF more
<1>7. said \in SUBSET KSaid /\ KDated(n, said)
  <2>1. (\A e \in G : e.event = up.count + 1) /\ said \subseteq up.said \cup G
    BY <1>6
  <2> HIDE DEF G, said, n
  <2>2. said \in SUBSET KSaid /\ KDated(up.count + 1, said)
    BY ONLY <1>3, <1>6, <2>1, KiroDated
  <2>3. QED
    BY <2>2 DEF n
<1>8. /\ into \in [{1, 2} -> [state : {"new", "going", "done"}, input : SUBSET KSaid]]
      /\ \A d \in {1, 2} : into[d].state = (IF d = c THEN "done" ELSE up.calls[d].state) /\ into[d].input = up.calls[d].input
      /\ up.calls[c].state \in {"new", "done"}
  <2>1. up.calls \in [{1, 2} -> [state : {"new", "going", "done"}, input : SUBSET KSaid]]
    BY <1>3 DEF KiroUp
  <2>2. QED
    BY <1>1, <2>1
<1>9. G \cap up.said = {}
  <2>1. \A e \in G : e.event = up.count + 1
    BY <1>6
  <2>2. KShares(up, b, b.tool.input)
    BY <1>3 DEF KOpen, KAside
  <2> HIDE DEF G, n, b
  <2>3. QED
    BY ONLY <1>3, <2>1, <2>2, KiroNews
<1> HIDE DEF n, said, into, G, b
<1>10. /\ up' \in KiroUp /\ up'.state = up.state /\ up'.count = n /\ up'.said = said /\ up'.calls = into
       /\ KAlike(up, up')
  BY ONLY <1>2, <1>3, <1>7, <1>8 DEF KiroUp, KAlike
<1>11. said = IF up.calls[c].state = "new" THEN up.said \cup G ELSE up.said
  BY <1>6 DEF said, more
<1>12. KOpen(up', conv')
  <2>1. PICK w : w = up'
    OBVIOUS
  <2>2. /\ KAlike(up, w) /\ w.said = (IF up.calls[c].state = "new" THEN up.said \cup G ELSE up.said)
        /\ \A d \in {1, 2} : /\ w.calls[d].state = (IF d = c THEN "done" ELSE up.calls[d].state)
                             /\ w.calls[d].input = up.calls[d].input
    BY <1>8, <1>10, <1>11, <2>1
  <2>3. PICK u : u = up
    OBVIOUS
  <2>4. KOpen(w, Kiro!Listed(b, [id |-> c, input |-> G]))
    BY ONLY <1>3, <1>6, <1>8, <1>9, <2>2, c \in {1, 2}, KiroListed
  <2>5. QED
    BY <1>4, <2>1, <2>4
<1>13. KiroHolds(up', conv')
  <2>1. up'.state = "open" /\ up'.count # 0 /\ KDated(up'.count, up'.said)
    BY <1>1, <1>3, <1>7, <1>10
  <2>2. QED
    BY <1>10, <1>12, <2>1, KiroGoesOn
<1>14. QED
  BY <1>13 DEF KiroInv

\* an event of thinking,
LEMMA KiroThink ==
  ASSUME KiroInv, Quirks = {}, Kiro!Think
  PROVE  KiroInv'
<1> DEFINE b == Kiro!Started(conv)
           f == Kiro!Fragment(1, "thinking")
           F == {f}
           n == up.count + 1
           said == up.said \cup F
           r == [b EXCEPT !.official = TRUE]
           x == Kiro!CloseText(r)
           t == Kiro!ThinkingRead(x, F)
<1>1. up.state = "open" /\ ~up.half /\ ~up.held /\ conv' = t
  BY DEF Kiro!Think, Kiro!More, Kiro!ReasoningRead
<1>2. up' = [up EXCEPT !.count = n, !.said = said]
  BY DEF Kiro!Think, Kiro!Event
<1>3. /\ up \in KiroUp /\ KDated(up.count, up.said) /\ KOpen(up, b) /\ up.count \in Nat /\ n \in Nat /\ n # 0
  BY <1>1, KiroStarts
<1>4. f \in KSaid /\ f.event = n
  BY <1>3 DEF Kiro!Fragment, KSaid, Claude!Kinds
<1> HIDE DEF f
<1>5. F \in SUBSET KSaid /\ \A e \in F : e.event = n
  BY <1>4
<1> HIDE DEF F
<1>6. said \in SUBSET KSaid /\ KDated(n, said)
  <2>1. (\A e \in F : e.event = up.count + 1) /\ said \subseteq up.said \cup F
    BY <1>5
  <2> HIDE DEF said, n
  <2>2. said \in SUBSET KSaid /\ KDated(up.count + 1, said)
    BY ONLY <1>3, <1>5, <2>1, KiroDated
  <2>3. QED
    BY <2>2 DEF n
<1>7. /\ KFlows(b) /\ KSide(up, b) /\ KDone(up, b) /\ KShares(up, b, b.tool.input) /\ b.reason = up.reason /\ KGoing(up, b)
  BY <1>3 DEF KOpen, KAside
<1>8. F \cap KHeld(b) = {} /\ F \cap b.client.heard = {} /\ F \cap b.tool.input = {}
  <2>1. \A e \in F : e.event = up.count + 1
    BY <1>5
  <2> HIDE DEF n, b
  <2>2. QED
    BY ONLY <1>3, <1>7, <2>1, KiroNews
<1>9. b.pending = <<>>
  BY <1>1, <1>7 DEF KSide, KPended
<1> HIDE DEF n, said, b, r, x, t
<1>10. /\ up' \in KiroUp /\ up'.state = up.state /\ up'.count = n /\ up'.said = said /\ up'.calls = up.calls
       /\ up'.reason = up.reason
  BY ONLY <1>2, <1>3, <1>6 DEF KiroUp
<1>11. KFlows(r) /\ KStill(b, r) /\ r.official /\ r.pending = b.pending /\ r.tool = b.tool /\ r.processed = b.processed
       /\ r.reason = b.reason
  <2>1. b \in KiroConv
    BY <1>7, KiroFields
  <2>2. r \in KiroConv /\ KStill(b, r) /\ r.official /\ r.pending = b.pending /\ r.tool = b.tool /\ r.processed = b.processed
        /\ r.reason = b.reason
    BY ONLY <2>1 DEF r, KiroConv, KStill
  <2>3. QED
    BY <1>7, <2>2, KiroStill
<1>12. KFlows(x) /\ KSame(r, x) /\ ~x.textOpen /\ x.client.heard = r.client.heard
  BY <1>11, KiroClosesText DEF x
<1>13. x.client.heard = b.client.heard
  BY <1>11, <1>12 DEF KStill
<1>14. KFlows(t) /\ KSame(x, t) /\ t.client.heard = b.client.heard \cup F
  BY <1>5, <1>8, <1>12, <1>13, KiroThinkingRead DEF t
<1>15. t.official /\ t.pending = <<>> /\ t.tool = b.tool /\ t.processed = b.processed /\ t.reason = b.reason
  BY <1>9, <1>11, <1>12, <1>14 DEF KSame, KKept
<1>16. KSide(up', t) /\ PWords(t.pending) = {} /\ PWords(b.pending) = {}
  BY <1>9, <1>15, PWordsOfOne DEF KSide
<1>17. KShares(up', t, t.tool.input)
  BY <1>7, <1>8, <1>10, <1>14, <1>15, <1>16 DEF KShares, KHeld, said
<1>18. KDone(up', t) /\ KGoing(up', t) /\ t.reason = up'.reason
  BY <1>7, <1>10, <1>15 DEF KDone, KGoing
<1>19. KOpen(up', conv')
  BY <1>1, <1>14, <1>16, <1>17, <1>18 DEF KOpen, KAside
<1>20. KiroHolds(up', conv')
  <2>1. up'.state = "open" /\ up'.count # 0 /\ KDated(up'.count, up'.said)
    BY <1>1, <1>3, <1>6, <1>10
  <2>2. QED
    BY <1>10, <1>19, <2>1, KiroGoesOn
<1>21. QED
  BY <1>20 DEF KiroInv

\* and a reason to end leave it going on.
LEMMA KiroGivesReason ==
  ASSUME KiroInv, NEW reason \in Claude!Reasons, Kiro!GiveReason(reason)
  PROVE  KiroInv'
<1> DEFINE b == Kiro!Started(conv)
           n == up.count + 1
           t == [b EXCEPT !.reason = reason]
<1>1. up.state = "open" /\ conv' = t
  BY DEF Kiro!GiveReason, Kiro!More
<1>2. up' = [up EXCEPT !.count = n, !.reason = reason]
  BY DEF Kiro!GiveReason, Kiro!Event
<1>3. /\ up \in KiroUp /\ KDated(up.count, up.said) /\ KOpen(up, b) /\ up.count \in Nat /\ n \in Nat /\ n # 0
  BY <1>1, KiroStarts
<1>4. KDated(n, up.said)
  <2>1. PICK k \in Nat : k = up.count
    BY <1>3
  <2>2. \A e \in up.said : e.event \in Nat /\ e.event <= k
    BY <1>3, <2>1 DEF KDated, KiroUp, KSaid
  <2>3. \A j \in Nat : j <= k => j <= k + 1
    OBVIOUS
  <2>4. QED
    BY <2>1, <2>2, <2>3 DEF KDated
<1> HIDE DEF n, b, t
<1>5. /\ up' \in KiroUp /\ up'.state = up.state /\ up'.count = n /\ up'.said = up.said /\ up'.calls = up.calls
      /\ up'.reason = reason /\ up'.inside = up.inside /\ up'.half = up.half /\ up'.held = up.held
  BY ONLY <1>2, <1>3, reason \in Claude!Reasons DEF KiroUp
<1>6. /\ KFlows(b) /\ KSide(up, b) /\ KDone(up, b) /\ KShares(up, b, b.tool.input) /\ b.reason = up.reason /\ KGoing(up, b)
  BY <1>3 DEF KOpen, KAside
<1>7. b \in KiroConv
  BY <1>6, KiroFields
<1>8. /\ t \in KiroConv /\ KStill(b, t) /\ t.official = b.official /\ t.pending = b.pending /\ t.tool = b.tool
      /\ t.processed = b.processed /\ t.inThink = b.inThink /\ t.reason = reason
  BY ONLY <1>7, reason \in Claude!Reasons DEF t, KiroConv, KStill
<1>9. KFlows(t)
  BY <1>6, <1>8, KiroStill
<1>10. KSide(up', t)
  <2>1. KMode(b) => KMode(t)
    BY <1>8 DEF KMode, KStill
  <2>2. QED
    BY <1>5, <1>6, <1>8, <2>1 DEF KSide, KPended
<1>11. KShares(up', t, t.tool.input)
  BY <1>5, <1>6, <1>8 DEF KShares, KHeld, KStill
<1>12. KDone(up', t) /\ KGoing(up', t) /\ t.reason = up'.reason
  BY <1>5, <1>6, <1>8 DEF KDone, KGoing
<1>13. KOpen(up', conv')
  BY <1>1, <1>9, <1>10, <1>11, <1>12 DEF KOpen, KAside
<1>14. KiroHolds(up', conv')
  <2>1. up'.state = "open" /\ up'.count # 0 /\ KDated(up'.count, up'.said)
    BY <1>1, <1>3, <1>4, <1>5
  <2>2. QED
    BY <1>5, <1>13, <2>1, KiroGoesOn
<1>15. QED
  BY <1>14 DEF KiroInv

\* A call that goes on, or begins, after another one was broken off and told.
KReady(u, s, c, t) ==
    /\ KFlows(t) /\ KSide(u, t) /\ t.reason = u.reason
    /\ u.said = KHeld(t) \cup u.calls[c].input /\ KHeld(t) \cap u.calls[c].input = {}
    /\ PWords(t.pending) \cap t.client.heard = {}
    /\ c \notin t.processed /\ \A d \in {1, 2} : d # c => (d \in t.processed <=> u.calls[d].state # "new")
KUses(s, c, F, ends, truncated, t, call) ==
    Kiro!ToolUseRead(s, c, F, ends, truncated) =
        IF ~ends THEN [t EXCEPT !.tool = call]
        ELSE [IF truncated THEN t ELSE Kiro!ToolBlock(t, call) EXCEPT !.tool = Kiro!NoCall, !.processed = @ \cup {c}]

\* The call a fragment is of is the one that goes on, or nothing is in the way of its being so.
LEMMA KiroToolReady ==
  ASSUME NEW u, u \in KiroUp, NEW s, KOpen(u, s), NEW c \in {1, 2}, u.calls[c].state # "done",
         \A d \in {1, 2} : d # c /\ u.calls[d].state = "going" => u.calls[c].state = "new",
         NEW F, NEW ends, NEW truncated
  PROVE  \E t : /\ KReady(u, s, c, t)
                /\ KUses(s, c, F, ends, truncated, t, [id |-> c, input |-> u.calls[c].input \cup F])
<1> DEFINE call == [id |-> c, input |-> u.calls[c].input \cup F]
           used == Kiro!ToolUseRead(s, c, F, ends, truncated)
<1>1. /\ KFlows(s) /\ KSide(u, s) /\ KDone(u, s) /\ KShares(u, s, s.tool.input) /\ s.reason = u.reason /\ KGoing(u, s)
      /\ s \in KiroConv
  BY KiroFields DEF KOpen, KAside
<1>2. c \notin s.processed /\ \A d \in {1, 2} : u.calls[d].state \in {"new", "going", "done"}
  BY <1>1 DEF KDone, KiroUp
<1>3. CASE s.tool # Kiro!NoCall /\ s.tool.id # c
  <2> DEFINE b == Kiro!ToolBlock(s, s.tool)
             d == s.tool.id
             t == [b EXCEPT !.processed = s.processed \cup {d}]
  <2>1. d \in {1, 2} /\ u.calls[d].state = "going" /\ u.calls[c].state = "new" /\ u.calls[c].input = {}
    <3>1. d \in {1, 2} /\ u.calls[d].state = "going"
      BY <1>1, <1>3 DEF KGoing
    <3>2. u.calls[c].state = "new"
      BY <1>3, <3>1
    <3>3. QED
      BY <1>1, <3>1, <3>2 DEF KDone
  <2>2. d \notin s.processed /\ c \notin s.processed \cup {d}
    <3>1. d \notin s.processed
      BY <1>1, <2>1 DEF KDone
    <3>2. QED
      BY <1>2, <1>3, <3>1
  <2>3. KUses(s, c, F, ends, truncated, t, call)
    <3>1. call = [id |-> c, input |-> F]
      BY <2>1
    <3> HIDE DEF call
    <3>2. KUses(s, c, F, ends, truncated, t, [id |-> c, input |-> F])
      BY <1>3, <2>2 DEF KUses, Kiro!ToolUseRead
    <3>3. QED
      BY <3>1, <3>2
  <2>4. PICK k \in KCall : k = s.tool
    BY <1>1 DEF KiroConv
  <2>5. b = Kiro!ToolBlock(s, k) /\ KHeld(s) \cap k.input = {} /\ PWords(s.pending) \cap s.client.heard = {}
    BY <1>1, <2>4 DEF KShares
  <2> HIDE DEF b
  <2>6. /\ KFlows(b) /\ KSame(s, b) /\ KHeld(b) = KHeld(s) \cup k.input
        /\ PWords(b.pending) \cap b.client.heard = {}
        /\ KSide(u, b)
    BY <1>1, <2>5, KiroCallTold
  <2>7. b \in KiroConv /\ s.processed \cup {d} \in SUBSET {1, 2}
    BY <1>1, <2>1, <2>6, KiroFields DEF KiroConv
  <2> HIDE DEF d
  <2>8. t \in KiroConv /\ KMarks(b, t) /\ t.processed = s.processed \cup {d}
    BY ONLY <2>7 DEF KiroConv, KMarks, KStill
  <2> HIDE DEF t
  <2>9. KFlows(t) /\ KSide(u, t) /\ KHeld(t) = KHeld(b)
    BY <2>6, <2>8, KiroMarks
  <2>10. t.client = b.client /\ t.pending = b.pending /\ t.reason = s.reason
    BY <2>6, <2>8 DEF KMarks, KStill, KSame, KKept
  <2>11. \A e \in {1, 2} : e # c => e = d
    BY <1>3, <2>1 DEF d
  <2>12. u.calls[d].state # "new" /\ d \in t.processed
    BY <2>1, <2>8
  <2>13. u.said = KHeld(t) /\ PWords(t.pending) \cap t.client.heard = {}
    BY <1>1, <2>4, <2>6, <2>9, <2>10 DEF KShares
  <2>14. c \notin t.processed /\ \A e \in {1, 2} : e # c => (e \in t.processed <=> u.calls[e].state # "new")
    BY <2>2, <2>8, <2>11, <2>12
  <2>15. t.reason = u.reason
    BY <1>1, <2>10
  <2>16. KReady(u, s, c, t)
    BY ONLY <2>1, <2>9, <2>13, <2>14, <2>15 DEF KReady
  <2>17. QED
    BY <2>3, <2>16
<1>4. CASE ~(s.tool # Kiro!NoCall /\ s.tool.id # c)
  <2>1. s.tool.input = u.calls[c].input
    <3>1. CASE s.tool = Kiro!NoCall
      <4>1. u.calls[c].state = "new"
        BY <1>1, <1>2, <3>1 DEF KGoing
      <4>2. QED
        BY <1>1, <3>1, <4>1, KiroNone DEF KDone
    <3>2. CASE s.tool # Kiro!NoCall
      BY <1>1, <1>4, <3>2 DEF KGoing
    <3>3. QED
      BY <3>1, <3>2
  <2>2. KUses(s, c, F, ends, truncated, s, call)
    <3>1. [s EXCEPT !.processed = s.processed] = s
      BY <1>1 DEF KiroConv
    <3>2. call = [id |-> c, input |-> s.tool.input \cup F]
      BY <2>1
    <3> HIDE DEF call
    <3>3. KUses(s, c, F, ends, truncated, [s EXCEPT !.processed = s.processed], [id |-> c, input |-> s.tool.input \cup F])
      BY <1>2, <1>4 DEF KUses, Kiro!ToolUseRead
    <3>4. QED
      BY <3>1, <3>2, <3>3
  <2>3. \A d \in {1, 2} : d # c => (d \in s.processed <=> u.calls[d].state # "new")
    <3>1. \A d \in {1, 2} : d # c => u.calls[d].state # "going"
      BY <1>1, <1>4 DEF KGoing
    <3>2. QED
      BY <1>1, <1>2, <3>1 DEF KDone
  <2>4. KReady(u, s, c, s)
    BY <1>1, <1>2, <2>1, <2>3 DEF KReady, KShares
  <2>5. QED
    BY <2>2, <2>4
<1>5. QED
  BY <1>3, <1>4

\* A fragment of a call, its end, or what was said of it before, leaves the stream going on,
LEMMA KiroUseTool ==
  ASSUME KiroInv, Quirks = {}, NEW c \in {1, 2}, NEW ends \in BOOLEAN, NEW truncated \in BOOLEAN,
         Kiro!UseTool(c, ends, truncated)
  PROVE  KiroInv'
<1> DEFINE b == Kiro!Started(conv)
           f == Kiro!Fragment(0, "tool")
           F == IF up.calls[c].state = "done" THEN {} ELSE {f}
           input == up.calls[c].input \cup F
           said == IF truncated THEN up.said \ input ELSE up.said \cup F
           n == up.count + 1
           over == ends \/ up.calls[c].state = "done"
           into == [d \in {1, 2} |->
                      IF d = c THEN [state |-> IF over THEN "done" ELSE "going", input |-> input]
                      ELSE IF up.calls[d].state = "going" THEN [up.calls[d] EXCEPT !.state = "done"]
                      ELSE up.calls[d]]
<1>1. /\ up.state = "open"
      /\ Kiro!Going \ {c} # {} => up.calls[c].state = "new"
      /\ truncated => ends /\ up.calls[c].state # "done"
      /\ conv' = Kiro!ToolUseRead(b, c, F, ends, truncated)
  BY DEF Kiro!UseTool, Kiro!More
<1>2. up' = [up EXCEPT !.count = n, !.said = said, !.calls = into]
  BY DEF Kiro!UseTool, Kiro!Event
<1>3. /\ up \in KiroUp /\ KDated(up.count, up.said) /\ KOpen(up, b) /\ up.count \in Nat /\ n \in Nat /\ n # 0
  BY <1>1, KiroStarts
<1>4. \A d \in {1, 2} : d # c /\ up.calls[d].state = "going" => up.calls[c].state = "new"
  BY <1>1 DEF Kiro!Going
<1>5. F \in SUBSET KSaid /\ (\A e \in F : e.event = n) /\ (up.calls[c].state = "done" => F = {})
  <2>1. f \in KSaid /\ f.event = n
    BY <1>3, KiroFragment
  <2> HIDE DEF f
  <2>2. QED
    BY <2>1
<1> HIDE DEF F
<1>6. up.calls \in [{1, 2} -> [state : {"new", "going", "done"}, input : SUBSET KSaid]]
  BY <1>3 DEF KiroUp
<1>7. input \in SUBSET KSaid
  BY <1>5, <1>6
<1>8. said \in SUBSET KSaid /\ KDated(n, said)
  <2>1. (\A e \in F : e.event = up.count + 1) /\ said \subseteq up.said \cup F
    BY <1>5
  <2> HIDE DEF said, n
  <2>2. said \in SUBSET KSaid /\ KDated(up.count + 1, said)
    BY ONLY <1>3, <1>5, <2>1, KiroDated
  <2>3. QED
    BY <2>2 DEF n
<1>9. /\ into \in [{1, 2} -> [state : {"new", "going", "done"}, input : SUBSET KSaid]]
      /\ into[c].input = input /\ into[c].state = IF over THEN "done" ELSE "going"
      /\ \A d \in {1, 2} : d # c => /\ into[d].input = up.calls[d].input
                                    /\ into[d].state = (IF up.calls[d].state = "new" THEN "new" ELSE "done")
  <2> HIDE DEF input, over
  <2>1. QED
    BY <1>6, <1>7
<1>10. /\ KFlows(b) /\ KSide(up, b) /\ KDone(up, b) /\ KShares(up, b, b.tool.input) /\ b.reason = up.reason /\ KGoing(up, b)
  BY <1>3 DEF KOpen, KAside
<1>11. F \cap up.said = {}
  <2>1. \A e \in F : e.event = up.count + 1
    BY <1>5
  <2> HIDE DEF n, b
  <2>2. QED
    BY ONLY <1>3, <1>10, <2>1, KiroNews
<1>12. /\ up' \in KiroUp /\ up'.state = up.state /\ up'.count = n /\ up'.said = said /\ up'.calls = into /\ KAlike(up, up')
  <2> HIDE DEF n, said, into, b
  <2>1. QED
    BY ONLY <1>2, <1>3, <1>8, <1>9 DEF KiroUp, KAlike
<1> HIDE DEF n, into, b
<1>13. \A s : KSide(up, s) => KSide(up', s)
  BY <1>12 DEF KSide, KAlike
<1>14. up'.reason = up.reason
  BY <1>12 DEF KAlike
<1>15. KOpen(up', conv')
  <2>1. CASE up.calls[c].state = "done"
    <3>1. b.tool = Kiro!NoCall
      BY <1>4, <1>10, <2>1 DEF KGoing
    <3>2. c \in b.processed /\ b \in KiroConv
      BY <1>10, <2>1, KiroFields DEF KDone
    <3> DEFINE t == [b EXCEPT !.processed = b.processed]
    <3>3. conv' = [t EXCEPT !.tool = Kiro!NoCall]
      BY <1>1, <3>1, <3>2 DEF Kiro!ToolUseRead
    <3>4. t = b
      BY ONLY <3>2 DEF KiroConv
    <3> HIDE DEF t
    <3>5. [b EXCEPT !.tool = Kiro!NoCall] = b
      BY ONLY <3>1, <3>2 DEF KiroConv
    <3>6. conv' = b
      BY <3>3, <3>4, <3>5
    <3>7. F = {} /\ ~truncated /\ said = up.said /\ input = up.calls[c].input /\ over
      BY <1>1, <1>5, <2>1
    <3>8. \A d \in {1, 2} : into[d].state = up.calls[d].state /\ into[d].input = up.calls[d].input
      <4>1. \A d \in {1, 2} : up.calls[d].state # "going"
        BY <1>10, <3>1 DEF KGoing
      <4>2. QED
        BY <1>6, <1>9, <2>1, <3>7, <4>1
    <3>9. KDone(up', b) /\ KGoing(up', b)
      BY <1>10, <1>12, <3>8 DEF KDone, KGoing
    <3>10. KShares(up', b, b.tool.input)
      BY <1>10, <1>12, <3>7 DEF KShares
    <3>11. KSide(up', b) /\ b.reason = up'.reason
      BY <1>10, <1>13, <1>14
    <3>12. QED
      BY <1>10, <3>6, <3>9, <3>10, <3>11 DEF KOpen, KAside
  <2>2. CASE up.calls[c].state # "done"
    <3> DEFINE call == [id |-> c, input |-> input]
    <3>1. PICK t : KReady(up, b, c, t) /\ KUses(b, c, F, ends, truncated, t, call)
      <4>1. PICK u : u = up
        OBVIOUS
      <4>2. /\ u \in KiroUp /\ KOpen(u, b) /\ u.calls[c].state # "done"
            /\ \A d \in {1, 2} : d # c /\ u.calls[d].state = "going" => u.calls[c].state = "new"
        BY <1>3, <1>4, <2>2, <4>1
      <4>3. \E t : /\ KReady(u, b, c, t)
                   /\ KUses(b, c, F, ends, truncated, t, [id |-> c, input |-> u.calls[c].input \cup F])
        BY ONLY <4>2, c \in {1, 2}, KiroToolReady
      <4>4. QED
        BY <4>1, <4>3
    <3>2. /\ KFlows(t) /\ KSide(up, t) /\ t.reason = up.reason
          /\ up.said = KHeld(t) \cup up.calls[c].input /\ KHeld(t) \cap up.calls[c].input = {}
          /\ PWords(t.pending) \cap t.client.heard = {}
          /\ c \notin t.processed /\ \A d \in {1, 2} : d # c => (d \in t.processed <=> up.calls[d].state # "new")
      BY <3>1 DEF KReady
    <3>3. conv' = IF ~ends THEN [t EXCEPT !.tool = call]
                  ELSE [IF truncated THEN t ELSE Kiro!ToolBlock(t, call) EXCEPT !.tool = Kiro!NoCall,
                                                                                !.processed = @ \cup {c}]
      BY <1>1, <3>1 DEF KUses
    <3>4. call \in KCall /\ call # Kiro!NoCall /\ call.id = c /\ call.input = input
      BY <1>7 DEF KCall, Kiro!NoCall
    <3> HIDE DEF call
    <3>5. KHeld(t) \cap input = {} /\ up.said \cup F = KHeld(t) \cup input
      BY <1>11, <3>2
    <3>6. t \in KiroConv /\ t.processed \in SUBSET {1, 2}
      BY <3>2, KiroFields DEF KiroConv
    <3>7. over <=> ends
      BY <2>2
    <3>8. \A d \in {1, 2} : d # c => (d \in t.processed <=> into[d].state = "done") /\ into[d].state # "going"
      BY <1>9, <3>2
    <3>9. \A d \in {1, 2} : into[d].state = "new" => into[d].input = {}
      <4>1. \A d \in {1, 2} : up.calls[d].state = "new" => up.calls[d].input = {}
        BY <1>10 DEF KDone
      <4> HIDE DEF input, over
      <4>2. QED
        BY <1>9, <4>1
    <3>10. CASE ~ends
      <4> DEFINE r == [t EXCEPT !.tool = call]
      <4>1. conv' = r
        BY <3>3, <3>10
      <4>2. r \in KiroConv /\ KMarks(t, r) /\ r.processed = t.processed /\ r.tool = call
        BY ONLY <3>4, <3>6 DEF KiroConv, KMarks, KStill
      <4> HIDE DEF r
      <4>3. KFlows(r) /\ KHeld(r) = KHeld(t) /\ KSide(up, r) /\ r.client = t.client /\ r.pending = t.pending /\ r.reason = t.reason
        <5>1. KFlows(r) /\ KHeld(r) = KHeld(t) /\ KSide(up, r)
          BY <3>2, <4>2, KiroMarks
        <5>2. QED
          BY <4>2, <5>1 DEF KMarks, KStill
      <4>4. into[c].state = "going" /\ said = up.said \cup F
        BY <1>1, <1>9, <3>7, <3>10
      <4> HIDE DEF said, input, over
      <4>5. KDone(up', r) /\ KGoing(up', r)
        BY <1>9, <1>12, <3>2, <3>4, <3>8, <3>9, <4>2, <4>4 DEF KDone, KGoing
      <4>6. KShares(up', r, r.tool.input)
        BY <1>12, <3>2, <3>4, <3>5, <4>2, <4>3, <4>4 DEF KShares
      <4>7. QED
        BY <1>13, <1>14, <3>2, <4>1, <4>3, <4>5, <4>6 DEF KOpen, KAside
    <3>11. CASE ends
      <4> DEFINE v == IF truncated THEN t ELSE Kiro!ToolBlock(t, call)
                 r == [v EXCEPT !.tool = Kiro!NoCall, !.processed = @ \cup {c}]
      <4>1. conv' = r
        BY <3>3, <3>11
      <4>2. /\ KFlows(v) /\ KSide(up, v) /\ v.reason = t.reason /\ v.processed = t.processed
            /\ PWords(v.pending) \cap v.client.heard = {} /\ said = KHeld(v)
        <5>1. CASE truncated
          BY <3>2, <3>5, <5>1
        <5>2. CASE ~truncated
          <6>1. v = Kiro!ToolBlock(t, call) /\ KHeld(t) \cap call.input = {}
            BY <3>4, <3>5, <5>2
          <6> HIDE DEF v
          <6>2. /\ KFlows(v) /\ KSame(t, v) /\ KHeld(v) = KHeld(t) \cup call.input
                /\ PWords(v.pending) \cap v.client.heard = {}
                /\ KSide(up, v)
            BY <3>2, <3>4, <6>1, KiroCallTold
          <6>3. said = up.said \cup F
            BY <5>2
          <6>4. QED
            BY <3>4, <3>5, <6>2, <6>3 DEF KSame, KKept
        <5>3. QED
          BY <5>1, <5>2
      <4> HIDE DEF v
      <4>3. v \in KiroConv /\ v.processed \cup {c} \in SUBSET {1, 2}
        BY <3>6, <4>2, KiroFields
      <4>4. r \in KiroConv /\ KMarks(v, r) /\ r.processed = v.processed \cup {c} /\ r.tool = Kiro!NoCall
        BY ONLY <4>3, KiroNone DEF KiroConv, KMarks, KStill
      <4> HIDE DEF r
      <4>5. KFlows(r) /\ KHeld(r) = KHeld(v) /\ KSide(up, r) /\ r.client = v.client /\ r.pending = v.pending /\ r.reason = t.reason
        <5>1. KFlows(r) /\ KHeld(r) = KHeld(v) /\ KSide(up, r)
          BY <4>2, <4>4, KiroMarks
        <5>2. QED
          BY <4>2, <4>4, <5>1 DEF KMarks, KStill
      <4>6. into[c].state = "done"
        BY <1>9, <3>7, <3>11
      <4> HIDE DEF said, input, over
      <4>7. KDone(up', r) /\ KGoing(up', r)
        BY <1>9, <1>12, <3>8, <3>9, <4>2, <4>4, <4>6 DEF KDone, KGoing
      <4>8. KShares(up', r, r.tool.input)
        BY <1>12, <4>2, <4>4, <4>5, KiroNone DEF KShares
      <4>9. QED
        BY <1>13, <1>14, <3>2, <4>1, <4>5, <4>7, <4>8 DEF KOpen, KAside
    <3>12. QED
      BY <3>10, <3>11
  <2>3. QED
    BY <2>1, <2>2
<1>16. KiroHolds(up', conv')
  <2>1. up'.state = "open" /\ up'.count # 0 /\ KDated(up'.count, up'.said)
    BY <1>1, <1>3, <1>8, <1>12
  <2>2. QED
    BY <1>12, <1>15, <2>1, KiroGoesOn
<1>17. QED
  BY <1>16 DEF KiroInv

\* What its end does to a stream: a call that goes on is told, and the text is closed.
LEMMA KiroFlushes ==
  ASSUME NEW u, u \in KiroUp, NEW s, KOpen(u, s), ~u.half, ~u.held,
         (\E d \in {1, 2} : u.calls[d].state = "going") => ~s.textOpen
  PROVE  LET t == Kiro!CloseText(Kiro!Flushed(s)) IN
         /\ KFlows(t) /\ ~t.textOpen /\ t.client.heard = u.said /\ t.official = s.official /\ t.reason = s.reason
         /\ KSide(u, t)
<1> DEFINE v == Kiro!Flushed(s)
           t == Kiro!CloseText(v)
<1>1. /\ KFlows(s) /\ KSide(u, s) /\ KDone(u, s) /\ KShares(u, s, s.tool.input) /\ s.reason = u.reason /\ KGoing(u, s)
      /\ s \in KiroConv
  BY KiroFields DEF KOpen, KAside
<1>2. s.pending = <<>>
  BY <1>1 DEF KSide, KPended
<1>3. KFlows(v) /\ v.pending = <<>> /\ v.client.heard = u.said /\ v.official = s.official /\ v.reason = s.reason /\ KSide(u, v)
  <2>1. CASE s.tool = Kiro!NoCall
    <3>1. v = s
      BY <2>1 DEF Kiro!Flushed
    <3>2. s.tool.input = {} /\ PWords(s.pending) = {}
      BY <1>2, <2>1, KiroNone, PWordsOfOne
    <3>3. s.client.heard = u.said
      BY <1>1, <3>2 DEF KShares, KHeld
    <3> HIDE DEF v
    <3>4. QED
      BY <1>1, <1>2, <3>1, <3>3
  <2>2. CASE s.tool # Kiro!NoCall
    <3> DEFINE r == [s EXCEPT !.textOpen = FALSE]
               w == Kiro!ToolBlock(s, s.tool)
    <3>1. s.tool.id \in {1, 2} /\ u.calls[s.tool.id].state = "going"
      BY <1>1, <2>2 DEF KGoing
    <3>2. ~s.textOpen /\ s.tool.id \notin s.processed
      BY <1>1, <3>1 DEF KDone
    <3>3. s.textOpen = FALSE
      BY <1>1, <3>2 DEF KiroConv
    <3>4. r = s
      BY ONLY <1>1, <3>3 DEF KiroConv
    <3>5. v = [Kiro!ToolBlock(r, s.tool) EXCEPT !.textOpen = s.textOpen, !.tool = Kiro!NoCall]
      BY <2>2, <3>2 DEF Kiro!Flushed
    <3> HIDE DEF r
    <3>6. v = [w EXCEPT !.textOpen = FALSE, !.tool = Kiro!NoCall]
      BY <3>3, <3>4, <3>5
    <3>7. PICK k \in KCall : k = s.tool
      BY <1>1 DEF KiroConv
    <3>8. w = Kiro!ToolBlock(s, k) /\ KHeld(s) \cap k.input = {} /\ PWords(s.pending) \cap s.client.heard = {}
      BY <1>1, <3>7 DEF KShares
    <3> HIDE DEF w, v
    <3>9. /\ KFlows(w) /\ KSame(s, w) /\ ~w.textOpen /\ KHeld(w) = KHeld(s) \cup k.input
          /\ PWords(w.pending) \cap w.client.heard = {}
          /\ KSide(u, w)
      BY <1>1, <3>8, KiroCallTold
    <3>10. w \in KiroConv
      BY <3>9, KiroFields
    <3>11. w.textOpen = FALSE
      BY <3>9, <3>10 DEF KiroConv
    <3>12. v \in KiroConv /\ KMarks(w, v)
      BY ONLY <3>6, <3>10, <3>11, KiroNone DEF KiroConv, KMarks, KStill
    <3>13. KFlows(v) /\ KSide(u, v) /\ KHeld(v) = KHeld(w)
      BY <3>9, <3>12, KiroMarks
    <3>14. v.pending = <<>> /\ v.official = s.official /\ v.reason = s.reason
      BY <1>2, <3>9, <3>12 DEF KMarks, KSame, KKept
    <3>15. v.client.heard = u.said
      <4>1. PWords(v.pending) = {}
        BY <3>14, PWordsOfOne
      <4>2. KHeld(v) = u.said
        BY <1>1, <3>7, <3>9, <3>13 DEF KShares
      <4>3. QED
        BY <4>1, <4>2 DEF KHeld
    <3>16. QED
      BY <3>13, <3>14, <3>15
  <2>3. QED
    BY <2>1, <2>2
<1> HIDE DEF v
<1>4. /\ KFlows(t) /\ KSame(v, t) /\ ~t.textOpen /\ t.thinkOpen = v.thinkOpen /\ t.client.heard = v.client.heard
  BY <1>3, KiroClosesText
<1> HIDE DEF t
<1>5. KMode(v) => KMode(t)
  BY <1>4 DEF KMode, KSame
<1>6. KSide(u, t)
  BY <1>3, <1>4, <1>5 DEF KSide, KPended, KSame, KKept
<1>7. QED
  BY <1>3, <1>4, <1>6 DEF KSame, KKept, t, v

\* its end,
LEMMA KiroIsOver ==
  ASSUME KiroInv, Quirks = {}, Kiro!Over
  PROVE  KiroInv'
<1> DEFINE t == Kiro!CloseText(Kiro!Flushed(conv))
           reason == Kiro!StopReason(t)
           d == Claude!MessageDelta(t.client, reason)
           e == Claude!MessageStop(d)
           r == [t EXCEPT !.client = e]
<1>1. /\ up.state = "open" /\ ~up.half /\ ~up.held /\ ~up.inside /\ up.count # 0
      /\ Kiro!Going # {} => ~conv.textOpen
      /\ conv' = Kiro!EndRead(conv) /\ up' = [up EXCEPT !.state = "over"]
  BY DEF Kiro!Over
<1>2. up \in KiroUp /\ KDated(up.count, up.said) /\ KOpen(up, conv)
  BY <1>1, KiroStarts
<1>3. (\E c \in {1, 2} : up.calls[c].state = "going") => ~conv.textOpen
  BY <1>1 DEF Kiro!Going
<1>4. /\ KFlows(t) /\ ~t.textOpen /\ t.client.heard = up.said /\ t.official = conv.official /\ t.reason = conv.reason
      /\ KSide(up, t)
  BY <1>1, <1>2, <1>3, KiroFlushes
<1>5. conv' = r
  BY <1>1, KiroEvents DEF Kiro!EndRead
<1>6. up' \in KiroUp /\ up'.state = "over" /\ up'.count = up.count /\ up'.said = up.said /\ up'.reason = up.reason
  BY ONLY <1>1, <1>2 DEF KiroUp
<1>7. conv.reason = up.reason
  BY <1>2 DEF KOpen, KAside
<1> HIDE DEF t
<1>8. t \in KiroConv /\ t.client \in Client(KSaid) /\ t.client.phase = "body" /\ (t.hasToolUses <=> t.client.tools > 0)
  BY <1>4, KiroFields DEF KFlows, KBody
<1>9. reason \in Claude!Reasons
  <2>1. t.reason \in Claude!Reasons
    BY <1>8 DEF KiroConv
  <2>2. QED
    BY <2>1 DEF Kiro!StopReason, Claude!Reasons
<1> HIDE DEF reason
<1>10. d.heard = t.client.heard /\ e.heard = d.heard
  BY <1>8 DEF Claude!MessageDelta, Claude!MessageStop, Claude!Broken, Client
<1>11. ASSUME ~conv.official
       PROVE  e.phase = "stopped" /\ e.reason = reason /\ e.tools = t.client.tools
  <2>1. ~t.thinkOpen
    BY <1>1, <1>4, <1>11 DEF KSide, KPended, KMode
  <2>2. \A i \in Int, k \in Claude!Kinds : ~OpenAt(t.client, i, k)
    BY <1>4, <2>1 DEF KFlows, KBlocks
  <2>3. PICK c \in Client(KSaid) : c = t.client
    BY <1>8
  <2>4. \A i \in Int, k \in Claude!Kinds : ~OpenAt(c, i, k)
    BY <2>2, <2>3
  <2>5. c.open = {}
    BY ONLY <2>4, c \in Client(KSaid), NoneOpen
  <2>6. c.phase = "body" /\ d = Claude!MessageDelta(c, reason)
    BY <1>8, <2>3
  <2> HIDE DEF d, e
  <2>7. d \in Client(KSaid) /\ d.phase = "ending" /\ d.open = {} /\ d.tools = c.tools /\ d.reason = reason
    BY ONLY <1>9, <2>5, <2>6, c \in Client(KSaid), ReasonTold
  <2>8. e.phase = "stopped" /\ e.tools = d.tools /\ e.reason = d.reason
    BY ONLY <2>7, MessageStops DEF e
  <2>9. QED
    BY <2>3, <2>7, <2>8
<1> HIDE DEF d, e
<1>12. r.client = e /\ r.official = t.official /\ r.reason = t.reason /\ r.hasToolUses = t.hasToolUses
  BY <1>8 DEF KiroConv
<1> HIDE DEF r
<1>13. Kiro!StopReason(r) = reason
  BY <1>12 DEF Kiro!StopReason, reason
<1>14. KiroOver(up', conv')
  BY <1>4, <1>5, <1>6, <1>7, <1>8, <1>10, <1>11, <1>12, <1>13 DEF KiroOver
<1>15. KDated(up'.count, up'.said)
  BY <1>2, <1>6
<1>16. QED
  BY <1>6, <1>14, <1>15 DEF KiroInv, KiroHolds

\* and every step preserve the invariant.
LEMMA KiroStep ==
  ASSUME KiroInv, Quirks = {}, [Kiro!Next]_(Kiro!vars)
  PROVE  KiroInv'
<1>1. ASSUME Kiro!Fail PROVE KiroInv'
  <2>1. up.state = "open" /\ up' = [up EXCEPT !.state = "failed"] /\ conv' \in {conv, Kiro!Started(conv)}
    BY <1>1 DEF Kiro!Fail
  <2>2. up \in KiroUp /\ KDated(up.count, up.said) /\ KOpen(up, Kiro!Started(conv)) /\ (up.count # 0 => Kiro!Started(conv) = conv)
    BY <2>1, KiroStarts
  <2>3. up' \in KiroUp /\ up'.state = "failed" /\ up'.count = up.count /\ up'.said = up.said
    BY ONLY <2>1, <2>2 DEF KiroUp
  <2>4. Kiro!Started(conv).client.phase # "broken"
    BY <2>2 DEF KOpen, KAside, KFlows, KBody
  <2>5. conv.client.phase # "broken"
    <3>1. up.count = 0 => conv = Kiro!NewConversion
      BY <2>1 DEF KiroInv, KiroHolds
    <3>2. Kiro!NewConversion.client.phase # "broken"
      BY DEF Kiro!NewConversion, Kiro!Fresh
    <3>3. QED
      BY <2>2, <2>4, <3>1, <3>2
  <2>6. conv'.client.phase # "broken" /\ KDated(up'.count, up'.said)
    BY <2>1, <2>2, <2>3, <2>4, <2>5
  <2>7. QED
    BY <2>3, <2>6 DEF KiroInv, KiroHolds
<1>2. Kiro!Named \in SUBSET {1, 2} /\ Kiro!Reasons = Claude!Reasons
  BY DEF Kiro!Named, Kiro!Reasons, Claude!Reasons
<1>3. ASSUME Kiro!Next PROVE KiroInv'
  <2>1. ASSUME NEW shape \in Kiro!Shapes, NEW c \in Kiro!Named \cup {0}, Kiro!Say(shape, c) PROVE KiroInv'
    <3>1. c \in {0, 1, 2}
      BY <1>2
    <3>2. QED
      BY <2>1, <3>1, KiroSay
  <2>2. ASSUME NEW c \in Kiro!Named, Kiro!List(c) PROVE KiroInv'
    BY <1>2, <2>2, KiroList
  <2>3. ASSUME NEW c \in Kiro!Named, NEW ends \in BOOLEAN, NEW truncated \in BOOLEAN, Kiro!UseTool(c, ends, truncated)
        PROVE  KiroInv'
    BY <1>2, <2>3, KiroUseTool
  <2>4. ASSUME NEW reason \in Kiro!Reasons, Kiro!GiveReason(reason) PROVE KiroInv'
    BY <1>2, <2>4, KiroGivesReason
  <2>5. QED
    BY <1>1, <1>3, <2>1, <2>2, <2>3, <2>4, KiroThink, KiroIsOver DEF Kiro!Next
<1>4. UNCHANGED Kiro!vars => KiroInv'
  BY DEF Kiro!vars, KiroInv
<1>5. QED
  BY <1>3, <1>4

\* The invariant is what the properties say of the route.
LEMMA KiroFollows ==
  ASSUME KiroInv
  PROVE  Kiro!Grammatical /\ Kiro!ToldAll
<1>1. ASSUME conv.client.phase = "broken" PROVE up.state = "over" /\ conv.official
  <2>1. up \in KiroUp
    BY DEF KiroInv, KiroHolds
  <2>2. up.state # "failed"
    BY <1>1 DEF KiroInv, KiroHolds
  <2>3. up.state # "open"
    <3> SUFFICES ASSUME up.state = "open" PROVE FALSE
      OBVIOUS
    <3>1. KOpen(up, Kiro!Started(conv)) /\ (up.count # 0 => Kiro!Started(conv) = conv)
      BY KiroStarts
    <3>2. Kiro!Started(conv).client.phase # "broken"
      BY <3>1 DEF KOpen, KAside, KFlows, KBody
    <3>3. up.count = 0 => conv = Kiro!NewConversion
      BY DEF KiroInv, KiroHolds
    <3>4. Kiro!NewConversion.client.phase # "broken"
      BY DEF Kiro!NewConversion, Kiro!Fresh
    <3>5. QED
      BY <1>1, <3>1, <3>2, <3>3, <3>4
  <2>4. up.state = "over"
    BY <2>1, <2>2, <2>3 DEF KiroUp
  <2>5. QED
    BY <1>1, <2>4 DEF KiroInv, KiroHolds, KiroOver
<1>2. ASSUME up.state = "over"
      PROVE  /\ conv.client.heard = up.said
             /\ conv.official \/
                   /\ conv.client.phase = "stopped"
                   /\ conv.client.reason = IF up.reason # "none" THEN up.reason
                                           ELSE IF conv.client.tools > 0 THEN "tool_use" ELSE "end_turn"
  <2>1. KiroOver(up, conv)
    BY <1>2 DEF KiroInv, KiroHolds
  <2>2. QED
    BY <2>1 DEF KiroOver, Kiro!StopReason
<1>3. QED
  BY <1>1, <1>2 DEF Kiro!Grammatical, Kiro!ToldAll

\* What every route's converter, and the forwarding beside it, keep.
ConverterInv == /\ route = "openai" => OpenAIInv
                /\ route = "gemini" => GeminiInv
                /\ route = "antigravity" => AntiInv
                /\ route = "codex" => CodexInv
                /\ route = "kiro" => KiroInv

\* Each converter keeps its own.
LEMMA ConvertersKeep ==
  ASSUME Quirks = {}
  PROVE  /\ RouteInit => ConverterInv
         /\ ConverterInv /\ [RouteNext]_moving => ConverterInv'
<1>1. RouteInit => ConverterInv
  BY OpenAIBegins, GeminiBegins, AntiBegins, CodexBegins, KiroBegins DEF RouteInit, ConverterInv
<1>2. ConverterInv /\ [RouteNext]_moving => ConverterInv'
  <2> SUFFICES ASSUME ConverterInv, [RouteNext]_moving PROVE ConverterInv'
    OBVIOUS
  <2>1. /\ route' = route
        /\ route = "openai" => [OpenAI!Next]_(OpenAI!vars)
        /\ route = "gemini" => [Gemini!Next]_(Gemini!vars)
        /\ route = "antigravity" => [Antigravity!Next]_(Antigravity!vars)
        /\ route = "codex" => [Codex!Next]_(Codex!vars)
        /\ route = "kiro" => [Kiro!Next]_(Kiro!vars)
    BY DEF RouteNext, moving, convs, OpenAI!vars, Gemini!vars, Antigravity!vars, Codex!vars, Kiro!vars
  <2>2. route = "openai" => OpenAIInv'
    BY <2>1, OpenAIStep DEF ConverterInv
  <2>3. route = "gemini" => GeminiInv'
    BY <2>1, GeminiStep DEF ConverterInv
  <2>4. route = "antigravity" => AntiInv'
    BY <2>1, AntiStep DEF ConverterInv
  <2>5. route = "codex" => CodexInv'
    BY <2>1, CodexStep DEF ConverterInv
  <2>6. route = "kiro" => KiroInv'
    BY <2>1, KiroStep DEF ConverterInv
  <2>7. QED
    BY <2>1, <2>2, <2>3, <2>4, <2>5, <2>6 DEF ConverterInv
<1>3. QED
  BY <1>1, <1>2

\* On every route the events a client gets fit together: blocks are started in order, fed while they are open and
\* stopped once, and the message ends after the last of them, whatever the upstream sends in whatever order,
\* within the streams that the converters are made for.
THEOREM EventsFitTogether == ASSUME Quirks = {} PROVE RouteSpec => []Grammatical
<1>1. ConverterInv => Grammatical
  BY OpenAIFollows, GeminiFollows, AntiFollows, CodexFollows, KiroFollows DEF ConverterInv, Grammatical
<1>2. QED
  BY ConvertersKeep, <1>1, PTL DEF RouteSpec, moving

\* What keeps it: the converters' invariants, and what the forwarding told.
ToldOnRoutes == ConverterInv /\ FInv /\ ToldInv

\* A stream that is over has told the client all that was said, that it is over, and why: on every converter's
\* route, and through the forwarding with an attentive peek.
THEOREM AllIsTold == ASSUME ~RashPeek, Quirks = {} PROVE RouteSpec => []ToldAll
<1>1. RouteInit => ToldOnRoutes
  BY ConvertersKeep, ForwardTold DEF ToldOnRoutes
<1>2. ToldOnRoutes /\ [RouteNext]_moving => ToldOnRoutes'
  BY ConvertersKeep, ForwardTold DEF ToldOnRoutes
<1>3. ToldOnRoutes => ToldAll
  BY OpenAIFollows, GeminiFollows, AntiFollows, CodexFollows, KiroFollows, ForwardTold
     DEF ToldOnRoutes, ConverterInv, ToldAll
<1>4. QED
  BY <1>1, <1>2, <1>3, PTL DEF RouteSpec, moving
=============================================================================
