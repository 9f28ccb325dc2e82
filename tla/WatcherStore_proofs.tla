------------------------- MODULE WatcherStore_proofs -------------------------
(***************************************************************************)
(* The watcher, for any files, channels, contents and bounds.  Its buffer, *)
(* batch and channel are the queue of CoalescingQueue (QueueSteps), which  *)
(* loses nothing while it is open (QueueKeeps).  So what is applied at     *)
(* last is what was sent last, and what was sent last is what the watcher  *)
(* accepted from the files (Mirror) and the channels (ChannelsOK).         *)
(*                                                                         *)
(* MirrorsDisk is not inductive.  A file that holds something else than    *)
(* was accepted from it has an event queued or is being looked at (Seen),  *)
(* whose removals the debounce lets through (Debounced); what was accepted *)
(* is in the shadow and was sent, or is about to be (Known); and while the *)
(* whole state is refreshed the files stand still (Still), so that what    *)
(* the refresh saw is what they hold (Views).  The last is a hypothesis:   *)
(* without it, or with removals inside the debounce window, the property   *)
(* does not hold (README, section 7).                                      *)
(*                                                                         *)
(* The token stores, for any number of contents, results, removals,        *)
(* failures and crashes: the remote and the file hold nothing older than   *)
(* what was last reported to be kept.  A save that finds its content in    *)
(* the file is not taken for such a report, and the git store's remote     *)
(* always answers; without either it does not hold (README, section 7).    *)
(* It is not inductive either.  What is put, or pushed, was written since  *)
(* the mutex was taken and so was the file (Guarded), and the repository's *)
(* head is what was pushed unless a push is under way (Pushed).            *)
(***************************************************************************)
EXTENDS MCWatcherStore, FiniteSetTheorems, SequenceTheorems, TLAPS

Refreshers == {"events", "reload"}
Looking == {"settle", "read", "update", "remove"}
Stands == Looking \cup {"idle", "forget", "rescan", "snapshot", "refresh", "dispatch",
                        "new", "joining", "up", "leaving", "gone"}
Event == [file : Files, op : {"write", "remove"}] \cup [file : {KiroToken}, op : {"write"}]

Typed ==
    /\ disk \in [Files -> Payloads \cup {Empty}] /\ hashes \in [Files -> Payloads]
    /\ shadow \in [Ids -> Payloads] /\ applied \in [Ids -> Payloads] /\ sent \in [Ids -> Payloads]
    /\ runtime \in [Channels -> Payloads]
    /\ events \in Seq(Event)
    /\ pc \in [Producers -> Stands]
    /\ file \in Files \cup {KiroToken} /\ seen \in Payloads
    /\ view \in [Refreshers -> [Files -> Payloads]]
    /\ out \in [Producers -> SUBSET Update]
    /\ channel \in Seq(Update) /\ batch \in Seq(Update) /\ pendingOrder \in Seq(Ids)
    /\ pc["events"] \in Looking => file \in Files
    /\ pc["events"] = "update" => seen # Absent

\* A producer has one update of a credential, and so has the buffer.
Single(us) == \A u, v \in us : u.id = v.id => u = v
Buffered ==
    /\ \A p \in Producers : Single(out[p])
    /\ \A m, n \in 1..Len(pendingOrder) : pendingOrder[m] = pendingOrder[n] => m = n
    /\ \A i \in DOMAIN pendingUpdates : i \in Ids /\ pendingUpdates[i] \in Payloads
    /\ \A i \in Ids : i \in DOMAIN pendingUpdates <=> \E n \in 1..Len(pendingOrder) : pendingOrder[n] = i

\* How far the loop, the stop and the producers are.
Stages ==
    /\ loop \in {"looking", "asleep", "woken", "taken", "sending", "ended"}
    /\ loop \in {"taken", "sending"} => batch # << >>
    /\ loop \notin {"taken", "sending"} => batch = << >>
    /\ stopping \in {"no", "clear", "unset", "consumer", "done"}
    /\ cancelled = (stopping # "no")
    /\ queueSet = (stopping \notin {"consumer", "done"})
    /\ \A p \in Refreshers : pc[p] # "dispatch" => out[p] = {}
    /\ \A c \in Channels : out[c] = IF pc[c] \in {"joining", "leaving"} THEN {[id |-> c, auth |-> runtime[c]]} ELSE {}

Sound == Typed /\ Buffered /\ Stages

-----------------------------------------------------------------------------
(* The buffer.                                                             *)

LEMMA Names ==
    /\ Absent \in Payloads /\ Contents \subseteq Payloads /\ Absent \notin Contents /\ Empty \notin Payloads
    /\ Files \cup Channels = Ids /\ Files \subseteq Ids /\ Channels \subseteq Ids
    /\ \A f \in Files : f \notin Channels /\ f # KiroToken
    /\ Refreshers \subseteq Producers /\ Channels \subseteq Producers
    /\ Producers = Refreshers \cup Channels /\ \A c \in Channels : c \notin Refreshers
    /\ IsFiniteSet(Ids)
  <1>1. IsFiniteSet(Ids)
    BY DispatchNamesAssumption, FS_Union DEF Ids
  <1> QED
    BY <1>1, DispatchAssumption, DispatchNamesAssumption
    DEF Payloads, Absent, Empty, Ids, Refreshers, Producers

\* A function with updates in it.
LEMMA WithIs ==
    ASSUME NEW us \in SUBSET Update, Single(us), NEW old
    PROVE  /\ DOMAIN With(old, us) = DOMAIN old \cup {u.id : u \in us}
           /\ With(old, us) = [i \in DOMAIN old \cup {u.id : u \in us} |-> With(old, us)[i]]
           /\ \A u \in us : With(old, us)[u.id] = u.auth /\ u.id \in Ids /\ u.auth \in Payloads
           /\ \A i \in DOMAIN old : (\A u \in us : u.id # i) => With(old, us)[i] = old[i]
  BY DEF Single, With, Update

\* What merging updates us makes of the buffer: new credentials at its end.
LEMMA MergeMakes ==
    ASSUME Sound, NEW us \in SUBSET Update, Single(us), Merge(us)
    PROVE  /\ pendingOrder' \in Seq(Ids)
           /\ Len(pendingOrder) <= Len(pendingOrder')
           /\ \A n \in 1..Len(pendingOrder) : pendingOrder'[n] = pendingOrder[n]
           /\ \A n \in Len(pendingOrder) + 1..Len(pendingOrder') : \E u \in us : u.id = pendingOrder'[n]
           /\ \A m, n \in 1..Len(pendingOrder') : pendingOrder'[m] = pendingOrder'[n] => m = n
           /\ \A i \in Ids : i \in DOMAIN pendingUpdates' <=> \E n \in 1..Len(pendingOrder') : pendingOrder'[n] = i
           /\ \A i \in DOMAIN pendingUpdates' : i \in Ids /\ pendingUpdates'[i] \in Payloads
           /\ \A u \in us : u.id \in DOMAIN pendingUpdates' /\ pendingUpdates'[u.id] = u.auth
           /\ \A i \in DOMAIN pendingUpdates : (\A u \in us : u.id # i) => pendingUpdates'[i] = pendingUpdates[i]
           /\ sent' \in [Ids -> Payloads]
           /\ \A u \in us : sent'[u.id] = u.auth
           /\ \A i \in Ids : (\A u \in us : u.id # i) => sent'[i] = sent[i]
  <1>0. \A u \in us : u.id \in Ids /\ u.auth \in Payloads
    BY DEF Update
  <1>1. PICK keys \in NewKeys(us) : pendingOrder' = pendingOrder \o keys
    BY DEF Merge
  <1> DEFINE New == {u.id : u \in us} \ DOMAIN pendingUpdates
  <1>2. IsFiniteSet(New) /\ New \subseteq Ids
    BY <1>0, Names, FS_Subset
  <1>3. PICK k \in Nat : k = Cardinality(New)
    BY <1>2, FS_CardinalityType
  <1>4. keys \in [1..k -> New] /\ \A m, n \in 1..k : m # n => keys[m] # keys[n]
    BY <1>3 DEF NewKeys, SetToSeqs
  <1>5. keys \in Injection(1..k, New)
    BY <1>4 DEF Injection, IsInjective
  <1>6. \A i \in New : \E n \in 1..k : keys[n] = i
    <2>1. IsFiniteSet(1..k) /\ Cardinality(1..k) = k
      BY FS_Interval
    <2>2. keys \in Surjection(1..k, New)
      BY <1>2, <1>3, <1>5, <2>1, FS_Injection
    <2> QED
      BY <2>2 DEF Surjection
  <1>7. keys \in Seq(Ids) /\ Len(keys) = k
    BY <1>2, <1>4
  <1>8. PICK l \in Nat : l = Len(pendingOrder)
    BY DEF Sound, Typed
  <1>9. /\ pendingOrder' \in Seq(Ids) /\ Len(pendingOrder') = l + k
        /\ \A n \in 1..l : pendingOrder'[n] = pendingOrder[n]
        /\ \A n \in 1..k : pendingOrder'[l + n] = keys[n]
    <2>1. /\ pendingOrder \o keys \in Seq(Ids) /\ Len(pendingOrder \o keys) = l + k
          /\ \A n \in 1..l + k : (pendingOrder \o keys)[n] = IF n <= l THEN pendingOrder[n] ELSE keys[n - l]
      <3>1. pendingOrder \in Seq(Ids)
        BY DEF Sound, Typed
      <3> QED
        BY ONLY <1>7, <1>8, <3>1, ConcatProperties
    <2>2. \A n \in 1..k : l + n \in 1..l + k /\ ~(l + n <= l) /\ l + n - l = n
      BY <1>3, <1>8
    <2>3. \A n \in 1..l : n \in 1..l + k /\ n <= l
      BY <1>3, <1>8
    <2>4. pendingOrder' \in Seq(Ids) /\ Len(pendingOrder') = l + k
      BY ONLY <1>1, <2>1
    <2>5. \A n \in 1..l + k : pendingOrder'[n] = IF n <= l THEN pendingOrder[n] ELSE keys[n - l]
      BY ONLY <1>1, <2>1
    <2>6. \A n \in 1..l : pendingOrder'[n] = pendingOrder[n]
      BY ONLY <2>3, <2>5
    <2>7. \A n \in 1..k : pendingOrder'[l + n] = keys[n]
      BY ONLY <2>2, <2>5
    <2> QED
      BY ONLY <2>4, <2>6, <2>7
  <1>10. \A i : i \in New <=> (\E u \in us : u.id = i) /\ i \notin DOMAIN pendingUpdates
    OBVIOUS
  <1> HIDE DEF New
  <1>11. \A n \in l + 1..l + k : \E j \in 1..k : n = l + j /\ pendingOrder'[n] = keys[j] /\ keys[j] \in New
    <2> SUFFICES ASSUME NEW n \in l + 1..l + k PROVE \E j \in 1..k : n = l + j /\ pendingOrder'[n] = keys[j] /\ keys[j] \in New
      OBVIOUS
    <2>1. n - l \in 1..k /\ n = l + (n - l)
      OBVIOUS
    <2> QED
      BY <1>4, <1>9, <2>1
  <1>12. \A n \in 1..l : pendingOrder[n] \in DOMAIN pendingUpdates
    BY <1>8 DEF Sound, Typed, Buffered
  <1>13. \A m, n \in 1..l + k : pendingOrder'[m] = pendingOrder'[n] => m = n
    <2> SUFFICES ASSUME NEW m \in 1..l + k, NEW n \in 1..l + k, pendingOrder'[m] = pendingOrder'[n], m < n
                 PROVE FALSE
      OBVIOUS
    <2>1. CASE n <= l
      BY <2>1, <1>8, <1>9 DEF Sound, Buffered
    <2>2. CASE m <= l /\ n > l
      <3>1. n \in l + 1..l + k /\ m \in 1..l
        BY <2>2
      <3> QED
        BY <3>1, <1>9, <1>10, <1>11, <1>12
    <2>3. CASE m > l
      <3>1. m \in l + 1..l + k /\ n \in l + 1..l + k
        BY <2>3
      <3> QED
        BY <3>1, <1>4, <1>11
    <2> QED
      BY <2>1, <2>2, <2>3
  <1>14. /\ \A i : i \in DOMAIN pendingUpdates' <=> (i \in DOMAIN pendingUpdates \/ \E u \in us : u.id = i)
         /\ \A u \in us : pendingUpdates'[u.id] = u.auth
         /\ \A i \in DOMAIN pendingUpdates : (\A u \in us : u.id # i) => pendingUpdates'[i] = pendingUpdates[i]
    <2>1. pendingUpdates' = With(pendingUpdates, us)
      BY DEF Merge, Later
    <2>2. /\ DOMAIN pendingUpdates' = DOMAIN pendingUpdates \cup {u.id : u \in us}
          /\ \A u \in us : pendingUpdates'[u.id] = u.auth
          /\ \A i \in DOMAIN pendingUpdates : (\A u \in us : u.id # i) => pendingUpdates'[i] = pendingUpdates[i]
      BY ONLY <2>1, WithIs, us \in SUBSET Update, Single(us), ZenonT(40)
    <2> QED
      BY <2>2
  <1>15. \A i \in Ids : i \in DOMAIN pendingUpdates' <=> \E n \in 1..l + k : pendingOrder'[n] = i
    <2> SUFFICES ASSUME NEW i \in Ids PROVE i \in DOMAIN pendingUpdates' <=> \E n \in 1..l + k : pendingOrder'[n] = i
      OBVIOUS
    <2>1. CASE i \in DOMAIN pendingUpdates
      <3>1. PICK n \in 1..l : pendingOrder[n] = i
        BY <2>1, <1>8 DEF Sound, Buffered
      <3> QED
        BY <3>1, <2>1, <1>9, <1>14
    <2>2. CASE i \notin DOMAIN pendingUpdates /\ i \in New
      <3>1. PICK n \in 1..k : keys[n] = i
        BY <2>2, <1>6
      <3>2. l + n \in 1..l + k /\ pendingOrder'[l + n] = i
        BY <3>1, <1>9
      <3> QED
        BY <3>2, <2>2, <1>10, <1>14
    <2>3. CASE i \notin DOMAIN pendingUpdates /\ i \notin New
      <3>1. i \notin DOMAIN pendingUpdates'
        BY <2>3, <1>10, <1>14
      <3>2. ASSUME NEW n \in 1..l + k, pendingOrder'[n] = i PROVE FALSE
        <4>1. CASE n \in 1..l
          BY <4>1, <3>2, <2>3, <1>9, <1>12
        <4>2. CASE n \in l + 1..l + k
          BY <4>2, <3>2, <2>3, <1>11
        <4> QED
          BY <4>1, <4>2
      <3> QED
        BY <3>1, <3>2
    <2> QED
      BY <2>1, <2>2, <2>3
  <1>16. \A i \in DOMAIN pendingUpdates' : i \in Ids /\ pendingUpdates'[i] \in Payloads
    BY <1>0, <1>14 DEF Sound, Buffered
  <1>17. /\ sent' \in [Ids -> Payloads]
         /\ \A u \in us : sent'[u.id] = u.auth
         /\ \A i \in Ids : (\A u \in us : u.id # i) => sent'[i] = sent[i]
    <2>1. sent' = With(sent, us)
      BY DEF Merge
    <2>2. /\ DOMAIN sent' = DOMAIN sent \cup {u.id : u \in us}
          /\ sent' = [i \in DOMAIN sent \cup {u.id : u \in us} |-> sent'[i]]
          /\ \A u \in us : sent'[u.id] = u.auth
          /\ \A i \in DOMAIN sent : (\A u \in us : u.id # i) => sent'[i] = sent[i]
      BY ONLY <2>1, WithIs, us \in SUBSET Update, Single(us), ZenonT(40)
    <2>3. DOMAIN sent = Ids /\ \A i \in Ids : sent[i] \in Payloads
      BY DEF Sound, Typed
    <2>4. DOMAIN sent \cup {u.id : u \in us} = Ids
      BY <1>0, <2>3
    <2>5. sent' = [i \in Ids |-> sent'[i]]
      BY ONLY <2>2, <2>4
    <2>6. \A i \in Ids : sent'[i] \in Payloads
      BY ONLY <1>0, <2>2, <2>3
    <2>7. sent' \in [Ids -> Payloads]
      BY ONLY <2>5, <2>6
    <2> QED
      BY <2>2, <2>3, <2>7
  <1>18. \A n \in l + 1..l + k : \E u \in us : u.id = pendingOrder'[n]
    BY <1>10, <1>11
  <1> QED
    BY <1>8, <1>9, <1>13, <1>14, <1>15, <1>16, <1>17, <1>18

\* The updates of a buffer, in its order.
InOrder(order, updates) == [n \in DOMAIN order |-> [id |-> order[n], auth |-> updates[order[n]]]]

LEMMA InOrderIs ==
    ASSUME NEW order \in Seq(Ids), NEW updates, \A n \in 1..Len(order) : updates[order[n]] \in Payloads
    PROVE  /\ InOrder(order, updates) \in Seq(Update) /\ Len(InOrder(order, updates)) = Len(order)
           /\ \A n \in 1..Len(order) : InOrder(order, updates)[n] = [id |-> order[n], auth |-> updates[order[n]]]
  <1>1. PICK k \in Nat : k = Len(order) /\ DOMAIN order = 1..k /\ \A n \in 1..k : order[n] \in Ids
    OBVIOUS
  <1>2. \A n \in 1..k : [id |-> order[n], auth |-> updates[order[n]]] \in Update
    BY <1>1 DEF Update
  <1>3. InOrder(order, updates) = [n \in 1..k |-> [id |-> order[n], auth |-> updates[order[n]]]]
    BY <1>1 DEF InOrder
  <1>4. InOrder(order, updates) \in [1..k -> Update]
    BY <1>2, <1>3
  <1>5. InOrder(order, updates) \in Seq(Update) /\ Len(InOrder(order, updates)) = k
    BY <1>4
  <1> QED
    BY <1>1, <1>3, <1>5

LEMMA BufferIs ==
    ASSUME Sound
    PROVE  /\ Pending \in Seq(Update) /\ Len(Pending) = Len(pendingOrder)
           /\ \A n \in 1..Len(pendingOrder) :
                Pending[n] = [id |-> pendingOrder[n], auth |-> pendingUpdates[pendingOrder[n]]]
  <1>1. pendingOrder \in Seq(Ids) /\ \A n \in 1..Len(pendingOrder) : pendingUpdates[pendingOrder[n]] \in Payloads
    BY DEF Sound, Typed, Buffered
  <1> QED
    BY <1>1, InOrderIs DEF Pending, InOrder

\* Behind what has left the buffer comes what is in it.
LEMMA Behind ==
    ASSUME NEW s \in Seq(Update), NEW t \in Seq(Update)
    PROVE  /\ s \o t \in Seq(Update) /\ Len(s \o t) = Len(s) + Len(t)
           /\ \A n \in 1..Len(s) : (s \o t)[n] = s[n]
           /\ \A n \in 1..Len(t) : (s \o t)[Len(s) + n] = t[n]
           /\ \A n \in 1..Len(s) + Len(t) : n \in 1..Len(s) \/ \E m \in 1..Len(t) : n = Len(s) + m
  <1> PICK k \in Nat, l \in Nat : k = Len(s) /\ l = Len(t)
    OBVIOUS
  <1>1. /\ s \o t \in Seq(Update) /\ Len(s \o t) = k + l
        /\ \A n \in 1..k + l : (s \o t)[n] = IF n <= k THEN s[n] ELSE t[n - k]
    BY ConcatProperties
  <1>2. \A n \in 1..l : k + n \in 1..k + l /\ ~(k + n <= k) /\ k + n - k = n
    OBVIOUS
  <1>3. \A n \in 1..k : n \in 1..k + l /\ n <= k
    OBVIOUS
  <1>4. \A n \in 1..k + l : n \in 1..k \/ (n - k \in 1..l /\ n = k + (n - k))
    OBVIOUS
  <1> QED
    BY <1>1, <1>2, <1>3, <1>4

\* Merging updates sends them.
LEMMA MergeSends ==
    ASSUME Sound, NEW us \in SUBSET Update, Single(us), Merge(us), UNCHANGED <<channel, batch, applied, cancelled>>
    PROVE  Queue!Send
  <1> DEFINE S == {u.id : u \in us}
             A == channel \o batch
             new == Pending'
  <1>1. A \in Seq(Update) /\ channel \in Seq(Update) /\ batch \in Seq(Update)
    BY ConcatProperties DEF Sound, Typed
  <1>2. PICK k \in Nat : k = Len(A)
    BY <1>1
  <1>3. PICK l \in Nat : l = Len(pendingOrder)
    BY DEF Sound, Typed
  <1>4. PICK j \in Nat : j = Len(pendingOrder')
    BY MergeMakes
  <1>5. /\ l <= j
        /\ \A n \in 1..l : pendingOrder'[n] = pendingOrder[n]
        /\ \A n \in l + 1..j : \E u \in us : u.id = pendingOrder'[n]
        /\ \A m, n \in 1..j : pendingOrder'[m] = pendingOrder'[n] => m = n
        /\ \A n \in 1..j : pendingOrder'[n] \in DOMAIN pendingUpdates' /\ pendingOrder'[n] \in Ids
        /\ \A u \in us : /\ \E n \in 1..j : pendingOrder'[n] = u.id
                         /\ pendingUpdates'[u.id] = u.auth /\ sent'[u.id] = u.auth
        /\ \A n \in 1..l : (\A u \in us : u.id # pendingOrder[n]) =>
                               pendingUpdates'[pendingOrder[n]] = pendingUpdates[pendingOrder[n]]
        /\ sent' \in [Ids -> Payloads]
        /\ \A i \in Ids : (\A u \in us : u.id # i) => sent'[i] = sent[i]
    <2>1. \A n \in 1..l : pendingOrder[n] \in Ids /\ pendingOrder[n] \in DOMAIN pendingUpdates
      BY <1>3 DEF Sound, Typed, Buffered
    <2>2. \A n \in 1..j : pendingOrder'[n] \in Ids
      BY <1>4, MergeMakes
    <2>3. \A u \in us : u.id \in Ids
      BY DEF Update
    <2> QED
      BY ONLY <2>1, <2>2, <2>3, <1>3, <1>4, MergeMakes, Sound, us \in SUBSET Update, Single(us), Merge(us)
  <1>6. /\ new \in Seq(Update) /\ Len(new) = j
        /\ \A n \in 1..j : new[n] = [id |-> pendingOrder'[n], auth |-> pendingUpdates'[pendingOrder'[n]]]
    <2>1. pendingOrder' \in Seq(Ids) /\ \A n \in 1..Len(pendingOrder') : pendingUpdates'[pendingOrder'[n]] \in Payloads
      BY <1>4, <1>5, MergeMakes
    <2>2. new = InOrder(pendingOrder', pendingUpdates')
      BY DEF Pending, InOrder
    <2> HIDE DEF new
    <2> QED
      BY ONLY <1>4, <2>1, <2>2, InOrderIs
  <1>7. /\ Pending \in Seq(Update) /\ Len(Pending) = l
        /\ \A n \in 1..l : Pending[n] = [id |-> pendingOrder[n], auth |-> pendingUpdates[pendingOrder[n]]]
    BY <1>3, BufferIs
  <1>8. Waiting' = A \o new /\ Waiting = A \o Pending
    BY DEF Waiting
  <1> HIDE DEF A, new
  <1>9. /\ Waiting \in Seq(Update) /\ Len(Waiting) = k + l
        /\ \A n \in 1..k : Waiting[n] = A[n]
        /\ \A n \in 1..l : Waiting[k + n] = Pending[n]
        /\ \A n \in 1..k + l : n \in 1..k \/ \E m \in 1..l : n = k + m
    <2>1. /\ A \o Pending \in Seq(Update) /\ Len(A \o Pending) = Len(A) + Len(Pending)
          /\ \A n \in 1..Len(A) : (A \o Pending)[n] = A[n]
          /\ \A n \in 1..Len(Pending) : (A \o Pending)[Len(A) + n] = Pending[n]
          /\ \A n \in 1..Len(A) + Len(Pending) : n \in 1..Len(A) \/ \E m \in 1..Len(Pending) : n = Len(A) + m
      BY ONLY <1>1, <1>7, Behind
    <2>2. Len(A) = k /\ Len(Pending) = l
      BY <1>2, <1>7
    <2> QED
      BY ONLY <2>1, <2>2, <1>8
  <1>10. /\ Waiting' \in Seq(Update) /\ Len(Waiting') = k + j
         /\ \A n \in 1..k : Waiting'[n] = A[n]
         /\ \A n \in 1..j : Waiting'[k + n] = new[n]
         /\ \A n \in 1..k + j : n \in 1..k \/ \E m \in 1..j : n = k + m
    <2>1. /\ A \o new \in Seq(Update) /\ Len(A \o new) = Len(A) + Len(new)
          /\ \A n \in 1..Len(A) : (A \o new)[n] = A[n]
          /\ \A n \in 1..Len(new) : (A \o new)[Len(A) + n] = new[n]
          /\ \A n \in 1..Len(A) + Len(new) : n \in 1..Len(A) \/ \E m \in 1..Len(new) : n = Len(A) + m
      BY ONLY <1>1, <1>6, Behind
    <2>2. Len(A) = k /\ Len(new) = j
      BY <1>2, <1>6
    <2> QED
      BY ONLY <2>1, <2>2, <1>8
  <1>11. DOMAIN Waiting = 1..k + l /\ DOMAIN Waiting' = 1..k + j
    BY <1>9, <1>10
  <1>11a. \A n \in 1..j :
            /\ Waiting'[k + n] = [id |-> pendingOrder'[n], auth |-> pendingUpdates'[pendingOrder'[n]]]
            /\ Waiting'[k + n].id = pendingOrder'[n]
    <2> SUFFICES ASSUME NEW n \in 1..j
                 PROVE  /\ Waiting'[k + n] = [id |-> pendingOrder'[n], auth |-> pendingUpdates'[pendingOrder'[n]]]
                        /\ Waiting'[k + n].id = pendingOrder'[n]
      OBVIOUS
    <2>1. Waiting'[k + n] = new[n]
      BY <1>10
    <2>2. new[n] = [id |-> pendingOrder'[n], auth |-> pendingUpdates'[pendingOrder'[n]]]
      BY <1>6
    <2> QED
      BY ONLY <2>1, <2>2
  <1>12. \A n \in 1..j : Queue!Newest(Waiting', k + n)
    <2> SUFFICES ASSUME NEW n \in 1..j, NEW m \in 1..k + j, m > k + n PROVE Waiting'[m].id # Waiting'[k + n].id
      BY <1>11 DEF Queue!Newest
    <2>1. PICK h \in 1..j : m = k + h
      BY <1>10
    <2>2. h # n
      BY <2>1
    <2>3. Waiting'[m].id = pendingOrder'[h] /\ Waiting'[k + n].id = pendingOrder'[n]
      BY <2>1, <1>11a
    <2> QED
      BY <2>2, <2>3, <1>5
  <1>13. ASSUME NEW n \in 1..k + l
         PROVE  \/ Waiting'[n] = Waiting[n]
                \/ Queue!Newest(Waiting', n) /\ Waiting[n].id \in S /\ Waiting'[n].id = Waiting[n].id
    <2>1. CASE n \in 1..k
      BY <2>1, <1>9, <1>10
    <2>2. CASE \E m \in 1..l : n = k + m
      <3>1. PICK m \in 1..l : n = k + m
        BY <2>2
      <3>2. m \in 1..j
        BY <1>5
      <3>3. Waiting'[n] = new[m] /\ Waiting[n] = Pending[m]
        BY <3>1, <3>2, <1>9, <1>10
      <3>6. Waiting'[n].id = pendingOrder[m] /\ Waiting[n].id = pendingOrder[m]
        BY <3>3, <3>2, <1>5, <1>6, <1>7
      <3>7. Queue!Newest(Waiting', n)
        BY <3>1, <3>2, <1>12
      <3>4. CASE \E u \in us : u.id = pendingOrder[m]
        BY <3>4, <3>6, <3>7
      <3>5. CASE \A u \in us : u.id # pendingOrder[m]
        <4>1. new[m] = [id |-> pendingOrder'[m], auth |-> pendingUpdates'[pendingOrder'[m]]]
          BY <3>2, <1>6
        <4>2. Pending[m] = [id |-> pendingOrder[m], auth |-> pendingUpdates[pendingOrder[m]]]
          BY <1>7
        <4>3. /\ pendingOrder'[m] = pendingOrder[m]
              /\ pendingUpdates'[pendingOrder[m]] = pendingUpdates[pendingOrder[m]]
          BY <3>5, <1>5
        <4> QED
          BY ONLY <3>3, <4>1, <4>2, <4>3
      <3> QED
        BY <3>4, <3>5
    <2> QED
      BY <2>1, <2>2, <1>9
  <1>14. \A n \in (1..k + j) \ (1..k + l) : Queue!Newest(Waiting', n) /\ Waiting'[n].id \in S
    <2> SUFFICES ASSUME NEW n \in (1..k + j) \ (1..k + l) PROVE Queue!Newest(Waiting', n) /\ Waiting'[n].id \in S
      OBVIOUS
    <2>0. n \in 1..k + j /\ n - k \in 1..j /\ n = k + (n - k)
      OBVIOUS
    <2>1. PICK m \in 1..j : n = k + m
      BY ONLY <2>0
    <2>2. m \in l + 1..j
      BY <2>1
    <2>3. PICK u \in us : u.id = pendingOrder'[m]
      BY <2>2, <1>5
    <2>4. Waiting'[n].id = u.id
      BY <2>1, <2>3, <1>11a
    <2>5. Queue!Newest(Waiting', n)
      BY <2>1, <1>12
    <2> QED
      BY <2>4, <2>5
  <1>15. \A i \in S : \E n \in 1..k + j : Queue!Newest(Waiting', n) /\ Waiting'[n] = [id |-> i, auth |-> sent'[i]]
    <2> SUFFICES ASSUME NEW u \in us
                 PROVE \E n \in 1..k + j : Queue!Newest(Waiting', n) /\ Waiting'[n] = [id |-> u.id, auth |-> sent'[u.id]]
      OBVIOUS
    <2>1. PICK m \in 1..j : pendingOrder'[m] = u.id
      BY <1>5
    <2>2. pendingUpdates'[u.id] = sent'[u.id]
      BY <1>5
    <2>3. Waiting'[k + m] = [id |-> u.id, auth |-> sent'[u.id]]
      BY <2>1, <2>2, <1>11a
    <2>4. k + m \in 1..k + j /\ Queue!Newest(Waiting', k + m)
      BY <1>12
    <2> QED
      BY <2>3, <2>4
  <1>16. S \in SUBSET Ids
    BY DEF Update
  <1>17. \A i \in Ids \ S : sent'[i] = sent[i]
    BY <1>5
  <1>18. Queue!Update = Update
    BY DEF Queue!Update, Update
  <1>19. UNCHANGED <<applied, ~cancelled>>
    OBVIOUS
  <1>20. Len(Waiting) <= Len(Waiting')
    BY <1>5, <1>9, <1>10
  <1>21. sent' \in [Ids -> Payloads] /\ Waiting' \in Seq(Queue!Update)
    BY <1>5, <1>10, <1>18
  <1> HIDE DEF S
  <1> QED
    BY ONLY <1>11, <1>13, <1>14, <1>15, <1>16, <1>17, <1>19, <1>20, <1>21 DEF Queue!Send

\* What the abstract queue keeps: nothing sent is lost while it is open.
LEMMA QueueKeeps ==
    ASSUME Waiting \in Seq(Update), applied \in [Ids -> Payloads],
           Queue!NoneLost, Queue!Next \/ UNCHANGED Queue!vars
    PROVE  Queue!NoneLost'
  <1> DEFINE Ends(i) == \/ \E n \in DOMAIN Waiting : Queue!Newest(Waiting, n) /\ Waiting[n] = [id |-> i, auth |-> sent[i]]
                        \/ applied[i] = sent[i] /\ \A n \in DOMAIN Waiting : Waiting[n].id # i
  <1>1. PICK l \in Nat : l = Len(Waiting) /\ DOMAIN Waiting = 1..l
    OBVIOUS
  <1>2. CASE Queue!Send
    <2> SUFFICES ASSUME ~cancelled, NEW i \in Ids, Ends(i) PROVE Ends(i)'
      BY <1>2 DEF Queue!NoneLost, Queue!Send
    <2>1. PICK S \in SUBSET Ids :
            /\ \A h \in Ids \ S : sent'[h] = sent[h]
            /\ Waiting' \in Seq(Queue!Update) /\ Len(Waiting) <= Len(Waiting')
            /\ \A n \in DOMAIN Waiting :
                 \/ Waiting'[n] = Waiting[n]
                 \/ Waiting[n].id \in S /\ Waiting'[n].id = Waiting[n].id
            /\ \A n \in DOMAIN Waiting' \ DOMAIN Waiting : Waiting'[n].id \in S
            /\ \A h \in S : \E n \in DOMAIN Waiting' :
                 Queue!Newest(Waiting', n) /\ Waiting'[n] = [id |-> h, auth |-> sent'[h]]
      BY <1>2 DEF Queue!Send
    <2>2. applied' = applied
      BY <1>2 DEF Queue!Send
    <2>3. CASE i \in S
      BY <2>1, <2>3
    <2>4. CASE i \notin S
      <3>1. DOMAIN Waiting \subseteq DOMAIN Waiting'
        BY <1>1, <2>1
      <3>2. \A m \in DOMAIN Waiting' : (m \in DOMAIN Waiting => Waiting[m].id # i) => Waiting'[m].id # i
        BY <2>1, <2>4
      <3>3. CASE \E n \in DOMAIN Waiting : Queue!Newest(Waiting, n) /\ Waiting[n] = [id |-> i, auth |-> sent[i]]
        <4>1. PICK n \in DOMAIN Waiting : Queue!Newest(Waiting, n) /\ Waiting[n] = [id |-> i, auth |-> sent[i]]
          BY <3>3
        <4>2. Waiting'[n] = [id |-> i, auth |-> sent'[i]]
          BY <4>1, <2>1, <2>4
        <4>3. Queue!Newest(Waiting', n)
          BY <4>1, <4>2, <3>2 DEF Queue!Newest
        <4> QED
          BY <3>1, <4>2, <4>3
      <3>4. CASE applied[i] = sent[i] /\ \A n \in DOMAIN Waiting : Waiting[n].id # i
        BY <3>2, <3>4, <2>1, <2>2, <2>4
      <3> QED
        BY <3>3, <3>4
    <2> QED
      BY <2>3, <2>4
  <1>3. CASE Queue!Apply
    <2> SUFFICES ASSUME ~cancelled, NEW i \in Ids, Ends(i) PROVE Ends(i)'
      BY <1>3 DEF Queue!NoneLost, Queue!Apply
    <2>1. /\ Waiting # << >> /\ Waiting' = Tail(Waiting) /\ sent' = sent
          /\ applied' = [applied EXCEPT ![Head(Waiting).id] = Head(Waiting).auth]
      BY <1>3 DEF Queue!Apply
    <2>2. /\ l > 0 /\ Head(Waiting) = Waiting[1] /\ DOMAIN Waiting' = 1..l - 1
          /\ \A n \in 1..l - 1 : Waiting'[n] = Waiting[n + 1]
      BY <1>1, <2>1
    <2>3. applied'[i] = IF Waiting[1].id = i THEN Waiting[1].auth ELSE applied[i]
      BY <2>1, <2>2
    <2>4. CASE \E n \in DOMAIN Waiting : Queue!Newest(Waiting, n) /\ Waiting[n] = [id |-> i, auth |-> sent[i]]
      <3>1. PICK n \in 1..l : Queue!Newest(Waiting, n) /\ Waiting[n] = [id |-> i, auth |-> sent[i]]
        BY <1>1, <2>4
      <3>2. \A m \in 1..l : m > n => Waiting[m].id # i
        BY <1>1, <3>1 DEF Queue!Newest
      <3>3. CASE n = 1
        <4>1. \A m \in 1..l - 1 : m + 1 \in 1..l /\ m + 1 > n
          BY <3>3
        <4> QED
          BY <3>1, <3>2, <3>3, <2>1, <2>2, <2>3, <4>1
      <3>4. CASE n > 1
        <4>1. n - 1 \in 1..l - 1 /\ (n - 1) + 1 = n
          BY <3>4
        <4>2. \A m \in 1..l - 1 : m > n - 1 => m + 1 \in 1..l /\ m + 1 > n
          BY <3>4
        <4>3. Waiting'[n - 1] = [id |-> i, auth |-> sent'[i]]
          BY <3>1, <4>1, <2>1, <2>2
        <4>4. Queue!Newest(Waiting', n - 1)
          <5>1. \A m \in 1..l - 1 : m > n - 1 => Waiting'[m].id # i
            BY <3>2, <4>2, <2>2
          <5> QED
            BY <4>3, <5>1, <2>2 DEF Queue!Newest
        <4> QED
          BY <2>2, <4>1, <4>3, <4>4
      <3> QED
        BY <3>3, <3>4
    <2>5. CASE applied[i] = sent[i] /\ \A n \in DOMAIN Waiting : Waiting[n].id # i
      <3>1. 1 \in 1..l /\ \A m \in 1..l - 1 : m + 1 \in 1..l
        BY <2>2
      <3> QED
        BY <3>1, <2>5, <1>1, <2>1, <2>2, <2>3
    <2> QED
      BY <2>4, <2>5
  <1>4. CASE Queue!Close \/ Queue!Lose \/ Queue!Bypass
    BY <1>4 DEF Queue!NoneLost, Queue!Close, Queue!Lose, Queue!Bypass
  <1>5. CASE UNCHANGED Queue!vars
    BY <1>5 DEF Queue!NoneLost, Queue!vars, Queue!Newest
  <1> QED
    BY <1>2, <1>3, <1>4, <1>5 DEF Queue!Next

-----------------------------------------------------------------------------
(* The steps of the producers.                                             *)

\* A producer goes on.
LEMMA Going ==
    ASSUME Typed, NEW p \in Producers, NEW l \in Stands, Goto(p, l)
    PROVE  /\ pc' \in [Producers -> Stands] /\ pc'[p] = l
           /\ \A q \in Producers : q # p => pc'[q] = pc[q]
  BY DEF Typed, Goto

LEMMA Filled ==
    ASSUME Typed, NEW p \in Producers, NEW us \in SUBSET Update, out' = [out EXCEPT ![p] = us]
    PROVE  /\ out' \in [Producers -> SUBSET Update] /\ out'[p] = us
           /\ \A q \in Producers : q # p => out'[q] = out[q]
  BY DEF Typed

Untouched == UNCHANGED <<buffer, looping, halt, channel, applied, sent>>

\* The environment changes files and asks for reloads.
LEMMA SoundOutside ==
    ASSUME Sound, \/ \E f \in Files : (\E d \in Contents : Write(f, d)) \/ Truncate(f) \/ Delete(f) \/ WindowEnds(f)
                  \/ KiroChange
                  \/ \E a \in Affected, rescan, force \in BOOLEAN : StartReload(a, rescan, force)
    PROVE  Sound' /\ Untouched
  <1>1. CASE \E f \in Files, d \in Payloads \cup {Empty}, op \in {"write", "remove"} : Change(f, d, op)
    <2>1. PICK f \in Files, d \in Payloads \cup {Empty}, op \in {"write", "remove"} : Change(f, d, op)
      BY <1>1
    <2>2. [file |-> f, op |-> op] \in Event
      BY DEF Event
    <2>3. Typed'
      BY <2>1, <2>2 DEF Change, Sound, Typed, locked, producers, buffer, looping, halt
    <2> QED
      BY <2>1, <2>3
         DEF Change, Sound, Buffered, Stages, Single, Untouched, locked, producers, buffer, looping, halt
  <1>2. CASE \E f \in Files : WindowEnds(f)
    BY <1>2, ZenonT(40)
       DEF WindowEnds, Sound, Typed, Buffered, Stages, Single, Untouched, locked, producers, buffer,
           looping, halt
  <1>3. CASE KiroChange
    <2>2. [file |-> KiroToken, op |-> "write"] \in Event
      BY DEF Event
    <2>3. Typed'
      BY <1>3, <2>2 DEF KiroChange, Sound, Typed, locked, producers, buffer, looping, halt
    <2> QED
      BY <1>3, <2>3
         DEF KiroChange, Sound, Buffered, Stages, Single, Untouched, locked, producers, buffer, looping,
             halt
  <1>4. CASE \E a \in Affected, rescan, force \in BOOLEAN : StartReload(a, rescan, force)
    <2>1. PICK a \in Affected, rescan \in BOOLEAN, force \in BOOLEAN : StartReload(a, rescan, force)
      BY <1>4
    <2>2. /\ pc' \in [Producers -> Stands] /\ pc'["reload"] = "forget" /\ pc["reload"] = "idle"
          /\ \A q \in Producers : q # "reload" => pc'[q] = pc[q]
      BY <2>1, Going DEF StartReload, Sound, Producers, Stands
    <2>3. Typed'
      BY <2>1, <2>2, Names
         DEF StartReload, Sound, Typed, Refreshers, locked, producers, buffer, looping, halt
    <2>4. Stages'
      BY <2>1, <2>2, Names
         DEF StartReload, Sound, Stages, Refreshers, locked, producers, buffer, looping, halt
    <2> QED
      BY <2>1, <2>3, <2>4
         DEF StartReload, Sound, Buffered, Single, Untouched, locked, producers, buffer, looping, halt
  <1> QED
    BY <1>1, <1>2, <1>3, <1>4, Names DEF Write, Truncate, Delete

\* The updates computed from a state that should be.
LEMMA DifferencesAre ==
    ASSUME Sound, NEW p \in Refreshers, NEW v \in [Files -> Payloads], NEW force
    PROVE  /\ NewState(v, p) \in [Ids -> Payloads]
           /\ \A f \in Files : NewState(v, p)[f] = v[f]
           /\ \A c \in Channels : NewState(v, p)[c] = runtime[c]
           /\ Differences(NewState(v, p), force) \in SUBSET Update /\ Single(Differences(NewState(v, p), force))
           /\ \A u \in Differences(NewState(v, p), force) :
                u.auth = NewState(v, p)[u.id] /\ (u.auth # shadow[u.id] \/ u.auth # Absent)
           /\ \A i \in Ids : NewState(v, p)[i] # shadow[i] =>
                [id |-> i, auth |-> NewState(v, p)[i]] \in Differences(NewState(v, p), force)
  <1>1. /\ NewState(v, p) \in [Ids -> Payloads]
        /\ \A f \in Files : NewState(v, p)[f] = v[f]
        /\ \A c \in Channels : NewState(v, p)[c] = runtime[c]
    BY Names DEF NewState, Sound, Typed
  <1> QED
    BY <1>1 DEF Differences, Update, Single

\* The event goroutine, when it looks at a file.
LEMMA SoundEvents ==
    ASSUME Sound, HandleEvent \/ Settle \/ Read \/ AddOrUpdateClient \/ RemoveClient
    PROVE  Sound' /\ Untouched
  <1>1. "events" \in Producers /\ \A q \in Producers : q # "events" => q = "reload" \/ q \in Channels
    BY Names DEF Refreshers
  <1>2. {"settle", "read", "update", "remove", "idle", "dispatch", "snapshot"} \subseteq Stands
    BY DEF Stands, Looking
  <1>3. CASE HandleEvent
    <2>1. /\ events # << >> /\ Head(events) \in Event /\ events' \in Seq(Event) /\ pc["events"] = "idle"
          /\ file' = Head(events).file
      BY <1>3 DEF HandleEvent, Sound, Typed
    <2>2. /\ pc' \in [Producers -> Stands] /\ pc'["events"] \in {"snapshot", "read", "settle", "idle"}
          /\ \A q \in Producers : q # "events" => pc'[q] = pc[q]
      BY <1>1, <1>2, <1>3, <2>1, Going DEF HandleEvent, Sound, Typed
    <2>3. file' \in Files \cup {KiroToken} /\ (pc'["events"] \in Looking => file' \in Files)
      BY <1>1, <1>2, <1>3, <2>1, Going DEF HandleEvent, Event, Sound, Looking
    <2>7. Typed'
      BY <1>3, <2>1, <2>2, <2>3, Names
         DEF HandleEvent, Sound, Typed, Looking, world, locked, buffer, looping, halt
    <2>8. Stages'
      BY <1>3, <1>1, <2>1, <2>2, <2>3, Names
         DEF HandleEvent, Sound, Stages, Refreshers, world, locked, buffer, looping, halt
    <2>9. Buffered'
      BY <1>3, <2>1, <2>2, <2>3
         DEF HandleEvent, Sound, Buffered, Single, world, locked, buffer, looping, halt
    <2> QED
      BY <1>3, <2>7, <2>8, <2>9 DEF HandleEvent, Sound, Untouched, world, locked, buffer, looping, halt
  <1>4. CASE Settle
    <2>1. /\ pc' \in [Producers -> Stands] /\ pc'["events"] \in {"read", "remove", "idle"} /\ pc["events"] = "settle"
          /\ \A q \in Producers : q # "events" => pc'[q] = pc[q]
      BY <1>1, <1>2, <1>4, Going DEF Settle, Sound
    <2>7. Typed'
      BY <1>4, <2>1, Names DEF Settle, Sound, Typed, Looking, world, locked, buffer, looping, halt
    <2>8. Stages'
      BY <1>4, <1>1, <2>1, Names DEF Settle, Sound, Stages, Refreshers, world, locked, buffer, looping, halt
    <2>9. Buffered'
      BY <1>4, <2>1 DEF Settle, Sound, Buffered, Single, world, locked, buffer, looping, halt
    <2> QED
      BY <1>4, <2>7, <2>8, <2>9 DEF Settle, Sound, Untouched, world, locked, buffer, looping, halt
  <1>5. CASE Read
    <2>1. /\ pc' \in [Producers -> Stands] /\ pc["events"] = "read"
          /\ pc'["events"] = IF disk[file] \in Contents THEN "update" ELSE "idle"
          /\ \A q \in Producers : q # "events" => pc'[q] = pc[q]
      BY <1>1, <1>2, <1>5, Going DEF Read, Sound
    <2>7. Typed'
      BY <1>5, <2>1, Names DEF Read, Sound, Typed, Looking, world, locked, buffer, looping, halt
    <2>8. Stages'
      BY <1>5, <1>1, <2>1, Names DEF Read, Sound, Stages, Refreshers, world, locked, buffer, looping, halt
    <2>9. Buffered'
      BY <1>5, <2>1 DEF Read, Sound, Buffered, Single, world, locked, buffer, looping, halt
    <2> QED
      BY <1>5, <2>7, <2>8, <2>9 DEF Read, Sound, Untouched, world, locked, buffer, looping, halt
  <1>6. CASE AddOrUpdateClient
    <2>1. /\ pc' \in [Producers -> Stands] /\ pc'["events"] \in {"idle", "dispatch"} /\ pc["events"] = "update"
          /\ \A q \in Producers : q # "events" => pc'[q] = pc[q]
      BY <1>1, <1>2, <1>6, Going DEF AddOrUpdateClient, Sound
    <2>2. file \in Files /\ file \in Ids /\ seen \in Payloads
      BY <2>1, Names DEF Sound, Typed, Looking
    <2>3. FileUpdates(file, seen) \in SUBSET Update /\ Single(FileUpdates(file, seen))
      BY <2>2, Names DEF FileUpdates, Update, Single
    <2>4. /\ out' \in [Producers -> SUBSET Update]
          /\ out'["events"] = {} \/ (pc'["events"] = "dispatch" /\ out'["events"] = FileUpdates(file, seen))
          /\ \A q \in Producers : q # "events" => out'[q] = out[q]
      <3>1. CASE hashes[file] = seen
        BY <1>1, <1>6, <3>1, <2>1, Names DEF AddOrUpdateClient, Sound, Typed, Stages, Refreshers
      <3>2. CASE hashes[file] # seen
        <4>1. out' = [out EXCEPT !["events"] = FileUpdates(file, seen)] /\ Goto("events", "dispatch")
          BY <1>6, <3>2 DEF AddOrUpdateClient
        <4> QED
          BY <4>1, <1>1, <1>2, <2>3, Filled, Going DEF Sound
      <3> QED
        BY <3>1, <3>2
    <2>5. hashes' \in [Files -> Payloads] /\ shadow' \in [Ids -> Payloads]
      <3>1. CASE hashes[file] = seen
        BY <1>6, <3>1 DEF AddOrUpdateClient, locked, Sound, Typed
      <3>2. CASE hashes[file] # seen
        BY <1>6, <3>2, <2>2 DEF AddOrUpdateClient, Sound, Typed
      <3> QED
        BY <3>1, <3>2
    <2>7. Typed'
      BY <1>6, <2>1, <2>2, <2>3, <2>4, <2>5, Names
         DEF AddOrUpdateClient, Sound, Typed, Looking, world, locked, buffer, looping, halt
    <2>8. Stages'
      BY <1>6, <1>1, <2>1, <2>2, <2>3, <2>4, <2>5, Names
         DEF AddOrUpdateClient, Sound, Stages, Refreshers, world, locked, buffer, looping, halt
    <2>9. Buffered'
      BY <1>6, <2>1, <2>2, <2>3, <2>4, <2>5
         DEF AddOrUpdateClient, Sound, Buffered, Single, world, locked, buffer, looping, halt
    <2> QED
      BY <1>6, <2>7, <2>8, <2>9
         DEF AddOrUpdateClient, Sound, Untouched, world, locked, buffer, looping, halt
  <1>7. CASE RemoveClient
    <2>1. /\ pc' \in [Producers -> Stands] /\ pc'["events"] \in {"idle", "dispatch"} /\ pc["events"] = "remove"
          /\ \A q \in Producers : q # "events" => pc'[q] = pc[q]
      BY <1>1, <1>2, <1>7, Going DEF RemoveClient, Sound
    <2>2. file \in Files /\ file \in Ids /\ Absent \in Payloads
      BY <2>1, Names DEF Sound, Typed, Looking
    <2>3. FileUpdates(file, Absent) \in SUBSET Update /\ Single(FileUpdates(file, Absent))
      BY <2>2, Names DEF FileUpdates, Update, Single
    <2>4. /\ out' \in [Producers -> SUBSET Update]
          /\ pc'["events"] = "dispatch" /\ out'["events"] = FileUpdates(file, Absent)
          /\ \A q \in Producers : q # "events" => out'[q] = out[q]
      BY <1>1, <1>2, <1>7, <2>3, Filled, Going DEF RemoveClient, Sound
    <2>5. hashes' \in [Files -> Payloads] /\ shadow' \in [Ids -> Payloads]
      BY <1>7, <2>2, Names DEF RemoveClient, Unknown, locked, Sound, Typed
    <2>7. Typed'
      BY <1>7, <2>1, <2>2, <2>3, <2>4, <2>5, Names
         DEF RemoveClient, Sound, Typed, Looking, world, locked, buffer, looping, halt
    <2>8. Stages'
      BY <1>7, <1>1, <2>1, <2>2, <2>3, <2>4, <2>5, Names
         DEF RemoveClient, Sound, Stages, Refreshers, world, locked, buffer, looping, halt
    <2>9. Buffered'
      BY <1>7, <2>1, <2>2, <2>3, <2>4, <2>5
         DEF RemoveClient, Sound, Buffered, Single, world, locked, buffer, looping, halt
    <2> QED
      BY <1>7, <2>7, <2>8, <2>9 DEF RemoveClient, Sound, Untouched, world, locked, buffer, looping, halt
  <1> QED
    BY <1>3, <1>4, <1>5, <1>6, <1>7

\* Refreshes of the whole state.
LEMMA SoundRefreshes ==
    ASSUME Sound, Forget \/ Rescan \/ \E p \in Refreshers : Snapshot(p) \/ RefreshAuthState(p)
    PROVE  Sound' /\ Untouched
  <1>1. {"rescan", "snapshot", "refresh", "dispatch"} \subseteq Stands
    BY DEF Stands
  <1>2. \A p \in Refreshers : p \in Producers /\ p \notin Channels /\ (\A q \in Refreshers : q # p => q \in Producers)
    BY Names DEF Refreshers, Producers
  <1>3. Credential(Empty) = Absent /\ \A d \in Payloads : Credential(d) = d
    BY Names DEF Credential
  <1>4. [f \in Files |-> Credential(disk[f])] \in [Files -> Payloads]
    BY <1>3, Names DEF Sound, Typed
  <1>5. CASE Forget
    <2>1. /\ pc' \in [Producers -> Stands] /\ pc["reload"] = "forget" /\ pc'["reload"] \in {"rescan", "snapshot"}
          /\ \A q \in Producers : q # "reload" => pc'[q] = pc[q]
      BY <1>1, <1>2, <1>5, Going DEF Forget, Sound, Refreshers
    <2>2. shadow' \in [Ids -> Payloads]
      BY <1>5, Names DEF Forget, Sound, Typed
    <2>3. Typed'
      BY <1>5, <1>2, <2>1, <2>2 DEF Forget, Sound, Typed, Looking, Refreshers, world, buffer, looping, halt
    <2>4. Stages'
      BY <1>5, <1>2, <2>1, Names DEF Forget, Sound, Stages, Refreshers, world, buffer, looping, halt
    <2> QED
      BY <1>5, <2>3, <2>4 DEF Forget, Sound, Buffered, Single, Untouched, buffer, looping, halt
  <1>6. CASE Rescan
    <2>1. /\ pc' \in [Producers -> Stands] /\ pc["reload"] = "rescan" /\ pc'["reload"] = "snapshot"
          /\ \A q \in Producers : q # "reload" => pc'[q] = pc[q]
      BY <1>1, <1>2, <1>6, Going DEF Rescan, Sound, Refreshers
    <2>3. Typed'
      BY <1>6, <1>2, <1>4, <2>1 DEF Rescan, Sound, Typed, Looking, Refreshers, world, buffer, looping, halt
    <2>4. Stages'
      BY <1>6, <1>2, <2>1, Names DEF Rescan, Sound, Stages, Refreshers, world, buffer, looping, halt
    <2> QED
      BY <1>6, <2>3, <2>4 DEF Rescan, Sound, Buffered, Single, Untouched, buffer, looping, halt
  <1>7. ASSUME NEW p \in Refreshers, Snapshot(p)
        PROVE Sound' /\ Untouched
    <2>1. /\ pc' \in [Producers -> Stands] /\ pc[p] = "snapshot" /\ pc'[p] = "refresh"
          /\ \A q \in Producers : q # p => pc'[q] = pc[q]
      BY <1>1, <1>2, <1>7, Going DEF Snapshot, Sound
    <2>2. view' \in [Refreshers -> [Files -> Payloads]]
      BY <1>4, <1>7 DEF Snapshot, Sound, Typed
    <2>3. Typed'
      BY <1>2, <1>7, <2>1, <2>2
         DEF Snapshot, Sound, Typed, Looking, Refreshers, world, locked, buffer, looping, halt
    <2>4. Stages'
      BY <1>2, <1>7, <2>1, Names DEF Snapshot, Sound, Stages, Refreshers, locked, buffer, looping, halt
    <2> QED
      BY <1>7, <2>3, <2>4 DEF Snapshot, Sound, Buffered, Single, Untouched, buffer, looping, halt
  <1>8. ASSUME NEW p \in Refreshers, RefreshAuthState(p)
        PROVE Sound' /\ Untouched
    <2>1. /\ pc' \in [Producers -> Stands] /\ pc[p] = "refresh" /\ pc'[p] = "dispatch"
          /\ \A q \in Producers : q # p => pc'[q] = pc[q]
      BY <1>1, <1>2, <1>8, Going DEF RefreshAuthState, Sound
    <2>2. view' \in [Refreshers -> [Files -> Payloads]]
      BY <1>8 DEF RefreshAuthState, Sound, Typed, NoFiles, Payloads
    <2>3. PICK us \in SUBSET Update : Single(us) /\ out' = [out EXCEPT ![p] = us]
      <3>1. view[p] \in [Files -> Payloads]
        BY DEF Sound, Typed
      <3>2. Single({}) /\ {} \in SUBSET Update
        BY DEF Single
      <3> DEFINE force == p = "events" \/ asked.force
                 us == IF queueSet THEN Differences(NewState(view[p], p), force) ELSE {}
      <3>3. out' = [out EXCEPT ![p] = us]
        BY <1>8 DEF RefreshAuthState, PrepareAuthUpdates
      <3>4. us \in SUBSET Update /\ Single(us)
        BY <3>1, <3>2, DifferencesAre
      <3> HIDE DEF us
      <3> QED
        BY <3>3, <3>4
    <2>4. /\ out' \in [Producers -> SUBSET Update] /\ Single(out'[p])
          /\ \A q \in Producers : q # p => out'[q] = out[q]
      BY <1>2, <2>3, Filled DEF Sound
    <2>5. shadow' \in [Ids -> Payloads]
      BY <1>8, DifferencesAre DEF RefreshAuthState, PrepareAuthUpdates, Sound, Typed
    <2>6. Typed'
      BY <1>2, <1>8, <2>1, <2>2, <2>4, <2>5
         DEF RefreshAuthState, Sound, Typed, Looking, Refreshers, world, buffer, looping, halt
    <2>7. Stages'
      <3>1. UNCHANGED <<loop, batch, stopping, cancelled, queueSet, runtime>>
        BY <1>8 DEF RefreshAuthState, looping, halt
      <3>2. \A q \in Refreshers : pc'[q] # "dispatch" => out'[q] = {}
        BY <1>2, <2>1, <2>4 DEF Sound, Stages
      <3>3. \A c \in Channels : out'[c] = out[c] /\ pc'[c] = pc[c]
        BY <1>2, <2>1, <2>4, Names DEF Refreshers, Producers
      <3> QED
        BY <3>1, <3>2, <3>3 DEF Sound, Stages
    <2>8. Buffered'
      BY <1>8, <2>4 DEF RefreshAuthState, Sound, Buffered, Single, buffer
    <2> QED
      BY <1>8, <2>6, <2>7, <2>8 DEF RefreshAuthState, Sound, Untouched, buffer, looping, halt
  <1> QED
    BY <1>5, <1>6, <1>7, <1>8

\* Channels come and go.
LEMMA SoundChannels ==
    ASSUME Sound, NEW c \in Channels, Connect(c) \/ Disconnect(c)
    PROVE  Sound' /\ Untouched
  <1>1. PICK v \in Payloads, l \in {"joining", "leaving"} : RuntimeUpdate(c, v, l)
    BY Names DEF Connect, Disconnect
  <1>2. c \in Producers /\ c \in Ids /\ c \notin Refreshers /\ l \in Stands /\ {[id |-> c, auth |-> v]} \in SUBSET Update
        /\ \A p \in Refreshers : p \in Producers /\ p # c
    BY Names DEF Stands, Update
  <1>3. /\ pc' \in [Producers -> Stands] /\ pc'[c] = l /\ \A q \in Producers : q # c => pc'[q] = pc[q]
    BY <1>1, <1>2, Going DEF RuntimeUpdate, Sound
  <1>4. /\ out' \in [Producers -> SUBSET Update] /\ out'[c] = {[id |-> c, auth |-> v]}
        /\ \A q \in Producers : q # c => out'[q] = out[q]
    BY <1>1, <1>2, Filled DEF RuntimeUpdate, Sound
  <1>5. runtime' \in [Channels -> Payloads] /\ runtime'[c] = v /\ \A d \in Channels : d # c => runtime'[d] = runtime[d]
    BY <1>1 DEF RuntimeUpdate, Sound, Typed
  <1>6. shadow' \in [Ids -> Payloads]
    BY <1>1, <1>2 DEF RuntimeUpdate, Sound, Typed
  <1>7. Typed'
    BY <1>1, <1>2, <1>3, <1>4, <1>5, <1>6
       DEF RuntimeUpdate, Sound, Typed, Looking, Refreshers, world, buffer, looping, halt
  <1>8. Stages'
    BY <1>1, <1>2, <1>3, <1>4, <1>5, Names DEF RuntimeUpdate, Sound, Stages, buffer, looping, halt
  <1>9. Buffered'
    BY <1>1, <1>4 DEF RuntimeUpdate, Sound, Buffered, Single, buffer
  <1> QED
    BY <1>1, <1>7, <1>8, <1>9 DEF RuntimeUpdate, Sound, Untouched, buffer, looping, halt

-----------------------------------------------------------------------------
(* The steps of the queue.                                                 *)

\* Where a producer is after it has dispatched its updates.
LEMMA Dispatched ==
    ASSUME Sound, NEW p \in Producers, pc[p] \in {"dispatch", "joining", "leaving"}, After(p),
           out' = [out EXCEPT ![p] = {}], UNCHANGED runtime
    PROVE  /\ pc' \in [Producers -> Stands] /\ pc'[p] \in {"idle", "up", "gone"}
           /\ \A q \in Producers : q # p => pc'[q] = pc[q] /\ out'[q] = out[q]
           /\ out' \in [Producers -> SUBSET Update] /\ out'[p] = {}
           /\ pc'["events"] \in Looking => pc["events"] \in Looking
           /\ pc'["events"] # "update" \/ pc["events"] = "update"
           /\ \A q \in Refreshers : pc'[q] # "dispatch" => out'[q] = {}
           /\ \A c \in Channels : out'[c] = IF pc'[c] \in {"joining", "leaving"} THEN {[id |-> c, auth |-> runtime'[c]]} ELSE {}
           /\ \A q \in Producers : Single(out'[q])
  <1>1. PICK l \in {"idle", "up", "gone"} : Goto(p, l)
    BY DEF After
  <1>2. l \in Stands /\ {} \in SUBSET Update
    BY DEF Stands
  <1>3. pc' \in [Producers -> Stands] /\ pc'[p] = l /\ \A q \in Producers : q # p => pc'[q] = pc[q]
    BY <1>1, <1>2, Going DEF Sound
  <1>4. out' \in [Producers -> SUBSET Update] /\ out'[p] = {} /\ \A q \in Producers : q # p => out'[q] = out[q]
    BY <1>2, Filled DEF Sound
  <1>5. \A q \in Producers : Single(out'[q])
    BY <1>4 DEF Single, Sound, Buffered
  <1>6. "events" \in Producers
    BY DEF Producers
  <1> QED
    BY <1>3, <1>4, <1>5, <1>6, Names DEF Sound, Stages, Looking

\* Producers merge what they computed into the buffer.
LEMMA DispatchSends ==
    ASSUME Sound, NEW p \in Producers, DispatchAuthUpdates(p)
    PROVE  Sound' /\ (Queue!Send \/ UNCHANGED Queue!vars)
  <1>1. out[p] \in SUBSET Update /\ Single(out[p])
    BY DEF Sound, Typed, Buffered
  <1>2. /\ pc[p] \in {"dispatch", "joining", "leaving"} /\ After(p) /\ out' = [out EXCEPT ![p] = {}]
        /\ UNCHANGED <<world, locked, file, seen, view, asked, batch, halt, channel, applied>>
    BY DEF DispatchAuthUpdates
  <1>3. UNCHANGED <<disk, events, hashes, shadow, runtime, file, seen, view, batch, channel, applied, cancelled, queueSet, stopping>>
    BY <1>2 DEF world, locked, halt
  <1>4. /\ pc' \in [Producers -> Stands]
        /\ out' \in [Producers -> SUBSET Update]
        /\ pc'["events"] \in Looking => pc["events"] \in Looking
        /\ pc'["events"] # "update" \/ pc["events"] = "update"
        /\ \A q \in Refreshers : pc'[q] # "dispatch" => out'[q] = {}
        /\ \A c \in Channels : out'[c] = IF pc'[c] \in {"joining", "leaving"} THEN {[id |-> c, auth |-> runtime'[c]]} ELSE {}
        /\ \A q \in Producers : Single(out'[q])
    BY <1>2, <1>3, Dispatched
  <1>5. CASE queueSet
    <2>1. Merge(out[p])
      BY <1>5 DEF DispatchAuthUpdates
    <2>2. Queue!Send
      BY <1>1, <1>3, <2>1, MergeSends
    <2>3. Typed'
      BY <1>1, <1>3, <1>4, <2>1, MergeMakes DEF Sound, Typed
    <2>4. Buffered'
      BY <1>1, <1>3, <1>4, <2>1, MergeMakes DEF Sound, Buffered
    <2>5. loop' = loop \/ (loop = "asleep" /\ loop' = "woken")
      BY <2>1 DEF Merge, Woken
    <2>6. Stages'
      BY <1>3, <1>4, <2>5 DEF Sound, Stages
    <2> QED
      BY <2>2, <2>3, <2>4, <2>6 DEF Sound
  <1>6. CASE ~queueSet
    <2>1. UNCHANGED <<pendingUpdates, pendingOrder, loop, sent>>
      BY <1>6 DEF DispatchAuthUpdates, buffer
    <2>2. UNCHANGED Queue!vars
      BY <1>3, <2>1 DEF Queue!vars, Waiting, Pending
    <2>3. Sound'
      BY <1>3, <1>4, <2>1 DEF Sound, Typed, Buffered, Stages
    <2> QED
      BY <2>2, <2>3
  <1> QED
    BY <1>5, <1>6

\* Without a queue a channel's update goes past it.
LEMMA EmitBypasses ==
    ASSUME Sound, NEW c \in Channels, EmitDirectly(c)
    PROVE  Sound' /\ Queue!Bypass
  <1>1. /\ c \in Producers /\ ~queueSet /\ cancelled /\ pc[c] \in {"joining", "leaving"}
        /\ out[c] = {[id |-> c, auth |-> runtime[c]]} /\ [id |-> c, auth |-> runtime[c]] \in Update
    BY Names DEF EmitDirectly, Sound, Typed, Stages, Update
  <1> DEFINE u == [id |-> c, auth |-> runtime[c]]
  <1>2. UNCHANGED <<disk, events, hashes, shadow, runtime, file, seen, view, batch, cancelled, queueSet, stopping, loop,
                    pendingUpdates, pendingOrder>>
    BY DEF EmitDirectly, world, locked, halt, buffer, looping
  <1>3. /\ pc' \in [Producers -> Stands]
        /\ out' \in [Producers -> SUBSET Update]
        /\ pc'["events"] \in Looking => pc["events"] \in Looking
        /\ pc'["events"] # "update" \/ pc["events"] = "update"
        /\ \A q \in Refreshers : pc'[q] # "dispatch" => out'[q] = {}
        /\ \A d \in Channels : out'[d] = IF pc'[d] \in {"joining", "leaving"} THEN {[id |-> d, auth |-> runtime'[d]]} ELSE {}
        /\ \A q \in Producers : Single(out'[q])
    <2>1. After(c) /\ out' = [out EXCEPT ![c] = {}]
      BY DEF EmitDirectly
    <2> QED
      BY <1>1, <1>2, <2>1, Dispatched
  <1>4. sent' = [sent EXCEPT ![u.id] = u.auth] /\ sent' \in [Ids -> Payloads]
    <2>1. sent' = With(sent, {u})
      BY <1>1 DEF EmitDirectly
    <2>2. sent' = [i \in Ids |-> IF i = u.id THEN u.auth ELSE sent[i]]
      BY <1>1, <2>1 DEF With, Update, Sound, Typed
    <2> QED
      BY <1>1, <2>2 DEF Update, Sound, Typed
  <1>5. \/ channel' = Append(channel, u) /\ applied' = applied
        \/ applied' = [applied EXCEPT ![u.id] = u.auth] /\ channel' = channel
    BY <1>1 DEF EmitDirectly
  <1>6. channel' \in Seq(Update) /\ applied' \in [Ids -> Payloads]
    <2>1. u \in Update /\ u.id \in Ids /\ u.auth \in Payloads /\ channel \in Seq(Update) /\ applied \in [Ids -> Payloads]
      BY <1>1 DEF Sound, Typed, Update
    <2> HIDE DEF u
    <2> QED
      BY <1>5, <2>1
  <1> HIDE DEF u
  <1>7. Sound'
    BY <1>2, <1>3, <1>4, <1>6 DEF Sound, Typed, Buffered, Stages
  <1>8. Pending \in Seq(Update) /\ Pending' = Pending /\ channel \in Seq(Update) /\ batch \in Seq(Update)
    BY <1>2, BufferIs DEF Pending, Sound, Typed
  <1>9. CASE channel' = Append(channel, u) /\ applied' = applied
    <2> DEFINE rest == batch \o Pending
    <2>1. rest \in Seq(Update) /\ Waiting = channel \o rest /\ u \in Update
      BY <1>1, <1>8, ConcatProperties, ConcatAssociative, SMTT(20) DEF Waiting, u
    <2>2. Waiting' = (channel \o <<u>>) \o rest
      BY <1>2, <1>8, <1>9, <2>1, ConcatAssociative, AppendIsConcat, AppendProperties, SMTT(20) DEF Waiting
    <2> HIDE DEF rest
    <2>3. PICK k \in Nat, l \in Nat : k = Len(channel) /\ l = Len(rest)
      BY <1>8, <2>1
    <2>4. SubSeq(Waiting, 1, k) = channel
      BY <1>8, <2>1, <2>3, ConcatProperties
    <2>5. SubSeq(Waiting, k + 1, Len(Waiting)) = rest
      BY <1>8, <2>1, <2>3, ConcatProperties
    <2>6. k \in 0..Len(Waiting)
      BY <1>8, <2>1, <2>3, ConcatProperties
    <2>7. Waiting' = SubSeq(Waiting, 1, k) \o <<u>> \o SubSeq(Waiting, k + 1, Len(Waiting))
      BY <2>2, <2>4, <2>5
    <2>8. Queue!Update = Update
      BY DEF Queue!Update, Update
    <2> QED
      BY <1>1, <1>2, <1>4, <1>7, <1>9, <2>1, <2>6, <2>7, <2>8 DEF Queue!Bypass
  <1>10. CASE applied' = [applied EXCEPT ![u.id] = u.auth] /\ channel' = channel
    <2>1. Queue!Update = Update /\ u \in Update
      BY <1>1 DEF Queue!Update, Update, u
    <2>2. Waiting' = Waiting
      BY <1>2, <1>8, <1>10 DEF Waiting
    <2> QED
      BY <1>1, <1>2, <1>4, <1>7, <1>10, <2>1, <2>2 DEF Queue!Bypass
  <1> QED
    BY <1>5, <1>9, <1>10

\* The halves and the end of what waits.
LEMMA WaitingIs ==
    ASSUME Sound
    PROVE  /\ channel \in Seq(Update) /\ batch \in Seq(Update) /\ Pending \in Seq(Update)
           /\ channel \o batch \in Seq(Update) /\ batch \o Pending \in Seq(Update)
           /\ Waiting \in Seq(Update) /\ Waiting = channel \o (batch \o Pending)
  <1>1. channel \in Seq(Update) /\ batch \in Seq(Update) /\ Pending \in Seq(Update)
    BY BufferIs DEF Sound, Typed
  <1> QED
    BY <1>1, ConcatProperties, ConcatAssociative DEF Waiting

LEMMA NothingIs ==
    /\ DOMAIN << >> = {} /\ 1..Len(<< >>) = {} /\ << >> \in Seq(Update) /\ << >> \in Seq(Ids)
  BY EmptySeq

LEMMA Joined ==
    ASSUME NEW s \in Seq(Update), NEW t \in Seq(Update)
    PROVE  /\ s \o t \in Seq(Update) /\ s \o << >> = s /\ << >> \o s = s
           /\ \A r \in Seq(Update) : (s \o t) \o r = s \o (t \o r)
  BY ConcatProperties, ConcatEmptySeq, ConcatAssociative

\* The first of some updates, and the others.
LEMMA FirstAndRest ==
    ASSUME NEW s \in Seq(Update), s # << >>
    PROVE  /\ Head(s) \in Update /\ Tail(s) \in Seq(Update) /\ <<Head(s)>> \in Seq(Update)
           /\ s = <<Head(s)>> \o Tail(s)
           /\ (Len(s) = 1) <=> (Tail(s) = << >>)
           /\ \A t \in Seq(Update) :
                s \o t # << >> /\ Head(s \o t) = Head(s) /\ Tail(s \o t) = Tail(s) \o t
  <1>1. Head(s) \in Update /\ Tail(s) \in Seq(Update) /\ Len(Tail(s)) = Len(s) - 1
    BY HeadTailProperties
  <1>2. <<Head(s)>> \in Seq(Update)
    BY <1>1
  <1>3. s = <<Head(s)>> \o Tail(s)
    <2>1. s = SubSeq(s, 1, Len(s)) /\ Tail(s) = SubSeq(s, 2, Len(s)) /\ Len(s) \in Nat \ {0} /\ s[1] = Head(s)
      BY SubSeqFull, TailIsSubSeq, EmptySeq
    <2>2. 1 \in 1..Len(s) /\ Len(s) \in 1..Len(s) /\ 1 + 1 = 2
      BY <2>1
    <2>3. SubSeq(s, 1, Len(s)) = <<s[1]>> \o SubSeq(s, 1 + 1, Len(s))
      BY <2>2, SubSeqRecursiveFirst
    <2> QED
      BY <2>1, <2>2, <2>3
  <1>4. (Len(s) = 1) <=> (Tail(s) = << >>)
    <2>1. Len(s) \in Nat /\ Len(Tail(s)) \in Nat
      BY <1>1, LenProperties
    <2>2. (Len(Tail(s)) = 0) <=> (Tail(s) = << >>)
      BY <1>1, EmptySeq
    <2>3. PICK k \in Nat, l \in Nat : k = Len(s) /\ l = Len(Tail(s))
      BY <2>1
    <2> QED
      BY <1>1, <2>2, <2>3
  <1>5. ASSUME NEW t \in Seq(Update)
        PROVE  s \o t # << >> /\ Head(s \o t) = Head(s) /\ Tail(s \o t) = Tail(s) \o t
    <2>1. s \o t = <<Head(s)>> \o (Tail(s) \o t)
      BY ONLY <1>1, <1>2, <1>3, Joined, t \in Seq(Update), s \in Seq(Update)
    <2>2. Tail(s) \o t \in Seq(Update)
      BY <1>1, Joined
    <2>3. PICK r : r = Tail(s) \o t
      OBVIOUS
    <2>4. <<Head(s)>> \o r # << >> /\ Head(<<Head(s)>> \o r) = Head(s) /\ Tail(<<Head(s)>> \o r) = r
      BY <1>1, <2>2, <2>3
    <2> QED
      BY <2>1, <2>3, <2>4
  <1> QED
    BY <1>1, <1>2, <1>3, <1>4, <1>5

\* Taking a sequence apart where it was put together.
LEMMA Cut ==
    ASSUME NEW s \in Seq(Update), NEW t \in Seq(Update)
    PROVE  /\ SubSeq(s \o t, 1, Len(s)) = s /\ SubSeq(s \o t, Len(s) + 1, Len(s \o t)) = t
           /\ Len(s) \in Nat /\ Len(s \o t) \in Nat /\ Len(s) <= Len(s \o t)
  <1>1. PICK k \in Nat, l \in Nat : k = Len(s) /\ l = Len(t)
    OBVIOUS
  <1>2. PICK q \in Seq(Update) : q = s \o t
    BY ConcatProperties
  <1>3. Len(q) = k + l /\ (\A n \in 1..k : q[n] = s[n]) /\ (\A n \in 1..l : q[k + n] = t[n])
    BY <1>1, <1>2, Behind
  <1>4. SubSeq(q, 1, k) = s
    BY <1>1, <1>2, ConcatProperties
  <1>5. PICK a \in Int, b \in Int : a = k + 1 /\ b = k + l
    OBVIOUS
  <1>6. SubSeq(q, a, b) = t
    <2>1. \A n \in a..b : q[n] \in Update
      BY <1>2, <1>3, <1>5
    <2>2. /\ SubSeq(q, a, b) \in Seq(Update) /\ Len(SubSeq(q, a, b)) = IF a <= b THEN b - a + 1 ELSE 0
          /\ \A n \in 1..b - a + 1 : SubSeq(q, a, b)[n] = q[a + n - 1]
      BY <2>1, SubSeqProperties
    <2>3. b - a + 1 = l /\ (IF a <= b THEN b - a + 1 ELSE 0) = l /\ \A n \in 1..l : a + n - 1 = k + n
      BY <1>5
    <2>4. PICK c : c = SubSeq(q, a, b)
      OBVIOUS
    <2>5. c \in Seq(Update) /\ Len(c) = l /\ \A n \in 1..l : c[n] = t[n]
      BY <1>3, <2>2, <2>3, <2>4
    <2>6. c = t
      BY <1>1, <2>5, SeqEqual
    <2> QED
      BY <2>4, <2>6
  <1>7. k <= k + l
    OBVIOUS
  <1> QED
    BY <1>1, <1>2, <1>3, <1>4, <1>5, <1>6, <1>7

\* Giving up what stands between two parts of a sequence.
LEMMA Shortened ==
    ASSUME NEW s \in Seq(Update), NEW t \in Seq(Update), NEW r \in Seq(Update)
    PROVE  \E m, n \in 0..Len(s \o (t \o r)) :
             m <= n /\ s \o r = SubSeq(s \o (t \o r), 1, m)
                                  \o SubSeq(s \o (t \o r), n + 1, Len(s \o (t \o r)))
  <1>1. t \o r \in Seq(Update) /\ s \o t \in Seq(Update) /\ s \o (t \o r) = (s \o t) \o r
    BY Joined
  <1>2. PICK q : q = s \o (t \o r)
    OBVIOUS
  <1>3. SubSeq(q, 1, Len(s)) = s /\ Len(s) \in Nat /\ Len(q) \in Nat
    BY <1>1, <1>2, Cut
  <1>4. SubSeq(q, Len(s \o t) + 1, Len(q)) = r /\ Len(s \o t) \in Nat /\ Len(s \o t) <= Len(q)
    BY <1>1, <1>2, Cut
  <1>5. Len(s) <= Len(s \o t)
    BY Cut
  <1>6. Len(s) \in 0..Len(q) /\ Len(s \o t) \in 0..Len(q)
    BY <1>3, <1>4, <1>5
  <1> QED
    BY <1>2, <1>3, <1>4, <1>5, <1>6

LEMMA GivenUp ==
    ASSUME Sound, cancelled, UNCHANGED <<applied, sent, cancelled>>,
           Waiting' = channel \o Pending \/ Waiting' = channel \o batch
    PROVE  Queue!Lose
  <1>1. channel \in Seq(Update) /\ batch \in Seq(Update) /\ Pending \in Seq(Update) /\ << >> \in Seq(Update)
    BY WaitingIs, NothingIs
  <1>2. CASE Waiting' = channel \o Pending
    <2>1. Waiting = channel \o (batch \o Pending)
      BY WaitingIs
    <2>2. PICK m \in 0..Len(Waiting), n \in 0..Len(Waiting) :
            m <= n /\ Waiting' = SubSeq(Waiting, 1, m) \o SubSeq(Waiting, n + 1, Len(Waiting))
      <3>1. \E m, n \in 0..Len(channel \o (batch \o Pending)) :
              m <= n /\ channel \o Pending = SubSeq(channel \o (batch \o Pending), 1, m)
                          \o SubSeq(channel \o (batch \o Pending), n + 1, Len(channel \o (batch \o Pending)))
        BY ONLY <1>1, Shortened
      <3> QED
        BY ONLY <1>2, <2>1, <3>1
    <2> QED
      BY <2>2 DEF Queue!Lose
  <1>3. CASE Waiting' = channel \o batch
    <2> PICK s : s = channel \o batch
      OBVIOUS
    <2>1. Waiting = s \o (Pending \o << >>) /\ s \in Seq(Update) /\ Waiting' = s \o << >>
      BY <1>1, <1>3, Joined DEF Waiting
    <2>2. PICK m \in 0..Len(Waiting), n \in 0..Len(Waiting) :
            m <= n /\ Waiting' = SubSeq(Waiting, 1, m) \o SubSeq(Waiting, n + 1, Len(Waiting))
      <3>1. s \in Seq(Update) /\ Pending \in Seq(Update) /\ << >> \in Seq(Update)
        BY <1>1, <2>1
      <3>2. \E m, n \in 0..Len(s \o (Pending \o << >>)) :
              m <= n /\ s \o << >> = SubSeq(s \o (Pending \o << >>), 1, m)
                                     \o SubSeq(s \o (Pending \o << >>), n + 1, Len(s \o (Pending \o << >>)))
        BY ONLY <3>1, Shortened
      <3> QED
        BY ONLY <3>2, <2>1
    <2> QED
      BY <2>2 DEF Queue!Lose
  <1> QED
    BY <1>2, <1>3

\* The dispatch loop and the consumer.
LEMMA LoopServes ==
    ASSUME Sound, LoopStep \/ ConsumeAuthUpdate
    PROVE  Sound' /\ (Queue!Apply \/ Queue!Lose \/ UNCHANGED Queue!vars)
  <1>1. CASE LookAgain
    <2>1. Sound'
      BY <1>1 DEF LookAgain, Sound, Typed, Buffered, Stages, Single, world, locked, producers, buffer, halt
    <2> QED
      BY <1>1, <2>1 DEF LookAgain, Queue!vars, Waiting, Pending, halt, buffer
  <1>2. CASE TakeBatch
    <2>1. batch = << >> /\ batch' = Pending /\ pendingOrder' = << >> /\ pendingUpdates' = << >>
          /\ UNCHANGED <<channel, applied, sent, cancelled>>
      BY <1>2 DEF TakeBatch, Sound, Stages, halt
    <2>2. Pending' = << >>
      BY <2>1 DEF Pending
    <2>3. Waiting' = Waiting
      BY <2>1, <2>2, WaitingIs, Joined DEF Waiting
    <2>4. Typed'
      BY <1>2, <2>1, WaitingIs DEF TakeBatch, Sound, Typed, world, locked, producers, halt
    <2>5. Buffered'
      BY <1>2, <2>1, NothingIs DEF TakeBatch, Sound, Buffered, Single, producers
    <2>6. Stages'
      <3>1. batch' # << >>
        BY <1>2, <2>1, BufferIs DEF TakeBatch, Sound, Typed
      <3> QED
        BY <1>2, <3>1 DEF TakeBatch, Sound, Stages, world, locked, producers, halt
    <2> QED
      BY <2>1, <2>3, <2>4, <2>5, <2>6 DEF Sound, Queue!vars
  <1>3. CASE CheckQueue
    <2>1. Sound'
      <3>1. batch' \in Seq(Update)
        BY <1>3, NothingIs DEF CheckQueue, Sound, Typed
      <3>2. Typed'
        BY <1>3, <3>1 DEF CheckQueue, Sound, Typed, world, locked, producers, buffer
      <3>4. Buffered'
        <4>1. out' = out /\ pendingOrder' = pendingOrder /\ pendingUpdates' = pendingUpdates
          BY <1>3 DEF CheckQueue, producers, buffer
        <4>2. Buffered
          BY DEF Sound
        <4> QED
          BY ONLY <4>1, <4>2 DEF Buffered, Single
      <3>3. Stages'
        BY <1>3 DEF CheckQueue, Sound, Stages, world, locked, producers, halt
      <3> QED
        BY <3>2, <3>3, <3>4 DEF Sound
    <2>2. CASE queueSet
      BY <1>3, <2>1, <2>2 DEF CheckQueue, Queue!vars, Waiting, Pending, halt, buffer
    <2>3. CASE ~queueSet
      <3>1. cancelled /\ batch' = << >> /\ UNCHANGED <<channel, Pending, applied, sent, cancelled>>
        BY <1>3, <2>3 DEF CheckQueue, Sound, Stages, Pending, halt, buffer
      <3>2. Waiting' = channel \o Pending
        BY <3>1, WaitingIs, Joined DEF Waiting
      <3> QED
        BY <2>1, <3>1, <3>2, GivenUp
    <2> QED
      BY <2>2, <2>3
  <1>4. CASE SendNext
    <2>1. /\ batch # << >> /\ channel' = Append(channel, Head(batch)) /\ batch' = Tail(batch)
          /\ UNCHANGED <<Pending, applied, sent, cancelled>>
      BY <1>4 DEF SendNext, Sound, Stages, Pending, halt, buffer
    <2>2. /\ Head(batch) \in Update /\ Tail(batch) \in Seq(Update)
          /\ <<Head(batch)>> \in Seq(Update) /\ batch = <<Head(batch)>> \o Tail(batch)
      BY <2>1, WaitingIs, FirstAndRest
    <2>3. channel' = channel \o <<Head(batch)>> /\ channel' \in Seq(Update)
      BY <2>1, <2>2, WaitingIs, AppendIsConcat, AppendProperties
    <2>4. channel' \o batch' = channel \o batch
      <3>1. channel \o batch = channel \o (<<Head(batch)>> \o Tail(batch))
        BY <2>2
      <3>2. channel \o (<<Head(batch)>> \o Tail(batch)) = (channel \o <<Head(batch)>>) \o Tail(batch)
        <4>1. channel \in Seq(Update)
          BY WaitingIs
        <4> QED
          BY ONLY <2>2, <4>1, Joined, SMTT(20)
      <3> QED
        BY <2>1, <2>3, <3>1, <3>2
    <2>5. UNCHANGED Queue!vars
      BY <2>1, <2>4 DEF Queue!vars, Waiting
    <2>6. Typed' /\ Buffered'
      BY <1>4, <2>1, <2>2, <2>3
         DEF SendNext, Sound, Typed, Buffered, Single, world, locked, producers, buffer
    <2>7. loop' = IF Len(batch) = 1 THEN "looking" ELSE "sending"
      BY <1>4 DEF SendNext
    <2>8. (Len(batch) = 1) <=> batch' = << >>
      BY <2>1, WaitingIs, FirstAndRest
    <2>9. Stages'
      BY <1>4, <2>7, <2>8 DEF SendNext, Sound, Stages, world, locked, producers, halt
    <2> QED
      BY <2>5, <2>6, <2>9 DEF Sound
  <1>5. CASE SendCancelled
    <2>1. Sound'
      <3>1. batch' \in Seq(Update)
        BY <1>5, NothingIs DEF SendCancelled, Sound, Typed
      <3>2. Typed' /\ Buffered'
        BY <1>5, <3>1 DEF SendCancelled, Sound, Typed, Buffered, Single, world, locked, producers, buffer
      <3>3. Stages'
        BY <1>5 DEF SendCancelled, Sound, Stages, world, locked, producers, halt
      <3> QED
        BY <3>2, <3>3 DEF Sound
    <2>2. cancelled /\ batch' = << >> /\ UNCHANGED <<channel, Pending, applied, sent, cancelled>>
      BY <1>5 DEF SendCancelled, Pending, halt, buffer
    <2>3. Waiting' = channel \o Pending
      BY <2>2, WaitingIs, Joined DEF Waiting
    <2> QED
      BY <2>1, <2>2, <2>3, GivenUp
  <1>6. CASE ConsumeAuthUpdate
    <2>1. /\ channel # << >> /\ channel' = Tail(channel) /\ UNCHANGED <<batch, Pending, sent, cancelled>>
          /\ applied' = [applied EXCEPT ![Head(channel).id] = Head(channel).auth]
      BY <1>6 DEF ConsumeAuthUpdate, Pending, looping, buffer, halt
    <2>2. Head(channel) \in Update /\ Tail(channel) \in Seq(Update) /\ <<Head(channel)>> \in Seq(Update)
          /\ channel = <<Head(channel)>> \o Tail(channel)
      BY <2>1, WaitingIs, FirstAndRest
    <2>3. Waiting # << >> /\ Head(Waiting) = Head(channel) /\ Tail(Waiting) = Tail(channel) \o (batch \o Pending)
      <3>1. /\ channel \in Seq(Update) /\ batch \o Pending \in Seq(Update)
            /\ Waiting = channel \o (batch \o Pending)
        BY WaitingIs
      <3> QED
        BY ONLY <2>1, <3>1, FirstAndRest
    <2>4. Waiting' = Tail(Waiting)
      <3>1. Waiting' = (Tail(channel) \o batch) \o Pending
        BY <2>1 DEF Waiting
      <3>2. (Tail(channel) \o batch) \o Pending = Tail(channel) \o (batch \o Pending)
        <4>1. batch \in Seq(Update) /\ Pending \in Seq(Update)
          BY WaitingIs
        <4> QED
          BY ONLY <2>2, <4>1, Joined, SMTT(20)
      <3> QED
        BY <2>3, <3>1, <3>2
    <2>5. applied' \in [Ids -> Payloads]
      BY <2>1, <2>2 DEF Sound, Typed, Update
    <2>6. Sound'
      BY <1>6, <2>1, <2>2, <2>5
         DEF ConsumeAuthUpdate, Sound, Typed, Buffered, Stages, Single, world, locked, producers, buffer,
             looping, halt
    <2> QED
      BY <2>1, <2>3, <2>4, <2>6 DEF Queue!Apply
  <1> QED
    BY <1>1, <1>2, <1>3, <1>4, <1>5, <1>6 DEF LoopStep

\* The stop closes the queue and gives up what is in the buffer.
LEMMA StopCloses ==
    ASSUME Sound, Stop
    PROVE  Sound' /\ (Queue!Close \/ Queue!Lose \/ UNCHANGED Queue!vars)
  <1>1. UNCHANGED <<disk, events, hashes, shadow, runtime, pc, file, seen, view, out, batch, channel, applied, sent>>
    BY DEF Stop, world, locked, producers
  <1>2. CASE stopping = "no" /\ cancelled' = TRUE /\ stopping' = "clear" /\ UNCHANGED <<queueSet, consuming, buffer, loop>>
    <2>1. Sound'
      BY <1>1, <1>2 DEF Sound, Typed, Buffered, Stages, Single, buffer
    <2> QED
      BY <1>1, <1>2, <2>1 DEF Sound, Stages, Queue!Close, Waiting, Pending, buffer
  <1>3. CASE /\ stopping = "clear" /\ pendingUpdates' = << >> /\ pendingOrder' = << >>
             /\ loop' = Broadcast /\ stopping' = "unset" /\ UNCHANGED <<cancelled, queueSet, consuming>>
    <2>1. Sound'
      <3>1. Typed' /\ Buffered'
        BY <1>1, <1>3, NothingIs DEF Sound, Typed, Buffered, Single
      <3>2. Stages'
        BY <1>1, <1>3 DEF Sound, Stages, Broadcast
      <3> QED
        BY <3>1, <3>2 DEF Sound
    <2>2. Pending' = << >>
      BY <1>3 DEF Pending
    <2>3. Waiting' = channel \o batch
      BY <1>1, <2>2, WaitingIs, Joined DEF Waiting
    <2>4. cancelled
      BY <1>3 DEF Sound, Stages
    <2> QED
      BY <1>1, <1>3, <2>1, <2>3, <2>4, GivenUp
  <1>4. CASE stopping = "unset" /\ queueSet' = FALSE /\ stopping' = "consumer" /\ UNCHANGED <<cancelled, consuming, buffer, loop>>
    BY <1>1, <1>4 DEF Sound, Typed, Buffered, Stages, Single, buffer, Queue!vars, Waiting, Pending
  <1>5. CASE stopping = "consumer" /\ consuming' = FALSE /\ stopping' = "done" /\ UNCHANGED <<cancelled, queueSet, buffer, loop>>
    BY <1>1, <1>5 DEF Sound, Typed, Buffered, Stages, Single, buffer, Queue!vars, Waiting, Pending
  <1> QED
    BY <1>2, <1>3, <1>4, <1>5 DEF Stop, StopDispatch

LEMMA SoundInitially ==
    ASSUME Init
    PROVE  Sound /\ Queue!Init /\ Queue!NoneLost
  <1>1. /\ disk \in [Files -> Payloads] /\ hashes = disk
        /\ shadow = [i \in Ids |-> IF i \in Files THEN disk[i] ELSE Absent] /\ applied = shadow /\ sent = shadow
        /\ runtime = [c \in Channels |-> Absent]
        /\ pc = [p \in Producers |-> IF p \in Channels THEN "new" ELSE "idle"]
        /\ out = [p \in Producers |-> {}]
        /\ events = << >> /\ file = KiroToken /\ seen = Absent /\ view = [p \in Refreshers |-> NoFiles]
        /\ pendingUpdates = << >> /\ pendingOrder = << >> /\ channel = << >> /\ batch = << >>
        /\ loop = "looking" /\ cancelled = FALSE /\ queueSet = TRUE /\ stopping = "no"
    BY DEF Init, Refreshers
  <1>2. shadow \in [Ids -> Payloads] /\ runtime \in [Channels -> Payloads] /\ NoFiles \in [Files -> Payloads]
    BY <1>1, Names DEF NoFiles
  <1>3. /\ pc \in [Producers -> Stands] /\ \A p \in Refreshers : pc[p] = "idle"
        /\ \A c \in Channels : pc[c] = "new"
        /\ \A p \in Producers : out[p] = {}
    BY <1>1, Names DEF Stands
  <1>4. Typed
    BY <1>1, <1>2, <1>3, Names, NothingIs DEF Typed, Looking, Refreshers
  <1>5. Buffered
    BY <1>1, <1>3, NothingIs DEF Buffered, Single
  <1>6. Stages
    BY <1>1, <1>3, Names DEF Stages
  <1>7. Pending = << >>
    BY <1>1 DEF Pending
  <1>8. Waiting = << >>
    <2>1. << >> \o << >> = << >>
      BY NothingIs, Joined
    <2> QED
      BY <1>1, <1>7, <2>1 DEF Waiting
  <1>9. Queue!Init
    BY <1>1, <1>2, <1>8 DEF Queue!Init, Ids
  <1>10. Queue!NoneLost
    BY <1>1, <1>8, NothingIs DEF Queue!NoneLost
  <1> QED
    BY <1>4, <1>5, <1>6, <1>9, <1>10 DEF Sound

\* Every step keeps the invariant and is one of the queue, or none.
LEMMA QueueSteps ==
    ASSUME Sound, [Next]_vars
    PROVE  Sound' /\ (Queue!Next \/ UNCHANGED Queue!vars)
  <1>1. ASSUME Sound' /\ Untouched PROVE Sound' /\ UNCHANGED Queue!vars
    BY <1>1 DEF Untouched, buffer, looping, halt, Queue!vars, Waiting, Pending
  <1>2. CASE UNCHANGED vars
    BY <1>1, <1>2, ZenonT(40)
       DEF vars, Sound, Typed, Buffered, Stages, Single, world, locked, producers, Untouched,
           buffer, looping, halt
  <1>3. CASE Environment
    BY <1>1, <1>3, SoundOutside, SoundChannels DEF Environment
  <1>4. CASE EventStep \/ ReloadStep
    BY <1>1, <1>4, SoundEvents, SoundRefreshes DEF EventStep, ReloadStep, Refreshers
  <1>5. CASE LoopStep \/ ConsumeAuthUpdate
    BY <1>5, LoopServes DEF Queue!Next
  <1>6. CASE Stop
    BY <1>6, StopCloses DEF Queue!Next
  <1>7. CASE \E p \in Producers : DispatchAuthUpdates(p)
    BY <1>7, DispatchSends DEF Queue!Next
  <1>8. CASE \E c \in Channels : EmitDirectly(c)
    BY <1>8, EmitBypasses DEF Queue!Next
  <1> QED
    BY <1>2, <1>3, <1>4, <1>5, <1>6, <1>7, <1>8 DEF Next

\* The channel, the batch and the buffer are one queue that keeps the order of the
\* updates, merges one only into a later one of its credential and loses none until
\* the watcher is told to stop (dispatchAuthUpdates, dispatchLoop, consumeAuthUpdates,
\* emitAuthUpdate).
THEOREM UpdatesKeepTheirOrder == Spec => KeepsThePromise
  <1>1. Init => Sound /\ Queue!Init
    BY SoundInitially
  <1>2. Sound /\ [Next]_vars => Sound' /\ [Queue!Next]_Queue!vars
    BY QueueSteps
  <1> QED
    BY <1>1, <1>2, PTL DEF Spec, KeepsThePromise, Queue!Promise

LEMMA NoneLostStep ==
    ASSUME Sound, Queue!NoneLost, [Next]_vars
    PROVE  Queue!NoneLost'
  <1>1. Waiting \in Seq(Update) /\ applied \in [Ids -> Payloads]
    BY WaitingIs DEF Sound, Typed
  <1> QED
    BY <1>1, QueueSteps, QueueKeeps

\* Until the stop, the update of a credential sent last waits behind all others of the
\* credential, or has been applied and none of the credential waits
\* (dispatchAuthUpdates, dispatchLoop, consumeAuthUpdates).
THEOREM NoUpdateIsLost == Spec => []Queue!NoneLost
  <1>1. Init => Sound /\ Queue!NoneLost
    BY SoundInitially
  <1>2. Sound /\ Queue!NoneLost /\ [Next]_vars => Sound' /\ Queue!NoneLost'
    BY QueueSteps, NoneLostStep
  <1> QED
    BY <1>1, <1>2, PTL DEF Spec

\* The channel has slots for Capacity updates.
Fits == Len(channel) <= Capacity

LEMMA WithinCapacity ==
    ASSUME Sound, Len(channel) <= Capacity, [Next]_vars
    PROVE  Len(channel') <= Capacity
  <1>1. channel \in Seq(Update) /\ batch \in Seq(Update) /\ Capacity \in Nat
    BY DispatchAssumption DEF Sound, Typed
  <1>2. CASE channel' = channel
    BY <1>2
  <1>3. ASSUME NEW u \in Update, Len(channel) < Capacity, channel' = Append(channel, u)
        PROVE  Len(channel') <= Capacity
    BY <1>1, <1>3, AppendProperties
  <1>4. CASE channel # << >> /\ channel' = Tail(channel)
    BY <1>1, <1>4, HeadTailProperties
  <1>5. CASE Environment \/ EventStep \/ ReloadStep \/ UNCHANGED vars
    BY <1>2, <1>5, SoundOutside, SoundChannels, SoundEvents, SoundRefreshes
       DEF Environment, EventStep, ReloadStep, Refreshers, Untouched, vars
  <1>6. CASE LoopStep
    <2>1. SendNext => Head(batch) \in Update
      BY <1>1, HeadTailProperties DEF SendNext, Sound, Stages
    <2> QED
      BY <1>2, <1>3, <1>6, <2>1 DEF LoopStep, LookAgain, TakeBatch, CheckQueue, SendNext, SendCancelled
  <1>7. CASE ConsumeAuthUpdate
    BY <1>4, <1>7 DEF ConsumeAuthUpdate
  <1>8. CASE Stop
    BY <1>2, <1>8 DEF Stop
  <1>9. CASE \E p \in Producers : DispatchAuthUpdates(p)
    BY <1>2, <1>9 DEF DispatchAuthUpdates
  <1>10. ASSUME NEW c \in Channels, EmitDirectly(c) PROVE Len(channel') <= Capacity
    <2>1. PICK u \in out[c] : IF Len(channel) < Capacity THEN channel' = Append(channel, u) ELSE channel' = channel
      BY <1>10 DEF EmitDirectly
    <2>2. u \in Update
      BY <2>1, Names DEF Sound, Typed
    <2> QED
      BY <1>2, <1>3, <2>1, <2>2
  <1> QED
    BY <1>5, <1>6, <1>7, <1>8, <1>9, <1>10 DEF Next

\* Every variable keeps its type; the channel holds what it has room for, and the order
\* lists exactly the credentials in the buffer, each once.
THEOREM WatcherTypeCorrect == Spec => []TypeOK
  <1>1. Init => Sound /\ Fits
    <2>1. Init => channel = << >> /\ Len(<< >>) = 0 /\ Capacity \in Nat
      BY DispatchAssumption, EmptySeq DEF Init
    <2> QED
      BY <2>1, SoundInitially DEF Fits
  <1>2. Sound /\ Fits /\ [Next]_vars => Sound' /\ Fits'
    BY QueueSteps, WithinCapacity DEF Fits
  <1>3. Sound /\ Fits => TypeOK
    <2> SUFFICES ASSUME Sound, Fits PROVE TypeOK
      OBVIOUS
    <2>1. ToSet(pendingOrder) = DOMAIN pendingUpdates
      <3>1. DOMAIN pendingOrder = 1..Len(pendingOrder) /\ \A n \in 1..Len(pendingOrder) : pendingOrder[n] \in Ids
        BY DEF Sound, Typed
      <3>2. \A i : i \in DOMAIN pendingUpdates <=> \E n \in 1..Len(pendingOrder) : pendingOrder[n] = i
        BY <3>1 DEF Sound, Buffered
      <3>3. \A i : i \in ToSet(pendingOrder) <=> \E n \in 1..Len(pendingOrder) : pendingOrder[n] = i
        BY <3>1 DEF ToSet
      <3> QED
        BY <3>2, <3>3
    <2>2. IsInjective(pendingOrder)
      <3>1. DOMAIN pendingOrder = 1..Len(pendingOrder)
        BY DEF Sound, Typed
      <3> QED
        BY <3>1 DEF Sound, Buffered, IsInjective
    <2>3. ToSet(channel) \cup ToSet(batch) \subseteq Update
      <3>1. channel \in Seq(Update) /\ batch \in Seq(Update)
        BY DEF Sound, Typed
      <3> QED
        BY <3>1 DEF ToSet
    <2>4. \A p \in Producers : out[p] \subseteq Update
      BY DEF Sound, Typed
    <2>5. Typed /\ Stages
      BY DEF Sound
    <2>6. /\ disk \in [Files -> Payloads \cup {Empty}]
          /\ hashes \in [Files -> Payloads] /\ shadow \in [Ids -> Payloads]
          /\ runtime \in [Channels -> Payloads] /\ applied \in [Ids -> Payloads]
      BY <2>5 DEF Typed
    <2>7. loop \in {"looking", "asleep", "woken", "taken", "sending", "ended"}
      BY <2>5 DEF Stages
    <2> QED
      BY <2>1, <2>2, <2>3, <2>4, <2>6, <2>7 DEF TypeOK, Fits
  <1> QED
    BY <1>1, <1>2, <1>3, PTL DEF Spec

-----------------------------------------------------------------------------
(* The websocket channels.                                                 *)

\* A channel's credential is known while it is connected, whatever the refreshes do.
ChannelOK(c) ==
    /\ pc[c] \in {"new", "joining", "up", "leaving", "gone"}
    /\ runtime[c] # Absent <=> pc[c] \in {"joining", "up"}
    /\ shadow[c] \in {runtime[c], Absent}
    /\ \A p \in Refreshers : \A u \in out[p] : u.id = c => u.auth # Absent \/ pc[c] \in {"leaving", "gone"}
    /\ stopping = "no" /\ pc[c] = "up" => sent[c] # Absent
ChannelsOK == \A c \in Channels : ChannelOK(c)

\* What a channel has once its own goroutine, or one that refreshes, has merged its updates.
LEMMA ChannelsDispatch ==
    ASSUME Sound, ChannelsOK, NEW p \in Producers, DispatchAuthUpdates(p)
    PROVE  ChannelsOK'
  <1> SUFFICES ASSUME NEW c \in Channels PROVE ChannelOK(c)'
    BY DEF ChannelsOK
  <1>1. ChannelOK(c) /\ c \in Producers /\ c \notin Refreshers /\ c \in Ids
    BY Names DEF ChannelsOK
  <1>2. /\ pc[p] \in {"dispatch", "joining", "leaving"} /\ After(p) /\ out' = [out EXCEPT ![p] = {}]
        /\ UNCHANGED <<shadow, runtime, queueSet, stopping>>
    BY DEF DispatchAuthUpdates, locked, halt
  <1>3. /\ \A q \in Producers : q # p => pc'[q] = pc[q] /\ out'[q] = out[q]
        /\ out'[p] = {}
    BY <1>2, Dispatched
  <1>4. pc[p] = "joining" => pc'[p] = "up"
    BY <1>2 DEF After, Goto, Sound, Typed
  <1>5. pc[p] = "leaving" => pc'[p] = "gone"
    BY <1>2 DEF After, Goto, Sound, Typed
  <1>6. \A q \in Refreshers : \A u \in out'[q] : u \in out[q]
    BY <1>3, Names
  <1>7. CASE p = c
    <2>1. pc[c] \in {"joining", "leaving"} /\ pc'[c] = IF pc[c] = "joining" THEN "up" ELSE "gone"
      BY <1>1, <1>2, <1>4, <1>5, <1>7 DEF ChannelOK
    <2>2. stopping = "no" => sent'[c] = runtime[c]
      <3> SUFFICES ASSUME stopping = "no" PROVE sent'[c] = runtime[c]
        OBVIOUS
      <3>1. queueSet /\ out[c] = {[id |-> c, auth |-> runtime[c]]} /\ out[c] \in SUBSET Update /\ Single(out[c])
        BY <1>1, <2>1 DEF Sound, Typed, Buffered, Stages
      <3>2. Merge(out[c])
        BY <1>7, <3>1 DEF DispatchAuthUpdates
      <3>3. \A u \in out[c] : sent'[u.id] = u.auth
        BY ONLY <3>1, <3>2, Sound, MergeMakes
      <3> QED
        BY <3>1, <3>3
    <2> QED
      BY <1>1, <1>2, <1>6, <2>1, <2>2 DEF ChannelOK
  <1>8. CASE p \in Channels /\ p # c
    <2>1. pc'[c] = pc[c]
      BY <1>1, <1>3, <1>8
    <2>2. stopping = "no" => sent'[c] = sent[c]
      <3> SUFFICES ASSUME stopping = "no" PROVE sent'[c] = sent[c]
        OBVIOUS
      <3>1. queueSet /\ (\A u \in out[p] : u.id = p) /\ out[p] \in SUBSET Update /\ Single(out[p])
        <4>1. out[p] = {} \/ out[p] = {[id |-> p, auth |-> runtime[p]]}
          BY <1>8 DEF Sound, Stages
        <4>2. \A u \in out[p] : u.id = p
          BY <4>1
        <4> QED
          BY <4>2 DEF Sound, Typed, Buffered, Stages
      <3>2. Merge(out[p])
        BY <3>1 DEF DispatchAuthUpdates
      <3>3. \A i \in Ids : (\A u \in out[p] : u.id # i) => sent'[i] = sent[i]
        BY ONLY <3>1, <3>2, Sound, MergeMakes
      <3> QED
        BY <1>1, <1>8, <3>1, <3>3
    <2> QED
      BY <1>1, <1>2, <1>6, <2>1, <2>2 DEF ChannelOK
  <1>9. CASE p \in Refreshers
    <2>1. pc'[c] = pc[c]
      BY <1>1, <1>3, <1>9
    <2>2. stopping = "no" /\ pc[c] = "up" => sent'[c] # Absent
      <3> SUFFICES ASSUME stopping = "no", pc[c] = "up" PROVE sent'[c] # Absent
        OBVIOUS
      <3>1. queueSet /\ out[p] \in SUBSET Update /\ Single(out[p])
        BY DEF Sound, Typed, Buffered, Stages
      <3>2. Merge(out[p])
        BY <3>1 DEF DispatchAuthUpdates
      <3>3. /\ \A u \in out[p] : sent'[u.id] = u.auth
            /\ \A i \in Ids : (\A u \in out[p] : u.id # i) => sent'[i] = sent[i]
        BY ONLY <3>1, <3>2, Sound, MergeMakes
      <3>4. sent[c] # Absent /\ \A u \in out[p] : u.id = c => u.auth # Absent
        BY <1>1, <1>9 DEF ChannelOK
      <3> QED
        BY <1>1, <3>3, <3>4
    <2> QED
      BY <1>1, <1>2, <1>6, <2>1, <2>2 DEF ChannelOK
  <1> QED
    BY <1>7, <1>8, <1>9, Names

LEMMA ChannelsComeAndGo ==
    ASSUME Sound, ChannelsOK, NEW d \in Channels, Connect(d) \/ Disconnect(d)
    PROVE  ChannelsOK'
  <1> SUFFICES ASSUME NEW c \in Channels PROVE ChannelOK(c)'
    BY DEF ChannelsOK
  <1>1. ChannelOK(c) /\ ChannelOK(d) /\ c \in Ids /\ d \in Ids /\ \A p \in Refreshers : p \in Producers /\ p # d
    BY Names DEF ChannelsOK
  <1>2. PICK v \in Payloads, l \in {"joining", "leaving"} :
          RuntimeUpdate(d, v, l) /\ (l = "joining" <=> v # Absent)
    BY Names DEF Connect, Disconnect
  <1>3. d \in Producers /\ l \in Stands /\ {[id |-> d, auth |-> v]} \in SUBSET Update
    BY <1>1, Names DEF Stands, Update
  <1>4. /\ pc'[d] = l /\ (d # c => pc'[c] = pc[c])
        /\ \A q \in Refreshers : out'[q] = out[q]
        /\ runtime'[d] = v /\ (d # c => runtime'[c] = runtime[c])
        /\ shadow'[d] = v /\ (d # c => shadow'[c] = shadow[c])
        /\ UNCHANGED <<sent, stopping>>
    <2>1. pc'[d] = l /\ \A q \in Producers : q # d => pc'[q] = pc[q]
      BY <1>2, <1>3, Going DEF RuntimeUpdate, Sound
    <2>2. \A q \in Producers : q # d => out'[q] = out[q]
      BY <1>2, <1>3, Filled DEF RuntimeUpdate, Sound
    <2> QED
      BY <1>1, <1>2, <2>1, <2>2, Names DEF RuntimeUpdate, Sound, Typed, halt
  <1>5. l = "joining" => pc[c] \notin {"leaving", "gone"} \/ d # c
    BY <1>2, <1>4, <1>1 DEF Connect, RuntimeUpdate, Disconnect, Goto, ChannelOK
  <1>6. CASE d = c
    BY <1>1, <1>2, <1>4, <1>5, <1>6 DEF ChannelOK
  <1>7. CASE d # c
    BY <1>1, <1>4, <1>7 DEF ChannelOK
  <1> QED
    BY <1>6, <1>7

\* The refreshes, and the comparisons of one file.
LEMMA ChannelsRefreshed ==
    ASSUME Sound, ChannelsOK, EventStep \/ ReloadStep
    PROVE  ChannelsOK'
  <1> SUFFICES ASSUME NEW c \in Channels PROVE ChannelOK(c)'
    BY DEF ChannelsOK
  <1>1. /\ ChannelOK(c) /\ c \in Ids /\ c \in Producers /\ c \notin Refreshers /\ Refreshers \subseteq Producers
        /\ \A f \in Files : f # c
    BY Names DEF ChannelsOK
  <1>2. Sound' /\ UNCHANGED <<sent, stopping>>
    BY SoundEvents, SoundRefreshes DEF EventStep, ReloadStep, Refreshers, Untouched, halt
  <1>3. pc' = pc \/ \E p \in Refreshers : \E l : Goto(p, l)
    BY DEF EventStep, ReloadStep, HandleEvent, Settle, Read, AddOrUpdateClient, RemoveClient, Snapshot,
           RefreshAuthState, Forget, Rescan, Refreshers
  <1>4. pc'[c] = pc[c]
    BY <1>1, <1>3 DEF Goto, Sound, Typed
  <1>5. CASE AddOrUpdateClient \/ RemoveClient
    <2>1. pc["events"] \in Looking /\ file \in Files
      BY <1>5 DEF AddOrUpdateClient, RemoveClient, Looking, Sound, Typed
    <2>2. runtime' = runtime /\ shadow'[c] = shadow[c]
      BY <1>1, <1>5, <2>1 DEF AddOrUpdateClient, RemoveClient, locked, Sound, Typed
    <2>3. out' = out \/ \E new : out' = [out EXCEPT !["events"] = FileUpdates(file, new)]
      BY <1>5 DEF AddOrUpdateClient, RemoveClient
    <2>4. \A new : \A u \in FileUpdates(file, new) : u.id # c
      BY <1>1, <2>1 DEF FileUpdates
    <2>5. \A p \in Refreshers : \A u \in out'[p] : u.id = c => u \in out[p]
      BY <1>1, <2>3, <2>4 DEF Sound, Typed, Refreshers
    <2> QED
      BY <1>1, <1>2, <1>4, <2>2, <2>5 DEF ChannelOK
  <1>6. ASSUME NEW p \in Refreshers, RefreshAuthState(p) PROVE ChannelOK(c)'
    <2>1. PICK force : shadow' = NewState(view[p], p)
                       /\ out' = [out EXCEPT ![p] = IF queueSet THEN Differences(NewState(view[p], p), force) ELSE {}]
      BY <1>6 DEF RefreshAuthState, PrepareAuthUpdates
    <2>2. view[p] \in [Files -> Payloads]
      BY DEF Sound, Typed
    <2>3. /\ shadow'[c] = runtime[c]
          /\ \A u \in Differences(NewState(view[p], p), force) :
               u.auth = NewState(view[p], p)[u.id] /\ (u.auth # shadow[u.id] \/ u.auth # Absent)
          /\ NewState(view[p], p)[c] = runtime[c]
      BY <2>1, <2>2, DifferencesAre
    <2>4. \A u \in Differences(NewState(view[p], p), force) : u.id = c => u.auth # Absent
      BY <1>1, <2>3 DEF ChannelOK
    <2>5. \A q \in Refreshers : \A u \in out'[q] : u.id = c => u \in out[q] \/ u.auth # Absent
      BY <1>1, <2>1, <2>4 DEF Sound, Typed
    <2>6. runtime' = runtime
      BY <1>6 DEF RefreshAuthState
    <2> QED
      BY <1>1, <1>2, <1>4, <2>3, <2>5, <2>6 DEF ChannelOK
  <1>7. CASE Forget
    <2>1. shadow'[c] \in {shadow[c], Absent} /\ UNCHANGED <<out, runtime>>
      BY <1>1, <1>7 DEF Forget
    <2> QED
      BY <1>1, <1>2, <1>4, <2>1 DEF ChannelOK
  <1>8. CASE HandleEvent \/ Settle \/ Read \/ Rescan \/ \E p \in Refreshers : Snapshot(p)
    <2>1. UNCHANGED <<out, runtime, shadow>>
      BY <1>8 DEF HandleEvent, Settle, Read, Rescan, Snapshot, locked
    <2> QED
      BY <1>1, <1>2, <1>4, <2>1 DEF ChannelOK
  <1> QED
    BY <1>5, <1>6, <1>7, <1>8 DEF EventStep, ReloadStep, Refreshers

LEMMA ChannelsStep ==
    ASSUME Sound, ChannelsOK, [Next]_vars
    PROVE  ChannelsOK'
  <1>1. ASSUME UNCHANGED <<out, runtime, shadow, sent>>, stopping' = "no" => stopping = "no",
               \A c \in Channels : pc'[c] = pc[c]
        PROVE  ChannelsOK'
    BY <1>1 DEF ChannelsOK, ChannelOK
  <1>2. CASE UNCHANGED vars
    BY <1>1, <1>2 DEF vars, locked, producers, halt
  <1>3. CASE \/ \E f \in Files : (\E d \in Contents : Write(f, d)) \/ Truncate(f) \/ Delete(f) \/ WindowEnds(f)
             \/ KiroChange
    BY <1>1, <1>3 DEF Write, Truncate, Delete, Change, WindowEnds, KiroChange, locked, producers, halt
  <1>4. CASE \E a \in Affected, rescan, force \in BOOLEAN : StartReload(a, rescan, force)
    <2>1. UNCHANGED <<out, runtime, shadow, sent, stopping>> /\ Goto("reload", "forget")
      BY <1>4 DEF StartReload, locked, halt
    <2>2. \A c \in Channels : pc'[c] = pc[c]
      BY <2>1, Names DEF Goto, Sound, Typed, Refreshers
    <2> QED
      BY <1>1, <2>1, <2>2
  <1>5. CASE \E c \in Channels : Connect(c) \/ Disconnect(c)
    BY <1>5, ChannelsComeAndGo
  <1>6. CASE EventStep \/ ReloadStep
    BY <1>6, ChannelsRefreshed
  <1>7. CASE LoopStep \/ ConsumeAuthUpdate
    BY <1>1, <1>7
       DEF LoopStep, LookAgain, TakeBatch, CheckQueue, SendNext, SendCancelled, ConsumeAuthUpdate,
                      locked, producers, halt
  <1>8. CASE Stop
    BY <1>1, <1>8 DEF Stop, StopDispatch, locked, producers
  <1>9. CASE \E p \in Producers : DispatchAuthUpdates(p)
    BY <1>9, ChannelsDispatch
  <1>10. ASSUME NEW c \in Channels, EmitDirectly(c) PROVE ChannelsOK'
    <2> SUFFICES ASSUME NEW d \in Channels PROVE ChannelOK(d)'
      BY DEF ChannelsOK
    <2>1. /\ c \in Producers /\ d \in Producers /\ stopping # "no" /\ pc[c] \in {"joining", "leaving"} /\ After(c)
          /\ out' = [out EXCEPT ![c] = {}] /\ UNCHANGED <<runtime, shadow, stopping>>
      BY <1>10, Names DEF EmitDirectly, Sound, Stages, locked, halt
    <2>2. \A q \in Producers : q # c => pc'[q] = pc[q] /\ out'[q] = out[q]
      BY <2>1, Dispatched
    <2>3. pc'[c] = IF pc[c] = "joining" THEN "up" ELSE "gone"
      BY <2>1 DEF After, Goto, Sound, Typed
    <2>4. \A p \in Refreshers : out'[p] = out[p]
      BY <2>2, Names
    <2>5. ChannelOK(d)
      BY DEF ChannelsOK
    <2> QED
      BY <2>1, <2>2, <2>3, <2>4, <2>5 DEF ChannelOK
  <1> QED
    BY <1>2, <1>3, <1>4, <1>5, <1>6, <1>7, <1>8, <1>9, <1>10 DEF Next, Environment

LEMMA ChannelsInitially ==
    ASSUME Init PROVE ChannelsOK
  <1>1. \A c \in Channels : pc[c] = "new" /\ runtime[c] = Absent /\ shadow[c] = Absent
    BY Names DEF Init
  <1>2. \A p \in Refreshers : out[p] = {}
    BY Names DEF Init
  <1> QED
    BY <1>1, <1>2 DEF ChannelsOK, ChannelOK

\* Where nothing waits, what was sent last is applied.
LEMMA QuietIsApplied ==
    ASSUME Sound, Queue!NoneLost, Quiet
    PROVE  /\ applied = sent
           /\ \A p \in Producers : out[p] = {}
  <1>1. channel = << >> /\ batch = << >> /\ pendingOrder = << >> /\ stopping = "no" /\ ~cancelled
    BY DEF Quiet, Sound, Stages
  <1>2. Pending = << >>
    BY <1>1 DEF Pending
  <1>3. Waiting = << >>
    <2>1. << >> \o << >> = << >>
      BY NothingIs, Joined
    <2> QED
      BY <1>1, <1>2, <2>1 DEF Waiting
  <1>4. \A i \in Ids : applied[i] = sent[i]
    BY <1>1, <1>3, NothingIs DEF Queue!NoneLost
  <1>5. applied = sent
    BY <1>4 DEF Sound, Typed
  <1>6. \A p \in Producers : out[p] = {}
    BY Names DEF Quiet, Sound, Stages
  <1> QED
    BY <1>5, <1>6

\* A channel that is connected is served once everything has been handled, however the
\* reloads and the refreshes met it (refreshAuthState, dispatchRuntimeAuthUpdate).
THEOREM ConnectedAreServed == Spec => []ConnectedServed
  <1>1. Init => Sound /\ Queue!NoneLost /\ ChannelsOK
    BY SoundInitially, ChannelsInitially
  <1>2. Sound /\ Queue!NoneLost /\ ChannelsOK /\ [Next]_vars => (Sound /\ Queue!NoneLost /\ ChannelsOK)'
    BY QueueSteps, NoneLostStep, ChannelsStep
  <1>3. Sound /\ Queue!NoneLost /\ ChannelsOK => ConnectedServed
    <2> SUFFICES ASSUME Sound, Queue!NoneLost, ChannelsOK, Quiet, NEW c \in Channels, pc[c] = "up"
                 PROVE  applied[c] # Absent
      BY DEF ConnectedServed
    <2>1. sent[c] # Absent
      BY DEF ChannelsOK, ChannelOK, Quiet
    <2> QED
      BY <2>1, QuietIsApplied
  <1> QED
    BY <1>1, <1>2, <1>3, PTL DEF Spec

-----------------------------------------------------------------------------
(* The files.                                                              *)

Queued(f, op) == [file |-> f, op |-> op] \in ToSet(events)
At(f, l) == pc["events"] = l /\ file = f
Once(s, e) == \A m, n \in 1..Len(s) : s[m] = e /\ s[n] = e => m = n

\* While the whole state is refreshed the files stand still, and their contents are known.
Still == Refreshing =>
    /\ \A e \in ToSet(events) : e.file = KiroToken
    /\ pc["events"] \notin Looking
    /\ \A f \in Files : disk[f] # Empty /\ hashes[f] = disk[f]
Views == \A p \in Refreshers : pc[p] = "refresh" => view[p] = disk

\* What was accepted from a file is in the shadow, and was sent or is about to be.
Known == \A f \in Files :
    /\ shadow[f] = hashes[f] \/ (shadow[f] = Absent /\ pc["reload"] \in {"rescan", "snapshot", "refresh"})
    /\ \A p \in Refreshers : \A u \in out[p] : u.id = f => u.auth = hashes[f]
    /\ stopping = "no" => sent[f] = hashes[f] \/ \E p \in Refreshers : [id |-> f, auth |-> hashes[f]] \in out[p]

\* A file that holds something else than was accepted from it is being looked at, or will be.
SeenOf(f) ==
    /\ disk[f] = Absent => \/ hashes[f] = Absent /\ ~At(f, "update")
                           \/ Queued(f, "remove") \/ At(f, "settle") \/ At(f, "remove")
    /\ disk[f] \in Contents => \/ hashes[f] = disk[f] \/ Queued(f, "write") \/ At(f, "settle") \/ At(f, "read")
                               \/ At(f, "update") /\ seen = disk[f]
    /\ At(f, "remove") => disk[f] = Absent \/ Queued(f, "write")
    /\ At(f, "update") => \/ disk[f] = seen
                          \/ disk[f] = Absent /\ Queued(f, "remove")
                          \/ disk[f] # Absent /\ Queued(f, "write")
Seen == \A f \in Files : SeenOf(f)

\* A removal that waits will be accepted.
Debounced == \A f \in Files : Queued(f, "remove") =>
    f \notin debounced /\ Once(events, [file |-> f, op |-> "remove"])

Mirror == Still /\ Views /\ Known /\ Seen /\ Debounced

\* Events are added at the end and taken from the front.
LEMMA EventsAdded ==
    ASSUME NEW s \in Seq(Event), NEW e \in Event
    PROVE  /\ \A d : d \in ToSet(Append(s, e)) <=> d \in ToSet(s) \/ d = e
           /\ e \notin ToSet(s) => Once(Append(s, e), e)
           /\ \A d : Once(s, d) /\ d # e => Once(Append(s, e), d)
  <1>0. PICK l \in Nat : l = Len(s)
    OBVIOUS
  <1>1. PICK t : t \in Seq(Event) /\ t = Append(s, e) /\ l = Len(s)
    BY <1>0, AppendProperties
  <1>2. Len(t) = l + 1 /\ t[l + 1] = e /\ (\A n \in 1..l : t[n] = s[n]) /\ DOMAIN s = 1..l /\ DOMAIN t = 1..l + 1
    BY <1>1, AppendProperties
  <1>3. l + 1 \in 1..l + 1 /\ \A n \in 1..l + 1 : n \in 1..l \/ n = l + 1
    OBVIOUS
  <1>4. \A n \in 1..l : n \in 1..l + 1
    OBVIOUS
  <1>5. \A d : d \in ToSet(t) <=> d \in ToSet(s) \/ d = e
    BY <1>2, <1>3, <1>4 DEF ToSet
  <1>6. e \notin ToSet(s) => Once(t, e)
    BY <1>1, <1>2, <1>3 DEF ToSet, Once
  <1>7. \A d : Once(s, d) /\ d # e => Once(t, d)
    BY <1>1, <1>2, <1>3 DEF Once
  <1> QED
    BY <1>1, <1>5, <1>6, <1>7

LEMMA EventsTaken ==
    ASSUME NEW s \in Seq(Event), s # << >>
    PROVE  /\ Head(s) \in Event
           /\ \A d : d \in ToSet(s) <=> d \in ToSet(Tail(s)) \/ d = Head(s)
           /\ \A d : Once(s, d) => Once(Tail(s), d) /\ (d = Head(s) => d \notin ToSet(Tail(s)))
  <1>0. PICK l \in Nat : l = Len(s)
    OBVIOUS
  <1>1. PICK t : t \in Seq(Event) /\ t = Tail(s) /\ l = Len(s)
    BY <1>0, HeadTailProperties
  <1>2. /\ l > 0 /\ Len(t) = l - 1 /\ (\A n \in 1..l - 1 : t[n] = s[n + 1]) /\ DOMAIN s = 1..l /\ DOMAIN t = 1..l - 1
        /\ Head(s) = s[1] /\ Head(s) \in Event
    BY <1>1
  <1>3. 1 \in 1..l /\ \A n \in 1..l : n = 1 \/ (n - 1 \in 1..l - 1 /\ (n - 1) + 1 = n)
    BY <1>2
  <1>4. \A n \in 1..l - 1 : n + 1 \in 1..l /\ n + 1 # 1
    OBVIOUS
  <1>5. \A d : d \in ToSet(s) <=> d \in ToSet(t) \/ d = Head(s)
    <2>1. ASSUME NEW d \in ToSet(s) PROVE d \in ToSet(t) \/ d = Head(s)
      <3>1. PICK n \in 1..l : d = s[n]
        BY <1>2 DEF ToSet
      <3>2. CASE n = 1
        BY <3>1, <3>2, <1>2
      <3>3. CASE n # 1
        <4>1. n - 1 \in 1..l - 1 /\ t[n - 1] = d
          BY <3>1, <3>3, <1>2, <1>3
        <4> QED
          BY <4>1, <1>2 DEF ToSet
      <3> QED
        BY <3>2, <3>3
    <2>2. ASSUME NEW d \in ToSet(t) PROVE d \in ToSet(s)
      <3>1. PICK n \in 1..l - 1 : d = t[n]
        BY <1>2 DEF ToSet
      <3>2. n + 1 \in 1..l /\ d = s[n + 1]
        BY <3>1, <1>2, <1>4
      <3> QED
        BY <3>2, <1>2 DEF ToSet
    <2>3. Head(s) \in ToSet(s)
      BY <1>2, <1>3 DEF ToSet
    <2> QED
      BY <2>1, <2>2, <2>3
  <1>6. ASSUME NEW d, Once(s, d) PROVE Once(t, d)
    <2>1. \A m, n \in 1..l - 1 : t[m] = d /\ t[n] = d => m + 1 = n + 1
      BY <1>1, <1>2, <1>4, <1>6 DEF Once
    <2> QED
      BY <1>2, <2>1 DEF Once
  <1>7. ASSUME NEW d, Once(s, d), d = Head(s), d \in ToSet(t) PROVE FALSE
    <2>1. PICK n \in 1..l - 1 : d = t[n]
      BY <1>2, <1>7 DEF ToSet
    <2> QED
      BY <2>1, <1>1, <1>2, <1>3, <1>4, <1>7 DEF Once
  <1> QED
    BY <1>1, <1>2, <1>5, <1>6, <1>7

\* Files change while nothing is refreshed.
LEMMA MirrorChanges ==
    ASSUME ~Overlap, ~Quick, Sound, Mirror,
           NEW f \in Files, NEW d \in Payloads \cup {Empty}, NEW op \in {"write", "remove"},
           op = (IF d = Absent THEN "remove" ELSE "write"),
           op = "remove" => f \notin debounced /\ ~Queued(f, "remove"), Change(f, d, op)
    PROVE  Mirror'
  <1>1. /\ ~Refreshing /\ disk' = [disk EXCEPT ![f] = d]
        /\ UNCHANGED <<debounced, hashes, shadow, pc, file, seen, view, out, stopping, sent>>
    BY DEF Change, locked, producers, halt
  <1>2. PICK e \in Event : e = [file |-> f, op |-> op] /\ events' = Append(events, e)
    BY DEF Change, Event
  <1>3. events \in Seq(Event) /\ disk'[f] = d /\ \A g \in Files : g # f => disk'[g] = disk[g]
    BY <1>1 DEF Sound, Typed
  <1>4. /\ \A g : g \in ToSet(events') <=> g \in ToSet(events) \/ g = e
        /\ e \notin ToSet(events) => Once(events', e)
        /\ \A g : Once(events, g) /\ g # e => Once(events', g)
    BY <1>2, <1>3, EventsAdded
  <1>5. \A g, o : Queued(g, o)' <=> Queued(g, o) \/ (g = f /\ o = op)
    BY <1>2, <1>4 DEF Queued
  <1>6. ~Refreshing'
    BY <1>1, <1>2, <1>4, Names DEF Refreshing
  <1>7. Still'
    BY <1>6 DEF Still
  <1>8. Views'
    BY <1>1, Names DEF Views, Mirror, Refreshing, Refreshers
  <1>9. Known'
    BY <1>1 DEF Known, Mirror
  <1>10. Seen'
    <2> SUFFICES ASSUME NEW g \in Files PROVE SeenOf(g)'
      BY DEF Seen
    <2>1. /\ At(g, "settle")' <=> At(g, "settle")
          /\ At(g, "read")' <=> At(g, "read")
          /\ At(g, "remove")' <=> At(g, "remove")
          /\ At(g, "update")' <=> At(g, "update")
      BY <1>1 DEF At
    <2>2. CASE g = f
      <3>1. /\ disk'[g] = d /\ (d \in Contents => d # Absent)
            /\ d = Absent => Queued(g, "remove")'
            /\ d # Absent => Queued(g, "write")'
        BY <1>3, <1>5, <2>2, Names
      <3> QED
        BY <3>1 DEF SeenOf
    <2>3. CASE g # f
      <3>1. /\ disk'[g] = disk[g] /\ hashes'[g] = hashes[g] /\ seen' = seen
            /\ (Queued(g, "remove")' <=> Queued(g, "remove")) /\ (Queued(g, "write")' <=> Queued(g, "write"))
        BY <1>1, <1>3, <1>5, <2>3
      <3>2. SeenOf(g)
        BY DEF Mirror, Seen
      <3> QED
        BY <2>1, <3>1, <3>2 DEF SeenOf
    <2> QED
      BY <2>2, <2>3
  <1>11. Debounced'
    <2> SUFFICES ASSUME NEW g \in Files, Queued(g, "remove")'
                 PROVE  g \notin debounced' /\ Once(events', [file |-> g, op |-> "remove"])
      BY DEF Debounced
    <2>1. CASE g = f /\ op = "remove"
      BY <1>1, <1>2, <1>4, <2>1 DEF Queued
    <2>2. CASE ~(g = f /\ op = "remove")
      <3>1. Queued(g, "remove") /\ [file |-> g, op |-> "remove"] # e
        BY <1>2, <1>5, <2>2
      <3> QED
        BY <1>1, <1>4, <3>1 DEF Debounced, Mirror
    <2> QED
      BY <2>1, <2>2
  <1> QED
    BY <1>7, <1>8, <1>9, <1>10, <1>11 DEF Mirror

\* A refresh begins when the files are known.
LEMMA CalmIsKnown ==
    ASSUME Sound, Mirror, Calm
    PROVE  /\ ToSet(events) = {} /\ pc["events"] = "idle"
           /\ \A f \in Files : disk[f] # Empty /\ hashes[f] = disk[f]
  <1>1. events = << >> /\ ToSet(events) = {} /\ pc["events"] = "idle" /\ \A f \in Files : disk[f] # Empty
    BY DEF Calm, ToSet
  <1>2. ASSUME NEW f \in Files PROVE hashes[f] = disk[f]
    <2>1. disk[f] = Absent \/ disk[f] \in Contents
      BY <1>1 DEF Sound, Typed, Payloads
    <2> QED
      BY <1>1, <2>1 DEF Mirror, Seen, SeenOf, Queued, At
  <1> QED
    BY <1>1, <1>2

LEMMA MirrorOutside ==
    ASSUME ~Overlap, ~Quick, Sound, Mirror,
           \/ \E f \in Files : (\E d \in Contents : Write(f, d)) \/ Truncate(f) \/ Delete(f) \/ WindowEnds(f)
           \/ KiroChange
           \/ \E a \in Affected, rescan, force \in BOOLEAN : StartReload(a, rescan, force)
    PROVE  Mirror'
  <1>1. CASE \E f \in Files : (\E d \in Contents : Write(f, d)) \/ Truncate(f) \/ Delete(f)
    <2>1. PICK f \in Files : (\E d \in Contents : Write(f, d)) \/ Truncate(f) \/ Delete(f)
      BY <1>1
    <2>2. ASSUME NEW d \in Contents, Write(f, d) PROVE Mirror'
      BY <2>2, MirrorChanges, Names DEF Write
    <2>3. CASE Truncate(f)
      BY <2>3, MirrorChanges, Names DEF Truncate
    <2>4. CASE Delete(f)
      BY <2>4, MirrorChanges, Names DEF Delete, Queued
    <2> QED
      BY <2>1, <2>2, <2>3, <2>4
  <1>2. CASE \E f \in Files : WindowEnds(f)
    <2>1. /\ debounced' \subseteq debounced
          /\ UNCHANGED <<disk, events, hashes, shadow, pc, file, seen, view, out, stopping, sent>>
      BY <1>2 DEF WindowEnds, locked, producers, halt
    <2> QED
      BY <2>1 DEF Mirror, Still, Refreshing, Views, Known, Seen, SeenOf, Debounced, Queued, At
  <1>3. CASE KiroChange
    <2>1. /\ Calm /\ UNCHANGED <<disk, debounced, hashes, shadow, pc, file, seen, view, out, stopping, sent>>
      BY <1>3 DEF KiroChange, locked, producers, halt
    <2>2. PICK e \in Event : e = [file |-> KiroToken, op |-> "write"] /\ events' = Append(events, e)
      BY <1>3 DEF KiroChange, Event
    <2>3. events \in Seq(Event) /\ ToSet(events) = {} /\ pc["events"] = "idle"
          /\ \A f \in Files : disk[f] # Empty /\ hashes[f] = disk[f]
      BY <2>1, CalmIsKnown DEF Sound, Typed
    <2>4. \A g : g \in ToSet(events') <=> g = e
      BY <2>2, <2>3, EventsAdded
    <2>5. \A g \in Files : \A o : ~Queued(g, o)' /\ ~Queued(g, o)
      BY <2>2, <2>3, <2>4, Names DEF Queued
    <2>6. Still'
      BY <2>1, <2>2, <2>3, <2>4 DEF Still, Looking
    <2>7. Seen'
      BY <2>1, <2>3 DEF Seen, SeenOf, At
    <2>8. Debounced'
      BY <2>5 DEF Debounced
    <2> QED
      BY <2>1, <2>6, <2>7, <2>8 DEF Mirror, Views, Known
  <1>4. CASE \E a \in Affected, rescan, force \in BOOLEAN : StartReload(a, rescan, force)
    <2>1. /\ Calm /\ Goto("reload", "forget") /\ pc["reload"] = "idle"
          /\ UNCHANGED <<disk, events, debounced, hashes, shadow, file, seen, view, out, stopping, sent>>
      BY <1>4 DEF StartReload, locked, halt
    <2>2. pc'["reload"] = "forget" /\ pc'["events"] = pc["events"]
      BY <2>1 DEF Goto, Sound, Typed, Producers
    <2>3. ToSet(events) = {} /\ pc["events"] = "idle" /\ \A f \in Files : disk[f] # Empty /\ hashes[f] = disk[f]
      BY <2>1, CalmIsKnown
    <2>4. Still'
      BY <2>1, <2>2, <2>3 DEF Still, Looking
    <2>5. Views'
      BY <2>1, <2>2 DEF Views, Mirror, Refreshers
    <2>6. Known'
      BY <2>1, <2>2 DEF Known, Mirror
    <2>7. Seen' /\ Debounced'
      BY <2>1, <2>2 DEF Seen, SeenOf, Debounced, Queued, At, Mirror
    <2> QED
      BY <2>4, <2>5, <2>6, <2>7 DEF Mirror
  <1> QED
    BY <1>1, <1>2, <1>3, <1>4

\* An event is taken from the queue.
LEMMA MirrorTakes ==
    ASSUME Sound, Mirror, HandleEvent
    PROVE  Mirror'
  <1>1. /\ pc["events"] = "idle" /\ events \in Seq(Event) /\ events # << >> /\ events' = Tail(events)
        /\ UNCHANGED <<disk, hashes, shadow, seen, view, out, stopping, sent>>
    BY DEF HandleEvent, Sound, Typed, locked, halt
  <1>2. PICK e \in Event : e = Head(events)
    BY <1>1, EventsTaken
  <1>3. /\ \A d : d \in ToSet(events) <=> d \in ToSet(events') \/ d = e
        /\ \A d : Once(events, d) => Once(events', d) /\ (d = e => d \notin ToSet(events'))
    BY <1>1, <1>2, EventsTaken
  <1>4. /\ file' = e.file
        /\ \/ e.file = KiroToken /\ pc'["events"] = "snapshot" /\ debounced' = debounced
           \/ e.file # KiroToken /\ e.op = "write" /\ pc'["events"] = "read" /\ debounced' = debounced
           \/ e.op = "remove" /\ e.file \notin debounced /\ debounced' = debounced \cup {e.file} /\ pc'["events"] = "settle"
           \/ e.op = "remove" /\ e.file \in debounced /\ debounced' = debounced /\ pc'["events"] = "idle"
        /\ pc'["reload"] = pc["reload"]
    BY <1>1, <1>2 DEF HandleEvent, Goto, Sound, Typed, Producers
  <1>5. e.file \in Files \/ (e.file = KiroToken /\ e.op = "write" /\ e = [file |-> KiroToken, op |-> "write"])
    BY DEF Event
  <1>6. \A f, o : e = [file |-> f, op |-> o] <=> e.file = f /\ e.op = o
    BY DEF Event
  <1>7. e \in ToSet(events)
    BY <1>3
  <1>8. e.op = "remove" => e.file \in Files /\ Queued(e.file, "remove") /\ e.file \notin debounced /\ Once(events, e)
    BY <1>5, <1>6, <1>7 DEF Mirror, Debounced, Queued, Event
  <1>9. Still'
    <2>1. CASE Refreshing
      <3>1. (\A d \in ToSet(events) : d.file = KiroToken) /\ \A f \in Files : disk[f] # Empty /\ hashes[f] = disk[f]
        BY <2>1 DEF Mirror, Still
      <3>2. e.file = KiroToken
        BY <1>7, <3>1
      <3>3. pc'["events"] = "snapshot"
        BY <1>4, <1>5, <3>2, Names
      <3> QED
        BY <1>1, <1>3, <3>1, <3>3 DEF Still, Looking
    <2>2. CASE ~Refreshing
      <3>1. [file |-> KiroToken, op |-> "write"] \notin ToSet(events) /\ pc["reload"] = "idle"
        BY <2>2 DEF Refreshing
      <3>2. e.file \in Files
        BY <1>5, <1>7, <3>1
      <3>3. pc'["events"] \in {"read", "settle", "idle"}
        BY <1>4, <3>2, Names
      <3>4. ~Refreshing'
        BY <1>3, <1>4, <3>1, <3>3 DEF Refreshing
      <3> QED
        BY <3>4 DEF Still
    <2> QED
      BY <2>1, <2>2
  <1>10. Views'
    BY <1>1, <1>4 DEF Mirror, Views, Refreshers
  <1>11. Known'
    BY <1>1, <1>4 DEF Mirror, Known
  <1>12. ASSUME NEW f \in Files PROVE SeenOf(f)'
    <2>1. SeenOf(f) /\ ~At(f, "update") /\ ~At(f, "settle") /\ ~At(f, "remove") /\ ~At(f, "read")
      BY <1>1 DEF Mirror, Seen, At
    <2>2. /\ disk[f] = Absent => hashes[f] = Absent \/ Queued(f, "remove")
          /\ disk[f] \in Contents => hashes[f] = disk[f] \/ Queued(f, "write")
      BY <2>1 DEF SeenOf
    <2>3. \A o : Queued(f, o) => Queued(f, o)' \/ (e.file = f /\ e.op = o)
      BY <1>3, <1>6 DEF Queued
    <2>4. ~At(f, "update")' /\ ~At(f, "remove")'
      BY <1>4 DEF At
    <2>5. e.file = f /\ e.op = "write" => At(f, "read")'
      BY <1>4, Names DEF At
    <2>6. e.file = f /\ e.op = "remove" => At(f, "settle")'
      BY <1>4, <1>8, Names DEF At
    <2> QED
      BY <1>1, <2>2, <2>3, <2>4, <2>5, <2>6 DEF SeenOf
  <1>13. Debounced'
    <2> SUFFICES ASSUME NEW f \in Files, Queued(f, "remove")'
                 PROVE  f \notin debounced' /\ Once(events', [file |-> f, op |-> "remove"])
      BY DEF Debounced
    <2>1. Queued(f, "remove") /\ f \notin debounced /\ Once(events, [file |-> f, op |-> "remove"])
      BY <1>3 DEF Mirror, Debounced, Queued
    <2>2. [file |-> f, op |-> "remove"] # e
      BY <1>3, <2>1 DEF Queued
    <2>3. e.op = "remove" => e.file # f
      BY <1>6, <2>2
    <2> QED
      BY <1>3, <1>4, <2>1, <2>3
  <1>14. Seen'
    BY <1>12 DEF Seen
  <1> QED
    BY <1>9, <1>10, <1>11, <1>13, <1>14 DEF Mirror

\* A file is looked into: nothing is refreshed meanwhile.
LEMMA MirrorLooks ==
    ASSUME Sound, Mirror, Settle \/ Read \/ AddOrUpdateClient \/ RemoveClient
    PROVE  /\ file \in Files /\ out["events"] = {} /\ out["reload"] = {}
           /\ UNCHANGED <<disk, events, debounced, file, view, stopping, sent>>
           /\ pc'["events"] \in {"idle", "read", "remove", "update", "dispatch"}
           /\ pc["reload"] = "idle" /\ pc'["reload"] = "idle"
           /\ Still' /\ Views' /\ Debounced'
           /\ \A f \in Files : f # file => SeenOf(f) /\ \A l \in Looking : ~At(f, l) /\ ~At(f, l)'
  <1>1. pc["events"] \in Looking /\ file \in Files
    BY DEF Settle, Read, AddOrUpdateClient, RemoveClient, Sound, Typed, Looking
  <1>2. ~Refreshing
    BY <1>1 DEF Mirror, Still
  <1>3. pc["reload"] = "idle" /\ [file |-> KiroToken, op |-> "write"] \notin ToSet(events)
    BY <1>2 DEF Refreshing
  <1>4. out["events"] = {} /\ out["reload"] = {}
    BY <1>1, <1>3 DEF Sound, Stages, Looking, Refreshers
  <1>5. UNCHANGED <<disk, events, debounced, file, view, stopping, sent>>
    BY DEF Settle, Read, AddOrUpdateClient, RemoveClient, world, halt
  <1>6. \E l \in {"idle", "read", "remove", "update", "dispatch"} : Goto("events", l)
    BY DEF Settle, Read, AddOrUpdateClient, RemoveClient
  <1>7. pc'["events"] \in {"idle", "read", "remove", "update", "dispatch"} /\ pc'["reload"] = pc["reload"]
    BY <1>6 DEF Goto, Sound, Typed, Producers
  <1>8. ~Refreshing'
    BY <1>3, <1>5, <1>7 DEF Refreshing
  <1>9. Still'
    BY <1>8 DEF Still
  <1>10. Views'
    BY <1>3, <1>7 DEF Views, Refreshers
  <1>11. Debounced'
    BY <1>5 DEF Mirror, Debounced, Queued
  <1>12. \A f \in Files : f # file => SeenOf(f) /\ \A l \in Looking : ~At(f, l) /\ ~At(f, l)'
    BY <1>5 DEF Mirror, Seen, At
  <1> QED
    BY <1>1, <1>3, <1>4, <1>5, <1>7, <1>9, <1>10, <1>11, <1>12

\* A file that is not looked into stays as well known.
LEMMA OthersSeen ==
    ASSUME NEW f \in Files, SeenOf(f), UNCHANGED <<disk, events>>, hashes'[f] = hashes[f],
           \A l \in Looking : ~At(f, l) /\ ~At(f, l)'
    PROVE  SeenOf(f)'
  <1>1. \A o : Queued(f, o)' <=> Queued(f, o)
    BY DEF Queued
  <1>2. /\ ~At(f, "settle") /\ ~At(f, "read") /\ ~At(f, "update") /\ ~At(f, "remove")
        /\ ~At(f, "settle")' /\ ~At(f, "read")' /\ ~At(f, "update")' /\ ~At(f, "remove")'
    BY DEF Looking
  <1>3. Queued(f, "remove")' <=> Queued(f, "remove")
    BY <1>1
  <1>4. Queued(f, "write")' <=> Queued(f, "write")
    BY <1>1
  <1> QED
    BY <1>2, <1>3, <1>4 DEF SeenOf

LEMMA MirrorEvents ==
    ASSUME Sound, Mirror, Settle \/ Read \/ AddOrUpdateClient \/ RemoveClient
    PROVE  Mirror'
  <1>0. PICK g \in Files : g = file
    BY MirrorLooks
  <1>1. /\ file \in Files /\ out["events"] = {} /\ out["reload"] = {} /\ file \in Ids
        /\ UNCHANGED <<disk, events, debounced, file, view, stopping, sent>>
        /\ pc["reload"] = "idle" /\ pc'["reload"] = "idle"
        /\ Still' /\ Views' /\ Debounced'
        /\ \A f \in Files : f # g => SeenOf(f) /\ \A l \in Looking : ~At(f, l) /\ ~At(f, l)'
    BY <1>0, MirrorLooks, Names
  <1>2. Known /\ SeenOf(g) /\ \A p \in Refreshers : out[p] = {}
    BY <1>0, <1>1 DEF Mirror, Seen, Refreshers
  <1>3. /\ \A f \in Files : shadow[f] = hashes[f]
        /\ stopping = "no" => \A f \in Files : sent[f] = hashes[f]
    BY <1>0, <1>1, <1>2 DEF Known
  <1>4. Queued(g, "remove")' = Queued(g, "remove") /\ Queued(g, "write")' = Queued(g, "write")
    BY <1>0, <1>1 DEF Queued
  <1>5. ASSUME SeenOf(g)', \A f \in Files \ {g} : hashes'[f] = hashes[f] PROVE Seen'
    <2>1. \A f \in Files : f # g => SeenOf(f)'
      <3> SUFFICES ASSUME NEW f \in Files, f # g PROVE SeenOf(f)'
        OBVIOUS
      <3>1. /\ SeenOf(f) /\ disk' = disk /\ events' = events /\ hashes'[f] = hashes[f]
            /\ \A l \in Looking : ~At(f, l) /\ ~At(f, l)'
        BY <1>0, <1>1, <1>5
      <3> QED
        BY <3>1, OthersSeen
    <2> QED
      BY <1>5, <2>1 DEF Seen
  <1>6. CASE Settle
    <2>1. /\ pc["events"] = "settle" /\ UNCHANGED <<hashes, shadow, out, seen>>
          /\ pc'["events"] = IF disk[g] # Absent THEN "read" ELSE IF hashes[g] = Absent THEN "idle" ELSE "remove"
      BY <1>0, <1>6 DEF Settle, StatFails, Goto, Sound, Typed, Producers, locked
    <2>2. Known'
      BY <1>0, <1>1, <1>2, <2>1 DEF Known
    <2>3. SeenOf(g)'
      BY <1>0, <1>1, <2>1, Names DEF SeenOf, At
    <2> QED
      BY <1>0, <1>1, <1>5, <2>1, <2>2, <2>3 DEF Mirror
  <1>7. CASE Read
    <2>1. /\ pc["events"] = "read" /\ UNCHANGED <<hashes, shadow, out>>
          /\ \/ disk[g] \in Contents /\ seen' = disk[g] /\ pc'["events"] = "update"
             \/ disk[g] \notin Contents /\ pc'["events"] = "idle"
      BY <1>0, <1>7 DEF Read, Goto, Sound, Typed, Producers, locked
    <2>2. Known'
      BY <1>0, <1>1, <1>2, <2>1 DEF Known
    <2>3. disk[g] = Absent => hashes[g] = Absent \/ Queued(g, "remove")
      BY <1>0, <1>2, <2>1 DEF SeenOf, At
    <2>4. disk'[g] = disk[g] /\ hashes'[g] = hashes[g] /\ ~At(g, "remove")'
          /\ (At(g, "update")' <=> disk[g] \in Contents)
      BY <1>0, <1>1, <2>1 DEF At
    <2>5. SeenOf(g)'
      BY <1>0, <1>1, <1>4, <2>1, <2>3, <2>4, Names DEF SeenOf
    <2> QED
      BY <1>0, <1>1, <1>5, <2>1, <2>2, <2>5 DEF Mirror
  <1>8. CASE AddOrUpdateClient
    <2>1. pc["events"] = "update" /\ seen \in Payloads /\ seen # Absent
      BY <1>0, <1>8 DEF AddOrUpdateClient, Sound, Typed
    <2>2. /\ pc'["events"] \in {"idle", "dispatch"}
          /\ hashes'[g] = seen /\ \A f \in Files \ {g} : hashes'[f] = hashes[f]
      BY <1>0, <1>1, <1>8 DEF AddOrUpdateClient, Goto, locked, Sound, Typed, Producers
    <2>3. Known'
      <3>1. CASE hashes[g] = seen
        BY <1>0, <1>1, <1>2, <1>8, <3>1 DEF AddOrUpdateClient, locked, Known
      <3>2. CASE hashes[g] # seen
        <4>1. FileUpdates(g, seen) = {[id |-> g, auth |-> seen]}
          BY <1>0, <1>1, <1>3, <2>1, <3>2 DEF FileUpdates
        <4>2. /\ out'["events"] = {[id |-> g, auth |-> seen]} /\ out'["reload"] = {}
              /\ shadow'[g] = seen /\ \A f \in Files \ {g} : shadow'[f] = shadow[f]
          BY <1>0, <1>1, <1>8, <3>2, <4>1, Names DEF AddOrUpdateClient, Sound, Typed, Producers
        <4> SUFFICES ASSUME NEW f \in Files
                     PROVE /\ shadow'[f] = hashes'[f]
                           /\ \A p \in Refreshers : \A u \in out'[p] : u.id = f => u.auth = hashes'[f]
                           /\ stopping' = "no" => \/ sent'[f] = hashes'[f]
                                                  \/ \E p \in Refreshers : [id |-> f, auth |-> hashes'[f]] \in out'[p]
          BY DEF Known
        <4>3. CASE f = g
          BY <2>2, <4>2, <4>3 DEF Refreshers
        <4>4. CASE f # g
          BY <1>0, <1>1, <1>3, <2>2, <4>2, <4>4 DEF Refreshers
        <4> QED
          BY <4>3, <4>4
      <3> QED
        BY <3>1, <3>2
    <2>4. disk[g] = Absent => Queued(g, "remove")
      BY <1>0, <1>2, <2>1 DEF SeenOf, At
    <2>5. disk[g] \in Contents => disk[g] = seen \/ Queued(g, "write")
      BY <1>0, <1>2, <2>1, Names DEF SeenOf, At
    <2>6. disk'[g] = disk[g] /\ ~At(g, "remove")' /\ ~At(g, "update")'
      BY <1>0, <1>1, <2>2 DEF At
    <2>7. SeenOf(g)'
      BY <1>0, <1>1, <1>4, <2>2, <2>4, <2>5, <2>6 DEF SeenOf
    <2> QED
      BY <1>0, <1>1, <1>5, <2>2, <2>3, <2>7 DEF Mirror
  <1>9. CASE RemoveClient
    <2>1. /\ pc["events"] = "remove" /\ pc'["events"] = "dispatch"
          /\ hashes'[g] = Absent /\ \A f \in Files \ {g} : hashes'[f] = hashes[f]
          /\ out'["events"] = FileUpdates(g, Absent) /\ out'["reload"] = {}
          /\ shadow'[g] = (IF hashes[g] = Absent THEN shadow[g] ELSE Absent)
          /\ \A f \in Files \ {g} : shadow'[f] = shadow[f]
      BY <1>0, <1>1, <1>9, Names DEF RemoveClient, Unknown, Goto, Sound, Typed, Producers
    <2>2. FileUpdates(g, Absent) = IF hashes[g] # Absent THEN {[id |-> g, auth |-> Absent]} ELSE {}
      BY DEF FileUpdates
    <2>3. Known'
      <3> SUFFICES ASSUME NEW f \in Files
                   PROVE /\ shadow'[f] = hashes'[f]
                         /\ \A p \in Refreshers : \A u \in out'[p] : u.id = f => u.auth = hashes'[f]
                         /\ stopping' = "no" => \/ sent'[f] = hashes'[f]
                                                \/ \E p \in Refreshers : [id |-> f, auth |-> hashes'[f]] \in out'[p]
        BY DEF Known
      <3>1. CASE f = g
        BY <1>0, <1>1, <1>3, <2>1, <2>2, <3>1 DEF Refreshers
      <3>2. CASE f # g
        BY <1>0, <1>1, <1>3, <2>1, <2>2, <3>2 DEF Refreshers
      <3> QED
        BY <3>1, <3>2
    <2>4. disk[g] \in Contents => Queued(g, "write")
      BY <1>0, <1>2, <2>1, Names DEF SeenOf, At
    <2>5. disk'[g] = disk[g] /\ ~At(g, "remove")' /\ ~At(g, "update")'
      BY <1>0, <1>1, <2>1 DEF At
    <2>6. SeenOf(g)'
      BY <1>0, <1>1, <1>4, <2>1, <2>4, <2>5 DEF SeenOf
    <2> QED
      BY <1>0, <1>1, <1>5, <2>1, <2>3, <2>6 DEF Mirror
  <1> QED
    BY <1>6, <1>7, <1>8, <1>9

\* The whole state is refreshed: the files stand still.
LEMMA MirrorRefreshes ==
    ASSUME Sound, Mirror, Forget \/ Rescan \/ \E p \in Refreshers : Snapshot(p) \/ RefreshAuthState(p)
    PROVE  Mirror'
  <1>1. /\ UNCHANGED <<disk, events, debounced, file, seen, stopping, sent>>
        /\ \E p \in Refreshers : \E l \in {"rescan", "snapshot", "refresh", "dispatch"} :
             Goto(p, l) /\ pc[p] \in {"forget", "rescan", "snapshot", "refresh"}
    BY DEF Forget, Rescan, Snapshot, RefreshAuthState, world, halt, Refreshers
  <1>2. Refreshing
    BY <1>1 DEF Refreshing, Refreshers, Forget, Rescan, Snapshot, RefreshAuthState
  <1>3. /\ \A e \in ToSet(events) : e.file = KiroToken
        /\ pc["events"] \notin Looking
        /\ \A f \in Files : disk[f] # Empty /\ hashes[f] = disk[f]
    BY <1>2 DEF Mirror, Still
  <1>4. pc'["events"] \notin Looking
    BY <1>1, <1>3 DEF Goto, Sound, Typed, Producers, Looking, Refreshers
  <1>5. [f \in Files |-> Credential(disk[f])] = disk
    BY <1>3 DEF Credential, Sound, Typed
  <1>6. hashes' = hashes
    BY <1>3, <1>5 DEF Forget, Rescan, Snapshot, RefreshAuthState, locked, Sound, Typed
  <1>7. Still' /\ Debounced'
    BY <1>1, <1>3, <1>4, <1>6 DEF Still, Mirror, Debounced, Queued
  <1>8. Seen'
    <2> SUFFICES ASSUME NEW f \in Files PROVE SeenOf(f)'
      BY DEF Seen
    <2>1. SeenOf(f) /\ disk' = disk /\ events' = events /\ hashes'[f] = hashes[f]
      BY <1>1, <1>6 DEF Mirror, Seen
    <2>2. \A l \in Looking : ~At(f, l) /\ ~At(f, l)'
      BY <1>3, <1>4 DEF At
    <2> QED
      BY <2>1, <2>2, OthersSeen
  <1>9. CASE Forget
    <2>1. /\ pc["reload"] = "forget" /\ pc'["reload"] \in {"rescan", "snapshot"} /\ pc'["events"] = pc["events"]
          /\ UNCHANGED <<view, out>> /\ \A f \in Files : shadow'[f] \in {shadow[f], Absent}
      BY <1>9, Names DEF Forget, Goto, Sound, Typed, Producers
    <2>2. Views'
      BY <1>1, <2>1 DEF Mirror, Views, Refreshers
    <2>3. Known'
      BY <1>1, <1>6, <2>1 DEF Mirror, Known
    <2> QED
      BY <1>7, <1>8, <2>2, <2>3 DEF Mirror
  <1>10. CASE Rescan
    <2>1. /\ pc["reload"] = "rescan" /\ pc'["reload"] = "snapshot" /\ pc'["events"] = pc["events"]
          /\ UNCHANGED <<view, out, shadow>>
      BY <1>10 DEF Rescan, Goto, Sound, Typed, Producers
    <2>2. Views'
      BY <1>1, <2>1 DEF Mirror, Views, Refreshers
    <2>3. Known'
      BY <1>1, <1>6, <2>1 DEF Mirror, Known
    <2> QED
      BY <1>7, <1>8, <2>2, <2>3 DEF Mirror
  <1>11. ASSUME NEW p \in Refreshers, Snapshot(p) PROVE Mirror'
    <2>1. /\ pc[p] = "snapshot" /\ pc'[p] = "refresh" /\ (\A q \in Refreshers : q # p => pc'[q] = pc[q])
          /\ view'[p] = disk /\ (\A q \in Refreshers : q # p => view'[q] = view[q])
          /\ UNCHANGED <<out, shadow>>
      BY <1>5, <1>11, Names DEF Snapshot, Goto, Sound, Typed, locked
    <2>2. Views'
      BY <1>1, <2>1 DEF Mirror, Views
    <2>3. pc["reload"] \in {"rescan", "snapshot", "refresh"} => pc'["reload"] \in {"rescan", "snapshot", "refresh"}
      BY <2>1 DEF Refreshers
    <2>4. Known'
      BY <1>1, <1>6, <2>1, <2>3 DEF Mirror, Known
    <2> QED
      BY <1>7, <1>8, <2>2, <2>4 DEF Mirror
  <1>12. ASSUME NEW p \in Refreshers, RefreshAuthState(p) PROVE Mirror'
    <2>1. PICK force : shadow' = NewState(view[p], p)
                       /\ out' = [out EXCEPT ![p] = IF queueSet THEN Differences(NewState(view[p], p), force) ELSE {}]
      BY <1>12 DEF RefreshAuthState, PrepareAuthUpdates
    <2>2. /\ pc[p] = "refresh" /\ pc'[p] = "dispatch" /\ (\A q \in Refreshers : q # p => pc'[q] = pc[q])
          /\ (\A q \in Refreshers : q # p => view'[q] = view[q])
      BY <1>12, Names DEF RefreshAuthState, Goto, Sound, Typed
    <2>3. view[p] = disk /\ view[p] \in [Files -> Payloads] /\ out[p] = {}
      BY <2>2 DEF Mirror, Views, Sound, Typed, Stages
    <2>4. Views'
      BY <1>1, <2>2 DEF Mirror, Views
    <2>5. \A f \in Files : shadow'[f] = hashes[f] /\ NewState(view[p], p)[f] = hashes[f]
      BY <1>3, <2>1, <2>3, DifferencesAre
    <2>6. \A u \in out'[p] : u.id \in Files => u.auth = hashes[u.id]
      <3>1. out'[p] = {} \/ out'[p] = Differences(NewState(view[p], p), force)
        BY <2>1, Names DEF Sound, Typed
      <3>2. \A u \in Differences(NewState(view[p], p), force) : u.auth = NewState(view[p], p)[u.id]
        BY <2>3, DifferencesAre
      <3> QED
        BY <2>5, <3>1, <3>2
    <2>7. \A q \in Refreshers : q # p => out'[q] = out[q]
      BY <2>1, Names DEF Sound, Typed
    <2>8. Known'
      <3> SUFFICES ASSUME NEW f \in Files
                   PROVE /\ shadow'[f] = hashes'[f]
                         /\ \A q \in Refreshers : \A u \in out'[q] : u.id = f => u.auth = hashes'[f]
                         /\ stopping' = "no" => \/ sent'[f] = hashes'[f]
                                                \/ \E q \in Refreshers : [id |-> f, auth |-> hashes'[f]] \in out'[q]
        BY DEF Known
      <3>1. shadow'[f] = hashes'[f]
        BY <1>6, <2>5
      <3>2. \A q \in Refreshers : \A u \in out'[q] : u.id = f => u.auth = hashes'[f]
        <4>1. \A q \in Refreshers : \A u \in out[q] : u.id = f => u.auth = hashes[f]
          BY DEF Mirror, Known
        <4>2. hashes' = hashes
          BY <1>6
        <4> QED
          BY ONLY <2>6, <2>7, <4>1, <4>2, f \in Files
      <3>3. stopping = "no" => sent[f] = hashes[f] \/ \E q \in Refreshers : [id |-> f, auth |-> hashes[f]] \in out[q]
        BY DEF Mirror, Known
      <3>4. \A q \in Refreshers : \A u \in out[q] : u \in out'[q]
        BY <2>3, <2>7
      <3> QED
        BY <1>1, <1>6, <3>1, <3>2, <3>3, <3>4
    <2> QED
      BY <1>7, <1>8, <2>4, <2>8 DEF Mirror
  <1> QED
    BY <1>9, <1>10, <1>11, <1>12

\* Merging updates of refreshers.
LEMMA MirrorDispatch ==
    ASSUME Sound, Mirror, NEW p \in Producers, DispatchAuthUpdates(p)
    PROVE  Mirror'
  <1>1. /\ pc[p] \in {"dispatch", "joining", "leaving"} /\ After(p) /\ out' = [out EXCEPT ![p] = {}]
        /\ UNCHANGED <<disk, events, debounced, hashes, shadow, runtime, file, seen, view, stopping, queueSet>>
    BY DEF DispatchAuthUpdates, world, locked, halt
  <1>2. /\ \A q \in Producers : q # p => pc'[q] = pc[q] /\ out'[q] = out[q]
        /\ out'[p] = {} /\ pc'[p] \in {"idle", "up", "gone"}
    BY <1>1, Dispatched
  <1>3. \A q \in Refreshers : \/ pc'[q] = pc[q] /\ out'[q] = out[q]
                              \/ q = p /\ pc[q] \in {"dispatch", "joining", "leaving"} /\ pc'[q] \in {"idle", "up", "gone"}
                                 /\ out'[q] = {}
    BY <1>1, <1>2, Names
  <1>4. Refreshing' => Refreshing
    BY <1>1, <1>3 DEF Refreshing, Refreshers
  <1>5. pc'["events"] \in Looking => pc'["events"] = pc["events"]
    BY <1>3 DEF Looking, Refreshers
  <1>6. pc["events"] \in Looking => pc'["events"] = pc["events"]
    BY <1>3 DEF Looking, Refreshers
  <1>7. Still'
    BY <1>1, <1>4, <1>5 DEF Mirror, Still
  <1>8. Views'
    BY <1>1, <1>3 DEF Mirror, Views
  <1>9. Debounced'
    BY <1>1 DEF Mirror, Debounced, Queued
  <1>10. Seen'
    <2> SUFFICES ASSUME NEW f \in Files PROVE SeenOf(f)'
      BY DEF Seen
    <2>1. /\ At(f, "settle")' <=> At(f, "settle")
          /\ At(f, "read")' <=> At(f, "read")
          /\ At(f, "remove")' <=> At(f, "remove")
          /\ At(f, "update")' <=> At(f, "update")
      BY <1>1, <1>5, <1>6 DEF At, Looking
    <2>2. /\ Queued(f, "remove")' <=> Queued(f, "remove")
          /\ Queued(f, "write")' <=> Queued(f, "write")
      BY <1>1 DEF Queued
    <2>3. SeenOf(f)
      BY DEF Mirror, Seen
    <2> QED
      BY <1>1, <2>1, <2>2, <2>3 DEF SeenOf
  <1>11. Known'
    <2> SUFFICES ASSUME NEW f \in Files
                 PROVE /\ shadow'[f] = hashes'[f] \/ (shadow'[f] = Absent /\ pc'["reload"] \in {"rescan", "snapshot", "refresh"})
                       /\ \A q \in Refreshers : \A u \in out'[q] : u.id = f => u.auth = hashes'[f]
                       /\ stopping' = "no" => \/ sent'[f] = hashes'[f]
                                              \/ \E q \in Refreshers : [id |-> f, auth |-> hashes'[f]] \in out'[q]
      BY DEF Known
    <2>1. /\ shadow[f] = hashes[f] \/ (shadow[f] = Absent /\ pc["reload"] \in {"rescan", "snapshot", "refresh"})
          /\ \A q \in Refreshers : \A u \in out[q] : u.id = f => u.auth = hashes[f]
          /\ stopping = "no" => sent[f] = hashes[f] \/ \E q \in Refreshers : [id |-> f, auth |-> hashes[f]] \in out[q]
      BY DEF Mirror, Known
    <2>2. pc["reload"] \in {"rescan", "snapshot", "refresh"} => pc'["reload"] = pc["reload"]
      BY <1>3 DEF Refreshers
    <2>3. \A q \in Refreshers : \A u \in out'[q] : u \in out[q]
      BY <1>3
    <2>4. ASSUME stopping = "no"
          PROVE  sent'[f] = hashes[f] \/ \E q \in Refreshers : [id |-> f, auth |-> hashes[f]] \in out'[q]
      <3>1. queueSet /\ out[p] \in SUBSET Update /\ Single(out[p])
        BY <2>4 DEF Sound, Typed, Buffered, Stages
      <3>2. Merge(out[p])
        BY <3>1 DEF DispatchAuthUpdates
      <3>3. /\ \A u \in out[p] : sent'[u.id] = u.auth
            /\ \A i \in Ids : (\A u \in out[p] : u.id # i) => sent'[i] = sent[i]
        BY ONLY <3>1, <3>2, Sound, MergeMakes
      <3>4. CASE \E u \in out[p] : u.id = f
        <4>1. PICK u \in out[p] : u.id = f
          BY <3>4
        <4>2. p \in Refreshers
          <5>1. \A c \in Channels : out[c] = {} \/ out[c] = {[id |-> c, auth |-> runtime[c]]}
            BY DEF Sound, Stages
          <5> QED
            BY <4>1, <5>1, Names
        <4> QED
          BY <2>1, <3>3, <4>1, <4>2
      <3>5. CASE \A u \in out[p] : u.id # f
        <4>1. sent'[f] = sent[f]
          BY <3>3, <3>5, Names
        <4>2. ASSUME NEW q \in Refreshers, [id |-> f, auth |-> hashes[f]] \in out[q]
              PROVE  [id |-> f, auth |-> hashes[f]] \in out'[q]
          BY <1>2, <3>5, <4>2, Names
        <4> QED
          BY <2>1, <2>4, <4>1, <4>2
      <3> QED
        BY <3>4, <3>5
    <2> QED
      BY <1>1, <2>1, <2>2, <2>3, <2>4
  <1> QED
    BY <1>7, <1>8, <1>9, <1>10, <1>11 DEF Mirror

\* The steps that do not touch the files, nor what is known of them.
LEMMA MirrorApart ==
    ASSUME Sound, Mirror, UNCHANGED <<disk, events, debounced, hashes, file, seen, view>>,
           \A f \in Files : shadow'[f] = shadow[f],
           \A p \in Refreshers : pc'[p] = pc[p] /\ out'[p] = out[p],
           stopping' = "no" => stopping = "no" /\ sent' = sent
    PROVE  Mirror'
  <1>1. Refreshing' <=> Refreshing
    BY DEF Refreshing, Refreshers
  <1>2. pc'["events"] = pc["events"] /\ pc'["reload"] = pc["reload"]
    BY DEF Refreshers
  <1>3. Still'
    BY <1>1, <1>2 DEF Mirror, Still
  <1>4. Views'
    BY DEF Mirror, Views
  <1>5. Debounced'
    BY DEF Mirror, Debounced, Queued
  <1>6. Known'
    BY <1>2 DEF Mirror, Known
  <1>7. Seen'
    BY <1>2 DEF Mirror, Seen, SeenOf, At, Queued
  <1> QED
    BY <1>3, <1>4, <1>5, <1>6, <1>7 DEF Mirror

LEMMA MirrorStep ==
    ASSUME ~Overlap, ~Quick, Sound, Mirror, [Next]_vars
    PROVE  Mirror'
  <1>1. CASE UNCHANGED vars
    BY <1>1, MirrorApart DEF vars, world, locked, producers, halt
  <1>2. CASE \/ \E f \in Files : (\E d \in Contents : Write(f, d)) \/ Truncate(f) \/ Delete(f) \/ WindowEnds(f)
             \/ KiroChange
             \/ \E a \in Affected, rescan, force \in BOOLEAN : StartReload(a, rescan, force)
    BY <1>2, MirrorOutside
  <1>3. ASSUME NEW c \in Channels, Connect(c) \/ Disconnect(c) PROVE Mirror'
    <2>1. PICK v, l : RuntimeUpdate(c, v, l)
      BY <1>3 DEF Connect, Disconnect
    <2>2. \A p \in Refreshers : pc'[p] = pc[p] /\ out'[p] = out[p]
      BY <2>1, Names DEF RuntimeUpdate, Goto, Sound, Typed
    <2>3. \A f \in Files : shadow'[f] = shadow[f]
      BY <2>1, Names DEF RuntimeUpdate, Sound, Typed
    <2>4. UNCHANGED <<disk, events, debounced, hashes, file, seen, view, stopping, sent>>
      BY <2>1 DEF RuntimeUpdate, world, halt
    <2> QED
      BY <2>2, <2>3, <2>4, MirrorApart
  <1>4. CASE EventStep \/ ReloadStep
    BY <1>4, MirrorTakes, MirrorEvents, MirrorRefreshes DEF EventStep, ReloadStep, Refreshers
  <1>5. CASE LoopStep \/ ConsumeAuthUpdate
    BY <1>5, MirrorApart
       DEF LoopStep, LookAgain, TakeBatch, CheckQueue, SendNext, SendCancelled, ConsumeAuthUpdate,
                             world, locked, producers, halt
  <1>6. CASE Stop
    BY <1>6, MirrorApart DEF Stop, StopDispatch, world, locked, producers
  <1>7. CASE \E p \in Producers : DispatchAuthUpdates(p)
    BY <1>7, MirrorDispatch
  <1>8. ASSUME NEW c \in Channels, EmitDirectly(c) PROVE Mirror'
    <2>1. stopping # "no" /\ UNCHANGED <<disk, events, debounced, hashes, shadow, file, seen, view, stopping>>
      BY <1>8 DEF EmitDirectly, world, locked, halt, Sound, Stages
    <2>2. \A p \in Refreshers : pc'[p] = pc[p] /\ out'[p] = out[p]
      BY <1>8, Names DEF EmitDirectly, After, Goto, Sound, Typed
    <2> QED
      BY <2>1, <2>2, MirrorApart
  <1> QED
    BY <1>1, <1>2, <1>3, <1>4, <1>5, <1>6, <1>7, <1>8 DEF Next, Environment

LEMMA MirrorInitially ==
    ASSUME Init PROVE Mirror
  <1>1. /\ pc["events"] = "idle" /\ pc["reload"] = "idle" /\ ToSet(events) = {}
        /\ \A p \in Refreshers : out[p] = {} /\ pc[p] = "idle"
        /\ \A f \in Files : hashes[f] = disk[f] /\ shadow[f] = disk[f] /\ sent[f] = disk[f]
    BY Names DEF Init, ToSet, Producers, Refreshers
  <1> QED
    BY <1>1 DEF Mirror, Still, Refreshing, Views, Known, Seen, SeenOf, Debounced, Queued, At

\* Once everything has been handled, what is served of the files is what they hold, if
\* no file changed while the whole state was being refreshed, and none was removed
\* again within the debounce window (handleEvent, addOrUpdateClient, removeClient,
\* refreshAuthState).
THEOREM FilesAreMirrored == ASSUME ~Overlap, ~Quick PROVE Spec => []MirrorsDisk
  <1>1. Init => Sound /\ Queue!NoneLost /\ Mirror
    BY SoundInitially, MirrorInitially
  <1>2. Sound /\ Queue!NoneLost /\ Mirror /\ [Next]_vars => (Sound /\ Queue!NoneLost /\ Mirror)'
    BY QueueSteps, NoneLostStep, MirrorStep
  <1>3. Sound /\ Queue!NoneLost /\ Mirror => MirrorsDisk
    <2> SUFFICES ASSUME Sound, Queue!NoneLost, Mirror, Quiet, NEW f \in Files, disk[f] # Empty
                 PROVE  applied[f] = disk[f]
      BY DEF MirrorsDisk
    <2>1. applied = sent /\ (\A p \in Producers : out[p] = {}) /\ stopping = "no"
      BY QuietIsApplied DEF Quiet
    <2>2. sent[f] = hashes[f]
      BY <2>1, Names DEF Mirror, Known
    <2>3. pc["events"] \in {"idle", "new", "up", "gone"} /\ ToSet(events) = {}
      BY Names DEF Quiet, ToSet, Refreshers
    <2>4. disk[f] = Absent \/ disk[f] \in Contents
      BY DEF Sound, Typed, Payloads
    <2>5. hashes[f] = disk[f]
      BY <2>3, <2>4 DEF Mirror, Seen, SeenOf, Queued, At
    <2> QED
      BY <2>1, <2>2, <2>5
  <1> QED
    BY <1>1, <1>2, <1>3, PTL DEF Spec

-----------------------------------------------------------------------------
(* The token stores.                                                       *)

Places == {"idle", "store", "stat", "ensure", "lock", "send", "put", "push", "disable"}
Sending == {"send", "put", "push"}

StoreTypeOK == /\ kind \in Kinds
          /\ task \in [Store!Tasks -> [at : Places, v : Nat, off : BOOLEAN]]
          /\ mutex \in Store!Tasks \cup {Store!Nobody}
          /\ mem \in [v : Nat, off : BOOLEAN]
          /\ told \in [any : BOOLEAN, v : Nat]
          /\ {stored, remote, head, latest} \subseteq Nat

\* Who sends holds the mutex, and sends what was written since it was taken.
Guarded == /\ after \subseteq rightful
           /\ mutex # Store!Nobody => stored \in after
           /\ \A t \in Store!Tasks : task[t].at \in Sending => mutex = t
           /\ \A t \in Store!Tasks : Store!At(t, "put") => task[t].v \in after /\ kind # "git"
           /\ \A t \in Store!Tasks : Store!At(t, "send") /\ Store!Deletes(t) => Store!Absent \in after
           /\ \A t \in Store!Tasks : Store!At(t, "push") => head \in after
Pushed == kind = "git" => remote = head \/ \E t \in Store!Tasks : Store!At(t, "push")

StoreInv == StoreTypeOK /\ Guarded /\ Pushed /\ Store!Durable

\* What the theorems ask: a git remote that answers, and that no success counts which
\* was reported without a call of the remote, neither that of a save that finds its
\* content in the file nor that of git's removal of a file that is gone.
Honest == Early = {} /\ ("git" \in Kinds => "git" \in Reliable)

TaskType == [Store!Tasks -> [at : Places, v : Nat, off : BOOLEAN]]

\* A task that goes on stays one, and the others are where they were.
LEMMA TaskGoing ==
    ASSUME StoreTypeOK, NEW t \in Store!Tasks, NEW place \in Places, Store!Go(t, place)
    PROVE  /\ task' \in TaskType
           /\ \A u \in Store!Tasks : u # t => task'[u] = task[u]
           /\ task'[t].at = place /\ task'[t].v = task[t].v /\ task'[t].off = task[t].off
  BY DEF StoreTypeOK, TaskType, Store!Go

\* So it is with a task that ends or is given something to save.
LEMMA TaskGiven ==
    ASSUME StoreTypeOK, NEW t \in Store!Tasks, NEW r \in [at : Places, v : Nat, off : BOOLEAN],
           task' = [task EXCEPT ![t] = r]
    PROVE  /\ task' \in TaskType
           /\ \A u \in Store!Tasks : task'[u] = IF u = t THEN r ELSE task[u]
  BY DEF StoreTypeOK, TaskType

LEMMA IdleType == Store!Idle \in [at : Places, v : Nat, off : BOOLEAN] /\ Store!Idle.at = "idle"
  BY DEF Store!Idle, Places, Store!Absent

\* Writing a file outside the store's mutex.
LEMMA WriteKeeps ==
    ASSUME StoreInv, NEW c \in Nat, Store!Written(c), UNCHANGED <<kind, remote, mutex, head>>,
           \A t \in Store!Tasks : task'[t].at \in Sending => task'[t] = task[t]
    PROVE  Guarded' /\ Store!Durable'
  BY DEF StoreInv, Guarded, Store!Durable, Store!Written, Store!At, Sending, StoreTypeOK, Store!Deletes

\* What changes nothing of the files and the mutex, and sends nobody off.
LEMMA Elsewhere ==
    ASSUME StoreInv, UNCHANGED <<kind, stored, remote, mutex, head, after, rightful>>,
           \A t \in Store!Tasks : task'[t] = task[t] \/ (task[t].at \notin Sending /\ task'[t].at \notin Sending)
    PROVE  Guarded' /\ Pushed' /\ Store!Durable'
  <1>1. Guarded'
    BY DEF StoreInv, Guarded, Store!At, Sending, Store!Deletes
  <1>2. Pushed'
    BY DEF StoreInv, Pushed, Store!At, Sending
  <1>3. Store!Durable'
    BY DEF StoreInv, Store!Durable
  <1> QED BY <1>1, <1>2, <1>3

\* What the goroutines do outside the store keeps everything.
LEMMA OutsideStep ==
    ASSUME StoreInv, Store!Refresh \/ Store!MarkResult \/ Store!DisableAuth \/ Store!Notice \/ Store!PersistAuthAsync \/ Store!HandleAuthUpdate
    PROVE  StoreInv'
  <1> USE DEF StoreInv
  <1>1. CASE Store!Refresh
    <2>1. [at |-> "store", v |-> latest + 1, off |-> FALSE] \in [at : Places, v : Nat, off : BOOLEAN]
      BY DEF StoreTypeOK, Store!Idle, Places, Store!Absent
    <2>2. StoreTypeOK'
      BY <1>1, <2>1, TaskGiven
         DEF Store!Refresh, StoreTypeOK, TaskType, Store!Tasks, Store!watcher, Store!local
    <2>3. \A u \in Store!Tasks : task'[u] = task[u] \/ (task[u].at = "idle" /\ task'[u].at = "store")
      BY <1>1, <2>1, TaskGiven DEF Store!Refresh, Store!IsIdle, Store!Tasks, Store!Idle
    <2>4. Guarded' /\ Pushed' /\ Store!Durable'
      BY <1>1, <2>3, Elsewhere DEF Store!Refresh, Store!local, Sending
    <2> QED BY <2>2, <2>4
  <1>2. CASE Store!MarkResult
    <2>1. [at |-> "stat", v |-> mem.v, off |-> mem.off] \in [at : Places, v : Nat, off : BOOLEAN]
      BY DEF StoreTypeOK, Store!Idle, Places, Store!Absent
    <2>2. StoreTypeOK'
      BY <1>2, <2>1, TaskGiven
         DEF Store!MarkResult, StoreTypeOK, TaskType, Store!Tasks, Store!watcher, Store!local
    <2>3. \A u \in Store!Tasks : task'[u] = task[u] \/ (task[u].at = "idle" /\ task'[u].at = "stat")
      BY <1>2, <2>1, TaskGiven
         DEF Store!MarkResult, Store!ManagerFree, Store!IsIdle, Store!Tasks, Store!Idle
    <2>4. Guarded' /\ Pushed' /\ Store!Durable'
      BY <1>2, <2>3, Elsewhere DEF Store!MarkResult, Store!local, Sending
    <2> QED BY <2>2, <2>4
  <1>3. CASE Store!DisableAuth
    <2> DEFINE r == IF mem.v = Store!Absent THEN Store!Idle
                    ELSE [at |-> "store", v |-> mem.v, off |-> TRUE]
    <2>1. r \in [at : Places, v : Nat, off : BOOLEAN] /\ r.at \in {"idle", "store"}
      BY <1>3 DEF StoreTypeOK, Store!Idle, Places, Store!Absent, Store!Tasks
    <2>2. task' = [task EXCEPT !["remove"] = r]
      BY <1>3 DEF Store!DisableAuth
    <2> HIDE DEF r
    <2>3. StoreTypeOK'
      BY <1>3, <2>1, <2>2, TaskGiven
         DEF Store!DisableAuth, StoreTypeOK, TaskType, Store!Tasks, Store!watcher, Store!local, Store!counts
    <2>4. \A u \in Store!Tasks : task'[u] = task[u] \/ (task[u].at = "disable" /\ task'[u].at \in {"idle", "store"})
      BY <1>3, <2>1, <2>2, TaskGiven DEF Store!DisableAuth, Store!At, Store!Tasks
    <2>5. Guarded' /\ Pushed' /\ Store!Durable'
      BY <1>3, <2>4, Elsewhere DEF Store!DisableAuth, Store!local, Sending
    <2> QED BY <2>3, <2>5
  <1>4. CASE Store!Notice \/ Store!HandleAuthUpdate
    <2>1. mem' \in [v : Nat, off : BOOLEAN]
      <3>1. told.v \in Nat /\ mem.v \in Nat
        BY DEF StoreTypeOK
      <3>2. CASE Store!Notice
        BY <3>2 DEF Store!Notice, StoreTypeOK
      <3>3. CASE Store!HandleAuthUpdate
        BY <3>1, <3>3 DEF Store!HandleAuthUpdate
      <3> QED BY <1>4, <3>2, <3>3
    <2>2. told' \in [any : BOOLEAN, v : Nat]
      <3>1. CASE Store!Notice
        BY <3>1 DEF Store!Notice, StoreTypeOK
      <3>2. CASE Store!HandleAuthUpdate
        BY <3>2 DEF Store!HandleAuthUpdate, Store!NoUpdate, Store!Absent
      <3> QED BY <1>4, <3>1, <3>2
    <2>3. StoreTypeOK'
      BY <1>4, <2>1, <2>2 DEF Store!Notice, Store!HandleAuthUpdate, StoreTypeOK, Store!local, Store!counts
    <2>4. Guarded' /\ Pushed' /\ Store!Durable'
      BY <1>4, Elsewhere DEF Store!Notice, Store!HandleAuthUpdate, Store!local, Store!counts
    <2> QED BY <2>3, <2>4
  <1>5. CASE Store!PersistAuthAsync
    <2>1. StoreTypeOK'
      BY <1>5, TaskGoing
         DEF Store!PersistAuthAsync, StoreTypeOK, TaskType, Store!Tasks, Places, Store!counts, Store!local
    <2>2. \A u \in Store!Tasks : task'[u] = task[u] \/ (task[u].at = "idle" /\ task'[u].at = "ensure")
      BY <1>5, TaskGoing DEF Store!PersistAuthAsync, Store!Tasks, Places, Store!IsIdle
    <2>3. Guarded' /\ Pushed' /\ Store!Durable'
      BY <1>5, <2>2, Elsewhere DEF Store!PersistAuthAsync, Store!local, Sending
    <2> QED BY <2>1, <2>3
  <1> QED BY <1>1, <1>2, <1>3, <1>4, <1>5

\* Before the mutex: manager, look for the file, pull.
LEMMA ApproachStep ==
    ASSUME StoreInv, NEW t \in Store!Tasks, Store!Update(t) \/ Store!Stat(t) \/ Store!EnsureRepository(t)
    PROVE  StoreInv'
  <1> USE DEF StoreInv
  <1>1. task' = [task EXCEPT ![t] = Store!Idle] \/ \E place \in {"stat", "ensure", "lock"} : Store!Go(t, place)
    BY DEF Store!Update, Store!Stat, Store!EnsureRepository
  <1>2. task' \in TaskType
    BY <1>1, TaskGiven, TaskGoing, IdleType DEF Places
  <1> DEFINE Calmed(u) == \/ task'[u] = task[u]
                          \/ task[u].at \notin Sending /\ task'[u].at \notin Sending
  <1>3. \A u \in Store!Tasks : Calmed(u)
    <2>1. task[t].at \notin Sending
      BY DEF Store!Update, Store!Stat, Store!EnsureRepository, Store!At, Sending
    <2>2. CASE task' = [task EXCEPT ![t] = Store!Idle]
      BY <2>1, <2>2, TaskGiven, IdleType DEF Sending
    <2>3. ASSUME NEW place \in {"stat", "ensure", "lock"}, Store!Go(t, place) PROVE \A u \in Store!Tasks : Calmed(u)
      BY <2>1, <2>3, TaskGoing DEF Sending, Places
    <2> QED BY <1>1, <2>2, <2>3
  <1>4. StoreTypeOK'
    BY <1>2
       DEF Store!Update, Store!Stat, Store!EnsureRepository, StoreTypeOK, TaskType, Store!local,
           Store!watcher, Store!counts
  <1>5. Guarded' /\ Pushed' /\ Store!Durable'
    BY <1>3, Elsewhere
       DEF Store!Update, Store!Stat, Store!EnsureRepository, Store!local, Store!counts, Sending
  <1> QED BY <1>4, <1>5

\* A file written outside the mutex is written since it was taken.
LEMMA OwnFileStep ==
    ASSUME StoreInv, Store!WriteAuthFile \/ Store!RemoveAuthFile
    PROVE  StoreInv'
  <1> USE DEF StoreInv
  <1>1. CASE Store!WriteAuthFile
    <2>1. [at |-> "store", v |-> latest + 1, off |-> FALSE] \in [at : Places, v : Nat, off : BOOLEAN]
      BY DEF StoreTypeOK, Places
    <2>2. StoreTypeOK'
      BY <1>1, <2>1, TaskGiven
         DEF Store!WriteAuthFile, Store!Written, StoreTypeOK, TaskType, Store!Tasks, Store!watcher
    <2>3. \A u \in Store!Tasks : task'[u] = task[u] \/ (task[u].at = "idle" /\ task'[u].at = "store")
      BY <1>1, <2>1, TaskGiven DEF Store!WriteAuthFile, Store!IsIdle, Store!Tasks
    <2>4. Guarded' /\ Store!Durable'
      BY <1>1, <2>3, WriteKeeps DEF Store!WriteAuthFile, StoreTypeOK, Sending
    <2>5. Pushed'
      BY <1>1, <2>3 DEF Store!WriteAuthFile, Pushed, Store!At
    <2> QED BY <2>2, <2>4, <2>5
  <1>2. CASE Store!RemoveAuthFile
    <2>1. StoreTypeOK'
      <3>1. task' \in TaskType
        BY <1>2, TaskGoing DEF Store!RemoveAuthFile, Store!Tasks, Places
      <3>2. UNCHANGED <<kind, mem, remote, mutex, told, head, latest>> /\ stored' = 0
        BY <1>2 DEF Store!RemoveAuthFile, Store!Written, Store!watcher, Store!Absent
      <3> QED
        BY <3>1, <3>2 DEF StoreTypeOK, TaskType
    <2>2. \A u \in Store!Tasks : task'[u] = task[u] \/ (task[u].at = "idle" /\ task'[u].at = "ensure")
      BY <1>2 DEF Store!RemoveAuthFile, Store!Go, Store!IsIdle, Store!Tasks, StoreTypeOK
    <2>3. Guarded' /\ Store!Durable'
      BY <1>2, <2>2, WriteKeeps DEF Store!RemoveAuthFile, Sending, Store!Absent
    <2>4. Pushed'
      BY <1>2, <2>2 DEF Store!RemoveAuthFile, Pushed, Store!At
    <2> QED BY <2>1, <2>3, <2>4
  <1> QED BY <1>1, <1>2

\* With the mutex taken, what the file holds is all that was written.
LEMMA LockStep ==
    ASSUME StoreInv, Honest, NEW t \in Store!Tasks, Store!Lock(t)
    PROVE  StoreInv'
  <1> USE DEF StoreInv
  <1>1. /\ mutex = Store!Nobody /\ task[t].at = "lock"
        /\ \A u \in Store!Tasks : task[u].at \notin Sending
    BY DEF Store!Lock, Store!Locked, Store!At, Guarded, Store!Nobody, Store!Tasks
  <1>2. CASE Store!SaveSkipped(t)
    <2>1. StoreTypeOK'
      BY <1>2, TaskGiven, IdleType
         DEF Store!Lock, Store!SaveSkipped, StoreTypeOK, TaskType, Store!watcher, Store!counts
    <2>2. \A u \in Store!Tasks : task'[u] = task[u] \/ task'[u].at = "idle"
      BY <1>2, TaskGiven, IdleType DEF Store!SaveSkipped
    <2>3. Guarded' /\ Pushed' /\ Store!Durable'
      BY <1>1, <1>2, <2>2, Elsewhere DEF Store!Lock, Store!SaveSkipped, Honest, Sending
    <2> QED BY <2>1, <2>3
  <1>3. ASSUME stored' \in Nat, after' = {stored'}, rightful' = rightful \cup {stored'},
               Store!Go(t, "send"), mutex' = t,
               Store!Deletes(t) => stored' = Store!Absent
        PROVE  StoreInv'
    <2>1. \A u \in Store!Tasks : task'[u].at \in Sending => task'[u].at = "send" /\ mutex' = u /\ u = t
      BY <1>1, <1>3, TaskGoing DEF Places, Sending
    <2>2. StoreTypeOK'
      BY <1>1, <1>3, TaskGoing DEF Store!Lock, StoreTypeOK, TaskType, Places, Store!watcher, Store!counts
    <2>3. Guarded'
      <3>1. after' \subseteq rightful' /\ stored' \in after'
        BY <1>3
      <3>2. \A u \in Store!Tasks : task'[u].at \in Sending => mutex' = u
        BY <2>1
      <3>3. \A u \in Store!Tasks : task'[u].at \notin {"put", "push"}
        BY <2>1 DEF Sending
      <3>4. Store!At(t, "send")' /\ Store!Deletes(t)' => Store!Absent \in after'
        BY <1>3, TaskGoing DEF Store!Deletes, Places
      <3> QED BY <2>1, <3>1, <3>2, <3>3, <3>4 DEF Guarded, Store!At, Sending
    <2>4. Pushed' /\ Store!Durable'
      BY <1>1, <1>3, <2>1 DEF Store!Lock, Pushed, Store!Durable, Sending, Store!At
    <2> QED BY <2>2, <2>3, <2>4
  <1>4. CASE Store!SaveFile(t)
    BY <1>3, <1>4 DEF Store!SaveFile, StoreTypeOK, Store!Saves, Store!Deletes
  <1>5. CASE Store!DeleteFile(t)
    BY <1>3, <1>5 DEF Store!DeleteFile, Store!Absent
  <1>6. CASE Store!DeleteSkipped(t)
    <2>1. StoreTypeOK'
      BY <1>6, TaskGoing
         DEF Store!Lock, Store!DeleteSkipped, StoreTypeOK, TaskType, Places, Store!watcher, Store!counts
    <2>2. \A u \in Store!Tasks : task'[u] = task[u] \/ task'[u].at = "disable"
      BY <1>6, TaskGoing DEF Store!DeleteSkipped, Places
    <2>3. Guarded' /\ Pushed' /\ Store!Durable'
      BY <1>1, <1>6, <2>2, Elsewhere DEF Store!Lock, Store!DeleteSkipped, Honest, Sending
    <2> QED BY <2>1, <2>3
  <1>7. CASE Store!PersistFile(t)
    <2>1. stored \in rightful /\ rightful \cup {stored} = rightful
      BY DEF Store!Durable
    <2> QED BY <1>3, <1>7, <2>1 DEF Store!PersistFile, StoreTypeOK, Store!Deletes
  <1> QED BY <1>2, <1>4, <1>5, <1>6, <1>7 DEF Store!Lock

\* What is sent was written since the mutex was taken; reported, it is all there is.
LEMMA SendStep ==
    ASSUME StoreInv, Honest, NEW t \in Store!Tasks, Store!Send(t)
    PROVE  StoreInv'
  <1> USE DEF StoreInv
  <1>1. /\ mutex = t /\ task[t].at \in Sending /\ stored \in after /\ after \subseteq rightful
        /\ \A u \in Store!Tasks : u # t => task[u].at \notin Sending
        /\ Store!At(t, "send") /\ Store!Deletes(t) => Store!Absent \in after
    BY DEF Store!Send, Store!At, Sending, Guarded, Store!Tasks, Store!Nobody
  <1>2. ASSUME Store!Done(t) PROVE task' \in TaskType /\ \A u \in Store!Tasks : task'[u].at \notin Sending
    <2> DEFINE r == IF Store!Deletes(t) THEN Store!Disabling ELSE Store!Idle
    <2>1. r \in [at : Places, v : Nat, off : BOOLEAN] /\ r.at \notin Sending
      BY DEF Store!Disabling, Store!Idle, Places, Sending, Store!Absent
    <2>2. task' = [task EXCEPT ![t] = r]
      BY <1>2 DEF Store!Done
    <2> HIDE DEF r
    <2>3. task' \in TaskType /\ \A u \in Store!Tasks : task'[u] = IF u = t THEN r ELSE task[u]
      BY <2>1, <2>2, TaskGiven
    <2>4. ASSUME NEW u \in Store!Tasks PROVE task'[u].at \notin Sending
      <3>1. CASE u = t
        BY <2>1, <2>3, <3>1
      <3>2. CASE u # t
        BY <1>1, <2>3, <3>2
      <3> QED BY <3>1, <3>2
    <2> QED BY <2>3, <2>4
  <1>3. ASSUME Store!Failed(t) PROVE task' \in TaskType /\ \A u \in Store!Tasks : task'[u].at \notin Sending
    <2>1. task' = [task EXCEPT ![t] = Store!Idle]
      BY <1>3 DEF Store!Failed
    <2>2. Store!Idle \in [at : Places, v : Nat, off : BOOLEAN] /\ Store!Idle.at \notin Sending
      BY IdleType DEF Sending
    <2>3. task' \in TaskType /\ \A u \in Store!Tasks : task'[u] = IF u = t THEN Store!Idle ELSE task[u]
      BY <2>1, <2>2, TaskGiven
    <2>4. ASSUME NEW u \in Store!Tasks PROVE task'[u].at \notin Sending
      <3>1. CASE u = t
        BY <2>2, <2>3, <3>1
      <3>2. CASE u # t
        BY <1>1, <2>3, <3>2
      <3> QED BY <3>1, <3>2
    <2> QED BY <2>3, <2>4
  <1>4. ASSUME task' \in TaskType, \A u \in Store!Tasks : task'[u].at \notin Sending, mutex' = Store!Nobody,
               {remote', head'} \subseteq Nat, remote' \in rightful', rightful' \in {after, rightful},
               UNCHANGED <<kind, mem, told, stored, latest, after>>,
               kind = "git" => remote' = head'
        PROVE  StoreInv'
    <2>1. StoreTypeOK'
      BY <1>4 DEF StoreTypeOK, TaskType
    <2>2. Guarded'
      BY <1>1, <1>4 DEF Guarded, Store!At, Sending
    <2>3. Pushed' /\ Store!Durable'
      BY <1>1, <1>4 DEF Pushed, Store!Durable
    <2> QED BY <2>1, <2>2, <2>3
  <1>5. CASE Store!At(t, "send") /\ Store!Read(t)
    <2>1. CASE Store!Failed(t)
      BY <1>3, <1>4, <1>5, <2>1
         DEF Store!Send, Store!Read, Store!Failed, StoreTypeOK, Store!Durable, Store!watcher
    <2>2. CASE /\ UNCHANGED <<mutex, rightful>>
               /\ task' = [task EXCEPT ![t] = [at |-> "put", v |-> Store!Sent(t), off |-> task[t].off]]
      <3>1. [at |-> "put", v |-> Store!Sent(t), off |-> task[t].off] \in [at : Places, v : Nat, off : BOOLEAN]
        BY DEF Store!Sent, StoreTypeOK, Places, Store!Absent
      <3> DEFINE r == [at |-> "put", v |-> Store!Sent(t), off |-> task[t].off]
      <3>r. r.at = "put" /\ r.v = Store!Sent(t)
        OBVIOUS
      <3>p. task' = [task EXCEPT ![t] = r]
        BY <2>2
      <3> HIDE DEF r
      <3>2. /\ task' \in TaskType
            /\ \A u \in Store!Tasks : u # t => task'[u] = task[u]
            /\ task'[t].at = "put" /\ task'[t].v = Store!Sent(t)
        <4>1. task' \in TaskType /\ \A u \in Store!Tasks : task'[u] = IF u = t THEN r ELSE task[u]
          BY <3>p, <3>1, TaskGiven DEF r
        <4> QED BY <4>1, <3>r
      <3>3. StoreTypeOK'
        BY <1>5, <2>2, <3>2 DEF Store!Send, Store!Read, StoreTypeOK, TaskType, Store!watcher
      <3>4. Store!Sent(t) \in after
        BY <1>1, <1>5 DEF Store!Sent, Guarded
      <3>5. Guarded'
        BY <1>1, <1>5, <2>2, <3>2, <3>4 DEF Store!Send, Store!Read, Guarded, Store!At, Sending
      <3>6. Pushed' /\ Store!Durable'
        BY <1>1, <1>5, <2>2, <3>2 DEF Store!Send, Store!Read, Pushed, Store!Durable, Store!At, Sending
      <3> QED BY <3>3, <3>5, <3>6
    <2> QED BY <1>5, <2>1, <2>2 DEF Store!Read
  <1>6. CASE Store!At(t, "put") /\ Store!Put(t)
    <2>1. task[t].v \in after /\ task[t].v \in Nat /\ kind # "git"
      BY <1>6 DEF Guarded, StoreTypeOK
    <2>2. CASE remote' = task[t].v /\ Store!Done(t) /\ Store!Kept
      BY <1>1, <1>2, <1>4, <1>6, <2>1, <2>2
         DEF Store!Send, Store!Put, Store!Done, Store!Kept, StoreTypeOK, Store!watcher
    <2>3. CASE (remote' = task[t].v \/ UNCHANGED remote) /\ Store!Failed(t)
      BY <1>1, <1>3, <1>4, <1>6, <2>1, <2>3
         DEF Store!Send, Store!Put, Store!Failed, StoreTypeOK, Store!Durable, Store!watcher
    <2> QED BY <1>6, <2>2, <2>3 DEF Store!Put
  <1>7. CASE Store!At(t, "send") /\ Store!Commit(t)
    <2>1. remote = head
      BY <1>1, <1>7 DEF Pushed, Store!Commit, Store!At, Sending
    <2>2. CASE Store!Done(t) /\ Store!Kept /\ head = stored /\ UNCHANGED head
      BY <1>1, <1>2, <1>4, <1>7, <2>1, <2>2
         DEF Store!Send, Store!Commit, Store!Done, Store!Kept, StoreTypeOK, Store!watcher
    <2>3. CASE head' = stored /\ Store!Go(t, "push") /\ UNCHANGED <<mutex, rightful>>
      <3>1. task' \in TaskType /\ task'[t].at = "push" /\ \A u \in Store!Tasks : u # t => task'[u] = task[u]
        BY <2>3, TaskGoing DEF Places
      <3>2. StoreTypeOK'
        BY <1>7, <2>3, <3>1 DEF Store!Send, Store!Commit, StoreTypeOK, TaskType, Store!watcher
      <3>3. Guarded'
        BY <1>1, <1>7, <2>3, <3>1 DEF Store!Send, Store!Commit, Guarded, Store!At, Sending
      <3>4. Pushed' /\ Store!Durable'
        BY <1>7, <2>3, <3>1 DEF Store!Send, Store!Commit, Pushed, Store!Durable, Store!At
      <3> QED BY <3>2, <3>3, <3>4
    <2> QED BY <1>7, <2>2, <2>3 DEF Store!Commit
  <1>8. CASE Store!At(t, "push") /\ Store!Push(t)
    <2>1. head \in after
      BY <1>8 DEF Guarded
    <2>2. CASE remote' = head /\ Store!Done(t) /\ Store!Kept
      BY <1>1, <1>2, <1>4, <1>8, <2>1, <2>2
         DEF Store!Send, Store!Push, Store!Done, Store!Kept, StoreTypeOK, Store!watcher
    <2>3. CASE Store!Fails /\ (remote' = head \/ UNCHANGED remote) /\ Store!Failed(t)
      <3>1. kind # "git"
        BY <2>3 DEF Store!Fails, Honest, StoreTypeOK
      <3> QED BY <1>1, <1>3, <1>4, <1>8, <2>1, <2>3, <3>1
                 DEF Store!Send, Store!Push, Store!Failed, StoreTypeOK, Store!Durable, Store!watcher
    <2> QED BY <1>8, <2>2, <2>3 DEF Store!Push
  <1> QED BY <1>5, <1>6, <1>7, <1>8 DEF Store!Send

\* A crash ends every task and frees the mutex; the git store's program has none.
LEMMA CrashStep ==
    ASSUME StoreInv, Honest, Store!Crash
    PROVE  StoreInv'
  <1> USE DEF StoreInv
  <1>1. kind # "git" /\ stored' \in {stored, remote} /\ after' = {} /\ mutex' = Store!Nobody
    BY DEF Store!Crash, Honest, Store!BootstrapObject, Store!BootstrapPostgres, StoreTypeOK
  <1>2. task' \in TaskType /\ \A u \in Store!Tasks : task'[u].at = "idle"
    BY IdleType DEF Store!Crash, TaskType
  <1>3. mem' \in [v : Nat, off : BOOLEAN] /\ told' \in [any : BOOLEAN, v : Nat]
    BY <1>1 DEF Store!Crash, StoreTypeOK, Store!NoUpdate, Store!Absent
  <1>4. StoreTypeOK'
    BY <1>1, <1>2, <1>3 DEF Store!Crash, StoreTypeOK, TaskType
  <1>5. Guarded' /\ Pushed' /\ Store!Durable'
    BY <1>1, <1>2 DEF Store!Crash, Guarded, Pushed, Store!Durable, Store!At, Sending
  <1> QED BY <1>4, <1>5

\* It begins with the same contents everywhere and nobody at work.
LEMMA StoreInitially == Store!Init => StoreInv
  BY
     DEF Store!Init, StoreInv, StoreTypeOK, Guarded, Pushed, Store!Durable, Store!At, Sending, Store!Idle,
         Places, Store!NoUpdate,
         Store!Absent, Store!Nobody

\* Every step keeps the invariant.
LEMMA StoreInductive == Honest /\ StoreInv /\ [Store!Next]_(Store!vars) => StoreInv'
  <1> SUFFICES ASSUME Honest, StoreInv, [Store!Next]_(Store!vars) PROVE StoreInv'
    OBVIOUS
  <1>1. CASE Store!Step
    BY <1>1, OutsideStep, ApproachStep, LockStep, SendStep DEF Store!Step, Store!Stored
  <1>2. CASE Store!Environment
    BY <1>2, OutsideStep, OwnFileStep, CrashStep DEF Store!Environment
  <1>3. CASE UNCHANGED Store!vars
    <2>1. UNCHANGED <<kind, mem, stored, remote, head, mutex, task, told, latest, after, rightful>>
      BY <1>3 DEF Store!vars, Store!local, Store!watcher, Store!counts
    <2>2. StoreTypeOK' /\ Store!Durable'
      BY <2>1 DEF StoreInv, StoreTypeOK, Store!Durable
    <2>3. Guarded' /\ Pushed'
      BY <2>1 DEF StoreInv, Guarded, Pushed, Store!At, Store!Deletes
    <2> QED BY <2>2, <2>3 DEF StoreInv
  <1> QED BY <1>1, <1>2, <1>3 DEF Store!Next

\* PersistAuthFiles, Save and Delete (internal/store) and the restart, with a git remote
\* that answers: whatever calls fail and whenever the program crashes, the remote and the
\* file hold the content whose save, synchronisation or removal was last carried to the
\* remote (git: found committed) and reported, or a newer one.  A success reported without
\* a call of the remote is no report here: not a save's that finds its content in the
\* file, and not that of git's Delete of a file already gone, which is every removal
\* through the management API with no save beside it; a git removal counts once the
\* watcher's PersistAuthFiles has carried it.
THEOREM KeptIsDurable == Honest => (Store!Spec => []Store!Durable)
  <1> SUFFICES ASSUME Honest PROVE Store!Spec => []Store!Durable
    OBVIOUS
  <1>1. Store!Init => StoreInv
    BY StoreInitially
  <1>2. StoreInv /\ [Store!Next]_(Store!vars) => StoreInv'
    BY StoreInductive
  <1>3. StoreInv => Store!Durable
    BY DEF StoreInv
  <1> QED BY <1>1, <1>2, <1>3, PTL DEF Store!Spec

\* The same, of the same reports, beside the watcher, whose setting leaves the stores as
\* they began.
THEOREM KeptBesideTheWatcher == Honest => (SettingSpec => []Durable)
  <1> SUFFICES ASSUME Honest PROVE SettingSpec => []Durable
    OBVIOUS
  <1> DEFINE Begun == setting = "watcher" => Store!Init
  <1>1. SettingInit => StoreInv /\ Begun
    BY StoreInitially DEF SettingInit
  <1>2. StoreInv /\ Begun /\ [SettingNext]_<<setting, kind, contents, vars>> => StoreInv' /\ Begun'
    <2> SUFFICES ASSUME StoreInv, Begun, [SettingNext]_<<setting, kind, contents, vars>> PROVE StoreInv' /\ Begun'
      OBVIOUS
    <2>1. CASE UNCHANGED <<setting, kind, contents>>
      <3>1. UNCHANGED Store!vars
        BY <2>1 DEF contents, Store!vars, Store!local, Store!watcher, Store!counts
      <3>2. Begun'
        BY <2>1 DEF contents, Store!Init
      <3> QED
        BY <3>1, <3>2, StoreInductive
    <2>2. CASE Begin
      <3>1. Store!Init'
        BY <2>2 DEF Begin, Waits, contents, Store!Init
      <3>2. StoreInv'
        BY <3>1
           DEF Store!Init, StoreInv, StoreTypeOK, Guarded, Pushed, Store!Durable, Store!At, Sending,
               Store!Idle,
                    Places, Store!NoUpdate, Store!Absent, Store!Nobody
      <3> QED
        BY <3>1, <3>2
    <2>3. CASE setting = "store" /\ Store!Next /\ UNCHANGED <<setting, vars>>
      BY <2>3, StoreInductive
    <2> QED
      BY <2>1, <2>2, <2>3 DEF SettingNext
  <1>3. StoreInv => Durable
    BY DEF StoreInv, Durable
  <1> QED
    BY <1>1, <1>2, <1>3, PTL DEF SettingSpec

=============================================================================
