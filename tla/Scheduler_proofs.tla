-------------------------- MODULE Scheduler_proofs --------------------------
(***************************************************************************)
(* For any credentials, providers, priorities and snapshots: a credential  *)
(* has one home, the index kept by increments is the one a rebuild from    *)
(* the snapshots would give, and a pick gets what the selectors, which     *)
(* keep no index, would give it.                                           *)
(*                                                                         *)
(* The first two rest on one inductive invariant.  IndexExact alone is not *)
(* inductive: a shard not built yet has to be empty, or its first use and  *)
(* a removal before it would not fit; and what an entry says has to come   *)
(* from a well-formed snapshot, or time could free a ready credential.     *)
(* The third needs more of the entries: each says what its snapshot gives, *)
(* or that its time is up (Steady), so that promoting the expired ones,    *)
(* which every pick begins with, makes all of them say what is so.         *)
(*                                                                         *)
(* Then, that like picks share the work (RotationFair).  Here the       *)
(* cursors matter: a run of picks takes turns (InTurn) when each has its   *)
(* position, modulo as many as there are, one behind the one before it,    *)
(* and the cursor is behind the last.  That is kept by a pick, and any as  *)
(* many picks as there are positions are in different ones.                *)
(*                                                                         *)
(* At last, that a conversation stays with its credential (Sticky): what   *)
(* its keys are to be given is what they are bound to (Anchored), and what *)
(* a request is owed is where it will look for it (InReach).               *)
(***************************************************************************)
EXTENDS MCScheduler, FiniteSetTheorems, SequenceTheorems, TLAPS

Fields(st) == DOMAIN st = {"metas", "built", "entry", "ready", "blocked", "cursors"}

Known(st) == /\ DOMAIN st.metas \subseteq Auths
             /\ \A a \in DOMAIN st.metas : st.metas[a] \in Snapshot
             /\ \A a \in DOMAIN st.entry : st.entry[a] \in Entries

\* The entries are those of the credentials that support the model, and none
\* is ready whose snapshot is blocked.
Filed(st) == /\ DOMAIN st.entry = {a \in DOMAIN st.metas : st.metas[a].supports}
             /\ \A a \in DOMAIN st.entry : st.entry[a].state = "ready" => ~Blocked(st.metas[a])

\* The index is the entries'.
Fits(st) ==
    /\ st.ready = [a \in {b \in DOMAIN st.entry : st.entry[b].state = "ready"} |->
                     [prio |-> st.metas[a].prio, parent |-> st.metas[a].parent, ws |-> st.metas[a].ws]]
    /\ st.blocked = {a \in DOMAIN st.entry : st.entry[a].state \in {"cooldown", "blocked"}}

Sound(st) == /\ Fields(st) /\ Known(st)
             /\ st.built => Filed(st) /\ Fits(st)
             /\ ~st.built => DOMAIN st.entry = {}

IInv == /\ DOMAIN shard = Providers
        /\ \A p \in Providers : Sound(shard[p])
        /\ owner \in [Auths -> Providers \union {Nowhere}]
        /\ OneHome

-----------------------------------------------------------------------------
\* What an entry says of the snapshot it was made from.
LEMMA EntryStates ==
  ASSUME NEW s \in Snapshot
  PROVE  Entry(s) \in Entries /\ (Entry(s).state = "ready" => ~Blocked(s))
BY DEF Entry, Entries, States, Blocked, Snapshot, NextRetry

\* rebuildIndexesLocked touches the index and the cursors, and the index it
\* leaves is the entries'.
LEMMA IndexedFits ==
  ASSUME NEW st, Fields(st)
  PROVE  /\ Fields(Indexed(st)) /\ Fits(Indexed(st))
         /\ Indexed(st).metas = st.metas /\ Indexed(st).entry = st.entry /\ Indexed(st).built = st.built
<1> DEFINE inState(s) == {a \in DOMAIN st.entry : st.entry[a].state = s}
           new == [st EXCEPT !.ready = [a \in inState("ready") |->
                             [prio |-> st.metas[a].prio, parent |-> st.metas[a].parent,
                              ws |-> st.metas[a].ws]],
                          !.blocked = inState("cooldown") \union inState("blocked")]
           restored(i) ==
            LET old == IF Bucket(st, i) = {} THEN NoCursors ELSE st.cursors[i]
                grouped == Grouped(new, i)
            IN [flat   |-> Normalized(old.flat, Cardinality(Bucket(new, i))),
                ws     |-> Normalized(old.ws, Cardinality(WsBucket(new, i))),
                parent |-> IF grouped THEN Normalized(old.parent, Cardinality(Groups(new, i))) ELSE 0,
                child  |-> [g \in Parents |->
                               IF grouped THEN Normalized(old.child[g], Cardinality(Group(new, i, g)))
                               ELSE 0]]
           cur == [i \in Priorities |-> restored(i)]
<1>1. Indexed(st) = [new EXCEPT !.cursors = cur]
  BY DEF Indexed
<1> HIDE DEF cur
<1>2. /\ Fields(new) /\ new.metas = st.metas /\ new.entry = st.entry /\ new.built = st.built
      /\ new.ready = [a \in inState("ready") |->
                             [prio |-> st.metas[a].prio, parent |-> st.metas[a].parent,
                              ws |-> st.metas[a].ws]]
      /\ new.blocked = inState("cooldown") \union inState("blocked")
  BY DEF Fields
<1> HIDE DEF new
<1>3. /\ Fields(Indexed(st)) /\ Indexed(st).metas = st.metas /\ Indexed(st).entry = st.entry
      /\ Indexed(st).built = st.built /\ Indexed(st).ready = new.ready /\ Indexed(st).blocked = new.blocked
  BY <1>1, <1>2 DEF Fields
<1>4. inState("cooldown") \union inState("blocked") = {a \in DOMAIN st.entry : st.entry[a].state \in {"cooldown", "blocked"}}
  OBVIOUS
<1>5. QED
  BY <1>2, <1>3, <1>4 DEF Fits

\* An index rebuilt over entries that are filed is sound.
LEMMA IndexedSound ==
  ASSUME NEW st, Fields(st), Known(st), Filed(st), st.built
  PROVE  Sound(Indexed(st))
<1>1. Known(Indexed(st)) /\ Filed(Indexed(st))
  BY IndexedFits DEF Known, Filed
<1>2. QED
  BY <1>1, IndexedFits DEF Sound

\* upsertEntryLocked, whether it rebuilds the index or finds that it still fits.
LEMMA WithEntrySound ==
  ASSUME NEW st, Sound(st), st.built, NEW a \in Auths, NEW s \in Snapshot, s.supports
  PROVE  /\ Sound(WithEntry(st, a, s))
         /\ DOMAIN WithEntry(st, a, s).metas = DOMAIN st.metas \union {a}
<1> DEFINE new == [st EXCEPT !.metas = [b \in DOMAIN st.metas \union {a} |-> IF b = a THEN s ELSE st.metas[b]],
                             !.entry = [b \in DOMAIN st.entry \union {a} |-> IF b = a THEN Entry(s) ELSE st.entry[b]]]
<1>1. /\ Fields(new) /\ new.built = st.built /\ new.ready = st.ready /\ new.blocked = st.blocked
      /\ new.metas = [b \in DOMAIN st.metas \union {a} |-> IF b = a THEN s ELSE st.metas[b]]
      /\ new.entry = [b \in DOMAIN st.entry \union {a} |-> IF b = a THEN Entry(s) ELSE st.entry[b]]
  BY DEF Sound, Fields
<1>2. WithEntry(st, a, s) = IF a \in DOMAIN st.entry /\ Placement(st, a) = Placement(new, a) THEN new ELSE Indexed(new)
  BY DEF WithEntry
<1> HIDE DEF new
<1>3. Known(new)
  BY <1>1, EntryStates DEF Sound, Known
<1>4. Filed(new)
  BY <1>1, EntryStates DEF Sound, Filed
<1>5. CASE a \in DOMAIN st.entry /\ Placement(st, a) = Placement(new, a)
  <2>1. /\ new.entry[a] = st.entry[a] /\ new.metas[a].prio = st.metas[a].prio
        /\ new.metas[a].parent = st.metas[a].parent /\ new.metas[a].ws = st.metas[a].ws
    BY <1>5 DEF Placement
  <2>2. DOMAIN new.entry = DOMAIN st.entry /\ \A b \in DOMAIN st.entry : new.entry[b] = st.entry[b]
    BY <1>1, <1>5, <2>1
  <2>3. \A b \in DOMAIN st.entry : b # a => new.metas[b] = st.metas[b]
    BY <1>1 DEF Sound, Filed
  <2>4. {b \in DOMAIN new.entry : new.entry[b].state = "ready"} = {b \in DOMAIN st.entry : st.entry[b].state = "ready"}
    BY <2>2
  <2>5. \A b \in DOMAIN st.entry : /\ new.metas[b].prio = st.metas[b].prio
                                   /\ new.metas[b].parent = st.metas[b].parent
                                   /\ new.metas[b].ws = st.metas[b].ws
    BY <2>1, <2>3
  <2>6. st.ready = [b \in {c \in DOMAIN st.entry : st.entry[c].state = "ready"} |->
                     [prio |-> new.metas[b].prio, parent |-> new.metas[b].parent, ws |-> new.metas[b].ws]]
    <3>1. st.ready = [b \in {c \in DOMAIN st.entry : st.entry[c].state = "ready"} |->
                     [prio |-> st.metas[b].prio, parent |-> st.metas[b].parent, ws |-> st.metas[b].ws]]
      BY DEF Sound, Fits
    <3>2. QED
      BY <2>5, <3>1
  <2>7. new.blocked = {b \in DOMAIN new.entry : new.entry[b].state \in {"cooldown", "blocked"}}
    <3>1. st.blocked = {b \in DOMAIN st.entry : st.entry[b].state \in {"cooldown", "blocked"}}
      BY DEF Sound, Fits
    <3>2. QED
      BY <1>1, <2>2, <3>1
  <2>8. Fits(new)
    BY <1>1, <2>4, <2>6, <2>7 DEF Fits
  <2>9. QED
    BY <1>1, <1>2, <1>3, <1>4, <1>5, <2>8 DEF Sound
<1>6. CASE ~(a \in DOMAIN st.entry /\ Placement(st, a) = Placement(new, a))
  <2>1. WithEntry(st, a, s) = Indexed(new)
    BY <1>2, <1>6
  <2>2. Sound(Indexed(new))
    BY <1>1, <1>3, <1>4, IndexedSound
  <2>3. Indexed(new).metas = new.metas
    BY <1>1, IndexedFits
  <2>4. QED
    BY <1>1, <2>1, <2>2, <2>3
<1>7. QED
  BY <1>5, <1>6

\* removeEntryLocked, of a credential that no longer supports the model or is
\* about to leave.
LEMMA WithoutEntryFits ==
  ASSUME NEW st, Fields(st), Known(st), NEW a,
         st.built => Fits(st)
  PROVE  LET r == WithoutEntry(st, a)
         IN  /\ Fields(r) /\ r.metas = st.metas /\ r.built = st.built
             /\ DOMAIN r.entry = DOMAIN st.entry \ {a}
             /\ \A b \in DOMAIN r.entry : r.entry[b] = st.entry[b]
             /\ r.built => Fits(r)
<1> DEFINE cut == [st EXCEPT !.entry = [b \in DOMAIN st.entry \ {a} |-> st.entry[b]]]
<1>1. /\ Fields(cut) /\ cut.metas = st.metas /\ cut.built = st.built
      /\ cut.entry = [b \in DOMAIN st.entry \ {a} |-> st.entry[b]]
  BY DEF Fields
<1>2. WithoutEntry(st, a) = IF a \notin DOMAIN st.entry THEN st ELSE Indexed(cut)
  BY DEF WithoutEntry
<1> HIDE DEF cut
<1>3. CASE a \notin DOMAIN st.entry
  BY <1>2, <1>3
<1>4. CASE a \in DOMAIN st.entry
  <2>1. /\ Fields(Indexed(cut)) /\ Fits(Indexed(cut)) /\ Indexed(cut).metas = cut.metas
        /\ Indexed(cut).entry = cut.entry /\ Indexed(cut).built = cut.built
    BY <1>1, IndexedFits
  <2>2. QED
    BY <1>1, <1>2, <1>4, <2>1
<1>5. QED
  BY <1>3, <1>4

\* providerScheduler.upsertAuthLocked.
LEMMA GivenSound ==
  ASSUME NEW st, Sound(st), NEW a \in Auths, NEW s \in Snapshot
  PROVE  Sound(Given(st, a, s)) /\ DOMAIN Given(st, a, s).metas = DOMAIN st.metas \union {a}
<1> DEFINE known == [st EXCEPT !.metas = [b \in DOMAIN st.metas \union {a} |-> IF b = a THEN s ELSE st.metas[b]]]
           gone == WithoutEntry(known, a)
<1>1. /\ Fields(known) /\ known.built = st.built /\ known.entry = st.entry
      /\ known.ready = st.ready /\ known.blocked = st.blocked
      /\ known.metas = [b \in DOMAIN st.metas \union {a} |-> IF b = a THEN s ELSE st.metas[b]]
  BY DEF Sound, Fields
<1>2. Given(st, a, s) = IF ~st.built THEN known ELSE IF s.supports THEN WithEntry(st, a, s) ELSE gone
  BY DEF Given
<1> HIDE DEF known
<1>3. Known(known)
  BY <1>1 DEF Sound, Known
<1>4. CASE ~st.built
  BY <1>1, <1>2, <1>3, <1>4 DEF Sound
<1>5. CASE st.built /\ s.supports
  BY <1>2, <1>5, WithEntrySound
<1>6. CASE st.built /\ ~s.supports
  <2>1. CASE a \in DOMAIN st.entry
    <3> DEFINE cut == [known EXCEPT !.entry = [b \in DOMAIN known.entry \ {a} |-> known.entry[b]]]
    <3>1. /\ Fields(cut) /\ cut.metas = known.metas /\ cut.built = known.built
          /\ cut.entry = [b \in DOMAIN st.entry \ {a} |-> st.entry[b]]
      BY <1>1 DEF Fields
    <3>2. gone = Indexed(cut)
      BY <1>1, <2>1 DEF WithoutEntry
    <3> HIDE DEF cut
    <3>3. Known(cut)
      BY <1>1, <1>3, <3>1 DEF Known
    <3>4. Filed(cut)
      BY <1>1, <1>6, <3>1 DEF Sound, Filed
    <3>5. Sound(Indexed(cut)) /\ Indexed(cut).metas = cut.metas
      BY <1>1, <1>6, <3>1, <3>3, <3>4, IndexedSound, IndexedFits
    <3>6. QED
      BY <1>1, <1>2, <1>6, <3>1, <3>2, <3>5
  <2>2. CASE a \notin DOMAIN st.entry
    <3>1. gone = known
      BY <1>1, <2>2 DEF WithoutEntry
    <3>2. \A b \in DOMAIN st.entry : known.metas[b] = st.metas[b]
      BY <1>1, <1>6, <2>2 DEF Sound, Filed
    <3>3. Filed(known)
      BY <1>1, <1>6, <2>2, <3>2 DEF Sound, Filed
    <3>4. st.ready = [b \in {c \in DOMAIN st.entry : st.entry[c].state = "ready"} |->
                     [prio |-> known.metas[b].prio, parent |-> known.metas[b].parent, ws |-> known.metas[b].ws]]
      <4>1. st.ready = [b \in {c \in DOMAIN st.entry : st.entry[c].state = "ready"} |->
                     [prio |-> st.metas[b].prio, parent |-> st.metas[b].parent, ws |-> st.metas[b].ws]]
        BY <1>6 DEF Sound, Fits
      <4>2. QED
        BY <3>2, <4>1
    <3>5. Fits(known)
      BY <1>1, <1>6, <3>4 DEF Sound, Fits
    <3>6. QED
      BY <1>1, <1>2, <1>3, <1>6, <3>1, <3>3, <3>5 DEF Sound
  <2>3. QED
    BY <2>1, <2>2
<1>7. QED
  BY <1>4, <1>5, <1>6

\* providerScheduler.removeAuthLocked.
LEMMA TakenSound ==
  ASSUME NEW st, Sound(st), NEW a
  PROVE  Sound(Taken(st, a)) /\ DOMAIN Taken(st, a).metas = DOMAIN st.metas \ {a}
<1> DEFINE r == WithoutEntry(st, a)
           left == Taken(st, a)
<1>1. /\ Fields(r) /\ r.metas = st.metas /\ r.built = st.built
      /\ DOMAIN r.entry = DOMAIN st.entry \ {a}
      /\ \A b \in DOMAIN r.entry : r.entry[b] = st.entry[b]
      /\ r.built => Fits(r)
  BY WithoutEntryFits DEF Sound
<1>2. left = [r EXCEPT !.metas = [b \in DOMAIN st.metas \ {a} |-> st.metas[b]]]
  BY DEF Taken
<1> HIDE DEF r, left
<1>3. /\ Fields(left) /\ left.built = r.built /\ left.entry = r.entry
      /\ left.ready = r.ready /\ left.blocked = r.blocked
      /\ left.metas = [b \in DOMAIN st.metas \ {a} |-> st.metas[b]]
  BY <1>1, <1>2 DEF Fields
<1>4. Known(left)
  <2>1. DOMAIN left.metas \subseteq Auths /\ \A b \in DOMAIN left.metas : left.metas[b] \in Snapshot
    BY <1>3 DEF Sound, Known
  <2>2. \A b \in DOMAIN left.entry : left.entry[b] \in Entries
    BY <1>1, <1>3 DEF Sound, Known
  <2>3. QED
    BY <2>1, <2>2 DEF Known
<1>5. ASSUME st.built PROVE Filed(left)
  BY <1>1, <1>3, <1>5 DEF Sound, Filed
<1>6. ASSUME st.built PROVE Fits(left)
  <2>1. \A b \in DOMAIN r.entry : left.metas[b] = r.metas[b]
    BY <1>1, <1>3, <1>6 DEF Sound, Filed
  <2>2. r.ready = [b \in {c \in DOMAIN r.entry : r.entry[c].state = "ready"} |->
                     [prio |-> r.metas[b].prio, parent |-> r.metas[b].parent, ws |-> r.metas[b].ws]]
    BY <1>1, <1>6 DEF Fits
  <2>3. r.ready = [b \in {c \in DOMAIN r.entry : r.entry[c].state = "ready"} |->
                     [prio |-> left.metas[b].prio, parent |-> left.metas[b].parent, ws |-> left.metas[b].ws]]
    BY <2>1, <2>2
  <2>4. r.blocked = {b \in DOMAIN r.entry : r.entry[b].state \in {"cooldown", "blocked"}}
    BY <1>1, <1>6 DEF Fits
  <2>5. QED
    BY <1>3, <2>3, <2>4 DEF Fits
<1>7. QED
  <2>1. Sound(left)
    BY <1>1, <1>3, <1>4, <1>5, <1>6 DEF Sound
  <2>2. QED
    BY <1>3, <2>1 DEF left

\* promoteExpiredLocked.
LEMMA PromotedSound ==
  ASSUME NEW st, Sound(st), st.built
  PROVE  Sound(Promoted(st)) /\ Promoted(st).metas = st.metas
<1> DEFINE due == {a \in st.blocked : st.entry[a].next <= 0}
           new == [st EXCEPT !.entry = [a \in DOMAIN @ |-> IF a \in due THEN Entry(st.metas[a]) ELSE @[a]]]
<1>1. Promoted(st) = IF due = {} THEN st ELSE Indexed(new)
  BY DEF Promoted
<1>2. /\ Fields(new) /\ new.metas = st.metas /\ new.built = st.built
      /\ new.entry = [a \in DOMAIN st.entry |-> IF a \in due THEN Entry(st.metas[a]) ELSE st.entry[a]]
  BY DEF Sound, Fields
<1>0. due \subseteq DOMAIN st.metas
  BY DEF Sound, Filed, Fits
<1> HIDE DEF due, new
<1>3. Known(new)
  <2>1. \A a \in due : Entry(st.metas[a]) \in Entries
    BY <1>0, EntryStates DEF Sound, Known
  <2>2. \A a \in DOMAIN new.entry : new.entry[a] \in Entries
    BY <1>2, <2>1 DEF Sound, Known
  <2>3. QED
    BY <1>2, <2>2 DEF Sound, Known
<1>4. Filed(new)
  BY <1>2, EntryStates DEF Sound, Filed, Known
<1>5. Sound(Indexed(new)) /\ Indexed(new).metas = st.metas
  BY <1>2, <1>3, <1>4, IndexedSound, IndexedFits
<1>6. QED
  BY <1>1, <1>5

\* ensureModelLocked, which builds the shard on its first use.
LEMMA EnsuredSound ==
  ASSUME NEW st, Sound(st)
  PROVE  Sound(Ensured(st)) /\ Ensured(st).metas = st.metas
<1> DEFINE new == [st EXCEPT !.built = TRUE,
                    !.entry = [a \in {b \in DOMAIN st.metas : st.metas[b].supports} |-> Entry(st.metas[a])]]
<1>1. Ensured(st) = IF st.built THEN Promoted(st) ELSE Indexed(new)
  BY DEF Ensured
<1>2. /\ Fields(new) /\ new.metas = st.metas /\ new.built = TRUE
      /\ new.entry = [a \in {b \in DOMAIN st.metas : st.metas[b].supports} |-> Entry(st.metas[a])]
  BY DEF Sound, Fields
<1> HIDE DEF new
<1>3. Known(new)
  BY <1>2, EntryStates DEF Sound, Known
<1>4. Filed(new)
  BY <1>2, EntryStates DEF Sound, Filed, Known
<1>5. Sound(Indexed(new)) /\ Indexed(new).metas = st.metas
  BY <1>2, <1>3, <1>4, IndexedSound, IndexedFits
<1>6. QED
  BY <1>1, <1>5, PromotedSound

\* A pick moves cursors and nothing else.
LEMMA CursorsSound ==
  ASSUME NEW st, Sound(st), NEW i, NEW c
  PROVE  Sound([st EXCEPT !.cursors[i] = c]) /\ [st EXCEPT !.cursors[i] = c].metas = st.metas
<1> DEFINE new == [st EXCEPT !.cursors[i] = c]
<1>1. /\ Fields(new) /\ new.metas = st.metas /\ new.built = st.built /\ new.entry = st.entry
      /\ new.ready = st.ready /\ new.blocked = st.blocked
  BY DEF Sound, Fields
<1> HIDE DEF new
<1>2. Sound(new)
  BY <1>1 DEF Sound, Known, Filed, Fits
<1>3. QED
  BY <1>1, <1>2 DEF new

\* A snapshot a tick later is a snapshot, of the same credential in the same
\* place, and it does not become blocked.
LEMMA AgedMetaKeeps ==
  ASSUME NEW s \in Snapshot
  PROVE  /\ AgedMeta(s) \in Snapshot /\ AgedMeta(s).supports = s.supports
         /\ AgedMeta(s).prio = s.prio /\ AgedMeta(s).parent = s.parent /\ AgedMeta(s).ws = s.ws
         /\ ~Blocked(s) => ~Blocked(AgedMeta(s))
<1>1. Down(s.retry) \in Nat /\ Down(s.recover) \in Nat /\ (s.retry = 0 => Down(s.retry) = 0)
  BY DEF Snapshot, Down
<1>2. AgedMeta(s) = [s EXCEPT !.retry = Down(s.retry), !.recover = Down(s.recover)]
  BY DEF AgedMeta, Snapshot
<1>3. /\ AgedMeta(s).supports = s.supports /\ AgedMeta(s).prio = s.prio
      /\ AgedMeta(s).parent = s.parent /\ AgedMeta(s).ws = s.ws /\ AgedMeta(s).off = s.off
      /\ AgedMeta(s).retry = Down(s.retry)
  BY <1>2 DEF Snapshot
<1>4. AgedMeta(s) \in Snapshot
  BY <1>1, <1>2 DEF Snapshot
<1>5. s.retry \in Nat /\ (~(s.retry > 0) => ~(Down(s.retry) > 0))
  BY <1>1 DEF Snapshot
<1>6. QED
  BY <1>3, <1>4, <1>5 DEF Blocked

\* Nor does an entry change its state with time.
LEMMA AgedEntryKeeps ==
  ASSUME NEW e \in Entries
  PROVE  AgedEntry(e) \in Entries /\ AgedEntry(e).state = e.state
BY DEF AgedEntry, Entries, Down

\* Time passes for the snapshots and the retry times, not for the index.
LEMMA AgedSound ==
  ASSUME NEW st, Sound(st)
  PROVE  /\ Sound(Aged(st)) /\ DOMAIN Aged(st).metas = DOMAIN st.metas
<1> DEFINE old == Aged(st)
<1>1. /\ Fields(old) /\ old.built = st.built /\ old.ready = st.ready /\ old.blocked = st.blocked
      /\ old.metas = [a \in DOMAIN st.metas |-> AgedMeta(st.metas[a])]
      /\ old.entry = [a \in DOMAIN st.entry |-> AgedEntry(st.entry[a])]
  BY DEF Sound, Fields, Aged
<1> HIDE DEF old
<1>2. \A a \in DOMAIN st.metas :
        /\ old.metas[a] \in Snapshot /\ old.metas[a].supports = st.metas[a].supports
        /\ old.metas[a].prio = st.metas[a].prio /\ old.metas[a].parent = st.metas[a].parent
        /\ old.metas[a].ws = st.metas[a].ws
        /\ ~Blocked(st.metas[a]) => ~Blocked(old.metas[a])
  BY <1>1, AgedMetaKeeps DEF Sound, Known
<1>3. \A a \in DOMAIN st.entry : old.entry[a] \in Entries /\ old.entry[a].state = st.entry[a].state
  BY <1>1, AgedEntryKeeps DEF Sound, Known
<1>4. Known(old)
  BY <1>1, <1>2, <1>3 DEF Sound, Known
<1>5. ASSUME st.built PROVE Filed(old) /\ Fits(old)
  <2>1. DOMAIN st.entry = {a \in DOMAIN st.metas : st.metas[a].supports}
    BY <1>5 DEF Sound, Filed
  <2>2. Filed(old)
    BY <1>1, <1>2, <1>3, <1>5, <2>1 DEF Sound, Filed
  <2>3. /\ {a \in DOMAIN old.entry : old.entry[a].state = "ready"} = {a \in DOMAIN st.entry : st.entry[a].state = "ready"}
        /\ {a \in DOMAIN old.entry : old.entry[a].state \in {"cooldown", "blocked"}}
             = {a \in DOMAIN st.entry : st.entry[a].state \in {"cooldown", "blocked"}}
    BY <1>1, <1>3
  <2>4. \A a \in DOMAIN st.entry :
           [prio |-> st.metas[a].prio, parent |-> st.metas[a].parent, ws |-> st.metas[a].ws]
         = [prio |-> old.metas[a].prio, parent |-> old.metas[a].parent, ws |-> old.metas[a].ws]
    BY <1>2, <2>1
  <2>5. st.ready = [a \in {b \in DOMAIN st.entry : st.entry[b].state = "ready"} |->
                     [prio |-> st.metas[a].prio, parent |-> st.metas[a].parent, ws |-> st.metas[a].ws]]
    BY <1>5 DEF Sound, Fits
  <2>6. st.ready = [a \in {b \in DOMAIN st.entry : st.entry[b].state = "ready"} |->
                     [prio |-> old.metas[a].prio, parent |-> old.metas[a].parent, ws |-> old.metas[a].ws]]
    BY <2>4, <2>5
  <2>7. st.blocked = {a \in DOMAIN st.entry : st.entry[a].state \in {"cooldown", "blocked"}}
    BY <1>5 DEF Sound, Fits
  <2>8. QED
    BY <1>1, <2>2, <2>3, <2>6, <2>7 DEF Fits
<1>6. QED
  <2>1. Sound(old)
    BY <1>1, <1>4, <1>5 DEF Sound
  <2>2. QED
    BY <1>1, <2>1 DEF old

-----------------------------------------------------------------------------
\* An entry is of a credential the shard knows.
LEMMA EntriesKnown ==
  ASSUME NEW st, Sound(st)
  PROVE  DOMAIN st.entry \subseteq DOMAIN st.metas
BY DEF Sound, Filed

\* Once the shards are sound, that their credentials are where owner says is
\* all there is to OneHome.
LEMMA SettledInv ==
  ASSUME DOMAIN shard' = Providers, \A p \in Providers : Sound(shard'[p]),
         owner' \in [Auths -> Providers \union {Nowhere}],
         \A a \in Auths, p \in Providers : (a \in DOMAIN shard'[p].metas) <=> (owner'[a] = p)
  PROVE  IInv'
<1>1. \A p \in Providers : DOMAIN shard'[p].entry \subseteq DOMAIN shard'[p].metas
  BY EntriesKnown
<1>2. OneHome'
  BY <1>1 DEF OneHome
<1>3. QED
  BY <1>2 DEF IInv

\* newAuthScheduler: nothing is filed, and no shard is built.
LEMMA InitInv == Init => IInv
<1> SUFFICES ASSUME Init PROVE IInv
  OBVIOUS
<1>1. Fields(EmptyShard) /\ EmptyShard.metas = Unset /\ EmptyShard.entry = Unset /\ EmptyShard.built = FALSE
  BY DEF EmptyShard, Fields
<1>2. DOMAIN Unset = {}
  BY DEF Unset
<1>3. Sound(EmptyShard)
  BY <1>1, <1>2 DEF Sound, Known
<1>4. \A p \in Providers : shard[p] = EmptyShard
  BY DEF Init
<1>5. Nowhere \notin Providers
  BY SchedulerAssumption DEF Nowhere
<1>6. QED
  BY <1>1, <1>2, <1>3, <1>4, <1>5 DEF Init, IInv, OneHome

\* A step that leaves every shard sound and keeps its credentials.
LEMMA KeptInv ==
  ASSUME IInv, DOMAIN shard' = Providers, owner' = owner,
         \A p \in Providers : Sound(shard'[p]) /\ DOMAIN shard'[p].metas = DOMAIN shard[p].metas
  PROVE  IInv'
<1>1. \A a \in Auths, p \in Providers : (a \in DOMAIN shard'[p].metas) <=> (owner'[a] = p)
  BY DEF IInv, OneHome
<1>2. QED
  BY <1>1, SettledInv DEF IInv

\* pickSingle builds or promotes one shard and moves its cursors.
LEMMA PickSingleInv ==
  ASSUME IInv, NEW p \in Providers, NEW ws, NEW tried, PickSingle(p, ws, tried)
  PROVE  IInv'
<1> DEFINE st == Ensured(shard[p])
           refused == OpenAt(st, tried) = {}
           i == PickPriority(st, ws, tried)
           c == PickAt(st, i, ws, fillFirst, tried).cursors
           new == IF refused THEN st ELSE [st EXCEPT !.cursors[i] = c]
<1>1. shard' = [shard EXCEPT ![p] = new] /\ owner' = owner
  BY DEF PickSingle
<1>2. Sound(st) /\ st.metas = shard[p].metas
  BY EnsuredSound DEF IInv
<1> HIDE DEF st, i, c
<1>3. Sound(new) /\ new.metas = shard[p].metas
  BY <1>2, CursorsSound
<1> HIDE DEF new
<1>4. /\ DOMAIN shard' = Providers
      /\ \A q \in Providers : Sound(shard'[q]) /\ DOMAIN shard'[q].metas = DOMAIN shard[q].metas
  BY <1>1, <1>3 DEF IInv
<1>5. QED
  BY <1>1, <1>4, KeptInv

\* pickMixed does so with every provider's shard, and moves the cursors of one.
LEMMA PickMixedInv ==
  ASSUME IInv, NEW tried, PickMixed(tried)
  PROVE  IInv'
<1> DEFINE sh == [p \in Providers |-> Ensured(shard[p])]
<1>1. \A p \in Providers : Sound(sh[p]) /\ sh[p].metas = shard[p].metas
  BY EnsuredSound DEF IInv
<1>2. PICK p, i, c : shard' = sh \/ shard' = [sh EXCEPT ![p].cursors[i] = c]
  BY DEF PickMixed
<1>3. owner' = owner
  BY DEF PickMixed
<1>4. DOMAIN sh = Providers
  OBVIOUS
<1> HIDE DEF sh
<1>5. CASE shard' = sh
  BY <1>1, <1>3, <1>4, <1>5, KeptInv
<1>6. CASE shard' = [sh EXCEPT ![p].cursors[i] = c]
  <2>1. DOMAIN shard' = Providers
    BY <1>4, <1>6
  <2>2. ASSUME NEW q \in Providers
        PROVE  Sound(shard'[q]) /\ shard'[q].metas = shard[q].metas
    <3>1. shard'[q] = IF q = p THEN [sh[q] EXCEPT !.cursors[i] = c] ELSE sh[q]
      BY <1>4, <1>6
    <3>2. Sound([sh[q] EXCEPT !.cursors[i] = c]) /\ [sh[q] EXCEPT !.cursors[i] = c].metas = sh[q].metas
      <4>1. Sound(sh[q])
        BY <1>1
      <4>2. QED
        BY <4>1, CursorsSound
    <3>3. QED
      BY <1>1, <3>1, <3>2
  <2>3. QED
    BY <1>3, <2>1, <2>2, KeptInv
<1>7. QED
  BY <1>2, <1>5, <1>6

\* upsertAuth: the credential leaves its old provider, then enters the new one.
LEMMA UpsertInv ==
  ASSUME IInv, NEW a \in Auths, NEW p \in Providers, NEW s \in Snapshot, Upsert(a, p, s)
  PROVE  IInv'
<1> DEFINE home == IF owner[a] \in {Nowhere, p} THEN shard ELSE LeftPrevious(a)
           new == Given(home[p], a, s)
<1>1. shard' = [home EXCEPT ![p] = new] /\ owner' = [owner EXCEPT ![a] = p]
  BY DEF Upsert
<1>2. Nowhere \notin Providers
  BY SchedulerAssumption DEF Nowhere
<1>3. DOMAIN home = Providers
  BY DEF IInv, LeftPrevious
<1>4. \A q \in Providers : /\ Sound(home[q])
                           /\ DOMAIN home[q].metas = IF q = p THEN DOMAIN shard[q].metas
                                                     ELSE DOMAIN shard[q].metas \ {a}
  <2>1. CASE owner[a] \in {Nowhere, p}
    <3>1. home = shard
      BY <2>1
    <3>2. \A q \in Providers : q # p => a \notin DOMAIN shard[q].metas
      BY <1>2, <2>1 DEF IInv, OneHome
    <3>3. \A q \in Providers : Sound(shard[q])
      BY DEF IInv
    <3> HIDE DEF home
    <3>4. QED
      BY <3>1, <3>2, <3>3
  <2>2. CASE owner[a] \notin {Nowhere, p}
    <3>1. \A q \in Providers : home[q] = IF q = owner[a] THEN Taken(shard[q], a) ELSE shard[q]
      BY <2>2 DEF LeftPrevious
    <3>2. \A q \in Providers : Sound(Taken(shard[q], a)) /\ DOMAIN Taken(shard[q], a).metas = DOMAIN shard[q].metas \ {a}
      BY TakenSound DEF IInv
    <3>3. \A q \in Providers : Sound(shard[q]) /\ (q # owner[a] => a \notin DOMAIN shard[q].metas)
      BY DEF IInv, OneHome
    <3> HIDE DEF home
    <3>4. p # owner[a]
      BY <2>2
    <3>5. QED
      BY <3>1, <3>2, <3>3, <3>4
  <2>3. QED
    BY <2>1, <2>2
<1> HIDE DEF home
<1>5. Sound(new) /\ DOMAIN new.metas = DOMAIN shard[p].metas \union {a}
  BY <1>4, GivenSound
<1> HIDE DEF new
<1>6. \A q \in Providers : /\ Sound(shard'[q])
                           /\ DOMAIN shard'[q].metas = IF q = p THEN DOMAIN shard[q].metas \union {a}
                                                       ELSE DOMAIN shard[q].metas \ {a}
  BY <1>1, <1>3, <1>4, <1>5
<1>7. owner' \in [Auths -> Providers \union {Nowhere}] /\ DOMAIN shard' = Providers
  BY <1>1, <1>3 DEF IInv
<1>8. \A b \in Auths : owner'[b] = IF b = a THEN p ELSE owner[b]
  BY <1>1 DEF IInv
<1>9. \A b \in Auths, q \in Providers : (b \in DOMAIN shard'[q].metas) <=> (owner'[b] = q)
  <2>1. \A b \in Auths, q \in Providers : (b \in DOMAIN shard[q].metas) <=> (owner[b] = q)
    BY DEF IInv, OneHome
  <2>2. ASSUME NEW b \in Auths, NEW q \in Providers
        PROVE  (b \in DOMAIN shard'[q].metas) <=> (owner'[b] = q)
    <3>1. CASE b = a
      BY <1>6, <1>8, <3>1
    <3>2. CASE b # a
      <4>1. (b \in DOMAIN shard'[q].metas) <=> (b \in DOMAIN shard[q].metas)
        BY <1>6, <3>2
      <4>2. QED
        BY <1>8, <2>1, <3>2, <4>1
    <3>3. QED
      BY <3>1, <3>2
  <2>3. QED
    BY <2>2
<1>10. QED
  BY <1>6, <1>7, <1>9, SettledInv

\* removeAuth, and upsertAuth of a disabled credential.
LEMMA RemoveInv ==
  ASSUME IInv, NEW a \in Auths, Remove(a)
  PROVE  IInv'
<1> DEFINE p == owner[a]
<1>1. p \in Providers /\ shard' = [shard EXCEPT ![p] = Taken(shard[p], a)] /\ owner' = [owner EXCEPT ![a] = Nowhere]
  BY DEF IInv, Remove
<1>2. Nowhere \notin Providers
  BY SchedulerAssumption DEF Nowhere
<1>3. Sound(Taken(shard[p], a)) /\ DOMAIN Taken(shard[p], a).metas = DOMAIN shard[p].metas \ {a}
  BY <1>1, TakenSound DEF IInv
<1>4. \A q \in Providers : /\ Sound(shard'[q])
                           /\ DOMAIN shard'[q].metas = DOMAIN shard[q].metas \ {a}
  <2>1. ASSUME NEW q \in Providers, q # p
        PROVE  a \notin DOMAIN shard[q].metas
    BY <2>1 DEF IInv, OneHome
  <2>2. \A q \in Providers : shard'[q] = IF q = p THEN Taken(shard[p], a) ELSE shard[q]
    BY <1>1 DEF IInv
  <2>3. \A q \in Providers : Sound(shard[q])
    BY DEF IInv
  <2> HIDE DEF p
  <2>4. QED
    BY <1>3, <2>1, <2>2, <2>3
<1>5. owner' \in [Auths -> Providers \union {Nowhere}] /\ DOMAIN shard' = Providers
  BY <1>1 DEF IInv
<1>6. \A b \in Auths : owner'[b] = IF b = a THEN Nowhere ELSE owner[b]
  BY <1>1 DEF IInv
<1>7. \A b \in Auths, q \in Providers : (b \in DOMAIN shard'[q].metas) <=> (owner'[b] = q)
  BY <1>2, <1>4, <1>6 DEF IInv, OneHome
<1>8. QED
  BY <1>4, <1>5, <1>7, SettledInv

\* rebuild keeps the snapshots and drops what was built from them.
LEMMA RebuildInv ==
  ASSUME IInv, Rebuild
  PROVE  IInv'
<1>1. /\ DOMAIN shard' = Providers /\ owner' = owner
      /\ \A p \in Providers : shard'[p] = [EmptyShard EXCEPT !.metas = shard[p].metas]
  BY DEF Rebuild
<1>2. ASSUME NEW p \in Providers
      PROVE  Sound(shard'[p]) /\ shard'[p].metas = shard[p].metas
  <2>1. Sound(shard[p])
    BY DEF IInv
  <2>2. /\ Fields(shard'[p]) /\ shard'[p].metas = shard[p].metas
        /\ shard'[p].built = FALSE /\ shard'[p].entry = Unset
    BY <1>1 DEF EmptyShard, Fields
  <2>3. DOMAIN Unset = {}
    BY DEF Unset
  <2>4. Sound(shard'[p])
    BY <2>1, <2>2, <2>3 DEF Sound, Known
  <2>5. QED
    BY <2>2, <2>4
<1>3. QED
  BY <1>1, <1>2, KeptInv

\* Time passing.
LEMMA TickInv ==
  ASSUME IInv, Tick
  PROVE  IInv'
<1>1. /\ DOMAIN shard' = Providers /\ owner' = owner
      /\ \A p \in Providers : shard'[p] = Aged(shard[p])
  BY DEF Tick
<1>2. \A p \in Providers : Sound(shard'[p]) /\ DOMAIN shard'[p].metas = DOMAIN shard[p].metas
  BY <1>1, AgedSound DEF IInv
<1>3. QED
  BY <1>1, <1>2, KeptInv

\* Every step of the scheduler keeps the inductive invariant.
LEMMA StepInv == IInv /\ [Next]_vars => IInv'
<1> SUFFICES ASSUME IInv, [Next]_vars PROVE IInv'
  OBVIOUS
<1>1. ASSUME NEW p \in Providers, NEW ws \in Websockets, NEW tried \in TriedSets, PickSingle(p, ws, tried)
      PROVE  IInv'
  BY <1>1, PickSingleInv
<1>2. ASSUME NEW tried \in TriedSets, PickMixed(tried)
      PROVE  IInv'
  BY <1>2, PickMixedInv
<1>3. ASSUME NEW a \in Auths, NEW p \in Providers, NEW s \in Snapshots, Upsert(a, p, s)
      PROVE  IInv'
  BY <1>3, UpsertInv, SchedulerAssumption
<1>4. ASSUME NEW a \in Auths, Remove(a)
      PROVE  IInv'
  BY <1>4, RemoveInv
<1>5. CASE Rebuild
  BY <1>5, RebuildInv
<1>6. ASSUME NEW f \in Strategies, SetSelector(f)
      PROVE  IInv'
  BY <1>6 DEF SetSelector, IInv, OneHome
<1>7. CASE Tick
  BY <1>7, TickInv
<1>8. CASE UNCHANGED vars
  BY <1>8 DEF vars, IInv, OneHome
<1>9. QED
  BY <1>1, <1>2, <1>3, <1>4, <1>5, <1>6, <1>7, <1>8 DEF Next

\* The inductive invariant holds of every run.
LEMMA Inductive == Spec => []IInv
BY InitInv, StepInv, PTL DEF Spec

\* upsertAuth and removeAuth: a credential is never filed under two providers,
\* nor under one that authProviders does not name, whatever came before.
THEOREM HasOneHome == Spec => []OneHome
<1>1. IInv => OneHome
  BY DEF IInv
<1>2. QED
  BY <1>1, Inductive, PTL

\* upsertEntryLocked, removeEntryLocked, promoteExpiredLocked: the index they
\* keep by increments is the one the snapshots would give.
THEOREM IndexIsExact == Spec => []IndexExact
<1>1. ASSUME NEW st, Sound(st), st.built
      PROVE  /\ DOMAIN st.entry = {a \in DOMAIN st.metas : st.metas[a].supports}
             /\ DOMAIN st.ready = {a \in DOMAIN st.entry : st.entry[a].state = "ready"}
             /\ st.blocked = {a \in DOMAIN st.entry : st.entry[a].state \in {"cooldown", "blocked"}}
             /\ \A a \in DOMAIN st.ready :
                   /\ ~Blocked(st.metas[a])
                   /\ st.ready[a] = [prio |-> st.metas[a].prio, parent |-> st.metas[a].parent, ws |-> st.metas[a].ws]
  BY <1>1 DEF Sound, Filed, Fits
<1>2. IInv => IndexExact
  BY <1>1 DEF IInv, IndexExact
<1>3. QED
  BY <1>2, Inductive, PTL

-----------------------------------------------------------------------------
(* What picks rest on: among finitely many candidates one is first.        *)
LEMMA FiniteMin ==
  ASSUME NEW S, IsFiniteSet(S), S # {}, NEW f, \A x \in S : f[x] \in Int
  PROVE  \E x \in S : \A y \in S : f[x] <= f[y]
<1> DEFINE U(x) == {y \in S : f[y] < f[x]}
           T == {U(x) : x \in S}
<1>1. IsWellFoundedOn(StrictSubsetOrdering(S), SUBSET S)
  BY FS_StrictSubsetOrderingWellFounded, FS_FiniteSubsetsOfFinite
<1>2. T \subseteq SUBSET S /\ T # {}
  OBVIOUS
<1> HIDE DEF T
<1>3. PICK A \in T : \A B \in T : <<B, A>> \notin StrictSubsetOrdering(S)
  BY <1>1, <1>2, WFMin
<1>4. PICK x \in S : A = U(x)
  BY <1>3 DEF T
<1>5. ASSUME NEW y \in S, ~(f[x] <= f[y])
      PROVE  FALSE
  <2>1. f[y] < f[x]
    BY <1>5
  <2>2. U(y) \in T
    BY DEF T
  <2>3. U(y) \subseteq U(x) /\ y \in U(x) /\ y \notin U(y)
    BY <2>1
  <2>4. <<U(y), U(x)>> \in StrictSubsetOrdering(S)
    BY <2>3 DEF StrictSubsetOrdering
  <2>5. QED
    BY <1>3, <1>4, <2>2, <2>4
<1>6. QED
  BY <1>5

\* and one is last.
LEMMA FiniteMax ==
  ASSUME NEW S, IsFiniteSet(S), S # {}, NEW f, \A x \in S : f[x] \in Int
  PROVE  \E x \in S : \A y \in S : f[y] <= f[x]
<1> DEFINE g == [x \in S |-> 0 - f[x]]
<1>1. \A x \in S : g[x] = 0 - f[x] /\ g[x] \in Int
  OBVIOUS
<1> HIDE DEF g
<1>2. PICK x \in S : \A y \in S : g[x] <= g[y]
  BY <1>1, FiniteMin
<1>3. QED
  BY <1>1, <1>2

\* The views of a bucket are finite.
LEMMA ViewsFinite ==
  ASSUME NEW st, Known(st), DOMAIN st.entry \subseteq DOMAIN st.metas, Fits(st), NEW i, NEW g
  PROVE  /\ Bucket(st, i) \subseteq Auths /\ IsFiniteSet(Bucket(st, i))
         /\ IsFiniteSet(WsBucket(st, i)) /\ IsFiniteSet(Group(st, i, g))
         /\ WsBucket(st, i) \subseteq Bucket(st, i) /\ Group(st, i, g) \subseteq Bucket(st, i)
         /\ Groups(st, i) \subseteq Parents \union {NoParent} /\ IsFiniteSet(Groups(st, i))
<1>1. DOMAIN st.ready \subseteq Auths
  BY DEF Known, Fits
<1>2. Bucket(st, i) \subseteq Auths
  BY <1>1 DEF Bucket
<1>3. WsBucket(st, i) \subseteq Bucket(st, i) /\ Group(st, i, g) \subseteq Bucket(st, i)
  BY DEF WsBucket, Group
<1>4. IsFiniteSet(Bucket(st, i)) /\ IsFiniteSet(WsBucket(st, i)) /\ IsFiniteSet(Group(st, i, g))
  BY <1>2, <1>3, SchedulerAssumption, FS_Subset
<1>5. \A a \in DOMAIN st.ready : st.ready[a].parent \in Parents \union {NoParent}
  <2>1. \A a \in DOMAIN st.ready : st.ready[a].parent = st.metas[a].parent /\ st.metas[a] \in Snapshot
    BY DEF Known, Fits
  <2>2. QED
    BY <2>1 DEF Snapshot
<1>6. Groups(st, i) \subseteq Parents \union {NoParent}
  BY <1>5 DEF Groups, Bucket
<1>7. IsFiniteSet(Parents \union {NoParent})
  BY SchedulerAssumption, FS_AddElement
<1>8. QED
  BY <1>2, <1>3, <1>4, <1>6, <1>7, FS_Subset

\* normalizeCursor.
LEMMA NormalizedType ==
  ASSUME NEW c \in Nat, NEW S, IsFiniteSet(S)
  PROVE  Normalized(c, Cardinality(S)) \in Nat
<1>1. Cardinality(S) \in Nat
  BY FS_CardinalityType
<1>2. PICK n \in Nat : n = Cardinality(S)
  BY <1>1
<1>3. Normalized(c, n) \in Nat
  BY DEF Normalized
<1>4. QED
  BY <1>2, <1>3

CursorsOK(st) == st.cursors \in [Priorities -> Cursors]

\* rebuildIndexesLocked leaves cursors that are counts.
LEMMA IndexedCursors ==
  ASSUME NEW st, Fields(st), Known(st), DOMAIN st.entry \subseteq DOMAIN st.metas, CursorsOK(st)
  PROVE  CursorsOK(Indexed(st))
<1> DEFINE inState(s) == {a \in DOMAIN st.entry : st.entry[a].state = s}
           new == [st EXCEPT !.ready = [a \in inState("ready") |->
                             [prio |-> st.metas[a].prio, parent |-> st.metas[a].parent,
                              ws |-> st.metas[a].ws]],
                          !.blocked = inState("cooldown") \union inState("blocked")]
           old(i) == IF Bucket(st, i) = {} THEN NoCursors ELSE st.cursors[i]
           grouped(i) == Grouped(new, i)
           restored(i) ==
                [flat   |-> Normalized(old(i).flat, Cardinality(Bucket(new, i))),
                ws     |-> Normalized(old(i).ws, Cardinality(WsBucket(new, i))),
                parent |-> IF grouped(i) THEN Normalized(old(i).parent, Cardinality(Groups(new, i))) ELSE 0,
                child  |-> [g \in Parents |->
                               IF grouped(i) THEN Normalized(old(i).child[g], Cardinality(Group(new, i, g)))
                               ELSE 0]]
           cur == [i \in Priorities |-> restored(i)]
<1>1. Indexed(st) = [new EXCEPT !.cursors = cur]
  BY DEF Indexed
<1>2. /\ Fields(new) /\ new.metas = st.metas /\ new.entry = st.entry
      /\ new.ready = [a \in inState("ready") |->
                             [prio |-> st.metas[a].prio, parent |-> st.metas[a].parent,
                              ws |-> st.metas[a].ws]]
      /\ new.blocked = inState("cooldown") \union inState("blocked")
  BY DEF Fields
<1>3. Indexed(st).cursors = cur
  BY <1>1, <1>2 DEF Fields
<1> HIDE DEF new
<1>4. Known(new) /\ DOMAIN new.entry \subseteq DOMAIN new.metas /\ Fits(new)
  BY <1>2 DEF Known, Fits
<1>5. ASSUME NEW i \in Priorities
      PROVE  restored(i) \in Cursors
  <2>1. NoCursors \in Cursors
    BY DEF NoCursors, Cursors
  <2>2. old(i) \in Cursors
    BY <2>1 DEF CursorsOK
  <2>3. PICK c \in Cursors : c = old(i)
    BY <2>2
  <2>4. c.flat \in Nat /\ c.ws \in Nat /\ c.parent \in Nat /\ \A g \in Parents : c.child[g] \in Nat
    BY DEF Cursors
  <2>5. /\ IsFiniteSet(Bucket(new, i)) /\ IsFiniteSet(WsBucket(new, i))
        /\ IsFiniteSet(Groups(new, i)) /\ \A g \in Parents : IsFiniteSet(Group(new, i, g))
    BY <1>4, ViewsFinite
  <2>6. Normalized(c.flat, Cardinality(Bucket(new, i))) \in Nat
    BY <2>4, <2>5, NormalizedType
  <2>7. Normalized(c.ws, Cardinality(WsBucket(new, i))) \in Nat
    BY <2>4, <2>5, NormalizedType
  <2>8. Normalized(c.parent, Cardinality(Groups(new, i))) \in Nat
    BY <2>4, <2>5, NormalizedType
  <2>9. \A g \in Parents : Normalized(c.child[g], Cardinality(Group(new, i, g))) \in Nat
    BY <2>4, <2>5, NormalizedType
  <2> DEFINE kids == [g \in Parents |-> IF grouped(i) THEN Normalized(c.child[g], Cardinality(Group(new, i, g))) ELSE 0]
  <2>10. kids \in [Parents -> Nat]
    BY <2>9
  <2>11. (IF grouped(i) THEN Normalized(c.parent, Cardinality(Groups(new, i))) ELSE 0) \in Nat
    BY <2>8
  <2>12. restored(i) = [flat |-> Normalized(c.flat, Cardinality(Bucket(new, i))),
                        ws |-> Normalized(c.ws, Cardinality(WsBucket(new, i))),
                        parent |-> IF grouped(i) THEN Normalized(c.parent, Cardinality(Groups(new, i))) ELSE 0,
                        child |-> kids]
    BY <2>3
  <2> HIDE DEF kids, grouped, restored, old
  <2>13. QED
    BY <2>6, <2>7, <2>10, <2>11, <2>12 DEF Cursors
<1> HIDE DEF restored
<1>6. cur \in [Priorities -> Cursors]
  BY <1>5
<1>7. QED
  BY <1>3, <1>6 DEF CursorsOK

-----------------------------------------------------------------------------
\* Of a credential that is held back the code waits for its quota's recovery
\* no longer than for its retry time.
Recovers(s) == s.retry > 0 => s.recover <= s.retry

\* What an entry says: what its snapshot gives, or that its time is up.
Tells(e, s) == \/ e = Entry(s)
               \/ ~s.off /\ e = [state |-> IF s.exceeded THEN "cooldown" ELSE "blocked", next |-> 0]

Steady(st) == /\ \A a \in DOMAIN st.metas : Recovers(st.metas[a])
              /\ \A a \in DOMAIN st.entry : Tells(st.entry[a], st.metas[a])
              /\ CursorsOK(st)

\* Rebuilding the index leaves the entries alone.
LEMMA IndexedSteady ==
  ASSUME NEW st, Fields(st), Known(st), DOMAIN st.entry \subseteq DOMAIN st.metas, Steady(st)
  PROVE  Steady(Indexed(st))
BY IndexedFits, IndexedCursors DEF Steady

\* upsertEntryLocked.
LEMMA WithEntrySteady ==
  ASSUME NEW st, Sound(st), st.built, Steady(st),
         NEW a \in Auths, NEW s \in Snapshot, s.supports, Recovers(s)
  PROVE  Steady(WithEntry(st, a, s))
<1> DEFINE new == [st EXCEPT !.metas = [b \in DOMAIN st.metas \union {a} |-> IF b = a THEN s ELSE st.metas[b]],
                             !.entry = [b \in DOMAIN st.entry \union {a} |-> IF b = a THEN Entry(s) ELSE st.entry[b]]]
<1>1. /\ Fields(new) /\ new.built = st.built /\ new.cursors = st.cursors
      /\ new.metas = [b \in DOMAIN st.metas \union {a} |-> IF b = a THEN s ELSE st.metas[b]]
      /\ new.entry = [b \in DOMAIN st.entry \union {a} |-> IF b = a THEN Entry(s) ELSE st.entry[b]]
  BY DEF Sound, Fields
<1>2. WithEntry(st, a, s) \in {new, Indexed(new)}
  BY DEF WithEntry
<1> HIDE DEF new
<1>3. Known(new)
  BY <1>1, EntryStates DEF Sound, Known
<1>4. DOMAIN new.entry \subseteq DOMAIN new.metas
  BY <1>1 DEF Sound, Filed
<1>5. \A b \in DOMAIN new.metas : Recovers(new.metas[b])
  BY <1>1 DEF Steady
<1>6. \A b \in DOMAIN new.entry : Tells(new.entry[b], new.metas[b])
  <2>1. DOMAIN st.entry \subseteq DOMAIN st.metas
    BY DEF Sound, Filed
  <2>2. ASSUME NEW b \in DOMAIN new.entry, b = a PROVE Tells(new.entry[b], new.metas[b])
    BY <1>1, <2>2 DEF Tells
  <2>3. ASSUME NEW b \in DOMAIN new.entry, b # a PROVE Tells(new.entry[b], new.metas[b])
    <3>1. b \in DOMAIN st.entry /\ new.entry[b] = st.entry[b] /\ new.metas[b] = st.metas[b]
      BY <1>1, <2>1, <2>3
    <3>2. QED
      BY <3>1 DEF Steady
  <2>4. QED
    BY <2>2, <2>3
<1>7. Steady(new)
  BY <1>1, <1>5, <1>6 DEF Steady, CursorsOK
<1>8. QED
  BY <1>1, <1>2, <1>3, <1>4, <1>7, IndexedSteady

\* removeEntryLocked.
LEMMA WithoutEntrySteady ==
  ASSUME NEW st, Fields(st), Known(st), DOMAIN st.entry \subseteq DOMAIN st.metas, NEW a, Steady(st)
  PROVE  Steady(WithoutEntry(st, a))
<1> DEFINE cut == [st EXCEPT !.entry = [b \in DOMAIN st.entry \ {a} |-> st.entry[b]]]
<1>1. /\ Fields(cut) /\ cut.metas = st.metas /\ cut.cursors = st.cursors
      /\ cut.entry = [b \in DOMAIN st.entry \ {a} |-> st.entry[b]]
  BY DEF Fields
<1>2. WithoutEntry(st, a) \in {st, Indexed(cut)}
  BY DEF WithoutEntry
<1> HIDE DEF cut
<1>3. Known(cut) /\ DOMAIN cut.entry \subseteq DOMAIN cut.metas
  BY <1>1 DEF Known
<1>4. Steady(cut)
  BY <1>1 DEF Steady, CursorsOK
<1>5. QED
  BY <1>1, <1>2, <1>3, <1>4, IndexedSteady

\* providerScheduler.upsertAuthLocked.
LEMMA GivenSteady ==
  ASSUME NEW st, Sound(st), Steady(st), NEW a \in Auths, NEW s \in Snapshot, Recovers(s)
  PROVE  Steady(Given(st, a, s))
<1> DEFINE known == [st EXCEPT !.metas = [b \in DOMAIN st.metas \union {a} |-> IF b = a THEN s ELSE st.metas[b]]]
           lost == WithoutEntry(known, a)
<1>1. /\ Fields(known) /\ known.built = st.built /\ known.entry = st.entry /\ known.cursors = st.cursors
      /\ known.metas = [b \in DOMAIN st.metas \union {a} |-> IF b = a THEN s ELSE st.metas[b]]
  BY DEF Sound, Fields
<1>2. Given(st, a, s) = IF ~st.built THEN known ELSE IF s.supports THEN WithEntry(st, a, s) ELSE lost
  BY DEF Given
<1> HIDE DEF known
<1>3. Known(known) /\ DOMAIN known.entry \subseteq DOMAIN known.metas
  BY <1>1 DEF Sound, Known, Filed
<1>4. CASE ~st.built
  <2>1. DOMAIN known.entry = {}
    BY <1>1, <1>4 DEF Sound
  <2>2. Steady(known)
    BY <1>1, <2>1 DEF Steady, CursorsOK
  <2>3. QED
    BY <1>2, <1>4, <2>2
<1>5. CASE st.built /\ s.supports
  BY <1>2, <1>5, WithEntrySteady
<1>6. CASE st.built /\ ~s.supports
  <2> DEFINE cut == [known EXCEPT !.entry = [b \in DOMAIN known.entry \ {a} |-> known.entry[b]]]
  <2>1. /\ Fields(cut) /\ cut.metas = known.metas /\ cut.cursors = st.cursors
        /\ cut.entry = [b \in DOMAIN st.entry \ {a} |-> st.entry[b]]
    BY <1>1 DEF Fields
  <2>2. lost = IF a \notin DOMAIN st.entry THEN known ELSE Indexed(cut)
    BY <1>1 DEF WithoutEntry
  <2> HIDE DEF cut, lost
  <2>3. DOMAIN st.entry \subseteq DOMAIN st.metas
    BY DEF Sound, Filed
  <2>4. ASSUME NEW b \in DOMAIN st.entry \ {a}
        PROVE  Tells(st.entry[b], known.metas[b])
    <3>1. known.metas[b] = st.metas[b]
      BY <1>1, <2>3
    <3>2. QED
      BY <3>1 DEF Steady
  <2>5. \A b \in DOMAIN known.metas : Recovers(known.metas[b])
    BY <1>1 DEF Steady
  <2>6. CASE a \notin DOMAIN st.entry
    <3>1. Steady(known)
      BY <1>1, <2>4, <2>5, <2>6 DEF Steady, CursorsOK
    <3>2. QED
      BY <1>2, <1>6, <2>2, <2>6, <3>1
  <2>7. CASE a \in DOMAIN st.entry
    <3>1. Steady(cut)
      BY <1>1, <2>1, <2>4, <2>5 DEF Steady, CursorsOK
    <3>2. Known(cut) /\ DOMAIN cut.entry \subseteq DOMAIN cut.metas
      BY <1>1, <1>3, <2>1 DEF Known
    <3>3. Steady(Indexed(cut))
      BY <2>1, <3>1, <3>2, IndexedSteady
    <3>4. QED
      BY <1>2, <1>6, <2>2, <2>7, <3>3
  <2>8. QED
    BY <2>6, <2>7
<1>7. QED
  BY <1>4, <1>5, <1>6

\* providerScheduler.removeAuthLocked.
LEMMA TakenSteady ==
  ASSUME NEW st, Sound(st), Steady(st), NEW a
  PROVE  Steady(Taken(st, a))
<1> DEFINE r == WithoutEntry(st, a)
           left == Taken(st, a)
<1>1. /\ Fields(r) /\ r.metas = st.metas
      /\ DOMAIN r.entry = DOMAIN st.entry \ {a}
  BY WithoutEntryFits DEF Sound
<1>2. left = [r EXCEPT !.metas = [b \in DOMAIN st.metas \ {a} |-> st.metas[b]]]
  BY DEF Taken
<1>3. DOMAIN st.entry \subseteq DOMAIN st.metas
  BY DEF Sound, Filed
<1>4. Steady(r)
  BY <1>3, WithoutEntrySteady DEF Sound
<1> HIDE DEF r, left
<1>5. /\ left.entry = r.entry /\ left.cursors = r.cursors
      /\ left.metas = [b \in DOMAIN st.metas \ {a} |-> st.metas[b]]
  BY <1>1, <1>2 DEF Fields
<1>6. Steady(left)
  BY <1>1, <1>3, <1>4, <1>5 DEF Steady, CursorsOK
<1>7. QED
  BY <1>6 DEF left

\* promoteExpiredLocked looks again at every entry whose time is up, which is
\* how every entry comes to say what its snapshot gives.
LEMMA PromotedCurrent ==
  ASSUME NEW st, Sound(st), st.built, Steady(st)
  PROVE  /\ Steady(Promoted(st))
         /\ \A a \in DOMAIN Promoted(st).entry : Promoted(st).entry[a] = Entry(Promoted(st).metas[a])
<1> DEFINE due == {a \in st.blocked : st.entry[a].next <= 0}
           new == [st EXCEPT !.entry = [a \in DOMAIN @ |-> IF a \in due THEN Entry(st.metas[a]) ELSE @[a]]]
<1>1. Promoted(st) = IF due = {} THEN st ELSE Indexed(new)
  BY DEF Promoted
<1>2. /\ Fields(new) /\ new.metas = st.metas /\ new.cursors = st.cursors
      /\ new.entry = [a \in DOMAIN st.entry |-> IF a \in due THEN Entry(st.metas[a]) ELSE st.entry[a]]
  BY DEF Sound, Fields
<1>3. ASSUME NEW a \in DOMAIN st.entry, a \notin due
      PROVE  st.entry[a] = Entry(st.metas[a])
  <2>1. SUFFICES ASSUME st.entry[a] # Entry(st.metas[a]) PROVE FALSE
    OBVIOUS
  <2>2. Tells(st.entry[a], st.metas[a])
    BY DEF Steady
  <2>3. st.entry[a].next = 0 /\ st.entry[a].state \in {"cooldown", "blocked"}
    BY <2>1, <2>2 DEF Tells
  <2>4. a \in st.blocked
    BY <2>3 DEF Sound, Fits
  <2>5. QED
    BY <1>3, <2>3, <2>4
<1>4. due \subseteq DOMAIN st.entry
  BY DEF Sound, Fits
<1>5. DOMAIN st.entry \subseteq DOMAIN st.metas
  BY DEF Sound, Filed
<1> HIDE DEF due, new
<1>6. \A a \in DOMAIN st.entry : new.entry[a] = Entry(new.metas[a])
  BY <1>2, <1>3
<1>7. Steady(new)
  BY <1>2, <1>6 DEF Steady, Tells, CursorsOK
<1>8. Known(new) /\ DOMAIN new.entry \subseteq DOMAIN new.metas
  <2>1. \A a \in DOMAIN st.entry : Entry(st.metas[a]) \in Entries
    BY <1>5, EntryStates DEF Sound, Known
  <2>2. QED
    BY <1>2, <1>5, <2>1 DEF Sound, Known
<1>9. Steady(Indexed(new)) /\ Indexed(new).entry = new.entry /\ Indexed(new).metas = new.metas
  BY <1>2, <1>7, <1>8, IndexedSteady, IndexedFits
<1>10. CASE due = {}
  BY <1>1, <1>3, <1>10
<1>11. CASE due # {}
  BY <1>1, <1>2, <1>6, <1>9, <1>11
<1>12. QED
  BY <1>10, <1>11

\* ensureModelLocked.
LEMMA EnsuredCurrent ==
  ASSUME NEW st, Sound(st), Steady(st)
  PROVE  /\ Steady(Ensured(st)) /\ Ensured(st).built
         /\ \A a \in DOMAIN Ensured(st).entry : Ensured(st).entry[a] = Entry(Ensured(st).metas[a])
<1> DEFINE new == [st EXCEPT !.built = TRUE,
                    !.entry = [a \in {b \in DOMAIN st.metas : st.metas[b].supports} |-> Entry(st.metas[a])]]
<1>1. Ensured(st) = IF st.built THEN Promoted(st) ELSE Indexed(new)
  BY DEF Ensured
<1>2. /\ Fields(new) /\ new.metas = st.metas /\ new.built = TRUE /\ new.cursors = st.cursors
      /\ new.entry = [a \in {b \in DOMAIN st.metas : st.metas[b].supports} |-> Entry(st.metas[a])]
  BY DEF Sound, Fields
<1> HIDE DEF new
<1>3. Known(new) /\ DOMAIN new.entry \subseteq DOMAIN new.metas
  BY <1>2, EntryStates DEF Sound, Known
<1>4. \A a \in DOMAIN new.entry : new.entry[a] = Entry(new.metas[a])
  BY <1>2
<1>5. Steady(new)
  BY <1>2, <1>4 DEF Steady, Tells, CursorsOK
<1>6. /\ Steady(Indexed(new)) /\ Indexed(new).built = TRUE
      /\ Indexed(new).entry = new.entry /\ Indexed(new).metas = new.metas
  BY <1>2, <1>3, <1>5, IndexedSteady, IndexedFits
<1>7. CASE st.built
  <2>1. Promoted(st).built
    <3> DEFINE later == [st EXCEPT !.entry = [a \in DOMAIN @ |-> IF a \in {b \in st.blocked : st.entry[b].next <= 0}
                                                                 THEN Entry(st.metas[a]) ELSE @[a]]]
    <3>1. Fields(later) /\ later.built = st.built
      BY DEF Sound, Fields
    <3>2. Promoted(st) \in {st, Indexed(later)}
      BY DEF Promoted
    <3> HIDE DEF later
    <3>3. QED
      BY <1>7, <3>1, <3>2, IndexedFits
  <2>2. QED
    BY <1>1, <1>7, <2>1, PromotedCurrent
<1>8. CASE ~st.built
  BY <1>1, <1>4, <1>6, <1>8
<1>9. QED
  BY <1>7, <1>8

\* Time passes for an entry and its snapshot alike.
LEMMA AgedTells ==
  ASSUME NEW s \in Snapshot, Recovers(s), NEW e \in Entries, Tells(e, s)
  PROVE  Recovers(AgedMeta(s)) /\ Tells(AgedEntry(e), AgedMeta(s))
<1>1. PICK t : t = AgedMeta(s)
  OBVIOUS
<1>2. PICK x : x = AgedEntry(e)
  OBVIOUS
<1>3. s.retry \in Nat /\ s.recover \in Nat /\ e.next \in Nat
  BY DEF Snapshot, Entries
<1>4. t = [s EXCEPT !.retry = Down(s.retry), !.recover = Down(s.recover)]
  BY <1>1 DEF AgedMeta, Snapshot
<1>5. t.off = s.off /\ t.exceeded = s.exceeded /\ t.retry = Down(s.retry) /\ t.recover = Down(s.recover)
  BY <1>4 DEF Snapshot
<1>6. x = [state |-> e.state, next |-> Down(e.next)]
  BY <1>2 DEF AgedEntry, Entries
<1>7. Recovers(t)
  BY <1>3, <1>5 DEF Recovers, Down
<1> DEFINE held == IF s.exceeded THEN "cooldown" ELSE "blocked"
<1>8. Tells(x, t)
  <2>1. CASE s.off
    <3>1. e = [state |-> "disabled", next |-> 0]
      BY <2>1 DEF Tells, Entry
    <3>2. x = [state |-> "disabled", next |-> 0]
      BY <1>6, <3>1 DEF Down
    <3>3. QED
      BY <1>5, <2>1, <3>2 DEF Tells, Entry
  <2>2. CASE ~s.off /\ e = [state |-> held, next |-> 0]
    <3>1. x = e
      BY <1>6, <2>2 DEF Down
    <3>2. QED
      BY <1>5, <2>2, <3>1 DEF Tells
  <2>3. CASE ~s.off /\ s.retry = 0 /\ e = Entry(s)
    <3>1. e = [state |-> "ready", next |-> 0]
      BY <2>3 DEF Entry
    <3>2. x = e
      BY <1>6, <3>1 DEF Down
    <3>3. t.retry = 0
      BY <1>5, <2>3 DEF Down
    <3>4. QED
      BY <1>5, <2>3, <3>1, <3>2, <3>3 DEF Tells, Entry
  <2>4. CASE ~s.off /\ s.retry > 0 /\ e = Entry(s)
    <3>1. e = [state |-> held, next |-> NextRetry(s)]
      BY <1>3, <2>4 DEF Entry
    <3>2. x = [state |-> held, next |-> Down(NextRetry(s))]
      BY <1>6, <3>1
    <3>3. NextRetry(s) \in Nat /\ NextRetry(s) > 0 /\ NextRetry(s) <= s.retry
      BY <1>3, <2>4 DEF NextRetry, Recovers
    <3>4. CASE Down(NextRetry(s)) = 0
      BY <1>5, <2>4, <3>2, <3>4 DEF Tells
    <3>5. CASE Down(NextRetry(s)) > 0
      <4>1. t.retry > 0 /\ NextRetry(t) = Down(NextRetry(s))
        BY <1>3, <1>5, <3>3, <3>5 DEF NextRetry, Down
      <4>2. Entry(t) = [state |-> held, next |-> Down(NextRetry(s))]
        BY <1>3, <1>5, <2>4, <4>1 DEF Entry
      <4>3. QED
        BY <3>2, <4>2 DEF Tells
    <3>6. Down(NextRetry(s)) \in Nat
      BY <3>3 DEF Down
    <3>7. QED
      BY <3>4, <3>5, <3>6
  <2>5. QED
    BY <1>3, <2>1, <2>2, <2>3, <2>4 DEF Tells
<1>9. QED
  BY <1>1, <1>2, <1>7, <1>8

\* Time takes no shard out of step.
LEMMA AgedSteady ==
  ASSUME NEW st, Sound(st), Steady(st)
  PROVE  Steady(Aged(st))
<1> DEFINE old == Aged(st)
<1>1. /\ old.cursors = st.cursors
      /\ old.metas = [a \in DOMAIN st.metas |-> AgedMeta(st.metas[a])]
      /\ old.entry = [a \in DOMAIN st.entry |-> AgedEntry(st.entry[a])]
  BY DEF Sound, Fields, Aged
<1> HIDE DEF old
<1>2. DOMAIN st.entry \subseteq DOMAIN st.metas
  BY DEF Sound, Filed
<1>3. ASSUME NEW a \in DOMAIN st.metas
      PROVE  Recovers(old.metas[a])
  <2>1. st.metas[a] \in Snapshot /\ Recovers(st.metas[a])
    BY DEF Sound, Known, Steady
  <2>2. PICK s \in Snapshot : s = st.metas[a]
    BY <2>1
  <2>3. Entry(s) \in Entries /\ Tells(Entry(s), s)
    BY EntryStates DEF Tells
  <2>4. QED
    BY <1>1, <2>1, <2>2, <2>3, AgedTells
<1>4. ASSUME NEW a \in DOMAIN st.entry
      PROVE  Tells(old.entry[a], old.metas[a])
  <2>1. st.metas[a] \in Snapshot /\ Recovers(st.metas[a]) /\ st.entry[a] \in Entries /\ Tells(st.entry[a], st.metas[a])
    BY <1>2 DEF Sound, Known, Steady
  <2>2. QED
    BY <1>1, <1>2, <2>1, AgedTells
<1>5. Steady(old)
  BY <1>1, <1>3, <1>4 DEF Steady, CursorsOK
<1>6. QED
  BY <1>5 DEF old

-----------------------------------------------------------------------------
(* Views.  Of finitely many one is the nearest to the cursor.              *)
LEMMA RankType ==
  ASSUME NEW S, IsFiniteSet(S), NEW x
  PROVE  Rank(S, x) \in Nat /\ Past(S, x) \in Nat
<1>1. IsFiniteSet({y \in S : y < x})
  BY FS_Subset
<1>2. Cardinality({y \in S : y < x}) \in Nat
  BY <1>1, FS_CardinalityType
<1>3. QED
  BY <1>2 DEF Rank, Past

\* One of a finite view is the nearest to the cursor.
LEMMA NearestIn ==
  ASSUME NEW S, IsFiniteSet(S), NEW c \in Nat, NEW E, E \subseteq S, E # {}
  PROVE  Nearest(S, c, E) \in E
<1>1. Cardinality(S) \in Nat /\ Cardinality(S) # 0
  BY FS_CardinalityType, FS_EmptySet
<1>2. PICK n \in Nat : n = Cardinality(S) /\ n > 0
  BY <1>1
<1> DEFINE f == [x \in E |-> Distance(S, c, x)]
<1>3. ASSUME NEW x \in E PROVE f[x] \in Int
  <2>1. PICK r \in Nat : r = Rank(S, x)
    BY RankType
  <2>2. (r - c) % n \in Int
    BY <1>2
  <2>3. QED
    BY <1>2, <2>1, <2>2 DEF Distance
<1>4. IsFiniteSet(E)
  BY FS_Subset
<1>5. \A x \in E : f[x] = Distance(S, c, x)
  OBVIOUS
<1> HIDE DEF f
<1>6. PICK x \in E : \A y \in E : f[x] <= f[y]
  BY <1>3, <1>4, FiniteMin
<1>7. \A y \in E : Distance(S, c, x) <= Distance(S, c, y)
  BY <1>5, <1>6
<1>8. QED
  BY <1>7 DEF Nearest

\* One of a finite view comes first.
LEMMA FirstIn ==
  ASSUME NEW S, S \subseteq Nat, IsFiniteSet(S), NEW tried, S \ tried # {}
  PROVE  PickFirst(S, tried) \in S \ tried
<1> DEFINE f == [x \in S \ tried |-> x]
<1>1. IsFiniteSet(S \ tried)
  BY FS_Subset
<1>2. \A x \in S \ tried : f[x] = x /\ f[x] \in Int
  OBVIOUS
<1> HIDE DEF f
<1>3. PICK x \in S \ tried : \A y \in S \ tried : f[x] <= f[y]
  BY <1>1, <1>2, FiniteMin
<1>4. \A y \in S \ tried : x <= y
  BY <1>2, <1>3
<1>5. QED
  BY <1>4 DEF PickFirst

\* A cursor moved stays a count.
LEMMA CursorMoved ==
  ASSUME NEW cur \in Cursors, NEW n \in Nat, NEW m \in Nat, NEW g
  PROVE  /\ [cur EXCEPT !["flat"] = n] \in Cursors /\ [cur EXCEPT !["ws"] = n] \in Cursors
         /\ [cur EXCEPT !.parent = n, !.child[g] = m] \in Cursors
<1>1. PICK f \in Nat, w \in Nat, p \in Nat, k \in [Parents -> Nat] :
        cur = [flat |-> f, ws |-> w, parent |-> p, child |-> k]
  BY DEF Cursors
<1>2. [cur EXCEPT !["flat"] = n] = [flat |-> n, ws |-> w, parent |-> p, child |-> k]
  BY <1>1
<1>3. [cur EXCEPT !["ws"] = n] = [flat |-> f, ws |-> n, parent |-> p, child |-> k]
  BY <1>1
<1>4. [cur EXCEPT !.parent = n, !.child[g] = m] = [flat |-> f, ws |-> w, parent |-> n, child |-> [k EXCEPT ![g] = m]]
  <2>1. PICK h : h = [cur EXCEPT !.parent = n]
    OBVIOUS
  <2>2. h = [flat |-> f, ws |-> w, parent |-> n, child |-> k]
    BY <1>1, <2>1
  <2>3. [cur EXCEPT !.parent = n, !.child[g] = m] = [h EXCEPT !.child[g] = m]
    BY <2>1, Zenon
  <2>4. [h EXCEPT !.child[g] = m] = [flat |-> f, ws |-> w, parent |-> n, child |-> [k EXCEPT ![g] = m]]
    BY <2>2
  <2>5. QED
    BY <2>3, <2>4
<1>5. [k EXCEPT ![g] = m] \in [Parents -> Nat]
  OBVIOUS
<1>6. QED
  BY <1>1, <1>2, <1>3, <1>4, <1>5 DEF Cursors

\* pickReadyAtPriorityLocked: somebody of the view that was not tried, and
\* cursors that are counts.
LEMMA PickedIn ==
  ASSUME NEW st, Sound(st), st.built, Steady(st), NEW i \in Priorities, NEW ws, NEW fill, NEW tried,
         Bucket(st, i) \ tried # {}
  PROVE  LET S == IF ws /\ WsBucket(st, i) \ tried # {} THEN WsBucket(st, i) ELSE Bucket(st, i)
             r == PickAt(st, i, ws, fill, tried)
         IN  r.auth \in S \ tried /\ r.cursors \in Cursors
<1> DEFINE all == Bucket(st, i)
           open == ws /\ WsBucket(st, i) \ tried # {}
           view == IF open THEN "ws" ELSE "flat"
           S == IF view = "ws" THEN WsBucket(st, i) ELSE all
           cur == st.cursors[i]
           a == Nearest(S, cur[view], S \ tried)
           openGroups == {h \in Groups(st, i) : Group(st, i, h) \ tried # {}}
           g == Nearest(Groups(st, i), cur.parent, openGroups)
           child == Group(st, i, g)
           b == Nearest(child, cur.child[g], child \ tried)
           r == PickAt(st, i, ws, fill, tried)
<1>1. r = IF fill THEN [auth |-> PickFirst(S, tried), cursors |-> cur]
          ELSE IF view = "flat" /\ Grouped(st, i)
          THEN [auth |-> b, cursors |-> PastBoth(cur, Groups(st, i), g, child, b)]
          ELSE [auth |-> a, cursors |-> [cur EXCEPT ![view] = Past(S, a)]]
  BY DEF PickAt
<1>2. Known(st) /\ DOMAIN st.entry \subseteq DOMAIN st.metas /\ Fits(st)
  BY DEF Sound, Filed
<1>3. /\ all \subseteq Auths /\ IsFiniteSet(all) /\ IsFiniteSet(WsBucket(st, i)) /\ WsBucket(st, i) \subseteq all
      /\ Groups(st, i) \subseteq Parents \union {NoParent} /\ IsFiniteSet(Groups(st, i))
      /\ \A h : IsFiniteSet(Group(st, i, h)) /\ Group(st, i, h) \subseteq all
  BY <1>2, ViewsFinite
<1>4. S = (IF open THEN WsBucket(st, i) ELSE all) /\ view \in {"flat", "ws"}
  OBVIOUS
<1>5. S \subseteq all /\ IsFiniteSet(S) /\ S \ tried # {}
  BY <1>3, <1>4
<1>6. cur \in Cursors
  BY DEF Steady, CursorsOK
<1>7. cur.flat \in Nat /\ cur.ws \in Nat /\ cur.parent \in Nat /\ cur.child \in [Parents -> Nat]
  BY <1>6 DEF Cursors
<1>8. cur[view] \in Nat
  <2> HIDE DEF cur, view
  <2>1. CASE view = "flat"
    BY <1>7, <2>1
  <2>2. CASE view = "ws"
    BY <1>7, <2>2
  <2>3. QED
    BY <1>4, <2>1, <2>2
<1> HIDE DEF cur, view
<1>9. a \in S \ tried
  BY <1>5, <1>8, NearestIn
<1>10. PickFirst(S, tried) \in S \ tried
  <2>1. S \subseteq Nat
    BY <1>3, <1>5, SchedulerAssumption
  <2> HIDE DEF S
  <2>2. QED
    BY <1>5, <2>1, FirstIn
<1>11. Past(S, a) \in Nat
  BY <1>5, RankType
<1>12. [cur EXCEPT ![view] = Past(S, a)] \in Cursors
  BY <1>4, <1>6, <1>11, CursorMoved
<1>13. ASSUME view = "flat", Grouped(st, i)
       PROVE  b \in S \ tried
  <2>1. S = all
    BY <1>13
  <2>2. PICK x : x \in all \ tried
    BY <1>5, <2>1
  <2>3. st.ready[x].parent \in openGroups
    BY <2>2 DEF Groups, Group
  <2>4. openGroups \subseteq Groups(st, i)
    OBVIOUS
  <2> HIDE DEF openGroups, all
  <2>5. g \in openGroups
    BY <1>3, <1>7, <2>3, <2>4, NearestIn
  <2>6. g \in Parents
    BY <1>3, <1>13, <2>4, <2>5 DEF Grouped
  <2>7. child \ tried # {}
    BY <2>5 DEF openGroups
  <2>8. cur.child[g] \in Nat
    BY <1>7, <2>6
  <2> HIDE DEF g
  <2>9. b \in child \ tried
    BY <1>3, <2>7, <2>8, NearestIn
  <2>10. QED
    BY <1>3, <2>1, <2>9
<1>14. PastBoth(cur, Groups(st, i), g, child, b) \in Cursors
  <2>1. Past(Groups(st, i), g) \in Nat /\ Past(child, b) \in Nat
    BY <1>3, RankType
  <2>2. QED
    BY <1>6, <2>1, CursorMoved DEF PastBoth
<1> HIDE DEF a, b, g, child, S, all, openGroups
<1>15. r.auth \in S \ tried /\ r.cursors \in Cursors
  <2>1. CASE fill
    BY <1>1, <1>6, <1>10, <2>1
  <2>2. CASE ~fill /\ view = "flat" /\ Grouped(st, i)
    BY <1>1, <1>13, <1>14, <2>2
  <2>3. CASE ~fill /\ ~(view = "flat" /\ Grouped(st, i))
    BY <1>1, <1>9, <1>12, <2>3
  <2>4. QED
    BY <2>1, <2>2, <2>3
<1>16. QED
  BY <1>4, <1>15 DEF all

-----------------------------------------------------------------------------
(* What a pick sees.  A shard looked at is up to date, so who is in its    *)
(* buckets is who the selectors would find free.                           *)
AllSteady == \A p \in Providers : Steady(shard[p])

\* The entries of a shard looked at say what their snapshots give.
LEMMA ShardSeen ==
  ASSUME IInv, AllSteady, NEW p \in Providers, NEW st, st = Ensured(shard[p])
  PROVE  /\ Sound(st) /\ st.built /\ Steady(st) /\ st.metas = shard[p].metas
         /\ \A a \in DOMAIN st.entry : st.entry[a] = Entry(st.metas[a])
         /\ DOMAIN st.entry = {a \in Auths : owner[a] = p /\ Meta(a).supports}
         /\ \A a \in DOMAIN st.entry : st.metas[a] = Meta(a) /\ Meta(a) \in Snapshot
<1>1. Sound(shard[p]) /\ Steady(shard[p])
  BY DEF IInv, AllSteady
<1>2. /\ Sound(st) /\ st.built /\ Steady(st) /\ st.metas = shard[p].metas
      /\ \A a \in DOMAIN st.entry : st.entry[a] = Entry(st.metas[a])
  BY <1>1, EnsuredSound, EnsuredCurrent
<1>3. DOMAIN st.entry = {a \in DOMAIN st.metas : st.metas[a].supports}
  BY <1>2 DEF Sound, Filed
<1>4. DOMAIN st.metas \subseteq Auths /\ \A a \in DOMAIN st.metas : st.metas[a] \in Snapshot
  BY <1>2 DEF Sound, Known
<1>5. \A a \in Auths : (a \in DOMAIN st.metas) <=> (owner[a] = p)
  BY <1>2 DEF IInv, OneHome
<1>6. \A a \in DOMAIN st.metas : st.metas[a] = Meta(a)
  BY <1>2, <1>4, <1>5 DEF Meta
<1>7. DOMAIN st.entry = {a \in Auths : owner[a] = p /\ Meta(a).supports}
  BY <1>3, <1>4, <1>5, <1>6
<1>8. QED
  BY <1>2, <1>3, <1>4, <1>6, <1>7

\* F is who the shard has to offer.
Offers(st, tried, F) ==
    /\ \A i, a : (a \in Bucket(st, i) \ tried) <=> (a \in F /\ Meta(a).prio = i)
    /\ \A i, a : (a \in WsBucket(st, i) \ tried) <=> (a \in F /\ Meta(a).prio = i /\ Meta(a).ws)
    /\ \A i : (i \in OpenAt(st, tried)) <=> (\E a \in F : Meta(a).prio = i)
    /\ \A i : (i \in WsOpenAt(st, tried)) <=> (\E a \in F : Meta(a).prio = i /\ Meta(a).ws)
    /\ \A a \in F : Meta(a).prio \in Priorities

\* Who the buckets of such a shard hold is who the selectors find free.
LEMMA FreeIsReady ==
  ASSUME IInv, AllSteady, NEW p \in Providers, NEW st, st = Ensured(shard[p]), NEW tried
  PROVE  Offers(st, tried, FreeOf({p}, tried))
<1>1. /\ Sound(st) /\ st.built
      /\ \A a \in DOMAIN st.entry : st.entry[a] = Entry(st.metas[a])
      /\ DOMAIN st.entry = {a \in Auths : owner[a] = p /\ Meta(a).supports}
      /\ \A a \in DOMAIN st.entry : st.metas[a] = Meta(a) /\ Meta(a) \in Snapshot
  BY ShardSeen
<1>2. ASSUME NEW s \in Snapshot PROVE (Entry(s).state = "ready") <=> ~Blocked(s)
  BY DEF Entry, Blocked, Snapshot
<1>3. \A a \in DOMAIN st.entry : (st.entry[a].state = "ready") <=> ~Blocked(Meta(a))
  BY <1>1, <1>2
<1>4. \A a : a \in FreeOf({p}, tried) <=> a \in DOMAIN st.entry /\ a \notin tried /\ st.entry[a].state = "ready"
  <2>1. \A a : a \in FreeOf({p}, tried) <=> a \in Auths /\ a \notin tried /\ owner[a] = p /\ Meta(a).supports /\ ~Blocked(Meta(a))
    BY DEF FreeOf, Candidates, Meta
  <2>2. \A a : a \in DOMAIN st.entry <=> a \in Auths /\ owner[a] = p /\ Meta(a).supports
    BY <1>1
  <2>3. QED
    BY <1>3, <2>1, <2>2
<1>5. st.ready = [a \in {b \in DOMAIN st.entry : st.entry[b].state = "ready"} |->
                     [prio |-> st.metas[a].prio, parent |-> st.metas[a].parent, ws |-> st.metas[a].ws]]
  BY <1>1 DEF Sound, Fits
<1>6. \A a : a \in DOMAIN st.ready /\ a \notin tried <=> a \in FreeOf({p}, tried)
  BY <1>4, <1>5
<1>7. \A a \in DOMAIN st.ready : st.ready[a].prio = Meta(a).prio /\ st.ready[a].ws = Meta(a).ws
  BY <1>1, <1>5
<1>8. \A i, a : a \in Bucket(st, i) \ tried <=> a \in FreeOf({p}, tried) /\ Meta(a).prio = i
  BY <1>6, <1>7 DEF Bucket
<1>9. \A i, a : a \in WsBucket(st, i) \ tried <=> a \in FreeOf({p}, tried) /\ Meta(a).prio = i /\ Meta(a).ws
  BY <1>6, <1>7 DEF WsBucket, Bucket
<1>10. \A a \in FreeOf({p}, tried) : Meta(a).prio \in Priorities
  BY <1>1, <1>4 DEF Snapshot
<1>11. \A i : i \in OpenAt(st, tried) <=> \E a \in FreeOf({p}, tried) : Meta(a).prio = i
  <2>1. \A i : i \in OpenAt(st, tried) <=> i \in Priorities /\ \E a : a \in Bucket(st, i) \ tried
    BY DEF OpenAt
  <2>2. ASSUME NEW i, NEW a \in FreeOf({p}, tried), Meta(a).prio = i
        PROVE  i \in OpenAt(st, tried)
    BY <1>8, <1>10, <2>1, <2>2
  <2>3. ASSUME NEW i \in OpenAt(st, tried)
        PROVE  \E a \in FreeOf({p}, tried) : Meta(a).prio = i
    BY <1>8, <2>1
  <2>4. QED
    BY <2>2, <2>3
<1>12. \A i : i \in WsOpenAt(st, tried) <=> \E a \in FreeOf({p}, tried) : Meta(a).prio = i /\ Meta(a).ws
  <2>1. \A i : i \in WsOpenAt(st, tried) <=> i \in Priorities /\ \E a : a \in WsBucket(st, i) \ tried
    BY DEF WsOpenAt
  <2>2. ASSUME NEW i, NEW a \in FreeOf({p}, tried), Meta(a).prio = i, Meta(a).ws
        PROVE  i \in WsOpenAt(st, tried)
    BY <1>9, <1>10, <2>1, <2>2
  <2>3. ASSUME NEW i \in WsOpenAt(st, tried)
        PROVE  \E a \in FreeOf({p}, tried) : Meta(a).prio = i /\ Meta(a).ws
    BY <1>9, <2>1
  <2>4. QED
    BY <2>2, <2>3
<1>13. QED
  BY <1>8, <1>9, <1>10, <1>11, <1>12 DEF Offers

\* highestReadyPriorityLocked: P are the priorities of S.
LEMMA HighestOf ==
  ASSUME NEW S, S \subseteq Auths, S # {}, \A a \in S : Meta(a).prio \in Priorities,
         NEW P, \A i : (i \in P) <=> (\E a \in S : Meta(a).prio = i)
  PROVE  /\ \E a \in S : Meta(a).prio = Highest(P)
         /\ \A a \in S : Meta(a).prio = Highest(P) => a \in BestOf(S)
<1> DEFINE f == [a \in S |-> Meta(a).prio]
<1>1. IsFiniteSet(S)
  BY SchedulerAssumption, FS_Subset
<1>2. \A a \in S : f[a] = Meta(a).prio /\ f[a] \in Int
  BY SchedulerAssumption
<1> HIDE DEF f
<1>3. PICK a \in S : \A b \in S : f[b] <= f[a]
  BY <1>1, <1>2, FiniteMax
<1>4. \A b \in S : Meta(b).prio <= Meta(a).prio
  BY <1>2, <1>3
<1>5. Meta(a).prio \in P /\ \A j \in P : j <= Meta(a).prio
  BY <1>4
<1>6. Highest(P) \in P /\ \A j \in P : j <= Highest(P)
  BY <1>5 DEF Highest
<1>7. \A b \in S : Meta(b).prio <= Highest(P)
  BY <1>6
<1>8. QED
  BY <1>6, <1>7 DEF BestOf

\* pickSingle asks a priority it has, and gets one of the preferred.
LEMMA SinglePick ==
  ASSUME IInv, AllSteady, NEW p \in Providers, NEW ws, NEW tried, NEW fill,
         NEW st, st = Ensured(shard[p]), FreeOf({p}, tried) # {}
  PROVE  LET i == PickPriority(st, ws, tried)
             r == PickAt(st, i, ws, fill, tried)
         IN  i \in Priorities /\ r.cursors \in Cursors /\ r.auth \in Preferred(FreeOf({p}, tried), ws)
<1>1. PICK F : F = FreeOf({p}, tried)
  OBVIOUS
<1>2. PICK i : i = PickPriority(st, ws, tried)
  OBVIOUS
<1> DEFINE W == {b \in F : Meta(b).ws}
           r == PickAt(st, i, ws, fill, tried)
<1>3. Offers(st, tried, F)
  BY <1>1, FreeIsReady
<1>4. Sound(st) /\ st.built /\ Steady(st)
  BY ShardSeen
<1>5. F \subseteq Auths /\ F # {}
  BY <1>1 DEF FreeOf, Candidates
<1>6. i = IF ws /\ WsOpenAt(st, tried) # {} THEN Highest(WsOpenAt(st, tried)) ELSE Highest(OpenAt(st, tried))
  BY <1>2 DEF PickPriority
<1>7. (WsOpenAt(st, tried) # {}) <=> (W # {})
  <2>1. (WsOpenAt(st, tried) # {}) <=> \E j : j \in WsOpenAt(st, tried)
    OBVIOUS
  <2>2. (W # {}) <=> \E a \in F : Meta(a).ws
    OBVIOUS
  <2>3. QED
    BY <1>3, <2>1, <2>2 DEF Offers
<1>8. Preferred(F, ws) = BestOf(IF ws /\ W # {} THEN W ELSE F)
  BY DEF Preferred
<1>9. i \in Priorities /\ r.cursors \in Cursors /\ r.auth \in Preferred(F, ws)
  <2>1. CASE ws /\ W # {}
    <3>1. i = Highest(WsOpenAt(st, tried))
      BY <1>6, <1>7, <2>1
    <3>2. W \subseteq Auths /\ \A a \in W : Meta(a).prio \in Priorities
      BY <1>3, <1>5 DEF Offers
    <3>3. \A j : j \in WsOpenAt(st, tried) <=> \E a \in W : Meta(a).prio = j
      BY <1>3 DEF Offers
    <3>4. /\ \E a \in W : Meta(a).prio = i
          /\ \A a \in W : Meta(a).prio = i => a \in BestOf(W)
      BY <2>1, <3>1, <3>2, <3>3, HighestOf
    <3>5. i \in Priorities /\ WsBucket(st, i) \ tried # {} /\ Bucket(st, i) \ tried # {}
      BY <1>3, <3>4 DEF Offers
    <3>6. r.auth \in WsBucket(st, i) \ tried /\ r.cursors \in Cursors
      BY <1>4, <2>1, <3>5, PickedIn
    <3>7. r.auth \in W /\ Meta(r.auth).prio = i
      BY <1>3, <3>6 DEF Offers
    <3>8. QED
      BY <1>8, <2>1, <3>4, <3>5, <3>6, <3>7
  <2>2. CASE ~(ws /\ W # {})
    <3>1. i = Highest(OpenAt(st, tried))
      BY <1>6, <1>7, <2>2
    <3>0. /\ \A a \in F : Meta(a).prio \in Priorities
          /\ \A j : (j \in OpenAt(st, tried)) <=> (\E a \in F : Meta(a).prio = j)
      BY <1>3 DEF Offers
    <3>2. /\ \E a \in F : Meta(a).prio = i
          /\ \A a \in F : Meta(a).prio = i => a \in BestOf(F)
      BY <1>5, <3>0, <3>1, HighestOf
    <3>3. i \in Priorities /\ Bucket(st, i) \ tried # {}
      BY <1>3, <3>2 DEF Offers
    <3>4. ~(ws /\ WsBucket(st, i) \ tried # {})
      BY <1>3, <2>2 DEF Offers
    <3>5. r.auth \in Bucket(st, i) \ tried /\ r.cursors \in Cursors
      BY <1>4, <3>3, <3>4, PickedIn
    <3>6. r.auth \in F /\ Meta(r.auth).prio = i
      BY <1>3, <3>5 DEF Offers
    <3>7. QED
      BY <1>8, <2>2, <3>2, <3>3, <3>5, <3>6
  <2>3. QED
    BY <2>1, <2>2
<1>10. QED
  BY <1>1, <1>2, <1>9

\* The free credentials of all providers are each provider's.
LEMMA FreeOfAll ==
  ASSUME NEW tried
  PROVE  /\ \A p \in Providers : FreeOf({p}, tried) \subseteq FreeOf(Providers, tried)
         /\ \A a \in FreeOf(Providers, tried) : owner[a] \in Providers /\ a \in FreeOf({owner[a]}, tried)
BY DEF FreeOf, Candidates

\* pickMixed asks every provider, and one that has the highest priority.
LEMMA MixedPick ==
  ASSUME IInv, AllSteady, NEW tried, NEW sh, sh = [p \in Providers |-> Ensured(shard[p])],
         FreeOf(Providers, tried) # {}
  PROVE  LET i == MixedPriority(sh, tried)
             p == MixedProvider(sh, i, tried)
             r == PickAt(sh[p], i, FALSE, fillFirst, tried)
         IN  /\ i \in Priorities /\ p \in Providers
             /\ r.cursors \in Cursors /\ r.auth \in Preferred(FreeOf(Providers, tried), FALSE)
<1>1. PICK F : F = FreeOf(Providers, tried)
  OBVIOUS
<1>2. PICK P : P = UNION {OpenAt(sh[q], tried) : q \in Providers}
  OBVIOUS
<1>3. PICK i : i = MixedPriority(sh, tried)
  OBVIOUS
<1>4. PICK p : p = MixedProvider(sh, i, tried)
  OBVIOUS
<1> DEFINE r == PickAt(sh[p], i, FALSE, fillFirst, tried)
           willing == {q \in Providers : Bucket(sh[q], i) \ tried # {}}
<1>5. ASSUME NEW q \in Providers
      PROVE  /\ Offers(sh[q], tried, FreeOf({q}, tried))
             /\ Sound(sh[q]) /\ sh[q].built /\ Steady(sh[q])
  <2>1. PICK st : st = Ensured(shard[q])
    OBVIOUS
  <2>2. sh[q] = st
    BY <2>1
  <2>3. Offers(st, tried, FreeOf({q}, tried))
    BY <2>1, FreeIsReady
  <2>4. Sound(st) /\ st.built /\ Steady(st)
    BY <2>1, ShardSeen
  <2>5. QED
    BY <2>2, <2>3, <2>4
<1>6. F \subseteq Auths /\ F # {}
  BY <1>1 DEF FreeOf, Candidates
<1>7. /\ \A q \in Providers : FreeOf({q}, tried) \subseteq F
      /\ \A a \in F : owner[a] \in Providers /\ a \in FreeOf({owner[a]}, tried)
  BY <1>1, FreeOfAll
<1>8. \A a \in F : Meta(a).prio \in Priorities
  BY <1>5, <1>7 DEF Offers
<1>9. \A j : (j \in P) <=> (\E a \in F : Meta(a).prio = j)
  <2>1. \A j : (j \in P) <=> (\E q \in Providers : j \in OpenAt(sh[q], tried))
    BY <1>2
  <2>2. ASSUME NEW j, NEW q \in Providers, j \in OpenAt(sh[q], tried)
        PROVE  \E a \in F : Meta(a).prio = j
    <3>1. PICK a \in FreeOf({q}, tried) : Meta(a).prio = j
      BY <1>5, <2>2, ZenonT(40) DEF Offers
    <3>2. QED
      BY <1>7, <3>1
  <2>3. ASSUME NEW a \in F
        PROVE  \E q \in Providers : Meta(a).prio \in OpenAt(sh[q], tried)
    <3>1. PICK q \in Providers : q = owner[a] /\ a \in FreeOf({q}, tried)
      BY <1>7
    <3>2. Meta(a).prio \in OpenAt(sh[q], tried)
      BY <1>5, <3>1 DEF Offers
    <3>3. QED
      BY <3>2
  <2>4. QED
    BY <2>1, <2>2, <2>3
<1>10. i = Highest(P)
  BY <1>2, <1>3 DEF MixedPriority
<1>11. /\ \E a \in F : Meta(a).prio = i
       /\ \A a \in F : Meta(a).prio = i => a \in BestOf(F)
  BY <1>6, <1>8, <1>9, <1>10, HighestOf
<1>12. p = IF fillFirst THEN PickFirst(willing, {})
           ELSE Nearest(Providers, Rank(Providers, StartProvider(sh, i)), willing)
  BY <1>4 DEF MixedProvider
<1>13. PICK a \in F : Meta(a).prio = i
  BY <1>11
<1>14. PICK q \in Providers : a \in Bucket(sh[q], i) \ tried
  <2>1. PICK q \in Providers : q = owner[a] /\ a \in FreeOf({q}, tried)
    BY <1>7
  <2>2. a \in Bucket(sh[q], i) \ tried
    BY <1>5, <1>13, <2>1 DEF Offers
  <2>3. QED
    BY <2>2
<1>15. willing # {} /\ willing \subseteq Providers
  BY <1>14
<1>16. p \in willing
  <2>1. Providers \subseteq Nat /\ IsFiniteSet(Providers)
    BY SchedulerAssumption
  <2>2. IsFiniteSet(willing) /\ willing \subseteq Nat /\ willing \ {} = willing
    BY <1>15, <2>1, FS_Subset
  <2>3. Rank(Providers, StartProvider(sh, i)) \in Nat
    BY <2>1, RankType
  <2> HIDE DEF willing
  <2>4. CASE fillFirst
    <3>1. PickFirst(willing, {}) \in willing \ {}
      BY <1>15, <2>2, FirstIn
    <3>2. QED
      BY <1>12, <2>2, <2>4, <3>1
  <2>5. CASE ~fillFirst
    BY <1>12, <1>15, <2>1, <2>3, <2>5, NearestIn
  <2>6. QED
    BY <2>4, <2>5
<1>17. p \in Providers /\ Bucket(sh[p], i) \ tried # {}
  BY <1>16
<1>18. i \in Priorities
  BY <1>8, <1>13
<1>19. r.auth \in Bucket(sh[p], i) \ tried /\ r.cursors \in Cursors
  <2>1. PICK st : st = sh[p]
    OBVIOUS
  <2>2. Sound(st) /\ st.built /\ Steady(st) /\ Bucket(st, i) \ tried # {}
    BY <1>5, <1>17, <2>1
  <2>3. PickAt(st, i, FALSE, fillFirst, tried).auth \in Bucket(st, i) \ tried
        /\ PickAt(st, i, FALSE, fillFirst, tried).cursors \in Cursors
    BY <1>18, <2>2, PickedIn
  <2>4. QED
    BY <2>1, <2>3
<1>20. r.auth \in F /\ Meta(r.auth).prio = i
  <2>0. Offers(sh[p], tried, FreeOf({p}, tried))
    BY <1>5, <1>17
  <2> HIDE DEF r
  <2>1. r.auth \in FreeOf({p}, tried) /\ Meta(r.auth).prio = i
    <3>1. PICK x : x = r.auth /\ x \in Bucket(sh[p], i) \ tried
      BY <1>19
    <3>2. \A j, y : (y \in Bucket(sh[p], j) \ tried) <=> (y \in FreeOf({p}, tried) /\ Meta(y).prio = j)
      BY <2>0 DEF Offers
    <3>3. x \in FreeOf({p}, tried) /\ Meta(x).prio = i
      BY <3>1, <3>2
    <3>4. QED
      BY <3>1, <3>3
  <2>2. QED
    BY <1>7, <1>17, <2>1
<1>21. r.auth \in BestOf(F)
  BY <1>11, <1>20
<1>22. Preferred(F, FALSE) = BestOf(F)
  BY DEF Preferred
<1>23. QED
  BY <1>1, <1>3, <1>4, <1>17, <1>18, <1>19, <1>21, <1>22

\* A shard refuses when nobody is free.
LEMMA RefusesWhenNoneFree ==
  ASSUME NEW st, NEW tried, NEW F, Offers(st, tried, F)
  PROVE  (OpenAt(st, tried) = {}) <=> (F = {})
<1>1. (OpenAt(st, tried) = {}) <=> ~(\E i : i \in OpenAt(st, tried))
  OBVIOUS
<1>2. \A i : (i \in OpenAt(st, tried)) <=> (\E a \in F : Meta(a).prio = i)
  BY DEF Offers
<1>3. QED
  BY <1>1, <1>2

\* unavailableErrorLocked and mixedUnavailableErrorLocked look at the entries;
\* the reason they find is the selectors'.
LEMMA FailureIsReason ==
  ASSUME IInv, AllSteady, NEW ps, ps \subseteq Providers, NEW tried, NEW sh,
         \A q \in ps : sh[q] = Ensured(shard[q]), FreeOf(ps, tried) = {}
  PROVE  Failure(sh, ps, tried) = Reason(Candidates(ps, tried))
<1>1. PICK C : C = Candidates(ps, tried)
  OBVIOUS
<1> DEFINE listed == UNION {{<<p, a>> : a \in DOMAIN sh[p].entry \ tried} : p \in ps}
           cooling == {x \in listed : sh[x[1]].entry[x[2]].state = "cooldown"}
           retries == {sh[x[1]].entry[x[2]].next : x \in cooling}
<1>2. Failure(sh, ps, tried) =
         IF listed = {} THEN [error |-> "auth_not_found", reset |-> 0]
         ELSE IF cooling = listed
         THEN [error |-> "model_cooldown", reset |-> CHOOSE t \in retries : \A u \in retries : t <= u]
         ELSE [error |-> "auth_unavailable", reset |-> 0]
  BY DEF Failure
<1>3. ASSUME NEW a
      PROVE  a \in C <=> a \in Auths /\ a \notin tried /\ owner[a] \in ps /\ Meta(a).supports
  BY <1>1 DEF Candidates, Meta
<1>4. ASSUME NEW q \in ps
      PROVE  /\ DOMAIN sh[q].entry \ tried = {a \in C : owner[a] = q}
             /\ \A a \in DOMAIN sh[q].entry : sh[q].entry[a] = Entry(Meta(a)) /\ Meta(a) \in Snapshot
  <2>1. PICK st : st = sh[q] /\ st = Ensured(shard[q])
    OBVIOUS
  <2>2. /\ \A a \in DOMAIN st.entry : st.entry[a] = Entry(st.metas[a])
        /\ DOMAIN st.entry = {a \in Auths : owner[a] = q /\ Meta(a).supports}
        /\ \A a \in DOMAIN st.entry : st.metas[a] = Meta(a) /\ Meta(a) \in Snapshot
    BY <2>1, ShardSeen
  <2>3. DOMAIN st.entry \ tried = {a \in C : owner[a] = q}
    BY <1>3, <2>2
  <2>4. QED
    BY <2>1, <2>2, <2>3
<1>5. ASSUME NEW a \in C
      PROVE  /\ owner[a] \in ps /\ a \in DOMAIN sh[owner[a]].entry \ tried
             /\ Meta(a) \in Snapshot /\ sh[owner[a]].entry[a] = Entry(Meta(a)) /\ Blocked(Meta(a))
  <2>1. owner[a] \in ps
    BY <1>3
  <2>2. a \in DOMAIN sh[owner[a]].entry \ tried
    BY <1>4, <2>1
  <2>3. Blocked(Meta(a))
    BY <1>1 DEF FreeOf
  <2>4. QED
    BY <1>4, <2>1, <2>2, <2>3
<1>6. \A x : (x \in listed) <=> (\E a \in C : x = <<owner[a], a>>)
  <2>1. \A x : (x \in listed) <=> (\E q \in ps : \E a \in DOMAIN sh[q].entry \ tried : x = <<q, a>>)
    OBVIOUS
  <2>2. ASSUME NEW q \in ps, NEW a \in DOMAIN sh[q].entry \ tried
        PROVE  a \in C /\ owner[a] = q
    BY <1>4
  <2>3. QED
    BY <1>5, <2>1, <2>2
<1> HIDE DEF listed
<1>7. (listed = {}) <=> (C = {})
  <2>1. (listed = {}) <=> ~(\E x : x \in listed)
    OBVIOUS
  <2>2. QED
    BY <1>6, <2>1
<1> DEFINE cool(a) == ~Meta(a).off /\ Meta(a).exceeded
<1>8. ASSUME NEW a \in C
      PROVE  /\ (sh[owner[a]].entry[a].state = "cooldown") <=> cool(a)
             /\ cool(a) => sh[owner[a]].entry[a].next = NextRetry(Meta(a))
             /\ NextRetry(Meta(a)) \in Nat
  <2>1. PICK s \in Snapshot : s = Meta(a) /\ Blocked(s) /\ sh[owner[a]].entry[a] = Entry(s)
    BY <1>5
  <2>2. s.retry \in Nat /\ s.recover \in Nat /\ (~s.off => s.retry > 0)
    BY <2>1 DEF Snapshot, Blocked
  <2>3. (Entry(s).state = "cooldown") <=> (~s.off /\ s.exceeded)
    BY <2>2 DEF Entry
  <2>4. (~s.off /\ s.exceeded) => Entry(s).next = NextRetry(s)
    BY <2>2 DEF Entry
  <2>5. NextRetry(s) \in Nat
    BY <2>2 DEF NextRetry
  <2>6. QED
    BY <2>1, <2>3, <2>4, <2>5
<1>9. \A a \in C : (<<owner[a], a>> \in cooling) <=> cool(a)
  BY <1>6, <1>8
<1>10. (cooling = listed) <=> (\A a \in C : cool(a))
  <2>1. cooling \subseteq listed
    OBVIOUS
  <2>2. (cooling = listed) <=> (\A x \in listed : x \in cooling)
    BY <2>1
  <2> HIDE DEF cooling, cool
  <2>3. (\A x \in listed : x \in cooling) <=> (\A a \in C : cool(a))
    BY <1>6, <1>9
  <2>4. QED
    BY <2>2, <2>3
<1>11. CASE C = {}
  BY <1>1, <1>2, <1>7, <1>11 DEF Reason
<1>12. CASE C # {} /\ ~(\A a \in C : cool(a))
  BY <1>1, <1>2, <1>7, <1>10, <1>12 DEF Reason
<1>13. CASE C # {} /\ \A a \in C : cool(a)
  <2> DEFINE R == {NextRetry(Meta(a)) : a \in C}
             f == [a \in C |-> NextRetry(Meta(a))]
  <2>1. \A t : (t \in retries) <=> (\E a \in C : t = NextRetry(Meta(a)))
    <3>1. \A t : (t \in retries) <=> (\E x \in cooling : t = sh[x[1]].entry[x[2]].next)
      OBVIOUS
    <3>2. \A x : (x \in cooling) <=> (\E a \in C : x = <<owner[a], a>>)
      BY <1>6, <1>10, <1>13
    <3> HIDE DEF cooling, retries
    <3>3. ASSUME NEW a \in C, NEW x, x = <<owner[a], a>>
          PROVE  sh[x[1]].entry[x[2]].next = NextRetry(Meta(a))
      BY <1>8, <1>13, <3>3
    <3>4. ASSUME NEW t \in retries PROVE \E a \in C : t = NextRetry(Meta(a))
      <4>1. PICK x \in cooling : t = sh[x[1]].entry[x[2]].next
        BY <3>1
      <4>2. PICK a \in C : x = <<owner[a], a>>
        BY <3>2
      <4>3. QED
        BY <3>3, <4>1, <4>2
    <3>5. ASSUME NEW a \in C PROVE NextRetry(Meta(a)) \in retries
      <4>1. PICK x : x = <<owner[a], a>>
        OBVIOUS
      <4>2. QED
        BY <3>1, <3>2, <3>3, <4>1
    <3>6. QED
      BY <3>4, <3>5
  <2>2. C \subseteq Auths /\ IsFiniteSet(C)
    BY <1>3, SchedulerAssumption, FS_Subset
  <2>3. \A a \in C : f[a] = NextRetry(Meta(a)) /\ f[a] \in Nat
    BY <1>8
  <2> HIDE DEF f, retries
  <2>4. PICK c \in C : \A a \in C : f[c] <= f[a]
    BY <1>13, <2>2, <2>3, FiniteMin
  <2>5. PICK m \in Nat : m = NextRetry(Meta(c)) /\ \A a \in C : m <= NextRetry(Meta(a))
    BY <2>3, <2>4
  <2>6. \A a \in C : NextRetry(Meta(a)) \in Nat
    BY <2>3
  <2>7. (CHOOSE t \in retries : \A u \in retries : t <= u) = m
    <3>1. m \in retries /\ \A u \in retries : m <= u
      BY <2>1, <2>5
    <3>2. ASSUME NEW t \in retries, \A u \in retries : t <= u
          PROVE  t = m
      <4>1. t \in Nat /\ t <= m /\ m <= t
        BY <2>1, <2>6, <3>1, <3>2
      <4>2. QED
        BY <4>1
    <3>3. QED
      BY <3>1, <3>2
  <2>8. (CHOOSE t \in R : \A a \in C : t <= NextRetry(Meta(a))) = m
    <3>1. m \in R /\ \A a \in C : m <= NextRetry(Meta(a))
      BY <2>5
    <3>2. ASSUME NEW t \in R, \A a \in C : t <= NextRetry(Meta(a))
          PROVE  t = m
      <4>1. t \in Nat /\ t <= m
        BY <2>5, <2>6, <3>2
      <4>2. PICK a \in C : t = NextRetry(Meta(a))
        OBVIOUS
      <4>3. m <= t
        BY <2>5, <4>2
      <4>4. QED
        BY <4>1, <4>3
    <3>3. QED
      BY <3>1, <3>2
  <2>9. Reason(C) = [error |-> "model_cooldown", reset |-> m]
    BY <1>13, <2>8 DEF Reason
  <2>10. Failure(sh, ps, tried) = [error |-> "model_cooldown", reset |-> m]
    BY <1>2, <1>7, <1>10, <1>13, <2>7 DEF retries
  <2>11. QED
    BY <1>1, <2>9, <2>10
<1>14. QED
  BY <1>11, <1>12, <1>13

-----------------------------------------------------------------------------
(* The shards stay steady, whatever the manager says of credentials that   *)
(* recover in time.                                                        *)
\* At the start nothing is built.
LEMMA InitSteady == Init => AllSteady
<1> SUFFICES ASSUME Init PROVE AllSteady
  OBVIOUS
<1>1. DOMAIN Unset = {}
  BY DEF Unset
<1>2. NoCursors \in Cursors
  BY DEF NoCursors, Cursors
<1>3. Steady(EmptyShard)
  <2>1. EmptyShard.metas = Unset /\ EmptyShard.entry = Unset /\ EmptyShard.cursors = [i \in Priorities |-> NoCursors]
    BY DEF EmptyShard
  <2>2. QED
    BY <1>1, <1>2, <2>1 DEF Steady, CursorsOK
<1>4. QED
  BY <1>3 DEF Init, AllSteady

\* A pick moves the cursors of one priority.
LEMMA CursorsSteady ==
  ASSUME NEW st, Fields(st), Steady(st), NEW i \in Priorities, NEW c \in Cursors
  PROVE  Steady([st EXCEPT !.cursors[i] = c])
<1>1. PICK new : new = [st EXCEPT !.cursors[i] = c]
  OBVIOUS
<1>2. new.metas = st.metas /\ new.entry = st.entry /\ new.cursors = [st.cursors EXCEPT ![i] = c]
  BY <1>1 DEF Fields
<1>3. Steady(new)
  BY <1>2 DEF Steady, CursorsOK
<1>4. QED
  BY <1>1, <1>3

\* A pick of one provider leaves the shards steady.
LEMMA PickSingleSteady ==
  ASSUME IInv, AllSteady, NEW p \in Providers, NEW ws, NEW tried, PickSingle(p, ws, tried)
  PROVE  AllSteady'
<1>1. PICK st : st = Ensured(shard[p])
  OBVIOUS
<1>2. PICK i : i = PickPriority(st, ws, tried)
  OBVIOUS
<1>3. PICK c : c = PickAt(st, i, ws, fillFirst, tried).cursors
  OBVIOUS
<1>4. PICK new : new = IF OpenAt(st, tried) = {} THEN st ELSE [st EXCEPT !.cursors[i] = c]
  OBVIOUS
<1>5. shard' = [shard EXCEPT ![p] = new]
  BY <1>1, <1>2, <1>3, <1>4 DEF PickSingle
<1>6. Sound(st) /\ Steady(st)
  BY <1>1, ShardSeen
<1>7. Steady(new)
  <2>1. CASE OpenAt(st, tried) = {}
    BY <1>4, <1>6, <2>1
  <2>2. CASE OpenAt(st, tried) # {}
    <3>1. FreeOf({p}, tried) # {}
      BY <1>1, <2>2, FreeIsReady, RefusesWhenNoneFree
    <3>2. i \in Priorities /\ c \in Cursors
      BY <1>1, <1>2, <1>3, <3>1, SinglePick
    <3>3. QED
      BY <1>4, <1>6, <2>2, <3>2, CursorsSteady DEF Sound
  <2>3. QED
    BY <2>1, <2>2
<1>8. DOMAIN shard = Providers /\ \A q \in Providers : Steady(shard[q])
  BY DEF IInv, AllSteady
<1>9. \A q \in Providers : Steady(shard'[q])
  BY <1>5, <1>7, <1>8
<1>10. QED
  BY <1>9 DEF AllSteady

\* Mixed requests are refused when nobody is free anywhere.
LEMMA MixedRefuses ==
  ASSUME IInv, AllSteady, NEW tried, NEW sh, sh = [p \in Providers |-> Ensured(shard[p])]
  PROVE  (\A p \in Providers : OpenAt(sh[p], tried) = {}) <=> (FreeOf(Providers, tried) = {})
<1>1. ASSUME NEW p \in Providers
      PROVE  (OpenAt(sh[p], tried) = {}) <=> (FreeOf({p}, tried) = {})
  <2>1. PICK st : st = Ensured(shard[p]) /\ st = sh[p]
    OBVIOUS
  <2>2. Offers(st, tried, FreeOf({p}, tried))
    BY <2>1, FreeIsReady
  <2>3. QED
    BY <2>1, <2>2, RefusesWhenNoneFree
<1>2. (\A p \in Providers : FreeOf({p}, tried) = {}) <=> (FreeOf(Providers, tried) = {})
  BY FreeOfAll
<1>3. QED
  BY <1>1, <1>2

\* So does a mixed pick,
LEMMA PickMixedSteady ==
  ASSUME IInv, AllSteady, NEW tried, PickMixed(tried)
  PROVE  AllSteady'
<1>1. PICK sh : sh = [p \in Providers |-> Ensured(shard[p])]
  OBVIOUS
<1>2. PICK i : i = MixedPriority(sh, tried)
  OBVIOUS
<1>3. PICK p : p = MixedProvider(sh, i, tried)
  OBVIOUS
<1>4. PICK c : c = PickAt(sh[p], i, FALSE, fillFirst, tried).cursors
  OBVIOUS
<1>5. shard' = IF \A q \in Providers : OpenAt(sh[q], tried) = {} THEN sh ELSE [sh EXCEPT ![p].cursors[i] = c]
  BY <1>1, <1>2, <1>3, <1>4 DEF PickMixed
<1>6. \A q \in Providers : Sound(sh[q]) /\ Steady(sh[q])
  BY <1>1, EnsuredSound, EnsuredCurrent DEF IInv, AllSteady
<1>7. DOMAIN sh = Providers
  BY <1>1
<1>8. CASE \A q \in Providers : OpenAt(sh[q], tried) = {}
  BY <1>5, <1>6, <1>8 DEF AllSteady
<1>9. CASE ~(\A q \in Providers : OpenAt(sh[q], tried) = {})
  <2>1. FreeOf(Providers, tried) # {}
    BY <1>1, <1>9, MixedRefuses
  <2>2. i \in Priorities /\ p \in Providers /\ c \in Cursors
    BY <1>1, <1>2, <1>3, <1>4, <2>1, MixedPick
  <2>3. Steady([sh[p] EXCEPT !.cursors[i] = c])
    BY <1>6, <2>2, CursorsSteady DEF Sound
  <2>4. shard' = [sh EXCEPT ![p].cursors[i] = c]
    BY <1>5, <1>9
  <2>5. \A q \in Providers : shard'[q] = IF q = p THEN [sh[p] EXCEPT !.cursors[i] = c] ELSE sh[q]
    BY <1>7, <2>2, <2>4
  <2>6. \A q \in Providers : Steady(shard'[q])
    BY <1>6, <2>3, <2>5
  <2>7. QED
    BY <2>6 DEF AllSteady
<1>10. QED
  BY <1>8, <1>9

\* an update from the manager,
LEMMA UpsertSteady ==
  ASSUME IInv, AllSteady, NEW a \in Auths, NEW p \in Providers, NEW s \in Snapshot, Recovers(s), Upsert(a, p, s)
  PROVE  AllSteady'
<1>1. PICK home : home = IF owner[a] \in {Nowhere, p} THEN shard ELSE LeftPrevious(a)
  OBVIOUS
<1>2. shard' = [home EXCEPT ![p] = Given(home[p], a, s)]
  BY <1>1 DEF Upsert
<1>3. DOMAIN home = Providers
  BY <1>1 DEF IInv, LeftPrevious
<1>4. ASSUME NEW q \in Providers
      PROVE  Sound(home[q]) /\ Steady(home[q])
  <2>1. home[q] = shard[q] \/ home[q] = Taken(shard[q], a)
    BY <1>1 DEF LeftPrevious
  <2>2. Sound(shard[q]) /\ Steady(shard[q])
    BY DEF IInv, AllSteady
  <2>3. Sound(Taken(shard[q], a)) /\ Steady(Taken(shard[q], a))
    BY <2>2, TakenSound, TakenSteady
  <2>4. QED
    BY <2>1, <2>2, <2>3
<1>5. Steady(Given(home[p], a, s))
  BY <1>4, GivenSteady
<1>6. \A q \in Providers : Steady(shard'[q])
  BY <1>2, <1>3, <1>4, <1>5
<1>7. QED
  BY <1>6 DEF AllSteady

\* the removal of a credential,
LEMMA RemoveSteady ==
  ASSUME IInv, AllSteady, NEW a \in Auths, Remove(a)
  PROVE  AllSteady'
<1>1. PICK p : p = owner[a] /\ shard' = [shard EXCEPT ![p] = Taken(shard[p], a)] /\ p \in Providers
  BY DEF Remove, IInv
<1>2. DOMAIN shard = Providers /\ \A q \in Providers : Sound(shard[q]) /\ Steady(shard[q])
  BY DEF IInv, AllSteady
<1>3. Steady(Taken(shard[p], a))
  BY <1>1, <1>2, TakenSteady
<1>4. \A q \in Providers : Steady(shard'[q])
  BY <1>1, <1>2, <1>3
<1>5. QED
  BY <1>4 DEF AllSteady

\* a rebuild of everything,
LEMMA RebuildSteady ==
  ASSUME IInv, AllSteady, Rebuild
  PROVE  AllSteady'
<1>1. \A p \in Providers : shard'[p] = [EmptyShard EXCEPT !.metas = shard[p].metas]
  BY DEF Rebuild
<1>2. NoCursors \in Cursors /\ DOMAIN Unset = {}
  BY DEF NoCursors, Cursors, Unset
<1>3. ASSUME NEW p \in Providers PROVE Steady(shard'[p])
  <2>1. /\ shard'[p].metas = shard[p].metas /\ shard'[p].entry = Unset
        /\ shard'[p].cursors = [i \in Priorities |-> NoCursors]
    BY <1>1 DEF EmptyShard
  <2>2. Steady(shard[p])
    BY DEF AllSteady
  <2>3. QED
    BY <1>2, <2>1, <2>2 DEF Steady, CursorsOK
<1>4. QED
  BY <1>3 DEF AllSteady

\* and so every step.
LEMMA StepSteady ==
  ASSUME IInv, AllSteady, \A s \in Snapshots : Recovers(s), [Next]_vars
  PROVE  AllSteady'
<1>1. ASSUME NEW p \in Providers, NEW ws \in Websockets, NEW tried \in TriedSets, PickSingle(p, ws, tried)
      PROVE  AllSteady'
  BY <1>1, PickSingleSteady
<1>2. ASSUME NEW tried \in TriedSets, PickMixed(tried)
      PROVE  AllSteady'
  BY <1>2, PickMixedSteady
<1>3. ASSUME NEW a \in Auths, NEW p \in Providers, NEW s \in Snapshots, Upsert(a, p, s)
      PROVE  AllSteady'
  <2>1. s \in Snapshot /\ Recovers(s)
    BY SchedulerAssumption
  <2>2. QED
    BY <1>3, <2>1, UpsertSteady
<1>4. ASSUME NEW a \in Auths, Remove(a)
      PROVE  AllSteady'
  BY <1>4, RemoveSteady
<1>5. CASE Rebuild
  BY <1>5, RebuildSteady
<1>6. ASSUME NEW f \in Strategies, SetSelector(f)
      PROVE  AllSteady'
  BY <1>6 DEF SetSelector, AllSteady
<1>7. CASE Tick
  <2>1. \A p \in Providers : shard'[p] = Aged(shard[p])
    BY <1>7 DEF Tick
  <2>2. \A p \in Providers : Steady(shard'[p])
    BY <2>1, AgedSteady DEF IInv, AllSteady
  <2>3. QED
    BY <2>2 DEF AllSteady
<1>8. CASE UNCHANGED vars
  BY <1>8 DEF vars, AllSteady
<1>9. QED
  BY <1>1, <1>2, <1>3, <1>4, <1>5, <1>6, <1>7, <1>8 DEF Next

\* What steady shards answer is what the selectors would.
LEMMA SingleAgrees ==
  ASSUME IInv, AllSteady, NEW p \in Providers, NEW ws, NEW tried
  PROVE  Agrees(SingleAnswer(p, ws, tried), {p}, ws, tried)
<1>1. PICK st : st = Ensured(shard[p])
  OBVIOUS
<1>2. PICK a : a = PickAt(st, PickPriority(st, ws, tried), ws, fillFirst, tried).auth
  OBVIOUS
<1>3. PICK f : f = Failure([q \in {p} |-> st], {p}, tried)
  OBVIOUS
<1>4. PICK x : x = SingleAnswer(p, ws, tried)
  OBVIOUS
<1>5. x = IF OpenAt(st, tried) = {} THEN Refused(f) ELSE Served(a)
  BY <1>1, <1>2, <1>3, <1>4 DEF SingleAnswer
<1>6. (OpenAt(st, tried) = {}) <=> (FreeOf({p}, tried) = {})
  BY <1>1, FreeIsReady, RefusesWhenNoneFree
<1>7. CASE OpenAt(st, tried) = {}
  <2>1. f = Reason(Candidates({p}, tried))
    <3>1. PICK sh : sh = [q \in {p} |-> st]
      OBVIOUS
    <3>2. \A q \in {p} : sh[q] = Ensured(shard[q])
      BY <1>1, <3>1
    <3>3. {p} \subseteq Providers
      OBVIOUS
    <3>4. Failure(sh, {p}, tried) = Reason(Candidates({p}, tried))
      BY <1>6, <1>7, <3>2, <3>3, FailureIsReason
    <3>5. QED
      BY <1>3, <3>1, <3>4
  <2>2. [error |-> f.error, reset |-> f.reset] = f
    BY <2>1 DEF Reason
  <2>3. x.auth = Nobody /\ x.error = f.error /\ x.reset = f.reset
    BY <1>5, <1>7 DEF Refused
  <2>4. Agrees(x, {p}, ws, tried)
    BY <1>6, <1>7, <2>1, <2>2, <2>3 DEF Agrees
  <2>5. QED
    BY <1>4, <2>4
<1>8. CASE OpenAt(st, tried) # {}
  <2>1. a \in Preferred(FreeOf({p}, tried), ws)
    BY <1>1, <1>2, <1>6, <1>8, SinglePick
  <2>2. x.auth = a
    BY <1>5, <1>8 DEF Served
  <2>3. a # Nobody
    BY <2>1, SchedulerAssumption DEF Preferred, BestOf, FreeOf, Candidates, Nobody
  <2>4. Agrees(x, {p}, ws, tried)
    BY <2>1, <2>2, <2>3 DEF Agrees, Best
  <2>5. QED
    BY <1>4, <2>4
<1>9. QED
  BY <1>7, <1>8

\* So is what they answer mixed requests.
LEMMA MixedAgrees ==
  ASSUME IInv, AllSteady, NEW tried
  PROVE  Agrees(MixedAnswer(tried), Providers, FALSE, tried)
<1>1. PICK sh : sh = [p \in Providers |-> Ensured(shard[p])]
  OBVIOUS
<1>2. PICK i : i = MixedPriority(sh, tried)
  OBVIOUS
<1>3. PICK a : a = PickAt(sh[MixedProvider(sh, i, tried)], i, FALSE, fillFirst, tried).auth
  OBVIOUS
<1>4. PICK f : f = Failure(sh, Providers, tried)
  OBVIOUS
<1>5. PICK x : x = MixedAnswer(tried)
  OBVIOUS
<1>6. x = IF \A p \in Providers : OpenAt(sh[p], tried) = {} THEN Refused(f) ELSE Served(a)
  BY <1>1, <1>2, <1>3, <1>4, <1>5 DEF MixedAnswer
<1>7. (\A p \in Providers : OpenAt(sh[p], tried) = {}) <=> (FreeOf(Providers, tried) = {})
  BY <1>1, MixedRefuses
<1>8. CASE FreeOf(Providers, tried) = {}
  <2>1. f = Reason(Candidates(Providers, tried))
    <3>1. \A q \in Providers : sh[q] = Ensured(shard[q])
      BY <1>1
    <3>2. QED
      BY <1>4, <1>8, <3>1, FailureIsReason
  <2>2. [error |-> f.error, reset |-> f.reset] = f
    BY <2>1 DEF Reason
  <2>3. x.auth = Nobody /\ x.error = f.error /\ x.reset = f.reset
    BY <1>6, <1>7, <1>8 DEF Refused
  <2>4. Agrees(x, Providers, FALSE, tried)
    BY <1>8, <2>1, <2>2, <2>3 DEF Agrees
  <2>5. QED
    BY <1>5, <2>4
<1>9. CASE FreeOf(Providers, tried) # {}
  <2>1. a \in Preferred(FreeOf(Providers, tried), FALSE)
    BY <1>1, <1>2, <1>3, <1>9, MixedPick
  <2>2. x.auth = a
    BY <1>6, <1>7, <1>9 DEF Served
  <2>3. a # Nobody
    BY <2>1, SchedulerAssumption DEF Preferred, BestOf, FreeOf, Candidates, Nobody
  <2>4. Agrees(x, Providers, FALSE, tried)
    BY <2>1, <2>2, <2>3 DEF Agrees, Best
  <2>5. QED
    BY <1>5, <2>4
<1>10. QED
  BY <1>8, <1>9

\* pickSingle and pickMixed serve whom the selectors would, and refuse when
\* they would, with their reason and their time to wait, as long as no
\* credential's quota recovers later than the credential may be tried again.
THEOREM PicksAsSelectors ==
  ASSUME \A s \in Snapshots : Recovers(s)
  PROVE  Spec => []SelectorAgrees
<1>1. Init => IInv /\ AllSteady
  BY InitInv, InitSteady
<1>2. (IInv /\ AllSteady) /\ [Next]_vars => (IInv /\ AllSteady)'
  BY StepInv, StepSteady
<1>3. IInv /\ AllSteady => SelectorAgrees
  BY SingleAgrees, MixedAgrees DEF SelectorAgrees
<1>4. QED
  BY <1>1, <1>2, <1>3, PTL DEF Spec

------------------------------------------------------------------------------
\* Division leaves one remainder.
LEMMA Remainder ==
  ASSUME NEW a \in Int, NEW n \in Nat, n > 0
  PROVE  /\ a % n \in 0..n-1
         /\ \A k \in Int, r \in 0..n-1 : a = k * n + r => r = a % n
<1>1. a % n \in 0..n-1
  OBVIOUS
<1>2. PICK q \in Int, s \in 0..n-1 : s = a % n /\ a = q * n + s
  <2>1. (a \div n) \in Int /\ a = (n * (a \div n)) + (a % n)
    OBVIOUS
  <2>2. n * (a \div n) = (a \div n) * n
    BY <2>1
  <2>3. QED
    BY <1>1, <2>1, <2>2
<1>3. ASSUME NEW k \in Int, NEW r \in 0..n-1, a = k * n + r
      PROVE  r = a % n
  <2>1. k * n \in Int /\ q * n \in Int /\ k * n - q * n = s - r
    <3>1. PICK x \in Int, y \in Int : x = k * n /\ y = q * n
      OBVIOUS
    <3>2. a = x + r /\ a = y + s
      BY <1>2, <1>3, <3>1
    <3>3. QED
      BY <3>1, <3>2
  <2>2. (k - q) * n = s - r
    <3>1. (k - q) * n = k * n - q * n
      OBVIOUS
    <3>2. QED
      BY <2>1, <3>1
  <2>3. ASSUME NEW d \in Int, d >= 1 PROVE d * n >= n
    BY <2>3
  <2>4. ~(k - q >= 1)
    <3>1. ASSUME k - q >= 1 PROVE (k - q) * n >= n
      BY <2>3, <3>1
    <3>2. QED
      BY <2>2, <3>1
  <2>5. ~(q - k >= 1)
    <3>1. ASSUME q - k >= 1 PROVE (q - k) * n >= n
      BY <2>3, <3>1
    <3>2. (q - k) * n = r - s
      BY <2>2
    <3>3. QED
      BY <3>1, <3>2
  <2>6. k = q
    BY <2>4, <2>5
  <2>7. QED
    BY <1>2, <1>3, <2>6
<1>4. QED
  BY <1>1, <1>3

\* Remainders add up.
LEMMA RemainderAdds ==
  ASSUME NEW a \in Int, NEW b \in Int, NEW n \in Nat, n > 0
  PROVE  ((a % n) + b) % n = (a + b) % n
<1>1. PICK q \in Int, s \in 0..n-1 : s = a % n /\ a = q * n + s
  OBVIOUS
<1>2. PICK k \in Int, r \in 0..n-1 : r = (s + b) % n /\ s + b = k * n + r
  OBVIOUS
<1>3. a + b = (q + k) * n + r
  <2>1. PICK x \in Int, y \in Int : x = k * n /\ y = q * n
    OBVIOUS
  <2>2. (q + k) * n = y + x
    BY <2>1
  <2>3. QED
    BY <1>1, <1>2, <2>1, <2>2
<1>4. r = (a + b) % n
  <2>1. a + b \in Int /\ q + k \in Int
    OBVIOUS
  <2>2. QED
    BY ONLY <1>3, <2>1, n \in Nat, n > 0, r \in 0..n-1, Remainder
<1>5. QED
  BY <1>1, <1>2, <1>4

\* Within the modulus a remainder is the number itself.
LEMMA RemainderSmall ==
  ASSUME NEW n \in Nat, NEW a \in 0..n-1
  PROVE  a % n = a
<1>1. a = 0 * n + a
  OBVIOUS
<1>2. QED
  BY <1>1, Remainder

\* Less than a whole round makes a difference.
LEMMA RemainderMoves ==
  ASSUME NEW n \in Nat, NEW a \in 0..n-1, NEW d \in 1..n-1
  PROVE  (a + d) % n # a
<1>1. SUFFICES ASSUME (a + d) % n = a PROVE FALSE
  OBVIOUS
<1>2. CASE a + d < n
  <2>1. (a + d) % n = a + d
    BY <1>2, RemainderSmall
  <2>2. QED
    BY <1>1, <2>1
<1>3. CASE a + d >= n
  <2>1. a + d - n \in 0..n-1 /\ a + d = 1 * n + (a + d - n)
    BY <1>3
  <2>2. (a + d) % n = a + d - n
    BY <2>1, Remainder
  <2>3. QED
    BY <1>1, <2>2
<1>4. QED
  BY <1>2, <1>3

------------------------------------------------------------------------------
(***************************************************************************)
(* Taking turns.  Each credential has a position, modulo the number m of   *)
(* positions, the picks go from position to position, and the cursor       *)
(* stands behind the last.                                                 *)
(***************************************************************************)

\* The members of own in q take turns: each is one place further round than
\* the one before it, and the cursor c is behind the last.
InTurn(q, own, pos, m, c) ==
    /\ \A j, k \in 1..Len(q) : j <= k /\ (\A i \in j..k : q[i] \in own) =>
          pos[q[k]] = (pos[q[j]] + (k - j)) % m
    /\ Len(q) > 0 /\ q[Len(q)] \in own => c % m = (pos[q[Len(q)]] + 1) % m

\* A pick whose turn it is, or of somebody else, keeps the turns.
LEMMA TurnTaken ==
  ASSUME NEW S, NEW q \in Seq(S), NEW a \in S, NEW own, NEW m \in Nat, NEW pos \in [own -> 0..m-1],
         NEW c \in Nat, NEW d \in Nat, InTurn(q, own, pos, m, c),
         a \in own => pos[a] = c % m /\ d = pos[a] + 1
  PROVE  Append(q, a) \in Seq(S) /\ InTurn(Append(q, a), own, pos, m, d)
<1>1. PICK l \in Nat : l = Len(q)
  OBVIOUS
<1>2. PICK t : t = Append(q, a)
  OBVIOUS
<1>3. t \in Seq(S) /\ Len(t) = l + 1 /\ t[l + 1] = a /\ \A i \in 1..l : t[i] = q[i]
  BY <1>1, <1>2, AppendProperties
<1>4. ASSUME NEW j \in 1..l+1, NEW k \in 1..l+1, j <= k, \A i \in j..k : t[i] \in own
      PROVE  pos[t[k]] = (pos[t[j]] + (k - j)) % m
  <2>1. t[j] \in own /\ t[k] \in own /\ pos[t[j]] \in 0..m-1 /\ m > 0
    BY <1>4
  <2>2. CASE k <= l
    <3>1. \A i \in j..k : q[i] \in own /\ t[i] = q[i]
      <4>1. \A i \in j..k : i \in 1..l
        BY <2>2
      <4>2. QED
        BY ONLY <1>3, <1>4, <4>1
    <3>2. j \in 1..l /\ k \in 1..l
      BY <1>4, <2>2
    <3>3. pos[q[k]] = (pos[q[j]] + (k - j)) % m
      BY <1>1, <1>4, <3>1, <3>2 DEF InTurn
    <3>4. j \in j..k /\ k \in j..k
      BY <1>4
    <3>5. t[j] = q[j] /\ t[k] = q[k]
      BY <3>1, <3>4
    <3>6. QED
      BY ONLY <3>3, <3>5
  <2>3. CASE k = l + 1 /\ j = l + 1
    <3>1. PICK x \in 0..m-1 : x = pos[t[j]]
      BY <2>1
    <3>2. x % m = x
      BY <3>1, RemainderSmall
    <3>3. x + (k - j) = x
      BY <2>3, <3>1
    <3>4. QED
      BY <2>3, <3>1, <3>2, <3>3
  <2>4. CASE k = l + 1 /\ j <= l
    <3>1. \A i \in j..l : q[i] \in own /\ t[i] = q[i]
      BY <1>3, <1>4, <2>4
    <3>2. l \in 1..l /\ j \in 1..l
      BY <1>4, <2>4
    <3>3. q[l] \in own /\ q[j] \in own /\ t[j] = q[j]
      BY <3>1, <3>2
    <3>4. pos[q[l]] = (pos[q[j]] + (l - j)) % m
      <4>1. \A x, y \in 1..l : x <= y /\ (\A i \in x..y : q[i] \in own) => pos[q[y]] = (pos[q[x]] + (y - x)) % m
        BY <1>1 DEF InTurn
      <4>2. j \in 1..l /\ j <= l
        BY <1>4, <2>4
      <4>3. QED
        BY <3>1, <3>2, <4>1, <4>2
    <3>5. c % m = (pos[q[l]] + 1) % m
      BY <1>1, <3>2, <3>3 DEF InTurn
    <3>6. pos[t[k]] = c % m
      BY <1>3, <2>1, <2>4
    <3>7. PICK x \in 0..m-1 : x = pos[q[j]]
      BY <3>3
    <3>8. (((x + (l - j)) % m) + 1) % m = ((x + (l - j)) + 1) % m
      BY <2>1, RemainderAdds
    <3>9. (x + (l - j)) + 1 = x + (k - j)
      BY <2>4, <3>2
    <3>10. QED
      BY <3>3, <3>4, <3>5, <3>6, <3>7, <3>8, <3>9
  <2>5. QED
    BY <1>4, <2>2, <2>3, <2>4
<1>5. ASSUME t[l + 1] \in own
      PROVE  d % m = (pos[t[l + 1]] + 1) % m
  BY <1>3, <1>5
<1>6. QED
  BY <1>2, <1>3, <1>4, <1>5 DEF InTurn

\* So does forgetting the first.
LEMMA TurnForgotten ==
  ASSUME NEW S, NEW q \in Seq(S), q # <<>>, NEW own, NEW m, NEW pos, NEW c, InTurn(q, own, pos, m, c)
  PROVE  Tail(q) \in Seq(S) /\ InTurn(Tail(q), own, pos, m, c)
<1>1. PICK l \in Nat : l = Len(q) /\ l > 0
  BY EmptySeq
<1>2. PICK t : t = Tail(q)
  OBVIOUS
<1>3. t \in Seq(S) /\ Len(t) = l - 1 /\ \A i \in 1..l-1 : t[i] = q[i + 1]
  BY <1>1, <1>2, HeadTailProperties
<1>4. ASSUME NEW j \in 1..l-1, NEW k \in 1..l-1, j <= k, \A i \in j..k : t[i] \in own
      PROVE  pos[t[k]] = (pos[t[j]] + (k - j)) % m
  <2>1. j + 1 \in 1..l /\ k + 1 \in 1..l /\ j + 1 <= k + 1
    BY <1>4
  <2>2. \A i \in j+1..k+1 : q[i] \in own
    <3>1. SUFFICES ASSUME NEW i \in j+1..k+1 PROVE q[i] \in own
      OBVIOUS
    <3>2. i - 1 \in j..k /\ i - 1 \in 1..l-1 /\ (i - 1) + 1 = i
      BY <1>4
    <3>3. t[i - 1] = q[i]
      BY <1>3, <3>2
    <3>4. QED
      BY <1>4, <3>2, <3>3
  <2>3. pos[q[k + 1]] = (pos[q[j + 1]] + ((k + 1) - (j + 1))) % m
    BY <1>1, <2>1, <2>2 DEF InTurn
  <2>4. (k + 1) - (j + 1) = k - j /\ t[k] = q[k + 1] /\ t[j] = q[j + 1]
    BY <1>3, <1>4
  <2>5. QED
    BY <2>3, <2>4
<1>5. ASSUME l - 1 > 0, t[l - 1] \in own
      PROVE  c % m = (pos[t[l - 1]] + 1) % m
  <2>1. t[l - 1] = q[l]
    BY <1>3, <1>5
  <2>2. QED
    BY <1>1, <1>5, <2>1 DEF InTurn
<1>6. QED
  BY <1>2, <1>3, <1>4, <1>5 DEF InTurn

\* So any m of them in a row are in different places.
LEMMA TurnsDiffer ==
  ASSUME NEW S, NEW q \in Seq(S), NEW own, NEW m \in Nat, NEW pos \in [own -> 0..m-1], NEW c,
         InTurn(q, own, pos, m, c), NEW j \in 1..Len(q), NEW k \in 1..Len(q), j < k, k - j < m,
         \A i \in j..k : q[i] \in own
  PROVE  pos[q[j]] # pos[q[k]]
<1>1. PICK l \in Nat : l = Len(q)
  OBVIOUS
<1>2. j \in j..k /\ j <= k /\ k - j \in 1..m-1 /\ j \in Nat /\ k \in Nat
  BY <1>1
<1>3. PICK x \in 0..m-1 : x = pos[q[j]]
  BY <1>2
<1>4. pos[q[k]] = (x + (k - j)) % m
  BY <1>2, <1>3 DEF InTurn
<1>5. (x + (k - j)) % m # x
  BY <1>2, <1>3, RemainderMoves
<1>6. QED
  BY <1>3, <1>4, <1>5

\* The ranks in a finite set of numbers are those below its size, each one's
\* once.
LEMMA RanksAll ==
  ASSUME NEW S, S \subseteq Int, IsFiniteSet(S), NEW n \in Nat, n = Cardinality(S)
  PROVE  /\ \A x \in S : Rank(S, x) \in 0..n-1
         /\ \A x, y \in S : Rank(S, x) = Rank(S, y) => x = y
         /\ \A k \in 0..n-1 : \E x \in S : Rank(S, x) = k
<1> DEFINE B(x) == {y \in S : y < x}
<1>1. ASSUME NEW x \in S, NEW T, IsFiniteSet(T), T \subseteq S, B(x) \union {x} \subseteq T
      PROVE  Rank(S, x) \in Nat /\ Cardinality(T) \in Nat /\ Rank(S, x) + 1 <= Cardinality(T)
  <2>1. x \notin B(x) /\ IsFiniteSet(B(x)) /\ Rank(S, x) = Cardinality(B(x))
    <3>1. IsFiniteSet(B(x))
      BY FS_Subset
    <3>2. QED
      BY <3>1 DEF Rank
  <2>2. Cardinality(B(x)) \in Nat /\ Cardinality(T) \in Nat
    BY <1>1, <2>1, FS_CardinalityType
  <2> HIDE DEF B
  <2>3. Cardinality(B(x) \union {x}) = Cardinality(B(x)) + 1
    BY <2>1, FS_AddElement
  <2>4. Cardinality(B(x) \union {x}) <= Cardinality(T)
    BY <1>1, FS_Subset
  <2>5. QED
    BY <2>1, <2>2, <2>3, <2>4
<1>2. ASSUME NEW x \in S PROVE Rank(S, x) \in 0..n-1
  <2>1. B(x) \union {x} \subseteq S
    OBVIOUS
  <2> HIDE DEF B
  <2>2. QED
    BY <1>1, <2>1
<1>3. ASSUME NEW x \in S, NEW y \in S, x < y PROVE Rank(S, x) < Rank(S, y)
  <2>1. B(x) \union {x} \subseteq B(y) /\ B(y) \subseteq S /\ IsFiniteSet(B(y))
    <3>1. IsFiniteSet(B(y)) /\ B(y) \subseteq S
      BY FS_Subset
    <3>2. ASSUME NEW z \in B(x) \union {x} PROVE z \in B(y)
      <4>1. z \in S /\ (z < x \/ z = x) /\ z \in Int /\ x \in Int /\ y \in Int
        BY <3>2
      <4>2. z < y
        BY <1>3, <4>1
      <4>3. QED
        BY <4>1, <4>2
    <3>3. QED
      BY <3>1, <3>2
  <2>2. Rank(S, y) = Cardinality(B(y))
    BY DEF Rank
  <2> HIDE DEF B
  <2>3. Rank(S, x) \in Nat /\ Cardinality(B(y)) \in Nat /\ Rank(S, x) + 1 <= Cardinality(B(y))
    BY <1>1, <2>1
  <2>4. QED
    BY <2>2, <2>3
<1>4. ASSUME NEW x \in S, NEW y \in S, Rank(S, x) = Rank(S, y) PROVE x = y
  <2>1. Rank(S, x) \in Int /\ ~(x < y) /\ ~(y < x)
    BY <1>2, <1>3, <1>4
  <2>2. QED
    BY <2>1
<1> DEFINE f == [x \in S |-> Rank(S, x)]
<1>5. f \in Injection(S, 0..n-1)
  BY <1>2, <1>4 DEF Injection, IsInjective
<1>6. IsFiniteSet(0..n-1) /\ Cardinality(0..n-1) = n
  <2>1. n - 1 \in Int /\ (IF 0 > n - 1 THEN 0 ELSE (n - 1) - 0 + 1) = n
    OBVIOUS
  <2>2. QED
    BY <2>1, FS_Interval
<1>7. \A x \in S : f[x] = Rank(S, x)
  OBVIOUS
<1> HIDE DEF f
<1>8. f \in Surjection(S, 0..n-1)
  BY <1>5, <1>6, FS_Injection
<1>9. \A k \in 0..n-1 : \E x \in S : Rank(S, x) = k
  BY <1>7, <1>8 DEF Surjection
<1>10. QED
  BY <1>2, <1>4, <1>9

\* With all of the view to choose from, the nearest is the one whose turn it
\* is.
LEMMA NearestOfAll ==
  ASSUME NEW S, S \subseteq Int, IsFiniteSet(S), NEW n \in Nat, n = Cardinality(S), S # {}, NEW c \in Nat
  PROVE  /\ n > 0 /\ Nearest(S, c, S) \in S
         /\ Rank(S, Nearest(S, c, S)) = c % n /\ Past(S, Nearest(S, c, S)) = (c % n) + 1
<1>1. n > 0
  BY FS_EmptySet
<1>2. /\ \A x \in S : Rank(S, x) \in 0..n-1
      /\ \A k \in 0..n-1 : \E x \in S : Rank(S, x) = k
  BY RanksAll
<1>3. PICK q \in Int, s \in 0..n-1 : s = c % n /\ c = q * n + s
  <2>1. (c \div n) \in Int /\ c = (n * (c \div n)) + (c % n) /\ c % n \in 0..n-1
    BY <1>1
  <2>2. n * (c \div n) = (c \div n) * n
    BY <2>1
  <2>3. QED
    BY <2>1, <2>2
<1>4. \A x \in S : Distance(S, c, x) = (Rank(S, x) - c) % n
  BY DEF Distance
<1>5. PICK x \in S : Rank(S, x) = s
  BY <1>2
<1>6. Distance(S, c, x) = 0
  <2>1. s - c = (0 - q) * n + 0
    <3>1. PICK y \in Int : y = q * n
      OBVIOUS
    <3>2. (0 - q) * n = 0 - y
      BY <3>1
    <3>3. QED
      BY <1>3, <3>1, <3>2
  <2>2. s - c \in Int /\ 0 - q \in Int /\ 0 \in 0..n-1
    BY <1>1
  <2>3. (s - c) % n = 0
    BY <1>1, <2>1, <2>2, Remainder
  <2>4. QED
    BY <1>4, <1>5, <2>3
<1>7. \A y \in S : Distance(S, c, y) \in 0..n-1
  <2>1. ASSUME NEW y \in S PROVE Distance(S, c, y) \in 0..n-1
    <3>1. PICK r \in Int : r = Rank(S, y)
      BY <1>2
    <3>2. (r - c) % n \in 0..n-1
      BY <1>1
    <3>3. QED
      BY <1>4, <3>1, <3>2
  <2>2. QED
    BY <2>1
<1>8. PICK a : a = Nearest(S, c, S)
  OBVIOUS
<1>9. a \in S /\ \A y \in S : Distance(S, c, a) <= Distance(S, c, y)
  <2>1. \A y \in S : Distance(S, c, x) <= Distance(S, c, y)
    BY <1>6, <1>7
  <2>2. QED
    BY <1>8, <2>1 DEF Nearest
<1>10. Distance(S, c, a) = 0
  BY <1>5, <1>6, <1>7, <1>9
<1>11. PICK r \in 0..n-1 : r = Rank(S, a)
  BY <1>2, <1>9
<1>12. (r - c) % n = 0
  BY <1>4, <1>9, <1>10, <1>11
<1>13. r = s
  <2>1. (((r - c) % n) + c) % n = ((r - c) + c) % n
    <3>1. PICK d \in Int : d = r - c
      OBVIOUS
    <3>2. ((d % n) + c) % n = (d + c) % n
      BY <1>1, RemainderAdds
    <3>3. QED
      BY <3>1, <3>2
  <2>2. (r - c) + c = r /\ 0 + c = c
    OBVIOUS
  <2>3. r % n = r
    BY RemainderSmall
  <2>4. QED
    BY <1>3, <1>12, <2>1, <2>2, <2>3
<1>14. QED
  BY <1>1, <1>3, <1>8, <1>9, <1>11, <1>13 DEF Past

\* Credentials are ranked as numbers are.
LEMMA AuthsAreNumbers ==
  ASSUME NEW T, T \subseteq Auths
  PROVE  T \subseteq Nat /\ T \subseteq Int
<1>1. Auths \subseteq Nat
  BY SchedulerAssumption
<1>2. Nat \subseteq Int
  OBVIOUS
<1>3. QED
  BY <1>1, <1>2

\* The parents of the credentials T, of which M says what their snapshots
\* are.
ParentsOf(T, M) == {M[a].parent : a \in T}
\* M are the snapshots of S.
Shows(M, S) == \A a \in S : M[a] = Meta(a)

\* Whose turn it is at a cursor.
Turn(c, n) == c % n

\* A websocket request looks at the websocket view.
Sockets(st, i, ws) == ws /\ WsBucket(st, i) # {}

\* Whether a request that wants websockets is served from the websocket view,
\* and whether a view goes from parent to parent, for credentials T with the
\* snapshots M.
BySocket(T, M, ws) == ws /\ \E a \in T : M[a].ws
Splits(T, M) == NoParent \notin ParentsOf(T, M) /\ Cardinality(ParentsOf(T, M)) > 1

\* pickReadyAtPriorityLocked, with nobody tried: a credential of the flat
\* view whose turn it is, or of the parent whose turn it is.
LEMMA FlatTurn ==
  ASSUME NEW st, Sound(st), st.built, Steady(st), NEW i \in Priorities, NEW ws,
         ~Sockets(st, i, ws),
         NEW T, T = Bucket(st, i), T # {}, NEW M, \A a \in T : st.ready[a].parent = M[a].parent,
         NEW n \in Nat, n = Cardinality(T), NEW m \in Nat, m = Cardinality(ParentsOf(T, M)),
         NEW c, c = st.cursors[i], NEW fill, ~fill, NEW tried, tried = {}, NEW r, r = PickAt(st, i, ws, fill, tried)
  PROVE  /\ r.auth \in T /\ n > 0 /\ c \in Cursors
         /\ IsFiniteSet(ParentsOf(T, M)) /\ ParentsOf(T, M) \subseteq Int /\ m > 0
         /\ Splits(T, M) => /\ Rank(ParentsOf(T, M), M[r.auth].parent) = Turn(c.parent, m)
                         /\ r.cursors.parent = Turn(c.parent, m) + 1
         /\ ~Splits(T, M) => Rank(T, r.auth) = Turn(c.flat, n) /\ r.cursors.flat = Turn(c.flat, n) + 1
<1> DEFINE G == ParentsOf(T, M)
<1>1. Known(st) /\ DOMAIN st.entry \subseteq DOMAIN st.metas /\ Fits(st)
  BY DEF Sound, Filed
<1>2. /\ T \subseteq Auths /\ IsFiniteSet(T)
      /\ Groups(st, i) \subseteq Parents \union {NoParent} /\ IsFiniteSet(Groups(st, i))
      /\ \A h : IsFiniteSet(Group(st, i, h)) /\ Group(st, i, h) \subseteq T
  BY <1>1, ViewsFinite
<1>3. Groups(st, i) = G /\ (Grouped(st, i) <=> Splits(T, M))
  <2>1. Groups(st, i) = G
    BY DEF Groups, ParentsOf
  <2>2. QED
    BY <2>1 DEF Grouped, Splits
<1>4. \A h : Group(st, i, h) = {a \in T : M[a].parent = h}
  BY DEF Group
<1>5. c \in Cursors /\ c.flat \in Nat /\ c.parent \in Nat /\ c.child \in [Parents -> Nat]
  BY DEF Steady, CursorsOK, Cursors
<1>6. T \subseteq Int /\ G \subseteq Int /\ IsFiniteSet(G) /\ G # {} /\ G \subseteq Nat
  <2>1. Parents \subseteq Nat /\ NoParent \in Nat
    BY SchedulerAssumption DEF NoParent
  <2>2. G \subseteq Nat /\ IsFiniteSet(G)
    BY <1>2, <1>3, <2>1
  <2>3. G # {}
    BY DEF ParentsOf
  <2>4. Nat \subseteq Int
    OBVIOUS
  <2>5. QED
    BY <1>2, <2>2, <2>3, <2>4, AuthsAreNumbers
<1>7. n > 0 /\ m > 0
  BY <1>2, <1>6, FS_EmptySet
<1>8. PICK a : a = Nearest(T, c.flat, T)
  OBVIOUS
<1>9. PICK g : g = Nearest(G, c.parent, G)
  OBVIOUS
<1>10. PICK K : K = Group(st, i, g)
  OBVIOUS
<1>11. PICK b : b = Nearest(K, c.child[g], K)
  OBVIOUS
<1>12. r = IF Splits(T, M) THEN [auth |-> b, cursors |-> PastBoth(c, G, g, K, b)]
           ELSE [auth |-> a, cursors |-> [c EXCEPT !["flat"] = Past(T, a)]]
  <2>1. {h \in Groups(st, i) : Group(st, i, h) \ {} # {}} = G
    BY <1>3, <1>4 DEF ParentsOf
  <2>2. T \ {} = T /\ K \ {} = K
    OBVIOUS
  <2>3. ~(ws /\ WsBucket(st, i) \ {} # {})
    BY DEF Sockets
  <2>4. QED
    BY <1>3, <1>8, <1>9, <1>10, <1>11, <2>1, <2>2, <2>3 DEF PickAt, Sockets
<1>13. a \in T /\ Rank(T, a) = c.flat % n /\ Past(T, a) = (c.flat % n) + 1
  BY <1>2, <1>5, <1>6, <1>8, NearestOfAll
<1>14. g \in G /\ Rank(G, g) = c.parent % m /\ Past(G, g) = (c.parent % m) + 1
  <2> HIDE DEF G
  <2>1. m = Cardinality(G)
    BY DEF G
  <2>2. QED
    BY <1>5, <1>6, <1>9, <2>1, NearestOfAll, ZenonT(40)
<1>15. CASE ~Splits(T, M)
  <2>1. DOMAIN c = {"flat", "ws", "parent", "child"}
    BY <1>5 DEF Cursors
  <2>2. r = [auth |-> a, cursors |-> [c EXCEPT !["flat"] = Past(T, a)]]
    BY <1>12, <1>15
  <2>3. r.auth = a /\ r.cursors = [c EXCEPT !["flat"] = Past(T, a)]
    BY ONLY <2>2
  <2>4. r.cursors.flat = Past(T, a)
    BY <2>1, <2>3
  <2>5. QED
    BY <1>5, <1>6, <1>7, <1>13, <1>15, <2>3, <2>4 DEF Turn
<1>16. CASE Splits(T, M)
  <2>1. g \in Parents
    BY <1>2, <1>3, <1>14, <1>16 DEF Splits
  <2>2. K # {} /\ K \subseteq T /\ IsFiniteSet(K) /\ \A x \in K : M[x].parent = g
    BY <1>2, <1>4, <1>10, <1>14 DEF ParentsOf
  <2>3. c.child[g] \in Nat
    BY <1>5, <2>1
  <2>4. b \in K
    BY <1>11, <2>2, <2>3, NearestIn
  <2>5. DOMAIN c = {"flat", "ws", "parent", "child"}
    BY <1>5 DEF Cursors
  <2>6. r.auth = b /\ r.cursors = PastBoth(c, G, g, K, b)
    <3>1. r = [auth |-> b, cursors |-> PastBoth(c, G, g, K, b)]
      BY <1>12, <1>16
    <3>2. QED
      BY ONLY <3>1
  <2>7. PastBoth(c, G, g, K, b).parent = Past(G, g)
    BY <2>5 DEF PastBoth
  <2>8. QED
    BY <1>5, <1>6, <1>7, <1>14, <1>16, <2>2, <2>4, <2>6, <2>7 DEF Turn
<1>17. QED
  BY <1>15, <1>16

\* A credential of the websocket view whose turn it is.
LEMMA SocketTurn ==
  ASSUME NEW st, Sound(st), st.built, Steady(st), NEW i \in Priorities, NEW ws, Sockets(st, i, ws),
         NEW T, T = WsBucket(st, i),
         NEW n \in Nat, n = Cardinality(T),
         NEW c, c = st.cursors[i], NEW fill, ~fill, NEW tried, tried = {}, NEW r, r = PickAt(st, i, ws, fill, tried)
  PROVE  /\ r.auth \in T /\ n > 0 /\ c \in Cursors
         /\ Rank(T, r.auth) = Turn(c.ws, n) /\ r.cursors.ws = Turn(c.ws, n) + 1
<1>1. Known(st) /\ DOMAIN st.entry \subseteq DOMAIN st.metas /\ Fits(st)
  BY DEF Sound, Filed
<1>2. T \subseteq Auths /\ IsFiniteSet(T)
  BY <1>1, ViewsFinite
<1>3. c \in Cursors /\ c.ws \in Nat /\ DOMAIN c = {"flat", "ws", "parent", "child"}
  BY DEF Steady, CursorsOK, Cursors
<1>4. T \subseteq Int
  BY <1>2, AuthsAreNumbers
<1>5. PICK a : a = Nearest(T, c.ws, T)
  OBVIOUS
<1>6. r = [auth |-> a, cursors |-> [c EXCEPT !["ws"] = Past(T, a)]]
  <2>1. T \ {} = T /\ "ws" # "flat" /\ ws /\ T # {}
    BY DEF Sockets
  <2>2. QED
    BY <1>5, <2>1 DEF PickAt
<1>7. n > 0 /\ a \in T /\ Rank(T, a) = c.ws % n /\ Past(T, a) = (c.ws % n) + 1
  <2>1. T # {}
    BY DEF Sockets
  <2>2. QED
    BY <2>1, <1>2, <1>3, <1>4, <1>5, NearestOfAll
<1>8. r.auth = a /\ r.cursors.ws = Past(T, a)
  <2>1. r.auth = a /\ r.cursors = [c EXCEPT !["ws"] = Past(T, a)]
    BY ONLY <1>6
  <2>2. QED
    BY <1>3, <2>1
<1>9. QED
  BY <1>3, <1>7, <1>8 DEF Turn

\* The preferred are those at one priority.
LEMMA PreferredAre ==
  ASSUME NEW S, S \subseteq Auths, S # {}, \A a \in S : Meta(a).prio \in Priorities,
         NEW P, \A i : (i \in P) <=> (\E a \in S : Meta(a).prio = i)
  PROVE  BestOf(S) = {a \in S : Meta(a).prio = Highest(P)} /\ BestOf(S) # {}
<1>1. /\ \E a \in S : Meta(a).prio = Highest(P)
      /\ \A a \in S : Meta(a).prio = Highest(P) => a \in BestOf(S)
  BY HighestOf
<1>2. PICK x \in BestOf(S) : Meta(x).prio = Highest(P)
  BY <1>1
<1>3. ASSUME NEW a \in BestOf(S) PROVE Meta(a).prio = Highest(P)
  <2>1. a \in S /\ x \in S /\ Meta(a).prio <= Meta(x).prio /\ Meta(x).prio <= Meta(a).prio
    BY <1>2 DEF BestOf
  <2>2. Meta(a).prio \in Int /\ Meta(x).prio \in Int
    BY <2>1, SchedulerAssumption
  <2>3. QED
    BY <1>2, <2>1, <2>2
<1>4. BestOf(S) \subseteq S
  BY DEF BestOf
<1>5. QED
  BY <1>1, <1>3, <1>4

\* What a request of one provider looks at: the credentials S, of priority i.
Views(st, S, M, ws, i) ==
    /\ i \in Priorities /\ S # {} /\ S \subseteq Auths /\ \A a \in S : M[a].prio = i
    /\ \A a \in Bucket(st, i) : st.ready[a].parent = Meta(a).parent
    /\ BySocket(S, M, ws) => WsBucket(st, i) = S /\ Sockets(st, i, ws)
    /\ ~BySocket(S, M, ws) => Bucket(st, i) = S /\ ~Sockets(st, i, ws)

\* The view a single pick looks at is the preferred.
LEMMA BucketSeen ==
  ASSUME IInv, AllSteady, NEW p \in Providers, NEW ws, NEW st, st = Ensured(shard[p]),
         NEW tried, tried = {}, NEW F, F = FreeOf({p}, tried), F # {}, NEW S, S = Preferred(F, ws), NEW M, Shows(M, S),
         NEW i, i = PickPriority(st, ws, tried)
  PROVE  Views(st, S, M, ws, i)
<1> DEFINE W == {b \in F : Meta(b).ws}
<1>1. Offers(st, {}, F)
  <2>1. Offers(st, tried, F)
    BY FreeIsReady
  <2>2. QED
    BY <2>1
<1>2. F \subseteq Auths
  BY DEF FreeOf, Candidates
<1>3. i = IF ws /\ WsOpenAt(st, {}) # {} THEN Highest(WsOpenAt(st, {})) ELSE Highest(OpenAt(st, {}))
  BY DEF PickPriority
<1>4. (WsOpenAt(st, {}) # {}) <=> (W # {})
  <2>1. (WsOpenAt(st, {}) # {}) <=> \E j : j \in WsOpenAt(st, {})
    OBVIOUS
  <2>2. (W # {}) <=> \E a \in F : Meta(a).ws
    OBVIOUS
  <2>3. QED
    BY <1>1, <2>1, <2>2 DEF Offers
<1>5. S = BestOf(IF ws /\ W # {} THEN W ELSE F)
  BY DEF Preferred
<1>6. /\ \A j, a : (a \in Bucket(st, j)) <=> (a \in F /\ Meta(a).prio = j)
      /\ \A j, a : (a \in WsBucket(st, j)) <=> (a \in F /\ Meta(a).prio = j /\ Meta(a).ws)
      /\ \A a \in F : Meta(a).prio \in Priorities
  BY <1>1 DEF Offers
<1>7. \A a \in Bucket(st, i) : st.ready[a].parent = Meta(a).parent
  <2>1. Sound(st) /\ st.built /\ \A a \in DOMAIN st.entry : st.metas[a] = Meta(a)
    BY ShardSeen
  <2>2. \A a \in DOMAIN st.ready : a \in DOMAIN st.entry /\ st.ready[a].parent = st.metas[a].parent
    BY <2>1 DEF Sound, Fits
  <2>3. QED
    BY <2>1, <2>2 DEF Bucket
<1>8. CASE ws /\ W # {}
  <2>1. i = Highest(WsOpenAt(st, {}))
    BY <1>3, <1>4, <1>8
  <2>2. W \subseteq Auths /\ \A a \in W : Meta(a).prio \in Priorities
    BY <1>2, <1>6
  <2>3. \A j : j \in WsOpenAt(st, {}) <=> \E a \in W : Meta(a).prio = j
    BY <1>1 DEF Offers
  <2>4. S = {a \in W : Meta(a).prio = i} /\ S # {}
    <3> HIDE DEF W
    <3>1. PICK P : P = WsOpenAt(st, {})
      OBVIOUS
    <3>2. BestOf(W) = {a \in W : Meta(a).prio = Highest(P)} /\ BestOf(W) # {}
      <4>1. W # {} /\ \A j : (j \in P) <=> (\E a \in W : Meta(a).prio = j)
        BY <1>8, <2>3, <3>1
      <4>2. QED
        BY ONLY <2>2, <4>1, PreferredAre
    <3>3. QED
      BY <1>5, <1>8, <2>1, <3>1, <3>2
  <2>5. WsBucket(st, i) = S
    BY <1>6, <2>4
  <2>6. BySocket(S, M, ws) /\ Sockets(st, i, ws) /\ i \in Priorities
    <3>1. PICK a \in S : a \in W /\ a \in F /\ Meta(a).ws /\ Meta(a).prio = i
      BY <2>4
    <3>2. i \in Priorities
      <4>1. \A x \in F : Meta(x).prio \in Priorities
        BY <1>6
      <4>2. QED
        BY <3>1, <4>1
    <3>3. QED
      BY <1>8, <2>4, <2>5, <3>1, <3>2 DEF BySocket, Sockets, Shows
  <2>7. QED
    BY <1>2, <1>7, <2>4, <2>5, <2>6 DEF Views, Shows
<1>9. CASE ~(ws /\ W # {})
  <2>1. i = Highest(OpenAt(st, {}))
    BY <1>3, <1>4, <1>9
  <2>2. \A j : j \in OpenAt(st, {}) <=> \E a \in F : Meta(a).prio = j
    BY <1>1 DEF Offers
  <2>3. S = {a \in F : Meta(a).prio = i} /\ S # {}
    <3> HIDE DEF W
    <3>1. PICK P : P = OpenAt(st, {})
      OBVIOUS
    <3>2. BestOf(F) = {a \in F : Meta(a).prio = Highest(P)} /\ BestOf(F) # {}
      <4>1. F # {} /\ \A j : (j \in P) <=> (\E a \in F : Meta(a).prio = j)
        BY <2>2, <3>1
      <4>2. \A a \in F : Meta(a).prio \in Priorities
        BY <1>6
      <4>3. QED
        BY ONLY <1>2, <4>1, <4>2, PreferredAre
    <3>3. QED
      BY <1>5, <1>9, <2>1, <3>1, <3>2
  <2>4. Bucket(st, i) = S
    BY <1>6, <2>3
  <2>5. ~Sockets(st, i, ws) /\ ~BySocket(S, M, ws) /\ i \in Priorities
    <3>1. PICK a \in S : a \in F /\ Meta(a).prio = i
      BY <2>3
    <3>2. i \in Priorities
      <4>1. \A x \in F : Meta(x).prio \in Priorities
        BY <1>6
      <4>2. QED
        BY <3>1, <4>1
    <3>3. ws => \A b \in F : ~Meta(b).ws
      BY <1>9
    <3>4. ws => WsBucket(st, i) = {} /\ \A b \in S : ~Meta(b).ws
      BY <1>6, <2>3, <3>3
    <3>5. QED
      BY <3>2, <3>4 DEF BySocket, Sockets, Shows
  <2>6. QED
    BY <1>2, <1>7, <2>3, <2>4, <2>5 DEF Views, Shows
<1>10. QED
  BY <1>8, <1>9

------------------------------------------------------------------------------
(***************************************************************************)
(* Requests of one provider: of the credentials a request chooses among a  *)
(* position is the rank in the view, or the rank of the parent.            *)
(***************************************************************************)

\* Where each stands in its view: by itself, or by its parent.
Ranks(T) == [a \in T |-> Rank(T, a)]
ParentRanks(T, M) == [a \in T |-> Rank(ParentsOf(T, M), M[a].parent)]

\* The picks q among S go round the view that a request of one provider looks
\* at.
ViewTurns(S, M, ws, c, q) ==
    IF BySocket(S, M, ws) THEN InTurn(q, S, Ranks(S), Cardinality(S), c.ws)
    ELSE IF Splits(S, M) THEN InTurn(q, S, ParentRanks(S, M), Cardinality(ParentsOf(S, M)), c.parent)
    ELSE InTurn(q, S, Ranks(S), Cardinality(S), c.flat)

\* So it is with the cursors of the priority they all have.
SingleTurns(S, M, ws, cursors, q) ==
    /\ q \in Seq(S)
    /\ \A i \in Priorities : (\A a \in S : M[a].prio = i) => ViewTurns(S, M, ws, cursors[i], q)

\* No picks are in turn.
LEMMA NoTurns ==
  ASSUME NEW S, NEW own, NEW pos, NEW m, NEW c
  PROVE  <<>> \in Seq(S) /\ InTurn(<<>>, own, pos, m, c)
<1>1. Len(<<>>) = 0 /\ 1..0 = {}
  OBVIOUS
<1>2. QED
  BY <1>1 DEF InTurn

\* Ranks count from 0.
LEMMA RanksType ==
  ASSUME NEW T, T \subseteq Int, IsFiniteSet(T)
  PROVE  Cardinality(T) \in Nat /\ Ranks(T) \in [T -> 0..Cardinality(T)-1]
<1>1. PICK n \in Nat : n = Cardinality(T)
  BY FS_CardinalityType
<1>2. \A a \in T : Rank(T, a) \in 0..n-1
  BY <1>1, RanksAll
<1>3. QED
  BY <1>1, <1>2 DEF Ranks

\* So do the ranks of parents.
LEMMA ParentRanksType ==
  ASSUME NEW T, NEW M, ParentsOf(T, M) \subseteq Int, IsFiniteSet(ParentsOf(T, M))
  PROVE  /\ Cardinality(ParentsOf(T, M)) \in Nat
         /\ ParentRanks(T, M) \in [T -> 0..Cardinality(ParentsOf(T, M))-1]
<1>1. PICK G : G = ParentsOf(T, M)
  OBVIOUS
<1>2. PICK n \in Nat : n = Cardinality(G)
  BY <1>1, FS_CardinalityType
<1>3. \A g \in G : Rank(G, g) \in 0..n-1
  BY <1>1, <1>2, RanksAll
<1>4. \A a \in T : M[a].parent \in G
  BY <1>1 DEF ParentsOf
<1>5. QED
  BY <1>1, <1>2, <1>3, <1>4 DEF ParentRanks

\* pickSingle: the turns go on.
LEMMA SingleTurn ==
  ASSUME IInv, AllSteady, NEW p \in Providers, NEW ws, NEW st, st = Ensured(shard[p]),
         NEW tried, tried = {}, NEW F, F = FreeOf({p}, tried), F # {}, NEW S, S = Preferred(F, ws), NEW M, Shows(M, S),
         NEW i, i = PickPriority(st, ws, tried), NEW fill, ~fill, NEW r, r = PickAt(st, i, ws, fill, tried),
         NEW q, SingleTurns(S, M, ws, st.cursors, q),
         NEW new, new[i] = r.cursors
  PROVE  SingleTurns(S, M, ws, new, Append(q, r.auth))
<1>1. Views(st, S, M, ws, i)
  BY ONLY IInv, AllSteady, p \in Providers, st = Ensured(shard[p]), tried = {}, F = FreeOf({p}, tried), F # {},
          S = Preferred(F, ws), Shows(M, S), i = PickPriority(st, ws, tried), BucketSeen
<1>2. /\ i \in Priorities /\ S # {} /\ S \subseteq Auths /\ \A a \in S : M[a].prio = i
      /\ \A a \in Bucket(st, i) : st.ready[a].parent = Meta(a).parent
      /\ BySocket(S, M, ws) => WsBucket(st, i) = S /\ Sockets(st, i, ws)
      /\ ~BySocket(S, M, ws) => Bucket(st, i) = S /\ ~Sockets(st, i, ws)
  BY <1>1 DEF Views
<1>3. Sound(st) /\ st.built /\ Steady(st)
  BY ShardSeen
<1>4. PICK c : c = st.cursors[i]
  OBVIOUS
<1>5. PICK d : d = r.cursors
  OBVIOUS
<1>6. PICK b : b = r.auth
  OBVIOUS
<1>7. new[i] = d
  BY <1>5
<1>8. \A a \in S : M[a] = Meta(a)
  BY DEF Shows
<1>9. q \in Seq(S) /\ ViewTurns(S, M, ws, c, q)
  BY <1>2, <1>4, <1>8 DEF SingleTurns
<1>10. S \subseteq Int /\ IsFiniteSet(S) /\ Cardinality(S) \in Nat /\ Ranks(S) \in [S -> 0..Cardinality(S)-1]
  <2>1. IsFiniteSet(S) /\ S \subseteq Int
    BY <1>2, SchedulerAssumption, FS_Subset, AuthsAreNumbers
  <2>2. QED
    BY <2>1, RanksType
<1>11. PICK n \in Nat : n = Cardinality(S)
  BY <1>10
<1>12. PICK t : t = Append(q, b)
  OBVIOUS
<1>13. t \in Seq(S) /\ ViewTurns(S, M, ws, d, t)
  <2>1. CASE BySocket(S, M, ws)
    <3>1. WsBucket(st, i) = S
      BY <1>2, <1>8, <2>1
    <3>2. /\ b \in S /\ n > 0 /\ c \in Cursors
          /\ Rank(S, b) = Turn(c.ws, n) /\ d.ws = Turn(c.ws, n) + 1
      <4>1. i \in Priorities /\ S = WsBucket(st, i) /\ Sockets(st, i, ws)
        BY <1>2, <2>1, <3>1
      <4>2. /\ r.auth \in S /\ n > 0 /\ c \in Cursors
            /\ Rank(S, r.auth) = Turn(c.ws, n) /\ r.cursors.ws = Turn(c.ws, n) + 1
        BY ONLY <1>3, <1>4, <1>11, <4>1, ~fill, r = PickAt(st, i, ws, fill, tried), tried = {}, SocketTurn
      <4>3. QED
        BY ONLY <1>5, <1>6, <4>2
    <3>3. c.ws \in Nat /\ d.ws \in Nat /\ Ranks(S)[b] = Rank(S, b) /\ Rank(S, b) \in Nat
      <4>1. c.ws \in Nat /\ d.ws \in Nat
        <5>1. c.ws \in Nat
          BY <3>2 DEF Cursors
        <5>2. Turn(c.ws, n) \in Nat
          BY <3>2, <5>1 DEF Turn
        <5>3. QED
          BY <3>2, <5>1, <5>2
      <4>2. Rank(S, b) \in Nat
        BY <1>10, RankType
      <4>3. Ranks(S)[b] = Rank(S, b)
        BY <3>2 DEF Ranks
      <4>4. QED
        BY <4>1, <4>3, <4>2
    <3>4. InTurn(q, S, Ranks(S), n, c.ws)
      BY <1>9, <1>11, <2>1 DEF ViewTurns
    <3>5. t \in Seq(S) /\ InTurn(t, S, Ranks(S), n, d.ws)
      <4>1. q \in Seq(S) /\ b \in S /\ Ranks(S) \in [S -> 0..n-1] /\ c.ws \in Nat
        BY <1>9, <1>10, <1>11, <3>2, <3>3
      <4>2. Ranks(S)[b] = c.ws % n /\ d.ws = Ranks(S)[b] + 1
        BY <3>2, <3>3 DEF Turn
      <4>3. QED
        BY ONLY <1>12, <3>3, <3>4, <4>1, <4>2, TurnTaken
    <3>6. QED
      BY <1>11, <2>1, <3>5 DEF ViewTurns
  <2>2. CASE ~BySocket(S, M, ws)
    <3>1. Bucket(st, i) = S /\ ~Sockets(st, i, ws)
      BY <1>2, <1>8, <2>2
    <3>2. \A a \in S : st.ready[a].parent = M[a].parent
      BY <1>2, <1>8, <3>1
    <3>3. Groups(st, i) = ParentsOf(S, M) /\ IsFiniteSet(Groups(st, i))
      <4>1. Groups(st, i) = ParentsOf(S, M)
        BY <3>1, <3>2 DEF Groups, ParentsOf
      <4>2. Known(st) /\ DOMAIN st.entry \subseteq DOMAIN st.metas /\ Fits(st)
        BY <1>3 DEF Sound, Filed
      <4>3. QED
        BY <4>1, <4>2, ViewsFinite
    <3>4. PICK m \in Nat : m = Cardinality(ParentsOf(S, M))
      BY <3>3, FS_CardinalityType
    <3>5. /\ b \in S /\ n > 0 /\ c \in Cursors
          /\ IsFiniteSet(ParentsOf(S, M)) /\ ParentsOf(S, M) \subseteq Int /\ m > 0
          /\ Splits(S, M) => /\ Rank(ParentsOf(S, M), M[b].parent) = Turn(c.parent, m)
                             /\ d.parent = Turn(c.parent, m) + 1
          /\ ~Splits(S, M) => Rank(S, b) = Turn(c.flat, n) /\ d.flat = Turn(c.flat, n) + 1
      <4>1. i \in Priorities /\ S = Bucket(st, i) /\ S # {}
        BY <1>2, <3>1
      <4>2. /\ r.auth \in S /\ n > 0 /\ c \in Cursors
            /\ IsFiniteSet(ParentsOf(S, M)) /\ ParentsOf(S, M) \subseteq Int /\ m > 0
            /\ Splits(S, M) => /\ Rank(ParentsOf(S, M), M[r.auth].parent) = Turn(c.parent, m)
                               /\ r.cursors.parent = Turn(c.parent, m) + 1
            /\ ~Splits(S, M) => Rank(S, r.auth) = Turn(c.flat, n) /\ r.cursors.flat = Turn(c.flat, n) + 1
        BY ONLY <1>3, <1>4, <1>11, <3>1, <3>2, <3>4, <4>1, ~fill, r = PickAt(st, i, ws, fill, tried), tried = {}, FlatTurn
      <4>3. QED
        BY ONLY <1>5, <1>6, <4>2
    <3>6. c.parent \in Nat /\ c.flat \in Nat
      BY <3>5 DEF Cursors
    <3>7. CASE Splits(S, M)
      <4>1. ParentRanks(S, M) \in [S -> 0..m-1]
        BY ONLY <3>4, <3>5, ParentRanksType
      <4>2. ParentRanks(S, M)[b] = Turn(c.parent, m) /\ d.parent = Turn(c.parent, m) + 1
        BY <3>5, <3>7 DEF ParentRanks
      <4>3. InTurn(q, S, ParentRanks(S, M), m, c.parent)
        BY <1>9, <2>2, <3>4, <3>7 DEF ViewTurns
      <4>4. d.parent \in Nat
        BY <3>5, <3>6, <4>2 DEF Turn
      <4>5. t \in Seq(S) /\ InTurn(t, S, ParentRanks(S, M), m, d.parent)
        BY <1>9, <1>12, <3>5, <3>6, <4>1, <4>2, <4>3, <4>4, TurnTaken DEF Turn
      <4>6. QED
        BY <2>2, <3>4, <3>7, <4>5 DEF ViewTurns
    <3>8. CASE ~Splits(S, M)
      <4>1. Ranks(S)[b] = Turn(c.flat, n) /\ d.flat = Turn(c.flat, n) + 1
        BY <3>5, <3>8 DEF Ranks
      <4>2. InTurn(q, S, Ranks(S), n, c.flat)
        BY <1>9, <1>11, <2>2, <3>8 DEF ViewTurns
      <4>3. d.flat \in Nat
        BY <3>5, <3>6, <4>1 DEF Turn
      <4>4. t \in Seq(S) /\ InTurn(t, S, Ranks(S), n, d.flat)
        <5>1. q \in Seq(S) /\ b \in S /\ Ranks(S) \in [S -> 0..n-1] /\ c.flat \in Nat
          BY <1>9, <1>10, <1>11, <3>5, <3>6
        <5>2. d.flat = Ranks(S)[b] + 1
          BY <4>1
        <5>3. QED
          BY ONLY <1>12, <4>1, <4>2, <4>3, <5>1, <5>2, TurnTaken DEF Turn
      <4>5. QED
        BY <1>11, <2>2, <3>8, <4>4 DEF ViewTurns
    <3>9. QED
      BY <3>7, <3>8
  <2>3. QED
    BY <2>1, <2>2
<1>14. ASSUME NEW j \in Priorities, \A a \in S : M[a].prio = j PROVE j = i
  BY <1>2, <1>8, <1>14
<1>15. QED
  BY <1>6, <1>7, <1>12, <1>13, <1>14 DEF SingleTurns

\* What turns come to.
LEMMA SingleTurnsFair ==
  ASSUME NEW S, NEW M, NEW ws, NEW cursors, NEW q, SingleTurns(S, M, ws, cursors, q),
         S \subseteq Auths, NEW i \in Priorities, \A a \in S : M[a].prio = i,
         ParentsOf(S, M) \subseteq Parents \union {NoParent}, ws => \A a \in S : M[a].ws => M[a].parent = NoParent,
         NEW j \in 1..Len(q), NEW k \in 1..Len(q), j < k
  PROVE  /\ ~Splits(S, M) /\ k - j < Cardinality(S) => q[j] # q[k]
         /\ Splits(S, M) /\ k - j < Cardinality(ParentsOf(S, M)) => M[q[j]].parent # M[q[k]].parent
<1>1. q \in Seq(S) /\ ViewTurns(S, M, ws, cursors[i], q)
  BY DEF SingleTurns
<1>2. \A l \in 1..Len(q) : q[l] \in S
  BY <1>1
<1>3. \A l \in j..k : q[l] \in S
  <2>1. PICK n \in Nat : n = Len(q)
    BY <1>1
  <2>2. QED
    BY <1>2, <2>1
<1>4. IsFiniteSet(S) /\ Cardinality(S) \in Nat /\ Ranks(S) \in [S -> 0..Cardinality(S)-1]
  BY SchedulerAssumption, FS_Subset, AuthsAreNumbers, RanksType
<1>5. ASSUME Splits(S, M), k - j < Cardinality(ParentsOf(S, M))
      PROVE  M[q[j]].parent # M[q[k]].parent
  <2>1. IsFiniteSet(ParentsOf(S, M))
    <3>1. IsFiniteSet(Parents \union {NoParent})
      BY SchedulerAssumption, FS_AddElement
    <3>2. QED
      BY <3>1, FS_Subset
  <2>2. ParentsOf(S, M) \subseteq Int
    <3>1. Parents \subseteq Nat /\ NoParent \in Nat
      BY SchedulerAssumption DEF NoParent
    <3>2. Nat \subseteq Int
      OBVIOUS
    <3>3. QED
      BY <3>1, <3>2
  <2>3. /\ Cardinality(ParentsOf(S, M)) \in Nat
        /\ ParentRanks(S, M) \in [S -> 0..Cardinality(ParentsOf(S, M))-1]
    BY <2>1, <2>2, ParentRanksType
  <2>4. ~BySocket(S, M, ws)
    BY <1>5 DEF Splits, ParentsOf, BySocket
  <2>5. InTurn(q, S, ParentRanks(S, M), Cardinality(ParentsOf(S, M)), cursors[i].parent)
    BY <1>1, <1>5, <2>4 DEF ViewTurns
  <2>6. ParentRanks(S, M)[q[j]] # ParentRanks(S, M)[q[k]]
    <3>1. PICK c : c = cursors[i].parent
      OBVIOUS
    <3>2. PICK m \in Nat : m = Cardinality(ParentsOf(S, M))
      BY <2>3
    <3>3. PICK o \in [S -> 0..m-1] : o = ParentRanks(S, M) /\ InTurn(q, S, o, m, c)
      BY <2>3, <2>5, <3>1, <3>2
    <3>4. q \in Seq(S) /\ k - j < m
      BY <1>1, <1>5, <3>2
    <3>5. QED
      BY ONLY <1>3, <3>3, <3>4, j \in 1..Len(q), k \in 1..Len(q), j < k, TurnsDiffer
  <2>7. QED
    BY <1>2, <2>6 DEF ParentRanks
<1>6. ASSUME ~Splits(S, M), k - j < Cardinality(S)
      PROVE  q[j] # q[k]
  <2>1. PICK c : InTurn(q, S, Ranks(S), Cardinality(S), c)
    BY <1>1, <1>6 DEF ViewTurns
  <2>2. Ranks(S)[q[j]] # Ranks(S)[q[k]]
    <3>1. PICK m \in Nat : m = Cardinality(S)
      BY <1>4
    <3>2. PICK o \in [S -> 0..m-1] : o = Ranks(S) /\ InTurn(q, S, o, m, c)
      BY <1>4, <2>1, <3>1
    <3>3. q \in Seq(S) /\ k - j < m
      BY <1>1, <1>6, <3>1
    <3>4. QED
      BY ONLY <1>3, <3>2, <3>3, j \in 1..Len(q), k \in 1..Len(q), j < k, TurnsDiffer
  <2>3. QED
    BY <2>2
<1>7. QED
  BY <1>5, <1>6

------------------------------------------------------------------------------
(***************************************************************************)
(* Mixed requests.  Slots are dealt to the providers in segments as wide   *)
(* as what each has ready, and who has the next slot is asked.  Which of   *)
(* its credentials it gives depends on its own cursor: a position is the   *)
(* segment's start and the rank, turned by what the cursor was off (C).    *)
(***************************************************************************)

\* Requests of all providers: with O the owners of S, each provider has a
\* segment of as many places as it has credentials, the providers one after
\* the other.
Owned(S, O, p) == {a \in S : O[a] = p}
Below(S, O, p) == {a \in S : O[a] < p}
Start(S, O, p) == Cardinality(Below(S, O, p))
Width(S, O, p) == Cardinality(Owned(S, O, p))

\* Segments lie one behind the other, in the order of the providers, and fill
\* the slots.
LEMMA SegmentsFit ==
  ASSUME NEW S, S \subseteq Auths, NEW O, \A a \in S : O[a] \in Providers, NEW n \in Nat, n = Cardinality(S)
  PROVE  \A p \in Providers :
            /\ Start(S, O, p) \in Nat /\ Width(S, O, p) \in Nat /\ Start(S, O, p) + Width(S, O, p) <= n
            /\ (\A a \in S : O[a] <= p) => Start(S, O, p) + Width(S, O, p) = n
            /\ \A q \in Providers : p < q => Start(S, O, p) + Width(S, O, p) <= Start(S, O, q)
            /\ \A q \in Providers : p < q /\ (\A a \in S : O[a] <= p \/ q <= O[a]) => Start(S, O, p) + Width(S, O, p) = Start(S, O, q)
<1> SUFFICES ASSUME NEW p \in Providers
             PROVE  /\ Start(S, O, p) \in Nat /\ Width(S, O, p) \in Nat /\ Start(S, O, p) + Width(S, O, p) <= n
                    /\ (\A a \in S : O[a] <= p) => Start(S, O, p) + Width(S, O, p) = n
                    /\ \A q \in Providers : p < q => Start(S, O, p) + Width(S, O, p) <= Start(S, O, q)
                    /\ \A q \in Providers : p < q /\ (\A a \in S : O[a] <= p \/ q <= O[a]) => Start(S, O, p) + Width(S, O, p) = Start(S, O, q)
  OBVIOUS
<1>1. Providers \subseteq Int /\ p \in Int
  <2>1. Providers \subseteq Nat /\ Nat \subseteq Int
    BY SchedulerAssumption
  <2>2. QED
    BY <2>1
<1>2. IsFiniteSet(S)
  BY SchedulerAssumption, FS_Subset
<1>3. PICK B, W : B = Below(S, O, p) /\ W = Owned(S, O, p)
  OBVIOUS
<1>4. B \subseteq S /\ W \subseteq S /\ B \intersect W = {} /\ IsFiniteSet(B) /\ IsFiniteSet(W)
  <2>1. B \subseteq S /\ W \subseteq S
    BY <1>3 DEF Below, Owned
  <2>2. ASSUME NEW a \in B \intersect W PROVE FALSE
    <3>1. O[a] < p /\ O[a] = p
      BY <1>3 DEF Below, Owned
    <3>2. QED
      BY <1>1, <3>1
  <2>3. QED
    BY <1>2, <2>1, <2>2, FS_Subset
<1>5. PICK b \in Nat, w \in Nat : b = Cardinality(B) /\ w = Cardinality(W)
  BY <1>4, FS_CardinalityType
<1>6. PICK U : U = B \union W
  OBVIOUS
<1>7. IsFiniteSet(U) /\ Cardinality(U) = b + w /\ U \subseteq S
  <2>1. Cardinality(B \intersect W) = 0
    BY <1>4, FS_EmptySet
  <2>2. IsFiniteSet(U) /\ Cardinality(U) = Cardinality(B) + Cardinality(W) - Cardinality(B \intersect W)
    BY <1>4, <1>6, FS_Union
  <2>3. QED
    BY <1>4, <1>5, <1>6, <2>1, <2>2
<1>8. \A a : (a \in U) <=> (a \in S /\ O[a] <= p)
  <2>1. \A a : (a \in U) <=> (a \in S /\ (O[a] < p \/ O[a] = p))
    BY <1>3, <1>6 DEF Below, Owned
  <2>2. \A a \in S : O[a] \in Int
    BY <1>1
  <2>3. QED
    BY <1>1, <2>1, <2>2
<1>9. b + w <= n
  BY <1>2, <1>7, FS_Subset
<1>10. ASSUME \A a \in S : O[a] <= p PROVE b + w = n
  <2>1. U = S
    BY <1>7, <1>8, <1>10
  <2>2. QED
    BY <1>7, <2>1
<1>11. ASSUME NEW q \in Providers, p < q
       PROVE  /\ b + w <= Start(S, O, q)
              /\ (\A a \in S : O[a] <= p \/ q <= O[a]) => b + w = Start(S, O, q)
  <2>1. PICK V : V = Below(S, O, q)
    OBVIOUS
  <2>2. V \subseteq S /\ IsFiniteSet(V) /\ \A a : (a \in V) <=> (a \in S /\ O[a] < q)
    BY <1>2, <2>1, FS_Subset DEF Below
  <2>3. \A a \in S : O[a] \in Int /\ (O[a] <= p => O[a] < q) /\ (q <= O[a] => ~(O[a] < q))
    <3>1. ASSUME NEW a \in S
          PROVE  O[a] \in Int /\ (O[a] <= p => O[a] < q) /\ (q <= O[a] => ~(O[a] < q))
      <4>1. PICK o \in Int : o = O[a]
        BY <1>1
      <4>2. p \in Int /\ q \in Int
        BY <1>1
      <4>3. QED
        BY <1>11, <4>1, <4>2
    <3>2. QED
      BY <3>1
  <2>4. U \subseteq V
    BY <1>8, <2>2, <2>3
  <2>5. b + w <= Cardinality(V)
    BY <1>7, <2>2, <2>4, FS_Subset
  <2>6. ASSUME \A a \in S : O[a] <= p \/ q <= O[a] PROVE V = U
    BY <1>8, <2>2, <2>3, <2>6
  <2>7. QED
    BY <1>7, <2>1, <2>5, <2>6 DEF Start
<1>12. QED
  BY <1>3, <1>5, <1>9, <1>10, <1>11 DEF Start, Width

\* Every slot is in the segment of one provider.
LEMMA SlotsTaken ==
  ASSUME NEW S, S \subseteq Auths, NEW O, \A a \in S : O[a] \in Providers, NEW n \in Nat, n = Cardinality(S),
         NEW k \in 0..n-1
  PROVE  \E p \in Providers : Start(S, O, p) <= k /\ k < Start(S, O, p) + Width(S, O, p)
<1>1. Providers \subseteq Int /\ IsFiniteSet(Providers) /\ IsFiniteSet(S)
  <2>1. Providers \subseteq Nat /\ Nat \subseteq Int
    BY SchedulerAssumption
  <2>2. QED
    BY <2>1, SchedulerAssumption, FS_Subset
<1>2. /\ \A p \in Providers : Start(S, O, p) \in Nat /\ Width(S, O, p) \in Nat
      /\ \A p \in Providers : (\A a \in S : O[a] <= p) => Start(S, O, p) + Width(S, O, p) = n
      /\ \A p, q \in Providers : p < q /\ (\A a \in S : O[a] <= p \/ q <= O[a]) => Start(S, O, p) + Width(S, O, p) = Start(S, O, q)
  BY SegmentsFit
<1>3. PICK x \in Providers : TRUE
  <2>1. S # {}
    BY FS_EmptySet
  <2>2. QED
    BY <2>1
<1>4. PICK L : L = {p \in Providers : Start(S, O, p) <= k}
  OBVIOUS
<1> DEFINE f == [p \in Providers |-> p]
<1>5. \A p \in Providers : f[p] = p /\ f[p] \in Int
  BY <1>1
<1> HIDE DEF f
<1>6. L # {}
  <2>1. PICK p \in Providers : \A q \in Providers : f[p] <= f[q]
    BY <1>1, <1>3, <1>5, FiniteMin
  <2>2. \A a \in S : ~(O[a] < p)
    <3>1. ASSUME NEW a \in S PROVE ~(O[a] < p)
      <4>1. PICK o \in Providers : o = O[a]
        OBVIOUS
      <4>2. o \in Int /\ p \in Int /\ p <= o
        BY <1>1, <1>5, <2>1
      <4>3. QED
        BY <4>1, <4>2
    <3>2. QED
      BY <3>1
  <2>3. Below(S, O, p) = {}
    BY <2>2 DEF Below
  <2>4. Start(S, O, p) = 0
    BY <2>3, FS_EmptySet DEF Start
  <2>5. QED
    BY <1>4, <2>4
<1>7. L \subseteq Providers /\ IsFiniteSet(L)
  BY <1>1, <1>4, FS_Subset
<1>8. PICK p \in L : \A q \in L : f[q] <= f[p]
  <2>1. \A q \in L : f[q] \in Int
    BY <1>5, <1>7
  <2>2. QED
    BY <1>6, <1>7, <2>1, FiniteMax
<1>9. p \in Providers /\ Start(S, O, p) <= k /\ \A q \in L : q <= p
  BY <1>4, <1>5, <1>7, <1>8
<1>10. ASSUME Start(S, O, p) + Width(S, O, p) <= k PROVE FALSE
  <2>1. PICK R : R = {q \in Providers : p < q}
    OBVIOUS
  <2>2. R # {}
    <3>1. CASE R = {}
      <4>1. \A a \in S : O[a] <= p
        <5>1. ASSUME NEW a \in S PROVE O[a] <= p
          <6>1. PICK o \in Providers : o = O[a]
            OBVIOUS
          <6>2. o \in Int /\ p \in Int /\ ~(p < o)
            BY <1>1, <1>9, <2>1, <3>1
          <6>3. QED
            BY <6>1, <6>2
        <5>2. QED
          BY <5>1
      <4>2. QED
        BY <1>2, <1>9, <1>10, <4>1
    <3>2. QED
      BY <3>1
  <2>3. R \subseteq Providers /\ IsFiniteSet(R)
    BY <1>1, <2>1, FS_Subset
  <2>4. PICK q \in R : \A y \in R : f[q] <= f[y]
    <3>1. \A y \in R : f[y] \in Int
      BY <1>5, <2>3
    <3>2. QED
      BY <2>2, <2>3, <3>1, FiniteMin
  <2>5. q \in Providers /\ p < q /\ \A y \in R : q <= y
    BY <1>5, <2>1, <2>3, <2>4
  <2>6. \A a \in S : O[a] <= p \/ q <= O[a]
    <3>1. ASSUME NEW a \in S PROVE O[a] <= p \/ q <= O[a]
      <4>1. PICK o \in Providers : o = O[a]
        OBVIOUS
      <4>2. o \in Int /\ p \in Int /\ q \in Int /\ (p < o => q <= o)
        BY <1>1, <1>9, <2>1, <2>5
      <4>3. QED
        BY <4>1, <4>2
    <3>2. QED
      BY <3>1
  <2>7. Start(S, O, q) <= k
    BY <1>2, <1>9, <1>10, <2>5, <2>6
  <2>8. q <= p
    BY <1>4, <1>9, <2>5, <2>7
  <2>9. QED
    BY <1>1, <1>9, <2>5, <2>8
<1>11. k < Start(S, O, p) + Width(S, O, p)
  <2>1. PICK b \in Nat, w \in Nat : b = Start(S, O, p) /\ w = Width(S, O, p)
    BY <1>2, <1>9
  <2>2. ~(b + w <= k)
    BY <1>10, <2>1
  <2>3. QED
    BY <2>1, <2>2
<1>12. QED
  BY <1>9, <1>11

\* Who is at the cursor is the nearest to it.
LEMMA NearestIsThere ==
  ASSUME NEW S, S \subseteq Int, IsFiniteSet(S), NEW E, E \subseteq S, NEW x \in E
  PROVE  Nearest(S, Rank(S, x), E) = x
<1>1. PICK n \in Nat : n = Cardinality(S)
  BY FS_CardinalityType
<1>2. n > 0
  BY <1>1, FS_EmptySet
<1>3. /\ \A y \in S : Rank(S, y) \in 0..n-1
      /\ \A y, z \in S : Rank(S, y) = Rank(S, z) => y = z
  BY <1>1, RanksAll
<1>4. PICK c \in 0..n-1 : c = Rank(S, x)
  BY <1>3
<1>5. ASSUME NEW y \in E
      PROVE  /\ Distance(S, c, y) \in 0..n-1
             /\ (Distance(S, c, y) = 0) <=> (y = x)
  <2>1. PICK r \in 0..n-1 : r = Rank(S, y)
    BY <1>3
  <2>2. Distance(S, c, y) = (r - c) % n
    BY <1>1, <2>1 DEF Distance
  <2>3. (r - c) % n \in 0..n-1
    BY <1>2
  <2>4. ASSUME (r - c) % n = 0 PROVE r = c
    <3>1. PICK d \in Int : d = r - c
      OBVIOUS
    <3>2. ((d % n) + c) % n = (d + c) % n
      <4>1. c \in Int
        BY <1>2
      <4>2. QED
        BY ONLY <1>2, <4>1, n \in Nat, d \in Int, RemainderAdds
    <3>3. d + c = r /\ (d % n) + c = c /\ r % n = r /\ c % n = c
      BY <2>4, <3>1, RemainderSmall
    <3>4. QED
      BY <3>2, <3>3
  <2>5. ASSUME r = c PROVE (r - c) % n = 0
    <3>1. r - c = 0 /\ 0 \in 0..n-1
      BY <1>2, <2>5
    <3>2. QED
      BY <3>1, RemainderSmall
  <2>6. (r = c) <=> (y = x)
    BY <1>3, <1>4, <2>1
  <2>7. QED
    BY <2>2, <2>3, <2>4, <2>5, <2>6
<1>6. PICK a : a = Nearest(S, c, E)
  OBVIOUS
<1>7. a \in E /\ \A y \in E : Distance(S, c, a) <= Distance(S, c, y)
  <2>1. \A y \in E : Distance(S, c, x) <= Distance(S, c, y)
    BY <1>5
  <2>2. QED
    BY <1>6, <2>1 DEF Nearest
<1>8. Distance(S, c, a) = 0
  BY <1>5, <1>7
<1>9. QED
  BY <1>4, <1>5, <1>6, <1>7, <1>8

\* How far into a segment of w places from s on the slot c is.
Into(s, w, c) == IF s < c /\ c <= s + w THEN c - s ELSE 0

\* The segment of the slot whose turn it is,
LEMMA IntoThis ==
  ASSUME NEW s \in Nat, NEW w \in Nat, NEW n \in Nat, s + w <= n, NEW c \in 0..n, NEW k \in 0..n-1, k = Turn(c, n),
         s <= k, k < s + w
  PROVE  Into(s, w, c) \in Nat /\ Turn(Into(s, w, c), w) = k - s /\ Into(s, w, k + 1) = (k - s) + 1
<1> SUFFICES ASSUME k = c % n
             PROVE  Into(s, w, c) \in Nat /\ Into(s, w, c) % w = k - s /\ Into(s, w, k + 1) = (k - s) + 1
  BY DEF Turn
<1>1. Into(s, w, k + 1) = (k - s) + 1
  BY DEF Into
<1>2. CASE c < n
  <2>1. c % n = c
    BY <1>2, RemainderSmall
  <2>2. PICK i \in Int : i = k - s
    OBVIOUS
  <2>3. i \in 0..w-1
    BY <2>2
  <2>4. Into(s, w, c) = i
    BY <2>1, <2>2, <2>3 DEF Into
  <2>5. i % w = i
    BY ONLY <2>3, w \in Nat, RemainderSmall
  <2>6. QED
    BY <1>1, <2>2, <2>3, <2>4, <2>5
<1>3. CASE c = n
  <2>1. n % n = 0 /\ w % w = 0 /\ 0 % w = 0
    <3>1. n = 1 * n + 0 /\ 0 \in 0..n-1 /\ w = 1 * w + 0 /\ 0 \in 0..w-1
      OBVIOUS
    <3>2. QED
      BY <3>1, Remainder, RemainderSmall
  <2>2. k = 0 /\ s = 0
    BY <1>3, <2>1
  <2>3. Into(s, w, c) = w \/ Into(s, w, c) = 0
    BY <1>3, <2>2 DEF Into
  <2>4. QED
    BY <1>1, <2>1, <2>2, <2>3
<1>4. QED
  BY <1>2, <1>3

\* The place of a credential: its own in its provider's segment, which C
\* turns.
Place(S, O, C, a) ==
    Start(S, O, O[a]) + ((Rank(Owned(S, O, O[a]), a) + C[O[a]]) % Width(S, O, O[a]))
Places(S, O, C) == [a \in S |-> Place(S, O, C, a)]

\* How the flat cursors stand to the segments at slot c.
Stands(S, O, C, flat, c) == \A p \in Providers :
    Width(S, O, p) > 0 =>
        (flat[p] + C[p]) % Width(S, O, p) = Into(Start(S, O, p), Width(S, O, p), c) % Width(S, O, p)

\* The picks q go round the slots, up to slot c.
SlotTurns(S, O, flat, c, q) ==
    /\ c \in 0..Cardinality(S)
    /\ \E C \in [Providers -> Int] : InTurn(q, S, Places(S, O, C), Cardinality(S), c) /\ Stands(S, O, C, flat, c)

\* No picks do, whatever the cursors are: C says by how much each is off.
LEMMA SlotTurnsBegin ==
  ASSUME NEW S, S \subseteq Auths, NEW O, \A a \in S : O[a] \in Providers, NEW flat \in [Providers -> Nat],
         NEW c, c \in 0..Cardinality(S)
  PROVE  SlotTurns(S, O, flat, c, <<>>)
<1>1. IsFiniteSet(S)
  BY SchedulerAssumption, FS_Subset
<1>2. PICK n \in Nat : n = Cardinality(S)
  BY <1>1, FS_CardinalityType
<1>3. ASSUME NEW p \in Providers
      PROVE  Into(Start(S, O, p), Width(S, O, p), c) \in Int
  <2>1. Start(S, O, p) \in Nat /\ Width(S, O, p) \in Nat
    BY <1>2, SegmentsFit
  <2>2. QED
    BY <1>2, <2>1 DEF Into
<1>4. PICK C : C = [p \in Providers |-> Into(Start(S, O, p), Width(S, O, p), c) - flat[p]]
  OBVIOUS
<1>5. C \in [Providers -> Int]
  BY <1>3, <1>4
<1>6. \A p \in Providers : flat[p] + C[p] = Into(Start(S, O, p), Width(S, O, p), c)
  BY <1>3, <1>4
<1>7. Stands(S, O, C, flat, c)
  BY <1>6 DEF Stands
<1>8. QED
  BY <1>5, <1>7, NoTurns DEF SlotTurns

\* A slot for each.
LEMMA PlacesType ==
  ASSUME NEW S, S \subseteq Auths, NEW O, \A a \in S : O[a] \in Providers, NEW n \in Nat, n = Cardinality(S),
         NEW C \in [Providers -> Int]
  PROVE  Places(S, O, C) \in [S -> 0..n-1]
<1>1. ASSUME NEW a \in S PROVE Place(S, O, C, a) \in 0..n-1
  <2>1. PICK o \in Providers : o = O[a]
    OBVIOUS
  <2>2. PICK x \in Nat, v \in Nat : x = Start(S, O, o) /\ v = Width(S, O, o) /\ x + v <= n
    BY SegmentsFit
  <2>3. PICK T : T = Owned(S, O, o)
    OBVIOUS
  <2>4. a \in T /\ T \subseteq S /\ v = Cardinality(T)
    BY <2>1, <2>2, <2>3 DEF Owned, Width
  <2>5. IsFiniteSet(T)
    BY <2>4, SchedulerAssumption, FS_Subset
  <2>6. v > 0
    BY <2>4, <2>5, FS_EmptySet
  <2>7. PICK r \in Nat, g \in Int : r = Rank(T, a) /\ g = C[o]
    BY <2>5, RankType
  <2>8. PICK i \in 0..v-1 : i = (r + g) % v
    BY <2>6
  <2>9. Place(S, O, C, a) = x + ((r + g) % v)
    BY <2>1, <2>2, <2>3, <2>7 DEF Place
  <2>10. x + i \in 0..n-1
    <3>1. x + v <= n
      BY <2>2
    <3>2. i >= 0 /\ i < v /\ i \in Int
      BY <2>8
    <3>3. x \in Int /\ x >= 0 /\ v \in Int /\ n \in Int
      OBVIOUS
    <3>4. x + i \in Int /\ x + i >= 0 /\ x + i <= n - 1
      BY ONLY <3>1, <3>2, <3>3
    <3>5. QED
      BY ONLY <3>3, <3>4
  <2>11. QED
    BY <2>8, <2>9, <2>10
<1>2. QED
  BY <1>1 DEF Places

\* pickMixed: the slots are taken in turn.
LEMMA SlotTurn ==
  ASSUME NEW S, S \subseteq Auths, NEW O, \A a \in S : O[a] \in Providers, NEW n \in Nat, n = Cardinality(S),
         NEW flat \in [Providers -> Nat], NEW c, NEW q \in Seq(S), SlotTurns(S, O, flat, c, q),
         NEW k \in 0..n-1, k = c % n, NEW p \in Providers,
         Start(S, O, p) <= k, k < Start(S, O, p) + Width(S, O, p),
         NEW b \in Owned(S, O, p), Rank(Owned(S, O, p), b) = Turn(flat[p], Width(S, O, p)),
         NEW new \in [Providers -> Nat], \A x \in Providers \ {p} : new[x] = flat[x],
         new[p] = Turn(flat[p], Width(S, O, p)) + 1
  PROVE  SlotTurns(S, O, new, k + 1, Append(q, b))
<1>1. PICK C \in [Providers -> Int] : InTurn(q, S, Places(S, O, C), n, c) /\ Stands(S, O, C, flat, c)
  BY DEF SlotTurns
<1>2. PICK s \in Nat, w \in Nat : s = Start(S, O, p) /\ w = Width(S, O, p)
  BY SegmentsFit
<1>3. s + w <= n /\ s <= k /\ k < s + w /\ w > 0
  <2>1. s + w <= n
    BY <1>2, SegmentsFit
  <2>2. QED
    BY <1>2, <2>1
<1>4. c \in 0..n
  BY DEF SlotTurns
<1>5. b \in S /\ O[b] = p
  BY DEF Owned
<1>6. PICK f \in Nat, e \in Int : f = flat[p] /\ e = C[p]
  BY <1>1
<1>7. Into(s, w, c) \in Nat /\ Into(s, w, c) % w = k - s /\ Into(s, w, k + 1) = (k - s) + 1
  <2>1. k = Turn(c, n)
    BY DEF Turn
  <2>2. s + w <= n /\ s <= k /\ k < s + w
    BY <1>3
  <2>3. Into(s, w, c) \in Nat /\ Turn(Into(s, w, c), w) = k - s /\ Into(s, w, k + 1) = (k - s) + 1
    BY ONLY <1>4, <2>1, <2>2, s \in Nat, w \in Nat, n \in Nat, k \in 0..n-1, IntoThis, SMTT(20)
  <2>4. QED
    BY <2>3 DEF Turn
<1>8. (f + e) % w = k - s
  BY <1>1, <1>2, <1>3, <1>6, <1>7 DEF Stands
<1>9. ((f % w) + e) % w = (f + e) % w
  <2>1. f \in Int
    OBVIOUS
  <2>2. QED
    BY ONLY <1>3, <2>1, e \in Int, w \in Nat, RemainderAdds
<1>10. Places(S, O, C)[b] = k
  <2>1. Places(S, O, C)[b] = s + ((Rank(Owned(S, O, p), b) + e) % w)
    BY <1>2, <1>5, <1>6 DEF Places, Place
  <2>2. Rank(Owned(S, O, p), b) = f % w
    BY <1>2, <1>6 DEF Turn
  <2>3. Places(S, O, C)[b] = s + (k - s)
    BY ONLY <1>8, <1>9, <2>1, <2>2
  <2>4. s + (k - s) = k
    OBVIOUS
  <2>5. QED
    BY <2>3, <2>4
<1>11. Places(S, O, C) \in [S -> 0..n-1]
  BY PlacesType
<1>12. InTurn(Append(q, b), S, Places(S, O, C), n, k + 1)
  <2>1. PICK pos \in [S -> 0..n-1] : pos = Places(S, O, C)
    BY <1>11
  <2>2. InTurn(q, S, pos, n, c) /\ pos[b] = c % n /\ k + 1 = pos[b] + 1
    BY <1>1, <1>10, <2>1
  <2>3. c \in Nat /\ k + 1 \in Nat
    BY <1>4
  <2>4. InTurn(Append(q, b), S, pos, n, k + 1)
    BY ONLY <1>5, <2>2, <2>3, q \in Seq(S), n \in Nat, pos \in [S -> 0..n-1], TurnTaken
  <2>5. QED
    BY <2>1, <2>4
<1>13. Stands(S, O, C, new, k + 1)
  <2>1. SUFFICES ASSUME NEW x \in Providers, Width(S, O, x) > 0
                 PROVE  (new[x] + C[x]) % Width(S, O, x) = Into(Start(S, O, x), Width(S, O, x), k + 1) % Width(S, O, x)
    BY DEF Stands
  <2>2. CASE x = p
    <3>1. new[x] = (f % w) + 1
      BY <1>2, <1>6, <2>2 DEF Turn
    <3>2. f % w \in Int
      BY <1>3
    <3>3. new[x] + C[x] = (f % w) + (1 + e)
      BY <1>6, <2>2, <3>1, <3>2
    <3>4. f \in Int /\ 1 \in Int /\ 1 + e \in Int /\ f + e \in Int
      OBVIOUS
    <3>5. ((f % w) + (1 + e)) % w = (f + (1 + e)) % w
      BY ONLY <1>3, <3>4, w \in Nat, RemainderAdds
    <3>6. (((f + e) % w) + 1) % w = ((f + e) + 1) % w
      BY ONLY <1>3, <3>4, w \in Nat, RemainderAdds
    <3>7. f + (1 + e) = (f + e) + 1
      OBVIOUS
    <3>8. (new[x] + C[x]) % w = ((k - s) + 1) % w
      BY <1>8, <3>3, <3>5, <3>6, <3>7
    <3>9. QED
      BY <1>2, <1>7, <2>2, <3>8
  <2>3. CASE x # p
    <3>1. PICK y \in Nat, v \in Nat : y = Start(S, O, x) /\ v = Width(S, O, x)
      BY SegmentsFit
    <3>2. v > 0 /\ y + v <= n
      <4>1. y + v <= n
        BY <3>1, SegmentsFit
      <4>2. QED
        BY <2>1, <3>1, <4>1
    <3>3. y + v <= s \/ s + w <= y
      <4>1. x \in Int /\ p \in Int
        <5>1. Providers \subseteq Nat /\ Nat \subseteq Int
          BY SchedulerAssumption
        <5>2. QED
          BY <5>1
      <4>2. CASE x < p
        BY <1>2, <3>1, <4>2, SegmentsFit
      <4>3. CASE p < x
        BY <1>2, <3>1, <4>3, SegmentsFit
      <4>4. QED
        BY <2>3, <4>1, <4>2, <4>3
    <3>4. Into(y, v, c) \in Nat /\ Into(y, v, c) % v = 0 /\ Into(y, v, k + 1) = 0
      <4>1. c = k \/ c = n
        BY <1>4, RemainderSmall
      <4>2. Into(y, v, c) = v \/ Into(y, v, c) = 0
        <5>1. k \in Int /\ n \in Int /\ s \in Int /\ w \in Int /\ y \in Int /\ v \in Int /\ s <= k /\ k < s + w
          BY <1>3
        <5>2. CASE c = k
          BY ONLY <3>2, <3>3, <5>1, <5>2 DEF Into
        <5>3. CASE c = n
          BY ONLY <3>2, <3>3, <5>1, <5>3 DEF Into
        <5>4. QED
          BY <4>1, <5>2, <5>3
      <4>3. Into(y, v, k + 1) = 0
        BY <1>3, <3>2, <3>3, SMTT(20) DEF Into
      <4>4. v % v = 0 /\ 0 % v = 0
        <5>1. v = 1 * v + 0 /\ 0 \in 0..v-1
          BY <3>2
        <5>2. QED
          BY ONLY <3>2, <5>1, v \in Nat, Remainder, RemainderSmall
      <4>5. QED
        BY <4>2, <4>3, <4>4, SMTT(20)
    <3>5. 0 % v = 0
      BY <3>2, RemainderSmall
    <3>6. new[x] = flat[x]
      BY <2>3
    <3>7. QED
      BY <1>1, <2>1, <3>1, <3>4, <3>5, <3>6 DEF Stands
  <2>4. QED
    BY <2>2, <2>3
<1>14. QED
  BY <1>1, <1>12, <1>13 DEF SlotTurns

\* What a request of all providers looks at: the credentials S, of priority
\* i, each its owner's.
MixedViews(sh, S, M, O, i) ==
    /\ i \in Priorities /\ S # {} /\ S \subseteq Auths /\ \A a \in S : M[a].prio = i /\ O[a] \in Providers
    /\ \A p \in Providers :
          /\ Sound(sh[p]) /\ sh[p].built /\ Steady(sh[p])
          /\ Bucket(sh[p], i) = Owned(S, O, p)
          /\ \A a \in Owned(S, O, p) : sh[p].ready[a].parent = M[a].parent

\* The priority of a mixed pick is the highest of those free anywhere.
LEMMA MixedPriorityIs ==
  ASSUME IInv, AllSteady, NEW sh, sh = [p \in Providers |-> Ensured(shard[p])],
         NEW tried, NEW F, F = FreeOf(Providers, tried), F # {}, NEW i, i = MixedPriority(sh, tried)
  PROVE  /\ i \in Priorities /\ BestOf(F) = {a \in F : Meta(a).prio = i} /\ BestOf(F) # {}
         /\ \E q \in Providers : Bucket(sh[q], i) # {}
<1>1. PICK P : P = UNION {OpenAt(sh[q], tried) : q \in Providers}
  OBVIOUS
<1>2. ASSUME NEW q \in Providers
      PROVE  Offers(sh[q], tried, FreeOf({q}, tried))
  <2>1. PICK st : st = Ensured(shard[q])
    OBVIOUS
  <2>2. sh[q] = st
    BY <2>1
  <2>3. Offers(st, tried, FreeOf({q}, tried))
    BY <2>1, FreeIsReady
  <2>4. QED
    BY <2>2, <2>3
<1>3. F \subseteq Auths
  BY DEF FreeOf, Candidates
<1>4. /\ \A q \in Providers : FreeOf({q}, tried) \subseteq F
      /\ \A a \in F : owner[a] \in Providers /\ a \in FreeOf({owner[a]}, tried)
  BY FreeOfAll
<1>5. \A a \in F : Meta(a).prio \in Priorities
  BY <1>2, <1>4 DEF Offers
<1>6. \A j : (j \in P) <=> (\E a \in F : Meta(a).prio = j)
  <2>1. \A j : (j \in P) <=> (\E q \in Providers : j \in OpenAt(sh[q], tried))
    BY <1>1
  <2>2. ASSUME NEW j, NEW q \in Providers, j \in OpenAt(sh[q], tried)
        PROVE  \E a \in F : Meta(a).prio = j
    <3>1. PICK a \in FreeOf({q}, tried) : Meta(a).prio = j
      BY <1>2, <2>2 DEF Offers
    <3>2. QED
      BY <1>4, <3>1
  <2>3. ASSUME NEW a \in F
        PROVE  \E q \in Providers : Meta(a).prio \in OpenAt(sh[q], tried)
    <3>1. PICK q \in Providers : q = owner[a] /\ a \in FreeOf({q}, tried)
      BY <1>4
    <3>2. Meta(a).prio \in OpenAt(sh[q], tried)
      BY <1>2, <3>1 DEF Offers
    <3>3. QED
      BY <3>2
  <2>4. QED
    BY <2>1, <2>2, <2>3
<1>7. i = Highest(P)
  BY <1>1 DEF MixedPriority
<1>8. BestOf(F) = {a \in F : Meta(a).prio = i} /\ BestOf(F) # {}
  <2>1. BestOf(F) = {a \in F : Meta(a).prio = Highest(P)} /\ BestOf(F) # {}
    <3>1. F # {}
      OBVIOUS
    <3>2. QED
      BY ONLY <1>3, <1>5, <1>6, <3>1, PreferredAre
  <2>2. QED
    BY <1>7, <2>1
<1>9. PICK a \in F : Meta(a).prio = i
  BY <1>8
<1>10. PICK q \in Providers : q = owner[a] /\ a \in FreeOf({q}, tried)
  BY <1>4, <1>9
<1>11. a \in Bucket(sh[q], i)
  <2>1. \A j, b : (b \in Bucket(sh[q], j) \ tried) <=> (b \in FreeOf({q}, tried) /\ Meta(b).prio = j)
    BY <1>2 DEF Offers
  <2>2. QED
    BY <1>9, <1>10, <2>1
<1>12. QED
  BY <1>5, <1>8, <1>9, <1>11

\* What a mixed request finds when nobody was tried.
LEMMA MixedSeen ==
  ASSUME IInv, AllSteady, NEW sh, sh = [p \in Providers |-> Ensured(shard[p])],
         NEW tried, tried = {}, NEW F, F = FreeOf(Providers, tried), F # {}, NEW S, S = BestOf(F), NEW M, Shows(M, S),
         NEW O, \A a \in S : O[a] = owner[a], NEW i, i = MixedPriority(sh, tried)
  PROVE  MixedViews(sh, S, M, O, i)
<1>1. ASSUME NEW q \in Providers
      PROVE  /\ Offers(sh[q], tried, FreeOf({q}, tried))
             /\ Sound(sh[q]) /\ sh[q].built /\ Steady(sh[q])
             /\ \A a \in DOMAIN sh[q].ready : sh[q].ready[a].parent = Meta(a).parent
  <2>1. PICK st : st = Ensured(shard[q])
    OBVIOUS
  <2>2. sh[q] = st
    BY <2>1
  <2>3. Offers(st, tried, FreeOf({q}, tried))
    BY <2>1, FreeIsReady
  <2>4. Sound(st) /\ st.built /\ Steady(st) /\ \A a \in DOMAIN st.entry : st.metas[a] = Meta(a)
    BY <2>1, ShardSeen
  <2>5. \A a \in DOMAIN st.ready : a \in DOMAIN st.entry /\ st.ready[a].parent = st.metas[a].parent
    BY <2>4 DEF Sound, Fits
  <2>6. \A a \in DOMAIN st.ready : st.ready[a].parent = Meta(a).parent
    BY <2>4, <2>5
  <2>7. QED
    BY <2>2, <2>3, <2>4, <2>6
<1>2. F \subseteq Auths
  BY DEF FreeOf, Candidates
<1>3. /\ \A q \in Providers : FreeOf({q}, tried) \subseteq F
      /\ \A a \in F : owner[a] \in Providers /\ a \in FreeOf({owner[a]}, tried)
  BY FreeOfAll
<1>4. i \in Priorities /\ S = {a \in F : Meta(a).prio = i} /\ S # {}
  <2>1. F # {}
    OBVIOUS
  <2>2. QED
    BY <2>1, MixedPriorityIs
<1>5. \A a \in S : M[a].prio = i /\ O[a] \in Providers /\ M[a] = Meta(a) /\ O[a] = owner[a]
  BY <1>3, <1>4 DEF Shows
<1>6. ASSUME NEW q \in Providers
       PROVE  /\ Bucket(sh[q], i) = Owned(S, O, q)
              /\ \A a \in Owned(S, O, q) : sh[q].ready[a].parent = M[a].parent
  <2>1. \A a : (a \in Bucket(sh[q], i)) <=> (a \in FreeOf({q}, tried) /\ Meta(a).prio = i)
    <3>1. \A j, a : (a \in Bucket(sh[q], j) \ tried) <=> (a \in FreeOf({q}, tried) /\ Meta(a).prio = j)
      BY <1>1 DEF Offers
    <3>2. QED
      BY <3>1
  <2>2. \A a : (a \in FreeOf({q}, tried)) <=> (a \in F /\ owner[a] = q)
    <3>1. \A a \in FreeOf({q}, tried) : owner[a] = q
      BY DEF FreeOf, Candidates
    <3>2. QED
      BY <1>3, <3>1
  <2>3. \A a : (a \in Owned(S, O, q)) <=> (a \in F /\ Meta(a).prio = i /\ owner[a] = q)
    BY <1>4 DEF Owned
  <2>4. Bucket(sh[q], i) = Owned(S, O, q)
    BY <2>1, <2>2, <2>3
  <2>5. \A a \in Owned(S, O, q) : a \in DOMAIN sh[q].ready /\ a \in S
    BY <2>4 DEF Bucket, Owned
  <2>6. ASSUME NEW a \in Owned(S, O, q) PROVE sh[q].ready[a].parent = M[a].parent
    <3>1. a \in DOMAIN sh[q].ready /\ M[a] = Meta(a)
      BY <1>5, <2>5
    <3>2. sh[q].ready[a].parent = Meta(a).parent
      BY <1>1, <3>1
    <3>3. QED
      BY <3>1, <3>2
  <2>7. QED
    BY <2>4, <2>6
<1>7. QED
  BY <1>1, <1>2, <1>4, <1>5, <1>6 DEF MixedViews

\* pickMixed: who is asked is who has the slot.
LEMMA MixedServes ==
  ASSUME NEW sh, NEW S, NEW M, NEW O, NEW i, MixedViews(sh, S, M, O, i), ~fillFirst, mixedCursor \in Nat,
         NEW n \in Nat, n = Cardinality(S), NEW tried, tried = {}, NEW p, p = MixedProvider(sh, i, tried),
         NEW k, k = StartSlot(sh, i)
  PROVE  /\ k \in 0..n-1 /\ k = Turn(mixedCursor, n) /\ p \in Providers /\ p = StartProvider(sh, i)
         /\ Start(S, O, p) <= k /\ k < Start(S, O, p) + Width(S, O, p)
<1>1. /\ S # {} /\ S \subseteq Auths /\ \A a \in S : O[a] \in Providers
      /\ \A x \in Providers : Bucket(sh[x], i) = Owned(S, O, x)
  BY DEF MixedViews
<1>2. n > 0
  <2>1. IsFiniteSet(S) /\ n # 0
    BY <1>1, SchedulerAssumption, FS_Subset, FS_EmptySet
  <2>2. QED
    BY <2>1
<1>3. \A ps : ps \subseteq Providers => ReadyAt(sh, i, ps) = {a \in S : O[a] \in ps}
  BY <1>1 DEF ReadyAt, Owned
<1>4. ReadyAt(sh, i, Providers) = S
  BY <1>1, <1>3
<1>5. k = mixedCursor % n /\ k \in 0..n-1
  BY <1>2, <1>4 DEF StartSlot
<1>6. \A x \in Providers : SegmentStart(sh, i, x) = Start(S, O, x) /\ Cardinality(Bucket(sh[x], i)) = Width(S, O, x)
  <2>1. ASSUME NEW x \in Providers PROVE ReadyAt(sh, i, {q \in Providers : q < x}) = Below(S, O, x)
    <3>1. PICK ps : ps = {q \in Providers : q < x}
      OBVIOUS
    <3>2. ReadyAt(sh, i, ps) = {a \in S : O[a] \in ps}
      BY <1>3, <3>1
    <3>3. {a \in S : O[a] \in ps} = Below(S, O, x)
      BY <1>1, <3>1 DEF Below
    <3>4. QED
      BY <3>1, <3>2, <3>3
  <2>2. QED
    BY <1>1, <2>1 DEF SegmentStart, Start, Width
<1>7. PICK x \in Providers : Start(S, O, x) <= k /\ k < Start(S, O, x) + Width(S, O, x)
  BY <1>1, <1>5, SlotsTaken
<1>8. PICK y : y = StartProvider(sh, i)
  OBVIOUS
<1>9. y \in Providers /\ Start(S, O, y) <= k /\ k < Start(S, O, y) + Width(S, O, y)
  BY <1>6, <1>7, <1>8 DEF StartProvider
<1>10. PICK E : E = {z \in Providers : Bucket(sh[z], i) # {}}
  OBVIOUS
<1>11. y \in E
  <2>1. PICK b \in Nat, w \in Nat : b = Start(S, O, y) /\ w = Width(S, O, y)
    BY <1>1, <1>9, SegmentsFit
  <2>2. w # 0
    BY <1>5, <1>9, <2>1
  <2>3. Owned(S, O, y) # {}
    BY <2>1, <2>2, FS_EmptySet DEF Width
  <2>4. QED
    BY <1>1, <1>9, <1>10, <2>3
<1>12. p = Nearest(Providers, Rank(Providers, y), E)
  <2>1. {z \in Providers : Bucket(sh[z], i) \ {} # {}} = E
    BY <1>10
  <2>2. QED
    BY <1>8, <2>1 DEF MixedProvider
<1>13. Providers \subseteq Int /\ IsFiniteSet(Providers) /\ E \subseteq Providers
  <2>1. Providers \subseteq Nat /\ Nat \subseteq Int
    BY SchedulerAssumption
  <2>2. QED
    BY <1>10, <2>1, SchedulerAssumption
<1>14. p = y
  BY ONLY <1>11, <1>12, <1>13, NearestIsThere
<1>15. QED
  BY <1>5, <1>8, <1>9, <1>14 DEF Turn

\* The picks q, of all providers, go round the segments; those of one whose
\* credentials are several parents' go round these.
MixedTurnsAt(S, M, O, cur, c, q) ==
    /\ \A p \in Providers : Splits(Owned(S, O, p), M) =>
          InTurn(q, Owned(S, O, p), ParentRanks(Owned(S, O, p), M), Cardinality(ParentsOf(Owned(S, O, p), M)), cur[p].parent)
    /\ (\A p \in Providers : ~Splits(Owned(S, O, p), M)) => SlotTurns(S, O, [p \in Providers |-> cur[p].flat], c, q)

\* A mixed request at slot k, provider p's, and the cursors it leaves.
AtSlot(sh, S, M, O, i, p, k) ==
    /\ MixedViews(sh, S, M, O, i) /\ p \in Providers /\ k \in 0..Cardinality(S)-1
    /\ Start(S, O, p) <= k /\ k < Start(S, O, p) + Width(S, O, p)
OneMoved(sh, i, cur, p, moved, new) ==
    /\ \A x \in Providers : cur[x] = sh[x].cursors[i]
    /\ \A x \in Providers \ {p} : new[x] = cur[x]
    /\ new[p] = moved /\ moved \in Cursors

\* Who is taken at it, and the provider's cursors then.
TakenAt(S, M, O, p, e, b, h) ==
    /\ b \in Owned(S, O, p) /\ e \in Cursors /\ Cardinality(ParentsOf(Owned(S, O, p), M)) > 0
    /\ Splits(Owned(S, O, p), M) =>
          /\ Rank(ParentsOf(Owned(S, O, p), M), M[b].parent) = Turn(e.parent, Cardinality(ParentsOf(Owned(S, O, p), M)))
          /\ h.parent = Turn(e.parent, Cardinality(ParentsOf(Owned(S, O, p), M))) + 1
    /\ ~Splits(Owned(S, O, p), M) =>
          Rank(Owned(S, O, p), b) = Turn(e.flat, Width(S, O, p)) /\ h.flat = Turn(e.flat, Width(S, O, p)) + 1

\* The parents a provider's credentials show are ranked from 0.
LEMMA ParentsRanked ==
  ASSUME NEW sh, NEW S, NEW M, NEW O, NEW i, MixedViews(sh, S, M, O, i), NEW x \in Providers,
         NEW G, G = ParentsOf(Owned(S, O, x), M)
  PROVE  /\ IsFiniteSet(G) /\ G \subseteq Int /\ Cardinality(G) \in Nat
         /\ ParentRanks(Owned(S, O, x), M) \in [Owned(S, O, x) -> 0..Cardinality(G)-1]
<1>1. PICK st : st = sh[x]
  OBVIOUS
<1>2. /\ Sound(st) /\ st.built /\ Bucket(st, i) = Owned(S, O, x)
      /\ \A a \in Owned(S, O, x) : st.ready[a].parent = M[a].parent
  BY <1>1 DEF MixedViews
<1>3. Known(st) /\ DOMAIN st.entry \subseteq DOMAIN st.metas /\ Fits(st)
  BY <1>2 DEF Sound, Filed
<1>4. Groups(st, i) \subseteq Parents \union {NoParent} /\ IsFiniteSet(Groups(st, i))
  BY <1>3, ViewsFinite
<1>5. Groups(st, i) = G
  BY <1>2 DEF Groups, ParentsOf
<1>6. IsFiniteSet(G) /\ G \subseteq Int
  <2>1. Parents \subseteq Nat /\ NoParent \in Nat
    BY SchedulerAssumption DEF NoParent
  <2>2. Nat \subseteq Int
    OBVIOUS
  <2>3. QED
    BY <1>4, <1>5, <2>1, <2>2
<1>7. QED
  BY ONLY <1>6, G = ParentsOf(Owned(S, O, x), M), ParentRanksType

\* pickReadyAtPriorityLocked of the provider at that slot.
LEMMA MixedTaken ==
  ASSUME NEW sh, NEW S, NEW M, NEW O, NEW i, NEW p, NEW k, AtSlot(sh, S, M, O, i, p, k),
         NEW ws, ~ws, NEW fill, ~fill, NEW tried, tried = {}, NEW r, r = PickAt(sh[p], i, ws, fill, tried),
         NEW e, e = sh[p].cursors[i], NEW b, b = r.auth, NEW h, h = r.cursors
  PROVE  TakenAt(S, M, O, p, e, b, h)
<1>1. /\ MixedViews(sh, S, M, O, i) /\ p \in Providers /\ i \in Priorities /\ S \subseteq Auths
      /\ k \in 0..Cardinality(S)-1 /\ \A a \in S : O[a] \in Providers
      /\ Start(S, O, p) <= k /\ k < Start(S, O, p) + Width(S, O, p)
  BY DEF AtSlot, MixedViews
<1>2. PICK T : T = Owned(S, O, p)
  OBVIOUS
<1>3. PICK s \in Nat, w \in Nat : s = Start(S, O, p) /\ w = Width(S, O, p)
  <2>1. PICK n \in Nat : n = Cardinality(S)
    BY <1>1, SchedulerAssumption, FS_Subset, FS_CardinalityType
  <2>2. QED
    BY <1>1, <2>1, SegmentsFit
<1>4. T # {} /\ T \subseteq S /\ w = Cardinality(T)
  <2>1. w # 0
    BY <1>1, <1>3
  <2>2. QED
    BY <1>2, <1>3, <2>1, FS_EmptySet DEF Owned, Width
<1>5. PICK m \in Nat : m = Cardinality(ParentsOf(T, M))
  BY <1>1, <1>2, ParentsRanked
<1>6. PICK st : st = sh[p]
  OBVIOUS
<1>7. /\ Sound(st) /\ st.built /\ Steady(st) /\ T = Bucket(st, i) /\ e = st.cursors[i]
      /\ \A a \in T : st.ready[a].parent = M[a].parent
  BY <1>1, <1>2, <1>6 DEF MixedViews
<1>8. ~Sockets(st, i, ws)
  BY DEF Sockets
<1>9. r = PickAt(st, i, ws, fill, tried)
  BY <1>6
<1>10. i \in Priorities
  BY <1>1
<1>11. /\ r.auth \in T /\ w > 0 /\ e \in Cursors
       /\ IsFiniteSet(ParentsOf(T, M)) /\ ParentsOf(T, M) \subseteq Int /\ m > 0
       /\ Splits(T, M) => /\ Rank(ParentsOf(T, M), M[r.auth].parent) = Turn(e.parent, m)
                          /\ r.cursors.parent = Turn(e.parent, m) + 1
       /\ ~Splits(T, M) => Rank(T, r.auth) = Turn(e.flat, w) /\ r.cursors.flat = Turn(e.flat, w) + 1
  BY ONLY <1>4, <1>5, <1>7, <1>8, <1>9, <1>10, ~fill, tried = {}, w \in Nat, m \in Nat, FlatTurn
<1>12. QED
  BY <1>2, <1>3, <1>5, <1>11 DEF TakenAt

\* The request whole.
MixedStep(sh, S, M, O, i, p, k, cur, new, b) ==
    AtSlot(sh, S, M, O, i, p, k) /\ OneMoved(sh, i, cur, p, new[p], new) /\ TakenAt(S, M, O, p, cur[p], b, new[p])

\* It keeps the turns.
LEMMA MixedTurn ==
  ASSUME NEW sh, NEW S, NEW M, NEW O, NEW i, NEW p, NEW k, NEW cur, NEW new, NEW b, MixedStep(sh, S, M, O, i, p, k, cur, new, b)
  PROVE  \A c, q, t : q \in Seq(S) /\ MixedTurnsAt(S, M, O, cur, c, q) /\ k = Turn(c, Cardinality(S)) /\ t = Append(q, b)
                         => t \in Seq(S) /\ MixedTurnsAt(S, M, O, new, NextSlot(k), t)
<1> SUFFICES ASSUME NEW c, NEW q, NEW t, q \in Seq(S), MixedTurnsAt(S, M, O, cur, c, q),
                    k = Turn(c, Cardinality(S)), t = Append(q, b)
             PROVE  t \in Seq(S) /\ MixedTurnsAt(S, M, O, new, NextSlot(k), t)
  OBVIOUS
<1>1. PICK d : d = NextSlot(k) /\ d = k + 1
  BY DEF NextSlot
<1>2. PICK e, h : e = cur[p] /\ h = new[p]
  OBVIOUS
<1>3. AtSlot(sh, S, M, O, i, p, k) /\ OneMoved(sh, i, cur, p, h, new) /\ TakenAt(S, M, O, p, e, b, h)
  BY <1>2 DEF MixedStep
<1>4. /\ MixedViews(sh, S, M, O, i) /\ p \in Providers
      /\ Start(S, O, p) <= k /\ k < Start(S, O, p) + Width(S, O, p)
      /\ \A x \in Providers : cur[x] = sh[x].cursors[i]
      /\ \A x \in Providers \ {p} : new[x] = cur[x]
      /\ new[p] = h /\ h \in Cursors
  BY <1>3 DEF AtSlot, OneMoved
<1>5. /\ i \in Priorities /\ S \subseteq Auths /\ \A a \in S : O[a] \in Providers
      /\ \A x \in Providers : Steady(sh[x])
  BY <1>4 DEF MixedViews
<1>6. PICK n \in Nat : n = Cardinality(S) /\ k \in 0..n-1 /\ k = Turn(c, n)
  BY <1>5, <1>3, SchedulerAssumption, FS_Subset, FS_CardinalityType DEF AtSlot
<1>7. PICK T, w, m : T = Owned(S, O, p) /\ w = Width(S, O, p) /\ m = Cardinality(ParentsOf(T, M))
  OBVIOUS
<1>8. ASSUME NEW x \in Providers
      PROVE  /\ Cardinality(ParentsOf(Owned(S, O, x), M)) \in Nat
             /\ ParentRanks(Owned(S, O, x), M) \in [Owned(S, O, x) -> 0..Cardinality(ParentsOf(Owned(S, O, x), M))-1]
  BY <1>4, ParentsRanked
<1>9. /\ b \in T /\ e \in Cursors /\ m > 0
      /\ Splits(T, M) => /\ Rank(ParentsOf(T, M), M[b].parent) = Turn(e.parent, m)
                         /\ h.parent = Turn(e.parent, m) + 1
      /\ ~Splits(T, M) => Rank(T, b) = Turn(e.flat, w) /\ h.flat = Turn(e.flat, w) + 1
  BY <1>7, <1>3 DEF TakenAt
<1>10. b \in S /\ t \in Seq(S)
  <2>1. b \in S
    BY <1>7, <1>9 DEF Owned
  <2>2. QED
    BY <2>1
<1>11. ASSUME NEW x \in Providers, Splits(Owned(S, O, x), M)
       PROVE  InTurn(t, Owned(S, O, x), ParentRanks(Owned(S, O, x), M), Cardinality(ParentsOf(Owned(S, O, x), M)), new[x].parent)
  <2>1. PICK X, y : X = Owned(S, O, x) /\ y = Cardinality(ParentsOf(X, M))
    OBVIOUS
  <2>2. PICK pos \in [X -> 0..y-1] : pos = ParentRanks(X, M)
    BY <1>8, <2>1
  <2>3. y \in Nat
    BY <1>8, <2>1
  <2>4. PICK f : f = cur[x].parent
    OBVIOUS
  <2>5. InTurn(q, X, pos, y, f)
    BY <1>11, <2>1, <2>2, <2>4 DEF MixedTurnsAt
  <2>6. f \in Nat
    <3>1. cur[x] \in Cursors
      BY <1>4, <1>5 DEF Steady, CursorsOK
    <3>2. QED
      BY <2>4, <3>1 DEF Cursors
  <2>7. CASE x = p
    <3>1. X = T /\ y = m
      BY <1>7, <2>1, <2>7
    <3>2. pos[b] = Turn(f, y) /\ h.parent = pos[b] + 1
      <4>1. Splits(T, M) /\ f = e.parent
        BY <1>7, <1>11, <1>2, <2>4, <2>7
      <4>2. pos[b] = Rank(ParentsOf(T, M), M[b].parent)
        BY <1>9, <2>2, <3>1 DEF ParentRanks
      <4>3. QED
        BY <1>9, <3>1, <4>1, <4>2
    <3>3. h.parent \in Nat
      BY <1>4 DEF Cursors
    <3>4. InTurn(t, X, pos, y, h.parent)
      BY ONLY t = Append(q, b), <1>10, <2>3, <2>5, <2>6, <3>2, <3>3, q \in Seq(S), pos \in [X -> 0..y-1], TurnTaken DEF Turn
    <3>5. QED
      BY <1>4, <2>1, <2>2, <2>7, <3>4
  <2>8. CASE x # p
    <3>1. b \notin X
      BY <1>7, <1>9, <2>1, <2>8 DEF Owned
    <3>2. InTurn(t, X, pos, y, f)
      BY ONLY t = Append(q, b), <1>10, <2>3, <2>5, <2>6, <3>1, q \in Seq(S), pos \in [X -> 0..y-1], TurnTaken
    <3>3. new[x].parent = f
      BY <1>4, <2>4, <2>8
    <3>4. QED
      BY <2>1, <2>2, <3>2, <3>3
  <2>9. QED
    BY <2>7, <2>8
<1>12. ASSUME \A x \in Providers : ~Splits(Owned(S, O, x), M)
       PROVE  SlotTurns(S, O, [x \in Providers |-> new[x].flat], d, t)
  <2>1. PICK flat : flat = [x \in Providers |-> cur[x].flat]
    OBVIOUS
  <2>2. PICK then : then = [x \in Providers |-> new[x].flat]
    OBVIOUS
  <2>3. \A x \in Providers : cur[x] \in Cursors /\ new[x] \in Cursors
    <3>1. \A x \in Providers : cur[x] \in Cursors
      BY <1>4, <1>5 DEF Steady, CursorsOK
    <3>2. QED
      BY <1>4, <3>1
  <2>4. flat \in [Providers -> Nat] /\ then \in [Providers -> Nat]
    BY <2>1, <2>2, <2>3 DEF Cursors
  <2>5. SlotTurns(S, O, flat, c, q)
    BY <1>12, <2>1 DEF MixedTurnsAt
  <2>6. Rank(Owned(S, O, p), b) = Turn(flat[p], Width(S, O, p)) /\ then[p] = Turn(flat[p], Width(S, O, p)) + 1
    <3>1. flat[p] = e.flat /\ then[p] = h.flat /\ Width(S, O, p) = w
      BY <1>4, <1>7, <1>2, <2>1, <2>2
    <3>2. QED
      BY <1>4, <1>7, <1>9, <1>12, <3>1
  <2>7. \A x \in Providers \ {p} : then[x] = flat[x]
    BY <1>4, <2>1, <2>2
  <2>8. b \in Owned(S, O, p) /\ \A a \in S : O[a] \in Providers
    BY <1>5, <1>7, <1>9
  <2>9. k = c % n
    BY <1>6 DEF Turn
  <2>10. SlotTurns(S, O, then, k + 1, Append(q, b))
    <3>1. /\ p \in Providers /\ k \in 0..n-1 /\ n = Cardinality(S) /\ S \subseteq Auths
          /\ Start(S, O, p) <= k /\ k < Start(S, O, p) + Width(S, O, p)
      BY <1>4, <1>5, <1>6
    <3>2. QED
      BY ONLY <3>1, <2>4, <2>5, <2>6, <2>7, <2>8, <2>9, n \in Nat, q \in Seq(S), SlotTurn
  <2>11. QED
    BY <1>1, <2>2, <2>10
<1>13. QED
  BY <1>1, <1>10, <1>11, <1>12 DEF MixedTurnsAt

------------------------------------------------------------------------------
(***************************************************************************)
(* What the snapshots are throughout.                                      *)
(***************************************************************************)

\* Who wants websockets is nobody's virtual child.
Ungrouped(s) == s.ws => s.parent = NoParent
Separate(st) == \A a \in DOMAIN st.metas : Ungrouped(st.metas[a])
AllSeparate == \A p \in Providers : Separate(shard[p])

\* upsertAuth of such a credential,
LEMMA GivenSeparate ==
  ASSUME NEW st, Sound(st), Separate(st), NEW a \in Auths, NEW s \in Snapshot, Ungrouped(s)
  PROVE  Separate(Given(st, a, s))
<1> DEFINE known == [st EXCEPT !.metas = [b \in DOMAIN st.metas \union {a} |-> IF b = a THEN s ELSE st.metas[b]]]
           new == [st EXCEPT !.metas = [b \in DOMAIN st.metas \union {a} |-> IF b = a THEN s ELSE st.metas[b]],
                             !.entry = [b \in DOMAIN st.entry \union {a} |-> IF b = a THEN Entry(s) ELSE st.entry[b]]]
           cut == [known EXCEPT !.entry = [b \in DOMAIN known.entry \ {a} |-> known.entry[b]]]
<1>1. /\ Fields(known) /\ known.metas = [b \in DOMAIN st.metas \union {a} |-> IF b = a THEN s ELSE st.metas[b]]
      /\ Fields(new) /\ new.metas = known.metas
  BY DEF Sound, Fields
<1>2. Fields(cut) /\ cut.metas = known.metas
  BY <1>1 DEF Fields
<1>3. Given(st, a, s) \in {known, new, Indexed(new), Indexed(cut)}
  BY DEF Given, WithEntry, WithoutEntry
<1> HIDE DEF known, new, cut
<1>4. \A x \in {known, new, Indexed(new), Indexed(cut)} : x.metas = known.metas
  BY <1>1, <1>2, IndexedFits
<1>5. Given(st, a, s).metas = known.metas
  BY <1>3, <1>4
<1>6. \A b \in DOMAIN known.metas : Ungrouped(known.metas[b])
  BY <1>1 DEF Separate
<1>7. QED
  BY <1>5, <1>6 DEF Separate

\* a removal,
LEMMA TakenSeparate ==
  ASSUME NEW st, Sound(st), Separate(st), NEW a
  PROVE  Separate(Taken(st, a))
<1>1. PICK r : r = WithoutEntry(st, a)
  OBVIOUS
<1>2. Fields(r) /\ r.metas = st.metas
  BY <1>1, WithoutEntryFits DEF Sound
<1>3. PICK left : left = Taken(st, a)
  OBVIOUS
<1>4. left = [r EXCEPT !.metas = [b \in DOMAIN st.metas \ {a} |-> st.metas[b]]]
  BY <1>1, <1>3 DEF Taken
<1>5. left.metas = [b \in DOMAIN st.metas \ {a} |-> st.metas[b]]
  BY <1>2, <1>4 DEF Fields
<1>6. \A b \in DOMAIN left.metas : left.metas[b] = st.metas[b] /\ b \in DOMAIN st.metas
  BY <1>5
<1>7. QED
  BY <1>3, <1>6 DEF Separate

\* and time keep it so.
LEMMA AgedSeparate ==
  ASSUME NEW st, Sound(st), Separate(st)
  PROVE  Separate(Aged(st))
<1>1. PICK old : old = Aged(st)
  OBVIOUS
<1>2. old.metas = [a \in DOMAIN st.metas |-> AgedMeta(st.metas[a])]
  BY <1>1 DEF Sound, Fields, Aged
<1>3. \A a \in DOMAIN st.metas : st.metas[a] \in Snapshot /\ Ungrouped(st.metas[a])
  BY DEF Sound, Known, Separate
<1>4. \A a \in DOMAIN st.metas : Ungrouped(AgedMeta(st.metas[a]))
  BY <1>3, AgedMetaKeeps DEF Ungrouped
<1>5. QED
  BY <1>1, <1>2, <1>4 DEF Separate

\* A pick leaves the snapshots alone,
LEMMA SingleKeeps ==
  ASSUME IInv, NEW p \in Providers, NEW ws, NEW tried, PickSingle(p, ws, tried)
  PROVE  owner' = owner /\ \A q \in Providers : shard'[q].metas = shard[q].metas
<1> DEFINE st == Ensured(shard[p])
           i == PickPriority(st, ws, tried)
           c == PickAt(st, i, ws, fillFirst, tried).cursors
           new == IF OpenAt(st, tried) = {} THEN st ELSE [st EXCEPT !.cursors[i] = c]
<1>1. shard' = [shard EXCEPT ![p] = new] /\ owner' = owner
  BY DEF PickSingle
<1>2. Sound(st) /\ st.metas = shard[p].metas
  BY EnsuredSound DEF IInv
<1> HIDE DEF st, i, c
<1>3. new.metas = shard[p].metas
  BY <1>2, CursorsSound
<1> HIDE DEF new
<1>4. QED
  BY <1>1, <1>3 DEF IInv

\* of one provider or of all,
LEMMA MixedKeeps ==
  ASSUME IInv, NEW tried, PickMixed(tried)
  PROVE  owner' = owner /\ \A q \in Providers : shard'[q].metas = shard[q].metas
<1> DEFINE sh == [p \in Providers |-> Ensured(shard[p])]
<1>1. \A p \in Providers : Sound(sh[p]) /\ sh[p].metas = shard[p].metas
  BY EnsuredSound DEF IInv
<1>2. PICK p, i, c : shard' = sh \/ shard' = [sh EXCEPT ![p].cursors[i] = c]
  BY DEF PickMixed
<1>3. owner' = owner
  BY DEF PickMixed
<1>4. DOMAIN sh = Providers
  OBVIOUS
<1> HIDE DEF sh
<1>5. ASSUME NEW q \in Providers, shard' = [sh EXCEPT ![p].cursors[i] = c]
      PROVE  shard'[q].metas = shard[q].metas
  <2>1. shard'[q] = IF q = p THEN [sh[q] EXCEPT !.cursors[i] = c] ELSE sh[q]
    BY <1>4, <1>5
  <2>2. [sh[q] EXCEPT !.cursors[i] = c].metas = sh[q].metas
    <3>1. Sound(sh[q])
      BY <1>1
    <3>2. QED
      BY <3>1, CursorsSound
  <2>3. QED
    BY <1>1, <2>1, <2>2
<1>6. QED
  BY <1>1, <1>2, <1>3, <1>5

\* and so whom a request would choose among.
LEMMA Unmoved ==
  ASSUME owner' = owner, \A q \in Providers : shard'[q].metas = shard[q].metas, NEW ps, ps \subseteq Providers, NEW tried, NEW ws
  PROVE  /\ Preferred(FreeOf(ps, tried), ws)' = Preferred(FreeOf(ps, tried), ws)
         /\ \A a \in Preferred(FreeOf(ps, tried), ws) : a \in Auths /\ owner[a] \in ps /\ Meta(a)' = Meta(a)
<1>1. \A a : owner[a] \in ps => shard'[owner[a]].metas = shard[owner[a]].metas
  OBVIOUS
<1>2. \A a : owner[a] \in ps => Meta(a)' = Meta(a)
  BY <1>1 DEF Meta
<1>3. FreeOf(ps, tried)' = FreeOf(ps, tried)
  <2>1. Candidates(ps, tried)' = Candidates(ps, tried)
    BY <1>1 DEF Candidates
  <2>2. \A a \in Candidates(ps, tried) : owner[a] \in ps
    BY DEF Candidates
  <2>3. QED
    BY <1>2, <2>1, <2>2 DEF FreeOf
<1>4. PICK F : F = FreeOf(ps, tried)
  OBVIOUS
<1>5. \A a \in F : a \in Auths /\ owner[a] \in ps /\ Meta(a)' = Meta(a)
  BY <1>2, <1>4 DEF FreeOf, Candidates
<1>6. ASSUME NEW T, T \subseteq F PROVE BestOf(T)' = BestOf(T)
  BY <1>5, <1>6 DEF BestOf
<1>7. PICK W : W = {a \in F : Meta(a).ws}
  OBVIOUS
<1>8. {a \in F : Meta(a)'.ws} = W
  BY <1>5, <1>7
<1>9. Preferred(F, ws) = BestOf(IF ws /\ W # {} THEN W ELSE F)
  BY <1>7 DEF Preferred
<1>10. Preferred(F, ws)' = BestOf(IF ws /\ W # {} THEN W ELSE F)'
  BY <1>8 DEF Preferred
<1>11. PICK T : T = IF ws /\ W # {} THEN W ELSE F
  OBVIOUS
<1>12. T \subseteq F
  BY <1>7, <1>11
<1>13. BestOf(T)' = BestOf(T) /\ BestOf(T) \subseteq T
  BY <1>6, <1>12 DEF BestOf
<1>14. Preferred(FreeOf(ps, tried), ws)' = Preferred(F, ws)'
  BY <1>3, <1>4 DEF Preferred, BestOf
<1>15. QED
  BY <1>4, <1>5, <1>9, <1>10, <1>11, <1>12, <1>13, <1>14

\* At first nothing is known.
LEMMA InitSeparate == Init => AllSeparate
<1>1. DOMAIN EmptyShard.metas = {}
  BY DEF EmptyShard, Unset
<1>2. QED
  BY <1>1 DEF Init, AllSeparate, Separate

\* Every step keeps such snapshots such.
LEMMA StepSeparate ==
  ASSUME IInv, AllSeparate, \A s \in Snapshots : Ungrouped(s), [Next]_vars
  PROVE  AllSeparate'
<1>1. ASSUME \A q \in Providers : shard'[q].metas = shard[q].metas
      PROVE  AllSeparate'
  BY <1>1 DEF AllSeparate, Separate
<1>2. ASSUME NEW p \in Providers, NEW ws \in Websockets, NEW tried \in TriedSets, PickSingle(p, ws, tried)
      PROVE  AllSeparate'
  BY <1>1, <1>2, SingleKeeps
<1>3. ASSUME NEW tried \in TriedSets, PickMixed(tried)
      PROVE  AllSeparate'
  BY <1>1, <1>3, MixedKeeps
<1>4. ASSUME NEW a \in Auths, NEW p \in Providers, NEW s \in Snapshots, Upsert(a, p, s)
      PROVE  AllSeparate'
  <2>1. s \in Snapshot /\ Ungrouped(s)
    BY SchedulerAssumption
  <2>2. PICK home : home = IF owner[a] \in {Nowhere, p} THEN shard ELSE LeftPrevious(a)
    OBVIOUS
  <2>3. shard' = [home EXCEPT ![p] = Given(home[p], a, s)]
    BY <1>4, <2>2 DEF Upsert
  <2>4. DOMAIN home = Providers
    BY <2>2 DEF IInv, LeftPrevious
  <2>5. ASSUME NEW q \in Providers
        PROVE  Sound(home[q]) /\ Separate(home[q])
    <3>1. home[q] = shard[q] \/ home[q] = Taken(shard[q], a)
      BY <2>2 DEF LeftPrevious
    <3>2. Sound(shard[q]) /\ Separate(shard[q])
      BY DEF IInv, AllSeparate
    <3>3. Sound(Taken(shard[q], a)) /\ Separate(Taken(shard[q], a))
      BY <3>2, TakenSound, TakenSeparate
    <3>4. QED
      BY <3>1, <3>2, <3>3
  <2>6. Separate(Given(home[p], a, s))
    BY <2>1, <2>5, GivenSeparate
  <2>7. \A q \in Providers : Separate(shard'[q])
    BY <2>3, <2>4, <2>5, <2>6
  <2>8. QED
    BY <2>7 DEF AllSeparate
<1>5. ASSUME NEW a \in Auths, Remove(a)
      PROVE  AllSeparate'
  <2>1. PICK p : p = owner[a] /\ shard' = [shard EXCEPT ![p] = Taken(shard[p], a)] /\ p \in Providers
    BY <1>5 DEF Remove, IInv
  <2>2. DOMAIN shard = Providers /\ \A q \in Providers : Sound(shard[q]) /\ Separate(shard[q])
    BY DEF IInv, AllSeparate
  <2>3. Separate(Taken(shard[p], a))
    BY <2>1, <2>2, TakenSeparate
  <2>4. \A q \in Providers : Separate(shard'[q])
    BY <2>1, <2>2, <2>3
  <2>5. QED
    BY <2>4 DEF AllSeparate
<1>6. CASE Rebuild
  <2>1. \A p \in Providers : shard'[p].metas = shard[p].metas
    BY <1>6 DEF Rebuild, EmptyShard
  <2>2. QED
    BY <1>1, <2>1
<1>7. ASSUME NEW f \in Strategies, SetSelector(f)
      PROVE  AllSeparate'
  BY <1>1, <1>7 DEF SetSelector
<1>8. CASE Tick
  <2>1. \A p \in Providers : shard'[p] = Aged(shard[p])
    BY <1>8 DEF Tick
  <2>2. \A p \in Providers : Separate(shard'[p])
    BY <2>1, AgedSeparate DEF IInv, AllSeparate
  <2>3. QED
    BY <2>2 DEF AllSeparate
<1>9. CASE UNCHANGED vars
  BY <1>1, <1>9 DEF vars
<1>10. QED
  BY <1>2, <1>3, <1>4, <1>5, <1>6, <1>7, <1>8, <1>9 DEF Next

------------------------------------------------------------------------------
(***************************************************************************)
(* The run of like picks that is remembered.                               *)
(***************************************************************************)

\* So it is with the cursors of the priority they all have.
MixedTurns(S, M, O, sh, c, q) ==
    /\ q \in Seq(S)
    /\ \A i \in Priorities : (\A a \in S : M[a].prio = i) =>
          MixedTurnsAt(S, M, O, [p \in Providers |-> sh[p].cursors[i]], c, q)

\* The picks so far, of one provider or of all, took turns among those whom
\* such requests choose among, and the cursors stand behind the last.
Alike(ps, ws) == Preferred(FreeOf(ps, {}), ws)
Snaps(S) == [a \in S |-> Meta(a)]
SinglesGo(p, ws, q) == SingleTurns(Alike({p}, ws), Snaps(Alike({p}, ws)), ws, shard[p].cursors, q)
MixedGo(q) == MixedTurns(Alike(Providers, FALSE), Snaps(Alike(Providers, FALSE)), owner, shard, mixedCursor, q)
Going(key, q) ==
    \/ \E p \in Providers, ws \in Websockets : key = <<{p}, ws>> /\ SinglesGo(p, ws, q)
    \/ Cardinality(Providers) > 1 /\ key = <<Providers, FALSE>> /\ MixedGo(q)

\* The strengthening of RotationFair: a run that is remembered goes on.
RotInv ==
    /\ mixedCursor \in Nat
    /\ rotation = [key |-> rotation.key, picks |-> rotation.picks]
    /\ rotation # NoRotation /\ ~fillFirst => Going(rotation.key, rotation.picks)

\* With no run remembered nothing is asked.
LEMMA NoRotationKept ==
  ASSUME RotInv, mixedCursor' \in Nat, rotation' = NoRotation
  PROVE  RotInv'
<1>1. rotation' = [key |-> rotation'.key, picks |-> rotation'.picks]
  BY DEF NoRotation
<1>2. QED
  BY <1>1 DEF RotInv

\* How a run of like picks goes on: a new one, or the one so far, less its
\* first if it is as long as may be.
LEMMA RotatedIs ==
  ASSUME RotInv, NEW ps, NEW ws, NEW tried, NEW a, NEW moved, NEW r, r = Rotated(ps, ws, tried, a, moved)
  PROVE  \/ r = NoRotation
         \/ tried = {} /\ r = [key |-> <<ps, ws>>, picks |-> Append(<<>>, a)]
         \/ /\ tried = {} /\ ~moved /\ rotation.key = <<ps, ws>> /\ rotation # NoRotation
            /\ \/ r = [key |-> <<ps, ws>>, picks |-> Append(rotation.picks, a)]
               \/ Len(rotation.picks) # 0 /\ r = [key |-> <<ps, ws>>, picks |-> Append(Tail(rotation.picks), a)]
<1>1. <<a>> = Append(<<>>, a)
  OBVIOUS
<1>2. rotation.key = <<ps, ws>> => rotation # NoRotation
  <2>1. Len(<<ps, ws>>) = 2 /\ Len(<<>>) = 0
    OBVIOUS
  <2>2. <<ps, ws>> # <<>>
    BY <2>1
  <2>3. QED
    BY <2>2 DEF NoRotation
<1>3. PICK k, q : k = rotation.key /\ q = rotation.picks /\ rotation = [key |-> k, picks |-> q]
  BY DEF RotInv
<1>4. \A x : [rotation EXCEPT !.picks = x] = [key |-> k, picks |-> x]
  BY <1>3
<1>5. CASE tried # {} \/ History = 0
  BY <1>5 DEF Rotated
<1>6. CASE tried = {} /\ History # 0
  <2>1. CASE moved \/ k # <<ps, ws>>
    BY <1>1, <1>3, <1>6, <2>1 DEF Rotated
  <2>2. CASE ~moved /\ k = <<ps, ws>>
    <3>1. r = [rotation EXCEPT !.picks = IF Len(q) = History THEN Append(Tail(q), a) ELSE Append(q, a)]
      BY <1>3, <1>6, <2>2 DEF Rotated
    <3>2. CASE Len(q) = History
      <4>1. r = [key |-> k, picks |-> Append(Tail(q), a)]
        BY <1>4, <3>1, <3>2
      <4>2. Len(q) # 0
        BY <1>6, <3>2
      <4>3. QED
        BY <1>2, <1>3, <1>6, <2>2, <4>1, <4>2
    <3>3. CASE Len(q) # History
      <4>1. r = [key |-> k, picks |-> Append(q, a)]
        BY <1>4, <3>1, <3>3
      <4>2. QED
        BY <1>2, <1>3, <1>6, <2>2, <4>1
    <3>4. QED
      BY <3>2, <3>3
  <2>3. QED
    BY <2>1, <2>2
<1>7. QED
  BY <1>5, <1>6

\* Forgetting the first keeps the turns of one provider's shard,
LEMMA SinglesForgotten ==
  ASSUME NEW S, NEW M, NEW ws, NEW cursors, NEW q, SingleTurns(S, M, ws, cursors, q), Len(q) # 0
  PROVE  SingleTurns(S, M, ws, cursors, Tail(q))
<1>1. q \in Seq(S) /\ q # <<>>
  BY DEF SingleTurns
<1>2. Tail(q) \in Seq(S)
  BY <1>1
<1>3. \A own, pos, m, c : InTurn(q, own, pos, m, c) => InTurn(Tail(q), own, pos, m, c)
  BY <1>1, TurnForgotten
<1>4. QED
  BY <1>2, <1>3 DEF SingleTurns, ViewTurns

\* and of all,
LEMMA MixedForgotten ==
  ASSUME NEW S, NEW M, NEW O, NEW sh, NEW c, NEW q, MixedTurns(S, M, O, sh, c, q), Len(q) # 0
  PROVE  MixedTurns(S, M, O, sh, c, Tail(q))
<1>1. q \in Seq(S) /\ q # <<>>
  BY DEF MixedTurns
<1>2. Tail(q) \in Seq(S)
  BY <1>1
<1>3. \A own, pos, m, d : InTurn(q, own, pos, m, d) => InTurn(Tail(q), own, pos, m, d)
  BY <1>1, TurnForgotten
<1>4. \A cur : MixedTurnsAt(S, M, O, cur, c, q) => MixedTurnsAt(S, M, O, cur, c, Tail(q))
  BY <1>3 DEF MixedTurnsAt, SlotTurns
<1>5. QED
  BY <1>2, <1>4 DEF MixedTurns

\* and a run of none has them,
LEMMA SinglesBegin ==
  ASSUME NEW S, NEW M, NEW ws, NEW cursors, NEW q, q = <<>>
  PROVE  SingleTurns(S, M, ws, cursors, q)
<1>1. q \in Seq(S)
  OBVIOUS
<1>2. \A own, pos, m, c : InTurn(q, own, pos, m, c)
  BY NoTurns
<1>3. QED
  BY <1>1, <1>2 DEF SingleTurns, ViewTurns

\* at any cursors.
LEMMA MixedBegin ==
  ASSUME NEW S, S \subseteq Auths, NEW M, NEW O, \A a \in S : O[a] \in Providers,
         NEW cur, \A x \in Providers : cur[x] \in Cursors,
         NEW c, c \in 0..Cardinality(S), NEW q, q = <<>>
  PROVE  MixedTurnsAt(S, M, O, cur, c, q)
<1>1. \A own, pos, m, d : InTurn(q, own, pos, m, d)
  BY NoTurns
<1>2. [p \in Providers |-> cur[p].flat] \in [Providers -> Nat]
  BY DEF Cursors
<1>3. SlotTurns(S, O, [p \in Providers |-> cur[p].flat], c, q)
  BY <1>2, SlotTurnsBegin
<1>4. QED
  BY <1>1, <1>3 DEF MixedTurnsAt

\* pickSingle keeps the turns.
LEMMA SingleRotates ==
  ASSUME IInv, AllSteady, RotInv, NEW p \in Providers, NEW ws \in Websockets, NEW tried, PickSingle(p, ws, tried)
  PROVE  RotInv'
<1>1. PICK st : st = Ensured(shard[p])
  OBVIOUS
<1>2. PICK i : i = PickPriority(st, ws, tried)
  OBVIOUS
<1>3. PICK r : r = PickAt(st, i, ws, fillFirst, tried)
  OBVIOUS
<1>4. PICK moved : moved = (st # shard[p])
  OBVIOUS
<1>5. /\ shard' = [shard EXCEPT ![p] = IF OpenAt(st, tried) = {} THEN st ELSE [st EXCEPT !.cursors[i] = r.cursors]]
      /\ rotation' = IF OpenAt(st, tried) = {} THEN NoRotation ELSE Rotated({p}, ws, tried, r.auth, moved)
      /\ mixedCursor' = mixedCursor /\ fillFirst' = fillFirst
  BY <1>1, <1>2, <1>3, <1>4 DEF PickSingle
<1>6. mixedCursor' \in Nat
  BY <1>5 DEF RotInv
<1>7. CASE rotation' = NoRotation
  BY <1>6, <1>7, NoRotationKept
<1>8. CASE rotation' # NoRotation
  <2>1. OpenAt(st, tried) # {} /\ rotation' = Rotated({p}, ws, tried, r.auth, moved)
    BY <1>5, <1>8
  <2>2. PICK R : R = Rotated({p}, ws, tried, r.auth, moved)
    OBVIOUS
  <2>3. \/ tried = {} /\ R = [key |-> <<{p}, ws>>, picks |-> Append(<<>>, r.auth)]
        \/ /\ tried = {} /\ ~moved /\ rotation.key = <<{p}, ws>> /\ rotation # NoRotation
           /\ \/ R = [key |-> <<{p}, ws>>, picks |-> Append(rotation.picks, r.auth)]
              \/ Len(rotation.picks) # 0 /\ R = [key |-> <<{p}, ws>>, picks |-> Append(Tail(rotation.picks), r.auth)]
    <3>1. PICK ps, b, y : ps = {p} /\ b = r.auth /\ y = ws
      OBVIOUS
    <3>2. R = Rotated(ps, y, tried, b, moved)
      BY <2>2, <3>1
    <3>3. \/ R = NoRotation
          \/ tried = {} /\ R = [key |-> <<ps, y>>, picks |-> Append(<<>>, b)]
          \/ /\ tried = {} /\ ~moved /\ rotation.key = <<ps, y>> /\ rotation # NoRotation
             /\ \/ R = [key |-> <<ps, y>>, picks |-> Append(rotation.picks, b)]
                \/ Len(rotation.picks) # 0 /\ R = [key |-> <<ps, y>>, picks |-> Append(Tail(rotation.picks), b)]
      BY ONLY RotInv, <3>2, RotatedIs
    <3>4. R # NoRotation
      BY <1>8, <2>1, <2>2
    <3>5. QED
      BY ONLY <3>1, <3>3, <3>4
  <2>4. tried = {}
    BY <2>3
  <2>5. PICK F : F = FreeOf({p}, tried)
    OBVIOUS
  <2>6. F # {}
    BY <1>1, <2>1, <2>5, FreeIsReady, RefusesWhenNoneFree
  <2>7. PICK S : S = Preferred(F, ws)
    OBVIOUS
  <2>8. PICK M : M = [a \in S |-> Meta(a)]
    OBVIOUS
  <2>9. Shows(M, S) /\ S = Alike({p}, ws) /\ M = Snaps(S)
    BY <2>4, <2>5, <2>7, <2>8 DEF Shows, Alike, Snaps
  <2>10. i \in Priorities /\ r.cursors \in Cursors
    BY <1>1, <1>2, <1>3, <2>5, <2>6, SinglePick
  <2>11. Alike({p}, ws)' = S /\ Snaps(Alike({p}, ws))' = M
    <3>1. owner' = owner /\ \A q \in Providers : shard'[q].metas = shard[q].metas
      BY SingleKeeps
    <3>2. PICK ps : ps = {p} /\ ps \subseteq Providers
      OBVIOUS
    <3>3. /\ Preferred(FreeOf(ps, tried), ws)' = Preferred(FreeOf(ps, tried), ws)
          /\ \A a \in Preferred(FreeOf(ps, tried), ws) : a \in Auths /\ owner[a] \in ps /\ Meta(a)' = Meta(a)
      BY <3>1, <3>2, Unmoved
    <3>4. Alike({p}, ws)' = S
      BY <2>4, <2>5, <2>7, <3>2, <3>3 DEF Alike
    <3>5. \A a \in S : Meta(a)' = Meta(a)
      BY <2>4, <2>5, <2>7, <3>2, <3>3
    <3>6. QED
      BY <2>8, <3>4, <3>5 DEF Snaps
  <2>12. PICK new : new = shard'[p].cursors
    OBVIOUS
  <2>13. new[i] = r.cursors
    <3>1. Fields(st) /\ st.cursors \in [Priorities -> Cursors]
      BY <1>1, ShardSeen DEF Sound, Steady, CursorsOK
    <3>2. shard'[p] = [st EXCEPT !.cursors[i] = r.cursors]
      BY <1>5, <2>1 DEF IInv
    <3>3. QED
      BY <2>10, <2>12, <3>1, <3>2 DEF Fields
  <2>14. ASSUME ~fillFirst
         PROVE  \E q : SingleTurns(S, M, ws, st.cursors, q) /\ R = [key |-> <<{p}, ws>>, picks |-> Append(q, r.auth)]
    <3>1. CASE R = [key |-> <<{p}, ws>>, picks |-> Append(<<>>, r.auth)]
      BY <3>1, SinglesBegin
    <3>2. CASE /\ ~moved /\ rotation.key = <<{p}, ws>> /\ rotation # NoRotation
               /\ \/ R = [key |-> <<{p}, ws>>, picks |-> Append(rotation.picks, r.auth)]
                  \/ Len(rotation.picks) # 0 /\ R = [key |-> <<{p}, ws>>, picks |-> Append(Tail(rotation.picks), r.auth)]
      <4>1. st = shard[p]
        BY <1>4, <3>2
      <4>2. Going(<<{p}, ws>>, rotation.picks)
        BY <2>14, <3>2 DEF RotInv
      <4>3. SinglesGo(p, ws, rotation.picks)
        <5>1. ASSUME NEW x \in Providers, NEW y \in Websockets, <<{p}, ws>> = <<{x}, y>>
              PROVE  x = p /\ y = ws
          BY <5>1
        <5>2. ~(Cardinality(Providers) > 1 /\ <<{p}, ws>> = <<Providers, FALSE>>)
          <6>1. ASSUME {p} = Providers PROVE ~(Cardinality(Providers) > 1)
            BY <6>1, FS_Singleton
          <6>2. QED
            BY <6>1
        <5>3. QED
          BY <4>2, <5>1, <5>2 DEF Going
      <4>4. SingleTurns(S, M, ws, st.cursors, rotation.picks)
        BY <2>9, <4>1, <4>3 DEF SinglesGo
      <4>5. Len(rotation.picks) # 0 => SingleTurns(S, M, ws, st.cursors, Tail(rotation.picks))
        BY <4>4, SinglesForgotten
      <4>6. QED
        BY <3>2, <4>4, <4>5
    <3>3. QED
      BY <2>3, <3>1, <3>2
  <2>15. ASSUME ~fillFirst
         PROVE  \E q : SingleTurns(S, M, ws, new, Append(q, r.auth)) /\ R = [key |-> <<{p}, ws>>, picks |-> Append(q, r.auth)]
    <3>1. PICK q : SingleTurns(S, M, ws, st.cursors, q) /\ R = [key |-> <<{p}, ws>>, picks |-> Append(q, r.auth)]
      BY <2>14, <2>15
    <3>2. PICK fill : fill = fillFirst
      OBVIOUS
    <3>3. ~fill /\ r = PickAt(st, i, ws, fill, tried) /\ Shows(M, S)
      BY <1>3, <2>9, <2>15, <3>2
    <3>4. SingleTurns(S, M, ws, new, Append(q, r.auth))
      BY ONLY IInv, AllSteady, p \in Providers, <1>1, <1>2, <2>4, <2>5, <2>6, <2>7, <2>13, <3>1, <3>3, SingleTurn, ZenonT(40)
    <3>5. QED
      BY <3>1, <3>4
  <2>16. rotation' = R /\ rotation' = [key |-> rotation'.key, picks |-> rotation'.picks]
    BY <2>1, <2>2, <2>3
  <2>17. ASSUME ~fillFirst' PROVE Going(rotation.key, rotation.picks)'
    <3>1. PICK q : SingleTurns(S, M, ws, new, Append(q, r.auth)) /\ R = [key |-> <<{p}, ws>>, picks |-> Append(q, r.auth)]
      BY <1>5, <2>15, <2>17
    <3>2. rotation'.key = <<{p}, ws>> /\ rotation'.picks = Append(q, r.auth)
      BY <2>16, <3>1
    <3>3. SingleTurns(S, M, ws, shard'[p].cursors, rotation'.picks)
      BY <2>12, <3>1, <3>2
    <3>4. QED
      BY <2>11, <3>2, <3>3 DEF Going, SinglesGo
  <2>18. QED
    BY <1>6, <2>16, <2>17 DEF RotInv
<1>9. QED
  BY <1>7, <1>8

\* A slot is a count, whoever was tried.
LEMMA SlotsType ==
  ASSUME IInv, AllSteady, mixedCursor \in Nat, NEW sh, sh = [p \in Providers |-> Ensured(shard[p])],
         NEW tried, FreeOf(Providers, tried) # {}, NEW i, i = MixedPriority(sh, tried)
  PROVE  StartSlot(sh, i) \in Nat /\ \A p : SegmentStart(sh, i, p) \in Nat
<1>1. \A q \in Providers : Bucket(sh[q], i) \subseteq Auths
  <2>1. ASSUME NEW q \in Providers PROVE Bucket(sh[q], i) \subseteq Auths
    <3>1. PICK st : st = sh[q]
      OBVIOUS
    <3>2. st = Ensured(shard[q])
      BY <3>1
    <3>3. Sound(st) /\ st.built
      BY ONLY IInv, AllSteady, q \in Providers, <3>2, ShardSeen
    <3>4. Known(st) /\ DOMAIN st.entry \subseteq DOMAIN st.metas /\ Fits(st)
      BY <3>3 DEF Sound, Filed
    <3>5. Bucket(st, i) \subseteq Auths
      BY <3>4, ViewsFinite
    <3>6. QED
      BY <3>1, <3>5
  <2>2. QED
    BY <2>1
<1>2. ASSUME NEW ps, ps \subseteq Providers
      PROVE  IsFiniteSet(ReadyAt(sh, i, ps)) /\ Cardinality(ReadyAt(sh, i, ps)) \in Nat
  <2>1. ReadyAt(sh, i, ps) \subseteq Auths
    BY <1>1, <1>2 DEF ReadyAt
  <2>2. QED
    BY <2>1, SchedulerAssumption, FS_Subset, FS_CardinalityType
<1>3. \A p : SegmentStart(sh, i, p) \in Nat
  <2>1. ASSUME NEW p PROVE SegmentStart(sh, i, p) \in Nat
    <3>1. PICK ps : ps = {q \in Providers : q < p}
      OBVIOUS
    <3>2. ps \subseteq Providers
      BY <3>1
    <3>3. QED
      BY <1>2, <3>1, <3>2 DEF SegmentStart
  <2>2. QED
    BY <2>1
<1>4. ReadyAt(sh, i, Providers) # {}
  <2>1. \E q \in Providers : Bucket(sh[q], i) # {}
    BY MixedPriorityIs
  <2>2. QED
    BY <2>1 DEF ReadyAt
<1>5. PICK n \in Nat : n = Cardinality(ReadyAt(sh, i, Providers))
  BY <1>2
<1>6. n # 0
  BY <1>2, <1>4, <1>5, FS_EmptySet
<1>7. mixedCursor % n \in Nat
  BY <1>6
<1>8. QED
  BY <1>3, <1>5, <1>7 DEF StartSlot

\* pickMixed keeps the turns: the segment's provider is asked, from its flat
\* cursor, and the next slot is the one behind.
LEMMA MixedRotates ==
  ASSUME IInv, AllSteady, RotInv, NEW tried, Cardinality(Providers) > 1, PickMixed(tried)
  PROVE  RotInv'
<1>1. PICK sh : sh = [p \in Providers |-> Ensured(shard[p])]
  OBVIOUS
<1>2. PICK i : i = MixedPriority(sh, tried)
  OBVIOUS
<1>3. PICK p : p = MixedProvider(sh, i, tried)
  OBVIOUS
<1>4. PICK ws : ws = FALSE
  OBVIOUS
<1>5. PICK r : r = PickAt(sh[p], i, ws, fillFirst, tried)
  OBVIOUS
<1>6. PICK moved : moved = (sh # shard)
  OBVIOUS
<1>7. PICK k, ps : k = StartSlot(sh, i) /\ ps = Providers
  OBVIOUS
<1>8. fillFirst' = fillFirst
  BY DEF PickMixed
<1>9. ASSUME ~(\A q \in Providers : OpenAt(sh[q], tried) = {})
      PROVE  /\ shard' = [sh EXCEPT ![p].cursors[i] = r.cursors]
             /\ rotation' = Rotated(ps, ws, tried, r.auth, moved)
             /\ mixedCursor' = IF fillFirst THEN mixedCursor
                               ELSE NextSlot(IF p = StartProvider(sh, i) THEN k ELSE SegmentStart(sh, i, p))
  <2>1. shard' = [sh EXCEPT ![p].cursors[i] = r.cursors]
    BY <1>1, <1>2, <1>3, <1>4, <1>5, <1>9 DEF PickMixed
  <2>2. rotation' = Rotated(ps, ws, tried, r.auth, moved)
    BY <1>1, <1>2, <1>3, <1>4, <1>5, <1>6, <1>7, <1>9 DEF PickMixed
  <2>3. mixedCursor' = IF fillFirst THEN mixedCursor
                       ELSE NextSlot(IF p = StartProvider(sh, i) THEN k ELSE SegmentStart(sh, i, p))
    BY <1>1, <1>2, <1>3, <1>7, <1>9 DEF PickMixed
  <2>4. QED
    BY <2>1, <2>2, <2>3
<1>10. CASE \A q \in Providers : OpenAt(sh[q], tried) = {}
  <2>1. mixedCursor' = mixedCursor /\ rotation' = NoRotation
    BY <1>1, <1>10 DEF PickMixed
  <2>2. QED
    BY <2>1, NoRotationKept DEF RotInv
<1>11. CASE ~(\A q \in Providers : OpenAt(sh[q], tried) = {})
  <2>1. FreeOf(Providers, tried) # {}
    BY <1>1, <1>11, MixedRefuses
  <2>2. i \in Priorities /\ p \in Providers /\ r.cursors \in Cursors
    BY <1>1, <1>2, <1>3, <1>4, <1>5, <2>1, MixedPick
  <2>3. PICK R : R = Rotated(ps, ws, tried, r.auth, moved)
    OBVIOUS
  <2>4. rotation' = R
    BY <1>9, <1>11, <2>3
  <2>5. \/ R = NoRotation
        \/ tried = {} /\ R = [key |-> <<ps, ws>>, picks |-> Append(<<>>, r.auth)]
        \/ /\ tried = {} /\ ~moved /\ rotation.key = <<ps, ws>> /\ rotation # NoRotation
           /\ \/ R = [key |-> <<ps, ws>>, picks |-> Append(rotation.picks, r.auth)]
              \/ Len(rotation.picks) # 0 /\ R = [key |-> <<ps, ws>>, picks |-> Append(Tail(rotation.picks), r.auth)]
    <3>1. PICK b : b = r.auth
      OBVIOUS
    <3>2. R = Rotated(ps, ws, tried, b, moved)
      BY <2>3, <3>1
    <3>3. \/ R = NoRotation
          \/ tried = {} /\ R = [key |-> <<ps, ws>>, picks |-> Append(<<>>, b)]
          \/ /\ tried = {} /\ ~moved /\ rotation.key = <<ps, ws>> /\ rotation # NoRotation
             /\ \/ R = [key |-> <<ps, ws>>, picks |-> Append(rotation.picks, b)]
                \/ Len(rotation.picks) # 0 /\ R = [key |-> <<ps, ws>>, picks |-> Append(Tail(rotation.picks), b)]
      BY ONLY RotInv, <3>2, RotatedIs
    <3>4. QED
      BY ONLY <3>1, <3>3
  <2>6. PICK F : F = FreeOf(Providers, {})
    OBVIOUS
  <2>7. PICK S : S = BestOf(F)
    OBVIOUS
  <2>8. PICK M : M = [a \in S |-> Meta(a)]
    OBVIOUS
  <2>9. PICK O : O = owner
    OBVIOUS
  <2>10. /\ Shows(M, S) /\ \A a \in S : O[a] = owner[a]
         /\ Alike(Providers, FALSE) = S /\ Snaps(S) = M
    <3>1. Preferred(F, FALSE) = BestOf(F)
      BY DEF Preferred
    <3>2. QED
      BY <2>6, <2>7, <2>8, <2>9, <3>1 DEF Shows, Alike, Snaps
  <2>11. S \subseteq Auths
    BY <2>6, <2>7 DEF BestOf, FreeOf, Candidates
  <2>12. PICK n \in Nat : n = Cardinality(S)
    BY <2>11, SchedulerAssumption, FS_Subset, FS_CardinalityType
  <2>13. ASSUME tried = {}
         PROVE  MixedViews(sh, S, M, O, i)
    <3>1. F = FreeOf(Providers, tried) /\ F # {}
      BY <2>1, <2>6, <2>13
    <3>2. QED
      BY ONLY IInv, AllSteady, <1>1, <1>2, <2>7, <2>10, <2>13, <3>1, MixedSeen
  <2>14. ASSUME tried = {}, ~fillFirst
         PROVE  /\ k \in 0..n-1 /\ k = Turn(mixedCursor, n) /\ p = StartProvider(sh, i)
                /\ Start(S, O, p) <= k /\ k < Start(S, O, p) + Width(S, O, p)
    <3>1. MixedViews(sh, S, M, O, i) /\ ~fillFirst /\ mixedCursor \in Nat
      BY <2>13, <2>14 DEF RotInv
    <3>2. QED
      BY ONLY <3>1, <1>3, <1>7, <2>12, n \in Nat, tried = {}, MixedServes
  <2>15. mixedCursor' \in Nat
    <3>1. StartSlot(sh, i) \in Nat /\ \A x : SegmentStart(sh, i, x) \in Nat
      <4>1. mixedCursor \in Nat
        BY DEF RotInv
      <4>2. QED
        BY ONLY IInv, AllSteady, <1>1, <1>2, <2>1, <4>1, SlotsType
    <3>2. PICK x \in Nat : x = IF p = StartProvider(sh, i) THEN k ELSE SegmentStart(sh, i, p)
      BY <1>7, <3>1
    <3>3. NextSlot(x) \in Nat
      BY DEF NextSlot
    <3>4. QED
      BY <1>9, <1>11, <3>2, <3>3 DEF RotInv
  <2>16. CASE R = NoRotation
    BY <2>4, <2>15, <2>16, NoRotationKept
  <2>17. CASE R # NoRotation
    <3>1. tried = {} /\ R = [key |-> R.key, picks |-> R.picks]
      BY <2>5, <2>17
    <3>2. ASSUME ~fillFirst' PROVE Going(rotation.key, rotation.picks)'
      <4>1. PICK fill : fill = fillFirst
        OBVIOUS
      <4>2. ~fillFirst /\ ~fill /\ ~ws
        BY <1>4, <1>8, <3>2, <4>1
      <4>3. /\ k \in 0..n-1 /\ k = Turn(mixedCursor, n) /\ p = StartProvider(sh, i)
            /\ Start(S, O, p) <= k /\ k < Start(S, O, p) + Width(S, O, p)
            /\ MixedViews(sh, S, M, O, i)
        BY <2>13, <2>14, <3>1, <4>2
      <4>4. /\ i \in Priorities /\ S # {} /\ \A a \in S : M[a].prio = i /\ O[a] \in Providers
            /\ \A x \in Providers : Steady(sh[x])
        BY <4>3 DEF MixedViews
      <4>5. PICK cur : cur = [x \in Providers |-> sh[x].cursors[i]]
        OBVIOUS
      <4>6. \A x \in Providers : cur[x] = sh[x].cursors[i] /\ cur[x] \in Cursors
        BY <4>4, <4>5 DEF Steady, CursorsOK
      <4>7. \E c, q : /\ MixedTurnsAt(S, M, O, cur, c, q) /\ k = Turn(c, n) /\ q \in Seq(S)
                      /\ R = [key |-> <<ps, ws>>, picks |-> Append(q, r.auth)]
        <5>1. CASE R = [key |-> <<ps, ws>>, picks |-> Append(<<>>, r.auth)]
          <6>1. k \in 0..n
            BY <4>3
          <6>2. PICK q : q = <<>>
            OBVIOUS
          <6>3. MixedTurnsAt(S, M, O, cur, k, q) /\ q \in Seq(S)
            BY <2>11, <2>12, <4>4, <4>6, <6>1, <6>2, MixedBegin
          <6>4. k = Turn(k, n)
            BY <4>3, RemainderSmall DEF Turn
          <6>5. QED
            BY <5>1, <6>2, <6>3, <6>4
        <5>2. CASE /\ ~moved /\ rotation.key = <<ps, ws>> /\ rotation # NoRotation
                   /\ \/ R = [key |-> <<ps, ws>>, picks |-> Append(rotation.picks, r.auth)]
                      \/ Len(rotation.picks) # 0 /\ R = [key |-> <<ps, ws>>, picks |-> Append(Tail(rotation.picks), r.auth)]
          <6>1. sh = shard
            BY <1>6, <5>2
          <6>2. Going(<<ps, ws>>, rotation.picks)
            BY <4>2, <5>2 DEF RotInv
          <6>3. MixedGo(rotation.picks)
            <7>1. ASSUME NEW x \in Providers, NEW y \in Websockets, <<ps, ws>> = <<{x}, y>>
                  PROVE  FALSE
              <8>1. Providers = {x}
                BY <1>7, <7>1
              <8>2. QED
                BY <8>1, FS_Singleton
            <7>2. QED
              BY <6>2, <7>1 DEF Going
          <6>4. MixedTurns(S, M, O, sh, mixedCursor, rotation.picks)
            BY <2>9, <2>10, <6>1, <6>3 DEF MixedGo
          <6>5. Len(rotation.picks) # 0 => MixedTurns(S, M, O, sh, mixedCursor, Tail(rotation.picks))
            BY <6>4, MixedForgotten
          <6>6. ASSUME NEW q, MixedTurns(S, M, O, sh, mixedCursor, q)
                PROVE  MixedTurnsAt(S, M, O, cur, mixedCursor, q) /\ q \in Seq(S)
            BY <4>4, <4>5, <6>6 DEF MixedTurns
          <6>7. QED
            BY <4>3, <5>2, <6>4, <6>5, <6>6
        <5>3. QED
          BY <2>5, <2>17, <5>1, <5>2
      <4>8. PICK c, q : /\ MixedTurnsAt(S, M, O, cur, c, q) /\ k = Turn(c, n) /\ q \in Seq(S)
                        /\ R = [key |-> <<ps, ws>>, picks |-> Append(q, r.auth)]
        BY <4>7
      <4>9. PICK new : new = [x \in Providers |-> shard'[x].cursors[i]]
        OBVIOUS
      <4>10. (\A x \in Providers \ {p} : new[x] = cur[x]) /\ new[p] = r.cursors
        <5>1. DOMAIN sh = Providers /\ shard' = [sh EXCEPT ![p].cursors[i] = r.cursors]
          BY <1>1, <1>9, <1>11
        <5>2. Fields(sh[p]) /\ sh[p].cursors \in [Priorities -> Cursors]
          BY <2>2, <4>3 DEF MixedViews, Sound, Steady, CursorsOK
        <5>3. shard'[p] = [sh[p] EXCEPT !.cursors[i] = r.cursors] /\ \A x \in Providers \ {p} : shard'[x] = sh[x]
          BY <2>2, <5>1
        <5>4. shard'[p].cursors[i] = r.cursors
          BY <2>2, <5>2, <5>3 DEF Fields
        <5>5. QED
          BY <2>2, <4>5, <4>9, <5>3, <5>4
      <4>11. Append(q, r.auth) \in Seq(S) /\ MixedTurnsAt(S, M, O, new, k + 1, Append(q, r.auth))
        <5>1. r = PickAt(sh[p], i, ws, fill, tried)
          BY <1>5, <4>1
        <5>2. AtSlot(sh, S, M, O, i, p, k)
          BY <2>2, <2>12, <4>3 DEF AtSlot
        <5>3. MixedTurnsAt(S, M, O, cur, c, q) /\ k = Turn(c, Cardinality(S)) /\ q \in Seq(S)
          BY <2>12, <4>8
        <5>4. OneMoved(sh, i, cur, p, r.cursors, new)
          BY <2>2, <4>6, <4>10 DEF OneMoved
        <5>5. PICK t : t = Append(q, r.auth)
          OBVIOUS
        <5>6. PICK e, b, h : e = cur[p] /\ b = r.auth /\ h = r.cursors
          OBVIOUS
        <5>7. OneMoved(sh, i, cur, p, h, new) /\ t = Append(q, b)
          BY <5>4, <5>5, <5>6
        <5>8. TakenAt(S, M, O, p, e, b, h)
          <6>1. e = sh[p].cursors[i]
            BY <2>2, <4>6, <5>6
          <6>2. QED
            BY ONLY <3>1, <4>2, <5>1, <5>2, <5>6, <6>1, MixedTaken
        <5>9. t \in Seq(S) /\ MixedTurnsAt(S, M, O, new, NextSlot(k), t)
          <6>1. MixedStep(sh, S, M, O, i, p, k, cur, new, b)
            <7>1. h = new[p]
              BY <5>6, <4>10
            <7>2. QED
              BY <5>2, <5>6, <5>7, <5>8, <7>1 DEF MixedStep
          <6>2. \A a, y, z : y \in Seq(S) /\ MixedTurnsAt(S, M, O, cur, a, y) /\ k = Turn(a, Cardinality(S)) /\ z = Append(y, b)
                               => z \in Seq(S) /\ MixedTurnsAt(S, M, O, new, NextSlot(k), z)
            BY ONLY <6>1, MixedTurn
          <6>3. QED
            BY ONLY <5>3, <5>7, <6>2
        <5>10. QED
          BY <5>5, <5>9 DEF NextSlot
      <4>12. mixedCursor' = k + 1
        BY <1>9, <1>11, <4>2, <4>3 DEF NextSlot
      <4>13. PICK t : t = Append(q, r.auth)
        OBVIOUS
      <4>14. MixedTurns(S, M, O, shard', k + 1, t)
        <5>1. ASSUME NEW j \in Priorities, \A a \in S : M[a].prio = j PROVE j = i
          BY <4>4, <5>1
        <5>2. QED
          BY <4>9, <4>11, <4>13, <5>1 DEF MixedTurns
      <4>15. Alike(Providers, FALSE)' = S /\ Snaps(Alike(Providers, FALSE))' = M /\ owner' = O
        <5>1. owner' = owner /\ \A v \in Providers : shard'[v].metas = shard[v].metas
          BY MixedKeeps
        <5>2. PICK all, none : all = Providers /\ all \subseteq Providers /\ none = {}
          OBVIOUS
        <5>3. /\ Preferred(FreeOf(all, none), ws)' = Preferred(FreeOf(all, none), ws)
              /\ \A a \in Preferred(FreeOf(all, none), ws) : a \in Auths /\ owner[a] \in all /\ Meta(a)' = Meta(a)
          BY <5>1, <5>2, Unmoved
        <5>4. Preferred(FreeOf(all, none), ws) = S
          BY <1>4, <2>10, <5>2 DEF Alike
        <5>5. Alike(Providers, FALSE)' = S
          BY <1>4, <5>2, <5>3, <5>4 DEF Alike
        <5>6. \A a \in S : Meta(a)' = Meta(a)
          BY <5>3, <5>4
        <5>7. QED
          BY <2>8, <2>9, <5>1, <5>5, <5>6 DEF Snaps
      <4>16. rotation'.key = <<Providers, FALSE>> /\ rotation'.picks = t
        BY <1>4, <1>7, <2>4, <4>8, <4>13
      <4>17. MixedTurns(S, M, O, shard', mixedCursor', rotation'.picks)
        BY <4>12, <4>14, <4>16
      <4>18. QED
        BY <4>15, <4>16, <4>17 DEF Going, MixedGo
    <3>3. QED
      BY <2>4, <2>15, <3>1, <3>2 DEF RotInv
  <2>18. QED
    BY <2>16, <2>17
<1>12. QED
  BY <1>10, <1>11

\* newAuthScheduler.
LEMMA InitRot == Init => RotInv
<1>1. NoRotation = [key |-> NoRotation.key, picks |-> NoRotation.picks]
  BY DEF NoRotation
<1>2. QED
  BY <1>1 DEF Init, RotInv

\* Upserts, removals, a rebuild, a new selector and time begin a new run.
LEMMA StepRot ==
  ASSUME IInv, AllSteady, RotInv, [Next]_vars
  PROVE  RotInv'
<1>1. ASSUME mixedCursor' \in {mixedCursor, 0}, Forgotten
      PROVE  RotInv'
  <2>1. mixedCursor' \in Nat
    BY <1>1 DEF RotInv
  <2>2. QED
    BY <1>1, <2>1, NoRotationKept DEF Forgotten
<1>2. ASSUME NEW p \in Providers, NEW ws \in Websockets, NEW tried \in TriedSets, PickSingle(p, ws, tried)
      PROVE  RotInv'
  BY <1>2, SingleRotates
<1>3. ASSUME NEW tried \in TriedSets, Cardinality(Providers) > 1, PickMixed(tried)
      PROVE  RotInv'
  BY <1>3, MixedRotates
<1>4. ASSUME NEW a \in Auths, NEW p \in Providers, NEW s \in Snapshots, Upsert(a, p, s)
      PROVE  RotInv'
  BY <1>1, <1>4 DEF Upsert
<1>5. ASSUME NEW a \in Auths, Remove(a)
      PROVE  RotInv'
  BY <1>1, <1>5 DEF Remove
<1>6. CASE Rebuild
  BY <1>1, <1>6 DEF Rebuild
<1>7. ASSUME NEW f \in Strategies, SetSelector(f)
      PROVE  RotInv'
  BY <1>1, <1>7 DEF SetSelector
<1>8. CASE Tick
  BY <1>1, <1>8 DEF Tick
<1>9. CASE UNCHANGED vars
  <2>1. /\ shard' = shard /\ owner' = owner /\ fillFirst' = fillFirst /\ mixedCursor' = mixedCursor /\ rotation' = rotation
    BY <1>9 DEF vars
  <2>2. \A ps, ws : Alike(ps, ws)' = Alike(ps, ws)
    BY <2>1 DEF Alike, Preferred, BestOf, FreeOf, Candidates, Meta
  <2>3. \A S : Snaps(S)' = Snaps(S)
    BY <2>1 DEF Snaps, Meta
  <2>4. ASSUME NEW key, NEW q, Going(key, q) PROVE Going(key, q)'
    <3>1. CASE Cardinality(Providers) > 1 /\ key = <<Providers, FALSE>> /\ MixedGo(q)
      BY <2>1, <2>2, <2>3, <3>1 DEF Going, MixedGo
    <3>2. ASSUME NEW p \in Providers, NEW ws \in Websockets, key = <<{p}, ws>>, SinglesGo(p, ws, q) PROVE Going(key, q)'
      BY <2>1, <2>2, <2>3, <3>2 DEF Going, SinglesGo
    <3>3. QED
      BY <2>4, <3>1, <3>2 DEF Going
  <2>5. PICK key, q : key = rotation.key /\ q = rotation.picks
    OBVIOUS
  <2>6. rotation # NoRotation /\ ~fillFirst => Going(key, q)'
    BY <2>4, <2>5 DEF RotInv
  <2>7. key = rotation'.key /\ q = rotation'.picks
    BY <2>1, <2>5
  <2>8. QED
    BY <2>1, <2>6, <2>7 DEF RotInv, Going, SinglesGo, MixedGo
<1>10. QED
  BY <1>2, <1>3, <1>4, <1>5, <1>6, <1>7, <1>8, <1>9 DEF Next

\* Whom like requests choose among are known, and of one priority.
LEMMA ChosenSeen ==
  ASSUME IInv, AllSeparate, NEW ps, ps \subseteq Providers, NEW ws, NEW S, S = Alike(ps, ws), NEW M, M = Snaps(S)
  PROVE  /\ S \subseteq Auths /\ \A a \in S : owner[a] \in ps /\ M[a] = Meta(a) /\ M[a] \in Snapshot
         /\ ParentsOf(S, M) \subseteq Parents \union {NoParent}
         /\ \A a \in S : M[a].ws => M[a].parent = NoParent
         /\ S # {} => \E i \in Priorities : \A a \in S : M[a].prio = i
<1>1. PICK none : none = {}
  OBVIOUS
<1>2. PICK F : F = FreeOf(ps, none)
  OBVIOUS
<1>3. \A a \in F : a \in Auths /\ owner[a] \in ps /\ a \in DOMAIN shard[owner[a]].metas
  BY <1>2 DEF FreeOf, Candidates, IInv, OneHome
<1>4. ASSUME NEW a \in F PROVE Meta(a) \in Snapshot /\ Ungrouped(Meta(a))
  BY <1>3 DEF IInv, Sound, Known, Meta, AllSeparate, Separate
<1>5. S \subseteq F /\ \A a, b \in S : Meta(a).prio <= Meta(b).prio
  BY <1>1, <1>2 DEF Alike, Preferred, BestOf
<1>6. \A a \in S : M[a] = Meta(a) /\ M[a] \in Snapshot /\ Ungrouped(M[a])
  BY <1>4, <1>5 DEF Snaps
<1>7. ParentsOf(S, M) \subseteq Parents \union {NoParent}
  BY <1>6 DEF ParentsOf, Snapshot
<1>8. S # {} => \E i \in Priorities : \A a \in S : M[a].prio = i
  <2>1. ASSUME NEW x \in S PROVE \A a \in S : M[a].prio = M[x].prio
    <3>1. ASSUME NEW a \in S PROVE M[a].prio = M[x].prio
      <4>1. PICK y \in Int, z \in Int : y = M[a].prio /\ z = M[x].prio
        BY <1>6, SchedulerAssumption DEF Snapshot
      <4>2. y <= z /\ z <= y
        BY <1>5, <1>6, <4>1
      <4>3. QED
        BY <4>1, <4>2
    <3>2. QED
      BY <3>1
  <2>2. \A x \in S : M[x].prio \in Priorities
    BY <1>6 DEF Snapshot
  <2>3. QED
    BY <2>1, <2>2
<1>9. QED
  BY <1>3, <1>5, <1>6, <1>7, <1>8 DEF Ungrouped

\* Picks in turn differ: those of all providers by their slots, those of a
\* provider whose credentials are several parents' by the parent.
LEMMA MixedTurnsFair ==
  ASSUME NEW S, NEW M, NEW O, NEW sh, NEW c, NEW q, MixedTurns(S, M, O, sh, c, q),
         S \subseteq Auths, \A a \in S : O[a] \in Providers, NEW i \in Priorities, \A a \in S : M[a].prio = i,
         ParentsOf(S, M) \subseteq Parents \union {NoParent},
         NEW j \in 1..Len(q), NEW k \in 1..Len(q), j < k
  PROVE  /\ (\A p \in Providers : ~Splits(Owned(S, O, p), M)) /\ k - j < Cardinality(S) => q[j] # q[k]
         /\ \A p \in Providers :
               /\ Splits(Owned(S, O, p), M) /\ k - j < Cardinality(ParentsOf(Owned(S, O, p), M))
               /\ (\A x \in j..k : q[x] \in Owned(S, O, p))
               => M[q[j]].parent # M[q[k]].parent
<1>1. PICK cur : cur = [p \in Providers |-> sh[p].cursors[i]]
  OBVIOUS
<1>2. q \in Seq(S) /\ MixedTurnsAt(S, M, O, cur, c, q)
  BY <1>1 DEF MixedTurns
<1>3. ASSUME \A p \in Providers : ~Splits(Owned(S, O, p), M), k - j < Cardinality(S)
      PROVE  q[j] # q[k]
  <2>1. PICK n \in Nat : n = Cardinality(S)
    BY SchedulerAssumption, FS_Subset, FS_CardinalityType
  <2>2. PICK flat : SlotTurns(S, O, flat, c, q)
    BY <1>2, <1>3 DEF MixedTurnsAt
  <2>3. PICK C \in [Providers -> Int] : InTurn(q, S, Places(S, O, C), n, c)
    BY <2>1, <2>2 DEF SlotTurns
  <2>4. PICK pos \in [S -> 0..n-1] : pos = Places(S, O, C)
    BY <2>1, PlacesType
  <2>5. \A x \in j..k : q[x] \in S
    <3>1. PICK l \in Nat : l = Len(q)
      BY <1>2
    <3>2. QED
      BY <1>2, <3>1
  <2>6. q \in Seq(S) /\ k - j < n /\ InTurn(q, S, pos, n, c)
    BY <1>2, <1>3, <2>1, <2>3, <2>4
  <2>7. pos[q[j]] # pos[q[k]]
    BY ONLY <2>5, <2>6, n \in Nat, pos \in [S -> 0..n-1], j \in 1..Len(q), k \in 1..Len(q), j < k, TurnsDiffer
  <2>8. QED
    BY <2>7
<1>4. ASSUME NEW p \in Providers, Splits(Owned(S, O, p), M), k - j < Cardinality(ParentsOf(Owned(S, O, p), M)),
             \A x \in j..k : q[x] \in Owned(S, O, p)
      PROVE  M[q[j]].parent # M[q[k]].parent
  <2>1. PICK T, G, d : T = Owned(S, O, p) /\ G = ParentsOf(T, M) /\ d = cur[p].parent
    OBVIOUS
  <2>2. G \subseteq Parents \union {NoParent}
    BY <2>1 DEF ParentsOf, Owned
  <2>3. IsFiniteSet(G)
    <3>1. IsFiniteSet(Parents \union {NoParent})
      BY SchedulerAssumption, FS_AddElement
    <3>2. QED
      BY <2>2, <3>1, FS_Subset
  <2>4. G \subseteq Int
    <3>1. Parents \subseteq Nat /\ NoParent \in Nat
      BY SchedulerAssumption DEF NoParent
    <3>2. Nat \subseteq Int
      OBVIOUS
    <3>3. QED
      BY <2>2, <3>1, <3>2
  <2>5. Cardinality(G) \in Nat /\ ParentRanks(T, M) \in [T -> 0..Cardinality(G)-1]
    BY <2>1, <2>3, <2>4, ParentRanksType
  <2>6. PICK m \in Nat : m = Cardinality(G)
    BY <2>5
  <2>7. PICK o \in [T -> 0..m-1] : o = ParentRanks(T, M)
    BY <2>5, <2>6
  <2>8. InTurn(q, T, o, m, d) /\ q \in Seq(S) /\ k - j < m /\ \A x \in j..k : q[x] \in T
    BY <1>2, <1>4, <2>1, <2>6, <2>7 DEF MixedTurnsAt
  <2>9. o[q[j]] # o[q[k]]
    BY ONLY <2>8, o \in [T -> 0..m-1], m \in Nat, j \in 1..Len(q), k \in 1..Len(q), j < k, TurnsDiffer
  <2>10. q[j] \in T /\ q[k] \in T
    <3>1. j \in j..k /\ k \in j..k
      OBVIOUS
    <3>2. QED
      BY <2>8, <3>1
  <2>11. QED
    BY <2>7, <2>9, <2>10 DEF ParentRanks
<1>5. QED
  BY <1>3, <1>4

\* So RotationFair is what the turns say.
LEMMA TurnsAreFair ==
  ASSUME IInv, AllSeparate, RotInv
  PROVE  RotationFair
<1> SUFFICES ASSUME rotation.picks # <<>>, ~fillFirst PROVE RotationFair
  BY DEF RotationFair
<1>1. PICK q, key : q = rotation.picks /\ key = rotation.key
  OBVIOUS
<1>2. Going(key, q)
  <2>1. rotation # NoRotation
    BY DEF NoRotation
  <2>2. QED
    BY <1>1, <2>1 DEF RotInv
<1>3. PICK ps, ws : key = <<ps, ws>> /\ ps \subseteq Providers
  <2>1. CASE \E y \in Providers, w \in Websockets : key = <<{y}, w>> /\ SinglesGo(y, w, q)
    <3>1. PICK y \in Providers, w \in Websockets : key = <<{y}, w>>
      BY <2>1
    <3>2. PICK one : one = {y}
      OBVIOUS
    <3>3. key = <<one, w>> /\ one \subseteq Providers
      BY <3>1, <3>2
    <3>4. QED
      BY ONLY <3>3
  <2>2. CASE key = <<Providers, FALSE>> /\ MixedGo(q)
    <3>1. PICK all, none : all = Providers /\ none = FALSE
      OBVIOUS
    <3>2. key = <<all, none>> /\ all \subseteq Providers
      BY <2>2, <3>1
    <3>3. QED
      BY ONLY <3>2
  <2>3. QED
    BY <1>2, <2>1, <2>2 DEF Going
<1>4. PICK S, M, O : S = Alike(ps, ws) /\ M = Snaps(S) /\ O = owner
  OBVIOUS
<1>5. /\ S \subseteq Auths /\ \A a \in S : O[a] \in ps /\ M[a] = Meta(a) /\ M[a] \in Snapshot
      /\ ParentsOf(S, M) \subseteq Parents \union {NoParent}
      /\ \A a \in S : M[a].ws => M[a].parent = NoParent
      /\ S # {} => \E i \in Priorities : \A a \in S : M[a].prio = i
  <2>1. ps \subseteq Providers
    BY <1>3
  <2>2. /\ S \subseteq Auths /\ \A a \in S : owner[a] \in ps /\ M[a] = Meta(a) /\ M[a] \in Snapshot
        /\ ParentsOf(S, M) \subseteq Parents \union {NoParent}
        /\ \A a \in S : M[a].ws => M[a].parent = NoParent
        /\ S # {} => \E i \in Priorities : \A a \in S : M[a].prio = i
    BY ONLY IInv, AllSeparate, <1>4, <2>1, ChosenSeen
  <2>3. QED
    BY <1>4, <2>2
<1>6. /\ q \in Seq(S)
      /\ \/ \E y \in Providers : ps = {y} /\ SingleTurns(S, M, ws, shard[y].cursors, q)
         \/ ps = Providers /\ MixedTurns(S, M, O, shard, mixedCursor, q)
  <2>1. CASE \E y \in Providers, w \in Websockets : key = <<{y}, w>> /\ SinglesGo(y, w, q)
    <3>1. PICK y \in Providers, w \in Websockets : key = <<{y}, w>> /\ SinglesGo(y, w, q)
      BY <2>1
    <3>2. ps = {y} /\ ws = w
      BY <1>3, <3>1
    <3>3. SingleTurns(S, M, ws, shard[y].cursors, q)
      BY <1>4, <3>1, <3>2 DEF SinglesGo
    <3>4. QED
      BY <3>2, <3>3 DEF SingleTurns
  <2>2. CASE key = <<Providers, FALSE>> /\ MixedGo(q)
    <3>1. PICK all, none : all = Providers /\ none = FALSE
      OBVIOUS
    <3>2. key = <<all, none>>
      BY <2>2, <3>1
    <3>3. ps = all /\ ws = none
      BY ONLY <1>3, <3>2
    <3>4. Alike(Providers, FALSE) = Alike(all, none)
      BY <3>1
    <3>5. MixedTurns(S, M, O, shard, mixedCursor, q)
      BY <1>4, <2>2, <3>1, <3>3, <3>4 DEF MixedGo
    <3>6. QED
      BY <3>1, <3>3, <3>5 DEF MixedTurns
  <2>3. QED
    BY <1>2, <2>1, <2>2 DEF Going
<1>7. PICK n \in Nat : n = Len(q) /\ DOMAIN q = 1..n
  BY <1>6
<1>8. ASSUME NEW j \in 1..n, NEW k \in 1..n, j < k
      PROVE  /\ (\A p \in ps : ~Splits(Owned(S, O, p), M)) /\ k - j < Cardinality(S) => q[j] # q[k]
             /\ \A p \in ps :
                   /\ Splits(Owned(S, O, p), M) /\ k - j < Cardinality(ParentsOf(Owned(S, O, p), M))
                   /\ (\A x \in j..k : q[x] \in Owned(S, O, p))
                   => M[q[j]].parent # M[q[k]].parent
  <2>1. q[j] \in S
    BY <1>6, <1>7
  <2>2. PICK i \in Priorities : \A a \in S : M[a].prio = i
    BY <1>5, <2>1
  <2>3. j \in 1..Len(q) /\ k \in 1..Len(q)
    BY <1>7
  <2>4. ASSUME NEW y \in Providers, ps = {y}, SingleTurns(S, M, ws, shard[y].cursors, q)
        PROVE  /\ ~Splits(S, M) /\ k - j < Cardinality(S) => q[j] # q[k]
               /\ Splits(S, M) /\ k - j < Cardinality(ParentsOf(S, M)) => M[q[j]].parent # M[q[k]].parent
    <3>1. PICK cursors : cursors = shard[y].cursors
      OBVIOUS
    <3>2. SingleTurns(S, M, ws, cursors, q)
      BY <2>4, <3>1
    <3>3. S \subseteq Auths /\ ParentsOf(S, M) \subseteq Parents \union {NoParent} /\ (ws => \A a \in S : M[a].ws => M[a].parent = NoParent)
      BY <1>5
    <3>4. QED
      BY ONLY <2>2, <2>3, <3>2, <3>3, i \in Priorities, j < k, SingleTurnsFair
  <2>5. CASE \E y \in Providers : ps = {y} /\ SingleTurns(S, M, ws, shard[y].cursors, q)
    <3>1. PICK y \in Providers : ps = {y} /\ SingleTurns(S, M, ws, shard[y].cursors, q)
      BY <2>5
    <3>2. Owned(S, O, y) = S
      BY <1>5, <3>1 DEF Owned
    <3>3. QED
      BY <2>4, <3>1, <3>2
  <2>6. CASE ps = Providers /\ MixedTurns(S, M, O, shard, mixedCursor, q)
    <3>1. PICK sh, c : sh = shard /\ c = mixedCursor
      OBVIOUS
    <3>2. MixedTurns(S, M, O, sh, c, q)
      BY <2>6, <3>1
    <3>3. S \subseteq Auths /\ ParentsOf(S, M) \subseteq Parents \union {NoParent} /\ \A a \in S : O[a] \in Providers
      BY <1>5, <2>6
    <3>4. /\ (\A p \in Providers : ~Splits(Owned(S, O, p), M)) /\ k - j < Cardinality(S) => q[j] # q[k]
          /\ \A p \in Providers :
                /\ Splits(Owned(S, O, p), M) /\ k - j < Cardinality(ParentsOf(Owned(S, O, p), M))
                /\ (\A x \in j..k : q[x] \in Owned(S, O, p))
                => M[q[j]].parent # M[q[k]].parent
      BY ONLY <2>2, <2>3, <3>2, <3>3, i \in Priorities, j < k, MixedTurnsFair
    <3>5. QED
      BY <2>6, <3>4
  <2>7. QED
    BY <1>6, <2>5, <2>6
<1>9. S = Preferred(FreeOf(ps, {}), ws) /\ rotation.key[1] = ps /\ rotation.key[2] = ws
  BY <1>1, <1>3, <1>4 DEF Alike
<1>10. ASSUME NEW p
       PROVE  /\ {a \in S : owner[a] = p} = Owned(S, O, p)
              /\ {Meta(a).parent : a \in {a \in S : owner[a] = p}} = ParentsOf(Owned(S, O, p), M)
  BY <1>4, <1>5 DEF Owned, ParentsOf
<1>11. ASSUME NEW j \in DOMAIN q, NEW k \in DOMAIN q, j < k
       PROVE  /\ (\A p \in ps : ~(/\ NoParent \notin {Meta(a).parent : a \in {a \in S : owner[a] = p}}
                                  /\ Cardinality({Meta(a).parent : a \in {a \in S : owner[a] = p}}) > 1)) /\ k - j < Cardinality(S)
                 => q[j] # q[k]
              /\ \A p \in ps :
                    /\ NoParent \notin {Meta(a).parent : a \in {a \in S : owner[a] = p}}
                    /\ Cardinality({Meta(a).parent : a \in {a \in S : owner[a] = p}}) > 1
                    /\ k - j < Cardinality({Meta(a).parent : a \in {a \in S : owner[a] = p}}) /\ (\A i \in j..k : owner[q[i]] = p)
                    => Meta(q[j]).parent # Meta(q[k]).parent
  <2>1. j \in 1..n /\ k \in 1..n
    BY <1>7
  <2>2. \A x \in j..k : q[x] \in S
    BY <1>6, <1>7, <2>1
  <2>3. Meta(q[j]) = M[q[j]] /\ Meta(q[k]) = M[q[k]]
    BY <1>5, <1>6, <1>7, <2>1
  <2>4. ASSUME \A p \in ps : ~(/\ NoParent \notin {Meta(a).parent : a \in {a \in S : owner[a] = p}}
                               /\ Cardinality({Meta(a).parent : a \in {a \in S : owner[a] = p}}) > 1),
               k - j < Cardinality(S)
        PROVE  q[j] # q[k]
    <3>1. ASSUME NEW p \in ps PROVE ~Splits(Owned(S, O, p), M)
      BY <1>10, <2>4 DEF Splits
    <3>2. QED
      BY <1>8, <1>11, <2>1, <2>4, <3>1
  <2>5. ASSUME NEW p \in ps, NoParent \notin {Meta(a).parent : a \in {a \in S : owner[a] = p}},
               Cardinality({Meta(a).parent : a \in {a \in S : owner[a] = p}}) > 1,
               k - j < Cardinality({Meta(a).parent : a \in {a \in S : owner[a] = p}}), \A i \in j..k : owner[q[i]] = p
        PROVE  Meta(q[j]).parent # Meta(q[k]).parent
    <3>1. Splits(Owned(S, O, p), M) /\ k - j < Cardinality(ParentsOf(Owned(S, O, p), M))
      BY <1>10, <2>5 DEF Splits
    <3>2. \A x \in j..k : q[x] \in Owned(S, O, p)
      BY <1>4, <2>2, <2>5 DEF Owned
    <3>3. QED
      BY <1>8, <1>11, <2>1, <2>3, <3>1, <3>2
  <2>6. QED
    BY <2>4, <2>5
<1>12. QED
  BY <1>1, <1>9, <1>11 DEF RotationFair

\* pickSingle and pickMixed share the work: of like picks in a row, as many
\* as there are credentials to choose among are different, or of as many
\* different virtual parents as a provider's credentials have, as long as no
\* credential's quota recovers later than the credential may be tried again,
\* and none that wants websockets is a virtual parent's child.
THEOREM PicksTakeTurns ==
  ASSUME \A s \in Snapshots : Recovers(s) /\ Ungrouped(s)
  PROVE  Spec => []RotationFair
<1>1. Init => IInv /\ AllSteady /\ AllSeparate /\ RotInv
  BY InitInv, InitSteady, InitSeparate, InitRot
<1>2. (IInv /\ AllSteady /\ AllSeparate /\ RotInv) /\ [Next]_vars => (IInv /\ AllSteady /\ AllSeparate /\ RotInv)'
  BY StepInv, StepSteady, StepSeparate, StepRot
<1>3. IInv /\ AllSteady /\ AllSeparate /\ RotInv => RotationFair
  BY TurnsAreFair
<1>4. QED
  BY <1>1, <1>2, <1>3, PTL DEF Spec

-----------------------------------------------------------------------------
(* The selector that keeps a conversation with its credential              *)
(* (SessionAffinity, where requests of two turns do not overlap).          *)
PickPlaces == {"rests", "refreshes", "looks", "deletes", "selects", "binds", "served"}
Bindings == [auth : SessionAuths \union {Session!None}, left : Int]
PickStates == [at : PickPlaces, key : Session!Keys, from : SUBSET SessionAuths,
               auth : SessionAuths \union {Session!None}, tried : SUBSET SessionAuths, owed : SUBSET SessionAuths]

SessionType == /\ entries \in [Session!Keys -> Bindings]
               /\ available \subseteq SessionAuths
               /\ pick \in [Requests -> PickStates]
               /\ anchor \in [Session!Keys -> SessionAuths \union {Session!None}]
               /\ age \in [Session!Keys -> 0..TTL]
               /\ \A r \in Requests : pick[r].at \in {"binds", "served"} => pick[r].auth \in SessionAuths

(* What a key is to be given is what it is bound to, for as long as that   *)
(* is promised.                                                            *)
Anchored == \A k \in Session!Keys : anchor[k] # Session!None =>
                entries[k].auth = anchor[k] /\ entries[k].left >= TTL - age[k]

(* Requests that overlap are of one turn, and what their key is to be      *)
(* given is what each of them is owed.                                     *)
OneTurn == \A r, s \in Session!Picking : pick[r].key = pick[s].key
Remembered == \A r \in Session!Picking :
                anchor[pick[r].key] # Session!None => anchor[pick[r].key] \in pick[r].owed

(* What a request is owed is where it will look, or already in its hands.  *)
BoundTo(k, a) == entries[k].auth = a /\ Session!Found(k)
InReach(r, a) ==
    \/ pick[r].at = "refreshes" /\ BoundTo(pick[r].key, a)
    \/ /\ pick[r].at \in {"refreshes", "looks"} /\ pick[r].key = "full" /\ BoundTo("short", a)
       /\ pick[r].at = "refreshes" => entries["full"].auth = Session!None
    \/ pick[r].at = "binds" /\ pick[r].auth = a
Reachable == \A r \in Session!Picking :
                /\ pick[r].owed \subseteq pick[r].from
                /\ \A a \in pick[r].owed : InReach(r, a)

(* Only a request of a later turn looks at the short key, and what it      *)
(* deletes has expired.                                                    *)
Lapsed == \A r \in Session!Picking :
                /\ pick[r].at \in {"looks", "deletes"} => pick[r].key = "full"
                /\ pick[r].at = "deletes" => ~Session!Found("short")

SessionInv == SessionType /\ Anchored /\ OneTurn /\ Remembered /\ Reachable /\ Lapsed

\* Nobody picks and nothing is bound at the beginning.
LEMMA SessionBegins == Session!Init => SessionInv
<1> SUFFICES ASSUME Session!Init PROVE SessionInv
  OBVIOUS
<1>1. SessionType
  BY SessionAssumption DEF Session!Init, SessionType, Bindings, PickStates, PickPlaces, Session!Unbound,
     Session!Resting, Session!Keys
<1>2. Session!Picking = {}
  BY DEF Session!Init, Session!Picking, Session!Resting
<1>3. Anchored
  BY DEF Session!Init, Anchored
<1>4. QED
  BY <1>1, <1>2, <1>3 DEF SessionInv, OneTurn, Remembered, Reachable, Lapsed

\* Bindings that are prolonged, and expired ones that are dropped, keep what is promised.
Lapsing == \A k \in Session!Keys :
              /\ Session!Found(k) => entries'[k].auth = entries[k].auth /\ entries'[k].left \in {entries[k].left, TTL}
              /\ ~Session!Found(k) => entries'[k] \in {entries[k], Session!Unbound}

LEMMA LapsingKeeps ==
  ASSUME SessionInv, Lapsing, entries' \in [Session!Keys -> Bindings], anchor' = anchor, age' = age
  PROVE  /\ Anchored'
         /\ \A k \in Session!Keys, a \in SessionAuths : BoundTo(k, a) => BoundTo(k, a)'
         /\ \A k \in Session!Keys : /\ entries[k].auth = Session!None => entries'[k].auth = Session!None
                                    /\ ~Session!Found(k) => ~Session!Found(k)'
<1>1. TTL \in Nat /\ Session!None = 0 /\ Session!Expired = -1 /\ age \in [Session!Keys -> 0..TTL]
  BY SessionAssumption DEF Session!None, Session!Expired, SessionInv, SessionType
<1>2. entries \in [Session!Keys -> Bindings]
  BY DEF SessionInv, SessionType
<1>3. ASSUME NEW k \in Session!Keys
      PROVE  /\ entries[k].left \in Int /\ entries'[k].left \in Int /\ age[k] \in 0..TTL
             /\ Session!Found(k) <=> (entries[k].auth # 0 /\ entries[k].left # -1)
             /\ Session!Found(k)' <=> (entries'[k].auth # 0 /\ entries'[k].left # -1)
             /\ Session!Unbound.auth = 0
             /\ Session!Found(k) => entries'[k].auth = entries[k].auth /\ entries'[k].left \in {entries[k].left, TTL}
             /\ ~Session!Found(k) => entries'[k] \in {entries[k], Session!Unbound}
  BY <1>1, <1>2, <1>3 DEF Session!Found, Session!Unbound, Bindings, Lapsing
<1>4. ASSUME NEW k \in Session!Keys, anchor[k] # Session!None
      PROVE  entries[k].auth = anchor[k] /\ entries[k].left >= TTL - age[k]
  BY <1>4 DEF SessionInv, Anchored
<1>5. ASSUME NEW k \in Session!Keys, anchor[k] # Session!None
      PROVE  entries'[k].auth = anchor[k] /\ entries'[k].left >= TTL - age[k]
  <2>1. Session!Found(k)
    BY <1>1, <1>3, <1>4, <1>5
  <2>2. QED
    BY <1>1, <1>3, <1>4, <1>5, <2>1
<1>6. Anchored'
  BY <1>5 DEF Anchored
<1>7. ASSUME NEW k \in Session!Keys, NEW a \in SessionAuths, BoundTo(k, a)
      PROVE  BoundTo(k, a)'
  BY <1>1, <1>3, <1>7 DEF BoundTo
<1>8. ASSUME NEW k \in Session!Keys
      PROVE  /\ entries[k].auth = Session!None => entries'[k].auth = Session!None
             /\ ~Session!Found(k) => ~Session!Found(k)'
  BY <1>1, <1>3
<1>9. QED
  BY <1>6, <1>7, <1>8

\* A request that goes on, still in reach of what it is owed, keeps all of it.
LEMMA GoingOn ==
  ASSUME SessionInv, Lapsing, entries' \in [Session!Keys -> Bindings], UNCHANGED <<anchor, age, available>>,
         NEW r \in Session!Picking, NEW place \in PickPlaces \ {"rests", "served"},
         NEW b \in SessionAuths \union {Session!None}, Session!Go(r, place, b),
         \A a \in pick[r].owed : InReach(r, a)',
         place \in {"looks", "deletes"} => pick[r].key = "full",
         place = "deletes" => ~Session!Found("short")', place = "binds" => b \in SessionAuths
  PROVE  SessionInv'
<1>1. r \in Requests /\ pick \in [Requests -> PickStates] /\ "short" \in Session!Keys /\ "full" \in Session!Keys
  BY DEF Session!Picking, SessionInv, SessionType, Session!Keys
<1>2. pick' \in [Requests -> PickStates] /\ pick'[r].at = place /\ pick'[r].auth = b /\ pick'[r].key = pick[r].key
      /\ pick'[r].from = pick[r].from /\ pick'[r].owed = pick[r].owed
      /\ \A s \in Requests : s # r => pick'[s] = pick[s]
  BY <1>1 DEF Session!Go, PickStates
<1>3. SessionType'
  BY <1>2 DEF SessionInv, SessionType
<1>4. /\ Anchored'
      /\ \A k \in Session!Keys, a \in SessionAuths : BoundTo(k, a) => BoundTo(k, a)'
      /\ \A k \in Session!Keys : /\ entries[k].auth = Session!None => entries'[k].auth = Session!None
                                 /\ ~Session!Found(k) => ~Session!Found(k)'
  BY LapsingKeeps
<1>5. Session!Picking' = Session!Picking
  BY <1>1, <1>2 DEF Session!Picking, PickPlaces
<1>6. \A s \in Session!Picking : s \in Requests /\ pick'[s].key = pick[s].key /\ pick'[s].owed = pick[s].owed
                                 /\ pick'[s].from = pick[s].from /\ pick[s].owed \subseteq SessionAuths
                                 /\ pick[s].key \in Session!Keys
  BY <1>1, <1>2 DEF Session!Picking, PickStates
<1>7. OneTurn' /\ Remembered'
  BY <1>5, <1>6 DEF SessionInv, OneTurn, Remembered
<1>8. Reachable'
  <2> SUFFICES ASSUME NEW s \in Session!Picking PROVE /\ pick'[s].owed \subseteq pick'[s].from
                                                      /\ \A a \in pick'[s].owed : InReach(s, a)'
    BY <1>5 DEF Reachable
  <2>1. pick'[s].owed \subseteq pick'[s].from
    BY <1>6 DEF SessionInv, Reachable
  <2>2. CASE s = r
    BY <1>6, <2>1, <2>2
  <2>3. CASE s # r
    <3> SUFFICES ASSUME NEW a \in pick[s].owed PROVE InReach(s, a)'
      BY <1>6, <2>1
    <3>1. InReach(s, a) /\ a \in SessionAuths /\ pick'[s] = pick[s]
      BY <1>2, <1>6, <2>3 DEF SessionInv, Reachable
    <3>2. QED
      BY <1>1, <1>4, <1>6, <3>1 DEF InReach
  <2>4. QED
    BY <2>2, <2>3
<1>9. Lapsed'
  <2> SUFFICES ASSUME NEW s \in Session!Picking
               PROVE  /\ pick'[s].at \in {"looks", "deletes"} => pick'[s].key = "full"
                      /\ pick'[s].at = "deletes" => ~Session!Found("short")'
    BY <1>5 DEF Lapsed
  <2>1. CASE s = r
    BY <1>2, <2>1
  <2>2. CASE s # r
    BY <1>1, <1>2, <1>4, <1>6, <2>2 DEF SessionInv, Lapsed
  <2>3. QED
    BY <2>1, <2>2
<1>10. QED
  BY <1>3, <1>4, <1>7, <1>8, <1>9 DEF SessionInv

\* A request that is given what it is owed leaves the others with what they are owed.
LEMMA Serving ==
  ASSUME SessionInv, NEW r \in Session!Picking, NEW b \in SessionAuths, pick[r].owed \subseteq {b},
         Session!Given(r, b), entries' = [entries EXCEPT ![pick[r].key] = [auth |-> b, left |-> TTL]],
         available' = available
  PROVE  SessionInv'
<1>1. /\ r \in Requests /\ pick \in [Requests -> PickStates] /\ "short" \in Session!Keys /\ "full" \in Session!Keys
      /\ TTL \in Nat /\ Session!None = 0 /\ Session!Expired = -1 /\ b # 0
      /\ age \in [Session!Keys -> 0..TTL] /\ anchor \in [Session!Keys -> SessionAuths \union {0}]
      /\ entries \in [Session!Keys -> Bindings]
  BY SessionAssumption DEF Session!Picking, SessionInv, SessionType, Session!Keys, Session!None, Session!Expired
<1>2. PICK k \in Session!Keys : k = pick[r].key
  BY <1>1 DEF PickStates
<1>3. /\ pick' = [s \in Requests |-> IF s = r THEN [pick[s] EXCEPT !.at = "served", !.auth = b]
                                    ELSE [pick[s] EXCEPT !.owed = @ \intersect {b}]]
      /\ anchor' = [anchor EXCEPT ![k] = IF \A s \in Session!Picking \ {r} : pick[s].key # k THEN b ELSE @]
      /\ age' = [age EXCEPT ![k] = 0]
  BY <1>2 DEF Session!Given
<1>4. ASSUME NEW s \in Requests, s # r
      PROVE  /\ pick'[s].at = pick[s].at /\ pick'[s].key = pick[s].key /\ pick'[s].from = pick[s].from
             /\ pick'[s].auth = pick[s].auth /\ pick'[s].owed = pick[s].owed \intersect {b}
             /\ pick'[s] \in PickStates
  BY <1>1, <1>3, <1>4 DEF PickStates
<1>5. pick'[r].at = "served" /\ pick'[r].auth = b /\ pick'[r] \in PickStates
  BY <1>1, <1>3 DEF PickStates, PickPlaces
<1>6. pick' \in [Requests -> PickStates]
  BY <1>3, <1>4, <1>5
<1>7. SessionType'
  <2>1. entries' \in [Session!Keys -> Bindings]
    BY <1>1, <1>2 DEF Bindings
  <2>2. age' \in [Session!Keys -> 0..TTL]
    <3>1. 0 \in 0..TTL
      BY <1>1
    <3>2. QED
      BY <1>1, <1>3, <3>1
  <2>3. anchor' \in [Session!Keys -> SessionAuths \union {Session!None}]
    BY <1>1, <1>3
  <2>4. \A s \in Requests : pick'[s].at \in {"binds", "served"} => pick'[s].auth \in SessionAuths
    BY <1>1, <1>4, <1>5 DEF SessionInv, SessionType
  <2>5. QED
    BY <1>6, <2>1, <2>2, <2>3, <2>4 DEF SessionInv, SessionType
<1>8. Session!Picking' = Session!Picking \ {r}
  BY <1>1, <1>4, <1>5 DEF Session!Picking
<1>9. \A s \in Session!Picking : s \in Requests /\ pick[s].key = k
  BY <1>2 DEF SessionInv, OneTurn, Session!Picking
<1>10. anchor[k] # 0 => anchor[k] = b
  BY <1>1, <1>2 DEF SessionInv, Remembered
<1>11. anchor'[k] \in {0, b}
  BY <1>1, <1>3, <1>10
<1>12. /\ entries'[k].auth = b /\ entries'[k].left = TTL /\ age'[k] = 0
       /\ \A j \in Session!Keys : j # k => entries'[j] = entries[j] /\ anchor'[j] = anchor[j] /\ age'[j] = age[j]
  BY <1>1, <1>2, <1>3
<1>13. Anchored'
  <2> SUFFICES ASSUME NEW j \in Session!Keys, anchor'[j] # 0
               PROVE  entries'[j].auth = anchor'[j] /\ entries'[j].left >= TTL - age'[j]
    BY <1>1 DEF Anchored, Session!None
  <2>1. CASE j = k
    BY <1>1, <1>11, <1>12, <2>1
  <2>2. CASE j # k
    BY <1>1, <1>12, <2>2 DEF SessionInv, Anchored
  <2>3. QED
    BY <2>1, <2>2
<1>14. OneTurn'
  BY <1>4, <1>8, <1>9 DEF OneTurn
<1>15. Remembered'
  <2> SUFFICES ASSUME NEW s \in Session!Picking, s # r, anchor'[k] # 0
               PROVE  anchor'[k] \in pick[s].owed \intersect {b}
    BY <1>1, <1>4, <1>8, <1>9 DEF Remembered, Session!None
  <2>1. anchor'[k] = anchor[k]
    BY <1>1, <1>3, <1>9
  <2>2. anchor[k] \in pick[s].owed
    BY <1>1, <1>9, <2>1 DEF SessionInv, Remembered
  <2>3. QED
    BY <1>10, <2>1, <2>2
<1>16. BoundTo(k, b)'
  BY <1>1, <1>12 DEF BoundTo, Session!Found
<1>17. ASSUME NEW j \in Session!Keys, j # k
       PROVE  (Session!Found(j) <=> Session!Found(j)') /\ \A a : BoundTo(j, a) <=> BoundTo(j, a)'
  BY <1>12, <1>17 DEF BoundTo, Session!Found
<1>18. Reachable'
  <2> SUFFICES ASSUME NEW s \in Session!Picking, s # r, NEW a \in pick[s].owed \intersect {b}
               PROVE  pick'[s].owed \subseteq pick'[s].from /\ InReach(s, a)'
    <3>1. \A s \in Session!Picking \ {r} : pick'[s].owed \subseteq pick'[s].from
      BY <1>4, <1>9 DEF SessionInv, Reachable
    <3>2. QED
      BY <1>4, <1>8, <1>9, <3>1 DEF Reachable
  <2>1. InReach(s, a) /\ a = b /\ pick[s].owed \subseteq pick[s].from
    BY DEF SessionInv, Reachable
  <2>2. CASE pick[s].at = "refreshes"
    BY <1>4, <1>9, <1>16, <2>1, <2>2 DEF InReach
  <2>3. CASE pick[s].at = "looks"
    <3>1. k = "full" /\ BoundTo("short", a)
      BY <1>9, <2>1, <2>3 DEF InReach
    <3>2. QED
      BY <1>1, <1>4, <1>9, <1>17, <2>1, <2>3, <3>1 DEF InReach
  <2>4. CASE pick[s].at = "binds"
    BY <1>4, <1>9, <2>1, <2>4 DEF InReach
  <2>5. QED
    BY <1>4, <1>9, <2>1, <2>2, <2>3, <2>4 DEF InReach
<1>19. Lapsed'
  <2> SUFFICES ASSUME NEW s \in Session!Picking, s # r
               PROVE  /\ pick'[s].at \in {"looks", "deletes"} => pick'[s].key = "full"
                      /\ pick'[s].at = "deletes" => ~Session!Found("short")'
    BY <1>8 DEF Lapsed
  <2>1. /\ pick[s].at \in {"looks", "deletes"} => k = "full"
        /\ pick[s].at = "deletes" => ~Session!Found("short")
    BY <1>9 DEF SessionInv, Lapsed
  <2>2. QED
    BY <1>1, <1>4, <1>9, <1>17, <2>1
<1>20. QED
  BY <1>7, <1>13, <1>14, <1>15, <1>18, <1>19 DEF SessionInv

\* What begins is owed what its key is to be given, or the key of the turn before.
LEMMA Beginning ==
  ASSUME SessionInv, NEW r \in Requests, NEW k \in Session!Keys, Session!Begin(r, k)
  PROVE  SessionInv'
<1>1. /\ pick \in [Requests -> PickStates] /\ "short" \in Session!Keys /\ "full" \in Session!Keys
      /\ Session!None = 0 /\ available \subseteq SessionAuths /\ 0 \notin SessionAuths
      /\ anchor \in [Session!Keys -> SessionAuths \union {0}]
  BY SessionAssumption DEF SessionInv, SessionType, Session!Keys, Session!None
<1>2. PICK from : from = available \ pick[r].tried
  OBVIOUS
<1>3. PICK owed : owed = Session!Owed(k, from)
  OBVIOUS
<1>4. /\ pick[r].at = "rests" /\ \A s \in Session!Picking : pick[s].key = k
      /\ pick' = [pick EXCEPT ![r] = [at |-> "refreshes", key |-> k, from |-> from, auth |-> 0,
                                      tried |-> pick[r].tried, owed |-> owed]]
      /\ anchor' = [anchor EXCEPT ![k] = IF anchor[k] \in from THEN anchor[k] ELSE 0]
      /\ UNCHANGED <<entries, available, age>>
  BY <1>1, <1>2, <1>3 DEF Session!Begin
<1>5. from \subseteq SessionAuths /\ owed \subseteq from /\ pick[r].tried \subseteq SessionAuths
  BY <1>1, <1>2, <1>3 DEF Session!Owed, PickStates
<1>6. /\ pick'[r] = [at |-> "refreshes", key |-> k, from |-> from, auth |-> 0, tried |-> pick[r].tried, owed |-> owed]
      /\ \A s \in Requests : s # r => pick'[s] = pick[s]
      /\ pick' \in [Requests -> PickStates]
  BY <1>1, <1>4, <1>5 DEF PickStates, PickPlaces
<1>7. PICK u : u = (IF anchor[k] \in from THEN anchor[k] ELSE 0)
  OBVIOUS
<1>8. /\ anchor'[k] = u /\ \A j \in Session!Keys : j # k => anchor'[j] = anchor[j]
      /\ anchor' \in [Session!Keys -> SessionAuths \union {0}]
  BY <1>1, <1>4, <1>5, <1>7
<1>9. SessionType'
  BY <1>1, <1>4, <1>6, <1>8 DEF SessionInv, SessionType
<1>10. Anchored'
  BY <1>1, <1>4, <1>7, <1>8 DEF SessionInv, Anchored
<1>11. Session!Picking' = Session!Picking \union {r} /\ r \notin Session!Picking
  BY <1>1, <1>4, <1>6 DEF Session!Picking
<1>12. \A s \in Session!Picking : s \in Requests /\ pick'[s] = pick[s] /\ pick[s].key = k
  BY <1>4, <1>6, <1>11 DEF Session!Picking
<1>13. OneTurn'
  BY <1>6, <1>11, <1>12 DEF OneTurn
<1>14. anchor[k] \in from => entries[k].auth = anchor[k] /\ anchor[k] # 0 /\ Session!Found(k)
  <2>1. TTL \in Nat /\ age[k] \in 0..TTL /\ entries[k].left \in Int /\ Session!Expired = -1
    BY SessionAssumption DEF SessionInv, SessionType, Bindings, Session!Expired
  <2>2. QED
    BY <1>1, <1>5, <2>1 DEF SessionInv, Anchored, Session!Found
<1>15. anchor[k] \in from => owed = {anchor[k]}
  BY <1>1, <1>3, <1>14 DEF Session!Owed
<1>16. Remembered'
  <2>1. \A s \in Session!Picking : u # 0 => u \in pick'[s].owed
    BY <1>1, <1>7, <1>12 DEF SessionInv, Remembered
  <2>2. u # 0 => u \in pick'[r].owed
    BY <1>6, <1>7, <1>15
  <2>3. QED
    BY <1>1, <1>6, <1>8, <1>11, <1>12, <2>1, <2>2 DEF Remembered
<1>17. ASSUME NEW a \in owed
       PROVE  InReach(r, a)'
  <2>1. a \in from /\ a # 0
    BY <1>1, <1>5
  <2>2. CASE a = anchor[k]
    BY <1>4, <1>6, <1>14, <2>1, <2>2 DEF InReach, BoundTo, Session!Found
  <2>3. CASE a # anchor[k]
    <3>1. k = "full" /\ entries["full"].auth = 0 /\ a = anchor["short"]
      BY <1>1, <1>3, <2>3 DEF Session!Owed
    <3>2. entries["short"].auth = a /\ Session!Found("short")
      <4>1. TTL \in Nat /\ age["short"] \in 0..TTL /\ entries["short"].left \in Int /\ Session!Expired = -1
        BY <1>1, SessionAssumption DEF SessionInv, SessionType, Bindings, Session!Expired
      <4>2. QED
        BY <1>1, <2>1, <3>1, <4>1 DEF SessionInv, Anchored, Session!Found
    <3>3. QED
      BY <1>1, <1>4, <1>6, <3>1, <3>2 DEF InReach, BoundTo, Session!Found
  <2>4. QED
    BY <2>2, <2>3
<1>18. Reachable'
  <2>1. \A s \in Session!Picking : \A a : InReach(s, a) <=> InReach(s, a)'
    BY <1>4, <1>12 DEF InReach, BoundTo, Session!Found
  <2>2. QED
    BY <1>5, <1>6, <1>11, <1>12, <1>17, <2>1 DEF SessionInv, Reachable
<1>19. Lapsed'
  <2>1. Session!Found("short")' <=> Session!Found("short")
    BY <1>4 DEF Session!Found
  <2>2. QED
    BY <1>6, <1>11, <1>12, <2>1 DEF SessionInv, Lapsed
<1>20. QED
  BY <1>9, <1>10, <1>13, <1>16, <1>18, <1>19 DEF SessionInv

\* The look-up of the key's own binding,
LEMMA LookingUp ==
  ASSUME SessionInv, NEW r \in Requests, Session!GetAndRefresh(r)
  PROVE  /\ SessionInv'
         /\ pick'[r].at = "served" => pick[r].owed \subseteq {pick'[r].auth}
<1>1. /\ pick \in [Requests -> PickStates] /\ "short" \in Session!Keys /\ "full" \in Session!Keys
      /\ Session!None = 0 /\ entries \in [Session!Keys -> Bindings] /\ TTL \in Nat /\ Session!Expired = -1
      /\ 0 \notin SessionAuths
  BY SessionAssumption DEF SessionInv, SessionType, Session!Keys, Session!None, Session!Expired
<1>2. PICK k \in Session!Keys : k = pick[r].key
  BY <1>1 DEF PickStates
<1>3. /\ pick[r].at = "refreshes" /\ r \in Session!Picking /\ available' = available
      /\ pick[r].owed \subseteq pick[r].from /\ pick[r].from \subseteq SessionAuths
  BY <1>1 DEF Session!GetAndRefresh, Session!Picking, SessionInv, Reachable, PickStates
<1>4. \A a \in pick[r].owed : InReach(r, a)
  BY <1>3 DEF SessionInv, Reachable
<1>5. CASE Session!Found(k)
  <2>1. entries[k].auth \in SessionAuths /\ entries[k] \in Bindings
    BY <1>1, <1>5 DEF Session!Found, Bindings
  <2>2. pick[r].owed \subseteq {entries[k].auth}
    BY <1>1, <1>2, <1>3, <1>4, <1>5 DEF InReach, BoundTo, Session!Found
  <2>3. /\ entries' = [entries EXCEPT ![k].left = TTL]
        /\ IF entries[k].auth \in pick[r].from
           THEN Session!Given(r, entries[k].auth)
           ELSE Session!Go(r, "selects", 0) /\ UNCHANGED <<anchor, age>>
    BY <1>1, <1>2, <1>5 DEF Session!GetAndRefresh, Session!Prolonged
  <2>4. CASE entries[k].auth \in pick[r].from
    <3>1. [entries[k] EXCEPT !.left = TTL] = [auth |-> entries[k].auth, left |-> TTL]
      BY <2>1 DEF Bindings
    <3>2. entries' = [entries EXCEPT ![k] = [auth |-> entries[k].auth, left |-> TTL]]
      BY <2>3, <3>1
    <3>3. SessionInv'
      BY <1>2, <1>3, <2>1, <2>2, <2>3, <2>4, <3>2, Serving
    <3>4. pick'[r].auth = entries[k].auth
      <4>1. PICK b : b = entries[k].auth
        OBVIOUS
      <4>2. pick' = [s \in Requests |-> IF s = r THEN [pick[s] EXCEPT !.at = "served", !.auth = b]
                                        ELSE [pick[s] EXCEPT !.owed = @ \intersect {b}]]
        BY <2>3, <2>4, <4>1 DEF Session!Given
      <4>3. pick'[r] = [pick[r] EXCEPT !.at = "served", !.auth = b] /\ pick[r] \in PickStates
        BY ONLY <1>1, <4>2, r \in Requests
      <4>4. QED
        BY ONLY <4>1, <4>3 DEF PickStates
    <3>5. QED
      BY <2>2, <3>3, <3>4
  <2>5. CASE entries[k].auth \notin pick[r].from
    <3>1. pick[r].owed = {}
      BY <1>3, <2>2, <2>5
    <3>2. Lapsing /\ entries' \in [Session!Keys -> Bindings]
      BY <1>1, <1>5, <2>1, <2>3 DEF Lapsing, Bindings
    <3>3. Session!Go(r, "selects", 0) /\ UNCHANGED <<anchor, age, available>>
      BY <1>3, <2>3, <2>5
    <3>4. SessionInv'
      BY <1>1, <1>3, <3>1, <3>2, <3>3, GoingOn DEF PickPlaces
    <3>5. pick'[r].at = "selects"
      BY <1>1, <3>3 DEF Session!Go, PickStates
    <3>6. QED
      BY <3>4, <3>5
  <2>6. QED
    BY <2>4, <2>5
<1>6. CASE ~Session!Found(k)
  <2>1. PICK place : place = IF k = "full" THEN "looks" ELSE "selects"
    OBVIOUS
  <2>2. /\ entries' = [entries EXCEPT ![k] = Session!Unbound] /\ Session!Go(r, place, 0)
        /\ UNCHANGED <<anchor, age, available>>
    BY <1>1, <1>2, <1>3, <1>6, <2>1 DEF Session!GetAndRefresh
  <2>3. Session!Unbound \in Bindings
    BY <1>1 DEF Session!Unbound, Bindings
  <2>4. Lapsing /\ entries' \in [Session!Keys -> Bindings]
    BY <1>1, <1>6, <2>2, <2>3 DEF Lapsing
  <2>5. pick'[r].at = place /\ pick'[r].key = k /\ place \in {"looks", "selects"}
    BY <1>1, <1>2, <2>1, <2>2 DEF Session!Go, PickStates
  <2>6. ASSUME NEW a \in pick[r].owed PROVE InReach(r, a)'
    <3>1. ~BoundTo(k, a)
      BY <1>6 DEF BoundTo
    <3>2. k = "full" /\ BoundTo("short", a)
      BY <1>2, <1>3, <1>4, <3>1 DEF InReach
    <3>3. BoundTo("short", a)'
      BY <1>1, <2>2, <3>2 DEF BoundTo, Session!Found
    <3>4. QED
      BY <2>1, <2>5, <3>2, <3>3 DEF InReach
  <2>7. SessionInv'
    BY <1>1, <1>2, <1>3, <2>1, <2>2, <2>4, <2>5, <2>6, GoingOn DEF PickPlaces
  <2>8. QED
    BY <2>5, <2>7
<1>7. QED
  BY <1>5, <1>6

\* of the turn before's,
LEMMA LookingBack ==
  ASSUME SessionInv, NEW r \in Requests, Session!Get(r)
  PROVE  SessionInv' /\ pick'[r].at # "served"
<1>1. /\ pick \in [Requests -> PickStates] /\ "short" \in Session!Keys /\ Session!None = 0
      /\ entries \in [Session!Keys -> Bindings]
  BY DEF SessionInv, SessionType, Session!Keys, Session!None
<1>2. /\ pick[r].at = "looks" /\ r \in Session!Picking /\ UNCHANGED <<entries, available, anchor, age>>
      /\ pick[r].owed \subseteq pick[r].from
  BY <1>1 DEF Session!Get, Session!Picking, SessionInv, Reachable
<1>3. pick[r].key = "full" /\ \A a \in pick[r].owed : BoundTo("short", a)
  BY <1>2 DEF SessionInv, Reachable, InReach, Lapsed
<1>4. Lapsing
  BY <1>2 DEF Lapsing
<1>5. PICK place \in {"binds", "selects", "deletes"}, b \in SessionAuths \union {0} :
         /\ Session!Go(r, place, b)
         /\ place = "binds" => Session!Found("short") /\ b = entries["short"].auth /\ b \in SessionAuths
         /\ place = "selects" => entries["short"].auth \notin pick[r].from \/ entries["short"].auth = 0
         /\ place = "deletes" => ~Session!Found("short")
  <2>1. entries["short"].auth \in SessionAuths \union {0}
    BY <1>1 DEF Bindings
  <2>2. CASE Session!Found("short") /\ entries["short"].auth \in pick[r].from /\ Session!Go(r, "binds", entries["short"].auth)
    <3>1. entries["short"].auth \in SessionAuths
      BY <1>1, <2>2 DEF PickStates
    <3>2. QED
      BY <2>2, <3>1
  <2>3. CASE Session!Found("short") /\ entries["short"].auth \notin pick[r].from /\ Session!Go(r, "selects", 0)
    BY <2>3
  <2>4. CASE entries["short"].auth = 0 /\ Session!Go(r, "selects", 0)
    BY <2>4
  <2>5. CASE ~Session!Found("short") /\ Session!Go(r, "deletes", 0)
    BY <2>5
  <2>6. QED
    BY <1>1, <2>2, <2>3, <2>4, <2>5 DEF Session!Get
<1>6. pick'[r].at = place /\ pick'[r].auth = b
  BY <1>1, <1>5 DEF Session!Go, PickStates
<1>7. ASSUME NEW a \in pick[r].owed PROVE InReach(r, a)'
  <2>1. BoundTo("short", a) /\ a \in pick[r].from /\ a \in SessionAuths
    BY <1>1, <1>2, <1>3 DEF PickStates
  <2>2. a # 0
    BY <2>1, SessionAssumption DEF Session!None
  <2>3. place = "binds"
    BY <1>5, <2>1, <2>2 DEF BoundTo
  <2>4. QED
    BY <1>5, <1>6, <2>1, <2>3 DEF InReach, BoundTo
<1>8. Session!Found("short")' <=> Session!Found("short")
  BY <1>2 DEF Session!Found
<1>9. SessionInv'
  BY <1>1, <1>2, <1>3, <1>4, <1>5, <1>7, <1>8, GoingOn DEF PickPlaces
<1>10. QED
  BY <1>5, <1>6, <1>9

\* its deletion, the fallback selector
LEMMA Choosing ==
  ASSUME SessionInv, NEW r \in Requests, Session!Delete(r) \/ Session!Select(r)
  PROVE  SessionInv' /\ pick'[r].at # "served"
<1>1. /\ pick \in [Requests -> PickStates] /\ "short" \in Session!Keys /\ Session!None = 0
      /\ entries \in [Session!Keys -> Bindings] /\ Session!Unbound \in Bindings
  BY DEF SessionInv, SessionType, Session!Keys, Session!None, Session!Unbound, Bindings
<1>2. pick[r].at \in {"deletes", "selects"} /\ r \in Session!Picking /\ UNCHANGED <<available, anchor, age>>
  BY <1>1 DEF Session!Delete, Session!Select, Session!Picking
<1>3. pick[r].owed = {}
  BY <1>2 DEF SessionInv, Reachable, InReach
<1>4. PICK place \in {"binds", "selects"}, b \in SessionAuths \union {0} :
         Session!Go(r, place, b) /\ (place = "binds" => b \in SessionAuths)
  <2>1. CASE Session!Delete(r)
    BY <1>1, <2>1 DEF Session!Delete
  <2>2. CASE Session!Select(r)
    <3>1. PICK b \in pick[r].from : Session!Go(r, "binds", b)
      BY <2>2 DEF Session!Select
    <3>2. b \in SessionAuths
      BY <1>1 DEF PickStates
    <3>3. QED
      BY <3>1, <3>2
  <2>3. QED
    BY <2>1, <2>2
<1>5. Lapsing /\ entries' \in [Session!Keys -> Bindings]
  <2>1. CASE Session!Delete(r)
    <3>1. ~Session!Found("short") /\ entries' = [entries EXCEPT !["short"] = Session!Unbound]
      BY <1>2, <2>1 DEF SessionInv, Lapsed, Session!Delete
    <3>2. QED
      BY <1>1, <3>1 DEF Lapsing
  <2>2. CASE Session!Select(r)
    BY <1>1, <2>2 DEF Lapsing, Session!Select
  <2>3. QED
    BY <2>1, <2>2
<1>6. SessionInv'
  BY <1>1, <1>2, <1>3, <1>4, <1>5, GoingOn DEF PickPlaces
<1>7. pick'[r].at = place
  BY <1>1, <1>4 DEF Session!Go, PickStates
<1>8. QED
  BY <1>4, <1>6, <1>7

\* and the binding of what was chosen.
LEMMA Binding ==
  ASSUME SessionInv, NEW r \in Requests, Session!Set(r)
  PROVE  SessionInv' /\ pick[r].owed \subseteq {pick'[r].auth}
<1>1. pick \in [Requests -> PickStates]
  BY DEF SessionInv, SessionType
<1>2. /\ pick[r].at = "binds" /\ r \in Session!Picking /\ Session!Given(r, pick[r].auth) /\ available' = available
      /\ entries' = [entries EXCEPT ![pick[r].key] = [auth |-> pick[r].auth, left |-> TTL]]
  BY DEF Session!Set, Session!Picking
<1>3. pick[r].owed \subseteq {pick[r].auth} /\ pick[r].auth \in SessionAuths
  BY <1>1, <1>2 DEF SessionInv, SessionType, Reachable, InReach
<1>4. SessionInv'
  BY <1>2, <1>3, Serving
<1>5. pick'[r].auth = pick[r].auth
  BY <1>1, <1>2 DEF Session!Given, PickStates
<1>6. QED
  BY <1>3, <1>4, <1>5

\* What a request does that is not picking disturbs no promise.
LEMMA Resting ==
  ASSUME SessionInv, NEW r \in Requests, Session!Succeed(r) \/ Session!Fail(r) \/ Session!GiveUp(r)
  PROVE  SessionInv' /\ pick'[r].at # "served"
<1>1. /\ pick \in [Requests -> PickStates] /\ UNCHANGED <<entries, available, anchor, age>>
      /\ pick[r].at \in {"rests", "served"}
  BY DEF SessionInv, SessionType, Session!Succeed, Session!Fail, Session!GiveUp
<1>2. Session!Resting \in PickStates /\ pick[r] \in PickStates /\ Session!Resting.at = "rests"
  BY <1>1 DEF Session!Resting, PickStates, PickPlaces, Session!None, Session!Keys
<1>3. PICK p \in PickStates : pick' = [pick EXCEPT ![r] = p] /\ p.at = "rests"
  <2>1. CASE Session!Succeed(r) \/ Session!GiveUp(r)
    BY <1>2, <2>1 DEF Session!Succeed, Session!GiveUp
  <2>2. CASE Session!Fail(r)
    <3>1. pick[r].auth \in SessionAuths
      BY <2>2 DEF SessionInv, SessionType, Session!Fail
    <3>2. PICK p : p = [Session!Resting EXCEPT !.key = pick[r].key, !.tried = pick[r].tried \cup {pick[r].auth}]
      OBVIOUS
    <3>3. p \in PickStates /\ p.at = "rests"
      BY <1>2, <3>1, <3>2 DEF PickStates
    <3>4. pick' = [pick EXCEPT ![r] = p]
      BY <2>2, <3>2 DEF Session!Fail
    <3>5. QED
      BY <3>3, <3>4
  <2>3. QED
    BY <2>1, <2>2
<1>4. pick' \in [Requests -> PickStates] /\ pick'[r].at = "rests" /\ \A s \in Requests : s # r => pick'[s] = pick[s]
  BY <1>1, <1>3
<1>5. Session!Picking' = Session!Picking /\ \A s \in Session!Picking : s \in Requests /\ pick'[s] = pick[s]
  BY <1>1, <1>4 DEF Session!Picking
<1>6. SessionType' /\ Anchored'
  BY <1>1, <1>4 DEF SessionInv, SessionType, Anchored
<1>7. OneTurn' /\ Remembered'
  BY <1>1, <1>5 DEF SessionInv, OneTurn, Remembered
<1>8. \A s \in Session!Picking : \A a : InReach(s, a) <=> InReach(s, a)'
  BY <1>1, <1>5 DEF InReach, BoundTo, Session!Found
<1>9. Reachable' /\ Lapsed'
  <2>1. Session!Found("short")' <=> Session!Found("short")
    BY <1>1 DEF Session!Found
  <2>2. QED
    BY <1>5, <1>8, <2>1 DEF SessionInv, Reachable, Lapsed
<1>10. QED
  BY <1>4, <1>6, <1>7, <1>9 DEF SessionInv

\* No more does the clean-up, what is blocked or recovers, or time.
LEMMA Standing ==
  ASSUME SessionInv, Session!Cleanup \/ Session!Block \/ Session!Tick
  PROVE  SessionInv' /\ pick' = pick
<1>1. /\ entries \in [Session!Keys -> Bindings] /\ age \in [Session!Keys -> 0..TTL] /\ TTL \in Nat
      /\ anchor \in [Session!Keys -> SessionAuths \union {0}] /\ Session!None = 0 /\ Session!Expired = -1
      /\ Session!Unbound \in Bindings /\ "short" \in Session!Keys /\ "full" \in Session!Keys
  BY SessionAssumption DEF SessionInv, SessionType, Session!None, Session!Expired, Session!Unbound, Bindings, Session!Keys
<1>2. CASE Session!Cleanup
  <2>1. /\ entries' = [k \in Session!Keys |-> IF entries[k].auth # Session!None /\ ~Session!Found(k)
                                              THEN Session!Unbound ELSE entries[k]]
        /\ UNCHANGED <<available, pick, anchor, age>>
    BY <1>2 DEF Session!Cleanup
  <2>2. entries' \in [Session!Keys -> Bindings]
    BY <1>1, <2>1
  <2>3. Lapsing
    BY <1>1, <2>1 DEF Lapsing
  <2>4. /\ Anchored'
        /\ \A k \in Session!Keys, a \in SessionAuths : BoundTo(k, a) => BoundTo(k, a)'
        /\ \A k \in Session!Keys : /\ entries[k].auth = Session!None => entries'[k].auth = Session!None
                                   /\ ~Session!Found(k) => ~Session!Found(k)'
    BY <2>1, <2>2, <2>3, LapsingKeeps
  <2>5. Session!Picking' = Session!Picking
    BY <2>1 DEF Session!Picking
  <2>6. SessionType'
    BY <2>1, <2>2 DEF SessionInv, SessionType
  <2>7. OneTurn' /\ Remembered'
    BY <2>1, <2>5 DEF SessionInv, OneTurn, Remembered
  <2>8. Reachable'
    <3> SUFFICES ASSUME NEW s \in Session!Picking, NEW a \in pick[s].owed PROVE InReach(s, a)'
      BY <2>1, <2>5 DEF SessionInv, Reachable
    <3>1. InReach(s, a) /\ a \in SessionAuths /\ pick[s].key \in Session!Keys /\ pick'[s] = pick[s]
      BY <2>1 DEF SessionInv, Reachable, SessionType, PickStates, Session!Picking
    <3>2. QED
      BY <1>1, <2>4, <3>1 DEF InReach
  <2>9. Lapsed'
    BY <1>1, <2>1, <2>4, <2>5 DEF SessionInv, Lapsed
  <2>10. QED
    BY <2>1, <2>4, <2>6, <2>7, <2>8, <2>9 DEF SessionInv
<1>3. CASE Session!Block \/ Session!Tick
  <2>1. Session!Picking = {} /\ pick' = pick /\ Session!Picking' = {}
    BY <1>3 DEF Session!Block, Session!Tick, Session!Picking
  <2>2. OneTurn' /\ Remembered' /\ Reachable' /\ Lapsed'
    BY <2>1 DEF OneTurn, Remembered, Reachable, Lapsed
  <2>3. SessionType' /\ Anchored'
    <3>1. CASE Session!Block
      BY <3>1 DEF Session!Block, SessionInv, SessionType, Anchored
    <3>2. CASE Session!Tick
      <4>1. /\ entries' = [k \in Session!Keys |-> IF entries[k].auth = 0 \/ ~Session!Found(k) THEN entries[k]
                                                  ELSE [entries[k] EXCEPT !.left = @ - 1]]
            /\ age' = [k \in Session!Keys |-> IF age[k] < TTL THEN age[k] + 1 ELSE age[k]]
            /\ anchor' = [k \in Session!Keys |-> IF age[k] < TTL THEN anchor[k] ELSE 0]
            /\ available' = available
        BY <1>1, <3>2 DEF Session!Tick
      <4>2. ASSUME NEW k \in Session!Keys
            PROVE  /\ entries[k] \in Bindings /\ entries[k].left \in Int /\ age[k] \in 0..TTL
                   /\ entries'[k] \in Bindings /\ age'[k] \in 0..TTL /\ anchor'[k] \in SessionAuths \union {0}
                   /\ entries'[k].auth = entries[k].auth
                   /\ Session!Found(k) /\ entries[k].auth # 0 => entries'[k].left = entries[k].left - 1
        BY <1>1, <4>1 DEF Bindings
      <4>3. SessionType'
        <5>1. entries' \in [Session!Keys -> Bindings] /\ age' \in [Session!Keys -> 0..TTL]
              /\ anchor' \in [Session!Keys -> SessionAuths \union {Session!None}]
          BY <1>1, <4>1, <4>2
        <5>2. QED
          BY <2>1, <4>1, <5>1 DEF SessionInv, SessionType
      <4>4. ASSUME NEW k \in Session!Keys, anchor'[k] # 0
            PROVE  entries'[k].auth = anchor'[k] /\ entries'[k].left >= TTL - age'[k]
        <5>1. age[k] < TTL /\ anchor'[k] = anchor[k] /\ age'[k] = age[k] + 1
          BY <4>1, <4>4
        <5>2. entries[k].auth = anchor[k] /\ entries[k].left >= TTL - age[k] /\ entries[k].auth # 0
          BY <1>1, <4>4, <5>1 DEF SessionInv, Anchored
        <5>3. Session!Found(k)
          BY <1>1, <4>2, <5>1, <5>2 DEF Session!Found
        <5>4. QED
          BY <1>1, <4>2, <5>1, <5>2, <5>3
      <4>5. QED
        BY <1>1, <4>3, <4>4 DEF Anchored
    <3>3. QED
      BY <1>3, <3>1, <3>2
  <2>4. QED
    BY <2>1, <2>2, <2>3 DEF SessionInv
<1>4. QED
  BY <1>2, <1>3

\* So every step keeps the invariant and gives what is owed.
LEMMA SessionStep ==
  ASSUME SessionInv, [Session!Next]_(Session!vars)
  PROVE  /\ SessionInv'
         /\ \A r \in Requests : pick[r].at # "served" /\ pick'[r].at = "served"
                                   => pick[r].owed \subseteq {pick'[r].auth}
<1>1. pick \in [Requests -> PickStates]
  BY DEF SessionInv, SessionType
<1>2. ASSUME NEW r \in Requests, Session!PickStep(r) \/ Session!Succeed(r) \/ Session!Fail(r) \/ Session!GiveUp(r)
      PROVE  /\ SessionInv'
             /\ \A s \in Requests : pick[s].at # "served" /\ pick'[s].at = "served"
                                       => pick[s].owed \subseteq {pick'[s].auth}
  <2>1. \A s \in Requests : s # r => pick'[s].at = pick[s].at
    <3>1. ASSUME NEW b, Session!Given(r, b) PROVE \A s \in Requests : s # r => pick'[s].at = pick[s].at
      BY <1>1, <3>1 DEF Session!Given, PickStates
    <3>2. ASSUME NEW place, NEW b, Session!Go(r, place, b) PROVE \A s \in Requests : s # r => pick'[s].at = pick[s].at
      BY <1>1, <3>2 DEF Session!Go
    <3>3. CASE (\E k \in Session!Keys : Session!Begin(r, k)) \/ Session!Succeed(r) \/ Session!Fail(r) \/ Session!GiveUp(r)
      BY <1>1, <3>3 DEF Session!Begin, Session!Succeed, Session!Fail, Session!GiveUp
    <3>4. CASE Session!GetAndRefresh(r)
      BY <3>1, <3>2, <3>4 DEF Session!GetAndRefresh
    <3>5. CASE Session!Get(r) \/ Session!Delete(r) \/ Session!Select(r)
      BY <3>2, <3>5 DEF Session!Get, Session!Delete, Session!Select
    <3>6. CASE Session!Set(r)
      BY <3>1, <3>6 DEF Session!Set
    <3>7. QED
      BY <1>2, <3>3, <3>4, <3>5, <3>6 DEF Session!PickStep
  <2>2. SessionInv' /\ (pick[r].at # "served" /\ pick'[r].at = "served" => pick[r].owed \subseteq {pick'[r].auth})
    <3>1. ASSUME NEW k \in Session!Keys, Session!Begin(r, k)
          PROVE  SessionInv' /\ pick'[r].at = "refreshes"
      BY <1>1, <3>1, Beginning DEF Session!Begin
    <3>2. QED
      BY <1>2, <3>1, LookingUp, LookingBack, Choosing, Binding, Resting DEF Session!PickStep
  <2>3. QED
    BY <2>1, <2>2
<1>3. CASE UNCHANGED Session!vars
  BY <1>3 DEF Session!vars, SessionInv, SessionType, Anchored, OneTurn, Remembered, Reachable, Lapsed, InReach, BoundTo,
     Session!Found, Session!Picking
<1>4. QED
  BY <1>2, <1>3, Standing DEF Session!Next

(* A conversation stays with its credential: a request gets the one its    *)
(* session is bound to, or the turn before's is, for any credentials,      *)
(* requests and lifetime, where requests of two turns do not overlap.      *)
THEOREM ConversationsStay == Session!Spec => Sticky
<1>1. SessionInv /\ [Session!Next]_(Session!vars) => SessionInv'
  BY SessionStep
<1>2. SessionInv /\ [Session!Next]_(Session!vars)
        => [\A r \in Requests : pick[r].at # "served" /\ pick'[r].at = "served"
                                   => pick[r].owed \subseteq {pick'[r].auth}]_(Session!vars)
  BY SessionStep
<1>3. QED
  BY SessionBegins, <1>1, <1>2, PTL DEF Session!Spec, Sticky, Session!Sticky
=============================================================================
