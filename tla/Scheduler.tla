------------------------------ MODULE Scheduler ------------------------------
(***************************************************************************)
(* The authScheduler of sdk/cliproxy/auth/scheduler.go for one model: per  *)
(* provider the snapshots of its credentials, and a shard, built on first  *)
(* use, with an entry per credential, an index of the ready ones by        *)
(* priority with round-robin cursors, and the blocked ones waiting for     *)
(* their retry time.  Every operation runs under the scheduler's mutex.    *)
(* Snapshots come from the manager in any order, with any content.         *)
(*                                                                         *)
(* Credentials, providers and virtual parents are numbers, ordered as the  *)
(* code orders their names; instants are ticks from now.  A request for    *)
(* several providers names all of them, in that order.  Left out: requests *)
(* pinned to one credential, and websocket views of grouped credentials    *)
(* (websockets are Codex's, virtual parents are Gemini's).                 *)
(***************************************************************************)
EXTENDS Integers, Sequences, FiniteSets

CONSTANTS Auths, Providers, Parents, Priorities,
          Snapshots,   \* what the manager may say of a credential
          TriedSets,   \* the credentials a request may have tried before
          Websockets,  \* whether requests may prefer websockets
          Strategies,  \* fill-first (TRUE), round-robin (FALSE)
          History      \* bound: how many like picks the model remembers

NoParent == 0
Snapshot == [prio : Priorities, parent : Parents \union {NoParent}, ws : BOOLEAN,
             supports : BOOLEAN, off : BOOLEAN,
             retry : Nat, recover : Nat, exceeded : BOOLEAN]

ASSUME SchedulerAssumption ==
    /\ Auths \subseteq Nat \ {0} /\ IsFiniteSet(Auths)
    /\ Providers \subseteq Nat \ {0} /\ IsFiniteSet(Providers)
    /\ Parents \subseteq Nat \ {0} /\ IsFiniteSet(Parents)
    /\ Priorities \subseteq Int /\ Snapshots \subseteq Snapshot
    /\ TriedSets \subseteq SUBSET Auths /\ Websockets \subseteq BOOLEAN
    /\ Strategies \subseteq BOOLEAN /\ History \in Nat

VARIABLES
  shard,       \* per provider: metas, and the model's shard
  fillFirst,   \* strategy
  owner,       \* authProviders: the provider a credential is filed under
  mixedCursor, \* the slot the next several-provider request starts from
  rotation     \* the latest like picks since anything else happened

vars == <<shard, fillFirst, owner, mixedCursor, rotation>>

Nowhere == 0
Nobody == 0
NoRotation == [key |-> <<>>, picks |-> <<>>]
Unset == [a \in {} |-> a]

-----------------------------------------------------------------------------
(* isAuthBlockedForModel of a snapshot, as the entry it gives. *)
Blocked(s) == s.off \/ s.retry > 0
NextRetry(s) == IF s.recover > 0 THEN s.recover ELSE s.retry
Entry(s) == IF s.off THEN [state |-> "disabled", next |-> 0]
            ELSE IF s.retry = 0 THEN [state |-> "ready", next |-> 0]
            ELSE [state |-> IF s.exceeded THEN "cooldown" ELSE "blocked", next |-> NextRetry(s)]

(* A view is a set of credentials, walked in the order of their numbers.   *)
Rank(S, x) == Cardinality({y \in S : y < x})
Distance(S, cursor, x) == (Rank(S, x) - cursor) % Cardinality(S)
Nearest(S, cursor, eligible) ==
    CHOOSE x \in eligible : \A y \in eligible : Distance(S, cursor, x) <= Distance(S, cursor, y)

NoCursors == [flat |-> 0, ws |-> 0, parent |-> 0, child |-> [g \in Parents |-> 0]]
Normalized(cursor, n) == IF n = 0 THEN 0 ELSE cursor % n

EmptyShard == [metas |-> Unset, built |-> FALSE, entry |-> Unset,
               ready |-> Unset, blocked |-> {}, cursors |-> [i \in Priorities |-> NoCursors]]

(* The index keeps what it was built from: a ready credential's priority,  *)
(* parent and websocket flag.                                              *)
Bucket(st, i) == {a \in DOMAIN st.ready : st.ready[a].prio = i}
WsBucket(st, i) == {a \in Bucket(st, i) : st.ready[a].ws}
Group(st, i, g) == {a \in Bucket(st, i) : st.ready[a].parent = g}
Groups(st, i) == {st.ready[a].parent : a \in Bucket(st, i)}
Grouped(st, i) == NoParent \notin Groups(st, i) /\ Cardinality(Groups(st, i)) > 1

(* rebuildIndexesLocked: a bucket that was there keeps its cursors, cut to *)
(* the new sizes.                                                          *)
Indexed(st) ==
    LET inState(s) == {a \in DOMAIN st.entry : st.entry[a].state = s}
        new == [st EXCEPT !.ready = [a \in inState("ready") |->
                             [prio |-> st.metas[a].prio, parent |-> st.metas[a].parent,
                              ws |-> st.metas[a].ws]],
                          !.blocked = inState("cooldown") \union inState("blocked")]
        restored(i) ==
            LET old == IF Bucket(st, i) = {} THEN NoCursors ELSE st.cursors[i]
                grouped == Grouped(new, i)
            IN [flat   |-> Normalized(old.flat, Cardinality(Bucket(new, i))),
                ws     |-> Normalized(old.ws, Cardinality(WsBucket(new, i))),
                parent |-> IF grouped THEN Normalized(old.parent, Cardinality(Groups(new, i))) ELSE 0,
                child  |-> [g \in Parents |->
                               IF grouped THEN Normalized(old.child[g], Cardinality(Group(new, i, g)))
                               ELSE 0]]
    IN [new EXCEPT !.cursors = [i \in Priorities |-> restored(i)]]

(* What upsertEntryLocked compares to tell whether the index still fits. *)
ByState(st, a) == <<st.entry[a]>>      \* bug: only the state and the retry time
Placement(st, a) == <<st.entry[a], st.metas[a].prio, st.metas[a].parent, st.metas[a].ws>>

WithEntry(st, a, s) ==
    LET new == [st EXCEPT !.metas = [b \in DOMAIN st.metas \union {a} |-> IF b = a THEN s ELSE st.metas[b]],
                          !.entry = [b \in DOMAIN st.entry \union {a} |-> IF b = a THEN Entry(s) ELSE st.entry[b]]]
    IN IF a \in DOMAIN st.entry /\ Placement(st, a) = Placement(new, a) THEN new ELSE Indexed(new)
WithoutEntry(st, a) ==
    IF a \notin DOMAIN st.entry THEN st
    ELSE Indexed([st EXCEPT !.entry = [b \in DOMAIN st.entry \ {a} |-> st.entry[b]]])

(* providerScheduler.upsertAuthLocked and removeAuthLocked. *)
Given(st, a, s) ==
    LET known == [st EXCEPT !.metas = [b \in DOMAIN st.metas \union {a} |-> IF b = a THEN s ELSE st.metas[b]]]
    IN IF ~st.built THEN known
       ELSE IF s.supports THEN WithEntry(st, a, s) ELSE WithoutEntry(known, a)
Taken(st, a) ==
    [WithoutEntry(st, a) EXCEPT !.metas = [b \in DOMAIN st.metas \ {a} |-> st.metas[b]]]

(* promoteExpiredLocked. *)
PromotedNot(st) == st                  \* bug: blocked entries are never looked at again
Promoted(st) ==
    LET due == {a \in st.blocked : st.entry[a].next <= 0}
    IN IF due = {} THEN st
       ELSE Indexed([st EXCEPT !.entry = [a \in DOMAIN @ |-> IF a \in due THEN Entry(st.metas[a]) ELSE @[a]]])

(* ensureModelLocked. *)
Ensured(st) ==
    IF st.built THEN Promoted(st)
    ELSE Indexed([st EXCEPT !.built = TRUE,
                    !.entry = [a \in {b \in DOMAIN st.metas : st.metas[b].supports} |-> Entry(st.metas[a])]])

-----------------------------------------------------------------------------
(* highestReadyPriorityLocked over one or more shards; the websocket       *)
(* preference looks through every priority first.                          *)
Highest(P) == CHOOSE i \in P : \A j \in P : j <= i
OpenAt(st, tried) == {i \in Priorities : Bucket(st, i) \ tried # {}}
WsOpenAt(st, tried) == {i \in Priorities : WsBucket(st, i) \ tried # {}}
LowestOpen(st, ws, tried) ==           \* bug: the lowest of them
    CHOOSE i \in OpenAt(st, tried) : \A j \in OpenAt(st, tried) : i <= j
PickPriority(st, ws, tried) ==
    IF ws /\ WsOpenAt(st, tried) # {} THEN Highest(WsOpenAt(st, tried)) ELSE Highest(OpenAt(st, tried))

(* pickReadyAtPriorityLocked: the credential, and the cursors afterwards.  *)
PickFirst(S, tried) == CHOOSE a \in S \ tried : \A b \in S \ tried : a <= b
Behind(S, a) == Rank(S, a)             \* bug: the cursor stays on the one picked
Past(S, a) == Rank(S, a) + 1
PastBoth(cur, groups, g, child, b) ==
    [cur EXCEPT !.parent = Past(groups, g), !.child[g] = Past(child, b)]
PickAt(st, i, ws, fill, tried) ==
    LET all == Bucket(st, i)
        view == IF ws /\ WsBucket(st, i) \ tried # {} THEN "ws" ELSE "flat"
        S == IF view = "ws" THEN WsBucket(st, i) ELSE all
        cur == st.cursors[i]
        a == Nearest(S, cur[view], S \ tried)
        openGroups == {g \in Groups(st, i) : Group(st, i, g) \ tried # {}}
        g == Nearest(Groups(st, i), cur.parent, openGroups)
        child == Group(st, i, g)
        b == Nearest(child, cur.child[g], child \ tried)
    IN IF fill THEN [auth |-> PickFirst(S, tried), cursors |-> cur]
       ELSE IF view = "flat" /\ Grouped(st, i)
       THEN [auth |-> b, cursors |-> PastBoth(cur, Groups(st, i), g, child, b)]
       ELSE [auth |-> a, cursors |-> [cur EXCEPT ![view] = Past(S, a)]]

(* unavailableErrorLocked and mixedUnavailableErrorLocked. *)
Failure(sh, ps, tried) ==
    LET entries == UNION {{<<p, a>> : a \in DOMAIN sh[p].entry \ tried} : p \in ps}
        cooling == {x \in entries : sh[x[1]].entry[x[2]].state = "cooldown"}
        retries == {sh[x[1]].entry[x[2]].next : x \in cooling}
    IN IF entries = {} THEN [error |-> "auth_not_found", reset |-> 0]
       ELSE IF cooling = entries
       THEN [error |-> "model_cooldown", reset |-> CHOOSE t \in retries : \A u \in retries : t <= u]
       ELSE [error |-> "auth_unavailable", reset |-> 0]

Refused(failure) == [auth |-> Nobody, error |-> failure.error, reset |-> failure.reset]
Served(a) == [auth |-> a, error |-> "", reset |-> 0]

(* The latest run of like picks: one question, nothing else in between.    *)
Rotated(ps, ws, tried, a, moved) ==
    IF tried # {} \/ History = 0 THEN NoRotation
    ELSE IF moved \/ rotation.key # <<ps, ws>> THEN [key |-> <<ps, ws>>, picks |-> <<a>>]
    ELSE [rotation EXCEPT !.picks = IF Len(@) = History THEN Append(Tail(@), a) ELSE Append(@, a)]

(* pickSingle: a pick, and what it answers. *)
PickSingle(p, ws, tried) ==
    LET st == Ensured(shard[p])
        refused == OpenAt(st, tried) = {}
        i == PickPriority(st, ws, tried)
        picked == PickAt(st, i, ws, fillFirst, tried)
    IN
    /\ shard' = [shard EXCEPT ![p] = IF refused THEN st ELSE [st EXCEPT !.cursors[i] = picked.cursors]]
    /\ rotation' = IF refused THEN NoRotation
                              ELSE Rotated({p}, ws, tried, picked.auth, st # shard[p])
    /\ UNCHANGED <<owner, mixedCursor, fillFirst>>
SingleAnswer(p, ws, tried) ==
    LET st == Ensured(shard[p])
    IN IF OpenAt(st, tried) = {} THEN Refused(Failure([q \in {p} |-> st], {p}, tried))
       ELSE Served(PickAt(st, PickPriority(st, ws, tried), ws, fillFirst, tried).auth)

(* pickMixed: providers take turns in segments as wide as their ready      *)
(* buckets at the best priority.                                           *)
ReadyAt(sh, i, ps) == UNION {Bucket(sh[p], i) : p \in ps}
SegmentStart(sh, i, p) == Cardinality(ReadyAt(sh, i, {q \in Providers : q < p}))
NextSlot(slot) == slot + 1

MixedPriority(sh, tried) == Highest(UNION {OpenAt(sh[p], tried) : p \in Providers})
StartSlot(sh, i) == mixedCursor % Cardinality(ReadyAt(sh, i, Providers))
StartProvider(sh, i) ==
    CHOOSE p \in Providers :
        /\ SegmentStart(sh, i, p) <= StartSlot(sh, i)
        /\ StartSlot(sh, i) < SegmentStart(sh, i, p) + Cardinality(Bucket(sh[p], i))
MixedProvider(sh, i, tried) ==
    LET willing == {p \in Providers : Bucket(sh[p], i) \ tried # {}}
    IN IF fillFirst THEN PickFirst(willing, {})
       ELSE Nearest(Providers, Rank(Providers, StartProvider(sh, i)), willing)

PickMixed(tried) ==
    LET sh == [p \in Providers |-> Ensured(shard[p])]
        refused == \A p \in Providers : OpenAt(sh[p], tried) = {}
        i == MixedPriority(sh, tried)
        p == MixedProvider(sh, i, tried)
        picked == PickAt(sh[p], i, FALSE, fillFirst, tried)
    IN
    /\ shard' = IF refused THEN sh ELSE [sh EXCEPT ![p].cursors[i] = picked.cursors]
    /\ rotation' = IF refused THEN NoRotation
                              ELSE Rotated(Providers, FALSE, tried, picked.auth, sh # shard)
    /\ mixedCursor' = IF refused \/ fillFirst THEN mixedCursor
                      ELSE NextSlot(IF p = StartProvider(sh, i) THEN StartSlot(sh, i) ELSE SegmentStart(sh, i, p))
    /\ UNCHANGED <<owner, fillFirst>>
MixedAnswer(tried) ==
    LET sh == [p \in Providers |-> Ensured(shard[p])]
        i == MixedPriority(sh, tried)
    IN IF \A p \in Providers : OpenAt(sh[p], tried) = {} THEN Refused(Failure(sh, Providers, tried))
       ELSE Served(PickAt(sh[MixedProvider(sh, i, tried)], i, FALSE, fillFirst, tried).auth)

-----------------------------------------------------------------------------
Forgotten == rotation' = NoRotation

(* upsertAuth of an enabled credential: a credential whose provider has    *)
(* changed leaves the old one.                                             *)
LeftBehind(a) == shard                 \* bug: it stays there too
LeftPrevious(a) == [q \in Providers |-> IF q = owner[a] THEN Taken(shard[q], a) ELSE shard[q]]
Upsert(a, p, s) ==
    LET home == IF owner[a] \in {Nowhere, p} THEN shard ELSE LeftPrevious(a)
    IN /\ shard' = [home EXCEPT ![p] = Given(@, a, s)]
       /\ owner' = [owner EXCEPT ![a] = p]
       /\ Forgotten
       /\ UNCHANGED <<mixedCursor, fillFirst>>

(* upsertAuth of a disabled credential, and removeAuth. *)
Remove(a) ==
    /\ owner[a] # Nowhere
    /\ shard' = [shard EXCEPT ![owner[a]] = Taken(@, a)]
    /\ owner' = [owner EXCEPT ![a] = Nowhere]
    /\ Forgotten
    /\ UNCHANGED <<mixedCursor, fillFirst>>

(* rebuild, from the snapshots last seen (news come as upserts after it):  *)
(* shards and cursors are gone.                                            *)
Rebuild ==
    /\ shard' = [p \in Providers |-> [EmptyShard EXCEPT !.metas = shard[p].metas]]
    /\ mixedCursor' = 0
    /\ Forgotten
    /\ UNCHANGED <<owner, fillFirst>>

SetSelector(f) ==
    /\ fillFirst' = f
    /\ mixedCursor' = 0
    /\ Forgotten
    /\ UNCHANGED <<shard, owner>>

Down(n) == IF n > 0 THEN n - 1 ELSE 0
AgedMeta(s) == [s EXCEPT !.retry = Down(@), !.recover = Down(@)]
AgedEntry(e) == [e EXCEPT !.next = Down(@)]
Aged(st) == [st EXCEPT !.metas = [a \in DOMAIN st.metas |-> AgedMeta(st.metas[a])],
                       !.entry = [a \in DOMAIN st.entry |-> AgedEntry(st.entry[a])]]
Tick ==
    /\ shard' = [p \in Providers |-> Aged(shard[p])]
    /\ Forgotten
    /\ UNCHANGED <<owner, mixedCursor, fillFirst>>

Init ==
    /\ shard = [p \in Providers |-> EmptyShard]
    /\ fillFirst \in Strategies
    /\ owner = [a \in Auths |-> Nowhere]
    /\ mixedCursor = 0
    /\ rotation = NoRotation

Next ==
    \/ \E p \in Providers, ws \in Websockets, tried \in TriedSets : PickSingle(p, ws, tried)
    \/ \E tried \in TriedSets : Cardinality(Providers) > 1 /\ PickMixed(tried)
    \/ \E a \in Auths, p \in Providers, s \in Snapshots : Upsert(a, p, s)
    \/ \E a \in Auths : Remove(a)
    \/ Rebuild
    \/ \E f \in Strategies : SetSelector(f)
    \/ Tick

Spec == Init /\ [][Next]_vars

-----------------------------------------------------------------------------
States == {"ready", "cooldown", "blocked", "disabled"}
Entries == [state : States, next : Nat]
Ready == [prio : Priorities, parent : Parents \union {NoParent}, ws : BOOLEAN]
Cursors == [flat : Nat, ws : Nat, parent : Nat, child : [Parents -> Nat]]
ShardOK(st) ==
    /\ DOMAIN st.metas \subseteq Auths /\ \A a \in DOMAIN st.metas : st.metas[a] \in Snapshot
    /\ DOMAIN st.entry \subseteq Auths /\ \A a \in DOMAIN st.entry : st.entry[a] \in Entries
    /\ DOMAIN st.ready \subseteq Auths /\ \A a \in DOMAIN st.ready : st.ready[a] \in Ready
    /\ st.blocked \subseteq Auths /\ st.built \in BOOLEAN
    /\ st.cursors \in [Priorities -> Cursors]
TypeOK ==
    /\ \A p \in Providers : ShardOK(shard[p])
    /\ owner \in [Auths -> Providers \union {Nowhere}]
    /\ mixedCursor \in 0..Cardinality(Auths)
    /\ fillFirst \in Strategies
    /\ Len(rotation.picks) <= History

(* A credential is filed under one provider at most, the one authProviders *)
(* names, whatever provider changes and removals came before.              *)
OneHome == \A a \in Auths, p \in Providers :
    /\ (a \in DOMAIN shard[p].metas) <=> (owner[a] = p)
    /\ a \in DOMAIN shard[p].entry => owner[a] = p

(* The incremental index is what a rebuild from the snapshots would give:  *)
(* an entry for each credential that supports the model, the ready ones in *)
(* their bucket, those that wait among the blocked, with the state their   *)
(* snapshot now gives them or one still to be promoted.                    *)
IndexExact == \A p \in Providers : LET st == shard[p] IN st.built =>
    /\ DOMAIN st.entry = {a \in DOMAIN st.metas : st.metas[a].supports}
    /\ DOMAIN st.ready = {a \in DOMAIN st.entry : st.entry[a].state = "ready"}
    /\ st.blocked = {a \in DOMAIN st.entry : st.entry[a].state \in {"cooldown", "blocked"}}
    /\ \A a \in DOMAIN st.ready :
          /\ ~Blocked(st.metas[a])
          /\ st.ready[a] = [prio |-> st.metas[a].prio, parent |-> st.metas[a].parent, ws |-> st.metas[a].ws]

(* What the selectors would make of the snapshots (getAvailableAuths): the *)
(* free candidates of the highest priority, or why there are none.  A      *)
(* websocket request looks for websocket credentials among all priorities. *)
Candidates(ps, tried) == {a \in Auths \ tried : owner[a] \in ps /\ shard[owner[a]].metas[a].supports}
Meta(a) == shard[owner[a]].metas[a]
FreeOf(ps, tried) == {a \in Candidates(ps, tried) : ~Blocked(Meta(a))}
BestOf(S) == {a \in S : \A b \in S : Meta(b).prio <= Meta(a).prio}
Preferred(S, ws) ==
    LET sockets == {a \in S : Meta(a).ws} IN BestOf(IF ws /\ sockets # {} THEN sockets ELSE S)
Reason(S) ==
    IF S = {} THEN [error |-> "auth_not_found", reset |-> 0]
    ELSE IF \A a \in S : ~Meta(a).off /\ Meta(a).exceeded
    THEN [error |-> "model_cooldown",
          reset |-> CHOOSE t \in {NextRetry(Meta(a)) : a \in S} : \A a \in S : t <= NextRetry(Meta(a))]
    ELSE [error |-> "auth_unavailable", reset |-> 0]

(* "selectorStrategy maps a selector implementation to the scheduler       *)
(* semantics it should emulate" (scheduler.go:176): whom a pick would serve *)
(* is one of those.                                                        *)
Best(answer, ps, ws, tried) == answer.auth # Nobody => answer.auth \in Preferred(FreeOf(ps, tried), ws)
PicksBest == \A tried \in TriedSets :
    /\ \A p \in Providers, ws \in Websockets : Best(SingleAnswer(p, ws, tried), {p}, ws, tried)
    /\ Best(MixedAnswer(tried), Providers, FALSE, tried)

(* And it refuses exactly when the selectors would, with their reason and  *)
(* their time to wait.                                                     *)
Agrees(answer, ps, ws, tried) ==
    IF answer.auth = Nobody
    THEN FreeOf(ps, tried) = {} /\ [error |-> answer.error, reset |-> answer.reset] = Reason(Candidates(ps, tried))
    ELSE Best(answer, ps, ws, tried)
SelectorAgrees == \A tried \in TriedSets :
    /\ \A p \in Providers, ws \in Websockets : Agrees(SingleAnswer(p, ws, tried), {p}, ws, tried)
    /\ Agrees(MixedAnswer(tried), Providers, FALSE, tried)

(* Like picks in a row share the work: with S the credentials they choose  *)
(* among, any |S| of them in a row are different.  A provider whose        *)
(* credentials are several virtual parents' children goes from parent to   *)
(* parent instead: of its picks in a row, as many as there are parents, no *)
(* two have the same parent.                                               *)
RotationFair == rotation.picks # <<>> /\ ~fillFirst =>
    LET picks == rotation.picks
        ps == rotation.key[1]
        S == Preferred(FreeOf(ps, {}), rotation.key[2])
        own(p) == {a \in S : owner[a] = p}
        parents(p) == {Meta(a).parent : a \in own(p)}
        grouped(p) == NoParent \notin parents(p) /\ Cardinality(parents(p)) > 1
    IN \A j, k \in DOMAIN picks : j < k =>
          /\ (\A p \in ps : ~grouped(p)) /\ k - j < Cardinality(S) => picks[j] # picks[k]
          /\ \A p \in ps : grouped(p) /\ k - j < Cardinality(parents(p)) /\ (\A i \in j..k : owner[picks[i]] = p)
                => Meta(picks[j]).parent # Meta(picks[k]).parent
=============================================================================
