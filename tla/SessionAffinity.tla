-------------------------- MODULE SessionAffinity --------------------------
(***************************************************************************)
(* SessionAffinitySelector and its SessionCache for one conversation: each *)
(* request of it is given the credential its session is bound to.  A       *)
(* request of the first turn has a short key; a later one has a full key   *)
(* and, until that one is bound, inherits what the short key is bound to.  *)
(* Requests overlap, also with the cache's clean-up; one that failed with  *)
(* a credential picks again without it.  A pick takes no time.             *)
(*                                                                         *)
(* What is available is the outcome of module Scheduler's reference        *)
(* (getAvailableAuths); the fallback selector may pick any of it.  How a   *)
(* session's keys are found in a request is left out.                      *)
(***************************************************************************)
EXTENDS Integers

CONSTANTS Auths, Requests,
          TTL,   \* ticks a binding lasts
          Racy   \* may a request of the first turn overlap one of a later turn

Keys == {"short", "full"}
None == 0
Expired == -1

VARIABLES
    entries,    \* entries[k]: the credential bound and the ticks it has left
    available,  \* credentials not blocked
    pick,       \* pick[r]: where r's Pick is, its key, candidates and credential; those tried
    anchor, age \* history: the credential k is to be given, and the ticks since it was

vars == <<entries, available, pick, anchor, age>>
Unbound == [auth |-> None, left |-> 0]
Resting == [at |-> "rests", key |-> "short", from |-> {}, auth |-> None, tried |-> {}, owed |-> {}]

Init == /\ entries = [k \in Keys |-> Unbound] /\ available = Auths
        /\ pick = [r \in Requests |-> Resting]
        /\ anchor = [k \in Keys |-> None] /\ age = [k \in Keys |-> 0]

Picking == {r \in Requests : pick[r].at \notin {"rests", "served"}}

\* What a request with this key is to be given: the key's credential or, for a key that is
\* not bound, the one of the turn before.
Owed(key, from) == IF key = "full" /\ entries["full"].auth = None
                   THEN {anchor["short"]} \intersect from
                   ELSE {anchor[key]} \intersect from

Begin(r, key) ==
    /\ pick[r].at = "rests" /\ (pick[r].tried # {} => key = pick[r].key)
    /\ Racy \/ \A s \in Picking : pick[s].key = key
    /\ available \ pick[r].tried # {}
    /\ pick' = [pick EXCEPT ![r] = [at |-> "refreshes", key |-> key, from |-> available \ @.tried,
                                    auth |-> None, tried |-> @.tried,
                                    owed |-> Owed(key, available \ @.tried)]]
    /\ anchor' = [anchor EXCEPT ![key] = IF @ \in available \ pick[r].tried THEN @ ELSE None]
    /\ UNCHANGED <<entries, available, age>>

Found(k) == entries[k].auth # None /\ entries[k].left # Expired
Go(r, place, a) == pick' = [pick EXCEPT ![r].at = place, ![r].auth = a]

\* r is given a.  Unless another request is picking for the key, a is the key's credential
\* from now on; one that was owed another credential no longer is.
Given(r, a) ==
    LET k == pick[r].key IN
    /\ pick' = [s \in Requests |-> IF s = r THEN [pick[s] EXCEPT !.at = "served", !.auth = a]
                                  ELSE [pick[s] EXCEPT !.owed = @ \intersect {a}]]
    /\ anchor' = [anchor EXCEPT ![k] = IF \A s \in Picking \ {r} : pick[s].key # k THEN a ELSE @]
    /\ age' = [age EXCEPT ![k] = 0]

SameExpiry(k) == entries[k].left  \* bug: a hit does not prolong the binding
Prolonged(k) == TTL
GetAndRefresh(r) ==
    /\ pick[r].at = "refreshes"
    /\ LET k == pick[r].key IN
       IF Found(k)
       THEN /\ entries' = [entries EXCEPT ![k].left = Prolonged(k)]
            /\ IF entries[k].auth \in pick[r].from
               THEN Given(r, entries[k].auth)
               ELSE Go(r, "selects", None) /\ UNCHANGED <<anchor, age>>
       ELSE /\ entries' = [entries EXCEPT ![k] = Unbound]
            /\ Go(r, IF k = "full" THEN "looks" ELSE "selects", None) /\ UNCHANGED <<anchor, age>>
    /\ UNCHANGED available

\* Get of the short key, in two critical sections if its entry has expired.
Get(r) ==
    /\ pick[r].at = "looks"
    /\ \/ Found("short") /\ entries["short"].auth \in pick[r].from /\ Go(r, "binds", entries["short"].auth)
       \/ Found("short") /\ entries["short"].auth \notin pick[r].from /\ Go(r, "selects", None)
       \/ entries["short"].auth = None /\ Go(r, "selects", None)
       \/ entries["short"].auth # None /\ ~Found("short") /\ Go(r, "deletes", None)
    /\ UNCHANGED <<entries, available, anchor, age>>
Delete(r) == /\ pick[r].at = "deletes" /\ entries' = [entries EXCEPT !["short"] = Unbound]
             /\ Go(r, "selects", None) /\ UNCHANGED <<available, anchor, age>>

\* The fallback selector, and Set.
Select(r) == /\ pick[r].at = "selects" /\ \E a \in pick[r].from : Go(r, "binds", a)
             /\ UNCHANGED <<entries, available, anchor, age>>
Set(r) == /\ pick[r].at = "binds" /\ Given(r, pick[r].auth)
          /\ entries' = [entries EXCEPT ![pick[r].key] = [auth |-> pick[r].auth, left |-> TTL]]
          /\ UNCHANGED available

Cleanup == /\ entries' = [k \in Keys |-> IF entries[k].auth # None /\ ~Found(k) THEN Unbound ELSE entries[k]]
           /\ UNCHANGED <<available, pick, anchor, age>>

\* The call succeeds, or the request picks again without the credential.
Succeed(r) == /\ pick[r].at = "served" /\ pick' = [pick EXCEPT ![r] = Resting]
              /\ UNCHANGED <<entries, available, anchor, age>>
Fail(r) == /\ pick[r].at = "served"
           /\ pick' = [pick EXCEPT ![r] = [Resting EXCEPT !.key = pick[r].key, !.tried = pick[r].tried \cup {pick[r].auth}]]
           /\ UNCHANGED <<entries, available, anchor, age>>
GiveUp(r) == /\ pick[r].at = "rests" /\ pick[r].tried # {} /\ available \subseteq pick[r].tried
             /\ pick' = [pick EXCEPT ![r] = Resting]
             /\ UNCHANGED <<entries, available, anchor, age>>

\* Cooldowns, recoveries and other priorities; time.
Block == /\ Picking = {}  \* picks hold the manager's lock for reading
         /\ \E s \in SUBSET Auths : s # available /\ available' = s
         /\ UNCHANGED <<entries, pick, anchor, age>>
Tick == /\ Picking = {}
        /\ entries' = [k \in Keys |-> IF entries[k].auth = None \/ ~Found(k) THEN entries[k]
                                      ELSE [entries[k] EXCEPT !.left = @ - 1]]
        /\ age' = [k \in Keys |-> IF age[k] < TTL THEN age[k] + 1 ELSE age[k]]
        /\ anchor' = [k \in Keys |-> IF age[k] < TTL THEN anchor[k] ELSE None]
        /\ UNCHANGED <<available, pick>>

PickStep(r) == \/ \E k \in Keys : Begin(r, k)
               \/ GetAndRefresh(r) \/ Get(r) \/ Delete(r) \/ Select(r) \/ Set(r)
Next == \/ \E r \in Requests : PickStep(r) \/ Succeed(r) \/ Fail(r) \/ GiveUp(r)
        \/ Cleanup \/ Block \/ Tick
Spec == Init /\ [][Next]_vars

------------------------------------------------------------------------------
\* Pick: a conversation stays with its credential, through overlapping requests, clean-ups
\* and from its first turn to the next, while no request of it had to do without that one
\* and no more than the lifetime passes between two requests.
Sticky == [][\A r \in Requests : pick[r].at # "served" /\ pick'[r].at = "served"
                => pick[r].owed \subseteq {pick'[r].auth}]_vars
=============================================================================
