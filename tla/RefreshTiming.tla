--------------------------- MODULE RefreshTiming ---------------------------
(***************************************************************************)
(* When a credential is next looked at, and when it is refreshed:          *)
(* nextRefreshCheckAt (sdk/cliproxy/auth/auto_refresh_loop.go) decides how *)
(* long the refresh loop may sleep over a credential, shouldRefresh        *)
(* (sdk/cliproxy/auth/conductor.go) whether the wake-up really refreshes   *)
(* it.  The two are written separately and must agree: a loop that sleeps  *)
(* past the instant shouldRefresh turns true loses the token, a loop woken *)
(* for a credential shouldRefresh declines spins.                          *)
(*                                                                         *)
(* Times are natural numbers; 0 is Go's zero time.Time ("not set"), and a  *)
(* duration 0 is "no preference" (pref) or a nil lead, since               *)
(* ProviderRefreshLead only returns positive leads.                        *)
(***************************************************************************)
EXTENDS Integers

\* Natural numbers all; MCRefresh, which gives the constants their values, assumes it.
CONSTANTS Interval,     \* the loop's check interval
          Times,        \* the instants credentials and clocks range over
          Durations     \* the preferred intervals and provider leads

VARIABLES auth,   \* the credential as the manager holds it
          now,    \* the wall clock
          next    \* the loop's wake-up for it, Unset when not scheduled

vars == <<auth, now, next>>

Unset == 0

(* The fields of Auth the two functions read. *)
Credential == [disabled : BOOLEAN, apiKey : BOOLEAN, evaluator : BOOLEAN,
               gate : Times, last : Times, expiry : Times,
               pref : Durations, lead : Durations]

Earlier(s, t) == IF s <= t THEN s ELSE t
LaterUnchecked(s, t) == s          \* bug: an instant of the past stays in the past
Later(s, t) == IF s <= t THEN t ELSE s

(* NextRefreshAfter is set and still ahead. *)
Gated(a, t) == a.gate # Unset /\ t < a.gate

(* The instant the preferred interval asks for: that long before the       *)
(* expiry or that long after the last refresh, whichever comes first; at   *)
(* once when the credential was never refreshed.                           *)
LatestDue(a, t) ==                 \* bug: the later of the two
    IF a.expiry # Unset /\ a.expiry <= t + a.pref THEN t
    ELSE IF a.last = Unset THEN t
    ELSE Later(t, Later(a.expiry - a.pref, a.last + a.pref))
PreferredDue(a, t) ==
    IF a.expiry # Unset /\ a.expiry <= t + a.pref THEN t
    ELSE IF a.last = Unset THEN t
    ELSE LET byAge == a.last + a.pref
             at == IF a.expiry # Unset THEN Earlier(a.expiry - a.pref, byAge) ELSE byAge
         IN Later(at, t)

(* The instant the provider's lead asks for. *)
LeadDue(a, t) ==
    CASE a.expiry # Unset -> Later(a.expiry - a.lead, t)
      [] a.expiry = Unset /\ a.last # Unset -> Later(a.last + a.lead, t)
      [] OTHER -> t

(* nextRefreshCheckAt: Unset stands for its (time.Time{}, false). *)
NextRefreshCheckAt(a, t) ==
    IF a.disabled \/ a.apiKey THEN Unset
    ELSE IF Gated(a, t) THEN a.gate
    ELSE IF a.evaluator THEN t + Interval
    ELSE IF a.pref > 0 THEN PreferredDue(a, t)
    ELSE IF a.lead = 0 THEN Unset
    ELSE LeadDue(a, t)

(* shouldRefresh without a RefreshEvaluator: no runtime of the repository  *)
(* implements one, and what an evaluator answers is not the manager's.     *)
ShouldRefreshStrictly(a, t) ==     \* bug: < and > where the check has <= and >=
    /\ ~a.disabled
    /\ ~Gated(a, t)
    /\ IF a.pref > 0
       THEN \/ a.expiry # Unset /\ a.expiry - t < a.pref
            \/ a.last = Unset
            \/ t - a.last > a.pref
       ELSE /\ a.lead > 0
            /\ IF a.expiry # Unset THEN a.expiry - t < a.lead
               ELSE a.last # Unset => t - a.last > a.lead
ShouldRefresh(a, t) ==
    /\ ~a.disabled
    /\ ~Gated(a, t)
    /\ IF a.pref > 0
       THEN \/ a.expiry # Unset /\ (a.expiry <= t \/ a.expiry - t <= a.pref)
            \/ a.last = Unset
            \/ t - a.last >= a.pref
       ELSE /\ a.lead > 0
            /\ IF a.expiry # Unset THEN a.expiry - t <= a.lead
               ELSE a.last # Unset => t - a.last >= a.lead

-----------------------------------------------------------------------------
(* One credential under the loop: the loop sleeps until `next', then either *)
(* hands the credential to a refresh or looks up a new wake-up.            *)

Init == /\ auth \in Credential /\ ~auth.evaluator
        /\ now \in Times \ {Unset}
        /\ next = NextRefreshCheckAt(auth, now)

(* The wall clock moves on; nothing makes it wait for the loop. *)
Sleep == /\ now + 1 \in Times
         /\ now' = now + 1
         /\ UNCHANGED <<auth, next>>

(* handleDueAuth on a wake-up that does not refresh: upsert or remove. *)
Recheck == /\ next # Unset /\ next <= now
           /\ ~(ShouldRefresh(auth, now) /\ NextRefreshCheckAt(auth, now) # Unset)
           /\ next' = NextRefreshCheckAt(auth, now)
           /\ UNCHANGED <<auth, now>>

(* handleDueAuth on a wake-up that refreshes, the refresh having gone      *)
(* through: a new last-refresh time, a new expiry and a new gate (the      *)
(* pending back-off or one the authenticator chose), then the reschedule.  *)
Refresh == /\ next # Unset /\ next <= now
           /\ NextRefreshCheckAt(auth, now) # Unset
           /\ ShouldRefresh(auth, now)
           /\ \E e, g \in Times :
                 auth' = [auth EXCEPT !.last = now, !.expiry = e, !.gate = g]
           /\ next' = NextRefreshCheckAt(auth', now)
           /\ now' = now

Next == Sleep \/ Recheck \/ Refresh

Spec == Init /\ [][Next]_vars

-----------------------------------------------------------------------------
TypeOK == /\ auth \in Credential /\ ~auth.evaluator
          /\ now \in Times \ {Unset}
          /\ next \in Nat

(* The loop is never asleep over a credential it ought to be refreshing:   *)
(* whenever shouldRefresh holds of a credential the loop manages, its      *)
(* wake-up is not in the future.                                           *)
NeverOversleeps ==
    ShouldRefresh(auth, now) /\ ~auth.apiKey => next # Unset /\ next <= now

(* A wake-up that does not refresh moves the next one strictly into the    *)
(* future or drops it: handleDue never spins on a credential that          *)
(* nextRefreshCheckAt calls due and shouldRefresh declines.                *)
NeverSpins ==
    [][next # Unset /\ next <= now /\ ~ShouldRefresh(auth, now) /\ UNCHANGED <<auth, now>>
          => next' = Unset \/ next' > now]_vars
=============================================================================
