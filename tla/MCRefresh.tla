------------------------------ MODULE MCRefresh ------------------------------
(***************************************************************************)
(* The refresh in two settings that one run explores side by side: the two *)
(* functions that time it, for every credential whose instants lie on a    *)
(* short clock, and the loop with its one worker, over one credential that *)
(* is registered and updated while a pass may lag.                         *)
(***************************************************************************)
EXTENDS AutoRefresh

CONSTANTS Times, Durations,   \* RefreshTiming's instants and durations
          a1, w1

ASSUME TimesAssumption == Times \subseteq Nat /\ Durations \subseteq Nat

VARIABLES setting,            \* "timing" or "loop"
          auth, now, next     \* RefreshTiming's: the loop's are AutoRefresh's

Timing == INSTANCE RefreshTiming

timing == <<auth, now, next>>

MCTimes == 0..6
MCDurations == 0..3
OneAuth == {a1}
OneWorker == {w1}

\* What the timing setting leaves the loop's variables at, and the other way round.
Unused == /\ auth = CHOOSE a \in Timing!Credential : ~a.evaluator
          /\ now = 1 /\ next = Timing!NextRefreshCheckAt(auth, now)

SettingInit == \/ setting = "timing" /\ Timing!Init /\ Init /\ known = {}
               \/ setting = "loop" /\ Unused /\ Init
SettingNext == \/ setting = "timing" /\ Timing!Next /\ UNCHANGED <<setting, vars>>
               \/ setting = "loop" /\ Next /\ UNCHANGED <<setting, timing>>
SettingSpec == SettingInit /\ [][SettingNext]_<<setting, timing, vars>>

\* The credential, the clock and the wake-up the two functions agree on stay in range.
TimingOK == Timing!TypeOK

\* nextRefreshCheckAt never lets the loop sleep over a credential shouldRefresh accepts.
NeverOversleeps == Timing!NeverOversleeps

\* A wake-up that does not refresh moves the next one into the future, or drops it.
NeverSpins == Timing!NeverSpins

\* The loop's invariants (AutoRefresh), for one credential whose passes may lag and
\* whose refreshes may outlive their gate: no wake-up is lost, late or without a ringer,
\* and none is slept through.
LoopKeepsUp == TypeOK /\ NoneForgotten /\ WakesInTime /\ DirtyIsRung /\ TimerCoversHeap
=============================================================================
