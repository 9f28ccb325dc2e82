--------------------------- MODULE MCWatcherStore ---------------------------
(***************************************************************************)
(* What happens to a credential whose file changes, in two settings that   *)
(* one run explores side by side: on its way from the watcher to the       *)
(* manager (WatcherDispatch), and on its way between the manager, its file *)
(* and the remote of its token store (TokenStore).  The second begins when *)
(* the watcher has nothing to do, and then the first stays as it is.       *)
(***************************************************************************)
EXTENDS MCWatcherDispatch

CONSTANTS Kinds, Reliable, Early, Inflight, MaxContents, MaxResults, MaxRemovals, MaxFailures, MaxCrashes

VARIABLES setting, kind, mem, stored, remote, index, head, mutex, task, noticed, dirty, told,
          latest, results, removals, failures, crashes, after, rightful

Store == INSTANCE TokenStore WITH file <- stored

contents == <<mem, stored, remote, index, head, mutex, task, noticed, dirty, told,
              latest, results, removals, failures, crashes, after, rightful>>

\* The watcher waits for the first change of a file that holds the first contents.
Waits == /\ setting = "watcher" /\ loop = "asleep" /\ stopping = "no"
         /\ changes = 0 /\ reloads = 0 /\ tokens = 0
         /\ disk = [f \in Files |-> 1]
Begin == Waits /\ setting' = "store" /\ kind' \in Kinds /\ UNCHANGED <<contents, vars>>

SettingInit == setting = "watcher" /\ Init /\ Store!Init /\ kind = CHOOSE k \in Kinds : TRUE
SettingNext == \/ setting = "watcher" /\ Next /\ UNCHANGED <<setting, kind, contents>>
               \/ Begin
               \/ setting = "store" /\ Store!Next /\ UNCHANGED <<setting, vars>>
SettingSpec == SettingInit /\ [][SettingNext]_<<setting, kind, contents, vars>> /\ Fairness /\ Store!Fairness

\* The remote, and the file a restart begins with, hold what was last carried to the
\* remote and reported, or something newer, whatever calls failed and whenever the
\* program crashed.  What a save, or git's removal of a file already gone, reports
\* without a call of the remote is counted only if Early names it.
Durable == Store!Durable

\* When changes stop, the file and the manager's memory come to agree, and with a
\* remote that always answered so does it.
Settles == Store!Settles
=============================================================================
