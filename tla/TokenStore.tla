----------------------------- MODULE TokenStore -----------------------------
(***************************************************************************)
(* One credential between the manager's memory, its file in the auth       *)
(* directory and a remote that outlives the program: a bucket, a database  *)
(* or a git repository (internal/store).  The manager's Update and         *)
(* MarkResult save what they hold, the management API writes and removes   *)
(* the file, the watcher tells the manager of every change and hands it to *)
(* the store, and a restart begins from the remote.                        *)
(*                                                                         *)
(* Updates come one at a time, but a result, a removal and the watcher's   *)
(* hand-overs run beside them.  Contents are numbered, equal numbers being *)
(* equal JSON (jsonEqual); 0 is no file.  The configuration file, which    *)
(* the stores treat alike, other credentials, other programs that push to  *)
(* the same repository, and its maintenance are left out.                  *)
(***************************************************************************)
EXTENDS Naturals

CONSTANTS Kinds,        \* stores to explore, of "object", "postgres", "git"
          Reliable,     \* those whose remote always answers and whose program never crashes
          Early,        \* successes reported without a call of the remote that are counted: those of
                        \* "save" with its content in the file, of git's "delete" with the file gone
          Inflight,     \* may a refresh or a result be under way while the file is removed
          MaxContents, MaxResults, MaxRemovals, MaxFailures, MaxCrashes  \* bounds

Absent == 0
Nobody == "nobody"
Tasks == {"update", "result", "persist", "remove"}
Idle == [at |-> "idle", v |-> Absent, off |-> FALSE]
Disabling == [at |-> "disable", v |-> Absent, off |-> FALSE]

VARIABLES
    kind,
    mem,            \* what the manager holds, and whether it is disabled
    file, remote,   \* contents of the file, and of its object, record or pushed copy
    index, head,    \* git: what has been added, what has been committed
    mutex,          \* who holds the store's mutex
    task,           \* where the goroutines that use the store are
    noticed,        \* contents the watcher has accepted last
    dirty,          \* a persistAuthAsync is to start
    told,           \* the update on its way to the manager: [any, v]
    latest, results, removals, failures, crashes,
    after, rightful \* history: written since the mutex was taken; what the remote may hold

local == <<file, index, head>>
counts == <<latest, results, removals, failures, crashes>>
watcher == <<noticed, dirty, told>>
vars == <<kind, mem, local, remote, mutex, task, watcher, counts, after, rightful>>

NoUpdate == [any |-> FALSE, v |-> Absent]
Init ==
    /\ kind \in Kinds
    /\ mem = [v |-> 1, off |-> FALSE]
    /\ file = 1 /\ remote = 1 /\ index = 1 /\ head = 1
    /\ mutex = Nobody /\ task = [t \in Tasks |-> Idle]
    /\ noticed = 1 /\ dirty = FALSE /\ told = NoUpdate
    /\ latest = 1 /\ results = 0 /\ removals = 0 /\ failures = 0 /\ crashes = 0
    /\ after = {} /\ rightful = {1}

IsIdle(t) == task[t].at = "idle"
At(t, place) == task[t].at = place
Go(t, place) == task' = [task EXCEPT ![t].at = place]
\* MarkResult holds the manager's lock until its save has returned.
ManagerFree == IsIdle("result")
Fails == failures < MaxFailures /\ kind \notin Reliable /\ failures' = failures + 1

\* The file is written, or removed (0).
Written(c) == file' = c /\ after' = after \cup {c} /\ rightful' = rightful \cup {c}
\* An operation reports success: the remote may no longer hold anything older.
Kept == rightful' = after

------------------------------------------------------------------------------
(* The manager and the management API.                                     *)

\* A refresh, or a change through the API, of the credential as it was found.
Refresh == /\ IsIdle("update") /\ latest < MaxContents /\ ~mem.off /\ (Inflight \/ IsIdle("remove"))
           /\ latest' = latest + 1
           /\ task' = [task EXCEPT !["update"] = [at |-> "store", v |-> latest + 1, off |-> FALSE]]
           /\ UNCHANGED <<kind, mem, local, remote, mutex, watcher, results, removals, failures, crashes, after, rightful>>
\* writeAuthFile writes the file itself, and then updates the manager.
WriteAuthFile ==
    /\ IsIdle("update") /\ latest < MaxContents /\ (Inflight \/ IsIdle("remove"))
    /\ latest' = latest + 1 /\ Written(latest + 1)
    /\ task' = [task EXCEPT !["update"] = [at |-> "store", v |-> latest + 1, off |-> FALSE]]
    /\ UNCHANGED <<kind, mem, index, head, remote, mutex, watcher, results, removals, failures, crashes>>
Update(t) == /\ At(t, "store") /\ ManagerFree
             /\ mem' = [v |-> task[t].v, off |-> task[t].off] /\ Go(t, "stat")
             /\ UNCHANGED <<kind, local, remote, mutex, watcher, counts, after, rightful>>
MarkResult == /\ ManagerFree /\ results < MaxResults /\ results' = results + 1
              /\ mem.v # Absent /\ (Inflight \/ IsIdle("remove"))
              /\ task' = [task EXCEPT !["result"] = [at |-> "stat", v |-> mem.v, off |-> mem.off]]
              /\ UNCHANGED <<kind, mem, local, remote, mutex, watcher, latest, removals, failures, crashes, after, rightful>>

\* deleteAuthFileByName: the file, the record, and then the manager's credential
RemoveAuthFile == /\ IsIdle("remove") /\ removals < MaxRemovals /\ file # Absent
                  /\ Inflight \/ (IsIdle("update") /\ IsIdle("result"))
                  /\ removals' = removals + 1 /\ Written(Absent) /\ Go("remove", "ensure")
                  /\ UNCHANGED <<kind, mem, index, head, remote, mutex, watcher, latest, results, failures, crashes>>
DisableAuth == /\ At("remove", "disable")
               /\ task' = [task EXCEPT !["remove"] = IF mem.v = Absent THEN Idle
                                                     ELSE [at |-> "store", v |-> mem.v, off |-> TRUE]]
               /\ UNCHANGED <<kind, mem, local, remote, mutex, watcher, counts, after, rightful>>

------------------------------------------------------------------------------
(* Save, PersistAuthFiles and Delete of the three stores.                  *)

Saves(t) == t # "persist" /\ ~(t = "remove" /\ ~task[t].off)
Deletes(t) == t = "remove" /\ ~task[t].off

Stat(t) == /\ At(t, "stat")
           /\ IF task[t].off /\ file = Absent THEN task' = [task EXCEPT ![t] = Idle] ELSE Go(t, "ensure")
           /\ UNCHANGED <<kind, mem, local, remote, mutex, watcher, counts, after, rightful>>
\* EnsureRepository pulls; what differs here is kept.  The other stores do nothing.
EnsureRepository(t) ==
    /\ At(t, "ensure")
    /\ \/ Go(t, "lock") /\ UNCHANGED failures
       \/ kind = "git" /\ Fails /\ task' = [task EXCEPT ![t] = Idle]
    /\ UNCHANGED <<kind, mem, local, remote, mutex, watcher, latest, results, removals, crashes, after, rightful>>

SaveSkipped(t) == /\ Saves(t) /\ file = task[t].v
                  /\ task' = [task EXCEPT ![t] = Idle]
                  /\ rightful' = IF "save" \in Early THEN {file} ELSE rightful
                  /\ UNCHANGED <<file, mutex, after>>
SaveFile(t) == /\ Saves(t) /\ file # task[t].v
               /\ file' = task[t].v /\ after' = {task[t].v} /\ rightful' = rightful \cup {task[t].v}
               /\ mutex' = t /\ Go(t, "send")
\* Git reports a removal and commits nothing when there is no file left to remove.
DeleteSkipped(t) == /\ Deletes(t) /\ kind = "git" /\ file = Absent
                    /\ Go(t, "disable")
                    /\ rightful' = IF "delete" \in Early THEN {file} ELSE rightful
                    /\ UNCHANGED <<file, mutex, after>>
DeleteFile(t) == /\ Deletes(t) /\ ~(kind = "git" /\ file = Absent)
                 /\ file' = Absent /\ after' = {Absent} /\ rightful' = rightful \cup {Absent}
                 /\ mutex' = t /\ Go(t, "send")
PersistFile(t) == /\ t = "persist" /\ mutex' = t /\ Go(t, "send")
                  /\ after' = {file} /\ UNCHANGED <<file, rightful>>
Unlocked(t) == t # "persist" => mutex = Nobody  \* bug: PersistAuthFiles takes no mutex
Locked(t) == mutex = Nobody
Lock(t) == /\ At(t, "lock") /\ Locked(t)
           /\ SaveSkipped(t) \/ SaveFile(t) \/ DeleteSkipped(t) \/ DeleteFile(t) \/ PersistFile(t)
           /\ UNCHANGED <<kind, mem, index, head, remote, watcher, counts>>

Done(t) == mutex' = Nobody /\ task' = [task EXCEPT ![t] = IF Deletes(t) THEN Disabling ELSE Idle]
Failed(t) == mutex' = Nobody /\ task' = [task EXCEPT ![t] = Idle] /\ UNCHANGED rightful

Sent(t) == IF Deletes(t) THEN Absent ELSE file
\* The file is read again; a save to the database does not expect it to be gone.
Read(t) == /\ kind \in {"object", "postgres"}
           /\ \/ kind = "postgres" /\ Saves(t) /\ file = Absent /\ Failed(t)
              \/ ~(kind = "postgres" /\ Saves(t) /\ file = Absent)
                 /\ task' = [task EXCEPT ![t] = [at |-> "put", v |-> Sent(t), off |-> task[t].off]]
                 /\ UNCHANGED <<mutex, rightful>>
           /\ UNCHANGED <<index, head, remote, failures>>
\* What was read is put, nothing deletes the object; a call that failed may have
\* been carried out.
Put(t) == /\ \/ remote' = task[t].v /\ Done(t) /\ Kept /\ UNCHANGED failures
             \/ Fails /\ (remote' = task[t].v \/ UNCHANGED remote) /\ Failed(t)
          /\ UNCHANGED <<index, head>>
\* commitAndPushLocked: what is committed already is not pushed again.
Commit(t) == /\ kind = "git"
             /\ index' = file
             /\ IF index' = head THEN Done(t) /\ Kept /\ UNCHANGED head
                ELSE head' = index' /\ Go(t, "push") /\ UNCHANGED <<mutex, rightful>>
             /\ UNCHANGED <<remote, failures>>
Push(t) == /\ \/ remote' = head /\ Done(t) /\ Kept /\ UNCHANGED failures
              \/ Fails /\ (remote' = head \/ UNCHANGED remote) /\ Failed(t)
           /\ UNCHANGED <<index, head>>
Send(t) == /\ \/ At(t, "send") /\ (Read(t) \/ Commit(t))
              \/ At(t, "put") /\ Put(t)
              \/ At(t, "push") /\ Push(t)
           /\ UNCHANGED <<kind, mem, file, watcher, latest, results, removals, crashes, after>>

------------------------------------------------------------------------------
(* The watcher, and the service's consumer of its updates.                 *)

OnlyPresent == file # Absent  \* bug: a file that is gone is not handed to the store
Persists == TRUE

\* addOrUpdateClient, removeClient
Notice == /\ file # noticed
          /\ noticed' = file /\ dirty' = (dirty \/ Persists) /\ told' = [any |-> TRUE, v |-> file]
          /\ UNCHANGED <<kind, mem, local, remote, mutex, task, counts, after, rightful>>
\* One goroutine for each change, all alike: those that wait are taken for one.
PersistAuthAsync == /\ dirty /\ IsIdle("persist")
                    /\ dirty' = FALSE /\ Go("persist", "ensure")
                    /\ UNCHANGED <<kind, mem, local, remote, mutex, noticed, told, counts, after, rightful>>
HandleAuthUpdate ==
    /\ told.any /\ ManagerFree
    /\ mem' = IF told.v = Absent THEN [v |-> mem.v, off |-> TRUE] ELSE [v |-> told.v, off |-> FALSE]
    /\ told' = NoUpdate
    /\ UNCHANGED <<kind, local, remote, mutex, task, noticed, dirty, counts, after, rightful>>

------------------------------------------------------------------------------
(* The program crashes and starts again.                                   *)

BootstrapObject == file' = IF remote = Absent THEN file ELSE remote
BootstrapPostgres == file' = remote
\* The repository is there: what was not committed or pushed remains.
OpenRepository == UNCHANGED file
Crash == /\ crashes < MaxCrashes /\ kind \notin Reliable /\ crashes' = crashes + 1
         /\ \/ kind = "object" /\ BootstrapObject
            \/ kind = "postgres" /\ BootstrapPostgres
            \/ kind = "git" /\ OpenRepository
         /\ mem' = [v |-> file', off |-> file' = Absent]
         /\ noticed' = file' /\ dirty' = FALSE /\ told' = NoUpdate
         /\ mutex' = Nobody /\ task' = [t \in Tasks |-> Idle] /\ after' = {}
         /\ UNCHANGED <<kind, index, head, remote, latest, results, removals, failures, rightful>>

Stored == \E t \in Tasks : Update(t) \/ Stat(t) \/ EnsureRepository(t) \/ Lock(t) \/ Send(t)
Step == Stored \/ DisableAuth \/ Notice \/ PersistAuthAsync \/ HandleAuthUpdate
Environment == Refresh \/ WriteAuthFile \/ MarkResult \/ RemoveAuthFile \/ Crash
Next == Step \/ Environment
\* Goroutines are scheduled and remote calls return: what was begun takes finitely many steps.
Fairness == WF_vars(Step)
Spec == Init /\ [][Next]_vars /\ Fairness

------------------------------------------------------------------------------
\* PersistAuthFiles, Save, Delete (internal/store), whatever calls fail and whenever
\* the program crashes: the remote, and the file that a restart begins with, hold the
\* last content whose save, synchronisation or removal was carried to the remote (git:
\* found committed) and reported, or a newer one.  A success reported without a call of
\* the remote counts only if Early names it: a save that finds its content in the file,
\* and git's removal of a file already gone, as deleteAuthFileByName leaves it; the
\* watcher's hand-over has to carry those.  A disabled credential without a file is
\* not saved, and claims nothing.
Durable == {file, remote} \subseteq rightful

\* Update and MarkResult, the management API and the watcher: when changes stop,
\* memory and file come to agree, and with a remote that always answered so does it.
Agreed == /\ IF file = Absent THEN mem.off ELSE mem = [v |-> file, off |-> FALSE]
          /\ failures = 0 /\ crashes = 0 => remote = file
Settles == <>[]Agreed
=============================================================================
