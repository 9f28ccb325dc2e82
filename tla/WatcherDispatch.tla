-------------------------- MODULE WatcherDispatch --------------------------
(***************************************************************************)
(* How the credentials the program knows follow the files of the auth      *)
(* directory and the websocket channels (internal/watcher, and the         *)
(* consumer of sdk/cliproxy/service.go).                                   *)
(*                                                                         *)
(* The producers are goroutines: "events" handles file system events one   *)
(* by one, "reload" is the configuration reload, and each websocket        *)
(* channel has one.  A producer compares what it saw with the shadow       *)
(* snapshot under clientsMutex, unlocks, and only then merges the          *)
(* differences into the buffer, under dispatchMu.  The dispatch loop takes *)
(* the buffer in batches and sends it to a bounded channel; the service's  *)
(* consumer applies what arrives to the credential manager.                *)
(*                                                                         *)
(* A file holds one credential, whose identifier stands for both; its      *)
(* contents are numbered.  Credentials from the configuration file, and    *)
(* what the manager does with an update (Execution, Scheduler), are left   *)
(* out.                                                                    *)
(***************************************************************************)
EXTENDS Integers, Sequences, FiniteSets, SequencesExt

CONSTANTS Files,        \* auth files
          Channels,     \* websocket channels
          Contents,     \* what a file may hold
          Capacity,     \* slots of the update channel (256 in the code)
          Affected,     \* sets of credentials a reload may find its exclusions changed for
          Overlap,      \* may files change while the whole state is refreshed
          Quick,        \* may a file be removed again within the debounce window
          MayStop,      \* may the watcher be stopped
          MaxChanges,   \* bound: changes of the files
          MaxReloads, MaxKiro, MaxRefreshes  \* bounds: configuration reloads after the first
                        \* load, changes of the Kiro IDE token, and both together

ASSUME DispatchAssumption == Capacity \in Nat \ {0} /\ 0 \notin Contents /\ Contents \subseteq Nat

KiroToken == "kiro"               \* the token file of the Kiro IDE

\* Files and channels are finitely many and have names of their own.
ASSUME DispatchNamesAssumption ==
    /\ IsFiniteSet(Files) /\ IsFiniteSet(Channels) /\ Files \cap Channels = {}
    /\ KiroToken \notin Files /\ {"events", "reload"} \cap Channels = {}

Ids == Files \cup Channels
Producers == {"events", "reload"} \cup Channels
Absent == 0                       \* no file, no credential; as an update, a deletion
Empty == -1                       \* a file truncated and not written yet
Payloads == Contents \cup {Absent}

VARIABLES
    disk,       \* disk[f]: contents of the file
    events,     \* file system events not handled yet, oldest first
    debounced,  \* files with a removal accepted within the debounce window
    changes, reloads, tokens,             \* how often the environment acted
    hashes,     \* lastAuthHashes, fileAuthsByPath: contents last accepted, by file
    shadow,     \* currentAuths
    runtime,    \* runtimeAuths
    pc,         \* where each producer is
    file, seen, \* the event goroutine's file, and what it read from it
    view,       \* what the refresh of "events" or "reload" saw on the disk
    asked,      \* the reload's parameters
    out,        \* out[p]: updates computed and not yet merged into the buffer
    pendingUpdates, pendingOrder,         \* the buffer: updates by credential, order
    loop,       \* where the dispatch loop is
    batch,      \* the updates it has taken and not sent
    cancelled, queueSet, stopping,        \* dispatchCancel called, authQueue non-nil, steps of Stop
    channel,    \* the update channel
    consuming,  \* FALSE once the consumer's context is cancelled
    applied,    \* credentials the manager serves
    sent        \* history: the update of each credential sent last

world == <<disk, events, debounced, changes, reloads, tokens>>
locked == <<hashes, shadow, runtime>>
producers == <<pc, file, seen, view, asked, out>>
buffer == <<pendingUpdates, pendingOrder>>
looping == <<loop, batch>>
halt == <<cancelled, queueSet, stopping, consuming>>
vars == <<world, locked, producers, buffer, looping, halt, channel, applied, sent>>

Update == [id : Ids, auth : Payloads]
NoFiles == [f \in Files |-> Absent]
NoReload == [affected |-> {}, rescan |-> FALSE, force |-> FALSE]

\* What the synthesizer makes of a file: nothing of an empty one.
Credential(d) == IF d = Empty THEN Absent ELSE d

\* The watcher has done its first load and the manager has applied it.
Init == /\ disk \in [Files -> Payloads]
        /\ events = << >> /\ debounced = {} /\ changes = 0 /\ reloads = 0 /\ tokens = 0
        /\ hashes = disk
        /\ shadow = [i \in Ids |-> IF i \in Files THEN disk[i] ELSE Absent]
        /\ applied = shadow /\ sent = shadow
        /\ runtime = [c \in Channels |-> Absent]
        /\ pc = [p \in Producers |-> IF p \in Channels THEN "new" ELSE "idle"]
        /\ file = KiroToken /\ seen = Absent
        /\ view = [p \in {"events", "reload"} |-> NoFiles]
        /\ asked = NoReload
        /\ out = [p \in Producers |-> {}]
        /\ pendingUpdates = << >> /\ pendingOrder = << >>
        /\ loop = "looking" /\ batch = << >>
        /\ cancelled = FALSE /\ queueSet = TRUE /\ stopping = "no" /\ consuming = TRUE
        /\ channel = << >>

-----------------------------------------------------------------------------
(* The environment: files are written, truncated and removed.              *)

\* Unless Overlap, files do not change while the whole state is refreshed, and no
\* refresh begins while a file is being written or its events are handled.
Refreshing == \/ pc["reload"] # "idle" \/ pc["events"] \in {"snapshot", "refresh"}
              \/ [file |-> KiroToken, op |-> "write"] \in ToSet(events)
Calm == events = << >> /\ pc["events"] = "idle" /\ \A f \in Files : disk[f] # Empty

Change(f, d, op) ==
    /\ changes < MaxChanges /\ (Overlap \/ ~Refreshing)
    /\ disk' = [disk EXCEPT ![f] = d]
    /\ events' = Append(events, [file |-> f, op |-> op])
    /\ changes' = changes + 1
    /\ UNCHANGED <<debounced, reloads, tokens, locked, producers, buffer, looping, halt, channel, applied, sent>>

Write(f, d) == Change(f, d, "write")
Truncate(f) == disk[f] # Empty /\ Change(f, Empty, "write")

\* Unless Quick, a file is left in place while a removal is being debounced.
Delete(f) ==
    /\ disk[f] # Absent
    /\ \/ Quick
       \/ f \notin debounced /\ [file |-> f, op |-> "remove"] \notin ToSet(events)
    /\ Change(f, Absent, "remove")

WindowEnds(f) == f \in debounced /\ debounced' = debounced \ {f}
                 /\ UNCHANGED <<disk, events, changes, reloads, tokens, locked, producers, buffer, looping, halt, channel, applied, sent>>

KiroChange ==
    /\ tokens < MaxKiro /\ reloads + tokens < MaxRefreshes /\ (Overlap \/ Calm)
    /\ tokens' = tokens + 1
    /\ events' = Append(events, [file |-> KiroToken, op |-> "write"])
    /\ UNCHANGED <<disk, debounced, changes, reloads, locked, producers, buffer, looping, halt, channel, applied, sent>>

-----------------------------------------------------------------------------
(* Differences with the shadow snapshot, under clientsMutex.               *)

\* bug: the channels' credentials are not carried over
FilesOnly(v, p) == [i \in Ids |-> IF i \in Files THEN v[i] ELSE Absent]

\* What there should be after a refresh that saw v: the files' credentials,
\* and those of the channels.
NewState(v, p) == [i \in Ids |-> IF i \in Files THEN v[i] ELSE runtime[i]]

Differences(new, force) ==
    {[id |-> i, auth |-> new[i]] :
        i \in {j \in Ids : new[j] # shadow[j] \/ (force /\ new[j] # Absent)}}

PrepareAuthUpdates(p, v, force) ==
    LET new == NewState(v, p)
    IN  /\ out' = [out EXCEPT ![p] = IF queueSet THEN Differences(new, force) ELSE {}]
        /\ shadow' = new

\* bug: the contents accepted from a removed file are still known
StillKnown(f) == hashes

\* removeClient forgets the contents accepted from the file.
Unknown(f) == [hashes EXCEPT ![f] = Absent]

\* The per-file comparison: what the file holds now against the shadow; a
\* credential that has left the file is deleted whatever the shadow says.
FileUpdates(f, new) ==
    IF new # Absent
    THEN IF shadow[f] = new THEN {} ELSE {[id |-> f, auth |-> new]}
    ELSE IF hashes[f] # Absent THEN {[id |-> f, auth |-> Absent]} ELSE {}

-----------------------------------------------------------------------------
(* The goroutine that handles file system events.                          *)

Goto(p, l) == pc' = [pc EXCEPT ![p] = l]

\* A removal is accepted once per debounce window and file, and looked into
\* after a short delay; anything else is read at once.
HandleEvent ==
    /\ pc["events"] = "idle" /\ events # << >>
    /\ events' = Tail(events)
    /\ LET e == Head(events)
       IN  /\ file' = e.file
           /\ \/ e.file = KiroToken /\ Goto("events", "snapshot") /\ UNCHANGED debounced
              \/ e.file # KiroToken /\ e.op = "write" /\ Goto("events", "read") /\ UNCHANGED debounced
              \/ e.op = "remove" /\ e.file \notin debounced
                 /\ debounced' = debounced \cup {e.file} /\ Goto("events", "settle")
              \/ e.op = "remove" /\ e.file \in debounced /\ UNCHANGED <<debounced, pc>>
    /\ UNCHANGED <<disk, changes, reloads, tokens, locked, seen, view, asked, out, buffer, looping, halt, channel, applied, sent>>

\* After the delay: a file that is there again is read, an unknown one is
\* ignored.
StatFails == disk[file] = Absent

Settle ==
    /\ pc["events"] = "settle"
    /\ Goto("events", IF ~StatFails THEN "read" ELSE IF hashes[file] = Absent THEN "idle" ELSE "remove")
    /\ UNCHANGED <<world, locked, file, seen, view, asked, out, buffer, looping, halt, channel, applied, sent>>

\* A missing or empty file, and one whose contents were accepted before, are
\* left alone.
Read ==
    /\ pc["events"] = "read"
    /\ IF disk[file] \in Contents
       THEN seen' = disk[file] /\ Goto("events", "update")
       ELSE Goto("events", "idle") /\ UNCHANGED seen
    /\ UNCHANGED <<world, locked, file, view, asked, out, buffer, looping, halt, channel, applied, sent>>

AddOrUpdateClient ==
    /\ pc["events"] = "update"
    /\ IF hashes[file] = seen
       THEN Goto("events", "idle") /\ UNCHANGED <<out, locked>>
       ELSE /\ out' = [out EXCEPT !["events"] = FileUpdates(file, seen)]
            /\ hashes' = [hashes EXCEPT ![file] = seen]
            /\ shadow' = [shadow EXCEPT ![file] = seen]
            /\ UNCHANGED runtime
            /\ Goto("events", "dispatch")
    /\ seen' = Absent
    /\ UNCHANGED <<world, file, view, asked, buffer, looping, halt, channel, applied, sent>>

RemoveClient ==
    /\ pc["events"] = "remove"
    /\ out' = [out EXCEPT !["events"] = FileUpdates(file, Absent)]
    /\ hashes' = Unknown(file)
    /\ shadow' = [shadow EXCEPT ![file] = IF hashes[file] = Absent THEN @ ELSE Absent]
    /\ Goto("events", "dispatch")
    /\ UNCHANGED <<world, runtime, file, seen, view, asked, buffer, looping, halt, channel, applied, sent>>

-----------------------------------------------------------------------------
(* Refreshes of the whole state: the configuration reload, and the event   *)
(* goroutine when the Kiro token changes.                                  *)

\* reloadClients: with exclusions changed for some credentials, they are
\* first forgotten; with a rescan, the accepted contents are read anew.
StartReload(a, rescan, force) ==
    /\ pc["reload"] = "idle" /\ reloads < MaxReloads /\ reloads + tokens < MaxRefreshes
    /\ Overlap \/ Calm
    /\ reloads' = reloads + 1
    /\ asked' = [affected |-> a, rescan |-> rescan, force |-> force]
    /\ Goto("reload", "forget")
    /\ UNCHANGED <<disk, events, debounced, changes, tokens, locked, file, seen, view, out, buffer, looping, halt, channel, applied, sent>>

Forget ==
    /\ pc["reload"] = "forget"
    /\ shadow' = [i \in Ids |-> IF i \in asked.affected THEN Absent ELSE shadow[i]]
    /\ Goto("reload", IF asked.rescan THEN "rescan" ELSE "snapshot")
    /\ UNCHANGED <<world, hashes, runtime, file, seen, view, asked, out, buffer, looping, halt, channel, applied, sent>>

Rescan ==
    /\ pc["reload"] = "rescan"
    /\ hashes' = [f \in Files |-> Credential(disk[f])]
    /\ Goto("reload", "snapshot")
    /\ UNCHANGED <<world, shadow, runtime, file, seen, view, asked, out, buffer, looping, halt, channel, applied, sent>>

\* refreshAuthState: the directory is read without a lock ...
Snapshot(p) ==
    /\ pc[p] = "snapshot"
    /\ view' = [view EXCEPT ![p] = [f \in Files |-> Credential(disk[f])]]
    /\ Goto(p, "refresh")
    /\ UNCHANGED <<world, locked, file, seen, asked, out, buffer, looping, halt, channel, applied, sent>>

\* ... and becomes the shadow under it; the token's refresh is forced.
RefreshAuthState(p) ==
    /\ pc[p] = "refresh"
    /\ PrepareAuthUpdates(p, view[p], p = "events" \/ asked.force)
    /\ view' = [view EXCEPT ![p] = NoFiles]
    /\ asked' = IF p = "reload" THEN NoReload ELSE asked
    /\ Goto(p, "dispatch")
    /\ UNCHANGED <<world, hashes, runtime, file, seen, buffer, looping, halt, channel, applied, sent>>

-----------------------------------------------------------------------------
(* A websocket channel: wsOnConnected, wsOnDisconnected and                *)
(* dispatchRuntimeAuthUpdate.  Channels get a random name: none is used    *)
(* twice.                                                                  *)

RuntimeUpdate(c, v, next) ==
    /\ runtime' = [runtime EXCEPT ![c] = v]
    /\ shadow' = [shadow EXCEPT ![c] = v]
    /\ out' = [out EXCEPT ![c] = {[id |-> c, auth |-> v]}]
    /\ Goto(c, next)
    /\ UNCHANGED <<world, hashes, file, seen, view, asked, buffer, looping, halt, channel, applied, sent>>

Connect(c) == /\ pc[c] = "new" /\ stopping = "no"
              /\ \E v \in Contents : (\A w \in Contents : v <= w) /\ RuntimeUpdate(c, v, "joining")

Disconnect(c) == pc[c] = "up" /\ stopping = "no" /\ RuntimeUpdate(c, Absent, "leaving")

-----------------------------------------------------------------------------
(* The buffer and the dispatch loop, under dispatchMu.                     *)

\* bug: a merged update is queued once more
Requeued(us) == SetToSeqs({u.id : u \in us})

\* The credentials of us that were not in the buffer, in some order: maps have none.
NewKeys(us) == SetToSeqs({u.id : u \in us} \ DOMAIN pendingUpdates)

\* The loop is signalled if there is anything to send.
Woken(us) == IF us # {} /\ loop = "asleep" THEN "woken" ELSE loop

\* The function old with the updates us in it.
With(old, us) == [i \in DOMAIN old \cup {u.id : u \in us} |->
                    IF \E u \in us : u.id = i THEN (CHOOSE u \in us : u.id = i).auth ELSE old[i]]

\* bug: what is in the buffer already stays
Earlier(old, us) == With(old, {u \in us : u.id \notin DOMAIN old})

\* What is in the buffer once us have been added to it.
Later(old, us) == With(old, us)

\* dispatchAuthUpdates: the later update of a credential replaces the earlier
\* one in its place.
Merge(us) ==
    /\ \E keys \in NewKeys(us) : pendingOrder' = pendingOrder \o keys
    /\ pendingUpdates' = Later(pendingUpdates, us)
    /\ loop' = Woken(us)
    /\ sent' = With(sent, us)

After(p) == Goto(p, CASE pc[p] = "joining" -> "up" [] pc[p] = "leaving" -> "gone" [] OTHER -> "idle")

DispatchAuthUpdates(p) ==
    /\ pc[p] \in {"dispatch", "joining", "leaving"}
    /\ queueSet \/ p \notin Channels
    /\ IF queueSet
       THEN Merge(out[p])
       ELSE UNCHANGED <<buffer, loop, sent>>
    /\ out' = [out EXCEPT ![p] = {}]
    /\ After(p)
    /\ UNCHANGED <<world, locked, file, seen, view, asked, batch, halt, channel, applied>>

\* emitAuthUpdate, once the watcher has no queue: to the channel if there is
\* room, else applied at once.
EmitDirectly(c) ==
    /\ pc[c] \in {"joining", "leaving"} /\ ~queueSet
    /\ \E u \in out[c] :
         IF Len(channel) < Capacity
         THEN channel' = Append(channel, u) /\ UNCHANGED applied
         ELSE applied' = [applied EXCEPT ![u.id] = u.auth] /\ UNCHANGED channel
    /\ out' = [out EXCEPT ![c] = {}]
    /\ sent' = With(sent, out[c])
    /\ After(c)
    /\ UNCHANGED <<world, locked, file, seen, view, asked, buffer, looping, halt>>

\* The updates in the buffer, in its order.
Pending == [n \in DOMAIN pendingOrder |->
              [id |-> pendingOrder[n], auth |-> pendingUpdates[pendingOrder[n]]]]

\* nextPendingBatch: sleep while there is nothing, leave if told to.
LookAgain ==
    /\ loop \in {"looking", "woken"} /\ UNCHANGED <<batch, buffer>>
    /\ \/ pendingOrder = << >> /\ ~cancelled /\ loop' = "asleep"
       \/ cancelled /\ (loop = "woken" \/ pendingOrder = << >>) /\ loop' = "ended"
    /\ UNCHANGED <<world, locked, producers, halt, channel, applied, sent>>

TakeBatch ==
    /\ loop \in {"looking", "woken"} /\ (loop = "woken" => ~cancelled)
    /\ pendingOrder # << >>
    /\ batch' = Pending
    /\ pendingUpdates' = << >> /\ pendingOrder' = << >>
    /\ loop' = "taken"
    /\ UNCHANGED <<world, locked, producers, halt, channel, applied, sent>>

\* dispatchLoop: without a queue the batch is given up.
CheckQueue ==
    /\ loop = "taken"
    /\ loop' = IF queueSet THEN "sending" ELSE IF cancelled THEN "ended" ELSE "looking"
    /\ batch' = IF queueSet THEN batch ELSE << >>
    /\ UNCHANGED <<world, locked, producers, buffer, halt, channel, applied, sent>>

SendNext ==
    /\ loop = "sending" /\ Len(channel) < Capacity
    /\ channel' = Append(channel, Head(batch))
    /\ batch' = Tail(batch)
    /\ loop' = IF Len(batch) = 1 THEN "looking" ELSE "sending"
    /\ UNCHANGED <<world, locked, producers, buffer, halt, applied, sent>>

SendCancelled ==
    /\ loop = "sending" /\ cancelled
    /\ loop' = "ended" /\ batch' = << >>
    /\ UNCHANGED <<world, locked, producers, buffer, halt, channel, applied, sent>>

\* consumeAuthUpdates, handleAuthUpdate.
ConsumeAuthUpdate ==
    /\ consuming /\ channel # << >>
    /\ applied' = [applied EXCEPT ![Head(channel).id] = Head(channel).auth]
    /\ channel' = Tail(channel)
    /\ UNCHANGED <<world, locked, producers, buffer, looping, halt, sent>>

-----------------------------------------------------------------------------
(* Stop: cancel the loop, empty the buffer and wake the loop, withdraw the *)
(* queue; the service then stops the consumer.                             *)

\* bug: the loop is not woken
NoBroadcast == loop

Broadcast == IF loop = "asleep" THEN "woken" ELSE loop

StopDispatch ==
    \/ /\ stopping = "no" /\ MayStop
       /\ cancelled' = TRUE /\ stopping' = "clear"
       /\ UNCHANGED <<queueSet, consuming, buffer, loop>>
    \/ /\ stopping = "clear"
       /\ pendingUpdates' = << >> /\ pendingOrder' = << >>
       /\ loop' = Broadcast
       /\ stopping' = "unset"
       /\ UNCHANGED <<cancelled, queueSet, consuming>>
    \/ /\ stopping = "unset"
       /\ queueSet' = FALSE /\ stopping' = "consumer"
       /\ UNCHANGED <<cancelled, consuming, buffer, loop>>
    \/ /\ stopping = "consumer"
       /\ consuming' = FALSE /\ stopping' = "done"
       /\ UNCHANGED <<cancelled, queueSet, buffer, loop>>

Stop == StopDispatch /\ UNCHANGED <<world, locked, producers, batch, channel, applied, sent>>

Environment == \/ \E f \in Files : \/ \E d \in Contents : Write(f, d)
                                   \/ Truncate(f) \/ Delete(f) \/ WindowEnds(f)
               \/ KiroChange
               \/ \E a \in Affected, rescan, force \in BOOLEAN : StartReload(a, rescan, force)
               \/ \E c \in Channels : Connect(c) \/ Disconnect(c)

EventStep == HandleEvent \/ Settle \/ Read \/ AddOrUpdateClient \/ RemoveClient
             \/ Snapshot("events") \/ RefreshAuthState("events")
ReloadStep == Forget \/ Rescan \/ Snapshot("reload") \/ RefreshAuthState("reload")
LoopStep == LookAgain \/ TakeBatch \/ CheckQueue \/ SendNext \/ SendCancelled

Next == \/ Environment \/ EventStep \/ ReloadStep \/ LoopStep \/ ConsumeAuthUpdate \/ Stop
        \/ \E p \in Producers : DispatchAuthUpdates(p)
        \/ \E c \in Channels : EmitDirectly(c)

\* Goroutines that can run do; a stop that has begun is carried out.
Fairness == /\ WF_vars(EventStep) /\ WF_vars(ReloadStep) /\ WF_vars(LoopStep)
            /\ WF_vars(ConsumeAuthUpdate)
            /\ WF_vars(stopping # "no" /\ Stop)
            /\ \A p \in Producers : WF_vars(DispatchAuthUpdates(p))

Spec == Init /\ [][Next]_vars /\ Fairness

-----------------------------------------------------------------------------
TypeOK ==
    /\ disk \in [Files -> Payloads \cup {Empty}]
    /\ hashes \in [Files -> Payloads] /\ shadow \in [Ids -> Payloads]
    /\ runtime \in [Channels -> Payloads] /\ applied \in [Ids -> Payloads]
    /\ \A p \in Producers : out[p] \subseteq Update
    /\ ToSet(pendingOrder) = DOMAIN pendingUpdates /\ IsInjective(pendingOrder)
    /\ loop \in {"looking", "asleep", "woken", "taken", "sending", "ended"}
    /\ Len(channel) <= Capacity /\ ToSet(channel) \cup ToSet(batch) \subseteq Update

\* The promise: the channel, the batch and the buffer are one coalescing queue.
Waiting == channel \o batch \o Pending

Queue == INSTANCE CoalescingQueue WITH waiting <- Waiting, open <- ~cancelled

\* Whatever the interleaving of producers, loop and consumer, and whenever the
\* watcher is stopped, updates are applied in the order they were merged, and
\* until the stop none but a merged one is lost (dispatchAuthUpdates,
\* dispatchLoop, consumeAuthUpdates).  A channel that comes or goes after the
\* stop bypasses the queue (emitAuthUpdate).
KeepsThePromise == Queue!Promise

Quiet == /\ events = << >> /\ stopping = "no"
         /\ \A p \in Producers : pc[p] \in {"idle", "new", "up", "gone"}
         /\ channel = << >> /\ batch = << >> /\ pendingOrder = << >>

\* A channel that is connected is served once everything has been handled,
\* whatever reloads and refreshes ran meanwhile: a refresh puts the channels'
\* credentials back under the lock it compares under (refreshAuthState).
ConnectedServed == Quiet => \A c \in Channels : pc[c] = "up" => applied[c] # Absent

\* Once everything has been handled, the credentials served are those the
\* files hold: the adds, edits and removals are all mirrored.
MirrorsDisk == Quiet => \A f \in Files : disk[f] # Empty => applied[f] = disk[f]

\* The latest state the watcher knows is the one applied.
LatestApplied == Quiet => applied = shadow

\* The loop gets on: until the stop every update that waits is applied in the
\* end, and a stopped watcher leaves no dispatch loop behind, even one blocked
\* on a full channel.
LoopGetsOn == Queue!AppliedInTheEnd /\ (cancelled ~> loop = "ended")

=============================================================================
