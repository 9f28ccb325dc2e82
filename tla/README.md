# A TLA+ model of CLIProxyAPIPlus's credential core

CLIProxyAPIPlus is a proxy that speaks the OpenAI, Claude and Gemini protocols to
its clients and spreads their requests over a pool of upstream credentials: OAuth
accounts, API keys and providers connected over a websocket. Most of its 186 000
lines translate payloads between protocols or talk to one provider's login page.
What is hard in it, and what this directory models, is the part that owns the
credentials: it refreshes them in the background, picks one for each request,
puts the ones that fail on cooldown, learns of new ones from files and sockets,
tells the clients which models can be had, and hands their streams on - from dozens
of goroutines at once.

Run a check with `tlc -config X.cfg M.tla`, a proof with `tlapm M.tla`.

## 1. Inventory

Credential core (`sdk/cliproxy`, `internal/watcher`, `internal/wsrelay`,
`internal/registry`):

| part | state it keeps | operations | hard because |
|---|---|---|---|
| auto-refresh loop, `auth/auto_refresh_loop.go`, `conductor.go` 2903-3246 | heap of wake-ups, dirty set, wake channel (1 slot), jobs channel, timer; per credential `NextRefreshAfter` | `queueReschedule`, `applyDirty`, `handleDue`, `worker`, `refreshAuth`, `StopAutoRefresh` | no periodic scan: a lost wake-up loses the token; two locks, three kinds of goroutine, one stale `now` per pass |
| results and cooldowns, `conductor.go` 1800-2505 | per credential and per model: status, `Unavailable`, `NextRetryAfter`, quota with back-off level; aggregated over models | `MarkResult`, `Update`, `Register`, `retryAllowed`, `closestCooldownWait` | the scheduler and the registry are told after the manager's lock is released |
| model registry, `internal/registry/model_registry.go` | per model: count, count per provider, quota and suspension per client; per client: its models and provider; cache of listings | `RegisterClient`, `UnregisterClient`, `SetModelQuotaExceeded`, `SuspendClientModel`, `ResumeClientModel`, `GetAvailableModels` | counters kept by increments under re-registration with another provider; listings cached until an instant |
| scheduler, `auth/scheduler.go` | a snapshot per provider and model: ready, cooling, blocked entries, priority buckets, round-robin cursors | `upsertAuth`, `removeAuth`, `rebuild`, `pickSingle`, `pickMixed` | an index of an index, promoted lazily by time, fed by snapshots in any order |
| selectors, `auth/selector.go`, `session_cache.go` | cursors per provider and model; session to credential bindings with TTL | `Pick`, `GetAndRefresh`, `Get`, `Set`, `cleanup` | bindings against cooldowns, expiry, overlapping requests and a first turn's inheritance |
| request execution, `conductor.go` 1176-1483, 740-912 | tried and attempted sets, retry round | `Execute`, `ExecuteStream`, `executeMixedOnce`, stream bootstrap | fail-over across credentials while others put them on cooldown |
| watcher, `internal/watcher` | `currentAuths`, content hashes, pending updates and their order | `dispatchRuntimeAuthUpdate`, `refreshAuthState`, `addOrUpdateClient`, `removeClient`, `dispatchLoop`, debounce | diffs are computed under one lock and dispatched under another |
| service, `sdk/cliproxy/service.go` | update queue, core manager, executors | `consumeAuthUpdates`, `handleAuthUpdate`, `wsOnConnected`, `wsOnDisconnected`, `Run`, `Shutdown` | read-modify-write of credentials, updates from several sources |
| websocket relay, `internal/wsrelay` | sessions per provider, pending requests per session | `handleWebsocket`, `Send`, `dispatch`, `cleanup`, heartbeats | reader, heartbeat, clean-up, caller and waiter share a request's channel |
| API handlers, `sdk/api/handlers` | per stream: channels, bytes sent, retries left, keep-alives | stream forwarding, bootstrap retry, responses websocket | five goroutines over channels without slots, started over only before the first byte |
| translators to Anthropic events, `internal/translator/*/claude`, `kiro_executor.go` 2464-3569 | per stream: open blocks, indices, what was held back | `ConvertOpenAIResponseToClaude` and its like, once per upstream line | a state machine fed by upstreams that differ in when they say what |
| Kiro helpers, `internal/auth/kiro` | limiter state, cooldowns, background refresher | `WaitForToken`, `MarkTokenFailed`, `refreshBatch` | sleep with the lock released |
| OAuth sessions, `internal/api/handlers/management/oauth_sessions.go` | state to session with TTL | `Register`, `SetError`, `Complete`, `IsPending` | callbacks against expiry |
| usage, `sdk/cliproxy/usage`, `internal/usage` | queue of records, statistics | `Publish`, `Stop`, `MergeSnapshot` | records queued, handled and imported while a stop or a restart comes |
| token stores, `internal/store`, `sdk/auth/filestore.go` | files, a git tree, a Postgres table, an object bucket, with a local mirror | `Save`, `List`, `Delete`, `PersistAuthFiles` | partial failure between mirror and remote |

Not modelled at all, because no state outlives a call or nothing but I/O happens:
the translators of requests and whole replies, thinking budgets (`internal/thinking`), provider executors
(`internal/runtime/executor`, except their part in a refresh and in a stream), login flows
(`internal/auth`, `internal/cmd`), the terminal UI, logging, configuration
parsing, access checks, the Amp module, static model definitions.

## 2. Modules

| module | models | composed with |
|---|---|---|
| `RefreshTiming` | `nextRefreshCheckAt` and `shouldRefresh` in full, one credential under the loop | |
| `AutoRefresh` | the refresh loop, its workers, the service that writes credentials, the clock | takes the due instant as data where `RefreshTiming` computes it |
| `ModelRegistry` | registrations, counters, marks and the cached listing; requests that report | the two registry calls of a result, which `Execution` sees as one set of suspensions |
| `Scheduler` | `authScheduler` for one model: shards, ready index, cursors, promotion, picks | its snapshots are what `Execution` posts |
| `Execution` | `Execute`'s rounds and `MarkResult` against the service registering a credential again | holds the manager's state, the scheduler's view of it and the registry's suspensions side by side |
| `CoalescingQueue` | the abstract promise about credential updates | implemented by `WatcherDispatch` |
| `WatcherDispatch` | file events, reloads, websocket channels, the buffer, the dispatch loop, the channel, the consumer | `Queue == INSTANCE CoalescingQueue WITH ...` |
| `SessionAffinity` | `SessionAffinitySelector.Pick` and its cache, for one conversation | picks from what `Scheduler`'s reference finds available |
| `TokenStore` | one credential between memory, file and remote, for the three stores with a remote | takes over where `WatcherDispatch` has nothing to do (`MCWatcherStore`) |
| `RelayStream` | the abstract promise about a request sent over a websocket | implemented by `WsRelay` |
| `WsRelay` | sessions, readers, heartbeats, clean-up, callers and waiters of the websocket relay | `Promise == INSTANCE RelayStream WITH ...` |
| `StreamForwarding` | one streamed request: `ExecuteStream`, the wrapper of each call, the pump, the handler | its rounds are `Execution`'s, its picks `Scheduler`'s |
| `ClaudeStream` | what a client makes of the events of an Anthropic stream | extended by the five converters |
| `OpenAIToClaude`, `GeminiToClaude`, `AntigravityToClaude`, `CodexToClaude`, `KiroToClaude` | a converter each, with the upstream and the executor that feed it | |
| `UsageManager` | reporters, queue, dispatcher, statistics, export and import, stop, restart | counts the calls `StreamForwarding` makes |
| `MCModelRegistry`, `MCExecution`, `MCAutoRefresh`, `MCWatcherDispatch` | sets of contents and answers for the `.cfg` files | |
| `MCRefresh`, `MCScheduler`, `MCWatcherStore`, `MCStreams` | the same, and several settings that one run explores side by side | a variable `setting` or `route`, chosen at the beginning, says which part moves |
| `AutoRefresh_proofs`, `ModelRegistry_proofs`, `Scheduler_proofs`, `Execution_proofs`, `WsRelay_proofs`, `StreamForwarding_proofs` | theorems about the module each is named after | `AutoRefresh_proofs` is about `RefreshTiming` as well, `Scheduler_proofs` about `SessionAffinity`, through the instances of `MCRefresh` and `MCScheduler` |
| `Streams_proofs` | theorems about the routes of `MCStreams`: `UsageManager` and the five converters | cites `StreamForwarding_proofs` through the instance |
| `WatcherStore_proofs` | theorems about `WatcherDispatch`, `TokenStore` and the settings that combine them | |

A definition has the name of the function it translates, or of the idea it
abstracts; `PROJECT.json`, "map", gives the lines of each. A definition whose
comment says `bug:` is used nowhere: it is a plausible mistake in the definition
after it, kept to show that the property which guards against it can fail
(`PROJECT.json`, "mutants": put the body of `as` in place of that of `of`).

Conventions. A method that runs under one mutex is one action; a goroutine that
releases a lock, blocks on a channel or awaits a call has a program counter and an
action per stretch between two such points. Instants are ticks counted from now,
and a tick lowers all of them, so clocks need no bound. Locks taken and released
within one action are not modelled. Channels are sequences with a capacity;
closing, contexts and `select` are guards.

### RefreshTiming
`auth` is one credential, `now` the clock, `next` the loop's wake-up for it.
`NextRefreshCheckAt` and `ShouldRefresh` follow the two functions branch by branch
(preferred interval against expiry, provider lead, API keys, gates); `Sleep`,
`Recheck` and `Refresh` are the loop seen from one credential. No
runtime of the repository implements `RefreshEvaluator`, so the runs and the
theorems are about credentials without one.

### AutoRefresh
`known, disabled, gate, due, execs` are `Manager.auths` and `.executors`; `index`
is heap and index of the loop (a map from credential to instant: the heap's shape
is not observable); `dirty`, `wake`, `jobs` are `dirtySet`, `wakeCh`, `jobs`. `pc`
walks the loop goroutine through `rebuild`, the `select`, `handleDue` (`FindDue`,
`MarkRefreshPending`, `Reread`, `LoopPosts`, `SendJob`), `applyDirty` and
`resetTimer`. `hand` is what a pass popped and `lag` the age of its `time.Now()`.
Workers take a job, clone, refresh and write back (`Post` is the manager's write,
`Ring` the non-blocking send). The writer is the service: `Register`, and
`GetByID` ... `AddOrUpdate` with its stale copy.

### ModelRegistry
One action per method. `held[c][m]` counts how often a client lists a model, since
lists may repeat one; `Reconciliation` is the branch of `RegisterClient` for a
client that was there. `request` walks a goroutine through the registry calls of
one `MarkResult`, during which its client may leave or change.

### Scheduler
`shard[p]` is a `providerScheduler` and its `modelScheduler` for the model:
`metas`, `entry`, `ready` (the buckets, as the facts a rebuild copied into them),
`blocked`, cursors per priority. `Upsert`, `Remove`, `Rebuild`, `SetSelector`,
`PickSingle`, `PickMixed` are the methods; `Indexed` is `rebuildIndexesLocked`
with the cursors it keeps. `SingleAnswer` and `MixedAnswer` are what a pick asked
now would be answered; `rotation` is history for the properties.

### Execution
`state[a]` is the manager's `ModelState`, `view[a]` how long the scheduler will
refuse the credential and whether it holds the manager's own object, `suspended`
the registry's marks. A request picks, is refused, snapshots, rebuilds, picks again
(`pickNextMixed`), is answered (`After` is `MarkResult` under the lock), posts to
the scheduler, reports to the registry, waits for a cooldown and starts a round.
`ServiceNext` is `applyCoreAuthAddOrUpdate`, one action per lock it takes.

### WatcherDispatch
Producers (`events`, `reload`, one per channel) read the disk, compare under
`clientsMutex` (`RefreshAuthState`, `AddOrUpdateClient`, `RemoveClient`,
`RuntimeUpdate`), leave the result in `out`, and merge it under `dispatchMu`
(`Merge`). `LookAgain`, `TakeBatch`, `CheckQueue`, `SendNext`, `SendCancelled` are
`dispatchLoop`; `StopDispatch` is the steps of `stopDispatch` and the service's
stop. `KiroChange` is the refresh of everything that a new Kiro token causes,
`Truncate` the first half of a write that `handleEvent` waits out. What is in the
channel, in the loop's batch and in the buffer is one sequence (`Waiting`), and that
sequence is the queue of `CoalescingQueue`.

### SessionAffinity
`entries` is the `SessionCache` for the two keys of one conversation: the hash of its
first turn and, from the second turn on, the full hash, which inherits what the first
was bound to. `pick[r]` walks a request through `Pick`: `GetAndRefresh`, `Get` with
its `Delete` under a lock of its own, the fallback selector (`Select`, any candidate),
`Set`; a request whose call fails picks again without that credential. `anchor` and
`owed` are history: the credential a key is to be given, and the one a request was
owed when it began.

### TokenStore
`mem`, `file`, `remote`, and for git `head` and `index`. A task (`update`, `result`,
`removal`, `watcher`) walks through one call of `Save`, `Delete` or
`PersistAuthFiles` under the store's mutex: the file is written, then the remote is
called and answers, fails, or the program crashes and begins again from the remote
(`Bootstrap`). `rightful` is history: the content last reported to be kept (which reports
count, `Early` says) and what was written since, `after` what was written since the mutex was taken.

### WsRelay and RelayStream
A session has a reader (`run`, `dispatch`), a heartbeat that may find it broken and a
clean-up run once; a request has its caller (`NonStream` or `Stream`) and a waiter for
its context. `pending` is the `sync.Map`, `queue` the channel of a request with its
`Slots`. `crashed` is a send on a closed channel. `RelayStream` is the promise: replies
in order, each at most once, one end.

### StreamForwarding
`manager` is where `ExecuteStream` is (`Pick`, `Check`, the call, `Bootstrap`), `calls`
the executors' goroutines, `wraps` the goroutines of `wrapStreamResult`, `pump` the one
of `ExecuteStreamWithAuthManager`, `handler` the HTTP handler. Channels have no slots:
a hand-over is one action of both sides. `Leave` is the client going away at any time.

### The converters
`up` is what the upstream has said and what it may still say, `conv` the parameters the
converter keeps and, in `conv.client`, the client (`ClaudeStream`): one action per kind of
chunk, which makes all the events the code makes of it. The client checks that events
fit (`Grammatical`) and which fragments it has heard (`ToldAll`). `Quirks` are habits of
upstreams under which the converters are known to fail (section 7). Kiro's converter is
a part of its executor (`streamToChannel`): a text is a sequence of pieces that are words,
tags or halves of tags, since what matters is where a tag is cut and what is held back.

### UsageManager
`body[r]` is the goroutine that reads the answer to a request and reports it
(`UsageReporter`), `queue`, `stop`, `dispatcher` the manager, `stats` the statistics;
`exported` a file of the management API's, imported into the same or the next life of
the program.

## 3. Runs

| run | question | instance |
|---|---|---|
| `refresh_timing` | do the two timing functions agree: no oversleeping, no spinning; is a wake-up ever lost or late | every credential whose instants lie on a 6-tick clock with leads up to 3; beside it one credential in the loop whose executor may come late, passes up to 1 tick, refreshes up to 2, one outside update, stop |
| `refresh_pool` | is each credential refreshed again and again, one refresh at a time; does the timer cover the heap; does a stop end everything | two credentials, one worker, a one-slot queue, stop; liveness |
| `registry_counts` | are counters, definitions and the cached listing right | 2 clients, 2 models, 2 providers or none, lists up to two entries long (a model twice, too), one reporting request, a one-tick quota window |
| `registry_lists` | *violation*: is every servable model listed | 2 clients, 1 model |
| `scheduler` | is the incremental index exact; do picks equal the selectors'; is round-robin fair whatever the cursors went through; does a conversation stay with its credential | index: 2 credentials, 2 providers, 2 priorities, 7 snapshots, both strategies, websockets, tried sets; rotation: 3 credentials, 2 providers, 2 virtual parents, runs of 3 like picks; session: 2 credentials, 2 requests, 2 keys, a lifetime of 1 tick |
| `execution_rounds` | do limits hold and do requests end | 2 requests, a cooled and an uncooled credential, 1 call a round, 1 retry, waits up to 2, retry hints; liveness |
| `execution_races` | does a stale scheduler view ever turn away a request that could be served | 2 requests with all seven answers, 1 credential, the service registering it again and again |
| `watcher_mirror` | do the served credentials end up as the files' and the channels' | 1 file with 2 contents, written in one go or in two, 1 channel, 2 changes, a reload or a Kiro token, stop |
| `watcher_store` | do buffer, loop, channel and consumer implement the coalescing queue, is what was sent applied in the end, and does the loop end; is what was carried to the remote and reported durable, and do memory, file and remote come to agree | watcher: 1 file changing at any point of a reload and of a token refresh, a one-slot channel, stop; store: the three kinds, 2 updates, 1 result, 1 removal, 1 failing call, 1 crash; liveness of both |
| `watcher_race` | *violation*: is the latest state the one applied | 1 file, 1 change, 1 reload |
| `streams` | does a stream reach its client whole, in order, once, told its end; is it reported and counted once; does every goroutine end | eight routes: the relay (1 session, 1 request of 3 replies over 2 slots), forwarding (2 models, 1 retry, 2 calls of 2 chunks), five converters, usage (2 requests, 1 import, 1 restart) |
| `stream_peek` | *violation*: is a failure before the first byte told | the forwarding route, where the peek may look at the end first |

What the properties mean is said where they are defined. Why these sizes:

- *Refresh.* Credentials meet only in the queue and in the heap's order; two, one
  worker and one slot make the loop block with an identifier in hand and another
  behind it. Instants saturate at `-LagMax`, below which no pass can tell them
  apart. The loop beside the timing functions gives one credential the rich timing (a refresh that
  outlives its gate, a pass that ages) that would be too large with two.
- *Registry.* Models do not interact except in one client's list, clients only in
  a model's counters; two of each and two entries give every branch of
  `Reconciliation`, provider changes of one of two holders included.
- *Scheduler.* One model, for shards of models share nothing but the metas. The
  snapshots are those the index or the pick treats differently. `RotationFair`
  needs three credentials, for with two any two picks in turn are fair. It is about
  like picks one after another, and where credentials are grouped by virtual parent
  about the parents, for which member of a parent is picked the code promises nothing of.
- *Execution.* Races are pairwise: a post against a snapshot, a result against a
  registration. One credential makes any wrong refusal visible, for no other one
  hides it.
- *Watcher.* Updates of different identifiers share only the queue's order, and
  none is promised between identifiers. `watcher_mirror` leaves out the two
  environments in which the mirror is known to fail (section 7): changes while
  everything is refreshed, by a reload or by Kiro's token (`Overlap`), and a second
  removal within the debounce window (`Quick`); `watcher_store` has both.
- *Session.* Sessions share no key, so one conversation is enough; two requests give
  every overlap, two credentials a wrong one. Requests of a first and of a later turn
  do not overlap (`Racy`; section 7 has the instance in which they do). Candidates
  change only while nobody picks, for a pick holds the manager's lock.
- *Stores.* One credential, for the stores keep one file each; the mutex they share is
  modelled. Two contents besides "none" tell the last from an older one. The file is
  removed while no save is under way (`Inflight`), the git remote always answers
  (`Reliable`), and two successes that are reported without a call of the remote are not
  counted as reports (`Early`): a save's that finds its content in the file, and that of
  git's `Delete` when the file is gone, which is every removal through the management API
  in the run. A removal there counts when the watcher's hand-over has committed it.
  Section 7 has the four instances without. The store's setting
  begins where the watcher's has nothing to do, so that neither multiplies the other.
  `MaxContents` 3 alone (729 000 states) passes too, and so does `Durable` with
  `Inflight` (1.6 million).
- *Streams.* Routes share nothing but the property names. Requests of the relay meet
  only in the session's clean-up; the eight slots of a request are two, for a reply is
  dropped when all are taken, however many that are. Forwarding needs a second model
  and a retry to start over at each of the three places; three calls alone (640 000
  states) pass too. The converters' streams are long enough for every kind of part after
  every other, with two calls at once for chat completions; four chunks alone (1.3
  million states) pass too, and so do four events of Kiro's alone (326 000 states).

Deadlock is checked wherever the system never stops. It is not checked where a stop
ends every goroutine (`refresh_pool`, the watcher's runs), a stream ends (`streams`)
or the clock runs out (`refresh_timing`).

The type invariants of `Scheduler`, `ModelRegistry` and `WatcherDispatch` are not
among the runs' properties: the properties that are say more of the same variables.
They hold too, and can be added to the `.cfg`.

### Bounds
`LagMax`, `FlightMax` (ticks a pass and a refresh may take), `MaxUpdates`,
`Retries`, `MaxBackoff`, `Capacity`, `JobCap`, `MaxChanges`, `MaxReloads`, `MaxKiro`,
`MaxRefreshes` (reloads and Kiro tokens together), `History` (like picks remembered),
`TTL`, `Slots`, `MaxReplies`, `Models`, `MaxCalls`, `MaxChunks`, `MaxParts`,
`MaxEvents`, `MaxImports`, `MaxRestarts`, `MaxContents`, `MaxResults`, `MaxRemovals`,
`MaxFailures`, `MaxCrashes`. Of these `JobCap`, `Capacity`, `Retries`, `MaxBackoff`,
`TTL`, `Slots` and `Models` are parameters of the program and smaller than its own; the
others bound the environment or the history.

`OneRefreshAtATime` is stated for refreshes that end, their wait in the queue
included, before the one-minute pending gate (`FlightMax < PendingBackoff`; where
passes age, `LagMax + FlightMax < PendingBackoff`, which is what the theorem assumes)
and without outside updates: the code has no other guard, and section 6 lists what
happens without.

## 4. Fairness

- Goroutines that can run do: weak fairness of each goroutine's steps
  (`LoopStep`, `WorkerStep`, `RequestNext`, `EventStep`, `ReloadStep`, the watcher's
  `LoopStep`, `ConsumeAuthUpdate`, on which `LoopGetsOn` rests). The Go scheduler is preemptive, and mutexes go
  to waiters in turn after a millisecond (starvation mode).
- Strong fairness of `LoopExits` and `WorkerExits` in `AutoRefresh`: once the
  context is done its case is ready whenever the `select` is entered, and Go picks
  among ready cases at random, so it is chosen in the end.
- The relay's goroutines: weak fairness of each one's steps, until the program crashes
  (`Runs`). The streams' (`StreamForwarding`), the stores' (`TokenStore`) and the usage
  manager's (`UsageManager`) take finitely many steps between two of the environment's,
  so weak fairness of their steps together is fairness of each.
- Upstream calls return (`RefreshSucceeds` ... `RefreshCancelled`, `Answer`, the executors of streams, the stores' remotes): the
  executors carry timeouts or the client goes away.
- Time passes (`Tick`). Files, channels, reloads, new requests, registrations and
  stops are the environment's and under no fairness; a stop that has begun is
  carried out.
- The late executor of `LateAuths` is registered eventually
  (`WF_vars(RegisterExecutor(a))`): the service registers it in the same call.

## 5. Proofs

`tlapm M_proofs.tla` checks each from nothing.

**AutoRefresh_proofs**: `TypeCorrect`, `Remembers` (`NoneForgotten`), `Punctual`
(`WakesInTime`), `WakesForDirt` (`DirtyIsRung`), `TimerIsArmed` (`TimerCoversHeap`), for
any credentials, workers, back-offs and capacity. `NoneForgotten` and `WakesInTime` are
not inductive one by one, for when a pass drops the announcement of a credential it is
the other that must hold of what remains: `Covered` says both at once. It needs
`HandsFree` (where identifiers may be during a pass, and that the one being sent is dirty
again) and `ExecutorsBound`. Each goroutine has lemmas of its own, `CoveredTick` is the
clock. The timer covers the heap because nobody else writes either while the loop sleeps.
`OneAtATime` (`OneRefreshAtATime`) has two hypotheses, which section 3 explains:
`GateOutlives`, the pending gate is longer than a pass and a refresh may take together,
and `KeepsOff`, the service writes no credential whose refresh is under way. A
refresh is in the pass's hand, in the queue or with a worker, in one of them and
once; the gate set for it has come no nearer than the refresh has aged (`Flights`), so
the loop does not find the credential due again before it is over.
`LoopKeepsItsWakeUps` (`LoopKeepsUp`) says the first five of the run's setting with one
credential, and holds whatever its parameters.

**AutoRefresh_proofs**, the timing: `TimingTypeCorrect` (`TimingOK`), `TimingPunctual`
(`NeverOversleeps`), `TimingNeverSpins` (`NeverSpins`), for every interval, lead, clock and
credential. `NeverOversleeps` speaks of now; the invariant has to speak of the whole sleep:
at every instant from now to the wake-up `shouldRefresh` is false, and forever when there is
none (`SleepIsSafe`). `CheckCoversSleep` shows that one call of `nextRefreshCheckAt`
establishes that, whenever it is made; the clock only shortens the sleep.

**ModelRegistry_proofs**: `TypeCorrect`, `Recounted` (`CountsExact`), `Definitions`
(`InfosFollowProviders`), `FreshListing` (`CacheFresh`), for any models, providers, lists
and any finite set of clients. `CountsExact` is about the cardinality of a set of
bindings, some of which a registration removes and adds one model at a time. The
proof splits each recount into the bindings of the client that registers and those of
the others (`Share`), which it leaves alone; `Countable` keeps the sets finite. Definitions follow
the counters, hence come second. The listing's invariant is `Lapses`: one that may still
be answered was made without quota marks, or lapses with the first of them.

**Scheduler_proofs**: `HasOneHome` (`OneHome`) and `IndexIsExact` (`IndexExact`), for
any number of credentials, providers, parents, priorities and snapshots. The
invariant adds that a shard not built yet is empty and that entries and metas are
well formed (`Sound`); one lemma per helper shows that it leaves a sound shard sound
(`IndexedFits`, `WithEntrySound`, `WithoutEntryFits`, `GivenSound`, `TakenSound`,
`PromotedSound`, `EnsuredSound`, `AgedSound`), one per method lifts it to the whole.
The heart is `WithEntrySound`: skipping the rebuild is right because `Placement`
compares all that the index copies. `PicksAsSelectors` (`SelectorAgrees`) says that a
pick over that index is one the selectors could have made from the snapshots, the reason
and the delay of a refusal included, for every set of credentials tried before. It needs
of an entry that it says what its snapshot gives or that its time is up (`Steady`), and
that a finite set of waits has a least. Its hypothesis is that every snapshot
`Recovers`: a quota is not recovered after the retry time. Snapshots which do not are the
disagreement of `SchedulerLate.cfg` (section 7); the run's do.

`PicksTakeTurns` (`RotationFair`) is about what the cursors leave behind. The candidates of
a run of like picks have places, their ranks, and pick after pick the place goes up by one
modulo their number, the cursor standing just behind the last (`InTurn`): of any n picks in a
row no two are then the same. Where the places come from differs: the ranks in a bucket or
among the virtual parents of one provider for `pickSingle` (`ViewTurns`), and for `pickMixed`
those of weighted slots, providers one after the other and within each its candidates counted
from where its own cursor stood when the run began (`SlotTurns`, `Places`, `Stands`), or the
providers' parents (`MixedTurnsAt`). Anything between two like picks, a refusal, another question, a change,
a promotion, a tick, ends the run, so a run begins with cursors that may stand anywhere; its
first pick puts them behind itself. The hypotheses are `Recovers` as before, for the
candidates are the selectors', and `Ungrouped`: no credential with a virtual parent wants
websockets. The synthesizer of virtual credentials gives them no such attribute
(`synthesizer/file.go:218`).

**Scheduler_proofs**, session affinity: `ConversationsStay` (`Sticky`), for any credentials,
requests and lifetime. The credential that a key is to be given is the one it is bound to,
for at least what is left of the lifetime (`Anchored`); a request that picks is owed that one
(`Remembered`), and finds it where it is going to look next, or holds it (`InReach`): under
the full key, under the short one while the full one has no binding, or in its hands. `Get`
deletes late; that what it deletes is expired still (`Lapsed`) is where requests of two turns
must not overlap (`OneTurn`), and `SessionRace.cfg` is the case in which they do.

**Execution_proofs**: `TypeCorrect`, `WithinLimits` (`CallsBounded`), `ServedWhenAlone`
(`LoneRequestServed`), for any finite set of credentials, any requests, limits, answers
and delays. The bound on calls must be known where it is tested, four steps before the
call (`Rounds`). For a refusal, what a request copied from the manager's states, and then
gave to the scheduler, must be no later than they are, though time passes in between;
that is so while it is alone (`Alone`, `Seen`).

**WatcherStore_proofs**, the watcher: `WatcherTypeCorrect`, `UpdatesKeepTheirOrder`
(`KeepsThePromise`: `WatcherDispatch` implements `CoalescingQueue`), `NoUpdateIsLost` (an
invariant of `CoalescingQueue`, carried over), `ConnectedAreServed` (`ConnectedServed`)
and `FilesAreMirrored` (`MirrorsDisk`), for any files, channels, contents and bounds.
The refinement has a lemma for each kind of step: a merge is a `Send` whatever is
in the buffer (`MergeSends`), the loop moves updates within `Waiting`, which is a
stutter, a consumed one is an `Apply`, a stop is a `Close`, and then updates may be given
up or pass by (`GivenUp`, `EmitBypasses`). They rest on `Sound`: the buffer has one update
of a credential and its order names those and no others, and a loop that has taken a
batch has something in it. Given the queue, what is applied when all is quiet is what was
sent last; `Mirror` says that this is what the files hold (`Known`: accepted means in the
shadow and sent; `Seen`: what is not accepted yet is in an event or being looked at).
`FilesAreMirrored` assumes `~Overlap` and `~Quick`, without which section 7 shows
`MirrorsDisk` to fail: `Still` and `Debounced` are where the proof uses them.

**WatcherStore_proofs**, the stores: `KeptIsDurable`, `Honest => (Spec => []Durable)`, for
any numbers of contents, results, removals, failing calls and crashes, for the bucket and
the database, and for git with a remote that answers; `KeptBesideTheWatcher` says it of the
run's specification. `Durable` alone says nothing of the calls under way: `Guarded` adds
that whoever sends holds the mutex and sends what was written since it was taken, `Pushed`
that git's remote is at its head unless someone is about to push. `Honest` is the
hypothesis of both: git's remote answers, and `Early` is empty. So they are about saves,
hand-overs and removals that were carried to the remote before they were reported. They
say nothing of a save that found its content in the file, nor of a removal git reported
with the file already gone: for these `Durable` is false (section 7), and only `Settles`
promises that the remote follows once changes stop.

**WsRelay_proofs**: `TypeCorrect`, `NobodyStranded` (`NoneStranded`),
`RelayKeepsThePromise` (`KeepsThePromise`: `WsRelay` implements `RelayStream`) and
`ServedAreReached` (`ServedAreConnected`), for any sessions, requests, slots and replies.
The invariant follows a reply from the reader's hands to the channel to the caller:
whose it is (`HomesOK`), its number (`ReadersOK`, `ChannelsOK`), what a caller still waits
for (`CallsOK`), that a closed channel ends with an end, an error or an excuse
(`EndsOK`, `ShutOK`), and who was pending when the clean-up began (`PassedOK`). Every action
is then a step of `RelayStream` or a stutter. `ServedAreReached` has an invariant of its
own, how far a session's handler and clean-up are (`ServedOK`), and the hypothesis
`~RashStop`, no stop while a session is set up: `RelayStop.cfg` is the case without it.

**StreamForwarding_proofs**: `ResultsReportedOnce` (`OneResult`), `ClientGetsOneCall`
(`OneCall`) and `ClientIsToldAll` (`ToldAll`), for any number of calls, models, retries and
chunks. The first needs to know whose turn it is: while the manager bootstraps a call
nobody else reads it (`TurnsOK`), and a call belongs to the bootstrap, or to its one
wrapper, or is done with (`CallOK`), so it is reported at one place. The second adds, for
each wrapper, how many of its chunks it has handed on (`OrderOK`) and, for the pump, that
it changes its source only while nothing is written (`PumpOK`): what was written is then
the prefix of one source. For the third an error has to be somewhere until the client is
told of it (`StreamOK`), and a quiet end has to mean that the call is over and all of it
written (`EndOK`). Its hypothesis `~RashPeek` is the peek that looks for an error
first; the handlers' does not, which is the finding of `stream_peek`.

**Streams_proofs**, of the specification the `streams` run checks: `OneCallOnEveryRoute`
(`OneCall`), `ResultsAreTakenOnce` (`OneResult`), `EventsFitTogether` (`Grammatical`),
`AllIsTold` (`ToldAll`) and `EveryRunIsSigned` (`Signed`). A route moves forwarding, counting
or one converter as that module's own steps do, so each part has its own invariant; that of
forwarding is `StreamForwarding_proofs`', cited of the instance.
- Counting: a request's record is in one place, the queue, the dispatcher's hands or the
  statistics (`Apart`), one that was accepted is somewhere (`Accepted`), and two with the same
  key are one record (`Copied`), so that an import adds none twice.
- Converters: which blocks are open at the client, under which numbers, is what the
  converter's flags say, and what was said is what the client heard and what is held back.
  With one block at a time that is short (`GeminiInv`, `AntiInv`, `CodexInv`). Antigravity's
  adds that the thinking gathered is the block's since its last signature, Codex's that a
  signature in hand is of the thinking still open. OpenAI's keeps several blocks open, text
  or thinking and one for each call, whose arguments are told only at the end (`Talks`,
  `Told`). Kiro's holds back the end of a text and a call that goes on (`KOpen`), and reads
  the pieces of a text by a fold. Induction over it is out of reach, so the fold is unrolled,
  which three pieces allow: the two of a text and the half tag held back before.

A converter's state is a record of which each operator changes some fields. Each operator
therefore has lemmas of its own, of any state of the right type, and the lemmas about the
actions cite them. `EventsFitTogether`, `AllIsTold` and `EveryRunIsSigned` assume
`Quirks = {}`, an upstream without the habits under which section 7 shows the converters to
fail; `AllIsTold` also assumes `~RashPeek`. The lengths of the streams are those that
`MCStreams` gives, but the proofs use none of them other than the three pieces and that there
are two calls: what they say of the converters does not depend on how long a stream is.
For forwarding the theorems for every value of the constants are
`StreamForwarding_proofs`'.

*Assumptions.* What the modules state of their constants: `TimingAssumption`,
`PoolAssumption`, `NamesAssumption`, `TimesAssumption`, `SessionAssumption`,
`RegistryAssumption`, `SchedulerAssumption`, `ExecutionAssumption`, `DispatchAssumption`,
`DispatchNamesAssumption`, `RelayAssumption`: types, finiteness, names that differ. TLC evaluates
each. `PowersAssumption` is not about the program: it is arithmetic of `2 ^ n` that the
provers have no rule for, and TLC evaluates it too. The hypotheses that restrict a
theorem are named above: `GateOutlives` and `KeepsOff`, `Recovers`, `~Overlap` and
`~Quick`, `Honest`, `~RashStop`, `~RashPeek`, `Quirks = {}` and that two turns do not overlap
(`Racy`), each of them the negation of an environment in which section 3, 6 or 7 shows the
property to fail; and `Ungrouped`, which the code's
virtual credentials satisfy.

*Only model-checked.* Every invariant and every safety action property of a passing run is
a theorem. What remains is
- liveness: `EveryAuthRefreshed`, `StopEndsEverything`, `EveryRequestEnds`, `LoopGetsOn`
  (that what was sent is applied in the end, and that the loop ends), `Settles`,
  `EveryGoroutineEnds`. Liveness under fairness and ENABLED are beyond the prover,
  so `KeepsThePromise` is safety and the liveness of the queue a property beside it;
- that the settings in which section 6 and 7 find a property violated violate it: a
  counterexample is TLC's to find;
- the converters for texts of more than two pieces and for more than two calls at once.

No module declares a RECURSIVE operator, so all of them can be proved about. The one fold
over data, Kiro's over the pieces of a text, is treated as said above.

## 6. Findings

- `registry_lists` (`ListsServable`): *"GetAvailableModels returns all models that
  have at least one available client"* (`model_registry.go:755`). A failure that is no
  exhausted quota (401 to 404, a model that is not supported) is reported to the registry
  after the manager's lock is released. If the client drops the model in between,
  `SuspendClientModel` marks a client that no longer offers it; the listing takes the
  mark off the count of the clients that do, and a model another client could serve is
  not listed. Such a mark has no window: it stays until its client registers the model
  again, answers with it, or nobody offers the model. A stray quota mark, or a suspension
  for quota, does not hide the model: the second clause of `model_registry.go:827` lists it.
- `watcher_race` (`LatestApplied`): *"updates continue to be merged, so the latest
  state is eventually applied"* (`docs/sdk-watcher.md:23`). The reload reads the
  directory without a lock, and every producer merges its differences after it has
  released `clientsMutex`. A file event in between is either undone by the older
  reading, or overtaken in the buffer by the older difference; the manager then
  serves another credential than the shadow holds, until the file changes again.

- `stream_peek` (`ToldAll`): *"Peek at the first chunk to determine success or failure
  before setting headers"* (`claude/code_handlers.go:238`). The goroutine behind the
  handler puts its error in `errChan` and closes both channels. A handler that looks
  only then finds all of it ready; if its `select` takes the closed data channel the
  client is told 200 and given an empty stream. `ForwardStream` looks for a pending
  error first (`stream_forwarder.go:72`); the peeks of all handlers do not.

Hazards the code is exposed to and no text of the repository speaks of are listed in
`PROJECT.json` without a property or with a note: a refresh writing back a clone read
before its await, or the service erasing a pending gate with a stale copy
(`conductor.go:3202`); a reply sent to a channel that was closed meanwhile
(`session.go:109`); two waiters of Kiro's limiter that wake together
(`rate_limiter.go:161`).

## 7. Further disagreements

Each of these is what a comment or a doc says, stated as a property, with an instance
under which `tlc -config X.cfg M.tla` shows the code doing otherwise.

| cfg, module, property | says | does |
|---|---|---|
| `RegistryLists.cfg` with `INVARIANT CountsAvailable`, `MCModelRegistry` | *"GetModelCount returns the number of available clients for a specific model"* (`model_registry.go:1011`) | a 429 leaves a quota mark and a suspension on the same client, which are subtracted separately: with two clients, one of them over quota, the count is 0 |
| `SchedulerLate.cfg` `MCScheduler` `PicksBest` | *"the scheduler semantics it should emulate"* (`scheduler.go:176`) | a credential whose retry time is before its quota's recovery time is free for the selectors from the first, for the scheduler from the second; a lower priority is picked meanwhile |
| `ExecutionAlign.cfg` `MCExecution` `ReconcileAligns` | *"aligns per-model runtime state with the current registry snapshot"* (`conductor.go:253`) | a failure reported between `RegisterClient` and `ReconcileRegistryModelStates` suspends the client in the registry, and the reconciliation then clears the manager's side only |
| `ExecutionAlign.cfg` with `PROPERTY SnapshotsImmutable`, `MCExecution` | *"immutable scheduling fields derived from an auth snapshot"* (`scheduler.go:49`) | `Update` hands the scheduler the object the manager goes on changing (`conductor.go:1136`) |
| `WatcherWindow.cfg` `MCWatcherDispatch` `MirrorsDisk` | adds, edits and removals of the files are mirrored (`docs/sdk-watcher.md:13`) | a file removed, written and removed again within the debounce window keeps its credential (`events.go:123`) |
| `WatcherKiro.cfg` `MCWatcherDispatch` `MirrorsDisk` | the same | a Kiro token refresh sees a new file before its own event: the shadow moves, the per-file hashes do not, and when the file goes the removal is taken for that of an unknown file (`events.go:183`) |
| `SessionRace.cfg` `MCScheduler` `Sticky` | *"maintains session-to-auth mappings with automatic failover when the bound auth becomes unavailable"* (`selector.go:435`) | `Get` finds the first turn's binding expired with its read lock released, and deletes the new binding that another request has set meanwhile (`session_cache.go:50`): the next request is moved although its credential is available |
| `StoreEarly.cfg` `TokenStore` `Durable` | *"Save persists authentication metadata to disk and PostgreSQL."* (`postgresstore.go:188`); *"... uploads it to the object storage backend."* (`objectstore.go:158`) | a save that failed at the remote has written the file; the same save again finds its content there and reports success without a call |
| `StoreEarly.cfg` with `Kinds` and `Reliable` `{"git"}`, `Early` `{"delete"}`, `MaxRemovals` 1, `TokenStore` `Durable` | *"Delete removes the auth record identified by id."* (`sdk/cliproxy/auth/store.go:11`) | the management API removes the file (`auth_files.go:901`), git's `Delete` then finds nothing to remove and reports success without a commit (`gitstore.go:392`); the remote keeps the record until the watcher hands the removal over, which a crash in between prevents |
| `StorePush.cfg` `TokenStore` `Durable` | *"PersistAuthFiles commits and pushes the provided paths to the remote repository."* (`gitstore.go:408`) | a commit whose push failed is not pushed again by the next call: with nothing to commit it returns success |
| `StoreInflight.cfg` `TokenStore` `Settles` | a credential whose file is removed is gone, one whose file is there is served (`docs/sdk-watcher.md:13`) | a result saves the file after the removal took it away and before the credential is disabled: the file is back, the credential stays disabled |
| `RelayStop.cfg` `MCStreams` `ServedAreConnected` | *"Stop gracefully closes all active websocket sessions"* (`wsrelay/manager.go:95`) | a stop between a session's entry in the map and its `onConnected` runs `onDisconnected` first; the credential of the closed session stays |
| `RelayCrash.cfg` `MCStreams` `NeverCrashes` | (no text) | the reader looks a request up, its waiter or the clean-up closes the channel, the reader sends on it (`session.go:109`, closed at `:176`): the program panics |
| `Streams.cfg` with `Quirks` `MCStreams` `Grammatical`, `ToldAll` | *"maintains state across multiple calls to ensure proper SSE event sequencing"* (`gemini_claude_response.go:43`, `codex_claude_response.go:42`, `antigravity_claude_response.go:90`) | `"names"`, `"usages"`, `"empty"` (chat completions), `"cut"`, `"uncounted"` (Gemini), `"empty"`, `"signature"` (Antigravity): blocks or ends out of step; `"messages"` (Responses): a second message whose text comes only with its item is not told, for `HasTextDelta` is never reset; Kiro: `"held"` a text that ends like the beginning of a tag is not told when the stream ends or a thinking event comes (`kiro_executor.go:2606`), `"blank"` white space around a text after a thinking event is cut off (`:2931`), `"both"` a call beside such a text is passed over (`:2948`), `"cut"` a call delivered at the end leaves the text block open under its index (`:2580`), `"interleave"` a repeated identifier drops the call it interrupts (`kiro_claude_tools.go:442`), `"open"`, `"empty"` |
| `KiroThinking.cfg` `KiroToClaude` `ThinkingCloses` | *"We don't close the thinking block here - it will be closed when we see the next assistantResponseEvent or at the end of the stream"* (`kiro_executor.go:3234`) | nothing closes it: text blocks open beside it, and the message stops with it open |

Smaller things met on the way, for which no property is stated: `InvalidateAuth` is
*"Called when an auth becomes rate-limited or unavailable"* (`selector.go:562`), and
nothing calls it; conversations that begin alike share their first key. A failed
`deleteTokenRecord` cannot be repeated, for the file is gone and the handler answers
404, so the record returns with the next start. Two overlapping `Update`s persist after
the lock is released, in either order (`conductor.go:1139`). `GetModelInfo` falls back to
the definition registered last (`model_registry.go:1123`), whose provider may have left.
An upstream that answers Gemini's or Antigravity's converter with no content gets a
`message_start` without a `message_stop`; so does `response.incomplete` in Codex's. A
stream of chunks without payloads passes for a success (`conductor.go:889`).
`Manager.Stop` of the usage queue *"stops the dispatcher and drains the queue"*
(`manager.go:81`) but returns without waiting, so that an exit loses what is queued; the
first report of a call wins, so a stream that fails after its usage line is counted as a
success; the Gemini executor never calls `EnsurePublished`.

`LoneRequestServed` bounds the harm of stale scheduler views: a pick that finds
nothing rebuilds the scheduler, so a request alone is served whatever happened
before; `CacheFresh` and `CountsExact` hold in spite of the stray marks.

## 8. Not modelled

`PROJECT.json`, "components", has each part and why. Within the modelled parts:

- refresh loop: a second `StartAutoRefresh`; the heap as an array;
- results: upstream model pools, retry overrides of one credential, results without
  a model, the aggregation of a credential's models, streaming;
- scheduler: pinned requests; a credential with both a websocket and a virtual
  parent, which none has;
- registry: `ModelInfo` metadata, formatting per client protocol, the hook;
- watcher: credentials from the configuration file, asynchronous persisters,
  replacement of the queue;
- session affinity: how a request's keys are found, `Stop`, invalidation;
- stores: the configuration file they keep too, several credentials, other writers of
  the remote, a repository's set-up and maintenance; the plain file store;
- relay: provider factories, hence the replacement of a session, pings, encodings;
- streams: keep-alives, headers, formats of handlers, replies in one piece, the
  converters to other protocols (which are built alike), names and token counts;
- usage: sums per key, model, day and hour, further plugins.

What remains outside is of three kinds. Conversions without state: requests, whole
replies, thinking budgets, configuration, some 90 000 lines which are a function each.
Exchanges with one service: executors' requests and retries, login flows, the Amp proxy;
their answers are nondeterministic inputs here. Maps behind one mutex: OAuth sessions,
the signature cache (seen by `Signed`), the Kiro cooldowns, whose every method is one
critical section.

## 9. Plan

Done in this order: the refresh loop and its timing (what nothing else can make up
for), the registry, the scheduler, execution, the watcher; the streams from upstream to
client (relay, forwarding, converters); the token stores; usage; session affinity;
theorems about the refresh loop, its timing, the registry, the scheduler, execution, the
watcher, the stores, the relay, forwarding, rotation, session affinity, the counting of
usage and the five converters.
What would come next:

1. The converters from and to the Responses protocol, and of the responses websocket,
   which keeps a transcript over turns.
2. Per-credential aggregation in `Execution`, and the service's start and shutdown over
   the refresh loop and the watcher.

The project keeps to a dozen runs, so that all of them can be repeated on every
change: a new module joins a run as a setting of its own.
