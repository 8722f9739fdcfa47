# A TLA+ verification of the GoSX runtime

GoSX is a Go web framework: a compiler for `.gsx` components, a server runtime
(routing, sessions, actions, background tasks), WebSocket hubs, CRDT documents,
lockstep/rollback netplay and a 3D engine for the browser. This project models
the parts in which goroutines, callbacks and connections interleave, where a unit
test reaches one schedule and a model checker reaches all of them.

    tlc -workers 2 -config MCHub.cfg MCHub               # one run
    tlapm CrdtProofs.tla                                 # one module of proofs

`PROJECT.json` lists every run, the lines of the source each definition models,
the hazards of the code with the properties that cover them, and for each property
a mutant (a plausible bug) that it catches.

## 1. Inventory

### Modelled

| Component | State it keeps | Operations | Module |
|---|---|---|---|
| Background task scheduler, `scheduled/` | task map, `started`, `stopped`, `pending`, `stopCause`, `stopDone`, run map, status store | `Register`, `Start`, `Enqueue`, schedule loop, attempt, watchdog, backoff, `Cancel`, `StopContext`, `Stop` | `Scheduler` |
| Hub client lifecycle, `hub/hub.go`, `hub/close.go` | `clients`, `pendingClients`, `pumps`, presence, the close flags; per client a socket, two pumps, a queue, `closed` | upgrade, registration, welcome, broadcast, send, disconnect, removal, `Close`/`Drain`/`SignalShutdown` | `Hub` |
| Latched topics, `hub/hub.go` | `latched`, `clients`, client queues | `Latch`, `Broadcast`, `BroadcastWhere`, replay on join | `HubLatch` |
| Observers, `hub/observer.go`, `hub/close.go` | observer list, per slot an atomic word (retired bit and count) and a `drained` channel | `UseObserver`, detach, `observe`, `observeConcurrent`, panic handling, `finishClose` | `HubObservers` |
| Snapshot lane, `hub/snapshot.go`, `writePump` | pending baseline and delta, wake-up token, `preferSnapshot` | `offerSnapshot`, `takeSnapshot`, `nextOutbound`, removal | `HubSnapshot` |
| CRDT documents, `crdt/` | root map, text, change log, heads, Lamport counter, pending operations | `Put`, `Delete`, `Increment`, `SpliceText` and the edits by element, `Commit`, taking in a remote change | `CrdtDoc`, `CrdtReplicas` |
| Document sync, `crdt/sync/`, `hub/sync.go`, `client/bridge/crdt.go` | per peer what is known, sent, needed, and the peer's Bloom filter; the hub's queues | `GenerateSyncMessage`, `ReceiveSyncMessage`, broadcast, bootstrap on join, `CRDTBridge.Sync` | `CrdtSync` |
| Netplay session, `netplay/session.go`, `ledger.go` | inputs of both players in rings, saved states, checkpoints, reports, epoch | `Advance` (handshake, rollback, stall, wait, new frame, catch-up), packet handlers, `Reconcile` | `NetplaySession`, `Netplay` |
| Netplay relay, `netplay/relay.go` | input logs, its own copy of the game, checkpoints, reports, resyncs | `Tick`: log, forward, judge, simulate, resync, end | `NetplayRelay` |
| Reactive signals, `signal/` | values, revisions, subscriber lists; per derived value `dirty`, `refreshing`, dependencies; batch depth and queue | `Set`, `Get`, `Derive`, `Stop`, `Watch`, `Dispose`, `Batch`, invalidation, refresh | `Signal` |

What makes each correct, and what is hard about it:

* **Scheduler.** Shutdown must admit nothing, announce completion once and only
  when the last goroutine has reported, and cancel every straggler once a caller
  gives up, including one that registers its run a moment later. Hard: the last
  worker racing the stop, two-step status updates, a watchdog racing the return
  of the task function, selects with several ready cases.
* **Hub.** The capacity must hold although upgrades take time; `Close` must
  complete, exactly once, with no client, pump or presence left; nobody may send
  on a channel that `removeClient` closed. Hard: reservations, two pumps per
  client and the connection closer each look whether they are the last.
* **Latch.** A joining client must not fall into the gap between latching and
  fanning out, and a filtered payload must not leave the clients it was meant
  for. Hard: three locks, taken one after the other.
* **Observers.** `Closed` is the last callback of a subscriber. Hard: dispatches
  that loaded the list before the close, callbacks that panic and notify others
  from inside a dispatch, detachment during the sweep.
* **Snapshot lane.** A delta follows the baseline of its own epoch, epochs never
  go back, no wake-up is lost, neither lane starves. Hard: an offer may replace
  the lane at any point between two takes, and the token is received before the
  lane is read.
* **CRDT documents.** Replicas with the same changes show the same document,
  whatever order they came in. Hard: an edit is applied at once and committed
  later, so remote changes arrive between an operation and the change it will be
  part of; text positions are found incrementally.
* **Document sync.** A connection must fall silent, and only when nobody misses a
  change. Hard: changes count as sent when a message is generated, by several
  goroutines at once for one client, frames are queued after the lock is released, the hub's queue may drop them, a Bloom
  filter may claim a change the peer lacks.
* **Netplay.** What both peers confirm is one game over both players' inputs; a
  healthy match is never called a desync and a faulty build always is. Hard:
  inputs come late, twice, out of order or not at all; rings of fixed size; a
  resync that arrives frames later, with reports of the old epoch in flight.
* **Signals.** A clean cache was computed from, or checked against, what its sources
  hold; no subscriber is left uninformed, one change is one notification, nothing
  stopped keeps a subscription. Hard: every
  lock is released around application code, refreshes recurse, and the set of
  dependencies changes with the values.

The components meet in a few places. `Hub` abstracts messages to a queue length;
`HubLatch` and `HubSnapshot` say what is in the queue and in the lane. `Hub`'s
`FinishClose` is one step that `HubObservers` opens up; `HubObservers` relies, as
a fairness assumption, on the pumps of a closing hub ending, which is what
`Hub!CloseCompletes` establishes. `Scheduler` and `Hub` implement the same
abstract specification, `DrainGate`: admission closes once, and completion is
announced exactly when the last admitted unit has finished. It is the contract
the server's two-phase shutdown relies on.

`CrdtSync` implements `CrdtReplicas`: it is one way of delivering changes, and it
uses the drop rule of the hub's queues, which `Hub` abstracts. `NetplayRelay`
extends `Netplay`, whose sessions do not know whether a relay sits between them.
Both rest on operators (`CrdtDoc`, `NetplaySession`) that say what the code of one
document, or one session, does; the modules above them add who acts when.

### Not modelled

| Component | Why not yet, or not at all |
|---|---|
| Simulation runner, `sim/` | one ticking goroutine and an input queue under one mutex; next in the plan |
| Server shutdown, `server/` | two phases of hooks under shared deadlines; would compose `DrainGate`; next in the plan |
| Desktop sidecar, `desktop/sidecar/` | its outcomes are those of operating system processes, which would all be external |
| Authentication tokens, `auth/` | one-time redemption is an atomic operation of a store that the application provides |
| Telemetry record queue | a bounded queue against shutdown; next in the plan |

### Left out

* **Round-trip probes and the slow-client policy** (`hub/`): clock arithmetic on
  the writer's own state. The eviction is in `Hub` as one reason why a writer
  returns.
* **HTTP server, routing, actions**: no state shared between requests besides
  the shutdown above.
* **Query, rate limiting, commands, machines, controllers, workspaces**: small
  sequential libraries.
* **Game runtime, motion, vessels, fields, video sync**: floating-point code on
  one goroutine; TLC has no floats.
* **Compiler, IR, island VM, hydration**: large pure functions over syntax trees,
  within reach only for toy inputs.
* **Engine, scene3d, browser runtime**: rendering and DOM glue, I/O against
  browser APIs.
* **Development server, CLI, asset pipeline**: file watching, builds, codecs.

## 2. Plan

Done, in this order: `DrainGate`, `Scheduler`, `SchedulerProofs`, `Hub`,
`HubLatch`, `HubObservers`, `HubSnapshot`, `CrdtDoc`,
`CrdtReplicas`, `CrdtSync`, `Lockstep`, `NetplaySession`, `Netplay`,
`NetplayRelay`, `Signal`; then the proofs `HubProofs`, `HubDeliveryProofs`,
`HubObserversProofs`, the retries in `SchedulerProofs`, `FoldFacts`,
`CrdtProofs`, `SignalProofs`, `NetplayProofs`.

Next:

1. Proofs. `NetplayRelay` with a window of one frame. `Signal`: the rest of
   `CleanIsCurrent`, for functions that read one another without a cycle.
2. `ServerShutdown`, several instances of `DrainGate` under one deadline.
3. The telemetry queue and the simulation runner.

## 3. The modules and the code

One rule throughout: a section of Go code under a mutex is one atomic action, and
so is each operation on a channel, an atomic word or a store; everything between
two of them interleaves. Timers are not clocks: a timer may fire whenever it is
armed. Actions carry the names of the functions they model; a function that
releases its lock half-way is split into several actions with a program counter.
Definitions without a source line are properties or the mutated forms named in
`PROJECT.json`.

**`DrainGate`** - units of work `live`, `stopping`, `drained`. `Change` is free
before the stop; `Stop` may leave work behind; `Finish` only removes.

**`Scheduler`** - a worker is a goroutine: one schedule loop per task, one job per
accepted `Enqueue`. `pc[w]` says where it is: computing the due time and storing
it (`next`, `dueSave`), in the select (`wait`), rechecking admission (`recheck`),
in `runAttempt` (`attempt` to `finishSave`), in the backoff select, or about to
call `workFinished` (`exit`). `updateStatus` and `storeNextDue` are a `Load` and
a `Save` each, with `row` in between. `cause` is the cause of a run's
`CancelCauseFunc`; `watchdog` the watchdog goroutine. A `Stopper` is a caller of
`StopContext`, one of `GraceStoppers` a caller of `Stop(grace)`, which calls
`StopContext` twice. Status rows keep the due time, the attempt and the outcome;
durations, run IDs and messages are left out.

**`Hub`** - `serve[c]` is the HTTP handler of a request from the reservation to
the start of the pumps, `reader[c]` and `writer[c]` the pumps, `closer` the
goroutine of `closeConnections`. `FinishCloseLocked` is evaluated, as in the
code, at the end of each section that may have been the last. The socket is
external: reads and writes may fail at any time, and must once it is closed.
Handlers of the application are assumed to return.

**`HubLatch`** - one topic, its broadcasts step by step, and the joins. A payload
is identified with the call that sends it. `fanout` holds `h.mu` for reading, so
`Register` waits for it. The writer is left out: it could only make room.

**`HubObservers`** - `count`, `retired`, `drained` are a slot's word and channel;
a compare-and-swap loop is its successful iteration. A dispatch is a frame on the
stack of its goroutine, because a panic in a callback dispatches again from
inside. `Owners` are goroutines that `Close` waits for anyway (pumps, reserved
upgrades); `Guests` are the others.

**`HubSnapshot`** - one client. `snapshot` is the lane, `wake` the one-slot
channel; `pc` follows `nextOutbound` through its two selects. `newest` and `sent`
are history variables that no action reads.

**`CrdtDoc`** - operators on one replica's document. A value is known by the
operation that put it and a rune by its operation id, so "equal documents" means
the same winners in the same order. `InsertAfter` is the incremental placement of
`seq.go`, `OrderListElems` the order a loaded document is put into.

**`CrdtReplicas`** - any number of replicas. `Edit` applies an operation and leaves
it pending, `Commit` makes a change of what is pending, `Receive` takes in any
part of another replica's log in its order, leaving out what it holds or misses
dependencies of. This is the abstract specification of every transport.

**`CrdtSync`** - the hub's replica (number 0) and those of clients. `peer[<<r, s>>]`
is the sync `State` at `r` for `s`. Each client's read pump is a goroutine of the
hub, and so is the owner of the hub's document, which stands for edits of all other
origins: a goroutine broadcasts by going through `todo`, generating a message in
one step and queueing it in the next. `GenerateSyncMessage` changes the state of a
client under a read lock only, so the generations of several goroutines for one client
can overlap; `Generate(G, c)` is one step of all those in `G`. The first of them to mark
has seen no mark and sends everything; each other one may have seen any of the marks
being made, so it sends any part of the changes, perhaps nothing. The state after it is
the same. Messages are taken in under the write lock, so nothing else changes meanwhile.
(A Go runtime that notices two accesses to one map ends the process. That outcome, after
which there is no hub to speak of, is not in the model.) A Bloom filter holds what the sender has and
any of the hashes in `BloomFalse`. A message's changes are the sender's log with those
marked that are sent. The client sends only in reply to a frame;
`ClientAnnounce` is the application asking for a message in between.

**`NetplaySession`** - a session as a record and its methods as operators on it;
the game is the sequence of inputs simulated, its checksum is itself, and a build
at fault corrupts one frame. The rings keep their sizes as constants, so an index
that wraps too early is an error in the model too.

**`Netplay`** - one action per outcome of `Advance`. A link holds the newest
packets sent; a tick reads none, one or two of them, in any order, and does not
remove them: loss, delay, repetition and reordering. `given` records the inputs the
players gave, `shown` the ledger. `Lockstep` is the abstract game: a peer's
confirmed state is the run over both players' inputs, and it grows.

**`NetplayRelay`** - the relay between two such sessions, with its own copy of the
game, its verdicts and its resyncs; `CatchesUp` is `Advance` of a peer that a resync
set back.

**`Signal`** - each goroutine has a stack of the calls it has still to make, so that
a `Set` becomes its invalidations and then its notifications, a notification a
refresh, a refresh the refreshes of its sources, each a step that other goroutines
may precede. What the functions read and return (`Source`, `Result`) are constants.
`comp[c].mu` is held only where the code calls out with the lock held, to subscribe.
The history `lone` counts notifications in a `Set` nothing overlaps.

## 4. Runs

Passing runs:

| Run | Question | Bounds |
|---|---|---|
| `scheduler` | does shutdown drain everything and cancel every straggler? does `Stop(grace)` return if tasks never do; do giving up and cancelling the parent end the work of tasks that honour their context? | one watched task with a retry delay and unlimited retries, one job, one `Stop(grace)` |
| `hub` | capacity, ghosts, sends on closed channels, completeness and end of `Close`, both pumps | two upgrades, no limit or one slot, queue of one, two messages |
| `hub_latch` | is a payload missed, does a filtered one escape? | two clients, two broadcasts and a filtered one, queue of three |
| `hub_observers` | is `Closed` the last callback, does `finishClose` ever wait in vain? | two subscribers (one for telemetry), one owner, one guest |
| `hub_snapshot` | order on the wire, lost wake-ups, starvation of either lane | three epochs, two deltas, queue of two, endless traffic |
| `crdt_replicas` | do replicas converge, is the text in canonical order, is application causal? | three replicas, an edit of any kind each, any delivery |
| `crdt_sync` | does a connection fall silent, and only when synced? does it implement `CrdtReplicas`? | hub with two edits, client with one, two connections, a false positive for one hash |
| `netplay` | is the confirmed game one lockstep game, is it played to the end, is a fault found and only a fault? | five frames, window of two, uneven and automatic delays, two packets in flight each way, one faulty frame, time-outs |
| `netplay_relay` | does the relay log and simulate truly, is one fault repaired? | three frames, window of one, a checkpoint per frame, one lossy peer |
| `signal` | stale caches, missed or doubled notifications, leaked or lost subscriptions, calls that do not return | two goroutines, three operations, a diamond with changing sources, one effect, one watcher, one panic |

A run checks one state invariant that joins a module's type invariant to the facts
that hold of every state; the parts keep their names in the module:

| Invariant | Parts besides types |
|---|---|
| `SchedulerInv` | `Consistent` (which includes `GiveUpReachesEveryRun` and `WatchdogWithinRun`), `DrainedWhenStopped` |
| `HubInv` | `Consistent` (the counters are exact, the maps agree with where the goroutines are, `finalizing` is set when nobody is left), `WithinCapacity`, `ClosedHubIsEmpty`, `NoGhosts` |
| `LatchInv` | `FilteredStaysInScope` |
| `ObserversInv` | `DetachedIsNotTold`, `DrainedIffIdle` |
| `SnapshotInv` | `BaselineBeforeDelta`, `EpochsNeverGoBack`, `NoLostWake` |
| `ReplicaInv` | `CausallyClosed`, `IdsAhead` |
| `SyncInv` | `SilentWhenSynced` |
| `SessionInv` | `NoFalseDesync`, `CheckpointsAreTrue`, `HistoryKept` |
| `RelayInv` | `RelayIsTrue` |
| `SignalInv` | `StoppedHoldNothing`, `EffectsStaySubscribed`, `CleanIsChecked` |

`LanesServed` likewise joins `SnapshotServed` and `ReliableServed`. The other
properties of a run are checked by themselves.

Why the bounds are enough for what they are asked. The scheduler's workers
interact only through the admission counters and the status row of a task; one
loop and one job of the same task share all of them. With unlimited retries the
attempt number says nothing, so it is capped at one (`AttemptCap`);
`MCScheduler_attempts.cfg` has two attempts instead, the smallest number with both a
retry and a run that has used its attempts up, and checks `RetriesBounded`, which
section 6 proves for any number. In
`hub` two requests for one slot make one upgrade race the other's, and a queue of
one slot is full after one message; without a limit both clients are served while
the hub closes. Two latch calls are needed for an old and a new payload, a third
for a filtered one; a queue of three holds all of them or, with replays,
overflows. Two subscribers let one panic while the other is being told; an owner
and a guest let one dispatch be inside a subscriber while another, of the other
kind, panics out of it. Three epochs allow a new epoch during a delta of an old
one, after a first. Three replicas are the smallest number with two concurrent
changes that a third receives in either order, the second possibly depending on
the first. In `crdt_sync` the hub's owner and the client's read pump broadcast at
once, so that two generations for the client can overlap and two frames for it can
change places, and the second edit of the hub makes one of them depend on the other. `netplay` has rings of the sizes the
formulas of the code give for its window and delays, which wrap within five
frames; the players' delays differ, and one may press a button on frames 1 and 3,
so a prediction can be wrong twice. In `netplay_relay` the fault is in the first
frame, so it is judged, repaired and caught up with while later frames run.
`MaxTotal` of three operations in `signal` is the smallest in which two writes
overlap a third operation of the keeper. For the safety of the scheduler, the four
hub modules, the replicas and the graph of signals, and for the sync protocol's
refinement of the replicas, the theorems of section 6 remove the bounds.

Two instances are chosen around behaviour that is described below: `crdt_replicas`
does not put and increment the same key, and `netplay_relay` predicts at most one
frame, so that a catch-up never has a prediction to correct: with two frames, the
disagreement described below (`netplay_catchup`) ends a healthy match, and
`OneFaultIsRepaired` does not hold. `CrdtSync`'s clients may
write in the run; a client that may not is in the model (`MayWrite`), but what it
asks for is refused with its frame, so silence does not mean that it has everything.

`AttemptCap`, `MaxFires`, `MaxCasts`, `MaxEpoch`, `MaxEdits`, `MaxJoins`, `MaxFrame`,
`InFlight`, `MaxOps`, `MaxTotal` and `MaxPanics` cap what the code leaves unbounded;
`QueueCap` is 256 in the code, `History` and the other sizes of `NetplaySession` are
constants of the package scaled down with the window. Deadlock checking is off where
the system may come to rest: nobody has to register, connect, edit or close, and
what is closed or played to its bound stays so.

### Disagreements with comments and documentation

Two runs are expected to be violated. `crdt_drop` checks what `hub.go:208` says of a
dropped binary frame: that it is not data loss, "because the next sync round
recomputes what the peer still needs". The changes of a message count as sent, and
its heads as told, when it is generated; if the queue then drops it, the next round
finds nothing to send, and the client misses the change until another change or a
frame of its own makes a new round. (`crdt_sync` has queues that cannot overflow,
and there silence means synced.)

`netplay_catchup` checks what `docs/netplay.md:70` says of checksums: "computed on
confirmed frames". After a resync a peer simulates its frames again, a few per tick,
and `Advance` returns from `catchUp` before it comes to the rollback; `tryCheckpoints`
looks only at how many inputs have been received. If an input that contradicts a
prediction arrives during such a catch-up, the next frames are checkpointed, and their
checksums reported, from a state that used the wrong prediction. The relay then takes
the repaired peer for a faulty one and ends the match. It needs a window of two frames;
the code's is eight.

Further configurations reproduce behaviour worth knowing of; TLC reports a violation
in each:

| Configuration | What is said | What happens |
|---|---|---|
| `MCScheduler_nextdue.cfg` | `scheduler.go:454`: loading the row first "avoids racing the schedule loop" | a run's save overwrites the due time the loop stored between its load and its save; the row is wrong until the loop's next due time |
| `MCHub_join.cfg` | `hub.go:903`: "never block the join path" | the welcome is a blocking send to a client that already receives broadcasts and has no writer; with a full queue the join, and `Close`, block. `CloseCompletes` of the run `hub` says that nothing else makes `Close` hang |
| `MCHubLatch_stale.cfg` | `hub.go:884`: the client "sees current state" | a payload read from the latch is enqueued after a newer one was broadcast: the client ends with the old one |
| `MCHubObservers_wait.cfg` | `docs/hub-observers.md:23`: `Close` waits for "admitted observer callbacks" | a callback of a subscriber detached meanwhile is not waited for |
| `MCCrdtReplicas_counter.cfg` | replicas with the same changes converge | an increment takes over the register's operation id whatever the order, so a concurrent put wins at one replica and loses at the other |
| `MCSignal_stale.cfg` | `signal.go:277`: "Get returns the current computed value" | one goroutine refreshes `total`, which now reads `pick`; another writes what `pick` depends on after `total` has read it and before it has subscribed to it. `pick` becomes dirty and keeps its revision, so the re-check of `total` finds nothing, and nobody tells `total` later: it is clean, and `Get` returns the old value until the next change, although every call has returned and no `Batch` is open |

Seen while `Signal` was written, and kept out of what its properties claim:

* the last row above. `CleanIsCurrent` and `WatchersUpToDate` therefore compare a clean
  value with what its sources hold, and with the values of the base signals only when
  one goroutine made all the calls (`Alone`);
* a `Get` that meets another goroutine's refresh returns the old value: the property
  is about what remains once calls have returned;
* a computation's panic makes its value dirty without telling its subscribers;
* `Effect.run` does not look again after subscribing: a `Set` between the function's
  read and the subscription does not run it again. `EffectsStaySubscribed` says that
  the next one does.

One more behaviour to know of: when the backoff timer and `stopCh` are ready
together, the select may take the timer, and one more attempt starts after the
stop (`BackoffElapsed`). It is counted and cancelled like any other, so
`GiveUpDrains` holds.

## 5. Fairness

* **Go runtime** (`RuntimeFairness`, `Fairness`): a goroutine that can run does
  (weak fairness). A select chooses at random among its ready cases, so a case
  that is ready again and again is taken: strong fairness on `LoopUnwind`,
  `BackoffUnwind`, `SelectReliable`, `SelectSnapshot`.
* **Sockets**: a read or write on a closed connection fails, so a reader breaks
  and a writer that holds a message, or finds its queue closed, returns. Nothing
  makes an open connection fail.
* **Tasks**: none for `StopReturns`. For `GiveUpDrains` and
  `ParentCancelUnwinds`, a task function returns once its context is done
  (`Cooperative`), which the package asks of its users.
* **Observer callbacks** return, as the `Observer` contract demands. An owner
  leaves a closing hub eventually (strong, because it may dispatch any number of
  times before), which `Hub!CloseCompletes` justifies.
* **Frames of the sync protocol** that are queued or on the wire arrive, and a
  broadcast goes on (`CrdtSync`); stated on the variable each such step moves on.
* **Netplay**: the application ticks at its frame rate and every tick sends a
  packet, some of which arrive; so time and again each peer reads the newest packet
  and plays on (`fresh`). Without this no protocol makes progress. Which other
  packets arrive, and when, stays free. `MatchIsPlayed` and `FaultIsFound` allow a
  peer to have given up waiting.
* **Signals**: a goroutine inside the package is scheduled, and the function of a
  `Batch` returns.
* Nobody is assumed to connect, send, offer, edit, commit, set, disconnect, detach
  or close.

## 6. Proofs

`SchedulerProofs` proves, for all tasks, jobs, callers and bounds satisfying
`SchedulerAssumption`:

* `SchedulerConsistent` - `[](TypeOK /\ Consistent)`. `DrainedWhenStopped` is not
  inductive: nothing in it says that `pending` reaches zero only with the last
  worker. `Consistent` adds that `pending` is the cardinality of the active
  workers, that `stopDone` is closed exactly when the scheduler is stopped and
  none is active, that the run map holds the workers inside an attempt, and that
  a watchdog lives inside its run. The argument is one lemma per group of actions
  and one (`CountStep`) that reduces every step to its effect on the set of
  active workers: it admits some, one finishes, the stop is entered, or nothing.
* `StopMeansDrained`, `GiveUpCancels` - `DrainedWhenStopped` and
  `GiveUpReachesEveryRun` follow from it; `SchedulerSafe` states the whole
  `SchedulerInv`.
* `RetriesStayBounded` - an invocation never makes more attempts than
  `RetryPolicy.MaxAttempts`: `shouldRetry` is the only way from a finished attempt
  to the backoff, and only a failed one goes there.
* `SchedulerImplementsGate` - `Spec` implements `DrainGate` with `live` as the
  active workers: each action is a `Change`, a `Stop`, a `Finish` or a stutter.

`HubDeliveryProofs` proves of the snapshot lane, for any number of epochs, deltas and queue
slots (`LaneParameters`, a hypothesis of both theorems, since an instance of a module
brings no assumption with it):

* `SnapshotOrder` - `SnapshotInv`: `BaselineBeforeDelta`, `EpochsNeverGoBack` and
  `NoLostWake`.
  Neither wire property is inductive: what may go out next depends on the lane
  and on the frame being written. `Committed` is the epoch of the last baseline
  that left the lane, written or in the writer's hand; `Ordered` says that a lane
  with a pending baseline is ahead of it and a lane without one is at it.
* `NewestDelta` - `NewestDeltaWins`, from the invariant that a lane with a pending
  delta holds the newest one.

`HubProofs` proves, for any set of connections, queue size and capacity limit:

* `HubSafe` - `HubInv`. `WithinCapacity` is not inductive: a reservation is admitted
  by comparing `len(clients) + pendingClients` with the limit, which says something
  only if the counter is right. `Consistent` (in `Hub`) says so: `pendingClients` is
  the number of upgrades that hold a reservation, `pumps` that of readers and writers
  still to report, the client map holds exactly the connections between registration
  and removal, and `finalizing` is set exactly when both counters are zero in a hub
  that closes and whose connections have been closed. As in the scheduler, every
  step is first reduced to its effect on the three sets that are counted
  (`EffectOf`), and the counters are treated once, in `CountStep`.
* `SendsAreSafe` - nobody sends on a channel that `removeClient` has closed: the
  enqueue looks at `closed` under the client's lock, and the one send that does not
  look, the welcome, comes before the reader that could remove the client is started.
* `HubImplementsGate` - `Spec` implements `DrainGate` with reservations and pumps as
  the admitted units.

`HubDeliveryProofs` proves of the latched topic, for any clients, calls and queue size:

* `LatchSafe` - `LatchInv`: a filtered payload is in no latch and no replay, its fanout
  visits only clients in scope, and so it is in their queues only (`ScopeKept`).
* `NothingMissed` - `LatestNeverMissed`. It speaks of clients that have settled; the
  inductive form (`NobodyForgotten`) follows the payload there: every registered
  client is owed the latched payload by its queue, by the call that latched it and
  has yet to fan out or to reach the client, or by the replay of its own join, unless
  its queue has dropped something.

`HubObserversProofs` proves, for any subscribers, owners and guests:

* `ObserversSafe` - `ObserversInv`, and `ClosedLast` - `ClosedIsLast`: when a
  subscriber has been told `Closed`, no callback is inside it, and none will be. The
  count in a slot's word is the number of guarded dispatch frames at that slot over
  all stacks (`CountsExact`). The rest is the order of `finishClose`: it begins when
  the owners have left (`OwnersLive`, `AfterOwners`), it tells a slot `Closed` after
  every slot it swapped out has drained (`AfterDrain`), it tells only slots it retired
  itself (`RetiredOnce`), and it sweeps none before the swap (`SweptAfterSwap`). Frames
  are numbered from the bottom of a stack, so that pushing and popping does not rename
  the others.

`FoldFacts` is a tool of the other proofs and says nothing of GoSX by itself: an
induction rule for the community modules' `FoldLeft`, `FoldLeftInduction` - if the base is in `A[0]` and folding in element `i` leads from
`A[i-1]` to `A[i]`, the result is in `A[n]`. The prover cannot instantiate an
induction theorem whose parameter is an operator, so the module has the folded
operator as a CONSTANT and is INSTANCEd with it replaced, and the rule is proved from
the definition of the fold by a least counterexample. (`Fold` in that module repeats the
definition of `FoldLeft` with the operator as the CONSTANT, and the modules that use it
show the two equal by expanding both.) This is why each fold of `CrdtDoc`,
`CrdtReplicas`, `CrdtSync` and `Signal` is over a named operator. `FoldLeftChain` and
`FoldLeftIs` say that the result is the end of the chain of intermediate results, which
gives the recursive functions of `Signal` the same treatment.

`CrdtProofs` proves, for any number of replicas, edits and deliveries, that
replicas converge. Its first part is about one document. `Reflects(d, ops)` says what
a document is worth as a function of the *set* of operations that went into it: a
register holds the greatest of the writes to its key or the number of its increments,
the elements are those inserted, and an element is hidden if the greatest mark on it
is a deletion. The order of the text is fixed by `Placed`: an element comes after the
one it was inserted behind, and everything between the two is younger than it.

* `ApplyKeeps` - applying one more operation, whose references are in the document,
  turns a document that reflects `ops` into one that reflects `ops` and the operation.
  The text is the hard part: `InsertAfter` skips the run of younger elements, and the
  lemmas show that this keeps `Placed` for everybody.
* `ReflectsOnce` - two documents that reflect the same operations look the same. For
  the text (`OnePrecedence`): take the least pair of elements that stand in different
  orders; what comes before an element, and is neither its reference nor younger,
  comes before its reference, so an older pair already stood in different orders.

The second part is about the replicas:

* `ReplicasReflect` - the inductive invariant. Each document reflects its log
  and its pending operations; names of changes and operation ids are used
  once, in one place (`NamesOK`); what a change refers to was inserted by it or by
  one of its causes (`CausesOK`); the log is in causal order with the right heads and
  counters (`LogOK`, `LocalOK`). All of it is needed for one fact: when a change is
  received whose dependencies are there, the elements its operations refer to are
  there too. Pending operations make this hard, because they are committed on top of
  heads that arrived after them; `HeadsCover` says that the heads of a closed log have
  the whole log as their causes, so a late head only adds to what is known.
* `ReplicasSafe` - `ReplicaInv` (`CausallyClosed`, `IdsAhead`) follows.
* `Convergence` - `Converged` follows with `ReflectsOnce`, under `OneKindPerKey`: no
  key is both incremented and put or deleted. The assumption is not a convenience:
  `MCCrdtReplicas_counter.cfg` shows what happens without it (section 4). It is an
  assumption of this theorem only; `ReplicasSafe` does without.

The third part is about the protocol, for any clients, queue sizes and false positives:

* `SyncImplementsReplicas` - the protocol implements `CrdtReplicas`. The invariant
  (`FramesOK`) says that what is queued, on the wire or in a goroutine's hand was taken
  from its sender's log as it was at some time, in the order of the log; logs only
  grow at their end (`LogsGrow`), so it is part of the log as it is now. Taking such a
  message in is then the same as taking in some of the sender's present log
  (`AsFromLog`): what the receiver holds changes nothing, and the newer part is not
  sent. Dropping or overtaking a frame cannot hurt this; it can hurt progress.
* `SyncConverges` - so `Converged` holds of the protocol, under `OneKindPerKey`.

The fourth part is about the ends of a connection:

* `SilenceMeansSynced` - `SyncInv`: when nothing is queued, on the wire or in a round of
  the hub, the client has every change of the hub, and the hub every change of a client
  that has no news. The invariant is `LinksOK`. It follows what one end has told the
  other until both have it: a head told of is held by the receiver, asked for by it, or
  still on the way; what the client asks for is in a message to the hub or remembered
  as `peerNeed` by a round that is yet to serve it, and what the hub asks for is in a
  message to the client. `Told` adds that each client is told of the hub's last heads
  or will be, by the round under way or by the one that `again` announces. The heads
  and requests of a message are those of its sender's sync state when it was generated,
  so the invariant holds although the hub's goroutines generate from a half-marked state
  and queue out of order what they generated, and although a Bloom filter may report a change the peer lacks:
  the change is asked for by name afterwards.

  Two hypotheses, and each is needed. `[]RoomInQueues`: a full queue drops the frame
  after the sync state has counted it as sent, and the client stays behind until the
  next round (`crdt_drop`). `MayWrite = Clients`: the hub applies nothing from a client
  without the right to write, so it never has what such a client holds.

`SignalProofs` proves, for any nodes, effects, watchers, goroutines and functions, and
any number of operations and panics:

* `SignalInductive` - `[]IInv`. What `SignalInv` says holds at rest only, so nothing in it
  is inductive. `IInv` says what the calls under way mean for it. A stack is nested:
  below a call that edits a subscription stands the call that holds the mutex and will
  release it (`StacksNested`), and the arguments of every call fit the state
  (`CallsFit`). For each derived value (`ValueOK`) the flag `refreshing` is set exactly
  when one call, of one stack, is evaluating it (`OneFrame`); a value not yet shared is
  neither dirty nor stopped (`Fresh`), and before it subscribes nobody knows of it
  (`Quiet`); a stopped one keeps no dependencies. The core is `Balanced`: for each subscriber and node,
  the subscriptions there are, and the pending calls that will add one, are as many as
  what the subscriber keeps to unsubscribe and the pending calls that will remove one.
  Every edit moves one unit between the two sides, whoever overlaps it.
* `StaleIsFound` - `[]FreshInv`. A clean value need not agree with its dependencies
  while calls are under way; `FreshInv` says that some goroutine then still has a call to
  make after which the value is dirty, or was computed or compared again (`Renews`).
  A publication finds its subscribers either in the list, and tells them through
  `invalidate`, or still in the section that subscribes them, whose `recheck` is yet to
  come (`SubscribedOrRenewed`, from `Balanced` and `StacksNested`). Stacks are ordered
  (`Ordered`) so that a panic cannot unwind an invalidation, and a commit directly
  follows its recheck.
* `SignalSafe` - `SignalInv` follows from both: at rest no call is pending, so
  subscriptions equal what is kept, and no clean value is out of date.
* `SubscriptionsMatch`, `RefreshesEnd`, `RefreshesAreSingle` - more of what `IInv` says:
  no subscription leaks or is lost, counted with multiplicity; no refresh is left open,
  not even by a panic; a value is evaluated once at a time, with no lock held.

`NetplayProofs` proves, of a match without a relay (`~Relay`), for any inputs, delays,
window, ring sizes, packet and checkpoint capacities, frames and packets in flight within
`NetplayAssumption` and `NetplayBounds`:

* `NetInductive` - `[]NetInv`. What a session promises is about confirmed frames, but it
  keeps neither the inputs nor the game for ever. `NetInv` compares it with `given`, what
  both players really gave: the rings hold the newest of it (`LocalOK`, `RemoteOK`); the
  game is what those inputs play up to the first wrong prediction, and from the last
  confirmed frame on what the recorded predictions play (`SimOK`); the saved states are
  beginnings of the game, one for each of the last `NRing` frames (`SavedOK`,
  `SavedAll`), so the state a rollback needs is there; checkpoints, reports noted and
  reports in flight are of frames that both have given (`ChecksOK`, `RemsOK`,
  `MessageOK`). No session can keep this alone. Inputs of the peer that a tick can bring
  must not overwrite the ring: how far one player can be ahead is what the other one has
  acknowledged plus a window and a delay (`AckOK`, and the same of each packet). And a
  packet must leave no gap: it begins no later than what its receiver has confirmed.
  The proof follows `Advance`: each packet, the repair (a rollback and the frames simulated
  again), the checkpoints, the new frame and what is sent, and then what the other player
  knows of a session that has moved on (`FineSeen`, `MessageSeen`).
* `SessionSafe` - `SessionInv`: no checkpoint holds a prediction, a match ends in a desync
  only if a build is at fault, and unacknowledged inputs are retained (`HistoryKept`).
* `SessionsRefineLockstep` - `RefinesLockstep`: each peer's frames up to the first that
  may still change are `Lockstep`'s game over the inputs given, and every tick is a step of it or a
  stutter.
* `EffectsAreCurrent` - `EffectsMatch`: the events the ledger of a player tracks are those
  of its frames as they are now simulated. A tick changes no frame before the one it marks
  (`Shows`), none before the last confirmed one, and the events of the frames from there
  on are all retained (`EventsAre`), so what `Reconcile` drops and adds is right
  (`ScreenIsRight`). This one assumes `MaxInputDelay + RingSpare >= 2`: a tick can change
  a window of frames and the new one, and `EventsFrom` reads one frame less than the ring
  holds. The code spares four slots (session.go:273), so it holds for every
  configuration.

  Two assumptions tie the sizes: `MaxInputDelay <= History - HistorySpare`, or the
  inputs of the delay would not be sent in full, and `Window + 2 * MaxInputDelay <=
  History`, or the newest inputs of the peer would overwrite one that a rollback reads.
  `NewSession` checks neither. With the code's 256 retained inputs, 16 spare, and the
  defaults of 3 and 8, both hold by far. Of the
  saved states `NetInv` needs only that there are at least `Window` of them.

Only model-checked:

* every liveness property (TLAPS does not prove fairness and `ENABLED` here);
* `CanonicalOrder`, which compares the text with a recursive walk over a tree, an
  induction over data. `Convergence` does not need it: it shows that the order is
  unique, not that it is the one `OrderListElems` computes;
* `CleanIsCurrent`, `WatchersUpToDate` and `OneNotificationPerChange` of `Signal`. What
  they add to `CleanIsChecked` is about values, and `Worth` is a recursion over the graph
  of what the functions read; the number of notifications depends on recursive refreshes;
* the invariants of `NetplayRelay`, where catching up simulates frames without repairing predictions.
