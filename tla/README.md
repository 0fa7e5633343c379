# Verification of the Kata Code server

TLA+ models of the orchestration engine of Kata Code (`apps/server/src/orchestration-v2` and what it
stands on), model-checked with TLC and, where noted, proved with TLAPS. Paths below are relative to
the repository; `V2/` is `apps/server/src/orchestration-v2/`.

Kata Code runs coding agents. A Node server owns threads, runs, messages and checkpoints in SQLite;
web, mobile and desktop clients send it commands over RPC and follow its event stream; agents
("providers") run as child processes that the server starts, steers and interrupts. The engine is
event-sourced: a command becomes events, the events update projection rows in the same transaction,
and whatever has to happen outside the database is an *effect* in a durable outbox.

## 1. Inventory

```
 clients ──command──► Orchestrator.dispatch ──► EventSink.commitCommand ──► SQLite
    ▲                   │ lock per thread         │ receipt, events,          orchestration_events
    │                   │ (KeyedLock)             │ projections, effects      ..._command_receipts
    │                   ▼                         ▼ after the commit          ..._projection_*
    │                 receipts                  PubSubs ──► streams           ..._effect_outbox
    └──────────────── live events ◄───────────────┘   └──► terminal-run listener ──► run queue
                                                              ▲
     EffectWorker slots ◄── claim ── outbox                   │ events of the run
        └── executors: turn start / control, sessions, checkpoints, titles ──► EventSink.write*
```

| Component | State | Operations | What is hard |
|---|---|---|---|
| Effect outbox `V2/EffectOutbox.ts` | table of effects (status, attempts, lease, available_at, rowid); map of cancellation signals | enqueue, cancelUnsettled, claimNext, succeed, retry, fail, signalCancellations, reconcileAfterProcessLoss, pruneSettled | cancellation racing a claim; lanes with retries; restart |
| Effect worker `V2/EffectWorker.ts` | several slots, each at most one claim | runOnce: claim, re-read, race executor and signal, settle, give back | all slots share one worker id; statements that fail; late results |
| Event sink `V2/EventSink.ts`, store, `V2/LiveStreamBudget.ts` | event table, publish lane, PubSubs, streams | write*, commitCommand, commitProjectCommand, stream | publication order; replay meets live; bounded buffers; interruption |
| Command dispatch `V2/Orchestrator.ts`, receipts | receipt per command id; lock per thread | dispatchWithReceipt, queue.resume | retries, reused ids, crash between two transactions |
| Keyed lock `packages/shared/src/KeyedLock.ts` | map key -> semaphore and users | withLock | entries removed while others come; interrupted waiters |
| Project service `apps/server/src/project/ProjectService.ts` | locks per project and workspace | commit, delete | shares ids and receipts with thread commands |
| Run lifecycle `V2/Orchestrator.ts` | runs, attempts, queue positions, holds | message.dispatch, interrupt, steer, resume, reorder, cancel, promote, handleTerminalRun, startNextQueuedRun | runs end outside the thread's lock; a queued run nobody starts |
| Run execution `V2/RunExecutionService.ts`, turn start and control, capture | a provider turn and an ingestion fiber per attempt | start, restart, steer, interrupt, ingest, finalize, capture | conditional writes against cancellation; a decision that is stale when it is written |
| Provider sessions `V2/ProviderSessionManager.ts` | an entry per session id: attached threads, busy count, idle generation and fiber, pins; an open lock per id | open, startTurn, touch, idle release, close, detach, release and its records | an idle release that decided before a turn came; an id reused by a replacement while the old release goes on; a late end of a turn; records that cannot be written |
| Runtime recovery `V2/ProviderRuntimeRecoveryService.ts` | none of its own | reconcile, prepareForShutdown | runs at startup and shutdown over everything above |
| Server startup `apps/server/src/serverRuntimeStartup.ts` | command gate, daemon | start, stop | order of recovery, daemon and commands |
| Streams to clients `V2/ThreadStream.ts`, `ShellStream.ts`, `ThreadLiveEventCoalescer.ts` | a coalescing buffer per stream | merge, flush | budget, order across flushes |
| Shared workers `packages/shared/src/*Worker.ts` | queue, lanes, coalesced values | enqueue, drain | drain under failure, interruption and shutdown |
| Client connection runtime `packages/client-runtime` | connection supervisor | connect, retry, wake, switch | timers, wake-ups, late answers |
| Scheduled tasks, routines | occurrences, webhook deliveries | claim, dispatch, observe | duplicates, crash between claim and dispatch |

Everything else (adapters, version control, terminals, relay, auth, user interfaces, build tooling)
is listed with its reason in `PROJECT.json`, `components`. The hazards of the modelled part and of
what is planned, each at its line, are in `PROJECT.json`, `hazards`.

### What makes each component correct

- Outbox and worker: a lane (a thread's effects, or its title generation) runs its oldest unfinished
  effect only; an effect is settled once and stays settled; a cancellation reaches a running
  executor if its signal is sent; nothing meant for a provider process runs in a later server process; retries end; every
  effect is settled.
- Event sink: publications have the order of the commits; every stream delivers the events of the
  table it wants, in order, each once; waiting for the publish lane cannot stop the server.
- Command dispatch: a command id has its events committed once at most; receipts and events agree;
  answers to one command agree; a plan is never stale; a lost answer is made up for by a retry.
- Runs of a thread: the queue is held as a whole or not at all, a queued run is somebody's to start
  unless the end it waited for was lost, and no message reaches a provider twice. Beside runs that a
  stale write brought back, one run blocks the thread and one provider turn works for it, no message
  is lost behind a run that goes on, and a run that ended stays ended. The thread comes to rest.
- Provider sessions: the busy count is the number of turns that work, but for ends of turns it never
  counted and starts that were interrupted; up to these no idle release ends a session a turn works
  on, and every unused one has a timer; what a provider
  asked is answered or settled, never left behind, and never settled for a replacement; a session
  shown as ready is live.
- Keyed lock: one effect at a time under a key, first come first served, and no entry outlives its
  users.

## 2. Modules

| Module | What it is | Runs and proofs |
|---|---|---|
| `EffectOutbox` | the operations of the outbox, as operators | through `EffectWorker` |
| `EffectWorker` | slots, commands, recovery and the server process over the outbox | `effect_*` |
| `LaneQueue` | abstract: jobs in lanes | `ImplementsLaneQueue` |
| `EffectWorkerProofs` | types, claims, lane order, no replay, cancellation, bounded retries, the refinement of `LaneQueue` | 8 theorems |
| `EventSink` | writers, publish lane, PubSubs, streams | `event_sink_*` |
| `EventSinkProofs` | publications in the order of the commits, types, no event out of a stream's reach, the refinement of `EventFeed` | 4 theorems |
| `EventFeed` | abstract: one log, readers with a position | `ImplementsEventFeed` |
| `KeyedLock` | acquire, release, withLock over the library's semaphore | `keyed_lock` |
| `FifoLock` | abstract: a line per key | `ImplementsFifoLock`, `KeepsToTheLock` |
| `Lines` | lines: `Without` a fiber, the part that is kept by `Only`, and what joining, leaving and keeping do to one | lemmas for all who wait in lines |
| `KeyedLockProofs` | types, mutual exclusion, no stale entries, the refinement of `FifoLock` | 4 theorems |
| `CommandDispatch` | lock, receipt, plan, commit, answer; threads and projects | `command_dispatch_*` |
| `CommandDispatchProofs` | types, receipts match the log, committed once, current plans, locks kept to, answers agree and stay true, resumed queues are started | 8 theorems |
| `RunQueue` | the runs of a thread: commands, turn executors, ingestion, captures, listener, recovery | `run_queue_*` |
| `RunQueueProofs` | the queue is held as a whole and never stranded, one blocking run, ended runs stay ended | 4 theorems |
| `RunQueueTurnProofs` | types, messages given once and accounted for | 3 theorems |
| `ProviderSessions` | one provider session id: opens, turns, idle fibers, releases and their records | `provider_sessions*` |
| `ProviderSessionsProofs` | exact count, no session cut short or unwatched, requests and rows settled | 8 theorems |
| `MC*` | constants and symmetry for TLC | |

`KeyedLock` implements `FifoLock`, and `CommandDispatch`, whose locks are a line of fibers per
thread or project, uses them exactly as `FifoLock` offers (`KeepsToTheLock`): the two are checked
apart and fit together at that interface. Operators called `X_Something` next to an `X`, commented
"Mutant", are broken variants of `X`: each property has one that it catches.

### EffectOutbox and EffectWorker

A row is spread over functions of its effect id (`status`, `attempts`, `lease`, `rowid`, `due`);
`due` is the only thing kept of timestamps: "available_at is in the past". `signals` is
`cancellationSignals`, an entry being the slot whose `Deferred` it holds. Each SQL statement is one
step, because SQLite runs it atomically; the JavaScript between two statements is a step of its own
exactly where another fiber can tell: the claim's UPDATE and the `Map.set` after it (`Claim`, `Arm`),
the re-read (`Execute`, `RecheckCancelled`), the settlement and the `Map.delete` after it
(`Unsignal`). The commit of a command and the `signalCancellations` after it are two steps (`Write`,
`SignalCancellation`); the second is part of the interruptible publication
(`V2/EventSink.ts:570-577`), so `LoseSignal` may come in its place. `unheard` remembers, for the
properties only, the slots that can no longer be told: those whose signal was lost so, and those
whose `Deferred` was deleted from the map by the slot of an earlier claim of the same row. A row
that was pruned gives its id free again, which only a restart continuation makes use of.

`Fault` and `Abandon` are failing statements and what the error handlers make of them: requeue,
terminalize, or only a log line. `Crash`, `Shutdown`, `Boot`, `ReconcileThread`,
`PrepareContinuation`, `RetireLost`, `RequeueLost` are the process: a new one has a new incarnation,
which stands for the pid in the worker id, and recovers before the daemon starts and the command
gate opens. Payloads are left out; an effect's executor is the choice between its three outcomes.
`claimNext` can also leave out restart continuations (`excludeRestartContinuations`, for
`runRecoveryOnce`); nothing in production calls it so, and the model does not either.

### EventSink

`log` is the event table, an event its sequence and topic (thread and type as far as a filter can
tell). A writer runs its transaction, takes the lane as the last step of it, commits, publishes to
the application's PubSub, to the thread PubSub and to the typed ones, and releases the lane. A
stream subscribes, reads the high-water mark, reads pages, and goes on with what it was sent:
bounded ones (RPC clients) through a buffer that a fiber fills from the start and that closes the
stream when full; an internal listener straight from its subscription, after it has read the latest
sequence. A client keeps its cursor across a lost connection or a restart; a listener starts anew at
the end of the log. The transaction is one step but for its last: the connection admits one
transaction at a time and readers see committed rows only. `InterruptPublish` is a writer's
fiber interrupted between commit and publication; `missed` remembers, for the properties only, which
events an open stream can no longer come across because of it, and `EventFeed` allows a reader to
lose those and no others.

### CommandDispatch

A request waits in the line of its aggregate, looks its receipt up (thread commands only), is
planned, and commits, records an empty outcome, or records a rejection; `queue.resume` then starts
the next queued run in a transaction of its own. What a plan decides is a choice, since it depends
on projections that are not modelled; `planned` remembers the version of the aggregate it was made
on. Thread and project commands share receipts and log, as in the database. Failing statements,
interruptions of a request and crashes may come between any two steps, and a crash holds queued
runs, as recovery does before commands are admitted. A client may send any request again at any
time, whether answered or not. `runQueue` has a thread with no active run and no usage limit, the
state in which `startNextQueuedRun` does start something.

### RunQueue

One thread and everything that writes to its runs. Runs, attempts and messages are numbered in the
order they are made; a prompt is the message an attempt starts with, and text, models, nodes and
items are left out.

- *Commands* (`SendFresh`, `SendJoining`, `Stop`, `Edit`, `Prepared`, `Listen`) hold the thread's
  lock from their read to their commit, so each is two steps: what it decided there is in `plan`,
  and a `Commit*` action writes it without reading again. `Listen` is `handleTerminalRun`, which
  goes on with `ReadQueue` (`startNextQueuedRun`) under the same lock. `Prepared` is the launch
  service's report on a workspace. `TooLate` and `Steerable` decide whether a message joins the
  running turn, restarts it or starts a run of its own.
- *Executors* (`Worker`) take the first effect of the thread's lane, one at a time (this is what
  `LaneOrder` of `EffectWorker` says), up to `MaxTries` times. A start re-reads its run, opens the
  session, looks at the run once more and calls the provider; every one of these writes is a
  `writeIfRunCurrent`, which `IsCurrent` stands for. A restart asks the old turn to stop and polls
  for its end. A steer gives its message to the running turn, or, when that one completed, sends it
  again under the thread's lock (`FollowUp`); the dispatch then settles the effect.
- *Ingestion* (`TurnProjected`, `TurnEnds`, `Decide`, `Finalize`) runs in a fiber per attempt and
  holds no lock. A turn that completed leaves its run `waiting` for the capture that completes it;
  one that failed or was interrupted ends the run at once. Every end is a notice for the listener.
- *Failures*. `SessionFails` and `TurnRefused` are the failures that end the run; after any other
  one of a start (`StartFails`) or a capture (`CaptureFails`) the effect is tried again and dropped
  after the last try, and nothing ends the run. `Lose` is a notice that starts nothing: the
  publication of the end was interrupted after its commit, or `handleTerminalRun` failed before it
  read the queue or after, which it only logs (`V2/Orchestrator.ts:10341-10349`).
- `ServerRestarts` is the end of a process and the recovery of the next: blocking runs are
  cancelled, except those whose capture is replayed; effects that need the old provider process are
  dropped; the queue is held.

Nothing keeps a fiber without the lock from stepping between the read and the write of another, and
four writes do not look at the run again: the commit of a Stop, that of a restart, the commit of a
capture, and `writeFinalRunEvents`, which writes the run as its attempt started it
(`V2/RunExecutionService.ts:583` to `780-792`). The model has all these interleavings, always.
`Misled(r)` says that somebody is about to write run `r` by what it no longer is, and the history
variable `overtaken` collects the runs that moved on under such a write. Their end, their attempt or
their message can be written over, a second run can block beside one of them, and a turn can work
for one; `OneBlockingRun`, `OneTurn`, `Accounted` and `EndedStaysEnded` say that this is all that goes
wrong: they claim their part for every other run, and of the writes that come *after*. `missed` is
the history of `Lose`: an end nobody handled, until the queue is read again.

`Abandoned` names three known limits of the code, the exceptions in `ComesToRest`. A start or a
restart that is dropped after its tries (`V2/EffectWorker.ts:697-730`) leaves its run `starting`, or
`running` without a turn; the user has to stop it. A capture that is dropped leaves its run `waiting`,
which blocks the thread, and a Stop does not take a waiting run: it takes a restart of the server.

### ProviderSessions

One session id and the runtimes that are live under it one after the other, numbered as they are
opened. `live`, `attached`, `busy`, `generation` and `pins` are the entry of the sessions map;
`stage` is what else there is of a runtime, from its open to the record of its end, because a
release goes on after the entry is gone and a replacement may be open by then. Everything the code
does by id (`Attach`, `MarkBusy`, `MarkIdle`, `Schedule`) acts on whichever runtime is live, and
what it does by runtime (`PumpEnds`, `Record`) on that one.

- *Opens* (`Opens`, `OpenJoins`, `OpenInserts`, `AttachWrites`, `PumpStarts` and their failures)
  hold the id's open lock. The first write of a thread's attachment is a step of its own, since the
  session is already in the map and can be released meanwhile; the open then undoes itself
  (`AttachFails`, `OpenUndone`).
- *Turns* (`TurnAttaches`, `MarkBusy`, `TurnAccepted`, `TurnRejected`, `TurnEnds`) are called on the
  runtime the open returned, which may have been replaced: `turn[t].on` is that one, `counted` the
  one whose entry took the count. `Compacts` is a `/compact` message: `compactThread` is not wrapped
  by the manager and never counted, but its end is a `turn.terminal` like any other
  (`V2/ProviderSessionManager.ts:1606-1610`). `StartInterrupted` is a start cancelled after
  `markBusy`, for which nothing marks the session idle (`1531-1549` catch typed errors only). Two
  histories, for the properties only: `strays`, how far ends of turns the entry never counted, a
  compaction's or one's of a replaced runtime, have taken its count down, and `leaks`, the counted
  starts that were interrupted.
- *Idle fibers*: `Schedule` interrupts the entry's fiber, `Rearm` forks the next one and takes the
  generation, `IdleProbes`, `IdlePinned` and `IdleReleases` are `releaseIfStillIdle`, which asks the
  runtime about background work between its two looks at the entry. A timer may fire at any time.
- *Interruptions* of an effect may come inside `adapter.openSession`, between the insertion, the
  attachment and the start of the pump (`OpenInterrupted`), before the turn is counted
  (`TurnDropped`), after (`StartInterrupted`), and between the interruption of an idle fiber and the
  fork of the next (`RearmInterrupted`). `orphan` is the history of those that took a live session
  the fiber it was about to get.
- *Releases* (`Close`, `Detach`, `IdleReleases`, `PumpEnds`) remove the entry at once; `Record` is
  `writeReleaseRecords`, two writes that can fail one without the other, and `RetryRecords` the
  retry under the open lock, which leaves the status of a replacement alone.

Taken for granted, as the code around it has it: the lane of a thread runs one effect at a time, so
a detach never comes in the middle of a start of that thread (`V2/EffectOutbox.ts`); an exclusive id
is given to one thread and a shared one to all threads of an instance (`V2/Orchestrator.ts`); a
closed runtime rejects starts, and a running turn reports its end once; a turn's request is ingested
only while its runtime is open; the check and the write of an attachment or a status report are one
step (they hold the manager's write lane); a detach is one step, although the code unloads the
thread between taking it off and releasing. Left out: credentials, marks for loading and unloading,
subscribers of a session's events, shutdown, and how a request is answered.

What the properties say only up to a history, or not at all:

- A compaction's end, or that of a turn of a replaced runtime, takes the count of a working turn
  away; the idle release it arms can then end the session under that turn. `NeverCutShort` allows as
  many cut turns as there were strays, and none else. A compaction itself is not counted, so an idle
  release can cut it short at any time.
- An interrupted start leaves the count up for good, and an effect cancelled between the insertion of
  a session and its first idle fiber, or between two fibers, leaves a session that no timer releases
  until something touches it: `leaks` and `orphan` of `UnusedIsWatched`. A cancellation inside
  `adapter.openSession` leaves the scope made for it open.
- The first try of the release records does not hold the open lock and is not told of a
  replacement, so it can write "stopped" over a replacement's "ready"; only the retry looks.
- A shared session whose last thread was detached and which is then released has no thread to
  record its end in, and its row stays "ready": the last disjunct of `ReadyIsLive`.

### KeyedLock

`Acquire` and `Release` are the two `Ref` updates; `Queue`, `Take`, `Done` are the library's
semaphore with first-in-first-out waiters, and `GiveUp` is an interrupted waiter. Semaphores are
numbered as they are made, so an entry that was removed and made again is told from the old one.

## 3. Runs

| Run | Properties | Bounds |
|---|---|---|
| `effect_crash` | LaneOrder, NeverReplayedAcrossProcesses, CancellationReachesExecutor, SettledIsFinal, ImplementsLaneQueue | 2 slots, 3 effects of one thread (start, interrupt, continuation), 3 processes |
| `effect_faults` | ClaimIsKept, RetriesAreBounded, SettlesUnlessLaneStranded | fair; 2 slots, 3 effects of one thread, 2 processes, 2 failing statements, 1 payload that does not decode |
| `effect_overlap` | OneExecutionPerLane *(violated)* | 2 effects, no fault |
| `event_sink_feed` | TypeOK, PublishesTheEndOfTheLog, NoEventIsOutOfReach, ImplementsEventFeed, EveryEventIsDelivered, LaneIsAlwaysObtained | fair; 2 writers, 1 stream of each kind in turn, 3 events, pages of 1, buffer of 2, 1 fault |
| `command_dispatch_reuse` | PlansAreCurrent, AnswersAgree, ReceiptsMatchTheLog, KeepsToTheLock, AnsweredIsFinal, ResumedQueueIsStarted, RequestsAreAnswered | fair; 3 handlers, 2 commands of one thread, the id of one also used for a second thread and a project, 4 requests, 2 faults |
| `command_dispatch_foreign` | SuccessIsForOwnThread *(violated)* | 2 handlers, 2 requests, no fault |
| `command_dispatch_held_again` | ResumeEndsTheHold *(violated)* | 1 handler, 2 requests, 1 crash |
| `run_queue_thread` | TypeOK, OneBlockingRun, OneTurn, HeldTogether, NeverStranded, GivenOnce, Accounted, EndedStaysEnded, ComesToRest | fair; 3 messages (`MCModes`: started, deferred; queued, steering, restarting), 4 runs of 2 attempts, effects tried twice, 2 of: 1 stop, 1 edit, 1 restart, 1 lost end |
| `run_queue_stop` | StopReachesTheTurn *(violated)* | 2 messages, 1 stop, 1 edit, nothing lost |
| `provider_sessions` | BusyIsExact, NeverCutShort, LeftoversAreSettled, ReplacementKeepsItsRequests, ReadyIsLive, UnusedIsWatched | 2 threads, both kinds of provider, 2 runtimes, 2 turns, 1 request, 2 upsets (interruptions included), 1 pin |
| `provider_sessions_detach` | NoRequestIsLeftBehind *(violated)* | 1 thread, exclusive, 1 runtime, 1 turn, 1 request |
| `keyed_lock` | MutualExclusion, EntriesAreInUse, ImplementsFifoLock, EveryoneGetsTheLock | fair; 3 fibers, 2 keys, 4 semaphores |

`TypeOK` of `EventSink` and `RunQueue` is checked by a run and proved; that of the other modules, and
`CommittedOnce` of `CommandDispatch`, are theorems for all constants and not checked again.

What they show, beyond the names:

- `effect_crash`: whatever order commands, cancellations, two slots, a crash or a shutdown and the
  recovery come in, a lane works on its oldest unfinished effect, and the next process runs nothing
  that was meant for a provider process of the last. A cancellation misses a running executor in two
  cases only: the fiber that committed it was interrupted before it sent the signal, or an earlier
  claim of the same row deleted the `Deferred`.
- `effect_faults`: an effect that is never settled is always behind a row that this server process
  left `running` with no slot to settle it. Leases are written and never read, so only a restart
  frees such a lane; there are two ways into it, a payload that does not decode and a settlement
  whose requeue fails too.
- `event_sink_feed`: the promise of `EventFeed` holds from the client's point of view, across lost
  connections and restarts; what is lost is exactly what an interrupted publication owed.
- `command_dispatch_reuse`: `AnswersAgree` needs the ids of commands that may find nothing to record
  (`thread.stop`) to be aimed at one thread, as they are here: such a command does not look whether
  its id was taken after its lookup, so a client that used one id for two threads could be told
  "done" first and "rejected" on a retry. TLC finds that in a few steps with `Requests` =
  `{[c1, t1, settle], [c1, t2, plain]}`. All other ids may be reused at will.
- `run_queue_thread`: whatever is sent, stopped, edited, retried or lost with the process, and
  whatever steps between a read and its write, the queue is held as a whole, no message is given
  twice, and a queued run waits for somebody unless an end was lost. One run blocks the thread, one
  turn works for it, no message is lost behind a run that goes on and an ended run stays ended *beside
  the runs that moved under a stale write*: for such a run all four do fail, within a few steps of the
  interleavings in section 4. The thread comes to rest, but for the abandoned runs of section 2.
- `provider_sessions`: of themselves re-armed, stale and orphaned idle fibers neither end a session
  under a turn it counts nor leave one without a fiber; a release, its failing records, their retry
  and a replacement under the same id leave no request pending and settle none of the replacement's.
  The count goes wrong in three ways: a turn counted by one runtime ends under the next, a compaction,
  which was never counted, ends, and a counted start is interrupted. `BusyIsExact` says by how much,
  `NeverCutShort` and `UnusedIsWatched` how far the harm goes.

**Why the bounds are enough.** The races are between two actors: two slots and the command that
cancels, two writers, two commands, one who holds a lock, one who waits and one who comes. Three
effects give a lane a running row, a waiting one and one that is inserted meanwhile; two processes
give one that is lost and one that recovers, and three one that recovers from a recovery. Pages of one row put a page boundary after every event
and a buffer of two fills at once. A stream's rules do not involve other streams, so one subscriber,
of every kind in turn, is enough. In `RunQueue` three messages give a run that
works, one that waits and one that comes; the fourth run is for a message sent again as a follow-up;
two attempts are one that is superseded and one that supersedes it, two tries one that is repeated
and the last; two events of different kinds are a Stop next to a lost end, an edit or a restart of
the server, and the theorems hold for any number of each. In `ProviderSessions` the cases are about a runtime and its replacement, a turn that
runs and one that comes, a request that is asked, left and settled; two upsets are a close and a
write that fails, or an interrupted start and whatever comes next. Four requests let a command be sent, cut off and sent again next to another one.
All counters that would grow (`log`, `sent`, `faults`, `incarnation`, semaphores
made) are bounded in the guards by a named constant. Symmetry is used on slots
in `effect_crash` and on threads in `provider_sessions`, which check safety (and a refinement)
without fairness.

**Deadlock.** `CHECK_DEADLOCK FALSE` everywhere: each system stops when the bounds are used up (all
effects settled, all requests answered, the log full). That nothing stops earlier is what the
fair runs show.

**Fairness.** Weak, and only for what the code does by itself. Slots: the daemon loop never ends and
polls every 30 s at the latest, and executors are taken to return. Signals: `signalCancellations`
follows the commit in the same fiber. Clock: retry delays pass. Server: a started process finishes
recovery and a lost one is started again. Writers: from the open transaction to the released lane
nothing waits for another party but the lane itself. Streams: clients read. Handlers: a fiber that
holds a lock runs on, and whoever is first in line gets the permit. `Server` of
`RunQueue`: lock holders commit, the listener hears of ends, executors return, ingestion fibers
finish; providers end the turns they run and the launch service reports on its workspaces. It is one
weak fairness for all of them together, less than each fiber is due. `ProviderSessions` states none:
`UnusedIsWatched` is the safety form of "an unused session is closed in the end". Nothing is assumed
fair of clients, failures, crashes, interruptions or the plan's choice.

## 4. Findings

Five statements of the repository that the code does not keep; `PROJECT.json`, `findings`, quotes
them.

1. *"Each thread runs its effects one at a time"* (`V2/EffectOutbox.ts:309`): a cancelled row frees
   its lane while its executor still runs (`effect_overlap`).
2. *"Replaying it for a command aimed at another thread would report success for work that never
   happened"* (`V2/Orchestrator.ts:10149`): the check is missing on the receipt that `commitCommand`
   finds (`command_dispatch_foreign`).
3. *"holds unstarted runs until an explicit queue.resume command arrives"*
   (`V2/Orchestrator.ts:10377`): a retried `queue.resume` whose first try was cut off by a restart is
   answered as done and leaves the queue held (`command_dispatch_held_again`).
4. *"the running turn (or one whose background work is still pending) is interrupted"*
   (`V2/Orchestrator.ts:8728`): a Stop between the commit of a restart and its effect finds no turn
   of the new attempt, ends the run and leaves the old attempt's turn running (`run_queue_stop`).
5. *"resolves the live runtime requests it left"* (`V2/ProviderSessionManager.ts:746`): a detach
   takes the thread off the entry first, and the release that follows settles nothing for it
   (`provider_sessions_detach`).

Not runs, but seen while modelling:

- A slot suspended between the UPDATE of `retry` and the `Map.delete` after it takes the next claim's
  signal with it: `unheard` stands for that, as for a signal whose fiber was interrupted before it
  was sent (`V2/EventSink.ts:570-577`).
- A writer is said to hold the publish lane *"until it has published"* (`V2/EventSink.ts:235`), but
  the publication is interruptible and the lane is released all the same. A client gets the event
  when it reconnects; the listener of terminal runs does not. `missed` of `EventSink` stands for it.
- An attempt that decided to end the run before a restart was committed writes itself back as the
  active one (`V2/RunExecutionService.ts:643`), although superseded attempts are said to remain
  superseded, and a run that a Stop ended meanwhile is written over (`780-792`). A Stop, a restart and
  a capture do the same to a run that moved after they had read it. `overtaken` stands for these.
- A `/compact` turn lowers the busy count it never raised, and an interrupted start leaves one behind
  (section 2, `ProviderSessions`). `strays` and `leaks` stand for these.

## 5. Proofs

For all values of the constants that satisfy the modules' assumptions: distinct sentinels, finitely
many fibers (`KeyedLock`), natural bounds, types of effects. `TypesAssumption`,
`WorkerAssumption`, `SinkAssumption`, `LockAssumption`, `DispatchAssumption`, `RunQueueAssumption`
and `SessionAssumption` are evaluated by TLC on every run.

- `EffectWorkerProofs`
  - `TypeCorrect`: `Spec => []TypeOK`; one step per action, with lemmas for the operators that the
    actions share (`WriteType`, `GotoType`, `AfterSettleType`, ...).
  - `ClaimsAreKept`: `Spec => []ClaimIsKept`. `ClaimIsKept` alone is not inductive: the
    strengthening `Claims` adds which phases slots can be busy in, so that recovery never touches a
    row that a slot holds.
  - `WorkStaysWithItsProcess`: `Spec => []NeverReplayedAcrossProcesses`. `OwnWork` says that an
    unsettled row of a process-bound type was inserted by the present process once that has passed
    the retiring step of its recovery, and that whoever holds such a row holds one of its own.
  - `CancellationsReachExecutors`: `Spec => []CancellationReachesExecutor`. `Reachable` says that the
    entry of a claim is in the map from the registration of its `Deferred` to the end of its
    execution: no other slot has the row (`Claims`), and a slot that still has its `Map.delete` ahead
    of it can only take the entry of a later claim, which is `unheard` from then on. The one other
    exception is a signal that was never sent.
  - `RetriesEnd`: `Spec => []RetriesAreBounded`. `Tries` adds that a row that waits, or that a
    recovery is about to give back, has an attempt left; a failed statement and a new process each
    add one.
  - `LanesAreOrdered`, `SettledStaysSettled`, `OutboxIsALaneQueue`: `NextIsTableStep` shows that every
    step changes the table in one of a few ways (`TableStep`: insert and cancel, claim, give back,
    settle); `Numbered` says that row ids are distinct and below `nextRow`. Lane order, the finality
    of settled rows and the refinement `Spec => Queue!Spec` are then arguments about the table
    alone: each of its changes is a step of `LaneQueue` or a stutter.
- `EventSinkProofs`: `CommitOrderIsPublicationOrder`, `Spec => []PublishesTheEndOfTheLog`. Of the
  writers alone: `OneTransaction`, `OneLane` (from the last statement of a transaction to the release
  the lane is one writer's), `NumberedNext` (the rows of the open transaction come right after the
  log, because nobody else appends before it ends). Streams never write.
  - `SinkIsTyped`, `NothingIsSkipped`: `Spec => []TypeOK` and `Spec => []NoEventIsOutOfReach`, from one
    invariant, `SInv`: beside the writers', a stream is `InStep`. `HoldsTheLog` says that pages,
    subscriptions and buffers hold entries of the log in increasing order, `CursorFits` and
    `PhaseFits` where they begin and end in each phase, and `NothingSkipped` that a wanted event after
    the cursor is in one of these places, in the part of the log still to be read, in what a writer
    is about to publish (`Coming`), or among those that an interrupted publication owes.
  - `SinkIsAFeed`: the refinement `Spec => ImplementsEventFeed`. What a stream hands to its client is
    the next event it wants, because everything wanted before it would have to be somewhere ahead of
    it, and the places are in order.
- `Lines`: lemmas for whoever waits in a line. Leaving gives up one place, keeps the order of the
  others, and keeps the first one first unless it was the one who left; joining adds one place at the
  end; being served takes the first. `Only(line, S)`, the part of a line that is in `S`, is a recursive
  function on the naturals. `OnlyShape` says what it is (the kept entries, each once, in their
  order) by induction over the set of lengths for which that is so (`NatSets`), since the library's
  induction theorem takes an operator as its parameter.
- `KeyedLockProofs`: `TypesHold`, `MutualExclusionHolds` and `EntriesAreInUseHolds`. The invariant
  `IInv` counts users (`UsersAreCounted`: the number in an entry is the number of fibers between
  acquire and release), keeps entries whole, gives all users of a key one semaphore, and lets who
  runs hold its permit. Mutual exclusion follows because two runners of a key share a semaphore with
  one holder. `LocksAreFifo` is the refinement `Spec => ImplementsFifoLock`: the line of a key is the
  holder of its entry's semaphore and the waiters behind it, and `LInv` adds to `IInv` that no two
  keys share a semaphore (`KeysDiffer`) and that the waiters of a semaphore are the fibers queued at
  it, each once (`LinesFit`). A grant is then a step of the line's head, an interrupted waiter one
  that leaves it, and the entry that is made again an empty line.
- `CommandDispatchProofs`
  - `TypesHold`: `LatestSequence` is a `CHOOSE` among the sequences of an aggregate, and a number
    only because one of them is the largest; `HasLatest` keeps that through every append.
  - `ReceiptsMatch`, `CommandsCommitOnce`: `ReceiptsMatchTheLog` is inductive with the types: a batch
    is appended only together with the receipt that was free, and no other step changes a receipt
    that exists. That no id is committed twice follows: two entries of the log with one id would be
    named by one receipt with two sequences.
  - `PlansStayCurrent`: `Spec => []PlansAreCurrent`. Only the first of a line appends to its
    aggregate (`AtHead`), everyone at work is in the line (`InLine`), and by the lemmas of `Lines`
    who comes, goes or gives up leaves the first one first.
  - `LinesAreFifoLocks`: the refinement `Spec => KeepsToTheLock`; `Queued` says that who stands in a
    line is not idle and stands there once, so that arriving and leaving are steps of `FifoLock`.
  - `AnswersStayTrue`: `ASSUME SettlesAreOwn PROVE Spec => []AnswersAgree`. `AInv` ties every final
    answer to the receipt of its id (`Said`): a success has an accepted one with its sequence, a
    rejection a rejected one, a failure none that is accepted for its own thread. `Doing` is what a
    handler may rely on between lookup and answer: only other threads or projects can take its id
    meanwhile, because it holds the lock of its own, and no earlier answer contradicts the one it is
    about to give. `SettlesAreOwn` is the hypothesis stated in section 3.
  - `DoneStaysDone` and `ResumedIsStarted`: the action properties `AnsweredIsFinal` and
    `ResumedQueueIsStarted`, for any reuse of ids. `Does` says what one step of a handler can do to
    receipts, log and answers; `DInv`, that a success has a receipt. An event is only appended for an
    id that has none.
- `RunQueueProofs`: for any number of runs, attempts and messages, and any interleaving; nothing is
  assumed about who may step when.
  - `QueueIsHeldTogether`: `Spec => []HeldTogether`. `HInv` holds what the lock protects while fibers
    without it step in: what a plan may rely on (`PlanHolds`: a run to be queued is fresh, one to be
    launched is queued, a planned hold still is what the queue is), what an executor holds
    (`StepHolds`) and which runs a turn can belong to (`TurnHolds`). Its consequence for the queue is
    that nothing but a command changes which runs are queued.
  - `NobodyIsStranded`: `Spec => []NeverStranded`. `SInv` adds `Served`: a queued run that is not held
    has a blocking run, a limit, a notice, a lost end or a plan that serves it (`PlanServes`), and a
    run stops blocking only in a step that leaves a notice. Only `Lose` takes a notice away
    unhandled, and only reading the queue clears `missed`.
  - `EndedRunsStayEnded`: `Spec => EndedStaysEnded`. `EInv` is what `overtaken` is for: of a run that is
    not overtaken, whoever is about to write it has it as it is (`~Misled`, `PlanReads`), since the
    step that moves it under such a writer adds it to `overtaken` (`NobodyIsMisled`).
  - `OneRunBlocks`: `Spec => []OneBlockingRun`. A run starts to block only under the lock, when none
    does but overtaken ones; `BInv` keeps the plan's view of that true until the commit, because
    without the lock no run that is not overtaken comes to block the thread.
- `RunQueueTurnProofs`: likewise.
  - `RunsAreTyped`: `Spec => []TypeOK`. That effects stay effects through retries and cancellations is
    `OnlyShape`; `AInv` adds to the types what starts and steers carry: every attempt that starts or
    is planned has a message (`Addressed`).
  - `UInv` says which turns may still begin, of all runs, overtaken or not: attempts are made one
    after the other, a run that has not begun has no turn, no plan or effect but those that may begin
    it (`RunFits`, `PlanFits`, `LaneFits`), and an attempt that is about to start has no turn. A stale
    write brings a run back as `starting` only with a new attempt, so a turn begins once at most.
  - `MessagesAreGivenOnce`: `Spec => []GivenOnce`. `GInv` gives every message that no provider has at
    most one holder: the attempt its run is in, whose turn has not begun, the one an executor is
    starting, or one steer effect (`MessageFits`). A command moves it from one to another in one
    commit (`PlanMessage`); only the step in which a provider accepts it takes it from its holder.
  - `MessagesAreAccounted`: `Spec => []Accounted`. `MInv` says that there *is* a holder (`NotLost`):
    the lane, the current attempt of the run, or an end that was not a completion. A run leaves an
    attempt behind, and waits or is completed, only when that attempt's turn has begun (`RunGives`),
    and the message of a turn that has begun was given (`BegunIsGiven`).
- `ProviderSessionsProofs`: for any number of threads, runtimes, turns and requests.
  - `Invariance` carries one conjunction, `IInv`, part by part. Its base is about the entry and the
    lock: `LiveIsOpen` (the live runtime is the only one that is open), `LockHolds` (what the holder
    of the open lock may rely on while others remove its session), `EntryHolds`, `TurnsHold`,
    `TimersHold`. `BusyCountIsExact`, `Spec => []BusyIsExact`, counts turns with `Cardinality` and is
    needed for the types, because `strays` is only a number as long as the equation holds.
  - `NoLeftovers`, `ReplacementsKeepTheirRequests`, `ReadyRowsAreLive`: `CutoffsHold` says that the
    requests of a removed runtime are within its cutoff and those of the open one beyond every
    cutoff, `ServedHold` that only a removed runtime has served threads.
  - `SessionsAreNotCutShort` follows from the exact count: an idle fiber releases at a count of
    zero, so the turns the session counts are at most the strays.
  - `UnusedSessionsAreWatched`: `Spec => []UnusedIsWatched`, for interruptions anywhere.
    `UnusedIsWatched` is not inductive, because a fiber of the right generation may belong to nobody;
    `Watched` asks for the entry's own fiber, which only a step that re-arms, counts a turn or is
    interrupted takes away. A count that strays have lowered only arms a fiber too many.

**Only model-checked.** Every invariant, action property and refinement that a run checks and finds
true is stated by a theorem, but for `OneTurn`, which needs the turns of one run counted through
every restart of it. What else is left to TLC is liveness under fairness, which is out of the
prover's reach: `SettlesUnlessLaneStranded`, `EveryEventIsDelivered`, `LaneIsAlwaysObtained`,
`RequestsAreAnswered`, `EveryoneGetsTheLock`, `ComesToRest`. `Accounted`, and the theorem about
it, leave out the messages whose steer effect the worker gave up (`forfeit`).

## 6. Not modelled, and why

The plans of single commands, projections, provider protocols and everything that is one request to
one file, process or service: sequential code that its unit tests reach. The rest of the engine is
planned:

1. `EffectDaemon`: the availability queue (64 tokens, dropping), alarms and polls, composed with
   `EffectWorker`, so that its weak fairness of slots is derived instead of assumed; the command
   gate of the startup.
2. `RunQueue` further: delegated children and the order of their completions, several provider
   instances in one thread (handoff, switch), account commands that settle their run before a turn
   starts (`settleRunBeforeStart`: `/compact` on an empty thread, sign-out),
   rollback, edits of queued messages, continuation after a restart, background work behind a
   completed turn, statements of ingestion that fail, restart requests that come in while an earlier
   one is being written.
3. `ProviderSessions` further: shutdown, loading and unloading of threads, credentials, subscribers
   of a session's events, answers to requests; its composition with the executors of `RunQueue`.
4. `SharedWorkers`: `DrainableWorker`, `KeyedDrainableWorker`, `KeyedCoalescingWorker`, each with an
   abstract promise for `drain`; the live-event coalescer.
5. `ConnectionSupervisor` of the client runtime, scheduled tasks and routines.

Theorems planned: `Spec => []OneTurn`, and those of the modules above.
