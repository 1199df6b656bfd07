# A verification project for yaebal

yaebal is a TypeScript framework for Telegram bots: a core (`src/packages/core`)
that receives updates by long polling or by webhook and runs them through a
middleware chain, and some fifty packages around it. This directory holds TLA+
models of its concurrent parts, TLC configurations that check small instances of
them, and TLAPS proofs about all of them (the polling loop, the runner with its
scheduler, the worker pool, the webhook chain, broadcast, throttle, cron and the
cache) for every value of the constants.
`PROJECT.json` is the index: components, runs, the source lines each definition
stands for, hazards, findings and theorems.

All of the code runs on one JavaScript event loop. An action of a model is what
happens between two awaits: a handler, callback or continuation runs to its next
`await` without interruption, and anything may happen at the await. That is
where the hard behaviours of this code are: state read before an await and used
after it, timers that race answers, requests the client gave up on that still
reach the server, and crashes between an effect and the note that it happened.

## Inventory

### Modelled

| Component | State it keeps | Operations | Hard behaviours | What makes it correct |
|---|---|---|---|---|
| bot life cycle and polling, `core/src/bot.ts` | `#offset`, `#sentOffset`, `#pollAbort`, `#pollingPromise`, `#stopPromise`, `#initPromise` and its signal, `#info` | `init`, `start`, `stop`, the poll loop, `#confirmHandled`, `#runStopHandlers` | stop at every await; a getMe shared by cycles and cancelled by one of them; hung, failed and late polls; a failed confirming request; a crash | nothing confirmed before it is handled; nothing handled twice in a process; a stop ends the cycle; a cycle never waits for a cancelled getMe |
| runner, `runner/src/index.ts` | `tails` by key, the FIFO of waiters, `active`, `pending`; offset, `stopped` | scheduler `submit`, `acquire`, `release`, `onIdle`, `whenBelow`; the loop; `stop` | order within a key while slots are scarce; backpressure; a stop racing the reply of a poll | per-key order and the cap hold; what a crash can lose is bounded; stop drains and returns |
| worker pool, `workers/src/pool.ts` | queue with stale entries, `queuedCount`, slots with tasks and kill timers, crash counts, close state | `run`, abort, timeout, pump, answers, exits, respawn, `close`, `destroy` | an answer, abort, timeout, exit and destroy racing for one task; zombies; a place freed without a pump | a task is settled once; workers do not idle while tasks wait; close resolves |
| webhook handler, `core/src/webhook.ts` | the open requests, `bot.init()` | a delivery, its timeout and error policies | a slow run that is answered and delivered again; parallel deliveries; crashes | an acknowledged update was handled |
| sequentialize and dedupe, `web/src` | a tail per key; `seen` and `order` | join, release; remember, forget, evict | a lane never released; a duplicate judged before the run in flight has ended; eviction | one update of a chat at a time; applied once |
| session, `session/src/index.ts` | the stored record; the value an update loaded | load and flush around the handler | concurrent read-modify-write | no change is clobbered |
| broadcast, `broadcast/src/index.ts` | the stored job and deliveries with their leases; per process `#stopped`, the timer, the pump, `#pumpAgain`, the tasks in flight | `start`, `#enqueue`, `#pump`, `claim`, `nextDueAt`, `#process` with its retries, `pause`, `resume`, `cancel`, `run`, `stop` | several processes on one storage; a crash or storage error between a send, its record and its count; leases that expire; whole jobs written back from stale copies | a message repeats only after a fault of its own; the counters are exact; a job completes when nothing is left, and does complete |
| throttle, `throttle/src/index.ts` | `#jobs`, the pass under way, `runAgain`, the timer; stamps and freezes of each bucket | `acquire`, cancel and abort, overflow, `#pump`, `take`, `noteRetryAfter`, `freeze` | the await between choosing a call and settling it; overflow and cancellation during it; wakeups | no window is exceeded; a call gets one token or an answer; no call waits for ever |
| cron, `cron/src/scheduler.ts` | the timer, `activeRuns`, the pending run and its waiters, `stopEpoch`, the fires in flight | the timer, `trigger`, `#fire`, the lock, retries, catch-up, `start`, `stop`, `pause`, `resume`, `reschedule`, `remove` | fires during a lock or between a run and the one queued behind it; stop during any of it, and start again | the timer never goes dark; runs do not overlap; stop is final; every caller is answered |
| cache, `cache/src/cache.ts` | stored entries (value or tombstone, `until`, `staleUntil`, `sliding`); `inflight` flights, each perhaps `superseded` | `get`, `peek`, `has`, `wrap`, `set`, `delete`, `clear`, `invalidatePrefix`, the sweep | reads that write (a sliding hit, an expired entry) from a copy older than an await; a fetch that outlives an invalidation; a flight that ends when the key has a new one | nothing from before an invalidation is stored or served after it; misses share one fetch; every call is answered |

The parts meet at a few calls. The polling loop and the webhook handler both
call `bot.handleUpdate`, one at a time or concurrently; the runner replaces the
polling loop and calls `handleUpdate` from its scheduler; sequentialize, dedupe
and session are middlewares inside that call, in the order `web/README.md`
recommends; a handler may hand work to a worker pool. Broadcast and throttle
stand on the other side, between the bot and the API: broadcast sends messages by
itself, throttle holds back every API call of a bot. Cron runs tasks beside all of
it, and the cache is a store that handlers read through. They share no other state, so each has a model of its own.
Telegram is shared by all: it keeps an update until an offset (polling) or an
answer of 200 (webhook) confirms it.

### Planned

- **session**, the controller by itself: `save`, `flush`, `clear`, `assign`
  concurrently, with time-to-live. Wanted: the last write of the handler is stored.
- **conversation**: dialogs as coroutines with a durable replay. Wanted: a replay
  repeats no effect, and one builder owns a key.
- **media-group**: the debounce timer against a late part. **webhook reply
  envelope**: a call claimed for the reply, against the timeout that drops it.

### Not modelled

The rest keeps no state between updates, or is pure input and output, rendering,
parsing, generated code or tooling. `PROJECT.json` lists each with its reason.

## Modules

```
UpdateFeed                      what a polling driver promises
   ^ implemented by
Polling  ---- EXTENDS ---> Telegram <--- EXTENDS ---- Runner  <---- RunnerProof
   ^                                                    | EXTENDS      | EXTENDS
PollingProof                                         Scheduler <------'
                                                        | implements
                                                     KeyedTasks
WorkerPool <---- WorkerPoolProof          Throttle <---- ThrottleProof
Webhook    <---- WebhookProof             Cron     <---- CronProof
Broadcast  <---- BroadcastProof           Cache    <---- CacheProof
MCPolling, MCRunner, MCWorkerPool, MCWebhook, MCBroadcast, MCThrottle, MCCron, MCCache:
                                the instances TLC checks
```

**UpdateFeed** is the abstract specification of a driver. Updates arrive, are
handled, and are confirmed. An update is handled only after all that arrived
before it were, and perhaps again (a restart begins at the oldest unconfirmed
one); only a prefix of which every update was handled is confirmed.

**Telegram** is external code, modelled from how the drivers use it: updates are
numbered as they arrive, a getUpdates with an offset forgets everything below
and answers with the first updates it keeps, up to a limit. A request the client
abandoned while it was on its way stays in `orphans` and may reach the server
later, where it confirms its offset all the same.

**Polling** is `bot.ts`. `pc` is the await the current `#poll()` is at (the
module's head lists them), and there is an action per continuation: `PollSend`,
`PollReceive`, `PollFails`, `PollAborted`, `BackoffDone`, `HandleBegin`,
`HandleDone`, `EnterFinally`, `ConfirmDone`, `CycleEnds`. `StartCall`, `StopCall`
and `InitCall` are the user's calls and are enabled at any point. A getMe is a
member of `Probes`; `initPromise` is the one that is shared, `waiting` the one
the cycle waits for, `cancelled` those whose signal was aborted. `HandleBegin`
moves `#offset` before the handler runs, as the code does, and this is why the
confirming code has to be right. `Crash` loses every variable of the process.
`handled` and `wanted` are history.

**Scheduler** is `createScheduler`. A task is new, chained (waits for its
predecessor in the key), waiting for a slot, running, done. `prev` and `tails`
are the promise chains. **KeyedTasks** is its promise: tasks of a key run one
after another in the order submitted, at most `Concurrency` at a time.
**Runner** composes Scheduler and Telegram with the loop of `run()` and its
`stop()`. The loop over a batch has no await in it, so nothing interleaves with
it: the guard `Awaiting` says so in every other action.

**WorkerPool** is `createPool`. Each of its handlers is synchronous and runs
several functions in a row (an exit settles tasks, respawns, pumps, and checks
whether a close is complete), so the pool is one record `p`, each function of
the code an operator from records to records, and a handler their composition.
A worker becomes ready, answers, or dies; it is external.

**Webhook** is `webhookCallback` in front of sequentialize, dedupe and session. A
request passes the points init, lane, load, body, flush, saved, and its HTTP
connection is open or closed independently: a timeout answers it while its work
goes on. A session is the set of updates applied to it, so a clobbered write is
one that loses an element. `applied` and `excused` (ids dropped by the
window, or in it when a crash took it) are history.

**Broadcast** is one job in a storage shared by several processes. Each storage
call is a step, since the code awaits them all: creating the job (`CreateJob`,
`AddBatch`, `ReadBack`, then `KeepStatus` or `QueueJob`), an operator's call
(`ReadForCall`, `WriteCall`), the pump (`TimerFires`, `Claim` or `ClaimNothing`,
`Ask`) and a task of `#process()`, whose `pc` is the call it makes next: send,
record, count, complete, or in the catch block skip, fail, retry, tally, close. A
call that throws moves the task from the try block to the catch block
(`TryFails`), or ends it (`CatchFails`). A lease is held, expired or none; a slow
task keeps working after its lease ran out (`Overrun`), as nothing renews it.
`Crash` takes a process down with all it was doing. `sends`, `excuse` and the
flags described below are history.

**Throttle** is the controller over `MemoryThrottleStorage`. A pass of `#pump()` is
a record: the order it goes through, the shortest wait so far, and the `take()` it
awaits with the answer the storage has already computed. `TimerFires` begins a
pass, `Granted`, `TakeFailed` and `Refused` go on from its await, and `Acquire`,
`Cancel`, `NoteRetryAfter` and `Freeze` come in between. A stamp is the time
until it leaves its window, so that time (`Tick`) needs no clock that grows.

**Cron** is one job of the scheduler. A fire is one call of `#fire()`: it awaits
the lock, runs the task, or waits to retry. What the expression says is left to
the environment: `TimerFires` may happen whenever the timer is armed.

**Cache** is one key of `createCache()`. The storage applies calls in the order they
are made and the code goes on when it hears of it: a step makes a call, which
takes effect, and anything may happen before the next step of that operation.
A call of `get()` or `wrap()` keeps the `snap` it read (`Begin`) and acts on it one
await later (`ReadEntry`): it drops an expired entry, or writes a sliding one back,
whatever is stored by then. A flight is named after the call that began it
(`TakesOff`) and goes on by itself (`FnReturns`, `FnThrows`, `FlightEnds`); `Set`,
`Delete` and `Clear` supersede it in the step in which they are called. Time makes an entry
older (`TimePasses`), in the storage or just read. `epoch` numbers the invalidations,
`born` is the epoch in which a value was asked for, and `floor` the last one that was
carried out; they are history, as is `back`, described below.

Some modules contain operators commented "Mutant:". They are not used by the
specification. Each is a plausible mistake in one definition; `PROJECT.json` says
which property finds it when it takes that definition's place, which shows that
the property does depend on the code.

## Runs

| Run | Shows | Bounds |
|---|---|---|
| `polling` | `NoLoss`: nothing is confirmed before its handling ended. `NoRepeat`: a process handles nothing twice or backwards. `NotWaitingForCancelled`: a live cycle does not wait for a getMe that a stop cancelled. `MeKnown`. `ImplementsFeed`: the refinement of UpdateFeed. `Delivered`: a loop that runs handles every update. `StopCompletes`: a stop ends the cycle. | 2 updates, batches of 2, 1 queued start, 2 getMe requests, 1 crash; every failed poll is reported (`QuietAborts` is 0) |
| `runner` | `CountersExact`, `ImplementsKeyed`: the slot accounting, the cap and per-key order. `ConfirmedIsTaken`, `LossBounded`: what Telegram forgot is with the scheduler, and a crash loses at most `Concurrency + Limit - 1` updates. `StopDrains`, `StopReturns`, `SubmittedIsHandled`. | 4 updates, 2 of one chat, 1 of another, 1 without a key; 2 slots, batches of 2 |
| `workers` | `Accounting`: the counters are exact and a promise is settled once. `WorkConserving`: no task waits while a ready worker has room. `NothingStranded`: no task or kill timer is left with a dead worker. `ReadySettles`: `ready()` gets its answer, but for the case below. `DrainNoticed`: a drain ends when the last place empties with nothing queued, or no worker is left, and never before. `ZombiesGo`. `CloseReturns`, given a timeout. | 2 workers of capacity 1, 3 tasks (one cannot be posted), queue of 1, 1 restart, 4 deaths |
| `webhook` | `OneAtATime`, `NothingClobbered`, `AckedIsApplied`, `AppliedOnce`, `TurnComes`, with both policies at "fail" and a lane for every chat. | 3 updates in 2 chats, 2 requests at a time, window of 1, 1 crash or lost connection |
| `broadcast` | `RepeatNeedsFault`: a delivery is sent again only after a fault that hit it. `CountsExact`: the counters of the job are the recorded results. `CompletedIsFinished`: a completed job has nothing left. `JobSettles`: a created job ends. | 2 deliveries, 2 processes of concurrency 1, 2 attempts, 1 trouble (crash, storage error, lost answer, overrun lease, or call of an operator) |
| `throttle` | `WindowBound`: no bucket gives more than its limit in any window. `SettledOnce`: a call gets one token at most, and none if it was turned away. `JobsSettle`: no call waits for ever. | 3 calls, 2 of one chat; a global limit of 2, a limit of 1 per chat; queue of 2, overflow "reject" and "drop-oldest", 1 freeze |
| `cron` | `NeverDark`: the timer is armed or will be. `OneRunAtATime`. `StopIsQuiet`: no attempt begins after a stop. `CallersAnswered`. | every overlap policy, with and without lock, catch-up and runOnStart; 1 retry, 2 fires and 2 queued, 2 stops, 2 calls |
| `cache` | `NothingOutdated`: what is stored or served is not older than an invalidation that came before, but for what a sliding refresh brought back. `OneFetch`: misses share the fetch under way. `CallsReturn`. | 2 calls, 2 invalidations, with everything configured, a stale window alone, and nothing |

Why the bounds are enough. Polling: two updates make a batch that can be
stopped, fail or crash in its middle; two probes are what it takes for an old
getMe to settle after a new one was stored; one crash puts a second process
after the first, and what a third would start from is what the second starts
from; with a `QuietAborts` of 1 (a first failure passes unreported) the run takes
more than five minutes, and was made apart from the others, with the same result. Runner: with two slots and four updates the chains, the FIFO of waiters
and the gate are all full at once, and `LossBounded` (3) is below the number of
updates, so it can fail. Workers: four deaths with one restart let both slots
die for good. Webhook: two requests and a window of one bring redelivery during
the first run, and eviction of an update still in flight. Broadcast: one trouble
puts a second holder, a second attempt or a stale copy beside a job that works;
two deliveries make one of them the last. A second trouble (with one process) and
a concurrency of 2 were checked as well, 7.7 and 13.2 million states, too many for
a run that is repeated often. Throttle: three calls for two tokens of the global
bucket, two of them for one token of a chat, so that a pass is refused by one
bucket and granted by another, and the queue overflows. Cron: two fires are what it
takes to overlap or to queue behind one another, two stops to stop what was started
again; 3 fires, 2 queued, 2 stops and 2 calls were checked too (2.1 million states).
Cache: two calls make a reader with an old copy beside a flight, or two that share
one; two invalidations make a flight that is superseded end beside the one that
replaced it. No safety property of these runs rests on the bounds: each is proved
below for every value of the constants. So are the type invariants, which are therefore
not among the properties of the runs. One other proved property is not in a run either: `ServedInOrder` of the pool says something only when two tasks
wait at once, which a queue of 1 never lets happen. With a queue of 2 it was checked
apart from the others (266,349 states; a pool that serves the youngest task first
violates it), as the liveness properties of `workers` then take too long.

Deadlock is checked for `polling`, where a user may always call. The other runs
stop legitimately: the runner when `stop()` has returned, the pool when it is
closed, the webhook when every update is confirmed, a broadcast when its job has
ended, the throttle, cron and the cache when the calls they were given are used up.

### Disagreements between the code and what it says

| Run | Violates | How |
|---|---|---|
| `polling_restart` | `StopHonoured` | `start()` called while a cycle is closing awaits the old cycle and then begins a new one. A `stop()` in between finds no controller to abort and leaves no trace: the bot polls after its last stop. |
| `polling_confirm` | `HandledIsConfirmed` | `#sentOffset` is set before the poll is sent, and is documented as "confirmed to telegram". A poll that dies on its way makes the shutdown skip the confirming request, and the next process handles those updates again. |
| `workers_close` | `CloseReturns` | A drain checks for its end after answers and exits only, and finds it there (`DrainNoticed`). When the last queued task is aborted before any worker is ready, nobody resolves `close()`. A close timeout would (`CloseReturns` of `workers`). Handlers are assumed to return here, so the pool alone is to blame. |
| `webhook_dedupe` | `StaysRetryable` | Without a lane, dedupe swallows a redelivery while the first run is in flight and it is answered with 200. When that run then throws, the update is lost, which its comment rules out. Behind sequentialize it cannot happen: `AcknowledgedIsApplied`. |

### Defects the properties make room for

The modules behave as the code does, defects included. Where a property would not
hold for that reason, it names the case with a history variable, so that a reader
can see how much of the promise is left. Each of these is a candidate for repair.

- *Broadcast, `overwritten`.* `pause()`, `resume()`, `cancel()`, the completion and
  `#enqueue()` read the job, await, and write the whole of it back: counters
  incremented in between are lost, a completed job is paused or a cancelled one is
  resumed. The README of the package says that a pause or cancel during the creation
  of a job "holds", and a comment at `index.ts:909` that it "wins"; it does so only
  when it lands before the job is read again.
- *Broadcast, `spoilt`.* A lease is not renewed, so a task that is slower than
  `leaseMs` works beside a second holder, and both may count their result. A storage
  call of the try block that fails after the result was counted leads to the catch
  block, which counts it again.
- *Broadcast, `missed`.* A delivery that becomes due between `claim()` and
  `nextDueAt()`, or a `nextDueAt()` that throws, leaves the pump asleep with work to
  do until something else wakes it.
- *Broadcast, `lost` and `unclosed`.* A crash or a storage error between recording
  a result and counting it, or between the last count and the completion: nothing
  repairs the counter, and the job stays open.
- *Throttle, `late`.* A call cancelled or dropped by overflow while its `take()` is
  awaited, or while it stands in the order of a pass and has no signal to look at,
  takes a token all the same. It is counted as acquired and as cancelled.
- *Cron, `behind`.* A manual `trigger()` queued behind a fire of the timer takes
  over at its end, and a manual run arms nothing: the schedule stays dark until
  `start()`, `resume()` or `reschedule()`. The comment of `trigger()` says that "the
  next scheduled tick still fires on time" (`scheduler.ts:334-336`).
- *Cron, `quiet`.* After `stop()` has resolved, a fire that was awaiting its lock
  still runs, since a drain waits for runs only. So does a catch-up that was awaiting
  the store, and a run it has queued of a job that was removed, which `stop()` no
  longer knows.
- *Cache, `back`.* A hit of a sliding entry writes its copy back after an await
  (`cache.ts:132-139`), and so can undo a `set()` or a `delete()` made meanwhile, for as
  long as hits keep it alive. `inflight` guards fetches against this, not reads.
  In the same way an expired entry's `delete` may drop a newer one, which costs a miss.
- *WorkerPool.* `ready()` never settles when one slot is dead for good before it
  was ever ready and another is alive: it waits for every slot, or for all to be dead.

## Fairness

- *Polling*: weak for the process's own steps (microtasks run, timers fire, and
  handlers return), for the 5 s limit of the confirming request, and for the hang
  timer of a poll. The network is only strongly fair in answering polls that are
  sent again and again. Nothing makes a getMe settle, since the code gives it no
  timeout; `Delivered` says so. Nothing makes users write, start or stop.
- *Runner*: the same, without fairness for polls and for `bot.init()`, to which it
  gives no timeout; an aborted poll rejects. `StopReturns` excepts a stop during a
  `bot.init()` that hangs.
- *WorkerPool*: timers fire, a worker becomes ready, `terminate()` ends a worker.
  Handlers need not return: that is what kill timers are for. The `workers_close`
  run adds it, so that its counterexample does not depend on a stuck handler.
- *Webhook*: promises settle; storage and handlers return or throw. Nothing is
  assumed of Telegram or of `bot.init()`.
- *Broadcast*: the storage and Telegram answer, timers fire, the clock advances (a
  delivery becomes due, an abandoned lease expires), and a process that died is
  started again. Operators owe nothing: `JobSettles` excepts a paused job and a
  process that was stopped and left so.
- *Throttle*: timers fire, the storage answers, time passes, `freeze()` returns.
- *Cron*: locks are answered, tasks, retry delays and drains end. Nothing makes a
  timer fire or a user call.
- *Cache*: the storage answers, or fails; the function given to `wrap()` returns or
  throws. Time need not pass.

## Proofs

The theorems hold for every value of the constants, from the named assumptions of
the modules (`TelegramAssumption`, `PollingAssumption`, `SchedulerAssumption`,
`RunnerAssumption`, `PoolAssumption`, `WebhookAssumption`, `BroadcastAssumption`,
`ThrottleAssumption`, `CronAssumption`, `CacheAssumption`),
which say only that bounds are numbers, sets that are counted are finite, and
options are legal.

**Polling.** Proved: `TypeCorrect`, `NothingLost`, `NothingRepeated`,
`FeedImplemented`, `FreshProbe`, `KnowsItself`. `NoLoss` alone is not inductive:
a request carries an offset, perhaps long after it was abandoned, and confirms it
when it arrives. `FeedInv` therefore says that whatever may confirm, now or later
(`confirmed`, `sentOffset`, each orphan), has only handled updates below it; that
the same holds of `#offset`, or of one less while an update is in its handler;
that the rest of a batch does not begin before `#offset` and has nothing
unhandled below it; that a poll on its way carries `#offset`; and that no offset
is beyond what arrived. The refinement of UpdateFeed and `NoRepeat` follow from
it, step by step. `InitInv` is the invariant about getMe: a cycle waits for
`#initPromise` itself, which is in flight, and a cancelled request is still
`#initPromise` only while `#initSignal` shows that it was aborted.

**Webhook.** Three invariants, each on top of the one before.

1. *Lanes.* A request of an ordered chat is in its lane from joining it until it
   leaves the chain, and while it is past dedupe it is the lane's head. Two
   requests cannot both be the head: `LaneHolds`. Joining appends, and only the
   head leaves; the lemmas `Joining` and `Leaving` say that neither disturbs the
   others. `WellTyped` comes with it.
2. *Sessions.* A session that was read, and not written back, holds everything
   applied to its chat, since nobody else of the chat is inside: `SessionsKept`.
3. *The window.* What is inside or applied is remembered or excused; what is
   inside twice is excused: `NotAppliedAgain`. A crash excuses what the window held,
   and what it held no longer was excused before. With a lane for every chat and both
   policies at "fail" (`Strict`), what is remembered was applied or is being run,
   and a duplicate gets its turn only after that run has ended, so what is swallowed
   was applied: `AcknowledgedIsApplied`. `Strict` is needed: `webhook_dedupe` is
   what happens without the lane.

**Scheduler and runner.** Proved: `TypeCorrect`, `NoSlotLost`, `NothingSkipped`,
`CrashLosesLittle`, `StopLeavesNothing`, `KeysInOrder`. The first part of `RunnerProof`
shows what each step of the scheduler preserves, whoever drives it, as long as tasks are
submitted in the order of their numbers (`NewFrom`): `active` and `pending` are the
numbers of running and of unfinished tasks; a waiter is in the FIFO once, and only
while every slot is taken; and the chain of a key is in order (`ChainOf`, `TailOf`).
The last is what makes a step of the scheduler a step of KeyedTasks: when a task's
predecessor is over, so are all before it, because each is behind its own. The end
of a task is the longest case, as `release()` may hand its slot to a waiter and
`tails` may forget the key in the same step. The second part adds the loop: nothing
that was sent, abandoned or confirmed is beyond what was submitted (`Confirming`);
a batch begins at the offset; the gate lets the loop ask only with fewer than
`Concurrency` pending, so a batch leaves at most `Concurrency + Limit - 1` (`Room`).
What is confirmed and not handled is submitted and not over, which is pending: that
is `LossBounded`.

**Worker pool.** Proved: `TypeCorrect`, `StatsTrue`, `NoIdleRoom`,
`TasksWithLiveWorkers`, `FirstComeFirstServed`, `DrainsEnd`. As the pool is one record, the
invariant is a predicate on records. `Sound` says that the counters are right
(`Counted`); that a queued task is in the queue, a running one and a zombie with one
worker that is ready, and that kill timers belong to zombies (`Placed`); and that a
slot with too many crashes stays dead (`Retired`). Every function of the code has a
lemma that says what it keeps of `Sound`, and a handler is proved by composing them
in the order it calls them. `Pumped` (nothing waits while a place is free) is broken
inside of handlers and holds between them: it is `Pump` that brings it back, and the
handlers that do not end with a pump neither free a place nor queue a task. `Pump`
goes through the queue by turns, and each turn keeps `Sound` and takes the first
entry off, unless nothing waits or no place is free, which stays so (`PumpTurns`,
by the least turn that fails). `Placed` needs the answers of zombies as well: a task
that was aborted is with its worker until it answers or dies, and settling it again
is what `settled` would show. For the order of service, a function other than
`Pump` begins nothing (`OthersBeginNone`), and whatever `Pump` begins stood in the
queue before all that goes on waiting (`PumpOrder`), stale entries included. For the
end of a drain, the invariant is `Drained`: a drain that has ended left nothing, and
it has ended once no worker is left. `checkCloseDone` ends it exactly when it may
(`CheckCloseDoneEnds`), every handler that takes the last task from a worker calls it
last (`OnExitDrains`, `NextDrains`), and `Pump` takes no task from a worker
(`PumpLeaves`), so the others have nothing to notice.

**Throttle.** Proved: `TypeCorrect`, `LimitHolds`, `OneTokenEach`, from one invariant,
`IInv`, of which `TypeOK` and `SettledOnce` are two parts. `granted` remembers every
token given within its window, and `stamps` is what the storage keeps, which is more
(stamps are dropped only when a bucket is asked) and in the order given. `StorageInv` says that the two agree once the expired
stamps are dropped. That needs the stamps to be sorted (`ExpiredDivides`: a loop that
stops at the first live stamp leaves none expired behind it), and time to keep
them so (`AgedInWindow`). `LimitHolds` follows: a token is given when fewer than the
limit are left. `PassInv` is about the pass and the calls that come and go during
its await: the order was the queue when the pass began, without repetition, so what
is in it and no longer queued was withdrawn, by its signal or unnoticed (`late`);
and only the call awaited may have its token already. The sort, the withdrawal and
the choice of the oldest are CHOOSE expressions; `OrderedIs`, `WithdrawnIs` and
`OldestIs` show that there is something to choose, and what it is.

**Broadcast.** `NoUnexcusedRepeat` needs a budget. Let `Open(d)` hold the attempts
of `d` that may still send: the number of each stray task that is about to, and 0
for the current holder and whoever may claim next, unless the delivery is spent. Then `sends`
plus the size of `Open(d)` never exceeds `1 + excuse` (`Budget`), for a step either sends
and uses up one of `Open(d)`, or puts one in the place of another, or adds one
together with an excuse, or sends with an excuse of its own (`BudgetSteps`). Attempts
are numbered and no two tasks share a number (`Numbered`). `CountersAgree` and
`CompletedForGood` rest on `Bookkeeping`: without an overrun a delivery has one task,
which holds its lease until the result is recorded (`Sound`); the total is set
before the first task begins (`Totalled`); a task that goes to complete the job has
seen the last count (`Lasts`), and since counters only grow, nothing is left when
it does (`Closed`).

**Cron.** `Inductive` carries `IInv`: fires have numbers of their own and
`activeRuns` counts them (`Counting`); a run is queued only behind another, and not
with the timer off unless `behind` tells (`QueueLit`), without which the end of a
fire could hand over to a queued run and leave the job dark; and after a quiet stop
nothing is left that could begin (`Hush`). `TimerStaysLit`, `RunsApart` and
`StopIsFinal` follow.

**Cache.** `NothingOld` and `FetchesShared` rest on one link between the flights and
the history: a flight that is still `inflight` was begun in the current epoch
(`Flights`), since every edit takes it out in the step in which it counts. What such
a flight writes is therefore current, also for a `clear()` that found no entry and so
will drop none (`Current`). Entries have numbers, so that a sliding refresh that
finds the entry it read still there writes nothing older than what it replaces
(`Copies`); if it finds another, it is `back`. A call begins one flight at most, and
joins only flights not older than itself (`Calling`).

Only model-checked: all liveness, since the prover has neither fairness nor ENABLED.
These are `Delivered`, `StopCompletes`, `StopReturns`, `SubmittedIsHandled`,
`ReadySettles`, `ZombiesGo`, `CloseReturns`, `TurnComes`, `JobSettles`, `JobsSettle`,
`CallersAnswered` and `CallsReturn`. The disagreements are counterexamples, which
need no proof.

## What the models leave out

- *Polling*: what middleware does (a handler call ends, or rejects when the error
  handler itself throws); allowed updates, webhook deletion and retry delays as
  numbers (only whether there is a pause, and when failures start to be reported).
- *Runner*: how `chatKey` finds a key (an update has one or has none).
- *WorkerPool*: events, task names and arguments (one task cannot be posted).
- *Webhook*: secrets, body parsing and limits, custom responses and the reply
  envelope. Of session: `save`, `clear`, `assign`, time-to-live and migrations; one
  load and one flush per update. A failed update is taken to leave the record as
  it was, and the record is stored outside the process.
- *Broadcast*: one job at a time; `wait()` and its local waiters, events, the timing
  of `LocalRateLimiter`, the eviction of finished jobs, inline types, queries. The
  sent, failed and skipped counters are one, and the count of retries is left out
  with the call that keeps it, so a task that queues a retry ends an await early.
- *Throttle*: `sweep()` (a `take()` prunes what it reads), weights other than 1, how
  methods and chats choose their buckets, the retry in the install hook, counters
  and events.
- *Cron*: one job; expressions and the search for the next time, writes to the
  store, a name registered again after `remove()`, `@reboot`.
- *Cache*: one key (a prefix is a loop over keys, as are `getMany` and `setMany`);
  events; the limits of the storage, whose evictions are `Evict`, as is the sweep.
  An entry written by `set()` has no stale window, as in the code.

## Plan

1. *Session* (the controller): a small module around an await each; 2 or 3 callers.
2. *Conversation* with replay; then MediaGroup and the reply envelope as an extension
   of Webhook.
3. Proofs: the safety properties are done. What is left is to prove abstract
   specifications implemented where only UpdateFeed and KeyedTasks are so far: a
   bucket that gives `limit` tokens per window for the throttle, a bounded queue with
   exactly one outcome for each task for the pool.
4. Broadcast with an abstract specification of a job whose recipients are each
   accounted for once, for the code once its copies of the job are no longer stale.
