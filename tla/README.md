# Verification of agilePool

This directory holds TLA+ specifications of agilePool, a goroutine pool with a
sharded handoff queue, an overflow buffer and an adaptive scaler; the TLC
configurations that check them on small instances; and TLAPS proofs of the
properties that matter most, for every value of the constants.

## 1. Inventory

| Component | State | Operations | Model |
|---|---|---|---|
| Submission (`pool.go`) | `pendingTasks`, `wg`, `sendSeq`, `closed` | `Submit`, `TrySubmit`, `SubmitCtx`, `SubmitBefore`, `submit` | `AgilePool`; `wg` in `Shutdown` |
| Handoff shards (`pool.go`, `worker.go`) | `taskQueues`, cursors | `nextShard`, `nextShardTask` | `AgilePool`; their number and size in `Config` |
| Overflow buffer (`task_buffer.go`) | chunks, indices, `chunkLen`, `overflowClosed` | `PushAndForward`, `PopBatch`, `Len`, `Close` | `TaskBuffer` implements `TaskFifo`; a set behind `taskMu` in `AgilePool` |
| Workers (`worker.go`) | `runningWorkersNum`, the task in hand, the batch | `run`, park | `AgilePool` |
| Worker structs (`worker.go`, `pool.go`) | `idleWorks`, `workerPool`, `muIdle` | `addToIdle`, `startWorker`, cold start | `Parking` |
| Tasks (`worker.go`, `task.go`) | tries, recovered panic, Context | `runTask`, `handlePanic`, `TaskWithRetry` | `TaskLife`, `Retry` |
| Contexts (`internal/context`) | labels, the `sync.Pool` | `NewContext`, `Release`, `TraceID`, latencies | `PoolContext`, `TaskLife` |
| Scaler (`pool.go`) | the tick's readings, `toSpawn` | `scaleIfNeeded`, `scaler` | `Scaler` (arithmetic), `AgilePool` (steps) |
| Sampler (`pool.go`, `histogram.go`) | ring of samples, bucket counts | `sampleRates`, `add`, `median` | `Histogram`, `Sampler` |
| Cleaner (`pool.go`) | `idleWorks` | `expiredWorkerCleaner` | `AgilePool`, `Parking` |
| Idle containers (`internal/idle`) | slice, ring, list, heap, treap | `Add`, `Pop`, `RemoveExpired`, `Len` | `Idle`, `IdleQueues`, `IdleOrdered` implement `IdleContainer` |
| Spin lock (`spinlock.go`) | `state` | `Lock`, `Unlock` | `SpinLock` |
| Close, Wait (`pool.go`) | `closed`, `closePoolCn`, `wg` | `Close`, `Wait`, `done` | `AgilePool` and `Shutdown` |
| Default pool (`pool.go`) | `defaultPool` | `NewPool`, `Close`, `GetDefaultPool` | `DefaultPool` |
| Hook dispatch (`hook.go`, `pool.go`) | how often each event has fired | `dispatchHook` | `AgilePool`, `Shutdown`, `TaskLife` |
| Hook sets (`hook/hook.go`, `hook/dynamic`) | callback slices, snapshots | `Add*`, `Dispatch*` | `HookRegistry` |
| Options (`config.go`) | `Config` | `With*`, `NewConfig`, `resolveTaskQueueShards` | `Config` |
| Stack traces, loggers | | | not modelled (section 8) |

How they interact. A submitter counts its task (`pendingTasks`, `wg`), looks at
`closed`, starts a first worker if none runs, and hands the task to a shard; if
the shard is full it goes through the overflow buffer, where the submitter also
forwards the oldest buffered task, and if that is full too the submitter blocks
until there is room, its context is done or the pool closes. Workers scan the
shards, then pop a batch, then park. The scaler reads counts and medians
without locks, decides, re-checks the running count and starts workers. Close
sets the flag, closes the buffer and then the channel, in separate steps, and
returns while tasks are still in flight; scaler and sampler go on until
`pendingTasks` is zero.

What makes it hard: every one of these goroutines acts on values it has read
earlier. The closed flag may be stale when the task is pushed; the running
count may be stale when workers are added; a worker may have found everything
empty just before a task arrives; tasks may be in nobody's queue but in a
worker's batch. The hazards of the code, with the line where each one bites and
the properties that cover it, are listed in `PROJECT.json`.

What should hold:

* no task is lost, duplicated, or run after its submission was rejected;
* every count is given back exactly once on every path;
* the running count is exact and bounded;
* the scaler does not stop while a task may still need a worker;
* every submission returns and every accepted task completes, Close or not;
* Wait neither returns early nor hangs;
* a decision of the scaler is bounded, monotone and never idle before a backlog
  that nobody serves;
* the buffer is a bounded FIFO, and every idle container keeps its contract;
* a worker struct is in one place, and one goroutine at a time is in the
  container;
* however a task ends, it is accounted for once and retried as promised;
* a recycled Context shows nothing of its last task, and both goroutines of a
  task get the same trace id;
* a dispatch runs the callbacks it found, all of them, whoever registers or
  panics meanwhile;
* no options make a pool that its goroutines cannot run.

## 2. Modules

| Module | Role |
|---|---|
| `Scaler` | the arithmetic of one tick, as functions of a reading |
| `AgilePool` | the pool: one process per submission, worker, scaler, cleaner and closer |
| `TaskFifo`, `TaskBuffer` | the buffer's promise, and its chunks, links and recycling |
| `Shutdown` | Wait, Close and the WaitGroup |
| `DefaultPool` | the global pointer to the newest pool |
| `IdleContainer` | the promise of an idle container |
| `IdleQueues`, `IdleOrdered` | the five data structures, as operators on records |
| `Idle` | a container of any of the five kinds under the pool's operations |
| `SpinLock`, `Parking` | the lock, and the worker structs that move under it |
| `Histogram`, `Sampler` | one histogram, and the three that the sampler feeds |
| `Config` | from options to a pool's sizes |
| `PoolContext`, `Retry`, `TaskLife` | labels, tries, and a task from `SubmitCtx` to `done` |
| `HookRegistry` | registration against dispatch in both hook sets |
| `MCAgilePool`, `MCAgilePoolLive`, `MCShutdown`, `MCScaler`, `MCIdle`, `MCTaskLife` | instances for TLC |
| `AgilePoolProofs`, `PlacementProofs`, `HistoryProofs` | proofs about the pool |
| `TaskBufferProofs` | proofs about the buffer |
| `ShutdownProofs` | proofs about `Shutdown`, `DefaultPool` and `HookRegistry` |
| `ScalerProofs`, `SupplyProofs` | proofs about the tick, and about what it is fed and starts: `Sampler`, `Config`, `Parking` and the grid of `MCScaler` |
| `TaskLifeProofs` | proofs about `TaskLife` and `PoolContext` |

A definition whose name starts like another's and whose comment says *Mutant*
is a wrong variant of it, as a plausible bug would make it; it is not used by
the specification. For every checked property `PROJECT.json` names a variant
that violates it.

### AgilePool

A submission is a process named after its task (`spc`), a worker a process with
a slot number (`wpc`), the scaler and each closer have a program counter (`sc`,
`cpc`). An action is one access to shared state, with what follows it up to the
next one; the module's header says when two accesses share an action. Sections
under `taskMu` that call nothing outside the buffer are one action;
`PushAndForward`, which sends to a shard while it holds the lock, is two (`Push`
takes it, `Forward` releases it). `wg` moves with `pendingTasks`, and its own
interleavings are in `Shutdown`. Shards and buffer are sets: any order of
leaving is allowed, and the buffer's own order is `TaskBuffer`'s subject. The
medians, the due time of the zero-consume fallback and the sum of lengths that
`queuedTasks` reads one by one are arbitrary, which allows whatever sampler and
clock do. A task body and its hooks happen in one step; a panic is recovered
before `done` and ends the task like a return. `fired` counts the events of
each task and is the model's only history.

### Scaler

Medians are midpoints of buckets, multiples of one half, and are given doubled;
the decay factor is in percent. Quotients, float64 truncated to int64 in the
code, are exact rationals truncated: rounding of the floats is not modelled.

### TaskBuffer

The buffer is one record. Each exported operation is one action, since it runs
under `taskMu` from start to end; inside it the code's helpers are operators on
the record. Chunks come from a `sync.Pool`: any pooled chunk as it was put back,
or a new one, and the garbage collector may empty the pool at any time.

### Shutdown

The WaitGroup is external: a counter and a number of waiters in one atomic
word, as `sync.WaitGroup` documents and implements it. The last `Done` under
waiters is two steps, and a waiter wakes up and then returns; each re-reads the
word and panics if it changed. How a submission is accepted and how a task runs
is `AgilePool`'s subject, so `Decide` and `Run` are one step each. A task that
runs may submit. The constant `Disciplined` says whether callers keep the
contract of `WaitGroup.Add`: no Add from zero concurrent with Wait.

### DefaultPool

`NewPool` stores the pointer, `Close` sets the flag (`SetClosed`) and clears the
pointer if it is still its own (`Withdraw`), `GetDefaultPool` reads the pointer
and then the flag. `newest` and `gone` are history.

### Idle

The kind of container is chosen initially, as in `NewPool`; then its record
changes under `Add`, `Pop`, `RemoveExpired` and `Len`. List and treap are
modelled with their links, the ring with its slots. `container/heap` and the
treap's `sync.Pool` are external. In the abstract container Pop takes the head
of a line; the fifo kinds append to it, the ordered kinds keep it sorted by
date and may rearrange equal dates. The heap is mapped to its root followed by
the other elements by date.

### SpinLock and Parking

`Parking` follows worker structs between goroutines, the idle container and
`workerPool`. `muIdle` is an instance of `SpinLock`: an attempt is a step, a
failed one counts towards the next phase. Each critical section is lock, body
and unlock. What makes a worker park and how many workers a tick wants is left
open, within the capacity. `Struct` and `Goroutine` bound the addresses and the
goroutines in `run`; `sync.Pool` and the allocator are external (`Get`).

### Histogram and Sampler

The tables are the code's. Buckets count from one; the running sum of `median`
is a recursive function (`CumOf`). `recent` is the history the histograms are compared with.
The values of the swapped counters are any of `Rates`.

### Config

A program passes any sequence of options (`ApplyOption`), each with a guard of
its own (`Takes`), then builds the pool. The doubling and halving loops are
recursive functions. Periods are small integers, the decay factor is in percent.

### PoolContext, Retry and TaskLife

A task has two sides: its submitter (`spc`) from `NewContext` to `Release`, and
its worker (`wpc`) in `runTask`. They share the Context. An access to the labels
is one step, since each runs under the Context's mutex; `TraceID` is two, with
the generation between them, which may fail. The program is one that the package
is made for: its hooks record a stage if timing is on, the Enqueued hook and the
task ask for the trace id, and it releases the Context when the task is done
*and* `SubmitCtx` has returned. A time is the number of stages recorded before.
A try returns, fails, panics or ends the goroutine; the deferred functions of
`runTask` are `HandlePanic`, `Completed` and `Done`, in that order.

In `Retry` a Duration has `Width` bits, and the conversion of a float beyond it
gives either end of the range, as amd64 and arm64 do. The longest Duration is
no float and rounds up, which `SameFloat` keeps.

### HookRegistry

One module for both hook sets (`dynamic` says which). `Add` is lock, read, store
and unlock. The dynamic set publishes a new snapshot; the static one assigns a
slice and, as `SetHook` demands, is complete before anything is dispatched. A
dispatch takes its callbacks when it begins and runs them one by one; each may
panic.

## 3. Runs

| Run | Checks | Shows |
|---|---|---|
| `pool_core` | `TypeOK`, `ExactlyOnePlace`, `PendingExact`, `ScalerOutlivesTasks`, `HookContract`, `ClosedBufferDrains` | BLOCK mode with Close |
| `pool_batch` | `ExactlyOnePlace`, `RunningExact`, `OvershootAtMostOne` | batches, a cancellable submission, reuse of parked workers, capacity two |
| `pool_nonblock` | `PendingExact`, `HookContract` | NONBLOCK mode over two shards |
| `pool_live` | `EverySubmissionSettles`, `CloseWindsDown` | liveness, with a start deadline and Close |
| `pool_capacity` | `RunningWithinCapacity` (violated) | finding 1 |
| `pool_reject` | `RejectOnlyWhenFull` (violated) | finding 2 |
| `pool_wait` | `WaitDrains`, `NeverPanics`, `PoolClosedOnce`, `EveryWaitReturns`; `DefaultPoolIsCurrent` | Wait and Close, contract kept; the default pool of three pools |
| `pool_wait_race` | `NeverPanics` (violated) | finding 3 |
| `scaler` | `SpawnBounded`, `ColdBacklogServed`, `StuckPoolRampsUp`, `PressureNeverShrinks`; `MediansOfTheWindow`; `OptionsStayInRange`, `ShardsFit` | one tick over a grid of readings; the sampler's window; any two options |
| `task_buffer` | `BufferTypeOK`, `RecycledChunksAreClean`, `ImplementsFifo` | the buffer implements the FIFO |
| `idle` | `PooledNodesAreClean`, `TreapKeepsPriorities`, `ImplementsContainer`; `OneInside`, `OneOwner` | each idle container implements the interface; worker structs under the spin lock |
| `task_life` | `AccountedOnce`, `RetriesAsPromised`, `OneTraceID`, `LabelsStayHome`, `LatenciesAreOrdered`; `BackOffDoublesUpToMax`; `DispatchRunsItsSnapshot` | tasks and a recycled Context; the pauses between tries; registration against dispatch |

A run whose properties are in groups checks components that share no state: a
variable `part`, chosen initially, says which of them a behaviour is about, and
the others stand still.

Run one with `tlc -config <run>.cfg <module>`; `PROJECT.json` names the module.

Bounds. Three submissions against one slot in the shard and one in the buffer
fill both and block the third; `pool_batch` has room for two in the buffer so
that a batch has more than one task. Two worker slots with capacity one allow
the overshoot, a worker that parks while another starts, and a slot that is
reused. `Worker` bounds the goroutines alive at once and `MaxIdle` the parked
workers told apart: beyond it a parked worker counts as expired. Chunks of two
slots, a bound of five tasks and batches of three cross chunk boundaries in
every position; four chunks are enough for the three in use and one pooled.
Four workers in a ring that starts with two slots make it wrap, grow while
wrapped and be compacted while wrapped; three dates and three priorities give
ties and every shape of a treap of four. The scaler's grid covers capacity
reached and exceeded, and a buffer deep enough for full pressure.

Two waiters and two closers race with three tasks; three pools let one be
created while another closes and a third is already gone. Three goroutines, a
scaler and a cleaner contend for four structs with capacity two, so that a
struct is parked, popped or swept, and its address used again, while another is
parked. (No path of the code puts a struct back into `workerPool`; the model has
the place for the variants that do.)
The sampler's window of three fills and wraps within the run, with rates in
several buckets of each table. `MaxOptions` = 2 applies any two options in
any order, the same one twice included; the shard limits are scaled down so
that queue sizes fall on both sides of every threshold. In `task_life` two tasks
follow each other on one Context: that is the case in which labels could leak,
while two tasks on different Contexts share nothing (and the proofs allow any
number of both). `RetryNum` = 2 gives a first, a middle and a last retry. A
Duration of five bits and an infinite power from exponent seven on put every
pair of `MinBackOff` and `MaxBackOff` through overflow; the bounds of 2^63 and
2^1023 are only larger. Two registrations of one event, one of another and two
dispatchers give a dispatch between and during registrations.

Symmetry is used in safety runs, over tasks submitted the same way and over the
workers and nodes of the idle containers. Deadlock is checked except in
`pool_wait`, `pool_wait_race` and `task_life`, whose processes all may end; in
`AgilePool` the one way to stop is the action `Terminated`.

Fairness (`pool_live`, `pool_wait`). Goroutines are scheduled, tickers tick,
task bodies and hooks return, and a lock or channel slot that stays free is
granted: weak fairness of each process's steps. Nobody has to submit, cancel,
wait or close, and no worker has to expire. The cold start gets strong fairness
because only the model's bound on worker slots, which the code does not have,
can disable it. To keep `pool_live` small, two goroutines submit: one a single
task, the other two tasks one after the other.

## 4. Findings

1. *Capacity* (`pool_capacity`). `config.go:131` says the capacity "caps the
   maximum number of concurrent workers". The cold start (`pool.go:325`) does
   not take `p.lock` and may fall between the scaler's re-check and its
   addition: Capacity + 1 workers run. The excess is never more than one, which
   is proved (`OvershootIsAtMostOne`).
2. *NONBLOCK* (`pool_reject`). `readme.md:92` says NONBLOCK "drops submissions
   when full". A submission tries one shard only, and is dropped while others
   have room.
3. *Wait under load* (`pool_wait_race`). `shard_stress_test.go:20` lists "Close
   during load never panics or hangs". `submit` calls `wg.Add` before it looks
   at the closed flag, so a submission that races with Wait may panic; the
   skipped test at `shard_stress_test.go:250` records the same.

## 5. Proofs

The theorems hold for every value of the constants that the named assumptions
allow. `ScalerAssumption` and `PoolAssumption` are the ranges the options of
`config.go` let through, with finite sets of tasks and worker slots; that the
options give such ranges is `AnyOptionsStayInRange`, under `ConfigAssumption`,
which says that the defaults are in range. `ShutdownAssumption` asks for
finitely many tasks and waiters. The others (`BufferAssumption`,
`ParkingAssumption`, `SamplerAssumption`, `GridAssumption`,
`TaskLifeAssumption`, `RetryAssumption`, `RegistryAssumption` and
`DefaultPoolAssumption`) say that numbers are natural, or positive, and that
special values are apart.

### The pool

* `AgilePoolProofs`: `TypeCorrect`; `RunningCountIsExact` and
  `OvershootIsAtMostOne`, both from the inductive invariant `RunningInv`. The
  bound is not inductive alone: between the scaler's re-check and its addition
  one needs that at most one cold start has happened since, that is
  `runningWorkersNum + scN <= Capacity + 1`, which holds because a cold start
  needs a running count of zero. `ClosedBufferOnlyDrains` is an action property.
* `PlacementProofs`: `PlacementInvariant`, a task is in at most one place. It
  needs to know besides that a submitter that forwards holds `taskMu`, that a
  task not yet handed over is nowhere, and which worker states have a task in
  hand. `PendingCountIsExact` follows from the placement: a step that moves a
  task between two places keeps the set in flight only if it was in no third
  one.
* `HistoryProofs`: `ScalerNeverStopsEarly`. With the count exact, a scaler that
  sees `closed` and zero leaves behind only submissions that are bound to find
  the pool closed, since each is counted before it looks.
  `NoTaskIsLostOrDuplicated` and `HooksKeepTheirContract`, from `History`, which
  says which events a task has had: Submitted and Enqueued by where its
  submission is, Started and Completed by whether the pool was given the task
  and has run it. Neither property is inductive: that no task is lost needs the
  history, and that none is duplicated needs the placement.

### The buffer

`TaskBufferProofs` shows the refinement of `TaskFifo` by `TaskBuffer`
(`BufferIsAFifo`), for every chunk size, batch size, bound and number of chunks.
The inductive invariant `BufferInv` says that there is a sequence of distinct
chunks, from head to tail along the links, that lays out the contents (`Lays`):
the tasks are in the slots from `headIdx` to `tailIdx` across those chunks,
`chunkLen` counts them, every other slot and link is nil, and a chunk in `chunkPool`
is none of them and is empty. Without the last part a recycled chunk could bring
an old task or link back (`RecyclingLeavesNoTrace`). Each operation is shown to
take a layout to a layout of the sequence that `TaskFifo` prescribes; the walk
that defines the contents is shown to read that sequence off any layout. The
batched pop is an induction on the number of pops, by least counterexample.
`BufferStaysTyped` bounds the indices and the length.

### Shutdown, default pool and hooks

`ShutdownProofs`:

* `WaitAlwaysDrains`, from `CountExact` (the counter is the number of tasks that
  owe a `Done`) and the history of what each waiter has seen accepted; it needs
  no contract of the callers. `PoolClosesOnce`, from the fact that at most one
  closer is past the compare-and-swap. `DisciplinedNeverPanics` needs besides
  that the sleeping waiters are those in the word and those with a wake-up
  coming (`GroupInv`), so that the word cannot change under a waiter.
* `DefaultPoolStaysCurrent`, from `DefaultInv`: only the pool that the pointer
  names can withdraw it.
* `DispatchRunsOneSnapshot`, from `RegistryInv`: the mutex makes the list that
  `Add` has read the one it replaces, so a published list is only ever extended
  at its end, and what a dispatch has run and has still to run is a beginning of
  the list as it is now.

### The tick and its supply

* `ScalerProofs`: `SpawnIsBounded`, `ColdBacklogIsServed`,
  `StuckPoolAlwaysRampsUp` and `DecayAlwaysInRange`, of every reading;
  `PressureNeverLowersDemand`, of every two readings of which one has more
  buffered or more pending tasks. The latter goes through the branches of
  `scaleIfNeeded` and the monotonicity of the truncated quotients.
* `SupplyProofs`, on the scaler run's walk through readings: `SpawnStaysBounded`,
  `ColdBacklogStaysServed`, `StuckPoolKeepsRampingUp` and the action property
  `MorePressureNeverShrinks`, for a grid of any size and mesh. They reduce the
  run's properties to the theorems about single readings, through `GridInv`: a
  walk never leaves the readings.
* `HistogramsCountTheWindow` and `MediansAreOfTheWindow`, on the sampler. The
  invariant relates each position of the ring to the sample it came from and
  each bucket's count to the positions that hold it; `add` takes out the sample
  at the position it is about to overwrite, and that is the oldest one only when
  the ring is full. For the median, the running sum over the buckets is the
  number of samples in them; buckets keep the order of the values, since the
  tables ascend, so the first bucket whose sum exceeds half of the window is the
  bucket of the window's upper median.
* `AnyOptionsStayInRange`, of any sequence of options (`ConfigInv`).
* `SpinLockExcludes`, for any number of contenders and any lengths of the
  phases, and `StructsHaveOneOwner`. The latter needs `HoldsInv`: a goroutine
  holds a struct exactly from its start until it has parked it, and the scaler
  from Pop until it has started it.

### The life of a task

`TaskLifeProofs`: `TasksAreAccountedOnce` and `RetriesArePromised`, from what
the worker's place in `runTask` says of the task (`RunInv`);
`ContextsStartAfresh`, because a Context is leased to one task at a time and
blank in between (`CtxInv`); `TraceIDsAgree`, because the second critical section
of `TraceID` looks again before it stores; `LatenciesStayOrdered`, because a
later stage finds at least as many recorded (`LatencyInv`).

Proofs are checked with `tlapm <module>.tla`. The larger modules take five to
ten minutes.

## 6. What is only model-checked

* Liveness (`EverySubmissionSettles`, `CloseWindsDown`, `EveryWaitReturns`): the
  prover has no rule for fairness.
* The idle containers (`ImplementsContainer`, `PooledNodesAreClean`,
  `TreapKeepsPriorities`): `IdleQueues` and `IdleOrdered` are recursive over
  heaps, lists and trees, and what recursive operators compute is out of the
  prover's reach.
* `ShardsFit` and `BackOffDoublesUpToMax`: both are about powers of two with a
  variable exponent, which the provers do not interpret, and about loops that
  double until a bound is reached.

## 7. What is left to do

1. A task that calls `runtime.Goexit`, in `AgilePool`: the goroutine ends
   without `run`'s bookkeeping. `TaskLife` follows it to `done` only.
2. A task that submits to its own full pool from its last worker. It blocks for
   as long as the scaler may start no further worker; `Shutdown` has tasks that
   submit, but no bounded queue, and `AgilePool` has the queue, but tasks that
   do not submit.

## 8. What is not modelled

* `stack_trace.go`, the loggers and the text of panics: formatting and output,
  on which no state depends.
* `Value` and `PoolContextFrom`, which find a Context in a chain of the standard
  library; `QueueWaitLatency`, `GetString`, `SetTraceID` and `Duration`, which
  nothing above uses. `QueueWaitLatency` is left out of `LatenciesAreOrdered`
  because Enqueued and Started are recorded by different goroutines in either
  order, and it may be negative.
* The effect of `runtime.Goexit` in a task on the running count and the batch,
  and re-entrant submission to a full pool (section 7).
* The exit of the sampler has the scaler's condition and is not an action of its
  own.
* `RetryNum` beyond 2^63 - 1, where the loop's comparison with an int fails, and
  shard counts beyond 2^62, where doubling overflows.
* Rounding of floating-point numbers in `Scaler`, and real time: tickers tick
  in any order.
* `benchmark`, `example`, `skills` and `test` are programs that use the pool.

Go's memory model below atomics, locks and channels is taken as sequentially
consistent, which the code's use of `sync/atomic` justifies.
