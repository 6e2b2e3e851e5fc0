----------------------------- MODULE AgilePool -----------------------------
(***************************************************************************)
(* The goroutine pool: submitters (pool.go, submit), the sharded handoff   *)
(* queue, the overflow buffer behind taskMu, the workers (worker.go), the  *)
(* scaler, the idle-worker cleaner and Close, all running concurrently.    *)
(*                                                                         *)
(* Every submission is a goroutine of its own, identified with its task:   *)
(* goroutines that submit several tasks in a row are the runs of this      *)
(* model in which the submissions do not overlap.                          *)
(*                                                                         *)
(* Grain.  One action per access to shared state.  Two accesses share an   *)
(* action only when nothing another goroutine does between them can be     *)
(* told apart: a load of a flag that is never reset and what follows it,   *)
(* the load and the compare-and-swap of the cold start, a counter and the  *)
(* `go` statement after it (a goroutine that exists need not run yet).     *)
(*                                                                         *)
(* Data.  The shards and the buffer are sets of tasks: the order in which  *)
(* tasks leave is not told apart by the properties below and any order is  *)
(* allowed.  Rates are left out: the scaler's medians are arbitrary.       *)
(***************************************************************************)
EXTENDS Scaler, FiniteSets

CONSTANTS
    Task,           \* the tasks of all submissions
    CtxTask,        \* ... those submitted through SubmitCtx
    DeadlineTask,   \* ... those submitted through SubmitBefore
    Worker,         \* slots for worker goroutines alive at once (a bound)
    MaxIdle,        \* parked workers told apart (a bound)
    Closer,         \* the goroutines that call Close
    WorkMode,       \* config.workMode
    NumShards,      \* len(taskQueues)
    ShardCap,       \* cap of each shard: perShardCap
    MaxChunkLen,    \* maxChunkLen
    BatchSize,      \* batchSize of worker.run
    Medians,        \* the values a histogram median may have (doubled)
    NoTask          \* no task: nobody holds taskMu, the worker's hand is empty

ASSUME PoolAssumption ==
    /\ IsFiniteSet(Task)
    /\ IsFiniteSet(Worker) /\ Worker \subseteq Nat
    /\ MaxIdle \in Nat
    /\ CtxTask \subseteq Task /\ DeadlineTask \subseteq Task
    /\ CtxTask \cap DeadlineTask = {}
    /\ NoTask \notin Task
    /\ WorkMode \in {"BLOCK", "NONBLOCK"}
    /\ NumShards \in Nat \ {0}
    /\ ShardCap \in Nat \ {0}
    /\ MaxChunkLen \in Nat \ {0}
    /\ BatchSize \in Nat \ {0}
    /\ Medians \subseteq Nat

Shard == 0 .. NumShards - 1

\* Tasks whose context can be done before they start.
Cancellable == CtxTask \cup DeadlineTask

Event == {"Submitted", "Enqueued", "Started", "Ran", "Completed"}

VARIABLES
    closed,             \* p.closed
    overflowClosed,     \* taskBuf.overflowClosed
    closePoolCn,        \* TRUE when the channel closePoolCn is closed
    cpc,                \* where each Closer is in Close
    taskQueues,         \* the shards
    sendSeq,            \* p.sendSeq & p.shardMask
    workerSeq,          \* p.workerSeq & p.shardMask
    taskBuf,            \* the tasks in the overflow buffer
    taskMu,             \* the submitter inside PushAndForward, or NoTask
    runningWorkersNum,
    pendingTasks,
    idleWorks,          \* how many workers the idle container holds
    cleanerOn,          \* expiredWorkerCleaner has not returned
    spc,                \* where each submission is in submit
    target,             \* the shard a submission has drawn
    cancelled,          \* tasks whose context is done
    wpc,                \* where each worker is in run
    cursor,             \* w.cursor
    scanned,            \* shards probed by the current nextShardTask
    cur,                \* the task the worker runs, or NoTask
    batch,              \* popped tasks the worker has not started
    sc,                 \* where the scaler is
    scN,                \* the scaler's local: running, toSpawn, actualSpawn
    fired               \* how often each event of each task happened

closeVars  == <<closed, overflowClosed, closePoolCn, cpc>>
queueVars  == <<taskQueues, taskBuf, taskMu>>
submitVars == <<spc, target, sendSeq>>
workerVars == <<wpc, cursor, scanned, workerSeq>>
handVars   == <<cur, batch>>
idleVars   == <<idleWorks, cleanerOn>>
scalerVars == <<sc, scN>>

vars == <<closeVars, queueVars, submitVars, workerVars, handVars, idleVars,
          scalerVars, runningWorkersNum, pendingTasks, cancelled, fired>>

SubmitPC == {"ready", "check", "cold", "send", "push", "forward",
             "block", "enq", "accepted", "rejected", "dropped"}
WorkerPC == {"free", "scan", "pop", "run", "done", "park", "add"}
ScalerPC == {"tick", "plan", "recheck", "add", "spawn", "exit", "stopped"}
CloserPC == {"ready", "buf", "cn", "returned"}

CloseTypeOK ==
    /\ closed \in BOOLEAN /\ overflowClosed \in BOOLEAN /\ closePoolCn \in BOOLEAN
    /\ cpc \in [Closer -> CloserPC]

QueueTypeOK ==
    /\ taskQueues \in [Shard -> SUBSET Task]
    /\ taskBuf \in SUBSET Task /\ taskMu \in Task \cup {NoTask}

SubmitTypeOK ==
    /\ spc \in [Task -> SubmitPC] /\ target \in [Task -> Shard]
    /\ sendSeq \in Shard
    /\ cancelled \in SUBSET Task

WorkerTypeOK ==
    /\ wpc \in [Worker -> WorkerPC] /\ workerSeq \in Shard
    /\ cursor \in [Worker -> Shard] /\ scanned \in [Worker -> Shard]

HandTypeOK ==
    /\ cur \in [Worker -> Task \cup {NoTask}] /\ batch \in [Worker -> SUBSET Task]

CountTypeOK ==
    /\ runningWorkersNum \in Int /\ pendingTasks \in Int
    /\ idleWorks \in Nat /\ cleanerOn \in BOOLEAN
    /\ sc \in ScalerPC /\ scN \in Int

FiredTypeOK == fired \in [Task -> [Event -> Nat]]

\* The type invariant, by the parts of the state of pool, workers and scaler.
TypeOK ==
    /\ CloseTypeOK /\ QueueTypeOK /\ SubmitTypeOK /\ WorkerTypeOK
    /\ HandTypeOK /\ CountTypeOK /\ FiredTypeOK

Init ==
    /\ closed = FALSE /\ overflowClosed = FALSE /\ closePoolCn = FALSE
    /\ cpc = [c \in Closer |-> "ready"]
    /\ taskQueues = [s \in Shard |-> {}]
    /\ sendSeq = 0 /\ workerSeq = 0
    /\ taskBuf = {} /\ taskMu = NoTask
    /\ runningWorkersNum = 0 /\ pendingTasks = 0
    /\ idleWorks = 0 /\ cleanerOn = TRUE
    /\ spc = [t \in Task |-> "ready"] /\ target = [t \in Task |-> 0]
    /\ cancelled = {}
    /\ wpc = [w \in Worker |-> "free"]
    /\ cursor = [w \in Worker |-> 0] /\ scanned = [w \in Worker |-> 0]
    /\ cur = [w \in Worker |-> NoTask] /\ batch = [w \in Worker |-> {}]
    /\ sc = "tick" /\ scN = 0
    /\ fired = [t \in Task |-> [e \in Event |-> 0]]

-----------------------------------------------------------------------------
Fire(t, e) == fired' = [fired EXCEPT ![t][e] = @ + 1]

\* Mutant: the cursor is not masked.
NextShardUnmasked(t) ==
    sendSeq' = sendSeq + 1 /\ target' = [target EXCEPT ![t] = sendSeq + 1]

\* nextShard: bump the shared round-robin cursor and remember the shard.
NextShard(t) ==
    LET s == (sendSeq + 1) % NumShards
    IN  sendSeq' = s /\ target' = [target EXCEPT ![t] = s]

HasRoom(s) == Cardinality(taskQueues[s]) < ShardCap

Send(s, t) == taskQueues' = [taskQueues EXCEPT ![s] = @ \cup {t}]

\* startWorker: assign the scan start and launch the goroutine, in the lowest
\* free slot.  Which *worker it runs on makes no difference here: its cursor is
\* overwritten and its date is read by the cleaner only.
StartWorker ==
    LET s == (workerSeq + 1) % NumShards
    IN  \E w \in Worker :
          /\ wpc[w] = "free"
          /\ \A v \in Worker : wpc[v] = "free" => w <= v
          /\ workerSeq' = s
          /\ cursor' = [cursor EXCEPT ![w] = s]
          /\ wpc' = [wpc EXCEPT ![w] = "scan"]
          /\ UNCHANGED scanned

Goto(t, pc) == spc' = [spc EXCEPT ![t] = pc]

\* Mutant: a path that returns false without done().
RejectWithoutDone(t) == Goto(t, "rejected") /\ UNCHANGED pendingTasks

\* Give the count of line 314 back and return false.
Reject(t) == Goto(t, "rejected") /\ pendingTasks' = pendingTasks - 1

\* Mutant: a path that returns true without dispatchTaskEnqueuedFor.
AcceptSilently(t) == Goto(t, "accepted") /\ UNCHANGED pendingTasks

\* The pool has the task; the Enqueued hook is next.
Accept(t) == Goto(t, "enq") /\ UNCHANGED pendingTasks

-----------------------------------------------------------------------------
(***************************************************************************)
(* Submission.                                                             *)
(***************************************************************************)

\* SubmitCtx drops a task whose context is already done, before any count.
SubmitCtxDone(t) ==
    /\ spc[t] = "ready"
    /\ t \in CtxTask \cap cancelled
    /\ Goto(t, "dropped")
    /\ UNCHANGED <<closeVars, queueVars, target, sendSeq, workerVars, handVars,
                   idleVars, scalerVars, runningWorkersNum, pendingTasks,
                   cancelled, fired>>

\* The submission is counted before it looks at the closed flag.
SubmitCall(t) ==
    /\ spc[t] = "ready"
    /\ t \notin CtxTask \cap cancelled
    /\ pendingTasks' = pendingTasks + 1
    /\ Goto(t, "check")
    /\ UNCHANGED <<closeVars, queueVars, target, sendSeq, workerVars, handVars,
                   idleVars, scalerVars, runningWorkersNum, cancelled, fired>>

CheckClosed(t) ==
    /\ spc[t] = "check"
    /\ \/ /\ closed
          /\ Reject(t)
       \/ /\ ~closed
          /\ Goto(t, "cold")
          /\ UNCHANGED pendingTasks
    /\ UNCHANGED <<closeVars, queueVars, target, sendSeq, workerVars, handVars,
                   idleVars, scalerVars, runningWorkersNum, cancelled, fired>>

\* Mutant: every submission below capacity starts a worker.
NeedsWorkerBelowCapacity == runningWorkersNum < Capacity

NeedsWorker == runningWorkersNum = 0

\* The cold start does not take p.lock, and never reuses an idle worker.  The
\* Submitted hook and the draw of a shard follow.
ColdStart(t) ==
    /\ spc[t] = "cold"
    /\ \/ /\ NeedsWorker
          /\ runningWorkersNum' = runningWorkersNum + 1
          /\ StartWorker
       \/ /\ ~NeedsWorker
          /\ UNCHANGED <<runningWorkersNum, workerVars>>
    /\ Fire(t, "Submitted")
    /\ NextShard(t)
    /\ Goto(t, "send")
    /\ UNCHANGED <<closeVars, queueVars, handVars, idleVars, scalerVars,
                   pendingTasks, cancelled>>

\* The non-blocking send of both modes; a full shard sends BLOCK to the buffer.
TrySend(t) ==
    /\ spc[t] = "send"
    /\ \/ /\ HasRoom(target[t])
          /\ Send(target[t], t)
          /\ Accept(t)
       \/ /\ ~HasRoom(target[t])
          /\ WorkMode = "NONBLOCK"
          /\ Reject(t)
          /\ UNCHANGED taskQueues
       \/ /\ ~HasRoom(target[t])
          /\ WorkMode = "BLOCK"
          /\ Goto(t, "push")
          /\ UNCHANGED <<taskQueues, pendingTasks>>
    /\ UNCHANGED <<closeVars, taskBuf, taskMu, target, sendSeq, workerVars,
                   handVars, idleVars, scalerVars, runningWorkersNum, cancelled,
                   fired>>

\* Mutant: PushAndForward does not look at overflowClosed.
PushResultIgnoringClose ==
    IF Cardinality(taskBuf) >= MaxChunkLen THEN "Full" ELSE "Accepted"

PushResult ==
    CASE overflowClosed -> "Closed"
      [] ~overflowClosed /\ Cardinality(taskBuf) >= MaxChunkLen -> "Full"
      [] ~overflowClosed /\ Cardinality(taskBuf) < MaxChunkLen -> "Accepted"

\* PushAndForward up to the draw of the shard the buffer's head goes to.  The
\* closed and full answers release taskMu at once.
Push(t) ==
    /\ spc[t] = "push"
    /\ taskMu = NoTask
    /\ \/ /\ PushResult = "Closed"
          /\ Reject(t)
          /\ UNCHANGED <<taskBuf, taskMu, target, sendSeq>>
       \/ /\ PushResult = "Full"
          /\ NextShard(t)
          /\ Goto(t, "block")
          /\ UNCHANGED <<taskBuf, taskMu, pendingTasks>>
       \/ /\ PushResult = "Accepted"
          /\ taskBuf' = taskBuf \cup {t}
          /\ taskMu' = t
          /\ NextShard(t)
          /\ Goto(t, "forward")
          /\ UNCHANGED pendingTasks
    /\ UNCHANGED <<closeVars, taskQueues, workerVars, handVars, idleVars,
                   scalerVars, runningWorkersNum, cancelled, fired>>

\* Mutant: the head is forwarded and not popped.
MoveHeadWithoutPop(s) == \E h \in taskBuf : Send(s, h) /\ UNCHANGED taskBuf

MoveHead(s) == \E h \in taskBuf : Send(s, h) /\ taskBuf' = taskBuf \ {h}

\* Still under taskMu: move one buffered task to the drawn shard if it has room.
Forward(t) ==
    /\ spc[t] = "forward"
    /\ \/ HasRoom(target[t]) /\ MoveHead(target[t])
       \/ ~HasRoom(target[t]) /\ UNCHANGED <<taskQueues, taskBuf>>
    /\ taskMu' = NoTask
    /\ Accept(t)
    /\ UNCHANGED <<closeVars, target, sendSeq, workerVars, handVars, idleVars,
                   scalerVars, runningWorkersNum, cancelled, fired>>

\* The select of a submitter that found shard and buffer full.
BlockedSend(t) ==
    /\ spc[t] = "block"
    /\ \/ /\ HasRoom(target[t])
          /\ Send(target[t], t)
          /\ Accept(t)
       \/ /\ t \in cancelled \/ closePoolCn
          /\ Reject(t)
          /\ UNCHANGED taskQueues
    /\ UNCHANGED <<closeVars, taskBuf, taskMu, target, sendSeq, workerVars,
                   handVars, idleVars, scalerVars, runningWorkersNum, cancelled,
                   fired>>

\* dispatchTaskEnqueuedFor, outside every lock, and the return of submit.
EnqueuedHook(t) ==
    /\ spc[t] = "enq"
    /\ Fire(t, "Enqueued")
    /\ Goto(t, "accepted")
    /\ UNCHANGED <<closeVars, queueVars, target, sendSeq, workerVars, handVars,
                   idleVars, scalerVars, runningWorkersNum, pendingTasks,
                   cancelled>>

\* The caller's context is cancelled, or the start deadline passes.  Once the
\* task has started or its submission has failed nobody looks at it again.
Cancel(t) ==
    /\ t \in Cancellable \ cancelled
    /\ fired[t]["Started"] = 0 /\ spc[t] # "rejected"
    /\ cancelled' = cancelled \cup {t}
    /\ UNCHANGED <<closeVars, queueVars, submitVars, workerVars, handVars,
                   idleVars, scalerVars, runningWorkersNum, pendingTasks, fired>>

-----------------------------------------------------------------------------
(***************************************************************************)
(* Workers.                                                                *)
(***************************************************************************)
Become(w, pc) == wpc' = [wpc EXCEPT ![w] = pc]

\* One probe of nextShardTask; after the last empty shard, on to the buffer.
Probe(w) ==
    LET s == (cursor[w] + scanned[w]) % NumShards
    IN  /\ wpc[w] = "scan"
        /\ \/ \E t \in taskQueues[s] :
                /\ taskQueues' = [taskQueues EXCEPT ![s] = @ \ {t}]
                /\ cur' = [cur EXCEPT ![w] = t]
                /\ cursor' = [cursor EXCEPT ![w] = s]
                /\ scanned' = [scanned EXCEPT ![w] = 0]
                /\ Become(w, "run")
           \/ /\ taskQueues[s] = {}
              /\ scanned[w] + 1 < NumShards
              /\ scanned' = [scanned EXCEPT ![w] = @ + 1]
              /\ UNCHANGED <<taskQueues, cur, cursor, wpc>>
           \/ /\ taskQueues[s] = {}
              /\ scanned[w] + 1 = NumShards
              /\ scanned' = [scanned EXCEPT ![w] = 0]
              /\ Become(w, "pop")
              /\ UNCHANGED <<taskQueues, cur, cursor>>
        /\ UNCHANGED <<closeVars, taskBuf, taskMu, submitVars, workerSeq, batch,
                       idleVars, scalerVars, runningWorkersNum, pendingTasks,
                       cancelled, fired>>

\* PopBatch under taskMu; an empty buffer sends the worker to park.
PopBatch(w) ==
    /\ wpc[w] = "pop"
    /\ taskMu = NoTask
    /\ \/ /\ taskBuf = {}
          /\ Become(w, "park")
          /\ UNCHANGED <<taskBuf, handVars>>
       \/ \E popped \in SUBSET taskBuf : \E first \in popped :
            /\ Cardinality(popped) = Least(BatchSize, Cardinality(taskBuf))
            /\ taskBuf' = taskBuf \ popped
            /\ cur' = [cur EXCEPT ![w] = first]
            /\ batch' = [batch EXCEPT ![w] = popped \ {first}]
            /\ Become(w, "run")
    /\ UNCHANGED <<closeVars, taskQueues, taskMu, submitVars, cursor, scanned,
                   workerSeq, idleVars, scalerVars, runningWorkersNum,
                   pendingTasks, cancelled, fired>>

RunEvents(t) ==
    [fired[t] EXCEPT !["Started"] = @ + 1,
                     !["Ran"] = IF t \in cancelled THEN @ ELSE @ + 1,
                     !["Completed"] = @ + 1]

\* runTask but for the deferred done(): Started hook, process, which runs the
\* user's function unless the task's context is done, and, whether it returned
\* or panicked, the Completed hook.  The body runs while wpc[w] = "run".
RunTask(w) ==
    /\ wpc[w] = "run"
    /\ fired' = [fired EXCEPT ![cur[w]] = RunEvents(cur[w])]
    /\ Become(w, "done")
    /\ UNCHANGED <<closeVars, queueVars, submitVars, cursor, scanned, workerSeq,
                   handVars, idleVars, scalerVars, runningWorkersNum,
                   pendingTasks, cancelled>>

\* Mutant: the worker goes back to the shards after one task of a batch.
NextTaskDropsBatch(w) ==
    /\ cur' = [cur EXCEPT ![w] = NoTask]
    /\ batch' = [batch EXCEPT ![w] = {}]
    /\ Become(w, "scan")

\* On to the next task of the batch, or to a new scan.
NextTask(w) ==
    \/ /\ batch[w] = {}
       /\ cur' = [cur EXCEPT ![w] = NoTask]
       /\ Become(w, "scan")
       /\ UNCHANGED batch
    \/ \E t \in batch[w] :
         /\ cur' = [cur EXCEPT ![w] = t]
         /\ batch' = [batch EXCEPT ![w] = @ \ {t}]
         /\ Become(w, "run")

\* The deferred done().
DoneTask(w) ==
    /\ wpc[w] = "done"
    /\ pendingTasks' = pendingTasks - 1
    /\ NextTask(w)
    /\ UNCHANGED <<closeVars, queueVars, submitVars, cursor, scanned, workerSeq,
                   idleVars, scalerVars, runningWorkersNum, cancelled, fired>>

Park(w) ==
    /\ wpc[w] = "park"
    /\ runningWorkersNum' = runningWorkersNum - 1
    /\ Become(w, "add")
    /\ UNCHANGED <<closeVars, queueVars, submitVars, cursor, scanned, workerSeq,
                   handVars, idleVars, scalerVars, pendingTasks, cancelled, fired>>

\* The goroutine ends.  Beyond MaxIdle a parked worker counts as expired: all
\* it takes is that a later spawn allocates instead of reusing it.
AddToIdle(w) ==
    /\ wpc[w] = "add"
    /\ idleWorks' = Least(idleWorks + 1, MaxIdle)
    /\ Become(w, "free")
    /\ cursor' = [cursor EXCEPT ![w] = 0]
    /\ UNCHANGED <<closeVars, queueVars, submitVars, scanned, workerSeq,
                   handVars, cleanerOn, scalerVars, runningWorkersNum,
                   pendingTasks, cancelled, fired>>

-----------------------------------------------------------------------------
(***************************************************************************)
(* Scaler: one tick is ReadRunning, Plan, Recheck, AddRunning, Spawn ...,  *)
(* ScalerExit.  p.lock, around Recheck and AddRunning, is taken by the     *)
(* scaler alone and excludes nobody, so it is not a variable.              *)
(***************************************************************************)
scalerOnly == <<closeVars, queueVars, submitVars, handVars, pendingTasks,
                cancelled, fired, cleanerOn>>

ReadRunning ==
    /\ sc = "tick"
    /\ scN' = runningWorkersNum
    /\ sc' = "plan"
    /\ UNCHANGED <<scalerOnly, workerVars, idleWorks, runningWorkersNum>>

\* What the tick may read.  queuedTasks adds up lengths that it reads one by
\* one while tasks move between them, so any sum may come out.
Readings ==
    [submitMed : Medians, consumeMed : Medians, exitMed : Medians,
     running : {scN}, bufDepth : {Cardinality(taskBuf)},
     backlog : {pendingTasks}, queued : 0 .. Cardinality(Task), due : BOOLEAN]

Plans == {ToSpawn(r) : r \in Readings}

Plan ==
    /\ sc = "plan"
    /\ taskMu = NoTask
    /\ \E n \in Plans :
          /\ scN' = n
          /\ sc' = IF n > 0 THEN "recheck" ELSE "exit"
    /\ UNCHANGED <<scalerOnly, workerVars, idleWorks, runningWorkersNum>>

\* currentRunning is loaded here and added to in the next step.
Recheck ==
    /\ sc = "recheck"
    /\ scN' = Least(scN, Capacity - runningWorkersNum)
    /\ sc' = IF scN' > 0 THEN "add" ELSE "exit"
    /\ UNCHANGED <<scalerOnly, workerVars, idleWorks, runningWorkersNum>>

\* Mutant: the running count grows by one for all the workers of a tick.
AddRunningOne ==
    /\ sc = "add"
    /\ runningWorkersNum' = runningWorkersNum + 1
    /\ sc' = "spawn"
    /\ UNCHANGED <<scalerOnly, workerVars, idleWorks, scN>>

AddRunning ==
    /\ sc = "add"
    /\ runningWorkersNum' = runningWorkersNum + scN
    /\ sc' = "spawn"
    /\ UNCHANGED <<scalerOnly, workerVars, idleWorks, scN>>

\* One turn of the spawn loop: an idle worker if there is one, else a new one.
Spawn ==
    /\ sc = "spawn"
    /\ StartWorker
    /\ idleWorks' = Greatest(idleWorks - 1, 0)
    /\ scN' = scN - 1
    /\ sc' = IF scN > 1 THEN "spawn" ELSE "exit"
    /\ UNCHANGED <<scalerOnly, runningWorkersNum>>

\* Mutant: the scaler looks at the queues instead of the pending count.
QueuesDrained == closed /\ taskBuf = {} /\ \A s \in Shard : taskQueues[s] = {}

\* Mutant: the scaler stops at Close.
JustClosed == closed

Drained == closed /\ pendingTasks = 0

ScalerExit ==
    /\ sc = "exit"
    /\ scN' = 0
    /\ sc' = IF Drained THEN "stopped" ELSE "tick"
    /\ UNCHANGED <<scalerOnly, workerVars, idleWorks, runningWorkersNum>>

-----------------------------------------------------------------------------
(***************************************************************************)
(* Cleaner and Close.                                                      *)
(***************************************************************************)

\* RemoveExpired on a tick: which workers have expired is up to the clock.
Clean ==
    /\ cleanerOn
    /\ idleWorks' \in 0 .. idleWorks - 1
    /\ UNCHANGED <<closeVars, queueVars, submitVars, workerVars, handVars,
                   cleanerOn, scalerVars, runningWorkersNum, pendingTasks,
                   cancelled, fired>>

CleanerStop ==
    /\ cleanerOn
    /\ closePoolCn
    /\ cleanerOn' = FALSE
    /\ UNCHANGED <<closeVars, queueVars, submitVars, workerVars, handVars,
                   idleWorks, scalerVars, runningWorkersNum, pendingTasks,
                   cancelled, fired>>

closeOnly == <<queueVars, submitVars, workerVars, handVars, idleVars, scalerVars,
               runningWorkersNum, pendingTasks, cancelled, fired>>

CloseBegin(c) ==
    /\ cpc[c] = "ready"
    /\ closed' = TRUE
    /\ cpc' = [cpc EXCEPT ![c] = IF closed THEN "returned" ELSE "buf"]
    /\ UNCHANGED <<closeOnly, overflowClosed, closePoolCn>>

CloseBuffer(c) ==
    /\ cpc[c] = "buf"
    /\ taskMu = NoTask
    /\ overflowClosed' = TRUE
    /\ cpc' = [cpc EXCEPT ![c] = "cn"]
    /\ UNCHANGED <<closeOnly, closed, closePoolCn>>

\* The last step but for the PoolClosed hook, which is in module Shutdown.
CloseChannel(c) ==
    /\ cpc[c] = "cn"
    /\ closePoolCn' = TRUE
    /\ cpc' = [cpc EXCEPT ![c] = "returned"]
    /\ UNCHANGED <<closeOnly, closed, overflowClosed>>

-----------------------------------------------------------------------------
SubmitReturned(t) == spc[t] \in {"accepted", "rejected", "dropped"}

\* Once closed and drained nothing is left to do: the one way to stop.
Terminated ==
    /\ sc = "stopped" /\ ~cleanerOn
    /\ \A t \in Task : SubmitReturned(t)
    /\ \A w \in Worker : wpc[w] = "free"
    /\ \A c \in Closer : cpc[c] = "returned"
    /\ UNCHANGED vars

SubmitStep(t) ==
    \/ CheckClosed(t) \/ ColdStart(t) \/ TrySend(t)
    \/ Push(t) \/ Forward(t) \/ BlockedSend(t) \/ EnqueuedHook(t)

WorkerStep(w) ==
    \/ Probe(w) \/ PopBatch(w) \/ RunTask(w)
    \/ DoneTask(w) \/ Park(w) \/ AddToIdle(w)

ScalerStep == ReadRunning \/ Plan \/ Recheck \/ AddRunning \/ Spawn \/ ScalerExit

CloseStep(c) == CloseBuffer(c) \/ CloseChannel(c)

Next ==
    \/ \E t \in Task : SubmitCtxDone(t) \/ SubmitCall(t) \/ SubmitStep(t) \/ Cancel(t)
    \/ \E w \in Worker : WorkerStep(w)
    \/ ScalerStep
    \/ Clean \/ CleanerStop
    \/ \E c \in Closer : CloseBegin(c) \/ CloseStep(c)
    \/ Terminated

Spec == Init /\ [][Next]_vars

\* Goroutines get scheduled, tickers tick, task bodies and hooks return, and a
\* lock or a channel slot that stays free is eventually granted.  Nobody has to
\* submit, cancel or close, and workers need not expire.  The cold start never
\* waits in the code; only the bound on Worker can disable it, hence SF.
Fairness ==
    /\ \A t \in Task : SF_vars(ColdStart(t))
    /\ \A t \in Task : WF_vars(SubmitStep(t))
    /\ \A w \in Worker : WF_vars(WorkerStep(w))
    /\ WF_vars(ScalerStep)
    /\ WF_vars(CleanerStop)
    /\ \A c \in Closer : WF_vars(CloseStep(c))

FairSpec == Spec /\ Fairness

-----------------------------------------------------------------------------
(***************************************************************************)
(* Properties.                                                             *)
(***************************************************************************)

\* The tasks a worker has taken and not finished.
Held(w) == batch[w] \cup ({cur[w]} \ {NoTask})

Stored == taskBuf \cup UNION {taskQueues[s] : s \in Shard}

Holding == UNION {Held(w) : w \in Worker}

\* Submissions that are counted and have not handed their task over yet.
Handing == {t \in Task :
              spc[t] \in {"check", "cold", "send", "push", "forward", "block"}}

InFlight == Handing \cup Stored \cup Holding

\* Goroutines of workers between `go w.run` and the decrement in park.
Running == {w \in Worker : wpc[w] \in {"scan", "pop", "run", "done", "park"}}

(***************************************************************************)
(* Every accepted task is in exactly one place until it has completed, and *)
(* no other task is anywhere: submit, PushAndForward, nextShardTask and    *)
(* PopBatch neither lose nor duplicate a task while they race, so each     *)
(* accepted task is run at most once and no rejected one is run.           *)
(***************************************************************************)
ExactlyOnePlace ==
    \A t \in Task :
        LET shards  == {s \in Shard : t \in taskQueues[s]}
            holders == {w \in Worker : t \in Held(w)}
            places  == Cardinality(shards) + Cardinality(holders)
                         + (IF t \in taskBuf THEN 1 ELSE 0)
            over    == fired[t]["Completed"]
        IN  IF spc[t] \in {"forward", "enq", "accepted"}
            THEN \/ places = 1 /\ (over = 0 \/ \E w \in holders : wpc[w] = "done")
                 \/ places = 0 /\ over = 1
            ELSE places = 0 /\ fired[t]["Started"] = 0

(***************************************************************************)
(* pendingTasks counts exactly the submissions being handed over and the   *)
(* tasks that are stored or held: every exit of submit and every runTask   *)
(* gives back what line 314 took, once.  The scaler and the sampler stop   *)
(* on this counter.                                                        *)
(***************************************************************************)
PendingExact == pendingTasks = Cardinality(InFlight)

(***************************************************************************)
(* The scaler has stopped only if no accepted task is left and none can    *)
(* still be accepted (the comments at pool.go:312 and pool.go:692): the    *)
(* increment of pendingTasks precedes the closed check of submit, so the   *)
(* submissions a stopped scaler does not know of are bound to be rejected. *)
(***************************************************************************)
ScalerOutlivesTasks ==
    sc = "stopped" => closed /\ \A t \in InFlight : spc[t] = "check"

(***************************************************************************)
(* runningWorkersNum is the number of worker goroutines that still look    *)
(* for work plus those the scaler has counted and not launched yet.  A     *)
(* count that stays too high would keep cold starts and scaling away for   *)
(* ever; one that is too low would lift the capacity limit.                *)
(***************************************************************************)
RunningExact ==
    runningWorkersNum = Cardinality(Running) + (IF sc = "spawn" THEN scN ELSE 0)

(***************************************************************************)
(* The cold start of submit bypasses the scaler's re-check, but it can     *)
(* only add the first worker: the capacity is exceeded by one at most.     *)
(***************************************************************************)
OvershootAtMostOne == runningWorkersNum <= Capacity + 1

(***************************************************************************)
(* What WithWorkerNumCapacity and GetCapacity promise: no more than        *)
(* Capacity workers run concurrently.                                      *)
(***************************************************************************)
RunningWithinCapacity == runningWorkersNum <= Capacity

(***************************************************************************)
(* The hooks contract: Enqueued fires exactly once for an accepted task,   *)
(* whichever of the four ways in it took, and never for a rejected one;    *)
(* nothing starts before its Submitted event; a task's function runs at    *)
(* most once and its Completed event follows.                              *)
(***************************************************************************)
HookContract ==
    \A t \in Task :
        /\ fired[t]["Enqueued"] = IF spc[t] = "accepted" THEN 1 ELSE 0
        /\ fired[t]["Started"] > 0 => fired[t]["Submitted"] = 1
        /\ fired[t]["Ran"] <= fired[t]["Completed"]
        /\ fired[t]["Completed"] <= 1

\* Once Close has closed the overflow buffer it only drains: a submitter that
\* passed the closed check before Close cannot park a task there afterwards.
ClosedBufferDrains == [][overflowClosed => taskBuf' \subseteq taskBuf]_vars

(***************************************************************************)
(* NONBLOCK "drops submissions when full": a submission is turned away     *)
(* only when no shard has room.                                            *)
(***************************************************************************)
RejectOnlyWhenFull ==
    [][\A t \in Task : spc[t] = "send" /\ spc'[t] = "rejected"
          => \A s \in Shard : ~HasRoom(s)]_vars

\* Nobody is left behind: every call of submit returns, the one blocked on a
\* full pool included, and every accepted task completes, also when its worker
\* parked just before the task was enqueued, or when Close raced with the
\* submission.  (A settled submission stays settled.)
EverySubmissionSettles ==
    []<>(\A t \in Task :
           \/ spc[t] \in {"ready", "rejected", "dropped"}
           \/ spc[t] = "accepted" /\ fired[t]["Completed"] = 1)

\* After Close the pool winds down: the scaler and the cleaner return and
\* every worker parks.
CloseWindsDown ==
    closed ~> (sc = "stopped" /\ ~cleanerOn /\ Running = {} /\ InFlight = {})
=============================================================================
