-------------------------- MODULE AgilePoolProofs --------------------------
(***************************************************************************)
(* Theorems about AgilePool for any number of tasks, workers, shards and   *)
(* any capacity.                                                           *)
(***************************************************************************)
EXTENDS AgilePool, ScalerProofs, FiniteSetTheorems

USE DEF closeVars, queueVars, submitVars, workerVars, handVars, idleVars,
        scalerVars, scalerOnly, closeOnly

-----------------------------------------------------------------------------
(***************************************************************************)
(* Type correctness.                                                       *)
(***************************************************************************)

\* The masked cursors of nextShard and nextShardTask stay within the shards.
LEMMA ShardStep == \A s \in Shard : (s + 1) % NumShards \in Shard
  BY PoolAssumption DEF Shard

\* So does the offset of the scan over the shards.
LEMMA ShardSum == \A s, u \in Shard : (s + u) % NumShards \in Shard
  BY PoolAssumption DEF Shard

\* What the scaler reads is made of integers, hence so is what it plans.
LEMMA PlansType == TypeOK => Plans \subseteq Int
<1> SUFFICES ASSUME TypeOK, NEW r \in Readings
             PROVE  ToSpawn(r) \in Int
  BY DEF Plans
<1>1. Cardinality(taskBuf) \in Nat
  <2>1. IsFiniteSet(Task) /\ taskBuf \in SUBSET Task
    BY PoolAssumption DEF TypeOK, QueueTypeOK
  <2>2. IsFiniteSet(taskBuf)
    BY <2>1, FS_Subset
  <2> QED
    BY <2>2, FS_CardinalityType
<1>2. Cardinality(Task) \in Nat
  BY PoolAssumption, FS_CardinalityType
<1>3. Medians \subseteq Nat /\ scN \in Int /\ pendingTasks \in Int
  BY PoolAssumption DEF TypeOK, CountTypeOK
<1>4. /\ r.submitMed \in Nat /\ r.consumeMed \in Nat /\ r.exitMed \in Nat
      /\ r.running \in Int /\ r.bufDepth \in Nat /\ r.backlog \in Int
      /\ r.queued \in Nat /\ r.due \in BOOLEAN
  <2>1. /\ r.submitMed \in Medians /\ r.consumeMed \in Medians
        /\ r.exitMed \in Medians /\ r.running = scN
        /\ r.bufDepth = Cardinality(taskBuf) /\ r.backlog = pendingTasks
        /\ r.queued \in 0 .. Cardinality(Task)
    BY DEF Readings
  <2>2. r.due \in BOOLEAN
    BY DEF Readings
  <2>3. r.submitMed \in Nat /\ r.consumeMed \in Nat /\ r.exitMed \in Nat
    BY <1>3, <2>1, Zenon
  <2>4. r.running \in Int /\ r.bufDepth \in Nat /\ r.backlog \in Int
    BY <1>1, <1>3, <2>1, Zenon
  <2>5. r.queued \in Nat
    BY <1>2, <2>1
  <2> QED
    BY <2>2, <2>3, <2>4, <2>5, Zenon
<1>5. r = [submitMed |-> r.submitMed, consumeMed |-> r.consumeMed,
           exitMed |-> r.exitMed, running |-> r.running,
           bufDepth |-> r.bufDepth, backlog |-> r.backlog,
           queued |-> r.queued, due |-> r.due]
  BY DEF Readings
<1>6. r \in IntReading
  BY <1>4, <1>5 DEF IntReading
<1> QED
  BY <1>6, ToSpawnType

\* Counting one event of one task keeps the counters natural numbers.
LEMMA FireType ==
    ASSUME FiredTypeOK, NEW t \in Task, NEW e \in Event, Fire(t, e)
    PROVE  FiredTypeOK'
<1>1. fired[t] \in [Event -> Nat]
  BY DEF FiredTypeOK
<1>2. [fired[t] EXCEPT ![e] = @ + 1] \in [Event -> Nat]
  BY <1>1
<1>3. fired' = [fired EXCEPT ![t] = [fired[t] EXCEPT ![e] = @ + 1]]
  BY DEF Fire
<1> QED
  BY <1>2, <1>3 DEF FiredTypeOK

\* NewPool starts in a well-typed state.
LEMMA TypeInit == Init => TypeOK
<1> SUFFICES ASSUME Init PROVE TypeOK
  OBVIOUS
<1>1. 0 \in Shard
  BY PoolAssumption DEF Shard
<1>2. CloseTypeOK
  BY Zenon DEF Init, CloseTypeOK, CloserPC
<1>3. QueueTypeOK
  BY DEF Init, QueueTypeOK
<1>4. SubmitTypeOK
  BY <1>1 DEF Init, SubmitTypeOK, SubmitPC
<1>5. WorkerTypeOK
  BY <1>1 DEF Init, WorkerTypeOK, WorkerPC
<1>6. HandTypeOK
  BY DEF Init, HandTypeOK
<1>7. CountTypeOK
  BY DEF Init, CountTypeOK, ScalerPC
<1>8. FiredTypeOK
  BY DEF Init, FiredTypeOK
<1> QED
  BY <1>2, <1>3, <1>4, <1>5, <1>6, <1>7, <1>8 DEF TypeOK

\* A step of submit keeps the types.
LEMMA TypeSubmit ==
    ASSUME TypeOK, NEW t \in Task,
           SubmitCtxDone(t) \/ SubmitCall(t) \/ SubmitStep(t) \/ Cancel(t)
    PROVE  TypeOK'
<1> USE DEF TypeOK, Goto, Reject, Accept
<1>1. CloseTypeOK'
  BY Zenon DEF SubmitCtxDone, SubmitCall, SubmitStep, Cancel, CheckClosed, ColdStart,
         TrySend, Push, Forward, BlockedSend, EnqueuedHook, CloseTypeOK
<1>2. QueueTypeOK'
  <2>1. CASE TrySend(t) \/ BlockedSend(t)
    BY <2>1 DEF TrySend, BlockedSend, Send, QueueTypeOK
  <2>2. CASE Push(t)
    BY <2>2 DEF Push, QueueTypeOK
  <2>3. CASE Forward(t)
    BY <2>3 DEF Forward, Send, MoveHead, QueueTypeOK
  <2>4. CASE UNCHANGED queueVars
    BY <2>4 DEF QueueTypeOK
  <2> QED
    BY Zenon, <2>1, <2>2, <2>3, <2>4
       DEF SubmitCtxDone, SubmitCall, SubmitStep, Cancel, CheckClosed, ColdStart,
           EnqueuedHook
<1>3. SubmitTypeOK'
  <2>1. CASE ColdStart(t)
    BY <2>1, ShardStep DEF ColdStart, NextShard, SubmitTypeOK, SubmitPC
  <2>2. CASE Push(t)
    BY SMTT(30), <2>2, ShardStep DEF Push, NextShard, SubmitTypeOK, SubmitPC
  <2>3. CASE SubmitCtxDone(t) \/ SubmitCall(t) \/ CheckClosed(t) \/ Cancel(t)
    BY <2>3
       DEF SubmitCtxDone, SubmitCall, CheckClosed, Cancel, Cancellable,
           SubmitTypeOK, SubmitPC
  <2>4. CASE TrySend(t) \/ Forward(t) \/ BlockedSend(t) \/ EnqueuedHook(t)
    BY <2>4
       DEF TrySend, Forward, BlockedSend, EnqueuedHook, SubmitTypeOK, SubmitPC
  <2> QED
    BY Zenon, <2>1, <2>2, <2>3, <2>4 DEF SubmitStep
<1>4. WorkerTypeOK'
  <2>1. CASE ColdStart(t)
    BY <2>1, ShardStep DEF ColdStart, StartWorker, WorkerTypeOK, WorkerPC
  <2>2. CASE UNCHANGED workerVars
    BY <2>2 DEF WorkerTypeOK
  <2> QED
    BY Zenon, <2>1, <2>2
       DEF SubmitCtxDone, SubmitCall, SubmitStep, Cancel, CheckClosed, TrySend,
           Push, Forward, BlockedSend, EnqueuedHook
<1>5. HandTypeOK'
  BY Zenon DEF SubmitCtxDone, SubmitCall, SubmitStep, Cancel, CheckClosed, ColdStart,
         TrySend, Push, Forward, BlockedSend, EnqueuedHook, HandTypeOK
<1>6. CountTypeOK'
  <2>1. UNCHANGED <<idleVars, scalerVars>>
    BY Zenon
       DEF SubmitCtxDone, SubmitCall, SubmitStep, Cancel, CheckClosed, ColdStart,
           TrySend, Push, Forward, BlockedSend, EnqueuedHook
  <2>2. pendingTasks' \in {pendingTasks, pendingTasks + 1, pendingTasks - 1}
    BY Zenon
       DEF SubmitCtxDone, SubmitCall, SubmitStep, Cancel, CheckClosed, ColdStart,
           TrySend, Push, Forward, BlockedSend, EnqueuedHook
  <2>3. runningWorkersNum' \in {runningWorkersNum, runningWorkersNum + 1}
    BY Zenon
       DEF SubmitCtxDone, SubmitCall, SubmitStep, Cancel, CheckClosed, ColdStart,
           TrySend, Push, Forward, BlockedSend, EnqueuedHook
  <2> QED
    BY <2>1, <2>2, <2>3 DEF CountTypeOK
<1>7. FiredTypeOK'
  <2>1. CASE ColdStart(t)
    BY <2>1, FireType DEF ColdStart, Event
  <2>2. CASE EnqueuedHook(t)
    BY <2>2, FireType DEF EnqueuedHook, Event
  <2>3. CASE UNCHANGED fired
    BY <2>3 DEF FiredTypeOK
  <2> QED
    BY Zenon, <2>1, <2>2, <2>3
       DEF SubmitCtxDone, SubmitCall, SubmitStep, Cancel, CheckClosed, TrySend,
           Push, Forward, BlockedSend
<1> QED
  BY <1>1, <1>2, <1>3, <1>4, <1>5, <1>6, <1>7

\* A step of a worker goroutine keeps the types.
LEMMA TypeWorker ==
    ASSUME TypeOK, NEW w \in Worker, WorkerStep(w)
    PROVE  TypeOK'
<1> USE DEF TypeOK, Become
<1>1. CloseTypeOK'
  BY Zenon DEF WorkerStep, Probe, PopBatch, RunTask, DoneTask, Park, AddToIdle,
         CloseTypeOK
<1>2. QueueTypeOK'
  BY Zenon DEF WorkerStep, Probe, PopBatch, RunTask, DoneTask, Park, AddToIdle,
         QueueTypeOK
<1>3. SubmitTypeOK'
  BY Zenon DEF WorkerStep, Probe, PopBatch, RunTask, DoneTask, Park, AddToIdle,
         SubmitTypeOK
<1>4. WorkerTypeOK'
  <2>1. 0 \in Shard
    BY PoolAssumption DEF Shard
  <2>2. \A s \in Shard : s + 1 < NumShards => s + 1 \in Shard
    BY PoolAssumption DEF Shard
  <2>3. CASE Probe(w)
    BY <2>1, <2>2, <2>3, ShardSum DEF Probe, WorkerTypeOK, WorkerPC
  <2>4. CASE DoneTask(w)
    BY <2>4 DEF DoneTask, NextTask, WorkerTypeOK, WorkerPC
  <2>5. CASE PopBatch(w) \/ RunTask(w) \/ Park(w) \/ AddToIdle(w)
    BY <2>1, <2>5 DEF PopBatch, RunTask, Park, AddToIdle, WorkerTypeOK, WorkerPC
  <2> QED
    BY <2>3, <2>4, <2>5 DEF WorkerStep
<1>5. HandTypeOK'
  <2>1. CASE Probe(w)
    BY <2>1, ShardSum DEF Probe, HandTypeOK, QueueTypeOK, WorkerTypeOK
  <2>2. CASE PopBatch(w)
    BY <2>2 DEF PopBatch, HandTypeOK, QueueTypeOK
  <2>3. CASE DoneTask(w)
    BY <2>3 DEF DoneTask, NextTask, HandTypeOK
  <2>4. CASE RunTask(w) \/ Park(w) \/ AddToIdle(w)
    BY <2>4 DEF RunTask, Park, AddToIdle, HandTypeOK
  <2> QED
    BY <2>1, <2>2, <2>3, <2>4 DEF WorkerStep
<1>6. CountTypeOK'
  <2>1. CASE DoneTask(w) \/ Park(w)
    BY <2>1 DEF DoneTask, Park, CountTypeOK
  <2>2. CASE AddToIdle(w)
    BY <2>2, PoolAssumption DEF AddToIdle, Least, CountTypeOK
  <2>3. CASE UNCHANGED <<idleVars, scalerVars, runningWorkersNum, pendingTasks>>
    BY <2>3 DEF CountTypeOK
  <2> QED
    BY Zenon, <2>1, <2>2, <2>3 DEF WorkerStep, Probe, PopBatch, RunTask
<1>7. FiredTypeOK'
  <2>1. CASE RunTask(w)
    <3> DEFINE t == cur[w]
               f == RunEvents(t)
    <3>1. CASE t \in Task
      <4>1. fired[t] \in [Event -> Nat]
        BY <3>1 DEF FiredTypeOK
      <4>2. f \in [Event -> Nat]
        BY <4>1 DEF RunEvents, Event
      <4>3. fired' = [fired EXCEPT ![t] = f]
        BY <2>1 DEF RunTask
      <4> QED
        BY Zenon, <4>2, <4>3 DEF FiredTypeOK
    <3>2. CASE t \notin Task
      BY Zenon, <2>1, <3>2 DEF RunTask, FiredTypeOK
    <3> QED
      BY <3>1, <3>2
  <2>2. CASE UNCHANGED fired
    BY <2>2 DEF FiredTypeOK
  <2> QED
    BY Zenon, <2>1, <2>2 DEF WorkerStep, Probe, PopBatch, DoneTask, Park, AddToIdle
<1> QED
  BY <1>1, <1>2, <1>3, <1>4, <1>5, <1>6, <1>7

\* A step of the scaler keeps the types.
LEMMA TypeScaler ==
    ASSUME TypeOK, ScalerStep
    PROVE  TypeOK'
<1> USE DEF TypeOK
<1>1. WorkerTypeOK'
  BY Zenon, ShardStep
     DEF ScalerStep, ReadRunning, Plan, Recheck, AddRunning, Spawn, ScalerExit,
         StartWorker, WorkerTypeOK, WorkerPC
<1>2. CountTypeOK'
  BY PlansType, ScalerAssumption
     DEF ScalerStep, ReadRunning, Plan, Recheck, AddRunning, Spawn, ScalerExit,
         Least, Greatest, CountTypeOK, ScalerPC
<1>3. CloseTypeOK' /\ QueueTypeOK' /\ SubmitTypeOK' /\ HandTypeOK' /\ FiredTypeOK'
  BY Zenon DEF ScalerStep, ReadRunning, Plan, Recheck, AddRunning, Spawn, ScalerExit,
         CloseTypeOK, QueueTypeOK, SubmitTypeOK, HandTypeOK, FiredTypeOK
<1> QED
  BY <1>1, <1>2, <1>3

\* The cleaner and the steps of Close keep the types.
LEMMA TypeClose ==
    ASSUME TypeOK,
           \/ Clean \/ CleanerStop
           \/ \E c \in Closer : CloseBegin(c) \/ CloseStep(c)
           \/ UNCHANGED vars
    PROVE  TypeOK'
<1> USE DEF TypeOK
<1>1. CloseTypeOK'
  BY Zenon DEF Clean, CleanerStop, CloseBegin, CloseStep, CloseBuffer, CloseChannel,
         vars, CloseTypeOK, CloserPC
<1>2. CountTypeOK'
  <2>1. CASE Clean
    BY <2>1 DEF Clean, CountTypeOK
  <2>2. CASE CleanerStop
    BY Zenon, <2>2 DEF CleanerStop, CountTypeOK
  <2>3. CASE UNCHANGED <<idleVars, scalerVars, runningWorkersNum, pendingTasks>>
    BY SMTT(30), <2>3 DEF CountTypeOK
  <2> QED
    BY <2>1, <2>2, <2>3 DEF CloseBegin, CloseStep, CloseBuffer, CloseChannel, vars
<1>3. QueueTypeOK' /\ SubmitTypeOK' /\ WorkerTypeOK' /\ HandTypeOK' /\ FiredTypeOK'
  BY DEF Clean, CleanerStop, CloseBegin, CloseStep, CloseBuffer, CloseChannel,
         vars, QueueTypeOK, SubmitTypeOK, WorkerTypeOK, HandTypeOK, FiredTypeOK
<1> QED
  BY <1>1, <1>2, <1>3

\* Every reachable state is well typed: cursors point at shards, the counters
\* are integers and the parked workers are never negative in number.
THEOREM TypeCorrect == Spec => []TypeOK
<1>1. Init => TypeOK
  BY TypeInit
<1>2. TypeOK /\ [Next]_vars => TypeOK'
  BY TypeSubmit, TypeWorker, TypeScaler, TypeClose DEF Next, Terminated
<1> QED
  BY <1>1, <1>2, PTL DEF Spec

-----------------------------------------------------------------------------
(***************************************************************************)
(* The running count.  RunningExact is not inductive: the scaler counts    *)
(* its workers before it launches them, so the steps in between must be    *)
(* pinned down, and the overshoot of a cold start bounded while the scaler *)
(* holds a stale reading of the count.                                     *)
(***************************************************************************)
RunningInv ==
    /\ RunningExact
    /\ OvershootAtMostOne
    /\ sc \in {"add", "spawn"} => scN >= 1
    /\ sc = "add" => scN <= Capacity /\ runningWorkersNum + scN <= Capacity + 1

\* A set of workers is finite.
LEMMA WorkersFinite ==
    ASSUME NEW S \in SUBSET Worker
    PROVE  IsFiniteSet(S) /\ Cardinality(S) \in Nat
<1>1. IsFiniteSet(Worker)
  BY PoolAssumption
<1>2. IsFiniteSet(S)
  BY <1>1, FS_Subset
<1> QED
  BY <1>2, FS_CardinalityType

\* startWorker makes one more goroutine run.
LEMMA StartWorkerCount ==
    ASSUME TypeOK, StartWorker
    PROVE  Cardinality(Running') = Cardinality(Running) + 1
<1>1. PICK w \in Worker : /\ wpc[w] = "free"
                          /\ wpc' = [wpc EXCEPT ![w] = "scan"]
  BY Zenon DEF StartWorker
<1>2. Running' = Running \cup {w} /\ w \notin Running
  BY <1>1 DEF Running, TypeOK, WorkerTypeOK
<1>3. IsFiniteSet(Running)
  BY WorkersFinite DEF Running
<1> QED
  BY Zenon, <1>2, <1>3, FS_AddElement

\* The decrement of park is the goroutine's own count.
LEMMA ParkCount ==
    ASSUME TypeOK, NEW w \in Worker, Park(w)
    PROVE  Cardinality(Running') = Cardinality(Running) - 1
<1>1. Running' = Running \ {w} /\ w \in Running
  BY DEF Running, TypeOK, WorkerTypeOK, Park, Become
<1>2. IsFiniteSet(Running)
  BY WorkersFinite DEF Running
<1> QED
  BY <1>1, <1>2, FS_RemoveElement

\* Whatever else a worker does leaves the set of running goroutines alone.
LEMMA WorkerKeepsRunning ==
    ASSUME TypeOK, NEW w \in Worker,
           Probe(w) \/ PopBatch(w) \/ RunTask(w) \/ DoneTask(w) \/ AddToIdle(w)
    PROVE  Running' = Running
<1> USE DEF Running, TypeOK, WorkerTypeOK, Become
<1>1. CASE Probe(w)
  BY Zenon, <1>1 DEF Probe
<1>2. CASE PopBatch(w)
  BY <1>2 DEF PopBatch
<1>3. CASE RunTask(w)
  BY <1>3 DEF RunTask
<1>4. CASE DoneTask(w)
  BY <1>4 DEF DoneTask, NextTask
<1>5. CASE AddToIdle(w)
  BY <1>5 DEF AddToIdle
<1> QED
  BY <1>1, <1>2, <1>3, <1>4, <1>5

\* No worker runs and none is counted when NewPool returns.
LEMMA RunningInitially == Init => RunningInv
<1> SUFFICES ASSUME Init PROVE RunningInv
  OBVIOUS
<1>1. Running = {}
  BY DEF Init, Running
<1>2. Cardinality(Running) = 0
  BY SMTT(30), <1>1, FS_EmptySet
<1> QED
  BY <1>2, ScalerAssumption DEF Init, RunningInv, RunningExact, OvershootAtMostOne

\* Every step keeps the counter and the goroutines it counts together, and
\* the bounds of the capacity check.
LEMMA RunningStep ==
    ASSUME TypeOK, RunningInv, [Next]_vars
    PROVE  RunningInv'
<1>1. Cardinality(Running) \in Nat
  BY WorkersFinite DEF Running
<1> USE ScalerAssumption DEF RunningInv, RunningExact, OvershootAtMostOne
<1>2. runningWorkersNum \in Nat
  BY <1>1 DEF TypeOK, CountTypeOK
<1>3. ASSUME NEW t \in Task, ColdStart(t) PROVE RunningInv'
  <2>1. CASE NeedsWorker
    <3>1. /\ runningWorkersNum = 0 /\ runningWorkersNum' = 1
          /\ StartWorker /\ sc' = sc /\ scN' = scN
      BY <1>3, <2>1 DEF ColdStart, NeedsWorker
    <3>2. Cardinality(Running') = Cardinality(Running) + 1
      BY <3>1, StartWorkerCount
    <3> QED
      BY <1>1, <3>1, <3>2 DEF TypeOK, CountTypeOK
  <2>2. CASE ~NeedsWorker
    <3>1. /\ runningWorkersNum' = runningWorkersNum /\ wpc' = wpc
          /\ sc' = sc /\ scN' = scN
      BY <1>3, <2>2 DEF ColdStart
    <3>2. Running' = Running
      BY <3>1 DEF Running
    <3> QED
      BY <3>1, <3>2
  <2> QED
    BY <2>1, <2>2
<1>4. ASSUME UNCHANGED <<runningWorkersNum, wpc, sc, scN>> PROVE RunningInv'
  <2>1. Running' = Running
    BY <1>4 DEF Running
  <2> QED
    BY <1>4, <2>1
<1>5. ASSUME NEW w \in Worker, Park(w) PROVE RunningInv'
  <2>1. Cardinality(Running') = Cardinality(Running) - 1
    BY <1>5, ParkCount
  <2> QED
    BY <1>1, <1>5, <2>1 DEF Park, TypeOK, CountTypeOK
<1>6. ASSUME NEW w \in Worker,
             Probe(w) \/ PopBatch(w) \/ RunTask(w) \/ DoneTask(w) \/ AddToIdle(w)
      PROVE  RunningInv'
  <2>1. Running' = Running
    BY <1>6, WorkerKeepsRunning
  <2>2. UNCHANGED <<runningWorkersNum, sc, scN>>
    BY Zenon, <1>6 DEF Probe, PopBatch, RunTask, DoneTask, AddToIdle
  <2> QED
    BY <2>1, <2>2
<1>7. CASE Spawn
  <2>1. Cardinality(Running') = Cardinality(Running) + 1
    BY <1>7, StartWorkerCount DEF Spawn
  <2> QED
    BY <1>1, <1>7, <2>1 DEF Spawn, TypeOK, CountTypeOK
<1>8. CASE ReadRunning \/ Plan \/ Recheck \/ AddRunning \/ ScalerExit
  <2>1. Running' = Running
    BY <1>8 DEF ReadRunning, Plan, Recheck, AddRunning, ScalerExit, Running
  <2>2. CASE ReadRunning
    BY <1>1, <2>1, <2>2 DEF ReadRunning
  <2>3. CASE Plan
    BY <1>1, <2>1, <2>3 DEF Plan
  <2>4. CASE Recheck
    BY <1>1, <1>2, <2>1, <2>4 DEF Recheck, Least, TypeOK, CountTypeOK
  <2>5. CASE AddRunning
    BY <1>1, <2>1, <2>5 DEF AddRunning, TypeOK, CountTypeOK
  <2>6. CASE ScalerExit
    BY <1>1, <2>1, <2>6 DEF ScalerExit
  <2> QED
    BY SMTT(30), <1>8, <2>2, <2>3, <2>4, <2>5, <2>6
<1>9. ASSUME NEW t \in Task,
             \/ SubmitCtxDone(t) \/ SubmitCall(t) \/ CheckClosed(t) \/ TrySend(t)
             \/ Push(t) \/ Forward(t) \/ BlockedSend(t) \/ EnqueuedHook(t) \/ Cancel(t)
      PROVE  RunningInv'
  BY Zenon, <1>4, <1>9 DEF SubmitCtxDone, SubmitCall, CheckClosed, TrySend, Push,
                    Forward, BlockedSend, EnqueuedHook, Cancel
<1>10. CASE \/ Clean \/ CleanerStop \/ UNCHANGED vars
            \/ \E c \in Closer : CloseBegin(c) \/ CloseStep(c)
  BY Zenon, <1>4, <1>10 DEF Clean, CleanerStop, CloseBegin, CloseStep, CloseBuffer,
                     CloseChannel, vars
<1> QED
  BY <1>3, <1>5, <1>6, <1>7, <1>8, <1>9, <1>10
     DEF Next, SubmitStep, WorkerStep, ScalerStep, Terminated

\* The strengthened invariant of runningWorkersNum holds throughout: the cold
\* start, the scaler and park account for every worker goroutine.
THEOREM RunningInvariant == Spec => []RunningInv
<1>1. Init => RunningInv
  BY RunningInitially
<1>2. TypeOK /\ RunningInv /\ [Next]_vars => RunningInv'
  BY RunningStep
<1> QED
  BY <1>1, <1>2, TypeCorrect, PTL DEF Spec

\* runningWorkersNum is exact at every moment: the plain decrement of a worker
\* that parks, the compare-and-swap of the cold start and the bulk increment of
\* the scaler never drift apart from the goroutines they count.
THEOREM RunningCountIsExact == Spec => []RunningExact
<1>1. RunningInv => RunningExact
  BY DEF RunningInv
<1> QED
  BY <1>1, RunningInvariant, PTL

\* For every capacity and any number of submitters the race between the cold
\* start and the scaler exceeds the capacity by one worker at most.
THEOREM OvershootIsAtMostOne == Spec => []OvershootAtMostOne
<1>1. RunningInv => OvershootAtMostOne
  BY DEF RunningInv
<1> QED
  BY <1>1, RunningInvariant, PTL

\* A buffer that Close has closed only drains, whatever submissions were on
\* their way to it: PushAndForward looks at overflowClosed under taskMu.
THEOREM ClosedBufferOnlyDrains == Spec => ClosedBufferDrains
<1>1. ASSUME [Next]_vars, overflowClosed PROVE taskBuf' \subseteq taskBuf
  <2>1. ASSUME NEW t \in Task, Push(t) PROVE taskBuf' \subseteq taskBuf
    <3>1. PushResult # "Accepted"
      BY SMTT(30), <1>1 DEF PushResult
    <3> QED
      BY <2>1, <3>1 DEF Push
  <2>2. ASSUME NEW t \in Task, Forward(t) PROVE taskBuf' \subseteq taskBuf
    BY <2>2 DEF Forward, MoveHead
  <2>3. ASSUME NEW w \in Worker, PopBatch(w) PROVE taskBuf' \subseteq taskBuf
    BY <2>3 DEF PopBatch
  <2>4. CASE UNCHANGED taskBuf
    BY <2>4
  <2> QED
    BY ZenonT(60), <1>1, <2>1, <2>2, <2>3, <2>4
       DEF Next, SubmitCtxDone, SubmitCall, SubmitStep, Cancel, CheckClosed,
           ColdStart, TrySend, BlockedSend, EnqueuedHook, WorkerStep, Probe,
           RunTask, DoneTask, Park, AddToIdle, ScalerStep, ReadRunning, Plan,
           Recheck, AddRunning, Spawn, ScalerExit, Clean, CleanerStop, CloseBegin,
           CloseStep, CloseBuffer, CloseChannel, Terminated, vars
<1>2. [Next]_vars => [overflowClosed => taskBuf' \subseteq taskBuf]_vars
  BY <1>1
<1> QED
  BY <1>2, PTL DEF Spec, ClosedBufferDrains
=============================================================================
