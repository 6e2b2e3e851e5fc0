-------------------------- MODULE PlacementProofs --------------------------
(***************************************************************************)
(* Where the tasks are, and what pendingTasks counts, for any number of    *)
(* tasks, workers and shards.                                              *)
(***************************************************************************)
EXTENDS AgilePoolProofs

USE DEF closeVars, queueVars, submitVars, workerVars, handVars, idleVars,
        scalerVars, scalerOnly, closeOnly

\* The pool has the task, or has had it.
Given(t) == spc[t] \in {"forward", "enq", "accepted"}

InShard(t, s) == t \in taskQueues[s]
HeldBy(t, w) == t = cur[w] \/ t \in batch[w]
Busy(w) == wpc[w] \in {"run", "done"}

(***************************************************************************)
(* The strengthening.  A task is in one place at a time, and only a task   *)
(* the pool was given is anywhere; a worker holds tasks exactly while it   *)
(* runs one; the submitter inside PushAndForward holds the lock and still  *)
(* finds its task in the buffer.                                           *)
(***************************************************************************)
AtMostOnePlace(t) ==
    /\ \A s \in Shard : InShard(t, s) =>
          /\ Given(t) /\ t \notin taskBuf
          /\ \A u \in Shard : InShard(t, u) => u = s
          /\ \A w \in Worker : ~HeldBy(t, w)
    /\ t \in taskBuf => Given(t) /\ \A w \in Worker : ~HeldBy(t, w)
    /\ \A w \in Worker : HeldBy(t, w) =>
          Given(t) /\ \A v \in Worker : HeldBy(t, v) => v = w

HandInUse(w) ==
    /\ Busy(w) => cur[w] \in Task /\ cur[w] \notin batch[w]
    /\ ~Busy(w) => cur[w] = NoTask /\ batch[w] = {}

ForwarderHasLock(t) == spc[t] = "forward" => taskMu = t /\ t \in taskBuf

Placement ==
    /\ \A t \in Task : AtMostOnePlace(t) /\ ForwarderHasLock(t)
    /\ \A w \in Worker : HandInUse(w)

\* No task is anywhere when NewPool returns.
LEMMA PlacementInit == Init => Placement
  BY PoolAssumption
     DEF Init, Placement, AtMostOnePlace, HandInUse, ForwarderHasLock, InShard,
         HeldBy, Busy

\* A step that leaves shards, buffer and hands alone, and moves no submission
\* into the pool and no worker in or out of a task, keeps the placement.
LEMMA PlacementKept ==
    ASSUME Placement,
           UNCHANGED <<taskQueues, taskBuf, taskMu, cur, batch>>,
           \A u \in Task : /\ Given(u) => Given(u)'
                           /\ spc'[u] = "forward" => spc[u] = "forward",
           \A v \in Worker : Busy(v)' <=> Busy(v)
    PROVE  Placement'
<1>1. ASSUME NEW u \in Task PROVE AtMostOnePlace(u)'
  BY DEF InShard, HeldBy, Placement, AtMostOnePlace
<1>2. ASSUME NEW u \in Task PROVE ForwarderHasLock(u)'
  BY DEF Placement, ForwarderHasLock
<1>3. ASSUME NEW v \in Worker PROVE HandInUse(v)'
  BY DEF Placement, HandInUse
<1> QED
  BY <1>1, <1>2, <1>3 DEF Placement

\* A submission's step out of submit: the hand-over to a shard.
LEMMA PlacementSent ==
    ASSUME TypeOK, Placement, NEW t \in Task, NEW s \in Shard,
           Send(s, t), Accept(t), ~Given(t), UNCHANGED <<taskBuf, taskMu, wpc, cur, batch>>
    PROVE  Placement'
<1> USE DEF TypeOK, QueueTypeOK, SubmitTypeOK
<1>1. ASSUME NEW u \in Task PROVE AtMostOnePlace(u)'
  BY DEF InShard, HeldBy, Placement, AtMostOnePlace, Send, Accept, Goto, Given
<1>2. ASSUME NEW u \in Task PROVE ForwarderHasLock(u)'
  BY DEF Placement, ForwarderHasLock, Accept, Goto
<1>3. ASSUME NEW v \in Worker PROVE HandInUse(v)'
  BY DEF Placement, HandInUse, Busy
<1> QED
  BY <1>1, <1>2, <1>3 DEF Placement

\* A step of submit or PushAndForward moves its task, or the head of the
\* overflow buffer, from one place to one other.
LEMMA PlacementSubmit ==
    ASSUME TypeOK, Placement, NEW t \in Task,
           SubmitCtxDone(t) \/ SubmitCall(t) \/ SubmitStep(t) \/ Cancel(t)
    PROVE  Placement'
<1>1. CASE \/ SubmitCtxDone(t) \/ SubmitCall(t) \/ CheckClosed(t) \/ ColdStart(t)
           \/ EnqueuedHook(t) \/ Cancel(t)
  <2>1. UNCHANGED <<taskQueues, taskBuf, taskMu, cur, batch>>
    BY Zenon, <1>1 DEF SubmitCtxDone, SubmitCall, CheckClosed, ColdStart, EnqueuedHook, Cancel
  <2>2. \A u \in Task : /\ Given(u) => Given(u)'
                        /\ spc'[u] = "forward" => spc[u] = "forward"
    BY Zenon, <1>1 DEF SubmitCtxDone, SubmitCall, CheckClosed, ColdStart, EnqueuedHook,
                Cancel, Reject, Goto, Given, TypeOK, SubmitTypeOK
  <2>3. \A v \in Worker : Busy(v)' <=> Busy(v)
    BY Zenon, <1>1 DEF SubmitCtxDone, SubmitCall, CheckClosed, ColdStart, EnqueuedHook,
                Cancel, StartWorker, Busy, TypeOK, WorkerTypeOK
  <2> QED
    BY <2>1, <2>2, <2>3, PlacementKept
<1>2. CASE TrySend(t)
  <2>1. CASE HasRoom(target[t])
    <3>1. target[t] \in Shard /\ Send(target[t], t) /\ Accept(t) /\ ~Given(t)
      BY <1>2, <2>1 DEF TrySend, Given, TypeOK, SubmitTypeOK
    <3>2. UNCHANGED <<taskBuf, taskMu, wpc, cur, batch>>
      BY <1>2 DEF TrySend
    <3> QED
      BY <3>1, <3>2, PlacementSent
  <2>2. CASE ~HasRoom(target[t])
    <3>1. UNCHANGED <<taskQueues, taskBuf, taskMu, wpc, cur, batch>>
      BY <1>2, <2>2 DEF TrySend
    <3>2. \A u \in Task : /\ Given(u) => Given(u)'
                          /\ spc'[u] = "forward" => spc[u] = "forward"
      BY <1>2, <2>2 DEF TrySend, Reject, Goto, Given, TypeOK, SubmitTypeOK
    <3> QED
      BY <3>1, <3>2, PlacementKept DEF Busy
  <2> QED
    BY <2>1, <2>2
<1>3. CASE Push(t)
  <2>1. CASE PushResult = "Accepted"
    <3>1. /\ spc[t] = "push" /\ spc' = [spc EXCEPT ![t] = "forward"]
          /\ taskMu = NoTask /\ taskMu' = t /\ taskBuf' = taskBuf \cup {t}
          /\ UNCHANGED <<taskQueues, wpc, cur, batch>>
      BY <1>3, <2>1 DEF Push, Goto
    <3>2. ASSUME NEW u \in Task PROVE AtMostOnePlace(u)'
      BY <3>1 DEF InShard, HeldBy, Placement, AtMostOnePlace, Given, TypeOK,
                  SubmitTypeOK
    <3>3. ASSUME NEW u \in Task PROVE ForwarderHasLock(u)'
      BY <3>1, PoolAssumption DEF Placement, ForwarderHasLock, TypeOK, SubmitTypeOK
    <3>4. ASSUME NEW v \in Worker PROVE HandInUse(v)'
      BY <3>1 DEF Placement, HandInUse, Busy
    <3> QED
      BY <3>2, <3>3, <3>4 DEF Placement
  <2>2. CASE PushResult # "Accepted"
    <3>1. UNCHANGED <<taskQueues, taskBuf, taskMu, wpc, cur, batch>>
      BY <1>3, <2>2 DEF Push
    <3>2. \A u \in Task : /\ Given(u) => Given(u)'
                          /\ spc'[u] = "forward" => spc[u] = "forward"
      BY <1>3, <2>2 DEF Push, Reject, Goto, Given, TypeOK, SubmitTypeOK
    <3> QED
      BY <3>1, <3>2, PlacementKept DEF Busy
  <2> QED
    BY <2>1, <2>2
<1>4. CASE Forward(t)
  <2>1. /\ spc[t] = "forward" /\ spc' = [spc EXCEPT ![t] = "enq"]
        /\ taskMu' = NoTask /\ UNCHANGED <<wpc, cur, batch>>
        /\ target[t] \in Shard
    BY <1>4 DEF Forward, Accept, Goto, TypeOK, SubmitTypeOK
  <2>2. ASSUME NEW u \in Task PROVE AtMostOnePlace(u)'
    <3>1. CASE UNCHANGED <<taskQueues, taskBuf>>
      BY <2>1, <3>1 DEF InShard, HeldBy, Placement, AtMostOnePlace, Given, TypeOK,
                        SubmitTypeOK
    <3>2. CASE MoveHead(target[t])
      <4>1. PICK h \in taskBuf : Send(target[t], h) /\ taskBuf' = taskBuf \ {h}
        BY <3>2 DEF MoveHead
      <4>2. CASE u = h
        BY SMTT(30), <2>1, <4>1, <4>2
           DEF Send, InShard, HeldBy, Placement, AtMostOnePlace, Given, TypeOK,
               SubmitTypeOK, QueueTypeOK
      <4>3. CASE u # h
        BY <2>1, <4>1, <4>3
           DEF Send, InShard, HeldBy, Placement, AtMostOnePlace, Given, TypeOK,
               SubmitTypeOK, QueueTypeOK
      <4> QED
        BY <4>2, <4>3
    <3> QED
      BY <1>4, <3>1, <3>2 DEF Forward
  <2>3. ASSUME NEW u \in Task PROVE ForwarderHasLock(u)'
    BY <2>1 DEF Placement, ForwarderHasLock, TypeOK, SubmitTypeOK
  <2>4. ASSUME NEW v \in Worker PROVE HandInUse(v)'
    BY <2>1 DEF Placement, HandInUse, Busy
  <2> QED
    BY <2>2, <2>3, <2>4 DEF Placement
<1>5. CASE BlockedSend(t)
  <2>1. UNCHANGED <<taskBuf, taskMu, wpc, cur, batch>> /\ ~Given(t)
    BY <1>5 DEF BlockedSend, Given
  <2>2. CASE Send(target[t], t) /\ Accept(t)
    BY <2>1, <2>2, PlacementSent DEF TypeOK, SubmitTypeOK
  <2>3. CASE Reject(t) /\ UNCHANGED taskQueues
    <3>1. \A u \in Task : /\ Given(u) => Given(u)'
                          /\ spc'[u] = "forward" => spc[u] = "forward"
      BY <2>1, <2>3 DEF Reject, Goto, Given, TypeOK, SubmitTypeOK
    <3> QED
      BY <2>1, <2>3, <3>1, PlacementKept DEF Busy
  <2> QED
    BY SMTT(30), <1>5, <2>2, <2>3 DEF BlockedSend
<1> QED
  BY <1>1, <1>2, <1>3, <1>4, <1>5 DEF SubmitStep

\* A step of a worker takes a task from one place into its own hand, or out
\* of it when the task is done.
LEMMA PlacementWorker ==
    ASSUME TypeOK, Placement, NEW w \in Worker, WorkerStep(w)
    PROVE  Placement'
<1> USE DEF Placement
<1>1. CASE RunTask(w) \/ Park(w) \/ AddToIdle(w)
  <2>1. UNCHANGED <<taskQueues, taskBuf, taskMu, cur, batch, spc>>
    BY <1>1 DEF RunTask, Park, AddToIdle
  <2>2. \A v \in Worker : Busy(v)' <=> Busy(v)
    BY <1>1 DEF RunTask, Park, AddToIdle, Become, Busy, TypeOK, WorkerTypeOK
  <2> QED
    BY SMTT(30), <2>1, <2>2, PlacementKept DEF Given
<1>2. \A u \in Task : ForwarderHasLock(u)'
  BY Zenon, PoolAssumption
     DEF WorkerStep, Probe, PopBatch, RunTask, DoneTask, Park, AddToIdle,
         ForwarderHasLock
<1>3. CASE Probe(w)
  <2> DEFINE s == (cursor[w] + scanned[w]) % NumShards
  <2>1. s \in Shard
    BY SMTT(30), ShardSum DEF TypeOK, WorkerTypeOK
  <2>2. CASE taskQueues[s] = {}
    <3>1. UNCHANGED <<taskQueues, taskBuf, taskMu, cur, batch, spc>>
      BY <1>3, <2>2 DEF Probe
    <3>2. \A v \in Worker : Busy(v)' <=> Busy(v)
      BY <1>3, <2>2 DEF Probe, Become, Busy, TypeOK, WorkerTypeOK
    <3> QED
      BY <3>1, <3>2, PlacementKept DEF Given
  <2>3. CASE taskQueues[s] # {}
    <3>1. PICK t \in taskQueues[s] :
            /\ taskQueues' = [taskQueues EXCEPT ![s] = @ \ {t}]
            /\ cur' = [cur EXCEPT ![w] = t]
            /\ wpc' = [wpc EXCEPT ![w] = "run"]
      BY ZenonT(60), <1>3, <2>3 DEF Probe, Become
    <3>2. UNCHANGED <<taskBuf, batch, spc>> /\ ~Busy(w) /\ t \in Task
      BY SMTT(30), <1>3, <2>1 DEF Probe, Busy, TypeOK, QueueTypeOK
    <3> HIDE DEF s
    <3>3. ASSUME NEW u \in Task PROVE AtMostOnePlace(u)'
      <4>1. CASE u = t
        BY SMTT(30), <2>1, <3>1, <3>2, <4>1
           DEF InShard, HeldBy, HandInUse, AtMostOnePlace, Given, TypeOK,
               QueueTypeOK, HandTypeOK
      <4>2. CASE u # t
        BY <2>1, <3>1, <3>2, <4>2, PoolAssumption
           DEF InShard, HeldBy, HandInUse, AtMostOnePlace, Given, TypeOK,
               QueueTypeOK, HandTypeOK
      <4> QED
        BY <4>1, <4>2
    <3>4. ASSUME NEW v \in Worker PROVE HandInUse(v)'
      BY <3>1, <3>2 DEF HandInUse, Busy, TypeOK, WorkerTypeOK, HandTypeOK
    <3> QED
      BY <1>2, <3>3, <3>4
  <2> QED
    BY <2>2, <2>3
<1>4. CASE PopBatch(w)
  <2>1. CASE taskBuf = {}
    <3>1. UNCHANGED <<taskQueues, taskBuf, taskMu, cur, batch, spc>>
      BY <1>4, <2>1 DEF PopBatch
    <3>2. \A v \in Worker : Busy(v)' <=> Busy(v)
      BY <1>4, <2>1 DEF PopBatch, Become, Busy, TypeOK, WorkerTypeOK
    <3> QED
      BY <3>1, <3>2, PlacementKept DEF Given
  <2>2. CASE taskBuf # {}
    <3>1. PICK popped \in SUBSET taskBuf, first \in taskBuf :
            /\ first \in popped
            /\ taskBuf' = taskBuf \ popped
            /\ cur' = [cur EXCEPT ![w] = first]
            /\ batch' = [batch EXCEPT ![w] = popped \ {first}]
            /\ wpc' = [wpc EXCEPT ![w] = "run"]
      BY <1>4, <2>2 DEF PopBatch, Become
    <3>2. UNCHANGED <<taskQueues, spc>> /\ ~Busy(w) /\ first \in Task
      BY <1>4 DEF PopBatch, Busy, TypeOK, QueueTypeOK
    <3>3. ASSUME NEW u \in Task PROVE AtMostOnePlace(u)'
      <4>1. CASE u \in popped
        BY SMTT(30), <3>1, <3>2, <4>1
           DEF InShard, HeldBy, HandInUse, AtMostOnePlace, Given, TypeOK,
               QueueTypeOK, HandTypeOK
      <4>2. CASE u \notin popped
        BY <3>1, <3>2, <4>2, PoolAssumption
           DEF InShard, HeldBy, HandInUse, AtMostOnePlace, Given, TypeOK,
               QueueTypeOK, HandTypeOK
      <4> QED
        BY SMTT(30), <4>1, <4>2
    <3>4. ASSUME NEW v \in Worker PROVE HandInUse(v)'
      BY <3>1, <3>2 DEF HandInUse, Busy, TypeOK, WorkerTypeOK, HandTypeOK
    <3> QED
      BY <1>2, <3>3, <3>4
  <2> QED
    BY <2>1, <2>2
<1>5. CASE DoneTask(w)
  <2>1. UNCHANGED <<taskQueues, taskBuf, spc>> /\ Busy(w)
    BY SMTT(30), <1>5 DEF DoneTask, Busy
  <2>2. ASSUME NEW u \in Task, NEW v \in Worker, HeldBy(u, v)'
        PROVE  HeldBy(u, v)
    BY ZenonT(60), <1>5, <2>2, PoolAssumption
       DEF DoneTask, NextTask, HeldBy, TypeOK, HandTypeOK
  <2>3. ASSUME NEW u \in Task PROVE AtMostOnePlace(u)'
    BY <2>1, <2>2 DEF InShard, AtMostOnePlace, Given
  <2>4. ASSUME NEW v \in Worker PROVE HandInUse(v)'
    BY <1>5 DEF DoneTask, NextTask, Become, HandInUse, Busy, TypeOK,
                WorkerTypeOK, HandTypeOK
  <2> QED
    BY <1>2, <2>3, <2>4
<1> QED
  BY <1>1, <1>3, <1>4, <1>5 DEF WorkerStep

\* The scaler, the cleaner and Close touch no task.
LEMMA PlacementOther ==
    ASSUME TypeOK, Placement,
           \/ ScalerStep \/ Clean \/ CleanerStop \/ UNCHANGED vars
           \/ \E c \in Closer : CloseBegin(c) \/ CloseStep(c)
    PROVE  Placement'
<1>1. UNCHANGED <<taskQueues, taskBuf, taskMu, cur, batch, spc>>
  BY Zenon DEF ScalerStep, ReadRunning, Plan, Recheck, AddRunning, Spawn, ScalerExit,
         Clean, CleanerStop, CloseBegin, CloseStep, CloseBuffer, CloseChannel, vars
<1>2. \A v \in Worker : Busy(v)' <=> Busy(v)
  <2>1. CASE Spawn
    BY <2>1 DEF Spawn, StartWorker, Busy, TypeOK, WorkerTypeOK
  <2>2. CASE UNCHANGED wpc
    BY <2>2 DEF Busy
  <2> QED
    BY Zenon, <2>1, <2>2
       DEF ScalerStep, ReadRunning, Plan, Recheck, AddRunning, ScalerExit, Clean,
           CleanerStop, CloseBegin, CloseStep, CloseBuffer, CloseChannel, vars
<1> QED
  BY <1>1, <1>2, PlacementKept DEF Given

\* A task is in at most one place of the pool, whatever submitters, workers,
\* scaler and Close do: no channel receive, batch pop or forward duplicates it.
THEOREM PlacementInvariant == Spec => []Placement
<1>1. Init => Placement
  BY PlacementInit
<1>2. TypeOK /\ Placement /\ [Next]_vars => Placement'
  BY PlacementSubmit, PlacementWorker, PlacementOther DEF Next, Terminated
<1> QED
  BY <1>1, <1>2, TypeCorrect, PTL DEF Spec

-----------------------------------------------------------------------------
(***************************************************************************)
(* What pendingTasks counts.                                               *)
(***************************************************************************)

IsHanding(t) ==
    spc[t] \in {"check", "cold", "send", "push", "forward", "block"}

\* The pool has the task somewhere.
Placed(t) ==
    \/ t \in taskBuf
    \/ \E s \in Shard : InShard(t, s)
    \/ \E w \in Worker : HeldBy(t, w)

\* The tasks in flight, one by one.
LEMMA InFlightIff ==
    ASSUME TypeOK
    PROVE  InFlight = {t \in Task : IsHanding(t) \/ Placed(t)}
<1>1. ASSUME NEW t \in Task PROVE t \in Holding <=> \E w \in Worker : HeldBy(t, w)
  BY PoolAssumption DEF Holding, Held, HeldBy
<1>2. Holding \subseteq Task
  BY PoolAssumption DEF Holding, Held, TypeOK, HandTypeOK
<1>3. ASSUME NEW t \in Task
      PROVE  t \in Stored <=> t \in taskBuf \/ \E s \in Shard : InShard(t, s)
  BY DEF Stored, InShard
<1>4. Stored \subseteq Task
  BY DEF Stored, TypeOK, QueueTypeOK
<1>5. Handing = {t \in Task : IsHanding(t)}
  BY DEF Handing, IsHanding
<1> QED
  BY <1>1, <1>2, <1>3, <1>4, <1>5 DEF InFlight, Placed

\* ... and after a step.
LEMMA InFlightNext ==
    TypeOK' => InFlight' = {t \in Task : IsHanding(t)' \/ Placed(t)'}
<1>1. TypeOK => InFlight = {t \in Task : IsHanding(t) \/ Placed(t)}
  BY InFlightIff
<1>2. (TypeOK => InFlight = {t \in Task : IsHanding(t) \/ Placed(t)})'
  BY <1>1, PTL
<1> QED
  BY <1>2

\* There are finitely many of them.
LEMMA InFlightFinite ==
    ASSUME TypeOK
    PROVE  IsFiniteSet(InFlight) /\ Cardinality(InFlight) \in Nat
<1>1. IsFiniteSet(Task) /\ InFlight \in SUBSET Task
  BY PoolAssumption, InFlightIff
<1>2. IsFiniteSet(InFlight)
  BY <1>1, FS_Subset
<1> QED
  BY <1>2, FS_CardinalityType

\* What a step may do to the tasks in flight and to their count.
Enters(t) ==
    /\ t \notin InFlight /\ InFlight' = InFlight \cup {t}
    /\ pendingTasks' = pendingTasks + 1

Leaves(t) ==
    /\ t \in InFlight /\ InFlight' = InFlight \ {t}
    /\ pendingTasks' = pendingTasks - 1

Stays == InFlight' = InFlight /\ pendingTasks' = pendingTasks

\* A path of submit that returns false gives its count back.
LEMMA RejectLeaves ==
    ASSUME TypeOK, TypeOK', Placement, NEW t \in Task, Reject(t),
           IsHanding(t), ~Given(t),
           UNCHANGED <<taskQueues, taskBuf, cur, batch>>
    PROVE  Leaves(t)
<1>1. ASSUME NEW u \in Task PROVE Placed(u)' <=> Placed(u)
  BY DEF Placed, InShard, HeldBy
<1>2. ASSUME NEW u \in Task PROVE IsHanding(u)' <=> IsHanding(u) /\ u # t
  BY DEF Reject, Goto, IsHanding, TypeOK, SubmitTypeOK
<1>3. ~Placed(t)
  BY DEF Placement, AtMostOnePlace, Placed
<1>4. t \in InFlight /\ InFlight' = InFlight \ {t}
  BY <1>1, <1>2, <1>3, InFlightIff, InFlightNext
<1> QED
  BY <1>4 DEF Leaves, Reject

\* A path of submit that goes on, or hands its task over, does not.
LEMMA SubmitGoesOn ==
    ASSUME TypeOK, TypeOK', NEW t \in Task, NEW pc, Goto(t, pc),
           UNCHANGED pendingTasks,
           IsHanding(t), IsHanding(t)' \/ Placed(t)',
           \A u \in Task \ {t} : Placed(u)' <=> Placed(u)
    PROVE  Stays
<1>1. ASSUME NEW u \in Task \ {t} PROVE IsHanding(u)' <=> IsHanding(u)
  BY DEF Goto, IsHanding, TypeOK, SubmitTypeOK
<1>2. InFlight' = InFlight
  BY <1>1, InFlightIff, InFlightNext
<1> QED
  BY <1>2 DEF Stays

\* Sending a task to a shard places it and nothing else.
LEMMA SendPlaces ==
    ASSUME TypeOK, NEW t \in Task, NEW s \in Shard, Send(s, t),
           UNCHANGED <<taskBuf, cur, batch>>
    PROVE  Placed(t)' /\ \A u \in Task \ {t} : Placed(u)' <=> Placed(u)
<1>1. taskQueues' = [taskQueues EXCEPT ![s] = @ \cup {t}] /\ taskQueues \in [Shard -> SUBSET Task]
  BY DEF Send, TypeOK, QueueTypeOK
<1>2. InShard(t, s)'
  BY <1>1 DEF InShard
<1>3. ASSUME NEW u \in Task \ {t}, NEW x \in Shard PROVE InShard(u, x)' <=> InShard(u, x)
  BY <1>1 DEF InShard
<1>4. ASSUME NEW u \in Task, NEW w \in Worker PROVE HeldBy(u, w)' <=> HeldBy(u, w)
  BY DEF HeldBy
<1> QED
  BY <1>2, <1>3, <1>4 DEF Placed

\* A submission's step: only the call itself adds to the tasks in flight.
LEMMA PendingSubmit ==
    ASSUME TypeOK, TypeOK', Placement, NEW t \in Task,
           SubmitCtxDone(t) \/ SubmitCall(t) \/ SubmitStep(t) \/ Cancel(t)
    PROVE  (SubmitCall(t) /\ Enters(t)) \/ Leaves(t) \/ Stays
<1>1. ASSUME UNCHANGED <<taskQueues, taskBuf, cur, batch>>, NEW u \in Task
      PROVE  Placed(u)' <=> Placed(u)
  BY <1>1 DEF Placed, InShard, HeldBy
<1>2. CASE SubmitCall(t)
  <2>1. /\ spc[t] = "ready" /\ spc' = [spc EXCEPT ![t] = "check"]
        /\ pendingTasks' = pendingTasks + 1
        /\ UNCHANGED <<taskQueues, taskBuf, cur, batch>>
    BY <1>2 DEF SubmitCall, Goto
  <2>2. ~Placed(t) /\ ~IsHanding(t)
    BY <2>1 DEF Placement, AtMostOnePlace, Placed, Given, IsHanding
  <2>3. IsHanding(t)' /\ \A u \in Task \ {t} : IsHanding(u)' <=> IsHanding(u)
    BY <2>1 DEF IsHanding, TypeOK, SubmitTypeOK
  <2>4. t \notin InFlight /\ InFlight' = InFlight \cup {t}
    BY <1>1, <2>1, <2>2, <2>3, InFlightIff, InFlightNext
  <2> QED
    BY <1>2, <2>1, <2>4 DEF Enters
<1>3. CASE SubmitCtxDone(t) \/ EnqueuedHook(t) \/ Cancel(t)
  <2>1. UNCHANGED <<taskQueues, taskBuf, cur, batch, pendingTasks>>
    BY Zenon, <1>3 DEF SubmitCtxDone, EnqueuedHook, Cancel
  <2>2. \A u \in Task : IsHanding(u)' <=> IsHanding(u)
    BY Zenon, <1>3 DEF SubmitCtxDone, EnqueuedHook, Cancel, Goto, IsHanding, TypeOK,
                SubmitTypeOK
  <2>3. InFlight' = InFlight
    BY Zenon, <1>1, <2>1, <2>2, InFlightIff, InFlightNext
  <2> QED
    BY <2>1, <2>3 DEF Stays
<1>4. CASE CheckClosed(t) \/ ColdStart(t)
  <2>1. IsHanding(t) /\ ~Given(t) /\ UNCHANGED <<taskQueues, taskBuf, cur, batch>>
    BY <1>4 DEF CheckClosed, ColdStart, IsHanding, Given
  <2>2. CASE Reject(t)
    BY <2>1, <2>2, RejectLeaves
  <2>3. CASE (Goto(t, "cold") \/ Goto(t, "send")) /\ UNCHANGED pendingTasks
    <3>1. IsHanding(t)'
      BY SMTT(30), <2>3 DEF Goto, IsHanding, TypeOK, SubmitTypeOK
    <3> QED
      BY <1>1, <2>1, <2>3, <3>1, SubmitGoesOn
  <2> QED
    BY <1>4, <2>2, <2>3 DEF CheckClosed, ColdStart
<1>5. CASE TrySend(t) \/ BlockedSend(t)
  <2>1. /\ IsHanding(t) /\ ~Given(t) /\ target[t] \in Shard
        /\ UNCHANGED <<taskBuf, cur, batch>>
    BY <1>5 DEF TrySend, BlockedSend, IsHanding, Given, TypeOK, SubmitTypeOK
  <2>2. CASE Send(target[t], t) /\ Accept(t)
    BY <2>1, <2>2, SendPlaces, SubmitGoesOn DEF Accept
  <2>3. CASE Reject(t) /\ UNCHANGED taskQueues
    BY <2>1, <2>3, RejectLeaves
  <2>4. CASE Goto(t, "push") /\ UNCHANGED <<taskQueues, pendingTasks>>
    <3>1. IsHanding(t)'
      BY <2>4 DEF Goto, IsHanding, TypeOK, SubmitTypeOK
    <3> QED
      BY SMTT(30), <1>1, <2>1, <2>4, <3>1, SubmitGoesOn
  <2> QED
    BY Zenon, <1>5, <2>2, <2>3, <2>4 DEF TrySend, BlockedSend
<1>6. CASE Push(t)
  <2>1. IsHanding(t) /\ ~Given(t) /\ UNCHANGED <<taskQueues, cur, batch>>
    BY <1>6 DEF Push, IsHanding, Given
  <2>2. CASE Reject(t) /\ UNCHANGED taskBuf
    BY <2>1, <2>2, RejectLeaves
  <2>3. CASE /\ Goto(t, "block") \/ Goto(t, "forward")
             /\ taskBuf' \in {taskBuf, taskBuf \cup {t}} /\ UNCHANGED pendingTasks
    <3>1. IsHanding(t)'
      <4>1. spc \in [Task -> SubmitPC]
        BY Zenon DEF TypeOK, SubmitTypeOK
      <4> QED
        BY ONLY <2>3, <4>1 DEF Goto, IsHanding
    <3>2. \A u \in Task \ {t} : Placed(u)' <=> Placed(u)
      BY <2>1, <2>3 DEF Placed, InShard, HeldBy
    <3> QED
      BY <2>1, <2>3, <3>1, <3>2, SubmitGoesOn
  <2> QED
    BY <1>6, <2>2, <2>3 DEF Push
<1>7. CASE Forward(t)
  <2>1. IsHanding(t) /\ t \in taskBuf /\ Accept(t) /\ target[t] \in Shard
        /\ UNCHANGED <<cur, batch>>
    BY SMTT(30), <1>7 DEF Forward, IsHanding, Placement, ForwarderHasLock, TypeOK, SubmitTypeOK
  <2>2. \A u \in Task : Placed(u)' <=> Placed(u)
    <3>1. CASE UNCHANGED <<taskQueues, taskBuf>>
      BY <1>1, <2>1, <3>1
    <3>2. CASE MoveHead(target[t])
      <4>0. taskQueues \in [Shard -> SUBSET Task] /\ taskBuf \subseteq Task
        BY DEF TypeOK, QueueTypeOK
      <4>1. PICK h \in taskBuf : Send(target[t], h) /\ taskBuf' = taskBuf \ {h}
        BY Zenon, <3>2 DEF MoveHead
      <4>2. h \in taskQueues'[target[t]] /\ h \in Task
        BY ONLY <2>1, <4>0, <4>1 DEF Send
      <4>5. Placed(h)'
        BY <2>1, <4>2 DEF Placed, InShard
      <4>3. ASSUME NEW u \in Task \ {h}, NEW x \in Shard PROVE InShard(u, x)' <=> InShard(u, x)
        BY ONLY <2>1, <4>0, <4>1 DEF Send, InShard
      <4>4. ASSUME NEW u \in Task, NEW w \in Worker PROVE HeldBy(u, w)' <=> HeldBy(u, w)
        BY <2>1 DEF HeldBy
      <4> QED
        BY <2>1, <4>1, <4>3, <4>4, <4>5 DEF Placed
    <3> QED
      BY <1>7, <3>1, <3>2 DEF Forward
  <2>3. Placed(t)
    BY <2>1 DEF Placed
  <2> QED
    BY <2>1, <2>2, <2>3, SubmitGoesOn DEF Accept
<1> QED
  BY Zenon, <1>2, <1>3, <1>4, <1>5, <1>6, <1>7 DEF SubmitStep

\* The task a worker is done with is nowhere afterwards, and only that one.
LEMMA DoneLetsGo ==
    ASSUME TypeOK, Placement, NEW w \in Worker, DoneTask(w)
    PROVE  /\ cur[w] \in Task /\ Placed(cur[w]) /\ ~IsHanding(cur[w])
           /\ \A u \in Task : Placed(u)' <=> Placed(u) /\ u # cur[w]
<1>1. /\ UNCHANGED <<taskQueues, taskBuf>>
      /\ cur[w] \in Task /\ cur[w] \notin batch[w]
  BY Zenon DEF DoneTask, Placement, HandInUse, Busy
<1>2. ASSUME NEW u \in Task, NEW v \in Worker
      PROVE  HeldBy(u, v)' <=> HeldBy(u, v) /\ (v = w => u # cur[w])
  BY <1>1, PoolAssumption DEF DoneTask, NextTask, HeldBy, TypeOK, HandTypeOK
<1>3. HeldBy(cur[w], w) /\ AtMostOnePlace(cur[w]) /\ ForwarderHasLock(cur[w])
  BY Zenon, <1>1 DEF HeldBy, Placement
<1>4. /\ cur[w] \notin taskBuf /\ \A x \in Shard : ~InShard(cur[w], x)
      /\ Given(cur[w]) /\ \A v \in Worker : HeldBy(cur[w], v) => v = w
  BY ONLY ZenonT(30), <1>3 DEF AtMostOnePlace
<1>5. \A u \in Task, x \in Shard : InShard(u, x)' <=> InShard(u, x)
  BY Zenon, <1>1 DEF InShard
<1>6. ASSUME NEW u \in Task, u = cur[w] PROVE ~Placed(u)'
  <2>1. \A v \in Worker : ~HeldBy(u, v)'
    BY ONLY ZenonT(30), <1>2, <1>4, <1>6
  <2>2. u \notin taskBuf' /\ \A x \in Shard : ~InShard(u, x)'
    BY ONLY ZenonT(30), <1>1, <1>4, <1>5, <1>6
  <2> QED
    BY ONLY ZenonT(30), <2>1, <2>2 DEF Placed
<1>7. ASSUME NEW u \in Task, u # cur[w] PROVE Placed(u)' <=> Placed(u)
  <2>1. (u \in taskBuf' <=> u \in taskBuf) /\ \A v \in Worker : HeldBy(u, v)' <=> HeldBy(u, v)
    BY ONLY ZenonT(30), <1>1, <1>2, <1>7
  <2> QED
    BY ONLY ZenonT(30), <1>5, <2>1 DEF Placed
<1>8. Placed(cur[w]) /\ ~IsHanding(cur[w])
  BY ONLY <1>3, <1>4 DEF Placed, IsHanding, Given, ForwarderHasLock
<1>9. ASSUME NEW u \in Task PROVE Placed(u)' <=> Placed(u) /\ u # cur[w]
  <2>1. CASE u = cur[w]
    BY ONLY ZenonT(30), <1>6, <2>1
  <2>2. CASE u # cur[w]
    BY ONLY ZenonT(30), <1>7, <2>2
  <2> QED
    BY ONLY Zenon, <2>1, <2>2
<1> QED
  BY ONLY ZenonT(30), <1>1, <1>8, <1>9

\* A worker's step keeps its tasks in flight but for the one it is done with.
LEMMA PendingWorker ==
    ASSUME TypeOK, TypeOK', Placement, NEW w \in Worker, WorkerStep(w)
    PROVE  Stays \/ Leaves(cur[w])
<1>1. UNCHANGED spc
  BY Zenon DEF WorkerStep, Probe, PopBatch, RunTask, DoneTask, Park, AddToIdle
<1>2. \A u \in Task : IsHanding(u)' <=> IsHanding(u)
  BY <1>1 DEF IsHanding
<1>3. ASSUME UNCHANGED pendingTasks, \A u \in Task : Placed(u)' <=> Placed(u)
      PROVE  Stays
  BY <1>2, <1>3, InFlightIff, InFlightNext DEF Stays
<1>4. ASSUME UNCHANGED <<taskQueues, taskBuf, cur, batch>>, NEW u \in Task
      PROVE  Placed(u)' <=> Placed(u)
  BY <1>4 DEF Placed, InShard, HeldBy
<1>5. CASE RunTask(w) \/ Park(w) \/ AddToIdle(w)
  <2>1. UNCHANGED <<taskQueues, taskBuf, cur, batch, pendingTasks>>
    BY <1>5 DEF RunTask, Park, AddToIdle
  <2> QED
    BY Zenon, <1>3, <1>4, <2>1
<1>6. CASE Probe(w)
  <2> DEFINE s == (cursor[w] + scanned[w]) % NumShards
  <2>1. s \in Shard
    BY ShardSum DEF TypeOK, WorkerTypeOK
  <2>2. UNCHANGED <<taskBuf, batch, pendingTasks>> /\ ~Busy(w)
    BY <1>6 DEF Probe, Busy
  <2>3. CASE UNCHANGED <<taskQueues, cur>>
    BY SMTT(30), <1>3, <1>4, <2>2, <2>3
  <2>4. CASE \E t \in taskQueues[s] :
               /\ taskQueues' = [taskQueues EXCEPT ![s] = @ \ {t}]
               /\ cur' = [cur EXCEPT ![w] = t]
    <3> HIDE DEF s
    <3>0. /\ taskQueues \in [Shard -> SUBSET Task] /\ batch[w] = {}
          /\ cur \in [Worker -> Task \cup {NoTask}] /\ cur[w] = NoTask
      BY Zenon, <2>2 DEF Placement, HandInUse, TypeOK, QueueTypeOK, HandTypeOK
    <3>1. PICK t \in taskQueues[s] :
               /\ taskQueues' = [taskQueues EXCEPT ![s] = @ \ {t}]
               /\ cur' = [cur EXCEPT ![w] = t]
      BY Zenon, <2>4
    <3>2. t \in Task /\ InShard(t, s)
      BY ONLY <2>1, <3>0, <3>1 DEF InShard
    <3>3. HeldBy(t, w)'
      BY ONLY <3>0, <3>1 DEF HeldBy
    <3>4. ASSUME NEW u \in Task \ {t}
          PROVE  /\ \A x \in Shard : InShard(u, x)' <=> InShard(u, x)
                 /\ \A v \in Worker : HeldBy(u, v)' <=> HeldBy(u, v)
      <4>1. \A x \in Shard : InShard(u, x)' <=> InShard(u, x)
        BY ONLY <2>1, <3>0, <3>1 DEF InShard
      <4>2. \A v \in Worker : HeldBy(u, v)' <=> HeldBy(u, v)
        BY ONLY ZenonT(30), <2>2, <3>0, <3>1, PoolAssumption DEF HeldBy
      <4> QED
        BY Zenon, <4>1, <4>2
    <3>5. \A u \in Task : Placed(u)' <=> Placed(u)
      BY <2>1, <2>2, <3>2, <3>3, <3>4 DEF Placed
    <3> QED
      BY <1>3, <2>2, <3>5
  <2> QED
    BY Zenon, <1>6, <2>3, <2>4 DEF Probe
<1>7. CASE PopBatch(w)
  <2>1. UNCHANGED <<taskQueues, pendingTasks>> /\ ~Busy(w)
    BY <1>7 DEF PopBatch, Busy
  <2>2. CASE UNCHANGED <<taskBuf, cur, batch>>
    BY <1>3, <1>4, <2>1, <2>2
  <2>3. CASE \E popped \in SUBSET taskBuf : \E first \in popped :
               /\ taskBuf' = taskBuf \ popped
               /\ cur' = [cur EXCEPT ![w] = first]
               /\ batch' = [batch EXCEPT ![w] = popped \ {first}]
    <3>0. /\ batch \in [Worker -> SUBSET Task] /\ batch[w] = {}
          /\ cur \in [Worker -> Task \cup {NoTask}] /\ cur[w] = NoTask
      BY Zenon, <2>1 DEF Placement, HandInUse, TypeOK, HandTypeOK
    <3>1. PICK popped \in SUBSET taskBuf, first \in taskBuf :
               /\ first \in popped
               /\ taskBuf' = taskBuf \ popped
               /\ cur' = [cur EXCEPT ![w] = first]
               /\ batch' = [batch EXCEPT ![w] = popped \ {first}]
      BY Zenon, <2>3
    <3>2. \A u \in popped : HeldBy(u, w)'
      BY ONLY Zenon, <3>0, <3>1 DEF HeldBy
    <3>3. ASSUME NEW u \in Task \ popped, NEW v \in Worker
          PROVE  HeldBy(u, v)' <=> HeldBy(u, v)
      BY ONLY <2>1, <3>0, <3>1, PoolAssumption DEF HeldBy
    <3>4. ASSUME NEW u \in Task, NEW x \in Shard
          PROVE  InShard(u, x)' <=> InShard(u, x)
      BY <2>1 DEF InShard
    <3>5. \A u \in Task : Placed(u)' <=> Placed(u)
      BY <3>1, <3>2, <3>3, <3>4 DEF Placed
    <3> QED
      BY <1>3, <2>1, <3>5
  <2> QED
    BY <1>7, <2>2, <2>3 DEF PopBatch
<1>8. CASE DoneTask(w)
  <2>1. pendingTasks' = pendingTasks - 1
    BY <1>8 DEF DoneTask
  <2>2. cur[w] \in InFlight /\ InFlight' = InFlight \ {cur[w]}
    BY <1>2, <1>8, DoneLetsGo, InFlightIff, InFlightNext
  <2> QED
    BY Zenon, <2>1, <2>2 DEF Leaves
<1> QED
  BY <1>5, <1>6, <1>7, <1>8 DEF WorkerStep

\* The scaler, the cleaner and Close leave tasks and count alone.
LEMMA PendingOther ==
    ASSUME TypeOK, TypeOK',
           \/ ScalerStep \/ Clean \/ CleanerStop \/ UNCHANGED vars
           \/ \E c \in Closer : CloseBegin(c) \/ CloseStep(c)
    PROVE  Stays
<1>1. UNCHANGED <<taskQueues, taskBuf, cur, batch, spc, pendingTasks>>
  BY Zenon DEF ScalerStep, ReadRunning, Plan, Recheck, AddRunning, Spawn, ScalerExit,
         Clean, CleanerStop, CloseBegin, CloseStep, CloseBuffer, CloseChannel, vars
<1>2. \A u \in Task : IsHanding(u)' <=> IsHanding(u)
  BY <1>1 DEF IsHanding
<1>3. \A u \in Task : Placed(u)' <=> Placed(u)
  BY <1>1 DEF Placed, InShard, HeldBy
<1>4. InFlight' = InFlight
  BY SMTT(30), <1>2, <1>3, InFlightIff, InFlightNext
<1> QED
  BY <1>1, <1>4 DEF Stays

\* Every step changes the count and the tasks in flight alike.
LEMMA PendingStep ==
    ASSUME TypeOK, TypeOK', Placement, PendingExact, [Next]_vars
    PROVE  PendingExact'
<1>1. IsFiniteSet(InFlight) /\ Cardinality(InFlight) \in Nat
  BY InFlightFinite
<1>2. ASSUME NEW t, Enters(t) PROVE PendingExact'
  <2>1. Cardinality(InFlight') = Cardinality(InFlight) + 1
    BY <1>1, <1>2, FS_AddElement DEF Enters
  <2> QED
    BY <1>2, <2>1 DEF Enters, PendingExact
<1>3. ASSUME NEW t, Leaves(t) PROVE PendingExact'
  <2>1. Cardinality(InFlight') = Cardinality(InFlight) - 1
    BY <1>1, <1>3, FS_RemoveElement DEF Leaves
  <2> QED
    BY <1>3, <2>1 DEF Leaves, PendingExact
<1>4. CASE Stays
  BY <1>4 DEF Stays, PendingExact
<1> QED
  BY ZenonT(60), <1>2, <1>3, <1>4, PendingSubmit, PendingWorker, PendingOther
     DEF Next, Terminated

\* pendingTasks is exact at every moment, whatever submitters, workers and
\* Close do concurrently: no path of submit and no task leaks or doubles a count.
THEOREM PendingCountIsExact == Spec => []PendingExact
<1>1. Init => PendingExact
  <2> SUFFICES ASSUME Init PROVE PendingExact
    OBVIOUS
  <2>1. InFlight = {}
    BY TypeInit, InFlightIff, PoolAssumption
       DEF Init, IsHanding, Placed, InShard, HeldBy
  <2> QED
    BY <2>1, FS_EmptySet DEF Init, PendingExact
<1>2. TypeOK /\ TypeOK' /\ Placement /\ PendingExact /\ [Next]_vars => PendingExact'
  BY PendingStep
<1> QED
  BY <1>1, <1>2, TypeCorrect, PlacementInvariant, PTL DEF Spec
=============================================================================
