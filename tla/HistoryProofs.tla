--------------------------- MODULE HistoryProofs ---------------------------
(***************************************************************************)
(* What the scaler concludes from pendingTasks when it stops, and what has *)
(* happened to a task that was accepted, for any number of tasks, workers  *)
(* and shards.                                                             *)
(***************************************************************************)
EXTENDS PlacementProofs

USE DEF closeVars, queueVars, submitVars, workerVars, handVars, idleVars,
        scalerVars, scalerOnly, closeOnly

-----------------------------------------------------------------------------
(***************************************************************************)
(* The scaler's stop.                                                      *)
(***************************************************************************)

\* Once the scaler has stopped, the tasks in flight are submissions about to
\* find the pool closed, and a step can only add one more of them.
LEMMA StoppedStep ==
    ASSUME TypeOK, TypeOK', Placement, [Next]_vars, ScalerOutlivesTasks,
           sc = "stopped"
    PROVE  closed' /\ \A u \in InFlight' : spc'[u] = "check"
<1>1. closed /\ \A u \in InFlight : spc[u] = "check"
  BY DEF ScalerOutlivesTasks
<1>2. closed'
  BY ZenonT(60), <1>1 DEF Next, SubmitCtxDone, SubmitCall, SubmitStep, Cancel, CheckClosed,
     ColdStart, TrySend, Push, Forward, BlockedSend, EnqueuedHook, WorkerStep,
     Probe, PopBatch, RunTask, DoneTask, Park, AddToIdle, ScalerStep, ReadRunning,
     Plan, Recheck, AddRunning, Spawn, ScalerExit, Clean, CleanerStop, CloseBegin,
     CloseStep, CloseBuffer, CloseChannel, Terminated, vars
<1>3. CASE \E t \in Task : SubmitCtxDone(t) \/ SubmitCall(t) \/ SubmitStep(t) \/ Cancel(t)
  <2>1. PICK t \in Task : SubmitCtxDone(t) \/ SubmitCall(t) \/ SubmitStep(t) \/ Cancel(t)
    BY <1>3
  <2>2. \A u \in Task : u # t => spc'[u] = spc[u]
    BY Zenon, <2>1 DEF SubmitCtxDone, SubmitCall, SubmitStep, Cancel, CheckClosed, ColdStart,
       TrySend, Push, Forward, BlockedSend, EnqueuedHook, Accept, Reject, Goto,
       TypeOK, SubmitTypeOK
  <2>3. InFlight' \subseteq Task
    BY InFlightNext
  <2>4. CASE SubmitCall(t) /\ Enters(t)
    <3>1. spc'[t] = "check" /\ InFlight' = InFlight \cup {t}
      BY <2>4 DEF SubmitCall, Goto, Enters, TypeOK, SubmitTypeOK
    <3> QED
      BY SMTT(30), <1>1, <1>2, <2>2, <2>3, <3>1
  <2>5. CASE Leaves(t)
    BY <1>1, <1>2, <2>2, <2>3, <2>5 DEF Leaves
  <2>6. CASE Stays
    <3>1. CASE CheckClosed(t)
      <4>1. /\ Reject(t) /\ IsHanding(t) /\ ~Given(t)
            /\ UNCHANGED <<taskQueues, taskBuf, cur, batch>>
        BY <1>1, <3>1 DEF CheckClosed, IsHanding, Given
      <4>2. t \notin InFlight'
        BY <4>1, RejectLeaves DEF Leaves
      <4> QED
        BY SMTT(30), <1>1, <1>2, <2>2, <2>3, <2>6, <4>2 DEF Stays
    <3>2. CASE ~CheckClosed(t)
      <4>1. spc[t] = "check" => spc'[t] = "check"
        BY Zenon, <2>1, <3>2
           DEF SubmitCtxDone, SubmitCall, SubmitStep, Cancel, ColdStart, TrySend,
               Push, Forward, BlockedSend, EnqueuedHook
      <4> QED
        BY <1>1, <1>2, <2>2, <2>3, <2>6, <4>1 DEF Stays
    <3> QED
      BY SMTT(30), <3>1, <3>2
  <2> QED
    BY <2>1, <2>4, <2>5, <2>6, PendingSubmit
<1>4. CASE \E w \in Worker : WorkerStep(w)
  <2>1. UNCHANGED spc
    BY Zenon, <1>4 DEF WorkerStep, Probe, PopBatch, RunTask, DoneTask, Park, AddToIdle
  <2>2. InFlight' \subseteq InFlight
    BY <1>4, PendingWorker DEF Stays, Leaves
  <2> QED
    BY <1>1, <1>2, <2>1, <2>2
<1>5. CASE \/ ScalerStep \/ Clean \/ CleanerStop \/ UNCHANGED vars
           \/ \E c \in Closer : CloseBegin(c) \/ CloseStep(c)
  <2>1. UNCHANGED spc
    BY Zenon, <1>5 DEF ScalerStep, ReadRunning, Plan, Recheck, AddRunning, Spawn, ScalerExit,
         Clean, CleanerStop, CloseBegin, CloseStep, CloseBuffer, CloseChannel, vars
  <2>2. InFlight' = InFlight
    BY <1>5, PendingOther DEF Stays
  <2> QED
    BY <1>1, <1>2, <2>1, <2>2
<1> QED
  BY <1>3, <1>4, <1>5 DEF Next, Terminated

\* The scaler may stop: it sees the pool closed and no task pending.
LEMMA StoppingStep ==
    ASSUME TypeOK, TypeOK', PendingExact, [Next]_vars, sc # "stopped", sc' = "stopped"
    PROVE  closed' /\ InFlight' = {}
<1>1. ScalerExit
  BY ZenonT(60) DEF Next, SubmitCtxDone, SubmitCall, SubmitStep, Cancel, CheckClosed,
     ColdStart, TrySend, Push, Forward, BlockedSend, EnqueuedHook, WorkerStep,
     Probe, PopBatch, RunTask, DoneTask, Park, AddToIdle, ScalerStep, ReadRunning,
     Plan, Recheck, AddRunning, Spawn, Clean, CleanerStop, CloseBegin,
     CloseStep, CloseBuffer, CloseChannel, Terminated, vars
<1>2. closed /\ pendingTasks = 0 /\ UNCHANGED closed
  BY <1>1 DEF ScalerExit, Drained
<1>3. InFlight' = InFlight
  BY <1>1, PendingOther DEF ScalerStep, Stays
<1>4. InFlight = {}
  BY Zenon, <1>2, InFlightFinite, FS_EmptySet DEF PendingExact
<1> QED
  BY SMTT(30), <1>2, <1>3, <1>4

\* The scaler never stops while an accepted task, or a submission that may yet
\* be accepted, is left: so a closed pool that needs a worker gets one.
THEOREM ScalerNeverStopsEarly == Spec => []ScalerOutlivesTasks
<1>1. Init => ScalerOutlivesTasks
  BY DEF Init, ScalerOutlivesTasks
<1>2. ASSUME TypeOK, TypeOK', Placement, PendingExact, ScalerOutlivesTasks, [Next]_vars
      PROVE  ScalerOutlivesTasks'
  BY <1>2, StoppedStep, StoppingStep DEF ScalerOutlivesTasks
<1> QED
  BY <1>1, <1>2, TypeCorrect, PlacementInvariant, PendingCountIsExact, PTL DEF Spec

-----------------------------------------------------------------------------
(***************************************************************************)
(* What has happened to a task: the hooks and the place of an accepted     *)
(* task.                                                                   *)
(***************************************************************************)

\* A worker has run the task and is about to count it as done.
Finishing(t) == \E w \in Worker : wpc[w] = "done" /\ cur[w] = t

\* The pool was given the task and has run it.
Over(t) == Given(t) /\ (t \notin InFlight \/ Finishing(t))

(***************************************************************************)
(* The strengthening: which events a task has had, from where its          *)
(* submission is and whether it is over.                                   *)
(***************************************************************************)
RunOnce(t) ==
    /\ Over(t) => fired[t]["Started"] = 1 /\ fired[t]["Completed"] = 1
    /\ ~Over(t) => fired[t]["Started"] = 0 /\ fired[t]["Completed"] = 0
    /\ fired[t]["Ran"] <= fired[t]["Completed"]

Announced(t) ==
    /\ spc[t] = "accepted" => fired[t]["Enqueued"] = 1
    /\ spc[t] # "accepted" => fired[t]["Enqueued"] = 0
    /\ spc[t] \in {"ready", "check", "cold"} => fired[t]["Submitted"] = 0
    /\ spc[t] \in {"send", "push", "forward", "block", "enq", "accepted"} =>
          fired[t]["Submitted"] = 1

History == \A t \in Task : RunOnce(t) /\ Announced(t)

\* A new pool has no events.
LEMMA HistoryInit == Init => History
  BY DEF Init, History, RunOnce, Announced, Over, Given, Event

\* Where a task is that the pool was given.
LEMMA GivenInFlight ==
    ASSUME TypeOK, Placement, NEW t \in Task, Given(t)
    PROVE  t \in InFlight <=> Placed(t)
<1>1. IsHanding(t) => Placed(t)
  BY DEF Given, IsHanding, Placement, ForwarderHasLock, Placed
<1> QED
  BY <1>1, InFlightIff

\* A task that a worker runs is in flight, and nobody else runs it.
LEMMA RunningTask ==
    ASSUME TypeOK, Placement, NEW w \in Worker, Busy(w)
    PROVE  /\ cur[w] \in Task /\ Given(cur[w]) /\ cur[w] \in InFlight
           /\ \A v \in Worker : cur[v] = cur[w] => v = w
<1>1. cur[w] \in Task /\ HeldBy(cur[w], w)
  BY DEF Placement, HandInUse, HeldBy
<1>2. AtMostOnePlace(cur[w])
  BY <1>1 DEF Placement
<1>3. Given(cur[w]) /\ \A v \in Worker : HeldBy(cur[w], v) => v = w
  BY <1>1, <1>2 DEF AtMostOnePlace
<1>4. Placed(cur[w])
  BY <1>1 DEF Placed
<1> QED
  BY <1>1, <1>3, <1>4, GivenInFlight DEF HeldBy

\* A task nobody was given is not finishing.
LEMMA FinishingGiven ==
    ASSUME TypeOK, Placement, NEW t \in Task, Finishing(t)
    PROVE  Given(t) /\ t \in InFlight
  BY RunningTask DEF Finishing, Busy

\* A step that leaves a task's submission, its events and its worker alone, and
\* keeps it in flight or not, keeps its history.
LEMMA HistoryKept ==
    ASSUME NEW t \in Task, RunOnce(t), Announced(t),
           spc'[t] = spc[t], fired'[t] = fired[t],
           t \in InFlight' <=> t \in InFlight, Finishing(t)' <=> Finishing(t)
    PROVE  (RunOnce(t) /\ Announced(t))'
<1>1. Over(t)' <=> Over(t)
  BY DEF Over, Given
<1>2. RunOnce(t)'
  BY <1>1 DEF RunOnce
<1>3. Announced(t)'
  BY DEF Announced
<1> QED
  BY <1>2, <1>3

\* The events of a task that has just been run.
LEMMA RunFinishes ==
    ASSUME NEW t \in Task, RunOnce(t), Announced(t), ~Over(t), Over(t)', spc' = spc,
           fired[t]["Ran"] \in Nat,
           fired'[t]["Started"] = fired[t]["Started"] + 1,
           fired'[t]["Completed"] = fired[t]["Completed"] + 1,
           fired'[t]["Ran"] \in {fired[t]["Ran"], fired[t]["Ran"] + 1},
           fired'[t]["Submitted"] = fired[t]["Submitted"],
           fired'[t]["Enqueued"] = fired[t]["Enqueued"]
    PROVE  (RunOnce(t) /\ Announced(t))'
<1>1. RunOnce(t)'
  BY DEF RunOnce
<1>2. Announced(t)'
  BY DEF Announced
<1> QED
  BY <1>1, <1>2

\* A new worker is not at the end of a task.
LEMMA StartFinishesNothing ==
    ASSUME TypeOK, StartWorker, UNCHANGED cur, NEW t
    PROVE  Finishing(t)' <=> Finishing(t)
<1>1. PICK w \in Worker : wpc[w] = "free" /\ wpc' = [wpc EXCEPT ![w] = "scan"]
  BY ZenonT(30) DEF StartWorker
<1>2. wpc \in [Worker -> WorkerPC]
  BY Zenon DEF TypeOK, WorkerTypeOK
<1>3. \A v \in Worker : wpc'[v] = "done" <=> wpc[v] = "done"
  BY <1>1, <1>2
<1> QED
  BY <1>3 DEF Finishing

\* Every submission is at one of the places of submit.
LEMMA SpcType == TypeOK => spc \in [Task -> SubmitPC]
  BY Zenon DEF TypeOK, SubmitTypeOK

\* Once the pool has the task, submit leaves pendingTasks alone; the step that
\* gives the pool the task leaves it alone as well.
LEMMA SubmitMoves ==
    ASSUME TypeOK, NEW t \in Task,
           SubmitCtxDone(t) \/ SubmitCall(t) \/ SubmitStep(t) \/ Cancel(t)
    PROVE  /\ Given(t) => Given(t)' /\ pendingTasks' = pendingTasks
           /\ ~Given(t) /\ Given(t)' => IsHanding(t) /\ pendingTasks' = pendingTasks
<1>1. spc \in [Task -> SubmitPC]
  BY ZenonT(30), SpcType
<1>2. CASE SubmitCtxDone(t) \/ SubmitCall(t) \/ Cancel(t) \/ CheckClosed(t)
  BY <1>1, <1>2 DEF Given, SubmitCtxDone, SubmitCall, Cancel, CheckClosed, Reject, Goto
<1>3. CASE ColdStart(t)
  BY <1>1, <1>3 DEF Given, ColdStart, Goto
<1>4. CASE TrySend(t)
  BY <1>1, <1>4 DEF Given, IsHanding, TrySend, Accept, Reject, Goto
<1>5. CASE Push(t)
  BY <1>1, <1>5 DEF Given, IsHanding, Push, Reject, Goto
<1>6. CASE Forward(t) \/ EnqueuedHook(t)
  BY <1>1, <1>6 DEF Given, Forward, EnqueuedHook, Accept, Goto
<1>7. CASE BlockedSend(t)
  BY <1>1, <1>7 DEF Given, IsHanding, BlockedSend, Accept, Reject, Goto
<1> QED
  BY Zenon, <1>2, <1>3, <1>4, <1>5, <1>6, <1>7 DEF SubmitStep

\* The submission stays on its side of the two events of submit.
AnnouncedKept(t) ==
    /\ spc'[t] = "accepted" <=> spc[t] = "accepted"
    /\ spc'[t] \in {"ready", "check", "cold"} => spc[t] \in {"ready", "check", "cold"}
    /\ spc'[t] \in {"send", "push", "forward", "block", "enq", "accepted"} =>
         spc[t] \in {"send", "push", "forward", "block", "enq", "accepted"}

\* The steps of submit that fire nothing do not pass an event.
LEMMA QuietSubmit ==
    ASSUME TypeOK, NEW t \in Task, ~ColdStart(t) /\ ~EnqueuedHook(t),
           SubmitCtxDone(t) \/ SubmitCall(t) \/ SubmitStep(t) \/ Cancel(t)
    PROVE  AnnouncedKept(t)
<1>1. spc \in [Task -> SubmitPC]
  BY ZenonT(30), SpcType
<1>2. CASE SubmitCtxDone(t) \/ SubmitCall(t) \/ Cancel(t) \/ CheckClosed(t)
  BY <1>1, <1>2 DEF AnnouncedKept, SubmitCtxDone, SubmitCall, Cancel, CheckClosed, Reject,
     Goto
<1>3. CASE TrySend(t) \/ Push(t)
  BY <1>1, <1>3 DEF AnnouncedKept, TrySend, Push, Accept, Reject, Goto
<1>4. CASE Forward(t) \/ BlockedSend(t)
  BY <1>1, <1>4 DEF AnnouncedKept, Forward, BlockedSend, Accept, Reject, Goto
<1> QED
  BY Zenon, <1>2, <1>3, <1>4 DEF SubmitStep

\* A step of submit concerns its own task only; it runs nothing, and only the
\* step that hands the task over, or finds it in the buffer, accepts it.
LEMMA HistorySubmit ==
    ASSUME TypeOK, TypeOK', Placement, History, NEW t \in Task,
           SubmitCtxDone(t) \/ SubmitCall(t) \/ SubmitStep(t) \/ Cancel(t)
    PROVE  History'
<1>1. UNCHANGED cur
  BY Zenon DEF SubmitCtxDone, SubmitCall, SubmitStep, Cancel, CheckClosed, ColdStart,
     TrySend, Push, Forward, BlockedSend, EnqueuedHook
<1>2. StartWorker \/ UNCHANGED wpc
  BY Zenon DEF SubmitCtxDone, SubmitCall, SubmitStep, Cancel, CheckClosed, ColdStart,
     TrySend, Push, Forward, BlockedSend, EnqueuedHook
<1>3. \A u \in Task : Finishing(u)' <=> Finishing(u)
  BY <1>1, <1>2, StartFinishesNothing DEF Finishing
<1>4. ASSUME NEW u \in Task, u # t
      PROVE  (RunOnce(u) /\ Announced(u))'
  <2>1. spc'[u] = spc[u] /\ fired'[u] = fired[u]
    BY Zenon, <1>4 DEF SubmitCtxDone, SubmitCall, SubmitStep, Cancel, CheckClosed,
       ColdStart, TrySend, Push, Forward, BlockedSend, EnqueuedHook, Accept, Reject,
       Goto, Fire, TypeOK, SubmitTypeOK, FiredTypeOK
  <2>2. u \in InFlight' <=> u \in InFlight
    BY <1>4, PendingSubmit DEF Enters, Leaves, Stays
  <2> QED
    BY <1>3, <2>1, <2>2, HistoryKept DEF History
<1>5. RunOnce(t)'
  <2>1. /\ fired'[t]["Started"] = fired[t]["Started"]
        /\ fired'[t]["Completed"] = fired[t]["Completed"]
        /\ fired'[t]["Ran"] = fired[t]["Ran"]
    <3>1. CASE UNCHANGED fired
      BY <3>1
    <3>2. CASE Fire(t, "Submitted") \/ Fire(t, "Enqueued")
      BY <3>2 DEF Fire, TypeOK, FiredTypeOK, Event
    <3> QED
      BY Zenon, <3>1, <3>2 DEF SubmitCtxDone, SubmitCall, SubmitStep, Cancel, CheckClosed,
         ColdStart, TrySend, Push, Forward, BlockedSend, EnqueuedHook
  <2>2. Over(t)' <=> Over(t)
    <3>1. CASE Given(t) <=> Given(t)'
      <4>1. Given(t) => (t \in InFlight' <=> t \in InFlight)
        <5>1. CASE Given(t) /\ Leaves(t)
          BY <5>1, SubmitMoves DEF Leaves, TypeOK, CountTypeOK
        <5>2. CASE Given(t) /\ SubmitCall(t)
          BY <5>2 DEF Given, SubmitCall
        <5> QED
          BY <5>1, <5>2, PendingSubmit DEF Stays
      <4> QED
        BY <1>3, <3>1, <4>1 DEF Over
    <3>2. CASE ~(Given(t) <=> Given(t)')
      <4>1. /\ ~Given(t) /\ IsHanding(t) /\ pendingTasks' = pendingTasks
            /\ ~SubmitCall(t)
        BY <3>2, SubmitMoves DEF IsHanding, SubmitCall
      <4>2. t \in InFlight
        BY <4>1, InFlightIff
      <4>3. t \in InFlight'
        BY <4>1, <4>2, PendingSubmit DEF Stays, Leaves, TypeOK, CountTypeOK
      <4>4. ~Finishing(t)
        BY <4>1, FinishingGiven
      <4> QED
        BY <1>3, <4>1, <4>3, <4>4 DEF Over
    <3> QED
      BY <3>1, <3>2
  <2> QED
    BY <2>1, <2>2 DEF History, RunOnce
<1>6. Announced(t)'
  <2>1. Announced(t)
    BY DEF History
  <2>2. CASE ColdStart(t)
    <3>1. /\ spc[t] = "cold" /\ spc' = [spc EXCEPT ![t] = "send"]
          /\ fired' = [fired EXCEPT ![t]["Submitted"] = @ + 1]
      BY <2>2 DEF ColdStart, Goto, Fire
    <3>2. fired'[t]["Submitted"] = fired[t]["Submitted"] + 1
          /\ fired'[t]["Enqueued"] = fired[t]["Enqueued"]
      BY <3>1 DEF TypeOK, FiredTypeOK, Event
    <3> QED
      BY <2>1, <3>1, <3>2 DEF Announced, TypeOK, SubmitTypeOK
  <2>3. CASE EnqueuedHook(t)
    <3>1. /\ spc[t] = "enq" /\ spc' = [spc EXCEPT ![t] = "accepted"]
          /\ fired' = [fired EXCEPT ![t]["Enqueued"] = @ + 1]
      BY <2>3 DEF EnqueuedHook, Goto, Fire
    <3>2. fired'[t]["Enqueued"] = fired[t]["Enqueued"] + 1
          /\ fired'[t]["Submitted"] = fired[t]["Submitted"]
      BY <3>1 DEF TypeOK, FiredTypeOK, Event
    <3> QED
      BY <2>1, <3>1, <3>2 DEF Announced, TypeOK, SubmitTypeOK
  <2>4. CASE ~ColdStart(t) /\ ~EnqueuedHook(t)
    <3>1. UNCHANGED fired
      BY Zenon, <2>4 DEF SubmitCtxDone, SubmitCall, SubmitStep, Cancel, CheckClosed,
         TrySend, Push, Forward, BlockedSend
    <3>2. AnnouncedKept(t)
      BY Zenon, <2>4, QuietSubmit
    <3> QED
      BY <2>1, <3>1, <3>2 DEF Announced, AnnouncedKept
  <2> QED
    BY <2>2, <2>3, <2>4
<1> QED
  BY <1>4, <1>5, <1>6 DEF History

\* A worker's step starts and completes the task it has in hand, once.
LEMMA HistoryWorker ==
    ASSUME TypeOK, TypeOK', Placement, History, NEW w \in Worker, WorkerStep(w)
    PROVE  History'
<1>1. UNCHANGED spc
  BY Zenon DEF WorkerStep, Probe, PopBatch, RunTask, DoneTask, Park, AddToIdle
<1>2. wpc \in [Worker -> WorkerPC] /\ cur \in [Worker -> Task \cup {NoTask}]
  BY Zenon DEF TypeOK, WorkerTypeOK, HandTypeOK
<1>3. pendingTasks \in Int
  BY Zenon DEF TypeOK, CountTypeOK
<1>4. CASE RunTask(w)
  <2>1. /\ wpc[w] = "run" /\ wpc' = [wpc EXCEPT ![w] = "done"]
        /\ fired' = [fired EXCEPT ![cur[w]] = RunEvents(cur[w])]
        /\ UNCHANGED <<cur, pendingTasks>>
    BY <1>4 DEF RunTask, Become
  <2>2. /\ cur[w] \in Task /\ Given(cur[w]) /\ cur[w] \in InFlight
        /\ \A v \in Worker : cur[v] = cur[w] => v = w
    BY <2>1, RunningTask DEF Busy
  <2>3. InFlight' = InFlight
    BY <1>3, <2>1, PendingWorker DEF Stays, Leaves
  <2>4. ASSUME NEW u \in Task, u # cur[w]
        PROVE  (RunOnce(u) /\ Announced(u))'
    <3>1. fired'[u] = fired[u]
      BY <2>1, <2>4 DEF TypeOK, FiredTypeOK
    <3>2. Finishing(u)' <=> Finishing(u)
      BY <1>2, <2>1, <2>4 DEF Finishing
    <3> QED
      BY <1>1, <2>3, <3>1, <3>2, HistoryKept DEF History
  <2>5. ASSUME NEW u \in Task, u = cur[w]
        PROVE  (RunOnce(u) /\ Announced(u))'
    <3>1. ~Finishing(u) /\ ~Over(u)
      BY <2>1, <2>2, <2>5 DEF Finishing, Over
    <3>2. Finishing(u)' /\ Over(u)'
      BY <1>1, <1>2, <2>1, <2>2, <2>5 DEF Finishing, Over, Given
    <3>3. fired[u] \in [Event -> Nat]
      BY DEF TypeOK, FiredTypeOK
    <3>4. fired'[u] = RunEvents(u)
      BY <2>1, <2>5 DEF TypeOK, FiredTypeOK
    <3>5. /\ fired'[u]["Started"] = fired[u]["Started"] + 1
          /\ fired'[u]["Completed"] = fired[u]["Completed"] + 1
          /\ fired'[u]["Ran"] \in {fired[u]["Ran"], fired[u]["Ran"] + 1}
          /\ fired'[u]["Submitted"] = fired[u]["Submitted"]
          /\ fired'[u]["Enqueued"] = fired[u]["Enqueued"]
      BY <3>3, <3>4 DEF RunEvents, Event
    <3>6. RunOnce(u) /\ Announced(u) /\ fired[u]["Ran"] \in Nat
      BY <3>3 DEF History, Event
    <3> QED
      BY Zenon, <1>1, <3>1, <3>2, <3>5, <3>6, RunFinishes
  <2> QED
    BY <2>4, <2>5 DEF History
<1>5. CASE DoneTask(w)
  <2>1. /\ wpc[w] = "done" /\ pendingTasks' = pendingTasks - 1 /\ UNCHANGED fired
        /\ NextTask(w)
    BY <1>5 DEF DoneTask
  <2>2. /\ cur[w] \in Task /\ Given(cur[w]) /\ cur[w] \in InFlight
    BY <2>1, RunningTask DEF Busy
  <2>3. InFlight' = InFlight \ {cur[w]}
    BY <1>3, <2>1, PendingWorker DEF Stays, Leaves
  <2>4. wpc'[w] # "done" /\ \A v \in Worker : v # w => wpc'[v] = wpc[v] /\ cur'[v] = cur[v]
    BY <1>2, <2>1 DEF NextTask, Become
  <2>5. ASSUME NEW u \in Task, u # cur[w]
        PROVE  (RunOnce(u) /\ Announced(u))'
    <3>1. Finishing(u)' <=> Finishing(u)
      BY Zenon, <2>4, <2>5 DEF Finishing
    <3> QED
      BY <1>1, <2>1, <2>3, <2>5, <3>1, HistoryKept DEF History
  <2>6. ASSUME NEW u \in Task, u = cur[w]
        PROVE  (RunOnce(u) /\ Announced(u))'
    <3>1. Over(u)
      BY <2>1, <2>2, <2>6 DEF Over, Finishing
    <3>2. Over(u)'
      BY <1>1, <2>2, <2>3, <2>6 DEF Over, Given
    <3>3. RunOnce(u)'
      BY <2>1, <3>1, <3>2 DEF History, RunOnce
    <3>4. Announced(u)'
      BY <1>1, <2>1 DEF History, Announced
    <3> QED
      BY <3>3, <3>4
  <2> QED
    BY <2>5, <2>6 DEF History
<1>6. CASE ~RunTask(w) /\ ~DoneTask(w)
  <2>1. UNCHANGED <<pendingTasks, fired>>
    BY Zenon, <1>6 DEF WorkerStep, Probe, PopBatch, Park, AddToIdle
  <2>2. InFlight' = InFlight
    BY <1>3, <2>1, PendingWorker DEF Stays, Leaves
  <2>3. /\ wpc[w] # "done" /\ wpc'[w] # "done"
        /\ \A v \in Worker : v # w => wpc'[v] = wpc[v] /\ cur'[v] = cur[v]
    <3>1. \/ wpc' = wpc \/ Become(w, "run") \/ Become(w, "pop") \/ Become(w, "park")
          \/ Become(w, "add") \/ Become(w, "free")
      BY Zenon, <1>6 DEF WorkerStep, Probe, PopBatch, Park, AddToIdle
    <3>2. wpc[w] # "done"
      BY Zenon, <1>6 DEF WorkerStep, Probe, PopBatch, Park, AddToIdle
    <3>3. cur' = cur \/ \E x : cur' = [cur EXCEPT ![w] = x]
      BY Zenon, <1>6 DEF WorkerStep, Probe, PopBatch, Park, AddToIdle
    <3> QED
      BY <1>2, <3>1, <3>2, <3>3 DEF Become
  <2>4. ASSUME NEW u \in Task PROVE Finishing(u)' <=> Finishing(u)
    BY <2>3 DEF Finishing
  <2> QED
    BY <1>1, <2>1, <2>2, <2>4, HistoryKept DEF History
<1> QED
  BY <1>4, <1>5, <1>6

\* The scaler, the cleaner and Close leave the tasks' events alone.
LEMMA HistoryOther ==
    ASSUME TypeOK, TypeOK', History,
           \/ ScalerStep \/ Clean \/ CleanerStop \/ UNCHANGED vars
           \/ \E c \in Closer : CloseBegin(c) \/ CloseStep(c)
    PROVE  History'
<1>1. UNCHANGED <<spc, fired, cur>> /\ (StartWorker \/ UNCHANGED wpc)
  BY Zenon DEF ScalerStep, ReadRunning, Plan, Recheck, AddRunning, Spawn, ScalerExit,
         Clean, CleanerStop, CloseBegin, CloseStep, CloseBuffer, CloseChannel, vars
<1>2. InFlight' = InFlight
  BY PendingOther DEF Stays
<1>3. ASSUME NEW u \in Task PROVE Finishing(u)' <=> Finishing(u)
  BY <1>1, StartFinishesNothing DEF Finishing
<1> QED
  BY <1>1, <1>2, <1>3, HistoryKept DEF History

\* Which events a task has had follows from where it is.
LEMMA HistoryInvariant == Spec => []History
<1>1. TypeOK /\ TypeOK' /\ Placement /\ History /\ [Next]_vars => History'
  BY HistorySubmit, HistoryWorker, HistoryOther DEF Next, Terminated
<1> QED
  BY <1>1, HistoryInit, TypeCorrect, PlacementInvariant, PTL DEF Spec

\* The hooks contract holds for every pool: an accepted task is announced as
\* enqueued once and a rejected one never, nothing starts unannounced, and no
\* task's function runs twice or without its Completed event.
THEOREM HooksKeepTheirContract == Spec => []HookContract
<1>1. TypeOK /\ History => HookContract
  <2> SUFFICES ASSUME TypeOK, History, NEW t \in Task
               PROVE  /\ fired[t]["Enqueued"] = IF spc[t] = "accepted" THEN 1 ELSE 0
                      /\ fired[t]["Started"] > 0 => fired[t]["Submitted"] = 1
                      /\ fired[t]["Ran"] <= fired[t]["Completed"]
                      /\ fired[t]["Completed"] <= 1
    BY DEF HookContract
  <2>1. RunOnce(t) /\ Announced(t)
    BY DEF History
  <2>2. fired[t]["Started"] > 0 => Given(t)
    BY <2>1 DEF RunOnce, Over
  <2> QED
    BY <2>1, <2>2 DEF RunOnce, Announced, Given
<1> QED
  BY <1>1, HistoryInvariant, TypeCorrect, PTL

\* A set with at most one element.
LEMMA AtMostOneElement ==
    ASSUME NEW S, \A x, y \in S : x = y
    PROVE  Cardinality(S) = IF S = {} THEN 0 ELSE 1
<1>1. CASE S = {}
  BY <1>1, FS_EmptySet
<1>2. CASE S # {}
  <2>1. PICK x : S = {x}
    BY <1>2
  <2> QED
    BY <1>2, <2>1, FS_Singleton
<1> QED
  BY <1>1, <1>2

\* No task is lost or duplicated, for any number of tasks, workers and shards:
\* an accepted task is in exactly one of the shards, the overflow buffer and the
\* workers' hands until it has run, and in none after; no other task is anywhere.
THEOREM NoTaskIsLostOrDuplicated == Spec => []ExactlyOnePlace
<1>1. ASSUME TypeOK, Placement, History PROVE ExactlyOnePlace
  <2> SUFFICES ASSUME NEW t \in Task
               PROVE  LET shards  == {s \in Shard : t \in taskQueues[s]}
                          holders == {w \in Worker : t \in Held(w)}
                          places  == Cardinality(shards) + Cardinality(holders)
                                       + (IF t \in taskBuf THEN 1 ELSE 0)
                          over    == fired[t]["Completed"]
                      IN  IF spc[t] \in {"forward", "enq", "accepted"}
                          THEN \/ places = 1 /\ (over = 0 \/ \E w \in holders : wpc[w] = "done")
                               \/ places = 0 /\ over = 1
                          ELSE places = 0 /\ fired[t]["Started"] = 0
    BY Zenon DEF ExactlyOnePlace
  <2> DEFINE shards  == {s \in Shard : t \in taskQueues[s]}
             holders == {w \in Worker : t \in Held(w)}
             places  == Cardinality(shards) + Cardinality(holders)
                          + (IF t \in taskBuf THEN 1 ELSE 0)
  <2>1. AtMostOnePlace(t) /\ RunOnce(t)
    BY <1>1 DEF Placement, History
  <2>2. \A w \in Worker : t \in Held(w) <=> HeldBy(t, w)
    BY PoolAssumption DEF Held, HeldBy
  <2>3. (\A x, y \in shards : x = y) /\ (\A x, y \in holders : x = y)
    BY Zenon, <2>1, <2>2 DEF AtMostOnePlace, InShard
  <2>4. /\ Cardinality(shards) = IF shards = {} THEN 0 ELSE 1
        /\ Cardinality(holders) = IF holders = {} THEN 0 ELSE 1
    BY Zenon, <2>3, AtMostOneElement
  <2>5. Placed(t) <=> t \in taskBuf \/ shards # {} \/ holders # {}
    BY Zenon, <2>2 DEF Placed, InShard
  <2>6. places = IF Placed(t) THEN 1 ELSE 0
    <3>1. shards # {} => t \notin taskBuf /\ holders = {}
      BY Zenon, <2>1, <2>2 DEF AtMostOnePlace, InShard
    <3>2. t \in taskBuf => holders = {}
      BY Zenon, <2>1, <2>2 DEF AtMostOnePlace
    <3> HIDE DEF shards, holders
    <3> QED
      BY <2>4, <2>5, <3>1, <3>2
  <2>7. Finishing(t) => \E w \in holders : wpc[w] = "done"
    BY Zenon, <2>2 DEF Finishing, HeldBy
  <2>8. Placed(t) => Given(t)
    BY Zenon, <2>1 DEF Placed, AtMostOnePlace
  <2>9. Given(t) => (t \in InFlight <=> Placed(t))
    BY Zenon, <1>1, GivenInFlight
  <2> HIDE DEF holders, places
  <2>10. CASE Given(t)
    <3>1. \/ places = 1 /\ (fired[t]["Completed"] = 0 \/ \E w \in holders : wpc[w] = "done")
          \/ places = 0 /\ fired[t]["Completed"] = 1
      BY Zenon, <2>1, <2>6, <2>7, <2>9, <2>10 DEF RunOnce, Over
    <3> QED
      BY Zenon, <2>10, <3>1 DEF Given, places, holders
  <2>11. CASE ~Given(t)
    <3>1. places = 0 /\ fired[t]["Started"] = 0
      BY Zenon, <2>1, <2>6, <2>8, <2>11 DEF RunOnce, Over
    <3> QED
      BY Zenon, <2>11, <3>1 DEF Given, places, holders
  <2> QED
    BY Zenon, <2>10, <2>11
<1> QED
  BY <1>1, TypeCorrect, PlacementInvariant, HistoryInvariant, PTL
=============================================================================
