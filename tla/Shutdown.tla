------------------------------ MODULE Shutdown ------------------------------
(***************************************************************************)
(* Wait and Close: the WaitGroup p.wg around submissions and tasks, any    *)
(* number of goroutines in Wait, racing calls of Close, and the PoolClosed *)
(* hook.  How a submission is accepted and a task run is AgilePool's       *)
(* business: here a submission is accepted or turned away, and an accepted *)
(* task runs.                                                              *)
(*                                                                         *)
(* sync.WaitGroup is modelled from its use: a counter and a number of      *)
(* waiters in one atomic word.  Done that brings the counter to zero under *)
(* waiters looks at the word again before it clears it and wakes them, and *)
(* a woken waiter looks once more; either panics if the word has changed.  *)
(***************************************************************************)
EXTENDS Integers, FiniteSets

CONSTANTS
    Task,       \* the tasks of all submissions
    Waiter,     \* the goroutines that call Wait
    Closer,     \* the goroutines that call Close
    Disciplined \* submissions keep the contract of WaitGroup.Add

ASSUME ShutdownAssumption ==
    IsFiniteSet(Task) /\ IsFiniteSet(Waiter) /\ Disciplined \in BOOLEAN

VARIABLES
    tpc,            \* where each task is: submission, run, done()
    completed,      \* the tasks that have run
    count, waiters, \* the word of the WaitGroup
    permits,        \* wake-ups not consumed yet
    wpc,            \* where each waiter is
    seen,           \* the tasks that were accepted when Wait was called
    closed, closePoolCn, cpc,
    poolClosed,     \* how often the PoolClosed hook has fired
    panicked        \* what brought the program down, or "no"

vars == <<tpc, completed, count, waiters, permits, wpc, seen, closed, closePoolCn,
          cpc, poolClosed, panicked>>

taskVars  == <<tpc, completed>>
groupVars == <<count, waiters, permits>>
waitVars  == <<wpc, seen>>
closeVars == <<closed, closePoolCn, cpc, poolClosed>>

ShutdownTypeOK ==
    /\ tpc \in [Task -> {"ready", "added", "queued", "refused", "ran", "release",
                         "settled"}]
    /\ completed \subseteq Task
    /\ count \in Nat /\ waiters \in Nat /\ permits \in Nat
    /\ wpc \in [Waiter -> {"ready", "asleep", "woken", "returned"}]
    /\ seen \in [Waiter -> SUBSET Task]
    /\ closed \in BOOLEAN /\ closePoolCn \in BOOLEAN
    /\ cpc \in [Closer -> {"ready", "close", "hook", "returned"}]
    /\ poolClosed \in Nat
    /\ panicked \in {"no", "misuse", "reused", "negative", "reclosed"}

Init ==
    /\ tpc = [t \in Task |-> "ready"] /\ completed = {}
    /\ count = 0 /\ waiters = 0 /\ permits = 0
    /\ wpc = [w \in Waiter |-> "ready"] /\ seen = [w \in Waiter |-> {}]
    /\ closed = FALSE /\ closePoolCn = FALSE
    /\ cpc = [c \in Closer |-> "ready"] /\ poolClosed = 0
    /\ panicked = "no"

\* A panic brings the program down.
Alive == panicked = "no"

Panic(what) ==
    /\ panicked' = what
    /\ UNCHANGED <<taskVars, groupVars, waitVars, closeVars>>

-----------------------------------------------------------------------------
(***************************************************************************)
(* Submissions and tasks.                                                  *)
(***************************************************************************)

\* The contract of WaitGroup.Add: an Add from zero happens before Wait.  A
\* task that submits holds the counter up itself until it is done.
MayAdd ==
    Disciplined => \/ \A w \in Waiter : wpc[w] \in {"ready", "returned"}
                   \/ \E u \in Task : tpc[u] = "queued"

\* wg.Add(1), before submit looks at the closed flag.
Add(t) ==
    /\ Alive
    /\ tpc[t] = "ready"
    /\ MayAdd
    /\ IF waiters > 0 /\ count = 0
       THEN Panic("misuse")
       ELSE /\ count' = count + 1
            /\ tpc' = [tpc EXCEPT ![t] = "added"]
            /\ UNCHANGED <<completed, waiters, permits, waitVars, closeVars, panicked>>

\* The rest of submit: a closed pool refuses, an open one may.
Decide(t) ==
    /\ Alive
    /\ tpc[t] = "added"
    /\ \/ tpc' = [tpc EXCEPT ![t] = "refused"]
       \/ ~closed /\ tpc' = [tpc EXCEPT ![t] = "queued"]
    /\ UNCHANGED <<completed, groupVars, waitVars, closeVars, panicked>>

Run(t) ==
    /\ Alive
    /\ tpc[t] = "queued"
    /\ completed' = completed \cup {t}
    /\ tpc' = [tpc EXCEPT ![t] = "ran"]
    /\ UNCHANGED <<groupVars, waitVars, closeVars, panicked>>

\* Mutant: done() is called when the task starts.
OwesDoneEarly(t) == tpc[t] \in {"refused", "queued", "ran"}

\* Mutant: a refused submission keeps its count.
OwesDoneUnlessRefused(t) == tpc[t] = "ran"

\* done() follows a refusal and a completed task.
OwesDone(t) == tpc[t] \in {"refused", "ran"}

Done(t) ==
    /\ Alive
    /\ OwesDone(t)
    /\ IF count = 0
       THEN Panic("negative")
       ELSE /\ count' = count - 1
            /\ tpc' = [tpc EXCEPT ![t] =
                          IF count' = 0 /\ waiters > 0 THEN "release" ELSE "settled"]
            /\ UNCHANGED <<completed, waiters, permits, waitVars, closeVars, panicked>>

\* The last Done wakes the waiters it has seen.
Release(t) ==
    /\ Alive
    /\ tpc[t] = "release"
    /\ IF count # 0
       THEN Panic("misuse")
       ELSE /\ permits' = permits + waiters
            /\ waiters' = 0
            /\ tpc' = [tpc EXCEPT ![t] = "settled"]
            /\ UNCHANGED <<completed, count, waitVars, closeVars, panicked>>

-----------------------------------------------------------------------------
(***************************************************************************)
(* Wait.                                                                   *)
(***************************************************************************)
Accepted == {t \in Task : tpc[t] = "queued"} \cup completed

Wait(w) ==
    /\ Alive
    /\ wpc[w] = "ready"
    /\ seen' = [seen EXCEPT ![w] = Accepted]
    /\ \/ count = 0 /\ wpc' = [wpc EXCEPT ![w] = "returned"] /\ UNCHANGED waiters
       \/ count > 0 /\ wpc' = [wpc EXCEPT ![w] = "asleep"] /\ waiters' = waiters + 1
    /\ UNCHANGED <<taskVars, count, permits, closeVars, panicked>>

Wake(w) ==
    /\ Alive
    /\ wpc[w] = "asleep"
    /\ permits > 0
    /\ permits' = permits - 1
    /\ wpc' = [wpc EXCEPT ![w] = "woken"]
    /\ UNCHANGED <<taskVars, count, waiters, seen, closeVars, panicked>>

WaitReturn(w) ==
    /\ Alive
    /\ wpc[w] = "woken"
    /\ IF count # 0 \/ waiters # 0
       THEN Panic("reused")
       ELSE /\ wpc' = [wpc EXCEPT ![w] = "returned"]
            /\ UNCHANGED <<taskVars, groupVars, seen, closeVars, panicked>>

-----------------------------------------------------------------------------
(***************************************************************************)
(* Close.  The winner withdraws the default pool (DefaultPool) and closes  *)
(* the overflow buffer (AgilePool), then closePoolCn, and fires the hook.  *)
(***************************************************************************)

\* Mutant: the flag is set without looking at it.
WinsCloseAlways == TRUE

\* The compare-and-swap of the closed flag.
WinsClose == ~closed

\* Mutant: the hook comes before the channel is closed.
AfterWinHook == "hook"

AfterWin == "close"

CloseBegin(c) ==
    /\ Alive
    /\ cpc[c] = "ready"
    /\ closed' = TRUE
    /\ cpc' = [cpc EXCEPT ![c] = IF WinsClose THEN AfterWin ELSE "returned"]
    /\ UNCHANGED <<taskVars, groupVars, waitVars, closePoolCn, poolClosed, panicked>>

CloseChannel(c) ==
    /\ Alive
    /\ cpc[c] = "close"
    /\ IF closePoolCn
       THEN Panic("reclosed")
       ELSE /\ closePoolCn' = TRUE
            /\ cpc' = [cpc EXCEPT ![c] = "hook"]
            /\ UNCHANGED <<taskVars, groupVars, waitVars, closed, poolClosed, panicked>>

CloseHook(c) ==
    /\ Alive
    /\ cpc[c] = "hook"
    /\ poolClosed' = poolClosed + 1
    /\ cpc' = [cpc EXCEPT ![c] = "returned"]
    /\ UNCHANGED <<taskVars, groupVars, waitVars, closed, closePoolCn, panicked>>

-----------------------------------------------------------------------------
TaskStep(t) == Decide(t) \/ Run(t) \/ Done(t) \/ Release(t)

WaitStep(w) == Wake(w) \/ WaitReturn(w)

CloseStep(c) == CloseChannel(c) \/ CloseHook(c)

Next ==
    \/ \E t \in Task : Add(t) \/ TaskStep(t)
    \/ \E w \in Waiter : Wait(w) \/ WaitStep(w)
    \/ \E c \in Closer : CloseBegin(c) \/ CloseStep(c)

Spec == Init /\ [][Next]_vars

\* Goroutines are scheduled and accepted tasks run (AgilePool,
\* EverySubmissionSettles).  Nobody has to submit, wait or close.
Fairness ==
    /\ \A t \in Task : WF_vars(TaskStep(t))
    /\ \A w \in Waiter : WF_vars(WaitStep(w))
    /\ \A c \in Closer : WF_vars(CloseStep(c))

FairSpec == Spec /\ Fairness

-----------------------------------------------------------------------------
\* "Wait blocks until every accepted task has completed" (pool.go:722): a
\* Wait that has returned left none of the tasks behind that had been accepted
\* when it was called, whoever was submitting or waiting at the same time.
WaitDrains ==
    \A w \in Waiter : wpc[w] = "returned" => seen[w] \subseteq completed

\* Wait, Close and submit may be called concurrently: the WaitGroup does not
\* panic, and racing calls of Close do not close the channel twice.
NeverPanics == panicked = "no"

\* However many calls of Close race, the PoolClosed hook fires for exactly one
\* of them, and not before closePoolCn is closed.
PoolClosedOnce ==
    /\ poolClosed <= 1
    /\ poolClosed = 1 => closePoolCn
    /\ (\E c \in Closer : cpc[c] = "returned") /\ poolClosed = 0
          => \E c \in Closer : cpc[c] \in {"close", "hook"}

\* "Wait() returns once all in-flight tasks are done" (pool.go:704), before and
\* after Close: no waiter is left asleep.
EveryWaitReturns == \A w \in Waiter : wpc[w] = "asleep" ~> wpc[w] = "returned"
=============================================================================
