------------------------------ MODULE TaskLife ------------------------------
(***************************************************************************)
(* A task from SubmitCtx to done(): the submitting goroutine and the       *)
(* worker in runTask, the hooks they dispatch, the retries, panics and     *)
(* exits of the task, and the Context the two goroutines share.  The       *)
(* program's hooks record the timing of a Context that asks for it, and    *)
(* the Enqueued hook and the task ask for its trace id.  The queues        *)
(* between the two goroutines are AgilePool's business.                    *)
(***************************************************************************)
EXTENDS PoolContext, Retry

CONSTANTS
    Task,
    NoCtx

ASSUME TaskLifeAssumption ==
    NoCtx \notin Ctx /\ NoValue \notin [by : Task] \cup [by : Task, at : Nat]

VARIABLES
    spc,            \* where the submitter of each task is
    wpc,            \* where the worker of each task is
    ctxOf,          \* the Context of the task
    asked,          \* the task was submitted with EnableTiming
    tries,          \* how often the task has been tried
    result,         \* what the last try came to
    recovered,      \* the panic that runTask has recovered
    completions,    \* how often the Completed hook was dispatched ...
    reported,       \* ... and the panic value it was given
    dones,          \* how often done() was called
    answer          \* what TraceID told the submitter and the worker

runVars  == <<tries, result, recovered, completions, reported, dones>>
lifeVars == <<spc, wpc, ctxOf, asked, runVars, answer, contextVars>>

Side == {"submitter", "worker"}

LifeInit ==
    /\ spc = [t \in Task |-> "ready"] /\ wpc = [t \in Task |-> "none"]
    /\ ctxOf = [t \in Task |-> NoCtx] /\ asked = [t \in Task |-> FALSE]
    /\ tries = [t \in Task |-> 0] /\ result = [t \in Task |-> "none"]
    /\ recovered = [t \in Task |-> FALSE] /\ reported = [t \in Task |-> FALSE]
    /\ completions = [t \in Task |-> 0] /\ dones = [t \in Task |-> 0]
    /\ answer = [t \in Task |-> [s \in Side |-> NoValue]]
    /\ ContextInit

SubmitterGoes(t, to) == spc' = [spc EXCEPT ![t] = to]

WorkerGoes(t, to) == wpc' = [wpc EXCEPT ![t] = to]

\* A dispatched hook records the stage, if the Context asks for it; or it panics
\* before it does, which dispatchHook absorbs.
DispatchHook(t, stage) ==
    LET c    == ctxOf[t]
        past == {s \in Stage : labels[c][s] # NoValue}
    IN  \/ IsTimingEnabled(c) /\ labels' = Store(c, stage, [by |-> t, at |-> Cardinality(past)])
        \/ UNCHANGED labels

\* The two critical sections of TraceID, called by one side of the task: the
\* call returns, or goes on to generate an id; the source of randomness may
\* fail.
TraceCheck(t, side, returns, generates) ==
    LET id == labels[ctxOf[t]]["trace_id"]
    IN  IF id # NoValue
        THEN answer' = [answer EXCEPT ![t][side] = id] /\ returns
        ELSE generates /\ UNCHANGED answer

TraceStore(t, side) ==
    LET id == StoredID(ctxOf[t], [by |-> t, side |-> side])
    IN  \/ /\ answer' = [answer EXCEPT ![t][side] = id]
           /\ labels' = Store(ctxOf[t], "trace_id", id)
        \/ UNCHANGED <<answer, labels>>

-----------------------------------------------------------------------------
(***************************************************************************)
(* The submitter.                                                          *)
(***************************************************************************)
Begin(t, c, timing) ==
    /\ spc[t] = "ready"
    /\ NewContext(c, [l \in IF timing THEN {"timing"} ELSE {} |-> [by |-> t]])
    /\ ctxOf' = [ctxOf EXCEPT ![t] = c]
    /\ asked' = [asked EXCEPT ![t] = timing]
    /\ SubmitterGoes(t, "submit")
    /\ UNCHANGED <<wpc, runVars, answer>>

\* The pool is closed or the context done before any hook; or the hook runs.
Submitted(t) ==
    /\ spc[t] = "submit"
    /\ \/ UNCHANGED labels /\ SubmitterGoes(t, "returned")
       \/ DispatchHook(t, "submitted") /\ SubmitterGoes(t, "enqueue")
    /\ UNCHANGED <<wpc, ctxOf, asked, runVars, answer, leased>>

\* A queue takes the task, or the submission is turned away.
Enqueue(t) ==
    /\ spc[t] = "enqueue"
    /\ \/ SubmitterGoes(t, "enqueued") /\ WorkerGoes(t, "queued")
       \/ SubmitterGoes(t, "returned") /\ UNCHANGED wpc
    /\ UNCHANGED <<ctxOf, asked, runVars, answer, contextVars>>

\* The worker may be anywhere in runTask by now.
Enqueued(t) ==
    /\ spc[t] = "enqueued"
    /\ DispatchHook(t, "enqueued")
    /\ SubmitterGoes(t, "trace")
    /\ UNCHANGED <<wpc, ctxOf, asked, runVars, answer, leased>>

SubmitterTraces(t) ==
    /\ \/ /\ spc[t] = "trace"
          /\ TraceCheck(t, "submitter", SubmitterGoes(t, "returned"), SubmitterGoes(t, "generate"))
          /\ UNCHANGED labels
       \/ /\ spc[t] = "generate"
          /\ TraceStore(t, "submitter") /\ SubmitterGoes(t, "returned")
    /\ UNCHANGED <<wpc, ctxOf, asked, runVars, leased>>

\* The program releases the Context when it has seen the task finish and its
\* own call of SubmitCtx return.
ReleaseContext(t) ==
    /\ spc[t] = "returned"
    /\ wpc[t] \in {"none", "done"}
    /\ Release(ctxOf[t])
    /\ ctxOf' = [ctxOf EXCEPT ![t] = NoCtx]
    /\ SubmitterGoes(t, "released")
    /\ UNCHANGED <<wpc, asked, runVars, answer>>

-----------------------------------------------------------------------------
(***************************************************************************)
(* The worker: runTask.                                                    *)
(***************************************************************************)
Started(t) ==
    /\ wpc[t] = "queued"
    /\ DispatchHook(t, "started")
    /\ WorkerGoes(t, "trace")
    /\ UNCHANGED <<spc, ctxOf, asked, runVars, answer, leased>>

WorkerTraces(t) ==
    /\ \/ /\ wpc[t] = "trace"
          /\ TraceCheck(t, "worker", WorkerGoes(t, "process"), WorkerGoes(t, "generate"))
          /\ UNCHANGED labels
       \/ /\ wpc[t] = "generate"
          /\ TraceStore(t, "worker") /\ WorkerGoes(t, "process")
    /\ UNCHANGED <<spc, ctxOf, asked, runVars, leased>>

\* contextTask.process finds its context expired.
Skip(t) ==
    /\ wpc[t] = "process" /\ tries[t] = 0
    /\ result' = [result EXCEPT ![t] = "skipped"]
    /\ WorkerGoes(t, "complete")
    /\ UNCHANGED <<spc, ctxOf, asked, tries, recovered, completions, reported, dones,
                   answer, contextVars>>

\* A try returns, fails, panics, or ends the goroutine (runtime.Goexit).
Try(t, outcome) ==
    /\ wpc[t] = "process"
    /\ tries' = [tries EXCEPT ![t] = @ + 1]
    /\ result' = [result EXCEPT ![t] = outcome]
    /\ recovered' = [recovered EXCEPT ![t] = outcome = "panic"]
    /\ WorkerGoes(t, CASE outcome = "error" /\ RetriesAgain(tries'[t]) -> "sleep"
                       [] outcome = "panic" -> "handle"
                       [] OTHER -> "complete")
    /\ UNCHANGED <<spc, ctxOf, asked, completions, reported, dones, answer, contextVars>>

BackOff(t) ==
    /\ wpc[t] = "sleep"
    /\ WorkerGoes(t, "process")
    /\ UNCHANGED <<spc, ctxOf, asked, runVars, answer, contextVars>>

\* Mutant: a panic of the handler leaves the deferred function.
AfterHandlerUnguarded(panics) == IF panics THEN "finish" ELSE "complete"

\* handlePanic absorbs a panic of the configured handler.
AfterHandler(panics) == "complete"

HandlePanic(t) ==
    /\ wpc[t] = "handle"
    /\ \E panics \in BOOLEAN : WorkerGoes(t, AfterHandler(panics))
    /\ UNCHANGED <<spc, ctxOf, asked, runVars, answer, contextVars>>

Completed(t) ==
    /\ wpc[t] = "complete"
    /\ DispatchHook(t, "completed")
    /\ completions' = [completions EXCEPT ![t] = @ + 1]
    /\ reported' = [reported EXCEPT ![t] = recovered[t]]
    /\ WorkerGoes(t, "finish")
    /\ UNCHANGED <<spc, ctxOf, asked, tries, result, recovered, dones, answer, leased>>

Done(t) ==
    /\ wpc[t] = "finish"
    /\ dones' = [dones EXCEPT ![t] = @ + 1]
    /\ WorkerGoes(t, "done")
    /\ UNCHANGED <<spc, ctxOf, asked, tries, result, recovered, completions, reported,
                   answer, contextVars>>

-----------------------------------------------------------------------------
LifeNext ==
    \E t \in Task :
        \/ \E c \in Ctx, timing \in BOOLEAN : Begin(t, c, timing)
        \/ Submitted(t) \/ Enqueue(t) \/ Enqueued(t) \/ SubmitterTraces(t)
        \/ ReleaseContext(t)
        \/ Started(t) \/ WorkerTraces(t) \/ Skip(t)
        \/ \E outcome \in {"ok", "error", "panic", "exit"} : Try(t, outcome)
        \/ BackOff(t) \/ HandlePanic(t) \/ Completed(t) \/ Done(t)

LifeSpec == LifeInit /\ [][LifeNext]_lifeVars

-----------------------------------------------------------------------------
\* "Balance the submit-side wg.Add exactly once per task" (worker.go:108): when
\* a task is done, done() was called once and the Completed hook dispatched
\* once, with the value the task panicked with, if it did; whether the task
\* returned, gave up, was skipped, panicked or ended its goroutine, and
\* whatever the panic handler did.  A task that was turned away has neither.
AccountedOnce ==
    \A t \in Task :
        /\ wpc[t] = "done" =>
              /\ completions[t] = 1 /\ dones[t] = 1
              /\ reported[t] = (result[t] = "panic")
        /\ wpc[t] # "done" => dones[t] = 0

\* "TaskWithRetry runs Task up to RetryNum additional times [...] whenever it
\* returns an error" (task.go:27): a task is done when a try did not fail, or
\* after RetryNum additional tries, and a failure is what every other try was.
RetriesAsPromised ==
    \A t \in Task :
        /\ tries[t] <= RetryNum + 1
        /\ wpc[t] = "done" /\ result[t] = "error" => tries[t] = RetryNum + 1
        /\ wpc[t] \in {"sleep", "process"} /\ tries[t] > 0 => result[t] = "error"

\* "another goroutine may have set it while we were generating" (context.go:
\* 236): the submitter and the worker of a task are told the same trace id.
OneTraceID ==
    \A t \in Task :
        \A s, u \in Side : NoValue \notin {answer[t][s], answer[t][u]}
                              => answer[t][s] = answer[t][u]

\* A recycled Context starts afresh: every label of a Context in use was stored
\* by the task that uses it, and timing is on if that task asked for it.
LabelsStayHome ==
    \A t \in Task : ctxOf[t] # NoCtx =>
        /\ \A l \in Label : labels[ctxOf[t]][l] # NoValue => labels[ctxOf[t]][l].by = t
        /\ IsTimingEnabled(ctxOf[t]) = asked[t]

\* The latencies of a Context measure what they are named for, although the
\* two goroutines record their stages independently: none of these is negative.
\* (QueueWaitLatency may be: Enqueued can come after Started.)
LatenciesAreOrdered ==
    \A c \in Ctx :
        /\ TotalLatency(c) >= 0 /\ QueueLatency(c) >= 0
        /\ ExecLatency(c) >= 0 /\ HandoffLatency(c) >= 0
=============================================================================
