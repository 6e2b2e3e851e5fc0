--------------------------- MODULE TaskLifeProofs ---------------------------
(***************************************************************************)
(* The life of tasks and Contexts for any number of either and any number  *)
(* of retries.                                                             *)
(***************************************************************************)
EXTENDS TaskLife, FiniteSetTheorems, TLAPS

SubmitterAt ==
    {"ready", "submit", "enqueue", "enqueued", "trace", "generate", "returned", "released"}

WorkerAt ==
    {"none", "queued", "trace", "generate", "process", "sleep", "handle", "complete",
     "finish", "done"}

LifeTypeOK ==
    /\ spc \in [Task -> SubmitterAt] /\ wpc \in [Task -> WorkerAt]
    /\ ctxOf \in [Task -> Ctx \cup {NoCtx}] /\ asked \in [Task -> BOOLEAN]
    /\ tries \in [Task -> Nat]
    /\ result \in [Task -> {"none", "skipped", "ok", "error", "panic", "exit"}]
    /\ recovered \in [Task -> BOOLEAN] /\ reported \in [Task -> BOOLEAN]
    /\ completions \in [Task -> Nat] /\ dones \in [Task -> Nat]

-----------------------------------------------------------------------------
(***************************************************************************)
(* Tries, hooks and done().                                                *)
(***************************************************************************)

\* What the worker's place in runTask says of the task.
RunInv ==
    \A t \in Task :
        /\ tries[t] <= RetryNum + 1
        /\ wpc[t] \in {"none", "queued", "trace", "generate"} => tries[t] = 0
        /\ wpc[t] \in {"process", "sleep"} => tries[t] <= RetryNum
        /\ wpc[t] \in {"process", "sleep"} /\ tries[t] > 0 => result[t] = "error"
        /\ wpc[t] \in {"none", "queued", "trace", "generate", "process", "sleep"}
              => result[t] # "panic"
        /\ wpc[t] = "handle" => result[t] = "panic"
        /\ wpc[t] \in {"complete", "finish", "done"} /\ result[t] = "error"
              => tries[t] = RetryNum + 1
        /\ recovered[t] <=> result[t] = "panic"
        /\ completions[t] = IF wpc[t] \in {"finish", "done"} THEN 1 ELSE 0
        /\ dones[t] = IF wpc[t] = "done" THEN 1 ELSE 0
        /\ wpc[t] \in {"finish", "done"} => (reported[t] <=> recovered[t])

\* A task reaches a worker by way of its submission, and keeps its Context
\* until both sides have finished with it.
PlaceInv ==
    \A t \in Task :
        /\ wpc[t] # "none" => spc[t] \in {"enqueued", "trace", "generate", "returned",
                                          "released"}
        /\ spc[t] = "released" => wpc[t] \in {"none", "done"}
        /\ ctxOf[t] = NoCtx <=> spc[t] \in {"ready", "released"}

LEMMA LifeTypeStep ==
    ASSUME LifeTypeOK, [LifeNext]_lifeVars
    PROVE  LifeTypeOK'
<1> USE DEF LifeTypeOK, SubmitterAt, WorkerAt, SubmitterGoes, WorkerGoes, runVars
<1>1. ASSUME NEW t \in Task, NEW c \in Ctx, NEW timing \in BOOLEAN, Begin(t, c, timing)
      PROVE  LifeTypeOK'
  BY <1>1 DEF Begin
<1>2. ASSUME NEW t \in Task, Submitted(t) PROVE LifeTypeOK'
  BY <1>2 DEF Submitted
<1>3. ASSUME NEW t \in Task, Enqueue(t) PROVE LifeTypeOK'
  BY <1>3 DEF Enqueue
<1>4. ASSUME NEW t \in Task, Enqueued(t) PROVE LifeTypeOK'
  BY <1>4 DEF Enqueued
<1>5. ASSUME NEW t \in Task, SubmitterTraces(t) PROVE LifeTypeOK'
  BY <1>5 DEF SubmitterTraces, TraceCheck, TraceStore
<1>6. ASSUME NEW t \in Task, ReleaseContext(t) PROVE LifeTypeOK'
  BY <1>6 DEF ReleaseContext
<1>7. ASSUME NEW t \in Task, Started(t) PROVE LifeTypeOK'
  BY <1>7 DEF Started
<1>8. ASSUME NEW t \in Task, WorkerTraces(t) PROVE LifeTypeOK'
  BY <1>8 DEF WorkerTraces, TraceCheck, TraceStore
<1>9. ASSUME NEW t \in Task, Skip(t) PROVE LifeTypeOK'
  BY <1>9 DEF Skip
<1>10. ASSUME NEW t \in Task, NEW outcome \in {"ok", "error", "panic", "exit"}, Try(t, outcome)
       PROVE  LifeTypeOK'
  BY <1>10 DEF Try
<1>11. ASSUME NEW t \in Task, BackOff(t) PROVE LifeTypeOK'
  BY <1>11 DEF BackOff
<1>12. ASSUME NEW t \in Task, HandlePanic(t) PROVE LifeTypeOK'
  BY <1>12 DEF HandlePanic, AfterHandler
<1>13. ASSUME NEW t \in Task, Completed(t) PROVE LifeTypeOK'
  BY <1>13 DEF Completed
<1>14. ASSUME NEW t \in Task, Done(t) PROVE LifeTypeOK'
  BY <1>14 DEF Done
<1>15. CASE UNCHANGED lifeVars
  BY <1>15 DEF lifeVars
<1> QED
  BY Zenon, <1>1, <1>2, <1>3, <1>4, <1>5, <1>6, <1>7, <1>8, <1>9, <1>10, <1>11, <1>12, <1>13,
     <1>14, <1>15 DEF LifeNext

LEMMA PlaceStep ==
    ASSUME LifeTypeOK, PlaceInv, [LifeNext]_lifeVars
    PROVE  PlaceInv'
<1> USE TaskLifeAssumption DEF LifeTypeOK, SubmitterAt, WorkerAt, PlaceInv, SubmitterGoes,
        WorkerGoes
<1>1. ASSUME NEW t \in Task, NEW c \in Ctx, NEW timing \in BOOLEAN, Begin(t, c, timing)
      PROVE  PlaceInv'
  BY <1>1 DEF Begin
<1>2. ASSUME NEW t \in Task, Submitted(t) \/ Enqueued(t) PROVE PlaceInv'
  BY <1>2 DEF Submitted, Enqueued
<1>3. ASSUME NEW t \in Task, Enqueue(t) PROVE PlaceInv'
  BY <1>3 DEF Enqueue
<1>4. ASSUME NEW t \in Task, SubmitterTraces(t) PROVE PlaceInv'
  BY <1>4 DEF SubmitterTraces, TraceCheck, TraceStore
<1>5. ASSUME NEW t \in Task, ReleaseContext(t) PROVE PlaceInv'
  BY <1>5 DEF ReleaseContext
<1>6. ASSUME NEW t \in Task, wpc[t] \notin {"none", "done"}, UNCHANGED <<spc, ctxOf>>,
             NEW to \in WorkerAt, wpc' = [wpc EXCEPT ![t] = to]
      PROVE  PlaceInv'
  BY <1>6
<1>7. ASSUME NEW t \in Task, Started(t) \/ BackOff(t) PROVE PlaceInv'
  BY <1>6, <1>7 DEF Started, BackOff
<1>8. ASSUME NEW t \in Task, WorkerTraces(t) PROVE PlaceInv'
  BY <1>6, <1>8 DEF WorkerTraces, TraceCheck, TraceStore
<1>9. ASSUME NEW t \in Task, Skip(t) \/ HandlePanic(t) PROVE PlaceInv'
  BY SMTT(30), <1>6, <1>9 DEF Skip, HandlePanic, AfterHandler
<1>10. ASSUME NEW t \in Task, NEW outcome \in {"ok", "error", "panic", "exit"}, Try(t, outcome)
       PROVE  PlaceInv'
  BY ZenonT(60), <1>6, <1>10 DEF Try
<1>11. ASSUME NEW t \in Task, Completed(t) \/ Done(t) PROVE PlaceInv'
  BY <1>6, <1>11 DEF Completed, Done
<1>12. CASE UNCHANGED lifeVars
  BY <1>12 DEF lifeVars
<1> HIDE DEF PlaceInv, LifeTypeOK
<1> QED
  BY Zenon, <1>1, <1>2, <1>3, <1>4, <1>5, <1>7, <1>8, <1>9, <1>10, <1>11, <1>12 DEF LifeNext

LEMMA RunStep ==
    ASSUME LifeTypeOK, PlaceInv, RunInv, [LifeNext]_lifeVars
    PROVE  RunInv'
<1> USE RetryAssumption DEF LifeTypeOK, WorkerAt, RunInv, WorkerGoes
<1>1. ASSUME NEW t \in Task,
             UNCHANGED runVars,
             wpc' = [wpc EXCEPT ![t] = CASE wpc[t] = "none" -> "queued"
                                         [] wpc[t] = "queued" -> "trace"
                                         [] wpc[t] = "sleep" -> "process"
                                         [] wpc[t] = "handle" -> "complete"
                                         [] OTHER -> wpc[t]]
      PROVE  RunInv'
  BY <1>1 DEF runVars
<1>2. ASSUME UNCHANGED <<wpc, runVars>> PROVE RunInv'
  BY Zenon, <1>2 DEF runVars
<1>3. ASSUME NEW t \in Task, WorkerTraces(t) PROVE RunInv'
  <2>1. /\ UNCHANGED runVars /\ wpc[t] \in {"trace", "generate"}
        /\ \/ wpc' = [wpc EXCEPT ![t] = "generate"]
           \/ wpc' = [wpc EXCEPT ![t] = "process"]
    BY <1>3 DEF WorkerTraces, TraceCheck, TraceStore
  <2> QED
    BY <2>1 DEF runVars
<1>4. ASSUME NEW t \in Task, Skip(t) PROVE RunInv'
  BY <1>4 DEF Skip
<1>5. ASSUME NEW t \in Task, NEW outcome \in {"ok", "error", "panic", "exit"}, Try(t, outcome)
      PROVE  RunInv'
  <2>1. /\ wpc[t] = "process"
        /\ tries' = [tries EXCEPT ![t] = tries[t] + 1]
        /\ result' = [result EXCEPT ![t] = outcome]
        /\ recovered' = [recovered EXCEPT ![t] = outcome = "panic"]
        /\ UNCHANGED <<completions, reported, dones>>
    BY <1>5 DEF Try
  <2>2. CASE outcome = "error" /\ tries[t] + 1 <= RetryNum
    <3>1. wpc' = [wpc EXCEPT ![t] = "sleep"]
      BY <1>5, <2>1, <2>2 DEF Try, RetriesAgain
    <3> QED
      BY <2>1, <2>2, <3>1
  <2>3. CASE outcome = "error" /\ ~(tries[t] + 1 <= RetryNum)
    <3>1. wpc' = [wpc EXCEPT ![t] = "complete"]
      BY <1>5, <2>1, <2>3 DEF Try, RetriesAgain
    <3> QED
      BY <2>1, <2>3, <3>1
  <2>4. CASE outcome = "panic"
    <3>1. wpc' = [wpc EXCEPT ![t] = "handle"]
      BY <1>5, <2>4 DEF Try
    <3>2. recovered' = [recovered EXCEPT ![t] = TRUE]
      BY Zenon, <2>1, <2>4
    <3> QED
      BY <2>1, <2>4, <3>1, <3>2
  <2>5. CASE outcome \in {"ok", "exit"}
    <3>1. wpc' = [wpc EXCEPT ![t] = "complete"]
      BY ZenonT(60), <1>5, <2>5 DEF Try
    <3> QED
      BY <2>1, <2>5, <3>1
  <2> QED
    BY <2>2, <2>3, <2>4, <2>5
<1>6. ASSUME NEW t \in Task, Completed(t) PROVE RunInv'
  BY <1>6 DEF Completed
<1>7. ASSUME NEW t \in Task, Done(t) PROVE RunInv'
  BY <1>7 DEF Done
<1>8. ASSUME NEW t \in Task, Started(t) \/ BackOff(t) \/ HandlePanic(t) PROVE RunInv'
  BY <1>8, <1>1 DEF Started, BackOff, HandlePanic, AfterHandler
<1>9. ASSUME NEW t \in Task, Enqueue(t) PROVE RunInv'
  BY <1>9, <1>1, <1>2 DEF Enqueue, PlaceInv
<1>10. ASSUME NEW t \in Task, Submitted(t) \/ Enqueued(t) \/ SubmitterTraces(t)
                                \/ ReleaseContext(t)
       PROVE  UNCHANGED <<wpc, runVars>>
  BY <1>10 DEF Submitted, Enqueued, SubmitterTraces, ReleaseContext
<1>11. ASSUME NEW t \in Task, NEW c \in Ctx, NEW timing \in BOOLEAN, Begin(t, c, timing)
       PROVE  UNCHANGED <<wpc, runVars>>
  BY <1>11 DEF Begin
<1>12. CASE UNCHANGED lifeVars
  BY Zenon, <1>2, <1>12 DEF lifeVars
<1> HIDE DEF RunInv, LifeTypeOK
<1> QED
  BY Zenon, <1>2, <1>3, <1>4, <1>5, <1>6, <1>7, <1>8, <1>9, <1>10, <1>11, <1>12 DEF LifeNext

\* What the last two sections add up to.
LifeInv == LifeTypeOK /\ PlaceInv /\ RunInv

LEMMA LifeInvHolds == LifeSpec => []LifeInv
<1>1. LifeInit => LifeInv
  <2> SUFFICES ASSUME LifeInit PROVE LifeInv
    OBVIOUS
  <2>1. /\ asked \in [Task -> BOOLEAN] /\ recovered \in [Task -> BOOLEAN]
        /\ reported \in [Task -> BOOLEAN]
    BY Zenon DEF LifeInit
  <2>2. LifeTypeOK
    BY <2>1 DEF LifeInit, LifeTypeOK, SubmitterAt, WorkerAt
  <2>3. PlaceInv
    BY DEF LifeInit, PlaceInv
  <2>4. RunInv
    BY RetryAssumption DEF LifeInit, RunInv
  <2> QED
    BY <2>2, <2>3, <2>4 DEF LifeInv
<1>2. LifeInv /\ [LifeNext]_lifeVars => LifeInv'
  BY LifeTypeStep, PlaceStep, RunStep DEF LifeInv
<1> QED
  BY <1>1, <1>2, PTL DEF LifeSpec

\* done() and the Completed hook come exactly once per accepted task and never
\* for a rejected one, with the panic of the task if there was one, however the
\* task ends and whatever its panic handler does.
THEOREM TasksAreAccountedOnce == LifeSpec => []AccountedOnce
<1>1. LifeInv => AccountedOnce
  BY DEF LifeInv, LifeTypeOK, RunInv, AccountedOnce
<1> QED
  BY <1>1, LifeInvHolds, PTL

\* A failing task is tried RetryNum additional times and no more, for every
\* RetryNum.
THEOREM RetriesArePromised == LifeSpec => []RetriesAsPromised
<1>1. LifeInv => RetriesAsPromised
  BY DEF LifeInv, RunInv, RetriesAsPromised
<1> QED
  BY <1>1, LifeInvHolds, PTL

-----------------------------------------------------------------------------
(***************************************************************************)
(* Contexts and their labels.                                              *)
(***************************************************************************)
LabelValue ==
    {NoValue} \cup [by : Task] \cup [by : Task, at : Nat] \cup [by : Task, side : Side]

\* A Context is leased to one task at a time and blank in between.
CtxInv ==
    /\ labels \in [Ctx -> [Label -> LabelValue]]
    /\ \A t \in Task : ctxOf[t] # NoCtx => ctxOf[t] \in leased
    /\ \A t, u \in Task : ctxOf[t] # NoCtx /\ ctxOf[t] = ctxOf[u] => t = u
    /\ \A c \in Ctx \ leased : labels[c] = Blank
    /\ LabelsStayHome

\* What a step may do to the labels in the course of a task.
Stores(t, l, v) ==
    /\ ctxOf[t] # NoCtx
    /\ labels' = Store(ctxOf[t], l, v)
    /\ v \in LabelValue /\ (v # NoValue => v.by = t)

LEMMA StoreStep ==
    ASSUME LifeTypeOK, CtxInv, NEW t \in Task, NEW l \in Label \ {"timing"}, NEW v,
           Stores(t, l, v), UNCHANGED <<ctxOf, asked, leased>>
    PROVE  CtxInv'
<1> USE TaskLifeAssumption DEF LifeTypeOK, CtxInv, Stores, Store
<1> DEFINE c == ctxOf[t]
<1>1. c \in Ctx /\ c \in leased
  OBVIOUS
<1>2. labels' = [labels EXCEPT ![c] = [labels[c] EXCEPT ![l] = v]]
  OBVIOUS
<1>3. labels' \in [Ctx -> [Label -> LabelValue]]
  BY <1>1, <1>2
<1>4. \A d \in Ctx \ leased' : labels'[d] = Blank'
  BY <1>1, <1>2 DEF Blank
<1>5. \A d \in Ctx : labels'[d]["timing"] = labels[d]["timing"]
  BY <1>1, <1>2 DEF Label
<1>6. \A u \in Task : ctxOf[u] # NoCtx => IsTimingEnabled(ctxOf[u])' = asked'[u]
  BY <1>5 DEF IsTimingEnabled, LabelsStayHome
<1>7. \A u \in Task : ctxOf[u] # NoCtx =>
          \A k \in Label : labels'[ctxOf[u]][k] # NoValue => labels'[ctxOf[u]][k].by = u
  BY <1>1, <1>2 DEF LabelsStayHome
<1>8. LabelsStayHome'
  BY <1>6, <1>7 DEF LabelsStayHome, IsTimingEnabled
<1> QED
  BY <1>3, <1>4, <1>8

\* The stages a Context has recorded.
Past(c) == {s \in Stage : labels[c][s] # NoValue}

LEMMA PastFinite ==
    ASSUME NEW c
    PROVE  IsFiniteSet(Past(c)) /\ Cardinality(Past(c)) \in Nat
<1>1. IsFiniteSet({"submitted"})
  BY FS_Singleton
<1>2. IsFiniteSet({"submitted"} \cup {"enqueued"})
  BY <1>1, FS_AddElement
<1>3. IsFiniteSet({"submitted"} \cup {"enqueued"} \cup {"started"})
  BY <1>2, FS_AddElement
<1>4. IsFiniteSet({"submitted"} \cup {"enqueued"} \cup {"started"} \cup {"completed"})
  BY <1>3, FS_AddElement
<1>5. Past(c) \subseteq {"submitted"} \cup {"enqueued"} \cup {"started"} \cup {"completed"}
  BY DEF Past, Stage
<1> QED
  BY <1>4, <1>5, FS_Subset, FS_CardinalityType

\* A hook records its stage as the task's, or changes nothing.
LEMMA HookStores ==
    ASSUME LifeTypeOK, CtxInv, NEW t \in Task, ctxOf[t] # NoCtx, NEW stage \in Stage,
           DispatchHook(t, stage)
    PROVE  \/ UNCHANGED labels
           \/ Stores(t, stage, [by |-> t, at |-> Cardinality(Past(ctxOf[t]))])
<1>1. Cardinality(Past(ctxOf[t])) \in Nat
  BY PastFinite
<1>2. [by |-> t, at |-> Cardinality(Past(ctxOf[t]))] \in [by : Task, at : Nat]
  BY <1>1
<1> QED
  BY <1>2 DEF DispatchHook, Stores, LabelValue, Past

\* The second half of TraceID stores an id of the task.
LEMMA TraceStores ==
    ASSUME LifeTypeOK, CtxInv, NEW t \in Task, ctxOf[t] # NoCtx, NEW side \in Side,
           NEW id, id = StoredID(ctxOf[t], [by |-> t, side |-> side]),
           labels' = Store(ctxOf[t], "trace_id", id)
    PROVE  Stores(t, "trace_id", id)
<1>1. [by |-> t, side |-> side] \in [by : Task, side : Side]
  OBVIOUS
<1>2. CASE labels[ctxOf[t]]["trace_id"] = NoValue
  BY <1>1, <1>2 DEF StoredID, Stores, LabelValue
<1>3. CASE labels[ctxOf[t]]["trace_id"] # NoValue
  <2>1. id = labels[ctxOf[t]]["trace_id"]
    BY <1>3 DEF StoredID
  <2>2. ctxOf[t] \in Ctx /\ "trace_id" \in Label
    BY DEF LifeTypeOK, Label
  <2>3. id \in LabelValue /\ id.by = t
    BY <1>3, <2>1, <2>2 DEF CtxInv, LabelsStayHome
  <2> QED
    BY <2>3 DEF Stores
<1> QED
  BY <1>2, <1>3

LEMMA BeginCtx ==
    ASSUME LifeTypeOK, PlaceInv, CtxInv,
           NEW t \in Task, NEW c \in Ctx, NEW timing \in BOOLEAN, Begin(t, c, timing)
    PROVE  CtxInv' /\ \A l \in Label \ {"timing"} : labels'[c][l] = NoValue
<1> DEFINE own == [l \in IF timing THEN {"timing"} ELSE {} |-> [by |-> t]]
           new == [l \in Label |-> IF l \in DOMAIN own THEN own[l] ELSE labels[c][l]]
<1>1. /\ c \notin leased /\ leased' = leased \cup {c}
      /\ labels' = [labels EXCEPT ![c] = new]
      /\ ctxOf' = [ctxOf EXCEPT ![t] = c] /\ asked' = [asked EXCEPT ![t] = timing]
  BY DEF Begin, NewContext
<1>2. [by |-> t] \in LabelValue /\ [by |-> t] # NoValue /\ [by |-> t].by = t
  <2>1. [by |-> t] \in [by : Task]
    OBVIOUS
  <2> QED
    BY <2>1, TaskLifeAssumption DEF LabelValue
<1>3. labels[c] = Blank
  BY <1>1 DEF CtxInv
<1>4. /\ new \in [Label -> LabelValue]
      /\ \A l \in Label \ {"timing"} : new[l] = NoValue
      /\ timing => new["timing"] = [by |-> t]
      /\ ~timing => new["timing"] = NoValue
  <2>1. \A l \in Label : Blank[l] = NoValue
    BY DEF Blank
  <2>2. CASE timing
    BY <1>2, <1>3, <2>1, <2>2 DEF Label, LabelValue
  <2>3. CASE ~timing
    BY <1>3, <2>1, <2>3 DEF Label, LabelValue
  <2> QED
    BY <2>2, <2>3
<1> HIDE DEF own, new
<1>5. labels' \in [Ctx -> [Label -> LabelValue]] /\ labels'[c] = new
  BY <1>1, <1>4 DEF CtxInv
<1>6. \A u \in Task \ {t} : ctxOf'[u] # NoCtx => ctxOf'[u] # c
  BY <1>1 DEF CtxInv, LifeTypeOK
<1>7. /\ \A u \in Task : ctxOf'[u] # NoCtx => ctxOf'[u] \in leased'
      /\ \A u, v \in Task : ctxOf'[u] # NoCtx /\ ctxOf'[u] = ctxOf'[v] => u = v
      /\ \A d \in Ctx \ leased' : labels'[d] = Blank'
  BY <1>1, <1>6 DEF CtxInv, LifeTypeOK, Blank
<1>8. /\ ctxOf'[t] = c /\ asked'[t] = timing
      /\ \A l \in Label : labels'[c][l] # NoValue => labels'[c][l].by = t
      /\ IsTimingEnabled(ctxOf[t])' = asked'[t]
  <2>1. ctxOf'[t] = c /\ asked'[t] = timing
    BY <1>1 DEF LifeTypeOK
  <2>2. \A l \in Label : labels'[c][l] # NoValue => labels'[c][l].by = t
    BY <1>2, <1>4, <1>5
  <2>3. CASE timing
    BY ZenonT(60), <2>1, <2>3, <1>2, <1>4, <1>5 DEF IsTimingEnabled
  <2>4. CASE ~timing
    BY <2>1, <2>4, <1>4, <1>5 DEF IsTimingEnabled
  <2> QED
    BY <2>1, <2>2, <2>3, <2>4
<1>9. ASSUME NEW u \in Task \ {t}, ctxOf'[u] # NoCtx
      PROVE  /\ \A l \in Label : labels'[ctxOf'[u]][l] # NoValue => labels'[ctxOf'[u]][l].by = u
             /\ IsTimingEnabled(ctxOf[u])' = asked'[u]
  <2>1. ctxOf'[u] = ctxOf[u] /\ ctxOf[u] # c /\ asked'[u] = asked[u] /\ ctxOf[u] \in Ctx
    BY <1>1, <1>6, <1>9 DEF LifeTypeOK
  <2>2. labels'[ctxOf[u]] = labels[ctxOf[u]]
    BY <1>1, <2>1 DEF CtxInv
  <2> QED
    BY <1>9, <2>1, <2>2 DEF CtxInv, LabelsStayHome, IsTimingEnabled
<1>10. LabelsStayHome'
  BY <1>8, <1>9 DEF LabelsStayHome, IsTimingEnabled
<1> QED
  BY <1>4, <1>5, <1>7, <1>10 DEF CtxInv

LEMMA ReleaseCtx ==
    ASSUME LifeTypeOK, PlaceInv, CtxInv, NEW t \in Task, ReleaseContext(t)
    PROVE  /\ CtxInv'
           /\ \A u \in Task : ctxOf'[u] # NoCtx => /\ ctxOf'[u] = ctxOf[u]
                                                   /\ labels'[ctxOf[u]] = labels[ctxOf[u]]
           /\ \A d \in Ctx : labels'[d] \in {labels[d], Blank}
<1> DEFINE c == ctxOf[t]
<1>1. /\ leased' = leased \ {c} /\ labels' = [labels EXCEPT ![c] = Blank]
      /\ ctxOf' = [ctxOf EXCEPT ![t] = NoCtx] /\ asked' = asked
  BY DEF ReleaseContext, Release, Reset
<1>2. c \in Ctx /\ c \in leased /\ c # NoCtx
  BY DEF ReleaseContext, PlaceInv, LifeTypeOK, CtxInv
<1>3. Blank \in [Label -> LabelValue]
  BY DEF Blank, LabelValue
<1>4. labels' \in [Ctx -> [Label -> LabelValue]]
  BY <1>1, <1>2, <1>3 DEF CtxInv
<1>5. \A u \in Task : ctxOf'[u] # NoCtx => u # t /\ ctxOf'[u] = ctxOf[u] /\ ctxOf[u] # c
                                             /\ ctxOf[u] \in Ctx
  BY <1>1, <1>2 DEF CtxInv, LifeTypeOK
<1>6. \A u \in Task : ctxOf'[u] # NoCtx => labels'[ctxOf[u]] = labels[ctxOf[u]]
  BY <1>1, <1>5 DEF CtxInv
<1>7. \A d \in Ctx \ leased' : labels'[d] = Blank'
  BY <1>1, <1>2 DEF CtxInv, Blank
<1>8. LabelsStayHome'
  BY <1>1, <1>5, <1>6 DEF CtxInv, LabelsStayHome, IsTimingEnabled
<1>9. \A u \in Task : ctxOf'[u] # NoCtx => ctxOf'[u] \in leased'
  BY <1>1, <1>5 DEF CtxInv
<1>10. \A u, v \in Task : ctxOf'[u] # NoCtx /\ ctxOf'[u] = ctxOf'[v] => u = v
  BY <1>5 DEF CtxInv
<1>11. \A d \in Ctx : labels'[d] \in {labels[d], Blank}
  BY <1>1, <1>2 DEF CtxInv
<1> QED
  BY <1>4, <1>5, <1>6, <1>7, <1>8, <1>9, <1>10, <1>11 DEF CtxInv

LEMMA CtxStep ==
    ASSUME LifeTypeOK, PlaceInv, CtxInv, [LifeNext]_lifeVars
    PROVE  CtxInv'
<1>1. ASSUME UNCHANGED <<labels, leased, ctxOf, asked>> PROVE CtxInv'
  BY <1>1 DEF CtxInv, LabelsStayHome, IsTimingEnabled, Blank
<1>2. ASSUME NEW t \in Task, ctxOf[t] # NoCtx, NEW stage \in Stage, DispatchHook(t, stage),
             UNCHANGED <<ctxOf, asked, leased>>
      PROVE  CtxInv'
  <2>1. stage \in Label \ {"timing"}
    BY DEF Label, Stage
  <2> QED
    BY ZenonT(60), <1>1, <1>2, <2>1, HookStores, StoreStep
<1>3. ASSUME NEW t \in Task, spc[t] \notin {"ready", "released"} \/ wpc[t] \notin {"none", "done"}
      PROVE  ctxOf[t] # NoCtx
  BY <1>3 DEF PlaceInv
<1>4. ASSUME NEW t \in Task, Submitted(t) \/ Enqueued(t) \/ Started(t) \/ Completed(t)
      PROVE  CtxInv'
  <2>1. CASE Submitted(t)
    BY <1>1, <1>2, <1>3, <2>1 DEF Submitted, Stage
  <2>2. CASE Enqueued(t)
    BY <1>2, <1>3, <2>2 DEF Enqueued, Stage
  <2>3. CASE Started(t)
    BY <1>2, <1>3, <2>3 DEF Started, Stage
  <2>4. CASE Completed(t)
    BY <1>2, <1>3, <2>4 DEF Completed, Stage
  <2> QED
    BY <1>4, <2>1, <2>2, <2>3, <2>4
<1>5. ASSUME NEW t \in Task, ctxOf[t] # NoCtx, NEW side \in Side,
             labels' = Store(ctxOf[t], "trace_id",
                             StoredID(ctxOf[t], [by |-> t, side |-> side])),
             UNCHANGED <<ctxOf, asked, leased>>
      PROVE  CtxInv'
  BY <1>5, TraceStores, StoreStep DEF Label
<1>6. ASSUME NEW t \in Task, SubmitterTraces(t) PROVE CtxInv'
  BY ZenonT(60), <1>1, <1>3, <1>5, <1>6 DEF SubmitterTraces, TraceStore, Side
<1>7. ASSUME NEW t \in Task, WorkerTraces(t) PROVE CtxInv'
  BY ZenonT(60), <1>1, <1>3, <1>5, <1>7 DEF WorkerTraces, TraceStore, Side
<1>8. ASSUME NEW t \in Task, Enqueue(t) \/ Skip(t) \/ BackOff(t) \/ HandlePanic(t) \/ Done(t)
      PROVE  CtxInv'
  BY <1>1, <1>8 DEF Enqueue, Skip, BackOff, HandlePanic, Done, contextVars
<1>9. ASSUME NEW t \in Task, NEW outcome \in {"ok", "error", "panic", "exit"}, Try(t, outcome)
      PROVE  CtxInv'
  BY <1>1, <1>9 DEF Try, contextVars
<1>10. CASE UNCHANGED lifeVars
  BY <1>1, <1>10 DEF lifeVars, contextVars
<1> QED
  BY Zenon, <1>4, <1>6, <1>7, <1>8, <1>9, <1>10, BeginCtx, ReleaseCtx DEF LifeNext

LEMMA CtxInvInit == LifeInit => CtxInv
<1> SUFFICES ASSUME LifeInit PROVE CtxInv
  OBVIOUS
<1>1. labels = [c \in Ctx |-> Blank] /\ Blank \in [Label -> LabelValue]
  BY DEF LifeInit, ContextInit, Blank, LabelValue
<1>2. \A t \in Task : ctxOf[t] = NoCtx
  BY DEF LifeInit
<1> QED
  BY <1>1, <1>2 DEF CtxInv, LabelsStayHome

\* A Context that comes back from the sync.Pool carries no label of an earlier
\* task, and no other task reaches it while it is in use.
THEOREM ContextsStartAfresh == LifeSpec => []LabelsStayHome
<1>1. CtxInv => LabelsStayHome
  BY DEF CtxInv
<1>2. LifeInv /\ CtxInv /\ [LifeNext]_lifeVars => CtxInv'
  BY CtxStep DEF LifeInv
<1> QED
  BY <1>1, <1>2, CtxInvInit, LifeInvHolds, PTL DEF LifeSpec

-----------------------------------------------------------------------------
(***************************************************************************)
(* The trace id.                                                           *)
(***************************************************************************)

\* Whoever has been told an id was told the one in the Context.
TraceInv ==
    /\ answer \in [Task -> [Side -> LabelValue]]
    /\ \A t \in Task, s \in Side : answer[t][s] # NoValue =>
          /\ spc[t] # "ready"
          /\ ctxOf[t] # NoCtx => answer[t][s] = labels[ctxOf[t]]["trace_id"]
    /\ OneTraceID

LEMMA AnswersKept ==
    ASSUME LifeTypeOK, TraceInv, UNCHANGED answer,
           \A t \in Task : spc'[t] = "ready" => spc[t] = "ready",
           \A t \in Task : spc[t] = "ready" \/ ctxOf'[t] \in {ctxOf[t], NoCtx},
           \A t \in Task : ctxOf'[t] # NoCtx /\ ctxOf[t] # NoCtx =>
               labels'[ctxOf[t]]["trace_id"] = labels[ctxOf[t]]["trace_id"]
    PROVE  TraceInv'
  BY DEF TraceInv, OneTraceID

LEMMA AnswerStep ==
    ASSUME LifeTypeOK, CtxInv, TraceInv, NEW t \in Task, NEW side \in Side, NEW id \in LabelValue,
           spc[t] # "ready", ctxOf[t] # NoCtx,
           labels[ctxOf[t]]["trace_id"] \in {NoValue, id},
           answer' = [answer EXCEPT ![t][side] = id],
           UNCHANGED ctxOf,
           \A u \in Task : spc'[u] = "ready" => spc[u] = "ready",
           labels'[ctxOf[t]]["trace_id"] = id,
           \A d \in Ctx \ {ctxOf[t]} : labels'[d]["trace_id"] = labels[d]["trace_id"]
    PROVE  TraceInv'
<1>1. /\ answer' \in [Task -> [Side -> LabelValue]]
      /\ \A u \in Task, s \in Side :
            answer'[u][s] = IF u = t /\ s = side THEN id ELSE answer[u][s]
  BY DEF TraceInv
<1>2. \A s \in Side : answer[t][s] # NoValue => answer[t][s] = id
  BY DEF TraceInv
<1>3. \A s \in Side : answer'[t][s] # NoValue => answer'[t][s] = id
  BY <1>1, <1>2
<1>4. \A u \in Task \ {t}, s \in Side : answer'[u][s] = answer[u][s]
  BY <1>1
<1>5. \A u \in Task \ {t} : ctxOf[u] # NoCtx =>
          labels'[ctxOf[u]]["trace_id"] = labels[ctxOf[u]]["trace_id"]
  BY DEF CtxInv, LifeTypeOK
<1>6. OneTraceID'
  BY <1>3, <1>4 DEF OneTraceID, TraceInv
<1>7. \A u \in Task, s \in Side : answer'[u][s] # NoValue =>
          /\ spc'[u] # "ready"
          /\ ctxOf'[u] # NoCtx => answer'[u][s] = labels'[ctxOf'[u]]["trace_id"]
  BY <1>3, <1>4, <1>5 DEF TraceInv
<1> QED
  BY <1>1, <1>6, <1>7 DEF TraceInv

\* A hook leaves the trace ids alone.
LEMMA HookKeepsTrace ==
    ASSUME LifeTypeOK, CtxInv, NEW t \in Task, ctxOf[t] # NoCtx, NEW stage \in Stage,
           DispatchHook(t, stage)
    PROVE  \A d \in Ctx : labels'[d]["trace_id"] = labels[d]["trace_id"]
  BY SMTT(30) DEF LifeTypeOK, CtxInv, DispatchHook, Store, Stage, Label

\* TraceID called by one side, whichever of its halves this is.
LEMMA TraceIDStep ==
    ASSUME LifeTypeOK, CtxInv, TraceInv, NEW t \in Task, NEW side \in Side,
           spc[t] # "ready", ctxOf[t] # NoCtx, UNCHANGED ctxOf,
           \A u \in Task : spc'[u] = "ready" => spc[u] = "ready",
           \/ /\ UNCHANGED labels
              /\ LET id == labels[ctxOf[t]]["trace_id"]
                 IN  \/ id # NoValue /\ answer' = [answer EXCEPT ![t][side] = id]
                     \/ UNCHANGED answer
           \/ LET id == StoredID(ctxOf[t], [by |-> t, side |-> side])
              IN  /\ answer' = [answer EXCEPT ![t][side] = id]
                  /\ labels' = Store(ctxOf[t], "trace_id", id)
    PROVE  TraceInv'
<1> DEFINE c == ctxOf[t]
<1>1. c \in Ctx /\ "trace_id" \in Label /\ labels[c]["trace_id"] \in LabelValue
  BY DEF LifeTypeOK, CtxInv, Label
<1>2. CASE UNCHANGED <<labels, answer>>
  BY <1>2, AnswersKept
<1>3. CASE UNCHANGED labels /\ answer' = [answer EXCEPT ![t][side] = labels[c]["trace_id"]]
  BY ZenonT(60), <1>1, <1>3, AnswerStep
<1>4. ASSUME NEW id, id = StoredID(c, [by |-> t, side |-> side]),
             answer' = [answer EXCEPT ![t][side] = id], labels' = Store(c, "trace_id", id)
      PROVE  TraceInv'
  <2>1. id \in LabelValue
    BY <1>4, TraceStores DEF Stores
  <2>2. labels[c]["trace_id"] \in {NoValue, id}
    BY <1>4 DEF StoredID
  <2>3. /\ labels'[c]["trace_id"] = id
        /\ \A d \in Ctx \ {c} : labels'[d]["trace_id"] = labels[d]["trace_id"]
    BY <1>1, <1>4 DEF Store, CtxInv
  <2> QED
    BY ZenonT(60), <1>4, <2>1, <2>2, <2>3, AnswerStep
<1> QED
  BY <1>2, <1>3, <1>4

LEMMA TraceStep ==
    ASSUME LifeTypeOK, PlaceInv, CtxInv, TraceInv, [LifeNext]_lifeVars
    PROVE  TraceInv'
<1> USE DEF SubmitterGoes, WorkerGoes
<1>1. ASSUME NEW t \in Task, spc[t] \notin {"ready", "released"} \/ wpc[t] \notin {"none", "done"}
      PROVE  ctxOf[t] # NoCtx /\ spc[t] # "ready"
  BY <1>1 DEF PlaceInv
<1>2. ASSUME NEW t \in Task, NEW c \in Ctx, NEW timing \in BOOLEAN, Begin(t, c, timing)
      PROVE  TraceInv'
  <2>1. /\ spc[t] = "ready" /\ UNCHANGED answer /\ ctxOf' = [ctxOf EXCEPT ![t] = c]
        /\ spc' = [spc EXCEPT ![t] = "submit"] /\ ctxOf[t] = NoCtx
        /\ c \notin leased /\ \A d \in Ctx \ {c} : labels'[d] = labels[d]
    BY <1>2 DEF Begin, NewContext, PlaceInv, CtxInv
  <2>2. \A u \in Task : ctxOf[u] # NoCtx => ctxOf[u] # c /\ ctxOf[u] \in Ctx
    BY <2>1 DEF CtxInv, LifeTypeOK
  <2> QED
    BY <2>1, <2>2, AnswersKept DEF LifeTypeOK
<1>3. ASSUME NEW t \in Task, ReleaseContext(t) PROVE TraceInv'
  <2>1. UNCHANGED answer /\ ctxOf' = [ctxOf EXCEPT ![t] = NoCtx]
        /\ spc' = [spc EXCEPT ![t] = "released"]
    BY SMTT(30), <1>3 DEF ReleaseContext
  <2> QED
    BY <1>3, <2>1, ReleaseCtx, AnswersKept DEF LifeTypeOK
<1>4. ASSUME NEW t \in Task, ctxOf[t] # NoCtx, NEW stage \in Stage, DispatchHook(t, stage),
             UNCHANGED <<answer, ctxOf>>, \A u \in Task : spc'[u] = "ready" => spc[u] = "ready"
      PROVE  TraceInv'
  BY <1>4, HookKeepsTrace, AnswersKept DEF LifeTypeOK
<1>5. ASSUME NEW t \in Task, Submitted(t) \/ Enqueued(t) \/ Started(t) \/ Completed(t)
      PROVE  TraceInv'
  <2>1. UNCHANGED <<answer, ctxOf>> /\ \A u \in Task : spc'[u] = "ready" => spc[u] = "ready"
    BY <1>5 DEF Submitted, Enqueued, Started, Completed, LifeTypeOK
  <2>2. Submitted(t) => DispatchHook(t, "submitted")
    BY DEF Submitted, DispatchHook
  <2>3. ctxOf[t] # NoCtx /\ \E stage \in Stage : DispatchHook(t, stage)
    BY <1>1, <1>5, <2>2 DEF Submitted, Enqueued, Started, Completed, Stage
  <2> QED
    BY <1>4, <2>1, <2>3
<1>6. ASSUME NEW t \in Task, SubmitterTraces(t) PROVE TraceInv'
  <2>1. ctxOf[t] # NoCtx /\ spc[t] # "ready" /\ UNCHANGED ctxOf
    BY <1>1, <1>6 DEF SubmitterTraces
  <2>2. \A u \in Task : spc'[u] = "ready" => spc[u] = "ready"
    BY <1>6 DEF SubmitterTraces, TraceCheck, TraceStore, LifeTypeOK
  <2> QED
    BY ZenonT(60), <1>6, <2>1, <2>2, TraceIDStep
       DEF SubmitterTraces, TraceCheck, TraceStore, Side
<1>7. ASSUME NEW t \in Task, WorkerTraces(t) PROVE TraceInv'
  <2>1. ctxOf[t] # NoCtx /\ spc[t] # "ready" /\ UNCHANGED <<ctxOf, spc>>
    BY <1>1, <1>7 DEF WorkerTraces
  <2> QED
    BY ZenonT(60), <1>7, <2>1, TraceIDStep DEF WorkerTraces, TraceCheck, TraceStore, Side
<1>8. ASSUME UNCHANGED <<answer, ctxOf, labels>>,
             \A u \in Task : spc'[u] = "ready" => spc[u] = "ready"
      PROVE  TraceInv'
  BY <1>8, AnswersKept
<1>9. ASSUME NEW t \in Task, Enqueue(t) \/ Skip(t) \/ BackOff(t) \/ HandlePanic(t) \/ Done(t)
      PROVE  TraceInv'
  BY <1>8, <1>9 DEF Enqueue, Skip, BackOff, HandlePanic, Done, contextVars, LifeTypeOK
<1>10. ASSUME NEW t \in Task, NEW outcome \in {"ok", "error", "panic", "exit"}, Try(t, outcome)
       PROVE  TraceInv'
  BY <1>8, <1>10 DEF Try, contextVars
<1>11. CASE UNCHANGED lifeVars
  BY <1>8, <1>11 DEF lifeVars, contextVars
<1> QED
  BY Zenon, <1>2, <1>3, <1>5, <1>6, <1>7, <1>9, <1>10, <1>11 DEF LifeNext

\* TraceID never tells the submitter and the worker of a task two ids, although
\* it leaves the mutex between its look at the labels and its store.
THEOREM TraceIDsAgree == LifeSpec => []OneTraceID
<1>1. LifeInit => TraceInv
  <2> SUFFICES ASSUME LifeInit PROVE TraceInv
    OBVIOUS
  <2>1. answer = [t \in Task |-> [s \in Side |-> NoValue]] /\ NoValue \in LabelValue
    BY DEF LifeInit, LabelValue
  <2> QED
    BY <2>1 DEF TraceInv, OneTraceID
<1>2. LifeInv /\ CtxInv /\ [LifeNext]_lifeVars => CtxInv'
  BY CtxStep DEF LifeInv
<1>3. LifeInv /\ CtxInv /\ TraceInv /\ [LifeNext]_lifeVars => TraceInv'
  BY TraceStep DEF LifeInv
<1>4. TraceInv => OneTraceID
  BY SMTT(30) DEF TraceInv
<1> QED
  BY <1>1, <1>2, <1>3, <1>4, CtxInvInit, LifeInvHolds, PTL DEF LifeSpec

-----------------------------------------------------------------------------
(***************************************************************************)
(* Latencies.                                                              *)
(***************************************************************************)

\* The stages a task cannot have recorded yet, by the places of its two sides.
ToCome(t) ==
    (IF spc[t] = "submit" THEN {"submitted"} ELSE {})
    \cup (IF spc[t] \in {"submit", "enqueue", "enqueued"} THEN {"enqueued"} ELSE {})
    \cup (IF wpc[t] \in {"none", "queued"} THEN {"started"} ELSE {})
    \cup (IF wpc[t] \notin {"finish", "done"} THEN {"completed"} ELSE {})

\* The later of two recorded stages has the later time.
InOrder(c, from, to) ==
    {from, to} \subseteq Past(c) => labels[c][from].at <= labels[c][to].at

OrderedAt(c) ==
    /\ \A s \in Past(c) : /\ labels[c][s] \in [by : Task, at : Nat]
                          /\ labels[c][s].at < Cardinality(Past(c))
    /\ InOrder(c, "submitted", "completed") /\ InOrder(c, "submitted", "started")
    /\ InOrder(c, "started", "completed") /\ InOrder(c, "submitted", "enqueued")

LatencyInv ==
    /\ \A c \in Ctx : OrderedAt(c)
    /\ \A t \in Task : ctxOf[t] # NoCtx => Past(ctxOf[t]) \cap ToCome(t) = {}

\* A stage is recorded when the ones that follow it have not been.
LEMMA RecordStep ==
    ASSUME LifeTypeOK, CtxInv, NEW t \in Task, NEW stage \in Stage \ Past(ctxOf[t]),
           OrderedAt(ctxOf[t]),
           stage = "submitted" => Past(ctxOf[t]) = {},
           stage = "started" => "completed" \notin Past(ctxOf[t]),
           Stores(t, stage, [by |-> t, at |-> Cardinality(Past(ctxOf[t]))]),
           UNCHANGED ctxOf
    PROVE  /\ OrderedAt(ctxOf[t])'
           /\ Past(ctxOf[t])' = Past(ctxOf[t]) \cup {stage}
           /\ \A d \in Ctx \ {ctxOf[t]} : labels'[d] = labels[d]
<1> DEFINE c == ctxOf[t]
           n == Cardinality(Past(c))
           v == [by |-> t, at |-> n]
<1>1. c \in Ctx /\ stage \in Label /\ Stage \subseteq Label
  BY DEF Stores, LifeTypeOK, Label
<1>2. n \in Nat /\ IsFiniteSet(Past(c))
  BY PastFinite
<1>3. v \in [by : Task, at : Nat] /\ v # NoValue /\ v.at = n
  BY <1>2, TaskLifeAssumption
<1> HIDE DEF v
<1>4. /\ \A d \in Ctx \ {c} : labels'[d] = labels[d]
      /\ labels'[c][stage] = v
      /\ \A s \in Stage \ {stage} : labels'[c][s] = labels[c][s]
  <2>1. labels' = [labels EXCEPT ![c][stage] = v]
    BY DEF Stores, Store, v
  <2> QED
    BY <1>1, <2>1 DEF CtxInv
<1>5. Past(c)' = Past(c) \cup {stage}
  BY <1>3, <1>4 DEF Past
<1>6. Cardinality(Past(c)') = n + 1
  BY ZenonT(60), <1>2, <1>5, FS_AddElement
<1>7. ASSUME NEW s \in Past(c)
      PROVE  labels'[c][s] = labels[c][s] /\ labels[c][s].at \in Nat /\ labels[c][s].at < n
  <2>1. s \in Stage \ {stage}
    BY DEF Past
  <2>2. labels[c][s] \in [by : Task, at : Nat] /\ labels[c][s].at < n
    BY DEF OrderedAt
  <2>3. labels[c][s].at \in Nat
    BY <2>2
  <2> QED
    BY <1>4, <2>1, <2>2, <2>3
<1>8. \A s \in Past(c)' : /\ labels'[c][s] \in [by : Task, at : Nat]
                          /\ labels'[c][s].at < Cardinality(Past(c)')
  <2>1. ASSUME NEW s \in Past(c)
        PROVE  labels'[c][s] \in [by : Task, at : Nat] /\ labels'[c][s].at < n + 1
    <3>1. labels[c][s] \in [by : Task, at : Nat]
      BY DEF OrderedAt
    <3>2. labels'[c][s] = labels[c][s] /\ labels[c][s].at \in Nat /\ labels[c][s].at < n
      BY SMTT(30), <1>7
    <3> HIDE DEF c, n
    <3> QED
      BY <1>2, <3>1, <3>2
  <2>2. labels'[c][stage] \in [by : Task, at : Nat] /\ labels'[c][stage].at < n + 1
    BY <1>2, <1>3, <1>4
  <2> HIDE DEF c, n
  <2> QED
    BY Zenon, <1>5, <1>6, <2>1, <2>2
<1>9. ASSUME NEW from, NEW to, InOrder(c, from, to), stage = from => to \notin Past(c),
             from # to
      PROVE  InOrder(c, from, to)'
  <2> SUFFICES ASSUME {from, to} \subseteq Past(c) \cup {stage}
               PROVE  labels'[c][from].at <= labels'[c][to].at
    BY <1>5 DEF InOrder
  <2>1. from \in Past(c)
    BY SMTT(30), <1>9
  <2>2. labels'[c][from] = labels[c][from] /\ labels[c][from].at \in Nat
        /\ labels[c][from].at < n
    BY SMTT(30), <1>7, <2>1
  <2>3. CASE to = stage
    BY SMTT(30), <1>2, <1>3, <1>4, <2>2, <2>3
  <2>4. CASE to \in Past(c)
    <3>1. labels'[c][to] = labels[c][to]
      BY <1>7, <2>4
    <3>2. labels[c][from].at <= labels[c][to].at
      BY SMTT(30), <1>9, <2>1, <2>4 DEF InOrder
    <3> QED
      BY SMTT(30), <2>2, <3>1, <3>2
  <2> QED
    BY SMTT(30), <2>3, <2>4
<1> QED
  BY ZenonT(60), <1>4, <1>5, <1>8, <1>9 DEF OrderedAt

LEMMA SameStages ==
    ASSUME NEW c, \A s \in Stage : labels'[c][s] = labels[c][s], OrderedAt(c)
    PROVE  OrderedAt(c)' /\ Past(c)' = Past(c)
<1>1. Past(c)' = Past(c)
  BY DEF Past
<1>2. \A s \in Past(c) : labels'[c][s] = labels[c][s]
  BY DEF Past
<1> QED
  BY <1>1, <1>2 DEF OrderedAt, InOrder

LEMMA NothingRecorded ==
    ASSUME NEW c, \A s \in Stage : labels[c][s] = NoValue
    PROVE  OrderedAt(c) /\ Past(c) = {}
<1>1. Past(c) = {}
  BY SMTT(30) DEF Past
<1> QED
  BY <1>1 DEF OrderedAt, InOrder

\* A step that records nothing.
LEMMA QuietLatency ==
    ASSUME LifeTypeOK, LatencyInv, UNCHANGED ctxOf,
           \A d \in Ctx, s \in Stage : labels'[d][s] = labels[d][s],
           \A u \in Task : ToCome(u)' \subseteq ToCome(u)
    PROVE  LatencyInv'
<1>1. \A d \in Ctx : OrderedAt(d)' /\ Past(d)' = Past(d)
  BY SameStages DEF LatencyInv
<1>2. \A u \in Task : ctxOf[u] # NoCtx => Past(ctxOf[u])' = Past(ctxOf[u])
  BY <1>1 DEF LifeTypeOK
<1> QED
  BY <1>1, <1>2 DEF LatencyInv

\* A step that dispatches a hook.
LEMMA HookLatency ==
    ASSUME LifeTypeOK, CtxInv, LatencyInv, NEW t \in Task, ctxOf[t] # NoCtx,
           NEW stage \in Stage, stage \in ToCome(t), DispatchHook(t, stage), UNCHANGED ctxOf,
           stage = "submitted" => ToCome(t) = Stage,
           stage = "started" => "completed" \in ToCome(t),
           ToCome(t)' = ToCome(t) \ {stage},
           \A u \in Task \ {t} : ToCome(u)' = ToCome(u)
    PROVE  LatencyInv'
<1> DEFINE c == ctxOf[t]
<1>1. CASE UNCHANGED labels
  BY <1>1, QuietLatency
<1>2. CASE Stores(t, stage, [by |-> t, at |-> Cardinality(Past(c))])
  <2>1. c \in Ctx /\ OrderedAt(c) /\ Past(c) \cap ToCome(t) = {} /\ Past(c) \subseteq Stage
    BY SMTT(30) DEF LatencyInv, LifeTypeOK, Past
  <2>2. /\ OrderedAt(ctxOf[t])' /\ Past(ctxOf[t])' = Past(c) \cup {stage}
        /\ \A d \in Ctx \ {c} : labels'[d] = labels[d]
    BY <1>2, <2>1, RecordStep
  <2>3. \A d \in Ctx \ {c} : OrderedAt(d)' /\ Past(d)' = Past(d)
    BY <2>2, SameStages DEF LatencyInv
  <2>4. \A u \in Task \ {t} : ctxOf[u] # NoCtx => ctxOf[u] \in Ctx \ {c}
    BY DEF CtxInv, LifeTypeOK
  <2>5. \A u \in Task : ctxOf'[u] # NoCtx => Past(ctxOf[u])' \cap ToCome(u)' = {}
    BY <2>1, <2>2, <2>3, <2>4 DEF LatencyInv
  <2>6. \A d \in Ctx : OrderedAt(d)'
    BY <2>2, <2>3
  <2> QED
    BY SMTT(30), <2>5, <2>6 DEF LatencyInv
<1> QED
  BY <1>1, <1>2, HookStores

LEMMA LatencyStep ==
    ASSUME LifeTypeOK, PlaceInv, CtxInv, LatencyInv, [LifeNext]_lifeVars
    PROVE  LatencyInv'
<1> USE DEF SubmitterGoes, WorkerGoes
<1>1. ASSUME NEW t \in Task, spc[t] \notin {"ready", "released"} \/ wpc[t] \notin {"none", "done"}
      PROVE  ctxOf[t] # NoCtx
  BY <1>1 DEF PlaceInv
<1>2. ASSUME NEW t \in Task, NEW c \in Ctx, NEW timing \in BOOLEAN, Begin(t, c, timing)
      PROVE  LatencyInv'
  <2>1. /\ c \notin leased /\ UNCHANGED wpc /\ spc' = [spc EXCEPT ![t] = "submit"]
        /\ ctxOf' = [ctxOf EXCEPT ![t] = c] /\ \A d \in Ctx \ {c} : labels'[d] = labels[d]
    BY <1>2 DEF Begin, NewContext, CtxInv
  <2>2. \A s \in Stage : labels'[c][s] = NoValue
    BY <1>2, BeginCtx DEF Stage, Label
  <2>3. OrderedAt(c)' /\ Past(c)' = {}
    BY <2>2 DEF OrderedAt, InOrder, Past
  <2>4. \A d \in Ctx \ {c} : OrderedAt(d)' /\ Past(d)' = Past(d)
    BY <2>1, SameStages DEF LatencyInv
  <2>5. ASSUME NEW u \in Task, u # t, ctxOf'[u] # NoCtx
        PROVE  Past(ctxOf[u])' \cap ToCome(u)' = {}
    <3>1. ctxOf'[u] = ctxOf[u] /\ ctxOf[u] \in Ctx \ {c} /\ spc'[u] = spc[u]
      BY <2>1, <2>5 DEF CtxInv, LifeTypeOK
    <3>2. ToCome(u)' = ToCome(u)
      BY <2>1, <3>1 DEF ToCome
    <3>3. Past(ctxOf[u])' = Past(ctxOf[u])
      BY <2>4, <3>1 DEF Past
    <3> QED
      BY SMTT(30), <2>5, <3>1, <3>2, <3>3 DEF LatencyInv
  <2>6. Past(ctxOf[t])' = {}
    BY <2>1, <2>3 DEF LifeTypeOK, Past
  <2>7. \A d \in Ctx : OrderedAt(d)'
    BY <2>3, <2>4
  <2> QED
    BY <2>5, <2>6, <2>7 DEF LatencyInv
<1>3. ASSUME NEW t \in Task, ReleaseContext(t) PROVE LatencyInv'
  <2>1. UNCHANGED wpc /\ ctxOf' = [ctxOf EXCEPT ![t] = NoCtx]
        /\ spc' = [spc EXCEPT ![t] = "released"]
    BY <1>3 DEF ReleaseContext
  <2>2. \A d \in Ctx : OrderedAt(d)'
    <3> SUFFICES ASSUME NEW d \in Ctx PROVE OrderedAt(d)'
      OBVIOUS
    <3>1. CASE labels'[d] = labels[d]
      BY <3>1, SameStages DEF LatencyInv
    <3>2. CASE labels'[d] = Blank
      <4>1. \A s \in Stage : labels'[d][s] = NoValue
        BY <3>2 DEF Blank, Label
      <4> QED
        BY <4>1 DEF OrderedAt, InOrder, Past
    <3> QED
      BY <1>3, <3>1, <3>2, ReleaseCtx
  <2>3. ASSUME NEW u \in Task, ctxOf'[u] # NoCtx
        PROVE  Past(ctxOf[u])' \cap ToCome(u)' = {}
    <3>1. u # t /\ ctxOf'[u] = ctxOf[u] /\ labels'[ctxOf[u]] = labels[ctxOf[u]]
      BY <1>3, <2>1, <2>3, ReleaseCtx DEF LifeTypeOK
    <3>2. ToCome(u)' = ToCome(u)
      BY <2>1, <3>1 DEF ToCome, LifeTypeOK
    <3>3. Past(ctxOf[u])' = Past(ctxOf[u])
      BY <3>1 DEF Past
    <3> QED
      BY SMTT(30), <2>3, <3>1, <3>2, <3>3 DEF LatencyInv
  <2> QED
    BY <2>2, <2>3 DEF LatencyInv
<1>4. ASSUME NEW t \in Task, Submitted(t) PROVE LatencyInv'
  <2>1. ctxOf[t] # NoCtx /\ wpc[t] = "none" /\ "submitted" \in Stage
    BY SMTT(30), <1>1, <1>4 DEF Submitted, PlaceInv, LifeTypeOK, WorkerAt, Stage
  <2>2. ToCome(t) = Stage
    BY <1>4, <2>1 DEF Submitted, ToCome, Stage
  <2>3. \A u \in Task \ {t} : ToCome(u)' = ToCome(u)
    BY <1>4 DEF Submitted, ToCome, LifeTypeOK
  <2>4. CASE UNCHANGED labels
    <3>1. ToCome(t)' \subseteq Stage
      BY DEF ToCome, Stage
    <3> QED
      BY <1>4, <2>2, <2>3, <2>4, <3>1, QuietLatency DEF Submitted
  <2>5. CASE DispatchHook(t, "submitted") /\ SubmitterGoes(t, "enqueue")
    <3>1. ToCome(t)' = ToCome(t) \ {"submitted"}
      BY <1>4, <2>1, <2>2, <2>5 DEF Submitted, ToCome, LifeTypeOK, Stage
    <3> QED
      BY <1>4, <2>1, <2>2, <2>3, <2>5, <3>1, HookLatency DEF Submitted
  <2> QED
    BY <1>4, <2>4, <2>5 DEF Submitted
<1>5. ASSUME NEW t \in Task, Enqueued(t) PROVE LatencyInv'
  <2>1. ctxOf[t] # NoCtx /\ "enqueued" \in Stage
    BY <1>1, <1>5 DEF Enqueued, Stage
  <2>2. "enqueued" \in ToCome(t) /\ ToCome(t)' = ToCome(t) \ {"enqueued"}
    BY <1>5 DEF Enqueued, ToCome, LifeTypeOK
  <2>3. \A u \in Task \ {t} : ToCome(u)' = ToCome(u)
    BY <1>5 DEF Enqueued, ToCome, LifeTypeOK
  <2> QED
    BY <1>5, <2>1, <2>2, <2>3, HookLatency DEF Enqueued
<1>6. ASSUME NEW t \in Task, Started(t) PROVE LatencyInv'
  <2>1. ctxOf[t] # NoCtx /\ "started" \in Stage
    BY <1>1, <1>6 DEF Started, Stage
  <2>2. {"started", "completed"} \subseteq ToCome(t) /\ ToCome(t)' = ToCome(t) \ {"started"}
    BY <1>6 DEF Started, ToCome, LifeTypeOK
  <2>3. \A u \in Task \ {t} : ToCome(u)' = ToCome(u)
    BY <1>6 DEF Started, ToCome, LifeTypeOK
  <2> QED
    BY <1>6, <2>1, <2>2, <2>3, HookLatency DEF Started
<1>7. ASSUME NEW t \in Task, Completed(t) PROVE LatencyInv'
  <2>1. ctxOf[t] # NoCtx /\ "completed" \in Stage
    BY <1>1, <1>7 DEF Completed, Stage
  <2>2. "completed" \in ToCome(t) /\ ToCome(t)' = ToCome(t) \ {"completed"}
    BY <1>7 DEF Completed, ToCome, LifeTypeOK
  <2>3. \A u \in Task \ {t} : ToCome(u)' = ToCome(u)
    BY <1>7 DEF Completed, ToCome, LifeTypeOK
  <2> QED
    BY SMTT(30), <1>7, <2>1, <2>2, <2>3, HookLatency DEF Completed
<1>8. ASSUME NEW t \in Task, SubmitterTraces(t) \/ WorkerTraces(t) PROVE LatencyInv'
  <2>1. UNCHANGED ctxOf
    BY <1>8 DEF SubmitterTraces, WorkerTraces
  <2>2. \A d \in Ctx, s \in Stage : labels'[d][s] = labels[d][s]
    <3>1. UNCHANGED labels \/ \E id : labels' = Store(ctxOf[t], "trace_id", id)
      BY Zenon, <1>8 DEF SubmitterTraces, WorkerTraces, TraceStore
    <3>2. ctxOf[t] \in Ctx
      BY <1>1, <1>8 DEF SubmitterTraces, WorkerTraces, LifeTypeOK
    <3>3. ASSUME NEW id, labels' = Store(ctxOf[t], "trace_id", id), NEW d \in Ctx, NEW s \in Stage
          PROVE  labels'[d][s] = labels[d][s]
      <4>1. s \in Label /\ s # "trace_id"
        BY SMTT(30) DEF Stage, Label
      <4> QED
        BY <3>2, <3>3, <4>1 DEF Store, CtxInv
    <3> QED
      BY <3>1, <3>3
  <2>3. \A u \in Task : ToCome(u)' \subseteq ToCome(u)
    BY <1>8 DEF SubmitterTraces, WorkerTraces, TraceCheck, TraceStore, ToCome, LifeTypeOK
  <2> QED
    BY <2>1, <2>2, <2>3, QuietLatency
<1>9. ASSUME NEW t \in Task, Enqueue(t) \/ Skip(t) \/ BackOff(t) \/ HandlePanic(t) \/ Done(t)
      PROVE  LatencyInv'
  <2>1. UNCHANGED <<ctxOf, labels>>
    BY ZenonT(60), <1>9 DEF Enqueue, Skip, BackOff, HandlePanic, Done, contextVars
  <2>2. ASSUME Enqueue(t) PROVE \A u \in Task : ToCome(u)' \subseteq ToCome(u)
    <3>1. spc[t] = "enqueue"
      BY Zenon, <2>2 DEF Enqueue
    <3>2. wpc[t] = "none"
      BY <3>1 DEF PlaceInv
    <3> QED
      BY SMTT(30), <2>2, <3>2 DEF Enqueue, ToCome, LifeTypeOK
  <2>3. ASSUME ~Enqueue(t) PROVE \A u \in Task : ToCome(u)' \subseteq ToCome(u)
    BY <1>9, <2>3 DEF Skip, BackOff, HandlePanic, AfterHandler, Done, ToCome, LifeTypeOK
  <2>4. \A u \in Task : ToCome(u)' \subseteq ToCome(u)
    BY <2>2, <2>3
  <2> QED
    BY SMTT(30), <2>1, <2>4, QuietLatency
<1>10. ASSUME NEW t \in Task, NEW outcome \in {"ok", "error", "panic", "exit"}, Try(t, outcome)
       PROVE  LatencyInv'
  <2>1. UNCHANGED <<ctxOf, labels>>
    BY <1>10 DEF Try, contextVars
  <2>2. \A u \in Task : ToCome(u)' \subseteq ToCome(u)
    BY <1>10 DEF Try, ToCome, LifeTypeOK
  <2> QED
    BY <2>1, <2>2, QuietLatency
<1>11. CASE UNCHANGED lifeVars
  <2>1. UNCHANGED <<ctxOf, labels, spc, wpc>>
    BY <1>11 DEF lifeVars, contextVars
  <2>2. \A u \in Task : ToCome(u)' \subseteq ToCome(u)
    BY <2>1 DEF ToCome
  <2> QED
    BY <2>1, <2>2, QuietLatency
<1> QED
  BY Zenon, <1>2, <1>3, <1>4, <1>5, <1>6, <1>7, <1>8, <1>9, <1>10, <1>11 DEF LifeNext

\* In every Context, also one that is being recycled, the latencies from
\* submission to handoff, start and completion and from start to completion are
\* never negative, in every interleaving of submitter and worker.
THEOREM LatenciesStayOrdered == LifeSpec => []LatenciesAreOrdered
<1>1. LifeInit => LatencyInv
  <2> SUFFICES ASSUME LifeInit PROVE LatencyInv
    OBVIOUS
  <2>1. \A c \in Ctx, s \in Stage : labels[c][s] = NoValue
    BY DEF LifeInit, ContextInit, Blank, Label
  <2>2. \A t \in Task : ctxOf[t] = NoCtx
    BY DEF LifeInit
  <2> QED
    BY <2>1, <2>2, NothingRecorded DEF LatencyInv
<1>2. LifeInv /\ CtxInv /\ [LifeNext]_lifeVars => CtxInv'
  BY CtxStep DEF LifeInv
<1>3. LifeInv /\ CtxInv /\ LatencyInv /\ [LifeNext]_lifeVars => LatencyInv'
  BY LatencyStep DEF LifeInv
<1>4. LatencyInv => LatenciesAreOrdered
  <2> SUFFICES ASSUME LatencyInv, NEW c \in Ctx
               PROVE  /\ TotalLatency(c) >= 0 /\ QueueLatency(c) >= 0
                      /\ ExecLatency(c) >= 0 /\ HandoffLatency(c) >= 0
    BY DEF LatenciesAreOrdered
  <2>1. ASSUME NEW from \in Stage, NEW to \in Stage, InOrder(c, from, to)
        PROVE  Between(c, from, to) >= 0
    <3>1. CASE NoValue \in {labels[c][from], labels[c][to]}
      BY <3>1 DEF Between
    <3>2. CASE NoValue \notin {labels[c][from], labels[c][to]}
      <4>1. from \in Past(c) /\ to \in Past(c)
        BY <3>2 DEF Past
      <4>2. labels[c][from] \in [by : Task, at : Nat] /\ labels[c][to] \in [by : Task, at : Nat]
        BY <4>1 DEF LatencyInv, OrderedAt
      <4>3. labels[c][from].at \in Nat /\ labels[c][to].at \in Nat
        BY <4>2
      <4>4. labels[c][from].at <= labels[c][to].at
        BY <2>1, <4>1 DEF InOrder
      <4> QED
        BY <3>2, <4>3, <4>4 DEF Between
    <3> QED
      BY <3>1, <3>2
  <2> QED
    BY <2>1 DEF LatencyInv, OrderedAt, TotalLatency, QueueLatency, ExecLatency, HandoffLatency,
       Stage
<1> QED
  BY <1>1, <1>2, <1>3, <1>4, CtxInvInit, LifeInvHolds, PTL DEF LifeSpec
=============================================================================
