------------------------------ MODULE TaskFifo ------------------------------
(***************************************************************************)
(* What the overflow buffer promises: a bounded first-in first-out queue   *)
(* that can be closed to pushes.                                           *)
(***************************************************************************)
EXTENDS Integers, Sequences, FiniteSetsExt

CONSTANTS Task, MaxChunkLen, BatchSize

VARIABLES
    queue,              \* the buffered tasks, oldest first
    overflowClosed,
    out                 \* what the last operation returned

Init == queue = <<>> /\ overflowClosed = FALSE /\ out = <<"none">>

\* A push may hand the oldest task, its own included, to a handoff queue.
Push(t) ==
    /\ \/ overflowClosed /\ out' = <<"Closed">> /\ UNCHANGED queue
       \/ /\ ~overflowClosed /\ Len(queue) >= MaxChunkLen
          /\ out' = <<"Full">> /\ UNCHANGED queue
       \/ /\ ~overflowClosed /\ Len(queue) < MaxChunkLen
          /\ \/ out' = <<"Accepted">> /\ queue' = Append(queue, t)
             \/ /\ out' = <<"Forwarded", Head(Append(queue, t))>>
                /\ queue' = Tail(Append(queue, t))
    /\ UNCHANGED overflowClosed

PopBatch ==
    LET n == Min({BatchSize, Len(queue)})
    IN  /\ out' = <<"Popped", SubSeq(queue, 1, n)>>
        /\ queue' = SubSeq(queue, n + 1, Len(queue))
        /\ UNCHANGED overflowClosed

Length == out' = <<"Len", Len(queue)>> /\ UNCHANGED <<queue, overflowClosed>>

Close == overflowClosed' = TRUE /\ out' = <<"none">> /\ UNCHANGED queue

Next == (\E t \in Task : Push(t)) \/ PopBatch \/ Length \/ Close

Spec == Init /\ [][Next]_<<queue, overflowClosed, out>>
=============================================================================
