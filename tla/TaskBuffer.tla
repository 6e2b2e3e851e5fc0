----------------------------- MODULE TaskBuffer -----------------------------
(***************************************************************************)
(* The chunked overflow buffer (task_buffer.go): fixed-size chunks linked  *)
(* from the head, where workers pop, to the tail, where submitters push,   *)
(* recycled through a sync.Pool.  Every operation runs under taskMu from   *)
(* start to end, so each is one action; inside an action the buffer is the *)
(* record b, passed from one helper of the code to the next.               *)
(***************************************************************************)
EXTENDS Integers, Sequences

CONSTANTS
    Task,           \* the tasks pushed (any number of times)
    Chunk,          \* the chunks ever live or pooled at once (a bound)
    Nil,            \* the nil pointer, the empty slot
    ChunkSize,      \* taskChunkSize
    MaxChunkLen,    \* maxChunkLen
    BatchSize       \* len(dst) of PopBatch

\* taskChunkSize is positive; nil is neither a task nor a chunk.
ASSUME BufferAssumption ==
    /\ ChunkSize \in Nat \ {0} /\ MaxChunkLen \in Nat /\ BatchSize \in Nat
    /\ Nil \notin Task /\ Nil \notin Chunk

VARIABLES b, overflowClosed, out

vars == <<b, overflowClosed, out>>

Slot == 0 .. ChunkSize - 1

\* The buffer's indices stay within a chunk and its length within the bound.
BufferTypeOK ==
    /\ b \in [headChunk : Chunk \cup {Nil}, tailChunk : Chunk \cup {Nil},
              headIdx : 0 .. ChunkSize, tailIdx : 0 .. ChunkSize,
              chunkLen : 0 .. MaxChunkLen,
              tasks : [Chunk -> [Slot -> Task \cup {Nil}]],
              next : [Chunk -> Chunk \cup {Nil}],
              chunkPool : SUBSET Chunk, unused : SUBSET Chunk]
    /\ overflowClosed \in BOOLEAN

EmptySlots == [i \in Slot |-> Nil]

\* newChunkedTaskBuffer.  The chunks that New would allocate are the unused.
Init ==
    /\ b = [headChunk |-> Nil, tailChunk |-> Nil, headIdx |-> 0, tailIdx |-> 0,
            chunkLen |-> 0, tasks |-> [c \in Chunk |-> EmptySlots],
            next |-> [c \in Chunk |-> Nil], chunkPool |-> {}, unused |-> Chunk]
    /\ overflowClosed = FALSE
    /\ out = <<"none">>

\* Mutant: an exhausted chunk is put back still linked to its successor.
RecycleLinked(s, c) == [s EXCEPT !.chunkPool = @ \cup {c}]

\* Unlink a chunk and put it back into chunkPool.
Recycle(s, c) == [s EXCEPT !.next[c] = Nil, !.chunkPool = @ \cup {c}]

\* The first half of peekHead: move on from an exhausted head chunk.
Advanced(s) ==
    IF s.headChunk = Nil \/ s.headIdx < ChunkSize
    THEN s
    ELSE LET nx == s.next[s.headChunk]
         IN  [Recycle(s, s.headChunk) EXCEPT
                !.headChunk = nx,
                !.headIdx = 0,
                !.tailChunk = IF nx = Nil THEN Nil ELSE @,
                !.tailIdx = IF nx = Nil THEN 0 ELSE @]

\* The head has caught up with the tail.
Drained(s) ==
    s.headChunk # Nil /\ s.headChunk = s.tailChunk /\ s.headIdx >= s.tailIdx

\* peekHead: what it leaves behind; the task it finds is HeadTask.
Peeked(s) ==
    LET a == Advanced(s)
    IN  IF Drained(a)
        THEN [Recycle(a, a.headChunk) EXCEPT
                !.headChunk = Nil, !.tailChunk = Nil, !.headIdx = 0, !.tailIdx = 0]
        ELSE a

HasHead(s) == Peeked(s).headChunk # Nil

HeadTask(s) == Peeked(s).tasks[Peeked(s).headChunk][Peeked(s).headIdx]

PopHead(s) ==
    IF HasHead(s)
    THEN [Peeked(s) EXCEPT !.tasks[Peeked(s).headChunk][Peeked(s).headIdx] = Nil,
                           !.headIdx = @ + 1,
                           !.chunkLen = @ - 1]
    ELSE Peeked(s)

\* Mutant: the tail chunk is taken to have one slot more.
NeedsChunkLate(s) == s.tailChunk = Nil \/ s.tailIdx > ChunkSize

NeedsChunk(s) == s.tailChunk = Nil \/ s.tailIdx >= ChunkSize

\* chunkPool.Get: a recycled chunk, as it was put back, or a new one.
GetChunk(s, c) == [s EXCEPT !.chunkPool = @ \ {c}, !.unused = @ \ {c}]

\* Link chunk c as the new tail of s.
Linked(s, c) ==
    IF s.tailChunk = Nil
    THEN [GetChunk(s, c) EXCEPT !.headChunk = c, !.tailChunk = c,
                                !.headIdx = 0, !.tailIdx = 0]
    ELSE [GetChunk(s, c) EXCEPT !.next[s.tailChunk] = c, !.tailChunk = c,
                                !.tailIdx = 0]

\* The states pushTail may leave behind.
PushTail(s, t) ==
    LET grown == IF NeedsChunk(s)
                 THEN {Linked(s, c) : c \in s.chunkPool \cup s.unused}
                 ELSE {s}
    IN  {[g EXCEPT !.tasks[g.tailChunk][g.tailIdx] = t,
                   !.tailIdx = @ + 1, !.chunkLen = @ + 1] : g \in grown}

-----------------------------------------------------------------------------
\* Mutant: the task that was forwarded stays in the buffer.
AfterForwardUnpopped(s) == Peeked(s)

\* peekHead, a successful tryForward, popHead.
AfterForward(s) == PopHead(Peeked(s))

\* What tryForward answers depends on the handoff queues.
PushAndForward(t) ==
    /\ \/ overflowClosed /\ out' = <<"Closed">> /\ UNCHANGED b
       \/ /\ ~overflowClosed /\ b.chunkLen >= MaxChunkLen
          /\ out' = <<"Full">> /\ UNCHANGED b
       \/ /\ ~overflowClosed /\ b.chunkLen < MaxChunkLen
          /\ \E s \in PushTail(b, t) :
                \/ b' = Peeked(s) /\ out' = <<"Accepted">>
                \/ b' = AfterForward(s) /\ out' = <<"Forwarded", HeadTask(s)>>
    /\ UNCHANGED overflowClosed

\* One turn of the loop of PopBatch: x is the buffer and what dst holds.
PopTurn(x) ==
    [buf |-> PopHead(x.buf),
     dst |-> IF HasHead(x.buf) THEN Append(x.dst, HeadTask(x.buf)) ELSE x.dst]

\* The loop, turn by turn.
Popped ==
    LET after[n \in 0 .. BatchSize] ==
          IF n = 0 THEN [buf |-> b, dst |-> <<>>] ELSE PopTurn(after[n - 1])
    IN  after[BatchSize]

PopBatch ==
    /\ b' = Popped.buf
    /\ out' = <<"Popped", Popped.dst>>
    /\ UNCHANGED overflowClosed

Length == out' = <<"Len", b.chunkLen>> /\ UNCHANGED <<b, overflowClosed>>

Close == overflowClosed' = TRUE /\ out' = <<"none">> /\ UNCHANGED b

\* The garbage collector empties a sync.Pool when it likes.
DropPooled(c) ==
    /\ c \in b.chunkPool
    /\ b' = [b EXCEPT !.chunkPool = @ \ {c}, !.unused = @ \cup {c},
                      !.tasks[c] = EmptySlots, !.next[c] = Nil]
    /\ UNCHANGED <<overflowClosed, out>>

Next ==
    \/ \E t \in Task : PushAndForward(t)
    \/ PopBatch \/ Length \/ Close
    \/ \E c \in Chunk : DropPooled(c)

Spec == Init /\ [][Next]_vars

-----------------------------------------------------------------------------
\* The chunks of the list, by their distance from the head, up to the one
\* that holds the last task.
Hops(s) ==
    LET hop[n \in 0 .. (s.headIdx + s.chunkLen - 1) \div ChunkSize] ==
          IF n = 0 THEN s.headChunk ELSE s.next[hop[n - 1]]
    IN  hop

\* The buffered tasks, as the indices and links of the code lay them out.
ContentsOf(s) ==
    [k \in 1 .. s.chunkLen |->
        LET i == s.headIdx + k - 1
        IN  s.tasks[Hops(s)[i \div ChunkSize]][i % ChunkSize]]

Contents == ContentsOf(b)

Fifo == INSTANCE TaskFifo WITH queue <- Contents

(***************************************************************************)
(* The chunked buffer is a bounded FIFO: through every crossing of a chunk *)
(* boundary, lazy recycling of a drained chunk and reuse of a recycled     *)
(* one, pushes and pops keep the order, no task is lost, none comes twice, *)
(* and chunkLen, on which the bound and the scaler rely, is the length.    *)
(***************************************************************************)
ImplementsFifo == Fifo!Spec

\* A chunk waiting in chunkPool is out of the list, linked to nothing, and
\* retains no task ("help GC"): reuse cannot resurrect an old task, and a
\* finished task can be collected.
RecycledChunksAreClean ==
    \A c \in b.chunkPool :
        /\ b.next[c] = Nil /\ b.tasks[c] = EmptySlots
        /\ c \notin {b.headChunk, b.tailChunk}
        /\ \A d \in Chunk : b.next[d] # c
=============================================================================
