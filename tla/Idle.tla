-------------------------------- MODULE Idle --------------------------------
(***************************************************************************)
(* The idle container of a pool: one of five data structures, chosen by    *)
(* NewPool, under the operations the pool calls on it with muIdle held.    *)
(* A worker is in the container at most once (worker.go, run), and its     *)
(* date does not change while it is there.                                 *)
(***************************************************************************)
EXTENDS IdleQueues

CONSTANTS
    Time,           \* dates and cutoffs (a bound)
    Node, Priority

INSTANCE IdleOrdered WITH Absent <- Nil

VARIABLES kind, c, out

vars == <<kind, c, out>>

FifoKind == {"LinkedList", "Slice", "RingQueue"}

Kind == FifoKind \cup {"MinHeap", "Treap"}

NewContainer(k) ==
    CASE k = "LinkedList" -> NewLinkedList
      [] k = "MinHeap"    -> NewMinHeap
      [] k = "Slice"      -> NewSlice
      [] k = "RingQueue"  -> NewRingQueue
      [] k = "Treap"      -> NewTreap

\* The idle elements in the order in which Pop would return them.
Line ==
    CASE kind = "LinkedList" -> ListFrom(c, c.head)
      [] kind = "MinHeap"    -> HeapOrder(c)
      [] kind = "Slice"      -> c.workers
      [] kind = "RingQueue"  -> [i \in 1 .. c.length |-> c.buf[RingSlot(c, i - 1)]]
      [] kind = "Treap"      -> TreapFrom(c, c.root)

Init ==
    /\ kind \in Kind
    /\ c = NewContainer(kind)
    /\ out = <<"none">>

Add(e) ==
    /\ \A x \in ToSet(Line) : x.w # e.w
    /\ CASE kind = "LinkedList" -> c' = ListAdd(c, e)
         [] kind = "MinHeap"    -> c' = HeapAdd(c, e)
         [] kind = "Slice"      -> c' = SliceAdd(c, e)
         [] kind = "RingQueue"  -> c' = RingAdd(c, e)
         [] kind = "Treap"      -> c' \in TreapAdd(c, e)
    /\ out' = <<"none">>
    /\ UNCHANGED kind

\* An operation op leaves <<container, result>> behind.
Returns(op, pair) == c' = pair[1] /\ out' = <<op, pair[2]>> /\ UNCHANGED kind

Pop ==
    Returns("Popped",
        CASE kind = "LinkedList" -> ListPop(c)
          [] kind = "MinHeap"    -> HeapPop(c)
          [] kind = "Slice"      -> SlicePop(c)
          [] kind = "RingQueue"  -> RingPop(c)
          [] kind = "Treap"      -> TreapPop(c))

RemoveExpired(cutoff) ==
    Returns("Removed",
        CASE kind = "LinkedList" -> ListRemoveExpired(c, cutoff)
          [] kind = "MinHeap"    -> HeapRemoveExpired(c, cutoff)
          [] kind = "Slice"      -> SliceRemoveExpired(c, cutoff)
          [] kind = "RingQueue"  -> RingRemoveExpired(c, cutoff)
          [] kind = "Treap"      -> TreapRemoveExpired(c, cutoff))

Length == Returns("Len", <<c, IF kind \in {"MinHeap", "Treap"} THEN c.size ELSE c.length>>)

Next ==
    \/ \E e \in [w : Worker, at : Time] : Add(e)
    \/ Pop
    \/ \E cutoff \in Time : RemoveExpired(cutoff)
    \/ Length

Spec == Init /\ [][Next]_vars

-----------------------------------------------------------------------------
Abstract == INSTANCE IdleContainer WITH line <- Line, fifo <- kind \in FifoKind

(***************************************************************************)
(* Whichever structure the pool uses, it is an idle container: Pop returns *)
(* the longest waiting, or the longest inactive, worker, RemoveExpired     *)
(* takes every expired worker and no other and reports their number, and   *)
(* the count GetIdleWorkerCount reads without a lock is the number of      *)
(* workers, through growth, wrap-around, compaction, rotation and reuse.   *)
(***************************************************************************)
ImplementsContainer == Abstract!Spec

\* A treap node outside the tree links to nothing: Add does not reset the links
\* of the node that it takes from the pool, so a stale one would graft a
\* subtree that is already in the tree, or gone.
PooledNodesAreClean ==
    kind = "Treap" =>
        \A n \in Node : c.value[n] = Nil => c.left[n] = Nil /\ c.right[n] = Nil

\* No node of the treap has a smaller priority than its parent, on which its
\* expected depth, and so the cost of expiry under muIdle, rests.
TreapKeepsPriorities ==
    kind = "Treap" =>
        \A n \in Node, m \in Node :
            m \in {c.left[n], c.right[n]} => c.priority[n] <= c.priority[m]
=============================================================================
