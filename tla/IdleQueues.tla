----------------------------- MODULE IdleQueues -----------------------------
(***************************************************************************)
(* The first-in-first-out idle containers (internal/idle): Slice,          *)
(* RingQueue and LinkedList, each a record and operators on it.  An        *)
(* operator that also returns something yields <<container, result>>.      *)
(***************************************************************************)
EXTENDS Integers, Sequences, SequencesExt

CONSTANTS
    Worker,         \* the elements' identities
    Nil,            \* the zero value, the nil pointer
    RingCapacity    \* defaultRingQueueCapacity (scaled down)

\* DatedTime().After(cutoff), or DatedTime().Add(expiry).After(now).
Survives(e, cutoff) == e.at > cutoff

-----------------------------------------------------------------------------
NewSlice == [workers |-> <<>>, length |-> 0]

SliceAdd(s, e) == [workers |-> Append(s.workers, e), length |-> s.length + 1]

SlicePop(s) ==
    IF s.length = 0
    THEN <<s, Nil>>
    ELSE <<[workers |-> Tail(s.workers), length |-> s.length - 1], Head(s.workers)>>

SliceRemoveExpired(s, cutoff) ==
    LET survivors == SelectSeq(s.workers, LAMBDA e : Survives(e, cutoff))
        removed   == Len(s.workers) - Len(survivors)
    IN  IF s.length = 0
        THEN <<s, 0>>
        ELSE <<[workers |-> survivors, length |-> s.length - removed], removed>>

-----------------------------------------------------------------------------
NewRingQueue == [buf |-> [i \in 0 .. RingCapacity - 1 |-> Nil],
                 head |-> 0, tail |-> 0, length |-> 0]

Cap(r) == Cardinality(DOMAIN r.buf)

\* The slot i places from the head.
RingSlot(r, i) == (r.head + i) % Cap(r)

RingGrow(r) ==
    [r EXCEPT !.buf = [i \in 0 .. 2 * Cap(r) - 1 |->
                          IF i < r.length THEN r.buf[RingSlot(r, i)] ELSE Nil],
              !.head = 0,
              !.tail = r.length]

RingAdd(r, e) ==
    LET g == IF Cap(r) = r.length THEN RingGrow(r) ELSE r
    IN  [g EXCEPT !.buf[g.tail] = e,
                  !.tail = (@ + 1) % Cap(g),
                  !.length = @ + 1]

RingPop(r) ==
    IF r.length = 0
    THEN <<r, Nil>>
    ELSE <<[r EXCEPT !.buf[r.head] = Nil,
                     !.head = RingSlot(r, 1),
                     !.length = @ - 1], r.buf[r.head]>>

\* One turn of the compaction loop: a survivor moves to the write position.
RingCompact(r, cutoff, a, i) ==
    LET e == a.buf[RingSlot(r, i)]
    IN  IF Survives(e, cutoff)
        THEN [buf |-> [a.buf EXCEPT ![RingSlot(r, a.writeIdx)] = e],
              writeIdx |-> a.writeIdx + 1]
        ELSE a

RingTail(r, n) == RingSlot(r, n)

RingRemoveExpired(r, cutoff) ==
    LET turns   == [i \in 1 .. r.length |-> i - 1]
        a       == FoldLeft(LAMBDA acc, i : RingCompact(r, cutoff, acc, i),
                            [buf |-> r.buf, writeIdx |-> 0], turns)
        cleared == {RingSlot(r, i) : i \in a.writeIdx .. r.length - 1}
    IN  IF r.length = 0
        THEN <<r, 0>>
        ELSE <<[buf |-> [i \in DOMAIN r.buf |->
                            IF i \in cleared THEN Nil ELSE a.buf[i]],
                head |-> r.head,
                tail |-> RingTail(r, a.writeIdx),
                length |-> a.writeIdx], r.length - a.writeIdx>>

-----------------------------------------------------------------------------
(***************************************************************************)
(* LinkedList.  A node bears the name of its element's worker; a node that *)
(* has left the list is garbage and has its fields reset.                  *)
(***************************************************************************)
NewLinkedList == [head |-> Nil, tail |-> Nil, length |-> 0,
                  val |-> [n \in Worker |-> Nil],
                  next |-> [n \in Worker |-> Nil],
                  prev |-> [n \in Worker |-> Nil]]

ListAdd(l, e) ==
    LET node == [l EXCEPT !.val[e.w] = e, !.tail = e.w, !.length = @ + 1]
    IN  IF l.head = Nil /\ l.tail = Nil
        THEN [node EXCEPT !.head = e.w]
        ELSE [node EXCEPT !.next[l.tail] = e.w, !.prev[e.w] = l.tail]

Dropped(l, n) ==
    [l EXCEPT !.val[n] = Nil, !.next[n] = Nil, !.prev[n] = Nil, !.length = @ - 1]

ListPop(l) ==
    IF l.head = Nil
    THEN <<l, Nil>>
    ELSE LET rest == IF l.head = l.tail
                     THEN [l EXCEPT !.head = Nil, !.tail = Nil]
                     ELSE [l EXCEPT !.head = l.next[l.head],
                                    !.prev[l.next[l.head]] = Nil]
         IN  <<Dropped(rest, l.head), l.val[l.head]>>

\* Mutant: the node after a removed one keeps its link back.
UnlinkForwardOnly(l, n) ==
    LET a == IF l.prev[n] # Nil THEN [l EXCEPT !.next[l.prev[n]] = l.next[n]]
                                ELSE [l EXCEPT !.head = l.next[n]]
    IN  IF a.next[n] # Nil THEN a ELSE [a EXCEPT !.tail = a.prev[n]]

\* removeNode, but for the fields of the node itself.
Unlink(l, n) ==
    LET a == IF l.prev[n] # Nil THEN [l EXCEPT !.next[l.prev[n]] = l.next[n]]
                                ELSE [l EXCEPT !.head = l.next[n]]
    IN  IF a.next[n] # Nil THEN [a EXCEPT !.prev[a.next[n]] = a.prev[n]]
                           ELSE [a EXCEPT !.tail = a.prev[n]]

RECURSIVE ListSweep(_, _, _, _)
ListSweep(l, node, cutoff, removed) ==
    IF node = Nil
    THEN <<l, removed>>
    ELSE IF Survives(l.val[node], cutoff)
         THEN ListSweep(l, l.next[node], cutoff, removed)
         ELSE ListSweep(Dropped(Unlink(l, node), node), l.next[node], cutoff,
                        removed + 1)

ListRemoveExpired(l, cutoff) == ListSweep(l, l.head, cutoff, 0)

\* The elements from node n on, along the next links.
RECURSIVE ListFrom(_, _)
ListFrom(l, n) ==
    IF n = Nil THEN <<>> ELSE <<l.val[n]>> \o ListFrom(l, l.next[n])
=============================================================================
