---------------------------- MODULE IdleOrdered ----------------------------
(***************************************************************************)
(* The idle containers ordered by date (internal/idle): MinHeap and Treap, *)
(* each a record and operators on it.  An operator that also returns       *)
(* something yields <<container, result>>.                                 *)
(***************************************************************************)
EXTENDS Integers, Sequences, TLC

CONSTANTS
    Node,           \* the treap's nodes, as many as ever exist at once
    Priority,       \* what rand.Int may return
    Absent          \* the zero value, the nil pointer

-----------------------------------------------------------------------------
(***************************************************************************)
(* MinHeap.  Up, Down and what HeapAdd and HeapPop make of them are        *)
(* container/heap's, from index 1.                                         *)
(***************************************************************************)
NewMinHeap == [inner |-> <<>>, size |-> 0]

Less(a, i, j) == a[i].at < a[j].at

Swap(a, i, j) == [a EXCEPT ![i] = a[j], ![j] = a[i]]

RECURSIVE Up(_, _)
Up(a, j) ==
    IF j = 1 \/ ~Less(a, j, j \div 2)
    THEN a
    ELSE Up(Swap(a, j \div 2, j), j \div 2)

RECURSIVE Down(_, _, _)
Down(a, i, n) ==
    LET j == IF 2 * i + 1 <= n /\ Less(a, 2 * i + 1, 2 * i) THEN 2 * i + 1 ELSE 2 * i
    IN  IF 2 * i > n \/ ~Less(a, j, i) THEN a ELSE Down(Swap(a, i, j), j, n)

HeapAdd(h, e) ==
    [inner |-> Up(Append(h.inner, e), Len(h.inner) + 1), size |-> h.size + 1]

HeapPop(h) ==
    LET n == Len(h.inner)
        a == Down(Swap(h.inner, 1, n), 1, n - 1)
    IN  IF n = 0
        THEN <<h, Absent>>
        ELSE <<[inner |-> SubSeq(a, 1, n - 1), size |-> h.size - 1], a[n]>>

\* Pop while the root has expired.
RECURSIVE HeapSweep(_, _, _)
HeapSweep(h, cutoff, removed) ==
    IF h.inner = <<>> \/ h.inner[1].at > cutoff
    THEN <<h, removed>>
    ELSE HeapSweep(HeapPop(h)[1], cutoff, removed + 1)

HeapRemoveExpired(h, cutoff) == HeapSweep(h, cutoff, 0)

\* The elements as Pop would return them: the root, then the others by date.
HeapOrder(h) ==
    IF h.inner = <<>>
    THEN <<>>
    ELSE <<h.inner[1]>> \o SortSeq(Tail(h.inner), LAMBDA x, y : x.at < y.at)

-----------------------------------------------------------------------------
(***************************************************************************)
(* Treap.  A node without a value is in the pool of nodes or was never     *)
(* allocated.  The priority such a node keeps is overwritten before it is  *)
(* read, so it is reset.                                                   *)
(***************************************************************************)
NewTreap == [root |-> Absent, size |-> 0,
             value |-> [n \in Node |-> Absent],
             left |-> [n \in Node |-> Absent],
             right |-> [n \in Node |-> Absent],
             priority |-> [n \in Node |-> 0]]

\* What split returns, and the treap with its links rearranged.
RECURSIVE Split(_, _, _)
Split(t, u, k) ==
    IF u = Absent
    THEN [t |-> t, left |-> Absent, right |-> Absent]
    ELSE IF t.value[u].at > k
         THEN LET s == Split(t, t.left[u], k)
              IN  [t |-> [s.t EXCEPT !.left[u] = s.right], left |-> s.left, right |-> u]
         ELSE LET s == Split(t, t.right[u], k)
              IN  [t |-> [s.t EXCEPT !.right[u] = s.left], left |-> u, right |-> s.right]

\* Mutant: the left tree stays on top whatever the priorities.
LeftOnTopAlways(t, left, right) == TRUE

LeftOnTop(t, left, right) == t.priority[left] < t.priority[right]

\* The merged tree's root, and the treap with its links rearranged.
RECURSIVE Merge(_, _, _)
Merge(t, left, right) ==
    CASE left = Absent -> [t |-> t, root |-> right]
      [] left # Absent /\ right = Absent -> [t |-> t, root |-> left]
      [] OTHER ->
           IF LeftOnTop(t, left, right)
           THEN LET m == Merge(t, t.right[left], right)
                IN  [t |-> [m.t EXCEPT !.right[left] = m.root], root |-> left]
           ELSE LET m == Merge(t, left, t.left[right])
                IN  [t |-> [m.t EXCEPT !.left[right] = m.root], root |-> right]

\* Give node n back to the pool of nodes.
PutNode(t, n) ==
    [t EXCEPT !.value[n] = Absent, !.priority[n] = 0, !.size = @ - 1]

\* pool.Get: a node as it was put back, or a new one.
GetNode(t) ==
    UNION {{<<t, n>>, <<[t EXCEPT !.left[n] = Absent, !.right[n] = Absent], n>>} :
              n \in {m \in Node : t.value[m] = Absent}}

\* The treap after e has been put into node n with priority p.
Inserted(t, n, e, p) ==
    LET a == [t EXCEPT !.value[n] = e, !.priority[n] = p, !.size = @ + 1]
        s == Split(a, a.root, e.at)
        r == Merge(s.t, n, s.right)
        m == Merge(r.t, s.left, r.root)
    IN  [m.t EXCEPT !.root = m.root]

\* The treaps Add may leave behind.
TreapAdd(t, e) ==
    {Inserted(g[1], g[2], e, p) : g \in GetNode(t), p \in Priority}

\* The leftmost node below pre, with its parent.
RECURSIVE Leftmost(_, _)
Leftmost(t, pre) ==
    LET node == t.left[pre]
    IN  IF t.left[node] = Absent THEN <<pre, node>> ELSE Leftmost(t, node)

\* Mutant: a popped node keeps its right subtree.
UnhookedKeepingRight(t, n) == t

\* A popped node is put back without its right subtree.
Unhooked(t, n) == [t EXCEPT !.right[n] = Absent]

TreapPop(t) ==
    IF t.root = Absent
    THEN <<t, Absent>>
    ELSE IF t.left[t.root] = Absent
         THEN LET a == [t EXCEPT !.root = t.right[t.root]]
              IN  <<PutNode(Unhooked(a, t.root), t.root), t.value[t.root]>>
         ELSE LET found == Leftmost(t, t.root)
                  node  == found[2]
                  a     == [t EXCEPT !.left[found[1]] = t.right[node]]
              IN  <<PutNode(Unhooked(a, node), node), t.value[node]>>

RECURSIVE RemoveTree(_, _)
RemoveTree(t, u) ==
    IF u = Absent
    THEN t
    ELSE LET a == [RemoveTree(t, t.left[u]) EXCEPT !.left[u] = Absent]
             b == [RemoveTree(a, a.right[u]) EXCEPT !.right[u] = Absent]
         IN  PutNode(b, u)

TreapRemoveExpired(t, cutoff) ==
    LET s == Split(t, t.root, cutoff)
        r == RemoveTree([s.t EXCEPT !.root = s.right], s.left)
    IN  <<r, t.size - r.size>>

\* The elements below node u, in order.
RECURSIVE TreapFrom(_, _)
TreapFrom(t, u) ==
    IF u = Absent
    THEN <<>>
    ELSE TreapFrom(t, t.left[u]) \o <<t.value[u]>> \o TreapFrom(t, t.right[u])
=============================================================================
