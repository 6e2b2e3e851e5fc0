-------------------------- MODULE TaskBufferProofs --------------------------
(***************************************************************************)
(* The overflow buffer, for every size of its chunks, of a batch and of    *)
(* the buffer: its list of chunks lays out one sequence of tasks, slot by  *)
(* slot, so it implements the queue Fifo, and nothing of a task stays      *)
(* behind in a chunk that is reused.                                       *)
(*                                                                         *)
(* Lays(s, q, C) says that the record s lays the tasks C out on the list of *)
(* chunks q.  One lemma for each helper of task_buffer.go says what it does *)
(* to a layout; the operations are compositions of the helpers.            *)
(***************************************************************************)
EXTENDS TaskBuffer, WellFoundedInduction, TLAPS

\* Slots are counted through the list, from slot 0 of the head chunk: the j-th
\* chunk begins at Start[j].
Start == [j \in Nat |-> (j - 1) * ChunkSize]

\* Chunks begin a chunk's size apart.
LEMMA StartType ==
    /\ Start \in [Nat -> Int]
    /\ Start[1] = 0
    /\ \A j \in Nat : Start[j + 1] = Start[j] + ChunkSize
    /\ \A j \in Nat \ {0} : Start[j] \in Nat
  BY BufferAssumption DEF Start

\* A later chunk begins after an earlier one has ended.
LEMMA StartOrder ==
    ASSUME NEW j \in Nat, NEW k \in Nat, j < k
    PROVE  Start[j] + ChunkSize <= Start[k]
<1>1. k - 1 - j \in Nat /\ (k - 1) * ChunkSize = j * ChunkSize + (k - 1 - j) * ChunkSize
  BY BufferAssumption
<1>2. (k - 1 - j) * ChunkSize \in Nat
  BY <1>1, BufferAssumption
<1>3. (j - 1) * ChunkSize + ChunkSize = j * ChunkSize
  BY BufferAssumption
<1>4. (j - 1) * ChunkSize \in Int /\ j * ChunkSize \in Nat /\ (k - 1) * ChunkSize \in Nat
  BY BufferAssumption
<1> QED
  BY <1>1, <1>2, <1>3, <1>4, BufferAssumption DEF Start

\* So a count through the list names one slot.
LEMMA SlotsDiffer ==
    ASSUME NEW j \in Nat, NEW k \in Nat, NEW i \in Slot, NEW l \in Slot,
           Start[j] + i = Start[k] + l
    PROVE  j = k /\ i = l
<1>1. i \in Nat /\ l \in Nat /\ i < ChunkSize /\ l < ChunkSize
  BY BufferAssumption DEF Slot
<1>2. Start \in [Nat -> Int]
  BY StartType
<1>3. j < k => Start[j] + ChunkSize <= Start[k]
  BY StartOrder
<1>4. k < j => Start[k] + ChunkSize <= Start[j]
  BY StartOrder
<1>5. j = k
  BY <1>1, <1>2, <1>3, <1>4, BufferAssumption
<1> QED
  BY <1>1, <1>2, <1>5

\* Where a position is.
LEMMA PositionSlot ==
    ASSUME NEW p \in Nat
    PROVE  /\ p \div ChunkSize \in Nat /\ p % ChunkSize \in Slot
           /\ Start[(p \div ChunkSize) + 1] + (p % ChunkSize) = p
<1> DEFINE n == p \div ChunkSize
           m == p % ChunkSize
<1>1. n \in Nat /\ m \in Slot /\ p = ChunkSize * n + m
  BY BufferAssumption DEF Slot
<1> HIDE DEF n, m
<1>2. Start[n + 1] + m = p
  BY <1>1, BufferAssumption DEF Start, Slot
<1> QED
  BY <1>1, <1>2 DEF n, m

\* The positions seen from the second chunk.
LEMMA NextStart ==
    ASSUME NEW j \in Nat, NEW i \in Nat, NEW n \in Nat
    PROVE  /\ (Start[j + 1] + i) - ChunkSize + 1 = (Start[j] + i) - 0 + 1
           /\ ChunkSize <= Start[j + 1] + i <=> 0 <= Start[j] + i
           /\ Start[j + 1] + i < ChunkSize + n <=> Start[j] + i < 0 + n
           /\ ChunkSize + n = Start[j + 1] + i => 0 + n = Start[j] + i
<1>1. Start[j + 1] = Start[j] + ChunkSize /\ Start[j] \in Int /\ ChunkSize \in Nat
  BY StartType, BufferAssumption
<1> QED
  BY <1>1

\* The size of a chunk is a number.
LEMMA SizeIsNat == ChunkSize \in Nat
  BY BufferAssumption

\* Taking the head moves the window of positions in use by one ...
LEMMA HeadMoves ==
    \A h, l, z \in Nat : h < z => h + 1 <= z /\ (h + 1) + (l - 1) = h + l
  OBVIOUS

\* ... which leaves all of its positions but the first.
LEMMA WindowShrinks ==
    \A h, l, p \in Nat :
        l # 0 => ((h + 1 <= p /\ p < h + 1 + (l - 1)) <=> (h <= p /\ p < h + l) /\ p # h)
  OBVIOUS

\* Writing at the tail adds the position after the last one.
LEMMA WindowGrows ==
    \A h, l, p \in Nat :
        /\ (h <= p /\ p < h + (l + 1)) <=> (h <= p /\ p < h + l) \/ p = h + l
        /\ (h <= p /\ p < h + (l + 1)) => h <= p
        /\ (h <= p /\ p < h + l) => p # h + l
  OBVIOUS

-----------------------------------------------------------------------------
\* The types of the fields.
BufferRecord ==
    [headChunk : Chunk \cup {Nil}, tailChunk : Chunk \cup {Nil},
     headIdx : Nat, tailIdx : Nat, chunkLen : Nat,
     tasks : [Chunk -> [Slot -> Task \cup {Nil}]],
     next : [Chunk -> Chunk \cup {Nil}],
     chunkPool : SUBSET Chunk, unused : SUBSET Chunk]

\* The chunk c is in the list q.
IsIn(c, q) == \E i \in 1 .. Len(q) : q[i] = c

\* The chunks q are distinct and linked in this order; every other chunk is
\* linked to nothing and empty, and only such chunks can be reused.
Links(s, q) ==
    /\ \A i, j \in 1 .. Len(q) : q[i] = q[j] => i = j
    /\ \A i \in 1 .. Len(q) - 1 : s.next[q[i]] = q[i + 1]
    /\ q # <<>> => s.next[q[Len(q)]] = Nil
    /\ \A c \in Chunk : ~IsIn(c, q) => s.next[c] = Nil /\ s.tasks[c] = EmptySlots
    /\ \A c \in s.chunkPool \cup s.unused : ~IsIn(c, q)

\* Head and tail are the ends of q, and the length counts the slots between.
Ends(s, q) ==
    \/ /\ q = <<>>
       /\ s.headChunk = Nil /\ s.tailChunk = Nil
       /\ s.headIdx = 0 /\ s.tailIdx = 0 /\ s.chunkLen = 0
    \/ /\ q # <<>>
       /\ s.headChunk = q[1] /\ s.tailChunk = q[Len(q)]
       /\ s.headIdx <= ChunkSize /\ s.tailIdx <= ChunkSize
       /\ s.headIdx + s.chunkLen = Start[Len(q)] + s.tailIdx

\* The p-th slot of the list is between head and tail.
InUse(s, p) == s.headIdx <= p /\ p < s.headIdx + s.chunkLen

\* The slots in use hold the tasks C, in order; the other slots are empty.
Slots(s, q, C) ==
    \A j \in 1 .. Len(q), i \in Slot :
        /\ InUse(s, Start[j] + i) =>
              s.tasks[q[j]][i] = C[(Start[j] + i) - s.headIdx + 1]
        /\ ~InUse(s, Start[j] + i) => s.tasks[q[j]][i] = Nil

\* The record s lays the tasks C out on the chunks q.
Lays(s, q, C) ==
    /\ s \in BufferRecord /\ q \in Seq(Chunk) /\ C \in Seq(Task)
    /\ Len(C) = s.chunkLen
    /\ Links(s, q) /\ Ends(s, q) /\ Slots(s, q, C)

\* What the first two conjuncts of a drop need: a chunk at the head without a task leaves the list.
LEMMA DropHeadLinks ==
    ASSUME NEW s \in BufferRecord, NEW u \in BufferRecord, NEW q \in Seq(Chunk),
           q # <<>>, Links(s, q), s.tasks[q[1]] = EmptySlots,
           u.next = [s.next EXCEPT ![q[1]] = Nil], u.tasks = s.tasks,
           u.chunkPool = s.chunkPool \cup {q[1]}, u.unused = s.unused
    PROVE  Links(u, Tail(q))
<1> DEFINE r == Tail(q)
<1>1. /\ Len(q) \in Nat \ {0} /\ r \in Seq(Chunk) /\ Len(r) = Len(q) - 1
      /\ \A i \in 1 .. Len(r) : i + 1 \in 1 .. Len(q) /\ r[i] = q[i + 1]
  OBVIOUS
<1>2. q[1] \in Chunk /\ \A i \in 1 .. Len(r) : r[i] \in Chunk /\ r[i] # q[1]
  BY <1>1 DEF Links
<1>3. \A c \in Chunk : c # q[1] => (IsIn(c, r) <=> IsIn(c, q))
  <2> SUFFICES ASSUME NEW c \in Chunk, c # q[1], IsIn(c, q) PROVE IsIn(c, r)
    BY <1>1 DEF IsIn
  <2>1. PICK i \in 1 .. Len(q) : q[i] = c
    BY DEF IsIn
  <2>2. i # 1 /\ i - 1 \in 1 .. Len(r) /\ r[i - 1] = q[i]
    BY <1>1, <2>1
  <2> QED
    BY <2>1, <2>2 DEF IsIn
<1>4. ~IsIn(q[1], r)
  BY <1>2 DEF IsIn
<1> HIDE DEF r
<1>5. \A i, j \in 1 .. Len(r) : r[i] = r[j] => i = j
  BY <1>1 DEF Links
<1>6. \A i \in 1 .. Len(r) - 1 : u.next[r[i]] = r[i + 1]
  <2> SUFFICES ASSUME NEW i \in 1 .. Len(r) - 1 PROVE u.next[r[i]] = r[i + 1]
    OBVIOUS
  <2>1. /\ i \in 1 .. Len(r) /\ i + 1 \in 1 .. Len(r) /\ i + 1 \in 1 .. Len(q) - 1
    BY <1>1
  <2>2. s.next[q[i + 1]] = q[i + 1 + 1]
    BY <2>1 DEF Links
  <2> QED
    BY <1>1, <1>2, <2>1, <2>2 DEF BufferRecord
<1>7. r # <<>> => u.next[r[Len(r)]] = Nil
  <2> SUFFICES ASSUME r # <<>> PROVE u.next[r[Len(r)]] = Nil
    OBVIOUS
  <2>1. Len(r) \in 1 .. Len(r) /\ r[Len(r)] = q[Len(q)]
    BY <1>1
  <2> QED
    BY <1>2, <2>1 DEF Links, BufferRecord
<1>8. ASSUME NEW c \in Chunk, ~IsIn(c, r)
      PROVE  u.next[c] = Nil /\ u.tasks[c] = EmptySlots
  BY <1>2, <1>3, <1>8 DEF Links, BufferRecord
<1>9. \A c \in u.chunkPool \cup u.unused : ~IsIn(c, r)
  BY <1>3, <1>4 DEF Links, BufferRecord
<1>10. Links(u, r)
  BY <1>5, <1>6, <1>7, <1>8, <1>9 DEF Links
<1> QED
  BY <1>10 DEF r

\* pushTail writes a task at once into a chunk that it links.
Tight(s) == s.tailChunk # Nil => s.tailIdx >= 1

\* The ends of a list that has chunks.
LEMMA NonEmptySeq ==
    ASSUME NEW q \in Seq(Chunk), q # <<>>
    PROVE  /\ Len(q) \in Nat \ {0} /\ q[1] \in Chunk /\ q[Len(q)] \in Chunk
           /\ 1 \in 1 .. Len(q) /\ Len(q) \in 1 .. Len(q)
           /\ Len(q) # 1 => 1 \in 1 .. Len(q) - 1 /\ q[2] \in Chunk /\ 1 < Len(q)
           /\ Len(q) = 1 => Tail(q) = <<>>
           /\ <<>> \in Seq(Chunk)
<1>1. Len(q) \in Nat \ {0} /\ q[1] \in Chunk /\ q[Len(q)] \in Chunk
  OBVIOUS
<1>2. 1 \in 1 .. Len(q) /\ Len(q) \in 1 .. Len(q)
  OBVIOUS
<1>3. Len(q) # 1 => 1 \in 1 .. Len(q) - 1 /\ 1 < Len(q)
  <2>1. \A n \in Nat \ {0} : n # 1 => 1 \in 1 .. n - 1 /\ 1 < n
    OBVIOUS
  <2> QED
    BY Zenon, <1>1, <2>1
<1>4. Len(q) # 1 => q[2] \in Chunk
  BY <1>3
<1>5. Len(q) = 1 => Tail(q) = <<>>
  <2>1. Tail(q) \in Seq(Chunk) /\ (Len(q) = 1 => Len(Tail(q)) = 0)
    BY <1>1
  <2>2. \A w \in Seq(Chunk) : Len(w) = 0 => w = <<>>
    OBVIOUS
  <2> QED
    BY <2>1, <2>2
<1>6. <<>> \in Seq(Chunk)
  OBVIOUS
<1> QED
  BY Zenon, <1>1, <1>2, <1>3, <1>4, <1>5, <1>6

\* The head and the tail tell whether there are chunks.
LEMMA ListNotEmpty ==
    ASSUME NEW s \in BufferRecord, NEW q \in Seq(Chunk), NEW C \in Seq(Task),
           Lays(s, q, C)
    PROVE  /\ s.headChunk # Nil <=> q # <<>>
           /\ s.tailChunk # Nil <=> q # <<>>
  BY BufferAssumption DEF Lays, Ends

\* The first chunk of the list.
LEMMA FirstChunk ==
    ASSUME NEW s \in BufferRecord, NEW q \in Seq(Chunk), NEW C \in Seq(Task),
           Lays(s, q, C), q # <<>>
    PROVE  /\ s.headChunk = q[1] /\ q[1] \in Chunk /\ Len(q) \in Nat \ {0}
           /\ s.next[q[1]] = IF Len(q) = 1 THEN Nil ELSE q[2]
<1>1. q \in Seq(Chunk) /\ Links(s, q) /\ Ends(s, q)
  BY DEF Lays
<1>2. s.headChunk = q[1]
  BY <1>1 DEF Ends
<1> QED
  BY <1>1, <1>2, NonEmptySeq DEF Links

\* A chunk whose slots are all out of use is as good as new.
LEMMA ExhaustedIsEmpty ==
    ASSUME NEW s \in BufferRecord, NEW q \in Seq(Chunk), NEW C \in Seq(Task),
           Lays(s, q, C), q # <<>>,
           \A i \in Slot : ~InUse(s, i)
    PROVE  s.tasks[q[1]] = EmptySlots
<1>1. s \in BufferRecord /\ Slots(s, q, C)
  BY DEF Lays
<1>2. q[1] \in Chunk /\ 1 \in 1 .. Len(q)
  BY FirstChunk
<1>3. \A i \in Slot : Start[1] + i = i
  BY StartType, BufferAssumption DEF Slot, BufferRecord
<1>4. \A i \in Slot : s.tasks[q[1]][i] = Nil
  BY <1>1, <1>2, <1>3 DEF Slots
<1> QED
  BY <1>1, <1>2, <1>4 DEF BufferRecord, EmptySlots

\* The fields of a buffer that moves on from its head chunk.
LEMMA AdvancedFields ==
    ASSUME NEW s \in BufferRecord, s.headChunk # Nil, ~(s.headIdx < ChunkSize),
           NEW nx \in Chunk \cup {Nil}, s.next[s.headChunk] = nx
    PROVE  /\ Advanced(s) \in BufferRecord
           /\ Advanced(s).headChunk = nx /\ Advanced(s).headIdx = 0
           /\ Advanced(s).tailChunk = IF nx = Nil THEN Nil ELSE s.tailChunk
           /\ Advanced(s).tailIdx = IF nx = Nil THEN 0 ELSE s.tailIdx
           /\ Advanced(s).chunkLen = s.chunkLen
           /\ Advanced(s).tasks = s.tasks /\ Advanced(s).unused = s.unused
           /\ Advanced(s).next = [s.next EXCEPT ![s.headChunk] = Nil]
           /\ Advanced(s).chunkPool = s.chunkPool \cup {s.headChunk}
  BY DEF Advanced, Recycle, BufferRecord

\* When peekHead moves on from an exhausted chunk, the layout is the same on one
\* chunk less.
LEMMA AdvancedLays ==
    ASSUME NEW s \in BufferRecord, NEW q \in Seq(Chunk), NEW C \in Seq(Task),
           Lays(s, q, C), Tight(s)
    PROVE  /\ \E r \in Seq(Chunk) : Lays(Advanced(s), r, C)
           /\ Tight(Advanced(s))
           /\ Advanced(s).headChunk # Nil => Advanced(s).headIdx < ChunkSize
<1>1. CASE s.headChunk = Nil \/ s.headIdx < ChunkSize
  <2>1. Advanced(s) = s
    BY <1>1 DEF Advanced
  <2> QED
    BY <1>1, <2>1 DEF Lays
<1>2. CASE s.headChunk # Nil /\ ~(s.headIdx < ChunkSize)
  <2> DEFINE a == Advanced(s)
             r == Tail(q)
  <2>1. /\ s \in BufferRecord /\ q \in Seq(Chunk) /\ C \in Seq(Task) /\ Len(C) = s.chunkLen
        /\ Links(s, q) /\ Ends(s, q) /\ Slots(s, q, C)
    BY DEF Lays
  <2>2. q # <<>>
    BY <1>2, ListNotEmpty
  <2>3. /\ s.headChunk = q[1] /\ q[1] \in Chunk /\ Len(q) \in Nat \ {0}
        /\ s.next[q[1]] = IF Len(q) = 1 THEN Nil ELSE q[2]
    BY <2>2, FirstChunk
  <2>4. s.headIdx = ChunkSize /\ s.chunkLen \in Nat /\ s.tailIdx \in Nat
    BY <1>2, <2>1, <2>2, BufferAssumption DEF Ends, BufferRecord
  <2>5. s.tasks[q[1]] = EmptySlots
    <3>1. \A i \in Slot : ~InUse(s, i)
      BY <2>4, BufferAssumption DEF InUse, Slot
    <3> QED
      BY <2>2, <3>1, ExhaustedIsEmpty
  <2>6. /\ a \in BufferRecord /\ a.headIdx = 0 /\ a.chunkLen = s.chunkLen
        /\ a.tasks = s.tasks /\ a.unused = s.unused
        /\ a.next = [s.next EXCEPT ![q[1]] = Nil] /\ a.chunkPool = s.chunkPool \cup {q[1]}
        /\ a.headChunk = IF Len(q) = 1 THEN Nil ELSE q[2]
        /\ a.tailChunk = IF Len(q) = 1 THEN Nil ELSE s.tailChunk
        /\ a.tailIdx = IF Len(q) = 1 THEN 0 ELSE s.tailIdx
    <3>1. Len(q) # 1 => q[2] \in Chunk /\ q[2] # Nil
      BY Zenon, <2>2, NonEmptySeq, BufferAssumption
    <3> DEFINE nx == IF Len(q) = 1 THEN Nil ELSE q[2]
    <3>2. nx \in Chunk \cup {Nil} /\ s.next[s.headChunk] = nx /\ (nx = Nil <=> Len(q) = 1)
      BY <2>3, <3>1
    <3> HIDE DEF nx
    <3>3. /\ a \in BufferRecord /\ a.headIdx = 0 /\ a.chunkLen = s.chunkLen
          /\ a.tasks = s.tasks /\ a.unused = s.unused
          /\ a.next = [s.next EXCEPT ![q[1]] = Nil] /\ a.chunkPool = s.chunkPool \cup {q[1]}
          /\ a.headChunk = nx
          /\ a.tailChunk = IF nx = Nil THEN Nil ELSE s.tailChunk
          /\ a.tailIdx = IF nx = Nil THEN 0 ELSE s.tailIdx
      BY Zenon, <1>2, <2>3, <3>2, AdvancedFields
    <3> QED
      BY <3>2, <3>3 DEF nx
  <2> HIDE DEF a
  <2>7. Links(a, r)
    BY <2>1, <2>2, <2>5, <2>6, DropHeadLinks
  <2>8. /\ r \in Seq(Chunk) /\ Len(r) = Len(q) - 1
        /\ \A i \in 1 .. Len(r) : i + 1 \in 1 .. Len(q) /\ r[i] = q[i + 1]
    BY <2>1, <2>2
  <2> HIDE DEF r
  <2>9. Ends(a, r)
    <3>1. CASE Len(q) = 1
      <4>1. s.headIdx + s.chunkLen = Start[1] + s.tailIdx /\ s.tailIdx <= ChunkSize
        BY <2>1, <2>2, <3>1 DEF Ends
      <4>2. s.chunkLen = 0
        BY ONLY <2>4, <4>1, StartType, BufferAssumption DEF BufferRecord
      <4>3. r = <<>>
        BY <2>8, <3>1
      <4> QED
        BY <2>6, <3>1, <4>2, <4>3 DEF Ends
    <3>2. CASE Len(q) # 1
      <4>1. r # <<>> /\ r[1] = q[2] /\ r[Len(r)] = q[Len(q)] /\ Len(r) \in Nat
        BY <2>3, <2>8, <3>2
      <4>2. s.headIdx + s.chunkLen = Start[Len(q)] + s.tailIdx /\ s.tailIdx <= ChunkSize
            /\ s.tailChunk = q[Len(q)]
        BY <2>1, <2>2 DEF Ends
      <4>3. Len(q) = Len(r) + 1
        BY <2>3, <2>8
      <4>4. ChunkSize + s.chunkLen = Start[Len(r) + 1] + s.tailIdx
        BY <2>4, <4>2, <4>3
      <4>5. 0 + s.chunkLen = Start[Len(r)] + s.tailIdx
        BY Zenon, <2>4, <4>1, <4>4, NextStart
      <4> QED
        BY <2>6, <3>2, <4>1, <4>2, <4>5, BufferAssumption DEF Ends
    <3> QED
      BY <3>1, <3>2
  <2>10. Slots(a, r, C)
    <3> SUFFICES ASSUME NEW j \in 1 .. Len(r), NEW i \in Slot
                 PROVE  /\ InUse(a, Start[j] + i) =>
                              a.tasks[r[j]][i] = C[(Start[j] + i) - a.headIdx + 1]
                        /\ ~InUse(a, Start[j] + i) => a.tasks[r[j]][i] = Nil
      BY DEF Slots
    <3>1. j + 1 \in 1 .. Len(q) /\ r[j] = q[j + 1] /\ j \in Nat
      BY <2>3, <2>8
    <3>2. i \in Nat
      BY BufferAssumption DEF Slot
    <3>3. (Start[j + 1] + i) - s.headIdx + 1 = (Start[j] + i) - a.headIdx + 1
      BY <2>4, <2>6, <3>1, <3>2, NextStart
    <3>4. InUse(s, Start[j + 1] + i) <=> InUse(a, Start[j] + i)
      BY <2>4, <2>6, <3>1, <3>2, NextStart DEF InUse
    <3> QED
      BY <2>1, <2>6, <3>1, <3>3, <3>4 DEF Slots
  <2>11. Lays(a, r, C)
    BY <2>1, <2>6, <2>7, <2>8, <2>9, <2>10 DEF Lays
  <2>12. Tight(a)
    BY <2>2, <2>6, ListNotEmpty DEF Tight
  <2> QED
    BY <2>6, <2>8, <2>11, <2>12, BufferAssumption DEF a
<1> QED
  BY <1>1, <1>2

\* A chunk at the head is the only one and without a task when it is also the
\* tail and the indices have met; else it holds a task.
LEMMA DrainedIff ==
    ASSUME NEW s \in BufferRecord, NEW q \in Seq(Chunk), NEW C \in Seq(Task),
           Lays(s, q, C), q # <<>>, s.headIdx < ChunkSize
    PROVE  /\ Drained(s) <=> s.chunkLen = 0
           /\ Drained(s) => Len(q) = 1
<1>1. /\ s.headChunk = q[1] /\ s.tailChunk = q[Len(q)] /\ s.tailIdx <= ChunkSize
      /\ s.headIdx + s.chunkLen = Start[Len(q)] + s.tailIdx
  BY DEF Lays, Ends
<1>2. \A i, j \in 1 .. Len(q) : q[i] = q[j] => i = j
  BY DEF Lays, Links
<1>3. Len(q) \in Nat \ {0} /\ q[1] \in Chunk /\ 1 \in 1 .. Len(q) /\ Len(q) \in 1 .. Len(q)
  BY Zenon, NonEmptySeq
<1>4. s.headChunk # Nil /\ (s.headChunk = s.tailChunk <=> Len(q) = 1)
  BY ONLY Zenon, <1>1, <1>2, <1>3, BufferAssumption
<1>5. s.headIdx \in Nat /\ s.tailIdx \in Nat /\ s.chunkLen \in Nat
  BY DEF BufferRecord
<1>6. CASE Len(q) = 1
  <2>1. s.headIdx + s.chunkLen = s.tailIdx
    <3>1. s.headIdx + s.chunkLen = 0 + s.tailIdx
      BY ONLY Zenon, <1>1, <1>6, StartType
    <3> QED
      BY ONLY <1>5, <3>1
  <2>2. s.headIdx >= s.tailIdx <=> s.chunkLen = 0
    BY ONLY <1>5, <2>1
  <2> QED
    BY ONLY Zenon, <1>4, <1>6, <2>2 DEF Drained
<1>7. CASE Len(q) # 1
  <2>1. Start[1] + ChunkSize <= Start[Len(q)]
    <3>1. 1 \in Nat /\ Len(q) \in Nat /\ 1 < Len(q)
      BY Zenon, <1>3, <1>7, NonEmptySeq
    <3> QED
      BY ONLY Zenon, <3>1, StartOrder
  <2>2. Start[Len(q)] \in Int /\ Start[1] = 0
    BY ONLY <1>3, StartType
  <2>3. s.chunkLen # 0
    <3> DEFINE e == Start[Len(q)]
    <3>1. e \in Int /\ 0 + ChunkSize <= e /\ s.headIdx + s.chunkLen = e + s.tailIdx
      BY ONLY Zenon, <1>1, <2>1, <2>2
    <3> HIDE DEF e
    <3> QED
      BY <1>5, <3>1, BufferAssumption
  <2> QED
    BY ONLY Zenon, <1>4, <1>7, <2>3 DEF Drained
<1> QED
  BY <1>6, <1>7

\* The fields of a buffer whose last chunk is recycled.
Emptied(a, c) ==
    [Recycle(a, c) EXCEPT
       !.headChunk = Nil, !.tailChunk = Nil, !.headIdx = 0, !.tailIdx = 0]

\* What Emptied leaves, field by field.
LEMMA EmptiedFields ==
    ASSUME NEW a \in BufferRecord, NEW c \in Chunk
    PROVE  /\ Emptied(a, c) \in BufferRecord
           /\ Emptied(a, c).headChunk = Nil /\ Emptied(a, c).tailChunk = Nil
           /\ Emptied(a, c).headIdx = 0 /\ Emptied(a, c).tailIdx = 0
           /\ Emptied(a, c).chunkLen = a.chunkLen
           /\ Emptied(a, c).tasks = a.tasks /\ Emptied(a, c).unused = a.unused
           /\ Emptied(a, c).next = [a.next EXCEPT ![c] = Nil]
           /\ Emptied(a, c).chunkPool = a.chunkPool \cup {c}
  BY DEF Emptied, Recycle, BufferRecord

\* peekHead leaves the tasks alone, and finds the first if there is one.
LEMMA PeekedLays ==
    ASSUME NEW s \in BufferRecord, NEW q \in Seq(Chunk), NEW C \in Seq(Task),
           Lays(s, q, C), Tight(s)
    PROVE  /\ \E r \in Seq(Chunk) : Lays(Peeked(s), r, C)
           /\ Tight(Peeked(s))
           /\ Peeked(s).headChunk # Nil => Peeked(s).headIdx < ChunkSize
           /\ Peeked(s).headChunk # Nil <=> Peeked(s).chunkLen # 0
<1> DEFINE a == Advanced(s)
<1>1. PICK r \in Seq(Chunk) : Lays(a, r, C)
  BY AdvancedLays
<1>2. Tight(a) /\ (a.headChunk # Nil => a.headIdx < ChunkSize)
  BY AdvancedLays
<1>3. a \in BufferRecord
  BY <1>1 DEF Lays
<1> HIDE DEF a
<1>4. CASE r = <<>>
  <2>1. a.headChunk = Nil /\ a.chunkLen = 0
    BY <1>1, <1>4, BufferAssumption DEF Lays, Ends
  <2>2. Peeked(s) = a
    BY <2>1 DEF Peeked, Drained, a
  <2> QED
    BY <1>1, <1>2, <2>1, <2>2
<1>5. CASE r # <<>> /\ ~Drained(a)
  <2>1. a.headChunk # Nil
    BY <1>1, <1>3, <1>5, ListNotEmpty
  <2>2. Peeked(s) = a
    BY <1>5 DEF Peeked, a
  <2>3. a.chunkLen # 0
    BY <1>1, <1>2, <1>3, <1>5, <2>1, DrainedIff
  <2> QED
    BY <1>1, <1>2, <2>1, <2>2, <2>3
<1>6. CASE r # <<>> /\ Drained(a)
  <2> DEFINE u == Peeked(s)
  <2>1. a.headChunk # Nil
    BY <1>1, <1>3, <1>6, ListNotEmpty
  <2>2. a.chunkLen = 0 /\ Len(r) = 1
    BY <1>1, <1>2, <1>3, <1>6, <2>1, DrainedIff
  <2>3. a.headChunk = r[1] /\ r[1] \in Chunk
    BY <1>1, <1>3, <1>6, FirstChunk
  <2>4. a.tasks[r[1]] = EmptySlots
    <3>1. \A i \in Slot : ~InUse(a, i)
      BY <1>3, <2>2, BufferAssumption DEF InUse, Slot, BufferRecord
    <3> QED
      BY <1>1, <1>3, <1>6, <3>1, ExhaustedIsEmpty
  <2>5. /\ u \in BufferRecord /\ u.headChunk = Nil /\ u.tailChunk = Nil
        /\ u.headIdx = 0 /\ u.tailIdx = 0 /\ u.chunkLen = a.chunkLen
        /\ u.tasks = a.tasks /\ u.unused = a.unused
        /\ u.next = [a.next EXCEPT ![r[1]] = Nil] /\ u.chunkPool = a.chunkPool \cup {r[1]}
    <3>1. u = Emptied(a, r[1])
      BY <1>6, <2>3 DEF Peeked, Emptied, a
    <3> DEFINE e == Emptied(a, r[1])
    <3>2. /\ e \in BufferRecord /\ e.headChunk = Nil /\ e.tailChunk = Nil
          /\ e.headIdx = 0 /\ e.tailIdx = 0 /\ e.chunkLen = a.chunkLen
          /\ e.tasks = a.tasks /\ e.unused = a.unused
          /\ e.next = [a.next EXCEPT ![r[1]] = Nil] /\ e.chunkPool = a.chunkPool \cup {r[1]}
      BY ONLY Zenon, <1>3, <2>3, EmptiedFields
    <3> HIDE DEF u, e
    <3>3. u = e
      BY <3>1 DEF e
    <3> QED
      BY ONLY Zenon, <3>2, <3>3
  <2> HIDE DEF u
  <2>6. Links(a, r) /\ Len(C) = a.chunkLen
    BY <1>1 DEF Lays
  <2>7. Links(u, Tail(r))
    BY <1>3, <1>6, <2>4, <2>5, <2>6, DropHeadLinks
  <2>8. Tail(r) = <<>> /\ <<>> \in Seq(Chunk)
    BY Zenon, <1>6, <2>2, NonEmptySeq
  <2>9. <<>> \in Seq(Chunk) /\ Links(u, <<>>)
    BY <2>7, <2>8
  <2>10. Ends(u, <<>>)
    BY <2>2, <2>5 DEF Ends
  <2>11. Slots(u, <<>>, C)
    BY DEF Slots
  <2>12. Lays(u, <<>>, C)
    BY <2>5, <2>6, <2>9, <2>10, <2>11 DEF Lays
  <2> QED
    BY <2>2, <2>5, <2>9, <2>12 DEF Tight, u
<1> QED
  BY <1>4, <1>5, <1>6

-----------------------------------------------------------------------------
\* Links that are not touched, and no chunk outside the list written to.
LEMMA LinksKept ==
    ASSUME NEW s \in BufferRecord, NEW u \in BufferRecord, NEW q \in Seq(Chunk),
           Links(s, q), u.next = s.next, u.chunkPool = s.chunkPool, u.unused = s.unused,
           \A c \in Chunk : ~IsIn(c, q) => u.tasks[c] = s.tasks[c]
    PROVE  Links(u, q)
  BY Zenon DEF Links

\* A position in use, seen from the second.
LEMMA AfterFirst ==
    ASSUME NEW C \in Seq(Task), NEW p \in Nat, NEW h \in Nat,
           h <= p, p < h + Len(C), p # h
    PROVE  Tail(C)[p - (h + 1) + 1] = C[p - h + 1]
<1>1. p - h \in 1 .. Len(C) - 1 /\ p - (h + 1) + 1 = p - h
  OBVIOUS
<1>2. \A k \in 1 .. Len(C) - 1 : Tail(C)[k] = C[k + 1]
  OBVIOUS
<1> QED
  BY <1>1, <1>2

\* The tasks without the first.
LEMMA TailType ==
    ASSUME NEW C \in Seq(Task), Len(C) # 0
    PROVE  Tail(C) \in Seq(Task) /\ Len(Tail(C)) = Len(C) - 1
  OBVIOUS

\* Where a slot of the list is.
LEMMA SlotPosition ==
    ASSUME NEW q \in Seq(Chunk), NEW j \in 1 .. Len(q), NEW i \in Slot
    PROVE  Start[j] + i \in Nat /\ j \in Nat \ {0} /\ q[j] \in Chunk /\ i \in Nat
<1>1. j \in Nat \ {0} /\ q[j] \in Chunk
  OBVIOUS
<1>2. Start[j] \in Nat
  BY <1>1, StartType
<1> QED
  BY <1>1, <1>2, BufferAssumption DEF Slot

\* popHead, once it has found a task.
Taken(s) == [s EXCEPT !.tasks[s.headChunk][s.headIdx] = Nil,
                      !.headIdx = @ + 1, !.chunkLen = @ - 1]

\* Taking the first task empties its slot and no other.
LEMMA TakenTasks ==
    ASSUME NEW s \in BufferRecord, s.headChunk \in Chunk, s.headIdx \in Slot
    PROVE  /\ Taken(s).tasks \in [Chunk -> [Slot -> Task \cup {Nil}]]
           /\ \A c \in Chunk, i \in Slot :
                 Taken(s).tasks[c][i] = IF c = s.headChunk /\ i = s.headIdx
                                        THEN Nil ELSE s.tasks[c][i]
           /\ \A c \in Chunk : c # s.headChunk => Taken(s).tasks[c] = s.tasks[c]
<1>1. Taken(s).tasks \in [Chunk -> [Slot -> Task \cup {Nil}]]
  BY DEF Taken, BufferRecord
<1>2. ASSUME NEW c \in Chunk, NEW i \in Slot
      PROVE  Taken(s).tasks[c][i] = IF c = s.headChunk /\ i = s.headIdx
                                    THEN Nil ELSE s.tasks[c][i]
  BY DEF Taken, BufferRecord
<1>3. ASSUME NEW c \in Chunk, c # s.headChunk PROVE Taken(s).tasks[c] = s.tasks[c]
  BY <1>3 DEF Taken, BufferRecord
<1> QED
  BY Zenon, <1>1, <1>2, <1>3

\* What Taken leaves, field by field.
LEMMA TakenFields ==
    ASSUME NEW s \in BufferRecord, s.headChunk \in Chunk, s.headIdx \in Slot,
           s.chunkLen # 0
    PROVE  /\ Taken(s) \in BufferRecord
           /\ Taken(s).headChunk = s.headChunk /\ Taken(s).tailChunk = s.tailChunk
           /\ Taken(s).headIdx = s.headIdx + 1 /\ Taken(s).tailIdx = s.tailIdx
           /\ Taken(s).chunkLen = s.chunkLen - 1 /\ Taken(s).next = s.next
           /\ Taken(s).chunkPool = s.chunkPool /\ Taken(s).unused = s.unused
<1>1. s.headIdx + 1 \in Nat /\ s.chunkLen - 1 \in Nat
  BY DEF BufferRecord
<1>2. Taken(s) \in BufferRecord
  BY <1>1, TakenTasks DEF Taken, BufferRecord
<1> QED
  BY <1>2 DEF Taken, BufferRecord

\* So the layout is that of the tasks without the first.
LEMMA TakenLays ==
    ASSUME NEW s \in BufferRecord, NEW q \in Seq(Chunk), NEW C \in Seq(Task),
           Lays(s, q, C), q # <<>>, s.headIdx < ChunkSize, s.chunkLen # 0
    PROVE  /\ Lays(Taken(s), q, Tail(C))
           /\ s.tasks[s.headChunk][s.headIdx] = C[1]
<1> DEFINE u == Taken(s)
<1>0. s.headIdx \in Slot
  BY BufferAssumption DEF BufferRecord, Slot
<1>1. s.headChunk = q[1] /\ q[1] \in Chunk /\ 1 \in 1 .. Len(q)
  BY Zenon, FirstChunk, NonEmptySeq
<1>2. /\ u \in BufferRecord /\ u.headChunk = s.headChunk /\ u.tailChunk = s.tailChunk
      /\ u.headIdx = s.headIdx + 1 /\ u.tailIdx = s.tailIdx /\ u.chunkLen = s.chunkLen - 1
      /\ u.next = s.next /\ u.chunkPool = s.chunkPool /\ u.unused = s.unused
      /\ \A c \in Chunk, i \in Slot :
            u.tasks[c][i] = IF c = s.headChunk /\ i = s.headIdx THEN Nil ELSE s.tasks[c][i]
      /\ \A c \in Chunk : c # s.headChunk => u.tasks[c] = s.tasks[c]
  BY Zenon, <1>0, <1>1, TakenFields, TakenTasks
<1> HIDE DEF u
<1>3. /\ Links(s, q) /\ Ends(s, q) /\ Slots(s, q, C) /\ Len(C) = s.chunkLen
  BY DEF Lays
<1>4. /\ s.headIdx \in Nat /\ s.chunkLen \in Nat /\ s.chunkLen # 0 /\ s.tailIdx \in Nat
      /\ s.headIdx < ChunkSize
  BY DEF BufferRecord
<1>5. Links(u, q)
  <2>1. IsIn(q[1], q)
    BY Zenon, <1>1 DEF IsIn
  <2>2. \A c \in Chunk : ~IsIn(c, q) => u.tasks[c] = s.tasks[c]
    BY ZenonT(30), <1>1, <1>2, <2>1
  <2> QED
    BY ONLY <1>2, <1>3, <2>2, LinksKept
<1>6. Ends(u, q)
  <2>1. /\ s.tailChunk = q[Len(q)] /\ s.tailIdx <= ChunkSize
        /\ s.headIdx + s.chunkLen = Start[Len(q)] + s.tailIdx
    BY <1>3 DEF Ends
  <2>2. s.headIdx + 1 <= ChunkSize /\ (s.headIdx + 1) + (s.chunkLen - 1) = s.headIdx + s.chunkLen
    BY ONLY Zenon, <1>4, SizeIsNat, HeadMoves
  <2> QED
    BY ONLY Zenon, <1>1, <1>2, <2>1, <2>2, q # <<>> DEF Ends
<1>7. Slots(u, q, Tail(C))
  <2> SUFFICES ASSUME NEW j \in 1 .. Len(q), NEW i \in Slot
               PROVE  /\ InUse(u, Start[j] + i) =>
                            u.tasks[q[j]][i] = Tail(C)[(Start[j] + i) - u.headIdx + 1]
                      /\ ~InUse(u, Start[j] + i) => u.tasks[q[j]][i] = Nil
    BY Zenon DEF Slots
  <2> DEFINE p == Start[j] + i
  <2>1. p \in Nat /\ j \in Nat /\ q[j] \in Chunk
    BY Zenon, SlotPosition
  <2>2. p = s.headIdx <=> q[j] = q[1] /\ i = s.headIdx
    <3>0. Start[1] = 0
      BY StartType
    <3>1. s.headIdx \in Slot /\ Start[1] + s.headIdx = s.headIdx /\ Start[1] + i = i
      BY ONLY <1>4, <3>0, BufferAssumption DEF Slot
    <3>2. p = s.headIdx => j = 1 /\ i = s.headIdx
      BY ONLY <2>1, <3>1, SlotsDiffer
    <3>3. q[j] = q[1] => j = 1
      BY ONLY Zenon, <1>1, <1>3 DEF Links
    <3> QED
      BY ONLY Zenon, <3>1, <3>2, <3>3
  <2>3. /\ InUse(s, p) => s.tasks[q[j]][i] = C[p - s.headIdx + 1]
        /\ ~InUse(s, p) => s.tasks[q[j]][i] = Nil
    BY ONLY Zenon, <1>3 DEF Slots
  <2>4. InUse(s, p) <=> s.headIdx <= p /\ p < s.headIdx + s.chunkLen
    BY ONLY Zenon DEF InUse
  <2>5. InUse(u, p) <=> s.headIdx + 1 <= p /\ p < s.headIdx + 1 + (s.chunkLen - 1)
    BY ONLY Zenon, <1>2 DEF InUse
  <2>6. /\ InUse(u, p) <=> InUse(s, p) /\ p # s.headIdx
        /\ InUse(u, p) => Tail(C)[p - (s.headIdx + 1) + 1] = C[p - s.headIdx + 1]
    <3> HIDE DEF p
    <3>2. InUse(u, p) <=> InUse(s, p) /\ p # s.headIdx
      BY ONLY Zenon, <1>4, <2>1, <2>4, <2>5, WindowShrinks
    <3>3. ASSUME InUse(s, p), p # s.headIdx
          PROVE  Tail(C)[p - (s.headIdx + 1) + 1] = C[p - s.headIdx + 1]
      <4>1. s.headIdx <= p /\ p < s.headIdx + Len(C)
        BY ONLY Zenon, <1>3, <2>4, <3>3
      <4> QED
        BY ONLY Zenon, <1>4, <2>1, <3>3, <4>1, AfterFirst
    <3> QED
      BY ONLY Zenon, <3>2, <3>3
  <2>7. u.tasks[q[j]][i] = IF p = s.headIdx THEN Nil ELSE s.tasks[q[j]][i]
    <3>1. u.tasks[q[j]][i] = IF q[j] = s.headChunk /\ i = s.headIdx
                             THEN Nil ELSE s.tasks[q[j]][i]
      BY ONLY Zenon, <1>2, <2>1
    <3> QED
      BY ONLY Zenon, <1>1, <2>2, <3>1
  <2>8. /\ InUse(u, p) => u.tasks[q[j]][i] = Tail(C)[p - u.headIdx + 1]
        /\ ~InUse(u, p) => u.tasks[q[j]][i] = Nil
    BY ONLY Zenon, <1>2, <2>3, <2>6, <2>7
  <2> QED
    BY ONLY Zenon, <2>8
<1>8. Tail(C) \in Seq(Task) /\ Len(Tail(C)) = u.chunkLen
  <2>1. Len(C) # 0
    BY ONLY Zenon, <1>3, <1>4
  <2>2. Tail(C) \in Seq(Task) /\ Len(Tail(C)) = Len(C) - 1
    BY ONLY Zenon, <2>1, TailType
  <2>3. u.chunkLen = Len(C) - 1
    BY ONLY Zenon, <1>2, <1>3
  <2> QED
    BY ONLY Zenon, <2>2, <2>3
<1>9. s.tasks[q[1]][s.headIdx] = C[1]
  <2>1. /\ s.headIdx \in Slot /\ Start[1] + s.headIdx = s.headIdx
        /\ s.headIdx - s.headIdx + 1 = 1
        /\ s.headIdx <= s.headIdx /\ s.headIdx < s.headIdx + s.chunkLen
    <3>1. Start[1] = 0
      BY StartType
    <3> QED
      BY ONLY <1>4, <3>1, BufferAssumption DEF Slot
  <2> QED
    <3>1. /\ InUse(s, Start[1] + s.headIdx) <=> InUse(s, s.headIdx)
          /\ C[(Start[1] + s.headIdx) - s.headIdx + 1] = C[1]
      BY ONLY Zenon, <2>1
    <3>2. InUse(s, s.headIdx)
      BY ONLY Zenon, <2>1 DEF InUse
    <3>3. InUse(s, Start[1] + s.headIdx) =>
             s.tasks[q[1]][s.headIdx] = C[(Start[1] + s.headIdx) - s.headIdx + 1]
      BY ONLY Zenon, <1>1, <1>3, <2>1 DEF Slots
    <3> QED
      BY ONLY Zenon, <3>1, <3>2, <3>3
<1> QED
  BY Zenon, <1>1, <1>2, <1>5, <1>6, <1>7, <1>8, <1>9 DEF Lays, u

-----------------------------------------------------------------------------
\* pushTail, once the tail has a free slot.
Written(s, t) == [s EXCEPT !.tasks[s.tailChunk][s.tailIdx] = t,
                           !.tailIdx = @ + 1, !.chunkLen = @ + 1]

\* Writing a task fills its slot and changes no other.
LEMMA WrittenTasks ==
    ASSUME NEW s \in BufferRecord, s.tailChunk \in Chunk, s.tailIdx \in Slot,
           NEW t \in Task
    PROVE  /\ Written(s, t).tasks \in [Chunk -> [Slot -> Task \cup {Nil}]]
           /\ \A c \in Chunk, i \in Slot :
                 Written(s, t).tasks[c][i] = IF c = s.tailChunk /\ i = s.tailIdx
                                             THEN t ELSE s.tasks[c][i]
           /\ \A c \in Chunk : c # s.tailChunk => Written(s, t).tasks[c] = s.tasks[c]
<1>1. Written(s, t).tasks \in [Chunk -> [Slot -> Task \cup {Nil}]]
  BY DEF Written, BufferRecord
<1>2. ASSUME NEW c \in Chunk, NEW i \in Slot
      PROVE  Written(s, t).tasks[c][i] = IF c = s.tailChunk /\ i = s.tailIdx
                                         THEN t ELSE s.tasks[c][i]
  BY DEF Written, BufferRecord
<1>3. ASSUME NEW c \in Chunk, c # s.tailChunk
      PROVE  Written(s, t).tasks[c] = s.tasks[c]
  BY <1>3 DEF Written, BufferRecord
<1> QED
  BY Zenon, <1>1, <1>2, <1>3

\* What Written leaves, field by field.
LEMMA WrittenFields ==
    ASSUME NEW s \in BufferRecord, s.tailChunk \in Chunk, s.tailIdx \in Slot,
           NEW t \in Task
    PROVE  /\ Written(s, t) \in BufferRecord
           /\ Written(s, t).headChunk = s.headChunk
           /\ Written(s, t).tailChunk = s.tailChunk
           /\ Written(s, t).headIdx = s.headIdx
           /\ Written(s, t).tailIdx = s.tailIdx + 1
           /\ Written(s, t).chunkLen = s.chunkLen + 1
           /\ Written(s, t).next = s.next
           /\ Written(s, t).chunkPool = s.chunkPool /\ Written(s, t).unused = s.unused
<1>1. s.tailIdx + 1 \in Nat /\ s.chunkLen + 1 \in Nat
  BY DEF BufferRecord
<1>2. Written(s, t) \in BufferRecord
  BY <1>1, WrittenTasks DEF Written, BufferRecord
<1> QED
  BY <1>2 DEF Written, BufferRecord

\* A position in use, and the one that comes into use.
LEMMA BeforeLast ==
    ASSUME NEW C \in Seq(Task), NEW t \in Task, NEW p \in Nat, NEW h \in Nat,
           h <= p, p < h + Len(C)
    PROVE  Append(C, t)[p - h + 1] = C[p - h + 1]
<1>1. p - h + 1 \in 1 .. Len(C)
  OBVIOUS
<1>2. \A k \in 1 .. Len(C) : Append(C, t)[k] = C[k]
  OBVIOUS
<1> QED
  BY <1>1, <1>2

\* The written task is the last.
LEMMA AtLast ==
    ASSUME NEW C \in Seq(Task), NEW t \in Task, NEW p \in Nat, NEW h \in Nat,
           h + Len(C) = p
    PROVE  p - h + 1 = Len(C) + 1 /\ Append(C, t)[Len(C) + 1] = t
<1>1. p - h + 1 = Len(C) + 1
  OBVIOUS
<1>2. Append(C, t)[Len(C) + 1] = t
  OBVIOUS
<1> QED
  BY Zenon, <1>1, <1>2

\* The tasks with one more.
LEMMA AppendType ==
    ASSUME NEW C \in Seq(Task), NEW t \in Task
    PROVE  Append(C, t) \in Seq(Task) /\ Len(Append(C, t)) = Len(C) + 1
  OBVIOUS

\* So the layout is that of the tasks with one more.
LEMMA WrittenLays ==
    ASSUME NEW s \in BufferRecord, NEW q \in Seq(Chunk), NEW C \in Seq(Task),
           Lays(s, q, C), q # <<>>, s.tailIdx < ChunkSize, NEW t \in Task
    PROVE  Lays(Written(s, t), q, Append(C, t)) /\ Tight(Written(s, t))
<1> DEFINE u == Written(s, t)
<1>0. s.tailIdx \in Slot
  BY BufferAssumption DEF BufferRecord, Slot
<1>1. /\ s.tailChunk = q[Len(q)] /\ s.headChunk = q[1] /\ s.headIdx <= ChunkSize
      /\ s.headIdx + s.chunkLen = Start[Len(q)] + s.tailIdx
  BY DEF Lays, Ends
<1>2. q[Len(q)] \in Chunk /\ Len(q) \in 1 .. Len(q) /\ Len(q) \in Nat
  BY Zenon, NonEmptySeq
<1>3. /\ u \in BufferRecord /\ u.headChunk = s.headChunk /\ u.tailChunk = s.tailChunk
      /\ u.headIdx = s.headIdx /\ u.tailIdx = s.tailIdx + 1
      /\ u.chunkLen = s.chunkLen + 1
      /\ u.next = s.next /\ u.chunkPool = s.chunkPool /\ u.unused = s.unused
      /\ \A c \in Chunk, i \in Slot :
            u.tasks[c][i] = IF c = s.tailChunk /\ i = s.tailIdx THEN t ELSE s.tasks[c][i]
      /\ \A c \in Chunk : c # s.tailChunk => u.tasks[c] = s.tasks[c]
  BY ZenonT(30), <1>0, <1>1, <1>2, WrittenFields, WrittenTasks
<1> HIDE DEF u
<1>4. /\ Links(s, q) /\ Slots(s, q, C) /\ Len(C) = s.chunkLen
  BY DEF Lays
<1>5. /\ s.headIdx \in Nat /\ s.chunkLen \in Nat /\ s.tailIdx \in Nat
      /\ s.tailIdx < ChunkSize
  BY DEF BufferRecord
<1>6. Links(u, q)
  <2>1. IsIn(q[Len(q)], q)
    BY Zenon, <1>2 DEF IsIn
  <2>2. \A c \in Chunk : ~IsIn(c, q) => u.tasks[c] = s.tasks[c]
    BY Zenon, <1>1, <1>3, <2>1
  <2> QED
    BY ONLY <1>3, <1>4, <2>2, LinksKept
<1>7. Ends(u, q)
  <2>1. s.tailIdx + 1 <= ChunkSize
    BY ONLY <1>5, BufferAssumption
  <2>2. s.headIdx + (s.chunkLen + 1) = Start[Len(q)] + (s.tailIdx + 1)
    <3>1. Start[Len(q)] \in Int
      BY ONLY <1>2, StartType
    <3>2. \A h, l, k \in Nat, e \in Int : h + l = e + k => h + (l + 1) = e + (k + 1)
      OBVIOUS
    <3> QED
      BY ONLY ZenonT(30), <1>1, <1>5, <3>1, <3>2
  <2> QED
    BY ONLY Zenon, <1>1, <1>3, <2>1, <2>2, q # <<>> DEF Ends
<1>8. Slots(u, q, Append(C, t))
  <2> SUFFICES ASSUME NEW j \in 1 .. Len(q), NEW i \in Slot
               PROVE  /\ InUse(u, Start[j] + i) =>
                            u.tasks[q[j]][i] = Append(C, t)[(Start[j] + i) - u.headIdx + 1]
                      /\ ~InUse(u, Start[j] + i) => u.tasks[q[j]][i] = Nil
    BY Zenon DEF Slots
  <2> DEFINE p == Start[j] + i
  <2>1. p \in Nat /\ j \in Nat /\ q[j] \in Chunk
    BY Zenon, SlotPosition
  <2>2. p = s.headIdx + s.chunkLen <=> q[j] = q[Len(q)] /\ i = s.tailIdx
    <3>1. p = Start[Len(q)] + s.tailIdx => j = Len(q) /\ i = s.tailIdx
      BY ONLY Zenon, <1>0, <1>2, <2>1, SlotsDiffer
    <3>2. q[j] = q[Len(q)] => j = Len(q)
      BY ONLY Zenon, <1>2, <1>4 DEF Links
    <3> QED
      BY ONLY Zenon, <1>1, <3>1, <3>2
  <2>3. /\ InUse(s, p) => s.tasks[q[j]][i] = C[p - s.headIdx + 1]
        /\ ~InUse(s, p) => s.tasks[q[j]][i] = Nil
    BY ONLY Zenon, <1>4 DEF Slots
  <2>4. InUse(s, p) <=> s.headIdx <= p /\ p < s.headIdx + s.chunkLen
    BY ONLY Zenon DEF InUse
  <2>5. InUse(u, p) <=> s.headIdx <= p /\ p < s.headIdx + (s.chunkLen + 1)
    BY ONLY Zenon, <1>3 DEF InUse
  <2>6. u.tasks[q[j]][i] = IF p = s.headIdx + s.chunkLen THEN t ELSE s.tasks[q[j]][i]
    <3>1. u.tasks[q[j]][i] = IF q[j] = s.tailChunk /\ i = s.tailIdx
                             THEN t ELSE s.tasks[q[j]][i]
      BY ONLY Zenon, <1>3, <2>1
    <3> QED
      BY ONLY Zenon, <1>1, <2>2, <3>1
  <2> HIDE DEF p
  <2>7. /\ InUse(u, p) <=> InUse(s, p) \/ p = s.headIdx + s.chunkLen
        /\ InUse(u, p) => s.headIdx <= p
        /\ InUse(s, p) => p # s.headIdx + s.chunkLen
    BY ONLY Zenon, <1>5, <2>1, <2>4, <2>5, WindowGrows
  <2>8. ASSUME InUse(s, p) PROVE Append(C, t)[p - s.headIdx + 1] = C[p - s.headIdx + 1]
    <3>1. s.headIdx <= p /\ p < s.headIdx + Len(C)
      BY ONLY Zenon, <1>4, <2>4, <2>8
    <3> QED
      BY ONLY Zenon, <1>5, <2>1, <3>1, BeforeLast
  <2>9. ASSUME InUse(u, p), p = s.headIdx + s.chunkLen
        PROVE  Append(C, t)[p - s.headIdx + 1] = t
    <3>1. s.headIdx + Len(C) = p
      BY ONLY Zenon, <1>4, <2>7, <2>9
    <3> QED
      <4>1. p - s.headIdx + 1 = Len(C) + 1 /\ Append(C, t)[Len(C) + 1] = t
        BY ONLY Zenon, <1>5, <2>1, <3>1, AtLast
      <4> QED
        BY ONLY Zenon, <4>1
  <2>10. /\ InUse(u, p) => u.tasks[q[j]][i] = Append(C, t)[p - u.headIdx + 1]
         /\ ~InUse(u, p) => u.tasks[q[j]][i] = Nil
    BY ONLY Zenon, <1>3, <2>3, <2>6, <2>7, <2>8, <2>9
  <2> QED
    BY ONLY Zenon, <2>10 DEF p
<1>9. Append(C, t) \in Seq(Task) /\ Len(Append(C, t)) = u.chunkLen
  <2>1. Append(C, t) \in Seq(Task) /\ Len(Append(C, t)) = Len(C) + 1
    BY ONLY Zenon, AppendType
  <2>2. u.chunkLen = Len(C) + 1
    BY ONLY Zenon, <1>3, <1>4
  <2> QED
    BY ONLY Zenon, <2>1, <2>2
<1>10. Tight(u)
  <2>1. s.tailIdx + 1 >= 1
    BY ONLY <1>5
  <2> QED
    BY ONLY Zenon, <1>3, <2>1 DEF Tight
<1> QED
  BY Zenon, <1>3, <1>6, <1>7, <1>8, <1>9, <1>10 DEF Lays, u

-----------------------------------------------------------------------------
\* The list with one more chunk.
LEMMA AppendChunk ==
    ASSUME NEW q \in Seq(Chunk), NEW c \in Chunk
    PROVE  /\ Append(q, c) \in Seq(Chunk) /\ Append(q, c) # <<>>
           /\ Len(q) \in Nat /\ Len(Append(q, c)) = Len(q) + 1
           /\ Append(q, c)[Len(q) + 1] = c
           /\ \A i \in 1 .. Len(q) : Append(q, c)[i] = q[i] /\ q[i] \in Chunk
           /\ \A i \in 1 .. Len(q) + 1 : i \in 1 .. Len(q) \/ i = Len(q) + 1
           /\ \A i \in 1 .. Len(q) : i # Len(q) + 1 /\ i \in 1 .. Len(q) + 1
           /\ Len(q) + 1 \in 1 .. Len(q) + 1 /\ (Len(q) + 1) - 1 = Len(q)
           /\ q = <<>> => Append(q, c)[1] = c /\ Len(q) = 0
           /\ q # <<>> => Append(q, c)[1] = q[1] /\ Len(q) \in 1 .. Len(q)
<1>1. /\ Append(q, c) \in Seq(Chunk) /\ Len(q) \in Nat /\ Len(Append(q, c)) = Len(q) + 1
  OBVIOUS
<1>2. Append(q, c) # <<>>
  BY <1>1
<1>3. /\ Append(q, c)[Len(q) + 1] = c
      /\ \A i \in 1 .. Len(q) : Append(q, c)[i] = q[i] /\ q[i] \in Chunk
  OBVIOUS
<1>4. /\ \A i \in 1 .. Len(q) + 1 : i \in 1 .. Len(q) \/ i = Len(q) + 1
      /\ \A i \in 1 .. Len(q) : i # Len(q) + 1 /\ i \in 1 .. Len(q) + 1
      /\ Len(q) + 1 \in 1 .. Len(q) + 1 /\ (Len(q) + 1) - 1 = Len(q)
  BY <1>1
<1>5. q = <<>> => Append(q, c)[1] = c /\ Len(q) = 0
  OBVIOUS
<1>6. q # <<>> => 1 \in 1 .. Len(q) /\ Len(q) \in 1 .. Len(q)
  OBVIOUS
<1> QED
  BY Zenon, <1>1, <1>2, <1>3, <1>4, <1>5, <1>6

\* The links of a list that grows by the free chunk c.
LEMMA GrowLinks ==
    ASSUME NEW s \in BufferRecord, NEW u \in BufferRecord, NEW q \in Seq(Chunk),
           NEW c \in Chunk, Links(s, q), ~IsIn(c, q),
           u.tasks = s.tasks,
           q = <<>> => u.next = s.next,
           q # <<>> => u.next = [s.next EXCEPT ![q[Len(q)]] = c],
           u.chunkPool = s.chunkPool \ {c}, u.unused = s.unused \ {c}
    PROVE  Links(u, Append(q, c))
<1> DEFINE r == Append(q, c)
<1>1. /\ r \in Seq(Chunk) /\ r # <<>> /\ Len(q) \in Nat /\ Len(r) = Len(q) + 1
      /\ r[Len(q) + 1] = c
      /\ \A i \in 1 .. Len(q) : r[i] = q[i] /\ q[i] \in Chunk
      /\ \A i \in 1 .. Len(q) + 1 : i \in 1 .. Len(q) \/ i = Len(q) + 1
      /\ \A i \in 1 .. Len(q) : i # Len(q) + 1 /\ i \in 1 .. Len(q) + 1
      /\ Len(q) + 1 \in 1 .. Len(q) + 1 /\ (Len(q) + 1) - 1 = Len(q)
      /\ q # <<>> => Len(q) \in 1 .. Len(q)
  BY ZenonT(30), AppendChunk
<1>2. /\ \A i, j \in 1 .. Len(q) : q[i] = q[j] => i = j
      /\ \A i \in 1 .. Len(q) - 1 : s.next[q[i]] = q[i + 1]
      /\ q # <<>> => s.next[q[Len(q)]] = Nil
      /\ \A d \in Chunk : ~IsIn(d, q) => s.next[d] = Nil /\ s.tasks[d] = EmptySlots
      /\ \A d \in s.chunkPool \cup s.unused : ~IsIn(d, q)
  BY Zenon DEF Links
<1>3. \A i \in 1 .. Len(q) : q[i] # c
  BY Zenon DEF IsIn
<1>4. s.next \in [Chunk -> Chunk \cup {Nil}]
  BY DEF BufferRecord
<1> HIDE DEF r
<1>5. \A d : IsIn(d, r) <=> IsIn(d, q) \/ d = c
  BY ONLY Zenon, <1>1 DEF IsIn
<1>6. ASSUME NEW i \in 1 .. Len(r), NEW j \in 1 .. Len(r), r[i] = r[j] PROVE i = j
  <2>1. /\ i \in 1 .. Len(q) \/ i = Len(q) + 1
        /\ j \in 1 .. Len(q) \/ j = Len(q) + 1
    BY ONLY Zenon, <1>1
  <2>2. CASE i \in 1 .. Len(q) /\ j \in 1 .. Len(q)
    <3>1. r[i] = q[i] /\ r[j] = q[j]
      BY ONLY Zenon, <1>1, <2>2
    <3>2. q[i] = q[j]
      BY ONLY Zenon, <1>6, <3>1
    <3> QED
      BY ONLY Zenon, <1>2, <2>2, <3>2
  <2>3. CASE i = Len(q) + 1 /\ j \in 1 .. Len(q)
    BY ONLY Zenon, <1>1, <1>3, <1>6, <2>3
  <2>4. CASE j = Len(q) + 1 /\ i \in 1 .. Len(q)
    BY ONLY Zenon, <1>1, <1>3, <1>6, <2>4
  <2> QED
    BY ONLY Zenon, <2>1, <2>2, <2>3, <2>4
<1>7. ASSUME NEW i \in 1 .. Len(r) - 1 PROVE u.next[r[i]] = r[i + 1]
  <2>1. i \in 1 .. Len(q)
    BY ONLY Zenon, <1>1
  <2>2. q # <<>>
    BY <2>1
  <2>3. CASE i = Len(q)
    BY ONLY ZenonT(30), <1>1, <1>4, <2>1, <2>2, <2>3,
       q # <<>> => u.next = [s.next EXCEPT ![q[Len(q)]] = c]
  <2>4. CASE i # Len(q)
    <3>1. i \in 1 .. Len(q) - 1 /\ i + 1 \in 1 .. Len(q)
      <4>1. \A n \in Nat : \A k \in 1 .. n : k # n => k \in 1 .. n - 1 /\ k + 1 \in 1 .. n
        OBVIOUS
      <4> QED
        BY ONLY Zenon, <1>1, <2>1, <2>4, <4>1
    <3>2. q[i] # q[Len(q)]
      BY ONLY Zenon, <1>1, <1>2, <2>1, <2>2, <2>4
    <3>3. u.next[q[i]] = s.next[q[i]]
      BY ONLY Zenon, <1>1, <1>4, <2>1, <2>2, <3>2,
         q # <<>> => u.next = [s.next EXCEPT ![q[Len(q)]] = c]
    <3> QED
      BY ONLY Zenon, <1>1, <1>2, <2>1, <3>1, <3>3
  <2> QED
    BY <2>3, <2>4
<1>8. u.next[r[Len(r)]] = Nil
  <2>1. s.next[c] = Nil
    BY Zenon, <1>2
  <2>2. CASE q = <<>>
    BY Zenon, <1>1, <2>1, <2>2
  <2>3. CASE q # <<>>
    <3>1. r[Len(r)] = c
      BY ONLY Zenon, <1>1
    <3>2. q[Len(q)] # c /\ q[Len(q)] \in Chunk
      BY ONLY Zenon, <1>1, <1>3, <2>3
    <3>3. u.next[c] = s.next[c]
      BY <1>4, <2>3, <3>2
    <3> QED
      BY ONLY Zenon, <2>1, <3>1, <3>3
  <2> QED
    BY <2>2, <2>3
<1>9. ASSUME NEW d \in Chunk, ~IsIn(d, r)
      PROVE  u.next[d] = Nil /\ u.tasks[d] = EmptySlots
  <2>1. ~IsIn(d, q) /\ d # c
    BY Zenon, <1>5, <1>9
  <2>2. s.next[d] = Nil /\ s.tasks[d] = EmptySlots
    BY Zenon, <1>2, <2>1
  <2>3. CASE q = <<>>
    BY Zenon, <2>2, <2>3
  <2>4. CASE q # <<>>
    <3>1. d # q[Len(q)]
      BY Zenon, <1>1, <2>1, <2>4 DEF IsIn
    <3> QED
      BY Zenon, <1>4, <2>2, <2>4, <3>1
  <2> QED
    BY <2>3, <2>4
<1>10. \A d \in u.chunkPool \cup u.unused : ~IsIn(d, r)
  BY Zenon, <1>2, <1>5
<1>11. Links(u, r)
  BY ONLY Zenon, <1>6, <1>7, <1>8, <1>9, <1>10 DEF Links
<1> QED
  BY Zenon, <1>11 DEF r

\* The fields of a buffer with a new tail.
LEMMA LinkedFields ==
    ASSUME NEW s \in BufferRecord, NEW c \in Chunk
    PROVE  /\ Linked(s, c) \in BufferRecord
           /\ Linked(s, c).tailChunk = c /\ Linked(s, c).tailIdx = 0
           /\ Linked(s, c).chunkLen = s.chunkLen /\ Linked(s, c).tasks = s.tasks
           /\ Linked(s, c).chunkPool = s.chunkPool \ {c}
           /\ Linked(s, c).unused = s.unused \ {c}
           /\ s.tailChunk = Nil =>
                 /\ Linked(s, c).headChunk = c /\ Linked(s, c).headIdx = 0
                 /\ Linked(s, c).next = s.next
           /\ s.tailChunk # Nil =>
                 /\ Linked(s, c).headChunk = s.headChunk
                 /\ Linked(s, c).headIdx = s.headIdx
                 /\ Linked(s, c).next = [s.next EXCEPT ![s.tailChunk] = c]
<1>1. CASE s.tailChunk = Nil
  BY <1>1 DEF Linked, GetChunk, BufferRecord
<1>2. CASE s.tailChunk # Nil
  BY <1>2 DEF Linked, GetChunk, BufferRecord
<1> QED
  BY <1>1, <1>2

\* A chunk that is linked as the new tail holds no task yet.
LEMMA LinkedLays ==
    ASSUME NEW s \in BufferRecord, NEW q \in Seq(Chunk), NEW C \in Seq(Task),
           Lays(s, q, C), NeedsChunk(s), NEW c \in s.chunkPool \cup s.unused
    PROVE  /\ Lays(Linked(s, c), Append(q, c), C) /\ Append(q, c) # <<>>
           /\ Linked(s, c).tailIdx < ChunkSize
<1> DEFINE u == Linked(s, c)
           r == Append(q, c)
<1>1. /\ Links(s, q) /\ Ends(s, q) /\ Slots(s, q, C) /\ Len(C) = s.chunkLen
  BY Zenon DEF Lays
<1>2. c \in Chunk /\ ~IsIn(c, q)
  <2>1. s.chunkPool \subseteq Chunk /\ s.unused \subseteq Chunk
    BY DEF BufferRecord
  <2> QED
    BY Zenon, <1>1, <2>1 DEF Links
<1>3. /\ u \in BufferRecord /\ u.tailChunk = c /\ u.tailIdx = 0
      /\ u.chunkLen = s.chunkLen /\ u.tasks = s.tasks
      /\ u.chunkPool = s.chunkPool \ {c} /\ u.unused = s.unused \ {c}
  <2>1. u \in BufferRecord /\ u.tailChunk = c /\ u.tailIdx = 0
    BY Zenon, <1>2, LinkedFields
  <2>2. u.chunkLen = s.chunkLen /\ u.tasks = s.tasks
    BY Zenon, <1>2, LinkedFields
  <2>3. u.chunkPool = s.chunkPool \ {c}
    BY Zenon, <1>2, LinkedFields
  <2>4. u.unused = s.unused \ {c}
    BY ZenonT(30), <1>2, LinkedFields
  <2> QED
    BY ONLY Zenon, <2>1, <2>2, <2>3, <2>4
<1>4. s.tailChunk = Nil => u.headChunk = c /\ u.headIdx = 0 /\ u.next = s.next
  BY Zenon, <1>2, LinkedFields
<1>5. s.tailChunk # Nil =>
         /\ u.headChunk = s.headChunk /\ u.headIdx = s.headIdx
         /\ u.next = [s.next EXCEPT ![s.tailChunk] = c]
  BY Zenon, <1>2, LinkedFields
<1>6. s.tailChunk # Nil <=> q # <<>>
  BY Zenon, ListNotEmpty
<1>7. /\ r \in Seq(Chunk) /\ r # <<>> /\ Len(q) \in Nat /\ Len(r) = Len(q) + 1
      /\ r[Len(q) + 1] = c
      /\ \A i \in 1 .. Len(q) : r[i] = q[i] /\ q[i] \in Chunk
      /\ \A i \in 1 .. Len(q) + 1 : i \in 1 .. Len(q) \/ i = Len(q) + 1
      /\ q = <<>> => r[1] = c /\ Len(q) = 0
      /\ q # <<>> => r[1] = q[1]
  BY Zenon, <1>2, AppendChunk
<1> HIDE DEF u, r
<1>8. q # <<>> => /\ s.headChunk = q[1] /\ s.tailChunk = q[Len(q)]
                  /\ s.headIdx <= ChunkSize
                  /\ s.tailIdx <= ChunkSize
                  /\ s.headIdx + s.chunkLen = Start[Len(q)] + s.tailIdx
  BY Zenon, <1>1 DEF Ends
<1>9. s.tailIdx \in Nat /\ s.headIdx \in Nat /\ s.chunkLen \in Nat
  BY DEF BufferRecord
<1>10. q # <<>> => s.tailIdx = ChunkSize
  <2>1. s.tailChunk = Nil \/ s.tailIdx >= ChunkSize
    BY Zenon DEF NeedsChunk
  <2>2. \A n, m \in Nat : n >= m /\ n <= m => n = m
    OBVIOUS
  <2> QED
    BY Zenon, <1>6, <1>8, <1>9, <2>1, <2>2, BufferAssumption
<1>11. u.headIdx + u.chunkLen = Start[Len(r)] + u.tailIdx
  <2>1. Start[Len(q) + 1] = Start[Len(q)] + ChunkSize /\ Start[Len(q) + 1] \in Int
    BY ONLY <1>7, StartType
  <2>2. u.headIdx + u.chunkLen = Start[Len(q) + 1]
    <3>1. CASE q = <<>>
      <4>1. s.chunkLen = 0
        BY Zenon, <1>1, <3>1 DEF Ends
      <4>2. Start[Len(q) + 1] = 0
        <5>1. Len(q) + 1 = 1
          BY ONLY <1>7, <3>1
        <5> QED
          BY ONLY Zenon, <5>1, StartType
      <4>3. 0 + 0 = 0
        OBVIOUS
      <4> QED
        BY ONLY Zenon, <1>3, <1>4, <1>6, <3>1, <4>1, <4>2, <4>3
    <3>2. CASE q # <<>>
      BY ONLY Zenon, <1>3, <1>5, <1>6, <1>8, <1>10, <2>1, <3>2
    <3> QED
      BY <3>1, <3>2
  <2>3. \A e \in Int : e + 0 = e
    OBVIOUS
  <2> QED
    BY ONLY Zenon, <1>3, <1>7, <2>1, <2>2, <2>3
<1>12. Links(u, r)
  <2>1. q = <<>> => u.next = s.next
    BY ONLY Zenon, <1>4, <1>6
  <2>2. q # <<>> => u.next = [s.next EXCEPT ![q[Len(q)]] = c]
    BY ONLY Zenon, <1>5, <1>6, <1>8
  <2> QED
    BY ONLY <1>1, <1>2, <1>3, <2>1, <2>2, GrowLinks DEF r
<1>13. Ends(u, r)
  <2>1. u.headChunk = r[1] /\ u.tailChunk = r[Len(r)]
    BY ONLY Zenon, <1>3, <1>4, <1>5, <1>6, <1>7, <1>8
  <2>2. u.headIdx <= ChunkSize /\ u.tailIdx <= ChunkSize
    <3>1. 0 <= ChunkSize
      BY ONLY BufferAssumption
    <3> QED
      BY ONLY Zenon, <1>3, <1>4, <1>5, <1>6, <1>8, <3>1
  <2> QED
    BY ONLY Zenon, <1>7, <1>11, <2>1, <2>2 DEF Ends
<1>14. Slots(u, r, C)
  <2> SUFFICES ASSUME NEW j \in 1 .. Len(r), NEW i \in Slot
               PROVE  /\ InUse(u, Start[j] + i) =>
                            u.tasks[r[j]][i] = C[(Start[j] + i) - u.headIdx + 1]
                      /\ ~InUse(u, Start[j] + i) => u.tasks[r[j]][i] = Nil
    BY Zenon DEF Slots
  <2>1. CASE j \in 1 .. Len(q)
    <3>1. q # <<>>
      BY ONLY <2>1
    <3>2. u.headIdx = s.headIdx /\ r[j] = q[j]
      BY ONLY Zenon, <1>5, <1>6, <1>7, <2>1, <3>1
    <3>3. InUse(u, Start[j] + i) <=> InUse(s, Start[j] + i)
      BY ONLY Zenon, <1>3, <3>2 DEF InUse
    <3>4. /\ InUse(s, Start[j] + i) => s.tasks[q[j]][i] = C[(Start[j] + i) - s.headIdx + 1]
          /\ ~InUse(s, Start[j] + i) => s.tasks[q[j]][i] = Nil
      BY ONLY Zenon, <1>1, <2>1 DEF Slots
    <3> QED
      BY ONLY Zenon, <1>3, <3>2, <3>3, <3>4
  <2>2. CASE j = Len(r)
    <3>1. r[j] = c
      BY ONLY Zenon, <1>7, <2>2
    <3>2. s.tasks[c][i] = Nil
      <4>1. s.tasks[c] = EmptySlots
        BY Zenon, <1>1, <1>2 DEF Links
      <4> QED
        BY ONLY <4>1 DEF EmptySlots
    <3>3. Start[j] \in Nat /\ i \in Nat
      <4>1. \A n \in Nat : n + 1 \in Nat \ {0}
        OBVIOUS
      <4>2. j \in Nat \ {0}
        BY ONLY Zenon, <1>7, <2>2, <4>1
      <4>3. i \in Nat
        BY ONLY BufferAssumption DEF Slot
      <4> QED
        BY ONLY Zenon, <4>2, <4>3, StartType
    <3>4. u.headIdx + u.chunkLen = Start[j] + 0
      BY ONLY Zenon, <1>3, <1>11, <2>2
    <3>5. \A e, k \in Nat : ~(e + k < e + 0)
      OBVIOUS
    <3>6. ~InUse(u, Start[j] + i)
      BY ONLY Zenon, <3>3, <3>4, <3>5 DEF InUse
    <3> QED
      BY ONLY Zenon, <1>3, <3>1, <3>2, <3>6
  <2> QED
    BY ONLY Zenon, <1>7, <2>1, <2>2
<1>15. Lays(u, r, C)
  BY Zenon, <1>1, <1>3, <1>7, <1>12, <1>13, <1>14 DEF Lays
<1>16. u.tailIdx < ChunkSize
  <2>1. 0 < ChunkSize
    BY ONLY BufferAssumption
  <2> QED
    BY ONLY Zenon, <1>3, <2>1
<1> QED
  BY Zenon, <1>7, <1>15, <1>16 DEF u, r

-----------------------------------------------------------------------------
(***************************************************************************)
(* What the operations do to the tasks in the buffer.                      *)
(***************************************************************************)
Holds(s, C) ==
    /\ s \in BufferRecord /\ C \in Seq(Task) /\ Tight(s)
    /\ \E q \in Seq(Chunk) : Lays(s, q, C)

\* Only the empty sequence has no length.
LEMMA SeqEmpty ==
    ASSUME NEW C \in Seq(Task)
    PROVE  Len(C) = 0 <=> C = <<>>
  OBVIOUS

\* peekHead leaves the tasks alone and finds the first one, if there is one.
LEMMA PeekHolds ==
    ASSUME NEW s, NEW C, Holds(s, C)
    PROVE  /\ Holds(Peeked(s), C)
           /\ HasHead(s) <=> C # <<>>
           /\ C # <<>> => HeadTask(s) = C[1]
<1> DEFINE p == Peeked(s)
<1>1. PICK q \in Seq(Chunk) : Lays(s, q, C)
  BY Zenon DEF Holds
<1>2. s \in BufferRecord /\ C \in Seq(Task) /\ Tight(s)
  BY Zenon DEF Holds
<1>3. /\ \E r \in Seq(Chunk) : Lays(p, r, C)
      /\ Tight(p) /\ (p.headChunk # Nil => p.headIdx < ChunkSize)
      /\ (p.headChunk # Nil <=> p.chunkLen # 0)
  BY Zenon, <1>1, <1>2, PeekedLays
<1>4. PICK r \in Seq(Chunk) : Lays(p, r, C)
  BY Zenon, <1>3
<1>5. p \in BufferRecord /\ Len(C) = p.chunkLen
  BY Zenon, <1>4 DEF Lays
<1>6. p.chunkLen # 0 <=> C # <<>>
  BY Zenon, <1>2, <1>5, SeqEmpty
<1>7. HasHead(s) <=> C # <<>>
  BY Zenon, <1>3, <1>6 DEF HasHead
<1>8. ASSUME C # <<>> PROVE HeadTask(s) = C[1]
  <2>1. r # <<>>
    BY Zenon, <1>2, <1>3, <1>4, <1>5, <1>6, <1>8, ListNotEmpty
  <2>2. p.tasks[p.headChunk][p.headIdx] = C[1]
    BY Zenon, <1>2, <1>3, <1>4, <1>5, <1>6, <1>8, <2>1, TakenLays
  <2> QED
    BY Zenon, <2>2 DEF HeadTask
<1> QED
  BY Zenon, <1>2, <1>3, <1>5, <1>7, <1>8 DEF Holds

\* popHead takes the first task out.
LEMMA PopHolds ==
    ASSUME NEW s, NEW C, Holds(s, C)
    PROVE  Holds(PopHead(s), IF C = <<>> THEN <<>> ELSE Tail(C))
<1> DEFINE p == Peeked(s)
<1>1. Holds(p, C) /\ (HasHead(s) <=> C # <<>>)
  BY Zenon, PeekHolds
<1>2. CASE C = <<>>
  <2>1. PopHead(s) = p
    BY Zenon, <1>1, <1>2 DEF PopHead
  <2> QED
    BY Zenon, <1>1, <1>2, <2>1
<1>3. CASE C # <<>>
  <2>1. PopHead(s) = Taken(p)
    BY Zenon, <1>1, <1>3 DEF PopHead, Taken
  <2>2. p \in BufferRecord /\ C \in Seq(Task) /\ Tight(p)
    BY Zenon, <1>1 DEF Holds
  <2>3. PICK r \in Seq(Chunk) : Lays(p, r, C)
    BY Zenon, <1>1 DEF Holds
  <2>4. Len(C) = p.chunkLen
    BY Zenon, <2>3 DEF Lays
  <2>5. p.chunkLen # 0
    BY Zenon, <1>3, <2>2, <2>4, SeqEmpty
  <2>6. p.headChunk # Nil /\ p.headIdx < ChunkSize
    <3>1. s \in BufferRecord /\ Tight(s) /\ \E q \in Seq(Chunk) : Lays(s, q, C)
      BY Zenon DEF Holds
    <3> QED
      BY Zenon, <2>2, <2>5, <3>1, PeekedLays
  <2>7. r # <<>>
    BY Zenon, <2>2, <2>3, <2>6, ListNotEmpty
  <2>8. Lays(Taken(p), r, Tail(C))
    BY Zenon, <2>2, <2>3, <2>5, <2>6, <2>7, TakenLays
  <2>9. Tail(C) \in Seq(Task) /\ Taken(p) \in BufferRecord
    BY Zenon, <2>8 DEF Lays
  <2>10. Tight(Taken(p))
    <3>1. p.headChunk \in Chunk /\ p.headIdx \in Slot
      BY <2>2, <2>6, BufferAssumption DEF BufferRecord, Slot
    <3>2. Taken(p).tailChunk = p.tailChunk /\ Taken(p).tailIdx = p.tailIdx
      BY Zenon, <2>2, <2>5, <3>1, TakenFields
    <3> QED
      BY Zenon, <2>2, <3>2 DEF Tight
  <2> QED
    BY Zenon, <1>3, <2>1, <2>8, <2>9, <2>10 DEF Holds
<1> QED
  BY Zenon, <1>2, <1>3

\* pushTail puts the task behind the last.
LEMMA PushHolds ==
    ASSUME NEW s, NEW C, Holds(s, C), NEW t \in Task, NEW u \in PushTail(s, t)
    PROVE  Holds(u, Append(C, t))
<1>1. s \in BufferRecord /\ C \in Seq(Task) /\ Tight(s)
  BY Zenon DEF Holds
<1>2. PICK q \in Seq(Chunk) : Lays(s, q, C)
  BY Zenon DEF Holds
<1>3. ASSUME NEW g, NEW r \in Seq(Chunk), g \in BufferRecord, Lays(g, r, C), r # <<>>,
             g.tailIdx < ChunkSize, u = Written(g, t)
      PROVE  Holds(u, Append(C, t))
  <2>1. Lays(Written(g, t), r, Append(C, t)) /\ Tight(Written(g, t))
    BY Zenon, <1>1, <1>3, WrittenLays
  <2>2. Append(C, t) \in Seq(Task) /\ Written(g, t) \in BufferRecord
    BY Zenon, <2>1 DEF Lays
  <2> QED
    BY Zenon, <1>3, <2>1, <2>2 DEF Holds
<1>4. CASE NeedsChunk(s)
  <2>1. PICK c \in s.chunkPool \cup s.unused : u = Written(Linked(s, c), t)
    BY <1>4 DEF PushTail, Written
  <2>2. /\ Lays(Linked(s, c), Append(q, c), C) /\ Append(q, c) # <<>>
        /\ Linked(s, c).tailIdx < ChunkSize
    BY Zenon, <1>1, <1>2, <1>4, LinkedLays
  <2>3. Linked(s, c) \in BufferRecord /\ Append(q, c) \in Seq(Chunk)
    BY Zenon, <2>2 DEF Lays
  <2> QED
    BY ZenonT(30), <1>3, <2>1, <2>2, <2>3
<1>5. CASE ~NeedsChunk(s)
  <2>1. u = Written(s, t)
    BY <1>5 DEF PushTail, Written
  <2>2. s.tailChunk # Nil /\ s.tailIdx < ChunkSize
    BY <1>1, <1>5, BufferAssumption DEF NeedsChunk, BufferRecord
  <2>3. q # <<>>
    BY Zenon, <1>1, <1>2, <2>2, ListNotEmpty
  <2> QED
    BY Zenon, <1>1, <1>2, <1>3, <2>1, <2>2, <2>3
<1> QED
  BY <1>4, <1>5

\* The garbage collector takes chunks that are as good as new.
Dropped(s, c) ==
    [s EXCEPT !.chunkPool = @ \ {c}, !.unused = @ \cup {c},
              !.tasks[c] = EmptySlots, !.next[c] = Nil]

\* A chunk that the garbage collector takes from chunkPool holds nothing.
LEMMA DropHolds ==
    ASSUME NEW s, NEW C, Holds(s, C), NEW c \in s.chunkPool
    PROVE  Holds(Dropped(s, c), C)
<1> DEFINE u == Dropped(s, c)
<1>1. s \in BufferRecord /\ C \in Seq(Task) /\ Tight(s)
  BY Zenon DEF Holds
<1>2. PICK q \in Seq(Chunk) : Lays(s, q, C)
  BY Zenon DEF Holds
<1>3. Links(s, q) /\ Ends(s, q) /\ Slots(s, q, C) /\ Len(C) = s.chunkLen
  BY Zenon, <1>2 DEF Lays
<1>4. c \in Chunk
  BY <1>1 DEF BufferRecord
<1>5. s.next[c] = Nil /\ s.tasks[c] = EmptySlots /\ ~IsIn(c, q)
  BY Zenon, <1>3, <1>4 DEF Links
<1>6. /\ u \in BufferRecord /\ u.headChunk = s.headChunk /\ u.tailChunk = s.tailChunk
      /\ u.headIdx = s.headIdx /\ u.tailIdx = s.tailIdx /\ u.chunkLen = s.chunkLen
      /\ u.chunkPool = s.chunkPool \ {c} /\ u.unused = s.unused \cup {c}
  BY <1>1, <1>4 DEF Dropped, BufferRecord, EmptySlots
<1>7. u.next = s.next
  BY ONLY <1>1, <1>4, <1>5 DEF Dropped, BufferRecord
<1>8. u.tasks = s.tasks
  BY ONLY <1>1, <1>4, <1>5 DEF Dropped, BufferRecord
<1> HIDE DEF u
<1>9. Links(u, q)
  BY Zenon, <1>3, <1>5, <1>6, <1>7, <1>8 DEF Links
<1>10. Ends(u, q)
  BY Zenon, <1>3, <1>6 DEF Ends
<1>11. Slots(u, q, C)
  <2>1. \A p : InUse(u, p) <=> InUse(s, p)
    BY ONLY Zenon, <1>6 DEF InUse
  <2> QED
    <3> SUFFICES ASSUME NEW j \in 1 .. Len(q), NEW i \in Slot
                 PROVE  /\ InUse(u, Start[j] + i) =>
                              u.tasks[q[j]][i] = C[(Start[j] + i) - u.headIdx + 1]
                        /\ ~InUse(u, Start[j] + i) => u.tasks[q[j]][i] = Nil
      BY Zenon DEF Slots
    <3>1. /\ InUse(s, Start[j] + i) => s.tasks[q[j]][i] = C[(Start[j] + i) - s.headIdx + 1]
          /\ ~InUse(s, Start[j] + i) => s.tasks[q[j]][i] = Nil
      BY ONLY Zenon, <1>3 DEF Slots
    <3> QED
      BY ONLY Zenon, <1>6, <1>8, <2>1, <3>1
<1>12. Tight(u)
  BY Zenon, <1>1, <1>6 DEF Tight
<1>13. Lays(u, q, C)
  BY Zenon, <1>1, <1>3, <1>6, <1>9, <1>10, <1>11 DEF Lays
<1>14. Holds(u, C)
  BY Zenon, <1>1, <1>6, <1>12, <1>13 DEF Holds
<1> QED
  BY Zenon, <1>14 DEF u

-----------------------------------------------------------------------------
(***************************************************************************)
(* The contents, as the indices and links lay them out, are these tasks.   *)
(***************************************************************************)
LastHop(s) == (s.headIdx + s.chunkLen - 1) \div ChunkSize

\* One unfolding of Hops.
HopStep(s, f) ==
    [n \in 0 .. LastHop(s) |-> IF n = 0 THEN s.headChunk ELSE s.next[f[n - 1]]]

\* The last task is in the last chunk of the list.
LEMMA LastHopIs ==
    ASSUME NEW s \in BufferRecord, NEW q \in Seq(Chunk), NEW C \in Seq(Task),
           Lays(s, q, C), Tight(s), q # <<>>
    PROVE  LastHop(s) = Len(q) - 1
<1>1. /\ s.tailIdx <= ChunkSize
      /\ s.headIdx + s.chunkLen = Start[Len(q)] + s.tailIdx
  BY Zenon DEF Lays, Ends
<1>2. s.tailIdx >= 1
  BY Zenon, ListNotEmpty DEF Tight
<1>3. s.tailIdx \in Nat /\ s.headIdx \in Nat /\ s.chunkLen \in Nat
  BY DEF BufferRecord
<1>4. Len(q) \in Nat \ {0} /\ Len(q) \in Nat
  BY Zenon, NonEmptySeq
<1>5. Start[Len(q)] \in Nat
  BY ONLY Zenon, <1>4, StartType
<1>6. s.tailIdx - 1 \in Slot
  BY ONLY <1>1, <1>2, <1>3, BufferAssumption DEF Slot
<1> DEFINE p == s.headIdx + s.chunkLen - 1
<1>7. Start[Len(q)] + (s.tailIdx - 1) = p /\ p \in Nat
  <2>1. \A h, l, k, e \in Nat : h + l = e + k /\ k >= 1 =>
           e + (k - 1) = h + l - 1 /\ h + l - 1 \in Nat
    OBVIOUS
  <2> QED
    BY ONLY ZenonT(30), <1>1, <1>2, <1>3, <1>5, <2>1
<1> HIDE DEF p
<1>8. /\ p \div ChunkSize \in Nat /\ p % ChunkSize \in Slot
      /\ Start[(p \div ChunkSize) + 1] + (p % ChunkSize) = p
  BY ONLY Zenon, <1>7, PositionSlot
<1>9. (p \div ChunkSize) + 1 \in Nat
  <2>1. \A n \in Nat : n + 1 \in Nat
    OBVIOUS
  <2> QED
    BY ONLY Zenon, <1>8, <2>1
<1>10. (p \div ChunkSize) + 1 = Len(q)
  <2>1. Start[(p \div ChunkSize) + 1] + (p % ChunkSize) = Start[Len(q)] + (s.tailIdx - 1)
    BY ONLY Zenon, <1>7, <1>8
  <2> QED
    <3> DEFINE j == (p \div ChunkSize) + 1
               i == p % ChunkSize
               l == s.tailIdx - 1
    <3>1. /\ j \in Nat /\ Len(q) \in Nat /\ i \in Slot /\ l \in Slot
          /\ Start[j] + i = Start[Len(q)] + l
      BY ONLY Zenon, <1>4, <1>6, <1>8, <1>9, <2>1
    <3> HIDE DEF j, i, l
    <3>2. j = Len(q)
      BY ONLY Zenon, <3>1, SlotsDiffer
    <3> QED
      BY ONLY Zenon, <3>2 DEF j
<1>11. p \div ChunkSize = Len(q) - 1
  <2>1. \A n, m \in Nat : n + 1 = m => n = m - 1
    OBVIOUS
  <2> QED
    BY ONLY Zenon, <1>4, <1>8, <1>10, <2>1
<1> QED
  BY ONLY Zenon, <1>11 DEF LastHop, p

\* The links lead through the chunks in order.
LEMMA HopsAre ==
    ASSUME NEW s \in BufferRecord, NEW q \in Seq(Chunk), NEW C \in Seq(Task),
           Lays(s, q, C), Tight(s), q # <<>>
    PROVE  \A n \in 0 .. Len(q) - 1 : Hops(s)[n] = q[n + 1]
<1> DEFINE K == Len(q) - 1
           H == Hops(s)
<1>1. LastHop(s) = K
  BY Zenon, LastHopIs
<1>2. s.headChunk = q[1] /\ \A i \in 1 .. Len(q) - 1 : s.next[q[i]] = q[i + 1]
  BY Zenon, FirstChunk DEF Lays, Links
<1>3. Len(q) \in Nat \ {0}
  BY Zenon, NonEmptySeq
<1>4. ASSUME NEW n \in 0 .. K, n # 0
      PROVE  /\ n - 1 \in 0 .. K /\ n \in 1 .. Len(q) - 1 /\ (n - 1) + 1 = n
             /\ n \in Nat /\ n - 1 \in Nat /\ n - 1 < n
  BY ONLY <1>3, <1>4
<1>5. H = HopStep(s, H)
  <2> DEFINE f == [n \in 0 .. K |-> q[n + 1]]
  <2>1. ASSUME NEW n \in 0 .. K
        PROVE  f[n] = IF n = 0 THEN s.headChunk ELSE s.next[f[n - 1]]
    <3>1. CASE n = 0
      <4>1. 0 + 1 = 1
        OBVIOUS
      <4> QED
        BY ONLY Zenon, <1>2, <3>1, <4>1
    <3>2. CASE n # 0
      <4>1. f[n - 1] = q[(n - 1) + 1] /\ f[n] = q[n + 1]
        BY ONLY Zenon, <1>4, <3>2
      <4> QED
        BY ONLY Zenon, <1>2, <1>4, <3>2, <4>1
    <3> QED
      BY <3>1, <3>2
  <2>2. f = HopStep(s, f)
    BY ONLY Zenon, <1>1, <2>1 DEF HopStep
  <2>3. H = CHOOSE g : g = HopStep(s, g)
    BY DEF Hops, HopStep, LastHop
  <2> QED
    BY ONLY Zenon, <2>2, <2>3
<1> HIDE DEF H
<1>6. \A n \in 0 .. K : H[n] = IF n = 0 THEN s.headChunk ELSE s.next[H[n - 1]]
  BY ONLY Zenon, <1>1, <1>5 DEF HopStep
<1> DEFINE Bad == {n \in 0 .. K : H[n] # q[n + 1]}
<1>7. ASSUME Bad # {} PROVE FALSE
  <2>1. Bad \in SUBSET Nat
    OBVIOUS
  <2>2. PICK x \in Bad : \A y \in Bad : <<y, x>> \notin OpToRel(<, Nat)
    BY ONLY <1>7, <2>1, NatLessThanWellFounded, WFMin
  <2>3. x \in 0 .. K /\ H[x] # q[x + 1]
    BY ONLY Zenon, <2>2
  <2>4. x # 0
    <3>1. 0 + 1 = 1
      OBVIOUS
    <3> QED
      BY ONLY Zenon, <1>2, <1>6, <2>3, <3>1
  <2>5. x - 1 \notin Bad
    <3>1. x \in Nat /\ x - 1 \in Nat /\ x - 1 < x
      BY ONLY Zenon, <1>4, <2>3, <2>4
    <3> HIDE DEF Bad
    <3> QED
      BY ONLY ZenonT(60), <2>2, <3>1 DEF OpToRel
  <2>6. H[x - 1] = q[(x - 1) + 1]
    BY ONLY Zenon, <1>4, <2>3, <2>4, <2>5
  <2> QED
    <3>1. H[x] = s.next[H[x - 1]]
      BY ONLY Zenon, <1>6, <2>3, <2>4
    <3>2. x \in 1 .. Len(q) - 1 /\ (x - 1) + 1 = x
      BY ONLY Zenon, <1>4, <2>3, <2>4
    <3>3. s.next[q[x]] = q[x + 1]
      BY ONLY Zenon, <1>2, <3>2
    <3>4. H[x - 1] = q[x]
      BY ONLY Zenon, <2>6, <3>2
    <3> QED
      BY ONLY Zenon, <2>3, <3>1, <3>3, <3>4
<1>8. \A n \in 0 .. K : H[n] = q[n + 1]
  BY ONLY Zenon, <1>7
<1> QED
  BY ONLY Zenon, <1>8 DEF H

\* The buffer's contents are the tasks it is shown to hold.
LEMMA HoldsContents ==
    ASSUME NEW s, NEW C, Holds(s, C)
    PROVE  ContentsOf(s) = C /\ s.chunkLen = Len(C) /\ C \in Seq(Task)
<1>1. s \in BufferRecord /\ C \in Seq(Task) /\ Tight(s)
  BY Zenon DEF Holds
<1>2. PICK q \in Seq(Chunk) : Lays(s, q, C)
  BY Zenon DEF Holds
<1>3. Ends(s, q) /\ Slots(s, q, C) /\ Len(C) = s.chunkLen
  BY Zenon, <1>2 DEF Lays
<1>4. s.tailIdx \in Nat /\ s.headIdx \in Nat /\ s.chunkLen \in Nat
  BY <1>1 DEF BufferRecord
<1>5. ASSUME NEW k \in 1 .. s.chunkLen
      PROVE  s.tasks[Hops(s)[(s.headIdx + k - 1) \div ChunkSize]]
                    [(s.headIdx + k - 1) % ChunkSize] = C[k]
  <2> DEFINE p == s.headIdx + k - 1
             n == p \div ChunkSize
             m == p % ChunkSize
  <2>1. q # <<>>
    <3>1. s.chunkLen # 0
      BY ONLY <1>4
    <3> QED
      BY ONLY Zenon, <1>3, <3>1 DEF Ends
  <2>2. /\ p \in Nat /\ s.headIdx <= p /\ p < s.headIdx + s.chunkLen
        /\ p - s.headIdx + 1 = k
    BY ONLY <1>4
  <2> HIDE DEF p
  <2>3. n \in Nat /\ m \in Slot /\ Start[n + 1] + m = p
    BY ONLY Zenon, <2>2, PositionSlot
  <2> HIDE DEF n, m
  <2>4. Len(q) \in Nat /\ Len(q) \in Nat \ {0}
    BY ONLY Zenon, <2>1, NonEmptySeq
  <2>5. n + 1 \in Nat /\ n + 1 \in Nat \ {0} /\ m \in Nat
    BY ONLY <2>3, BufferAssumption DEF Slot
  <2>6. ~(Len(q) < n + 1)
    <3>1. p < Start[Len(q)] + s.tailIdx /\ s.tailIdx <= ChunkSize
      BY ONLY Zenon, <1>3, <2>1, <2>2 DEF Ends
    <3>2. Start[Len(q)] \in Nat /\ Start[n + 1] \in Nat
      BY ONLY Zenon, <2>4, <2>5, StartType
    <3>3. Len(q) < n + 1 => Start[Len(q)] + ChunkSize <= Start[n + 1]
      BY ONLY Zenon, <2>4, <2>5, StartOrder
    <3>4. \A e, f, i, t, c \in Nat : f + i < e + t /\ t <= c => ~(e + c <= f)
      OBVIOUS
    <3>5. Start[n + 1] + m < Start[Len(q)] + s.tailIdx
      BY ONLY Zenon, <2>3, <3>1
    <3>6. ChunkSize \in Nat
      BY ONLY BufferAssumption
    <3> QED
      BY ONLY Zenon, <1>4, <2>5, <3>1, <3>2, <3>3, <3>4, <3>5, <3>6
  <2>7. n \in 0 .. Len(q) - 1 /\ n + 1 \in 1 .. Len(q)
    <3>1. \A i \in Nat, l \in Nat : ~(l < i + 1) => i \in 0 .. l - 1 /\ i + 1 \in 1 .. l
      OBVIOUS
    <3> QED
      BY ONLY Zenon, <2>3, <2>4, <2>6, <3>1
  <2>8. Hops(s)[n] = q[n + 1]
    BY ONLY Zenon, <1>1, <1>2, <2>1, <2>7, HopsAre
  <2>9. InUse(s, p)
    BY ONLY Zenon, <2>2 DEF InUse
  <2>10. InUse(s, Start[n + 1] + m) =>
            s.tasks[q[n + 1]][m] = C[(Start[n + 1] + m) - s.headIdx + 1]
    BY ONLY Zenon, <1>3, <2>3, <2>7 DEF Slots
  <2>11. s.tasks[q[n + 1]][m] = C[p - s.headIdx + 1]
    BY ONLY Zenon, <2>3, <2>9, <2>10
  <2>12. s.tasks[Hops(s)[n]][m] = C[k]
    BY ONLY Zenon, <2>2, <2>8, <2>11
  <2> QED
    BY ONLY Zenon, <2>12 DEF n, m, p
<1>6. ContentsOf(s) = [k \in 1 .. s.chunkLen |-> C[k]]
  BY ONLY Zenon, <1>5 DEF ContentsOf
<1>7. C = [k \in 1 .. Len(C) |-> C[k]]
  BY ONLY <1>1
<1> QED
  BY ONLY Zenon, <1>1, <1>3, <1>6, <1>7

\* The type and the chunks waiting for reuse.
LEMMA HoldsClean ==
    ASSUME NEW s, NEW C, Holds(s, C), NEW c \in s.chunkPool
    PROVE  /\ s.next[c] = Nil /\ s.tasks[c] = EmptySlots
           /\ c \notin {s.headChunk, s.tailChunk}
           /\ \A d \in Chunk : s.next[d] # c
<1>1. s \in BufferRecord /\ C \in Seq(Task) /\ Tight(s)
  BY Zenon DEF Holds
<1>2. PICK q \in Seq(Chunk) : Lays(s, q, C)
  BY Zenon DEF Holds
<1>3. Links(s, q) /\ Ends(s, q)
  BY Zenon, <1>2 DEF Lays
<1>4. c \in Chunk /\ c # Nil
  BY <1>1, BufferAssumption DEF BufferRecord
<1>5. ~IsIn(c, q) /\ s.next[c] = Nil /\ s.tasks[c] = EmptySlots
  BY Zenon, <1>3, <1>4 DEF Links
<1>6. c \notin {s.headChunk, s.tailChunk}
  <2>1. CASE q = <<>>
    <3>1. s.headChunk = Nil /\ s.tailChunk = Nil
      BY Zenon, <1>3, <2>1 DEF Ends
    <3> QED
      BY ONLY <1>4, <3>1
  <2>2. CASE q # <<>>
    <3>1. s.headChunk = q[1] /\ s.tailChunk = q[Len(q)]
      BY Zenon, <1>3, <2>2 DEF Ends
    <3>2. 1 \in 1 .. Len(q) /\ Len(q) \in 1 .. Len(q)
      BY Zenon, <2>2, NonEmptySeq
    <3> QED
      BY Zenon, <1>5, <3>1, <3>2 DEF IsIn
  <2> QED
    BY Zenon, <2>1, <2>2
<1>7. ASSUME NEW d \in Chunk PROVE s.next[d] # c
  <2>1. CASE ~IsIn(d, q)
    <3>1. s.next[d] = Nil
      BY Zenon, <1>3, <2>1 DEF Links
    <3> QED
      BY <1>4, <3>1
  <2>2. CASE IsIn(d, q)
    <3>1. PICK i \in 1 .. Len(q) : q[i] = d
      BY Zenon, <2>2 DEF IsIn
    <3>2. q # <<>> /\ (i = Len(q) \/ (i \in 1 .. Len(q) - 1 /\ i + 1 \in 1 .. Len(q)))
      BY <3>1
    <3>3. s.next[d] = Nil \/ IsIn(s.next[d], q)
      BY Zenon, <1>3, <3>1, <3>2 DEF Links, IsIn
    <3> QED
      BY Zenon, <1>4, <1>5, <3>3
  <2> QED
    BY Zenon, <2>1, <2>2
<1> QED
  BY Zenon, <1>5, <1>6, <1>7

-----------------------------------------------------------------------------
(***************************************************************************)
(* The loop of PopBatch.                                                   *)
(***************************************************************************)
LoopStep(N, x, f) == [n \in 0 .. N |-> IF n = 0 THEN x ELSE PopTurn(f[n - 1])]

\* However many turns the loop is given, there is a run of it.
LEMMA LoopRuns ==
    ASSUME NEW x, NEW M \in Nat
    PROVE  \E f : f = LoopStep(M, x, f)
<1> DEFINE Bad == {N \in Nat : ~\E f : f = LoopStep(N, x, f)}
<1>1. ASSUME Bad # {} PROVE FALSE
  <2>1. Bad \in SUBSET Nat
    OBVIOUS
  <2>2. PICK N \in Bad : \A y \in Bad : <<y, N>> \notin OpToRel(<, Nat)
    BY ONLY <1>1, <2>1, NatLessThanWellFounded, WFMin
  <2>3. N \in Nat /\ ~\E f : f = LoopStep(N, x, f)
    BY ONLY Zenon, <2>2
  <2>4. N # 0
    <3> DEFINE f == [n \in 0 .. 0 |-> x]
    <3>1. \A n \in 0 .. 0 : n = 0
      OBVIOUS
    <3>2. f = LoopStep(0, x, f)
      BY ONLY Zenon, <3>1 DEF LoopStep
    <3> HIDE DEF f
    <3> QED
      BY ONLY Zenon, <2>3, <3>2
  <2>5. N - 1 \in Nat /\ N - 1 < N
    BY ONLY <2>3, <2>4
  <2>6. N - 1 \notin Bad
    <3> HIDE DEF Bad
    <3> QED
      BY ONLY ZenonT(60), <2>2, <2>3, <2>5 DEF OpToRel
  <2>7. PICK g : g = LoopStep(N - 1, x, g)
    BY ONLY Zenon, <2>5, <2>6
  <2> DEFINE f == [n \in 0 .. N |-> IF n = N THEN PopTurn(g[N - 1]) ELSE g[n]]
  <2>8. ASSUME NEW n \in 0 .. N
        PROVE  f[n] = IF n = 0 THEN x ELSE PopTurn(f[n - 1])
    <3>1. /\ n # N => n \in 0 .. N - 1
          /\ n # 0 => n - 1 \in 0 .. N /\ n - 1 # N /\ n - 1 \in 0 .. N - 1
      BY ONLY <2>3
    <3>2. \A k \in 0 .. N - 1 : g[k] = IF k = 0 THEN x ELSE PopTurn(g[k - 1])
      BY ONLY Zenon, <2>7 DEF LoopStep
    <3>3. n # 0 => f[n - 1] = g[n - 1]
      BY ONLY Zenon, <3>1
    <3>4. CASE n = N
      BY ONLY Zenon, <2>4, <3>3, <3>4
    <3>5. CASE n # N
      <4>1. f[n] = g[n]
        BY ONLY Zenon, <3>5
      <4> QED
        BY ONLY Zenon, <3>1, <3>2, <3>3, <3>5, <4>1
    <3> QED
      BY <3>4, <3>5
  <2>9. f = LoopStep(N, x, f)
    BY ONLY Zenon, <2>8 DEF LoopStep
  <2> HIDE DEF f
  <2> QED
    BY ONLY Zenon, <2>3, <2>9
<1> QED
  BY ONLY Zenon, <1>1

\* How many of l tasks n turns take.
Turns(n, l) == IF n <= l THEN n ELSE l

\* After n turns dst holds the first of the tasks, the buffer the others.
Split(x, C, n) ==
    /\ Holds(x.buf, SubSeq(C, Turns(n, Len(C)) + 1, Len(C)))
    /\ x.dst = SubSeq(C, 1, Turns(n, Len(C)))

\* Moving a boundary through a sequence by one.
LEMMA SplitSeq ==
    ASSUME NEW C \in Seq(Task), NEW m \in Nat, m < Len(C)
    PROVE  /\ SubSeq(C, m + 1, Len(C)) # <<>>
           /\ SubSeq(C, m + 1, Len(C))[1] = C[m + 1]
           /\ Tail(SubSeq(C, m + 1, Len(C))) = SubSeq(C, (m + 1) + 1, Len(C))
           /\ Append(SubSeq(C, 1, m), C[m + 1]) = SubSeq(C, 1, m + 1)
<1>1. Len(C) \in Nat /\ \A k \in 1 .. Len(C) : C[k] \in Task
  OBVIOUS
<1>2. /\ SubSeq(C, m + 1, Len(C)) \in Seq(Task)
      /\ Len(SubSeq(C, m + 1, Len(C))) = Len(C) - m
      /\ \A k \in 1 .. Len(C) - m : SubSeq(C, m + 1, Len(C))[k] = C[m + k]
  BY <1>1
<1>3. /\ SubSeq(C, (m + 1) + 1, Len(C)) \in Seq(Task)
      /\ Len(SubSeq(C, (m + 1) + 1, Len(C))) = Len(C) - (m + 1)
      /\ \A k \in 1 .. Len(C) - (m + 1) : SubSeq(C, (m + 1) + 1, Len(C))[k] = C[(m + 1) + k]
  BY <1>1
<1>4. /\ SubSeq(C, 1, m) \in Seq(Task) /\ Len(SubSeq(C, 1, m)) = m
      /\ \A k \in 1 .. m : SubSeq(C, 1, m)[k] = C[k]
  BY <1>1
<1>5. /\ SubSeq(C, 1, m + 1) \in Seq(Task) /\ Len(SubSeq(C, 1, m + 1)) = m + 1
      /\ \A k \in 1 .. m + 1 : SubSeq(C, 1, m + 1)[k] = C[k]
  BY <1>1
<1> DEFINE R == SubSeq(C, m + 1, Len(C))
           F == SubSeq(C, 1, m)
           G == SubSeq(C, 1, m + 1)
<1>6. R # <<>> /\ R[1] = C[m + 1]
  <2>1. /\ R \in Seq(Task) /\ Len(R) = Len(C) - m
        /\ \A k \in 1 .. Len(C) - m : R[k] = C[m + k]
    BY ONLY Zenon, <1>2
  <2> HIDE DEF R
  <2>2. Len(C) - m # 0 /\ 1 \in 1 .. Len(C) - m
    BY ONLY <1>1, m < Len(C)
  <2>3. R[1] = C[m + 1]
    BY ONLY Zenon, <2>1, <2>2
  <2>4. R # <<>>
    BY ONLY <2>1, <2>2
  <2> QED
    BY ONLY Zenon, <2>3, <2>4
<1>7. Tail(SubSeq(C, m + 1, Len(C))) = SubSeq(C, (m + 1) + 1, Len(C))
  BY <1>1, <1>2, <1>3
<1>8. Append(F, C[m + 1]) = G
  <2>1. F \in Seq(Task) /\ Len(F) = m /\ \A k \in 1 .. m : F[k] = C[k]
    BY ONLY Zenon, <1>4
  <2>2. G \in Seq(Task) /\ Len(G) = m + 1 /\ \A k \in 1 .. m + 1 : G[k] = C[k]
    BY ONLY Zenon, <1>5
  <2> HIDE DEF F, G
  <2>3. C[m + 1] \in Task
    BY ONLY <1>1, m < Len(C)
  <2> QED
    BY ONLY <2>1, <2>2, <2>3
<1> QED
  BY <1>6, <1>7, <1>8

\* One more turn takes the next task, if there is one.
LEMMA TurnSplits ==
    ASSUME NEW x, NEW C \in Seq(Task), NEW n \in Nat, Split(x, C, n)
    PROVE  Split(PopTurn(x), C, n + 1)
<1> DEFINE l == Len(C)
           m == Turns(n, l)
           R == SubSeq(C, m + 1, l)
<1>1. l \in Nat
  OBVIOUS
<1>2. Holds(x.buf, R) /\ x.dst = SubSeq(C, 1, m)
  BY Zenon DEF Split
<1>3. /\ Holds(PopHead(x.buf), IF R = <<>> THEN <<>> ELSE Tail(R))
      /\ HasHead(x.buf) <=> R # <<>>
      /\ R # <<>> => HeadTask(x.buf) = R[1]
  BY Zenon, <1>2, PopHolds, PeekHolds
<1>4. /\ PopTurn(x).buf = PopHead(x.buf)
      /\ PopTurn(x).dst = IF HasHead(x.buf) THEN Append(x.dst, HeadTask(x.buf)) ELSE x.dst
  BY DEF PopTurn
<1>5. CASE n < l
  <2>1. m = n /\ m \in Nat /\ Turns(n + 1, l) = m + 1
    BY <1>1, <1>5 DEF Turns
  <2>2. /\ R # <<>> /\ R[1] = C[m + 1]
        /\ Tail(R) = SubSeq(C, (m + 1) + 1, l)
        /\ Append(SubSeq(C, 1, m), C[m + 1]) = SubSeq(C, 1, m + 1)
    BY Zenon, <1>5, <2>1, SplitSeq
  <2>3. Holds(PopTurn(x).buf, SubSeq(C, (m + 1) + 1, l))
    BY Zenon, <1>3, <1>4, <2>2
  <2>4. PopTurn(x).dst = SubSeq(C, 1, m + 1)
    BY Zenon, <1>2, <1>3, <1>4, <2>2
  <2> HIDE DEF m
  <2> QED
    BY Zenon, <2>1, <2>3, <2>4 DEF Split
<1>6. CASE ~(n < l)
  <2>1. m = l /\ Turns(n + 1, l) = l
    BY <1>1, <1>6 DEF Turns
  <2>2. SubSeq(C, l + 1, l) = <<>>
    BY <1>1
  <2>3. R = <<>>
    BY Zenon, <2>1, <2>2
  <2>4. Holds(PopTurn(x).buf, SubSeq(C, l + 1, l))
    BY Zenon, <1>3, <1>4, <2>2, <2>3
  <2>5. PopTurn(x).dst = SubSeq(C, 1, l)
    BY Zenon, <1>2, <1>3, <1>4, <2>1, <2>3
  <2> QED
    BY Zenon, <2>1, <2>4, <2>5 DEF Split
<1> QED
  BY Zenon, <1>5, <1>6

\* The loop keeps what it has taken and what is left apart.
LEMMA LoopSplits ==
    ASSUME NEW s, NEW C, Holds(s, C), NEW N \in Nat, NEW f,
           f = LoopStep(N, [buf |-> s, dst |-> <<>>], f)
    PROVE  Split(f[N], C, N)
<1> DEFINE Bad == {n \in Nat : n <= N /\ ~Split(f[n], C, n)}
           x == [buf |-> s, dst |-> <<>>]
<1>1. C \in Seq(Task)
  BY Zenon DEF Holds
<1>2. \A n \in 0 .. N : f[n] = IF n = 0 THEN x ELSE PopTurn(f[n - 1])
  BY Zenon DEF LoopStep
<1>3. Split(x, C, 0)
  <2>1. Turns(0, Len(C)) = 0 /\ SubSeq(C, 0 + 1, Len(C)) = C /\ SubSeq(C, 1, 0) = <<>>
    BY <1>1 DEF Turns
  <2>2. x.buf = s /\ x.dst = <<>>
    OBVIOUS
  <2> HIDE DEF x
  <2> QED
    BY Zenon, <2>1, <2>2 DEF Split
<1>4. ASSUME Bad # {} PROVE FALSE
  <2>1. Bad \in SUBSET Nat
    OBVIOUS
  <2>2. PICK n \in Bad : \A y \in Bad : <<y, n>> \notin OpToRel(<, Nat)
    BY ONLY <1>4, <2>1, NatLessThanWellFounded, WFMin
  <2>3. n \in Nat /\ n <= N /\ ~Split(f[n], C, n)
    BY ONLY Zenon, <2>2
  <2>4. n \in 0 .. N /\ 0 \in 0 .. N
    BY ONLY <2>3, N \in Nat
  <2>5. n # 0
    BY ONLY Zenon, <1>2, <1>3, <2>3, <2>4
  <2>6. n - 1 \in Nat /\ n - 1 < n /\ n - 1 <= N /\ (n - 1) + 1 = n
    BY ONLY <2>3, <2>5, N \in Nat
  <2>7. n - 1 \notin Bad
    <3> HIDE DEF Bad
    <3> QED
      BY ONLY ZenonT(60), <2>2, <2>3, <2>6 DEF OpToRel
  <2>8. Split(f[n - 1], C, n - 1)
    BY ONLY Zenon, <2>6, <2>7
  <2>9. f[n] = PopTurn(f[n - 1])
    BY ONLY Zenon, <1>2, <2>4, <2>5
  <2>10. Split(PopTurn(f[n - 1]), C, (n - 1) + 1)
    BY ONLY Zenon, <1>1, <2>6, <2>8, TurnSplits
  <2> QED
    BY ONLY Zenon, <2>3, <2>6, <2>9, <2>10
<1>5. N <= N
  OBVIOUS
<1> QED
  BY ONLY Zenon, <1>4, <1>5, N \in Nat

\* PopBatch takes the first BatchSize tasks, or all of them.
LEMMA PoppedSplits ==
    ASSUME NEW C, Holds(b, C)
    PROVE  Split(Popped, C, BatchSize)
<1> DEFINE x == [buf |-> b, dst |-> <<>>]
           f == CHOOSE g : g = LoopStep(BatchSize, x, g)
<1>1. BatchSize \in Nat
  BY BufferAssumption
<1>2. Popped = f[BatchSize]
  BY DEF Popped, LoopStep
<1>3. f = LoopStep(BatchSize, x, f)
  BY Zenon, <1>1, LoopRuns
<1>4. Split(f[BatchSize], C, BatchSize)
  <2> HIDE DEF f
  <2> QED
    BY Zenon, <1>1, <1>3, LoopSplits
<1> QED
  BY ONLY Zenon, <1>2, <1>4
-----------------------------------------------------------------------------
\* A new buffer is empty.
LEMMA HoldsAtFirst ==
    ASSUME Init
    PROVE  Holds(b, <<>>)
<1>1. /\ b.headChunk = Nil /\ b.tailChunk = Nil /\ b.headIdx = 0 /\ b.tailIdx = 0
      /\ b.chunkLen = 0 /\ b.chunkPool = {} /\ b.unused = Chunk
      /\ \A c \in Chunk : b.tasks[c] = EmptySlots /\ b.next[c] = Nil
  BY DEF Init
<1>2. b \in BufferRecord
  BY DEF Init, BufferRecord, EmptySlots
<1>3. /\ <<>> \in Seq(Chunk) /\ <<>> \in Seq(Task) /\ Len(<<>>) = 0
      /\ 1 .. 0 = {} /\ 1 .. 0 - 1 = {}
  OBVIOUS
<1>4. \A c \in Chunk : ~IsIn(c, <<>>)
  BY ONLY Zenon, <1>3 DEF IsIn
<1>5. Links(b, <<>>)
  <2>1. 1 .. Len(<<>>) = {} /\ 1 .. Len(<<>>) - 1 = {}
    OBVIOUS
  <2>2. \A c \in b.chunkPool \cup b.unused : c \in Chunk
    BY ONLY Zenon, <1>1
  <2> QED
    BY ONLY Zenon, <1>1, <1>4, <2>1, <2>2 DEF Links
<1>6. Ends(b, <<>>) /\ Slots(b, <<>>, <<>>)
  <2>1. 1 .. Len(<<>>) = {}
    OBVIOUS
  <2>2. Ends(b, <<>>)
    BY ONLY Zenon, <1>1 DEF Ends
  <2> QED
    BY ONLY Zenon, <2>1, <2>2 DEF Slots
<1>7. Len(<<>>) = b.chunkLen
  BY ONLY Zenon, <1>1, <1>3
<1>8. Lays(b, <<>>, <<>>)
  BY ONLY Zenon, <1>2, <1>3, <1>5, <1>6, <1>7 DEF Lays
<1>9. Tight(b)
  BY ONLY Zenon, <1>1 DEF Tight
<1> QED
  BY ONLY Zenon, <1>2, <1>3, <1>8, <1>9 DEF Holds

\* A buffer that lays out tasks has the types of its fields.
LEMMA HoldsTyped ==
    ASSUME NEW s, NEW C, Holds(s, C)
    PROVE  s \in BufferRecord /\ s.headIdx <= ChunkSize /\ s.tailIdx <= ChunkSize
<1>1. s \in BufferRecord
  BY Zenon DEF Holds
<1>2. PICK q \in Seq(Chunk) : Ends(s, q)
  BY Zenon DEF Holds, Lays
<1>3. 0 <= ChunkSize
  BY BufferAssumption
<1>4. s.headIdx <= ChunkSize /\ s.tailIdx <= ChunkSize
  BY ONLY Zenon, <1>2, <1>3 DEF Ends
<1> QED
  BY ONLY Zenon, <1>1, <1>4
-----------------------------------------------------------------------------
\* The inductive invariant: the buffer lays out some sequence of tasks, no
\* longer than the bound.
BufferInv ==
    /\ overflowClosed \in BOOLEAN
    /\ \E C : Holds(b, C) /\ Len(C) <= MaxChunkLen

\* The invariant holds of a new buffer.
LEMMA BufferInvInit == Init => BufferInv
<1> SUFFICES ASSUME Init PROVE BufferInv
  OBVIOUS
<1>1. Holds(b, <<>>)
  BY Zenon, HoldsAtFirst
<1>2. Len(<<>>) <= MaxChunkLen
  BY BufferAssumption
<1>3. overflowClosed \in BOOLEAN
  BY DEF Init
<1> QED
  BY ONLY Zenon, <1>1, <1>2, <1>3 DEF BufferInv
-----------------------------------------------------------------------------
\* What Contents says of a buffer that holds C.
LEMMA ContentsAre ==
    ASSUME NEW C, Holds(b, C)
    PROVE  Contents = C /\ b.chunkLen = Len(C) /\ C \in Seq(Task) /\ Len(C) \in Nat
<1>1. ContentsOf(b) = C /\ b.chunkLen = Len(C) /\ C \in Seq(Task)
  BY Zenon, HoldsContents
<1>2. Len(C) \in Nat
  BY ONLY <1>1
<1> QED
  BY ONLY Zenon, <1>1, <1>2 DEF Contents

\* The same after a step.
LEMMA NewContentsAre ==
    ASSUME NEW C, Holds(b', C)
    PROVE  Contents' = C
<1>1. ContentsOf(b') = C
  BY Zenon, HoldsContents
<1>2. Contents' = ContentsOf(b')
  BY Zenon DEF Contents
<1> QED
  BY ONLY Zenon, <1>1, <1>2

\* The loop of PopBatch takes as many turns as Fifo takes tasks.
LEMMA MinIsTurns ==
    ASSUME NEW n \in Nat, NEW l \in Nat
    PROVE  Fifo!Min({n, l}) = Turns(n, l) /\ Turns(n, l) \in Nat /\ Turns(n, l) <= l
<1>1. Turns(n, l) \in Nat /\ Turns(n, l) <= l /\ Turns(n, l) <= n /\ Turns(n, l) \in {n, l}
  BY DEF Turns
<1>2. \A x \in {n, l} : (\A y \in {n, l} : x <= y) => x = Turns(n, l)
  BY DEF Turns
<1>3. \A y \in {n, l} : Turns(n, l) <= y
  BY ONLY Zenon, <1>1
<1>4. Fifo!Min({n, l}) = CHOOSE x \in {n, l} : \A y \in {n, l} : x <= y
  BY Zenon DEF Fifo!Min
<1>5. Fifo!Min({n, l}) = Turns(n, l)
  BY ONLY Zenon, <1>1, <1>2, <1>3, <1>4
<1> QED
  BY ONLY Zenon, <1>1, <1>5

\* pushAndForward.
LEMMA PushStep ==
    ASSUME NEW C, Holds(b, C), Len(C) <= MaxChunkLen, NEW t \in Task, PushAndForward(t)
    PROVE  /\ Fifo!Push(t)
           /\ \E D : Holds(b', D) /\ Len(D) <= MaxChunkLen
<1>1. Contents = C /\ b.chunkLen = Len(C) /\ C \in Seq(Task) /\ Len(C) \in Nat
  BY Zenon, ContentsAre
<1>2. UNCHANGED overflowClosed
  BY Zenon DEF PushAndForward
<1>3. CASE /\ \/ overflowClosed /\ out' = <<"Closed">>
              \/ /\ ~overflowClosed /\ b.chunkLen >= MaxChunkLen
                 /\ out' = <<"Full">>
           /\ UNCHANGED b
  <2>1. Holds(b', C)
    BY Zenon, <1>3
  <2>2. Contents' = Contents
    BY Zenon, <1>1, <2>1, NewContentsAre
  <2>3. Len(Contents) = b.chunkLen
    BY ONLY Zenon, <1>1
  <2>4. Fifo!Push(t)
    BY Zenon, <1>2, <1>3, <2>2, <2>3 DEF Fifo!Push
  <2> QED
    BY Zenon, <2>1, <2>4
<1>4. CASE /\ ~overflowClosed /\ b.chunkLen < MaxChunkLen
           /\ \E s \in PushTail(b, t) : b' = Peeked(s) /\ out' = <<"Accepted">>
  <2>1. PICK s \in PushTail(b, t) : b' = Peeked(s)
    BY Zenon, <1>4
  <2>2. Holds(s, Append(C, t))
    BY Zenon, PushHolds
  <2>3. Holds(b', Append(C, t))
    BY Zenon, <2>1, <2>2, PeekHolds
  <2>4. Contents' = Append(C, t)
    BY Zenon, <2>3, NewContentsAre
  <2>5. Len(Append(C, t)) <= MaxChunkLen
    BY ONLY <1>1, <1>4, BufferAssumption, t \in Task
  <2>6. Len(Contents) < MaxChunkLen
    BY ONLY Zenon, <1>1, <1>4
  <2>7. Fifo!Push(t)
    BY Zenon, <1>1, <1>2, <1>4, <2>4, <2>6 DEF Fifo!Push
  <2> QED
    BY ONLY Zenon, <2>3, <2>5, <2>7
<1>5. CASE /\ ~overflowClosed /\ b.chunkLen < MaxChunkLen
           /\ \E s \in PushTail(b, t) :
                b' = AfterForward(s) /\ out' = <<"Forwarded", HeadTask(s)>>
  <2>1. PICK s \in PushTail(b, t) :
                b' = AfterForward(s) /\ out' = <<"Forwarded", HeadTask(s)>>
    BY Zenon, <1>5
  <2> DEFINE A == Append(C, t)
  <2>2. Holds(s, A)
    BY Zenon, PushHolds
  <2>3. A # <<>> /\ Head(A) = A[1] /\ Len(Tail(A)) = Len(C)
    BY ONLY <1>1, t \in Task
  <2> HIDE DEF A
  <2>4. HeadTask(s) = Head(A)
    BY Zenon, <2>2, <2>3, PeekHolds
  <2>5. Holds(Peeked(s), A)
    BY Zenon, <2>2, PeekHolds
  <2>6. Holds(PopHead(Peeked(s)), IF A = <<>> THEN <<>> ELSE Tail(A))
    BY Zenon, <2>5, PopHolds
  <2>7. Holds(b', Tail(A))
    BY Zenon, <2>1, <2>3, <2>6 DEF AfterForward
  <2>8. Contents' = Tail(A)
    BY Zenon, <2>7, NewContentsAre
  <2>9. Len(Contents) < MaxChunkLen
    BY ONLY Zenon, <1>1, <1>5
  <2>10. Fifo!Push(t)
    BY Zenon, <1>1, <1>2, <1>5, <2>1, <2>4, <2>8, <2>9 DEF Fifo!Push, A
  <2>11. Len(Tail(A)) <= MaxChunkLen
    BY ONLY Zenon, <2>3, Len(C) <= MaxChunkLen
  <2> QED
    BY ONLY Zenon, <2>7, <2>10, <2>11
<1> QED
  BY Zenon, <1>3, <1>4, <1>5 DEF PushAndForward

\* PopBatch takes from the front what PopBatch of Fifo takes.
LEMMA PopStep ==
    ASSUME NEW C, Holds(b, C), Len(C) <= MaxChunkLen, PopBatch
    PROVE  /\ Fifo!PopBatch
           /\ \E D : Holds(b', D) /\ Len(D) <= MaxChunkLen
<1> DEFINE m == Turns(BatchSize, Len(C))
           D == SubSeq(C, m + 1, Len(C))
<1>1. Contents = C /\ C \in Seq(Task) /\ Len(C) \in Nat
  BY Zenon, ContentsAre
<1>2. Fifo!Min({BatchSize, Len(C)}) = m /\ m \in Nat /\ m <= Len(C)
  BY Zenon, <1>1, BufferAssumption, MinIsTurns
<1>3. Holds(Popped.buf, D) /\ Popped.dst = SubSeq(C, 1, m)
  BY Zenon, PoppedSplits DEF Split
<1>4. Holds(b', D) /\ out' = <<"Popped", SubSeq(C, 1, m)>> /\ UNCHANGED overflowClosed
  BY Zenon, <1>3 DEF PopBatch
<1>5. Contents' = D
  BY Zenon, <1>4, NewContentsAre
<1>6. Fifo!PopBatch
  <2> HIDE DEF m
  <2> QED
    BY Zenon, <1>1, <1>2, <1>4, <1>5 DEF Fifo!PopBatch
<1>7. Len(D) <= MaxChunkLen
  <2>1. Len(D) = Len(C) - m
    <3> HIDE DEF m
    <3> QED
      BY ONLY <1>1, <1>2
  <2> HIDE DEF D, m
  <2> QED
    BY ONLY <1>1, <1>2, <2>1, BufferAssumption, Len(C) <= MaxChunkLen
<1> QED
  BY ONLY Zenon, <1>4, <1>6, <1>7

\* What the garbage collector does is no step of Fifo.
LEMMA DropStep ==
    ASSUME NEW C, Holds(b, C), NEW c \in Chunk, DropPooled(c)
    PROVE  Holds(b', C) /\ Contents' = Contents /\ UNCHANGED <<overflowClosed, out>>
<1>1. c \in b.chunkPool /\ b' = Dropped(b, c) /\ UNCHANGED <<overflowClosed, out>>
  BY Zenon DEF DropPooled, Dropped
<1>2. Holds(b', C)
  BY Zenon, <1>1, DropHolds
<1>3. Contents = C /\ Contents' = C
  BY Zenon, <1>2, ContentsAre, NewContentsAre
<1> QED
  BY ONLY Zenon, <1>1, <1>2, <1>3

\* Every step of the buffer keeps the invariant and is a step of the queue.
LEMMA BufferStep ==
    ASSUME BufferInv, [Next]_vars
    PROVE  BufferInv' /\ [Fifo!Next]_<<Contents, overflowClosed, out>>
<1>1. PICK C : Holds(b, C) /\ Len(C) <= MaxChunkLen
  BY Zenon DEF BufferInv
<1>2. overflowClosed \in BOOLEAN
  BY Zenon DEF BufferInv
<1>3. ASSUME NEW t \in Task, PushAndForward(t)
      PROVE  BufferInv' /\ Fifo!Next
  <2>1. /\ Fifo!Push(t)
        /\ \E D : Holds(b', D) /\ Len(D) <= MaxChunkLen
    BY Zenon, <1>1, <1>3, PushStep
  <2>2. overflowClosed' \in BOOLEAN
    BY Zenon, <1>2, <1>3 DEF PushAndForward
  <2> QED
    BY Zenon, <2>1, <2>2 DEF BufferInv, Fifo!Next
<1>4. ASSUME PopBatch
      PROVE  BufferInv' /\ Fifo!Next
  <2>1. /\ Fifo!PopBatch
        /\ \E D : Holds(b', D) /\ Len(D) <= MaxChunkLen
    BY Zenon, <1>1, <1>4, PopStep
  <2>2. overflowClosed' \in BOOLEAN
    BY Zenon, <1>2, <1>4 DEF PopBatch
  <2> QED
    BY Zenon, <2>1, <2>2 DEF BufferInv, Fifo!Next
<1>5. ASSUME UNCHANGED b
      PROVE  Holds(b', C) /\ UNCHANGED Contents
  <2>1. Holds(b', C)
    BY Zenon, <1>1, <1>5
  <2> QED
    BY Zenon, <1>1, <2>1, ContentsAre, NewContentsAre
<1>6. ASSUME Length
      PROVE  BufferInv' /\ Fifo!Next
  <2>1. Holds(b', C) /\ UNCHANGED Contents
    BY Zenon, <1>5, <1>6 DEF Length
  <2>2. Len(Contents) = b.chunkLen
    BY Zenon, <1>1, ContentsAre
  <2>3. Fifo!Length
    BY Zenon, <1>6, <2>1, <2>2 DEF Length, Fifo!Length
  <2>4. overflowClosed' \in BOOLEAN
    BY Zenon, <1>2, <1>6 DEF Length
  <2> QED
    BY Zenon, <1>1, <2>1, <2>3, <2>4 DEF BufferInv, Fifo!Next
<1>7. ASSUME Close
      PROVE  BufferInv' /\ Fifo!Next
  <2>1. Holds(b', C) /\ UNCHANGED Contents
    BY Zenon, <1>5, <1>7 DEF Close
  <2>2. Fifo!Close
    BY Zenon, <1>7, <2>1 DEF Close, Fifo!Close
  <2>3. overflowClosed' \in BOOLEAN
    BY Zenon, <1>7 DEF Close
  <2> QED
    BY Zenon, <1>1, <2>1, <2>2, <2>3 DEF BufferInv, Fifo!Next
<1>8. ASSUME NEW c \in Chunk, DropPooled(c)
      PROVE  BufferInv' /\ UNCHANGED <<Contents, overflowClosed, out>>
  <2>1. Holds(b', C) /\ Contents' = Contents /\ UNCHANGED <<overflowClosed, out>>
    BY Zenon, <1>1, <1>8, DropStep
  <2> QED
    BY Zenon, <1>1, <1>2, <2>1 DEF BufferInv
<1>9. ASSUME UNCHANGED vars
      PROVE  BufferInv' /\ UNCHANGED <<Contents, overflowClosed, out>>
  <2>1. Holds(b', C) /\ UNCHANGED Contents
    BY Zenon, <1>5, <1>9 DEF vars
  <2> QED
    BY Zenon, <1>1, <1>2, <1>9, <2>1 DEF BufferInv, vars
<1> QED
  BY Zenon, <1>3, <1>4, <1>6, <1>7, <1>8, <1>9 DEF Next

\* The chunked overflow buffer is a bounded FIFO queue that answers as Fifo does,
\* for every chunk size, batch size, bound, number of chunks and set of tasks.
THEOREM BufferIsAFifo == Spec => ImplementsFifo
<1>1. Init => Fifo!Init
  <2> SUFFICES ASSUME Init PROVE Fifo!Init
    OBVIOUS
  <2>1. Contents = <<>>
    BY Zenon, HoldsAtFirst, ContentsAre
  <2> QED
    BY Zenon, <2>1 DEF Init, Fifo!Init
<1>2. BufferInv /\ [Next]_vars => BufferInv' /\ [Fifo!Next]_<<Contents, overflowClosed, out>>
  BY Zenon, BufferStep
<1> QED
  BY PTL, BufferInvInit, <1>1, <1>2 DEF Spec, ImplementsFifo, Fifo!Spec

\* The inductive invariant on which the three results rest.
THEOREM BufferInvariant == Spec => []BufferInv
<1>1. BufferInv /\ [Next]_vars => BufferInv'
  BY Zenon, BufferStep
<1> QED
  BY PTL, BufferInvInit, <1>1 DEF Spec

\* No index leaves its chunk, however often the chunks are reused.
THEOREM BufferStaysTyped == Spec => []BufferTypeOK
<1>1. BufferInv => BufferTypeOK
  <2> SUFFICES ASSUME BufferInv PROVE BufferTypeOK
    OBVIOUS
  <2>1. PICK C : Holds(b, C) /\ Len(C) <= MaxChunkLen
    BY Zenon DEF BufferInv
  <2>2. b \in BufferRecord /\ b.headIdx <= ChunkSize /\ b.tailIdx <= ChunkSize
    BY Zenon, <2>1, HoldsTyped
  <2>3. b.chunkLen <= MaxChunkLen
    BY Zenon, <2>1, ContentsAre
  <2>4. b \in [headChunk : Chunk \cup {Nil}, tailChunk : Chunk \cup {Nil},
               headIdx : 0 .. ChunkSize, tailIdx : 0 .. ChunkSize,
               chunkLen : 0 .. MaxChunkLen,
               tasks : [Chunk -> [Slot -> Task \cup {Nil}]],
               next : [Chunk -> Chunk \cup {Nil}],
               chunkPool : SUBSET Chunk, unused : SUBSET Chunk]
    BY ONLY <2>2, <2>3, BufferAssumption DEF BufferRecord
  <2>5. overflowClosed \in BOOLEAN
    BY Zenon DEF BufferInv
  <2> QED
    BY ONLY Zenon, <2>4, <2>5 DEF BufferTypeOK
<1> QED
  BY PTL, BufferInvariant, <1>1

\* A chunk that goes back to chunkPool carries neither a task nor a link into
\* its next use.
THEOREM RecyclingLeavesNoTrace == Spec => []RecycledChunksAreClean
<1>1. BufferInv => RecycledChunksAreClean
  BY Zenon, HoldsClean DEF BufferInv, RecycledChunksAreClean
<1> QED
  BY PTL, BufferInvariant, <1>1
=============================================================================
