----------------------------- MODULE Histogram -----------------------------
(***************************************************************************)
(* histogram: how many of the last samples fell into each bucket, kept up  *)
(* to date by a ring of bucket indices.  Buckets count from 1, positions   *)
(* of the ring from 0.  Medians are doubled, as in Scaler.                 *)
(***************************************************************************)
EXTENDS Integers, Sequences, FiniteSets, FiniteSetsExt

Unbounded == -1

submitBuckets ==
    << <<0, 0>>, <<1, 5>>, <<6, 20>>, <<21, 100>>, <<101, 500>>, <<501, 2000>>,
       <<2001, 10000>>, <<10001, Unbounded>> >>

consumeBuckets == submitBuckets

exitBuckets ==
    << <<0, 0>>, <<1, 2>>, <<3, 5>>, <<6, 10>>, <<11, 20>>, <<21, 50>>,
       <<51, 100>>, <<101, Unbounded>> >>

newHistogram(buckets, windowSize) ==
    [buckets |-> buckets,
     counts  |-> [i \in 1 .. Len(buckets) |-> 0],
     total   |-> 0,
     samples |-> [k \in 0 .. windowSize - 1 |-> 1],
     pos     |-> 0,
     filled  |-> FALSE]

bucketIndex(buckets, value) ==
    LET holds == {i \in 1 .. Len(buckets) :
                     /\ value >= buckets[i][1]
                     /\ buckets[i][2] = Unbounded \/ value <= buckets[i][2]}
    IN  IF holds = {} THEN Len(buckets) ELSE Min(holds)

\* Mutant: the sample that is overwritten stays counted.
CountsWithoutNever(h) == h.counts

\* The counts without the sample that the next one overwrites.
CountsWithout(h) ==
    IF h.filled THEN [h.counts EXCEPT ![h.samples[h.pos]] = @ - 1] ELSE h.counts

\* add, for a value in bucket idx.
AddToBucket(h, idx) ==
    LET last == h.pos + 1 >= Cardinality(DOMAIN h.samples)
    IN  [h EXCEPT !.counts  = [CountsWithout(h) EXCEPT ![idx] = @ + 1],
                  !.total   = IF h.filled THEN @ ELSE @ + 1,
                  !.samples = [@ EXCEPT ![h.pos] = idx],
                  !.pos     = IF last THEN 0 ELSE @ + 1,
                  !.filled  = @ \/ last]

add(h, value) == AddToBucket(h, bucketIndex(h.buckets, value))

\* What median answers for a sample of this bucket.
Midpoint(bucket) ==
    IF bucket[2] = Unbounded THEN 2 * bucket[1] ELSE bucket[1] + bucket[2]

\* The running sum cum of the counts, bucket by bucket.
CumOf(h) ==
    LET cum[i \in 0 .. Len(h.buckets)] == IF i = 0 THEN 0 ELSE cum[i - 1] + h.counts[i]
    IN  cum

\* The first bucket at which the running sum passes the middle.
median(h) ==
    LET past == {i \in 1 .. Len(h.buckets) : CumOf(h)[i] > h.total \div 2}
    IN  IF h.total = 0 \/ past = {} THEN 0 ELSE Midpoint(h.buckets[Min(past)])
=============================================================================
