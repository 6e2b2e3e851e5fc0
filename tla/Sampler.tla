------------------------------ MODULE Sampler ------------------------------
(***************************************************************************)
(* statsSampler: once per sample period it moves the three rate counters   *)
(* into the histograms whose medians the scaler reads under the same lock. *)
(***************************************************************************)
EXTENDS Histogram

CONSTANTS
    StatsWindowSize,    \* config.statsWindowSize
    Rates               \* what the counters may stand at when they are sampled

ASSUME SamplerAssumption ==
    StatsWindowSize \in Nat \ {0} /\ Rates \subseteq [sub : Nat, con : Nat, ext : Nat]

VARIABLES
    submitHist, consumeHist, exitHist,
    recent      \* the last samples, newest first, at most StatsWindowSize

sampleVars == <<submitHist, consumeHist, exitHist, recent>>

SamplerInit ==
    /\ submitHist = newHistogram(submitBuckets, StatsWindowSize)
    /\ consumeHist = newHistogram(consumeBuckets, StatsWindowSize)
    /\ exitHist = newHistogram(exitBuckets, StatsWindowSize)
    /\ recent = <<>>

\* The counters stood at s when they were swapped for 0.
sampleRates(s) ==
    /\ submitHist' = add(submitHist, s.sub)
    /\ consumeHist' = add(consumeHist, s.con)
    /\ exitHist' = add(exitHist, s.ext)
    /\ LET all == <<s>> \o recent
       IN  recent' = SubSeq(all, 1, IF Len(all) > StatsWindowSize THEN StatsWindowSize
                                                                  ELSE Len(all))

SamplerNext == \E s \in Rates : sampleRates(s)

SamplerSpec == SamplerInit /\ [][SamplerNext]_sampleVars

getMedianRates ==
    [submit |-> median(submitHist), consume |-> median(consumeHist),
     exit |-> median(exitHist)]

-----------------------------------------------------------------------------
\* The upper median of the window: at most half of its samples lie below, and
\* more than half lie below or beside it.
UpperMedian(buckets, samples) ==
    LET n        == Len(samples)
        Below(v) == Cardinality({k \in 1 .. n : samples[k] < v})
        Upto(v)  == Cardinality({k \in 1 .. n : samples[k] <= v})
        v == CHOOSE v \in {samples[k] : k \in 1 .. n} :
                 2 * Below(v) <= n /\ 2 * Upto(v) > n
    IN  IF n = 0 THEN 0 ELSE Midpoint(buckets[bucketIndex(buckets, v)])

\* "It tracks the frequency distribution of samples over the last N windows"
\* (histogram.go:9): the medians the scaler reads are the medians of exactly
\* the last StatsWindowSize samples, to the precision of the buckets, however
\* often the ring has wrapped.
MediansOfTheWindow ==
    getMedianRates =
        [submit  |-> UpperMedian(submitBuckets, [k \in 1 .. Len(recent) |-> recent[k].sub]),
         consume |-> UpperMedian(consumeBuckets, [k \in 1 .. Len(recent) |-> recent[k].con]),
         exit    |-> UpperMedian(exitBuckets, [k \in 1 .. Len(recent) |-> recent[k].ext])]
=============================================================================
