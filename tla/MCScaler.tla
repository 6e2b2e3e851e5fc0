------------------------------ MODULE MCScaler ------------------------------
(***************************************************************************)
(* What the options make of a pool, the medians of the sampler, and the    *)
(* decision of one scaler tick.  The three share no state: a behaviour is  *)
(* about one of them, and the tick reads every combination of the medians  *)
(* that the histograms can answer.  Its counts are a grid: a step moves    *)
(* one of them to its neighbour, so that action properties can compare     *)
(* neighbouring decisions.                                                 *)
(***************************************************************************)
EXTENDS Scaler, Sampler, Config

CONSTANTS
    MaxCount,       \* bound on the running, queued and pending counts
    BufferStep      \* mesh of the buffer depths, up to MaxCount steps

ASSUME GridAssumption == MaxCount \in Nat /\ BufferStep \in Nat

MCRates == [sub : {0, 5, 13}, con : {0, 6}, ext : {0, 200}]

\* Medians that fall into the buckets at the given indices.
SomeMedians(buckets, at) == {Midpoint(buckets[i]) : i \in at}

MCDefaultConfig ==
    [cleanPeriod |-> 5, taskQueueSize |-> 4, taskQueueShards |-> 0,
     workerNumCapacity |-> Capacity, workMode |-> "BLOCK",
     idleContainerType |-> "LinkedList", lockType |-> "MutexLock",
     statsSamplePeriod |-> StatsSamplePeriod, statsWindowSize |-> StatsWindowSize,
     scalerPeriod |-> ScalerPeriod, backlogDecayFactor |-> BacklogDecayPercent,
     zeroConsumeScaleInterval |-> 5, panicHandler |-> "none",
     maxZeroConsumeScaleStep |-> MaxZeroConsumeScaleStep]

Options(field, values) == {[field |-> field, value |-> v] : v \in values}

MCOption ==
    UNION {Options(f, {-1, 0, 1}) : f \in PositiveField}
    \cup Options("taskQueueSize", 2 .. 9)
    \cup Options("taskQueueShards", -1 .. 9)
    \cup Options("backlogDecayFactor", {-1, 0, 100, 101})
    \cup Options("workMode", {"BLOCK", "NONBLOCK"})
    \cup Options("idleContainerType", {"MinHeap", "Slice", "RingQueue", "Treap", "other"})
    \cup Options("lockType", {"MutexLock", "SpinLock"})
    \cup Options("panicHandler", {"custom"})

VARIABLES r, part

vars == <<r, part, sampleVars, configVars>>

Parts == {"options", "sampler", "scaler"}

Init ==
    /\ SamplerInit /\ ConfigInit
    /\ part \in Parts
    /\ r \in [submitMed : SomeMedians(submitBuckets, 1 .. 3),
              consumeMed : SomeMedians(consumeBuckets, 1 .. 3),
              exitMed : SomeMedians(exitBuckets, {1, 5, 6}), running : {0}, bufDepth : {0},
              backlog : {0}, queued : {0}, due : BOOLEAN]
    /\ part # "scaler" => r.submitMed + r.consumeMed + r.exitMed = 0 /\ r.due

Bump(field, step) ==
    r[field] < MaxCount * step /\ r' = [r EXCEPT ![field] = @ + step]

OneMoreRunning  == Bump("running", 1)
MoreBuffered    == Bump("bufDepth", BufferStep)
OneMorePending  == Bump("backlog", 1)
OneMoreQueued   == Bump("queued", 1)

\* Everything has run and every worker has parked.
AllDrained ==
    r' = [r EXCEPT !.running = 0, !.bufDepth = 0, !.backlog = 0, !.queued = 0]

ScalerNext ==
    \/ OneMoreRunning \/ MoreBuffered \/ OneMorePending \/ OneMoreQueued
    \/ AllDrained

Next ==
    \/ part = "options" /\ ConfigNext /\ UNCHANGED <<part, sampleVars, r>>
    \/ part = "sampler" /\ SamplerNext /\ UNCHANGED <<part, configVars, r>>
    \/ part = "scaler" /\ ScalerNext /\ UNCHANGED <<part, configVars, sampleVars>>

Spec == Init /\ [][Next]_vars

\* The tick asks for no worker beyond the pending tasks or the capacity.
SpawnBounded == BoundedSpawn(r)

\* The tick serves a backlog that no worker serves.
ColdBacklogServed == ServesColdBacklog(r)

(***************************************************************************)
(* The zero-consume fallback: when all workers are stuck and tasks are     *)
(* queued, a due tick grows the pool, at most doubling it and by no more   *)
(* than the configured step (no exits being compensated).                  *)
(***************************************************************************)
StuckPoolRampsUp == RampsUpWhenStuck(r)

\* "when the overflow buffer is deep relative to the drain rate, the scaler
\* becomes more aggressive" (pool.go:570): more buffered or pending tasks
\* never make the tick ask for fewer workers.
PressureNeverShrinks ==
    [][MoreBuffered \/ OneMorePending => ToSpawn(r') >= ToSpawn(r)]_vars
=============================================================================
