------------------------------- MODULE Scaler -------------------------------
(***************************************************************************)
(* The arithmetic of scaleIfNeeded (pool.go): how many workers one tick of *)
(* the scaler asks for, as a function of what the tick has read.  The      *)
(* reads themselves, the re-check of the running count and the spawning    *)
(* are steps of the scaler goroutine and live in module AgilePool.         *)
(*                                                                         *)
(* Units.  A histogram median is the midpoint of a bucket, a multiple of   *)
(* one half: medians are given DOUBLED, so they are integers here.  The    *)
(* decay factor is given in percent.  Every quotient of the code is a      *)
(* float64 truncated to int64; here it is the exact rational, truncated.   *)
(***************************************************************************)
EXTENDS Integers

CONSTANTS
    Capacity,                   \* p.capacity: WithWorkerNumCapacity
    BacklogDecayPercent,        \* 100 * config.backlogDecayFactor
    ScalerPeriod,               \* config.scalerPeriod, in any unit ...
    StatsSamplePeriod,          \* ... shared with config.statsSamplePeriod
    MaxZeroConsumeScaleStep     \* config.maxZeroConsumeScaleStep

\* The ranges the With* options of config.go let through.
ASSUME ScalerAssumption ==
    /\ Capacity \in Nat \ {0}
    /\ BacklogDecayPercent \in 0..100
    /\ ScalerPeriod \in Nat \ {0}
    /\ StatsSamplePeriod \in Nat \ {0}
    /\ MaxZeroConsumeScaleStep \in Nat \ {0}

Least(a, b) == IF a <= b THEN a ELSE b
Greatest(a, b) == IF a >= b THEN a ELSE b

(***************************************************************************)
(* What one tick has read: the three medians, the running count, the depth *)
(* of the overflow buffer, pendingTasks, queuedTasks(), and whether        *)
(* zeroConsumeScaleInterval has elapsed since lastZeroConsumeScale.        *)
(***************************************************************************)
Reading == [submitMed : Nat, consumeMed : Nat, exitMed : Nat, running : Nat,
            bufDepth : Nat, backlog : Nat, queued : Nat, due : BOOLEAN]

\* submitMed * running / consumeMed, when there is a rate to speak of.
RateTarget(r) ==
    IF r.running > 0 /\ r.consumeMed > 0 /\ r.submitMed > 0
    THEN (r.submitMed * r.running) \div r.consumeMed
    ELSE 0

(***************************************************************************)
(* dynamicDecay = decay + (1 - decay) * min(1, 0.15 * bufDepth/consumeMed) *)
(* as the fraction DecayNum / DecayDen.  With the doubled median, the      *)
(* pressure is min(1, 3 * bufDepth / (10 * consumeMed)).                   *)
(***************************************************************************)
DecayDen(r) == 1000 * r.consumeMed

\* Mutant: the pressure of the buffer lowers the decay factor.
DecayNumInverted(r) ==
    100 * 10 * r.consumeMed
      - (100 - BacklogDecayPercent) * Least(10 * r.consumeMed, 3 * r.bufDepth)

DecayNum(r) ==
    BacklogDecayPercent * 10 * r.consumeMed
      + (100 - BacklogDecayPercent) * Least(10 * r.consumeMed, 3 * r.bufDepth)

\* effectiveSubmit * running / consumeMed with the backlog counted as arrivals.
BacklogRateTarget(r) ==
    ((r.submitMed * DecayDen(r) + 2 * r.backlog * DecayNum(r)) * r.running)
      \div (DecayDen(r) * r.consumeMed)

\* Mutant: the fallback waits until the queue outgrows the workers.
ZeroConsumeGrowsLate(r) ==
    r.queued > r.running /\ Capacity - r.running > 0 /\ r.due

\* The zero-consume fallback may grow the pool on this tick.
ZeroConsumeGrows(r) ==
    /\ r.queued > 0
    /\ Capacity - r.running > 0
    /\ r.due

ZeroConsumeGrowth(r) ==
    Least(Least(r.queued, Greatest(1, r.running)),
          Least(MaxZeroConsumeScaleStep, Capacity - r.running))

\* Mutant: a cold pool starts a single worker whatever the backlog.
ColdTargetOne(r) == 1

\* No worker runs: enough of them to drain the backlog.
ColdTarget(r) == r.backlog

\* The target after the switch over the backlog, before it is capped.
RawTarget(r) ==
    IF r.backlog <= 0
    THEN RateTarget(r)
    ELSE CASE r.running = 0 -> ColdTarget(r)
           [] r.running # 0 /\ r.consumeMed > 0 ->
                 Greatest(RateTarget(r), BacklogRateTarget(r))
           [] r.running # 0 /\ r.consumeMed = 0 ->
                 IF ZeroConsumeGrows(r) THEN r.running + ZeroConsumeGrowth(r)
                                        ELSE RateTarget(r)

\* Mutant: the target is not capped by the pending tasks.
TargetBeyondBacklog(r) == Least(RawTarget(r), Capacity)

Target(r) == Least(Least(RawTarget(r), r.backlog), Capacity)

\* Workers expected to park before the next tick: exitMed is per sample window.
ExitPerTick(r) == (r.exitMed * ScalerPeriod) \div (2 * StatsSamplePeriod)

\* The toSpawn that reaches the re-check under p.lock; 0 for an early return.
ToSpawn(r) ==
    IF Target(r) <= r.running
    THEN 0
    ELSE Least(Target(r) - r.running + ExitPerTick(r), Capacity - r.running)

-----------------------------------------------------------------------------
(***************************************************************************)
(* What a decision promises, of any reading.                               *)
(***************************************************************************)

\* "A pool never needs more workers than there are pending tasks"
\* (pool.go:612), nor more than its capacity: a tick asks for no worker beyond
\* either, the compensation for exiting workers aside.
BoundedSpawn(r) ==
    ToSpawn(r) > 0 =>
        /\ r.running + ToSpawn(r) <= Capacity
        /\ r.running + ToSpawn(r) <= r.backlog + ExitPerTick(r)

\* A stranded backlog is always served, whatever the medians say: with no
\* worker running a tick asks for one per pending task, up to capacity.
ServesColdBacklog(r) ==
    r.running = 0 => ToSpawn(r) >= Least(r.backlog, Capacity)

\* The zero-consume fallback: when all workers are stuck and tasks are queued,
\* a due tick grows the pool, at most doubling it and by no more than the
\* configured step (no exits being compensated).
RampsUpWhenStuck(r) ==
    /\ r.consumeMed = 0 /\ r.due
    /\ r.queued > 0
    /\ 0 < r.running /\ r.running < Capacity /\ r.running < r.backlog
  => /\ ToSpawn(r) >= 1
     /\ ExitPerTick(r) = 0 =>
            ToSpawn(r) <= Least(r.running, MaxZeroConsumeScaleStep)

\* "dynamicDecay \in [decayFactor, 1.0]" (pool.go:583).
DecayStaysInRange(r) ==
    r.consumeMed > 0 =>
        /\ DecayNum(r) * 100 >= BacklogDecayPercent * DecayDen(r)
        /\ DecayNum(r) <= DecayDen(r)
=============================================================================
