---------------------------- MODULE ScalerProofs ----------------------------
(***************************************************************************)
(* Facts about the scaler's arithmetic that hold for every capacity, every *)
(* configuration and every reading.                                        *)
(***************************************************************************)
EXTENDS Scaler, TLAPS

\* What a tick may have read when nothing is known about the counters.
IntReading ==
    [submitMed : Nat, consumeMed : Nat, exitMed : Nat, running : Int,
     bufDepth : Nat, backlog : Int, queued : Nat, due : BOOLEAN]

\* A quotient of integers by a positive integer is an integer.
LEMMA QuotientType == \A a \in Int, b \in Nat \ {0} : a \div b \in Int
  OBVIOUS

\* A product of integers is one.
LEMMA ProductType == \A a, b \in Int : a * b \in Int
  OBVIOUS

\* The integer rate target: submissions over completions per worker.
LEMMA RateTargetType == \A r \in IntReading : RateTarget(r) \in Int
  BY QuotientType, ProductType DEF IntReading, RateTarget

\* The numerator and the denominator of the backlog decay are integers.
LEMMA DecayType ==
    \A r \in IntReading :
        DecayNum(r) \in Int /\ DecayDen(r) \in Nat
          /\ (r.consumeMed > 0 => DecayDen(r) > 0)
  BY ScalerAssumption, ProductType DEF IntReading, DecayNum, DecayDen, Least

\* The target raised by the decayed backlog is an integer.
LEMMA BacklogRateTargetType ==
    ASSUME NEW r \in IntReading, r.consumeMed > 0
    PROVE  BacklogRateTarget(r) \in Int
<1> DEFINE num == (r.submitMed * DecayDen(r) + 2 * r.backlog * DecayNum(r)) * r.running
           den == DecayDen(r) * r.consumeMed
<1>1. DecayNum(r) \in Int /\ DecayDen(r) \in Nat /\ DecayDen(r) > 0
  BY DecayType
<1>2. r.submitMed \in Int /\ r.backlog \in Int /\ r.running \in Int /\ r.consumeMed \in Nat \ {0}
  BY DEF IntReading
<1>3. num \in Int
  <2>1. r.submitMed * DecayDen(r) \in Int /\ 2 * r.backlog * DecayNum(r) \in Int
    BY <1>1, <1>2, ProductType
  <2>2. r.submitMed * DecayDen(r) + 2 * r.backlog * DecayNum(r) \in Int
    BY <2>1
  <2> QED
    BY <1>2, <2>2, ProductType
<1>4. den \in Nat \ {0}
  BY <1>1, <1>2
<1> HIDE DEF num, den
<1>5. num \div den \in Int
  BY <1>3, <1>4, QuotientType
<1> QED
  BY <1>5 DEF num, den, BacklogRateTarget

\* Every branch of the target before its clamps is an integer.
LEMMA RawTargetType == \A r \in IntReading : RawTarget(r) \in Int
<1> SUFFICES ASSUME NEW r \in IntReading
             PROVE  RawTarget(r) \in Int
  OBVIOUS
<1>1. RateTarget(r) \in Int
  BY RateTargetType
<1>2. r.consumeMed > 0 => BacklogRateTarget(r) \in Int
  BY BacklogRateTargetType
<1>3. ZeroConsumeGrowth(r) \in Int
  BY ScalerAssumption DEF IntReading, ZeroConsumeGrowth, Least, Greatest
<1> QED
  BY <1>1, <1>2, <1>3 DEF IntReading, RawTarget, ColdTarget, Greatest

\* The compensation for exiting workers is a natural number.
LEMMA ExitPerTickType == \A r \in IntReading : ExitPerTick(r) \in Nat
<1> SUFFICES ASSUME NEW r \in IntReading
             PROVE  ExitPerTick(r) \in Nat
  OBVIOUS
<1> DEFINE num == r.exitMed * ScalerPeriod
           den == 2 * StatsSamplePeriod
<1>1. num \in Nat /\ den \in Nat \ {0}
  BY ScalerAssumption DEF IntReading
<1> HIDE DEF num, den
<1>2. num \div den \in Nat
  BY <1>1
<1> QED
  BY <1>2 DEF num, den, ExitPerTick

\* The number of workers a tick asks for is an integer, so that the counters
\* it is added to stay integers.
LEMMA ToSpawnType == \A r \in IntReading : ToSpawn(r) \in Int
  BY RawTargetType, ExitPerTickType, ScalerAssumption
     DEF IntReading, ToSpawn, Target, Least

\* For every configuration, scaleIfNeeded asks for no worker beyond the
\* capacity or the pending tasks, but for the compensation of exiting workers.
THEOREM SpawnIsBounded == \A r \in Reading : BoundedSpawn(r)
<1> SUFFICES ASSUME NEW r \in Reading
             PROVE  BoundedSpawn(r)
  OBVIOUS
<1>1. r \in IntReading
  BY DEF Reading, IntReading
<1>2. RawTarget(r) \in Int /\ ExitPerTick(r) \in Nat
  BY <1>1, RawTargetType, ExitPerTickType
<1> QED
  BY <1>2, ScalerAssumption DEF Reading, BoundedSpawn, ToSpawn, Target, Least

\* For every configuration and whatever the rates, a backlog that no worker
\* serves makes scaleIfNeeded ask for workers.
THEOREM ColdBacklogIsServed == \A r \in Reading : ServesColdBacklog(r)
<1> SUFFICES ASSUME NEW r \in Reading, r.running = 0
             PROVE  ToSpawn(r) >= Least(r.backlog, Capacity)
  BY DEF ServesColdBacklog
<1>1. r \in IntReading
  BY DEF Reading, IntReading
<1>2. RawTarget(r) \in Int /\ ExitPerTick(r) \in Nat
  BY <1>1, RawTargetType, ExitPerTickType
<1>3. r.backlog > 0 => RawTarget(r) = r.backlog
  BY DEF Reading, RawTarget, ColdTarget
<1> QED
  BY <1>2, <1>3, ScalerAssumption DEF Reading, ToSpawn, Target, Least

\* For every configuration, a due tick of a pool whose workers all hang grows it
\* by at least one, and by no more than the configured step or its own size.
THEOREM StuckPoolAlwaysRampsUp == \A r \in Reading : RampsUpWhenStuck(r)
<1> SUFFICES ASSUME NEW r \in Reading,
                    r.consumeMed = 0, r.due, r.queued > 0,
                    0 < r.running, r.running < Capacity, r.running < r.backlog
             PROVE  /\ ToSpawn(r) >= 1
                    /\ ExitPerTick(r) = 0 =>
                          ToSpawn(r) <= Least(r.running, MaxZeroConsumeScaleStep)
  BY DEF RampsUpWhenStuck
<1> DEFINE growth == ZeroConsumeGrowth(r)
<1>1. r \in IntReading
  BY DEF Reading, IntReading
<1>2. ExitPerTick(r) \in Nat
  BY <1>1, ExitPerTickType
<1>3. /\ growth \in Nat /\ growth >= 1
      /\ growth <= r.running /\ growth <= MaxZeroConsumeScaleStep
      /\ growth <= Capacity - r.running
  BY ScalerAssumption DEF Reading, ZeroConsumeGrowth, Least, Greatest
<1> HIDE DEF growth
<1>4. RawTarget(r) = r.running + growth
  BY ScalerAssumption DEF Reading, RawTarget, ZeroConsumeGrows, growth
<1>5. Target(r) \in Int /\ Target(r) > r.running /\ Target(r) <= r.running + growth
  BY <1>3, <1>4, ScalerAssumption DEF Reading, Target, Least
<1>6. ToSpawn(r) = Least(Target(r) - r.running + ExitPerTick(r), Capacity - r.running)
  BY <1>5 DEF Reading, ToSpawn
<1> QED
  BY <1>2, <1>3, <1>5, <1>6, ScalerAssumption DEF Reading, Least

\* For every configuration and any depth of the buffer the dynamic decay stays
\* between the configured factor and one.
THEOREM DecayAlwaysInRange == \A r \in Reading : DecayStaysInRange(r)
<1> SUFFICES ASSUME NEW r \in Reading, r.consumeMed > 0
             PROVE  /\ DecayNum(r) * 100 >= BacklogDecayPercent * DecayDen(r)
                    /\ DecayNum(r) <= DecayDen(r)
  BY DEF DecayStaysInRange
<1> DEFINE d == BacklogDecayPercent
           c == r.consumeMed
           p == Least(10 * c, 3 * r.bufDepth)
<1>1. d \in 0 .. 100 /\ c \in Nat /\ p \in Nat /\ p <= 10 * c
  BY ScalerAssumption DEF Reading, Least
<1>2. DecayNum(r) = d * 10 * c + (100 - d) * p /\ DecayDen(r) = 1000 * c
  BY DEF DecayNum, DecayDen
<1> HIDE DEF d, c, p
<1>3. 100 - d \in Nat /\ 10 * c \in Nat
  BY <1>1
<1>4. (100 - d) * p \in Nat /\ (100 - d) * p <= (100 - d) * (10 * c)
  BY <1>1, <1>3
<1>5. d * 10 * c = d * (10 * c) /\ (100 - d) * (10 * c) = 1000 * c - d * (10 * c)
      /\ d * (1000 * c) = 100 * (d * (10 * c)) /\ d * (10 * c) \in Int
  BY <1>1
<1> QED
  BY <1>1, <1>2, <1>4, <1>5 DEF d

-----------------------------------------------------------------------------
\* A product and a quotient grow with what is multiplied or divided.
LEMMA ProductGrows ==
    \A a, b \in Int, c \in Nat : a <= b => a * c <= b * c
  OBVIOUS

\* Products of naturals are natural.
LEMMA ProductIsNat == \A a, b \in Nat : a * b \in Nat
  OBVIOUS

\* Division keeps an order.
LEMMA QuotientGrows ==
    \A a, b \in Int, c \in Nat \ {0} : a <= b => a \div c <= b \div c
  OBVIOUS

\* The readings s and r differ at most in the buffer and the backlog, and s
\* has as much of either.
UnderMorePressure(s, r) ==
    /\ s.submitMed = r.submitMed /\ s.consumeMed = r.consumeMed /\ s.exitMed = r.exitMed
    /\ s.running = r.running /\ s.queued = r.queued /\ s.due = r.due
    /\ s.bufDepth >= r.bufDepth /\ s.backlog >= r.backlog

\* A deeper buffer weighs the backlog no less.
LEMMA DecayGrows ==
    ASSUME NEW r \in Reading, NEW s \in Reading, UnderMorePressure(s, r)
    PROVE  /\ DecayDen(s) = DecayDen(r)
           /\ DecayNum(s) \in Nat /\ DecayNum(r) \in Nat
           /\ DecayNum(s) >= DecayNum(r)
<1> DEFINE d == BacklogDecayPercent
           c == r.consumeMed
           p == Least(10 * c, 3 * r.bufDepth)
           q == Least(10 * c, 3 * s.bufDepth)
<1>1. d \in Nat /\ 100 - d \in Nat /\ c \in Nat /\ p \in Nat /\ q \in Nat /\ p <= q
  BY ScalerAssumption DEF Reading, Least, UnderMorePressure
<1>2. /\ DecayNum(r) = d * 10 * c + (100 - d) * p
      /\ DecayNum(s) = d * 10 * c + (100 - d) * q
      /\ DecayDen(s) = DecayDen(r)
  BY DEF DecayNum, DecayDen, UnderMorePressure
<1> HIDE DEF d, c, p, q
<1>3. d * 10 * c \in Nat
  BY <1>1, ProductIsNat
<1>4. (100 - d) * p \in Nat /\ (100 - d) * q \in Nat
  BY <1>1, ProductIsNat
<1>5. (100 - d) * p <= (100 - d) * q
  <2>1. p * (100 - d) <= q * (100 - d)
    BY <1>1, ProductGrows
  <2> QED
    BY <1>1, <2>1
<1> QED
  BY <1>2, <1>3, <1>4, <1>5

\* So the target from rates and backlog grows with the pressure ...
LEMMA BacklogRateTargetGrows ==
    ASSUME NEW r \in Reading, NEW s \in Reading, UnderMorePressure(s, r), r.consumeMed > 0
    PROVE  BacklogRateTarget(s) >= BacklogRateTarget(r)
<1> DEFINE D == DecayDen(r)
           m == DecayNum(r)
           n == DecayNum(s)
           base == r.submitMed * D
           x == 2 * r.backlog
           y == 2 * s.backlog
           k == r.running
           den == D * r.consumeMed
<1>1. /\ DecayDen(s) = D /\ m \in Nat /\ n \in Nat /\ n >= m
  BY DecayGrows
<1>2. r \in IntReading
  BY DEF Reading, IntReading
<1>3. D \in Nat /\ D > 0
  BY <1>2, DecayType
<1>4. base \in Nat /\ x \in Nat /\ y \in Nat /\ x <= y /\ k \in Nat
  <2>1. r.submitMed \in Nat
    BY DEF Reading
  <2>2. base \in Nat
    BY <1>3, <2>1, ProductIsNat
  <2> QED
    BY <2>2 DEF Reading, UnderMorePressure
<1>5. den \in Nat \ {0}
  <2>1. r.consumeMed \in Nat \ {0}
    BY DEF Reading
  <2> HIDE DEF D
  <2>2. \A a, e \in Nat \ {0} : a * e \in Nat \ {0}
    OBVIOUS
  <2> QED
    BY <1>3, <2>1, <2>2
<1>6. /\ BacklogRateTarget(r) = ((base + x * m) * k) \div den
      /\ BacklogRateTarget(s) = ((base + y * n) * k) \div den
  BY <1>1 DEF BacklogRateTarget, UnderMorePressure
<1> HIDE DEF D, m, n, base, x, y, k, den
<1>7. x * m \in Nat /\ y * n \in Nat /\ y * m \in Nat
  BY <1>1, <1>4, ProductIsNat
<1>8. x * m <= y * m
  BY <1>1, <1>4, ProductGrows
<1>9. y * m <= y * n
  <2>1. m * y <= n * y
    BY <1>1, <1>4, ProductGrows
  <2> QED
    BY <1>1, <1>4, <2>1
<1>10. base + x * m \in Int /\ base + y * n \in Int /\ base + x * m <= base + y * n
  BY <1>4, <1>7, <1>8, <1>9
<1>11. (base + x * m) * k <= (base + y * n) * k
  BY <1>4, <1>10, ProductGrows
<1>12. (base + x * m) * k \in Int /\ (base + y * n) * k \in Int
  BY <1>4, <1>10, ProductType
<1>13. ((base + x * m) * k) \div den <= ((base + y * n) * k) \div den
  BY <1>5, <1>11, <1>12, QuotientGrows
<1>14. ((base + x * m) * k) \div den \in Int /\ ((base + y * n) * k) \div den \in Int
  BY <1>5, <1>12, QuotientType
<1> QED
  BY <1>6, <1>13, <1>14

\* ... and so does the target before it is clamped.
LEMMA RawTargetGrows ==
    ASSUME NEW r \in Reading, NEW s \in Reading, UnderMorePressure(s, r), r.backlog > 0
    PROVE  RawTarget(s) >= RawTarget(r)
<1>1. r \in IntReading /\ s \in IntReading
  BY DEF Reading, IntReading
<1>2. RateTarget(r) \in Int /\ RateTarget(s) = RateTarget(r)
  <2>1. RateTarget(r) \in Int
    BY <1>1, RateTargetType
  <2>2. RateTarget(s) = RateTarget(r)
    BY DEF RateTarget, UnderMorePressure
  <2> QED
    BY <2>1, <2>2
<1>3. CASE r.running = 0
  BY <1>3 DEF Reading, RawTarget, ColdTarget, UnderMorePressure
<1>4. CASE r.running # 0 /\ r.consumeMed > 0
  <2>1. /\ BacklogRateTarget(r) \in Int /\ BacklogRateTarget(s) \in Int
        /\ BacklogRateTarget(s) >= BacklogRateTarget(r)
    BY <1>1, <1>4, BacklogRateTargetType, BacklogRateTargetGrows DEF UnderMorePressure
  <2>2. RawTarget(r) = Greatest(RateTarget(r), BacklogRateTarget(r))
    BY <1>4 DEF RawTarget, Reading
  <2>3. RawTarget(s) = Greatest(RateTarget(s), BacklogRateTarget(s))
    BY <1>4 DEF RawTarget, Reading, UnderMorePressure
  <2> QED
    BY <1>2, <2>1, <2>2, <2>3 DEF Greatest
<1>5. CASE r.running # 0 /\ r.consumeMed = 0
  <2>1. RawTarget(s) = RawTarget(r)
    BY <1>2, <1>5 DEF RawTarget, Reading, UnderMorePressure, ZeroConsumeGrows, ZeroConsumeGrowth
  <2>2. RawTarget(r) \in Int
    BY <1>1, RawTargetType
  <2> QED
    BY <2>1, <2>2
<1> QED
  BY <1>3, <1>4, <1>5 DEF Reading

\* "when the overflow buffer is deep relative to the drain rate, the scaler
\* becomes more aggressive" (pool.go:570), for every configuration: with more
\* tasks buffered or pending and all else equal, scaleIfNeeded never asks for
\* fewer workers.
THEOREM PressureNeverLowersDemand ==
    \A r, s \in Reading : UnderMorePressure(s, r) => ToSpawn(s) >= ToSpawn(r)
<1> SUFFICES ASSUME NEW r \in Reading, NEW s \in Reading, UnderMorePressure(s, r)
             PROVE  ToSpawn(s) >= ToSpawn(r)
  OBVIOUS
<1>1. r \in IntReading /\ s \in IntReading
  BY DEF Reading, IntReading
<1>2. /\ RawTarget(r) \in Int /\ RawTarget(s) \in Int
      /\ ExitPerTick(r) \in Nat /\ ExitPerTick(s) = ExitPerTick(r)
  BY <1>1, RawTargetType, ExitPerTickType DEF UnderMorePressure, ExitPerTick
<1>3. /\ s.running = r.running /\ s.running \in Nat /\ s.backlog \in Nat /\ r.backlog \in Nat
      /\ s.backlog >= r.backlog
  BY DEF Reading, UnderMorePressure
<1>4. r.backlog > 0 => RawTarget(s) >= RawTarget(r)
  BY RawTargetGrows
<1>5. /\ Target(s) \in Int /\ Target(r) \in Int
      /\ Target(s) <= Capacity /\ Target(r) <= Capacity
      /\ Target(r) > 0 => Target(s) >= Target(r)
  BY <1>2, <1>3, <1>4, ScalerAssumption DEF Target, Least
<1> QED
  BY <1>2, <1>3, <1>5, ScalerAssumption DEF ToSpawn, Least
=============================================================================
