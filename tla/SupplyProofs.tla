---------------------------- MODULE SupplyProofs ----------------------------
(***************************************************************************)
(* How many workers a pool asks for, and who owns them: the options of the *)
(* Config for any defaults and any options, the sampler for any window and *)
(* any rates, the decision of a tick on a grid of any size and mesh, and   *)
(* the spin lock and the ownership of worker structs for any number of     *)
(* structs, goroutines and spin rounds and any capacity.                   *)
(***************************************************************************)
EXTENDS MCScaler, Parking, ScalerProofs, FiniteSetTheorems, WellFoundedInduction, TLAPS

-----------------------------------------------------------------------------
(***************************************************************************)
(* Parking: the spin lock of the idle container, and who owns a worker     *)
(* struct.                                                                 *)
(***************************************************************************)
\* A goroutine holds a struct from its start until addToIdle, and the scaler
\* holds one from Pop to go w.run.
HoldsInv ==
    /\ \A g \in Goroutine : on[g] \in Struct <=> wpc[g] \in {"run", "lock", "add"}
    /\ spc = "start" => hand \in Struct
    /\ spc = "unlock" /\ left > 0 => hand \in Struct

\* The inductive invariant of Parking.
ParkInv == ParkTypeOK /\ HoldsInv /\ OneInside /\ OneOwner

\* Every step keeps the types.
LEMMA ParkTypeStep ==
    ASSUME ParkTypeOK, HoldsInv, [ParkNext]_parkVars
    PROVE  ParkTypeOK'
<1> USE ParkingAssumption
        DEF ParkTypeOK, LockTypeOK, lockVars, structVars, workVars, spawnVars
<1>1. CASE ColdStart
  BY <1>1 DEF ColdStart
<1>2. ASSUME NEW g \in Goroutine, NEW s \in Struct, ColdSpawn(g, s) PROVE ParkTypeOK'
  BY ZenonT(60), <1>2 DEF ColdSpawn, StartWorker
<1>3. ASSUME NEW g \in Goroutine, Park(g) PROVE ParkTypeOK'
  BY <1>3 DEF Park
<1>4. ASSUME NEW g \in Goroutine, ParkLock(g) PROVE ParkTypeOK'
  BY <1>4 DEF ParkLock, Lock, Spin, Wins, Actor
<1>5. ASSUME NEW g \in Goroutine, ParkAdd(g) PROVE ParkTypeOK'
  BY <1>5 DEF ParkAdd, Puts, HoldsInv
<1>6. ASSUME NEW g \in Goroutine, ParkUnlock(g) PROVE ParkTypeOK'
  BY <1>6 DEF ParkUnlock, Unlock
<1>7. ASSUME NEW n \in 1 .. WorkerNumCapacity, Tick(n) PROVE ParkTypeOK'
  BY <1>7 DEF Tick
<1>8. CASE TickLock
  BY <1>8 DEF TickLock, Lock, Spin, Wins, Actor
<1>9. CASE TickUnlock
  BY <1>9 DEF TickUnlock, Unlock
<1>10. ASSUME NEW s \in Struct, TickPop(s) PROVE ParkTypeOK'
  BY <1>10 DEF TickPop
<1>11. ASSUME NEW g \in Goroutine, TickStart(g) PROVE ParkTypeOK'
  BY <1>11 DEF TickStart, StartWorker
<1>12. CASE Clean \/ CleanUnlock
  BY <1>12 DEF Clean, CleanUnlock, Unlock
<1>13. CASE CleanLock
  BY <1>13 DEF CleanLock, Lock, Spin, Wins, Actor
<1>14. ASSUME NEW e \in SUBSET idle, CleanRemove(e) PROVE ParkTypeOK'
  BY <1>14 DEF CleanRemove
<1>15. CASE UNCHANGED parkVars
  BY <1>15 DEF parkVars
<1> QED
  BY Zenon, <1>1, <1>2, <1>3, <1>4, <1>5, <1>6, <1>7, <1>8, <1>9, <1>10, <1>11, <1>12, <1>13,
     <1>14, <1>15 DEF ParkNext

-----------------------------------------------------------------------------
(***************************************************************************)
(* Ownership.                                                              *)
(***************************************************************************)

\* Every step leaves each struct with one owner.
LEMMA OwnerStep ==
    ASSUME ParkTypeOK, HoldsInv, OneOwner, [ParkNext]_parkVars
    PROVE  HoldsInv' /\ OneOwner'
<1> USE ParkingAssumption DEF ParkTypeOK, lockVars, structVars, workVars, spawnVars
<1>1. ASSUME UNCHANGED <<idle, recycled, wpc, on, spc, left, hand>>
      PROVE  HoldsInv' /\ OneOwner'
  BY Zenon, <1>1 DEF HoldsInv, OneOwner
<1>2. ASSUME NEW g \in Goroutine, NEW s \in Struct, ColdSpawn(g, s)
      PROVE  HoldsInv' /\ OneOwner'
  <2>1. HoldsInv'
    BY <1>2 DEF ColdSpawn, StartWorker, HoldsInv
  <2>2. OneOwner'
    BY <1>2 DEF ColdSpawn, StartWorker, Get, Unreferenced, OneOwner, HoldsInv
  <2> QED
    BY <2>1, <2>2
<1>3. ASSUME NEW g \in Goroutine, Park(g) \/ ParkLock(g) \/ ParkUnlock(g)
      PROVE  HoldsInv' /\ OneOwner'
  <2>1. /\ UNCHANGED <<idle, recycled, on, spc, left, hand>>
        /\ \A h \in Goroutine : wpc'[h] \in {"run", "lock", "add"}
                                  <=> wpc[h] \in {"run", "lock", "add"}
    BY <1>3 DEF Park, ParkLock, ParkUnlock
  <2> QED
    BY <2>1 DEF HoldsInv, OneOwner
<1>4. ASSUME NEW g \in Goroutine, ParkAdd(g) PROVE HoldsInv' /\ OneOwner'
  <2>1. HoldsInv'
    BY <1>4 DEF ParkAdd, HoldsInv
  <2>2. OneOwner'
    BY <1>4 DEF ParkAdd, Puts, OneOwner, HoldsInv
  <2> QED
    BY <2>1, <2>2
<1>5. ASSUME NEW n \in 1 .. WorkerNumCapacity, Tick(n) PROVE HoldsInv' /\ OneOwner'
  BY <1>5 DEF Tick, HoldsInv, OneOwner
<1>6. CASE TickLock \/ TickUnlock
  BY <1>6 DEF TickLock, TickUnlock, HoldsInv, OneOwner
<1>7. ASSUME NEW s \in Struct, TickPop(s) PROVE HoldsInv' /\ OneOwner'
  <2>1. HoldsInv'
    BY <1>7 DEF TickPop, HoldsInv
  <2>2. OneOwner'
    BY <1>7 DEF TickPop, Get, Unreferenced, OneOwner
  <2> QED
    BY <2>1, <2>2
<1>8. ASSUME NEW g \in Goroutine, TickStart(g) PROVE HoldsInv' /\ OneOwner'
  <2>1. HoldsInv'
    BY <1>8 DEF TickStart, StartWorker, HoldsInv
  <2>2. OneOwner'
    BY <1>8 DEF TickStart, StartWorker, OneOwner, HoldsInv
  <2> QED
    BY <2>1, <2>2
<1>9. ASSUME NEW e \in SUBSET idle, CleanRemove(e) PROVE HoldsInv' /\ OneOwner'
  BY <1>9 DEF CleanRemove, HoldsInv, OneOwner
<1>10. CASE ColdStart \/ Clean \/ CleanLock \/ CleanUnlock
  BY Zenon, <1>1, <1>10 DEF ColdStart, Clean, CleanLock, CleanUnlock
<1>11. CASE UNCHANGED parkVars
  BY Zenon, <1>1, <1>11 DEF parkVars
<1> QED
  BY Zenon, <1>2, <1>3, <1>4, <1>5, <1>6, <1>7, <1>8, <1>9, <1>10, <1>11 DEF ParkNext

-----------------------------------------------------------------------------
(***************************************************************************)
(* Mutual exclusion.                                                       *)
(***************************************************************************)

\* Whoever wins the compare-and-swap finds nobody inside.
LEMMA EnterAlone ==
    ASSUME OneInside, NEW a, Lock(a), Inside' = Inside \cup {a}
    PROVE  OneInside'
<1>1. Inside = {}
  BY DEF OneInside, Lock, Wins
<1>2. state' = 1 /\ Inside' = {a}
  BY <1>1 DEF Lock
<1> QED
  BY <1>2 DEF OneInside

\* Only the one who is inside unlocks.
LEMMA LeaveEmpty ==
    ASSUME OneInside, NEW a \in Inside, Unlock, Inside' = Inside \ {a}
    PROVE  OneInside'
<1>1. Inside' = {} /\ state' = 0
  BY DEF OneInside, Unlock
<1> QED
  BY <1>1 DEF OneInside

\* A step that moves nobody in or out leaves at most one inside.
LEMMA StayInside ==
    ASSUME OneInside, Inside' = Inside, state' = state
    PROVE  OneInside'
  BY DEF OneInside

\* Every step leaves at most one actor inside muIdle.
LEMMA InsideStep ==
    ASSUME ParkTypeOK, OneInside, [ParkNext]_parkVars
    PROVE  OneInside'
<1> USE ParkingAssumption DEF ParkTypeOK
<1>1. ASSUME NEW g \in Goroutine, ParkLock(g) PROVE OneInside'
  <2>1. CASE Lock(g) /\ wpc' = [wpc EXCEPT ![g] = "add"]
    <3>1. Inside' = Inside \cup {g}
      BY <1>1, <2>1 DEF ParkLock, Inside, spawnVars
    <3> QED
      BY <2>1, <3>1, EnterAlone
  <2>2. CASE Spin(g) /\ UNCHANGED wpc
    BY <1>1, <2>2, StayInside DEF ParkLock, Spin, Inside, spawnVars
  <2> QED
    BY <1>1, <2>1, <2>2 DEF ParkLock
<1>2. ASSUME NEW g \in Goroutine, ParkUnlock(g) PROVE OneInside'
  <2>1. g \in Inside /\ Inside' = Inside \ {g} /\ Unlock
    BY <1>2 DEF ParkUnlock, Inside, spawnVars
  <2> QED
    BY <2>1, LeaveEmpty
<1>3. CASE TickLock
  <2>1. CASE Lock("scaler") /\ spc' = IF left > 0 THEN "pop" ELSE "unlock"
    <3>1. Inside' = Inside \cup {"scaler"}
      BY <1>3, <2>1 DEF TickLock, Inside, workVars
    <3> QED
      BY <2>1, <3>1, EnterAlone
  <2>2. CASE Spin("scaler") /\ UNCHANGED spc
    BY <1>3, <2>2, StayInside DEF TickLock, Spin, Inside, workVars
  <2> QED
    BY <1>3, <2>1, <2>2 DEF TickLock
<1>4. CASE TickUnlock
  <2>1. "scaler" \in Inside /\ Inside' = Inside \ {"scaler"} /\ Unlock
    BY <1>4 DEF TickUnlock, Inside, workVars
  <2> QED
    BY <2>1, LeaveEmpty
<1>5. CASE CleanLock
  <2>1. CASE Lock("cleaner") /\ cpc' = "remove"
    <3>1. Inside' = Inside \cup {"cleaner"}
      BY <1>5, <2>1 DEF CleanLock, Inside, workVars, spawnVars
    <3> QED
      BY <2>1, <3>1, EnterAlone
  <2>2. CASE Spin("cleaner") /\ UNCHANGED cpc
    BY <1>5, <2>2, StayInside DEF CleanLock, Spin, Inside, workVars, spawnVars
  <2> QED
    BY <1>5, <2>1, <2>2 DEF CleanLock
<1>6. CASE CleanUnlock
  <2>1. "cleaner" \in Inside /\ Inside' = Inside \ {"cleaner"} /\ Unlock
    BY <1>6 DEF CleanUnlock, Inside, workVars, spawnVars
  <2> QED
    BY <2>1, LeaveEmpty
<1>7. ASSUME NEW g \in Goroutine, Park(g) \/ ParkAdd(g) \/ TickStart(g) PROVE OneInside'
  <2>1. Inside' = Inside /\ state' = state
    BY <1>7 DEF Park, ParkAdd, TickStart, StartWorker, Inside, lockVars, spawnVars
  <2> QED
    BY <2>1, StayInside
<1>8. ASSUME NEW g \in Goroutine, NEW s \in Struct, ColdSpawn(g, s) PROVE OneInside'
  <2>1. Inside' = Inside /\ state' = state
    BY <1>8 DEF ColdSpawn, StartWorker, Inside, lockVars, spawnVars
  <2> QED
    BY <2>1, StayInside
<1>9. ASSUME NEW s \in Struct, TickPop(s) PROVE OneInside'
  BY <1>9, StayInside DEF TickPop, Inside, lockVars, workVars
<1>10. ASSUME NEW n \in 1 .. WorkerNumCapacity, Tick(n) PROVE OneInside'
  BY <1>10, StayInside DEF Tick, Inside, lockVars, workVars
<1>11. ASSUME NEW e \in SUBSET idle, CleanRemove(e) PROVE OneInside'
  BY <1>11, StayInside DEF CleanRemove, Inside, lockVars, workVars, spawnVars
<1>12. CASE ColdStart \/ Clean
  BY <1>12, StayInside DEF ColdStart, Clean, Inside, lockVars, workVars, spawnVars
<1>13. CASE UNCHANGED parkVars
  BY <1>13, StayInside DEF parkVars, Inside, lockVars, workVars, spawnVars
<1> QED
  BY Zenon, <1>1, <1>2, <1>3, <1>4, <1>5, <1>6, <1>7, <1>8, <1>9, <1>10, <1>11, <1>12, <1>13
     DEF ParkNext

-----------------------------------------------------------------------------
\* The invariant always holds.
LEMMA ParkInvHolds == ParkSpec => []ParkInv
<1>1. ParkInit => ParkInv
  <2> SUFFICES ASSUME ParkInit PROVE ParkInv
    OBVIOUS
  <2>1. cold \in BOOLEAN
    BY Zenon DEF ParkInit
  <2>2. ParkTypeOK
    BY <2>1, ParkingAssumption DEF ParkInit, ParkTypeOK, LockInit, LockTypeOK
  <2>3. Inside = {}
    BY DEF ParkInit, Inside
  <2>4. OneInside
    BY <2>3 DEF OneInside, ParkInit, LockInit
  <2>5. HoldsInv /\ OneOwner
    BY ParkingAssumption DEF ParkInit, HoldsInv, OneOwner
  <2> QED
    BY <2>2, <2>4, <2>5 DEF ParkInv
<1>2. ParkInv /\ [ParkNext]_parkVars => ParkInv'
  BY ParkTypeStep, OwnerStep, InsideStep DEF ParkInv
<1> QED
  BY <1>1, <1>2, PTL DEF ParkSpec

\* muIdle is a lock: at most one goroutine, scaler or cleaner is between Lock
\* and Unlock, however many of them spin and in whichever phase.
THEOREM SpinLockExcludes == ParkSpec => []OneInside
<1>1. ParkInv => OneInside
  BY DEF ParkInv
<1> QED
  BY <1>1, ParkInvHolds, PTL

\* No worker struct is run by two goroutines, or run while it is parked.
THEOREM StructsHaveOneOwner == ParkSpec => []OneOwner
<1>1. ParkInv => OneOwner
  BY DEF ParkInv
<1> QED
  BY <1>1, ParkInvHolds, PTL

-----------------------------------------------------------------------------
(***************************************************************************)
(* Config: the options, for any defaults and any list of options.          *)
(***************************************************************************)
\* The fields that must stay in range are fields, and in range.
ConfigInv == DOMAIN config = DOMAIN DefaultConfig /\ OptionsStayInRange

\* An option that passes its test leaves every field in range.
LEMMA OptionKeepsRange ==
    ASSUME ConfigInv, NEW o, ApplyOption(o)
    PROVE  ConfigInv'
<1> DEFINE F == PositiveField \cup {"backlogDecayFactor"}
<1>1. CASE ~Takes(o)
  BY Zenon, <1>1 DEF ApplyOption, ConfigInv, OptionsStayInRange
<1>2. CASE Takes(o)
  <2>1. config' = [config EXCEPT ![o.field] = o.value]
    BY Zenon, <1>2 DEF ApplyOption
  <2>2. DOMAIN config' = DOMAIN config
    BY <2>1
  <2>3. \A f \in DOMAIN config : config'[f] = IF f = o.field THEN o.value ELSE config[f]
    BY <2>1
  <2>4. F \subseteq DOMAIN config
    BY Zenon, ConfigAssumption DEF ConfigInv
  <2>5. ASSUME NEW f \in PositiveField PROVE config'[f] > 0
    <3>1. f \in DOMAIN config
      BY Zenon, <2>4
    <3>2. o.field = f => o.value > 0
      BY Zenon, <1>2 DEF Takes
    <3>3. config[f] > 0
      BY Zenon DEF ConfigInv, OptionsStayInRange
    <3>4. config'[f] = IF f = o.field THEN o.value ELSE config[f]
      BY Zenon, <2>3, <3>1
    <3> QED
      BY ONLY Zenon, <3>2, <3>3, <3>4
  <2>6. config.backlogDecayFactor' \in 0 .. 100
    <3>1. "backlogDecayFactor" \in DOMAIN config
      BY Zenon, <2>4
    <3>2. o.field = "backlogDecayFactor" => o.value \in 0 .. 100
      BY Zenon, <1>2 DEF Takes
    <3>3. config["backlogDecayFactor"] \in 0 .. 100
      BY DEF ConfigInv, OptionsStayInRange
    <3>4. config'["backlogDecayFactor"] =
              IF "backlogDecayFactor" = o.field THEN o.value ELSE config["backlogDecayFactor"]
      BY Zenon, <2>3, <3>1
    <3>5. config'["backlogDecayFactor"] \in 0 .. 100
      BY ONLY Zenon, <3>2, <3>3, <3>4
    <3> QED
      BY <3>5
  <2> QED
    BY <2>2, <2>5, <2>6 DEF ConfigInv, OptionsStayInRange
<1> QED
  BY Zenon, <1>1, <1>2

\* The defaults are in range ...
LEMMA ConfigInvInit == ConfigInit => ConfigInv
  BY ConfigAssumption DEF ConfigInit, ConfigInv, OptionsStayInRange

\* ... and no option leaves it.
LEMMA ConfigInvNext ==
    ASSUME ConfigInv, [ConfigNext]_configVars
    PROVE  ConfigInv'
<1>1. ASSUME NEW o \in Option, ApplyOption(o) PROVE ConfigInv'
  BY Zenon, <1>1, OptionKeepsRange
<1>2. CASE UNCHANGED config
  BY <1>2 DEF ConfigInv, OptionsStayInRange
<1>3. CASE StartOver
  BY <1>3, ConfigAssumption DEF StartOver, ConfigInv, OptionsStayInRange
<1> QED
  BY <1>1, <1>2, <1>3 DEF ConfigNext, NewPool, configVars

\* Whatever options are applied in whatever order, no option puts a field of
\* Config out of its range, for any defaults in range.
THEOREM AnyOptionsStayInRange == ConfigSpec => []OptionsStayInRange
<1>1. ConfigInv => OptionsStayInRange
  BY DEF ConfigInv
<1>2. ConfigInv /\ [ConfigNext]_configVars => ConfigInv'
  BY ConfigInvNext
<1> QED
  BY PTL, ConfigInvInit, <1>1, <1>2 DEF ConfigSpec

-----------------------------------------------------------------------------
(***************************************************************************)
(* The decision of a tick, on the grid of readings.                        *)
(***************************************************************************)
\* The medians of the grid are naturals.
LEMMA MediansAreNaturals ==
    /\ SomeMedians(submitBuckets, 1 .. 3) \subseteq Nat
    /\ SomeMedians(consumeBuckets, 1 .. 3) \subseteq Nat
    /\ SomeMedians(exitBuckets, {1, 5, 6}) \subseteq Nat
<1>1. \A i \in 1 .. 3 : Midpoint(submitBuckets[i]) \in Nat
  BY DEF submitBuckets, Midpoint, Unbounded
<1>2. \A i \in {1, 5, 6} : Midpoint(exitBuckets[i]) \in Nat
  BY DEF exitBuckets, Midpoint, Unbounded
<1> QED
  BY <1>1, <1>2 DEF SomeMedians, consumeBuckets

\* What a tick reads on the grid is a reading.
GridInv == r \in Reading

\* The readings the grid starts from ...
LEMMA GridInit == Init => GridInv
  BY MediansAreNaturals DEF Init, Reading, GridInv

\* ... and one counter of a reading grown by n ...
LEMMA BumpStays ==
    ASSUME r \in Reading, NEW n \in Nat,
           NEW f \in {"running", "bufDepth", "backlog", "queued"}, Bump(f, n)
    PROVE  r' \in Reading
  BY DEF Bump, Reading

\* ... stay readings, so every step of the grid leads to one.
LEMMA GridNext ==
    ASSUME r \in Reading, [Next]_vars
    PROVE  r' \in Reading
<1>1. ASSUME OneMoreRunning \/ MoreBuffered \/ OneMorePending \/ OneMoreQueued
      PROVE  r' \in Reading
  <2>1. \E f \in {"running", "bufDepth", "backlog", "queued"} : Bump(f, 1) \/ Bump(f, BufferStep)
    BY Zenon, <1>1 DEF OneMoreRunning, MoreBuffered, OneMorePending, OneMoreQueued
  <2>2. 1 \in Nat /\ BufferStep \in Nat
    BY GridAssumption
  <2> QED
    BY Zenon, <2>1, <2>2, BumpStays
<1>2. ASSUME AllDrained PROVE r' \in Reading
  BY ZenonT(30), <1>2 DEF AllDrained, Reading
<1>3. CASE UNCHANGED r
  BY <1>3
<1> QED
  BY <1>1, <1>2, <1>3 DEF Next, ScalerNext, vars

\* What a tick reads is a reading on the whole grid.
LEMMA GridHolds == Spec => []GridInv
<1>1. GridInv /\ [Next]_vars => GridInv'
  BY GridNext DEF GridInv
<1> QED
  BY PTL, GridInit, <1>1 DEF Spec

\* On a grid of readings of any size and mesh, for every configuration, no tick
\* of scaleIfNeeded asks for a worker beyond the capacity or the pending tasks,
\* but for the compensation of exiting workers.
THEOREM SpawnStaysBounded == Spec => []SpawnBounded
<1>1. GridInv => SpawnBounded
  BY SpawnIsBounded DEF GridInv, SpawnBounded
<1> QED
  BY PTL, GridHolds, <1>1

\* On the same grid, a tick that finds no worker running asks for one per pending
\* task, up to the capacity, whatever the medians say.
THEOREM ColdBacklogStaysServed == Spec => []ColdBacklogServed
<1>1. GridInv => ColdBacklogServed
  BY ColdBacklogIsServed DEF GridInv, ColdBacklogServed
<1> QED
  BY PTL, GridHolds, <1>1

\* On the same grid, a due tick grows a pool whose workers are all stuck, at most
\* doubling it and by no more than the configured step.
THEOREM StuckPoolKeepsRampingUp == Spec => []StuckPoolRampsUp
<1>1. GridInv => StuckPoolRampsUp
  BY StuckPoolAlwaysRampsUp DEF GridInv, StuckPoolRampsUp
<1> QED
  BY PTL, GridHolds, <1>1

\* More buffered or more pending tasks are more pressure, in the sense of
\* PressureNeverLowersDemand.
LEMMA BumpPresses ==
    ASSUME r \in Reading, MoreBuffered \/ OneMorePending
    PROVE  r' \in Reading /\ UnderMorePressure(r', r)
<1>1. ASSUME NEW n \in Nat, NEW f \in {"bufDepth", "backlog"}, Bump(f, n)
      PROVE  r' \in Reading /\ UnderMorePressure(r', r)
  BY <1>1 DEF Bump, Reading, UnderMorePressure
<1> QED
  BY <1>1, GridAssumption DEF MoreBuffered, OneMorePending

\* On the same grid, a step to more buffered or more pending tasks never lowers
\* the number of workers that a tick asks for.
THEOREM MorePressureNeverShrinks == Spec => PressureNeverShrinks
<1>1. GridInv /\ [Next]_vars
        => [MoreBuffered \/ OneMorePending => ToSpawn(r') >= ToSpawn(r)]_vars
  BY BumpPresses, PressureNeverLowersDemand DEF GridInv
<1> QED
  BY PTL, GridHolds, <1>1 DEF Spec, PressureNeverShrinks

-----------------------------------------------------------------------------
(***************************************************************************)
(* The ring of one histogram against its counts.                           *)
(***************************************************************************)
Histograms(b) ==
    [buckets : {b}, counts : [1 .. Len(b) -> Int], total : Int,
     samples : [0 .. StatsWindowSize - 1 -> 1 .. Len(b)],
     pos : 0 .. StatsWindowSize - 1, filled : BOOLEAN]

\* The positions of the ring that hold a sample of the window ...
Live(h) == {k \in 0 .. StatsWindowSize - 1 : h.filled \/ k < h.pos}

\* ... and those whose sample fell into bucket i.
LiveIn(h, i) == {k \in Live(h) : h.samples[k] = i}

\* The counts and the total are those of the samples in the window.
Exact(h) ==
    /\ \A i \in 1 .. Len(h.buckets) : h.counts[i] = Cardinality(LiveIn(h, i))
    /\ h.total = Cardinality(Live(h))

\* The window has room for a sample.
LEMMA WindowPositive == StatsWindowSize \in Nat \ {0}
  BY SamplerAssumption

\* The positions can be counted.
LEMMA LiveFinite ==
    ASSUME NEW h
    PROVE  /\ IsFiniteSet(Live(h)) /\ Cardinality(Live(h)) \in Nat
           /\ \A i : IsFiniteSet(LiveIn(h, i)) /\ Cardinality(LiveIn(h, i)) \in Nat
<1>1. IsFiniteSet(0 .. StatsWindowSize - 1)
  BY WindowPositive, FS_Interval
<1>2. IsFiniteSet(Live(h))
  BY ZenonT(60), <1>1, FS_Subset DEF Live
<1> QED
  BY <1>2, FS_Subset, FS_CardinalityType DEF LiveIn

\* Without its oldest sample a histogram still has a count for each bucket.
LEMMA CountsWithoutType ==
    ASSUME NEW b, NEW h \in Histograms(b)
    PROVE  CountsWithout(h) \in [1 .. Len(b) -> Int]
<1>1. h.counts \in [1 .. Len(b) -> Int] /\ h.samples[h.pos] \in 1 .. Len(b)
  BY ZenonT(60) DEF Histograms
<1>2. h.counts[h.samples[h.pos]] - 1 \in Int
  BY <1>1
<1> QED
  BY <1>1, <1>2 DEF CountsWithout

\* What add leaves of a histogram, field by field.
Fields(h, idx, g) ==
    /\ g.counts = [CountsWithout(h) EXCEPT ![idx] = CountsWithout(h)[idx] + 1]
    /\ g.total = IF h.filled THEN h.total ELSE h.total + 1
    /\ g.samples = [h.samples EXCEPT ![h.pos] = idx]
    /\ g.pos = IF h.pos = StatsWindowSize - 1 THEN 0 ELSE h.pos + 1
    /\ g.filled = (h.filled \/ h.pos = StatsWindowSize - 1)

\* add does this, and keeps the types.
LEMMA AddFields ==
    ASSUME NEW b, NEW h \in Histograms(b), NEW idx \in 1 .. Len(b),
           NEW g, g = AddToBucket(h, idx)
    PROVE  g \in Histograms(b) /\ Fields(h, idx, g)
<1>1. /\ h.total \in Int /\ h.filled \in BOOLEAN
      /\ h.samples \in [0 .. StatsWindowSize - 1 -> 1 .. Len(b)]
      /\ h.pos \in 0 .. StatsWindowSize - 1 /\ h.buckets = b
  BY DEF Histograms
<1>2. DOMAIN h.samples = 0 .. StatsWindowSize - 1
  BY <1>1
<1>3. Cardinality(0 .. StatsWindowSize - 1) = StatsWindowSize
  <2>1. 0 \in Int /\ StatsWindowSize - 1 \in Int /\ ~(0 > StatsWindowSize - 1)
    BY WindowPositive
  <2>2. Cardinality(0 .. StatsWindowSize - 1) = (StatsWindowSize - 1) - 0 + 1
    BY <2>1, FS_Interval
  <2> QED
    BY <2>2, WindowPositive
<1>4. (h.pos + 1 >= Cardinality(DOMAIN h.samples)) = (h.pos = StatsWindowSize - 1)
  BY SMTT(30), <1>1, <1>2, <1>3, WindowPositive
<1>5. g = [h EXCEPT !.counts  = [CountsWithout(h) EXCEPT ![idx] = CountsWithout(h)[idx] + 1],
                    !.total   = IF h.filled THEN h.total ELSE h.total + 1,
                    !.samples = [h.samples EXCEPT ![h.pos] = idx],
                    !.pos     = IF h.pos = StatsWindowSize - 1 THEN 0 ELSE h.pos + 1,
                    !.filled  = h.filled \/ h.pos = StatsWindowSize - 1]
  BY Zenon, <1>4 DEF AddToBucket
<1> DEFINE counts == [CountsWithout(h) EXCEPT ![idx] = CountsWithout(h)[idx] + 1]
           total == IF h.filled THEN h.total ELSE h.total + 1
           samples == [h.samples EXCEPT ![h.pos] = idx]
           pos == IF h.pos = StatsWindowSize - 1 THEN 0 ELSE h.pos + 1
           filled == h.filled \/ h.pos = StatsWindowSize - 1
<1>6. /\ counts \in [1 .. Len(b) -> Int] /\ total \in Int
      /\ samples \in [0 .. StatsWindowSize - 1 -> 1 .. Len(b)]
  <2>1. CountsWithout(h)[idx] + 1 \in Int
    BY CountsWithoutType
  <2> QED
    BY <1>1, <2>1, CountsWithoutType
<1>7. pos \in 0 .. StatsWindowSize - 1
  BY <1>1, WindowPositive
<1>8. filled \in BOOLEAN
  BY Zenon, <1>1
<1>9. g = [h EXCEPT !.counts = counts, !.total = total, !.samples = samples, !.pos = pos,
                    !.filled = filled]
  BY Zenon, <1>5
<1> HIDE DEF counts, total, samples, pos, filled
<1>10. /\ g.buckets = b /\ g.counts = counts /\ g.total = total /\ g.samples = samples
       /\ g.pos = pos /\ g.filled = filled
       /\ g = [buckets |-> b, counts |-> counts, total |-> total, samples |-> samples,
               pos |-> pos, filled |-> filled]
  BY ZenonT(60), <1>8, <1>9 DEF Histograms
<1>11. g \in Histograms(b)
  BY SMTT(30), <1>6, <1>7, <1>8, <1>10 DEF Histograms
<1> QED
  BY Zenon, <1>10, <1>11 DEF Fields, counts, total, samples, pos, filled

\* The next position of the ring enters the window, with the new sample.
LEMMA AddLive ==
    ASSUME NEW b, NEW h \in Histograms(b), NEW idx \in 1 .. Len(b),
           NEW g, g = AddToBucket(h, idx)
    PROVE  /\ Live(g) = Live(h) \cup {h.pos}
           /\ h.pos \in Live(h) <=> h.filled
           /\ LiveIn(g, idx) = (LiveIn(h, idx) \ {h.pos}) \cup {h.pos}
           /\ \A i \in 1 .. Len(b) : i # idx => LiveIn(g, i) = LiveIn(h, i) \ {h.pos}
<1>1. /\ h.samples \in [0 .. StatsWindowSize - 1 -> 1 .. Len(b)]
      /\ h.pos \in 0 .. StatsWindowSize - 1
  BY DEF Histograms
<1>2. Fields(h, idx, g)
  BY AddFields
<1>3. Live(g) = Live(h) \cup {h.pos} /\ (h.pos \in Live(h) <=> h.filled)
  <2>1. CASE h.filled
    <3>1. g.filled
      BY Zenon, <1>2, <2>1 DEF Fields
    <3> QED
      BY <1>1, <2>1, <3>1 DEF Live
  <2>2. CASE ~h.filled /\ h.pos = StatsWindowSize - 1
    <3>1. g.filled
      BY Zenon, <1>2, <2>2 DEF Fields
    <3> QED
      BY <1>1, <2>2, <3>1, WindowPositive DEF Live
  <2>3. CASE ~h.filled /\ h.pos # StatsWindowSize - 1
    <3>1. ~g.filled /\ g.pos = h.pos + 1
      BY Zenon, <1>2, <2>3 DEF Fields
    <3> QED
      BY <1>1, <2>3, <3>1, WindowPositive DEF Live
  <2> QED
    BY <2>1, <2>2, <2>3
<1>4. \A k \in Live(g) : g.samples[k] = IF k = h.pos THEN idx ELSE h.samples[k]
  BY ZenonT(60), <1>1, <1>2 DEF Live, Fields
<1>5. LiveIn(g, idx) = (LiveIn(h, idx) \ {h.pos}) \cup {h.pos}
  BY <1>3, <1>4 DEF LiveIn
<1>6. \A i \in 1 .. Len(b) : i # idx => LiveIn(g, i) = LiveIn(h, i) \ {h.pos}
  BY <1>3, <1>4 DEF LiveIn
<1> QED
  BY <1>3, <1>5, <1>6

\* What add subtracts is the sample that leaves the window.
LEMMA WithoutOldest ==
    ASSUME NEW b, NEW h \in Histograms(b), Exact(h), NEW i \in 1 .. Len(b)
    PROVE  CountsWithout(h)[i] = Cardinality(LiveIn(h, i) \ {h.pos})
<1>1. /\ h.counts \in [1 .. Len(b) -> Int] /\ h.buckets = b
      /\ h.samples \in [0 .. StatsWindowSize - 1 -> 1 .. Len(b)]
      /\ h.pos \in 0 .. StatsWindowSize - 1
  BY DEF Histograms
<1>2. h.counts[i] = Cardinality(LiveIn(h, i))
  BY <1>1 DEF Exact
<1>3. Cardinality(LiveIn(h, i) \ {h.pos}) =
        IF h.pos \in LiveIn(h, i) THEN Cardinality(LiveIn(h, i)) - 1
                                  ELSE Cardinality(LiveIn(h, i))
  BY ZenonT(60), LiveFinite, FS_RemoveElement
<1>4. h.pos \in LiveIn(h, i) <=> h.filled /\ h.samples[h.pos] = i
  BY <1>1 DEF LiveIn, Live
<1> QED
  BY <1>1, <1>2, <1>3, <1>4 DEF CountsWithout

\* So add keeps the counts exact.
LEMMA AddExact ==
    ASSUME NEW b, NEW h \in Histograms(b), Exact(h), NEW idx \in 1 .. Len(b),
           NEW g, g = AddToBucket(h, idx)
    PROVE  Exact(g)
<1>1. h.total = Cardinality(Live(h))
  BY DEF Exact
<1>2. Fields(h, idx, g) /\ g \in Histograms(b)
  BY AddFields
<1>3. /\ Live(g) = Live(h) \cup {h.pos}
      /\ h.pos \in Live(h) <=> h.filled
      /\ LiveIn(g, idx) = (LiveIn(h, idx) \ {h.pos}) \cup {h.pos}
      /\ \A i \in 1 .. Len(b) : i # idx => LiveIn(g, i) = LiveIn(h, i) \ {h.pos}
  BY AddLive
<1>4. g.total = Cardinality(Live(g))
  <2>1. Cardinality(Live(g)) =
          IF h.pos \in Live(h) THEN Cardinality(Live(h)) ELSE Cardinality(Live(h)) + 1
    BY ZenonT(60), <1>3, LiveFinite, FS_AddElement
  <2> QED
    BY <1>1, <1>2, <1>3, <2>1 DEF Fields
<1>5. ASSUME NEW i \in 1 .. Len(b), i # idx PROVE g.counts[i] = Cardinality(LiveIn(g, i))
  <2>1. g.counts[i] = CountsWithout(h)[i]
    BY <1>2, <1>5, CountsWithoutType DEF Fields
  <2> QED
    BY <1>3, <1>5, <2>1, WithoutOldest
<1>6. g.counts[idx] = Cardinality(LiveIn(g, idx))
  <2>1. IsFiniteSet(LiveIn(h, idx) \ {h.pos})
    BY ZenonT(60), LiveFinite, FS_RemoveElement
  <2>2. Cardinality(LiveIn(g, idx)) = Cardinality(LiveIn(h, idx) \ {h.pos}) + 1
    BY ZenonT(60), <1>3, <2>1, FS_AddElement
  <2>3. g.counts[idx] = CountsWithout(h)[idx] + 1
    BY <1>2, CountsWithoutType DEF Fields
  <2> QED
    BY <2>2, <2>3, WithoutOldest
<1>7. g.buckets = b
  BY <1>2 DEF Histograms
<1> QED
  BY <1>4, <1>5, <1>6, <1>7 DEF Exact

-----------------------------------------------------------------------------
\* The smallest of some naturals is below the others.
LEMMA SmallestOf ==
    ASSUME NEW S \in SUBSET Nat, S # {}
    PROVE  Min(S) \in S /\ \A y \in S : Min(S) <= y
<1>1. PICK x \in S : \A y \in S : <<y, x>> \notin OpToRel(<, Nat)
  BY NatLessThanWellFounded, WFMin
<1>2. ASSUME NEW y \in S PROVE x <= y
  <2>1. x \in Nat /\ y \in Nat
    OBVIOUS
  <2>2. ~(y < x)
    BY ZenonT(60), <1>1, <2>1 DEF OpToRel
  <2> QED
    BY <2>1, <2>2
<1> QED
  BY ZenonT(60), <1>2 DEF Min

\* bucketIndex answers with an index of the table, whatever the value.
LEMMA BucketIndexType ==
    ASSUME NEW b, Len(b) \in Nat \ {0}, NEW value
    PROVE  bucketIndex(b, value) \in 1 .. Len(b)
<1> DEFINE holds == {i \in 1 .. Len(b) :
                        /\ value >= b[i][1]
                        /\ b[i][2] = Unbounded \/ value <= b[i][2]}
<1>1. CASE holds = {}
  BY <1>1 DEF bucketIndex
<1>2. CASE holds # {}
  <2>1. holds \in SUBSET Nat
    OBVIOUS
  <2>2. Min(holds) \in holds
    BY Zenon, <1>2, <2>1, SmallestOf
  <2> QED
    BY <1>2, <2>2 DEF bucketIndex
<1> QED
  BY <1>1, <1>2

-----------------------------------------------------------------------------
(***************************************************************************)
(* The ring against the window itself.                                     *)
(***************************************************************************)

\* Where the ring holds the k-th newest sample.
Slot(h, k) == IF k <= h.pos THEN h.pos - k ELSE h.pos - k + StatsWindowSize

\* How many samples the ring holds.
Size(h) == IF h.filled THEN StatsWindowSize ELSE h.pos

\* The ring holds the buckets of the values V, newest first.
Holds(h, V) ==
    /\ V \in [1 .. Size(h) -> Nat]
    /\ \A k \in 1 .. Size(h) : h.samples[Slot(h, k)] = bucketIndex(h.buckets, V[k])

\* V with v before it, and without its last if there are more than the window.
Shifted(V, n, v, V2, n2) ==
    /\ n2 = IF n = StatsWindowSize THEN n ELSE n + 1
    /\ V2 \in [1 .. n2 -> Nat]
    /\ V2[1] = v
    /\ \A k \in 2 .. n2 : V2[k] = V[k - 1]

\* There are at most as many samples as the ring has positions.
LEMMA SizeType ==
    ASSUME NEW b, NEW h \in Histograms(b)
    PROVE  Size(h) \in 0 .. StatsWindowSize /\ h.pos \in 0 .. StatsWindowSize - 1
  BY WindowPositive DEF Histograms, Size

\* Adding a sample moves every other one a place back.
LEMMA AddHolds ==
    ASSUME NEW b, Len(b) \in Nat \ {0}, NEW h \in Histograms(b), NEW V, Holds(h, V),
           NEW v \in Nat, NEW V2, NEW n2, Shifted(V, Size(h), v, V2, n2)
    PROVE  Holds(add(h, v), V2) /\ Size(add(h, v)) = n2
<1> DEFINE idx == bucketIndex(b, v)
           g == add(h, v)
<1>1. h.buckets = b /\ h.pos \in 0 .. StatsWindowSize - 1
      /\ h.samples \in [0 .. StatsWindowSize - 1 -> 1 .. Len(b)]
  BY DEF Histograms
<1>2. idx \in 1 .. Len(b) /\ g = AddToBucket(h, idx)
  BY <1>1, BucketIndexType DEF add
<1> HIDE DEF idx, g
<1>3. g \in Histograms(b) /\ Fields(h, idx, g)
  BY <1>2, AddFields
<1>4. Size(h) \in 0 .. StatsWindowSize
  BY SizeType
<1>5. Size(g) = n2
  <2>1. CASE h.filled
    <3>1. g.filled
      BY Zenon, <1>3, <2>1 DEF Fields
    <3> QED
      BY <2>1, <3>1, WindowPositive DEF Size, Shifted
  <2>2. CASE ~h.filled /\ h.pos = StatsWindowSize - 1
    <3>1. g.filled
      BY Zenon, <1>3, <2>2 DEF Fields
    <3> QED
      BY <1>1, <2>2, <3>1, WindowPositive DEF Size, Shifted
  <2>3. CASE ~h.filled /\ h.pos # StatsWindowSize - 1
    <3>1. ~g.filled /\ g.pos = h.pos + 1
      BY Zenon, <1>3, <2>3 DEF Fields
    <3> QED
      BY <1>1, <2>3, <3>1, WindowPositive DEF Size, Shifted
  <2> QED
    BY <2>1, <2>2, <2>3
<1>6. g.pos = (IF h.pos = StatsWindowSize - 1 THEN 0 ELSE h.pos + 1)
      /\ g.samples = [h.samples EXCEPT ![h.pos] = idx] /\ g.buckets = b
  BY <1>3 DEF Fields, Histograms
<1>7. n2 \in 1 .. StatsWindowSize
  BY <1>4, WindowPositive DEF Shifted
<1>8. Slot(g, 1) = h.pos
  BY <1>1, <1>6, WindowPositive DEF Slot
<1>9. g.samples[Slot(g, 1)] = bucketIndex(b, V2[1])
  BY ZenonT(60), <1>1, <1>2, <1>6, <1>8 DEF Shifted, idx
<1>10. ASSUME NEW k \in 2 .. n2
       PROVE  g.samples[Slot(g, k)] = bucketIndex(b, V2[k])
  <2>1. k - 1 \in 1 .. Size(h) /\ k \in 2 .. StatsWindowSize
    BY <1>4, <1>7, WindowPositive DEF Shifted
  <2>2. /\ Slot(g, k) = Slot(h, k - 1) /\ Slot(h, k - 1) # h.pos
        /\ Slot(h, k - 1) \in 0 .. StatsWindowSize - 1
    <3> DEFINE p == h.pos
               q == g.pos
               N == StatsWindowSize
    <3>1. p \in 0 .. N - 1 /\ q = (IF p = N - 1 THEN 0 ELSE p + 1) /\ k \in 2 .. N
          /\ N \in Nat \ {0}
      BY <1>1, <1>6, <2>1, WindowPositive
    <3>2. /\ Slot(g, k) = IF k <= q THEN q - k ELSE q - k + N
          /\ Slot(h, k - 1) = IF k - 1 <= p THEN p - (k - 1) ELSE p - (k - 1) + N
      BY Zenon DEF Slot
    <3> HIDE DEF p, q, N
    <3>3. /\ Slot(g, k) = Slot(h, k - 1) /\ Slot(h, k - 1) # p
          /\ Slot(h, k - 1) \in 0 .. N - 1
      BY <3>1, <3>2
    <3> QED
      BY Zenon, <3>3 DEF p, q, N
  <2>3. g.samples[Slot(g, k)] = h.samples[Slot(h, k - 1)]
    BY Zenon, <1>1, <1>6, <2>2
  <2>4. h.samples[Slot(h, k - 1)] = bucketIndex(b, V[k - 1])
    BY <1>1, <2>1 DEF Holds
  <2>5. V2[k] = V[k - 1]
    BY DEF Shifted
  <2> QED
    BY Zenon, <2>3, <2>4, <2>5
<1>11. \A k \in 1 .. n2 : k = 1 \/ k \in 2 .. n2
  BY <1>7
<1>12. \A k \in 1 .. n2 : g.samples[Slot(g, k)] = bucketIndex(b, V2[k])
  BY Zenon, <1>9, <1>10, <1>11
<1> QED
  BY <1>5, <1>6, <1>12 DEF Holds, Shifted, g

\* So the counts are those of the values.
LEMMA CountsOfValues ==
    ASSUME NEW b, NEW h \in Histograms(b), NEW V, Holds(h, V), Exact(h), NEW i \in 1 .. Len(b)
    PROVE  h.counts[i] = Cardinality({k \in 1 .. Size(h) : bucketIndex(b, V[k]) = i})
<1> DEFINE S == {k \in 1 .. Size(h) : bucketIndex(b, V[k]) = i}
           f == [k \in S |-> Slot(h, k)]
<1>1. h.buckets = b /\ h.pos \in 0 .. StatsWindowSize - 1 /\ Size(h) \in 0 .. StatsWindowSize
  BY SizeType DEF Histograms
<1>2. \A k \in 1 .. Size(h) : Slot(h, k) \in Live(h)
  BY ONLY SMTT(30), <1>1, WindowPositive DEF Slot, Live, Size
<1>3. \A k \in S : h.samples[Slot(h, k)] = i
  BY <1>1 DEF Holds
<1>4. f \in [S -> LiveIn(h, i)]
  BY <1>2, <1>3 DEF LiveIn
<1>5. \A k, l \in S : Slot(h, k) = Slot(h, l) => k = l
  BY SMTT(30), <1>1, WindowPositive DEF Slot
<1>6. ASSUME NEW p \in LiveIn(h, i) PROVE \E k \in S : Slot(h, k) = p
  <2> DEFINE k == IF p < h.pos THEN h.pos - p ELSE h.pos - p + StatsWindowSize
  <2>1. p \in 0 .. StatsWindowSize - 1 /\ (h.filled \/ p < h.pos) /\ h.samples[p] = i
    BY DEF LiveIn, Live
  <2>2. k \in 1 .. Size(h) /\ Slot(h, k) = p
    BY SMTT(30), <1>1, <2>1, WindowPositive DEF Slot, Size
  <2> HIDE DEF k
  <2>3. bucketIndex(b, V[k]) = i
    BY <1>1, <2>1, <2>2 DEF Holds
  <2> QED
    BY <2>2, <2>3
<1>7. f \in Bijection(S, LiveIn(h, i))
  <2>1. f \in Injection(S, LiveIn(h, i))
    BY <1>4, <1>5 DEF Injection, IsInjective
  <2>2. f \in Surjection(S, LiveIn(h, i))
    BY <1>4, <1>6 DEF Surjection
  <2> QED
    BY <2>1, <2>2 DEF Bijection
<1>8. IsFiniteSet(S)
  <2>1. IsFiniteSet(1 .. Size(h))
    BY <1>1, FS_Interval
  <2> QED
    BY ZenonT(60), <2>1, FS_Subset
<1>9. Cardinality(LiveIn(h, i)) = Cardinality(S)
  BY <1>7, <1>8, FS_Bijection DEF ExistsBijection
<1> QED
  BY Zenon, <1>1, <1>9 DEF Exact

-----------------------------------------------------------------------------
(***************************************************************************)
(* The three histograms of a pool.                                         *)
(***************************************************************************)
Rate == [sub : Nat, con : Nat, ext : Nat]

\* The window, as each of the three histograms has seen it.
Subs == [k \in 1 .. Len(recent) |-> recent[k].sub]
Cons == [k \in 1 .. Len(recent) |-> recent[k].con]
Exts == [k \in 1 .. Len(recent) |-> recent[k].ext]

\* What the invariant says of one histogram.
Tracks(h, b, V) == h \in Histograms(b) /\ Exact(h) /\ Holds(h, V) /\ Size(h) = Len(recent)

\* The inductive invariant of the sampler.
SamplerInv ==
    /\ recent \in Seq(Rate)
    /\ Tracks(submitHist, submitBuckets, Subs)
    /\ Tracks(consumeHist, consumeBuckets, Cons)
    /\ Tracks(exitHist, exitBuckets, Exts)

\* How many of the samples V fell into bucket i of table b.
FellInto(b, V, i) == Cardinality({k \in 1 .. Len(recent) : bucketIndex(b, V[k]) = i})

\* "It tracks the frequency distribution of samples over the last N windows"
\* (histogram.go:9): no sample is missing from the counts, none is counted
\* after it has left the window, and none is counted in a wrong bucket.
CountsOfTheWindow ==
    /\ Len(recent) <= StatsWindowSize
    /\ \A i \in 1 .. Len(submitBuckets) : submitHist.counts[i] = FellInto(submitBuckets, Subs, i)
    /\ \A i \in 1 .. Len(consumeBuckets) : consumeHist.counts[i] = FellInto(consumeBuckets, Cons, i)
    /\ \A i \in 1 .. Len(exitBuckets) : exitHist.counts[i] = FellInto(exitBuckets, Exts, i)
    /\ submitHist.total = Len(recent) /\ consumeHist.total = Len(recent)
    /\ exitHist.total = Len(recent)

\* Each table has eight buckets.
LEMMA TableSizes ==
    Len(submitBuckets) = 8 /\ Len(consumeBuckets) = 8 /\ Len(exitBuckets) = 8
  BY DEF submitBuckets, consumeBuckets, exitBuckets

\* A new histogram tracks the empty window.
LEMMA NewTracks ==
    ASSUME NEW b, Len(b) = 8, recent = <<>>, NEW V, V = [k \in 1 .. Len(recent) |-> 0],
           NEW h, h = newHistogram(b, StatsWindowSize)
    PROVE  Tracks(h, b, V)
<1>1. /\ h.buckets = b /\ h.counts = [i \in 1 .. 8 |-> 0] /\ h.total = 0 /\ h.pos = 0
      /\ h.filled = FALSE
      /\ h \in Histograms(b)
  BY WindowPositive DEF newHistogram, Histograms
<1>2. Live(h) = {} /\ Size(h) = 0
  BY <1>1, WindowPositive DEF Live, Size
<1>3. \A i : LiveIn(h, i) = {}
  BY <1>2 DEF LiveIn
<1>4. Exact(h)
  BY ZenonT(60), <1>1, <1>2, <1>3, FS_EmptySet DEF Exact
<1>5. Len(recent) = 0
  OBVIOUS
<1>6. Holds(h, V)
  BY <1>2, <1>5 DEF Holds
<1> QED
  BY Zenon, <1>1, <1>2, <1>4, <1>5, <1>6 DEF Tracks

\* What one sample does to the window.
LEMMA RecentStep ==
    ASSUME recent \in Seq(Rate), Len(recent) <= StatsWindowSize, NEW s \in Rates, sampleRates(s)
    PROVE  /\ recent' \in Seq(Rate)
           /\ Len(recent') = IF Len(recent) = StatsWindowSize THEN Len(recent) ELSE Len(recent) + 1
           /\ recent'[1] = s
           /\ \A k \in 2 .. Len(recent') : recent'[k] = recent[k - 1]
<1> DEFINE all == <<s>> \o recent
           n == IF Len(all) > StatsWindowSize THEN StatsWindowSize ELSE Len(all)
<1>1. s \in Rate
  BY SamplerAssumption DEF Rate
<1>2. /\ all \in Seq(Rate) /\ Len(all) = Len(recent) + 1 /\ all[1] = s
      /\ \A k \in 2 .. Len(all) : all[k] = recent[k - 1]
  BY <1>1
<1>3. recent' = SubSeq(all, 1, n)
  BY DEF sampleRates
<1> HIDE DEF all
<1>4. /\ n \in 1 .. Len(all)
      /\ n = IF Len(recent) = StatsWindowSize THEN Len(recent) ELSE Len(recent) + 1
  BY <1>2, WindowPositive
<1> HIDE DEF n
<1>5. /\ SubSeq(all, 1, n) \in Seq(Rate) /\ Len(SubSeq(all, 1, n)) = n
      /\ \A k \in 1 .. n : SubSeq(all, 1, n)[k] = all[k]
  BY <1>2, <1>4
<1> QED
  BY <1>2, <1>3, <1>4, <1>5

\* One histogram follows one field of the samples.
LEMMA TracksStep ==
    ASSUME NEW b, Len(b) = 8, NEW h, NEW V, Tracks(h, b, V), NEW v \in Nat, NEW V2,
           Shifted(V, Len(recent), v, V2, Len(recent')), NEW g, g = add(h, v)
    PROVE  g \in Histograms(b) /\ Exact(g) /\ Holds(g, V2) /\ Size(g) = Len(recent')
<1>1. h \in Histograms(b) /\ Exact(h) /\ Holds(h, V) /\ Size(h) = Len(recent)
  BY DEF Tracks
<1>2. Len(b) \in Nat \ {0}
  OBVIOUS
<1>3. h.buckets = b /\ bucketIndex(b, v) \in 1 .. Len(b)
  BY ZenonT(60), <1>1, <1>2, BucketIndexType DEF Histograms
<1>4. g = AddToBucket(h, bucketIndex(b, v))
  BY <1>3 DEF add
<1>5. g \in Histograms(b)
  BY ZenonT(60), <1>1, <1>3, <1>4, AddFields
<1>6. Exact(g)
  BY ZenonT(60), <1>1, <1>3, <1>4, AddExact
<1>7. PICK n2 : n2 = Len(recent') /\ Shifted(V, Size(h), v, V2, n2)
  BY <1>1
<1>8. Holds(g, V2) /\ Size(g) = n2
  <2>1. Holds(add(h, v), V2) /\ Size(add(h, v)) = n2
    BY ZenonT(60), <1>1, <1>2, <1>7, AddHolds
  <2> QED
    BY <2>1
<1> QED
  BY <1>5, <1>6, <1>7, <1>8

\* One tick of the sampler keeps the three histograms on the window.
LEMMA SamplerStep ==
    ASSUME SamplerInv, NEW s \in Rates, sampleRates(s)
    PROVE  SamplerInv'
<1>1. recent \in Seq(Rate) /\ Len(recent) <= StatsWindowSize
  BY SizeType, WindowPositive DEF SamplerInv, Tracks
<1>2. /\ recent' \in Seq(Rate)
      /\ Len(recent') = IF Len(recent) = StatsWindowSize THEN Len(recent) ELSE Len(recent) + 1
      /\ recent'[1] = s
      /\ \A k \in 2 .. Len(recent') : recent'[k] = recent[k - 1]
  BY <1>1, RecentStep
<1>3. s.sub \in Nat /\ s.con \in Nat /\ s.ext \in Nat
  BY SamplerAssumption
<1>4. Len(recent) \in Nat /\ Len(recent') \in Nat /\ Len(recent') >= 1
  BY <1>1, <1>2, WindowPositive
<1>5. \A k \in 1 .. Len(recent') : recent'[k] \in Rate
  BY <1>2
<1>6. \A k \in 2 .. Len(recent') : k - 1 \in 1 .. Len(recent)
  BY <1>2, <1>4
<1>7. Shifted(Subs, Len(recent), s.sub, Subs', Len(recent'))
  <2>1. /\ Subs = [k \in 1 .. Len(recent) |-> recent[k].sub]
        /\ Subs' = [k \in 1 .. Len(recent') |-> recent'[k].sub]
    BY DEF Subs
  <2>2. \A k \in 1 .. Len(recent') : recent'[k].sub \in Nat
    BY <1>5 DEF Rate
  <2>3. Subs' \in [1 .. Len(recent') -> Nat]
    BY Zenon, <2>1, <2>2
  <2>4. Subs'[1] = s.sub
    BY <1>2, <1>4, <2>1
  <2>5. \A k \in 2 .. Len(recent') : Subs'[k] = Subs[k - 1]
    BY <1>2, <1>4, <1>6, <2>1
  <2> QED
    BY <1>2, <2>3, <2>4, <2>5 DEF Shifted
<1>8. Shifted(Cons, Len(recent), s.con, Cons', Len(recent'))
  <2>1. /\ Cons = [k \in 1 .. Len(recent) |-> recent[k].con]
        /\ Cons' = [k \in 1 .. Len(recent') |-> recent'[k].con]
    BY DEF Cons
  <2>2. \A k \in 1 .. Len(recent') : recent'[k].con \in Nat
    BY <1>5 DEF Rate
  <2>3. Cons' \in [1 .. Len(recent') -> Nat]
    BY Zenon, <2>1, <2>2
  <2>4. Cons'[1] = s.con
    BY <1>2, <1>4, <2>1
  <2>5. \A k \in 2 .. Len(recent') : Cons'[k] = Cons[k - 1]
    BY <1>2, <1>4, <1>6, <2>1
  <2> QED
    BY <1>2, <2>3, <2>4, <2>5 DEF Shifted
<1>9. Shifted(Exts, Len(recent), s.ext, Exts', Len(recent'))
  <2>1. /\ Exts = [k \in 1 .. Len(recent) |-> recent[k].ext]
        /\ Exts' = [k \in 1 .. Len(recent') |-> recent'[k].ext]
    BY DEF Exts
  <2>2. \A k \in 1 .. Len(recent') : recent'[k].ext \in Nat
    BY <1>5 DEF Rate
  <2>3. Exts' \in [1 .. Len(recent') -> Nat]
    BY Zenon, <2>1, <2>2
  <2>4. Exts'[1] = s.ext
    BY <1>2, <1>4, <2>1
  <2>5. \A k \in 2 .. Len(recent') : Exts'[k] = Exts[k - 1]
    BY <1>2, <1>4, <1>6, <2>1
  <2> QED
    BY <1>2, <2>3, <2>4, <2>5 DEF Shifted
<1>10. Tracks(submitHist, submitBuckets, Subs)'
  BY ZenonT(60), <1>3, <1>7, TracksStep, TableSizes DEF SamplerInv, sampleRates, Tracks
<1>11. Tracks(consumeHist, consumeBuckets, Cons)'
  BY ZenonT(60), <1>3, <1>8, TracksStep, TableSizes DEF SamplerInv, sampleRates, Tracks
<1>12. Tracks(exitHist, exitBuckets, Exts)'
  BY ZenonT(60), <1>3, <1>9, TracksStep, TableSizes DEF SamplerInv, sampleRates, Tracks
<1> QED
  BY <1>2, <1>10, <1>11, <1>12 DEF SamplerInv

\* The three histograms track the window at every step.
LEMMA SamplerInvariant == SamplerSpec => []SamplerInv
<1>1. SamplerInit => SamplerInv
  <2> SUFFICES ASSUME SamplerInit PROVE SamplerInv
    OBVIOUS
  <2>1. recent = <<>> /\ Len(recent) = 0 /\ recent \in Seq(Rate)
    BY DEF SamplerInit
  <2>2. /\ Subs = [k \in 1 .. Len(recent) |-> 0] /\ Cons = [k \in 1 .. Len(recent) |-> 0]
        /\ Exts = [k \in 1 .. Len(recent) |-> 0]
    BY <2>1 DEF Subs, Cons, Exts
  <2> QED
    BY ZenonT(60), <2>1, <2>2, NewTracks, TableSizes DEF SamplerInv, SamplerInit
<1>2. SamplerInv /\ [SamplerNext]_sampleVars => SamplerInv'
  <2> SUFFICES ASSUME SamplerInv, [SamplerNext]_sampleVars PROVE SamplerInv'
    OBVIOUS
  <2>1. CASE UNCHANGED sampleVars
    BY <2>1 DEF sampleVars, SamplerInv, Tracks, Subs, Cons, Exts
  <2>2. CASE SamplerNext
    BY ZenonT(30), <2>2, SamplerStep DEF SamplerNext
  <2> QED
    BY Zenon, <2>1, <2>2
<1> QED
  BY <1>1, <1>2, PTL DEF SamplerSpec

\* A histogram that tracks the window has its counts and its size.
LEMMA TracksCounts ==
    ASSUME NEW b, NEW h, NEW V, Tracks(h, b, V)
    PROVE  /\ \A i \in 1 .. Len(b) : h.counts[i] = FellInto(b, V, i)
           /\ h.total = Len(recent)
<1>1. h \in Histograms(b) /\ Exact(h) /\ Holds(h, V) /\ Size(h) = Len(recent)
  BY DEF Tracks
<1>2. \A i \in 1 .. Len(b) : h.counts[i] = FellInto(b, V, i)
  BY <1>1, CountsOfValues DEF FellInto
<1>3. Cardinality(Live(h)) = Size(h)
  <2>1. h.pos \in 0 .. StatsWindowSize - 1
    BY <1>1, SizeType
  <2>2. Live(h) = 0 .. Size(h) - 1 /\ Size(h) \in Nat
    BY <2>1, WindowPositive DEF Live, Size
  <2>3. Cardinality(0 .. Size(h) - 1) = IF 0 > Size(h) - 1 THEN 0 ELSE (Size(h) - 1) - 0 + 1
    BY SMTT(30), <2>2, FS_Interval
  <2> QED
    BY <2>2, <2>3
<1> QED
  BY ZenonT(30), <1>1, <1>2, <1>3 DEF Exact

\* After any number of samples each histogram counts exactly the samples of its
\* window, bucket by bucket, for every window size.
THEOREM HistogramsCountTheWindow == SamplerSpec => []CountsOfTheWindow
<1>1. SamplerInv => CountsOfTheWindow
  <2> SUFFICES ASSUME SamplerInv PROVE CountsOfTheWindow
    OBVIOUS
  <2>1. Len(recent) <= StatsWindowSize
    BY SizeType, WindowPositive DEF SamplerInv, Tracks
  <2> QED
    BY <2>1, TracksCounts DEF SamplerInv, CountsOfTheWindow
<1> QED
  BY <1>1, SamplerInvariant, PTL

-----------------------------------------------------------------------------
(***************************************************************************)
(* What median makes of the counts.                                        *)
(***************************************************************************)
\* The positions of the first n samples that a set of values holds.
Among(V, n, A) == {k \in 1 .. n : V[k] \in A}

\* These positions can be counted, and there are no more than samples.
LEMMA AmongFinite ==
    ASSUME NEW V, NEW n \in Nat, NEW A
    PROVE  /\ IsFiniteSet(Among(V, n, A))
           /\ Cardinality(Among(V, n, A)) \in Nat
           /\ Cardinality(Among(V, n, A)) <= n
<1>1. IsFiniteSet(1 .. n) /\ Cardinality(1 .. n) = n
  <2>1. IsFiniteSet(1 .. n) /\ Cardinality(1 .. n) = IF 1 > n THEN 0 ELSE n - 1 + 1
    BY FS_Interval
  <2> QED
    BY <2>1
<1>2. Among(V, n, A) \in SUBSET (1 .. n)
  BY Zenon DEF Among
<1> QED
  BY <1>1, <1>2, FS_Subset, FS_CardinalityType

\* All samples are among a set that holds them all ...
LEMMA AmongAll ==
    ASSUME NEW V, NEW n \in Nat, NEW A, \A k \in 1 .. n : V[k] \in A
    PROVE  Cardinality(Among(V, n, A)) = n
<1>1. Among(V, n, A) = 1 .. n
  BY Zenon DEF Among
<1>2. Cardinality(1 .. n) = IF 1 > n THEN 0 ELSE n - 1 + 1
  BY FS_Interval
<1> QED
  BY <1>1, <1>2

\* ... and none is among a set that holds none.
LEMMA AmongNone ==
    ASSUME NEW V, NEW n \in Nat, NEW A, \A k \in 1 .. n : V[k] \notin A
    PROVE  Cardinality(Among(V, n, A)) = 0
<1>1. Among(V, n, A) = {}
  BY Zenon DEF Among
<1> QED
  BY Zenon, <1>1, FS_EmptySet

\* Some natural bounds finitely many.
LEMMA SomeBound ==
    ASSUME NEW V, NEW n \in Nat, \A k \in 1 .. n : V[k] \in Nat
    PROVE  \E x \in Nat : \A k \in 1 .. n : V[k] <= x
<1> DEFINE Bad == {m \in 0 .. n : ~\E x \in Nat : \A k \in 1 .. m : V[k] <= x}
<1>1. ASSUME Bad # {} PROVE FALSE
  <2>1. Bad \in SUBSET Nat
    OBVIOUS
  <2>2. PICK m \in Bad : \A y \in Bad : m <= y
    <3> HIDE DEF Bad
    <3> QED
      BY Zenon, <1>1, <2>1, SmallestOf
  <2>3. m # 0
    BY <2>2
  <2>4. m - 1 \in 0 .. n /\ m - 1 \notin Bad /\ m \in 1 .. n
    <3>1. m \in 0 .. n
      OBVIOUS
    <3>2. m - 1 \in 0 .. n /\ ~(m <= m - 1) /\ m \in 1 .. n
      BY <2>3, <3>1
    <3> HIDE DEF Bad
    <3> QED
      BY Zenon, <2>2, <3>2
  <2>5. PICK x \in Nat : \A k \in 1 .. m - 1 : V[k] <= x
    BY Zenon, <2>4
  <2> DEFINE y == x + V[m]
  <2>6. y \in Nat /\ \A k \in 1 .. m : V[k] <= y
    <3> HIDE DEF Bad
    <3>1. V[m] \in Nat
      BY Zenon, <2>4
    <3>2. y \in Nat /\ x <= y /\ V[m] <= y
      BY <3>1
    <3>3. ASSUME NEW k \in 1 .. m, k # m PROVE V[k] <= y
      <4>1. k \in 1 .. m - 1 /\ k \in 1 .. n
        BY <2>4, <3>3
      <4>2. V[k] \in Nat /\ V[k] <= x
        BY Zenon, <2>5, <4>1
      <4> HIDE DEF y
      <4> QED
        BY <3>2, <4>2
    <3> QED
      BY Zenon, <3>2, <3>3
  <2>7. \E z \in Nat : \A k \in 1 .. m : V[k] <= z
    <3> HIDE DEF y
    <3> QED
      BY Zenon, <2>6
  <2> QED
    BY ONLY Zenon, <2>2, <2>7
<1>2. n \in 0 .. n
  OBVIOUS
<1> QED
  BY Zenon, <1>1, <1>2

\* Some sample is the upper median.
LEMMA UpperMedianExists ==
    ASSUME NEW V, NEW n \in Nat \ {0}, \A k \in 1 .. n : V[k] \in Nat
    PROVE  \E v \in {V[k] : k \in 1 .. n} :
               /\ 2 * Cardinality({k \in 1 .. n : V[k] < v}) <= n
               /\ 2 * Cardinality({k \in 1 .. n : V[k] <= v}) > n
<1> DEFINE Upto(x) == Cardinality(Among(V, n, 0 .. x))
           Past == {x \in Nat : 2 * Upto(x) > n}
<1>1. Past # {}
  <2>1. PICK x \in Nat : \A k \in 1 .. n : V[k] <= x
    BY Zenon, SomeBound
  <2>2. \A k \in 1 .. n : V[k] \in 0 .. x
    BY <2>1
  <2>3. Upto(x) = n
    BY <2>2, AmongAll
  <2>4. 2 * Upto(x) > n
    BY <2>3
  <2> QED
    BY Zenon, <2>4
<1>2. PICK v \in Past : \A y \in Past : v <= y
  <2>1. Past \in SUBSET Nat
    BY Zenon
  <2> HIDE DEF Past
  <2> QED
    BY Zenon, <1>1, <2>1, SmallestOf
<1>3. v \in Nat /\ 2 * Upto(v) > n
  BY Zenon
<1>4. {k \in 1 .. n : V[k] <= v} = Among(V, n, 0 .. v)
  BY <1>3 DEF Among
<1>5. 2 * Cardinality({k \in 1 .. n : V[k] < v}) <= n
  <2>1. {k \in 1 .. n : V[k] < v} = Among(V, n, 0 .. v - 1)
    BY <1>3 DEF Among
  <2>2. CASE v = 0
    <3>1. \A k \in 1 .. n : V[k] \notin 0 .. v - 1
      BY <2>2
    <3>2. Cardinality(Among(V, n, 0 .. v - 1)) = 0
      BY <3>1, AmongNone
    <3>3. 2 * 0 <= n
      OBVIOUS
    <3> QED
      BY Zenon, <2>1, <3>2, <3>3
  <2>3. CASE v # 0
    <3>1. v - 1 \in Nat /\ ~(v <= v - 1)
      BY <1>3, <2>3
    <3>2. ~(2 * Upto(v - 1) > n)
      BY Zenon, <1>2, <3>1
    <3>3. Upto(v - 1) \in Nat
      BY Zenon, AmongFinite
    <3> HIDE DEF Upto
    <3>4. 2 * Upto(v - 1) <= n
      BY <3>2, <3>3
    <3> QED
      BY Zenon, <2>1, <3>4 DEF Upto
  <2> QED
    BY Zenon, <2>2, <2>3
<1>6. \E k \in 1 .. n : V[k] = v
  <2> SUFFICES ASSUME \A k \in 1 .. n : V[k] # v PROVE FALSE
    BY Zenon
  <2>1. {k \in 1 .. n : V[k] <= v} = {k \in 1 .. n : V[k] < v}
    BY <1>3
  <2>2. Upto(v) \in Nat /\ 2 * Upto(v) <= n
    BY ZenonT(30), <1>4, <1>5, <2>1, AmongFinite
  <2> HIDE DEF Upto
  <2> QED
    BY <1>3, <2>2
<1> QED
  BY Zenon, <1>3, <1>4, <1>5, <1>6

-----------------------------------------------------------------------------
(***************************************************************************)
(* A table of buckets covers the naturals in order.                        *)
(***************************************************************************)
\* The test of bucketIndex.
InBucket(b, i, x) == x >= b[i][1] /\ (b[i][2] = Unbounded \/ x <= b[i][2])

\* Every natural has a bucket, and later buckets hold larger values.
Ordered(b) ==
    /\ Len(b) \in Nat \ {0}
    /\ \A i \in 1 .. Len(b) : b[i][1] \in Nat /\ b[i][2] \in Int
    /\ \A x \in Nat : \E i \in 1 .. Len(b) : InBucket(b, i, x)
    /\ \A i, j \in 1 .. Len(b) : i < j => b[i][2] # Unbounded /\ b[i][2] < b[j][1]

\* submitBuckets, which are consumeBuckets as well, are such a table ...
LEMMA SubmitOrdered == Ordered(submitBuckets)
<1> DEFINE b == submitBuckets
<1>1. /\ Len(b) = 8
      /\ b[1] = <<0, 0>> /\ b[2] = <<1, 5>> /\ b[3] = <<6, 20>> /\ b[4] = <<21, 100>>
      /\ b[5] = <<101, 500>> /\ b[6] = <<501, 2000>> /\ b[7] = <<2001, 10000>>
      /\ b[8] = <<10001, -1>>
  BY DEF submitBuckets, Unbounded
<1> HIDE DEF b
<1>2. \A x \in Nat : \E i \in 1 .. 8 : InBucket(b, i, x)
  BY <1>1 DEF InBucket, Unbounded
<1>3. \A i, j \in 1 .. 8 : i < j => b[i][2] # -1 /\ b[i][2] < b[j][1]
  BY <1>1
<1>4. \A i \in 1 .. 8 : b[i][1] \in Nat /\ b[i][2] \in Int
  <2> SUFFICES ASSUME NEW i \in 1 .. 8 PROVE b[i][1] \in Nat /\ b[i][2] \in Int
    OBVIOUS
  <2>1. i \in {1, 2, 3, 4, 5, 6, 7, 8}
    BY ONLY i \in 1 .. 8
  <2> QED
    BY ONLY SMTT(30), <1>1, <2>1
<1>5. Len(b) = 8 /\ 8 \in Nat \ {0} /\ Unbounded = -1
  BY ONLY <1>1 DEF Unbounded
<1>6. Ordered(b)
  BY ONLY ZenonT(30), <1>2, <1>3, <1>4, <1>5 DEF Ordered
<1> QED
  BY ONLY Zenon, <1>6 DEF b

\* ... and so are exitBuckets.
LEMMA ExitOrdered == Ordered(exitBuckets)
<1> DEFINE b == exitBuckets
<1>1. /\ Len(b) = 8
      /\ b[1] = <<0, 0>> /\ b[2] = <<1, 2>> /\ b[3] = <<3, 5>> /\ b[4] = <<6, 10>>
      /\ b[5] = <<11, 20>> /\ b[6] = <<21, 50>> /\ b[7] = <<51, 100>> /\ b[8] = <<101, -1>>
  BY DEF exitBuckets, Unbounded
<1> HIDE DEF b
<1>2. \A x \in Nat : \E i \in 1 .. 8 : InBucket(b, i, x)
  BY <1>1 DEF InBucket, Unbounded
<1>3. \A i, j \in 1 .. 8 : i < j => b[i][2] # -1 /\ b[i][2] < b[j][1]
  BY <1>1
<1>4. \A i \in 1 .. 8 : b[i][1] \in Nat /\ b[i][2] \in Int
  <2> SUFFICES ASSUME NEW i \in 1 .. 8 PROVE b[i][1] \in Nat /\ b[i][2] \in Int
    OBVIOUS
  <2>1. i \in {1, 2, 3, 4, 5, 6, 7, 8}
    BY ONLY i \in 1 .. 8
  <2> QED
    BY ONLY SMTT(30), <1>1, <2>1
<1>5. Len(b) = 8 /\ 8 \in Nat \ {0} /\ Unbounded = -1
  BY ONLY <1>1 DEF Unbounded
<1>6. Ordered(b)
  BY ONLY ZenonT(30), <1>2, <1>3, <1>4, <1>5 DEF Ordered
<1> QED
  BY ONLY Zenon, <1>6 DEF b

\* The bucket of a value holds it.
LEMMA BucketHolds ==
    ASSUME NEW b, Ordered(b), NEW x \in Nat
    PROVE  bucketIndex(b, x) \in 1 .. Len(b) /\ InBucket(b, bucketIndex(b, x), x)
<1> DEFINE holds == {i \in 1 .. Len(b) : InBucket(b, i, x)}
<1>1. bucketIndex(b, x) = IF holds = {} THEN Len(b) ELSE Min(holds)
  BY Zenon DEF bucketIndex, InBucket
<1>2. holds # {}
  BY Zenon DEF Ordered
<1>3. holds \in SUBSET Nat
  BY DEF Ordered
<1>4. Min(holds) \in holds
  <2> HIDE DEF holds
  <2> QED
    BY Zenon, <1>2, <1>3, SmallestOf
<1> QED
  BY Zenon, <1>1, <1>2, <1>4

\* A smaller value is in no later bucket.
LEMMA BucketsKeepOrder ==
    ASSUME NEW b, Ordered(b), NEW x \in Nat, NEW y \in Nat,
           bucketIndex(b, x) < bucketIndex(b, y)
    PROVE  x < y
<1> DEFINE i == bucketIndex(b, x)
           j == bucketIndex(b, y)
<1>1. i \in 1 .. Len(b) /\ j \in 1 .. Len(b) /\ InBucket(b, i, x) /\ InBucket(b, j, y) /\ i < j
  BY Zenon, BucketHolds
<1> HIDE DEF i, j
<1>2. /\ b[i][2] # Unbounded /\ b[i][2] < b[j][1] /\ b[i][2] \in Int /\ b[j][1] \in Int
      /\ x <= b[i][2] /\ y >= b[j][1]
  <2>1. b[i][2] # Unbounded /\ b[i][2] < b[j][1] /\ b[i][2] \in Int /\ b[j][1] \in Nat
    BY Zenon, <1>1 DEF Ordered
  <2>2. \A z \in Nat : z \in Int
    OBVIOUS
  <2> QED
    BY Zenon, <1>1, <2>1, <2>2 DEF InBucket
<1> DEFINE hi == b[i][2]
           lo == b[j][1]
<1>3. hi \in Int /\ lo \in Int /\ hi < lo /\ x <= hi /\ y >= lo
  BY Zenon, <1>2
<1> HIDE DEF hi, lo
<1> QED
  BY <1>3

-----------------------------------------------------------------------------
(***************************************************************************)
(* The running sum of median counts the samples up to a bucket.            *)
(***************************************************************************)
\* One unfolding of CumOf.
CumStep(h, g) ==
    [i \in 0 .. Len(h.buckets) |-> IF i = 0 THEN 0 ELSE g[i - 1] + h.counts[i]]

\* The buckets of the first n samples.
Indices(b, V, n) == [k \in 1 .. n |-> bucketIndex(b, V[k])]

\* The samples up to a bucket are those before it and those in it.
LEMMA OneMoreBucket ==
    ASSUME NEW I, NEW n \in Nat, NEW i \in Nat \ {0}, \A k \in 1 .. n : I[k] \in Nat
    PROVE  Cardinality(Among(I, n, 0 .. i)) =
               Cardinality(Among(I, n, 0 .. i - 1)) + Cardinality(Among(I, n, {i}))
<1> DEFINE S == Among(I, n, 0 .. i - 1)
           T == Among(I, n, {i})
<1>1. \A x \in Nat : (x \in 0 .. i <=> x \in 0 .. i - 1 \/ x = i) /\ ~(x \in 0 .. i - 1 /\ x = i)
  OBVIOUS
<1>2. S \cup T = Among(I, n, 0 .. i) /\ S \cap T = {}
  BY Zenon, <1>1 DEF Among
<1>3. /\ IsFiniteSet(S) /\ IsFiniteSet(T) /\ Cardinality(S) \in Nat /\ Cardinality(T) \in Nat
  BY Zenon, AmongFinite
<1> HIDE DEF S, T
<1>4. Cardinality(S \cup T) = Cardinality(S) + Cardinality(T) - Cardinality(S \cap T)
  BY Zenon, <1>3, FS_Union
<1>5. Cardinality(S \cap T) = 0
  BY Zenon, <1>2, FS_EmptySet
<1>6. Cardinality(S \cup T) = Cardinality(S) + Cardinality(T)
  BY <1>3, <1>4, <1>5
<1> QED
  BY Zenon, <1>2, <1>6 DEF S, T

\* The histogram h counts the n values of which I lists the buckets.
Counts(h, I, n) ==
    /\ Len(h.buckets) \in Nat \ {0}
    /\ n \in Nat /\ h.total = n
    /\ \A k \in 1 .. n : I[k] \in 1 .. Len(h.buckets)
    /\ \A i \in 1 .. Len(h.buckets) : h.counts[i] = Cardinality(Among(I, n, {i}))

\* So cum counts, at each bucket, the samples up to it.
LEMMA CumCounts ==
    ASSUME NEW h, NEW I, NEW n, Counts(h, I, n)
    PROVE  \A i \in 0 .. Len(h.buckets) : CumOf(h)[i] = Cardinality(Among(I, n, 0 .. i))
<1> DEFINE N == Len(h.buckets)
           W == [i \in 0 .. N |-> Cardinality(Among(I, n, 0 .. i))]
           C == CumOf(h)
<1>1. N \in Nat /\ n \in Nat /\ \A k \in 1 .. n : I[k] \in Nat /\ I[k] \in 1 .. N
  BY DEF Counts
<1>2. Cardinality(Among(I, n, 0 .. 0)) = 0
  <2>1. \A k \in 1 .. n : I[k] \notin 0 .. 0
    <3> HIDE DEF N
    <3> QED
      BY <1>1
  <2> QED
    BY <1>1, <2>1, AmongNone
<1>3. ASSUME NEW i \in 0 .. N, i # 0
      PROVE  /\ i - 1 \in 0 .. N
             /\ W[i] = W[i - 1] + h.counts[i]
  <2> HIDE DEF N
  <2>1. i \in Nat \ {0} /\ i - 1 \in 0 .. N /\ i \in 1 .. N
    BY <1>1, <1>3
  <2>2. h.counts[i] = Cardinality(Among(I, n, {i}))
    BY Zenon, <2>1 DEF Counts, N
  <2>3. Cardinality(Among(I, n, 0 .. i)) =
            Cardinality(Among(I, n, 0 .. i - 1)) + Cardinality(Among(I, n, {i}))
    BY Zenon, <1>1, <2>1, OneMoreBucket
  <2>4. W[i] = Cardinality(Among(I, n, 0 .. i)) /\ W[i - 1] = Cardinality(Among(I, n, 0 .. i - 1))
    BY Zenon, <2>1
  <2> HIDE DEF W
  <2> QED
    BY Zenon, <2>1, <2>2, <2>3, <2>4
<1>4. W = CumStep(h, W)
  <2> HIDE DEF N
  <2>1. 0 \in 0 .. N /\ W[0] = 0
    BY <1>1, <1>2
  <2>2. \A i \in 0 .. N : W[i] = IF i = 0 THEN 0 ELSE W[i - 1] + h.counts[i]
    BY Zenon, <1>3, <2>1
  <2> QED
    BY Zenon, <2>2 DEF CumStep, N
<1>5. C = CHOOSE g : g = CumStep(h, g)
  BY Zenon DEF CumOf, CumStep
<1>6. C = CumStep(h, C)
  <2> HIDE DEF C, W
  <2> QED
    BY Zenon, <1>4, <1>5
<1>7. \A i \in 0 .. N : C[i] = IF i = 0 THEN 0 ELSE C[i - 1] + h.counts[i]
  <2> HIDE DEF C
  <2> QED
    BY Zenon, <1>6 DEF CumStep
<1> DEFINE Bad == {i \in 0 .. N : C[i] # W[i]}
<1>8. ASSUME Bad # {} PROVE FALSE
  <2> HIDE DEF N, C, W
  <2>1. Bad \in SUBSET Nat
    OBVIOUS
  <2>2. PICK m \in Bad : \A y \in Bad : m <= y
    <3> HIDE DEF Bad
    <3> QED
      BY Zenon, <1>8, <2>1, SmallestOf
  <2>3. m \in 0 .. N /\ C[m] # W[m]
    BY Zenon
  <2>4. m # 0
    BY Zenon, <1>2, <1>7, <2>3 DEF W
  <2>5. m - 1 \in 0 .. N /\ ~(m <= m - 1)
    BY <1>1, <2>3, <2>4
  <2>6. C[m - 1] = W[m - 1]
    BY Zenon, <2>2, <2>5
  <2> QED
    BY Zenon, <1>3, <1>7, <2>3, <2>4, <2>6
<1> QED
  <2> HIDE DEF C
  <2> QED
    BY Zenon, <1>8 DEF C

\* Whatever counts as much as more than a half is more than a half.
LEMMA MoreThanHalf ==
    /\ \A c, d, n \in Nat : c <= d /\ 2 * c > n => 2 * d > n
    /\ \A c, d, n \in Nat : c <= d /\ 2 * d <= n => ~(2 * c > n)
  OBVIOUS

\* What median answers is the bucket of the sample in the middle.
LEMMA MedianOfCounts ==
    ASSUME NEW h, Ordered(h.buckets), NEW V, \A k \in 1 .. Len(V) : V[k] \in Nat,
           Counts(h, Indices(h.buckets, V, Len(V)), Len(V))
    PROVE  median(h) = UpperMedian(h.buckets, V)
<1> DEFINE b == h.buckets
           N == Len(b)
           n == Len(V)
           I == Indices(b, V, n)
           past == {i \in 1 .. N : CumOf(h)[i] > h.total \div 2}
           Middle(w) == /\ 2 * Cardinality({k \in 1 .. n : V[k] < w}) <= n
                        /\ 2 * Cardinality({k \in 1 .. n : V[k] <= w}) > n
           v == CHOOSE w \in {V[k] : k \in 1 .. n} : Middle(w)
           top == bucketIndex(b, v)
<1>1. N \in Nat \ {0} /\ n \in Nat /\ h.total = n
  BY Zenon DEF Counts
<1>2. \A i \in 0 .. N : CumOf(h)[i] = Cardinality(Among(I, n, 0 .. i))
  BY Zenon, CumCounts
<1>3. median(h) = IF h.total = 0 \/ past = {} THEN 0 ELSE Midpoint(b[Min(past)])
  BY Zenon DEF median
<1>4. UpperMedian(b, V) = IF n = 0 THEN 0 ELSE Midpoint(b[top])
  BY Zenon DEF UpperMedian
<1>5. Ordered(b) /\ \A k \in 1 .. n : V[k] \in Nat
  BY Zenon
<1> HIDE DEF b, n
<1>6. CASE n = 0
  BY Zenon, <1>1, <1>3, <1>4, <1>6 DEF b
<1>7. CASE n # 0
  <2>1. v \in {V[k] : k \in 1 .. n} /\ Middle(v)
    <3>1. n \in Nat \ {0}
      BY <1>1, <1>7
    <3>2. PICK w \in {V[k] : k \in 1 .. n} : Middle(w)
      BY Zenon, <1>5, <3>1, UpperMedianExists
    <3> HIDE DEF Middle
    <3> QED
      BY Zenon, <3>2
  <2> HIDE DEF v
  <2>2. v \in Nat
    BY Zenon, <1>5, <2>1
  <2>3. top \in 1 .. N /\ \A k \in 1 .. n : I[k] = bucketIndex(b, V[k]) /\ I[k] \in 1 .. N
    BY Zenon, <1>5, <2>2, BucketHolds DEF Indices
  <2> HIDE DEF top
  <2>4. /\ {k \in 1 .. n : V[k] < v} = Among(V, n, 0 .. v - 1)
        /\ {k \in 1 .. n : V[k] <= v} = Among(V, n, 0 .. v)
    BY <1>5, <2>2 DEF Among
  <2>5. ASSUME NEW i \in 1 .. N
        PROVE  i \in past <=> 2 * Cardinality(Among(I, n, 0 .. i)) > n
    <3> HIDE DEF I, N
    <3>1. Cardinality(Among(I, n, 0 .. i)) \in Nat
      BY Zenon, <1>1, AmongFinite
    <3>2. i \in 0 .. N
      BY <1>1
    <3>3. CumOf(h)[i] = Cardinality(Among(I, n, 0 .. i))
      BY Zenon, <1>2, <3>2
    <3>4. \A c \in Nat : c > n \div 2 <=> 2 * c > n
      BY <1>1
    <3> QED
      BY Zenon, <1>1, <3>1, <3>3, <3>4
  <2>6. top \in past
    <3>1. ASSUME NEW k \in 1 .. n, V[k] \in 0 .. v PROVE I[k] \in 0 .. top
      <4>1. V[k] \in Nat /\ ~(v < V[k])
        BY <1>5, <2>2, <3>1
      <4>2. ~(top < I[k])
        BY Zenon, <2>2, <2>3, <1>5, <4>1, BucketsKeepOrder DEF top
      <4>3. I[k] \in 1 .. N /\ top \in 1 .. N
        BY Zenon, <2>3
      <4> HIDE DEF I, N
      <4> QED
        BY <1>1, <4>2, <4>3
    <3>2. Cardinality({k \in 1 .. n : V[k] <= v}) <= Cardinality(Among(I, n, 0 .. top))
      <4>1. Among(V, n, 0 .. v) \in SUBSET Among(I, n, 0 .. top)
        BY Zenon, <3>1 DEF Among
      <4> HIDE DEF I
      <4>2. IsFiniteSet(Among(I, n, 0 .. top))
        BY Zenon, <1>1, AmongFinite
      <4> QED
        BY Zenon, <2>4, <4>1, <4>2, FS_Subset
    <3> HIDE DEF I
    <3>3. /\ Cardinality({k \in 1 .. n : V[k] <= v}) \in Nat
          /\ Cardinality(Among(I, n, 0 .. top)) \in Nat
      BY Zenon, <1>1, <2>4, AmongFinite
    <3>4. 2 * Cardinality(Among(I, n, 0 .. top)) > n
      BY Zenon, <1>1, <2>1, <3>2, <3>3, MoreThanHalf
    <3> QED
      BY Zenon, <2>3, <2>5, <3>4
  <2>7. ASSUME NEW i \in past, i < top PROVE FALSE
    <3>1. ASSUME NEW k \in 1 .. n, I[k] \in 0 .. i PROVE V[k] \in 0 .. v - 1
      <4> HIDE DEF N, past
      <4>1. i \in 1 .. N
        BY Zenon DEF past
      <4>2. I[k] \in 1 .. N /\ top \in 1 .. N /\ V[k] \in Nat
        BY Zenon, <1>5, <2>3
      <4>3. I[k] < top
        <5> HIDE DEF I
        <5> QED
          BY <1>1, <2>7, <3>1, <4>1, <4>2
      <4>4. V[k] < v
        BY Zenon, <2>2, <2>3, <4>2, <4>3, <1>5, BucketsKeepOrder DEF top
      <4> QED
        BY <2>2, <4>2, <4>4
    <3>2. Cardinality(Among(I, n, 0 .. i)) <= Cardinality({k \in 1 .. n : V[k] < v})
      <4>1. Among(I, n, 0 .. i) \in SUBSET Among(V, n, 0 .. v - 1)
        BY Zenon, <3>1 DEF Among
      <4>2. IsFiniteSet(Among(V, n, 0 .. v - 1))
        BY Zenon, <1>1, AmongFinite
      <4> QED
        BY Zenon, <2>4, <4>1, <4>2, FS_Subset
    <3> HIDE DEF I
    <3>3. /\ Cardinality({k \in 1 .. n : V[k] < v}) \in Nat
          /\ Cardinality(Among(I, n, 0 .. i)) \in Nat
      BY Zenon, <1>1, <2>4, AmongFinite
    <3>4. 2 * Cardinality(Among(I, n, 0 .. i)) > n
      BY Zenon, <2>5
    <3> QED
      BY Zenon, <1>1, <2>1, <3>2, <3>3, <3>4, MoreThanHalf
  <2>8. past \in SUBSET Nat
    BY <1>1
  <2>9. Min(past) \in past /\ Min(past) <= top
    <3> HIDE DEF past
    <3> QED
      BY Zenon, <2>6, <2>8, SmallestOf
  <2>10. Min(past) = top
    <3>1. ~(Min(past) < top)
      BY Zenon, <2>7, <2>9
    <3>2. Min(past) \in Nat /\ top \in Nat
      BY Zenon, <2>6, <2>8, <2>9
    <3> HIDE DEF past
    <3> QED
      BY <2>9, <3>1, <3>2
  <2> HIDE DEF past
  <2> QED
    BY Zenon, <1>1, <1>3, <1>4, <1>7, <2>6, <2>10 DEF b
<1> QED
  BY Zenon, <1>6, <1>7

\* A histogram that tracks the window answers with its median.
LEMMA TrackedMedian ==
    ASSUME NEW b, NEW h, NEW V, Tracks(h, b, V), Ordered(b), Len(V) = Len(recent),
           Len(recent) \in Nat, \A k \in 1 .. Len(recent) : V[k] \in Nat
    PROVE  median(h) = UpperMedian(b, V)
<1> DEFINE n == Len(V)
           I == Indices(b, V, n)
<1>1. h.buckets = b
  BY DEF Tracks, Histograms
<1>2. Len(b) \in Nat \ {0} /\ h.total = n
  BY Zenon, TracksCounts DEF Ordered
<1>3. \A k \in 1 .. n : I[k] = bucketIndex(b, V[k]) /\ I[k] \in 1 .. Len(b)
  BY Zenon, BucketHolds DEF Indices
<1>4. \A i \in 1 .. Len(b) : h.counts[i] = Cardinality(Among(I, n, {i}))
  <2> SUFFICES ASSUME NEW i \in 1 .. Len(b) PROVE h.counts[i] = Cardinality(Among(I, n, {i}))
    BY Zenon
  <2> HIDE DEF I
  <2>1. Among(I, n, {i}) = {k \in 1 .. Len(recent) : bucketIndex(b, V[k]) = i}
    BY Zenon, <1>3 DEF Among
  <2>2. h.counts[i] = FellInto(b, V, i)
    BY Zenon, TracksCounts
  <2>3. FellInto(b, V, i) = Cardinality({k \in 1 .. Len(recent) : bucketIndex(b, V[k]) = i})
    BY Zenon DEF FellInto
  <2> QED
    BY Zenon, <2>1, <2>2, <2>3
<1>5. Counts(h, I, n)
  <2> HIDE DEF I
  <2> QED
    BY Zenon, <1>1, <1>2, <1>3, <1>4 DEF Counts
<1> QED
  BY Zenon, <1>1, <1>5, MedianOfCounts

\* After any number of samples the medians that the scaler reads are those of the
\* last StatsWindowSize samples, to the precision of the buckets: for every window
\* size and all rates, not only for the few of a run.
THEOREM MediansAreOfTheWindow == SamplerSpec => []MediansOfTheWindow
<1>1. SamplerInv => MediansOfTheWindow
  <2> SUFFICES ASSUME SamplerInv PROVE MediansOfTheWindow
    OBVIOUS
  <2>1. Len(recent) \in Nat /\ \A k \in 1 .. Len(recent) : recent[k] \in Rate
    BY DEF SamplerInv
  <2>2. \A k \in 1 .. Len(recent) : Subs[k] \in Nat /\ Cons[k] \in Nat /\ Exts[k] \in Nat
    BY <2>1 DEF Subs, Cons, Exts, Rate
  <2>3. Len(Subs) = Len(recent) /\ Len(Cons) = Len(recent) /\ Len(Exts) = Len(recent)
    BY <2>1 DEF Subs, Cons, Exts
  <2>4. Ordered(consumeBuckets)
    BY Zenon, SubmitOrdered DEF consumeBuckets
  <2>5. /\ median(submitHist) = UpperMedian(submitBuckets, Subs)
        /\ median(consumeHist) = UpperMedian(consumeBuckets, Cons)
        /\ median(exitHist) = UpperMedian(exitBuckets, Exts)
    BY Zenon, <2>1, <2>2, <2>3, <2>4, SubmitOrdered, ExitOrdered, TrackedMedian DEF SamplerInv
  <2> QED
    BY Zenon, <2>5 DEF MediansOfTheWindow, getMedianRates, Subs, Cons, Exts
<1> QED
  BY PTL, SamplerInvariant, <1>1
=============================================================================
