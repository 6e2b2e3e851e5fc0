------------------------------ MODULE Parking ------------------------------
(***************************************************************************)
(* Worker structs between the goroutines that run them, the idle container *)
(* and the sync.Pool: workers park, the scaler and the cold start of a     *)
(* submission restart them, the cleaner drops them.  muIdle guards the     *)
(* container, of which only the contents matter here (Idle has the rest).  *)
(* What workers run, and when the scaler wants more, is left open.         *)
(***************************************************************************)
EXTENDS Integers, FiniteSets

CONSTANTS
    Struct,         \* addresses of worker structs (a bound)
    Goroutine,      \* goroutines in worker.run at one time (a bound)
    WorkerNumCapacity,  \* the pool's worker capacity
    FastSpin, MaxRounds,
    NoStruct

ASSUME ParkingAssumption ==
    /\ WorkerNumCapacity \in Nat \ {0} /\ FastSpin \in Nat /\ MaxRounds \in Nat
    /\ NoStruct \notin Struct
    /\ {"scaler", "cleaner"} \cap Goroutine = {}

VARIABLES
    state, tries,       \* muIdle
    idle,               \* the structs in the idle container
    recycled,           \* the structs somebody has put into workerPool
    running,            \* runningWorkersNum
    wpc, on,            \* where each goroutine is in run, and on which struct
    spc, left, hand,    \* scaleIfNeeded: where it is, workers to go, the next one
    cpc,                \* where the cleaner is
    cold                \* a submission has won the cold start

Actor == Goroutine \cup {"scaler", "cleaner"}

INSTANCE SpinLock

lockVars   == <<state, tries>>
structVars == <<idle, recycled, running>>
workVars   == <<wpc, on>>
spawnVars  == <<spc, left, hand>>
parkVars   == <<lockVars, structVars, workVars, spawnVars, cpc, cold>>

ParkTypeOK ==
    /\ LockTypeOK
    /\ idle \subseteq Struct /\ recycled \subseteq Struct
    /\ running \in Int
    /\ wpc \in [Goroutine -> {"none", "run", "lock", "add", "unlock"}]
    /\ on \in [Goroutine -> Struct \cup {NoStruct}]
    /\ spc \in {"sleep", "lock", "pop", "unlock", "start"}
    /\ left \in Int /\ hand \in Struct \cup {NoStruct}
    /\ cpc \in {"sleep", "lock", "remove", "unlock"}
    /\ cold \in BOOLEAN

ParkInit ==
    /\ LockInit
    /\ idle = {} /\ recycled = {} /\ running = 0
    /\ wpc = [g \in Goroutine |-> "none"] /\ on = [g \in Goroutine |-> NoStruct]
    /\ spc = "sleep" /\ left = 0 /\ hand = NoStruct
    /\ cpc = "sleep" /\ cold = FALSE

-----------------------------------------------------------------------------
\* No container, variable or goroutine refers to the struct.
Unreferenced(s) ==
    /\ s \notin idle \cup recycled
    /\ s # hand
    /\ \A g \in Goroutine : on[g] # s

\* workerPool.Get: a struct that was put there, or a new one.
Get(s) == s \in recycled \/ Unreferenced(s)

\* go w.run(nil)
StartWorker(g, s) ==
    /\ wpc[g] = "none"
    /\ wpc' = [wpc EXCEPT ![g] = "run"]
    /\ on' = [on EXCEPT ![g] = s]

\* submit finds no worker running; it takes no parked struct.
ColdStart ==
    /\ running = 0
    /\ running' = 1 /\ cold' = TRUE
    /\ UNCHANGED <<lockVars, idle, recycled, workVars, spawnVars, cpc>>

ColdSpawn(g, s) ==
    /\ cold
    /\ Get(s)
    /\ StartWorker(g, s)
    /\ recycled' = recycled \ {s}
    /\ cold' = FALSE
    /\ UNCHANGED <<lockVars, idle, running, spawnVars, cpc>>

-----------------------------------------------------------------------------
\* run finds shards and buffer empty.
Park(g) ==
    /\ wpc[g] = "run"
    /\ running' = running - 1
    /\ wpc' = [wpc EXCEPT ![g] = "lock"]
    /\ UNCHANGED <<lockVars, idle, recycled, on, spawnVars, cpc, cold>>

ParkLock(g) ==
    /\ wpc[g] = "lock"
    /\ \/ Lock(g) /\ wpc' = [wpc EXCEPT ![g] = "add"]
       \/ Spin(g) /\ UNCHANGED wpc
    /\ UNCHANGED <<structVars, on, spawnVars, cpc, cold>>

\* Mutant: a parked struct goes to workerPool as well.
PutsParked(s) == {s}

\* What a worker that parks puts into workerPool: nothing (worker.go:34).
Puts(s) == {}

\* addToIdle; the goroutine does not touch its struct any more.
ParkAdd(g) ==
    /\ wpc[g] = "add"
    /\ idle' = idle \cup {on[g]}
    /\ recycled' = recycled \cup Puts(on[g])
    /\ on' = [on EXCEPT ![g] = NoStruct]
    /\ wpc' = [wpc EXCEPT ![g] = "unlock"]
    /\ UNCHANGED <<lockVars, running, spawnVars, cpc, cold>>

ParkUnlock(g) ==
    /\ wpc[g] = "unlock"
    /\ Unlock
    /\ wpc' = [wpc EXCEPT ![g] = "none"]
    /\ UNCHANGED <<structVars, on, spawnVars, cpc, cold>>

-----------------------------------------------------------------------------
\* The end of scaleIfNeeded, once it has decided on n workers.
Tick(n) ==
    /\ spc = "sleep"
    /\ n <= WorkerNumCapacity - running
    /\ running' = running + n /\ left' = n
    /\ spc' = "lock"
    /\ UNCHANGED <<lockVars, idle, recycled, workVars, hand, cpc, cold>>

TickLock ==
    /\ spc = "lock"
    /\ \/ Lock("scaler") /\ spc' = IF left > 0 THEN "pop" ELSE "unlock"
       \/ Spin("scaler") /\ UNCHANGED spc
    /\ UNCHANGED <<structVars, workVars, left, hand, cpc, cold>>

\* Pop, or else workerPool.Get.
TickPop(s) ==
    /\ spc = "pop"
    /\ \/ s \in idle /\ idle' = idle \ {s} /\ UNCHANGED recycled
       \/ idle = {} /\ Get(s) /\ recycled' = recycled \ {s} /\ UNCHANGED idle
    /\ hand' = s
    /\ spc' = "unlock"
    /\ UNCHANGED <<lockVars, running, workVars, left, cpc, cold>>

TickUnlock ==
    /\ spc = "unlock"
    /\ Unlock
    /\ spc' = IF left > 0 THEN "start" ELSE "sleep"
    /\ UNCHANGED <<structVars, workVars, left, hand, cpc, cold>>

TickStart(g) ==
    /\ spc = "start"
    /\ StartWorker(g, hand)
    /\ hand' = NoStruct /\ left' = left - 1
    /\ spc' = "lock"
    /\ UNCHANGED <<lockVars, structVars, cpc, cold>>

-----------------------------------------------------------------------------
\* expiredWorkerCleaner removes the expired structs of the container.
Clean ==
    /\ cpc = "sleep"
    /\ cpc' = "lock"
    /\ UNCHANGED <<lockVars, structVars, workVars, spawnVars, cold>>

CleanLock ==
    /\ cpc = "lock"
    /\ \/ Lock("cleaner") /\ cpc' = "remove"
       \/ Spin("cleaner") /\ UNCHANGED cpc
    /\ UNCHANGED <<structVars, workVars, spawnVars, cold>>

CleanRemove(expired) ==
    /\ cpc = "remove"
    /\ idle' = idle \ expired
    /\ cpc' = "unlock"
    /\ UNCHANGED <<lockVars, recycled, running, workVars, spawnVars, cold>>

CleanUnlock ==
    /\ cpc = "unlock"
    /\ Unlock
    /\ cpc' = "sleep"
    /\ UNCHANGED <<structVars, workVars, spawnVars, cold>>

-----------------------------------------------------------------------------
ParkNext ==
    \/ ColdStart
    \/ \E g \in Goroutine, s \in Struct : ColdSpawn(g, s)
    \/ \E g \in Goroutine : Park(g) \/ ParkLock(g) \/ ParkAdd(g) \/ ParkUnlock(g)
    \/ \E n \in 1 .. WorkerNumCapacity : Tick(n)
    \/ TickLock \/ TickUnlock
    \/ \E s \in Struct : TickPop(s)
    \/ \E g \in Goroutine : TickStart(g)
    \/ Clean \/ CleanLock \/ CleanUnlock
    \/ \E expired \in SUBSET idle : CleanRemove(expired)

ParkSpec == ParkInit /\ [][ParkNext]_parkVars

-----------------------------------------------------------------------------
\* Who is between Lock and Unlock of muIdle.
Inside ==
    {g \in Goroutine : wpc[g] \in {"add", "unlock"}}
    \cup (IF spc \in {"pop", "unlock"} THEN {"scaler"} ELSE {})
    \cup (IF cpc \in {"remove", "unlock"} THEN {"cleaner"} ELSE {})

\* The containers are not safe for concurrent use: whatever the spin lock's
\* phases and whoever unlocks, one goroutine at most is in a critical section
\* of muIdle, and the lock is held exactly then.
OneInside ==
    /\ \A a, b \in Inside : a = b
    /\ state = 1 <=> Inside # {}

\* The note in worker.run (worker.go:34): two goroutines never run one struct,
\* and a struct that is run or about to be is not in the container, nor is one
\* in two containers at once.
OneOwner ==
    /\ \A g, h \in Goroutine : on[g] # NoStruct /\ on[g] = on[h] => g = h
    /\ \A g \in Goroutine : on[g] \notin idle \cup recycled
    /\ hand # NoStruct => hand \notin idle \cup recycled /\ \A g \in Goroutine : on[g] # hand
    /\ idle \cap recycled = {}
=============================================================================
