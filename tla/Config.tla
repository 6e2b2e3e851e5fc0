------------------------------- MODULE Config -------------------------------
(***************************************************************************)
(* From the options of NewConfig to what NewPool builds: the limits, the   *)
(* shards of the handoff queue, the lock and the idle container.  Sizes    *)
(* are small; the decay factor is in percent.                              *)
(***************************************************************************)
EXTENDS Integers

CONSTANTS
    DefaultConfig,          \* the Config before any option: a record
    Option,                 \* the options a program passes: field and value
    MaxOptions,             \* how many of them at once (a bound)
    GOMAXPROCS,
    minShardableQueueSize, maxAutoShards

VARIABLES config, options, pool

configVars == <<config, options, pool>>

\* Before NewPool.
NotBuilt == [built |-> FALSE]

\* The fields whose options ignore values that are not positive.
PositiveField ==
    {"cleanPeriod", "taskQueueSize", "workerNumCapacity", "statsSamplePeriod",
     "statsWindowSize", "scalerPeriod", "zeroConsumeScaleInterval",
     "maxZeroConsumeScaleStep"}

\* The defaults that NewConfig starts from pass the tests of the options.
ASSUME ConfigAssumption ==
    /\ PositiveField \cup {"backlogDecayFactor"} \subseteq DOMAIN DefaultConfig
    /\ \A f \in PositiveField : DefaultConfig[f] > 0
    /\ DefaultConfig.backlogDecayFactor \in 0 .. 100

\* Mutant: zero passes for a positive value.
TakesZero(o) ==
    /\ o.field \in PositiveField => o.value >= 0
    /\ o.field = "backlogDecayFactor" => o.value \in 0 .. 100

\* The test in the function that a With* option returns.
Takes(o) ==
    /\ o.field \in PositiveField => o.value > 0
    /\ o.field = "backlogDecayFactor" => o.value \in 0 .. 100

ConfigInit == config = DefaultConfig /\ options = 0 /\ pool = NotBuilt

\* NewConfig applies the next of its options.
ApplyOption(o) ==
    /\ ~pool.built
    /\ options < MaxOptions
    /\ options' = options + 1
    /\ config' = IF Takes(o) THEN [config EXCEPT ![o.field] = o.value] ELSE config
    /\ UNCHANGED pool

-----------------------------------------------------------------------------
\* The shards asked for, or chosen by the size of the queue.
WantedShards(c) ==
    CASE c.taskQueueShards > 0 -> c.taskQueueShards
      [] c.taskQueueShards <= 0 /\ c.taskQueueSize < minShardableQueueSize -> 1
      [] OTHER -> IF GOMAXPROCS > maxAutoShards THEN maxAutoShards ELSE GOMAXPROCS

\* Mutant: the shard count may exceed the configured size.
resolveUnclamped(c) ==
    LET up[s \in Nat] == IF s < WantedShards(c) THEN up[2 * s] ELSE s
    IN  up[1]

\* Doubled until it suffices, then halved until every shard has a slot.
resolveTaskQueueShards(c) ==
    LET up[s \in Nat]   == IF s < WantedShards(c) THEN up[2 * s] ELSE s
        down[s \in Nat] == IF s > c.taskQueueSize /\ s > 1 THEN down[s \div 2] ELSE s
    IN  down[up[1]]

perShardCap(c, shards) ==
    LET slots == (c.taskQueueSize + shards - 1) \div shards
    IN  IF slots < 1 THEN 1 ELSE slots

\* Container types NewPool does not know stand for the default.
idleWorksOf(type) ==
    IF type \in {"MinHeap", "Slice", "RingQueue", "Treap"} THEN type ELSE "LinkedList"

NewPool ==
    /\ ~pool.built
    /\ LET shards == resolveTaskQueueShards(config)
       IN  pool' = [built       |-> TRUE,
                    capacity    |-> config.workerNumCapacity,
                    shards      |-> shards,
                    shardCap    |-> perShardCap(config, shards),
                    shardMask   |-> shards - 1,
                    muIdle      |-> IF config.lockType = "SpinLock" THEN "spin" ELSE "mutex",
                    idleWorks   |-> idleWorksOf(config.idleContainerType),
                    window      |-> config.statsWindowSize]
    /\ UNCHANGED <<config, options>>

\* The program builds another Config.
StartOver == pool.built /\ config' = DefaultConfig /\ options' = 0 /\ pool' = NotBuilt

ConfigNext == (\E o \in Option : ApplyOption(o)) \/ NewPool \/ StartOver

ConfigSpec == ConfigInit /\ [][ConfigNext]_configVars

-----------------------------------------------------------------------------
\* Whatever options are passed, in whatever order and with whatever values,
\* the configuration a pool is built from lies in the ranges that the scaler,
\* the sampler and the tickers take for granted: no zero period to divide by
\* or to panic NewTicker, no empty window, a decay factor in [0, 1].
OptionsStayInRange ==
    /\ \A f \in PositiveField : config[f] > 0
    /\ config.backlogDecayFactor \in 0 .. 100

\* "Each shard gets at least one slot and the total capacity stays >= the
\* configured value" (pool.go:167): the shards are a power of two that the
\* cursor can mask, no more of them than slots, none of them empty, and they
\* hold together what was asked for and less than one slot each beyond it.
ShardsFit ==
    pool.built =>
        /\ \E k \in 0 .. 10 : pool.shards = 2 ^ k
        /\ pool.shards <= config.taskQueueSize
        /\ pool.shardCap >= 1
        /\ pool.shards * pool.shardCap >= config.taskQueueSize
        /\ pool.shards * pool.shardCap < config.taskQueueSize + pool.shards
        /\ pool.shardMask = pool.shards - 1
=============================================================================
