SPECIFICATION Spec
CONSTANTS
    Capacity = 4
    BacklogDecayPercent = 30
    ScalerPeriod = 1
    StatsSamplePeriod = 10
    MaxZeroConsumeScaleStep = 2
    StatsWindowSize = 3
    MaxCount = 5
    BufferStep = 5
    Rates <- MCRates
    DefaultConfig <- MCDefaultConfig
    Option <- MCOption
    MaxOptions = 2
    GOMAXPROCS = 6
    minShardableQueueSize = 6
    maxAutoShards = 4
INVARIANTS
    
    ShardsFit
    MediansOfTheWindow
    SpawnBounded
    ColdBacklogServed
    StuckPoolRampsUp
PROPERTIES
    PressureNeverShrinks
