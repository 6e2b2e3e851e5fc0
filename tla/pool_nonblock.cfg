SPECIFICATION Spec
CONSTANTS
    Task = {t1, t2, t3}
    CtxTask = {}
    DeadlineTask = {}
    Worker = {1, 2}
    MaxIdle = 0
    Closer = {}
    NoTask = NoTask
    WorkMode = "NONBLOCK"
    NumShards = 2
    ShardCap = 1
    MaxChunkLen = 1
    BatchSize = 1
    Medians = {0, 6}
    Capacity = 1
    BacklogDecayPercent = 30
    ScalerPeriod = 1
    StatsSamplePeriod = 1
    MaxZeroConsumeScaleStep = 2
SYMMETRY PlainTaskSymmetry
INVARIANTS
    PendingExact
    HookContract
