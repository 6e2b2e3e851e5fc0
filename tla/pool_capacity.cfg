SPECIFICATION Spec
CONSTANTS
    Task = {t1, t2}
    CtxTask = {}
    DeadlineTask = {}
    Worker = {1, 2}
    MaxIdle = 0
    Closer = {c1}
    NoTask = NoTask
    WorkMode = "BLOCK"
    NumShards = 1
    ShardCap = 1
    MaxChunkLen = 1
    BatchSize = 1
    Medians = {0, 6}
    Capacity = 1
    BacklogDecayPercent = 30
    ScalerPeriod = 1
    StatsSamplePeriod = 1
    MaxZeroConsumeScaleStep = 2
SYMMETRY PlainTaskSymmetry
INVARIANTS
    RunningWithinCapacity
