SPECIFICATION Spec
CONSTANTS
    Task = {t1, t2, t3}
    CtxTask = {t3}
    DeadlineTask = {}
    Worker = {1, 2}
    MaxIdle = 1
    Closer = {}
    NoTask = NoTask
    WorkMode = "BLOCK"
    NumShards = 1
    ShardCap = 1
    MaxChunkLen = 2
    BatchSize = 2
    Medians = {0, 6}
    Capacity = 2
    BacklogDecayPercent = 30
    ScalerPeriod = 1
    StatsSamplePeriod = 1
    MaxZeroConsumeScaleStep = 2
SYMMETRY PlainTaskSymmetry
INVARIANTS
    ExactlyOnePlace
    RunningExact
    OvershootAtMostOne
