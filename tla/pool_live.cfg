SPECIFICATION TwoSubmittersSpec
CONSTANTS
    Task = {1, 2, 3}
    CtxTask = {}
    DeadlineTask = {3}
    Worker = {1}
    MaxIdle = 0
    Closer = {c1}
    NoTask = NoTask
    WorkMode = "BLOCK"
    NumShards = 1
    ShardCap = 1
    MaxChunkLen = 1
    BatchSize = 1
    Medians = {0}
    Capacity = 1
    BacklogDecayPercent = 30
    ScalerPeriod = 1
    StatsSamplePeriod = 1
    MaxZeroConsumeScaleStep = 2
PROPERTIES
    EverySubmissionSettles
    CloseWindsDown
