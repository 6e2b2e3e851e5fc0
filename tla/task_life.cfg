SPECIFICATION MCSpec
CONSTANTS
    Task = {t1, t2}
    Ctx = {c1}
    NoCtx = NoCtx
    NoValue = NoValue
    RetryNum = 2
    Width = 5
    MaxExponent = 6
    Event = {"Started", "Completed"}
    Registrar = {"r1", "r2", "r3"}
    Dispatcher = {"d1", "d2"}
    Subscribes <- MCSubscribes
SYMMETRY LifeSymmetry
INVARIANTS
    AccountedOnce
    
    BackOffDoublesUpToMax
    OneTraceID
    
    LatenciesAreOrdered
    DispatchRunsItsSnapshot
CHECK_DEADLOCK FALSE
