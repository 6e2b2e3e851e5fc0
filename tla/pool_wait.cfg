SPECIFICATION MCSpec
CONSTANTS
    Task = {t1, t2, t3}
    Waiter = {w1, w2}
    Closer = {c1, c2}
    Disciplined = TRUE
    Pool = {p1, p2, p3}
    Getter = {g1}
    NoPool = NoPool
INVARIANTS
    WaitDrains
    NeverPanics
    PoolClosedOnce
    DefaultPoolIsCurrent
PROPERTIES
    EveryWaitReturns
CHECK_DEADLOCK FALSE
