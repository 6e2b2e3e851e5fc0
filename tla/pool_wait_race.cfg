SPECIFICATION Spec
CONSTANTS
    Task = {t1, t2}
    Waiter = {w1}
    Closer = {c1}
    Disciplined = FALSE
INVARIANTS
    NeverPanics
CHECK_DEADLOCK FALSE
