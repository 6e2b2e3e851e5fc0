SPECIFICATION MCSpec
CONSTANTS
    Worker = {w1, w2, w3, w4}
    Time = {1, 2, 3}
    Node = {n1, n2, n3, n4}
    Priority = {0, 1, 2}
    Nil = Nil
    RingCapacity = 2
    Struct = {w1, w2, w3, w4}
    NoStruct = Nil
    Goroutine = {g1, g2, g3}
    WorkerNumCapacity = 2
    FastSpin = 1
    MaxRounds = 1
SYMMETRY IdleSymmetry
INVARIANTS
    PooledNodesAreClean
    TreapKeepsPriorities
    OneInside
    OneOwner
PROPERTIES
    ImplementsContainer
