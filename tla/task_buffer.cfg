SPECIFICATION Spec
CONSTANTS
    Task = {t1, t2}
    Chunk = {c1, c2, c3, c4}
    Nil = Nil
    ChunkSize = 2
    MaxChunkLen = 5
    BatchSize = 3
INVARIANTS
    BufferTypeOK
    RecycledChunksAreClean
PROPERTIES
    ImplementsFifo
