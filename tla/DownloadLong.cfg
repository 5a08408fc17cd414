CONSTANTS
    FileSize = 7
    ChunkSize = 2
    WindowChunks = 3
    NumPeers = 1
    Steady = {0}
    Threads = {t1, t2}
    Nobody = Nobody
SPECIFICATION Spec
INVARIANTS
    WholeFileWritten
CHECK_DEADLOCK FALSE
