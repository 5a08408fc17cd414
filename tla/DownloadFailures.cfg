CONSTANTS
    FileSize = 7
    ChunkSize = 2
    WindowChunks = 5
    NumPeers = 2
    Steady = {}
    Threads = {t1, t2, t3}
    Nobody = Nobody
SPECIFICATION Spec
INVARIANTS
    TypeOK ChunkOwnership PrefixCounted NothingForgotten ServedOnce FileIntact
PROPERTIES
    KeepsPromise
SYMMETRY ThreadSymmetry
CHECK_DEADLOCK FALSE
