CONSTANTS
    FileSize = 3
    ChunkSize = 1
    WindowChunks = 4
    NumPeers = 2
    Steady = {1}
    Threads = {t1, t2}
    Nobody = Nobody
SPECIFICATION FairSpec
PROPERTIES
    RefusedChunkRestarts
CHECK_DEADLOCK FALSE
