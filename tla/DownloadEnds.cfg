CONSTANTS
    FileSize = 7
    ChunkSize = 2
    WindowChunks = 3
    NumPeers = 3
    Steady = {}
    Threads = {t1, t2}
    Nobody = Nobody
SPECIFICATION FairSpec
INVARIANTS
    OneSourceSuffices
PROPERTIES
    DownloadEnds
CHECK_DEADLOCK FALSE
