CONSTANTS
    Clients = {c1, r1}
    Refused = {r1}
    Leavers = {}
    Nobody = Nobody
    MaxFd = 6
    MaxThreads = 2
    MaxMisreads = 1
SPECIFICATION Spec
INVARIANTS
    EntireChunkSent
CHECK_DEADLOCK FALSE
