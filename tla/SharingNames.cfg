CONSTANTS
    Dnodes = {d1, d2}
    Names = {n1, n2}
    Contents = {"one", "two"}
    Length <- MCLength
    ChunkSize = 1
    Window = 2
    Nil = Nil
    MaxRequests = 3
    MaxFaults = 0
SPECIFICATION Spec
INVARIANTS
    PeersHaveTheName
CHECK_DEADLOCK FALSE
