CONSTANTS
    Dnodes = {d1, d2, d3}
    Names = {n1, n2}
    Contents = {"three", "four"}
    Length <- MCLength
    ChunkSize = 2
    Window = 4
    Nil = Nil
    MaxRequests = 3
    MaxFaults = 2
SPECIFICATION Spec
INVARIANTS
    TypeOK PiecesKeepTheirPlace 
SYMMETRY SharingSymmetry
CHECK_DEADLOCK FALSE
