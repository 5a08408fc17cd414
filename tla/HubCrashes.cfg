CONSTANTS
    Dnodes = {d1, d2}
    Names = {n1}
    Hashes = {h1}
    Nil = Nil
    MaxNow = 2
    MaxBacklog = 2
    MaxPosts = 2
    MaxFaults = 2
    MaxStarts = 2
SPECIFICATION Spec
INVARIANTS
    TypeOK  NamesAnswerable
PROPERTIES
    UidKept
SYMMETRY RegistrySymmetry
CHECK_DEADLOCK FALSE
