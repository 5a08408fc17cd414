CONSTANTS
    Dnodes = {d1, d2}
    Names = {n1}
    Hashes = {h1}
    Nil = Nil
    MaxNow = 1
    MaxBacklog = 2
    MaxPosts = 1
    MaxFaults = 1
    MaxStarts = 2
SPECIFICATION FairSpec
PROPERTIES
    StartupEnds
CHECK_DEADLOCK FALSE
