CONSTANTS
    Clients = {c1, c2, r1}
    Refused = {r1}
    Leavers = {c2}
    Nobody = Nobody
    MaxFd = 5
    MaxThreads = 3
    MaxMisreads = 1
SPECIFICATION FairSpec
INVARIANTS
    TypeOK AnsweredOnce StrayNeedsRefusal NothingLeaks
PROPERTIES
    EveryoneAnswered
CHECK_DEADLOCK FALSE
