CONSTANTS
    WordSize = 2
    ChunkSize = 4
    MaxInt = 7
    Files <- MCFiles
    Garbage = {0, 85}
    MaxErrors = 2
SPECIFICATION FairSpec
INVARIANTS
    TypeOK CopyIsFile IndexIsOfCopy HashNeverZero
PROPERTIES
    UploadEnds
CHECK_DEADLOCK FALSE
