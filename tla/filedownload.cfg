SPECIFICATION FairSpec
CONSTANTS
    Chunks = 4
    BufferSize = 2
    MaxAttempts = 2
INVARIANTS
    AtMostLastChunkLost
PROPERTIES
    DownloadReturns
CHECK_DEADLOCK FALSE
