SPECIFICATION FairPathSpec
CONSTANTS
    Blocks = 2
    Units = 5
    ChunkSize = 2
    MaxChunks = 2
    Chunks = 2
    MaxDrain = 2
    MaxFlush = 1
    MaxSettings = 1
INVARIANTS
    DeliveredInOrder
    WholeFile
    StreamInOrder
    NothingAfterDelete
    SentWhenReady
    LeavesWav
PROPERTIES
    PathCloses
CHECK_DEADLOCK FALSE
