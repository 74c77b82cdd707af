SPECIFICATION FairSpec
CONSTANTS
    Starter = scheduler
    Stoppers = {web}
    Bufs = {b1, b2}
    NULL = null
    StreamRetries = 0
    MaxBlocks = 1
INVARIANTS
    ResultIsOwn
    NamesAccounted
    StreamSuccessMeansStopped
    StopTrueMeansEnded
    NowPlayingReported
PROPERTIES
    ImplementsService
    FilePlayEnds
    BlockedStopReturns
    StopReturns
