SPECIFICATION FairSpec
CONSTANTS
    Files = {"a", "b", "c"}
    Playlist <- TwoPlaylists
    MaxUpdates = 2
    MaxDeletes = 1
    MaxRestarts = 1
    LateExit = FALSE
    LazyIdle = FALSE
    LateTimer = FALSE
INVARIANTS
    AckMeansComplete
    CleanupExcluded
PROPERTY CommandEnds
CHECK_DEADLOCK FALSE
