SPECIFICATION Spec
CONSTANTS
    Files = {"a", "b", "c"}
    Playlist <- TwoPlaylists
    MaxUpdates = 2
    MaxDeletes = 0
    MaxRestarts = 0
    LateExit = FALSE
    LazyIdle = FALSE
    LateTimer = FALSE
PROPERTY CleanupSparesPlaylist
CHECK_DEADLOCK FALSE
