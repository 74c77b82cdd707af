SPECIFICATION Spec
CONSTANTS
    Files = {"a", "b"}
    Playlist <- ShortPlaylists
    MaxUpdates = 2
    MaxDeletes = 1
    MaxRestarts = 1
    LateExit = FALSE
    LazyIdle = TRUE
    LateTimer = TRUE
INVARIANTS
    StoppedMeansDead
    SchedulerHasPlaylist
CHECK_DEADLOCK FALSE
