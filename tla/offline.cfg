SPECIFICATION FairSpec
CONSTANTS
    Total = 4
    Streams = {0, 2}
    MaxStreams = 2
    Buttons = {"next", "prev", "random"}
    MaxMediafiles = 10
    Shutdown = TRUE
INVARIANTS
    NextFollowsCurrent
PROPERTIES
    AliveMeansAlive
    EveryFilePlayed
    ErrorForcesProbe
    DeinitEnds
CHECK_DEADLOCK FALSE
