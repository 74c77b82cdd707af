SPECIFICATION FairCloudSpec
CONSTANTS
    MaxAds = 2
    Braced <- MCBraced
    Documents <- MCDocuments
    Walked <- MCWalked
    Missing = {"gone"}
    Nows <- MCNows
    MaxStarts = 3
    LateExit = FALSE
    SlowTimer = FALSE
INVARIANTS
    TracksAsWritten
    OverrideAlive
    StoppedIsSilent
PROPERTIES
    BackgroundPlayed
    AdPlayed
CHECK_DEADLOCK FALSE
