SPECIFICATION FairSpec
CONSTANTS
    Settings = {1}
    Deletes = {2}
    Reboots = {3}
    Updates = {4, 5}
    Playlists = {6}
    QueueLength = 2
    Retries = 1
    MaxMessages = 7
    MaxRestarts = 2
INVARIANTS
    AckedWasExecuted
    FirmwareSeqKept
PROPERTIES
    OrderPreserved
    RebootObeyed
    GateComesBack
CHECK_DEADLOCK FALSE
