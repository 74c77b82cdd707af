SPECIFICATION Spec
CONSTANTS
    Chunks = 3
    BufferSize = 2
    MaxAttempts = 2
INVARIANT InstalledFileIsWhole
CHECK_DEADLOCK FALSE
