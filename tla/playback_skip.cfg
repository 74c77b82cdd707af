SPECIFICATION FairPlaybackSpec
CONSTANTS
    Starter = scheduler
    Web = web
    Stoppers = {web}
    Bufs = {b1, b2}
    NULL = null
    StreamRetries = 1
    MaxBlocks = 1
PROPERTIES
    PressForcesSkip
