SPECIFICATION PlaybackSpec
CONSTANTS
    Starter = scheduler
    Web = web
    Stoppers = {web}
    Bufs = {b1, b2}
    NULL = null
    StreamRetries = 2
    MaxBlocks = 1
PROPERTIES
    StopHitsItsTrack
