CONSTANTS
    Mode = "targets"
    Crops = FALSE
    KnownClasses <- MCKnownClasses
    Targets <- MCTargets
    Frames <- MCFrames
    MaxFrames = 2
    SourceFrames = 3
    Attempts = 1

SPECIFICATION RunSpec

INVARIANT FrameLimitFailsClosed

CHECK_DEADLOCK FALSE
