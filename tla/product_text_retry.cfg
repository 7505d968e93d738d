CONSTANTS
    Mode = "targets"
    Crops = FALSE
    KnownClasses <- MCKnownClasses
    Targets <- MCTargets
    Frames <- MCFrames
    MaxFrames = 2
    SourceFrames = 3
    Attempts = 2

SPECIFICATION RunSpec

INVARIANT RetryableCanBeRetried

CHECK_DEADLOCK FALSE
