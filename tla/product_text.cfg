CONSTANTS
    Mode = "targets"
    Crops = FALSE
    KnownClasses <- MCKnownClasses
    Targets <- MCTargets
    Frames <- MCFrames
    MaxFrames = 2
    SourceFrames = 3
    Attempts = 2

SPECIFICATION FairRunSpec

INVARIANTS
    OkMeansEveryFrame
    NoResultLeavesNothing

PROPERTIES
    DeliveryImplemented
    FinalsWriteOnce
    EveryAttemptEnds

CHECK_DEADLOCK FALSE
