CONSTANTS
    MaxFrames = 2
    SourceFrames = 4
    Attempts = 2

SPECIFICATION FairSpec

INVARIANTS
    TypeOK
    VideoHasMetadata
    EveryExitSettles
    RetryableCanBeRetried
    OkMeansEveryFrame

PROPERTIES
    DeliveryImplemented
    EveryAttemptEnds

CHECK_DEADLOCK FALSE
