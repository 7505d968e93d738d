CONSTANTS
    Mode = "tracks"
    Crops = TRUE
    KnownClasses <- MCKnownClasses
    Targets <- MCTargets
    Frames <- MCFrames

SPECIFICATION Spec

INVARIANTS
    TypeOK
    PublishedPairComplete
    FailedNeverPublishes
    PublishedRecordsSound
    CropsMatchRecords
    NothingHalfDone

CHECK_DEADLOCK FALSE
