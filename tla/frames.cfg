CONSTANTS
    MaxFrames = 2
    SourceFrames = 5
    Attempts = 2

SPECIFICATION FairSpec

INVARIANTS
    TypeOK
    BundleWhole
    ResultNamesItsBundle
    FailureKeepsEarlierProduct
    OkLosesOnlyTheQueue

PROPERTY EveryAttemptEnds

CHECK_DEADLOCK FALSE
