CONSTANTS
    Frames <- MCFrames
    ModelWidth = 4
    PoolSize = 2
    Calls = 2

SPECIFICATION FairSpec

INVARIANTS
    TypeOK
    TilesInOrder
    EveryPixelInferred
    NobodySleepsInVain

PROPERTIES
    CallReturns

CHECK_DEADLOCK FALSE
