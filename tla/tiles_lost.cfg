CONSTANTS
    Frames <- MCFrames
    ModelWidth = 4
    PoolSize = 2
    Calls = 2

SPECIFICATION Spec

INVARIANTS
    TrueMeansEveryTile

CHECK_DEADLOCK FALSE
