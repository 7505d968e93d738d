CONSTANTS
    MaxFrames = 2
    SourceFrames = 5
    Attempts = 1

SPECIFICATION Spec

INVARIANT ConsumerSeesEveryFrame

CHECK_DEADLOCK FALSE
