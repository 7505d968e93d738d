CONSTANTS
    Profiles <- MCProfiles
    Inputs <- MCInputs
    Directories <- MCDirectories
    OriginalWidth = 8
    SampleLines = 2
    Scenes <- MCScenes
    ModelWidth = 4
    ScoreThreshold = 25
    NmsThreshold = 45
    MaxTargets = 3

SPECIFICATION Spec

INVARIANTS
    EveryLineShown
    FramesFollowTheInput
    ElementsFit
    ObjectsReportedOnce
    BoxesShowTheirSource

CHECK_DEADLOCK FALSE
