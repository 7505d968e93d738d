CONSTANTS
    Registry <- MCRegistry
    Requested <- MCRequested

SPECIFICATION Spec

INVARIANT
    OnlySoundCalls

CHECK_DEADLOCK FALSE
