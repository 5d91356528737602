CONSTANTS
    Kind <- MCKind
    MaxFaults = 2
    MaxPosts = 1
SPECIFICATION Spec
INVARIANTS
    AvailableCanSend
    CanRecover
PROPERTIES
    EndedIsFinal
CHECK_DEADLOCK FALSE
