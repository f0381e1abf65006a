CONSTANTS
    MaxItems = 3
    Window = 1
SPECIFICATION Spec
CHECK_DEADLOCK FALSE
INVARIANTS TypeOK InOrder LogsComplete
PROPERTIES LogHandlerReturns FollowEnds
