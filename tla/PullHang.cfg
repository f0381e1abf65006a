CONSTANTS
    Forced = TRUE
    Progress = TRUE
    MaxChanges = 0
SPECIFICATION Spec
CHECK_DEADLOCK FALSE
PROPERTY PullEnds
