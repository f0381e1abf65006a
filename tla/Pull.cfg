CONSTANTS
    Forced = FALSE
    Progress = TRUE
    MaxChanges = 2
SPECIFICATION Spec
CHECK_DEADLOCK FALSE
INVARIANTS
    TypeOK
    DoneIsDrained
PROPERTIES
    StreamEnds
    StreamedPullEnds
