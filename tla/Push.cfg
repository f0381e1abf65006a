CONSTANTS
    Push = {a, b}
    NoPush = NoPush
SPECIFICATION Spec
CHECK_DEADLOCK FALSE
INVARIANTS
    TypeOK
    NoStaleJob
PROPERTIES
    ProgressTerminates
    TrackerEnds
