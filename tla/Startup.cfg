CONSTANTS
    Calls = {"CreatePod", "CreateContainer", "PushImage", "Events"}
SPECIFICATION FairSpec
INVARIANTS
    TypeOK
    NoNilClient
PROPERTIES
    StartsUp
    SignalEnds
CHECK_DEADLOCK FALSE
