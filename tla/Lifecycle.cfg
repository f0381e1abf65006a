CONSTANTS
    Pod = {p1, p2}
    ForeignPod = {}
    Ctr = {k1, k2}
    Name = {n1}
    Client = {a, b}
    Commands = {"create", "run", "run -d", "start", "stop", "rm", "rm -f", "ps"}
    MaxFaults = 2
    NoPod = NoPod
    NoCtr = NoCtr
    NoName = NoName
    Empty = Empty
SPECIFICATION Spec
SYMMETRY Symmetry
INVARIANTS
    TypeOK
    RunningIsVisible
    GcSparesListed
    NotFoundIsGone
    RemovedIsGone
