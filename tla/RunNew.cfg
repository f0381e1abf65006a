CONSTANTS
    Pod = {p1, p2}
    ForeignPod = {}
    Ctr = {k1}
    Name = {n1}
    Client = {a, b}
    Commands = {"create", "run -d"}
    MaxFaults = 1
    NoPod = NoPod
    NoCtr = NoCtr
    NoName = NoName
    Empty = Empty
SPECIFICATION Spec

INVARIANT RunsNewContainer
