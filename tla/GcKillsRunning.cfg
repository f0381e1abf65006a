CONSTANTS
    Pod = {p1}
    ForeignPod = {}
    Ctr = {k1}
    Name = {n1}
    Client = {a}
    Commands = {"run -d"}
    MaxFaults = 0
    NoPod = NoPod
    NoCtr = NoCtr
    NoName = NoName
    Empty = Empty
SPECIFICATION Spec

PROPERTY GcSparesRunning
