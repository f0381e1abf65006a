CONSTANTS
    Pod = {p1, f1}
    ForeignPod = {f1}
    Ctr = {k1}
    Name = {n1}
    Client = {a, b}
    Commands = {"create", "rm"}
    MaxFaults = 1
    NoPod = NoPod
    NoCtr = NoCtr
    NoName = NoName
    Empty = Empty
SPECIFICATION FairSpec

PROPERTY UnusedPodCollected
