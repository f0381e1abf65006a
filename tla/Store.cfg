CONSTANTS
    Clients = {c1, c2}
    Monitor = monitor
    Tags = {t1, t2}
    BadTag = badTag
    Images = {a, b}
    NoImage = none
    PulledTag = t1
    PulledImage = a
    Names = {v}
    BadName = badName
    MaxCalls = 2
    MaxMounts = 2
    MaxRestarts = 1
    MaxSkipped = 1
SPECIFICATION Spec
CHECK_DEADLOCK FALSE
INVARIANTS
    TypeOK
    IndexIsCurrent
    TaggedTogether
    RemovedWhole
    VolumesKept
PROPERTIES
    IndexCatchesUp
