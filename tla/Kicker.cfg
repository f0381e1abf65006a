CONSTANTS
    Waiter = {w1, w2}
    Handler = {h1, h2}
    Watcher = watcher
    NoOne = NoOne
    Initial = FALSE
SPECIFICATION FairSpec
INVARIANTS
    TypeOK
    NoLostWakeup
PROPERTY ImplementsLatch
