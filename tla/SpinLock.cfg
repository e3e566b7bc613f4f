SPECIFICATION FairSpec
CONSTANTS
    CPU = {c1, c2}
    Lock = {1, 2}
    IntrLock = {2}
    NoCpu = NoCpu
    NoLock = NoLock
INVARIANTS
    NoPanic
    HoldingIsExact
    InterruptsRestored
PROPERTIES
    ImplementsMutex
    SpinnersProgress
