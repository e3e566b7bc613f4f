SPECIFICATION Spec
CONSTANTS
    NPROC = 3
    CPU = {c1, c2}
    MaxPid = 3
    KillPid = {2}
    FaultPid = {2}
    NoCpu = NoCpu
    NoProc = NoProc
SYMMETRY Symmetry
INVARIANTS
    ProcInv
    NoPanic
    NoLostWakeup
    KilledWasAsked
PROPERTIES
    ImplementsLifeCycle
