SPECIFICATION UserPreemptionSpec
CONSTANTS
    NPROC = 3
    CPU = {c1, c2}
    MaxPid = 3
    KillPid = {}
    FaultPid = {}
    NoCpu = NoCpu
    NoProc = NoProc
PROPERTIES
    RunnableRuns
    ZombieReaped
