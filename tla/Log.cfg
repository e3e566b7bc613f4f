SPECIFICATION FairSpec
CONSTANTS
    Proc = {p1, p2, p3}
    Block = {b1, b2, b3}
    Val = {0, 1}
    MAXOPBLOCKS = 2
    LOGSIZE = 4
    NLog = 4
    OpBlocks = 1
    Absent = Absent
INVARIANTS
    LogInv
    NoPanic
PROPERTIES
    ImplementsAtomicDisk
    SleeperWakes
