SPECIFICATION DiskSpec
CONSTANTS
    Proc = {p1, p2, p3}
    Buf = {b1, b2, b3}
    Block = {k1}
    Val = {0}
    NUM = 8
    IdxMax1 = 4
    None = None
INVARIANTS
    DriverInv
PROPERTIES
    RequestReturns
