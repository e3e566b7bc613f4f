SPECIFICATION Spec
CONSTANTS
    Proc = {p1, p2}
    Buf = {b1, b2}
    Block = {k1, k2, k3}
    Val = {0, 1}
    NUM = 6
    IdxMax1 = 3
    None = None
SYMMETRY Symmetry
INVARIANTS
    CacheInv
PROPERTIES
    ImplementsBlockStore
