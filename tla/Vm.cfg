SPECIFICATION Spec
CONSTANTS
    Proc = {p0, p1, p2}
    Init1 = p0
    NPAGE = 22
    MaxSize = 4
    MaxSegs = 2
    MaxArgs = 2
    USERSTACK = 1
SYMMETRY Symmetry
INVARIANTS
    PagesConserved
    VmInv
