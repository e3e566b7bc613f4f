SPECIFICATION Spec
CONSTANTS
    Proc = {p1, p2}
    Init1 = init
    Inum = {1, 2, 3}
    NINODE = 3
    None = None
    Calls <- TreeCalls
SYMMETRY Symmetry
INVARIANTS
    CountsExact
    InUseIsAllocated
    NoDeadlock
PROPERTIES
    ImplementsNameSpace
