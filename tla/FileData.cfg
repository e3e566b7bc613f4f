SPECIFICATION Spec
CONSTANTS
    Proc = {p1, p2}
    Inum = {i1, i2}
    File = {1, 2}
    FD = {0, 1}
    None = None
    NBLOCK = 3
    BPB = 1
    NDIRECT = 1
    NINDIRECT = 1
    BSIZE = 2
    MAXOPBLOCKS = 6
    UintMax1 = 14
    WriteLens = {3}
    ReadLens = {13}
SYMMETRY Symmetry
INVARIANTS
    FileMapExact
    FileRefExact
    ChunkFits
PROPERTIES
    ChunksFollow
