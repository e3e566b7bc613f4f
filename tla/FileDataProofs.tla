-------------------------- MODULE FileDataProofs ---------------------------
(***************************************************************************)
(* Proofs about FileTable and FileData, for any number of processes,       *)
(* files, descriptors, inodes and blocks, any layout of an inode and any   *)
(* size of a block.                                                        *)
(***************************************************************************)
EXTENDS FileData, FiniteSetTheorems, WellFoundedInduction, TLAPS

PCs     == {"unused", "user", "exit", "bad", "pipe", "pipealloc", "pipefd", "fork", "embryo",
            "chunk", "writei", "writeiend"}
InWrite == {"chunk", "writei", "writeiend"}    \* in filewrite()
InChunk == {"writei", "writeiend"}             \* ... with the inode locked

OFiles  == [Proc -> [FD -> File \cup {None}]]
Helds   == [Proc -> [1 .. 2 -> File \cup {None}]]

\* The descriptors that refer to a file, the calls that hold it, and all of them.
Refs(D, o, f)  == {x \in Proc \X D : o[x[1]][x[2]] = f}
Descs(o, f)    == Refs(FD, o, f)
Holds(h, f)    == Refs(1 .. 2, h, f)
Total(o, h, f) == Cardinality(Descs(o, f)) + Cardinality(Holds(h, f))

FileRec == [ref : Nat, type : {"none", "inode", "pipe"}, ip : Inum \cup {None}, off : Nat]

TableTypes ==
    /\ file \in [File -> FileRec] /\ ofile \in OFiles /\ pc \in [Proc -> PCs]
    /\ held \in Helds /\ fds \in [Proc -> [1 .. 2 -> FD \cup {None}]]
    /\ np \in [Proc -> Proc \cup {None}]

\* The files that pipealloc() has got, and that are nobody else's.
Fresh(p, k) == pc[p] \in {"pipe", "pipealloc"} /\ held[p][k] # None

\* A call that holds a file is one of open() or pipe().
HeldOf(p, k) ==
    /\ held[p][k] # None => pc[p] \in {"pipe", "pipealloc", "pipefd", "bad"}
    /\ Fresh(p, k) => file[held[p][k]].ref = 1
    /\ pc[p] = "pipe" => held[p][2] = None

\* The descriptors that pipe() has set have its files, which it holds no more.
FdOf(p, k) ==
    fds[p][k] # None =>
        /\ pc[p] = "pipefd" /\ held[p][k] = None /\ ofile[p][fds[p][k]] # None
        /\ fds[p][1] # fds[p][2]

\* The child of fork() is its own, and does not run yet.
ForkOf(p) ==
    pc[p] = "fork" => /\ np[p] \in Proc /\ pc[np[p]] = "embryo"
                      /\ \A q \in Proc : pc[q] = "fork" /\ np[q] = np[p] => q = p

CallInv ==
    /\ \A p \in Proc, k \in 1 .. 2 : HeldOf(p, k) /\ FdOf(p, k)
    /\ \A p \in Proc : ForkOf(p)

\* A free file is blank, and the file of an inode has one.
BlankInv ==
    \A f \in File : /\ file[f].ref = 0 => file[f] = NoFile
                    /\ file[f].type = "inode" => file[f].ip \in Inum

TableInv == TableTypes /\ CallInv /\ BlankInv /\ FileRefExact

-----------------------------------------------------------------------------
WriteRec == [f : File \cup {None}, left : Nat, n : Nat, off : Nat, tot : Nat]

End == MAXFILE * BSIZE

\* The inode that p writes.
Ino(p) == file[w[p].f].ip

-----------------------------------------------------------------------------
Words == [Block -> [0 .. NINDIRECT - 1 -> Block \cup {0}]]
Addrs == [Inum -> [0 .. NDIRECT -> Block \cup {0}]]

\* The places of an inode that may refer to a block, and what each refers to.
Place == 0 .. NDIRECT + NINDIRECT
AtOf(a, wd, i, k) ==
    IF k <= NDIRECT THEN a[i][k]
    ELSE IF a[i][NDIRECT] = 0 THEN 0 ELSE wd[a[i][NDIRECT]][k - NDIRECT - 1]
At(i, k) == AtOf(addrs, word, i, k)

\* The place of the block number bn of a file.
PlaceOf(bn) == IF bn < NDIRECT THEN bn ELSE bn + 1

\* The blocks in use are those referred to, each from one place.
MapOK(u, a, wd) ==
    /\ u \subseteq Block /\ a \in Addrs /\ wd \in Words
    /\ \A i \in Inum, k \in Place : AtOf(a, wd, i, k) # 0 => AtOf(a, wd, i, k) \in u
    /\ \A i, j \in Inum, k, l \in Place :
          AtOf(a, wd, i, k) # 0 /\ AtOf(a, wd, i, k) = AtOf(a, wd, j, l) => i = j /\ k = l
    /\ \A b \in u : \E i \in Inum, k \in Place : AtOf(a, wd, i, k) = b

MapInv == MapOK(used, addrs, word)

SizeInv ==
    /\ size \in [Inum -> 0 .. End] /\ panic = FALSE
    /\ \A f \in File : file[f].off <= End

\* There is a block for every byte below the size.
CoverInv ==
    \A i \in Inum, bn \in 0 .. MAXFILE - 1 : bn * BSIZE < size[i] => At(i, PlaceOf(bn)) # 0

-----------------------------------------------------------------------------
\* A write has its descriptor until it returns.
WriteOf(p) ==
    pc[p] \in InWrite =>
        /\ w[p].f \in File /\ file[w[p].f].type = "inode"
        /\ \E fd \in FD : ofile[p][fd] = w[p].f
        /\ w[p].left < UintMax1

\* A chunk has the inode's lock, was placed at the file's offset and ends within
\* the largest file.
ChunkOf(p) ==
    pc[p] \in InChunk =>
        /\ lock[Ino(p)] = p /\ w[p].off = file[w[p].f].off
        /\ w[p].tot <= w[p].n /\ w[p].n <= w[p].left /\ w[p].n <= MaxChunk
        /\ w[p].off + w[p].n <= End /\ w[p].off <= size[Ino(p)]

\* There is a block for every byte that the chunk has written.
CoverOf(p) ==
    pc[p] \in InChunk => \A bn \in 0 .. MAXFILE - 1 :
        bn * BSIZE < NewEnd(p) => At(Ino(p), PlaceOf(bn)) # 0

\* The indirect block of an inode and the block of the bitmap with its bit.
IndirectOf(a, i) == IF a[i][NDIRECT] = 0 THEN {} ELSE {a[i][NDIRECT], BBLOCK(a[i][NDIRECT])}

\* The blocks that a chunk has logged, but for those two.
Logged(p) == logged[p] \ IndirectOf(addrs, Ino(p))

\* Where in its first block a chunk begins; a block that exists logs no bitmap.
Lead(p)  == w[p].off % BSIZE
Saved(p) == IF Lead(p) > 0 THEN 1 ELSE 0

\* After t turns of writei()'s loop.
Turns(p, t) ==
    /\ Cardinality(Logged(p)) <= 2 * t
    /\ t > 0 => Cardinality(Logged(p)) + Saved(p) <= 2 * t
    /\ \/ t = 0 /\ w[p].tot = 0
       \/ t > 0 /\ w[p].tot < w[p].n /\ Lead(p) + w[p].tot = t * BSIZE
       \/ t > 0 /\ w[p].tot = w[p].n /\ (t - 1) * BSIZE < Lead(p) + w[p].n

\* The blocks of data in the largest chunk.
ChunkBlocks == (MAXOPBLOCKS - 1 - 1 - 2) \div 2

AllBlocks == Block \cup {BBLOCK(b) : b \in Block}

LogOf(p) ==
    /\ pc[p] \notin InChunk => logged[p] = {}
    /\ pc[p] \in InChunk => Cardinality(Logged(p)) <= 2 * ChunkBlocks + 1
    /\ pc[p] = "writei" => \E t \in Nat : Turns(p, t)

CallOf(p) == WriteOf(p) /\ ChunkOf(p) /\ CoverOf(p) /\ LogOf(p)

\* Every write is in order, and the inodes that are locked are being written.
WriteInv ==
    /\ w \in [Proc -> WriteRec] /\ lock \in [Inum -> Proc \cup {None}]
    /\ logged \in [Proc -> SUBSET AllBlocks]
    /\ \A i \in Inum, p \in Proc : lock[i] = p => pc[p] \in InChunk /\ Ino(p) = i
    /\ \A p \in Proc : CallOf(p)

DataInv == TableInv /\ SizeInv /\ MapInv /\ CoverInv /\ WriteInv

-----------------------------------------------------------------------------
(***************************************************************************)
(* Arithmetic and least elements.                                          *)
(***************************************************************************)

\* A set of numbers that is not empty has a least element.
LEMMA MinIs ==
    ASSUME NEW S \in SUBSET Nat, S # {}
    PROVE  Min(S) \in S /\ \A x \in S : Min(S) <= x
<1> DEFINE R == OpToRel(<, Nat)
<1>1. IsWellFoundedOn(R, Nat)
  BY NatLessThanWellFounded
<1>2. \A x, y \in Nat : <<x, y>> \in R <=> x < y
  BY DEF OpToRel
<1> HIDE DEF R
<1>3. PICK m \in S : \A y \in S : ~(<<y, m>> \in R)
  BY <1>1, WFMin
<1>4. \A y \in S : m <= y
  <2>1. \A y \in S : m \in Nat /\ y \in Nat /\ ~(y < m)
    BY <1>2, <1>3
  <2> QED BY <2>1
<1> QED BY <1>4 DEF Min

\* ... in particular the smaller of two.
LEMMA MinOfTwo ==
    ASSUME NEW a \in Nat, NEW b \in Nat
    PROVE  Min({a, b}) = IF a <= b THEN a ELSE b
<1>1. {a, b} \in SUBSET Nat /\ {a, b} # {}
  OBVIOUS
<1>2. Min({a, b}) \in {a, b} /\ Min({a, b}) <= a /\ Min({a, b}) <= b
  BY <1>1, MinIs
<1> QED BY <1>2

\* ... and the larger of two.
LEMMA MaxOfTwo ==
    ASSUME NEW a \in Nat, NEW b \in Nat
    PROVE  Max({a, b}) = IF a <= b THEN b ELSE a
<1>1. \E x \in {a, b} : \A y \in {a, b} : x >= y
  OBVIOUS
<1>2. Max({a, b}) \in {a, b} /\ Max({a, b}) >= a /\ Max({a, b}) >= b
  BY <1>1 DEF Max
<1> QED BY <1>2

\* Multiples of a block size keep their order.
LEMMA TimesMono ==
    ASSUME NEW a \in Nat, NEW b \in Nat, NEW m \in Nat, a <= b
    PROVE  a * m <= b * m /\ a * m \in Nat /\ b * m \in Nat
<1>1. b * m = a * m + (b - a) * m /\ (b - a) * m >= 0
  OBVIOUS
<1> QED BY <1>1

\* ... so that they can be compared by their factors.
LEMMA TimesLess ==
    ASSUME NEW a \in Nat, NEW b \in Nat, NEW m \in Nat, a * m < b * m
    PROVE  a < b
<1>1. CASE b <= a
  BY <1>1, TimesMono
<1> QED BY <1>1

\* ... and the next one is a block further.
LEMMA TimesNext ==
    ASSUME NEW a \in Nat, NEW m \in Nat
    PROVE  (a + 1) * m = a * m + m /\ a * m \in Nat
  OBVIOUS

\* A number of blocks after another.
LEMMA TimesPlus ==
    ASSUME NEW a \in Nat, NEW b \in Nat, NEW m \in Nat
    PROVE  (a + b) * m = a * m + b * m /\ a * m \in Nat /\ b * m \in Nat
  OBVIOUS

\* The block and the place in it of a byte.
LEMMA DivMod ==
    ASSUME NEW x \in Nat, NEW m \in Nat \ {0}
    PROVE  /\ x \div m \in Nat /\ x % m \in Nat /\ x % m < m
           /\ x = (x \div m) * m + (x % m)
  OBVIOUS

\* ... and the byte determines them.
LEMMA DivModIs ==
    ASSUME NEW a \in Nat, NEW r \in Nat, NEW m \in Nat \ {0}, r < m
    PROVE  (a * m + r) \div m = a /\ (a * m + r) % m = r
<1> DEFINE x == a * m + r
           d == x \div m
           e == x % m
<1>1. x \in Nat /\ d \in Nat /\ e \in Nat /\ e < m /\ x = d * m + e
  BY DivMod
<1> HIDE DEF x, d, e
<1>2. d * m + e = a * m + r
  BY <1>1 DEF x
<1>3. ASSUME a + 1 <= d PROVE FALSE
  <2>1. (a + 1) * m <= d * m /\ (a + 1) * m = a * m + m
    BY <1>1, <1>3, TimesMono, TimesNext
  <2> QED BY <1>1, <1>2, <2>1, TimesNext
<1>4. ASSUME d + 1 <= a PROVE FALSE
  <2>1. (d + 1) * m <= a * m /\ (d + 1) * m = d * m + m
    BY <1>1, <1>4, TimesMono, TimesNext
  <2> QED BY <1>1, <1>2, <2>1, TimesNext
<1>5. a = d
  BY <1>1, <1>3, <1>4
<1>6. e = r
  BY <1>1, <1>2, <1>5, TimesNext
<1> QED BY <1>5, <1>6 DEF x, d, e

-----------------------------------------------------------------------------
(***************************************************************************)
(* Counting the descriptors of a file, and the calls that hold it.         *)
(***************************************************************************)

\* There are finitely many places that refer to a file.
LEMMA RefsFinite ==
    ASSUME NEW D, IsFiniteSet(D), NEW o, NEW f
    PROVE  IsFiniteSet(Refs(D, o, f)) /\ Cardinality(Refs(D, o, f)) \in Nat
<1>1. IsFiniteSet(Proc \X D)
  BY FilesAssumption, FS_Product
<1>2. Refs(D, o, f) \subseteq Proc \X D
  BY DEF Refs
<1> QED BY <1>1, <1>2, FS_Subset, FS_CardinalityType

\* A place that refers to it counts, ...
LEMMA RefsOne ==
    ASSUME NEW D, IsFiniteSet(D), NEW o, NEW f, NEW p \in Proc, NEW d \in D, o[p][d] = f
    PROVE  Cardinality(Refs(D, o, f)) >= 1
<1>1. IsFiniteSet(Refs(D, o, f)) /\ Cardinality(Refs(D, o, f)) \in Nat
  BY RefsFinite
<1>2. Refs(D, o, f) # {}
  <2>1. <<p, d>> \in Refs(D, o, f)
    BY DEF Refs
  <2> QED BY <2>1
<1>3. Cardinality(Refs(D, o, f)) # 0
  BY <1>1, <1>2, FS_EmptySet
<1> QED BY <1>1, <1>3

\* ... and two of them count for two.
LEMMA RefsTwo ==
    ASSUME NEW D, IsFiniteSet(D), NEW o, NEW f, NEW p \in Proc, NEW d \in D, o[p][d] = f,
           NEW q \in Proc, NEW e \in D, <<q, e>> # <<p, d>>, o[q][e] = f
    PROVE  Cardinality(Refs(D, o, f)) >= 2
<1>1. PICK S, x : S = Refs(D, o, f) /\ x = <<p, d>>
  OBVIOUS
<1>2. IsFiniteSet(S) /\ Cardinality(S) \in Nat
  BY <1>1, RefsFinite
<1>3. x \in S
  BY <1>1 DEF Refs
<1>4. IsFiniteSet(S \ {x}) /\ Cardinality(S \ {x}) = Cardinality(S) - 1
  BY <1>2, <1>3, FS_RemoveElement
<1>5. Cardinality(S \ {x}) \in Nat
  BY <1>4, FS_CardinalityType
<1>6. <<q, e>> \in S \ {x}
  BY <1>1 DEF Refs
<1>7. Cardinality(S \ {x}) # 0
  BY <1>6, <1>4, FS_EmptySet
<1> QED BY <1>1, <1>2, <1>4, <1>5, <1>7

\* One place is set: it counts for its file and for no other.
LEMMA RefsGet ==
    ASSUME NEW D, IsFiniteSet(D), NEW o, NEW o2, NEW p \in Proc, NEW d \in D, NEW g \in File,
           o[p][d] = None, o2[p][d] = g,
           \A q \in Proc, e \in D : <<q, e>> # <<p, d>> => o2[q][e] = o[q][e],
           NEW f \in File
    PROVE  Cardinality(Refs(D, o2, f)) =
             IF f = g THEN Cardinality(Refs(D, o, f)) + 1 ELSE Cardinality(Refs(D, o, f))
<1>1. /\ o[p][d] = None /\ o2[p][d] = g /\ f # None
      /\ \A q \in Proc, e \in D : <<q, e>> # <<p, d>> => o2[q][e] = o[q][e]
  BY FilesAssumption
<1>2. IsFiniteSet(Refs(D, o, f)) /\ Cardinality(Refs(D, o, f)) \in Nat
  BY RefsFinite
<1>3. CASE f = g
  <2>1. Refs(D, o2, f) = Refs(D, o, f) \cup {<<p, d>>} /\ <<p, d>> \notin Refs(D, o, f)
    BY <1>1, <1>3 DEF Refs
  <2>2. Cardinality(Refs(D, o, f) \cup {<<p, d>>}) = Cardinality(Refs(D, o, f)) + 1
    BY <1>2, <2>1, FS_AddElement, Zenon
  <2> QED BY <1>3, <2>1, <2>2
<1>4. CASE f # g
  <2>1. Refs(D, o2, f) = Refs(D, o, f)
    BY <1>1, <1>4 DEF Refs
  <2> QED BY <1>4, <2>1
<1> QED BY <1>3, <1>4

\* The sets of places are finite.
LEMMA Places2 == IsFiniteSet(FD) /\ IsFiniteSet(1 .. 2)
<1>1. IsFiniteSet(1 .. 2)
  <2>1. 1 \in Int /\ 2 \in Int
    OBVIOUS
  <2> QED BY <2>1, FS_Interval, Zenon
<1> QED BY <1>1, FilesAssumption

\* All the places together.
LEMMA TotalIs ==
    ASSUME NEW o, NEW h, NEW f
    PROVE  /\ Cardinality(Descs(o, f)) \in Nat /\ Cardinality(Holds(h, f)) \in Nat
           /\ Total(o, h, f) \in Nat
           /\ Total(o, h, f) = Cardinality(Descs(o, f)) + Cardinality(Holds(h, f))
<1>1. Cardinality(Descs(o, f)) \in Nat
  BY Places2, RefsFinite DEF Descs
<1>2. Cardinality(Holds(h, f)) \in Nat
  BY Places2, RefsFinite DEF Holds
<1> QED BY <1>1, <1>2 DEF Total

\* A file that no place refers to.
LEMMA NoTotal ==
    ASSUME NEW o, NEW h, NEW f, \A p \in Proc, d \in FD : o[p][d] # f,
           \A p \in Proc, k \in 1 .. 2 : h[p][k] # f
    PROVE  Total(o, h, f) = 0
<1>1. Descs(o, f) = {} /\ Holds(h, f) = {}
  BY DEF Descs, Holds, Refs
<1> QED BY <1>1, FS_EmptySet DEF Total

\* The count depends on the places alone.
LEMMA SameTotal ==
    ASSUME NEW o, NEW o2, NEW h, NEW h2, NEW f,
           \A p \in Proc, d \in FD : o2[p][d] = o[p][d],
           \A p \in Proc, k \in 1 .. 2 : h2[p][k] = h[p][k]
    PROVE  Total(o2, h2, f) = Total(o, h, f)
<1>1. Descs(o2, f) = Descs(o, f) /\ Holds(h2, f) = Holds(h, f)
  BY DEF Descs, Holds, Refs
<1> QED BY <1>1 DEF Total

\* A descriptor gets a file.
LEMMA DescGets ==
    ASSUME NEW o, NEW o2, NEW h, NEW p \in Proc, NEW d \in FD, NEW g \in File,
           o[p][d] = None, o2[p][d] = g,
           \A q \in Proc, e \in FD : <<q, e>> # <<p, d>> => o2[q][e] = o[q][e],
           NEW f \in File
    PROVE  Total(o2, h, f) = IF f = g THEN Total(o, h, f) + 1 ELSE Total(o, h, f)
<1>0. PICK D : D = FD
  OBVIOUS
<1>1. Cardinality(Refs(D, o2, f)) =
        IF f = g THEN Cardinality(Refs(D, o, f)) + 1 ELSE Cardinality(Refs(D, o, f))
  BY <1>0, Places2, RefsGet
<1> QED BY <1>0, <1>1, TotalIs DEF Descs

\* A call gets a file.
LEMMA HoldGets ==
    ASSUME NEW o, NEW h, NEW h2, NEW p \in Proc, NEW k \in 1 .. 2, NEW g \in File,
           h[p][k] = None, h2[p][k] = g,
           \A q \in Proc, j \in 1 .. 2 : <<q, j>> # <<p, k>> => h2[q][j] = h[q][j],
           NEW f \in File
    PROVE  Total(o, h2, f) = IF f = g THEN Total(o, h, f) + 1 ELSE Total(o, h, f)
<1>1. Cardinality(Refs(1 .. 2, h2, f)) =
        IF f = g THEN Cardinality(Refs(1 .. 2, h, f)) + 1 ELSE Cardinality(Refs(1 .. 2, h, f))
  BY Places2, RefsGet
<1> QED BY <1>1, TotalIs DEF Holds

\* A file goes from a call to a descriptor.
Moved(o, h, o2, h2, p, d, k) ==
    /\ p \in Proc /\ d \in FD /\ k \in 1 .. 2
    /\ o[p][d] = None /\ o2[p][d] \in File /\ h[p][k] = o2[p][d] /\ h2[p][k] = None
    /\ \A q \in Proc, e \in FD : <<q, e>> # <<p, d>> => o2[q][e] = o[q][e]
    /\ \A q \in Proc, j \in 1 .. 2 : <<q, j>> # <<p, k>> => h2[q][j] = h[q][j]

\* ... and counts as before.
LEMMA MoveTotal ==
    ASSUME NEW o, NEW o2, NEW h, NEW h2, NEW p, NEW d, NEW k,
           Moved(o, h, o2, h2, p, d, k), NEW f \in File
    PROVE  Total(o2, h2, f) = Total(o, h, f)
<1>0. PICK g \in File :
      /\ p \in Proc /\ d \in FD /\ k \in 1 .. 2
      /\ o[p][d] = None /\ o2[p][d] = g /\ h[p][k] = g /\ h2[p][k] = None
      /\ \A q \in Proc, e \in FD : <<q, e>> # <<p, d>> => o2[q][e] = o[q][e]
      /\ \A q \in Proc, j \in 1 .. 2 : <<q, j>> # <<p, k>> => h[q][j] = h2[q][j]
  BY DEF Moved
<1>1. Total(o2, h2, f) = IF f = g THEN Total(o, h2, f) + 1 ELSE Total(o, h2, f)
  BY <1>0, DescGets
<1>2. Total(o, h, f) = IF f = g THEN Total(o, h2, f) + 1 ELSE Total(o, h2, f)
  BY <1>0, HoldGets
<1> QED BY <1>1, <1>2

-----------------------------------------------------------------------------
(***************************************************************************)
(* The table of files.                                                     *)
(***************************************************************************)

\* The count of a file, in the terms of the lemmas on counting.
LEMMA RefIs ==
    ASSUME TableInv
    PROVE  \A f \in File : file[f].ref = Total(ofile, held, f)
  BY DEF TableInv, FileRefExact, Total, Descs, Holds, Refs

\* A descriptor keeps its file from being free, and two of them keep it from
\* becoming so when one is closed.
LEMMA Referred ==
    ASSUME TableInv, NEW p \in Proc, NEW fd \in FD, ofile[p][fd] # None
    PROVE  /\ ofile[p][fd] \in File /\ file[ofile[p][fd]].ref >= 1
           /\ \A q \in Proc, e \in FD : <<q, e>> # <<p, fd>> /\ ofile[q][e] = ofile[p][fd] =>
                file[ofile[p][fd]].ref >= 2
<1>1. PICK f : f = ofile[p][fd]
  OBVIOUS
<1>2. f \in File
  BY <1>1 DEF TableInv, TableTypes, OFiles
<1>3. /\ file[f].ref = Cardinality(Descs(ofile, f)) + Cardinality(Holds(held, f))
      /\ Cardinality(Descs(ofile, f)) \in Nat /\ Cardinality(Holds(held, f)) \in Nat
  BY <1>2, RefIs, TotalIs
<1>4. Cardinality(Descs(ofile, f)) >= 1
  BY <1>1, Places2, RefsOne DEF Descs
<1>5. ASSUME NEW q \in Proc, NEW e \in FD, <<q, e>> # <<p, fd>>, ofile[q][e] = f
      PROVE  Cardinality(Descs(ofile, f)) >= 2
  <2>1. Cardinality(Refs(FD, ofile, f)) >= 2
    BY <1>1, <1>5, Places2, RefsTwo
  <2> QED BY <2>1 DEF Descs
<1> QED BY <1>1, <1>2, <1>3, <1>4, <1>5

\* The same of a file that a call holds.
LEMMA HeldFile ==
    ASSUME TableInv, NEW p \in Proc, NEW k \in 1 .. 2, held[p][k] # None
    PROVE  /\ held[p][k] \in File /\ file[held[p][k]].ref >= 1
           /\ \A q \in Proc, j \in 1 .. 2 : <<q, j>> # <<p, k>> /\ held[q][j] = held[p][k] =>
                file[held[p][k]].ref >= 2
           /\ \A q \in Proc, e \in FD : ofile[q][e] = held[p][k] => file[held[p][k]].ref >= 2
<1>1. PICK f : f = held[p][k]
  OBVIOUS
<1>2. f \in File
  BY <1>1 DEF TableInv, TableTypes, Helds
<1>3. /\ file[f].ref = Cardinality(Descs(ofile, f)) + Cardinality(Holds(held, f))
      /\ Cardinality(Descs(ofile, f)) \in Nat /\ Cardinality(Holds(held, f)) \in Nat
  BY <1>2, RefIs, TotalIs
<1>4. Cardinality(Holds(held, f)) >= 1
  BY <1>1, Places2, RefsOne DEF Holds
<1>6. ASSUME NEW q \in Proc, NEW j \in 1 .. 2, <<q, j>> # <<p, k>>, held[q][j] = f
      PROVE  Cardinality(Holds(held, f)) >= 2
  <2>1. Cardinality(Refs(1 .. 2, held, f)) >= 2
    BY <1>1, <1>6, Places2, RefsTwo
  <2> QED BY <2>1 DEF Holds
<1>5. \A q \in Proc, e \in FD : ofile[q][e] = f => Cardinality(Descs(ofile, f)) >= 1
  BY Places2, RefsOne DEF Descs
<1> QED BY <1>1, <1>2, <1>3, <1>4, <1>5, <1>6

\* A file that pipealloc() has got is in no descriptor, and nobody else has it.
LEMMA FreshFile ==
    ASSUME TableInv, NEW p \in Proc, NEW k \in 1 .. 2, Fresh(p, k)
    PROVE  /\ held[p][k] \in File /\ file[held[p][k]].ref = 1
           /\ \A q \in Proc, j \in 1 .. 2 : <<q, j>> # <<p, k>> => held[q][j] # held[p][k]
           /\ \A q \in Proc, e \in FD : ofile[q][e] # held[p][k]
<1>1. held[p][k] # None /\ file[held[p][k]].ref = 1
  BY DEF TableInv, CallInv, HeldOf, Fresh
<1> QED BY <1>1, HeldFile

\* filealloc() finds a file that nobody refers to.
LEMMA FreeFile ==
    ASSUME TableInv, FreeFiles # {}
    PROVE  \E g \in File :
             /\ g = Min(FreeFiles) /\ file[g] = NoFile /\ file[g].ref = 0
             /\ \A p \in Proc, k \in 1 .. 2 : held[p][k] # g
             /\ \A p \in Proc, fd \in FD : ofile[p][fd] # g
<1>1. FreeFiles \in SUBSET Nat
  BY FilesAssumption DEF FreeFiles
<1>2. PICK g \in File : g = Min(FreeFiles) /\ file[g].ref = 0
  BY <1>1, MinIs DEF FreeFiles
<1>3. file[g] = NoFile
  BY <1>2 DEF TableInv, BlankInv
<1>4. \A p \in Proc, k \in 1 .. 2 : held[p][k] # g
  BY <1>2, HeldFile, FilesAssumption
<1>5. \A p \in Proc, fd \in FD : ofile[p][fd] # g
  BY <1>2, Referred, FilesAssumption
<1> QED BY <1>2, <1>3, <1>4, <1>5

\* fdalloc() finds a descriptor that is not in use.
LEMMA FreeFd ==
    ASSUME NEW p \in Proc, FreeFds(p) # {}
    PROVE  \E d \in FD : d = Min(FreeFds(p)) /\ ofile[p][d] = None
<1>1. FreeFds(p) \in SUBSET Nat
  BY FilesAssumption DEF FreeFds
<1> QED BY <1>1, MinIs DEF FreeFds

\* What a write under way needs of a step of the table: its descriptors, and of
\* their files all but the count.
SameFile(f) ==
    file'[f].type = file[f].type /\ file'[f].ip = file[f].ip /\ file'[f].off = file[f].off

Kept ==
    /\ \A r \in Proc : pc'[r] \in InWrite <=> pc[r] \in InWrite
    /\ \A r \in Proc : pc[r] \in InWrite => pc'[r] = pc[r] /\ ofile'[r] = ofile[r]
    /\ \A r \in Proc, fd \in FD :
          pc[r] \in InWrite /\ ofile[r][fd] # None => SameFile(ofile[r][fd])
    /\ \A f \in File : file'[f].off <= file[f].off

\* The invariant after a step, from its parts and the counts.
LEMMA TableParts ==
    ASSUME TableTypes', CallInv', BlankInv',
           \A f \in File : file'[f].ref = Total(ofile', held', f)
    PROVE  TableInv'
<1>1. FileRefExact'
  BY DEF FileRefExact, Total, Descs, Holds, Refs
<1> QED BY <1>1 DEF TableInv

\* The types, for the lemmas below.
LEMMA TypesAre ==
    ASSUME TableInv
    PROVE  /\ file \in [File -> FileRec] /\ ofile \in OFiles /\ pc \in [Proc -> PCs]
           /\ held \in Helds /\ fds \in [Proc -> [1 .. 2 -> FD \cup {None}]]
           /\ np \in [Proc -> Proc \cup {None}]
           /\ \A f \in File : file[f].ref \in Nat /\ file[f].off \in Nat
  BY DEF TableInv, TableTypes, FileRec

\* A step that leaves every call where it is and what it holds keeps CallInv, if no
\* descriptor of a call under way is cleared and no fresh file is counted again.
LEMMA CallsStay ==
    ASSUME TableInv, UNCHANGED <<pc, held, fds, np>>,
           \A p \in Proc, fd \in FD :
             pc[p] = "pipefd" /\ ofile[p][fd] # None => ofile'[p][fd] # None,
           \A p \in Proc, k \in 1 .. 2 : Fresh(p, k) => file'[held[p][k]].ref = 1
    PROVE  CallInv'
<1>1. \A p \in Proc, k \in 1 .. 2 : HeldOf(p, k) /\ FdOf(p, k)
  BY DEF TableInv, CallInv
<1>2. \A p \in Proc : ForkOf(p)
  BY DEF TableInv, CallInv
<1>3. pc' = pc /\ held' = held /\ fds' = fds /\ np' = np
  OBVIOUS
<1>4. ASSUME NEW p \in Proc, NEW k \in 1 .. 2
      PROVE  HeldOf(p, k)' /\ FdOf(p, k)'
  <2>1. HeldOf(p, k)'
    BY <1>1, <1>3 DEF HeldOf, Fresh
  <2>2. FdOf(p, k)'
    <3>1. fds[p][k] # None => fds[p][k] \in FD
      BY TypesAre
    <3> QED BY <1>1, <1>3, <3>1 DEF FdOf
  <2> QED BY <2>1, <2>2
<1>5. \A p \in Proc : ForkOf(p)'
  BY <1>2, <1>3 DEF ForkOf
<1> QED BY <1>4, <1>5 DEF CallInv

\* A step that counts a file once more keeps it, when the file was in a descriptor;
\* so does one that takes a free file.
LEMMA FreshKept ==
    ASSUME TableInv, NEW g \in File, \A f \in File : f # g => file'[f] = file[f],
           \/ file[g].ref = 0
           \/ \E q \in Proc, e \in FD : ofile[q][e] = g
    PROVE  \A p \in Proc, k \in 1 .. 2 :
             Fresh(p, k) => held[p][k] # g /\ file'[held[p][k]].ref = 1
  BY FreshFile

\* sys_open() gets a file and a descriptor.
LEMMA OpenTable ==
    ASSUME TableInv, NEW p \in Proc, NEW i \in Inum, OpenFile(p, i)
    PROVE  TableInv' /\ Kept
<1>1. PICK g \in File :
             /\ g = Min(FreeFiles) /\ file[g] = NoFile /\ file[g].ref = 0
             /\ \A q \in Proc, k \in 1 .. 2 : held[q][k] # g
             /\ \A q \in Proc, fd \in FD : ofile[q][fd] # g
  BY FreeFile DEF OpenFile
<1>2. PICK d \in FD : d = Min(FreeFds(p)) /\ ofile[p][d] = None
  BY FreeFd DEF OpenFile
<1>3. /\ file \in [File -> FileRec] /\ ofile \in OFiles /\ pc \in [Proc -> PCs]
      /\ held \in Helds /\ fds \in [Proc -> [1 .. 2 -> FD \cup {None}]]
      /\ np \in [Proc -> Proc \cup {None}]
  BY TypesAre
<1>4. /\ pc[p] = "user" /\ UNCHANGED <<pc, held, fds, np>>
      /\ file' = [file EXCEPT ![g] = [NoFile EXCEPT !.ref = 1, !.type = "inode", !.ip = i]]
      /\ ofile' = [ofile EXCEPT ![p][d] = g]
  BY <1>1, <1>2 DEF OpenFile
<1>5. PICK x : x = [NoFile EXCEPT !.ref = 1, !.type = "inode", !.ip = i]
  OBVIOUS
<1>6. /\ file'[g].ref = 1 /\ file'[g].type = "inode" /\ file'[g].ip = i /\ file'[g].off = 0
      /\ \A f \in File : f # g => file'[f] = file[f]
      /\ file' \in [File -> FileRec]
  <2>1. x \in FileRec /\ x.ref = 1 /\ x.type = "inode" /\ x.ip = i /\ x.off = 0
    BY <1>5 DEF FileRec, NoFile
  <2>2. file' = [file EXCEPT ![g] = x]
    BY <1>4, <1>5
  <2> QED BY <1>3, <2>1, <2>2
<1>7. /\ ofile' \in OFiles /\ ofile'[p][d] = g
      /\ \A q \in Proc, e \in FD : <<q, e>> # <<p, d>> => ofile'[q][e] = ofile[q][e]
      /\ \A q \in Proc : q # p => ofile'[q] = ofile[q]
  BY <1>3, <1>4 DEF OFiles
<1>8. TableTypes'
  BY <1>3, <1>4, <1>6, <1>7 DEF TableTypes
<1>9. CallInv'
  <2>1. \A q \in Proc, k \in 1 .. 2 : Fresh(q, k) => file'[held[q][k]].ref = 1
    BY <1>1, <1>6, FreshKept
  <2>2. \A q \in Proc, e \in FD :
          pc[q] = "pipefd" /\ ofile[q][e] # None => ofile'[q][e] # None
    BY <1>4, <1>7
  <2> QED BY <1>4, <2>1, <2>2, CallsStay
<1>10. BlankInv'
  BY <1>6 DEF TableInv, BlankInv
<1>11. \A f \in File : file'[f].ref = Total(ofile', held', f)
  <2>1. \A f \in File : Total(ofile', held, f) =
          IF f = g THEN Total(ofile, held, f) + 1 ELSE Total(ofile, held, f)
    BY <1>2, <1>7, DescGets
  <2>2. held' = held
    BY <1>4
  <2> QED BY <1>1, <1>6, <2>1, <2>2, RefIs
<1>12. TableInv'
  BY <1>8, <1>9, <1>10, <1>11, TableParts
<1>13. \A r \in Proc, fd \in FD :
          pc[r] \in InWrite /\ ofile[r][fd] # None => SameFile(ofile[r][fd])
  BY <1>1, <1>3, <1>6 DEF OFiles, SameFile
<1>14. \A f \in File : file'[f].off <= file[f].off
  BY <1>1, <1>3, <1>6 DEF NoFile, FileRec
<1>15. Kept
  BY <1>4, <1>7, <1>13, <1>14 DEF Kept, InWrite
<1> QED BY <1>12, <1>15

\* filealloc() for a call of open() or pipe(), which goes on to l.
LEMMA AllocTable ==
    ASSUME TableInv, NEW p \in Proc, NEW k \in 1 .. 2, NEW l, filealloc(p, k), Goto(p, l),
           \/ pc[p] = "user" /\ k = 1 /\ l \in {"bad", "pipe"}
           \/ pc[p] = "pipe" /\ k = 2 /\ l = "pipealloc"
    PROVE  TableInv' /\ Kept
<1>1. PICK g \in File :
             /\ g = Min(FreeFiles) /\ file[g] = NoFile /\ file[g].ref = 0
             /\ \A q \in Proc, j \in 1 .. 2 : held[q][j] # g
             /\ \A q \in Proc, fd \in FD : ofile[q][fd] # g
  BY FreeFile DEF filealloc
<1>2. held[p][k] = None /\ (k = 1 => held[p][2] = None)
  <2>1. k \in 1 .. 2 /\ HeldOf(p, 1) /\ HeldOf(p, 2)
    BY DEF TableInv, CallInv
  <2> QED BY <2>1 DEF HeldOf
<1>3. /\ file \in [File -> FileRec] /\ ofile \in OFiles /\ pc \in [Proc -> PCs]
      /\ held \in Helds /\ fds \in [Proc -> [1 .. 2 -> FD \cup {None}]]
      /\ np \in [Proc -> Proc \cup {None}]
  BY TypesAre
<1>4. /\ pc' = [pc EXCEPT ![p] = l] /\ UNCHANGED <<ofile, fds, np>>
      /\ file' = [file EXCEPT ![g].ref = 1]
      /\ held' = [held EXCEPT ![p][k] = g]
  BY <1>1 DEF filealloc, Goto
<1>5. l \in PCs /\ l \notin InWrite /\ pc[p] \notin InWrite /\ g # None
  BY FilesAssumption DEF PCs, InWrite
<1>6. /\ file'[g].ref = 1 /\ file'[g].type = "none" /\ file'[g].off = 0
      /\ \A f \in File : f # g => file'[f] = file[f]
      /\ file' \in [File -> FileRec]
  <2>1. NoFile.type = "none" /\ NoFile.off = 0
    BY DEF NoFile
  <2> QED BY <1>1, <1>3, <1>4, <2>1 DEF FileRec
<1>7. /\ held' \in Helds /\ held'[p][k] = g
      /\ \A q \in Proc, j \in 1 .. 2 : <<q, j>> # <<p, k>> => held'[q][j] = held[q][j]
  BY <1>3, <1>4 DEF Helds
<1>8. pc' \in [Proc -> PCs] /\ pc'[p] = l /\ \A q \in Proc : q # p => pc'[q] = pc[q]
  BY <1>3, <1>4, <1>5
<1>9. TableTypes'
  BY <1>3, <1>4, <1>6, <1>7, <1>8 DEF TableTypes
<1>10. \A q \in Proc, j \in 1 .. 2 : Fresh(q, j) => file'[held[q][j]].ref = 1
  BY <1>1, <1>6, FreshKept
<1>11. CallInv'
  <2>1. ASSUME NEW q \in Proc, NEW j \in 1 .. 2
        PROVE  HeldOf(q, j)'
    <3>1. CASE q # p
      <4>1. held'[q][j] = held[q][j] /\ held'[q][2] = held[q][2] /\ pc'[q] = pc[q]
        BY <1>7, <1>8, <3>1
      <4> QED BY <1>10, <4>1 DEF TableInv, CallInv, HeldOf, Fresh
    <3>2. CASE q = p /\ j = k
      BY <1>2, <1>6, <1>7, <1>8, <3>2 DEF HeldOf, Fresh
    <3>3. CASE q = p /\ j # k
      <4>1. held'[p][j] = held[p][j]
        BY <1>7, <3>3
      <4>2. HeldOf(p, j)
        BY <3>3 DEF TableInv, CallInv
      <4>3. Fresh(p, j)' => Fresh(p, j)
        BY <1>2, <1>8, <3>3, <4>1, <4>2 DEF Fresh, HeldOf
      <4>4. pc'[p] = "pipe" => held'[p][2] = None
        BY <1>2, <1>7, <1>8
      <4>5. held'[p][j] # None => pc'[p] \in {"pipe", "pipealloc", "pipefd", "bad"}
        BY <1>8
      <4> QED BY <1>10, <3>3, <4>1, <4>3, <4>4, <4>5 DEF HeldOf
    <3> QED BY <3>1, <3>2, <3>3
  <2>2. ASSUME NEW q \in Proc, NEW j \in 1 .. 2
        PROVE  FdOf(q, j)'
    <3>1. FdOf(q, j) /\ fds' = fds /\ ofile' = ofile
      BY <1>4 DEF TableInv, CallInv
    <3>2. fds[q][j] # None => q # p
      BY <3>1 DEF FdOf
    <3>3. q # p => held'[q][j] = held[q][j] /\ pc'[q] = pc[q]
      BY <1>7, <1>8
    <3> QED BY <3>1, <3>2, <3>3 DEF FdOf
  <2>3. ASSUME NEW q \in Proc
        PROVE  ForkOf(q)'
    <3>1. ForkOf(q) /\ np' = np
      BY <1>4 DEF TableInv, CallInv
    <3>2. \A r \in Proc : (pc'[r] = "fork" <=> pc[r] = "fork") /\ (pc'[r] = "embryo" <=> pc[r] = "embryo")
      BY <1>8
    <3> QED BY <3>1, <3>2 DEF ForkOf
  <2> QED BY <2>1, <2>2, <2>3 DEF CallInv
<1>12. BlankInv'
  BY <1>6 DEF TableInv, BlankInv
<1>13. \A f \in File : file'[f].ref = Total(ofile', held', f)
  <2>1. \A f \in File : Total(ofile, held', f) =
          IF f = g THEN Total(ofile, held, f) + 1 ELSE Total(ofile, held, f)
    BY <1>2, <1>7, HoldGets
  <2>2. ofile' = ofile
    BY <1>4
  <2> QED BY <1>1, <1>6, <2>1, <2>2, RefIs
<1>14. TableInv'
  BY <1>9, <1>11, <1>12, <1>13, TableParts
<1>15. \A r \in Proc, fd \in FD :
          pc[r] \in InWrite /\ ofile[r][fd] # None => SameFile(ofile[r][fd])
  BY <1>1, <1>3, <1>6 DEF OFiles, SameFile
<1>16. \A f \in File : file'[f].off <= file[f].off
  BY <1>3, <1>6 DEF FileRec
<1>17. Kept
  BY <1>4, <1>5, <1>8, <1>15, <1>16 DEF Kept
<1> QED BY <1>14, <1>17

\* filedup() of a file that a descriptor has, into a free descriptor: of the caller
\* of dup(), or of the child of fork().
LEMMA GivesTable ==
    ASSUME TableInv, NEW q \in Proc, NEW e \in FD, NEW p \in Proc, NEW d \in FD, NEW g \in File,
           ofile[q][e] = g, ofile[p][d] = None, pc[p] \notin InWrite,
           file' = [file EXCEPT ![g].ref = @ + 1], ofile' = [ofile EXCEPT ![p][d] = g],
           UNCHANGED <<pc, held, fds, np>>
    PROVE  TableInv' /\ Kept
<1>1. /\ file \in [File -> FileRec] /\ ofile \in OFiles /\ pc \in [Proc -> PCs]
      /\ held \in Helds /\ fds \in [Proc -> [1 .. 2 -> FD \cup {None}]]
      /\ np \in [Proc -> Proc \cup {None}] /\ file[g].ref \in Nat /\ g # None
  BY TypesAre, FilesAssumption
<1>2. file[g].ref >= 1
  BY <1>1, Referred
<1>3. /\ file'[g].ref = file[g].ref + 1 /\ SameFile(g)
      /\ \A f \in File : f # g => file'[f] = file[f]
      /\ file' \in [File -> FileRec]
  BY <1>1 DEF FileRec, SameFile
<1>4. /\ ofile' \in OFiles /\ ofile'[p][d] = g
      /\ \A r \in Proc, c \in FD : <<r, c>> # <<p, d>> => ofile'[r][c] = ofile[r][c]
      /\ \A r \in Proc : r # p => ofile'[r] = ofile[r]
  BY <1>1 DEF OFiles
<1>5. TableTypes'
  BY <1>1, <1>3, <1>4 DEF TableTypes
<1>6. CallInv'
  <2>1. \A r \in Proc, k \in 1 .. 2 : Fresh(r, k) => file'[held[r][k]].ref = 1
    BY <1>3, FreshKept
  <2>2. \A r \in Proc, c \in FD :
          pc[r] = "pipefd" /\ ofile[r][c] # None => ofile'[r][c] # None
    BY <1>1, <1>4
  <2> QED BY <2>1, <2>2, CallsStay
<1>7. BlankInv'
  <2>1. file'[g].ref # 0 /\ file'[g].type = file[g].type /\ file'[g].ip = file[g].ip
    BY <1>1, <1>3 DEF SameFile
  <2> QED BY <1>3, <2>1 DEF TableInv, BlankInv
<1>8. \A f \in File : file'[f].ref = Total(ofile', held', f)
  <2>1. \A f \in File : Total(ofile', held, f) =
          IF f = g THEN Total(ofile, held, f) + 1 ELSE Total(ofile, held, f)
    <3>1. PICK o, o2 : o = ofile /\ o2 = ofile'
      OBVIOUS
    <3>2. /\ o[p][d] = None /\ o2[p][d] = g
          /\ \A r \in Proc, c \in FD : <<r, c>> # <<p, d>> => o2[r][c] = o[r][c]
      BY <1>4, <3>1
    <3>3. \A f \in File : Total(o2, held, f) =
            IF f = g THEN Total(o, held, f) + 1 ELSE Total(o, held, f)
      BY <3>2, DescGets
    <3> QED BY <3>1, <3>3
  <2>2. held' = held
    OBVIOUS
  <2> QED BY <1>3, <2>1, <2>2, RefIs
<1>9. TableInv'
  BY <1>5, <1>6, <1>7, <1>8, TableParts
<1>10. \A f \in File : SameFile(f)
  BY <1>3 DEF SameFile
<1>11. \A r \in Proc, c \in FD :
          pc[r] \in InWrite /\ ofile[r][c] # None => SameFile(ofile[r][c])
  BY <1>1, <1>10 DEF OFiles
<1>12. \A f \in File : file'[f].off <= file[f].off
  BY <1>10, TypesAre DEF SameFile
<1>13. Kept
  BY <1>4, <1>11, <1>12 DEF Kept
<1> QED BY <1>9, <1>13

\* sys_dup() makes another descriptor of a file.
LEMMA DupTable ==
    ASSUME TableInv, NEW p \in Proc, NEW fd \in FD, sys_dup(p, fd)
    PROVE  TableInv' /\ Kept
<1>1. PICK g \in File : g = ofile[p][fd]
  BY Referred DEF sys_dup
<1>2. PICK d \in FD : d = Min(FreeFds(p)) /\ ofile[p][d] = None
  BY FreeFd DEF sys_dup
<1>3. /\ pc[p] = "user" /\ UNCHANGED <<pc, held, fds, np>>
      /\ file' = [file EXCEPT ![g].ref = @ + 1] /\ ofile' = [ofile EXCEPT ![p][d] = g]
  BY <1>1, <1>2 DEF sys_dup
<1>4. pc[p] \notin InWrite
  BY <1>3 DEF InWrite
<1> QED BY <1>1, <1>2, <1>3, <1>4, GivesTable

\* A turn of fork()'s loop.
LEMMA ForkDupTable ==
    ASSUME TableInv, NEW p \in Proc, ForkDup(p)
    PROVE  TableInv' /\ Kept
<1>1. pc[p] = "fork" /\ ToShare(p) # {}
  BY DEF ForkDup
<1>2. PICK q \in Proc : q = np[p] /\ pc[q] = "embryo"
  BY <1>1 DEF TableInv, CallInv, ForkOf
<1>3. ToShare(p) \in SUBSET Nat /\ ToShare(p) \subseteq FD
  BY FilesAssumption DEF ToShare
<1>4. PICK d \in FD : d = Min(ToShare(p)) /\ ofile[p][d] # None /\ ofile[q][d] = None
  <2>1. Min(ToShare(p)) \in ToShare(p)
    BY <1>1, <1>3, MinIs
  <2> QED BY <1>2, <2>1 DEF ToShare
<1>5. PICK g \in File : g = ofile[p][d]
  BY <1>4, Referred
<1>6. /\ UNCHANGED <<pc, held, fds, np>>
      /\ file' = [file EXCEPT ![g].ref = @ + 1] /\ ofile' = [ofile EXCEPT ![q][d] = g]
  BY <1>2, <1>4, <1>5 DEF ForkDup, filedup
<1>7. pc[q] \notin InWrite
  BY <1>2 DEF InWrite
<1> QED BY <1>4, <1>5, <1>6, <1>7, GivesTable

\* fileclose() counts one less, and blanks the file at the last.
LEMMA CloseIs ==
    ASSUME TableInv, NEW g \in File, file[g].ref >= 1, NEW fl, fl = fileclose(g)
    PROVE  /\ fl \in [File -> FileRec]
           /\ \A f \in File : f # g => fl[f] = file[f]
           /\ fl[g].ref = file[g].ref - 1
           /\ file[g].ref = 1 => fl[g] = NoFile
           /\ file[g].ref > 1 => /\ fl[g].type = file[g].type /\ fl[g].ip = file[g].ip
                                 /\ fl[g].off = file[g].off
<1>1. file \in [File -> FileRec] /\ file[g] \in FileRec /\ file[g].ref \in Nat
  BY DEF TableInv, TableTypes, FileRec
<1>2. NoFile \in FileRec /\ NoFile.ref = 0
  BY DEF NoFile, FileRec
<1>3. CASE file[g].ref > 1
  <2>1. fl = [file EXCEPT ![g].ref = @ - 1] /\ file[g].ref - 1 \in Nat
    BY <1>1, <1>3 DEF fileclose
  <2>2. fl \in [File -> FileRec] /\ \A f \in File : f # g => fl[f] = file[f]
    BY <1>1, <2>1 DEF FileRec
  <2>3. /\ fl[g].ref = file[g].ref - 1
        /\ fl[g].type = file[g].type /\ fl[g].ip = file[g].ip /\ fl[g].off = file[g].off
    BY <1>1, <2>1 DEF FileRec
  <2> QED BY <1>1, <1>3, <2>2, <2>3
<1>4. CASE ~(file[g].ref > 1)
  <2>1. fl = [file EXCEPT ![g] = NoFile] /\ file[g].ref = 1
    BY <1>1, <1>4 DEF fileclose
  <2> QED BY <1>1, <1>2, <2>1
<1> QED BY <1>3, <1>4

\* fileclose() of a file leaves the files of a write as they were, if the write has
\* a descriptor of its own, and keeps the table blank where it is free.
LEMMA CloseKeeps ==
    ASSUME TableInv, NEW g \in File, file[g].ref >= 1, file' = fileclose(g),
           \A r \in Proc, e \in FD :
             pc[r] \in InWrite /\ ofile[r][e] = g => file[g].ref >= 2
    PROVE  /\ BlankInv'
           /\ \A r \in Proc, e \in FD :
                pc[r] \in InWrite /\ ofile[r][e] # None => SameFile(ofile[r][e])
           /\ \A f \in File : file'[f].off <= file[f].off
<1>1. /\ \A f \in File : f # g => file'[f] = file[f]
      /\ file'[g].ref = file[g].ref - 1
      /\ file[g].ref = 1 => file'[g] = NoFile
      /\ file[g].ref > 1 => /\ file'[g].type = file[g].type /\ file'[g].ip = file[g].ip
                            /\ file'[g].off = file[g].off
  BY CloseIs
<1>2. \A f \in File : file[f].ref \in Nat /\ file[f].off \in Nat
  BY TypesAre
<1>3. file[g].ref = 1 \/ file[g].ref > 1
  BY <1>2
<1>4. NoFile.type # "inode" /\ NoFile.off = 0
  BY DEF NoFile
<1>5. /\ file'[g].ref = 0 => file'[g] = NoFile
      /\ file'[g].type = "inode" => file'[g].ip \in Inum
  <2>1. CASE file[g].ref = 1
    BY <1>1, <1>4, <2>1
  <2>2. CASE file[g].ref > 1
    <3>1. file'[g].ref # 0
      BY <1>1, <1>2, <2>2
    <3>2. file[g].type = "inode" => file[g].ip \in Inum
      BY DEF TableInv, BlankInv
    <3> QED BY <1>1, <2>2, <3>1, <3>2
  <2> QED BY <1>3, <2>1, <2>2
<1>6. BlankInv'
  BY <1>1, <1>5 DEF TableInv, BlankInv
<1>7. ASSUME NEW r \in Proc, NEW e \in FD, pc[r] \in InWrite, ofile[r][e] # None
      PROVE  SameFile(ofile[r][e])
  <2>1. CASE ofile[r][e] = g
    <3>1. file[g].ref > 1
      BY <1>2, <1>7, <2>1
    <3> QED BY <1>1, <2>1, <3>1 DEF SameFile
  <2>2. CASE ofile[r][e] # g
    <3>1. ofile[r][e] \in File
      BY <1>7, Referred
    <3> QED BY <1>1, <2>2, <3>1 DEF SameFile
  <2> QED BY <2>1, <2>2
<1>8. \A f \in File : file'[f].off <= file[f].off
  <2>1. file'[g].off <= file[g].off
    BY <1>1, <1>2, <1>3, <1>4
  <2> QED BY <1>1, <1>2, <2>1
<1> QED BY <1>6, <1>7, <1>8

\* sys_close().
LEMMA CloseTable ==
    ASSUME TableInv, NEW p \in Proc, NEW fd \in FD, sys_close(p, fd)
    PROVE  TableInv' /\ Kept
<1>1. PICK g \in File : g = ofile[p][fd] /\ file[g].ref >= 1
  BY Referred DEF sys_close
<1>2. \A q \in Proc, e \in FD : <<q, e>> # <<p, fd>> /\ ofile[q][e] = g => file[g].ref >= 2
  BY <1>1, Referred DEF sys_close
<1>3. /\ file \in [File -> FileRec] /\ ofile \in OFiles /\ pc \in [Proc -> PCs]
      /\ held \in Helds /\ fds \in [Proc -> [1 .. 2 -> FD \cup {None}]]
      /\ np \in [Proc -> Proc \cup {None}] /\ g # None
  BY TypesAre, FilesAssumption
<1>4. /\ pc[p] \in {"user", "exit"} /\ UNCHANGED <<pc, held, fds, np>>
      /\ file' = fileclose(g)
      /\ ofile' = [ofile EXCEPT ![p][fd] = None]
  BY <1>1 DEF sys_close
<1>5. pc[p] \notin InWrite /\ pc[p] # "pipefd"
  BY <1>4 DEF InWrite
<1>6. /\ file' \in [File -> FileRec]
      /\ \A f \in File : f # g => file'[f] = file[f]
      /\ file'[g].ref = file[g].ref - 1
  BY <1>1, <1>4, CloseIs
<1>7. /\ ofile' \in OFiles /\ ofile'[p][fd] = None
      /\ \A q \in Proc, e \in FD : <<q, e>> # <<p, fd>> => ofile'[q][e] = ofile[q][e]
      /\ \A q \in Proc : q # p => ofile'[q] = ofile[q]
  BY <1>3, <1>4 DEF OFiles
<1>8. TableTypes'
  BY <1>3, <1>4, <1>6, <1>7 DEF TableTypes
<1>9. CallInv'
  <2>1. \A q \in Proc, k \in 1 .. 2 : Fresh(q, k) => file'[held[q][k]].ref = 1
    BY <1>1, <1>6, FreshKept
  <2>2. \A q \in Proc, e \in FD :
          pc[q] = "pipefd" /\ ofile[q][e] # None => ofile'[q][e] # None
    BY <1>5, <1>7
  <2> QED BY <1>4, <2>1, <2>2, CallsStay
<1>10. \A r \in Proc, e \in FD : pc[r] \in InWrite /\ ofile[r][e] = g => file[g].ref >= 2
  BY <1>2, <1>5
<1>11. /\ BlankInv'
       /\ \A r \in Proc, e \in FD :
            pc[r] \in InWrite /\ ofile[r][e] # None => SameFile(ofile[r][e])
       /\ \A f \in File : file'[f].off <= file[f].off
  BY <1>1, <1>4, <1>10, CloseKeeps
<1>12. \A f \in File : file'[f].ref = Total(ofile', held', f)
  <2>1. \A f \in File : Total(ofile, held, f) =
          IF f = g THEN Total(ofile', held, f) + 1 ELSE Total(ofile', held, f)
    <3>1. /\ ofile'[p][fd] = None /\ ofile[p][fd] = g
          /\ \A q \in Proc, e \in FD : <<q, e>> # <<p, fd>> => ofile[q][e] = ofile'[q][e]
      BY <1>1, <1>7
    <3> QED BY <3>1, DescGets
  <2>2. held' = held /\ \A f \in File : Total(ofile', held, f) \in Nat
    BY <1>4, TotalIs
  <2> QED BY <1>6, <2>1, <2>2, RefIs
<1>13. TableInv'
  BY <1>8, <1>9, <1>11, <1>12, TableParts
<1>14. Kept
  BY <1>4, <1>5, <1>7, <1>11 DEF Kept
<1> QED BY <1>13, <1>14

\* fileclose() of a file that a failed call holds.
LEMMA CloseHeldTable ==
    ASSUME TableInv, NEW p \in Proc, NEW k \in 1 .. 2, CloseHeld(p, k)
    PROVE  TableInv' /\ Kept
<1>1. PICK g \in File : g = held[p][k] /\ file[g].ref >= 1
  BY HeldFile DEF CloseHeld
<1>2. /\ \A q \in Proc, e \in FD : ofile[q][e] = g => file[g].ref >= 2
      /\ \A q \in Proc, j \in 1 .. 2 : <<q, j>> # <<p, k>> /\ held[q][j] = g => file[g].ref >= 2
  BY <1>1, HeldFile DEF CloseHeld
<1>3. /\ file \in [File -> FileRec] /\ ofile \in OFiles /\ pc \in [Proc -> PCs]
      /\ held \in Helds /\ fds \in [Proc -> [1 .. 2 -> FD \cup {None}]]
      /\ np \in [Proc -> Proc \cup {None}] /\ g # None
  BY TypesAre, FilesAssumption
<1>4. /\ pc[p] = "bad" /\ UNCHANGED <<ofile, fds, pc, np>>
      /\ file' = fileclose(g)
      /\ held' = [held EXCEPT ![p][k] = None]
  BY <1>1 DEF CloseHeld
<1>5. /\ file' \in [File -> FileRec]
      /\ \A f \in File : f # g => file'[f] = file[f]
      /\ file'[g].ref = file[g].ref - 1
  BY <1>1, <1>4, CloseIs
<1>6. /\ held' \in Helds /\ held'[p][k] = None
      /\ \A q \in Proc, j \in 1 .. 2 : <<q, j>> # <<p, k>> => held'[q][j] = held[q][j]
  BY <1>3, <1>4 DEF Helds
<1>7. TableTypes'
  BY <1>3, <1>4, <1>5, <1>6 DEF TableTypes
<1>8. CallInv'
  <2>1. ASSUME NEW q \in Proc, NEW j \in 1 .. 2
        PROVE  HeldOf(q, j)' /\ FdOf(q, j)'
    <3>1. HeldOf(q, j) /\ FdOf(q, j)
      BY DEF TableInv, CallInv
    <3>2. held'[q][j] \in {held[q][j], None} /\ held'[q][2] \in {held[q][2], None}
      BY <1>6
    <3>3. pc' = pc /\ fds' = fds /\ ofile' = ofile
      BY <1>4
    <3>4. Fresh(q, j)' => Fresh(q, j) /\ held'[q][j] = held[q][j]
      BY <3>2, <3>3 DEF Fresh
    <3>5. Fresh(q, j) => held[q][j] \in File /\ held[q][j] # g
      <4>1. CASE <<q, j>> = <<p, k>>
        BY <1>4, <4>1 DEF Fresh
      <4>2. CASE <<q, j>> # <<p, k>>
        <5>1. Fresh(q, j) => held[p][k] # held[q][j] /\ held[q][j] \in File
          BY <4>2, FreshFile
        <5> QED BY <1>1, <5>1
      <4> QED BY <4>1, <4>2
    <3>6. HeldOf(q, j)'
      BY <1>5, <3>1, <3>2, <3>3, <3>4, <3>5 DEF HeldOf
    <3>7. FdOf(q, j)'
      BY <3>1, <3>2, <3>3 DEF FdOf
    <3> QED BY <3>6, <3>7
  <2>2. \A q \in Proc : ForkOf(q)'
    BY <1>4 DEF TableInv, CallInv, ForkOf
  <2> QED BY <2>1, <2>2 DEF CallInv
<1>9. /\ BlankInv'
      /\ \A r \in Proc, e \in FD :
           pc[r] \in InWrite /\ ofile[r][e] # None => SameFile(ofile[r][e])
      /\ \A f \in File : file'[f].off <= file[f].off
  BY <1>1, <1>2, <1>4, CloseKeeps
<1>10. \A f \in File : file'[f].ref = Total(ofile', held', f)
  <2>1. \A f \in File : Total(ofile, held, f) =
          IF f = g THEN Total(ofile, held', f) + 1 ELSE Total(ofile, held', f)
    <3>1. /\ held'[p][k] = None /\ held[p][k] = g
          /\ \A q \in Proc, j \in 1 .. 2 : <<q, j>> # <<p, k>> => held[q][j] = held'[q][j]
      BY <1>1, <1>6
    <3> QED BY <3>1, HoldGets
  <2>2. ofile' = ofile /\ \A f \in File : Total(ofile, held', f) \in Nat
    BY <1>4, TotalIs
  <2> QED BY <1>5, <2>1, <2>2, RefIs
<1>11. TableInv'
  BY <1>7, <1>8, <1>9, <1>10, TableParts
<1>12. Kept
  BY <1>4, <1>9 DEF Kept
<1> QED BY <1>11, <1>12

\* pipealloc() makes the two files a pipe.
LEMMA PipeAllocTable ==
    ASSUME TableInv, NEW p \in Proc, PipeAlloc(p)
    PROVE  TableInv' /\ Kept
<1>1. /\ file \in [File -> FileRec] /\ ofile \in OFiles /\ pc \in [Proc -> PCs]
      /\ held \in Helds /\ fds \in [Proc -> [1 .. 2 -> FD \cup {None}]]
      /\ np \in [Proc -> Proc \cup {None}] /\ \A f \in File : file[f].off \in Nat
  BY TypesAre
<1>2. PICK S : S = {held[p][1], held[p][2]}
  OBVIOUS
<1>3. /\ pc[p] = "pipealloc" /\ pc' = [pc EXCEPT ![p] = "pipefd"]
      /\ UNCHANGED <<ofile, held, fds, np>>
      /\ file' = [f \in File |-> IF f \in S THEN [file[f] EXCEPT !.type = "pipe"] ELSE file[f]]
  BY <1>2 DEF PipeAlloc, Goto
<1>4. /\ file' \in [File -> FileRec]
      /\ \A f \in File : /\ file'[f].ref = file[f].ref /\ file'[f].off = file[f].off
                         /\ file'[f].ip = file[f].ip
      /\ \A f \in File : f \in S => file'[f].type = "pipe"
      /\ \A f \in File : f \notin S => file'[f] = file[f]
  BY <1>1, <1>3 DEF FileRec
<1>5. ASSUME NEW f \in File, f \in S
      PROVE  file[f].ref = 1 /\ \A q \in Proc, e \in FD : ofile[q][e] # f
  <2>1. PICK k \in 1 .. 2 : f = held[p][k]
    BY <1>2, <1>5
  <2>2. Fresh(p, k)
    BY <1>3, <2>1, FilesAssumption DEF Fresh
  <2> QED BY <2>1, <2>2, FreshFile
<1>6. pc' \in [Proc -> PCs] /\ pc'[p] = "pipefd" /\ \A q \in Proc : q # p => pc'[q] = pc[q]
  BY <1>1, <1>3 DEF PCs
<1>7. TableTypes'
  BY <1>1, <1>3, <1>4, <1>6 DEF TableTypes
<1>8. CallInv'
  <2>1. ASSUME NEW q \in Proc, NEW j \in 1 .. 2
        PROVE  HeldOf(q, j)' /\ FdOf(q, j)'
    <3>1. HeldOf(q, j) /\ FdOf(q, j)
      BY DEF TableInv, CallInv
    <3>2. held' = held /\ fds' = fds /\ ofile' = ofile
      BY <1>3
    <3>3. Fresh(q, j)' => Fresh(q, j)
      BY <1>6, <3>2 DEF Fresh
    <3>4. Fresh(q, j) => held[q][j] \in File /\ file'[held[q][j]].ref = 1
      BY <1>4, FreshFile
    <3>5. HeldOf(q, j)'
      BY <1>6, <3>1, <3>2, <3>3, <3>4 DEF HeldOf
    <3>6. FdOf(q, j)'
      BY <1>6, <3>1, <3>2 DEF FdOf
    <3> QED BY <3>5, <3>6
  <2>2. ASSUME NEW q \in Proc PROVE ForkOf(q)'
    <3>1. \A r \in Proc : (pc'[r] = "fork" <=> pc[r] = "fork") /\ (pc'[r] = "embryo" <=> pc[r] = "embryo")
      BY <1>3, <1>6
    <3>2. ForkOf(q) /\ np' = np
      BY <1>3 DEF TableInv, CallInv
    <3> QED BY <3>1, <3>2 DEF ForkOf
  <2> QED BY <2>1, <2>2 DEF CallInv
<1>9. BlankInv'
  <2> SUFFICES ASSUME NEW f \in File
               PROVE  /\ file'[f].ref = 0 => file'[f] = NoFile
                      /\ file'[f].type = "inode" => file'[f].ip \in Inum
    BY DEF BlankInv
  <2>1. CASE f \in S
    BY <1>4, <1>5, <2>1
  <2>2. CASE f \notin S
    BY <1>4, <2>2 DEF TableInv, BlankInv
  <2> QED BY <2>1, <2>2
<1>10. \A f \in File : file'[f].ref = Total(ofile', held', f)
  <2>1. ofile' = ofile /\ held' = held
    BY <1>3
  <2> QED BY <1>4, <2>1, RefIs
<1>11. TableInv'
  BY <1>7, <1>8, <1>9, <1>10, TableParts
<1>12. \A r \in Proc, e \in FD :
          pc[r] \in InWrite /\ ofile[r][e] # None => SameFile(ofile[r][e])
  <2> SUFFICES ASSUME NEW r \in Proc, NEW e \in FD, ofile[r][e] # None
               PROVE  SameFile(ofile[r][e])
    OBVIOUS
  <2>1. PICK f \in File : f = ofile[r][e]
    BY Referred
  <2>2. file'[f] = file[f]
    BY <1>4, <1>5, <2>1
  <2> QED BY <2>1, <2>2 DEF SameFile
<1>13. \A f \in File : file'[f].off <= file[f].off
  BY <1>1, <1>4
<1>14. pc[p] \notin InWrite /\ pc'[p] \notin InWrite
  BY <1>3, <1>6 DEF InWrite
<1>15. Kept
  BY <1>3, <1>6, <1>12, <1>13, <1>14 DEF Kept
<1> QED BY <1>11, <1>15

\* fdalloc() for a file of pipe().
LEMMA PipeFdTable ==
    ASSUME TableInv, NEW p \in Proc, NEW k \in 1 .. 2, PipeFd(p, k)
    PROVE  TableInv' /\ Kept
<1>1. PICK g \in File : g = held[p][k]
  BY HeldFile DEF PipeFd
<1>2. PICK d \in FD : d = Min(FreeFds(p)) /\ ofile[p][d] = None
  BY FreeFd DEF PipeFd
<1>3. /\ file \in [File -> FileRec] /\ ofile \in OFiles /\ pc \in [Proc -> PCs]
      /\ held \in Helds /\ fds \in [Proc -> [1 .. 2 -> FD \cup {None}]]
      /\ np \in [Proc -> Proc \cup {None}] /\ g # None /\ d # None
      /\ \A f \in File : file[f].off \in Nat
  BY TypesAre, FilesAssumption
<1>4. /\ pc[p] = "pipefd" /\ UNCHANGED <<file, pc, np>>
      /\ ofile' = [ofile EXCEPT ![p][d] = g]
      /\ held' = [held EXCEPT ![p][k] = None]
      /\ fds' = [fds EXCEPT ![p][k] = d]
  BY <1>1, <1>2 DEF PipeFd
<1>5. /\ ofile' \in OFiles /\ ofile'[p][d] = g
      /\ \A q \in Proc, e \in FD : <<q, e>> # <<p, d>> => ofile'[q][e] = ofile[q][e]
      /\ \A q \in Proc : q # p => ofile'[q] = ofile[q]
  BY <1>3, <1>4 DEF OFiles
<1>6. /\ held' \in Helds /\ held'[p][k] = None
      /\ \A q \in Proc, j \in 1 .. 2 : <<q, j>> # <<p, k>> => held'[q][j] = held[q][j]
  BY <1>3, <1>4 DEF Helds
<1>7. /\ fds' \in [Proc -> [1 .. 2 -> FD \cup {None}]] /\ fds'[p][k] = d
      /\ \A q \in Proc, j \in 1 .. 2 : <<q, j>> # <<p, k>> => fds'[q][j] = fds[q][j]
  BY <1>3, <1>4
<1>8. TableTypes'
  BY <1>3, <1>4, <1>5, <1>6, <1>7 DEF TableTypes
<1>9. CallInv'
  <2>1. ASSUME NEW q \in Proc, NEW j \in 1 .. 2
        PROVE  HeldOf(q, j)'
    <3>1. HeldOf(q, j) /\ pc' = pc /\ file' = file
      BY <1>4 DEF TableInv, CallInv
    <3>2. held'[q][j] \in {held[q][j], None} /\ held'[q][2] \in {held[q][2], None}
      BY <1>6
    <3> QED BY <3>1, <3>2 DEF HeldOf, Fresh
  <2>2. ASSUME NEW q \in Proc, NEW j \in 1 .. 2
        PROVE  FdOf(q, j)'
    <3>1. FdOf(q, j) /\ FdOf(p, 1) /\ FdOf(p, 2) /\ pc' = pc
      BY <1>4 DEF TableInv, CallInv
    <3>2. CASE q # p
      <4>1. /\ fds'[q][j] = fds[q][j] /\ fds'[q][1] = fds[q][1] /\ fds'[q][2] = fds[q][2]
            /\ held'[q][j] = held[q][j] /\ ofile'[q] = ofile[q]
        BY <1>5, <1>6, <1>7, <3>2
      <4> QED BY <3>1, <4>1 DEF FdOf
    <3>3. CASE q = p
      <4>1. \A i \in 1 .. 2 : fds[p][i] # None => fds[p][i] # d
        BY <1>2, <3>1 DEF FdOf
      <4>2. fds'[p][1] # fds'[p][2] \/ fds'[p][j] = None
        <5>1. fds'[p][k] = d /\ d # None /\ \A i \in 1 .. 2 : i # k => fds'[p][i] = fds[p][i]
          BY <1>3, <1>7
        <5>2. 1 \in 1 .. 2 /\ 2 \in 1 .. 2 /\ (k = 1 \/ k = 2)
          OBVIOUS
        <5> QED BY <4>1, <5>1, <5>2
      <4>3. fds'[p][j] # None => held'[p][j] = None
        BY <1>6, <1>7, <3>1, <3>3 DEF FdOf
      <4>4. fds'[p][j] # None => ofile'[p][fds'[p][j]] # None
        <5>1. CASE j = k
          BY <1>3, <1>5, <1>7, <5>1
        <5>2. CASE j # k
          <6>1. fds'[p][j] = fds[p][j] /\ (fds[p][j] # None => fds[p][j] \in FD /\ fds[p][j] # d)
            BY <1>3, <1>7, <4>1, <5>2
          <6> QED BY <1>5, <3>1, <3>3, <6>1 DEF FdOf
        <5> QED BY <5>1, <5>2
      <4> QED BY <1>4, <3>1, <3>3, <4>2, <4>3, <4>4 DEF FdOf
    <3> QED BY <3>2, <3>3
  <2>3. \A q \in Proc : ForkOf(q)'
    BY <1>4 DEF TableInv, CallInv, ForkOf
  <2> QED BY <2>1, <2>2, <2>3 DEF CallInv
<1>10. BlankInv'
  BY <1>4 DEF TableInv, BlankInv
<1>11. \A f \in File : file'[f].ref = Total(ofile', held', f)
  <2>1. \A f \in File : Total(ofile', held', f) = Total(ofile, held, f)
    <3>1. PICK o, h, o2, h2 : o = ofile /\ h = held /\ o2 = ofile' /\ h2 = held'
      OBVIOUS
    <3>2. Moved(o, h, o2, h2, p, d, k)
      BY <1>1, <1>2, <1>5, <1>6, <3>1 DEF Moved
    <3>3. ASSUME NEW f \in File PROVE Total(o2, h2, f) = Total(o, h, f)
      BY <3>2, MoveTotal
    <3> QED BY <3>1, <3>3
  <2>2. file' = file
    BY <1>4
  <2> QED BY <2>1, <2>2, RefIs
<1>12. TableInv'
  BY <1>8, <1>9, <1>10, <1>11, TableParts
<1>13. pc[p] \notin InWrite
  BY <1>4 DEF InWrite
<1>14. Kept
  BY <1>3, <1>4, <1>5, <1>13 DEF Kept, SameFile
<1> QED BY <1>12, <1>14

\* A descriptor of pipe(), if it was set, gives its file back to the call.
Back(o, h, o2, h2, p, d, k) ==
    \/ /\ d = None
       /\ \A q \in Proc, e \in FD : o2[q][e] = o[q][e]
       /\ \A q \in Proc, j \in 1 .. 2 : h2[q][j] = h[q][j]
    \/ Moved(o2, h2, o, h, p, d, k)

\* ... and counts as before.
LEMMA BackTotal ==
    ASSUME NEW o, NEW o2, NEW h, NEW h2, NEW p \in Proc, NEW k \in 1 .. 2,
           NEW d \in FD \cup {None}, Back(o, h, o2, h2, p, d, k), NEW f \in File
    PROVE  Total(o2, h2, f) = Total(o, h, f)
<1>1. CASE d = None
  <2>1. /\ \A q \in Proc, e \in FD : o2[q][e] = o[q][e]
        /\ \A q \in Proc, j \in 1 .. 2 : h2[q][j] = h[q][j]
    BY <1>1, FilesAssumption DEF Back, Moved
  <2> QED BY <2>1, SameTotal
<1>2. CASE d # None
  <2>2. Total(o, h, f) = Total(o2, h2, f)
    <3>1. Moved(o2, h2, o, h, p, d, k)
      BY <1>2 DEF Back
    <3> QED BY <3>1, MoveTotal
  <2> QED BY <2>2
<1> QED BY <1>1, <1>2

\* The errors of sys_pipe(), which clear the descriptors that were set.
LEMMA PipeFailsTable ==
    ASSUME TableInv, NEW p \in Proc, PipeFails(p)
    PROVE  TableInv' /\ Kept
<1>1. /\ file \in [File -> FileRec] /\ ofile \in OFiles /\ pc \in [Proc -> PCs]
      /\ held \in Helds /\ fds \in [Proc -> [1 .. 2 -> FD \cup {None}]]
      /\ np \in [Proc -> Proc \cup {None}] /\ \A f \in File : file[f].off \in Nat
  BY TypesAre
<1>2. PICK d1 \in FD \cup {None}, d2 \in FD \cup {None} : d1 = fds[p][1] /\ d2 = fds[p][2]
  BY <1>1
<1>3. /\ d1 # None => held[p][1] = None /\ ofile[p][d1] # None /\ ofile[p][d1] \in File /\ d1 # d2
      /\ d2 # None => held[p][2] = None /\ ofile[p][d2] # None /\ ofile[p][d2] \in File /\ d1 # d2
  <2>1. FdOf(p, 1) /\ FdOf(p, 2)
    BY DEF TableInv, CallInv
  <2> QED BY <1>1, <1>2, <2>1 DEF FdOf, OFiles
<1>4. /\ pc[p] = "pipefd" /\ pc' = [pc EXCEPT ![p] = "bad"] /\ UNCHANGED <<file, np>>
      /\ ofile' = [ofile EXCEPT ![p] =
                     [e \in FD |-> IF e \in {d1, d2} THEN None ELSE ofile[p][e]]]
      /\ held' = [held EXCEPT ![p] = [k \in 1 .. 2 |->
                     IF fds[p][k] = None THEN held[p][k] ELSE ofile[p][fds[p][k]]]]
      /\ fds' = [fds EXCEPT ![p] = None2]
  BY <1>2 DEF PipeFails, Goto
<1>5. /\ ofile' \in OFiles
      /\ \A e \in FD : ofile'[p][e] = IF e \in {d1, d2} THEN None ELSE ofile[p][e]
      /\ \A q \in Proc : q # p => ofile'[q] = ofile[q]
  BY <1>1, <1>4 DEF OFiles
<1>6. /\ held' \in Helds
      /\ held'[p][1] = IF d1 = None THEN held[p][1] ELSE ofile[p][d1]
      /\ held'[p][2] = IF d2 = None THEN held[p][2] ELSE ofile[p][d2]
      /\ \A q \in Proc : q # p => held'[q] = held[q]
  <2>1. PICK x : x = [k \in 1 .. 2 |-> IF fds[p][k] = None THEN held[p][k] ELSE ofile[p][fds[p][k]]]
    OBVIOUS
  <2>2. /\ x[1] = IF d1 = None THEN held[p][1] ELSE ofile[p][d1]
        /\ x[2] = IF d2 = None THEN held[p][2] ELSE ofile[p][d2]
    BY <1>2, <2>1
  <2>3. x \in [1 .. 2 -> File \cup {None}]
    <3>1. \A k \in 1 .. 2 : k = 1 \/ k = 2
      OBVIOUS
    <3>2. \A k \in 1 .. 2 : x[k] \in File \cup {None}
      BY <1>1, <1>3, <2>2, <3>1 DEF Helds
    <3> QED BY <2>1, <3>2
  <2>4. held' = [held EXCEPT ![p] = x]
    BY <1>4, <2>1
  <2> QED BY <1>1, <2>2, <2>3, <2>4 DEF Helds
<1>7. /\ fds' \in [Proc -> [1 .. 2 -> FD \cup {None}]]
      /\ \A k \in 1 .. 2 : fds'[p][k] = None
      /\ \A q \in Proc : q # p => fds'[q] = fds[q]
  <2>1. None2 \in [1 .. 2 -> FD \cup {None}] /\ \A k \in 1 .. 2 : None2[k] = None
    BY DEF None2
  <2> QED BY <1>1, <1>4, <2>1
<1>8. pc' \in [Proc -> PCs] /\ pc'[p] = "bad" /\ \A q \in Proc : q # p => pc'[q] = pc[q]
  BY <1>1, <1>4 DEF PCs
<1>9. TableTypes'
  BY <1>1, <1>4, <1>5, <1>6, <1>7, <1>8 DEF TableTypes
<1>10. CallInv'
  <2>1. ASSUME NEW q \in Proc, NEW j \in 1 .. 2
        PROVE  HeldOf(q, j)' /\ FdOf(q, j)'
    <3>1. CASE q # p
      <4>1. HeldOf(q, j) /\ FdOf(q, j)
        BY DEF TableInv, CallInv
      <4>2. /\ held'[q] = held[q] /\ fds'[q] = fds[q] /\ ofile'[q] = ofile[q] /\ pc'[q] = pc[q]
            /\ file' = file
        BY <1>4, <1>5, <1>6, <1>7, <1>8, <3>1
      <4> QED BY <4>1, <4>2 DEF HeldOf, FdOf, Fresh
    <3>2. CASE q = p
      BY <1>7, <1>8, <3>2 DEF HeldOf, FdOf, Fresh
    <3> QED BY <3>1, <3>2
  <2>2. ASSUME NEW q \in Proc PROVE ForkOf(q)'
    <3>1. \A r \in Proc : (pc'[r] = "fork" <=> pc[r] = "fork") /\ (pc'[r] = "embryo" <=> pc[r] = "embryo")
      BY <1>4, <1>8
    <3>2. ForkOf(q) /\ np' = np
      BY <1>4 DEF TableInv, CallInv
    <3> QED BY <3>1, <3>2 DEF ForkOf
  <2> QED BY <2>1, <2>2 DEF CallInv
<1>11. BlankInv'
  BY <1>4 DEF TableInv, BlankInv
<1>12. ASSUME NEW f \in File PROVE file'[f].ref = Total(ofile', held', f)
  <2>1. PICK o, h, o2, h2 : o = ofile /\ h = held /\ o2 = ofile' /\ h2 = held'
    OBVIOUS
  <2>2. PICK o1, h1 :
          /\ o1 = [q \in Proc |-> [e \in FD |-> IF q = p /\ e = d1 THEN None ELSE o[q][e]]]
          /\ h1 = [q \in Proc |-> [j \in 1 .. 2 |-> IF q = p /\ j = 1 THEN h2[q][j] ELSE h[q][j]]]
    OBVIOUS
  <2>3. /\ \A q \in Proc, e \in FD : o1[q][e] = IF q = p /\ e = d1 THEN None ELSE o[q][e]
        /\ \A q \in Proc, j \in 1 .. 2 : h1[q][j] = IF q = p /\ j = 1 THEN h2[q][j] ELSE h[q][j]
    BY <2>2
  <2>4. /\ \A e \in FD : o2[p][e] = IF e \in {d1, d2} THEN None ELSE o[p][e]
        /\ \A q \in Proc : q # p => o2[q] = o[q] /\ h2[q] = h[q]
        /\ h2[p][1] = IF d1 = None THEN h[p][1] ELSE o[p][d1]
        /\ h2[p][2] = IF d2 = None THEN h[p][2] ELSE o[p][d2]
    BY <1>5, <1>6, <2>1
  <2>5. /\ d1 # None => h[p][1] = None /\ o[p][d1] \in File /\ d1 # d2 /\ d1 \in FD
        /\ d2 # None => h[p][2] = None /\ o[p][d2] \in File /\ d1 # d2 /\ d2 \in FD
    BY <1>3, <2>1
  <2>6. Total(o1, h1, f) = Total(o, h, f)
    <3>1. PICK k \in 1 .. 2 : k = 1
      OBVIOUS
    <3>2. ASSUME d1 # None PROVE Moved(o1, h1, o, h, p, d1, k)
      <4>1. /\ d1 \in FD /\ o1[p][d1] = None /\ o[p][d1] \in File
            /\ h1[p][1] = o[p][d1] /\ h[p][1] = None
        BY <2>3, <2>4, <2>5, <3>2
      <4>2. \A q \in Proc, e \in FD : <<q, e>> # <<p, d1>> => o[q][e] = o1[q][e]
        BY <2>3, <2>4
      <4>3. \A q \in Proc, j \in 1 .. 2 : <<q, j>> # <<p, 1>> => h[q][j] = h1[q][j]
        BY <2>3, <2>4
      <4>4. /\ p \in Proc /\ d1 \in FD /\ k \in 1 .. 2
            /\ o1[p][d1] = None /\ o[p][d1] \in File /\ h1[p][k] = o[p][d1] /\ h[p][k] = None
        BY <1>1, <3>1, <4>1
      <4>5. \A q \in Proc, j \in 1 .. 2 : <<q, j>> # <<p, k>> => h[q][j] = h1[q][j]
        BY <3>1, <4>3
      <4> QED BY <4>2, <4>4, <4>5 DEF Moved
    <3>3. ASSUME d1 = None PROVE \A q \in Proc, e \in FD : o1[q][e] = o[q][e]
      <4>1. \A e \in FD : e # d1
        BY <3>3, FilesAssumption
      <4> QED BY <2>3, <2>4, <4>1
    <3>4. d1 = None => \A q \in Proc, j \in 1 .. 2 : h1[q][j] = h[q][j]
      <4>1. \A j \in 1 .. 2 : j = 1 \/ j = 2
        OBVIOUS
      <4> QED BY <2>3, <2>4, <4>1
    <3>5. Back(o, h, o1, h1, p, d1, k)
      BY <2>5, <3>2, <3>3, <3>4 DEF Back
    <3> QED BY <3>5, BackTotal
  <2>7. Total(o2, h2, f) = Total(o1, h1, f)
    <3>1. PICK k \in 1 .. 2 : k = 2
      OBVIOUS
    <3>2. ASSUME d2 # None PROVE Moved(o2, h2, o1, h1, p, d2, k)
      <4>1. /\ d2 \in FD /\ o2[p][d2] = None /\ o1[p][d2] \in File
            /\ h2[p][2] = o1[p][d2] /\ h1[p][2] = None
        BY <2>3, <2>4, <2>5, <3>2
      <4>2. \A q \in Proc, e \in FD : <<q, e>> # <<p, d2>> => o1[q][e] = o2[q][e]
        BY <2>3, <2>4
      <4>3. \A q \in Proc, j \in 1 .. 2 : <<q, j>> # <<p, 2>> => h1[q][j] = h2[q][j]
        BY <2>3, <2>4
      <4>4. /\ p \in Proc /\ d2 \in FD /\ k \in 1 .. 2
            /\ o2[p][d2] = None /\ o1[p][d2] \in File /\ h2[p][k] = o1[p][d2] /\ h1[p][k] = None
        BY <1>1, <3>1, <4>1
      <4>5. \A q \in Proc, j \in 1 .. 2 : <<q, j>> # <<p, k>> => h1[q][j] = h2[q][j]
        BY <3>1, <4>3
      <4> QED BY <4>2, <4>4, <4>5 DEF Moved
    <3>3. ASSUME d2 = None PROVE \A q \in Proc, e \in FD : o2[q][e] = o1[q][e]
      <4>1. \A e \in FD : e # d2
        BY <3>3, FilesAssumption
      <4> QED BY <2>3, <2>4, <4>1
    <3>4. d2 = None => \A q \in Proc, j \in 1 .. 2 : h2[q][j] = h1[q][j]
      <4>1. \A j \in 1 .. 2 : j = 1 \/ j = 2
        OBVIOUS
      <4> QED BY <2>3, <2>4, <4>1
    <3>5. Back(o1, h1, o2, h2, p, d2, k)
      BY <2>5, <3>2, <3>3, <3>4 DEF Back
    <3> QED BY <3>5, BackTotal
  <2>8. file' = file /\ file[f].ref = Total(o, h, f)
    BY <1>4, <2>1, RefIs
  <2> QED BY <2>1, <2>6, <2>7, <2>8
<1>13. TableInv'
  BY <1>9, <1>10, <1>11, <1>12, TableParts
<1>14. pc[p] \notin InWrite /\ pc'[p] \notin InWrite
  BY <1>4, <1>8 DEF InWrite
<1>15. Kept
  BY <1>1, <1>4, <1>5, <1>8, <1>14 DEF Kept, SameFile
<1> QED BY <1>13, <1>15

\* A step that changes neither the files nor who has them.
LEMMA QuietTable ==
    ASSUME TableInv, UNCHANGED <<file, ofile, held>>, TableTypes', CallInv',
           \A r \in Proc : pc'[r] = pc[r] \/ {pc'[r], pc[r]} \cap InWrite = {}
    PROVE  TableInv' /\ Kept
<1>1. BlankInv' /\ FileRefExact'
  BY DEF TableInv, BlankInv, FileRefExact
<1>2. \A f \in File : SameFile(f) /\ file[f].off \in Nat
  BY TypesAre DEF SameFile
<1>3. \A r \in Proc, e \in FD :
         pc[r] \in InWrite /\ ofile[r][e] # None => SameFile(ofile[r][e])
  BY <1>2, Referred
<1>4. Kept
  <2>1. \A r \in Proc : (pc'[r] \in InWrite <=> pc[r] \in InWrite) /\ (pc[r] \in InWrite => pc'[r] = pc[r])
    OBVIOUS
  <2> QED BY <1>2, <1>3, <2>1 DEF Kept, SameFile
<1> QED BY <1>1, <1>4 DEF TableInv

\* The steps at which a call begins or returns.
LEMMA CallTable ==
    ASSUME TableInv, NEW p \in Proc,
           PipeDone(p) \/ PipeNoMemory(p) \/ BadReturns(p) \/ exit(p) \/ ExitDone(p)
    PROVE  TableInv' /\ Kept
<1>1. /\ file \in [File -> FileRec] /\ ofile \in OFiles /\ pc \in [Proc -> PCs]
      /\ held \in Helds /\ fds \in [Proc -> [1 .. 2 -> FD \cup {None}]]
      /\ np \in [Proc -> Proc \cup {None}]
  BY TypesAre
<1>2. PICK l \in {"user", "bad", "exit", "unused"} :
        /\ pc' = [pc EXCEPT ![p] = l] /\ UNCHANGED <<file, ofile, held, np>>
        /\ pc[p] \in {"pipefd", "pipe", "pipealloc", "bad", "user", "exit"}
        /\ l = "bad" \/ \A k \in 1 .. 2 : held[p][k] = None
  <2>1. HeldOf(p, 1) /\ HeldOf(p, 2) /\ \A k \in 1 .. 2 : k = 1 \/ k = 2
    BY DEF TableInv, CallInv
  <2>2. ASSUME PipeDone(p) \/ BadReturns(p)
        PROVE  \A k \in 1 .. 2 : held[p][k] = None
    BY <2>2 DEF PipeDone, BadReturns, None2
  <2>3. ASSUME pc[p] \in {"user", "exit"}
        PROVE  \A k \in 1 .. 2 : held[p][k] = None
    BY <2>1, <2>3 DEF HeldOf
  <2>4. CASE PipeDone(p) \/ BadReturns(p)
    BY <2>2, <2>4 DEF PipeDone, BadReturns, Goto, tableVars
  <2>5. CASE PipeNoMemory(p)
    BY <2>5 DEF PipeNoMemory, Goto, tableVars
  <2>6. CASE exit(p) \/ ExitDone(p)
    BY <2>3, <2>6 DEF exit, ExitDone, Goto, tableVars
  <2> QED BY <2>4, <2>5, <2>6
<1>3. /\ fds' \in [Proc -> [1 .. 2 -> FD \cup {None}]]
      /\ \A k \in 1 .. 2 : fds'[p][k] = None
      /\ \A q \in Proc : q # p => fds'[q] = fds[q]
  <2>1. None2 \in [1 .. 2 -> FD \cup {None}] /\ \A k \in 1 .. 2 : None2[k] = None
    BY DEF None2
  <2>2. CASE PipeDone(p)
    <3>1. fds' = [fds EXCEPT ![p] = None2]
      BY <2>2 DEF PipeDone
    <3> QED BY <1>1, <2>1, <3>1
  <2>3. CASE ~PipeDone(p)
    <3>1. fds' = fds /\ pc[p] # "pipefd"
      BY <2>3 DEF PipeNoMemory, BadReturns, exit, ExitDone, tableVars
    <3>2. \A k \in 1 .. 2 : FdOf(p, k)
      BY DEF TableInv, CallInv
    <3> QED BY <1>1, <3>1, <3>2 DEF FdOf
  <2> QED BY <2>2, <2>3
<1>4. pc' \in [Proc -> PCs] /\ pc'[p] = l /\ \A q \in Proc : q # p => pc'[q] = pc[q]
  BY <1>1, <1>2 DEF PCs
<1>5. TableTypes'
  BY <1>1, <1>2, <1>3, <1>4 DEF TableTypes
<1>6. CallInv'
  <2>1. ASSUME NEW q \in Proc, NEW j \in 1 .. 2
        PROVE  HeldOf(q, j)' /\ FdOf(q, j)'
    <3>1. CASE q # p
      <4>1. HeldOf(q, j) /\ FdOf(q, j)
        BY DEF TableInv, CallInv
      <4>2. /\ held' = held /\ fds'[q] = fds[q] /\ ofile' = ofile /\ pc'[q] = pc[q] /\ file' = file
        BY <1>2, <1>3, <1>4, <3>1
      <4> QED BY <4>1, <4>2 DEF HeldOf, FdOf, Fresh
    <3>2. CASE q = p
      BY <1>2, <1>3, <1>4, <3>2 DEF HeldOf, FdOf, Fresh
    <3> QED BY <3>1, <3>2
  <2>2. ASSUME NEW q \in Proc PROVE ForkOf(q)'
    <3>1. \A r \in Proc : (pc'[r] = "fork" <=> pc[r] = "fork") /\ (pc'[r] = "embryo" <=> pc[r] = "embryo")
      BY <1>2, <1>4
    <3>2. ForkOf(q) /\ np' = np
      BY <1>2 DEF TableInv, CallInv
    <3> QED BY <3>1, <3>2 DEF ForkOf
  <2> QED BY <2>1, <2>2 DEF CallInv
<1>7. {pc'[p], pc[p]} \cap InWrite = {}
  BY <1>2, <1>4 DEF InWrite
<1> QED BY <1>2, <1>4, <1>5, <1>6, <1>7, QuietTable

\* fork() takes a process that is not used, and lets it go when it has its files.
LEMMA ForkTable ==
    ASSUME TableInv, NEW p \in Proc, (\E q \in Proc : fork(p, q)) \/ ForkDone(p)
    PROVE  TableInv' /\ Kept
<1>1. /\ file \in [File -> FileRec] /\ ofile \in OFiles /\ pc \in [Proc -> PCs]
      /\ held \in Helds /\ fds \in [Proc -> [1 .. 2 -> FD \cup {None}]]
      /\ np \in [Proc -> Proc \cup {None}]
  BY TypesAre
<1>2. UNCHANGED <<file, ofile, held, fds>>
  BY DEF fork, ForkDone
<1>3. \A r \in Proc : ForkOf(r)
  BY DEF TableInv, CallInv
<1>4. \E q \in Proc :
         \/ /\ pc[p] = "user" /\ pc[q] = "unused"
            /\ pc' = [pc EXCEPT ![p] = "fork", ![q] = "embryo"]
            /\ np' = [np EXCEPT ![p] = q]
         \/ /\ pc[p] = "fork" /\ q = np[p] /\ pc[q] = "embryo"
            /\ pc' = [pc EXCEPT ![p] = "user", ![q] = "user"]
            /\ np' = [np EXCEPT ![p] = None]
  <2>1. CASE \E q \in Proc : fork(p, q)
    BY <2>1 DEF fork
  <2>2. CASE ForkDone(p)
    BY <1>3, <2>2 DEF ForkDone, ForkOf
  <2> QED BY <2>1, <2>2
<1>5. PICK q \in Proc, l \in {"fork", "user"}, m \in {"embryo", "user"}, n \in Proc \cup {None} :
         /\ p # q /\ pc' = [pc EXCEPT ![p] = l, ![q] = m] /\ np' = [np EXCEPT ![p] = n]
         /\ \/ pc[p] = "user" /\ pc[q] = "unused" /\ l = "fork" /\ m = "embryo" /\ n = q
            \/ pc[p] = "fork" /\ pc[q] = "embryo" /\ l = "user" /\ m = "user" /\ q = np[p]
  BY <1>4
<1>6. /\ pc' \in [Proc -> PCs] /\ pc'[p] = l /\ pc'[q] = m
      /\ \A r \in Proc : r # p /\ r # q => pc'[r] = pc[r]
      /\ np' \in [Proc -> Proc \cup {None}] /\ np'[p] = n
      /\ \A r \in Proc : r # p => np'[r] = np[r]
  BY <1>1, <1>5 DEF PCs
<1>7. TableTypes'
  BY <1>1, <1>2, <1>6 DEF TableTypes
<1>8. CallInv'
  <2>1. ASSUME NEW r \in Proc, NEW j \in 1 .. 2
        PROVE  HeldOf(r, j)' /\ FdOf(r, j)'
    <3>1. HeldOf(r, j) /\ FdOf(r, j)
      BY DEF TableInv, CallInv
    <3>2. \/ pc'[r] = pc[r]
          \/ pc[r] \in {"user", "unused", "fork", "embryo"} /\ pc'[r] \in {"user", "fork", "embryo"}
      BY <1>5, <1>6
    <3> QED BY <1>2, <3>1, <3>2 DEF HeldOf, FdOf, Fresh
  <2>2. ASSUME NEW r \in Proc PROVE ForkOf(r)'
    <3>1. CASE pc[p] = "user"
      <4>1. \A s \in Proc : s # p /\ pc[s] = "fork" => np[s] # q
        BY <1>3, <1>5, <3>1 DEF ForkOf
      <4>2. \A s \in Proc : (pc'[s] = "fork" <=> s = p \/ pc[s] = "fork")
                            /\ (pc'[s] = "embryo" <=> s = q \/ pc[s] = "embryo")
        BY <1>5, <1>6, <3>1
      <4>3. np'[p] = q /\ \A s \in Proc : s # p => np'[s] = np[s]
        BY <1>5, <1>6, <3>1
      <4>4. CASE r = p
        <5>1. \A s \in Proc : pc'[s] = "fork" /\ np'[s] = q => s = p
          BY <4>1, <4>2, <4>3
        <5> QED BY <4>2, <4>3, <4>4, <5>1 DEF ForkOf
      <4>5. CASE r # p /\ pc[r] = "fork"
        <5>1. /\ np[r] \in Proc /\ pc[np[r]] = "embryo" /\ np[r] # q
              /\ \A s \in Proc : pc[s] = "fork" /\ np[s] = np[r] => s = r
          BY <1>3, <4>1, <4>5 DEF ForkOf
        <5>2. \A s \in Proc : pc'[s] = "fork" /\ np'[s] = np[r] => s = r
          BY <4>2, <4>3, <5>1
        <5> QED BY <4>2, <4>3, <4>5, <5>1, <5>2 DEF ForkOf
      <4>6. CASE r # p /\ pc[r] # "fork"
        BY <4>2, <4>6 DEF ForkOf
      <4> QED BY <4>4, <4>5, <4>6
    <3>2. CASE pc[p] = "fork"
      <4>1. \A s \in Proc : s # p /\ pc[s] = "fork" => np[s] # q
        BY <1>3, <1>5, <3>2 DEF ForkOf
      <4>2. \A s \in Proc : (pc'[s] = "fork" <=> s # p /\ pc[s] = "fork")
                            /\ (pc'[s] = "embryo" <=> s # q /\ pc[s] = "embryo")
        BY <1>5, <1>6, <3>2
      <4> QED BY <1>3, <1>6, <4>1, <4>2 DEF ForkOf
    <3> QED BY <1>5, <3>1, <3>2
  <2> QED BY <2>1, <2>2 DEF CallInv
<1>9. \A r \in Proc : pc'[r] = pc[r] \/ {pc'[r], pc[r]} \cap InWrite = {}
  <2>1. {pc'[p], pc[p]} \cap InWrite = {} /\ {pc'[q], pc[q]} \cap InWrite = {}
    BY <1>5, <1>6 DEF InWrite
  <2> QED BY <1>6, <2>1
<1> QED BY <1>2, <1>7, <1>8, <1>9, QuietTable

\* Every step of the table keeps its invariant and the files that are written.
LEMMA TableStep ==
    ASSUME TableInv, NEW p \in Proc, TableNext(p)
    PROVE  TableInv' /\ Kept
<1>1. CASE OpenFails(p)
  BY <1>1, AllocTable DEF OpenFails
<1>2. CASE sys_pipe(p)
  BY <1>2, AllocTable DEF sys_pipe
<1>3. CASE PipeSecond(p)
  BY <1>3, AllocTable DEF PipeSecond
<1>4. CASE PipeAlloc(p) \/ PipeFails(p) \/ \E k \in 1 .. 2 : PipeFd(p, k) \/ CloseHeld(p, k)
  BY <1>4, PipeAllocTable, PipeFailsTable, PipeFdTable, CloseHeldTable
<1>5. CASE PipeDone(p) \/ PipeNoMemory(p) \/ BadReturns(p) \/ exit(p) \/ ExitDone(p)
  BY <1>5, CallTable
<1>6. CASE \E fd \in FD : sys_dup(p, fd) \/ sys_close(p, fd)
  BY <1>6, DupTable, CloseTable
<1>7. CASE (\E q \in Proc : fork(p, q)) \/ ForkDone(p)
  BY <1>7, ForkTable
<1>8. CASE ForkDup(p)
  BY <1>8, ForkDupTable
<1> QED BY <1>1, <1>2, <1>3, <1>4, <1>5, <1>6, <1>7, <1>8 DEF TableNext

\* At first nobody has a file.
LEMMA TableStarts ==
    ASSUME TableInit
    PROVE  TableInv /\ \A p \in Proc : pc[p] \notin InWrite
<1>1. /\ \A f \in File : file[f] = NoFile /\ file[f].ref = 0 /\ file[f].type = "none"
      /\ file \in [File -> FileRec]
  BY DEF TableInit, NoFile, FileRec
<1>2. ofile \in OFiles /\ \A p \in Proc, fd \in FD : ofile[p][fd] = None
  BY DEF TableInit, OFiles
<1>3. /\ held \in Helds /\ fds \in [Proc -> [1 .. 2 -> FD \cup {None}]]
      /\ np \in [Proc -> Proc \cup {None}]
      /\ \A p \in Proc, k \in 1 .. 2 : held[p][k] = None /\ fds[p][k] = None
  <2>1. /\ \A D : None2 \in [1 .. 2 -> D \cup {None}]
        /\ \A k \in 1 .. 2 : None2[k] = None
    BY DEF None2
  <2> QED BY <2>1 DEF TableInit, Helds
<1>4. pc \in [Proc -> {"user", "unused"}]
  BY DEF TableInit
<1>5. TableTypes
  BY <1>1, <1>2, <1>3, <1>4 DEF TableTypes, PCs
<1>6. CallInv
  <2>1. \A p \in Proc : pc[p] \in {"user", "unused"} /\ held[p][2] = None
    BY <1>3, <1>4
  <2> QED BY <1>3, <2>1 DEF CallInv, HeldOf, FdOf, ForkOf, Fresh
<1>7. BlankInv
  BY <1>1 DEF BlankInv
<1>8. FileRefExact
  <2> SUFFICES ASSUME NEW f \in File PROVE file[f].ref = Total(ofile, held, f)
    BY DEF FileRefExact, Total, Descs, Holds, Refs
  <2>1. f # None
    BY FilesAssumption
  <2>2. Total(ofile, held, f) = 0
    BY <1>2, <1>3, <2>1, NoTotal
  <2> QED BY <1>1, <2>2
<1> QED BY <1>4, <1>5, <1>6, <1>7, <1>8 DEF TableInv, InWrite

-----------------------------------------------------------------------------
(***************************************************************************)
(* The map of blocks.                                                      *)
(***************************************************************************)

\* The numbers that an inode and a disk are made of.
LEMMA Sizes ==
    /\ NDIRECT \in Nat /\ NINDIRECT \in Nat /\ NINDIRECT >= 1 /\ NBLOCK \in Nat /\ NBLOCK >= 1
    /\ BSIZE \in Nat /\ BSIZE >= 1 /\ BPB \in Nat /\ BPB >= 1 /\ MAXFILE \in Nat /\ MAXFILE >= 1
    /\ MAXFILE = NDIRECT + NINDIRECT /\ End \in Nat
    /\ Block \subseteq Nat /\ 0 \notin Block /\ 1 \in Block
    /\ \A bn \in 0 .. MAXFILE - 1 : PlaceOf(bn) \in Place /\ PlaceOf(bn) # NDIRECT
<1>1. /\ NDIRECT \in Nat /\ NINDIRECT \in Nat /\ NINDIRECT >= 1 /\ NBLOCK \in Nat /\ NBLOCK >= 1
      /\ BSIZE \in Nat /\ BSIZE >= 1 /\ BPB \in Nat /\ BPB >= 1
  BY DataAssumption
<1>2. MAXFILE \in Nat /\ MAXFILE >= 1 /\ MAXFILE = NDIRECT + NINDIRECT
  BY <1>1 DEF MAXFILE
<1>3. End \in Nat
  BY <1>1, <1>2, TimesNext DEF End
<1>4. Block \subseteq Nat /\ 0 \notin Block /\ 1 \in Block
  BY <1>1 DEF Block
<1>5. \A bn \in 0 .. MAXFILE - 1 : PlaceOf(bn) \in Place /\ PlaceOf(bn) # NDIRECT
  BY <1>1, <1>2 DEF PlaceOf, Place
<1> QED BY <1>1, <1>2, <1>3, <1>4, <1>5

\* What a place refers to is a block or nothing.
LEMMA AtIs ==
    ASSUME NEW a \in Addrs, NEW wd \in Words, NEW i \in Inum, NEW k \in Place
    PROVE  AtOf(a, wd, i, k) \in Block \cup {0}
<1>1. CASE k <= NDIRECT
  BY <1>1, Sizes DEF AtOf, Addrs, Place
<1>2. CASE ~(k <= NDIRECT) /\ a[i][NDIRECT] # 0
  <2>1. a[i][NDIRECT] \in Block /\ k - NDIRECT - 1 \in 0 .. NINDIRECT - 1
    BY <1>2, Sizes DEF Addrs, Place
  <2> QED BY <1>2, <2>1 DEF AtOf, Words
<1>3. CASE ~(k <= NDIRECT) /\ a[i][NDIRECT] = 0
  BY <1>3 DEF AtOf
<1> QED BY <1>1, <1>2, <1>3

\* The indirect block is at a place of its own.
LEMMA AtIndirect ==
    ASSUME NEW a, NEW wd, NEW i
    PROVE  AtOf(a, wd, i, NDIRECT) = a[i][NDIRECT] /\ NDIRECT \in Place
  BY Sizes DEF AtOf, Place

\* A block is put at an empty place: the map stays exact.
LEMMA MapGrows ==
    ASSUME NEW u, NEW a, NEW wd, MapOK(u, a, wd), NEW b \in Block \ u,
           NEW i \in Inum, NEW k \in Place, AtOf(a, wd, i, k) = 0,
           NEW a2 \in Addrs, NEW wd2 \in Words, AtOf(a2, wd2, i, k) = b,
           \A j \in Inum, l \in Place : <<j, l>> # <<i, k>> =>
              AtOf(a2, wd2, j, l) = AtOf(a, wd, j, l)
    PROVE  MapOK(u \cup {b}, a2, wd2)
<1>1. b # 0 /\ b \notin u
  BY Sizes
<1>2. \A j \in Inum, l \in Place : AtOf(a, wd, j, l) # b
  BY <1>1 DEF MapOK
<1>3. \A j \in Inum, l \in Place : AtOf(a2, wd2, j, l) # 0 => AtOf(a2, wd2, j, l) \in u \cup {b}
  BY DEF MapOK
<1>4. ASSUME NEW j \in Inum, NEW m \in Inum, NEW l \in Place, NEW n \in Place,
             AtOf(a2, wd2, j, l) # 0, AtOf(a2, wd2, j, l) = AtOf(a2, wd2, m, n)
      PROVE  j = m /\ l = n
  <2>1. CASE <<j, l>> = <<i, k>>
    <3>1. AtOf(a2, wd2, m, n) = b
      BY <1>4, <2>1
    <3>2. <<m, n>> = <<i, k>>
      BY <1>2, <3>1
    <3> QED BY <2>1, <3>2
  <2>2. CASE <<m, n>> = <<i, k>>
    <3>1. AtOf(a2, wd2, j, l) = b
      BY <1>4, <2>2
    <3>2. <<j, l>> = <<i, k>>
      BY <1>2, <3>1
    <3> QED BY <2>2, <3>2
  <2>3. CASE <<j, l>> # <<i, k>> /\ <<m, n>> # <<i, k>>
    <3>1. AtOf(a, wd, j, l) # 0 /\ AtOf(a, wd, j, l) = AtOf(a, wd, m, n)
      BY <1>4, <2>3
    <3> QED BY <3>1 DEF MapOK
  <2> QED BY <2>1, <2>2, <2>3
<1>5. ASSUME NEW c \in u \cup {b}
      PROVE  \E j \in Inum, l \in Place : AtOf(a2, wd2, j, l) = c
  <2>1. CASE c = b
    BY <2>1
  <2>2. CASE c \in u
    <3>1. PICK j \in Inum, l \in Place : AtOf(a, wd, j, l) = c
      BY <2>2 DEF MapOK
    <3>2. c # 0
      BY <2>2, Sizes DEF MapOK
    <3>3. <<j, l>> # <<i, k>>
      BY <3>1, <3>2
    <3> QED BY <3>1, <3>3
  <2> QED BY <1>5, <2>1, <2>2
<1>6. u \cup {b} \subseteq Block
  BY DEF MapOK
<1> QED BY <1>3, <1>4, <1>5, <1>6 DEF MapOK

\* balloc() takes a block that is not in use.
LEMMA BallocIs ==
    ASSUME NEW u \in SUBSET Block
    PROVE  balloc(u) \in Block \cup {0} /\ (balloc(u) # 0 => balloc(u) \in Block \ u)
<1>1. CASE u = Block
  BY <1>1 DEF balloc
<1>2. CASE u # Block
  <2>1. Block \ u # {} /\ Block \ u \in SUBSET Nat
    BY <1>2, Sizes
  <2>2. Min(Block \ u) \in Block \ u
    BY <2>1, MinIs
  <2> QED BY <1>2, <2>2 DEF balloc
<1> QED BY <1>1, <1>2

\* What a block holds matters only if it is an indirect block.
LEMMA WordsMatter ==
    ASSUME NEW u, NEW a, NEW wd, MapOK(u, a, wd), NEW wd2 \in Words,
           \A j \in Inum : a[j][NDIRECT] # 0 => wd2[a[j][NDIRECT]] = wd[a[j][NDIRECT]]
    PROVE  /\ MapOK(u, a, wd2)
           /\ \A j \in Inum, l \in Place : AtOf(a, wd2, j, l) = AtOf(a, wd, j, l)
<1>1. \A j \in Inum, l \in Place : AtOf(a, wd2, j, l) = AtOf(a, wd, j, l)
  BY DEF AtOf
<1> QED BY <1>1 DEF MapOK

\* A block that is not in use, and the block at a place for data, is no indirect block.
LEMMA NotIndirect ==
    ASSUME NEW u, NEW a, NEW wd, MapOK(u, a, wd)
    PROVE  /\ \A b \in Block \ u, j \in Inum : a[j][NDIRECT] # b
           /\ \A i, j \in Inum, k \in Place :
                k # NDIRECT /\ AtOf(a, wd, i, k) # 0 => a[j][NDIRECT] # AtOf(a, wd, i, k)
<1>1. \A j \in Inum : a[j][NDIRECT] = AtOf(a, wd, j, NDIRECT) /\ NDIRECT \in Place
  BY AtIndirect
<1>2. \A b \in Block \ u, j \in Inum : a[j][NDIRECT] # b
  BY <1>1, Sizes DEF MapOK
<1>3. \A i, j \in Inum, k \in Place :
         k # NDIRECT /\ AtOf(a, wd, i, k) # 0 => a[j][NDIRECT] # AtOf(a, wd, i, k)
  BY <1>1 DEF MapOK
<1> QED BY <1>2, <1>3

-----------------------------------------------------------------------------
(***************************************************************************)
(* bmap().                                                                 *)
(***************************************************************************)

\* What bmap() promises of the block it returns for a place k of inode i: the map
\* stays exact and only grows, and no more than the block, its bit, and the
\* indirect block with its bit are logged.
Found(i, k, t) ==
    /\ MapOK(t.used, t.addrs, t.word)
    /\ t.addr \in Block \cup {0} /\ t.addr = AtOf(t.addrs, t.word, i, k)
    /\ \A j \in Inum, l \in Place : At(j, l) # 0 => AtOf(t.addrs, t.word, j, l) = At(j, l)
    /\ \A j \in Inum : j # i => t.addrs[j] = addrs[j]
    /\ t.logged \subseteq AllBlocks
    /\ At(i, k) # 0 => t.logged = {}
    /\ t.logged \subseteq
         IndirectOf(t.addrs, i) \cup (IF t.addr = 0 THEN {} ELSE {t.addr, BBLOCK(t.addr)})

\* The words of a clear block, and of a block of data.
LEMMA Clear ==
    /\ Zeros \in [0 .. NINDIRECT - 1 -> Block \cup {0}] /\ Data \in [0 .. NINDIRECT - 1 -> Block \cup {0}]
    /\ \A k \in 0 .. NINDIRECT - 1 : Zeros[k] = 0
  BY Sizes DEF Zeros, Data

\* A direct block, or the indirect block itself.
LEMMA DirectFound ==
    ASSUME MapInv, NEW i \in Inum, NEW bn \in 0 .. NDIRECT, NEW t, t = bmapDirect(i, bn)
    PROVE  Found(i, bn, t)
<1>1. MapOK(used, addrs, word) /\ used \subseteq Block /\ addrs \in Addrs /\ word \in Words
  BY DEF MapInv, MapOK
<1>2. /\ bn \in Place /\ At(i, bn) = addrs[i][bn] /\ addrs[i][bn] \in Block \cup {0}
      /\ \A a, wd : AtOf(a, wd, i, bn) = a[i][bn]
  BY <1>1, Sizes DEF Place, At, AtOf, Addrs
<1>3. CASE addrs[i][bn] # 0 \/ balloc(used) = 0
  <2>1. PICK x \in Block \cup {0} : x = addrs[i][bn]
    BY <1>2
  <2>2. t = [addr |-> x, used |-> used, word |-> word,
             addrs |-> [addrs EXCEPT ![i][bn] = x], logged |-> {}]
    BY <1>3, <2>1 DEF bmapDirect
  <2>3. [addrs EXCEPT ![i][bn] = x] = addrs
    BY <1>1, <2>1 DEF Addrs
  <2>4. /\ t.addr = x /\ t.used = used /\ t.word = word /\ t.addrs = addrs /\ t.logged = {}
    BY <2>2, <2>3
  <2> QED BY <1>1, <1>2, <2>1, <2>4 DEF Found, At
<1>4. CASE addrs[i][bn] = 0 /\ balloc(used) # 0
  <2>1. PICK b \in Block \ used : b = balloc(used)
    BY <1>1, <1>4, BallocIs
  <2>2. PICK a2, wd2 : a2 = [addrs EXCEPT ![i][bn] = b] /\ wd2 = [word EXCEPT ![b] = Zeros]
    OBVIOUS
  <2>3. b # 0
    BY Sizes
  <2>4. t = [addr |-> b, used |-> used \cup {b}, word |-> wd2, addrs |-> a2,
             logged |-> {BBLOCK(b), b}]
    BY <1>4, <2>1, <2>2, <2>3 DEF bmapDirect, bzero
  <2>5. /\ t.addr = b /\ t.used = used \cup {b} /\ t.word = wd2 /\ t.addrs = a2
        /\ t.logged = {BBLOCK(b), b}
    BY <2>4
  <2>6. /\ a2 \in Addrs /\ a2[i][bn] = b
        /\ \A k \in 0 .. NDIRECT : k # bn => a2[i][k] = addrs[i][k]
        /\ \A j \in Inum : j # i => a2[j] = addrs[j]
    BY <1>1, <2>2 DEF Addrs
  <2>7. wd2 \in Words /\ wd2[b] = Zeros /\ \A c \in Block : c # b => wd2[c] = word[c]
    BY <1>1, <2>2, Clear DEF Words
  <2>8. ASSUME NEW j \in Inum, NEW l \in Place, <<j, l>> # <<i, bn>>
        PROVE  AtOf(a2, wd2, j, l) = At(j, l)
    <3>1. CASE l <= NDIRECT
      <4>1. l \in 0 .. NDIRECT
        BY <3>1, Sizes DEF Place
      <4> QED BY <2>6, <2>8, <3>1, <4>1 DEF At, AtOf
    <3>2. CASE ~(l <= NDIRECT) /\ ~(j = i /\ bn = NDIRECT)
      <4>1. a2[j][NDIRECT] = addrs[j][NDIRECT]
        BY <2>6, <3>2, Sizes
      <4>2. addrs[j][NDIRECT] # b /\ addrs[j][NDIRECT] \in Block \cup {0}
        BY <1>1, NotIndirect, Sizes DEF Addrs
      <4> QED BY <2>7, <3>2, <4>1, <4>2 DEF At, AtOf
    <3>3. CASE ~(l <= NDIRECT) /\ j = i /\ bn = NDIRECT
      <4>1. At(j, l) = 0
        BY <1>4, <3>3 DEF At, AtOf
      <4>2. l - NDIRECT - 1 \in 0 .. NINDIRECT - 1
        BY <3>3, Sizes DEF Place
      <4>3. AtOf(a2, wd2, j, l) = Zeros[l - NDIRECT - 1]
        BY <2>3, <2>6, <2>7, <3>3 DEF AtOf
      <4> QED BY <4>1, <4>2, <4>3, Clear
    <3> QED BY <3>1, <3>2, <3>3
  <2>9. AtOf(a2, wd2, i, bn) = b /\ At(i, bn) = 0
    BY <1>2, <1>4, <2>6
  <2>10. MapOK(used \cup {b}, a2, wd2)
    <3>1. \A j \in Inum, l \in Place : <<j, l>> # <<i, bn>> =>
             AtOf(a2, wd2, j, l) = AtOf(addrs, word, j, l)
      BY <2>8 DEF At
    <3>2. AtOf(addrs, word, i, bn) = 0
      BY <2>9 DEF At
    <3> QED BY <1>1, <1>2, <2>6, <2>7, <2>9, <3>1, <3>2, MapGrows
  <2>11. \A j \in Inum, l \in Place : At(j, l) # 0 => AtOf(a2, wd2, j, l) = At(j, l)
    BY <2>8, <2>9
  <2>12. {BBLOCK(b), b} \subseteq AllBlocks
    BY DEF AllBlocks
  <2> QED BY <2>3, <2>5, <2>6, <2>9, <2>10, <2>11, <2>12 DEF Found
<1> QED BY <1>3, <1>4

\* A block behind the indirect one.
LEMMA IndirectFound ==
    ASSUME MapInv, NEW i \in Inum, NEW k \in 0 .. NINDIRECT - 1, NEW r, r = bmapIndirect(i, k)
    PROVE  Found(i, NDIRECT + 1 + k, r)
<1>1. PICK t : t = bmapDirect(i, NDIRECT)
  OBVIOUS
<1>2. Found(i, NDIRECT, t)
  BY <1>1, DirectFound, Sizes
<1>3. PICK K \in Place : K = NDIRECT + 1 + k
  BY Sizes DEF Place
<1>4. ~(K <= NDIRECT) /\ K - NDIRECT - 1 = k /\ K # NDIRECT
  BY <1>3, Sizes
<1>5. /\ MapOK(t.used, t.addrs, t.word) /\ t.used \subseteq Block /\ t.addrs \in Addrs
      /\ t.word \in Words /\ t.addr \in Block \cup {0}
  BY <1>2 DEF Found, MapOK
<1>6. t.addr = t.addrs[i][NDIRECT]
  BY <1>2, AtIndirect DEF Found
<1>7. t.logged \subseteq IndirectOf(t.addrs, i)
  BY <1>2, <1>6 DEF Found, IndirectOf
<1>8. At(i, K) # 0 => At(i, NDIRECT) # 0
  BY <1>4, AtIndirect DEF At, AtOf
<1>9. CASE t.addr = 0
  <2>1. r = t
    BY <1>1, <1>9 DEF bmapIndirect
  <2>2. AtOf(t.addrs, t.word, i, K) = 0
    BY <1>4, <1>6, <1>9 DEF AtOf
  <2>3. At(i, K) # 0 => t.logged = {}
    BY <1>2, <1>8 DEF Found
  <2> QED BY <1>2, <1>3, <1>7, <1>9, <2>1, <2>2, <2>3 DEF Found
<1>10. CASE t.addr # 0
  <2>1. t.addr \in Block
    BY <1>5, <1>10
  <2>2. PICK old : old = t.word[t.addr][k] /\ old \in Block \cup {0}
    BY <1>5, <2>1 DEF Words
  <2>3. old = AtOf(t.addrs, t.word, i, K)
    BY <1>4, <1>6, <1>10, <2>2 DEF AtOf
  <2>4. CASE old # 0 \/ balloc(t.used) = 0
    <3>1. r = [addr |-> old, used |-> t.used, word |-> t.word, addrs |-> t.addrs,
               logged |-> t.logged \cup {}]
      BY <1>1, <1>10, <2>2, <2>4 DEF bmapIndirect
    <3>2. /\ r.addr = old /\ r.used = t.used /\ r.word = t.word /\ r.addrs = t.addrs
          /\ r.logged = t.logged
      BY <3>1
    <3>3. At(i, K) # 0 => t.logged = {}
      BY <1>2, <1>8 DEF Found
    <3> QED BY <1>2, <1>3, <1>7, <2>2, <2>3, <3>2, <3>3 DEF Found
  <2>5. CASE old = 0 /\ balloc(t.used) # 0
    <3>1. PICK b \in Block \ t.used : b = balloc(t.used)
      BY <1>5, <2>5, BallocIs
    <3>2. b # 0 /\ b # t.addr /\ t.addr # 0
      BY <1>5, <1>6, <1>10, Sizes, NotIndirect
    <3>3. PICK wd2 : wd2 = [bzero(t.word, b) EXCEPT ![t.addr][k] = b]
      OBVIOUS
    <3>4. r = [addr |-> b, used |-> t.used \cup {b}, word |-> wd2, addrs |-> t.addrs,
               logged |-> t.logged \cup {BBLOCK(b), b, t.addr}]
      BY <1>1, <1>10, <2>2, <2>5, <3>1, <3>2, <3>3 DEF bmapIndirect
    <3>5. /\ r.addr = b /\ r.used = t.used \cup {b} /\ r.word = wd2 /\ r.addrs = t.addrs
          /\ r.logged = t.logged \cup {BBLOCK(b), b, t.addr}
      BY <3>4
    <3>6. /\ wd2 \in Words /\ wd2[t.addr][k] = b
          /\ \A c \in Block : c # b /\ c # t.addr => wd2[c] = t.word[c]
          /\ \A m \in 0 .. NINDIRECT - 1 : m # k => wd2[t.addr][m] = t.word[t.addr][m]
      <4>1. PICK wd1 : wd1 = [t.word EXCEPT ![b] = Zeros]
        OBVIOUS
      <4>2. wd1 \in Words /\ \A c \in Block : c # b => wd1[c] = t.word[c]
        BY <1>5, <4>1, Clear DEF Words
      <4>3. wd2 = [wd1 EXCEPT ![t.addr][k] = b]
        BY <3>3, <4>1 DEF bzero
      <4> QED BY <2>1, <3>2, <4>2, <4>3 DEF Words
    <3>7. ASSUME NEW j \in Inum, NEW l \in Place, <<j, l>> # <<i, K>>
          PROVE  AtOf(t.addrs, wd2, j, l) = AtOf(t.addrs, t.word, j, l)
      <4>1. CASE l <= NDIRECT \/ t.addrs[j][NDIRECT] = 0
        BY <4>1 DEF AtOf
      <4>2. CASE ~(l <= NDIRECT) /\ t.addrs[j][NDIRECT] # 0 /\ j # i
        <5>1. t.addrs[j][NDIRECT] \in Block /\ t.addrs[j][NDIRECT] # b
          BY <1>5, <4>2, NotIndirect, Sizes DEF Addrs
        <5>2. t.addrs[j][NDIRECT] # t.addr
          BY <1>5, <1>6, <3>2, <4>2, AtIndirect DEF MapOK
        <5> QED BY <3>6, <4>2, <5>1, <5>2 DEF AtOf
      <4>3. CASE ~(l <= NDIRECT) /\ t.addrs[j][NDIRECT] # 0 /\ j = i
        <5>1. l - NDIRECT - 1 \in 0 .. NINDIRECT - 1 /\ l - NDIRECT - 1 # k
          BY <1>3, <3>7, <4>3, Sizes DEF Place
        <5> QED BY <1>6, <3>6, <4>3, <5>1 DEF AtOf
      <4> QED BY <4>1, <4>2, <4>3
    <3>8. AtOf(t.addrs, wd2, i, K) = b /\ AtOf(t.addrs, t.word, i, K) = 0
      BY <1>4, <1>6, <2>3, <2>5, <3>2, <3>6 DEF AtOf
    <3>9. MapOK(t.used \cup {b}, t.addrs, wd2)
      BY <1>5, <3>6, <3>7, <3>8, MapGrows
    <3>10. \A j \in Inum, l \in Place : At(j, l) # 0 => AtOf(t.addrs, wd2, j, l) = At(j, l)
      <4>1. \A j \in Inum, l \in Place : At(j, l) # 0 => AtOf(t.addrs, t.word, j, l) = At(j, l)
        BY <1>2 DEF Found
      <4>2. At(i, K) = 0
        BY <3>8, <4>1
      <4> QED BY <3>7, <4>1, <4>2
    <3>11. At(i, K) = 0
      BY <1>2, <3>8 DEF Found
    <3>12. r.logged \subseteq AllBlocks
      BY <1>2, <2>1, <3>5 DEF Found, AllBlocks
    <3>13. r.logged \subseteq IndirectOf(t.addrs, i) \cup {b, BBLOCK(b)}
      BY <1>6, <1>7, <3>2, <3>5 DEF IndirectOf
    <3>14. \A j \in Inum : j # i => t.addrs[j] = addrs[j]
      BY <1>2 DEF Found
    <3> QED BY <1>3, <3>2, <3>5, <3>8, <3>9, <3>10, <3>11, <3>12, <3>13, <3>14 DEF Found
  <2> QED BY <2>4, <2>5
<1> QED BY <1>9, <1>10

\* bmap() itself.
LEMMA BmapFound ==
    ASSUME MapInv, NEW i \in Inum, NEW bn \in 0 .. MAXFILE - 1, NEW t, t = bmap(i, bn)
    PROVE  Found(i, PlaceOf(bn), t)
<1>1. CASE bn < NDIRECT
  <2>1. t = bmapDirect(i, bn) /\ bn \in 0 .. NDIRECT /\ PlaceOf(bn) = bn
    BY <1>1, Sizes DEF bmap, PlaceOf
  <2> QED BY <2>1, DirectFound
<1>2. CASE ~(bn < NDIRECT)
  <2>1. PICK k \in 0 .. NINDIRECT - 1 : k = bn - NDIRECT
    BY <1>2, Sizes
  <2>2. t = bmapIndirect(i, k) /\ PlaceOf(bn) = NDIRECT + 1 + k
    BY <1>2, <2>1, Sizes DEF bmap, PlaceOf
  <2> QED BY <2>2, IndirectFound
<1> QED BY <1>1, <1>2

-----------------------------------------------------------------------------
(***************************************************************************)
(* filewrite() and its neighbours.                                         *)
(***************************************************************************)

\* The types of a write, and of the inode it writes.
LEMMA Writer ==
    ASSUME DataInv, NEW p \in Proc
    PROVE  /\ w[p] \in WriteRec /\ w[p].n \in Nat /\ w[p].off \in Nat /\ w[p].tot \in Nat
           /\ w[p].left \in Nat /\ logged[p] \subseteq AllBlocks
           /\ pc[p] \in InWrite => w[p].f \in File /\ Ino(p) \in Inum
           /\ CallOf(p) /\ InChunk \subseteq InWrite
<1>1. w[p] \in WriteRec /\ logged[p] \subseteq AllBlocks /\ CallOf(p) /\ InChunk \subseteq InWrite
  BY DEF DataInv, WriteInv, InChunk, InWrite
<1>2. w[p].n \in Nat /\ w[p].off \in Nat /\ w[p].tot \in Nat /\ w[p].left \in Nat
  BY <1>1 DEF WriteRec
<1>3. pc[p] \in InWrite => w[p].f \in File /\ Ino(p) \in Inum
  BY <1>1 DEF CallOf, WriteOf, Ino, DataInv, TableInv, BlankInv
<1> QED BY <1>1, <1>2, <1>3

\* One chunk at a time for an inode.
LEMMA OneChunk ==
    ASSUME DataInv, NEW p \in Proc, NEW q \in Proc, pc[p] \in InChunk, pc[q] \in InChunk, p # q
    PROVE  Ino(p) # Ino(q)
  BY Writer DEF CallOf, ChunkOf

\* What a step leaves alone of the write of another process.
Still(q) ==
    /\ pc'[q] = pc[q] /\ w'[q] = w[q] /\ logged'[q] = logged[q] /\ ofile'[q] = ofile[q]
    /\ pc[q] \in InWrite => file'[w[q].f].type = file[w[q].f].type
                            /\ file'[w[q].f].ip = file[w[q].f].ip
    /\ pc[q] \in InChunk => file'[w[q].f].off = file[w[q].f].off

\* Then that write is still in order, if its inode is left alone as well.
LEMMA Bystander ==
    ASSUME DataInv, NEW q \in Proc, Still(q),
           pc[q] \in InChunk =>
              /\ lock'[Ino(q)] = lock[Ino(q)] /\ size'[Ino(q)] = size[Ino(q)]
              /\ addrs'[Ino(q)] = addrs[Ino(q)]
              /\ \A k \in Place : At(Ino(q), k) # 0 => AtOf(addrs', word', Ino(q), k) # 0
    PROVE  CallOf(q)'
<1>1. CallOf(q) /\ InChunk \subseteq InWrite
  BY Writer
<1>2. WriteOf(q)'
  BY <1>1 DEF CallOf, WriteOf, Still
<1>3. CASE pc[q] \in InChunk
  <2>1. PICK i \in Inum : i = Ino(q)
    BY <1>1, <1>3, Writer
  <2>2. Ino(q)' = i /\ pc'[q] \in InChunk
    BY <1>1, <1>3, <2>1 DEF Still, Ino
  <2>3. /\ lock'[i] = lock[i] /\ size'[i] = size[i] /\ addrs'[i] = addrs[i]
        /\ \A k \in Place : At(i, k) # 0 => AtOf(addrs', word', i, k) # 0
    BY <1>3, <2>1
  <2>4. ChunkOf(q)'
    BY <1>1, <1>3, <2>1, <2>2, <2>3 DEF CallOf, ChunkOf, Still
  <2>5. NewEnd(q)' = NewEnd(q)
    BY DEF NewEnd, Still
  <2>6. CoverOf(q)'
    <3> SUFFICES ASSUME NEW bn \in 0 .. MAXFILE - 1, bn * BSIZE < NewEnd(q)
                 PROVE  AtOf(addrs', word', i, PlaceOf(bn)) # 0
      BY <2>2, <2>5 DEF CoverOf, At
    <3>1. At(i, PlaceOf(bn)) # 0
      BY <1>1, <1>3, <2>1 DEF CallOf, CoverOf
    <3> QED BY <2>3, <3>1, Sizes
  <2>7. Logged(q)' = Logged(q)
    <3>1. IndirectOf(addrs', i) = IndirectOf(addrs, i)
      BY <2>3 DEF IndirectOf
    <3> QED BY <2>1, <2>2, <3>1 DEF Logged, Still
  <2>8. \A t \in Nat : Turns(q, t)' <=> Turns(q, t)
    BY <2>7 DEF Turns, Lead, Saved, Still
  <2>9. LogOf(q)'
    BY <1>1, <1>3, <2>2, <2>7, <2>8 DEF CallOf, LogOf, Still
  <2> QED BY <1>2, <2>4, <2>6, <2>9 DEF CallOf
<1>4. CASE pc[q] \notin InChunk
  <2>1. pc'[q] \notin InChunk /\ "writei" \in InChunk
    BY <1>4 DEF Still, InChunk
  <2>2. ChunkOf(q)' /\ CoverOf(q)'
    BY <2>1 DEF ChunkOf, CoverOf
  <2>3. LogOf(q)'
    BY <1>1, <1>4, <2>1 DEF CallOf, LogOf, Still
  <2> QED BY <1>2, <2>2, <2>3 DEF CallOf
<1> QED BY <1>3, <1>4

\* A step of a write keeps the table: it moves offsets of files that are open.
LEMMA WriteTable ==
    ASSUME TableInv, UNCHANGED <<ofile, held, fds, np>>, pc' \in [Proc -> PCs],
           file' \in [File -> FileRec],
           \A q \in Proc : pc'[q] = pc[q] \/ {pc'[q], pc[q]} \subseteq InWrite \cup {"user"},
           \A f \in File : /\ file'[f].ref = file[f].ref /\ file'[f].type = file[f].type
                           /\ file'[f].ip = file[f].ip
                           /\ file[f].ref = 0 => file'[f] = file[f]
    PROVE  TableInv'
<1>1. TableTypes'
  BY DEF TableInv, TableTypes
<1>2. CallInv'
  <2>1. \A q \in Proc : pc'[q] = pc[q] \/ {pc'[q], pc[q]} \cap
          {"pipe", "pipealloc", "pipefd", "bad", "fork", "embryo"} = {}
    BY DEF InWrite
  <2>2. ASSUME NEW q \in Proc, NEW k \in 1 .. 2
        PROVE  HeldOf(q, k)' /\ FdOf(q, k)'
    <3>1. HeldOf(q, k) /\ FdOf(q, k) /\ held' = held /\ fds' = fds /\ ofile' = ofile
      BY DEF TableInv, CallInv
    <3>2. held[q][k] # None => held[q][k] \in File
      BY HeldFile
    <3> QED BY <2>1, <3>1, <3>2 DEF HeldOf, FdOf, Fresh
  <2>3. ASSUME NEW q \in Proc PROVE ForkOf(q)'
    <3>1. ForkOf(q) /\ np' = np
      BY DEF TableInv, CallInv
    <3>2. \A r \in Proc : (pc'[r] = "fork" <=> pc[r] = "fork") /\ (pc'[r] = "embryo" <=> pc[r] = "embryo")
      BY <2>1
    <3> QED BY <3>1, <3>2 DEF ForkOf
  <2> QED BY <2>2, <2>3 DEF CallInv
<1>3. BlankInv'
  BY DEF TableInv, BlankInv
<1>4. FileRefExact'
  BY DEF TableInv, FileRefExact
<1> QED BY <1>1, <1>2, <1>3, <1>4 DEF TableInv

\* A step of the table alone.
LEMMA TableData ==
    ASSUME DataInv, TableInv', Kept, UNCHANGED dataVars
    PROVE  DataInv'
<1>1. UNCHANGED <<used, word, addrs, size, lock, w, logged, panic>>
  BY DEF dataVars
<1>2. MapInv' /\ CoverInv'
  BY <1>1 DEF DataInv, MapInv, CoverInv, At
<1>3. SizeInv'
  <2>1. \A f \in File : file'[f].off \in Nat /\ file[f].off \in Nat /\ file'[f].off <= file[f].off
    BY DEF DataInv, TableInv, TableTypes, FileRec, Kept
  <2>2. \A f \in File : file'[f].off <= End
    BY <2>1, Sizes DEF DataInv, SizeInv
  <2> QED BY <1>1, <2>2 DEF DataInv, SizeInv
<1>4. ASSUME NEW q \in Proc, pc[q] \in InWrite
      PROVE  Still(q)
  <2>1. PICK fd \in FD : ofile[q][fd] = w[q].f
    BY <1>4, Writer DEF CallOf, WriteOf
  <2>2. w[q].f # None
    BY <1>4, Writer, FilesAssumption
  <2>3. SameFile(w[q].f)
    BY <1>4, <2>1, <2>2 DEF Kept
  <2> QED BY <1>1, <1>4, <2>3 DEF Kept, Still, SameFile
<1>5. ASSUME NEW q \in Proc
      PROVE  CallOf(q)'
  <2>1. CASE pc[q] \in InWrite
    BY <1>1, <1>4, <2>1, Bystander DEF At
  <2>2. CASE pc[q] \notin InWrite
    <3>1. pc'[q] \notin InWrite /\ pc'[q] \notin InChunk /\ pc[q] \notin InChunk
          /\ pc'[q] # "writei" /\ logged[q] = {}
      BY <2>2, Writer DEF Kept, InWrite, InChunk, CallOf, LogOf
    <3> QED BY <1>1, <3>1 DEF CallOf, WriteOf, ChunkOf, CoverOf, LogOf
  <2> QED BY <2>1, <2>2
<1>6. ASSUME NEW i \in Inum, NEW q \in Proc, lock'[i] = q
      PROVE  pc'[q] \in InChunk /\ Ino(q)' = i
  <2>1. pc[q] \in InChunk /\ Ino(q) = i /\ pc[q] \in InWrite
    BY <1>1, <1>6, Writer DEF DataInv, WriteInv
  <2>2. Still(q)
    BY <1>4, <2>1
  <2> QED BY <1>1, <2>1, <2>2 DEF Still, Ino
<1>7. WriteInv'
  BY <1>1, <1>5, <1>6 DEF DataInv, WriteInv
<1> QED BY <1>2, <1>3, <1>7 DEF DataInv

\* The blocks that itrunc() frees are those at the places of the inode.
LEMMA MappedIs ==
    ASSUME DataInv, NEW i \in Inum
    PROVE  \A b : b \in Mapped(i) <=> b # 0 /\ \E k \in Place : At(i, k) = b
<1>1. DOMAIN Zeros = 0 .. NINDIRECT - 1 /\ NDIRECT \in Nat /\ NINDIRECT \in Nat
  BY Sizes DEF Zeros
<1>2. ASSUME NEW b, b \in Mapped(i)
      PROVE  b # 0 /\ \E k \in Place : At(i, k) = b
  <2>1. b # 0
    BY <1>2 DEF Mapped
  <2>2. CASE \E k \in 0 .. NDIRECT : addrs[i][k] = b
    <3>1. PICK k \in 0 .. NDIRECT : addrs[i][k] = b
      BY <2>2
    <3>2. k \in Place /\ At(i, k) = b
      BY <1>1, <3>1 DEF Place, At, AtOf
    <3> QED BY <2>1, <3>2
  <2>3. CASE addrs[i][NDIRECT] # 0 /\ \E k \in 0 .. NINDIRECT - 1 : word[addrs[i][NDIRECT]][k] = b
    <3>1. PICK k \in 0 .. NINDIRECT - 1 : word[addrs[i][NDIRECT]][k] = b
      BY <2>3
    <3>2. PICK K \in Place : K = NDIRECT + 1 + k
      BY <1>1 DEF Place
    <3>3. ~(K <= NDIRECT) /\ K - NDIRECT - 1 = k
      BY <1>1, <3>2
    <3>4. At(i, K) = b
      BY <2>3, <3>1, <3>3 DEF At, AtOf
    <3> QED BY <2>1, <3>4
  <2> QED BY <1>1, <1>2, <2>2, <2>3 DEF Mapped
<1>3. ASSUME NEW b, b # 0, NEW k \in Place, At(i, k) = b
      PROVE  b \in Mapped(i)
  <2>1. CASE k <= NDIRECT
    <3>1. k \in 0 .. NDIRECT /\ addrs[i][k] = b
      BY <1>1, <1>3, <2>1 DEF Place, At, AtOf
    <3> QED BY <1>3, <3>1 DEF Mapped
  <2>2. CASE ~(k <= NDIRECT)
    <3>1. addrs[i][NDIRECT] # 0 /\ word[addrs[i][NDIRECT]][k - NDIRECT - 1] = b
      BY <1>3, <2>2 DEF At, AtOf
    <3>2. k - NDIRECT - 1 \in 0 .. NINDIRECT - 1
      BY <1>1, <2>2 DEF Place
    <3> QED BY <1>1, <1>3, <3>1, <3>2 DEF Mapped
  <2> QED BY <2>1, <2>2
<1> QED BY <1>2, <1>3

\* sys_open() with O_TRUNC: the blocks of the inode and nothing else are freed, and
\* bfree() finds each of them in use.
LEMMA TruncData ==
    ASSUME DataInv, NEW p \in Proc, NEW i \in Inum, lock[i] = None, OpenFile(p, i), itrunc(i),
           UNCHANGED <<lock, w, logged>>
    PROVE  DataInv'
<1>1. TableInv' /\ Kept
  BY OpenTable DEF DataInv
<1>2. MapOK(used, addrs, word) /\ used \subseteq Block /\ addrs \in Addrs /\ word \in Words
  BY DEF DataInv, MapInv, MapOK
<1>3. Mapped(i) \subseteq used
  BY <1>2, MappedIs DEF MapOK, At
<1>4. /\ used' = used \ Mapped(i) /\ panic' = FALSE
      /\ addrs' = [addrs EXCEPT ![i] = [k \in 0 .. NDIRECT |-> 0]]
      /\ size' = [size EXCEPT ![i] = 0]
      /\ word' = [b \in Block |-> IF b \in Mapped(i) THEN Data ELSE word[b]]
  BY <1>3 DEF itrunc
<1>5. /\ addrs' \in Addrs /\ \A k \in 0 .. NDIRECT : addrs'[i][k] = 0
      /\ \A j \in Inum : j # i => addrs'[j] = addrs[j]
  BY <1>2, <1>4 DEF Addrs
<1>6. /\ word' \in Words /\ \A b \in Block : b \notin Mapped(i) => word'[b] = word[b]
  BY <1>2, <1>4, Clear DEF Words
<1>7. \A k \in Place : AtOf(addrs', word', i, k) = 0
  BY <1>5, Sizes DEF AtOf, Place
<1>8. ASSUME NEW j \in Inum, NEW k \in Place, j # i
      PROVE  AtOf(addrs', word', j, k) = At(j, k)
  <2>1. CASE k <= NDIRECT \/ addrs[j][NDIRECT] = 0
    BY <1>5, <1>8, <2>1 DEF At, AtOf
  <2>2. CASE ~(k <= NDIRECT) /\ addrs[j][NDIRECT] # 0
    <3>1. addrs[j][NDIRECT] \in Block /\ addrs[j][NDIRECT] = At(j, NDIRECT) /\ NDIRECT \in Place
      BY <1>2, <2>2, Sizes, AtIndirect DEF Addrs, At
    <3>2. addrs[j][NDIRECT] \notin Mapped(i)
      BY <1>2, <1>8, <2>2, <3>1, MappedIs DEF MapOK, At
    <3> QED BY <1>5, <1>6, <1>8, <2>2, <3>1, <3>2 DEF At, AtOf
  <2> QED BY <2>1, <2>2
<1>9. MapInv'
  <2>1. \A j \in Inum, k \in Place : AtOf(addrs', word', j, k) # 0 =>
           j # i /\ AtOf(addrs', word', j, k) = At(j, k)
    BY <1>7, <1>8
  <2>2. ASSUME NEW j \in Inum, NEW k \in Place, AtOf(addrs', word', j, k) # 0
        PROVE  AtOf(addrs', word', j, k) \in used'
    <3>1. j # i /\ At(j, k) # 0 /\ AtOf(addrs', word', j, k) = At(j, k)
      BY <2>1, <2>2
    <3>2. At(j, k) \in used /\ At(j, k) \notin Mapped(i)
      BY <1>2, <3>1, MappedIs DEF MapOK, At
    <3> QED BY <1>4, <3>1, <3>2
  <2>3. \A j, m \in Inum, k, l \in Place :
           AtOf(addrs', word', j, k) # 0 /\ AtOf(addrs', word', j, k) = AtOf(addrs', word', m, l)
             => j = m /\ k = l
    BY <1>2, <2>1 DEF MapOK, At
  <2>4. ASSUME NEW b \in used'
        PROVE  \E j \in Inum, k \in Place : AtOf(addrs', word', j, k) = b
    <3>1. b \in used /\ b \notin Mapped(i) /\ b # 0
      BY <1>2, <1>4, <2>4, Sizes
    <3>2. PICK j \in Inum, k \in Place : At(j, k) = b
      BY <1>2, <3>1 DEF MapOK, At
    <3>3. j # i
      BY <3>1, <3>2, MappedIs
    <3> QED BY <1>8, <3>2, <3>3
  <2>5. used' \subseteq Block
    BY <1>2, <1>4
  <2> QED BY <1>5, <1>6, <2>2, <2>3, <2>4, <2>5 DEF MapInv, MapOK
<1>10. size' \in [Inum -> 0 .. End] /\ size'[i] = 0 /\ \A j \in Inum : j # i => size'[j] = size[j]
  BY <1>4, Sizes DEF DataInv, SizeInv
<1>11. CoverInv'
  <2> SUFFICES ASSUME NEW j \in Inum, NEW bn \in 0 .. MAXFILE - 1, bn * BSIZE < size'[j]
               PROVE  AtOf(addrs', word', j, PlaceOf(bn)) # 0
    BY DEF CoverInv, At
  <2>1. j # i
    BY <1>10, Sizes, TimesNext
  <2>2. At(j, PlaceOf(bn)) # 0
    BY <1>10, <2>1 DEF DataInv, CoverInv
  <2> QED BY <1>8, <2>1, <2>2, Sizes
<1>12. SizeInv'
  <2>1. \A f \in File : file'[f].off \in Nat /\ file[f].off \in Nat /\ file'[f].off <= file[f].off
    BY <1>1 DEF DataInv, TableInv, TableTypes, FileRec, Kept
  <2>2. \A f \in File : file'[f].off <= End
    BY <2>1, Sizes DEF DataInv, SizeInv
  <2> QED BY <1>4, <1>10, <2>2 DEF SizeInv
<1>13. ASSUME NEW q \in Proc, pc[q] \in InWrite
       PROVE  Still(q)
  <2>1. PICK fd \in FD : ofile[q][fd] = w[q].f
    BY <1>13, Writer DEF CallOf, WriteOf
  <2>2. w[q].f # None
    BY <1>13, Writer, FilesAssumption
  <2>3. SameFile(w[q].f)
    BY <1>1, <1>13, <2>1, <2>2 DEF Kept
  <2> QED BY <1>1, <1>13, <2>3 DEF Kept, Still, SameFile
<1>14. ASSUME NEW q \in Proc
       PROVE  CallOf(q)'
  <2>1. CASE pc[q] \in InWrite
    <3>1. ASSUME pc[q] \in InChunk
          PROVE  Ino(q) \in Inum /\ Ino(q) # i
      <4>1. Ino(q) \in Inum /\ lock[Ino(q)] = q
        BY <3>1, Writer DEF CallOf, ChunkOf
      <4> QED BY <4>1, FilesAssumption
    <3>2. pc[q] \in InChunk =>
              /\ lock'[Ino(q)] = lock[Ino(q)] /\ size'[Ino(q)] = size[Ino(q)]
              /\ addrs'[Ino(q)] = addrs[Ino(q)]
              /\ \A k \in Place : At(Ino(q), k) # 0 => AtOf(addrs', word', Ino(q), k) # 0
      BY <1>5, <1>8, <1>10, <3>1
    <3> QED BY <1>13, <2>1, <3>2, Bystander
  <2>2. CASE pc[q] \notin InWrite
    <3>1. pc'[q] \notin InWrite /\ pc'[q] \notin InChunk /\ pc[q] \notin InChunk
          /\ pc'[q] # "writei" /\ logged[q] = {}
      BY <1>1, <2>2, Writer DEF Kept, InWrite, InChunk, CallOf, LogOf
    <3> QED BY <3>1 DEF CallOf, WriteOf, ChunkOf, CoverOf, LogOf
  <2> QED BY <2>1, <2>2
<1>15. ASSUME NEW j \in Inum, NEW q \in Proc, lock'[j] = q
      PROVE  pc'[q] \in InChunk /\ Ino(q)' = j
  <2>1. pc[q] \in InChunk /\ Ino(q) = j /\ pc[q] \in InWrite
    BY <1>15, Writer DEF DataInv, WriteInv
  <2>2. Still(q)
    BY <1>13, <2>1
  <2> QED BY <2>1, <2>2 DEF Still, Ino
<1>16. WriteInv'
  BY <1>14, <1>15 DEF DataInv, WriteInv
<1> QED BY <1>1, <1>9, <1>11, <1>12, <1>16 DEF DataInv

\* The step of one process, seen by the others that hold other inodes.
LEMMA OthersStill ==
    ASSUME DataInv, NEW p \in Proc,
           \A q \in Proc : q # p => Still(q),
           \A q \in Proc : q # p /\ pc[q] \in InChunk =>
              /\ lock'[Ino(q)] = lock[Ino(q)] /\ size'[Ino(q)] = size[Ino(q)]
              /\ addrs'[Ino(q)] = addrs[Ino(q)]
              /\ \A k \in Place : At(Ino(q), k) # 0 => AtOf(addrs', word', Ino(q), k) # 0,
           CallOf(p)', w' \in [Proc -> WriteRec], lock' \in [Inum -> Proc \cup {None}],
           logged' \in [Proc -> SUBSET AllBlocks],
           \A i \in Inum : /\ lock'[i] = p => pc'[p] \in InChunk /\ Ino(p)' = i
                           /\ lock'[i] # p => lock'[i] \in {None, lock[i]}
    PROVE  WriteInv'
<1>1. \A q \in Proc : CallOf(q)'
  BY Bystander
<1>2. ASSUME NEW i \in Inum, NEW q \in Proc, lock'[i] = q
      PROVE  pc'[q] \in InChunk /\ Ino(q)' = i
  <2>1. CASE q = p
    BY <1>2, <2>1
  <2>2. CASE q # p
    <3>1. lock[i] = q
      BY <1>2, <2>2, FilesAssumption
    <3>2. pc[q] \in InChunk /\ Ino(q) = i /\ pc[q] \in InWrite
      BY <3>1, Writer DEF DataInv, WriteInv
    <3> QED BY <2>2, <3>2 DEF Still, Ino
  <2> QED BY <2>1, <2>2
<1> QED BY <1>1, <1>2 DEF WriteInv

\* filewrite() begins.
LEMMA WriteData ==
    ASSUME DataInv, NEW p \in Proc, NEW fd \in FD, NEW n \in WriteLens, sys_write(p, fd, n)
    PROVE  DataInv'
<1>1. PICK f \in File : f = ofile[p][fd] /\ file[f].type = "inode"
  BY DEF sys_write, DataInv, TableInv, TableTypes, OFiles
<1>2. n \in Nat /\ n < UintMax1
  BY DataAssumption
<1>3. PICK x : x = [NoWrite EXCEPT !.f = f, !.left = n]
  OBVIOUS
<1>4. x \in WriteRec /\ x.f = f /\ x.left < UintMax1
  BY <1>2, <1>3 DEF NoWrite, WriteRec
<1>5. /\ pc[p] = "user" /\ pc' = [pc EXCEPT ![p] = "chunk"] /\ w' = [w EXCEPT ![p] = x]
      /\ UNCHANGED <<file, ofile, held, fds, np>>
      /\ UNCHANGED <<used, word, addrs, size, lock, logged, panic>>
  BY <1>1, <1>3 DEF sys_write, Goto, tableVars
<1>6. /\ pc \in [Proc -> PCs] /\ file \in [File -> FileRec] /\ w \in [Proc -> WriteRec]
      /\ lock \in [Inum -> Proc \cup {None}] /\ logged \in [Proc -> SUBSET AllBlocks]
  BY DEF DataInv, TableInv, TableTypes, WriteInv
<1>7. /\ pc' \in [Proc -> PCs] /\ pc'[p] = "chunk" /\ w'[p] = x /\ w' \in [Proc -> WriteRec]
      /\ \A q \in Proc : q # p => pc'[q] = pc[q] /\ w'[q] = w[q]
  BY <1>4, <1>5, <1>6 DEF PCs
<1>8. TableInv'
  <2>1. \A q \in Proc : pc'[q] = pc[q] \/ {pc'[q], pc[q]} \subseteq InWrite \cup {"user"}
    BY <1>5, <1>7 DEF InWrite
  <2> QED BY <1>5, <1>6, <1>7, <2>1, WriteTable DEF DataInv
<1>9. MapInv' /\ CoverInv' /\ SizeInv'
  BY <1>5 DEF DataInv, MapInv, CoverInv, SizeInv, At
<1>10. CallOf(p)'
  <2>1. pc'[p] \notin InChunk /\ pc'[p] # "writei" /\ pc[p] \notin InChunk
    BY <1>5, <1>7 DEF InChunk
  <2>2. logged'[p] = {}
    BY <1>5, <2>1, Writer DEF CallOf, LogOf
  <2>3. WriteOf(p)'
    BY <1>1, <1>4, <1>5, <1>7 DEF WriteOf
  <2> QED BY <2>1, <2>2, <2>3 DEF CallOf, ChunkOf, CoverOf, LogOf
<1>11. \A q \in Proc : q # p => Still(q)
  BY <1>5, <1>7 DEF Still
<1>12. \A i \in Inum : lock'[i] # p
  BY <1>5 DEF DataInv, WriteInv, InChunk
<1>13. WriteInv'
  BY <1>5, <1>6, <1>7, <1>10, <1>11, <1>12, OthersStill DEF At
<1> QED BY <1>8, <1>9, <1>13 DEF DataInv

\* A sum of uints that is not below the first of them has not wrapped.
LEMMA PlusIs ==
    ASSUME NEW a \in Nat, NEW b \in Nat, a < UintMax1, b < UintMax1
    PROVE  Plus(a, b) \in Nat /\ (Plus(a, b) >= a => Plus(a, b) = a + b)
<1>1. UintMax1 \in Nat \ {0}
  BY DataAssumption
<1>2. CASE a + b < UintMax1
  <2>1. (0 * UintMax1 + (a + b)) % UintMax1 = a + b
    BY <1>1, <1>2, DivModIs
  <2> QED BY <1>1, <2>1 DEF Plus
<1>3. CASE ~(a + b < UintMax1)
  <2>1. PICK r \in Nat : r = a + b - UintMax1 /\ r < UintMax1 /\ r < a
    BY <1>1, <1>3
  <2>2. (1 * UintMax1 + r) % UintMax1 = r
    BY <1>1, <2>1, DivModIs
  <2>3. a + b = 1 * UintMax1 + r
    BY <1>1, <2>1
  <2>4. Plus(a, b) = r
    BY <2>2, <2>3 DEF Plus
  <2> QED BY <2>1, <2>4
<1> QED BY <1>2, <1>3

\* The largest file is shorter than the largest uint.
LEMMA EndFits == UintMax1 \in Nat /\ End < UintMax1
<1>1. (MAXFILE + MAXFILE) * BSIZE = End + End /\ End \in Nat
  BY Sizes, TimesPlus DEF End
<1>2. 2 * MAXFILE = MAXFILE + MAXFILE
  BY Sizes
<1> QED BY <1>1, <1>2, DataAssumption

\* The end of a read is where it began, or within the file.
LEMMA ReadiEnds ==
    ASSUME NEW off \in Nat, NEW n \in Nat, NEW sz \in Nat, off < UintMax1, n < UintMax1
    PROVE  /\ ReadiLen(off, n, sz) \in Nat
           /\ off + ReadiLen(off, n, sz) <= sz \/ ReadiLen(off, n, sz) = 0
<1>1. CASE off > sz \/ Plus(off, n) < off
  BY <1>1 DEF ReadiLen
<1>2. CASE ~(off > sz \/ Plus(off, n) < off)
  <2>1. off <= sz /\ Plus(off, n) = off + n
    BY <1>2, PlusIs
  <2> QED BY <1>2, <2>1 DEF ReadiLen, Clipped
<1> QED BY <1>1, <1>2

\* fileread() moves the offset of a file whose inode nobody writes.
LEMMA ReadData ==
    ASSUME DataInv, NEW p \in Proc, NEW fd \in FD, NEW n \in ReadLens, sys_read(p, fd, n)
    PROVE  DataInv'
<1>1. PICK f \in File : f = ofile[p][fd] /\ file[f].type = "inode" /\ lock[file[f].ip] = None
  BY DEF sys_read, DataInv, TableInv, TableTypes, OFiles
<1>2. n \in Nat /\ n < UintMax1 /\ file[f].ip \in Inum /\ file[f].ref >= 1
  BY <1>1, DataAssumption, Referred, FilesAssumption DEF DataInv, TableInv, BlankInv
<1>3. /\ pc \in [Proc -> PCs] /\ file \in [File -> FileRec] /\ size \in [Inum -> 0 .. End]
      /\ lock \in [Inum -> Proc \cup {None}]
  BY DEF DataInv, TableInv, TableTypes, SizeInv, WriteInv
<1>4. size[file[f].ip] \in Nat /\ size[file[f].ip] <= End /\ file[f].off \in Nat /\ file[f].off <= End
  BY <1>2, <1>3, Sizes DEF DataInv, SizeInv, FileRec
<1>5. PICK x : x = file[f].off + ReadiLen(file[f].off, n, size[file[f].ip])
  OBVIOUS
<1>6. x \in Nat /\ x <= End
  <2>1. PICK r : r = ReadiLen(file[f].off, n, size[file[f].ip])
    OBVIOUS
  <2>2. r \in Nat /\ (file[f].off + r <= size[file[f].ip] \/ r = 0)
    <3>1. file[f].off < UintMax1 /\ file[f].off \in Nat /\ size[file[f].ip] \in Nat
      BY <1>4, EndFits, Sizes
    <3> QED BY <1>2, <2>1, <3>1, ReadiEnds
  <2>3. x = file[f].off + r
    BY <1>5, <2>1
  <2> QED BY <1>4, <2>2, <2>3, Sizes
<1>7. /\ file' = [file EXCEPT ![f].off = x] /\ UNCHANGED <<ofile, held, fds, np, pc>>
      /\ UNCHANGED <<used, word, addrs, size, lock, w, logged, panic>>
  BY <1>1, <1>5 DEF sys_read, dataVars
<1>8. /\ file' \in [File -> FileRec] /\ \A g \in File : g # f => file'[g] = file[g]
      /\ file'[f].ref = file[f].ref /\ file'[f].type = file[f].type
      /\ file'[f].ip = file[f].ip /\ file'[f].off = x
  BY <1>3, <1>6, <1>7 DEF FileRec
<1>9. TableInv'
  BY <1>2, <1>3, <1>7, <1>8, WriteTable DEF DataInv
<1>10. MapInv' /\ CoverInv'
  BY <1>7 DEF DataInv, MapInv, CoverInv, At
<1>11. SizeInv'
  BY <1>6, <1>7, <1>8 DEF DataInv, SizeInv
<1>12. ASSUME NEW q \in Proc
       PROVE  Still(q)
  <2>1. CASE pc[q] \in InChunk
    <3>1. w[q].f \in File /\ Ino(q) \in Inum /\ lock[Ino(q)] = q
      BY <2>1, Writer DEF CallOf, ChunkOf
    <3>2. w[q].f # f
      BY <1>1, <3>1, FilesAssumption DEF Ino
    <3> QED BY <1>7, <1>8, <3>1, <3>2 DEF Still
  <2>2. CASE pc[q] \notin InChunk
    <3>1. pc[q] \in InWrite => w[q].f \in File
      BY Writer
    <3> QED BY <1>7, <1>8, <2>2, <3>1 DEF Still
  <2> QED BY <2>1, <2>2
<1>13. \A q \in Proc : CallOf(q)'
  BY <1>7, <1>12, Bystander DEF At
<1>14. ASSUME NEW j \in Inum, NEW q \in Proc, lock'[j] = q
       PROVE  pc'[q] \in InChunk /\ Ino(q)' = j
  <2>1. pc[q] \in InChunk /\ Ino(q) = j /\ pc[q] \in InWrite
    BY <1>7, <1>14, Writer DEF DataInv, WriteInv
  <2> QED BY <1>12, <2>1 DEF Still, Ino
<1>15. WriteInv'
  BY <1>7, <1>13, <1>14 DEF DataInv, WriteInv
<1> QED BY <1>9, <1>10, <1>11, <1>15 DEF DataInv

\* The size of a chunk.
LEMMA ChunkIs ==
    /\ ChunkBlocks \in Nat /\ 2 * ChunkBlocks + 4 <= MAXOPBLOCKS
    /\ MaxChunk = ChunkBlocks * BSIZE /\ MaxChunk \in Nat
<1>1. MAXOPBLOCKS - 1 - 1 - 2 \in Nat
  BY DataAssumption
<1>2. ChunkBlocks \in Nat /\ 2 * ChunkBlocks <= MAXOPBLOCKS - 4
  BY <1>1, DataAssumption DEF ChunkBlocks
<1>3. MaxChunk = ChunkBlocks * BSIZE
  BY DEF MaxChunk, ChunkBlocks
<1>4. MaxChunk \in Nat
  BY <1>2, <1>3, TimesNext, Sizes
<1> QED BY <1>2, <1>3, <1>4, DataAssumption

\* writei() refuses, and filewrite() returns.
LEMMA RefusedData ==
    ASSUME DataInv, NEW p \in Proc, ChunkRefused(p)
    PROVE  DataInv'
<1>1. NoWrite \in WriteRec
  BY DEF NoWrite, WriteRec
<1>2. /\ pc[p] = "chunk" /\ pc' = [pc EXCEPT ![p] = "user"] /\ w' = [w EXCEPT ![p] = NoWrite]
      /\ UNCHANGED <<file, ofile, held, fds, np>>
      /\ UNCHANGED <<used, word, addrs, size, lock, logged, panic>>
  BY DEF ChunkRefused, Goto, tableVars
<1>3. /\ pc \in [Proc -> PCs] /\ file \in [File -> FileRec] /\ w \in [Proc -> WriteRec]
      /\ lock \in [Inum -> Proc \cup {None}] /\ logged \in [Proc -> SUBSET AllBlocks]
  BY DEF DataInv, TableInv, TableTypes, WriteInv
<1>4. /\ pc' \in [Proc -> PCs] /\ pc'[p] = "user" /\ w' \in [Proc -> WriteRec]
      /\ \A q \in Proc : q # p => pc'[q] = pc[q] /\ w'[q] = w[q]
  BY <1>1, <1>2, <1>3 DEF PCs
<1>5. TableInv'
  <2>1. \A q \in Proc : pc'[q] = pc[q] \/ {pc'[q], pc[q]} \subseteq InWrite \cup {"user"}
    BY <1>2, <1>4 DEF InWrite
  <2> QED BY <1>2, <1>3, <1>4, <2>1, WriteTable DEF DataInv
<1>6. MapInv' /\ CoverInv' /\ SizeInv'
  BY <1>2 DEF DataInv, MapInv, CoverInv, SizeInv, At
<1>7. CallOf(p)'
  <2>1. pc'[p] \notin InWrite /\ pc'[p] \notin InChunk /\ pc'[p] # "writei" /\ pc[p] \notin InChunk
    BY <1>2, <1>4 DEF InChunk, InWrite
  <2>2. logged'[p] = {}
    BY <1>2, <2>1, Writer DEF CallOf, LogOf
  <2> QED BY <2>1, <2>2 DEF CallOf, WriteOf, ChunkOf, CoverOf, LogOf
<1>8. \A q \in Proc : q # p => Still(q)
  BY <1>2, <1>4 DEF Still
<1>9. \A i \in Inum : lock'[i] # p
  BY <1>2 DEF DataInv, WriteInv, InChunk
<1>10. WriteInv'
  BY <1>2, <1>3, <1>4, <1>7, <1>8, <1>9, OthersStill DEF At
<1> QED BY <1>5, <1>6, <1>10 DEF DataInv

\* A chunk starts at the offset of its file.
LEMMA StartsData ==
    ASSUME DataInv, NEW p \in Proc, ChunkStarts(p)
    PROVE  DataInv'
<1>1. pc[p] = "chunk" /\ pc[p] \in InWrite /\ pc[p] \notin InChunk
  BY DEF ChunkStarts, InWrite, InChunk
<1>2. PICK f \in File : /\ f = w[p].f /\ file[f].type = "inode" /\ file[f].ip \in Inum
                        /\ \E fd \in FD : ofile[p][fd] = f
                        /\ w[p].left < UintMax1
  BY <1>1, Writer DEF CallOf, WriteOf, Ino
<1>3. PICK i \in Inum : i = file[f].ip
  BY <1>2
<1>4. PICK n : n = Min({w[p].left, MaxChunk})
  OBVIOUS
<1>5. n \in Nat /\ n <= w[p].left /\ n <= MaxChunk /\ n < UintMax1
  <2>1. w[p].left \in Nat /\ MaxChunk \in Nat /\ w[p].left < UintMax1
    BY <1>1, Writer, ChunkIs DEF CallOf, WriteOf
  <2> QED BY <1>4, <2>1, MinOfTwo, EndFits
<1>6. /\ pc \in [Proc -> PCs] /\ file \in [File -> FileRec] /\ w \in [Proc -> WriteRec]
      /\ lock \in [Inum -> Proc \cup {None}] /\ logged \in [Proc -> SUBSET AllBlocks]
      /\ size \in [Inum -> 0 .. End] /\ file[f].off \in Nat
  BY DEF DataInv, TableInv, TableTypes, WriteInv, SizeInv, FileRec
<1>7. PICK x : x = [w[p] EXCEPT !.n = n, !.off = file[f].off, !.tot = 0]
  OBVIOUS
<1>8. /\ x \in WriteRec /\ x.f = f /\ x.n = n /\ x.off = file[f].off /\ x.tot = 0
      /\ x.left = w[p].left
  BY <1>2, <1>5, <1>6, <1>7, Writer DEF WriteRec
<1>9. /\ pc' = [pc EXCEPT ![p] = "writei"] /\ w' = [w EXCEPT ![p] = x]
      /\ lock' = [lock EXCEPT ![i] = p] /\ lock[i] = None
      /\ UNCHANGED <<file, ofile, held, fds, np>> /\ UNCHANGED <<used, word, addrs, size, logged, panic>>
      /\ file[f].off <= size[i] /\ Plus(file[f].off, n) >= file[f].off
      /\ Plus(file[f].off, n) <= End
  BY <1>2, <1>3, <1>4, <1>6, <1>7 DEF ChunkStarts, Goto, tableVars, CanLock, InRange, End
<1>10. file[f].off + n <= End
  <2>1. file[f].off < UintMax1
    BY <1>2, <1>6, EndFits, Sizes DEF DataInv, SizeInv
  <2> QED BY <1>5, <1>6, <1>9, <2>1, PlusIs
<1>11. /\ pc' \in [Proc -> PCs] /\ pc'[p] = "writei" /\ w' \in [Proc -> WriteRec] /\ w'[p] = x
       /\ \A q \in Proc : q # p => pc'[q] = pc[q] /\ w'[q] = w[q]
       /\ lock' \in [Inum -> Proc \cup {None}] /\ lock'[i] = p
       /\ \A j \in Inum : j # i => lock'[j] = lock[j]
  BY <1>6, <1>8, <1>9 DEF PCs
<1>12. TableInv'
  <2>1. \A q \in Proc : pc'[q] = pc[q] \/ {pc'[q], pc[q]} \subseteq InWrite \cup {"user"}
    BY <1>1, <1>11 DEF InWrite
  <2> QED BY <1>6, <1>9, <1>11, <2>1, WriteTable DEF DataInv
<1>13. MapInv' /\ CoverInv' /\ SizeInv'
  BY <1>9 DEF DataInv, MapInv, CoverInv, SizeInv, At
<1>14. Ino(p)' = i /\ pc'[p] \in InChunk
  <2>1. w'[p].f = f /\ file' = file
    BY <1>8, <1>9, <1>11
  <2> QED BY <1>3, <1>11, <2>1 DEF Ino, InChunk
<1>15. CallOf(p)'
  <2>1. WriteOf(p)'
    <3>1. w'[p].f = f /\ w'[p].left < UintMax1 /\ file' = file /\ ofile' = ofile
      BY <1>2, <1>8, <1>9, <1>11
    <3>2. w'[p].f \in File /\ file'[w'[p].f].type = "inode" /\ w'[p].left < UintMax1
      BY <1>2, <3>1
    <3>3. \E fd \in FD : ofile'[p][fd] = w'[p].f
      BY <1>2, <3>1
    <3> QED BY <3>2, <3>3 DEF WriteOf
  <2>2. ChunkOf(p)'
    BY <1>5, <1>8, <1>9, <1>10, <1>11, <1>14 DEF ChunkOf
  <2>3. CoverOf(p)'
    <3> SUFFICES ASSUME NEW bn \in 0 .. MAXFILE - 1, bn * BSIZE < NewEnd(p)'
                 PROVE  At(i, PlaceOf(bn))' # 0
      BY <1>14 DEF CoverOf
    <3>1. NewEnd(p)' = file[f].off
      BY <1>6, <1>8, <1>11 DEF NewEnd
    <3>2. bn * BSIZE \in Nat /\ size[i] \in Nat
      BY <1>6, Sizes, TimesNext
    <3>3. bn * BSIZE < size[i]
      BY <1>6, <1>9, <3>1, <3>2
    <3> QED BY <1>9, <3>3 DEF DataInv, CoverInv, At
  <2>4. LogOf(p)'
    <3>1. logged'[p] = {}
      BY <1>1, <1>9, Writer DEF CallOf, LogOf
    <3>2. Logged(p)' = {}
      BY <3>1 DEF Logged
    <3>3. Cardinality(Logged(p)') = 0
      BY <3>2, FS_EmptySet
    <3>4. Turns(p, 0)'
      BY <1>8, <1>11, <3>3 DEF Turns
    <3>5. \E t \in Nat : Turns(p, t)'
      BY <3>4
    <3> QED BY <1>14, <3>1, <3>3, <3>5, ChunkIs DEF LogOf
  <2> QED BY <2>1, <2>2, <2>3, <2>4 DEF CallOf
<1>16. \A q \in Proc : q # p => Still(q)
  BY <1>9, <1>11 DEF Still
<1>17. ASSUME NEW q \in Proc, q # p, pc[q] \in InChunk
       PROVE  Ino(q) \in Inum /\ Ino(q) # i
  <2>1. Ino(q) \in Inum /\ lock[Ino(q)] = q
    BY <1>17, Writer DEF CallOf, ChunkOf
  <2> QED BY <1>9, <2>1, FilesAssumption
<1>18. \A j \in Inum : lock[j] # p
  BY <1>1 DEF DataInv, WriteInv
<1>19. WriteInv'
  <2>1. \A q \in Proc : q # p /\ pc[q] \in InChunk =>
              /\ lock'[Ino(q)] = lock[Ino(q)] /\ size'[Ino(q)] = size[Ino(q)]
              /\ addrs'[Ino(q)] = addrs[Ino(q)]
              /\ \A k \in Place : At(Ino(q), k) # 0 => AtOf(addrs', word', Ino(q), k) # 0
    BY <1>9, <1>11, <1>17 DEF At
  <2>2. \A j \in Inum : /\ lock'[j] = p => pc'[p] \in InChunk /\ Ino(p)' = j
                        /\ lock'[j] # p => lock'[j] \in {None, lock[j]}
    BY <1>11, <1>14, <1>18
  <2>3. logged' \in [Proc -> SUBSET AllBlocks]
    BY <1>6, <1>9
  <2> QED BY <1>11, <1>15, <1>16, <2>1, <2>2, <2>3, OthersStill
<1> QED BY <1>12, <1>13, <1>19 DEF DataInv

\* A chunk ends: the file and its offset grow together, over blocks that are there.
LEMMA EndsData ==
    ASSUME DataInv, NEW p \in Proc, ChunkEnds(p)
    PROVE  DataInv'
<1>1. pc[p] \in InChunk /\ pc[p] \in InWrite
  BY DEF ChunkEnds, InWrite, InChunk
<1>2. PICK f \in File : /\ f = w[p].f /\ file[f].type = "inode" /\ file[f].ip \in Inum
                        /\ \E fd \in FD : ofile[p][fd] = f
                        /\ w[p].left < UintMax1
  BY <1>1, Writer DEF CallOf, WriteOf, Ino
<1>3. PICK i \in Inum : i = file[f].ip /\ i = Ino(p)
  BY <1>2 DEF Ino
<1>4. file[f].ref >= 1
  BY <1>2, Referred, FilesAssumption DEF DataInv
<1>5. /\ pc \in [Proc -> PCs] /\ file \in [File -> FileRec] /\ w \in [Proc -> WriteRec]
      /\ lock \in [Inum -> Proc \cup {None}] /\ logged \in [Proc -> SUBSET AllBlocks]
      /\ size \in [Inum -> 0 .. End] /\ file[f].off \in Nat /\ size[i] \in 0 .. End
  BY DEF DataInv, TableInv, TableTypes, WriteInv, SizeInv, FileRec
<1>6. /\ lock[i] = p /\ w[p].off = file[f].off /\ w[p].tot <= w[p].n /\ w[p].n <= w[p].left
      /\ w[p].off + w[p].n <= End /\ w[p].n \in Nat /\ w[p].tot \in Nat /\ w[p].left \in Nat
      /\ w[p].off \in Nat
  BY <1>1, <1>2, <1>3, Writer DEF CallOf, ChunkOf
<1>7. PICK e \in Nat : e = NewEnd(p) /\ e = file[f].off + w[p].tot
  BY <1>6 DEF NewEnd
<1>8. e <= End
  BY <1>6, <1>7, Sizes
<1>9. PICK s : s = Max({size[i], e})
  OBVIOUS
<1>10. s \in 0 .. End /\ s \in {size[i], e}
  <2>1. size[i] \in Nat /\ size[i] <= End
    BY <1>5, Sizes
  <2> QED BY <1>7, <1>8, <1>9, <2>1, MaxOfTwo, Sizes
<1>11. PICK left \in Nat : left = w[p].left - w[p].tot /\ left < UintMax1
  BY <1>2, <1>6, EndFits
<1>12. PICK l, x : /\ l = IF w[p].tot # w[p].n \/ left = 0 THEN "user" ELSE "chunk"
                   /\ x = IF w[p].tot # w[p].n \/ left = 0 THEN NoWrite
                          ELSE [NoWrite EXCEPT !.f = f, !.left = left]
  OBVIOUS
<1>13. l \in {"user", "chunk"} /\ x \in WriteRec /\ (l = "chunk" => x.f = f /\ x.left = left)
  <2>1. NoWrite \in WriteRec /\ [NoWrite EXCEPT !.f = f, !.left = left] \in WriteRec
        /\ [NoWrite EXCEPT !.f = f, !.left = left].f = f
    BY DEF NoWrite, WriteRec
  <2> QED BY <1>12, <2>1
<1>14. /\ pc' = [pc EXCEPT ![p] = l] /\ w' = [w EXCEPT ![p] = x]
       /\ size' = [size EXCEPT ![i] = s] /\ file' = [file EXCEPT ![f].off = e]
       /\ lock' = [lock EXCEPT ![i] = None] /\ logged' = [logged EXCEPT ![p] = {}]
       /\ UNCHANGED <<ofile, held, fds, np, used, word, addrs, panic>>
  BY <1>2, <1>3, <1>5, <1>7, <1>9, <1>11, <1>12 DEF ChunkEnds, Goto
<1>15. /\ pc' \in [Proc -> PCs] /\ pc'[p] = l /\ w' \in [Proc -> WriteRec] /\ w'[p] = x
       /\ \A q \in Proc : q # p => pc'[q] = pc[q] /\ w'[q] = w[q] /\ logged'[q] = logged[q]
       /\ lock' \in [Inum -> Proc \cup {None}] /\ lock'[i] = None
       /\ \A j \in Inum : j # i => lock'[j] = lock[j]
       /\ size' \in [Inum -> 0 .. End] /\ size'[i] = s
       /\ \A j \in Inum : j # i => size'[j] = size[j]
       /\ logged' \in [Proc -> SUBSET AllBlocks] /\ logged'[p] = {}
  BY <1>5, <1>10, <1>13, <1>14 DEF PCs
<1>16. /\ file' \in [File -> FileRec] /\ \A g \in File : g # f => file'[g] = file[g]
       /\ file'[f].ref = file[f].ref /\ file'[f].type = file[f].type
       /\ file'[f].ip = file[f].ip /\ file'[f].off = e
  BY <1>5, <1>14 DEF FileRec
<1>17. TableInv'
  <2>1. \A q \in Proc : pc'[q] = pc[q] \/ {pc'[q], pc[q]} \subseteq InWrite \cup {"user"}
    BY <1>1, <1>13, <1>15 DEF InWrite
  <2>2. \A g \in File : /\ file'[g].ref = file[g].ref /\ file'[g].type = file[g].type
                        /\ file'[g].ip = file[g].ip
                        /\ file[g].ref = 0 => file'[g] = file[g]
    BY <1>4, <1>16
  <2> QED BY <1>14, <1>15, <1>16, <2>1, <2>2, WriteTable DEF DataInv
<1>18. MapInv'
  BY <1>14 DEF DataInv, MapInv
<1>19. CoverInv'
  <2> SUFFICES ASSUME NEW j \in Inum, NEW bn \in 0 .. MAXFILE - 1, bn * BSIZE < size'[j]
               PROVE  At(j, PlaceOf(bn)) # 0
    BY <1>14 DEF CoverInv, At
  <2>1. CASE bn * BSIZE < size[j]
    BY <2>1 DEF DataInv, CoverInv
  <2>2. CASE j = i /\ bn * BSIZE < e
    BY <1>1, <1>3, <1>7, <2>2, Writer DEF CallOf, CoverOf
  <2> QED BY <1>10, <1>15, <2>1, <2>2
<1>20. SizeInv'
  BY <1>8, <1>14, <1>15, <1>16 DEF DataInv, SizeInv
<1>21. CallOf(p)'
  <2>1. pc'[p] \notin InChunk /\ pc'[p] # "writei"
    BY <1>13, <1>15 DEF InChunk
  <2>2. WriteOf(p)'
    BY <1>2, <1>11, <1>13, <1>14, <1>15, <1>16 DEF WriteOf, InWrite
  <2> QED BY <1>15, <2>1, <2>2 DEF CallOf, ChunkOf, CoverOf, LogOf
<1>22. ASSUME NEW q \in Proc, q # p, pc[q] \in InChunk
       PROVE  Ino(q) \in Inum /\ Ino(q) # i /\ w[q].f \in File /\ w[q].f # f
  <2>1. Ino(q) \in Inum /\ Ino(q) # i /\ w[q].f \in File
    BY <1>1, <1>3, <1>22, OneChunk, Writer
  <2> QED BY <1>3, <2>1 DEF Ino
<1>23. ASSUME NEW q \in Proc, q # p
       PROVE  Still(q)
  <2>1. pc[q] \in InWrite => w[q].f \in File
    BY Writer
  <2> QED BY <1>14, <1>15, <1>16, <1>22, <1>23, <2>1 DEF Still
<1>24. WriteInv'
  <2>1. \A q \in Proc : q # p /\ pc[q] \in InChunk =>
              /\ lock'[Ino(q)] = lock[Ino(q)] /\ size'[Ino(q)] = size[Ino(q)]
              /\ addrs'[Ino(q)] = addrs[Ino(q)]
              /\ \A k \in Place : At(Ino(q), k) # 0 => AtOf(addrs', word', Ino(q), k) # 0
    BY <1>14, <1>15, <1>22 DEF At
  <2>2. \A j \in Inum : lock'[j] # p /\ lock'[j] \in {None, lock[j]}
    BY <1>3, <1>15, FilesAssumption DEF DataInv, WriteInv
  <2> QED BY <1>15, <1>21, <1>23, <2>1, <2>2, OthersStill
<1> QED BY <1>17, <1>18, <1>19, <1>20, <1>24 DEF DataInv

-----------------------------------------------------------------------------
(***************************************************************************)
(* One turn of writei()'s loop.                                            *)
(***************************************************************************)

\* Where a turn begins, bB being the start of its block and tB what is before it.
TurnAt(off, n, tot, B, d, r, bB, tB, m) ==
    /\ {off, n, tot, B, d, r, bB, tB} \subseteq Nat /\ r < B /\ d < B /\ tot < n
    /\ off + tot = bB + r
    /\ (tot = 0 /\ tB = 0 /\ r = d) \/ (d + tot = tB /\ r = 0)
    /\ m = IF n - tot <= B - r THEN n - tot ELSE B - r

\* ... then it ends at the end of the block, or of the chunk.
LEMMA TurnEnds ==
    ASSUME NEW off, NEW n, NEW tot, NEW B, NEW d, NEW r, NEW bB, NEW tB, NEW m,
           TurnAt(off, n, tot, B, d, r, bB, tB, m)
    PROVE  /\ m \in Nat /\ tot + m <= n /\ off + tot + m <= bB + B /\ bB <= off + tot
           /\ \/ tot + m < n /\ d + (tot + m) = tB + B
              \/ tot + m = n
           /\ tB < d + n
           /\ r > 0 => bB < off + tot
  BY DEF TurnAt

\* The same, with the numbers of the block and of the turn.
TurnOf(off, n, tot, B, t, d, bn, m) ==
    /\ off \in Nat /\ n \in Nat /\ tot \in Nat /\ B \in Nat \ {0} /\ t \in Nat
    /\ tot < n /\ d \in Nat /\ d = off % B /\ bn \in Nat /\ bn = (off + tot) \div B
    /\ (t = 0 /\ tot = 0) \/ (t > 0 /\ d + tot = t * B)
    /\ m = Min({n - tot, B - ((off + tot) % B)})

\* A turn after t others ends where t + 1 turns end.
LEMMA Turn ==
    ASSUME NEW off, NEW n, NEW tot, NEW B, NEW t, NEW d, NEW bn, NEW m,
           TurnOf(off, n, tot, B, t, d, bn, m)
    PROVE  /\ m \in Nat /\ tot + m <= n /\ off + tot + m <= (bn + 1) * B
           /\ bn * B <= off + tot
           /\ \/ tot + m < n /\ d + (tot + m) = (t + 1) * B
              \/ tot + m = n
           /\ t * B < d + n /\ d < B
           /\ t = 0 /\ d > 0 => bn * B < off + tot
<1> USE DEF TurnOf
<1>1. PICK r \in Nat : r = (off + tot) % B /\ r < B /\ off + tot = bn * B + r
  <2>1. off + tot \in Nat
    OBVIOUS
  <2> QED BY <2>1, DivMod
<1>2. d < B /\ off = (off \div B) * B + d /\ off \div B \in Nat
  BY DivMod
<1>3. PICK o \in Nat : off = o * B + d
  BY <1>2
<1>4. n - tot \in Nat /\ B - r \in Nat
  BY <1>1
<1>5. m = IF n - tot <= B - r THEN n - tot ELSE B - r
  BY <1>1, <1>4, MinOfTwo
<1>6. (bn + 1) * B = bn * B + B /\ (t + 1) * B = t * B + B
  BY TimesNext
<1>7. PICK bB \in Nat, tB \in Nat : bB = bn * B /\ tB = t * B
  BY TimesNext
<1>8. (t = 0 /\ tot = 0 /\ tB = 0 /\ r = d) \/ (t > 0 /\ d + tot = tB /\ r = 0)
  <2>1. CASE t = 0 /\ tot = 0
    BY <1>1, <1>7, <2>1
  <2>2. CASE t > 0 /\ d + tot = t * B
    <3>1. (o + t) * B = o * B + t * B /\ o * B \in Nat /\ t * B \in Nat
      BY TimesPlus
    <3>2. off + tot = (o + t) * B + 0
      BY <1>3, <2>2, <3>1
    <3>3. o + t \in Nat /\ 0 < B
      OBVIOUS
    <3>4. ((o + t) * B + 0) % B = 0
      BY <3>3, DivModIs
    <3> QED BY <1>1, <1>7, <2>2, <3>2, <3>4
  <2> QED BY <2>1, <2>2
<1>9. /\ m \in Nat /\ tot + m <= n /\ off + tot + m <= bB + B /\ bB <= off + tot
      /\ \/ tot + m < n /\ d + (tot + m) = tB + B
         \/ tot + m = n
      /\ tB < d + n
      /\ r > 0 => bB < off + tot
  <2>1. (tot = 0 /\ tB = 0 /\ r = d) \/ (d + tot = tB /\ r = 0)
    BY <1>8
  <2>2. off + tot = bB + r /\ B \in Nat /\ r < B /\ d < B
    BY <1>1, <1>2, <1>7
  <2>3. TurnAt(off, n, tot, B, d, r, bB, tB, m)
    BY <1>5, <2>1, <2>2 DEF TurnAt
  <2> QED BY <2>3, TurnEnds
<1> QED BY <1>2, <1>6, <1>7, <1>8, <1>9

\* The turns of a chunk: one for each block of data, and one more when it does not
\* begin with a block.
LEMMA TurnsBound ==
    ASSUME NEW n \in Nat, NEW B \in Nat \ {0}, NEW t \in Nat, NEW d \in Nat, NEW K \in Nat,
           d < B, t * B < d + n, n <= K * B
    PROVE  t <= K /\ (d = 0 => t + 1 <= K)
<1>1. (K + 1) * B = K * B + B /\ K * B \in Nat /\ t * B \in Nat
  BY TimesNext
<1>2. t * B < (K + 1) * B /\ (d = 0 => t * B < K * B)
  BY <1>1
<1>3. t < K + 1
  BY <1>2, TimesLess
<1>4. d = 0 => t < K
  BY <1>2, TimesLess
<1> QED BY <1>3, <1>4

\* A set of blocks that gets one or two more.
LEMMA FewMore ==
    ASSUME NEW L, IsFiniteSet(L), NEW a, NEW b, NEW M, M \subseteq L \cup {a, b}
    PROVE  /\ IsFiniteSet(M) /\ Cardinality(M) \in Nat /\ Cardinality(L) \in Nat
           /\ Cardinality(M) <= Cardinality(L) + 2
           /\ M \subseteq L \cup {a} => Cardinality(M) <= Cardinality(L) + 1
<1>1. Cardinality(L) \in Nat
  BY FS_CardinalityType
<1>2. PICK L1 : L1 = L \cup {a}
  OBVIOUS
<1>3. /\ IsFiniteSet(L1) /\ Cardinality(L1) \in Nat /\ Cardinality(L1) <= Cardinality(L) + 1
  <2>1. IsFiniteSet(L1) /\ Cardinality(L1) = IF a \in L THEN Cardinality(L) ELSE Cardinality(L) + 1
    BY <1>2, FS_AddElement
  <2> QED BY <1>1, <2>1, FS_CardinalityType
<1>4. PICK L2 : L2 = L1 \cup {b}
  OBVIOUS
<1>5. /\ IsFiniteSet(L2) /\ Cardinality(L2) \in Nat /\ Cardinality(L2) <= Cardinality(L1) + 1
  <2>1. IsFiniteSet(L2) /\ Cardinality(L2) = IF b \in L1 THEN Cardinality(L1) ELSE Cardinality(L1) + 1
    BY <1>3, <1>4, FS_AddElement
  <2> QED BY <1>3, <2>1, FS_CardinalityType
<1>6. M \subseteq L2
  BY <1>2, <1>4
<1>7. IsFiniteSet(M) /\ Cardinality(M) <= Cardinality(L2) /\ Cardinality(M) \in Nat
  BY <1>5, <1>6, FS_Subset, FS_CardinalityType
<1>8. M \subseteq L1 => Cardinality(M) <= Cardinality(L1)
  BY <1>3, FS_Subset
<1> QED BY <1>1, <1>2, <1>3, <1>5, <1>7, <1>8

\* There are finitely many blocks.
LEMMA BlocksFinite ==
    IsFiniteSet(Block) /\ IsFiniteSet(AllBlocks)
<1>1. IsFiniteSet(Block)
  <2>1. 1 \in Int /\ NBLOCK \in Int
    BY Sizes
  <2> QED BY <2>1, FS_Interval DEF Block
<1>2. IsFiniteSet({BBLOCK(b) : b \in Block})
  <2> DEFINE S == {BBLOCK(b) : b \in Block}
             g == [b \in Block |-> BBLOCK(b)]
  <2>1. g \in Surjection(Block, S)
    BY DEF Surjection
  <2> HIDE DEF S, g
  <2>2. IsFiniteSet(S)
    BY <1>1, <2>1, FS_Surjection
  <2> QED BY <2>2 DEF S
<1> QED BY <1>1, <1>2, FS_Union DEF AllBlocks

\* What a turn leaves of the map, whether or not the block could be written: it grew,
\* and the block is at its place.
Grown(i, k, t) ==
    /\ MapOK(used', addrs', word')
    /\ \A j \in Inum, l \in Place : At(j, l) # 0 => AtOf(addrs', word', j, l) = At(j, l)
    /\ \A j \in Inum : j # i => addrs'[j] = addrs[j]
    /\ AtOf(addrs', word', i, k) = t.addr

\* Data is written to no indirect block, so that the map is as bmap() left it.
LEMMA BlockGrows ==
    ASSUME MapInv, NEW i \in Inum, NEW bn \in 0 .. MAXFILE - 1, NEW t, Found(i, PlaceOf(bn), t),
           used' = t.used, addrs' = t.addrs,
           word' = t.word \/ (t.addr # 0 /\ word' = [t.word EXCEPT ![t.addr] = Data])
    PROVE  Grown(i, PlaceOf(bn), t)
<1>1. PICK k \in Place : k = PlaceOf(bn) /\ k # NDIRECT
  BY Sizes
<1>2. /\ MapOK(t.used, t.addrs, t.word) /\ t.addr \in Block \cup {0}
      /\ t.addr = AtOf(t.addrs, t.word, i, k)
      /\ \A j \in Inum, l \in Place : At(j, l) # 0 => AtOf(t.addrs, t.word, j, l) = At(j, l)
      /\ \A j \in Inum : j # i => t.addrs[j] = addrs[j]
  BY <1>1 DEF Found
<1>3. CASE word' = t.word
  BY <1>1, <1>2, <1>3 DEF Grown
<1>4. CASE t.addr # 0 /\ word' = [t.word EXCEPT ![t.addr] = Data]
  <2>1. t.word \in Words /\ t.addr \in Block
    BY <1>2, <1>4 DEF MapOK
  <2>2. word' \in Words /\ \A c \in Block : c # t.addr => word'[c] = t.word[c]
    BY <1>4, <2>1, Clear DEF Words
  <2>3. \A j \in Inum : t.addrs[j][NDIRECT] # t.addr
    BY <1>1, <1>2, <1>4, NotIndirect
  <2>4. \A j \in Inum : t.addrs[j][NDIRECT] \in Block \cup {0}
    BY <1>2, Sizes DEF MapOK, Addrs
  <2>5. \A j \in Inum : t.addrs[j][NDIRECT] # 0 =>
           word'[t.addrs[j][NDIRECT]] = t.word[t.addrs[j][NDIRECT]]
    BY <2>2, <2>3, <2>4
  <2>6. /\ MapOK(t.used, t.addrs, word')
        /\ \A j \in Inum, l \in Place : AtOf(t.addrs, word', j, l) = AtOf(t.addrs, t.word, j, l)
    BY <1>2, <2>2, <2>5, WordsMatter
  <2> QED BY <1>1, <1>2, <2>6 DEF Grown
<1> QED BY <1>3, <1>4

\* The blocks that a turn logs, but for the indirect block and its bit: two at most,
\* and the block alone if it was there.
LEMMA TurnLogs ==
    ASSUME MapInv, NEW i \in Inum, NEW k \in Place, NEW t, Found(i, k, t), Grown(i, k, t),
           addrs' = t.addrs, NEW L, NEW M, L \subseteq AllBlocks,
           M = L \cup t.logged \/ (t.addr # 0 /\ M = L \cup t.logged \cup {t.addr})
    PROVE  \E N \in Nat :
             /\ N = Cardinality(M \ IndirectOf(addrs', i))
             /\ Cardinality(L \ IndirectOf(addrs, i)) \in Nat
             /\ N <= Cardinality(L \ IndirectOf(addrs, i)) + 2
             /\ At(i, k) # 0 => N <= Cardinality(L \ IndirectOf(addrs, i)) + 1
             /\ M \subseteq AllBlocks
<1>1. PICK A, A2 : A = IndirectOf(addrs, i) /\ A2 = IndirectOf(addrs', i)
  OBVIOUS
<1>2. A \subseteq A2
  <2>1. addrs[i][NDIRECT] # 0 => addrs'[i][NDIRECT] = addrs[i][NDIRECT]
    BY AtIndirect DEF Grown, At
  <2> QED BY <1>1, <2>1 DEF IndirectOf
<1>3. /\ t.logged \subseteq A2 \cup (IF t.addr = 0 THEN {} ELSE {t.addr, BBLOCK(t.addr)})
      /\ At(i, k) # 0 => t.logged = {}
      /\ t.logged \subseteq AllBlocks
  BY <1>1 DEF Found
<1>4. PICK L2, M2 : L2 = L \ A /\ M2 = M \ A2
  OBVIOUS
<1>5. M2 \subseteq L2 \cup {t.addr, BBLOCK(t.addr)} /\ (At(i, k) # 0 => M2 \subseteq L2 \cup {t.addr})
  BY <1>2, <1>3, <1>4
<1>6. IsFiniteSet(L2)
  BY <1>4, BlocksFinite, FS_Subset
<1>7. /\ Cardinality(M2) \in Nat /\ Cardinality(L2) \in Nat
      /\ Cardinality(M2) <= Cardinality(L2) + 2
      /\ At(i, k) # 0 => Cardinality(M2) <= Cardinality(L2) + 1
  BY <1>5, <1>6, FewMore
<1>8. M \subseteq AllBlocks
  BY <1>3 DEF Found, AllBlocks
<1> QED BY <1>1, <1>4, <1>7, <1>8

\* A turn of writei()'s loop.
LEMMA BlockData ==
    ASSUME DataInv, NEW p \in Proc, WriteiBlock(p)
    PROVE  DataInv'
<1>1. pc[p] = "writei" /\ pc[p] \in InChunk /\ pc[p] \in InWrite
  BY DEF WriteiBlock, InWrite, InChunk
<1>2. PICK f \in File : /\ f = w[p].f /\ file[f].type = "inode" /\ file[f].ip \in Inum
                        /\ \E fd \in FD : ofile[p][fd] = f
                        /\ w[p].left < UintMax1
  BY <1>1, Writer DEF CallOf, WriteOf, Ino
<1>3. PICK i \in Inum : i = file[f].ip /\ i = Ino(p)
  BY <1>2 DEF Ino
<1>4. /\ pc \in [Proc -> PCs] /\ file \in [File -> FileRec] /\ w \in [Proc -> WriteRec]
      /\ lock \in [Inum -> Proc \cup {None}] /\ logged \in [Proc -> SUBSET AllBlocks]
      /\ size \in [Inum -> 0 .. End]
  BY DEF DataInv, TableInv, TableTypes, WriteInv, SizeInv
<1>5. PICK off \in Nat, n \in Nat, tot \in Nat : off = w[p].off /\ n = w[p].n /\ tot = w[p].tot
  BY Writer
<1>6. /\ lock[i] = p /\ off = file[f].off /\ tot < n /\ n <= w[p].left /\ n <= MaxChunk
      /\ off + n <= End /\ off <= size[i]
  BY <1>1, <1>2, <1>3, <1>5, Writer DEF CallOf, ChunkOf, WriteiBlock
<1>7. PICK T \in Nat : Turns(p, T)
  BY <1>1, Writer DEF CallOf, LogOf
<1>8. PICK d \in Nat : d = off % BSIZE /\ d = Lead(p)
  BY <1>5, DivMod, Sizes DEF Lead
<1>9. (T = 0 /\ tot = 0) \/ (T > 0 /\ d + tot = T * BSIZE)
  BY <1>5, <1>6, <1>7, <1>8 DEF Turns
<1>10. PICK bn \in Nat : bn = (off + tot) \div BSIZE
  <2>1. off + tot \in Nat /\ BSIZE \in Nat \ {0}
    BY Sizes
  <2> QED BY <2>1, DivMod
<1>11. PICK m : m = Min({n - tot, BSIZE - ((off + tot) % BSIZE)})
  OBVIOUS
<1>12. /\ m \in Nat /\ tot + m <= n /\ off + tot + m <= (bn + 1) * BSIZE
       /\ bn * BSIZE <= off + tot
       /\ \/ tot + m < n /\ d + (tot + m) = (T + 1) * BSIZE
          \/ tot + m = n
       /\ T * BSIZE < d + n /\ d < BSIZE
       /\ T = 0 /\ d > 0 => bn * BSIZE < off + tot
  <2>1. BSIZE \in Nat \ {0}
    BY Sizes
  <2>2. TurnOf(off, n, tot, BSIZE, T, d, bn, m)
    BY <1>6, <1>8, <1>9, <1>10, <1>11, <2>1 DEF TurnOf
  <2> QED BY <2>2, Turn
<1>13. bn \in 0 .. MAXFILE - 1
  <2>1. bn * BSIZE < MAXFILE * BSIZE
    BY <1>6, <1>12, Sizes, TimesNext DEF End
  <2>2. bn < MAXFILE
    BY <2>1, TimesLess, Sizes
  <2> QED BY <2>2, Sizes
<1>14. PICK k \in Place : k = PlaceOf(bn)
  BY <1>13, Sizes
<1>15. PICK t : t = bmap(i, bn)
  OBVIOUS
<1>16. Found(i, k, t)
  BY <1>13, <1>14, <1>15, BmapFound DEF DataInv
<1>17. /\ used' = t.used /\ addrs' = t.addrs
       /\ UNCHANGED <<file, ofile, held, fds, np, size, lock, panic>>
       /\ \/ /\ t.addr # 0 /\ word' = [t.word EXCEPT ![t.addr] = Data]
             /\ logged' = [logged EXCEPT ![p] = @ \cup t.logged \cup {t.addr}]
             /\ w' = [w EXCEPT ![p].tot = tot + m] /\ pc' = pc
          \/ /\ word' = t.word
             /\ logged' = [logged EXCEPT ![p] = @ \cup t.logged]
             /\ pc' = [pc EXCEPT ![p] = "writeiend"] /\ w' = w
  <2>1. off + tot = w[p].off + w[p].tot /\ (w[p].off + w[p].tot) \div BSIZE = bn /\ ~(bn >= MAXFILE)
    BY <1>5, <1>10, <1>13, Sizes
  <2> QED BY <1>2, <1>3, <1>5, <1>11, <1>15, <2>1 DEF WriteiBlock, Goto, tableVars
<1>18. Grown(i, k, t)
  BY <1>13, <1>14, <1>16, <1>17, BlockGrows DEF DataInv
<1>19. PICK x \in WriteRec :
         /\ w' = [w EXCEPT ![p] = x] /\ x.f = f /\ x.off = off /\ x.n = n /\ x.left = w[p].left
         /\ \/ pc' = pc /\ x.tot = tot + m /\ t.addr # 0
            \/ pc' = [pc EXCEPT ![p] = "writeiend"] /\ x.tot = tot
  <2>1. w[p] \in WriteRec
    BY <1>4
  <2>2. CASE w' = w /\ pc' = [pc EXCEPT ![p] = "writeiend"]
    <3>1. w' = [w EXCEPT ![p] = w[p]]
      BY <1>4, <2>2
    <3> QED BY <1>2, <1>5, <2>1, <2>2, <3>1
  <2>3. CASE w' = [w EXCEPT ![p].tot = tot + m] /\ pc' = pc /\ t.addr # 0
    <3>1. PICK x : x = [w[p] EXCEPT !.tot = tot + m]
      OBVIOUS
    <3>2. x \in WriteRec /\ x.f = f /\ x.off = off /\ x.n = n /\ x.left = w[p].left /\ x.tot = tot + m
      BY <1>2, <1>5, <1>12, <2>1, <3>1 DEF WriteRec
    <3>3. w' = [w EXCEPT ![p] = x]
      BY <1>4, <2>3, <3>1
    <3> QED BY <2>3, <3>2, <3>3
  <2> QED BY <1>17, <2>2, <2>3
<1>20. PICK M : /\ logged' = [logged EXCEPT ![p] = M]
                /\ \/ M = logged[p] \cup t.logged
                   \/ t.addr # 0 /\ M = logged[p] \cup t.logged \cup {t.addr}
  BY <1>4, <1>17
<1>21. PICK C \in Nat, N \in Nat :
         /\ C = Cardinality(Logged(p)) /\ N = Cardinality(M \ IndirectOf(addrs', i))
         /\ N <= C + 2 /\ (At(i, k) # 0 => N <= C + 1) /\ M \subseteq AllBlocks
  <2>1. logged[p] \subseteq AllBlocks
    BY <1>4
  <2>2. Logged(p) = logged[p] \ IndirectOf(addrs, i)
    BY <1>3 DEF Logged
  <2>3. PICK L : L = logged[p]
    OBVIOUS
  <2>4. L \subseteq AllBlocks /\ MapInv
        /\ (M = L \cup t.logged \/ (t.addr # 0 /\ M = L \cup t.logged \cup {t.addr}))
    BY <1>20, <2>1, <2>3 DEF DataInv
  <2>5. PICK N \in Nat :
             /\ N = Cardinality(M \ IndirectOf(addrs', i))
             /\ Cardinality(L \ IndirectOf(addrs, i)) \in Nat
             /\ N <= Cardinality(L \ IndirectOf(addrs, i)) + 2
             /\ At(i, k) # 0 => N <= Cardinality(L \ IndirectOf(addrs, i)) + 1
             /\ M \subseteq AllBlocks
    BY <1>16, <1>17, <1>18, <2>4, TurnLogs
  <2> QED BY <2>2, <2>3, <2>5
<1>22. /\ pc' \in [Proc -> PCs] /\ pc'[p] \in InChunk /\ w' \in [Proc -> WriteRec] /\ w'[p] = x
       /\ \A q \in Proc : q # p => pc'[q] = pc[q] /\ w'[q] = w[q] /\ logged'[q] = logged[q]
       /\ logged' \in [Proc -> SUBSET AllBlocks] /\ logged'[p] = M
       /\ (pc'[p] = "writei" => x.tot = tot + m /\ t.addr # 0)
       /\ (pc'[p] # "writei" => x.tot = tot)
  BY <1>1, <1>4, <1>19, <1>20, <1>21 DEF PCs, InChunk
<1>23. TableInv'
  <2>1. \A q \in Proc : pc'[q] = pc[q] \/ {pc'[q], pc[q]} \subseteq InWrite \cup {"user"}
    BY <1>1, <1>22 DEF InChunk, InWrite
  <2> QED BY <1>4, <1>17, <1>22, <2>1, WriteTable DEF DataInv
<1>24. MapInv'
  BY <1>18 DEF MapInv, Grown
<1>25. CoverInv'
  <2> SUFFICES ASSUME NEW j \in Inum, NEW b \in 0 .. MAXFILE - 1, b * BSIZE < size[j]
               PROVE  AtOf(addrs', word', j, PlaceOf(b)) # 0
    BY <1>17 DEF CoverInv, At
  <2>1. At(j, PlaceOf(b)) # 0 /\ PlaceOf(b) \in Place
    BY Sizes DEF DataInv, CoverInv
  <2> QED BY <1>18, <2>1 DEF Grown
<1>26. SizeInv'
  BY <1>17 DEF DataInv, SizeInv
<1>27. Ino(p)' = i
  BY <1>3, <1>17, <1>19, <1>22 DEF Ino
<1>28. CallOf(p)'
  <2>1. WriteOf(p)'
    <3>1. w'[p].f = f /\ w'[p].left < UintMax1 /\ file' = file /\ ofile' = ofile
      BY <1>2, <1>17, <1>19, <1>22
    <3> QED BY <1>2, <3>1 DEF WriteOf
  <2>2. x.tot \in Nat /\ x.tot <= n
    BY <1>6, <1>12, <1>22
  <2>3. ChunkOf(p)'
    BY <1>6, <1>17, <1>19, <1>22, <1>27, <2>2 DEF ChunkOf
  <2>4. CoverOf(p)'
    <3> SUFFICES ASSUME NEW b \in 0 .. MAXFILE - 1, b * BSIZE < off + x.tot
                 PROVE  AtOf(addrs', word', i, PlaceOf(b)) # 0
      BY <1>19, <1>22, <1>27 DEF CoverOf, At, NewEnd
    <3>1. CASE b * BSIZE < off + tot
      <4>1. At(i, PlaceOf(b)) # 0 /\ PlaceOf(b) \in Place
        BY <1>1, <1>3, <1>5, <3>1, Writer, Sizes DEF CallOf, CoverOf, NewEnd
      <4> QED BY <1>18, <4>1 DEF Grown
    <3>2. CASE ~(b * BSIZE < off + tot)
      <4>1. x.tot = tot + m /\ t.addr # 0
        BY <1>22, <3>2
      <4>2. b \in Nat /\ b * BSIZE \in Nat /\ bn * BSIZE \in Nat /\ (bn + 1) * BSIZE \in Nat
        BY <1>13, TimesNext, Sizes
      <4>3. b * BSIZE < (bn + 1) * BSIZE /\ bn * BSIZE <= b * BSIZE
        BY <1>12, <3>2, <4>1, <4>2
      <4>4. b < bn + 1
        BY <4>2, <4>3, TimesLess, Sizes
      <4>5. b = bn
        <5>1. ASSUME b < bn PROVE FALSE
          <6>1. (b + 1) * BSIZE <= bn * BSIZE /\ (b + 1) * BSIZE = b * BSIZE + BSIZE
            BY <4>2, <5>1, TimesMono, TimesNext, Sizes
          <6> QED BY <4>2, <4>3, <6>1, Sizes
        <5> QED BY <4>2, <4>4, <5>1
      <4> QED BY <1>14, <1>18, <4>1, <4>5 DEF Grown
    <3> QED BY <3>1, <3>2
  <2>5. Logged(p)' = M \ IndirectOf(addrs', i)
    BY <1>22, <1>27 DEF Logged
  <2>6. Lead(p)' = d /\ (Saved(p)' = IF d > 0 THEN 1 ELSE 0) /\ (Saved(p) = IF d > 0 THEN 1 ELSE 0)
    BY <1>8, <1>19, <1>22 DEF Lead, Saved
  <2>7. T = 0 /\ d > 0 => At(i, k) # 0
    BY <1>1, <1>3, <1>5, <1>12, <1>13, <1>14, Writer DEF CallOf, CoverOf, NewEnd
  <2>8. C <= 2 * T /\ (T > 0 => C + Saved(p) <= 2 * T)
    BY <1>7, <1>21 DEF Turns
  <2>9. N <= 2 * (T + 1) /\ (d > 0 => N + 1 <= 2 * (T + 1))
    <3>1. CASE T = 0
      BY <1>21, <2>7, <2>8, <3>1
    <3>2. CASE T > 0
      BY <1>21, <2>6, <2>8, <3>2
    <3> QED BY <3>1, <3>2
  <2>10. T <= ChunkBlocks /\ (d = 0 => T + 1 <= ChunkBlocks)
    <3>1. BSIZE \in Nat \ {0} /\ n <= ChunkBlocks * BSIZE /\ ChunkBlocks \in Nat
      BY <1>6, ChunkIs, Sizes
    <3> QED BY <1>12, <3>1, TurnsBound
  <2>11. N <= 2 * ChunkBlocks + 1
    BY <2>9, <2>10, ChunkIs
  <2>12. pc'[p] = "writei" => Turns(p, T + 1)'
    <3> SUFFICES ASSUME pc'[p] = "writei" PROVE Turns(p, T + 1)'
      OBVIOUS
    <3>1. Cardinality(Logged(p)') = N /\ w'[p].tot = tot + m /\ w'[p].n = n /\ (T + 1) - 1 = T
      BY <1>19, <1>21, <1>22, <2>5
    <3>2. N <= 2 * (T + 1) /\ N + Saved(p)' <= 2 * (T + 1) /\ T + 1 > 0
      BY <2>6, <2>9
    <3>3. \/ tot + m < n /\ Lead(p)' + (tot + m) = (T + 1) * BSIZE
          \/ tot + m = n /\ T * BSIZE < Lead(p)' + n
      BY <1>12, <2>6
    <3> QED BY <3>1, <3>2, <3>3 DEF Turns
  <2>13. LogOf(p)'
    <3>1. pc'[p] = "writei" => \E s \in Nat : Turns(p, s)'
      <4>1. T + 1 \in Nat
        OBVIOUS
      <4> QED BY <2>12, <4>1
    <3>2. Cardinality(Logged(p)') <= 2 * ChunkBlocks + 1
      BY <1>21, <2>5, <2>11
    <3> QED BY <1>22, <3>1, <3>2 DEF LogOf
  <2> QED BY <2>1, <2>3, <2>4, <2>13 DEF CallOf
<1>29. ASSUME NEW q \in Proc, q # p, pc[q] \in InChunk
       PROVE  Ino(q) \in Inum /\ Ino(q) # i
  BY <1>1, <1>3, <1>29, OneChunk, Writer
<1>30. \A q \in Proc : q # p => Still(q)
  BY <1>17, <1>22 DEF Still
<1>31. WriteInv'
  <2>1. \A q \in Proc : q # p /\ pc[q] \in InChunk =>
              /\ lock'[Ino(q)] = lock[Ino(q)] /\ size'[Ino(q)] = size[Ino(q)]
              /\ addrs'[Ino(q)] = addrs[Ino(q)]
              /\ \A l \in Place : At(Ino(q), l) # 0 => AtOf(addrs', word', Ino(q), l) # 0
    BY <1>17, <1>18, <1>29 DEF Grown
  <2>2. \A j \in Inum : /\ lock'[j] = p => pc'[p] \in InChunk /\ Ino(p)' = j
                        /\ lock'[j] # p => lock'[j] \in {None, lock[j]}
    BY <1>3, <1>17, <1>22, <1>27 DEF DataInv, WriteInv
  <2>3. lock' \in [Inum -> Proc \cup {None}]
    BY <1>4, <1>17
  <2> QED BY <1>22, <1>28, <1>30, <2>1, <2>2, <2>3, OthersStill
<1> QED BY <1>23, <1>24, <1>25, <1>26, <1>31 DEF DataInv

-----------------------------------------------------------------------------
(***************************************************************************)
(* The theorems.                                                           *)
(***************************************************************************)

\* An empty file system, and nobody writes.
LEMMA DataStarts == Init => DataInv
<1> SUFFICES ASSUME Init PROVE DataInv
  OBVIOUS
<1>1. TableInv /\ \A p \in Proc : pc[p] \notin InWrite
  BY TableStarts DEF Init
<1>2. /\ used = {} /\ word = [b \in Block |-> Data]
      /\ addrs = [i \in Inum |-> [k \in 0 .. NDIRECT |-> 0]] /\ size = [i \in Inum |-> 0]
      /\ lock = [i \in Inum |-> None] /\ w = [p \in Proc |-> NoWrite]
      /\ logged = [p \in Proc |-> {}] /\ panic = FALSE /\ file = [f \in File |-> NoFile]
  BY DEF Init, TableInit
<1>3. addrs \in Addrs /\ word \in Words /\ used \subseteq Block
  BY <1>2, Clear DEF Addrs, Words
<1>4. \A i \in Inum, k \in Place : At(i, k) = 0
  BY <1>2, Sizes DEF At, AtOf, Place
<1>5. MapInv
  BY <1>2, <1>3, <1>4 DEF MapInv, MapOK, At
<1>6. SizeInv
  BY <1>2, Sizes DEF SizeInv, NoFile
<1>7. CoverInv
  <2>1. ASSUME NEW i \in Inum, NEW bn \in 0 .. MAXFILE - 1, bn * BSIZE < size[i] PROVE FALSE
    BY <1>2, <2>1, Sizes, TimesNext
  <2> QED BY <2>1 DEF CoverInv
<1>8. WriteInv
  <2>1. w \in [Proc -> WriteRec] /\ lock \in [Inum -> Proc \cup {None}]
        /\ logged \in [Proc -> SUBSET AllBlocks]
    BY <1>2 DEF NoWrite, WriteRec
  <2>2. \A i \in Inum, p \in Proc : lock[i] # p
    BY <1>2, FilesAssumption
  <2>3. ASSUME NEW p \in Proc PROVE CallOf(p)
    <3>1. pc[p] \notin InWrite /\ pc[p] \notin InChunk /\ pc[p] # "writei" /\ logged[p] = {}
      BY <1>1, <1>2 DEF InWrite, InChunk
    <3> QED BY <3>1 DEF CallOf, WriteOf, ChunkOf, CoverOf, LogOf
  <2> QED BY <2>1, <2>2, <2>3 DEF WriteInv
<1> QED BY <1>1, <1>5, <1>6, <1>7, <1>8 DEF DataInv

\* A step that changes nothing.
LEMMA DataStutters ==
    ASSUME DataInv, UNCHANGED vars
    PROVE  DataInv'
<1>1. UNCHANGED <<file, ofile, held, fds, np, pc>> /\ UNCHANGED dataVars
  BY DEF vars, tableVars
<1>2. TableInv'
  BY <1>1 DEF DataInv, TableInv, TableTypes, CallInv, HeldOf, FdOf, ForkOf, Fresh, BlankInv,
              FileRefExact
<1>3. Kept
  BY <1>1 DEF Kept, SameFile, DataInv, TableInv, TableTypes, FileRec
<1> QED BY <1>1, <1>2, <1>3, TableData

\* Every step keeps the files in order.
LEMMA DataStep ==
    ASSUME DataInv, [Next]_vars
    PROVE  DataInv'
<1>1. CASE UNCHANGED vars
  BY <1>1, DataStutters
<1>2. CASE Next
  <2>1. PICK p \in Proc :
          \/ TableNext(p) /\ UNCHANGED dataVars
          \/ \E i \in Inum : sys_open(p, i)
          \/ \E fd \in FD :
                \/ \E n \in WriteLens : sys_write(p, fd, n)
                \/ \E n \in ReadLens : sys_read(p, fd, n)
          \/ ChunkRefused(p) \/ ChunkStarts(p) \/ WriteiBlock(p) \/ ChunkEnds(p)
    BY <1>2 DEF Next
  <2>2. CASE TableNext(p) /\ UNCHANGED dataVars
    BY <2>2, TableStep, TableData DEF DataInv
  <2>3. ASSUME NEW i \in Inum, sys_open(p, i)
        PROVE  DataInv'
    <3>1. lock[i] = None /\ OpenFile(p, i) /\ UNCHANGED <<lock, w, logged>>
      BY <2>3 DEF sys_open
    <3>2. CASE itrunc(i)
      BY <3>1, <3>2, TruncData
    <3>3. CASE UNCHANGED <<used, word, addrs, size, panic>>
      <4>1. UNCHANGED dataVars
        BY <3>1, <3>3 DEF dataVars
      <4>2. TableInv' /\ Kept
        BY <3>1, OpenTable DEF DataInv
      <4> QED BY <4>1, <4>2, TableData
    <3> QED BY <2>3, <3>2, <3>3 DEF sys_open
  <2>4. ASSUME NEW fd \in FD, NEW n \in WriteLens, sys_write(p, fd, n)
        PROVE  DataInv'
    BY <2>4, WriteData
  <2>5. ASSUME NEW fd \in FD, NEW n \in ReadLens, sys_read(p, fd, n)
        PROVE  DataInv'
    BY <2>5, ReadData
  <2>6. CASE ChunkRefused(p) \/ ChunkStarts(p) \/ WriteiBlock(p) \/ ChunkEnds(p)
    BY <2>6, RefusedData, StartsData, BlockData, EndsData
  <2> QED BY <2>1, <2>2, <2>3, <2>4, <2>5, <2>6
<1> QED BY <1>1, <1>2

\* The files are in order in every state.
THEOREM DataAlways == Spec => []DataInv
<1>1. Init => DataInv
  BY DataStarts
<1>2. DataInv /\ [Next]_vars => DataInv'
  BY DataStep
<1> QED BY <1>1, <1>2, PTL DEF Spec

\* A file's count is the number of its descriptors: dup(), fork(), close(), exit()
\* and the failures of open() and pipe() neither lose a file nor free one in use.
THEOREM FileRefAlwaysExact == Spec => []FileRefExact
<1>1. DataInv => FileRefExact
  BY DEF DataInv, TableInv
<1> QED BY <1>1, DataAlways, PTL

\* The places of an inode that refer to a block.
LEMMA PlacesAre ==
    ASSUME DataInv, NEW i \in Inum
    PROVE  \A x : x \in Places(i) <=> \E k \in Place : x = <<i, k, At(i, k)>> /\ At(i, k) # 0
<1>1. NDIRECT \in Nat /\ NINDIRECT \in Nat /\ addrs \in Addrs /\ word \in Words
  BY Sizes DEF DataInv, MapInv, MapOK
<1>2. addrs[i][NDIRECT] # 0 => DOMAIN word[addrs[i][NDIRECT]] = 0 .. NINDIRECT - 1
  <2>1. addrs[i][NDIRECT] # 0 => addrs[i][NDIRECT] \in Block
    BY <1>1 DEF Addrs
  <2> QED BY <1>1, <2>1 DEF Words
<1>3. ASSUME NEW x, x \in Places(i)
      PROVE  \E k \in Place : x = <<i, k, At(i, k)>> /\ At(i, k) # 0
  <2>1. CASE \E k \in 0 .. NDIRECT : addrs[i][k] # 0 /\ x = <<i, k, addrs[i][k]>>
    <3>1. PICK k \in 0 .. NDIRECT : addrs[i][k] # 0 /\ x = <<i, k, addrs[i][k]>>
      BY <2>1
    <3>2. k \in Place /\ At(i, k) = addrs[i][k]
      BY <1>1, <3>1 DEF Place, At, AtOf
    <3> QED BY <3>1, <3>2
  <2>2. CASE addrs[i][NDIRECT] # 0 /\ \E j \in 0 .. NINDIRECT - 1 :
                /\ word[addrs[i][NDIRECT]][j] # 0
                /\ x = <<i, NDIRECT + 1 + j, word[addrs[i][NDIRECT]][j]>>
    <3>1. PICK j \in 0 .. NINDIRECT - 1 :
             /\ word[addrs[i][NDIRECT]][j] # 0
             /\ x = <<i, NDIRECT + 1 + j, word[addrs[i][NDIRECT]][j]>>
      BY <2>2
    <3>2. PICK k \in Place : k = NDIRECT + 1 + j
      BY <1>1 DEF Place
    <3>3. ~(k <= NDIRECT) /\ k - NDIRECT - 1 = j
      BY <1>1, <3>2
    <3>4. At(i, k) = word[addrs[i][NDIRECT]][j]
      BY <2>2, <3>3 DEF At, AtOf
    <3> QED BY <3>1, <3>2, <3>4
  <2> QED BY <1>2, <1>3, <2>1, <2>2 DEF Places
<1>4. ASSUME NEW k \in Place, At(i, k) # 0, NEW x, x = <<i, k, At(i, k)>>
      PROVE  x \in Places(i)
  <2>1. CASE k <= NDIRECT
    <3>1. k \in 0 .. NDIRECT /\ At(i, k) = addrs[i][k]
      BY <1>1, <2>1 DEF Place, At, AtOf
    <3> QED BY <1>4, <3>1 DEF Places
  <2>2. CASE ~(k <= NDIRECT)
    <3>1. PICK j \in 0 .. NINDIRECT - 1 : j = k - NDIRECT - 1
      BY <1>1, <2>2 DEF Place
    <3>2. addrs[i][NDIRECT] # 0 /\ At(i, k) = word[addrs[i][NDIRECT]][j]
      BY <1>4, <2>2, <3>1 DEF At, AtOf
    <3>3. k = NDIRECT + 1 + j
      BY <1>1, <3>1 DEF Place
    <3> QED BY <1>2, <1>4, <3>2, <3>3 DEF Places
  <2> QED BY <2>1, <2>2
<1> QED BY <1>3, <1>4

\* The bitmap is exact.
LEMMA BitmapExact == DataInv => BlocksExact
<1> SUFFICES ASSUME DataInv PROVE BlocksExact
  OBVIOUS
<1>1. PICK P, U : P = UNION {Places(i) : i \in Inum} /\ U = used
  OBVIOUS
<1>2. MapOK(used, addrs, word)
  BY DEF DataInv, MapInv
<1>3. ASSUME NEW x \in P
      PROVE  \E i \in Inum, k \in Place : x = <<i, k, At(i, k)>> /\ At(i, k) # 0
  <2>1. PICK i \in Inum : x \in Places(i)
    BY <1>1, <1>3
  <2> QED BY <2>1, PlacesAre
<1>4. ASSUME NEW i \in Inum, NEW k \in Place, At(i, k) # 0
      PROVE  <<i, k, At(i, k)>> \in P
  <2>1. <<i, k, At(i, k)>> \in Places(i)
    BY <1>4, PlacesAre
  <2> QED BY <1>1, <2>1
<1>5. \A x \in P : x[3] \in U
  BY <1>1, <1>2, <1>3 DEF MapOK, At
<1>6. \A b \in U : \E x \in P : x[3] = b
  <2> SUFFICES ASSUME NEW b \in U PROVE \E x \in P : x[3] = b
    OBVIOUS
  <2>1. PICK i \in Inum, k \in Place : At(i, k) = b
    BY <1>1, <1>2 DEF MapOK, At
  <2>2. b # 0
    BY <1>1, <1>2, Sizes DEF MapOK
  <2>3. <<i, k, At(i, k)>> \in P
    BY <1>4, <2>1, <2>2
  <2> QED BY <2>1, <2>3
<1>7. \A x, y \in P : x[3] = y[3] => x = y
  <2> SUFFICES ASSUME NEW x \in P, NEW y \in P, x[3] = y[3] PROVE x = y
    OBVIOUS
  <2>1. PICK i \in Inum, k \in Place : x = <<i, k, At(i, k)>> /\ At(i, k) # 0
    BY <1>3
  <2>2. PICK j \in Inum, l \in Place : y = <<j, l, At(j, l)>> /\ At(j, l) # 0
    BY <1>3
  <2>3. At(i, k) = At(j, l)
    BY <2>1, <2>2
  <2>4. i = j /\ k = l
    BY <1>2, <2>1, <2>3 DEF MapOK, At
  <2> QED BY <2>1, <2>2, <2>4
<1>8. U = {x[3] : x \in P}
  BY <1>5, <1>6
<1>9. Cardinality(P) = Cardinality(U)
  <2>1. IsFiniteSet(U)
    BY <1>1, <1>2, BlocksFinite, FS_Subset DEF MapOK
  <2>2. PICK g : g = [b \in U |-> CHOOSE x \in P : x[3] = b]
    OBVIOUS
  <2>3. g \in [U -> P] /\ \A b \in U : g[b][3] = b
    BY <1>6, <2>2
  <2>4. \A b, c \in U : g[b] = g[c] => b = c
    BY <2>3
  <2>5. \A x \in P : \E b \in U : g[b] = x
    BY <1>5, <1>7, <2>3
  <2>6. g \in Bijection(U, P)
    BY <2>3, <2>4, <2>5 DEF Bijection, Injection, Surjection, IsInjective
  <2>7. ExistsBijection(U, P)
    BY <2>6 DEF ExistsBijection
  <2> QED BY <2>1, <2>7, FS_Bijection
<1> QED BY <1>1, <1>8, <1>9 DEF BlocksExact

\* Every byte below the size has a block.
LEMMA SizesMapped == DataInv => SizeMapped
<1> SUFFICES ASSUME DataInv, NEW i \in Inum, NEW bn \in 0 .. MAXFILE - 1, bn * BSIZE < size[i]
             PROVE  IF bn < NDIRECT THEN addrs[i][bn] # 0
                    ELSE addrs[i][NDIRECT] # 0 /\ word[addrs[i][NDIRECT]][bn - NDIRECT] # 0
  BY DEF SizeMapped
<1>1. At(i, PlaceOf(bn)) # 0
  BY DEF DataInv, CoverInv
<1>2. CASE bn < NDIRECT
  BY <1>1, <1>2, Sizes DEF At, AtOf, PlaceOf
<1>3. CASE ~(bn < NDIRECT)
  <2>1. PICK k : k = PlaceOf(bn) /\ ~(k <= NDIRECT) /\ k - NDIRECT - 1 = bn - NDIRECT
    BY <1>3, Sizes DEF PlaceOf
  <2> QED BY <1>1, <1>3, <2>1 DEF At, AtOf
<1> QED BY <1>2, <1>3

\* The bitmap, the block numbers and the sizes agree after every step of bmap(),
\* writei() and itrunc(), when the disk is full too, and nothing panics.
THEOREM FileMapAlwaysExact == Spec => []FileMapExact
<1>1. DataInv => TypeOK
  <2> SUFFICES ASSUME DataInv PROVE TypeOK
    OBVIOUS
  <2>1. \A f \in File :
          /\ file[f].ref \in Nat /\ file[f].type \in {"none", "inode", "pipe"}
          /\ file[f].ip \in Inum \cup {None} /\ file[f].off \in 0 .. MAXFILE * BSIZE
    <3>1. \A f \in File : file[f] \in FileRec /\ file[f].off <= End
      BY DEF DataInv, TableInv, TableTypes, SizeInv
    <3> QED BY <3>1, Sizes DEF FileRec, End
  <2>2. \A p \in Proc : logged[p] \subseteq Block \cup {BBLOCK(b) : b \in Block}
    BY DEF DataInv, WriteInv, AllBlocks
  <2>3. /\ ofile \in [Proc -> [FD -> File \cup {None}]]
        /\ held \in [Proc -> [1 .. 2 -> File \cup {None}]]
        /\ fds \in [Proc -> [1 .. 2 -> FD \cup {None}]] /\ np \in [Proc -> Proc \cup {None}]
    BY DEF DataInv, TableInv, TableTypes, OFiles, Helds
  <2>4. used \subseteq Block /\ addrs \in [Inum -> [0 .. NDIRECT -> Block \cup {0}]]
    BY DEF DataInv, MapInv, MapOK, Addrs
  <2>5. size \in [Inum -> 0 .. MAXFILE * BSIZE] /\ lock \in [Inum -> Proc \cup {None}]
    BY DEF DataInv, SizeInv, WriteInv, End
  <2> QED BY <2>1, <2>2, <2>3, <2>4, <2>5 DEF TypeOK
<1>2. DataInv => NoPanic
  BY DEF DataInv, SizeInv, NoPanic
<1>3. DataInv => FileMapExact
  BY <1>1, <1>2, BitmapExact, SizesMapped DEF FileMapExact
<1> QED BY <1>3, DataAlways, PTL

\* A chunk and its inode fit the MAXOPBLOCKS that begin_op() reserves, however the
\* chunk lies across blocks and however many of them have to be allocated.
THEOREM ChunkAlwaysFits == Spec => []ChunkFits
<1>1. ASSUME DataInv, NEW p \in Proc, logged[p] # {}
      PROVE  Cardinality(logged[p]) + 1 <= MAXOPBLOCKS
  <2>1. pc[p] \in InChunk /\ Cardinality(Logged(p)) <= 2 * ChunkBlocks + 1
    BY <1>1, Writer DEF CallOf, LogOf
  <2>2. PICK L, M, a : L = Logged(p) /\ M = logged[p] /\ a = addrs[Ino(p)][NDIRECT]
    OBVIOUS
  <2>3. M \subseteq L \cup {a, BBLOCK(a)}
    BY <2>2 DEF Logged, IndirectOf
  <2>4. IsFiniteSet(L)
    <3>1. L \subseteq AllBlocks
      BY <1>1, <2>2, Writer DEF Logged
    <3> QED BY <3>1, BlocksFinite, FS_Subset
  <2>5. Cardinality(M) \in Nat /\ Cardinality(L) \in Nat /\ Cardinality(M) <= Cardinality(L) + 2
    BY <2>3, <2>4, FewMore
  <2> QED BY <2>1, <2>2, <2>5, ChunkIs, DataAssumption
<1>2. DataInv => ChunkFits
  BY <1>1 DEF ChunkFits
<1> QED BY <1>2, DataAlways, PTL

\* Writes through one file follow one another: when a chunk moves the offset, it had
\* been placed where the offset still is.
THEOREM ChunksAlwaysFollow == Spec => ChunksFollow
<1> DEFINE A == \A p \in Proc : pc[p] \in {"writei", "writeiend"} /\ pc'[p] \in {"chunk", "user"} =>
                   w[p].off = file[w[p].f].off
<1>1. ASSUME DataInv PROVE A
  BY <1>1, Writer DEF CallOf, ChunkOf, InChunk
<1>2. DataInv /\ [Next]_vars => [A]_vars
  BY <1>1
<1> QED BY <1>2, DataAlways, PTL DEF Spec, ChunksFollow
=============================================================================
