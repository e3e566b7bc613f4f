------------------------------ MODULE FileData ------------------------------
(***************************************************************************)
(* The content of files: the bitmap of free blocks, bmap(), itrunc(),      *)
(* readi() and writei() of kernel/fs.c, and fileread() and filewrite() of  *)
(* kernel/file.c, which share f->off between the descriptors of a file.    *)
(*                                                                         *)
(* Bytes are counted and not kept, but the words of an indirect block are, *)
(* and a block of data looks like one that holds block numbers.  The inode *)
(* is locked for a chunk of a write, which takes a step for each block.    *)
(***************************************************************************)
EXTENDS FileTable

CONSTANTS
    NBLOCK, BPB,          \* blocks for files, and bits in a block of the bitmap
    NDIRECT, NINDIRECT, BSIZE,
    MAXOPBLOCKS,
    UintMax1,             \* one more than the largest uint
    WriteLens, ReadLens   \* bounds: the sizes asked for

MAXFILE == NDIRECT + NINDIRECT
Block   == 1 .. NBLOCK

ASSUME DataAssumption ==
    /\ {NBLOCK, BPB, NINDIRECT, BSIZE} \subseteq Nat \ {0} /\ NDIRECT \in Nat
    /\ MAXOPBLOCKS \in Nat /\ MAXOPBLOCKS >= 6
    /\ UintMax1 \in Nat /\ UintMax1 > 2 * MAXFILE * BSIZE
    /\ WriteLens \cup ReadLens \subseteq 0 .. UintMax1 - 1

VARIABLES
    used,          \* the bitmap
    word,          \* of each block: the block numbers in it
    addrs, size,   \* of each inode; addrs[i][NDIRECT] is the indirect block
    lock,          \* ip->lock of each inode
    w,             \* of each process: its filewrite()
    logged,        \* the blocks of each process's transaction
    panic

dataVars == <<used, word, addrs, size, lock, w, logged, panic>>
vars == <<tableVars, pc, dataVars>>

\* f; bytes left, n1 of the chunk, its offset, and tot.
NoWrite == [f |-> None, left |-> 0, n |-> 0, off |-> 0, tot |-> 0]
Zeros   == [k \in 0 .. NINDIRECT - 1 |-> 0]
Data    == [k \in 0 .. NINDIRECT - 1 |-> 1]

\* The block of the bitmap that has the bit of block b.
BBLOCK(b) == NBLOCK + 1 + (b \div BPB)

Init ==
    /\ TableInit
    /\ used = {} /\ word = [b \in Block |-> Data]
    /\ addrs = [i \in Inum |-> [k \in 0 .. NDIRECT |-> 0]]
    /\ size = [i \in Inum |-> 0]
    /\ lock = [i \in Inum |-> None]
    /\ w = [p \in Proc |-> NoWrite]
    /\ logged = [p \in Proc |-> {}]
    /\ panic = FALSE

\* Mutant: the block is not cleared.
bzero_Not(ws, b) == ws

bzero(ws, b) == [ws EXCEPT ![b] = Zeros]

\* balloc() takes the first free block; 0 if there is none.
balloc(u) == IF u = Block THEN 0 ELSE Min(Block \ u)

(***************************************************************************)
(* bmap(i, bn), as the block it returns (0 if the disk is full), and what  *)
(* it leaves of the bitmap, the words and the addresses, with the blocks   *)
(* it logged.                                                              *)
(***************************************************************************)
bmapDirect(i, bn) ==
    LET a == IF addrs[i][bn] = 0 THEN balloc(used) ELSE addrs[i][bn]
        new == addrs[i][bn] = 0 /\ a # 0
    IN [addr |-> a,
        used |-> IF new THEN used \cup {a} ELSE used,
        word |-> IF new THEN bzero(word, a) ELSE word,
        addrs |-> [addrs EXCEPT ![i][bn] = a],
        logged |-> IF new THEN {BBLOCK(a), a} ELSE {}]

bmapIndirect(i, k) ==
    LET t   == bmapDirect(i, NDIRECT)     \* the indirect block itself
        old == t.word[t.addr][k]
        a   == IF old = 0 THEN balloc(t.used) ELSE old
        new == old = 0 /\ a # 0
    IN IF t.addr = 0 THEN t
       ELSE [addr |-> a,
             used |-> IF new THEN t.used \cup {a} ELSE t.used,
             word |-> IF new THEN [bzero(t.word, a) EXCEPT ![t.addr][k] = a] ELSE t.word,
             addrs |-> t.addrs,
             logged |-> t.logged \cup (IF new THEN {BBLOCK(a), a, t.addr} ELSE {})]

bmap(i, bn) == IF bn < NDIRECT THEN bmapDirect(i, bn) ELSE bmapIndirect(i, bn - NDIRECT)
-----------------------------------------------------------------------------
(***************************************************************************)
(* sys_open(), with O_TRUNC or without.                                    *)
(***************************************************************************)
\* The blocks of an inode.
Mapped(i) ==
    ({addrs[i][k] : k \in 0 .. NDIRECT}
     \cup (IF addrs[i][NDIRECT] = 0 THEN {} ELSE {word[addrs[i][NDIRECT]][k] : k \in DOMAIN Zeros}))
    \ {0}

\* itrunc() frees them; bfree() of a free block panics.  What a free block holds
\* does not matter, so long as it is not clear.
itrunc(i) ==
    /\ used' = used \ Mapped(i)
    /\ addrs' = [addrs EXCEPT ![i] = [k \in 0 .. NDIRECT |-> 0]]
    /\ size' = [size EXCEPT ![i] = 0]
    /\ panic' = ~(Mapped(i) \subseteq used)
    /\ word' = [b \in Block |-> IF b \in Mapped(i) THEN Data ELSE word[b]]

sys_open(p, i) ==
    /\ lock[i] = None /\ ~panic
    /\ OpenFile(p, i)
    /\ itrunc(i) \/ UNCHANGED <<used, word, addrs, size, panic>>
    /\ UNCHANGED <<lock, w, logged>>
-----------------------------------------------------------------------------
(***************************************************************************)
(* filewrite(): chunks small enough for a transaction, one after another.  *)
(***************************************************************************)
\* Mutant: no room for the bitmap and for writes that are not aligned.
MaxChunk_NoSlop == (MAXOPBLOCKS - 1 - 1) * BSIZE

MaxChunk == ((MAXOPBLOCKS - 1 - 1 - 2) \div 2) * BSIZE

sys_write(p, fd, n) ==
    LET f == ofile[p][fd]
    IN /\ pc[p] = "user" /\ f # None /\ ~panic
       /\ file[f].type = "inode"
       /\ w' = [w EXCEPT ![p] = [NoWrite EXCEPT !.f = f, !.left = n]]
       /\ Goto(p, "chunk")
       /\ UNCHANGED <<tableVars, used, word, addrs, size, lock, logged, panic>>

\* uint addition.
Plus(a, b) == (a + b) % UintMax1

InRange(off, n) == Plus(off, n) <= MAXFILE * BSIZE

\* Mutant: the inode is not locked.
CanLock_Always(i) == TRUE

CanLock(i) == lock[i] = None

\* begin_op(), ilock(); f->off is read with the inode locked.  writei() refuses ...
ChunkRefused(p) ==
    LET f == w[p].f
        n == Min({w[p].left, MaxChunk})
    IN /\ pc[p] = "chunk" /\ ~panic /\ CanLock(file[f].ip)
       /\ \/ n = 0
          \/ file[f].off > size[file[f].ip] \/ Plus(file[f].off, n) < file[f].off
          \/ ~InRange(file[f].off, n)
       /\ w' = [w EXCEPT ![p] = NoWrite]
       /\ Goto(p, "user")
       /\ UNCHANGED <<tableVars, used, word, addrs, size, lock, logged, panic>>

\* ... or starts.
ChunkStarts(p) ==
    LET f == w[p].f
        n == Min({w[p].left, MaxChunk})
    IN /\ pc[p] = "chunk" /\ ~panic /\ n > 0 /\ CanLock(file[f].ip)
       /\ file[f].off <= size[file[f].ip] /\ Plus(file[f].off, n) >= file[f].off
       /\ InRange(file[f].off, n)
       /\ lock' = [lock EXCEPT ![file[f].ip] = p]
       /\ w' = [w EXCEPT ![p] = [@ EXCEPT !.n = n, !.off = file[f].off, !.tot = 0]]
       /\ Goto(p, "writei")
       /\ UNCHANGED <<tableVars, used, word, addrs, size, logged, panic>>

\* One turn of writei()'s loop: a block is found or allocated and written.  It
\* ends the loop if there is no block, or if copyin() fails.
WriteiBlock(p) ==
    LET i   == file[w[p].f].ip
        off == w[p].off + w[p].tot
        t   == bmap(i, off \div BSIZE)
        m   == Min({w[p].n - w[p].tot, BSIZE - (off % BSIZE)})
    IN /\ pc[p] = "writei" /\ ~panic /\ w[p].tot < w[p].n
       /\ IF off \div BSIZE >= MAXFILE
          THEN panic' = TRUE /\ UNCHANGED <<used, word, addrs, logged, w, pc>>
          ELSE /\ used' = t.used /\ addrs' = t.addrs
               /\ UNCHANGED panic
               /\ \/ /\ t.addr # 0
                     /\ word' = [t.word EXCEPT ![t.addr] = Data]
                     /\ logged' = [logged EXCEPT ![p] = @ \cup t.logged \cup {t.addr}]
                     /\ w' = [w EXCEPT ![p].tot = @ + m]
                     /\ UNCHANGED pc
                  \/ /\ word' = t.word
                     /\ logged' = [logged EXCEPT ![p] = @ \cup t.logged]
                     /\ Goto(p, "writeiend")
                     /\ UNCHANGED w
       /\ UNCHANGED <<tableVars, size, lock>>

\* Where writei() stopped.
NewEnd(p) == w[p].off + w[p].tot

\* The end of writei() and of the chunk: size, iupdate(), f->off, iunlock(), end_op().
ChunkEnds(p) ==
    LET f == w[p].f
        i == file[f].ip
        left == w[p].left - w[p].tot
        done == w[p].tot # w[p].n \/ left = 0
    IN /\ ~panic
       /\ \/ pc[p] = "writeiend"
          \/ pc[p] = "writei" /\ w[p].tot = w[p].n
       /\ size' = [size EXCEPT ![i] = Max({@, NewEnd(p)})]
       /\ file' = [file EXCEPT ![f].off = @ + w[p].tot]
       /\ lock' = [lock EXCEPT ![i] = None]
       /\ logged' = [logged EXCEPT ![p] = {}]
       /\ Goto(p, IF done THEN "user" ELSE "chunk")
       /\ w' = [w EXCEPT ![p] = IF done THEN NoWrite ELSE [NoWrite EXCEPT !.f = f, !.left = left]]
       /\ UNCHANGED <<ofile, held, fds, np, used, word, addrs, panic>>
-----------------------------------------------------------------------------
\* The bytes readi() gives, none for an offset past the end or a sum that wraps.
Clipped(off, n, sz) == IF Plus(off, n) > sz THEN sz - off ELSE n

\* Mutant: sums that wrap are not refused.
ReadiLen_Wraps(off, n, sz) == IF off > sz THEN 0 ELSE Clipped(off, n, sz)

ReadiLen(off, n, sz) ==
    IF off > sz \/ Plus(off, n) < off THEN 0 ELSE Clipped(off, n, sz)

\* fileread(), in one step because the inode stays locked.
sys_read(p, fd, n) ==
    LET f == ofile[p][fd]
    IN /\ pc[p] = "user" /\ f # None /\ ~panic
       /\ file[f].type = "inode" /\ lock[file[f].ip] = None
       /\ file' = [file EXCEPT ![f].off = @ + ReadiLen(@, n, size[file[f].ip])]
       /\ UNCHANGED <<ofile, held, fds, np, pc, dataVars>>

Next ==
    \E p \in Proc :
        \/ TableNext(p) /\ UNCHANGED dataVars
        \/ \E i \in Inum : sys_open(p, i)
        \/ \E fd \in FD :
              \/ \E n \in WriteLens : sys_write(p, fd, n)
              \/ \E n \in ReadLens : sys_read(p, fd, n)
        \/ ChunkRefused(p) \/ ChunkStarts(p) \/ WriteiBlock(p) \/ ChunkEnds(p)

Spec == Init /\ [][Next]_vars
-----------------------------------------------------------------------------
TypeOK ==
    /\ \A f \in File :
          /\ file[f].ref \in Nat /\ file[f].type \in {"none", "inode", "pipe"}
          /\ file[f].ip \in Inum \cup {None} /\ file[f].off \in 0 .. MAXFILE * BSIZE
    /\ ofile \in [Proc -> [FD -> File \cup {None}]]
    /\ held \in [Proc -> [1 .. 2 -> File \cup {None}]]
    /\ fds \in [Proc -> [1 .. 2 -> FD \cup {None}]]
    /\ np \in [Proc -> Proc \cup {None}]
    /\ used \subseteq Block
    /\ addrs \in [Inum -> [0 .. NDIRECT -> Block \cup {0}]]
    /\ size \in [Inum -> 0 .. MAXFILE * BSIZE]
    /\ lock \in [Inum -> Proc \cup {None}]
    /\ \A p \in Proc : logged[p] \subseteq Block \cup {BBLOCK(b) : b \in Block}

\* Neither bmap() nor bfree() panics.
NoPanic == ~panic

\* The blocks an inode refers to, each with the place that refers to it.
Places(i) ==
    {<<i, k, addrs[i][k]>> : k \in {j \in 0 .. NDIRECT : addrs[i][j] # 0}}
    \cup (IF addrs[i][NDIRECT] = 0 THEN {}
          ELSE LET ind == word[addrs[i][NDIRECT]]
               IN {<<i, NDIRECT + 1 + k, ind[k]>> : k \in {j \in DOMAIN ind : ind[j] # 0}})

\* A block is marked in the bitmap exactly when an inode refers to it, and then in
\* one place of one inode: no block is shared or lost when the disk fills up in
\* the middle of a write, nor when a reused block becomes an indirect block.
BlocksExact ==
    LET P == UNION {Places(i) : i \in Inum}
    IN used = {x[3] : x \in P} /\ Cardinality(P) = Cardinality(used)

\* Every byte below the size has a block, after a write that failed half way too:
\* fileread(), which is in no transaction, never makes bmap() allocate.
SizeMapped ==
    \A i \in Inum, bn \in 0 .. MAXFILE - 1 :
        bn * BSIZE < size[i] =>
            IF bn < NDIRECT THEN addrs[i][bn] # 0
            ELSE addrs[i][NDIRECT] # 0 /\ word[addrs[i][NDIRECT]][bn - NDIRECT] # 0

\* The bitmap, the block numbers and the sizes of all files agree after every
\* step of bmap(), writei() and itrunc(), when the disk is full too.
FileMapExact == TypeOK /\ NoPanic /\ BlocksExact /\ SizeMapped

\* A chunk, with the inode that iupdate() writes, fits what begin_op() reserves.
ChunkFits == \A p \in Proc : logged[p] # {} => Cardinality(logged[p]) + 1 <= MAXOPBLOCKS

\* Writes through one file, whoever makes them and over however many chunks, follow
\* one another: a chunk that moves the offset was placed where the offset was.
ChunksFollow ==
    [][\A p \in Proc : pc[p] \in {"writei", "writeiend"} /\ pc'[p] \in {"chunk", "user"} =>
          w[p].off = file[w[p].f].off]_vars
=============================================================================
