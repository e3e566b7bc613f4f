---------------------------- MODULE FileTreeProofs ----------------------------
(***************************************************************************)
(* Proofs about Inodes and FileTree, for any number of processes and       *)
(* inodes and any calls.                                                   *)
(***************************************************************************)
EXTENDS FileTree, Integers, FiniteSetTheorems, WellFoundedInduction, TLAPS

Kinds == {"free", "dir", "file", "device"}
Ops   == {"link", "link_new", "unlink", "mkdir", "mknod", "creat", "open", "openw", "chdir"}

\* Where c[p].cur, and where c[p].ip, is in use; where each is locked.
AtCur   == {"namex", "link_ip", "link_dp", "link_bad_dp", "unlink_dp", "unlink_ip",
            "unlink_bad", "create_dp", "create_new", "open_ip", "chdir_ip"}
AtIp    == {"link_dp", "link_bad_dp", "link_bad", "unlink_ip", "unlink_drop",
            "create_found", "create_new", "create_put", "open_file"}
LockCur == {"link_bad_dp", "unlink_ip", "unlink_bad", "create_new"}
LockIp  == {"unlink_drop", "create_put", "open_file"}
PCs     == {"unused", "idle"} \cup AtCur \cup AtIp

\* The last element of the path is left, ...
AtLast  == {"link_dp", "unlink_dp", "unlink_ip", "create_dp", "create_new"}

\* ... and the directory it is looked for in is c[p].cur.
AtDir   == AtLast \cup {"link_bad_dp", "unlink_bad"}
Creates == {"mkdir", "mknod", "creat"}

(***************************************************************************)
(* What holds whatever ".." names: the locals of each call, the owners of  *)
(* the locks, and the counts of references.                                *)
(***************************************************************************)
\* What a directory can contain: finitely many entries.
Names    == STRING \cup {".", ".."}
NameSets == {S \in SUBSET Names : IsFiniteSet(S)}
Ents     == UNION {[S -> Inum] : S \in NameSets}

DataTypes ==
    /\ dinode \in [Inum -> [type : Kinds, nlink : Int, ents : Ents]]
    /\ itable \in [Inum -> [ref : Nat, valid : BOOLEAN, type : Kinds, nlink : Int]]
    /\ lock \in [Inum -> Proc \cup {None}]
    /\ cwd \in [Proc \cup {Init1} -> Inum \cup {None}]
    /\ opened \in [Proc -> Inum \cup {None}]

Linking(l) == l.pc \in {"link_dp", "link_bad_dp", "link_bad"} \/ (l.pc = "namex" /\ l.op = "link_new")

\* The locals l of a call.
LocalsOK(l) ==
    /\ DOMAIN l = DOMAIN NoCall
    /\ l.pc \in PCs /\ l.op \in Ops \cup {None} /\ l.path \in Seq(STRING)
    /\ l.cur \in Inum \cup {None} /\ l.ip \in Inum \cup {None}
    /\ l.puts \in Seq(Inum) /\ Len(l.puts) <= 2
    /\ l.put \in {"test", "free", "drop"} /\ (l.puts = <<>> => l.put = "test")
    /\ l.cur # None <=> l.pc \in AtCur
    /\ l.ip # None <=> l.pc \in AtIp \/ Linking(l)
    /\ l.pc = "namex" => l.op \in Ops /\ l.path # <<>>
    /\ l.pc = "link_ip" \/ (l.pc = "namex" /\ l.op = "link") => l.new \in Paths
    /\ l.pc \in AtLast => Len(l.path) = 1
    /\ l.pc \in {"create_dp", "create_new"} => l.op \in Creates

CallInv ==
    /\ DOMAIN c = Proc
    /\ \A p \in Proc : /\ LocalsOK(c[p])
                       /\ cwd[p] = None <=> c[p].pc = "unused"
                       /\ c[p].pc = "unused" => opened[p] = None
    /\ cwd[Init1] = ROOTINO

\* The locals say that the process has inode i locked.
Locking(l, i) ==
    \/ l.pc \in LockCur /\ l.cur = i
    \/ l.pc \in LockIp /\ l.ip = i
    \/ l.puts # <<>> /\ l.put = "free" /\ Head(l.puts) = i

LockInv ==
    /\ \A p \in Proc, i \in Inum : lock[i] = p <=> Locking(c[p], i)
    \* iput() and the call lock different inodes.
    /\ \A p \in Proc : c[p].puts # <<>> /\ c[p].put = "free" =>
           /\ c[p].pc \in LockCur => Head(c[p].puts) # c[p].cur
           /\ c[p].pc \in LockIp => Head(c[p].puts) # c[p].ip

PointerInv == DataTypes /\ CallInv /\ LockInv /\ RefExact

(***************************************************************************)
(* What needs ".." to name a directory that is still there.  It does if    *)
(* directories are only made in the root, and need not if no path has it.  *)
(***************************************************************************)
OneLevel == \A call \in Calls : call.op = "mkdir" => call.path.abs /\ Len(call.path.elems) <= 1
NoDotDot == \A call \in Calls : /\ ".." \notin Range(call.path.elems)
                                /\ call.op = "link" => ".." \notin Range(call.new.elems)
DotDotSafe == OneLevel \/ NoDotDot

\* The lookup of p's call does not use a ".." that may be stale.
PathOK(p) ==
    /\ OneLevel /\ c[p].op = "mkdir" /\ c[p].pc \in {"namex", "create_dp", "create_new"} =>
           c[p].cur = ROOTINO /\ Len(c[p].path) = 1
    /\ NoDotDot => ".." \notin Range(c[p].path)
    /\ NoDotDot /\ (c[p].pc = "link_ip" \/ (c[p].pc = "namex" /\ c[p].op = "link")) =>
           ".." \notin Range(c[p].new.elems)

\* What a pointer to an inode is worth.
Valid(i) == itable[i].valid
IsDir(i) == dinode[i].type = "dir"
InUse(i) == dinode[i].type # "free"
HasDots(i) == {".", ".."} \subseteq DOMAIN dinode[i].ents

\* A valid copy agrees with the disk.
CopyInv == \A i \in Inum :
    /\ Valid(i) => /\ itable[i].type = dinode[i].type /\ itable[i].nlink = dinode[i].nlink
                   /\ InUse(i)
    /\ ~Valid(i) => itable[i].nlink = 0

\* Free inodes are blank, files have no entries; "." and ".." are right.
EntryInv == \A i \in Inum :
    /\ dinode[i].type = "free" => dinode[i] = Free
    /\ dinode[i].type # "dir" => DOMAIN dinode[i].ents = {}
    /\ dinode[i].type = "dir" /\ dinode[i].nlink > 0 => HasDots(i)
    /\ "." \in DOMAIN dinode[i].ents => dinode[i].ents["."] = i
    /\ OneLevel /\ ".." \in DOMAIN dinode[i].ents => dinode[i].ents[".."] = ROOTINO

\* The links of an inode that are counted and not entered: sys_link() will
\* enter them or take them back, sys_unlink() will take them back.
IsPending(l) == Linking(l) \/ l.pc = "unlink_drop"
Pending(i)   == {p \in Proc : c[p].ip = i /\ IsPending(c[p])}

Links(i) == Cardinality(EntriesOf(i)) + Cardinality(Subdirs(i)) + Cardinality(Pending(i))

LinkInv == \A i \in Inum :
    dinode[i].nlink >= Links(i) + (IF i = ROOTINO THEN 1 ELSE 0)

\* The directories are a tree: no set of them has in it a child of each.
TreeInv == ~ \E S \in (SUBSET Inum) \ {{}} : \A d \in S :
               \E n \in Name(d) : dinode[d].ents[n] \in S

\* The current directories; what p's other pointers point to.
CwdInv == \A p \in Proc \cup {Init1} :
    cwd[p] # None => Valid(cwd[p]) /\ IsDir(cwd[p]) /\ HasDots(cwd[p])

PlaceOK(p) ==
    /\ opened[p] # None => Valid(opened[p]) /\ InUse(opened[p])
    /\ c[p].cur # None => InUse(c[p].cur) /\ (IsDir(c[p].cur) => HasDots(c[p].cur))
    /\ c[p].pc \in AtDir => IsDir(c[p].cur) /\ Valid(c[p].cur)
    /\ c[p].ip # None => InUse(c[p].ip)
    /\ Linking(c[p]) => ~IsDir(c[p].ip)
    /\ c[p].pc \in LockIp => Valid(c[p].ip)
    /\ \A k \in 1 .. Len(c[p].puts) : InUse(c[p].puts[k]) \/ (k = 1 /\ c[p].put = "drop")

\* The name sys_unlink() removes stays what it was found to be.
UnlinkOK(p) == c[p].pc = "unlink_ip" =>
    /\ c[p].path[1] \in Name(c[p].cur)
    /\ dinode[c[p].cur].ents[c[p].path[1]] = c[p].ip

\* Only a finished iput() may still point to inode i, but for p's c[p].ip.
Private(p, i) ==
    /\ cwd[Init1] # i
    /\ \A q \in Proc : /\ cwd[q] # i /\ opened[q] # i /\ c[q].cur # i /\ (q # p => c[q].ip # i)
                       /\ \A k \in 1 .. Len(c[q].puts) : c[q].puts[k] = i => k = 1 /\ c[q].put = "drop"

\* An inode that create() has allocated is its own until it is entered.
NewOK(p) == c[p].pc = "create_new" =>
    /\ c[p].path[1] \notin DOMAIN dinode[c[p].cur].ents
    /\ dinode[c[p].ip] = Allocated(c[p].op) /\ ~Valid(c[p].ip)
    /\ Private(p, c[p].ip)

\* An inode that iput() frees has no other pointer and no name.
FreeingOK(p) == c[p].puts # <<>> /\ c[p].put = "free" =>
    LET i == Head(c[p].puts)
    IN itable[i].ref = 1 /\ Valid(i) /\ dinode[i].nlink = 0

CallsOK(p) == PathOK(p) /\ PlaceOK(p) /\ UnlinkOK(p) /\ NewOK(p) /\ FreeingOK(p)

DiskInv == CopyInv /\ EntryInv /\ LinkInv /\ TreeInv
IInv    == PointerInv /\ DiskInv /\ CwdInv /\ \A p \in Proc : CallsOK(p)
-----------------------------------------------------------------------------
(***************************************************************************)
(* Entries of directories.                                                 *)
(***************************************************************************)
LEMMA EntsIs ==
    \A f : f \in Ents <=> \E S \in NameSets : f \in [S -> Inum]
  BY Zenon DEF Ents

\* The entries of a directory are a function to inodes, from finitely many names.
LEMMA EntsHave ==
    ASSUME NEW f \in Ents
    PROVE  /\ DOMAIN f \subseteq Names /\ IsFiniteSet(DOMAIN f)
           /\ \A n \in DOMAIN f : f[n] \in Inum
           /\ f \in [DOMAIN f -> Inum]
<1>1. PICK S \in NameSets : f \in [S -> Inum]
  BY EntsIs
<1> QED BY <1>1 DEF NameSets

\* No entries are entries too: those of a file.
LEMMA NoEnts == <<>> \in Ents /\ DOMAIN <<>> = {}
<1>1. DOMAIN <<>> = {}
  OBVIOUS
<1>2. <<>> \in [{} -> Inum]
  OBVIOUS
<1>3. {} \in NameSets
  BY FS_EmptySet DEF NameSets
<1> QED BY <1>1, <1>2, <1>3, EntsIs

\* dirlink() leaves entries, ...
LEMMA EnteredType ==
    ASSUME NEW f \in Ents, NEW n \in Names, NEW i \in Inum
    PROVE  Entered(f, n, i) \in Ents
<1>1. Entered(f, n, i) \in [DOMAIN f \cup {n} -> Inum]
  BY EntsHave DEF Entered
<1>2. DOMAIN f \cup {n} \in NameSets
  BY EntsHave, FS_AddElement DEF NameSets
<1> QED BY <1>1, <1>2, EntsIs

\* ... and so does removing some of them.
LEMMA RestrictType ==
    ASSUME NEW f \in Ents, NEW S
    PROVE  /\ Restrict(f, DOMAIN f \ S) \in Ents
           /\ DOMAIN Restrict(f, DOMAIN f \ S) = DOMAIN f \ S
           /\ \A n \in DOMAIN f \ S : Restrict(f, DOMAIN f \ S)[n] = f[n]
<1>1. Restrict(f, DOMAIN f \ S) \in [DOMAIN f \ S -> Inum]
  BY EntsHave DEF Restrict
<1>2. DOMAIN f \ S \in NameSets
  BY EntsHave, FS_Subset DEF NameSets
<1>3. /\ DOMAIN Restrict(f, DOMAIN f \ S) = DOMAIN f \ S
      /\ \A n \in DOMAIN f \ S : Restrict(f, DOMAIN f \ S)[n] = f[n]
  BY DEF Restrict
<1> QED BY <1>1, <1>2, <1>3, EntsIs

-----------------------------------------------------------------------------
(***************************************************************************)
(* The pointers to an inode: those of one process, of which there are six  *)
(* at most, and those of the others.                                       *)
(***************************************************************************)
B(x) == IF x THEN 1 ELSE 0

\* Whether the k-th pending iput() of the locals l is of inode i.
Puts(l, k, i) == k <= Len(l.puts) /\ l.puts[k] = i

\* The pointers of a process with current directory w, file o and locals l.
Count(w, o, l, i) ==
    B(w = i) + B(o = i) + B(l.cur = i) + B(l.ip = i) + B(Puts(l, 1, i)) + B(Puts(l, 2, i))

Others(p, i) == {x \in Pointers(i) : x[2] # p}

\* One element more in a set, or none.
LEMMA AddIf ==
    ASSUME NEW S, IsFiniteSet(S), NEW x, x \notin S, NEW b \in BOOLEAN
    PROVE  /\ IsFiniteSet(S \cup {y \in {x} : b})
           /\ Cardinality(S \cup {y \in {x} : b}) = Cardinality(S) + B(b)
<1>1. Cardinality(S) \in Nat
  BY FS_CardinalityType
<1>2. CASE b
  <2>1. S \cup {y \in {x} : b} = S \cup {x}
    BY <1>2
  <2> QED BY <1>1, <1>2, <2>1, FS_AddElement DEF B
<1>3. CASE ~b
  <2>1. S \cup {y \in {x} : b} = S
    BY <1>3
  <2> QED BY <1>1, <1>3, <2>1 DEF B
<1> QED BY <1>2, <1>3

\* Finitely many pointers.
LEMMA PointersFinite ==
    ASSUME NEW i, DataTypes, CallInv
    PROVE  IsFiniteSet(Pointers(i))
<1> DEFINE F == {"cwd", "file", "cur", "ip"} \X (Proc \cup {Init1})
           P == Proc \X {1, 2}
           T == {<<"put", x[1], x[2]>> : x \in P}
           f == [x \in P |-> <<"put", x[1], x[2]>>]
<1>1. IsFiniteSet(Proc) /\ IsFiniteSet(Proc \cup {Init1})
  BY InodesAssumption, FS_AddElement
<1>2. IsFiniteSet({"cwd", "file", "cur", "ip"})
  <2>1. IsFiniteSet({"cwd"}) /\ {"cwd", "file", "cur", "ip"} = {"cwd"} \cup {"file"} \cup {"cur"} \cup {"ip"}
    BY FS_Singleton
  <2> HIDE DEF F, P, T, f
  <2>2. IsFiniteSet({"cwd"} \cup {"file"})
    BY <2>1, FS_AddElement
  <2>3. IsFiniteSet({"cwd"} \cup {"file"} \cup {"cur"})
    BY <2>2, FS_AddElement
  <2>4. IsFiniteSet({"cwd"} \cup {"file"} \cup {"cur"} \cup {"ip"})
    BY <2>3, FS_AddElement
  <2> QED BY <2>1, <2>4
<1>3. IsFiniteSet(F)
  BY <1>1, <1>2, FS_Product
<1>4. IsFiniteSet(P)
  <2>1. IsFiniteSet({1, 2})
    <3>1. IsFiniteSet({1}) /\ {1, 2} = {1} \cup {2}
      BY FS_Singleton
    <3> QED BY <3>1, FS_AddElement
  <2> QED BY <1>1, <2>1, FS_Product
<1>5. IsFiniteSet(T)
  <2>1. f \in Surjection(P, T)
    BY DEF Surjection
  <2> HIDE DEF f, P, T
  <2> QED BY <1>4, <2>1, FS_Surjection
<1>6. Pointers(i) \subseteq F \cup T
  <2>1. ASSUME NEW p \in Proc, NEW k \in DOMAIN c[p].puts
        PROVE  k \in {1, 2}
    BY <2>1 DEF CallInv, LocalsOK
  <2>2. DOMAIN cwd = Proc \cup {Init1}
    BY DEF DataTypes
  <2> SUFFICES ASSUME NEW x \in Pointers(i) PROVE x \in F \cup T
    OBVIOUS
  <2>3. CASE \E p \in Proc : \E k \in DOMAIN c[p].puts : x = <<"put", p, k>>
    <3>1. PICK p \in Proc : \E k \in DOMAIN c[p].puts : x = <<"put", p, k>>
      BY <2>3
    <3>2. PICK k \in DOMAIN c[p].puts : x = <<"put", p, k>>
      BY <3>1
    <3>3. <<p, k>> \in P
      BY <2>1, <3>2
    <3> QED BY <3>2, <3>3
  <2>4. CASE \E p \in Proc \cup {Init1} : \E s \in {"cwd", "file", "cur", "ip"} : x = <<s, p>>
    BY <2>4
  <2> QED BY <2>2, <2>3, <2>4 DEF Pointers
<1> HIDE DEF F, T, P, f
<1>7. IsFiniteSet(F \cup T)
  BY <1>3, <1>5, FS_Union
<1> QED BY <1>6, <1>7, FS_Subset

\* The pointers to an inode are those of p, counted, and those of the others.
LEMMA PointerSplit ==
    ASSUME NEW i, NEW p \in Proc, DataTypes, CallInv
    PROVE  /\ IsFiniteSet(Others(p, i)) /\ Cardinality(Others(p, i)) \in Nat
           /\ Cardinality(Pointers(i)) =
                  Cardinality(Others(p, i)) + Count(cwd[p], opened[p], c[p], i)
<1> DEFINE b1 == cwd[p] = i
           b2 == opened[p] = i
           b3 == c[p].cur = i
           b4 == c[p].ip = i
           b5 == Puts(c[p], 1, i)
           b6 == Puts(c[p], 2, i)
           S0 == Others(p, i)
           S1 == S0 \cup {y \in {<<"cwd", p>>} : b1}
           S2 == S1 \cup {y \in {<<"file", p>>} : b2}
           S3 == S2 \cup {y \in {<<"cur", p>>} : b3}
           S4 == S3 \cup {y \in {<<"ip", p>>} : b4}
           S5 == S4 \cup {y \in {<<"put", p, 1>>} : b5}
           S6 == S5 \cup {y \in {<<"put", p, 2>>} : b6}
<1>0. {b1, b2, b3, b4, b5, b6} \subseteq BOOLEAN
  BY DEF Puts
<1>1. IsFiniteSet(S0) /\ Cardinality(S0) \in Nat
  BY PointersFinite, FS_Subset, FS_CardinalityType DEF Others
<1>2. /\ <<"cwd", p>> \notin S0 /\ <<"file", p>> \notin S1 /\ <<"cur", p>> \notin S2
      /\ <<"ip", p>> \notin S3 /\ <<"put", p, 1>> \notin S4 /\ <<"put", p, 2>> \notin S5
  <2>1. \A s : <<s, p>> \notin S0 /\ \A k : <<s, p, k>> \notin S0
    BY DEF Others
  <2>2. /\ \A s, t : s # t => <<s, p>> # <<t, p>>
        /\ \A s, t, k : s # t => <<s, p, k>> # <<t, p>>
    <3>1. \A s, t : <<s, p>>[1] = s
      OBVIOUS
    <3>2. \A s, k : <<s, p, k>>[1] = s
      OBVIOUS
    <3> QED BY <3>1, <3>2
  <2>3. <<"put", p, 1>> # <<"put", p, 2>>
    <3>1. <<"put", p, 1>>[3] = 1 /\ <<"put", p, 2>>[3] = 2
      OBVIOUS
    <3> QED BY <3>1
  <2> HIDE DEF S0, b1, b2, b3, b4, b5, b6
  <2> QED BY <2>1, <2>2, <2>3
<1>3. Pointers(i) = S6
  <2>1. /\ DOMAIN c[p].puts = 1 .. Len(c[p].puts) /\ Len(c[p].puts) \in Nat
        /\ Len(c[p].puts) <= 2
    BY DEF CallInv, LocalsOK
  <2>2. DOMAIN cwd = Proc \cup {Init1} /\ p \in DOMAIN cwd
    BY DEF DataTypes
  <2>3. ASSUME NEW x \in Pointers(i) PROVE x \in S6
    <3>1. CASE x[2] # p
      BY <3>1 DEF Others
    <3>2. CASE x[2] = p
      <4>1. CASE \E q \in Proc : \E k \in DOMAIN c[q].puts : x = <<"put", q, k>> /\ c[q].puts[k] = i
        <5>1. PICK q \in Proc : \E k \in DOMAIN c[q].puts :
                  x = <<"put", q, k>> /\ c[q].puts[k] = i
          BY <4>1
        <5>2. q = p
          BY <3>2, <5>1
        <5>3. PICK k \in DOMAIN c[p].puts : x = <<"put", p, k>> /\ c[p].puts[k] = i
          BY <5>1, <5>2
        <5>4. k \in {1, 2} /\ Puts(c[p], k, i)
          BY <2>1, <5>3 DEF Puts
        <5> QED BY <5>3, <5>4
      <4>2. CASE \E q \in DOMAIN cwd : x = <<"cwd", q>> /\ cwd[q] = i
        BY <3>2, <4>2
      <4>3. CASE \E q \in Proc : \/ x = <<"file", q>> /\ opened[q] = i
                                 \/ x = <<"cur", q>> /\ c[q].cur = i
                                 \/ x = <<"ip", q>> /\ c[q].ip = i
        BY <3>2, <4>3
      <4> QED BY <4>1, <4>2, <4>3 DEF Pointers
    <3> QED BY <3>1, <3>2
  <2>4. ASSUME NEW x \in S6 PROVE x \in Pointers(i)
    <3>1. CASE x \in S0
      BY <3>1 DEF Others
    <3>2. CASE \E k \in {1, 2} : x = <<"put", p, k>> /\ Puts(c[p], k, i)
      BY <2>1, <3>2 DEF Puts, Pointers
    <3>3. CASE \/ x = <<"cwd", p>> /\ cwd[p] = i
               \/ x = <<"file", p>> /\ opened[p] = i
               \/ x = <<"cur", p>> /\ c[p].cur = i
               \/ x = <<"ip", p>> /\ c[p].ip = i
      BY <2>2, <3>3 DEF Pointers
    <3>4. \/ x \in S0
          \/ x = <<"cwd", p>> /\ b1
          \/ x = <<"file", p>> /\ b2
          \/ x = <<"cur", p>> /\ b3
          \/ x = <<"ip", p>> /\ b4
          \/ x = <<"put", p, 1>> /\ b5
          \/ x = <<"put", p, 2>> /\ b6
      <4> HIDE DEF S0, b1, b2, b3, b4, b5, b6
      <4> QED BY <2>4
    <3>5. x \in S0 \/ (x = <<"put", p, 1>> /\ b5) \/ (x = <<"put", p, 2>> /\ b6)
             => x \in Pointers(i)
      <4> HIDE DEF S0
      <4> QED BY <3>1, <3>2
    <3> HIDE DEF S0
    <3> QED BY <3>3, <3>4, <3>5
  <2> QED BY <2>3, <2>4
<1>4. \A x : B(x) \in {0, 1}
  BY DEF B
<1> HIDE DEF b1, b2, b3, b4, b5, b6, S0
<1>5. IsFiniteSet(S1) /\ Cardinality(S1) = Cardinality(S0) + B(b1)
  BY <1>0, <1>1, <1>2, AddIf
<1> HIDE DEF S1
<1>6. IsFiniteSet(S2) /\ Cardinality(S2) = Cardinality(S1) + B(b2)
  BY <1>0, <1>2, <1>5, AddIf
<1> HIDE DEF S2
<1>7. IsFiniteSet(S3) /\ Cardinality(S3) = Cardinality(S2) + B(b3)
  BY <1>0, <1>2, <1>6, AddIf
<1> HIDE DEF S3
<1>8. IsFiniteSet(S4) /\ Cardinality(S4) = Cardinality(S3) + B(b4)
  BY <1>0, <1>2, <1>7, AddIf
<1> HIDE DEF S4
<1>9. IsFiniteSet(S5) /\ Cardinality(S5) = Cardinality(S4) + B(b5)
  BY <1>0, <1>2, <1>8, AddIf
<1> HIDE DEF S5
<1>10. IsFiniteSet(S6) /\ Cardinality(S6) = Cardinality(S5) + B(b6)
  BY <1>0, <1>2, <1>9, AddIf
<1> HIDE DEF S6
<1>11. Count(cwd[p], opened[p], c[p], i) = B(b1) + B(b2) + B(b3) + B(b4) + B(b5) + B(b6)
  BY DEF Count, b1, b2, b3, b4, b5, b6
<1>12. Cardinality(S6) = Cardinality(S0) + Count(cwd[p], opened[p], c[p], i)
  BY <1>1, <1>4, <1>5, <1>6, <1>7, <1>8, <1>9, <1>10, <1>11
<1> QED BY <1>1, <1>3, <1>12 DEF S0

\* The same, in this state and in the next.
Split == \A i : \A p \in Proc : DataTypes /\ CallInv =>
    /\ Cardinality(Others(p, i)) \in Nat
    /\ Cardinality(Pointers(i)) =
           Cardinality(Others(p, i)) + Count(cwd[p], opened[p], c[p], i)

\* That is so in every state with the right types.
LEMMA SplitHolds == Split /\ Split'
<1>1. Split
  BY PointerSplit DEF Split
<1> QED BY <1>1, PTL
-----------------------------------------------------------------------------
(***************************************************************************)
(* A step of process p changes only its own locals, directory and file.    *)
(***************************************************************************)
Alone(p) ==
    /\ DOMAIN c' = Proc
    /\ \A q \in Proc \ {p} : c'[q] = c[q] /\ opened'[q] = opened[q]
    /\ \A q \in (Proc \cup {Init1}) \ {p} : cwd'[q] = cwd[q]

CallOK(p) ==
    /\ LocalsOK(c[p])
    /\ cwd[p] = None <=> c[p].pc = "unused"
    /\ c[p].pc = "unused" => opened[p] = None

\* iput() and the call lock different inodes.
Apart(l) == l.puts # <<>> /\ l.put = "free" =>
    /\ l.pc \in LockCur => Head(l.puts) # l.cur
    /\ l.pc \in LockIp => Head(l.puts) # l.ip

\* p locks what its locals say, if it is free, and unlocks what they do not.
LockOK(p) == \A i \in Inum :
    /\ lock'[i] = IF Locking(c'[p], i) THEN p
                  ELSE IF Locking(c[p], i) THEN None ELSE lock[i]
    /\ Locking(c'[p], i) => lock[i] \in {None, p}

\* The count of an inode follows p's pointers to it.
RefOK(p) == \A i \in Inum :
    itable'[i].ref + Count(cwd[p], opened[p], c[p], i)
        = itable[i].ref + Count(cwd'[p], opened'[p], c'[p], i)

\* A process has six pointers at most.
LEMMA CountIs == \A w, o, l, i : Count(w, o, l, i) \in 0 .. 6
<1>1. \A x : B(x) \in {0, 1}
  BY DEF B
<1> SUFFICES ASSUME NEW w, NEW o, NEW l, NEW i PROVE Count(w, o, l, i) \in 0 .. 6
  OBVIOUS
<1>2. PICK b1, b2, b3, b4, b5, b6 \in {0, 1} :
          Count(w, o, l, i) = b1 + b2 + b3 + b4 + b5 + b6
  BY <1>1 DEF Count
<1> QED BY <1>2

\* What a step of p alone has to show: its own locals, its locks, its references.
LEMMA PointerStep ==
    ASSUME PointerInv, NEW p \in Proc, DataTypes', Alone(p), CallOK(p)', Apart(c'[p]),
           LockOK(p), RefOK(p)
    PROVE  PointerInv'
<1>1. CallInv'
  <2>1. ASSUME NEW q \in Proc
        PROVE  /\ LocalsOK(c'[q])
               /\ cwd'[q] = None <=> c'[q].pc = "unused"
               /\ c'[q].pc = "unused" => opened'[q] = None
    <3>1. CASE q = p
      BY <3>1 DEF CallOK
    <3>2. CASE q # p
      BY <3>2 DEF PointerInv, CallInv, Alone
    <3> QED BY <3>1, <3>2
  <2>2. cwd'[Init1] = ROOTINO
    BY TreeAssumption DEF PointerInv, CallInv, Alone
  <2> QED BY <2>1, <2>2 DEF CallInv, Alone
<1>2. LockInv'
  <2>1. ASSUME NEW q \in Proc, NEW i \in Inum PROVE lock'[i] = q <=> Locking(c'[q], i)
    <3>1. CASE q = p
      BY <3>1, InodesAssumption DEF PointerInv, LockInv, LockOK
    <3>2. CASE q # p
      BY <3>2, InodesAssumption DEF PointerInv, LockInv, LockOK, Alone
    <3> QED BY <3>1, <3>2
  <2>2. ASSUME NEW q \in Proc PROVE Apart(c'[q])
    BY DEF PointerInv, LockInv, Alone, Apart
  <2> QED BY <2>1, <2>2 DEF LockInv, Apart
<1>3. ASSUME NEW i \in Inum PROVE itable'[i].ref = Cardinality(Pointers(i)')
  <2>1. Others(p, i)' = Others(p, i)
    <3>1. DOMAIN cwd' = DOMAIN cwd
      BY DEF PointerInv, DataTypes
    <3>2. \A q \in DOMAIN cwd : q # p => cwd'[q] = cwd[q]
      BY DEF PointerInv, DataTypes, Alone
    <3>3. \A q \in Proc : q # p => c'[q] = c[q] /\ opened'[q] = opened[q]
      BY DEF Alone
    <3> QED BY <3>1, <3>2, <3>3 DEF Others, Pointers
  <2>2. PICK m \in Nat : m = Cardinality(Others(p, i))
    BY SplitHolds DEF PointerInv, Split
  <2>3. Cardinality(Pointers(i)) = m + Count(cwd[p], opened[p], c[p], i)
    BY <2>2, SplitHolds DEF PointerInv, Split
  <2>4. Cardinality(Pointers(i)') = m + Count(cwd'[p], opened'[p], c'[p], i)
    BY <1>1, <2>1, <2>2, SplitHolds DEF Split
  <2>5. itable[i].ref = Cardinality(Pointers(i)) /\ itable'[i].ref \in Nat
    BY DEF PointerInv, RefExact, DataTypes
  <2>6. itable'[i].ref + Count(cwd[p], opened[p], c[p], i)
            = itable[i].ref + Count(cwd'[p], opened'[p], c'[p], i)
    BY DEF RefOK
  <2>7. /\ Count(cwd[p], opened[p], c[p], i) \in Nat
        /\ Count(cwd'[p], opened'[p], c'[p], i) \in Nat
    BY CountIs
  <2> QED BY <2>3, <2>4, <2>5, <2>6, <2>7
<1> QED BY <1>1, <1>2, <1>3 DEF PointerInv, RefExact
-----------------------------------------------------------------------------
(***************************************************************************)
(* What the parts of an action do: its locals, the table, the counts.      *)
(***************************************************************************)
LEMMA PointersStay ==
    ASSUME PointerInv, UNCHANGED <<inodeVars, cwd, c, opened>>
    PROVE  PointerInv'
<1>1. UNCHANGED <<dinode, itable, lock, cwd, c, opened>>
  BY DEF inodeVars
<1> QED
  BY <1>1 DEF PointerInv, DataTypes, CallInv, LockInv, RefExact, Pointers

\* What the invariant says of the process that takes a step.
LEMMA PointersOf ==
    ASSUME PointerInv, NEW p \in Proc
    PROVE  /\ CallOK(p) /\ Apart(c[p]) /\ DOMAIN c = Proc /\ DataTypes
           /\ \A i \in Inum : lock[i] = p <=> Locking(c[p], i)
           /\ p # None /\ None \notin Inum
  BY InodesAssumption DEF PointerInv, CallInv, LockInv, CallOK, Apart

ItableType == [Inum -> [ref : Nat, valid : BOOLEAN, type : Kinds, nlink : Int]]

\* ilock() leaves a valid copy, and the reference count as it was.
LEMMA LoadedIs ==
    ASSUME DataTypes, NEW i \in Inum
    PROVE  /\ Loaded(i) \in [ref : Nat, valid : BOOLEAN, type : Kinds, nlink : Int]
           /\ Loaded(i).ref = itable[i].ref /\ Loaded(i).valid
           /\ itable[i].valid => Loaded(i) = itable[i]
           /\ ~itable[i].valid => /\ Loaded(i).type = dinode[i].type
                                  /\ Loaded(i).nlink = dinode[i].nlink
  BY DEF DataTypes, Loaded

\* The table is the same but that inode i has been read, and its count is n.
ReadAs(i, n) ==
    /\ itable' \in ItableType
    /\ \A j \in Inum \ {i} : /\ itable'[j].valid = itable[j].valid
                             /\ itable'[j].type = itable[j].type
                             /\ itable'[j].nlink = itable[j].nlink
    /\ itable'[i].valid /\ itable'[i].type = Loaded(i).type /\ itable'[i].nlink = n

Read(i) == ReadAs(i, Loaded(i).nlink)

\* Only the reference counts change.
Unread ==
    /\ itable' \in ItableType
    /\ \A j \in Inum : /\ itable'[j].valid = itable[j].valid
                       /\ itable'[j].type = itable[j].type
                       /\ itable'[j].nlink = itable[j].nlink

\* One reference more, to inode i; no more references.
Refers(i) == \A j \in Inum : itable[j].ref \in Nat /\ itable'[j].ref = itable[j].ref + B(j = i)
SameRefs  == \A j \in Inum : itable[j].ref \in Nat /\ itable'[j].ref = itable[j].ref

\* The table stays.
LEMMA UnreadIs ==
    ASSUME DataTypes, UNCHANGED itable
    PROVE  Unread /\ SameRefs
  BY DEF DataTypes, Unread, SameRefs, ItableType

\* iget(j), or idup(j).
LEMMA TakeIs ==
    ASSUME DataTypes, NEW j \in Inum, itable' = [itable EXCEPT ![j].ref = @ + 1]
    PROVE  Unread /\ Refers(j)
<1>1. itable' \in ItableType
  BY SMTT(30) DEF DataTypes, ItableType
<1> QED
  BY <1>1 DEF DataTypes, Unread, Refers, B

\* ilock(i).
LEMMA ReadIs ==
    ASSUME DataTypes, NEW i \in Inum, itable' = [itable EXCEPT ![i] = Loaded(i)]
    PROVE  Read(i) /\ SameRefs
<1>1. itable' \in ItableType
  BY LoadedIs DEF DataTypes, ItableType
<1> QED
  BY <1>1, LoadedIs DEF DataTypes, ReadAs, Read, SameRefs

\* ilock(i), and a new link count.
LEMMA ReadAsIs ==
    ASSUME DataTypes, NEW i \in Inum, NEW n \in Int,
           itable' = [itable EXCEPT ![i] = [Loaded(i) EXCEPT !.nlink = n]]
    PROVE  ReadAs(i, n) /\ SameRefs
<1> DEFINE e == [Loaded(i) EXCEPT !.nlink = n]
<1>1. /\ e \in [ref : Nat, valid : BOOLEAN, type : Kinds, nlink : Int]
      /\ e.ref = itable[i].ref /\ e.valid /\ e.type = Loaded(i).type /\ e.nlink = n
  BY LoadedIs
<1>2. itable' = [itable EXCEPT ![i] = e]
  OBVIOUS
<1> HIDE DEF e
<1>3. itable' \in ItableType
  BY <1>1, <1>2 DEF DataTypes, ItableType
<1> QED
  BY <1>1, <1>2, <1>3 DEF DataTypes, ReadAs, SameRefs

\* ilock(i) and then iget(j), for any new copy of i.
LEMMA ReadTakeIs ==
    ASSUME DataTypes, NEW i \in Inum, NEW j \in Inum, NEW e,
           e \in [ref : Nat, valid : BOOLEAN, type : Kinds, nlink : Int],
           e.ref = itable[i].ref, e.valid, e.type = Loaded(i).type,
           itable' = [itable EXCEPT ![i] = e, ![j].ref = @ + 1]
    PROVE  ReadAs(i, e.nlink) /\ Refers(j)
<1> DEFINE t == [itable EXCEPT ![i] = e]
<1>1. t \in ItableType
  BY DEF DataTypes, ItableType
<1>2. t[i] = e /\ \A k \in Inum \ {i} : t[k] = itable[k]
  BY DEF DataTypes
<1>3. itable' = [t EXCEPT ![j].ref = @ + 1]
  OBVIOUS
<1> HIDE DEF t
<1>4. itable' \in ItableType
  BY <1>1, <1>3 DEF ItableType
<1> QED
  BY <1>1, <1>2, <1>3, <1>4 DEF ReadAs, Refers, ItableType, B

\* The pointers of a process by the iput()s it has still to do.
Named(w, o, l, i) == B(w = i) + B(o = i) + B(l.cur = i) + B(l.ip = i)

\* The pointers of a process with no iput() to do, ...
LEMMA CountNone ==
    ASSUME NEW w, NEW o, NEW l, NEW i, l.puts = <<>>
    PROVE  Count(w, o, l, i) = Named(w, o, l, i)
<1>1. ~Puts(l, 1, i) /\ ~Puts(l, 2, i)
  BY DEF Puts
<1> QED BY <1>1 DEF Count, Named, B

\* ... with one, ...
LEMMA CountOne ==
    ASSUME NEW w, NEW o, NEW l, NEW i, NEW a, l.puts = <<a>>
    PROVE  Count(w, o, l, i) = Named(w, o, l, i) + B(a = i)
<1>1. Puts(l, 1, i) <=> a = i
  BY DEF Puts
<1>2. ~Puts(l, 2, i)
  BY DEF Puts
<1> QED BY <1>1, <1>2 DEF Count, Named, B

\* ... and with two.
LEMMA CountTwo ==
    ASSUME NEW w, NEW o, NEW l, NEW i, NEW a, NEW b, l.puts = <<a, b>>
    PROVE  Count(w, o, l, i) = Named(w, o, l, i) + B(a = i) + B(b = i)
<1>1. Puts(l, 1, i) <=> a = i
  BY DEF Puts
<1>2. Puts(l, 2, i) <=> b = i
  BY DEF Puts
<1> QED BY <1>1, <1>2 DEF Count, Named, B

\* The same for a process that has no iput() to do, and has some after its step.
Balanced(p, i, n) ==
    itable'[i].ref + Named(cwd[p], opened[p], c[p], i)
        = itable[i].ref + Named(cwd'[p], opened'[p], c'[p], i) + n

\* The references balance if the step leaves no iput() to do, ...
LEMMA RefNone ==
    ASSUME NEW p, c[p].puts = <<>>, c'[p].puts = <<>>,
           \A i \in Inum : Balanced(p, i, 0), \A i \in Inum : itable[i].ref \in Nat
    PROVE  RefOK(p)
<1> SUFFICES ASSUME NEW i \in Inum
             PROVE  itable'[i].ref + Count(cwd[p], opened[p], c[p], i)
                        = itable[i].ref + Count(cwd'[p], opened'[p], c'[p], i)
  BY DEF RefOK
<1>1. /\ Count(cwd[p], opened[p], c[p], i) = Named(cwd[p], opened[p], c[p], i)
      /\ Count(cwd'[p], opened'[p], c'[p], i) = Named(cwd'[p], opened'[p], c'[p], i)
  BY CountNone
<1>2. Count(cwd'[p], opened'[p], c'[p], i) \in Nat
  BY CountIs
<1> QED BY <1>1, <1>2 DEF Balanced

\* ... one, ...
LEMMA RefOne ==
    ASSUME NEW p, NEW a, c[p].puts = <<>>, c'[p].puts = <<a>>,
           \A i \in Inum : Balanced(p, i, B(a = i)), \A i \in Inum : itable[i].ref \in Nat
    PROVE  RefOK(p)
<1> SUFFICES ASSUME NEW i \in Inum
             PROVE  itable'[i].ref + Count(cwd[p], opened[p], c[p], i)
                        = itable[i].ref + Count(cwd'[p], opened'[p], c'[p], i)
  BY DEF RefOK
<1>1. /\ Count(cwd[p], opened[p], c[p], i) = Named(cwd[p], opened[p], c[p], i)
      /\ Count(cwd'[p], opened'[p], c'[p], i)
             = Named(cwd'[p], opened'[p], c'[p], i) + B(a = i)
  BY CountNone, CountOne
<1>2. /\ Count(cwd'[p], opened'[p], c'[p], i) \in Nat
      /\ Named(cwd'[p], opened'[p], c'[p], i) \in Nat /\ B(a = i) \in Nat
  BY CountIs DEF Named, B
<1> QED BY <1>1, <1>2 DEF Balanced

\* ... or two.
LEMMA RefTwo ==
    ASSUME NEW p, NEW a, NEW b, c[p].puts = <<>>, c'[p].puts = <<a, b>>,
           \A i \in Inum : Balanced(p, i, B(a = i) + B(b = i)),
           \A i \in Inum : itable[i].ref \in Nat
    PROVE  RefOK(p)
<1> SUFFICES ASSUME NEW i \in Inum
             PROVE  itable'[i].ref + Count(cwd[p], opened[p], c[p], i)
                        = itable[i].ref + Count(cwd'[p], opened'[p], c'[p], i)
  BY DEF RefOK
<1>1. /\ Count(cwd[p], opened[p], c[p], i) = Named(cwd[p], opened[p], c[p], i)
      /\ Count(cwd'[p], opened'[p], c'[p], i)
             = Named(cwd'[p], opened'[p], c'[p], i) + B(a = i) + B(b = i)
  BY CountNone, CountTwo
<1>2. /\ Count(cwd'[p], opened'[p], c'[p], i) \in Nat
      /\ Named(cwd'[p], opened'[p], c'[p], i) \in Nat /\ B(a = i) \in Nat /\ B(b = i) \in Nat
  BY CountIs DEF Named, B
<1> QED BY <1>1, <1>2, SMTT(30) DEF Balanced

\* The rest of a list that is not empty.
LEMMA TailIs ==
    ASSUME NEW T, NEW s \in Seq(T), s # <<>>
    PROVE  /\ Head(s) \in T /\ Head(s) = s[1] /\ Len(s) \in Nat /\ Len(s) >= 1
           /\ Tail(s) \in Seq(T) /\ Len(Tail(s)) = Len(s) - 1
           /\ Len(s) # 1 => Tail(s) # <<>>
           /\ \A k \in 1 .. Len(s) - 1 : Tail(s)[k] = s[k + 1]
<1>1. Len(s) \in Nat /\ Len(s) >= 1
  OBVIOUS
<1>2. Tail(s) \in Seq(T) /\ Len(Tail(s)) = Len(s) - 1
  BY <1>1
<1>3. \A k \in 1 .. Len(s) - 1 : Tail(s)[k] = s[k + 1]
  BY <1>1
<1>4. Len(s) # 1 => Tail(s) # <<>>
  BY <1>1, <1>2
<1> QED BY <1>1, <1>2, <1>3, <1>4

\* A process that changes its locals changes nobody else's, ...
LEMMA OnlyAlone ==
    ASSUME DOMAIN c = Proc, NEW p \in Proc, NEW r, Only(p, r), UNCHANGED <<cwd, opened>>
    PROVE  Alone(p)
  BY DEF Only, Alone

\* ... whether it keeps the others of its own or not.
LEMMA LocalsAlone ==
    ASSUME DOMAIN c = Proc, NEW p \in Proc, NEW r, Locals(p, r), UNCHANGED <<cwd, opened>>
    PROVE  Alone(p)
  BY DEF Locals, Alone

\* ilock(i) and then iget(j).
LEMMA ReadTake ==
    ASSUME DataTypes, NEW i \in Inum, NEW j \in Inum,
           itable' = [itable EXCEPT ![i] = Loaded(i), ![j].ref = @ + 1]
    PROVE  Read(i) /\ Refers(j)
<1>1. /\ Loaded(i) \in [ref : Nat, valid : BOOLEAN, type : Kinds, nlink : Int]
      /\ Loaded(i).ref = itable[i].ref /\ Loaded(i).valid
  BY LoadedIs
<1>2. ReadAs(i, Loaded(i).nlink) /\ Refers(j)
  BY <1>1, ReadTakeIs
<1> QED BY <1>2 DEF Read

\* When only the table changes, its type is what is left to show.
LEMMA DataSame ==
    ASSUME DataTypes, Unread \/ (\E i, n : ReadAs(i, n)), UNCHANGED <<dinode, lock, cwd, opened>>
    PROVE  DataTypes'
<1>1. itable' \in ItableType
  BY DEF Unread, ReadAs
<1> QED BY <1>1 DEF DataTypes, ItableType

\* ilock(i), a new link count, and then iget(j).
LEMMA ReadTakeAs ==
    ASSUME DataTypes, NEW i \in Inum, NEW j \in Inum, NEW n \in Int,
           itable' = [itable EXCEPT ![i] = [Loaded(i) EXCEPT !.nlink = n], ![j].ref = @ + 1]
    PROVE  ReadAs(i, n) /\ Refers(j)
<1> DEFINE e == [Loaded(i) EXCEPT !.nlink = n]
<1>1. /\ e \in [ref : Nat, valid : BOOLEAN, type : Kinds, nlink : Int]
      /\ e.ref = itable[i].ref /\ e.valid /\ e.type = Loaded(i).type /\ e.nlink = n
  BY LoadedIs
<1>2. itable' = [itable EXCEPT ![i] = e, ![j].ref = @ + 1]
  OBVIOUS
<1> HIDE DEF e
<1>3. ReadAs(i, e.nlink) /\ Refers(j)
  BY <1>1, <1>2, ReadTakeIs
<1> QED BY <1>1, <1>3

DinodeType == [Inum -> [type : Kinds, nlink : Int, ents : Ents]]

\* On the disk, only the link count of i changes; only an entry of d is made.
Recounted(i, n) ==
    /\ dinode' \in DinodeType
    /\ \A j \in Inum : /\ dinode'[j].type = dinode[j].type /\ dinode'[j].ents = dinode[j].ents
                       /\ dinode'[j].nlink = IF j = i THEN n ELSE dinode[j].nlink

EnteredIn(d, n, i) ==
    /\ dinode' \in DinodeType
    /\ \A j \in Inum : /\ dinode'[j].type = dinode[j].type /\ dinode'[j].nlink = dinode[j].nlink
                       /\ j # d => dinode'[j].ents = dinode[j].ents
    /\ dinode'[d].ents = Entered(dinode[d].ents, n, i)

\* iupdate() changes one link count on the disk.
LEMMA IupdateIs ==
    ASSUME DataTypes, NEW i \in Inum, NEW n \in Int, Iupdate(i, n)
    PROVE  Recounted(i, n)
<1>1. dinode \in DinodeType
  BY DEF DataTypes, DinodeType
<1>2. dinode' \in DinodeType
  BY <1>1 DEF DinodeType, Iupdate
<1> QED
  BY <1>1, <1>2 DEF DinodeType, Iupdate, Recounted

\* dirlink() changes the entries of one directory.
LEMMA EnterIs ==
    ASSUME DataTypes, NEW d \in Inum, NEW n \in STRING, NEW i \in Inum,
           dinode' = [dinode EXCEPT ![d].ents = Entered(@, n, i)]
    PROVE  EnteredIn(d, n, i)
<1> DEFINE e == Entered(dinode[d].ents, n, i)
<1>1. dinode \in DinodeType
  BY DEF DataTypes, DinodeType
<1>2. e \in Ents
  BY <1>1, EnteredType DEF DinodeType, Names
<1>3. dinode' = [dinode EXCEPT ![d].ents = e]
  OBVIOUS
<1> HIDE DEF e
<1>4. dinode' \in DinodeType
  BY <1>1, <1>2, <1>3 DEF DinodeType
<1>5. \A j \in Inum : /\ dinode'[j].type = dinode[j].type /\ dinode'[j].nlink = dinode[j].nlink
                      /\ j # d => dinode'[j].ents = dinode[j].ents
  BY <1>1, <1>3 DEF DinodeType
<1>6. dinode'[d].ents = e
  BY <1>1, <1>3 DEF DinodeType
<1> QED
  BY <1>4, <1>5, <1>6 DEF EnteredIn, e

\* The locks after some are taken or let go of.
LEMMA LockType ==
    ASSUME DataTypes, NEW i \in Inum, NEW v \in Proc \cup {None}, lock' = [lock EXCEPT ![i] = v]
    PROVE  lock' \in [Inum -> Proc \cup {None}] /\ lock'[i] = v /\ \A j \in Inum : j # i => lock'[j] = lock[j]
  BY DEF DataTypes

\* A step that changes the disk, the table and the locks only: their types are
\* left to show.
LEMMA DataIs ==
    ASSUME DataTypes, dinode' \in DinodeType, itable' \in ItableType,
           lock' \in [Inum -> Proc \cup {None}], UNCHANGED <<cwd, opened>>
    PROVE  DataTypes'
  BY DEF DataTypes, DinodeType, ItableType

\* What stays keeps its type.
LEMMA DiskSame ==
    ASSUME DataTypes
    PROVE  /\ UNCHANGED dinode => dinode' \in DinodeType
           /\ UNCHANGED itable => itable' \in ItableType
           /\ UNCHANGED lock => lock' \in [Inum -> Proc \cup {None}]
  BY DEF DataTypes, DinodeType, ItableType

\* A call that has nothing locked, before and after.
Unlocked(l) == l.pc \notin LockCur \cup LockIp /\ (l.puts = <<>> \/ l.put # "free")

\* A step outside of the sections in which the call has an inode locked.
LEMMA LocksStay ==
    ASSUME PointerInv, NEW p \in Proc, UNCHANGED lock, Unlocked(c[p]), Unlocked(c'[p])
    PROVE  LockOK(p) /\ Apart(c'[p])
<1>1. \A i \in Inum : ~Locking(c[p], i) /\ ~Locking(c'[p], i)
  BY DEF Unlocked, Locking
<1> QED
  BY <1>1 DEF LockOK, Apart, Unlocked

\* A lookup that goes on, or not.
LEMMA AfterIs ==
    ASSUME NEW op \in Ops
    PROVE  /\ WantsParent(op) => After[op] \in {"link_dp", "unlink_dp", "create_dp"}
           /\ ~WantsParent(op) => After[op] \in {"link_ip", "open_ip", "chdir_ip"}
           /\ After[op] = "create_dp" => op \in Creates
           /\ After[op] = "link_ip" <=> op = "link"
           /\ After[op] = "link_dp" <=> op = "link_new"
           /\ AfterFailure(op) = IF op = "link_new" THEN "link_bad" ELSE "idle"
  BY DEF Ops, After, WantsParent, Creates, AfterFailure

\* A lookup starts at an inode: the root or the current directory.
LEMMA StartIs ==
    ASSUME PointerInv, NEW p \in Proc, c[p].pc # "unused", NEW path
    PROVE  /\ StartOf(p, path) \in Inum
           /\ StartOf(p, path) = ROOTINO \/ StartOf(p, path) = cwd[p]
<1>1. cwd[p] \in Inum
  BY PointersOf DEF CallOK, DataTypes
<1> QED BY <1>1, InodesAssumption DEF StartOf

\* A call has an operation and paths.
LEMMA CallIs ==
    ASSUME NEW call \in Calls
    PROVE  /\ call.op \in Ops \ {"link_new"} /\ (call.op = "link" => call.new \in Paths)
           /\ call.path \in Paths /\ call.path.elems \in Seq(STRING)
  BY TreeAssumption DEF Ops, Paths

StartWalkDone(p, call) ==
    LET l == c[p]
        m == c'[p]
        i == StartOf(p, call.path)
    IN /\ l.pc = "idle" /\ l.puts = <<>> /\ i \in Inum /\ l.cur = None /\ l.ip = None
       /\ i = ROOTINO \/ i = cwd[p]
       /\ call.op \in Ops \ {"link_new"} /\ (call.op = "link" => call.new \in Paths)
       /\ call.path.elems \in Seq(STRING)
       /\ call.path.elems # <<>>
       /\ UNCHANGED <<dinode, lock, cwd, opened>>
       /\ m.pc = "namex" /\ m.op = call.op /\ m.path = call.path.elems
       /\ m.cur = i /\ m.ip = None /\ m.new = call.new
       /\ m.puts = <<>> /\ m.put = "test"
       /\ Unread /\ Refers(i)
       /\ Alone(p) /\ RefOK(p) /\ PointerInv'

\* The call looks its path up, ...
LEMMA StartWalkStep ==
    ASSUME PointerInv, NEW p \in Proc, NEW call \in Calls, At(p, "idle"),
           ~IgetPanics(StartOf(p, call.path)),
           itable' = [itable EXCEPT ![StartOf(p, call.path)].ref = @ + 1],
           Walk(p, call.op, call.path, None, call.new),
           UNCHANGED <<dinode, lock, cwd, opened>>, call.path.elems # <<>>
    PROVE  StartWalkDone(p, call)
<1> DEFINE l == c[p]
           m == c'[p]
           i == StartOf(p, call.path)
<1>1. /\ l.pc = "idle" /\ l.puts = <<>> /\ i \in Inum /\ l.cur = None /\ l.ip = None
      /\ i = ROOTINO \/ i = cwd[p]
      /\ call.op \in Ops \ {"link_new"} /\ (call.op = "link" => call.new \in Paths)
      /\ call.path.elems \in Seq(STRING)
      /\ call.path.elems # <<>>
  BY PointersOf, StartIs, CallIs DEF At, CallOK, LocalsOK, Linking, AtIp, AtCur, AtLast
<1>2. /\ Only(p, [pc |-> "namex", op |-> call.op, path |-> call.path.elems, cur |-> i, ip |-> None, new |-> call.new])
      /\ itable' = [itable EXCEPT ![i].ref = @ + 1]
      /\ UNCHANGED <<dinode, lock, cwd, opened>>
  BY <1>1, TreeAssumption DEF Walk
<1>3. /\ m.pc = "namex" /\ m.op = call.op /\ m.path = call.path.elems
      /\ m.cur = i /\ m.ip = None /\ m.new = call.new
      /\ m.puts = <<>> /\ m.put = "test"
      /\ DOMAIN m = DOMAIN NoCall
      /\ Alone(p)
  <2>1. DOMAIN l = DOMAIN NoCall
    BY PointersOf DEF CallOK, LocalsOK
  <2>2. Alone(p)
    BY <1>2, PointersOf, OnlyAlone
  <2>3. m = Updated(NoCall, [pc |-> "namex", op |-> call.op, path |-> call.path.elems, cur |-> i, ip |-> None, new |-> call.new])
    BY <1>2, PointersOf DEF Only
  <2> HIDE DEF i
  <2> QED BY <1>1, <2>1, <2>2, <2>3 DEF Updated, NoCall
<1> HIDE DEF i
<1>4. /\ Unread /\ Refers(i)
  BY <1>1, <1>2, PointersOf, TakeIs
<1>5. DataTypes'
  BY <1>2, <1>4, PointersOf, DataSame DEF Read
<1>6. CallOK(p)'
  <2>1. LocalsOK(m)
    BY <1>1, <1>2, <1>3, PointersOf DEF CallOK, LocalsOK, Linking, PCs, AtCur, AtIp, AtLast, Creates
  <2> QED BY <2>1, <1>1, <1>2, <1>3, PointersOf DEF CallOK
<1>7. Apart(m) /\ LockOK(p)
  BY <1>1, <1>2, <1>3, LocksStay DEF Unlocked, LockCur, LockIp
<1>8. RefOK(p)
  <2>2. /\ cwd'[p] = cwd[p] /\ opened'[p] = opened[p] /\ m.cur = i /\ m.ip = None
        /\ l.cur = None /\ l.ip = None /\ None \notin Inum
    BY <1>1, <1>2, <1>3, InodesAssumption
  <2>3. \A x \in Inum : itable[x].ref \in Nat /\ itable'[x].ref = itable[x].ref + B(x = i)
    BY <1>4 DEF Refers
  <2>1. \A x \in Inum : Balanced(p, x, 0)
    BY <2>2, <2>3 DEF Balanced, Named, B
  <2> QED BY <1>1, <1>3, <1>4, <2>1, RefNone DEF Refers
<1> QED BY <1>1, <1>2, <1>3, <1>4, <1>5, <1>6, <1>7, <1>8, PointerStep DEF i, StartWalkDone

StartHereDone(p, call) ==
    LET l == c[p]
        m == c'[p]
        i == StartOf(p, call.path)
    IN /\ l.pc = "idle" /\ l.puts = <<>> /\ i \in Inum /\ l.cur = None /\ l.ip = None
       /\ i = ROOTINO \/ i = cwd[p]
       /\ call.op \in Ops \ {"link_new"} /\ (call.op = "link" => call.new \in Paths)
       /\ After[call.op] \in {"link_ip", "open_ip", "chdir_ip"}
       /\ After[call.op] = "link_ip" => call.op = "link"
       /\ UNCHANGED <<dinode, lock, cwd, opened>>
       /\ m.pc = After[call.op] /\ m.op = call.op /\ m.path = <<>>
       /\ m.cur = i /\ m.ip = None /\ m.new = call.new
       /\ m.puts = <<>> /\ m.put = "test"
       /\ Unread /\ Refers(i)
       /\ Alone(p) /\ RefOK(p) /\ PointerInv'

\* ... or the path has no element and names where the lookup starts, ...
LEMMA StartHereStep ==
    ASSUME PointerInv, NEW p \in Proc, NEW call \in Calls, At(p, "idle"),
           ~IgetPanics(StartOf(p, call.path)),
           itable' = [itable EXCEPT ![StartOf(p, call.path)].ref = @ + 1],
           Walk(p, call.op, call.path, None, call.new),
           UNCHANGED <<dinode, lock, cwd, opened>>, call.path.elems = <<>>,
           ~WantsParent(call.op)
    PROVE  StartHereDone(p, call)
<1> DEFINE l == c[p]
           m == c'[p]
           i == StartOf(p, call.path)
<1>1. /\ l.pc = "idle" /\ l.puts = <<>> /\ i \in Inum /\ l.cur = None /\ l.ip = None
      /\ i = ROOTINO \/ i = cwd[p]
      /\ call.op \in Ops \ {"link_new"} /\ (call.op = "link" => call.new \in Paths)
      /\ After[call.op] \in {"link_ip", "open_ip", "chdir_ip"}
      /\ After[call.op] = "link_ip" => call.op = "link"
  BY PointersOf, StartIs, CallIs, AfterIs DEF At, CallOK, LocalsOK, Linking, AtIp, AtCur, AtLast
<1>2. /\ Only(p, [pc |-> After[call.op], op |-> call.op, cur |-> i, ip |-> None, new |-> call.new])
      /\ itable' = [itable EXCEPT ![i].ref = @ + 1]
      /\ UNCHANGED <<dinode, lock, cwd, opened>>
  BY <1>1, TreeAssumption DEF Walk
<1>3. /\ m.pc = After[call.op] /\ m.op = call.op /\ m.path = <<>>
      /\ m.cur = i /\ m.ip = None /\ m.new = call.new
      /\ m.puts = <<>> /\ m.put = "test"
      /\ DOMAIN m = DOMAIN NoCall
      /\ Alone(p)
  <2>1. DOMAIN l = DOMAIN NoCall
    BY PointersOf DEF CallOK, LocalsOK
  <2>2. Alone(p)
    BY <1>2, PointersOf, OnlyAlone
  <2>3. m = Updated(NoCall, [pc |-> After[call.op], op |-> call.op, cur |-> i, ip |-> None, new |-> call.new])
    BY <1>2, PointersOf DEF Only
  <2> HIDE DEF i
  <2> QED BY <1>1, <2>1, <2>2, <2>3 DEF Updated, NoCall
<1> HIDE DEF i
<1>4. /\ Unread /\ Refers(i)
  BY <1>1, <1>2, PointersOf, TakeIs
<1>5. DataTypes'
  BY <1>2, <1>4, PointersOf, DataSame DEF Read
<1>6. CallOK(p)'
  <2>1. LocalsOK(m)
    BY <1>1, <1>2, <1>3, PointersOf DEF CallOK, LocalsOK, Linking, PCs, AtCur, AtIp, AtLast, Creates
  <2> QED BY <2>1, <1>1, <1>2, <1>3, PointersOf DEF CallOK
<1>7. Apart(m) /\ LockOK(p)
  BY <1>1, <1>2, <1>3, LocksStay DEF Unlocked, LockCur, LockIp
<1>8. RefOK(p)
  <2>2. /\ cwd'[p] = cwd[p] /\ opened'[p] = opened[p] /\ m.cur = i /\ m.ip = None
        /\ l.cur = None /\ l.ip = None /\ None \notin Inum
    BY <1>1, <1>2, <1>3, InodesAssumption
  <2>3. \A x \in Inum : itable[x].ref \in Nat /\ itable'[x].ref = itable[x].ref + B(x = i)
    BY <1>4 DEF Refers
  <2>1. \A x \in Inum : Balanced(p, x, 0)
    BY <2>2, <2>3 DEF Balanced, Named, B
  <2> QED BY <1>1, <1>3, <1>4, <2>1, RefNone DEF Refers
<1> QED BY <1>1, <1>2, <1>3, <1>4, <1>5, <1>6, <1>7, <1>8, PointerStep DEF i, StartHereDone

StartNoneDone(p, call) ==
    LET l == c[p]
        m == c'[p]
        i == StartOf(p, call.path)
    IN /\ l.pc = "idle" /\ l.puts = <<>> /\ i \in Inum /\ l.cur = None /\ l.ip = None
       /\ i = ROOTINO \/ i = cwd[p]
       /\ call.op \in Ops \ {"link_new"} /\ (call.op = "link" => call.new \in Paths)
       /\ AfterFailure(call.op) = "idle"
       /\ UNCHANGED <<dinode, lock, cwd, opened>>
       /\ m.pc = AfterFailure(call.op) /\ m.op = None /\ m.path = <<>>
       /\ m.cur = None /\ m.ip = None /\ m.new = None
       /\ m.puts = <<i>> /\ m.put = "test"
       /\ Unread /\ Refers(i)
       /\ Alone(p) /\ RefOK(p) /\ PointerInv'

\* ... which has no parent.
LEMMA StartNoneStep ==
    ASSUME PointerInv, NEW p \in Proc, NEW call \in Calls, At(p, "idle"),
           ~IgetPanics(StartOf(p, call.path)),
           itable' = [itable EXCEPT ![StartOf(p, call.path)].ref = @ + 1],
           Walk(p, call.op, call.path, None, call.new),
           UNCHANGED <<dinode, lock, cwd, opened>>, call.path.elems = <<>>,
           WantsParent(call.op)
    PROVE  StartNoneDone(p, call)
<1> DEFINE l == c[p]
           m == c'[p]
           i == StartOf(p, call.path)
<1>1. /\ l.pc = "idle" /\ l.puts = <<>> /\ i \in Inum /\ l.cur = None /\ l.ip = None
      /\ i = ROOTINO \/ i = cwd[p]
      /\ call.op \in Ops \ {"link_new"} /\ (call.op = "link" => call.new \in Paths)
      /\ AfterFailure(call.op) = "idle"
  BY PointersOf, StartIs, CallIs, AfterIs DEF At, CallOK, LocalsOK, Linking, AtIp, AtCur, AtLast
<1>2. /\ Only(p, [pc |-> AfterFailure(call.op), ip |-> None, puts |-> <<i>>])
      /\ itable' = [itable EXCEPT ![i].ref = @ + 1]
      /\ UNCHANGED <<dinode, lock, cwd, opened>>
  BY <1>1, TreeAssumption DEF Walk
<1>3. /\ m.pc = AfterFailure(call.op) /\ m.op = None /\ m.path = <<>>
      /\ m.cur = None /\ m.ip = None /\ m.new = None
      /\ m.puts = <<i>> /\ m.put = "test"
      /\ DOMAIN m = DOMAIN NoCall
      /\ Alone(p)
  <2>1. DOMAIN l = DOMAIN NoCall
    BY PointersOf DEF CallOK, LocalsOK
  <2>2. Alone(p)
    BY <1>2, PointersOf, OnlyAlone
  <2>3. m = Updated(NoCall, [pc |-> AfterFailure(call.op), ip |-> None, puts |-> <<i>>])
    BY <1>2, PointersOf DEF Only
  <2> HIDE DEF i
  <2> QED BY <1>1, <2>1, <2>2, <2>3 DEF Updated, NoCall
<1> HIDE DEF i
<1>4. /\ Unread /\ Refers(i)
  BY <1>1, <1>2, PointersOf, TakeIs
<1>5. DataTypes'
  BY <1>2, <1>4, PointersOf, DataSame DEF Read
<1>6. CallOK(p)'
  <2>1. LocalsOK(m)
    BY <1>1, <1>2, <1>3, PointersOf DEF CallOK, LocalsOK, Linking, PCs, AtCur, AtIp, AtLast, Creates
  <2> QED BY <2>1, <1>1, <1>2, <1>3, PointersOf DEF CallOK
<1>7. Apart(m) /\ LockOK(p)
  BY <1>1, <1>2, <1>3, LocksStay DEF Unlocked, LockCur, LockIp
<1>8. RefOK(p)
  <2>2. /\ cwd'[p] = cwd[p] /\ opened'[p] = opened[p] /\ m.cur = None /\ m.ip = None
        /\ l.cur = None /\ l.ip = None /\ None \notin Inum
    BY <1>1, <1>2, <1>3, InodesAssumption
  <2>3. \A x \in Inum : itable[x].ref \in Nat /\ itable'[x].ref = itable[x].ref + B(x = i)
    BY <1>4 DEF Refers
  <2>1. \A x \in Inum : Balanced(p, x, B(i = x))
    BY <2>2, <2>3 DEF Balanced, Named, B
  <2> QED BY <1>1, <1>3, <1>4, <2>1, RefOne DEF Refers
<1> QED BY <1>1, <1>2, <1>3, <1>4, <1>5, <1>6, <1>7, <1>8, PointerStep DEF i, StartNoneDone

NamexFailDone(p, i) ==
    LET l == c[p]
        m == c'[p]
    IN /\ l.pc = "namex" /\ l.puts = <<>> /\ l.cur = i /\ l.op \in Ops
       /\ l.ip \in Inum \cup {None} /\ (l.ip # None <=> l.op = "link_new")
       /\ l.put = "test" /\ l.path # <<>> /\ l.path \in Seq(STRING)
       /\ CanLock(i)
       /\ (IF l.op = "link_new" THEN "link_bad" ELSE "idle") = AfterFailure(l.op)
       /\ UNCHANGED <<dinode, lock, cwd, opened>>
       /\ m.pc = AfterFailure(l.op) /\ m.op = None /\ m.path = <<>>
       /\ m.cur = None /\ m.ip = l.ip /\ m.new = None
       /\ m.puts = <<i>> /\ m.put = "test"
       /\ Read(i) /\ SameRefs
       /\ Alone(p) /\ RefOK(p) /\ PointerInv'

\* The lookup fails, ...
LEMMA NamexFailStep ==
    ASSUME PointerInv, NEW p \in Proc, NEW i \in Inum, NamexFail(p, i),
           UNCHANGED opened
    PROVE  NamexFailDone(p, i)
<1> DEFINE l == c[p]
           m == c'[p]
<1>1. /\ l.pc = "namex" /\ l.puts = <<>> /\ l.cur = i /\ l.op \in Ops
      /\ l.ip \in Inum \cup {None} /\ (l.ip # None <=> l.op = "link_new")
      /\ l.put = "test" /\ l.path # <<>> /\ l.path \in Seq(STRING)
      /\ CanLock(i)
      /\ (IF l.op = "link_new" THEN "link_bad" ELSE "idle") = AfterFailure(l.op)
  BY PointersOf, AfterIs DEF NamexFail, NamexLocks, At, CallOK, LocalsOK, Linking, AtIp, AtCur, AtLast
<1>2. /\ Only(p, [pc |-> AfterFailure(l.op), ip |-> l.ip, puts |-> <<i>>])
      /\ itable' = [itable EXCEPT ![i] = Loaded(i)]
      /\ UNCHANGED <<dinode, lock, cwd, opened>>
  BY <1>1 DEF NamexFail
<1>3. /\ m.pc = AfterFailure(l.op) /\ m.op = None /\ m.path = <<>>
      /\ m.cur = None /\ m.ip = l.ip /\ m.new = None
      /\ m.puts = <<i>> /\ m.put = "test"
      /\ DOMAIN m = DOMAIN NoCall
      /\ Alone(p)
  <2>1. DOMAIN l = DOMAIN NoCall
    BY PointersOf DEF CallOK, LocalsOK
  <2>2. Alone(p)
    BY <1>2, PointersOf, OnlyAlone
  <2>3. m = Updated(NoCall, [pc |-> AfterFailure(l.op), ip |-> l.ip, puts |-> <<i>>])
    BY <1>2, PointersOf DEF Only
  <2> QED BY <1>1, <2>1, <2>2, <2>3 DEF Updated, NoCall
<1>4. /\ Read(i) /\ SameRefs
  BY <1>1, <1>2, PointersOf, ReadIs
<1>5. DataTypes'
  BY <1>2, <1>4, PointersOf, DataSame DEF Read
<1>6. CallOK(p)'
  <2>1. LocalsOK(m)
    BY <1>1, <1>2, <1>3, PointersOf DEF CallOK, LocalsOK, Linking, PCs, AtCur, AtIp, AtLast, Creates
  <2> QED BY <2>1, <1>1, <1>2, <1>3, PointersOf DEF CallOK
<1>7. Apart(m) /\ LockOK(p)
  BY <1>1, <1>2, <1>3, LocksStay DEF Unlocked, LockCur, LockIp
<1>8. RefOK(p)
  <2>2. /\ cwd'[p] = cwd[p] /\ opened'[p] = opened[p] /\ m.cur = None /\ m.ip = l.ip
        /\ l.cur = i /\ l.ip = l.ip /\ None \notin Inum
    BY <1>1, <1>2, <1>3, InodesAssumption
  <2>3. \A x \in Inum : itable[x].ref \in Nat /\ itable'[x].ref = itable[x].ref
    BY <1>4 DEF SameRefs
  <2>1. \A x \in Inum : Balanced(p, x, B(i = x))
    BY <2>2, <2>3 DEF Balanced, Named, B
  <2> QED BY <1>1, <1>3, <1>4, <2>1, RefOne DEF SameRefs
<1> QED BY <1>1, <1>2, <1>3, <1>4, <1>5, <1>6, <1>7, <1>8, PointerStep DEF NamexFailDone

NamexParentDone(p, i) ==
    LET l == c[p]
        m == c'[p]
    IN /\ l.pc = "namex" /\ l.puts = <<>> /\ l.cur = i /\ l.op \in Ops
       /\ l.ip \in Inum \cup {None} /\ (l.ip # None <=> l.op = "link_new")
       /\ l.put = "test" /\ l.path # <<>> /\ l.path \in Seq(STRING)
       /\ CanLock(i)
       /\ WantsParent(l.op) /\ Len(l.path) = 1
       /\ Loaded(i).type = "dir"
       /\ After[l.op] \in {"link_dp", "unlink_dp", "create_dp"}
       /\ After[l.op] = "create_dp" => l.op \in Creates
       /\ After[l.op] = "link_dp" <=> l.op = "link_new"
       /\ UNCHANGED <<dinode, lock, cwd, opened>>
       /\ m.pc = After[l.op] /\ m.op = l.op /\ m.path = l.path
       /\ m.cur = l.cur /\ m.ip = l.ip /\ m.new = l.new
       /\ m.puts = l.puts /\ m.put = l.put
       /\ Read(i) /\ SameRefs
       /\ Alone(p) /\ RefOK(p) /\ PointerInv'

\* ... or reaches the parent of the last element, ...
LEMMA NamexParentStep ==
    ASSUME PointerInv, NEW p \in Proc, NEW i \in Inum, NamexParent(p, i),
           UNCHANGED opened
    PROVE  NamexParentDone(p, i)
<1> DEFINE l == c[p]
           m == c'[p]
<1>1. /\ l.pc = "namex" /\ l.puts = <<>> /\ l.cur = i /\ l.op \in Ops
      /\ l.ip \in Inum \cup {None} /\ (l.ip # None <=> l.op = "link_new")
      /\ l.put = "test" /\ l.path # <<>> /\ l.path \in Seq(STRING)
      /\ CanLock(i)
      /\ WantsParent(l.op) /\ Len(l.path) = 1
      /\ Loaded(i).type = "dir"
      /\ After[l.op] \in {"link_dp", "unlink_dp", "create_dp"}
      /\ After[l.op] = "create_dp" => l.op \in Creates
      /\ After[l.op] = "link_dp" <=> l.op = "link_new"
  BY PointersOf, AfterIs
     DEF NamexParent, NamexLocks, At, AtParent, CallOK, LocalsOK, Linking, AtIp, AtCur, AtLast
<1>2. /\ Locals(p, [pc |-> After[l.op]])
      /\ itable' = [itable EXCEPT ![i] = Loaded(i)]
      /\ UNCHANGED <<dinode, lock, cwd, opened>>
  BY <1>1 DEF NamexParent
<1>3. /\ m.pc = After[l.op] /\ m.op = l.op /\ m.path = l.path
      /\ m.cur = l.cur /\ m.ip = l.ip /\ m.new = l.new
      /\ m.puts = l.puts /\ m.put = l.put
      /\ DOMAIN m = DOMAIN NoCall
      /\ Alone(p)
  <2>1. DOMAIN l = DOMAIN NoCall
    BY PointersOf DEF CallOK, LocalsOK
  <2>2. Alone(p)
    BY <1>2, PointersOf, LocalsAlone
  <2>3. m = Updated(l, [pc |-> After[l.op]])
    BY <1>2, PointersOf DEF Locals
  <2> QED BY <1>1, <2>1, <2>2, <2>3 DEF Updated, NoCall
<1>4. /\ Read(i) /\ SameRefs
  BY <1>1, <1>2, PointersOf, ReadIs
<1>5. DataTypes'
  BY <1>2, <1>4, PointersOf, DataSame DEF Read
<1>6. CallOK(p)'
  <2>1. LocalsOK(m)
    BY <1>1, <1>2, <1>3, PointersOf DEF CallOK, LocalsOK, Linking, PCs, AtCur, AtIp, AtLast, Creates
  <2> QED BY <2>1, <1>1, <1>2, <1>3, PointersOf DEF CallOK
<1>7. Apart(m) /\ LockOK(p)
  BY <1>1, <1>2, <1>3, LocksStay DEF Unlocked, LockCur, LockIp
<1>8. RefOK(p)
  <2>2. /\ cwd'[p] = cwd[p] /\ opened'[p] = opened[p] /\ m.cur = i /\ m.ip = l.ip
        /\ l.cur = i /\ l.ip = l.ip /\ None \notin Inum
    BY <1>1, <1>2, <1>3, InodesAssumption
  <2>3. \A x \in Inum : itable[x].ref \in Nat /\ itable'[x].ref = itable[x].ref
    BY <1>4 DEF SameRefs
  <2>1. \A x \in Inum : Balanced(p, x, 0)
    BY <2>2, <2>3 DEF Balanced, Named, B
  <2> QED BY <1>1, <1>3, <1>4, <2>1, RefNone DEF SameRefs
<1> QED BY <1>1, <1>2, <1>3, <1>4, <1>5, <1>6, <1>7, <1>8, PointerStep DEF NamexParentDone

NamexDescendDone(p, i) ==
    LET l == c[p]
        m == c'[p]
        next == dinode[i].ents[Head(l.path)]
        pc == IF Len(l.path) = 1 THEN After[l.op] ELSE "namex"
    IN /\ l.pc = "namex" /\ l.puts = <<>> /\ l.cur = i /\ l.op \in Ops
       /\ l.ip \in Inum \cup {None} /\ (l.ip # None <=> l.op = "link_new")
       /\ l.put = "test" /\ l.path # <<>> /\ l.path \in Seq(STRING)
       /\ CanLock(i)
       /\ ~(WantsParent(l.op) /\ Len(l.path) = 1)
       /\ Loaded(i).type = "dir"
       /\ Head(l.path) \in DOMAIN dinode[i].ents
       /\ next \in Inum
       /\ pc \in {"namex", "link_ip", "open_ip", "chdir_ip"}
       /\ UNCHANGED <<dinode, lock, cwd, opened>>
       /\ m.pc = pc /\ m.op = l.op /\ m.path = Tail(l.path)
       /\ m.cur = next /\ m.ip = l.ip /\ m.new = l.new
       /\ m.puts = <<i>> /\ m.put = l.put
       /\ Read(i) /\ Refers(next)
       /\ Alone(p) /\ RefOK(p) /\ PointerInv'

\* ... or goes one element on.
LEMMA NamexDescendStep ==
    ASSUME PointerInv, NEW p \in Proc, NEW i \in Inum, NamexDescend(p, i),
           UNCHANGED opened, ~IgetPanics(dinode[i].ents[Head(c[p].path)])
    PROVE  NamexDescendDone(p, i)
<1> DEFINE l == c[p]
           m == c'[p]
           next == dinode[i].ents[Head(l.path)]
           pc == IF Len(l.path) = 1 THEN After[l.op] ELSE "namex"
<1>1. /\ l.pc = "namex" /\ l.puts = <<>> /\ l.cur = i /\ l.op \in Ops
      /\ l.ip \in Inum \cup {None} /\ (l.ip # None <=> l.op = "link_new")
      /\ l.put = "test" /\ l.path # <<>> /\ l.path \in Seq(STRING)
      /\ CanLock(i)
      /\ ~(WantsParent(l.op) /\ Len(l.path) = 1)
      /\ Loaded(i).type = "dir"
      /\ Head(l.path) \in DOMAIN dinode[i].ents
      /\ next \in Inum
      /\ pc \in {"namex", "link_ip", "open_ip", "chdir_ip"}
  BY PointersOf, EntsHave, AfterIs, Zenon
     DEF NamexDescend, NamexLocks, At, AtParent, DataTypes, CallOK, LocalsOK, Linking, AtIp, AtCur, AtLast
<1>2. /\ Locals(p, [pc |-> pc, cur |-> next, path |-> Tail(l.path), puts |-> <<i>>])
      /\ itable' = [itable EXCEPT ![i] = Loaded(i), ![next].ref = @ + 1]
      /\ UNCHANGED <<dinode, lock, cwd, opened>>
  BY <1>1, Zenon DEF NamexDescend
<1>3. /\ m.pc = pc /\ m.op = l.op /\ m.path = Tail(l.path)
      /\ m.cur = next /\ m.ip = l.ip /\ m.new = l.new
      /\ m.puts = <<i>> /\ m.put = l.put
      /\ DOMAIN m = DOMAIN NoCall
      /\ Alone(p)
  <2>1. DOMAIN l = DOMAIN NoCall
    BY PointersOf DEF CallOK, LocalsOK
  <2>2. Alone(p)
    BY <1>2, PointersOf, LocalsAlone, Zenon
  <2>3. m = Updated(l, [pc |-> pc, cur |-> next, path |-> Tail(l.path), puts |-> <<i>>])
    BY <1>2, PointersOf, Zenon DEF Locals
  <2> HIDE DEF next, pc
  <2> QED BY <1>1, <2>1, <2>2, <2>3 DEF Updated, NoCall
<1> HIDE DEF next, pc
<1>4. /\ Read(i) /\ Refers(next)
  BY <1>1, <1>2, PointersOf, ReadTake
<1>5. DataTypes'
  BY <1>2, <1>4, PointersOf, DataSame DEF Read
<1>6. CallOK(p)'
  <2>1. /\ Tail(l.path) \in Seq(STRING)
        /\ Len(l.path) # 1 => Tail(l.path) # <<>>
        /\ Len(l.path) = 1 => ~WantsParent(l.op)
    BY <1>1, TailIs
  <2>2. \/ /\ m.pc = "namex" /\ m.path # <<>>
        \/ /\ m.pc \in {"link_ip", "open_ip", "chdir_ip"} /\ l.op # "link_new"
           /\ m.pc = "link_ip" => l.op = "link"
    BY <2>1, <1>1, <1>3, AfterIs DEF WantsParent, pc
  <2>3. /\ CallOK(p) /\ m.puts \in Seq(Inum) /\ Len(m.puts) <= 2 /\ m.puts # <<>>
        /\ None \notin Inum /\ i \in Inum
    BY <1>3, PointersOf
  <2>4. LocalsOK(m)
    BY <2>1, <2>2, <2>3, <1>1, <1>3 DEF CallOK, LocalsOK, Linking, PCs, AtCur, AtIp, AtLast, Creates
  <2> QED
    BY <2>2, <2>3, <2>4, <1>1, <1>2 DEF CallOK
<1>7. Apart(m) /\ LockOK(p)
  BY <1>1, <1>2, <1>3, LocksStay DEF Unlocked, LockCur, LockIp
<1>8. RefOK(p)
  <2>2. /\ cwd'[p] = cwd[p] /\ opened'[p] = opened[p] /\ m.cur = next /\ m.ip = l.ip
        /\ l.cur = i /\ l.ip = l.ip /\ None \notin Inum
    BY <1>1, <1>2, <1>3, InodesAssumption
  <2>3. \A x \in Inum : itable[x].ref \in Nat /\ itable'[x].ref = itable[x].ref + B(x = next)
    BY <1>4 DEF Refers
  <2>1. \A x \in Inum : Balanced(p, x, B(i = x))
    BY <2>2, <2>3 DEF Balanced, Named, B
  <2> QED BY <1>1, <1>3, <1>4, <2>1, RefOne DEF Refers
<1> QED BY <1>1, <1>2, <1>3, <1>4, <1>5, <1>6, <1>7, <1>8, PointerStep, Zenon
   DEF next, pc, NamexDescendDone

LinkIpDirDone(p) ==
    LET l == c[p]
        m == c'[p]
        i == l.cur
    IN /\ l.pc = "link_ip" /\ l.puts = <<>> /\ i \in Inum /\ l.ip = None /\ l.new \in Paths
       /\ CanLock(i)
       /\ UNCHANGED <<dinode, lock, cwd, opened>>
       /\ m.pc = "idle" /\ m.op = None /\ m.path = <<>>
       /\ m.cur = None /\ m.ip = None /\ m.new = None
       /\ m.puts = <<i>> /\ m.put = "test"
       /\ Read(i) /\ SameRefs
       /\ Alone(p) /\ RefOK(p) /\ PointerInv'

\* link() of a directory is refused.
LEMMA LinkIpDirStep ==
    ASSUME PointerInv, NEW p \in Proc, LinkIp(p), Loaded(c[p].cur).type = "dir"
    PROVE  LinkIpDirDone(p)
<1> DEFINE l == c[p]
           m == c'[p]
           i == l.cur
<1>1. /\ l.cur = i
      /\ l.pc = "link_ip" /\ l.puts = <<>> /\ i \in Inum /\ l.ip = None /\ l.new \in Paths
      /\ CanLock(i)
  BY PointersOf DEF LinkIp, At, CallOK, LocalsOK, Linking, AtIp, AtCur, AtLast
<1>2. /\ Only(p, [puts |-> <<i>>])
      /\ itable' = [itable EXCEPT ![i] = Loaded(i)]
      /\ UNCHANGED <<dinode, lock, cwd, opened>>
  BY <1>1 DEF LinkIp, Returns
<1>3. /\ m.pc = "idle" /\ m.op = None /\ m.path = <<>>
      /\ m.cur = None /\ m.ip = None /\ m.new = None
      /\ m.puts = <<i>> /\ m.put = "test"
      /\ DOMAIN m = DOMAIN NoCall
      /\ Alone(p)
  <2>1. DOMAIN l = DOMAIN NoCall
    BY PointersOf DEF CallOK, LocalsOK
  <2>2. Alone(p)
    BY <1>2, PointersOf, OnlyAlone
  <2>3. m = Updated(NoCall, [puts |-> <<i>>])
    BY <1>2, PointersOf DEF Only
  <2> HIDE DEF i
  <2> QED BY <1>1, <2>1, <2>2, <2>3 DEF Updated, NoCall
<1> HIDE DEF i
<1>4. /\ Read(i) /\ SameRefs
  BY <1>1, <1>2, PointersOf, ReadIs
<1>5. DataTypes'
  BY <1>2, <1>4, PointersOf, DataSame DEF Read
<1>6. CallOK(p)'
  <2>1. LocalsOK(m)
    BY <1>1, <1>2, <1>3, PointersOf DEF CallOK, LocalsOK, Linking, PCs, AtCur, AtIp, AtLast, Creates
  <2> QED BY <2>1, <1>1, <1>2, <1>3, PointersOf DEF CallOK
<1>7. Apart(m) /\ LockOK(p)
  BY <1>1, <1>2, <1>3, LocksStay DEF Unlocked, LockCur, LockIp
<1>8. RefOK(p)
  <2>2. /\ cwd'[p] = cwd[p] /\ opened'[p] = opened[p] /\ m.cur = None /\ m.ip = None
        /\ l.cur = i /\ l.ip = None /\ None \notin Inum
    BY <1>1, <1>2, <1>3, InodesAssumption
  <2>3. \A x \in Inum : itable[x].ref \in Nat /\ itable'[x].ref = itable[x].ref
    BY <1>4 DEF SameRefs
  <2>1. \A x \in Inum : Balanced(p, x, B(i = x))
    BY <2>2, <2>3 DEF Balanced, Named, B
  <2> QED BY <1>1, <1>3, <1>4, <2>1, RefOne DEF SameRefs
<1> QED BY <1>1, <1>2, <1>3, <1>4, <1>5, <1>6, <1>7, <1>8, PointerStep DEF i, LinkIpDirDone

LinkIpWalkDone(p) ==
    LET l == c[p]
        m == c'[p]
        i == l.cur
        j == StartOf(p, l.new)
        n == Loaded(i).nlink + 1
    IN /\ l.pc = "link_ip" /\ l.puts = <<>> /\ i \in Inum /\ l.ip = None /\ l.new \in Paths
       /\ CanLock(i)
       /\ j \in Inum /\ (j = ROOTINO \/ j = cwd[p]) /\ n \in Int
       /\ l.new.elems \in Seq(STRING)
       /\ l.new.elems # <<>>
       /\ "link_new" \in Ops
       /\ UNCHANGED <<lock, cwd, opened>>
       /\ m.pc = "namex" /\ m.op = "link_new" /\ m.path = l.new.elems
       /\ m.cur = j /\ m.ip = i /\ m.new = None
       /\ m.puts = <<>> /\ m.put = "test"
       /\ ReadAs(i, n) /\ Refers(j)
       /\ Recounted(i, n)
       /\ Alone(p) /\ RefOK(p) /\ PointerInv'

\* link() counts the link and looks the new path up, ...
LEMMA LinkIpWalkStep ==
    ASSUME PointerInv, NEW p \in Proc, LinkIp(p), Loaded(c[p].cur).type # "dir",
           ~IgetPanics(StartOf(p, c[p].new)), c[p].new.elems # <<>>
    PROVE  LinkIpWalkDone(p)
<1> DEFINE l == c[p]
           m == c'[p]
           i == l.cur
           j == StartOf(p, l.new)
           n == Loaded(i).nlink + 1
<1>1. /\ l.cur = i
      /\ l.pc = "link_ip" /\ l.puts = <<>> /\ i \in Inum /\ l.ip = None /\ l.new \in Paths
      /\ CanLock(i)
      /\ j \in Inum /\ (j = ROOTINO \/ j = cwd[p]) /\ n \in Int
      /\ l.new.elems \in Seq(STRING)
      /\ l.new.elems # <<>>
      /\ "link_new" \in Ops
  <2>1. /\ l.pc = "link_ip" /\ l.puts = <<>> /\ i \in Inum /\ l.ip = None /\ l.new \in Paths
        /\ CanLock(i)
    BY PointersOf DEF LinkIp, At, CallOK, LocalsOK, Linking, AtIp, AtCur, AtLast
  <2>2. j \in Inum /\ (j = ROOTINO \/ j = cwd[p]) /\ n \in Int
    BY <2>1, PointersOf, StartIs, LoadedIs
  <2> QED BY <2>1, <2>2 DEF Paths, Ops, AfterFailure
<1>2. /\ Only(p, [pc |-> "namex", op |-> "link_new", path |-> l.new.elems, cur |-> j, ip |-> i, new |-> None])
      /\ Iupdate(i, n)
      /\ itable' = [itable EXCEPT ![i] = [Loaded(i) EXCEPT !.nlink = n], ![j].ref = @ + 1]
      /\ UNCHANGED <<lock, cwd, opened>>
  BY <1>1 DEF LinkIp, Walk, WantsParent
<1>3. /\ m.pc = "namex" /\ m.op = "link_new" /\ m.path = l.new.elems
      /\ m.cur = j /\ m.ip = i /\ m.new = None
      /\ m.puts = <<>> /\ m.put = "test"
      /\ DOMAIN m = DOMAIN NoCall
      /\ Alone(p)
  <2>1. DOMAIN l = DOMAIN NoCall
    BY PointersOf DEF CallOK, LocalsOK
  <2>2. Alone(p)
    BY <1>2, PointersOf, OnlyAlone
  <2>3. m = Updated(NoCall, [pc |-> "namex", op |-> "link_new", path |-> l.new.elems, cur |-> j, ip |-> i, new |-> None])
    BY <1>2, PointersOf DEF Only
  <2> HIDE DEF i, j, n
  <2> QED BY <1>1, <2>1, <2>2, <2>3 DEF Updated, NoCall
<1> HIDE DEF i, j, n
<1>4. /\ ReadAs(i, n) /\ Refers(j)
      /\ Recounted(i, n)
  <2>0. DataTypes
    BY PointersOf
  <2> HIDE DEF l, m
  <2>1. ReadAs(i, n) /\ Refers(j)
    BY <1>1, <1>2, <2>0, ReadTakeAs
  <2>2. Recounted(i, n)
    BY <1>1, <1>2, <2>0, IupdateIs
  <2> QED BY <2>1, <2>2
<1>5. DataTypes'
  BY <1>2, <1>4, PointersOf, DataIs, DiskSame DEF ReadAs, Recounted
<1>6. CallOK(p)'
  <2>1. LocalsOK(m)
    BY <1>1, <1>2, <1>3, PointersOf DEF CallOK, LocalsOK, Linking, PCs, AtCur, AtIp, AtLast, Creates
  <2> QED BY <2>1, <1>1, <1>2, <1>3, PointersOf DEF CallOK
<1>7. Apart(m) /\ LockOK(p)
  BY <1>1, <1>2, <1>3, LocksStay DEF Unlocked, LockCur, LockIp
<1>8. RefOK(p)
  <2>2. /\ cwd'[p] = cwd[p] /\ opened'[p] = opened[p] /\ m.cur = j /\ m.ip = i
        /\ l.cur = i /\ l.ip = None /\ None \notin Inum
    BY <1>1, <1>2, <1>3, InodesAssumption
  <2>3. \A x \in Inum : itable[x].ref \in Nat /\ itable'[x].ref = itable[x].ref + B(x = j)
    BY <1>4 DEF Refers
  <2>1. \A x \in Inum : Balanced(p, x, 0)
    BY <2>2, <2>3 DEF Balanced, Named, B
  <2> QED BY <1>1, <1>3, <1>4, <2>1, RefNone DEF Refers
<1> QED BY <1>1, <1>2, <1>3, <1>4, <1>5, <1>6, <1>7, <1>8, PointerStep DEF i, j, n, LinkIpWalkDone

LinkIpNoneDone(p) ==
    LET l == c[p]
        m == c'[p]
        i == l.cur
        j == StartOf(p, l.new)
        n == Loaded(i).nlink + 1
    IN /\ l.pc = "link_ip" /\ l.puts = <<>> /\ i \in Inum /\ l.ip = None /\ l.new \in Paths
       /\ CanLock(i)
       /\ j \in Inum /\ (j = ROOTINO \/ j = cwd[p]) /\ n \in Int
       /\ AfterFailure("link_new") = "link_bad"
       /\ UNCHANGED <<lock, cwd, opened>>
       /\ m.pc = AfterFailure("link_new") /\ m.op = None /\ m.path = <<>>
       /\ m.cur = None /\ m.ip = i /\ m.new = None
       /\ m.puts = <<j>> /\ m.put = "test"
       /\ ReadAs(i, n) /\ Refers(j)
       /\ Recounted(i, n)
       /\ Alone(p) /\ RefOK(p) /\ PointerInv'

\* ... which has no element.
LEMMA LinkIpNoneStep ==
    ASSUME PointerInv, NEW p \in Proc, LinkIp(p), Loaded(c[p].cur).type # "dir",
           ~IgetPanics(StartOf(p, c[p].new)), c[p].new.elems = <<>>
    PROVE  LinkIpNoneDone(p)
<1> DEFINE l == c[p]
           m == c'[p]
           i == l.cur
           j == StartOf(p, l.new)
           n == Loaded(i).nlink + 1
<1>1. /\ l.cur = i
      /\ l.pc = "link_ip" /\ l.puts = <<>> /\ i \in Inum /\ l.ip = None /\ l.new \in Paths
      /\ CanLock(i)
      /\ j \in Inum /\ (j = ROOTINO \/ j = cwd[p]) /\ n \in Int
      /\ AfterFailure("link_new") = "link_bad"
  <2>1. /\ l.pc = "link_ip" /\ l.puts = <<>> /\ i \in Inum /\ l.ip = None /\ l.new \in Paths
        /\ CanLock(i)
    BY PointersOf DEF LinkIp, At, CallOK, LocalsOK, Linking, AtIp, AtCur, AtLast
  <2>2. j \in Inum /\ (j = ROOTINO \/ j = cwd[p]) /\ n \in Int
    BY <2>1, PointersOf, StartIs, LoadedIs
  <2> QED BY <2>1, <2>2 DEF Paths, Ops, AfterFailure
<1>2. /\ Only(p, [pc |-> AfterFailure("link_new"), ip |-> i, puts |-> <<j>>])
      /\ Iupdate(i, n)
      /\ itable' = [itable EXCEPT ![i] = [Loaded(i) EXCEPT !.nlink = n], ![j].ref = @ + 1]
      /\ UNCHANGED <<lock, cwd, opened>>
  BY <1>1 DEF LinkIp, Walk, WantsParent
<1>3. /\ m.pc = AfterFailure("link_new") /\ m.op = None /\ m.path = <<>>
      /\ m.cur = None /\ m.ip = i /\ m.new = None
      /\ m.puts = <<j>> /\ m.put = "test"
      /\ DOMAIN m = DOMAIN NoCall
      /\ Alone(p)
  <2>1. DOMAIN l = DOMAIN NoCall
    BY PointersOf DEF CallOK, LocalsOK
  <2>2. Alone(p)
    BY <1>2, PointersOf, OnlyAlone
  <2>3. m = Updated(NoCall, [pc |-> AfterFailure("link_new"), ip |-> i, puts |-> <<j>>])
    BY <1>2, PointersOf DEF Only
  <2> HIDE DEF i, j, n
  <2> QED BY <1>1, <2>1, <2>2, <2>3 DEF Updated, NoCall
<1> HIDE DEF i, j, n
<1>4. /\ ReadAs(i, n) /\ Refers(j)
      /\ Recounted(i, n)
  <2>0. DataTypes
    BY PointersOf
  <2> HIDE DEF l, m
  <2>1. ReadAs(i, n) /\ Refers(j)
    BY <1>1, <1>2, <2>0, ReadTakeAs
  <2>2. Recounted(i, n)
    BY <1>1, <1>2, <2>0, IupdateIs
  <2> QED BY <2>1, <2>2
<1>5. DataTypes'
  BY <1>2, <1>4, PointersOf, DataIs, DiskSame DEF ReadAs, Recounted
<1>6. CallOK(p)'
  <2>1. LocalsOK(m)
    BY <1>1, <1>2, <1>3, PointersOf DEF CallOK, LocalsOK, Linking, PCs, AtCur, AtIp, AtLast, Creates
  <2> QED BY <2>1, <1>1, <1>2, <1>3, PointersOf DEF CallOK
<1>7. Apart(m) /\ LockOK(p)
  BY <1>1, <1>2, <1>3, LocksStay DEF Unlocked, LockCur, LockIp
<1>8. RefOK(p)
  <2>2. /\ cwd'[p] = cwd[p] /\ opened'[p] = opened[p] /\ m.cur = None /\ m.ip = i
        /\ l.cur = i /\ l.ip = None /\ None \notin Inum
    BY <1>1, <1>2, <1>3, InodesAssumption
  <2>3. \A x \in Inum : itable[x].ref \in Nat /\ itable'[x].ref = itable[x].ref + B(x = j)
    BY <1>4 DEF Refers
  <2>1. \A x \in Inum : Balanced(p, x, B(j = x))
    BY <2>2, <2>3 DEF Balanced, Named, B
  <2> QED BY <1>1, <1>3, <1>4, <2>1, RefOne DEF Refers
<1> QED BY <1>1, <1>2, <1>3, <1>4, <1>5, <1>6, <1>7, <1>8, PointerStep DEF i, j, n, LinkIpNoneDone

LinkExistsDone(p) ==
    LET l == c[p]
        m == c'[p]
        d == l.cur
        n == l.path[1]
        i == dinode[d].ents[n]
    IN /\ l.pc = "link_dp" /\ l.puts = <<>> /\ d \in Inum /\ l.ip \in Inum
       /\ CanLock(d)
       /\ n \in STRING
       /\ n \in DOMAIN dinode[d].ents /\ i \in Inum
       /\ lock' = [lock EXCEPT ![d] = p]
       /\ UNCHANGED <<dinode, cwd, opened>>
       /\ m.pc = "link_bad_dp" /\ m.op = None /\ m.path = <<>>
       /\ m.cur = d /\ m.ip = l.ip /\ m.new = None
       /\ m.puts = <<i>> /\ m.put = "test"
       /\ Read(d) /\ Refers(i)
       /\ Alone(p) /\ RefOK(p) /\ PointerInv'

\* dirlink() finds the name: what it names is referred to while dp is locked.
LEMMA LinkExistsStep ==
    ASSUME PointerInv, NEW p \in Proc, LinkExists(p),
           ~IgetPanics(dinode[c[p].cur].ents[c[p].path[1]])
    PROVE  LinkExistsDone(p)
<1> DEFINE l == c[p]
           m == c'[p]
           d == l.cur
           n == l.path[1]
           i == dinode[d].ents[n]
<1>1. /\ l.cur = d /\ l.path[1] = n
      /\ l.pc = "link_dp" /\ l.puts = <<>> /\ d \in Inum /\ l.ip \in Inum
      /\ CanLock(d)
      /\ n \in STRING
      /\ n \in DOMAIN dinode[d].ents /\ i \in Inum
  <2>1. /\ l.pc = "link_dp" /\ l.puts = <<>> /\ CanLock(d) /\ n \in DOMAIN dinode[d].ents
    BY Zenon DEF LinkExists, At
  <2>2. d \in Inum /\ l.ip \in Inum /\ n \in STRING
    BY <2>1, PointersOf DEF CallOK, LocalsOK, Linking, AtIp, AtCur, AtLast
  <2>3. dinode[d].ents \in Ents
    BY <2>2, PointersOf DEF DataTypes
  <2> QED BY <2>1, <2>2, <2>3, EntsHave
<1>2. /\ Only(p, [pc |-> "link_bad_dp", cur |-> d, ip |-> l.ip, puts |-> <<i>>])
      /\ itable' = [itable EXCEPT ![d] = Loaded(d), ![i].ref = @ + 1]
      /\ lock' = [lock EXCEPT ![d] = p]
      /\ UNCHANGED <<dinode, cwd, opened>>
  BY <1>1, Zenon DEF LinkExists
<1>3. /\ m.pc = "link_bad_dp" /\ m.op = None /\ m.path = <<>>
      /\ m.cur = d /\ m.ip = l.ip /\ m.new = None
      /\ m.puts = <<i>> /\ m.put = "test"
      /\ DOMAIN m = DOMAIN NoCall
      /\ Alone(p)
  <2>1. DOMAIN l = DOMAIN NoCall
    BY PointersOf DEF CallOK, LocalsOK
  <2>2. Alone(p)
    BY <1>2, PointersOf, OnlyAlone, Zenon
  <2>3. m = Updated(NoCall, [pc |-> "link_bad_dp", cur |-> d, ip |-> l.ip, puts |-> <<i>>])
    BY <1>2, PointersOf, Zenon DEF Only
  <2> HIDE DEF d, n, i
  <2> QED BY <1>1, <2>1, <2>2, <2>3 DEF Updated, NoCall
<1> HIDE DEF d, n, i
<1>4. /\ Read(d) /\ Refers(i)
  BY <1>1, <1>2, PointersOf, ReadTake
<1>5. DataTypes'
  BY <1>1, <1>2, <1>4, PointersOf, DataIs, DiskSame, LockType DEF Read, ReadAs
<1>6. CallOK(p)'
  <2>1. LocalsOK(m)
    BY <1>1, <1>2, <1>3, PointersOf DEF CallOK, LocalsOK, Linking, PCs, AtCur, AtIp, AtLast, Creates
  <2> QED BY <2>1, <1>1, <1>2, <1>3, PointersOf DEF CallOK
<1>7. Apart(m) /\ LockOK(p)
  BY <1>1, <1>2, <1>3, PointersOf DEF Apart, LockOK, Locking, DataTypes, LockCur, LockIp, CanLock
<1>8. RefOK(p)
  <2>2. /\ cwd'[p] = cwd[p] /\ opened'[p] = opened[p] /\ m.cur = d /\ m.ip = l.ip
        /\ l.cur = d /\ l.ip = l.ip /\ None \notin Inum
    BY <1>1, <1>2, <1>3, InodesAssumption
  <2>3. \A x \in Inum : itable[x].ref \in Nat /\ itable'[x].ref = itable[x].ref + B(x = i)
    BY <1>4 DEF Refers
  <2>1. \A x \in Inum : Balanced(p, x, B(i = x))
    BY <2>2, <2>3 DEF Balanced, Named, B
  <2> QED BY <1>1, <1>3, <1>4, <2>1, RefOne DEF Refers
<1> QED BY <1>1, <1>2, <1>3, <1>4, <1>5, <1>6, <1>7, <1>8, PointerStep, Zenon
   DEF d, n, i, LinkExistsDone

LinkBadDpDone(p) ==
    LET l == c[p]
        m == c'[p]
        d == l.cur
    IN /\ l.pc = "link_bad_dp" /\ l.puts = <<>> /\ d \in Inum /\ l.ip \in Inum
       /\ lock' = [lock EXCEPT ![d] = None]
       /\ UNCHANGED <<dinode, itable, cwd, opened>>
       /\ m.pc = "link_bad" /\ m.op = None /\ m.path = <<>>
       /\ m.cur = None /\ m.ip = l.ip /\ m.new = None
       /\ m.puts = <<d>> /\ m.put = "test"
       /\ Unread /\ SameRefs
       /\ Alone(p) /\ RefOK(p) /\ PointerInv'

\* The failed link() lets go of dp.
LEMMA LinkBadDpStep ==
    ASSUME PointerInv, NEW p \in Proc, LinkBadDp(p)
    PROVE  LinkBadDpDone(p)
<1> DEFINE l == c[p]
           m == c'[p]
           d == l.cur
<1>1. /\ l.cur = d
      /\ l.pc = "link_bad_dp" /\ l.puts = <<>> /\ d \in Inum /\ l.ip \in Inum
  BY PointersOf DEF LinkBadDp, At, CallOK, LocalsOK, Linking, AtIp, AtCur, AtLast
<1>2. /\ Only(p, [pc |-> "link_bad", ip |-> l.ip, puts |-> <<d>>])
      /\ lock' = [lock EXCEPT ![d] = None]
      /\ UNCHANGED <<dinode, itable, cwd, opened>>
  BY <1>1 DEF LinkBadDp
<1>3. /\ m.pc = "link_bad" /\ m.op = None /\ m.path = <<>>
      /\ m.cur = None /\ m.ip = l.ip /\ m.new = None
      /\ m.puts = <<d>> /\ m.put = "test"
      /\ DOMAIN m = DOMAIN NoCall
      /\ Alone(p)
  <2>1. DOMAIN l = DOMAIN NoCall
    BY PointersOf DEF CallOK, LocalsOK
  <2>2. Alone(p)
    BY <1>2, PointersOf, OnlyAlone
  <2>3. m = Updated(NoCall, [pc |-> "link_bad", ip |-> l.ip, puts |-> <<d>>])
    BY <1>2, PointersOf DEF Only
  <2> HIDE DEF d
  <2> QED BY <1>1, <2>1, <2>2, <2>3 DEF Updated, NoCall
<1> HIDE DEF d
<1>4. /\ Unread /\ SameRefs
  BY <1>2, PointersOf, UnreadIs
<1>5. DataTypes'
  BY <1>1, <1>2, PointersOf, DataIs, DiskSame, LockType
<1>6. CallOK(p)'
  <2>1. LocalsOK(m)
    BY <1>1, <1>2, <1>3, PointersOf DEF CallOK, LocalsOK, Linking, PCs, AtCur, AtIp, AtLast, Creates
  <2> QED BY <2>1, <1>1, <1>2, <1>3, PointersOf DEF CallOK
<1>7. Apart(m) /\ LockOK(p)
  BY <1>1, <1>2, <1>3, PointersOf DEF Apart, LockOK, Locking, DataTypes, LockCur, LockIp
<1>8. RefOK(p)
  <2>2. /\ cwd'[p] = cwd[p] /\ opened'[p] = opened[p] /\ m.cur = None /\ m.ip = l.ip
        /\ l.cur = d /\ l.ip = l.ip /\ None \notin Inum
    BY <1>1, <1>2, <1>3, InodesAssumption
  <2>3. \A x \in Inum : itable[x].ref \in Nat /\ itable'[x].ref = itable[x].ref
    BY <1>4 DEF SameRefs
  <2>1. \A x \in Inum : Balanced(p, x, B(d = x))
    BY <2>2, <2>3 DEF Balanced, Named, B
  <2> QED BY <1>1, <1>3, <1>4, <2>1, RefOne DEF SameRefs
<1> QED BY <1>1, <1>2, <1>3, <1>4, <1>5, <1>6, <1>7, <1>8, PointerStep DEF d, LinkBadDpDone

LinkDpDone(p) ==
    LET l == c[p]
        m == c'[p]
        d == l.cur
        n == l.path[1]
    IN /\ l.pc = "link_dp" /\ l.puts = <<>> /\ d \in Inum /\ l.ip \in Inum
       /\ CanLock(d)
       /\ n \in STRING
       /\ n \notin DOMAIN dinode[d].ents
       /\ UNCHANGED <<lock, cwd, opened>>
       /\ m.pc = "idle" /\ m.op = None /\ m.path = <<>>
       /\ m.cur = None /\ m.ip = None /\ m.new = None
       /\ m.puts = <<d, l.ip>> /\ m.put = "test"
       /\ Read(d) /\ SameRefs
       /\ EnteredIn(d, n, l.ip)
       /\ Alone(p) /\ RefOK(p) /\ PointerInv'

\* dirlink() writes the entry, ...
LEMMA LinkDpStep ==
    ASSUME PointerInv, NEW p \in Proc, LinkDp(p), c'[p].puts # <<c[p].cur>>
    PROVE  LinkDpDone(p)
<1> DEFINE l == c[p]
           m == c'[p]
           d == l.cur
           n == l.path[1]
<1>1. /\ l.cur = d /\ l.path[1] = n
      /\ l.pc = "link_dp" /\ l.puts = <<>> /\ d \in Inum /\ l.ip \in Inum
      /\ CanLock(d)
      /\ n \in STRING
      /\ n \notin DOMAIN dinode[d].ents
  BY PointersOf DEF LinkDp, At, CallOK, LocalsOK, Linking, AtIp, AtCur, AtLast
<1>2. /\ Only(p, [puts |-> <<d, l.ip>>])
      /\ itable' = [itable EXCEPT ![d] = Loaded(d)]
      /\ dinode' = [dinode EXCEPT ![d].ents = Entered(@, n, l.ip)]
      /\ UNCHANGED <<lock, cwd, opened>>
  BY <1>1, PointersOf DEF LinkDp, Returns, Only, Updated, NoCall
<1>3. /\ m.pc = "idle" /\ m.op = None /\ m.path = <<>>
      /\ m.cur = None /\ m.ip = None /\ m.new = None
      /\ m.puts = <<d, l.ip>> /\ m.put = "test"
      /\ DOMAIN m = DOMAIN NoCall
      /\ Alone(p)
  <2>1. DOMAIN l = DOMAIN NoCall
    BY PointersOf DEF CallOK, LocalsOK
  <2>2. Alone(p)
    BY <1>2, PointersOf, OnlyAlone
  <2>3. m = Updated(NoCall, [puts |-> <<d, l.ip>>])
    BY <1>2, PointersOf DEF Only
  <2> HIDE DEF d, n
  <2> QED BY <1>1, <2>1, <2>2, <2>3 DEF Updated, NoCall
<1> HIDE DEF d, n
<1>4. /\ Read(d) /\ SameRefs
      /\ EnteredIn(d, n, l.ip)
  <2>0. DataTypes
    BY PointersOf
  <2> HIDE DEF l, m
  <2>1. Read(d) /\ SameRefs
    BY <1>1, <1>2, <2>0, ReadIs
  <2>2. EnteredIn(d, n, l.ip)
    BY <1>1, <1>2, <2>0, EnterIs
  <2> QED BY <2>1, <2>2
<1>5. DataTypes'
  BY <1>2, <1>4, PointersOf, DataIs, DiskSame DEF Read, ReadAs, EnteredIn
<1>6. CallOK(p)'
  <2>1. LocalsOK(m)
    BY <1>1, <1>2, <1>3, PointersOf DEF CallOK, LocalsOK, Linking, PCs, AtCur, AtIp, AtLast, Creates
  <2> QED BY <2>1, <1>1, <1>2, <1>3, PointersOf DEF CallOK
<1>7. Apart(m) /\ LockOK(p)
  BY <1>1, <1>2, <1>3, LocksStay DEF Unlocked, LockCur, LockIp
<1>8. RefOK(p)
  <2>2. /\ cwd'[p] = cwd[p] /\ opened'[p] = opened[p] /\ m.cur = None /\ m.ip = None
        /\ l.cur = d /\ l.ip = l.ip /\ None \notin Inum
    BY <1>1, <1>2, <1>3, InodesAssumption
  <2>3. \A x \in Inum : itable[x].ref \in Nat /\ itable'[x].ref = itable[x].ref
    BY <1>4 DEF SameRefs
  <2>1. \A x \in Inum : Balanced(p, x, B(d = x) + B(l.ip = x))
    BY <2>2, <2>3 DEF Balanced, Named, B
  <2> QED BY <1>1, <1>3, <1>4, <2>1, RefTwo DEF SameRefs
<1> QED BY <1>1, <1>2, <1>3, <1>4, <1>5, <1>6, <1>7, <1>8, PointerStep DEF d, n, LinkDpDone

LinkNoBlockDone(p) ==
    LET l == c[p]
        m == c'[p]
        d == l.cur
        n == l.path[1]
    IN /\ l.pc = "link_dp" /\ l.puts = <<>> /\ d \in Inum /\ l.ip \in Inum
       /\ CanLock(d)
       /\ n \in STRING
       /\ n \notin DOMAIN dinode[d].ents
       /\ UNCHANGED <<dinode, lock, cwd, opened>>
       /\ m.pc = "link_bad" /\ m.op = None /\ m.path = <<>>
       /\ m.cur = None /\ m.ip = l.ip /\ m.new = None
       /\ m.puts = <<d>> /\ m.put = "test"
       /\ Read(d) /\ SameRefs
       /\ Alone(p) /\ RefOK(p) /\ PointerInv'

\* ... or finds no block for it.
LEMMA LinkNoBlockStep ==
    ASSUME PointerInv, NEW p \in Proc, LinkDp(p), c'[p].puts = <<c[p].cur>>
    PROVE  LinkNoBlockDone(p)
<1> DEFINE l == c[p]
           m == c'[p]
           d == l.cur
           n == l.path[1]
<1>1. /\ l.cur = d /\ l.path[1] = n
      /\ l.pc = "link_dp" /\ l.puts = <<>> /\ d \in Inum /\ l.ip \in Inum
      /\ CanLock(d)
      /\ n \in STRING
      /\ n \notin DOMAIN dinode[d].ents
  BY PointersOf DEF LinkDp, At, CallOK, LocalsOK, Linking, AtIp, AtCur, AtLast
<1>2. /\ Only(p, [pc |-> "link_bad", ip |-> l.ip, puts |-> <<d>>])
      /\ itable' = [itable EXCEPT ![d] = Loaded(d)]
      /\ UNCHANGED <<dinode, lock, cwd, opened>>
  BY <1>1, PointersOf, SMTT(30) DEF LinkDp, Returns, Only, Updated, NoCall
<1>3. /\ m.pc = "link_bad" /\ m.op = None /\ m.path = <<>>
      /\ m.cur = None /\ m.ip = l.ip /\ m.new = None
      /\ m.puts = <<d>> /\ m.put = "test"
      /\ DOMAIN m = DOMAIN NoCall
      /\ Alone(p)
  <2>1. DOMAIN l = DOMAIN NoCall
    BY PointersOf DEF CallOK, LocalsOK
  <2>2. Alone(p)
    BY <1>2, PointersOf, OnlyAlone
  <2>3. m = Updated(NoCall, [pc |-> "link_bad", ip |-> l.ip, puts |-> <<d>>])
    BY <1>2, PointersOf DEF Only
  <2> HIDE DEF d, n
  <2> QED BY <1>1, <2>1, <2>2, <2>3 DEF Updated, NoCall
<1> HIDE DEF d, n
<1>4. /\ Read(d) /\ SameRefs
  BY <1>1, <1>2, PointersOf, ReadIs
<1>5. DataTypes'
  BY <1>2, <1>4, PointersOf, DataSame DEF Read
<1>6. CallOK(p)'
  <2>1. LocalsOK(m)
    BY <1>1, <1>2, <1>3, PointersOf DEF CallOK, LocalsOK, Linking, PCs, AtCur, AtIp, AtLast, Creates
  <2> QED BY <2>1, <1>1, <1>2, <1>3, PointersOf DEF CallOK
<1>7. Apart(m) /\ LockOK(p)
  BY <1>1, <1>2, <1>3, LocksStay DEF Unlocked, LockCur, LockIp
<1>8. RefOK(p)
  <2>2. /\ cwd'[p] = cwd[p] /\ opened'[p] = opened[p] /\ m.cur = None /\ m.ip = l.ip
        /\ l.cur = d /\ l.ip = l.ip /\ None \notin Inum
    BY <1>1, <1>2, <1>3, InodesAssumption
  <2>3. \A x \in Inum : itable[x].ref \in Nat /\ itable'[x].ref = itable[x].ref
    BY <1>4 DEF SameRefs
  <2>1. \A x \in Inum : Balanced(p, x, B(d = x))
    BY <2>2, <2>3 DEF Balanced, Named, B
  <2> QED BY <1>1, <1>3, <1>4, <2>1, RefOne DEF SameRefs
<1> QED BY <1>1, <1>2, <1>3, <1>4, <1>5, <1>6, <1>7, <1>8, PointerStep DEF d, n, LinkNoBlockDone

LinkBadDone(p) ==
    LET l == c[p]
        m == c'[p]
        i == l.ip
        n == Loaded(i).nlink - 1
    IN /\ n = Loaded(i).nlink - 1
       /\ l.pc = "link_bad" /\ l.puts = <<>> /\ i \in Inum /\ l.cur = None /\ n \in Int
       /\ CanLock(i)
       /\ UNCHANGED <<lock, cwd, opened>>
       /\ m.pc = "idle" /\ m.op = None /\ m.path = <<>>
       /\ m.cur = None /\ m.ip = None /\ m.new = None
       /\ m.puts = <<i>> /\ m.put = "test"
       /\ ReadAs(i, n) /\ SameRefs
       /\ Recounted(i, n)
       /\ Alone(p) /\ RefOK(p) /\ PointerInv'

\* The failed link() takes its count back.
LEMMA LinkBadStep ==
    ASSUME PointerInv, NEW p \in Proc, LinkBad(p)
    PROVE  LinkBadDone(p)
<1> DEFINE l == c[p]
           m == c'[p]
           i == l.ip
           n == Loaded(i).nlink - 1
<1>1. /\ l.ip = i
      /\ n = Loaded(i).nlink - 1
      /\ l.pc = "link_bad" /\ l.puts = <<>> /\ i \in Inum /\ l.cur = None /\ n \in Int
      /\ CanLock(i)
  BY PointersOf, LoadedIs, SMTT(30) DEF LinkBad, At, CallOK, LocalsOK, Linking, AtIp, AtCur, AtLast
<1>2. /\ Only(p, [puts |-> <<i>>])
      /\ Iupdate(i, n)
      /\ itable' = [itable EXCEPT ![i] = [Loaded(i) EXCEPT !.nlink = n]]
      /\ UNCHANGED <<lock, cwd, opened>>
  BY <1>1 DEF LinkBad, Linked, Uncounted, Returns
<1>3. /\ m.pc = "idle" /\ m.op = None /\ m.path = <<>>
      /\ m.cur = None /\ m.ip = None /\ m.new = None
      /\ m.puts = <<i>> /\ m.put = "test"
      /\ DOMAIN m = DOMAIN NoCall
      /\ Alone(p)
  <2>1. DOMAIN l = DOMAIN NoCall
    BY PointersOf DEF CallOK, LocalsOK
  <2>2. Alone(p)
    BY <1>2, PointersOf, OnlyAlone
  <2>3. m = Updated(NoCall, [puts |-> <<i>>])
    BY <1>2, PointersOf DEF Only
  <2> HIDE DEF i, n
  <2> QED BY <1>1, <2>1, <2>2, <2>3 DEF Updated, NoCall
<1> HIDE DEF i, n
<1>4. /\ ReadAs(i, n) /\ SameRefs
      /\ Recounted(i, n)
  <2>0. DataTypes
    BY PointersOf
  <2> HIDE DEF l, m
  <2>1. ReadAs(i, n) /\ SameRefs
    BY <1>1, <1>2, <2>0, ReadAsIs
  <2>2. Recounted(i, n)
    BY <1>1, <1>2, <2>0, IupdateIs
  <2> QED BY <2>1, <2>2
<1>5. DataTypes'
  BY <1>2, <1>4, PointersOf, DataIs, DiskSame DEF ReadAs, Recounted
<1>6. CallOK(p)'
  <2>1. LocalsOK(m)
    BY <1>1, <1>2, <1>3, PointersOf DEF CallOK, LocalsOK, Linking, PCs, AtCur, AtIp, AtLast, Creates
  <2> QED BY <2>1, <1>1, <1>2, <1>3, PointersOf DEF CallOK
<1>7. Apart(m) /\ LockOK(p)
  BY <1>1, <1>2, <1>3, LocksStay DEF Unlocked, LockCur, LockIp
<1>8. RefOK(p)
  <2>2. /\ cwd'[p] = cwd[p] /\ opened'[p] = opened[p] /\ m.cur = None /\ m.ip = None
        /\ l.cur = None /\ l.ip = i /\ None \notin Inum
    BY <1>1, <1>2, <1>3, InodesAssumption
  <2>3. \A x \in Inum : itable[x].ref \in Nat /\ itable'[x].ref = itable[x].ref
    BY <1>4 DEF SameRefs
  <2>1. \A x \in Inum : Balanced(p, x, B(i = x))
    BY <2>2, <2>3 DEF Balanced, Named, B
  <2> QED BY <1>1, <1>3, <1>4, <2>1, RefOne DEF SameRefs
<1> QED BY <1>1, <1>2, <1>3, <1>4, <1>5, <1>6, <1>7, <1>8, PointerStep DEF i, n, LinkBadDone


Dinode == [type : Kinds, nlink : Int, ents : Ents]

\* A link count and entries make an inode of an inode.
LEMMA FilledIs ==
    ASSUME NEW r \in Dinode, NEW n \in Int, NEW x \in Ents
    PROVE  LET e == Filled(r, n, x)
           IN e \in Dinode /\ e.type = r.type /\ e.nlink = n /\ e.ents = x
  BY DEF Dinode, Filled

\* The disk but for one inode is the same.
LEMMA OneDinode ==
    ASSUME DataTypes, NEW i \in Inum, NEW e \in Dinode, dinode' = [dinode EXCEPT ![i] = e]
    PROVE  /\ dinode' \in DinodeType /\ dinode'[i] = e
           /\ \A j \in Inum \ {i} : dinode'[j] = dinode[j]
<1>1. dinode \in [Inum -> Dinode] /\ DinodeType = [Inum -> Dinode]
  BY DEF DataTypes, Dinode, DinodeType
<1> QED BY <1>1

\* The table is the same but for i, which has been read and has count n, and the
\* count m of d.
ReadBoth(i, n, d, m) ==
    /\ itable' \in ItableType
    /\ \A j \in Inum \ {i, d} : /\ itable'[j].valid = itable[j].valid
                                /\ itable'[j].type = itable[j].type
                                /\ itable'[j].nlink = itable[j].nlink
    /\ itable'[i].valid /\ itable'[i].type = Loaded(i).type /\ itable'[i].nlink = n
    /\ itable'[d].valid = itable[d].valid /\ itable'[d].type = itable[d].type /\ itable'[d].nlink = m

\* ilock(i), and a new link count for d, whose copy is valid.
LEMMA ReadBothIs ==
    ASSUME DataTypes, NEW i \in Inum, NEW d \in Inum, i # d, NEW n \in Int, NEW m \in Int, NEW e,
           e \in [ref : Nat, valid : BOOLEAN, type : Kinds, nlink : Int],
           e.ref = itable[i].ref, e.valid, e.type = Loaded(i).type, e.nlink = n,
           \/ itable' = [itable EXCEPT ![d].nlink = m, ![i] = e]
           \/ itable' = [itable EXCEPT ![i] = e, ![d].nlink = m]
    PROVE  ReadBoth(i, n, d, m) /\ SameRefs
<1> DEFINE T == [ref : Nat, valid : BOOLEAN, type : Kinds, nlink : Int]
           f == [itable[d] EXCEPT !.nlink = m]
<1>1. itable \in [Inum -> T] /\ ItableType = [Inum -> T]
  BY DEF DataTypes, ItableType
<1>2. /\ f \in T /\ f.ref = itable[d].ref /\ f.valid = itable[d].valid
      /\ f.type = itable[d].type /\ f.nlink = m
  BY <1>1
<1>3. \/ itable' = [itable EXCEPT ![d] = f, ![i] = e]
      \/ itable' = [itable EXCEPT ![i] = e, ![d] = f]
  OBVIOUS
<1> HIDE DEF f
<1>4. itable' \in [Inum -> T] /\ itable'[i] = e /\ itable'[d] = f /\ \A j \in Inum \ {i, d} : itable'[j] = itable[j]
  BY <1>1, <1>2, <1>3
<1>5. \A j \in Inum : itable[j].ref \in Nat
  BY <1>1
<1> HIDE DEF T
<1> QED BY <1>1, <1>2, <1>4, <1>5 DEF ReadBoth, SameRefs

\* One inode is unlocked and another locked.
LEMMA TwoLocks ==
    ASSUME DataTypes, NEW i \in Inum, NEW d \in Inum, i # d, NEW p \in Proc,
           \/ lock' = [lock EXCEPT ![d] = None, ![i] = p]
           \/ lock' = [lock EXCEPT ![i] = p, ![d] = None]
    PROVE  /\ lock' \in [Inum -> Proc \cup {None}] /\ lock'[i] = p /\ lock'[d] = None
           /\ \A j \in Inum \ {i, d} : lock'[j] = lock[j]
  BY DEF DataTypes

\* The entry n of d goes, and d's link count is m.
RemovedFrom(d, n, m) ==
    /\ dinode' \in DinodeType
    /\ \A j \in Inum \ {d} : dinode'[j] = dinode[j]
    /\ dinode'[d].type = dinode[d].type /\ dinode'[d].nlink = m
    /\ DOMAIN dinode'[d].ents = DOMAIN dinode[d].ents \ {n}
    /\ \A k \in DOMAIN dinode[d].ents \ {n} : dinode'[d].ents[k] = dinode[d].ents[k]

\* The entry of a name goes.
LEMMA RemoveIs ==
    ASSUME DataTypes, NEW d \in Inum, NEW n, NEW m \in Int,
           dinode' = [dinode EXCEPT ![d] = Without(@, n, m)]
    PROVE  RemovedFrom(d, n, m)
<1> DEFINE x == Restrict(dinode[d].ents, DOMAIN dinode[d].ents \ {n})
           e == Filled(dinode[d], m, x)
<1>1. dinode[d] \in Dinode /\ dinode[d].ents \in Ents
  BY DEF DataTypes, Dinode
<1>2. /\ x \in Ents /\ DOMAIN x = DOMAIN dinode[d].ents \ {n}
      /\ \A k \in DOMAIN dinode[d].ents \ {n} : x[k] = dinode[d].ents[k]
  BY <1>1, RestrictType
<1>3. dinode' = [dinode EXCEPT ![d] = e]
  BY DEF Without
<1> HIDE DEF x
<1>4. e \in Dinode /\ e.type = dinode[d].type /\ e.nlink = m /\ e.ents = x
  BY <1>1, <1>2, FilledIs
<1> HIDE DEF e
<1>5. /\ dinode' \in DinodeType /\ dinode'[d] = e
      /\ \A j \in Inum \ {d} : dinode'[j] = dinode[j]
  BY <1>3, <1>4, OneDinode
<1> QED BY <1>2, <1>4, <1>5 DEF RemovedFrom

UnlinkNoneDone(p) ==
    LET l == c[p]
        m == c'[p]
        d == l.cur
        n == l.path[1]
    IN /\ l.pc = "unlink_dp" /\ l.puts = <<>> /\ d \in Inum /\ l.ip = None /\ l.put = "test"
       /\ CanLock(d)
       /\ UNCHANGED <<dinode, lock, cwd, opened>>
       /\ m.pc = "idle" /\ m.op = None /\ m.path = <<>>
       /\ m.cur = None /\ m.ip = None /\ m.new = None
       /\ m.puts = <<d>> /\ m.put = "test"
       /\ Read(d) /\ SameRefs
       /\ Alone(p) /\ RefOK(p) /\ PointerInv'

\* unlink() finds no such name, or "." or "..".
LEMMA UnlinkNoneStep ==
    ASSUME PointerInv, NEW p \in Proc, UnlinkDp(p),
           c[p].path[1] \in {".", ".."} \/ c[p].path[1] \notin DOMAIN dinode[c[p].cur].ents
    PROVE  UnlinkNoneDone(p)
<1> DEFINE l == c[p]
           m == c'[p]
           d == l.cur
           n == l.path[1]
<1>1. /\ l.cur = d /\ l.path[1] = n
      /\ l.pc = "unlink_dp" /\ l.puts = <<>> /\ d \in Inum /\ l.ip = None /\ l.put = "test"
      /\ CanLock(d)
  BY PointersOf, Zenon DEF UnlinkDp, At, CallOK, LocalsOK, Linking, AtIp, AtCur, AtLast
<1>2. /\ Only(p, [puts |-> <<d>>])
      /\ itable' = [itable EXCEPT ![d] = Loaded(d)]
      /\ UNCHANGED <<dinode, lock, cwd, opened>>
  BY <1>1, Zenon DEF UnlinkDp, Returns
<1>3. /\ m.pc = "idle" /\ m.op = None /\ m.path = <<>>
      /\ m.cur = None /\ m.ip = None /\ m.new = None
      /\ m.puts = <<d>> /\ m.put = "test"
      /\ DOMAIN m = DOMAIN NoCall
      /\ Alone(p)
  <2>1. DOMAIN l = DOMAIN NoCall
    BY PointersOf DEF CallOK, LocalsOK
  <2>2. Alone(p)
    BY <1>2, PointersOf, OnlyAlone
  <2>3. m = Updated(NoCall, [puts |-> <<d>>])
    BY <1>2, PointersOf DEF Only
  <2> HIDE DEF d, n
  <2> QED BY <1>1, <2>1, <2>2, <2>3 DEF Updated, NoCall
<1> HIDE DEF d, n
<1>4. /\ Read(d) /\ SameRefs
  BY <1>1, <1>2, PointersOf, ReadIs
<1>5. DataTypes'
  BY <1>2, <1>4, PointersOf, DataSame DEF Read
<1>6. CallOK(p)'
  <2>1. LocalsOK(m)
    BY <1>1, <1>2, <1>3, PointersOf DEF CallOK, LocalsOK, Linking, PCs, AtCur, AtIp, AtLast, Creates
  <2> QED BY <2>1, <1>1, <1>2, <1>3, PointersOf DEF CallOK
<1>7. Apart(m) /\ LockOK(p)
  BY <1>1, <1>2, <1>3, LocksStay DEF Unlocked, LockCur, LockIp
<1>8. RefOK(p)
  <2>2. /\ cwd'[p] = cwd[p] /\ opened'[p] = opened[p] /\ m.cur = None /\ m.ip = None
        /\ l.cur = d /\ l.ip = None /\ None \notin Inum
    BY <1>1, <1>2, <1>3, InodesAssumption
  <2>3. \A x \in Inum : itable[x].ref \in Nat /\ itable'[x].ref = itable[x].ref
    BY <1>4 DEF SameRefs
  <2>1. \A x \in Inum : Balanced(p, x, B(d = x))
    BY <2>2, <2>3 DEF Balanced, Named, B
  <2> QED BY <1>1, <1>3, <1>4, <2>1, RefOne DEF SameRefs
<1> QED BY <1>1, <1>2, <1>3, <1>4, <1>5, <1>6, <1>7, <1>8, PointerStep DEF d, n, UnlinkNoneDone

UnlinkDpDone(p) ==
    LET l == c[p]
        m == c'[p]
        d == l.cur
        n == l.path[1]
        i == dinode[d].ents[n]
    IN /\ l.pc = "unlink_dp" /\ l.puts = <<>> /\ d \in Inum /\ l.ip = None /\ l.put = "test"
       /\ CanLock(d)
       /\ n \notin {".", ".."} /\ n \in DOMAIN dinode[d].ents /\ i \in Inum
       /\ lock' = [lock EXCEPT ![d] = p]
       /\ UNCHANGED <<dinode, cwd, opened>>
       /\ m.pc = "unlink_ip" /\ m.op = l.op /\ m.path = l.path
       /\ m.cur = l.cur /\ m.ip = i /\ m.new = l.new
       /\ m.puts = l.puts /\ m.put = l.put
       /\ Read(d) /\ Refers(i)
       /\ Alone(p) /\ RefOK(p) /\ PointerInv'

\* unlink() finds the name and keeps dp locked.
LEMMA UnlinkDpStep ==
    ASSUME PointerInv, NEW p \in Proc, UnlinkDp(p), c[p].path[1] \notin {".", ".."},
           c[p].path[1] \in DOMAIN dinode[c[p].cur].ents,
           ~IgetPanics(dinode[c[p].cur].ents[c[p].path[1]])
    PROVE  UnlinkDpDone(p)
<1> DEFINE l == c[p]
           m == c'[p]
           d == l.cur
           n == l.path[1]
           i == dinode[d].ents[n]
<1>1. /\ l.cur = d /\ l.path[1] = n
      /\ l.pc = "unlink_dp" /\ l.puts = <<>> /\ d \in Inum /\ l.ip = None /\ l.put = "test"
      /\ CanLock(d)
      /\ n \notin {".", ".."} /\ n \in DOMAIN dinode[d].ents /\ i \in Inum
  BY PointersOf, EntsHave, Zenon
     DEF UnlinkDp, At, DataTypes, CallOK, LocalsOK, Linking, AtIp, AtCur, AtLast
<1>2. /\ Locals(p, [pc |-> "unlink_ip", ip |-> i])
      /\ itable' = [itable EXCEPT ![d] = Loaded(d), ![i].ref = @ + 1]
      /\ lock' = [lock EXCEPT ![d] = p]
      /\ UNCHANGED <<dinode, cwd, opened>>
  BY <1>1, Zenon DEF UnlinkDp
<1>3. /\ m.pc = "unlink_ip" /\ m.op = l.op /\ m.path = l.path
      /\ m.cur = l.cur /\ m.ip = i /\ m.new = l.new
      /\ m.puts = l.puts /\ m.put = l.put
      /\ DOMAIN m = DOMAIN NoCall
      /\ Alone(p)
  <2>1. DOMAIN l = DOMAIN NoCall
    BY PointersOf DEF CallOK, LocalsOK
  <2>2. Alone(p)
    BY <1>2, PointersOf, LocalsAlone, Zenon
  <2>3. m = Updated(l, [pc |-> "unlink_ip", ip |-> i])
    BY <1>2, PointersOf, Zenon DEF Locals
  <2> HIDE DEF d, n, i
  <2> QED BY <1>1, <2>1, <2>2, <2>3 DEF Updated, NoCall
<1> HIDE DEF d, n, i
<1>4. /\ Read(d) /\ Refers(i)
  BY <1>1, <1>2, PointersOf, ReadTake
<1>5. DataTypes'
  BY <1>1, <1>2, <1>4, PointersOf, DataIs, DiskSame, LockType DEF Read, ReadAs
<1>6. CallOK(p)'
  <2>1. LocalsOK(m)
    BY <1>1, <1>2, <1>3, PointersOf DEF CallOK, LocalsOK, Linking, PCs, AtCur, AtIp, AtLast, Creates
  <2> QED BY <2>1, <1>1, <1>2, <1>3, PointersOf DEF CallOK
<1>7. Apart(m) /\ LockOK(p)
  BY <1>1, <1>2, <1>3, PointersOf DEF Apart, LockOK, Locking, DataTypes, LockCur, LockIp, CanLock
<1>8. RefOK(p)
  <2>2. /\ cwd'[p] = cwd[p] /\ opened'[p] = opened[p] /\ m.cur = d /\ m.ip = i
        /\ l.cur = d /\ l.ip = None /\ None \notin Inum
    BY <1>1, <1>2, <1>3, InodesAssumption
  <2>3. \A x \in Inum : itable[x].ref \in Nat /\ itable'[x].ref = itable[x].ref + B(x = i)
    BY <1>4 DEF Refers
  <2>1. \A x \in Inum : Balanced(p, x, 0)
    BY <2>2, <2>3 DEF Balanced, Named, B
  <2> QED BY <1>1, <1>3, <1>4, <2>1, RefNone DEF Refers
<1> QED BY <1>1, <1>2, <1>3, <1>4, <1>5, <1>6, <1>7, <1>8, PointerStep, Zenon DEF d, n, i, UnlinkDpDone

UnlinkRefusedDone(p) ==
    LET l == c[p]
        m == c'[p]
        d == l.cur
        i == l.ip
    IN /\ l.pc = "unlink_ip" /\ l.puts = <<>> /\ d \in Inum /\ i \in Inum /\ l.put = "test"
       /\ d # i /\ CanLock(i)
       /\ Loaded(i).type = "dir"
       /\ UNCHANGED <<dinode, lock, cwd, opened>>
       /\ m.pc = "unlink_bad" /\ m.op = None /\ m.path = <<>>
       /\ m.cur = d /\ m.ip = None /\ m.new = None
       /\ m.puts = <<i>> /\ m.put = "test"
       /\ Read(i) /\ SameRefs
       /\ Alone(p) /\ RefOK(p) /\ PointerInv'

\* The directory to remove is not empty.
LEMMA UnlinkRefusedStep ==
    ASSUME PointerInv, NEW p \in Proc, UnlinkRefused(p)
    PROVE  UnlinkRefusedDone(p)
<1> DEFINE l == c[p]
           m == c'[p]
           d == l.cur
           i == l.ip
<1>1. /\ l.cur = d /\ l.ip = i
      /\ l.pc = "unlink_ip" /\ l.puts = <<>> /\ d \in Inum /\ i \in Inum /\ l.put = "test"
      /\ d # i /\ CanLock(i)
      /\ Loaded(i).type = "dir"
  BY PointersOf
     DEF UnlinkRefused, CanLock, Locking, LockCur, At, CallOK, LocalsOK, Linking, AtIp, AtCur, AtLast
<1>2. /\ Only(p, [pc |-> "unlink_bad", cur |-> d, puts |-> <<i>>])
      /\ itable' = [itable EXCEPT ![i] = Loaded(i)]
      /\ UNCHANGED <<dinode, lock, cwd, opened>>
  BY <1>1 DEF UnlinkRefused
<1>3. /\ m.pc = "unlink_bad" /\ m.op = None /\ m.path = <<>>
      /\ m.cur = d /\ m.ip = None /\ m.new = None
      /\ m.puts = <<i>> /\ m.put = "test"
      /\ DOMAIN m = DOMAIN NoCall
      /\ Alone(p)
  <2>1. DOMAIN l = DOMAIN NoCall
    BY PointersOf DEF CallOK, LocalsOK
  <2>2. Alone(p)
    BY <1>2, PointersOf, OnlyAlone
  <2>3. m = Updated(NoCall, [pc |-> "unlink_bad", cur |-> d, puts |-> <<i>>])
    BY <1>2, PointersOf DEF Only
  <2> HIDE DEF d, i
  <2> QED BY <1>1, <2>1, <2>2, <2>3 DEF Updated, NoCall
<1> HIDE DEF d, i
<1>4. /\ Read(i) /\ SameRefs
  BY <1>1, <1>2, PointersOf, ReadIs
<1>5. DataTypes'
  BY <1>2, <1>4, PointersOf, DataSame DEF Read
<1>6. CallOK(p)'
  <2>1. LocalsOK(m)
    BY <1>1, <1>2, <1>3, PointersOf DEF CallOK, LocalsOK, Linking, PCs, AtCur, AtIp, AtLast, Creates
  <2> QED BY <2>1, <1>1, <1>2, <1>3, PointersOf DEF CallOK
<1>7. Apart(m) /\ LockOK(p)
  BY <1>1, <1>2, <1>3, PointersOf DEF Apart, LockOK, Locking, DataTypes, LockCur, LockIp
<1>8. RefOK(p)
  <2>2. /\ cwd'[p] = cwd[p] /\ opened'[p] = opened[p] /\ m.cur = d /\ m.ip = None
        /\ l.cur = d /\ l.ip = i /\ None \notin Inum
    BY <1>1, <1>2, <1>3, InodesAssumption
  <2>3. \A x \in Inum : itable[x].ref \in Nat /\ itable'[x].ref = itable[x].ref
    BY <1>4 DEF SameRefs
  <2>1. \A x \in Inum : Balanced(p, x, B(i = x))
    BY <2>2, <2>3 DEF Balanced, Named, B
  <2> QED BY <1>1, <1>3, <1>4, <2>1, RefOne DEF SameRefs
<1> QED BY <1>1, <1>2, <1>3, <1>4, <1>5, <1>6, <1>7, <1>8, PointerStep DEF d, i, UnlinkRefusedDone

UnlinkBadDone(p) ==
    LET l == c[p]
        m == c'[p]
        d == l.cur
    IN /\ l.pc = "unlink_bad" /\ l.puts = <<>> /\ d \in Inum /\ l.ip = None
       /\ lock' = [lock EXCEPT ![d] = None]
       /\ UNCHANGED <<dinode, itable, cwd, opened>>
       /\ m.pc = "idle" /\ m.op = None /\ m.path = <<>>
       /\ m.cur = None /\ m.ip = None /\ m.new = None
       /\ m.puts = <<d>> /\ m.put = "test"
       /\ Unread /\ SameRefs
       /\ Alone(p) /\ RefOK(p) /\ PointerInv'

\* The refused unlink(), or failed create(), lets go of dp.
LEMMA UnlinkBadStep ==
    ASSUME PointerInv, NEW p \in Proc, UnlinkBad(p)
    PROVE  UnlinkBadDone(p)
<1> DEFINE l == c[p]
           m == c'[p]
           d == l.cur
<1>1. /\ l.cur = d
      /\ l.pc = "unlink_bad" /\ l.puts = <<>> /\ d \in Inum /\ l.ip = None
  BY PointersOf DEF UnlinkBad, At, CallOK, LocalsOK, Linking, AtIp, AtCur, AtLast
<1>2. /\ Only(p, [puts |-> <<d>>])
      /\ lock' = [lock EXCEPT ![d] = None]
      /\ UNCHANGED <<dinode, itable, cwd, opened>>
  BY <1>1 DEF UnlinkBad, Returns
<1>3. /\ m.pc = "idle" /\ m.op = None /\ m.path = <<>>
      /\ m.cur = None /\ m.ip = None /\ m.new = None
      /\ m.puts = <<d>> /\ m.put = "test"
      /\ DOMAIN m = DOMAIN NoCall
      /\ Alone(p)
  <2>1. DOMAIN l = DOMAIN NoCall
    BY PointersOf DEF CallOK, LocalsOK
  <2>2. Alone(p)
    BY <1>2, PointersOf, OnlyAlone
  <2>3. m = Updated(NoCall, [puts |-> <<d>>])
    BY <1>2, PointersOf DEF Only
  <2> HIDE DEF d
  <2> QED BY <1>1, <2>1, <2>2, <2>3 DEF Updated, NoCall
<1> HIDE DEF d
<1>4. /\ Unread /\ SameRefs
  BY <1>2, PointersOf, UnreadIs
<1>5. DataTypes'
  BY <1>1, <1>2, PointersOf, DataIs, DiskSame, LockType
<1>6. CallOK(p)'
  <2>1. LocalsOK(m)
    BY <1>1, <1>2, <1>3, PointersOf DEF CallOK, LocalsOK, Linking, PCs, AtCur, AtIp, AtLast, Creates
  <2> QED BY <2>1, <1>1, <1>2, <1>3, PointersOf DEF CallOK
<1>7. Apart(m) /\ LockOK(p)
  BY <1>1, <1>2, <1>3, PointersOf DEF Apart, LockOK, Locking, DataTypes, LockCur, LockIp
<1>8. RefOK(p)
  <2>2. /\ cwd'[p] = cwd[p] /\ opened'[p] = opened[p] /\ m.cur = None /\ m.ip = None
        /\ l.cur = d /\ l.ip = None /\ None \notin Inum
    BY <1>1, <1>2, <1>3, InodesAssumption
  <2>3. \A x \in Inum : itable[x].ref \in Nat /\ itable'[x].ref = itable[x].ref
    BY <1>4 DEF SameRefs
  <2>1. \A x \in Inum : Balanced(p, x, B(d = x))
    BY <2>2, <2>3 DEF Balanced, Named, B
  <2> QED BY <1>1, <1>3, <1>4, <2>1, RefOne DEF SameRefs
<1> QED BY <1>1, <1>2, <1>3, <1>4, <1>5, <1>6, <1>7, <1>8, PointerStep DEF d, UnlinkBadDone

UnlinkIpDone(p) ==
    LET l == c[p]
        m == c'[p]
        d == l.cur
        i == l.ip
        name == l.path[1]
        n == DpLinks(d, i)
    IN /\ l.pc = "unlink_ip" /\ l.puts = <<>> /\ d \in Inum /\ i \in Inum /\ l.put = "test"
       /\ d # i /\ CanLock(i)
       /\ n \in Int
       /\ Loaded(i).type = "dir" => isdirempty(i)
       /\ lock' = [lock EXCEPT ![d] = None, ![i] = p]
       /\ UNCHANGED <<cwd, opened>>
       /\ m.pc = "unlink_drop" /\ m.op = None /\ m.path = <<>>
       /\ m.cur = None /\ m.ip = i /\ m.new = None
       /\ m.puts = <<d>> /\ m.put = "test"
       /\ ReadBoth(i, Loaded(i).nlink, d, n) /\ SameRefs
       /\ RemovedFrom(d, name, n)
       /\ Alone(p) /\ RefOK(p) /\ PointerInv'

\* unlink() removes the entry and keeps ip locked.
LEMMA UnlinkIpStep ==
    ASSUME PointerInv, NEW p \in Proc, UnlinkIp(p), Loaded(c[p].ip).nlink >= 1
    PROVE  UnlinkIpDone(p)
<1> DEFINE l == c[p]
           m == c'[p]
           d == l.cur
           i == l.ip
           name == l.path[1]
           n == DpLinks(d, i)
<1>1. /\ l.cur = d /\ l.ip = i /\ l.path[1] = name
      /\ l.pc = "unlink_ip" /\ l.puts = <<>> /\ d \in Inum /\ i \in Inum /\ l.put = "test"
      /\ d # i /\ CanLock(i)
      /\ n \in Int
      /\ Loaded(i).type = "dir" => isdirempty(i)
  <2>1. /\ l.pc = "unlink_ip" /\ l.puts = <<>> /\ d \in Inum /\ i \in Inum /\ l.put = "test"
        /\ lock[i] = None /\ lock[d] = p
    <3>1. At(p, "unlink_ip") /\ CanLock(i)
      BY Zenon DEF UnlinkIp
    <3> QED BY <3>1, PointersOf
       DEF CanLock, Locking, LockCur, At, CallOK, LocalsOK, Linking, AtIp, AtCur, AtLast
  <2>3. /\ CanLock(i) /\ (Loaded(i).type = "dir" => isdirempty(i))
    BY Zenon DEF UnlinkIp
  <2>4. d # i
    BY <2>1, PointersOf
  <2>2. itable[d].nlink \in Int
    BY <2>1, PointersOf DEF DataTypes
  <2>5. n \in Int
    BY <2>2 DEF DpLinks
  <2> QED BY <2>1, <2>3, <2>4, <2>5
<1>2. /\ Only(p, [pc |-> "unlink_drop", ip |-> i, puts |-> <<d>>])
      /\ dinode' = [dinode EXCEPT ![d] = Without(@, name, n)]
      /\ itable' = [itable EXCEPT ![d].nlink = n, ![i] = Loaded(i)]
      /\ lock' = [lock EXCEPT ![d] = None, ![i] = p]
      /\ UNCHANGED <<cwd, opened>>
  <2>1. Loaded(i).nlink \in Int
    BY <1>1, PointersOf, LoadedIs
  <2>2. ~(Loaded(i).nlink < 1)
    BY <2>1
  <2> QED BY <2>2 DEF UnlinkIp
<1>3. /\ m.pc = "unlink_drop" /\ m.op = None /\ m.path = <<>>
      /\ m.cur = None /\ m.ip = i /\ m.new = None
      /\ m.puts = <<d>> /\ m.put = "test"
      /\ DOMAIN m = DOMAIN NoCall
      /\ Alone(p)
  <2>1. DOMAIN l = DOMAIN NoCall
    BY PointersOf DEF CallOK, LocalsOK
  <2>2. Alone(p)
    BY <1>2, PointersOf, OnlyAlone
  <2>3. m = Updated(NoCall, [pc |-> "unlink_drop", ip |-> i, puts |-> <<d>>])
    BY <1>2, PointersOf DEF Only
  <2> HIDE DEF d, i, name, n
  <2> QED BY <1>1, <2>1, <2>2, <2>3 DEF Updated, NoCall
<1> HIDE DEF d, i, name, n
<1>4. /\ ReadBoth(i, Loaded(i).nlink, d, n) /\ SameRefs
      /\ RemovedFrom(d, name, n)
  <2>0. DataTypes
    BY PointersOf
  <2> HIDE DEF l, m
  <2>1. ReadBoth(i, Loaded(i).nlink, d, n) /\ SameRefs
    BY <1>1, <1>2, <2>0, ReadBothIs, LoadedIs, ZenonT(60)
  <2>2. RemovedFrom(d, name, n)
    BY <1>1, <1>2, <2>0, RemoveIs
  <2> QED BY <2>1, <2>2
<1>5. DataTypes'
  BY <1>1, <1>2, <1>4, PointersOf, DataIs, TwoLocks DEF ReadBoth, RemovedFrom
<1>6. CallOK(p)'
  <2>1. LocalsOK(m)
    BY <1>1, <1>2, <1>3, PointersOf DEF CallOK, LocalsOK, Linking, PCs, AtCur, AtIp, AtLast, Creates
  <2> QED BY <2>1, <1>1, <1>2, <1>3, PointersOf DEF CallOK
<1>7. Apart(m) /\ LockOK(p)
  BY <1>1, <1>2, <1>3, PointersOf DEF Apart, LockOK, Locking, DataTypes, LockCur, LockIp, CanLock
<1>8. RefOK(p)
  <2>2. /\ cwd'[p] = cwd[p] /\ opened'[p] = opened[p] /\ m.cur = None /\ m.ip = i
        /\ l.cur = d /\ l.ip = i /\ None \notin Inum
    BY <1>1, <1>2, <1>3, InodesAssumption
  <2>3. \A x \in Inum : itable[x].ref \in Nat /\ itable'[x].ref = itable[x].ref
    BY <1>4 DEF SameRefs
  <2>1. \A x \in Inum : Balanced(p, x, B(d = x))
    BY <2>2, <2>3 DEF Balanced, Named, B
  <2> QED BY <1>1, <1>3, <1>4, <2>1, RefOne DEF SameRefs
<1> QED BY <1>1, <1>2, <1>3, <1>4, <1>5, <1>6, <1>7, <1>8, PointerStep DEF d, i, name, n, UnlinkIpDone

UnlinkDropDone(p) ==
    LET l == c[p]
        m == c'[p]
        i == l.ip
        n == itable[i].nlink - 1
    IN /\ l.pc = "unlink_drop" /\ l.puts = <<>> /\ i \in Inum /\ l.cur = None
       /\ n = itable[i].nlink - 1 /\ n \in Int
       /\ lock' = [lock EXCEPT ![i] = None]
       /\ UNCHANGED <<cwd, opened>>
       /\ m.pc = "idle" /\ m.op = None /\ m.path = <<>>
       /\ m.cur = None /\ m.ip = None /\ m.new = None
       /\ m.puts = <<i>> /\ m.put = "test"
       /\ ReadAs(i, n) /\ SameRefs
       /\ Recounted(i, n)
       /\ Alone(p) /\ RefOK(p) /\ PointerInv'

\* unlink() takes back the link.
LEMMA UnlinkDropStep ==
    ASSUME PointerInv, NEW p \in Proc, UnlinkDrop(p)
    PROVE  UnlinkDropDone(p)
<1> DEFINE l == c[p]
           m == c'[p]
           i == l.ip
           n == itable[i].nlink - 1
<1>1. /\ l.ip = i
      /\ l.pc = "unlink_drop" /\ l.puts = <<>> /\ i \in Inum /\ l.cur = None
      /\ n = itable[i].nlink - 1 /\ n \in Int
  <2>1. /\ l.pc = "unlink_drop" /\ l.puts = <<>> /\ i \in Inum /\ l.cur = None
    BY PointersOf DEF UnlinkDrop, At, CallOK, LocalsOK, Linking, AtIp, AtCur, AtLast
  <2>2. n \in Int
    BY <2>1, PointersOf DEF DataTypes
  <2> QED BY <2>1, <2>2
<1>2. /\ Only(p, [puts |-> <<i>>])
      /\ Iupdate(i, n)
      /\ itable' = [itable EXCEPT ![i] = [Loaded(i) EXCEPT !.nlink = n]]
      /\ lock' = [lock EXCEPT ![i] = None]
      /\ UNCHANGED <<cwd, opened>>
  BY <1>1 DEF UnlinkDrop, Returns, Linked
<1>3. /\ m.pc = "idle" /\ m.op = None /\ m.path = <<>>
      /\ m.cur = None /\ m.ip = None /\ m.new = None
      /\ m.puts = <<i>> /\ m.put = "test"
      /\ DOMAIN m = DOMAIN NoCall
      /\ Alone(p)
  <2>1. DOMAIN l = DOMAIN NoCall
    BY PointersOf DEF CallOK, LocalsOK
  <2>2. Alone(p)
    BY <1>2, PointersOf, OnlyAlone
  <2>3. m = Updated(NoCall, [puts |-> <<i>>])
    BY <1>2, PointersOf DEF Only
  <2> HIDE DEF i, n
  <2> QED BY <1>1, <2>1, <2>2, <2>3 DEF Updated, NoCall
<1> HIDE DEF i, n
<1>4. /\ ReadAs(i, n) /\ SameRefs
      /\ Recounted(i, n)
  <2>0. DataTypes
    BY PointersOf
  <2> HIDE DEF l, m
  <2>1. ReadAs(i, n) /\ SameRefs
    BY <1>1, <1>2, <2>0, ReadAsIs
  <2>2. Recounted(i, n)
    BY <1>1, <1>2, <2>0, IupdateIs
  <2> QED BY <2>1, <2>2
<1>5. DataTypes'
  BY <1>1, <1>2, <1>4, PointersOf, DataIs, LockType DEF ReadAs, Recounted
<1>6. CallOK(p)'
  <2>1. LocalsOK(m)
    BY <1>1, <1>2, <1>3, PointersOf DEF CallOK, LocalsOK, Linking, PCs, AtCur, AtIp, AtLast, Creates
  <2> QED BY <2>1, <1>1, <1>2, <1>3, PointersOf DEF CallOK
<1>7. Apart(m) /\ LockOK(p)
  BY <1>1, <1>2, <1>3, PointersOf DEF Apart, LockOK, Locking, DataTypes, LockCur, LockIp
<1>8. RefOK(p)
  <2>2. /\ cwd'[p] = cwd[p] /\ opened'[p] = opened[p] /\ m.cur = None /\ m.ip = None
        /\ l.cur = None /\ l.ip = i /\ None \notin Inum
    BY <1>1, <1>2, <1>3, InodesAssumption
  <2>3. \A x \in Inum : itable[x].ref \in Nat /\ itable'[x].ref = itable[x].ref
    BY <1>4 DEF SameRefs
  <2>1. \A x \in Inum : Balanced(p, x, B(i = x))
    BY <2>2, <2>3 DEF Balanced, Named, B
  <2> QED BY <1>1, <1>3, <1>4, <2>1, RefOne DEF SameRefs
<1> QED BY <1>1, <1>2, <1>3, <1>4, <1>5, <1>6, <1>7, <1>8, PointerStep DEF i, n, UnlinkDropDone


\* ialloc() finds the first free inode.
LEMMA FirstFree ==
    ASSUME FreeInums # {}
    PROVE  LET i == CHOOSE j \in FreeInums : \A k \in FreeInums : j <= k
           IN i \in Inum /\ dinode[i].type = "free"
<1> DEFINE R == OpToRel(<, Nat)
<1>1. FreeInums \in SUBSET Nat
  BY InodesAssumption DEF FreeInums
<1>2. \A x, y \in Nat : <<x, y>> \in R <=> x < y
  BY DEF OpToRel
<1>3. IsWellFoundedOn(R, Nat)
  BY NatLessThanWellFounded, Zenon
<1> HIDE DEF R
<1>4. PICK m \in FreeInums : \A k \in FreeInums : ~(<<k, m>> \in R)
  BY <1>1, <1>3, WFMin
<1>5. \A k \in FreeInums : m <= k
  <2>1. \A k \in FreeInums : m \in Nat /\ k \in Nat /\ ~(k < m)
    BY <1>1, <1>2, <1>4
  <2> QED BY <2>1
<1> QED BY <1>5 DEF FreeInums

\* The entry of an inode that create() allocates, and its entries when it fills
\* it in.
LEMMA AllocatedIs ==
    ASSUME NEW op \in Creates
    PROVE  /\ Allocated(op) \in Dinode
           /\ Allocated(op).type = NewType(op) /\ NewType(op) \in {"dir", "device", "file"}
           /\ NewType(op) = "dir" <=> op = "mkdir"
           /\ Allocated(op).nlink = 0 /\ Allocated(op).ents = <<>>
<1>1. NewType(op) \in {"dir", "device", "file"} /\ (NewType(op) = "dir" <=> op = "mkdir")
  BY DEF NewType, Creates
<1> QED BY <1>1, NoEnts DEF Allocated, Free, Dinode, Kinds

\* "." and ".." are entries of the new inode.
LEMMA WithDotsIs ==
    ASSUME NEW p, NEW k \in 0 .. 2, c[p].ip \in Inum, c[p].cur \in Inum,
           dinode[c[p].ip].ents \in Ents
    PROVE  WithDots(p, k) \in Ents
<1> DEFINE ents == dinode[c[p].ip].ents
           one == Entered(ents, ".", c[p].ip)
<1>1. "." \in Names /\ ".." \in Names
  BY DEF Names
<1>2. one \in Ents
  BY <1>1, EnteredType
<1>3. Entered(one, "..", c[p].cur) \in Ents
  BY <1>1, <1>2, EnteredType
<1> QED BY <1>2, <1>3 DEF WithDots

\* The new inode i has these entries and this count; an entry n for it is made in d.
Created(d, n, m, i, ents) ==
    /\ dinode' \in DinodeType
    /\ \A j \in Inum \ {d, i} : dinode'[j] = dinode[j]
    /\ dinode'[d].type = dinode[d].type /\ dinode'[d].nlink = m
    /\ dinode'[d].ents = Entered(dinode[d].ents, n, i)
    /\ dinode'[i].type = dinode[i].type /\ dinode'[i].nlink = 1 /\ dinode'[i].ents = ents

\* create() fills the new inode and enters it.
LEMMA CreatedIs ==
    ASSUME DataTypes, NEW d \in Inum, NEW i \in Inum, d # i, NEW n \in STRING, NEW m \in Int,
           NEW ents \in Ents,
           dinode' = [dinode EXCEPT ![i] = Filled(@, 1, ents), ![d] = With(@, n, i, m)]
    PROVE  Created(d, n, m, i, ents)
<1> DEFINE x == Entered(dinode[d].ents, n, i)
           e == Filled(dinode[i], 1, ents)
           f == With(dinode[d], n, i, m)
<1>1. dinode[d] \in Dinode /\ dinode[i] \in Dinode /\ dinode[d].ents \in Ents
  BY DEF DataTypes, Dinode
<1>2. x \in Ents
  BY <1>1, EnteredType DEF Names
<1>3. dinode' = [dinode EXCEPT ![i] = e, ![d] = f]
  OBVIOUS
<1> HIDE DEF x
<1>4. /\ e \in Dinode /\ e.type = dinode[i].type /\ e.nlink = 1 /\ e.ents = ents
      /\ f \in Dinode /\ f.type = dinode[d].type /\ f.nlink = m /\ f.ents = x
  <2>1. e \in Dinode /\ e.type = dinode[i].type /\ e.nlink = 1 /\ e.ents = ents
    BY <1>1, FilledIs
  <2>2. f \in Dinode /\ f.type = dinode[d].type /\ f.nlink = m /\ f.ents = x
    BY <1>1, <1>2, FilledIs DEF With, x
  <2> QED BY <2>1, <2>2
<1> HIDE DEF e, f
<1>5. /\ dinode' \in DinodeType /\ dinode'[i] = e /\ dinode'[d] = f
      /\ \A j \in Inum \ {i, d} : dinode'[j] = dinode[j]
  <2>1. dinode \in [Inum -> Dinode] /\ DinodeType = [Inum -> Dinode]
    BY DEF DataTypes, Dinode, DinodeType
  <2> QED BY <1>3, <1>4, <2>1
<1> QED BY <1>2, <1>4, <1>5 DEF Created, x

\* Only the entries and the link count of i change.
Rewritten(i, m, ents) ==
    /\ dinode' \in DinodeType
    /\ \A j \in Inum \ {i} : dinode'[j] = dinode[j]
    /\ dinode'[i].type = dinode[i].type /\ dinode'[i].nlink = m /\ dinode'[i].ents = ents

\* create() fills the new inode and fails.
LEMMA RewrittenIs ==
    ASSUME DataTypes, NEW i \in Inum, NEW m \in Int, NEW ents \in Ents,
           dinode' = [dinode EXCEPT ![i] = Filled(@, m, ents)]
    PROVE  Rewritten(i, m, ents)
<1> DEFINE e == Filled(dinode[i], m, ents)
<1>1. dinode[i] \in Dinode
  BY DEF DataTypes, Dinode
<1>2. dinode' = [dinode EXCEPT ![i] = e]
  OBVIOUS
<1>3. e \in Dinode /\ e.type = dinode[i].type /\ e.nlink = m /\ e.ents = ents
  BY <1>1, FilledIs
<1> HIDE DEF e
<1>4. /\ dinode' \in DinodeType /\ dinode'[i] = e
      /\ \A j \in Inum \ {i} : dinode'[j] = dinode[j]
  BY <1>2, <1>3, OneDinode
<1> QED BY <1>3, <1>4 DEF Rewritten

\* ilock(i), one link for i, and a new link count for d.
LEMMA ReadBothOne ==
    ASSUME DataTypes, NEW i \in Inum, NEW d \in Inum, i # d, NEW m \in Int,
           itable' = [itable EXCEPT ![i] = [Loaded(i) EXCEPT !.nlink = 1], ![d].nlink = m]
    PROVE  ReadBoth(i, 1, d, m) /\ SameRefs
<1> DEFINE e == [Loaded(i) EXCEPT !.nlink = 1]
<1>1. /\ e \in [ref : Nat, valid : BOOLEAN, type : Kinds, nlink : Int]
      /\ e.ref = itable[i].ref /\ e.valid /\ e.type = Loaded(i).type /\ e.nlink = 1
  BY LoadedIs
<1>2. itable' = [itable EXCEPT ![i] = e, ![d].nlink = m]
  OBVIOUS
<1> HIDE DEF e
<1>3. PICK n \in Int : n = 1
  OBVIOUS
<1>5. e.nlink = n
  BY <1>1, <1>3
<1>6. \/ itable' = [itable EXCEPT ![d].nlink = m, ![i] = e]
      \/ itable' = [itable EXCEPT ![i] = e, ![d].nlink = m]
  BY <1>2
<1>4. ReadBoth(i, n, d, m) /\ SameRefs
  <2>1. /\ e \in [ref : Nat, valid : BOOLEAN, type : Kinds, nlink : Int]
        /\ e.ref = itable[i].ref /\ e.valid /\ e.type = Loaded(i).type
    BY <1>1
  <2>2. i # d
    OBVIOUS
  <2> QED BY <2>1, <2>2, <1>3, <1>5, <1>6, ReadBothIs
<1> QED BY <1>3, <1>4

\* The calls of create() are calls.
LEMMA CreatesOps == Creates \subseteq Ops
  BY DEF Creates, Ops

CreateExistsDone(p) ==
    LET l == c[p]
        m == c'[p]
        d == l.cur
        n == l.path[1]
        i == dinode[d].ents[n]
    IN /\ l.pc = "create_dp" /\ l.puts = <<>> /\ d \in Inum /\ l.ip = None /\ l.put = "test"
       /\ CanLock(d) /\ n \in STRING /\ l.op \in Creates
       /\ n \in DOMAIN dinode[d].ents /\ i \in Inum
       /\ lock' = [lock EXCEPT ![d] = None]
       /\ UNCHANGED <<dinode, cwd, opened>>
       /\ m.pc = "create_found" /\ m.op = l.op /\ m.path = <<>>
       /\ m.cur = None /\ m.ip = i /\ m.new = None
       /\ m.puts = <<d>> /\ m.put = "test"
       /\ Read(d) /\ Refers(i)
       /\ Alone(p) /\ RefOK(p) /\ PointerInv'

\* create() finds the name: it refers to what it names and lets go of dp.
LEMMA CreateExistsStep ==
    ASSUME PointerInv, NEW p \in Proc, CreateExists(p),
           ~IgetPanics(dinode[c[p].cur].ents[c[p].path[1]])
    PROVE  CreateExistsDone(p)
<1> DEFINE l == c[p]
           m == c'[p]
           d == l.cur
           n == l.path[1]
           i == dinode[d].ents[n]
<1>1. /\ l.cur = d /\ l.path[1] = n
      /\ l.pc = "create_dp" /\ l.puts = <<>> /\ d \in Inum /\ l.ip = None /\ l.put = "test"
      /\ CanLock(d) /\ n \in STRING /\ l.op \in Creates
      /\ n \in DOMAIN dinode[d].ents /\ i \in Inum
  <2>1. At(p, "create_dp") /\ CanLock(d) /\ n \in DOMAIN dinode[d].ents
    BY Zenon DEF CreateExists
  <2>2. l.pc = "create_dp" /\ l.puts = <<>> /\ d \in Inum /\ l.ip = None /\ l.put = "test"
        /\ CanLock(d) /\ n \in STRING /\ l.op \in Creates
    BY <2>1, PointersOf DEF At, CallOK, LocalsOK, Linking, AtIp, AtCur, AtLast
  <2>3. i \in Inum
    BY <2>1, <2>2, PointersOf, EntsHave DEF DataTypes
  <2> QED BY <2>1, <2>2, <2>3
<1>2. /\ Only(p, [pc |-> "create_found", op |-> l.op, ip |-> i, puts |-> <<d>>])
      /\ itable' = [itable EXCEPT ![d] = Loaded(d), ![i].ref = @ + 1]
      /\ lock' = [lock EXCEPT ![d] = None]
      /\ UNCHANGED <<dinode, cwd, opened>>
  BY <1>1, Zenon DEF CreateExists, DpLock
<1>3. /\ m.pc = "create_found" /\ m.op = l.op /\ m.path = <<>>
      /\ m.cur = None /\ m.ip = i /\ m.new = None
      /\ m.puts = <<d>> /\ m.put = "test"
      /\ DOMAIN m = DOMAIN NoCall
      /\ Alone(p)
  <2>1. DOMAIN l = DOMAIN NoCall
    BY PointersOf DEF CallOK, LocalsOK
  <2>2. Alone(p)
    BY <1>2, PointersOf, OnlyAlone, Zenon
  <2>3. m = Updated(NoCall, [pc |-> "create_found", op |-> l.op, ip |-> i, puts |-> <<d>>])
    BY <1>2, PointersOf, Zenon DEF Only
  <2> HIDE DEF d, n, i
  <2> QED BY <1>1, <2>1, <2>2, <2>3 DEF Updated, NoCall
<1> HIDE DEF d, n, i
<1>4. /\ Read(d) /\ Refers(i)
  BY <1>1, <1>2, PointersOf, ReadTake
<1>5. DataTypes'
  BY <1>1, <1>2, <1>4, PointersOf, DataIs, DiskSame, LockType DEF Read, ReadAs
<1>6. CallOK(p)'
  <2>1. LocalsOK(m)
    BY <1>1, <1>2, <1>3, PointersOf, CreatesOps
       DEF CallOK, LocalsOK, Linking, PCs, AtCur, AtIp, AtLast, Creates
  <2> QED BY <2>1, <1>1, <1>2, <1>3, PointersOf DEF CallOK
<1>7. Apart(m) /\ LockOK(p)
  BY <1>1, <1>2, <1>3, PointersOf DEF Apart, LockOK, Locking, DataTypes, LockCur, LockIp, CanLock
<1>8. RefOK(p)
  <2>2. /\ cwd'[p] = cwd[p] /\ opened'[p] = opened[p] /\ m.cur = None /\ m.ip = i
        /\ l.cur = d /\ l.ip = None /\ None \notin Inum
    BY <1>1, <1>2, <1>3, InodesAssumption
  <2>3. \A x \in Inum : itable[x].ref \in Nat /\ itable'[x].ref = itable[x].ref + B(x = i)
    BY <1>4 DEF Refers
  <2>1. \A x \in Inum : Balanced(p, x, B(d = x))
    BY <2>2, <2>3 DEF Balanced, Named, B
  <2> QED BY <1>1, <1>3, <1>4, <2>1, RefOne DEF Refers
<1> QED BY <1>1, <1>2, <1>3, <1>4, <1>5, <1>6, <1>7, <1>8, PointerStep, Zenon
   DEF d, n, i, CreateExistsDone

CreateOpenDone(p) ==
    LET l == c[p]
        m == c'[p]
        i == l.ip
    IN /\ l.pc = "create_found" /\ l.puts = <<>> /\ i \in Inum /\ l.cur = None
       /\ CanLock(i)
       /\ lock' = [lock EXCEPT ![i] = p]
       /\ UNCHANGED <<dinode, cwd, opened>>
       /\ m.pc = "open_file" /\ m.op = None /\ m.path = <<>>
       /\ m.cur = None /\ m.ip = i /\ m.new = None
       /\ m.puts = <<>> /\ m.put = "test"
       /\ Read(i) /\ SameRefs
       /\ Alone(p) /\ RefOK(p) /\ PointerInv'

\* create() returns the file that exists, ...
LEMMA CreateOpenStep ==
    ASSUME PointerInv, NEW p \in Proc, CreateFound(p),
           c[p].op = "creat" /\ Loaded(c[p].ip).type \in {"file", "device"}
    PROVE  CreateOpenDone(p)
<1> DEFINE l == c[p]
           m == c'[p]
           i == l.ip
<1>1. /\ l.ip = i
      /\ l.pc = "create_found" /\ l.puts = <<>> /\ i \in Inum /\ l.cur = None
      /\ CanLock(i)
  BY PointersOf DEF CreateFound, At, CallOK, LocalsOK, Linking, AtIp, AtCur, AtLast
<1>2. /\ Only(p, [pc |-> "open_file", ip |-> i])
      /\ itable' = [itable EXCEPT ![i] = Loaded(i)]
      /\ lock' = [lock EXCEPT ![i] = p]
      /\ UNCHANGED <<dinode, cwd, opened>>
  BY <1>1 DEF CreateFound
<1>3. /\ m.pc = "open_file" /\ m.op = None /\ m.path = <<>>
      /\ m.cur = None /\ m.ip = i /\ m.new = None
      /\ m.puts = <<>> /\ m.put = "test"
      /\ DOMAIN m = DOMAIN NoCall
      /\ Alone(p)
  <2>1. DOMAIN l = DOMAIN NoCall
    BY PointersOf DEF CallOK, LocalsOK
  <2>2. Alone(p)
    BY <1>2, PointersOf, OnlyAlone
  <2>3. m = Updated(NoCall, [pc |-> "open_file", ip |-> i])
    BY <1>2, PointersOf DEF Only
  <2> HIDE DEF i
  <2> QED BY <1>1, <2>1, <2>2, <2>3 DEF Updated, NoCall
<1> HIDE DEF i
<1>4. /\ Read(i) /\ SameRefs
  BY <1>1, <1>2, PointersOf, ReadIs
<1>5. DataTypes'
  BY <1>1, <1>2, <1>4, PointersOf, DataIs, DiskSame, LockType DEF Read, ReadAs
<1>6. CallOK(p)'
  <2>1. LocalsOK(m)
    BY <1>1, <1>2, <1>3, PointersOf DEF CallOK, LocalsOK, Linking, PCs, AtCur, AtIp, AtLast, Creates
  <2> QED BY <2>1, <1>1, <1>2, <1>3, PointersOf DEF CallOK
<1>7. Apart(m) /\ LockOK(p)
  BY <1>1, <1>2, <1>3, PointersOf DEF Apart, LockOK, Locking, DataTypes, LockCur, LockIp, CanLock
<1>8. RefOK(p)
  <2>2. /\ cwd'[p] = cwd[p] /\ opened'[p] = opened[p] /\ m.cur = None /\ m.ip = i
        /\ l.cur = None /\ l.ip = i /\ None \notin Inum
    BY <1>1, <1>2, <1>3, InodesAssumption
  <2>3. \A x \in Inum : itable[x].ref \in Nat /\ itable'[x].ref = itable[x].ref
    BY <1>4 DEF SameRefs
  <2>1. \A x \in Inum : Balanced(p, x, 0)
    BY <2>2, <2>3 DEF Balanced, Named, B
  <2> QED BY <1>1, <1>3, <1>4, <2>1, RefNone DEF SameRefs
<1> QED BY <1>1, <1>2, <1>3, <1>4, <1>5, <1>6, <1>7, <1>8, PointerStep DEF i, CreateOpenDone

CreateFoundDone(p) ==
    LET l == c[p]
        m == c'[p]
        i == l.ip
    IN /\ l.pc = "create_found" /\ l.puts = <<>> /\ i \in Inum /\ l.cur = None
       /\ CanLock(i)
       /\ UNCHANGED <<dinode, lock, cwd, opened>>
       /\ m.pc = "idle" /\ m.op = None /\ m.path = <<>>
       /\ m.cur = None /\ m.ip = None /\ m.new = None
       /\ m.puts = <<i>> /\ m.put = "test"
       /\ Read(i) /\ SameRefs
       /\ Alone(p) /\ RefOK(p) /\ PointerInv'

\* ... or refuses it.
LEMMA CreateFoundStep ==
    ASSUME PointerInv, NEW p \in Proc, CreateFound(p),
           ~(c[p].op = "creat" /\ Loaded(c[p].ip).type \in {"file", "device"})
    PROVE  CreateFoundDone(p)
<1> DEFINE l == c[p]
           m == c'[p]
           i == l.ip
<1>1. /\ l.ip = i
      /\ l.pc = "create_found" /\ l.puts = <<>> /\ i \in Inum /\ l.cur = None
      /\ CanLock(i)
  BY PointersOf DEF CreateFound, At, CallOK, LocalsOK, Linking, AtIp, AtCur, AtLast
<1>2. /\ Only(p, [puts |-> <<i>>])
      /\ itable' = [itable EXCEPT ![i] = Loaded(i)]
      /\ UNCHANGED <<dinode, lock, cwd, opened>>
  BY <1>1 DEF CreateFound, Returns
<1>3. /\ m.pc = "idle" /\ m.op = None /\ m.path = <<>>
      /\ m.cur = None /\ m.ip = None /\ m.new = None
      /\ m.puts = <<i>> /\ m.put = "test"
      /\ DOMAIN m = DOMAIN NoCall
      /\ Alone(p)
  <2>1. DOMAIN l = DOMAIN NoCall
    BY PointersOf DEF CallOK, LocalsOK
  <2>2. Alone(p)
    BY <1>2, PointersOf, OnlyAlone
  <2>3. m = Updated(NoCall, [puts |-> <<i>>])
    BY <1>2, PointersOf DEF Only
  <2> HIDE DEF i
  <2> QED BY <1>1, <2>1, <2>2, <2>3 DEF Updated, NoCall
<1> HIDE DEF i
<1>4. /\ Read(i) /\ SameRefs
  BY <1>1, <1>2, PointersOf, ReadIs
<1>5. DataTypes'
  BY <1>2, <1>4, PointersOf, DataSame DEF Read
<1>6. CallOK(p)'
  <2>1. LocalsOK(m)
    BY <1>1, <1>2, <1>3, PointersOf DEF CallOK, LocalsOK, Linking, PCs, AtCur, AtIp, AtLast, Creates
  <2> QED BY <2>1, <1>1, <1>2, <1>3, PointersOf DEF CallOK
<1>7. Apart(m) /\ LockOK(p)
  BY <1>1, <1>2, <1>3, LocksStay DEF Unlocked, LockCur, LockIp
<1>8. RefOK(p)
  <2>2. /\ cwd'[p] = cwd[p] /\ opened'[p] = opened[p] /\ m.cur = None /\ m.ip = None
        /\ l.cur = None /\ l.ip = i /\ None \notin Inum
    BY <1>1, <1>2, <1>3, InodesAssumption
  <2>3. \A x \in Inum : itable[x].ref \in Nat /\ itable'[x].ref = itable[x].ref
    BY <1>4 DEF SameRefs
  <2>1. \A x \in Inum : Balanced(p, x, B(i = x))
    BY <2>2, <2>3 DEF Balanced, Named, B
  <2> QED BY <1>1, <1>3, <1>4, <2>1, RefOne DEF SameRefs
<1> QED BY <1>1, <1>2, <1>3, <1>4, <1>5, <1>6, <1>7, <1>8, PointerStep DEF i, CreateFoundDone

CreateNoneDone(p) ==
    LET l == c[p]
        m == c'[p]
        d == l.cur
    IN /\ l.pc = "create_dp" /\ l.puts = <<>> /\ d \in Inum /\ l.ip = None
       /\ CanLock(d)
       /\ UNCHANGED <<dinode, lock, cwd, opened>>
       /\ m.pc = "idle" /\ m.op = None /\ m.path = <<>>
       /\ m.cur = None /\ m.ip = None /\ m.new = None
       /\ m.puts = <<d>> /\ m.put = "test"
       /\ Read(d) /\ SameRefs
       /\ Alone(p) /\ RefOK(p) /\ PointerInv'

\* ialloc() finds no inode, ...
LEMMA CreateNoneStep ==
    ASSUME PointerInv, NEW p \in Proc, CreateAlloc(p), FreeInums = {}
    PROVE  CreateNoneDone(p)
<1> DEFINE l == c[p]
           m == c'[p]
           d == l.cur
<1>1. /\ l.cur = d
      /\ l.pc = "create_dp" /\ l.puts = <<>> /\ d \in Inum /\ l.ip = None
      /\ CanLock(d)
  BY PointersOf DEF CreateAlloc, At, CallOK, LocalsOK, Linking, AtIp, AtCur, AtLast
<1>2. /\ Only(p, [puts |-> <<d>>])
      /\ itable' = [itable EXCEPT ![d] = Loaded(d)]
      /\ UNCHANGED <<dinode, lock, cwd, opened>>
  BY <1>1 DEF CreateAlloc, Returns
<1>3. /\ m.pc = "idle" /\ m.op = None /\ m.path = <<>>
      /\ m.cur = None /\ m.ip = None /\ m.new = None
      /\ m.puts = <<d>> /\ m.put = "test"
      /\ DOMAIN m = DOMAIN NoCall
      /\ Alone(p)
  <2>1. DOMAIN l = DOMAIN NoCall
    BY PointersOf DEF CallOK, LocalsOK
  <2>2. Alone(p)
    BY <1>2, PointersOf, OnlyAlone
  <2>3. m = Updated(NoCall, [puts |-> <<d>>])
    BY <1>2, PointersOf DEF Only
  <2> HIDE DEF d
  <2> QED BY <1>1, <2>1, <2>2, <2>3 DEF Updated, NoCall
<1> HIDE DEF d
<1>4. /\ Read(d) /\ SameRefs
  BY <1>1, <1>2, PointersOf, ReadIs
<1>5. DataTypes'
  BY <1>2, <1>4, PointersOf, DataSame DEF Read
<1>6. CallOK(p)'
  <2>1. LocalsOK(m)
    BY <1>1, <1>2, <1>3, PointersOf DEF CallOK, LocalsOK, Linking, PCs, AtCur, AtIp, AtLast, Creates
  <2> QED BY <2>1, <1>1, <1>2, <1>3, PointersOf DEF CallOK
<1>7. Apart(m) /\ LockOK(p)
  BY <1>1, <1>2, <1>3, LocksStay DEF Unlocked, LockCur, LockIp
<1>8. RefOK(p)
  <2>2. /\ cwd'[p] = cwd[p] /\ opened'[p] = opened[p] /\ m.cur = None /\ m.ip = None
        /\ l.cur = d /\ l.ip = None /\ None \notin Inum
    BY <1>1, <1>2, <1>3, InodesAssumption
  <2>3. \A x \in Inum : itable[x].ref \in Nat /\ itable'[x].ref = itable[x].ref
    BY <1>4 DEF SameRefs
  <2>1. \A x \in Inum : Balanced(p, x, B(d = x))
    BY <2>2, <2>3 DEF Balanced, Named, B
  <2> QED BY <1>1, <1>3, <1>4, <2>1, RefOne DEF SameRefs
<1> QED BY <1>1, <1>2, <1>3, <1>4, <1>5, <1>6, <1>7, <1>8, PointerStep DEF d, CreateNoneDone

CreateAllocDone(p) ==
    LET l == c[p]
        m == c'[p]
        d == l.cur
        n == l.path[1]
        i == CHOOSE j \in FreeInums : \A k \in FreeInums : j <= k
        e == Allocated(l.op)
    IN /\ l.pc = "create_dp" /\ l.puts = <<>> /\ d \in Inum /\ l.ip = None /\ l.put = "test"
       /\ CanLock(d) /\ n \in STRING /\ l.op \in Creates
       /\ n \notin DOMAIN dinode[d].ents
       /\ i \in Inum /\ dinode[i].type = "free" /\ e \in Dinode
       /\ lock' = [lock EXCEPT ![d] = p]
       /\ UNCHANGED <<cwd, opened>>
       /\ m.pc = "create_new" /\ m.op = l.op /\ m.path = l.path
       /\ m.cur = l.cur /\ m.ip = i /\ m.new = l.new
       /\ m.puts = l.puts /\ m.put = l.put
       /\ Read(d) /\ Refers(i)
       /\ dinode' \in DinodeType /\ dinode'[i] = e /\ \A j \in Inum \ {i} : dinode'[j] = dinode[j]
       /\ Alone(p) /\ RefOK(p) /\ PointerInv'

\* ... or one, which create() refers to.
LEMMA CreateAllocStep ==
    ASSUME PointerInv, NEW p \in Proc, CreateAlloc(p), FreeInums # {},
           ~IgetPanics(CHOOSE j \in FreeInums : \A k \in FreeInums : j <= k)
    PROVE  CreateAllocDone(p)
<1> DEFINE l == c[p]
           m == c'[p]
           d == l.cur
           n == l.path[1]
           i == CHOOSE j \in FreeInums : \A k \in FreeInums : j <= k
           e == Allocated(l.op)
<1>1. /\ l.cur = d /\ l.path[1] = n
      /\ l.pc = "create_dp" /\ l.puts = <<>> /\ d \in Inum /\ l.ip = None /\ l.put = "test"
      /\ CanLock(d) /\ n \in STRING /\ l.op \in Creates
      /\ n \notin DOMAIN dinode[d].ents
      /\ i \in Inum /\ dinode[i].type = "free" /\ e \in Dinode
  BY PointersOf, FirstFree, AllocatedIs
     DEF CreateAlloc, At, CallOK, LocalsOK, Linking, AtIp, AtCur, AtLast
<1>2. /\ Locals(p, [pc |-> "create_new", ip |-> i])
      /\ dinode' = [dinode EXCEPT ![i] = e]
      /\ itable' = [itable EXCEPT ![d] = Loaded(d), ![i].ref = @ + 1]
      /\ lock' = [lock EXCEPT ![d] = p]
      /\ UNCHANGED <<cwd, opened>>
  BY <1>1 DEF CreateAlloc
<1>3. /\ m.pc = "create_new" /\ m.op = l.op /\ m.path = l.path
      /\ m.cur = l.cur /\ m.ip = i /\ m.new = l.new
      /\ m.puts = l.puts /\ m.put = l.put
      /\ DOMAIN m = DOMAIN NoCall
      /\ Alone(p)
  <2>1. DOMAIN l = DOMAIN NoCall
    BY PointersOf DEF CallOK, LocalsOK
  <2>2. Alone(p)
    BY <1>2, PointersOf, LocalsAlone
  <2>3. m = Updated(l, [pc |-> "create_new", ip |-> i])
    BY <1>2, PointersOf DEF Locals
  <2> HIDE DEF d, n, i, e
  <2> QED BY <1>1, <2>1, <2>2, <2>3 DEF Updated, NoCall
<1> HIDE DEF d, n, i, e
<1>4. /\ Read(d) /\ Refers(i)
      /\ dinode' \in DinodeType /\ dinode'[i] = e /\ \A j \in Inum \ {i} : dinode'[j] = dinode[j]
  <2>0. DataTypes
    BY PointersOf
  <2> HIDE DEF l, m
  <2>1. Read(d) /\ Refers(i)
    BY <1>1, <1>2, <2>0, ReadTake
  <2>2. dinode' \in DinodeType /\ dinode'[i] = e /\ \A j \in Inum \ {i} : dinode'[j] = dinode[j]
    BY <1>1, <1>2, <2>0, OneDinode
  <2> QED BY <2>1, <2>2
<1>5. DataTypes'
  BY <1>1, <1>2, <1>4, PointersOf, DataIs, LockType DEF Read, ReadAs
<1>6. CallOK(p)'
  <2>1. LocalsOK(m)
    BY <1>1, <1>2, <1>3, PointersOf DEF CallOK, LocalsOK, Linking, PCs, AtCur, AtIp, AtLast, Creates
  <2> QED BY <2>1, <1>1, <1>2, <1>3, PointersOf DEF CallOK
<1>7. Apart(m) /\ LockOK(p)
  BY <1>1, <1>2, <1>3, PointersOf DEF Apart, LockOK, Locking, DataTypes, LockCur, LockIp, CanLock
<1>8. RefOK(p)
  <2>2. /\ cwd'[p] = cwd[p] /\ opened'[p] = opened[p] /\ m.cur = d /\ m.ip = i
        /\ l.cur = d /\ l.ip = None /\ None \notin Inum
    BY <1>1, <1>2, <1>3, InodesAssumption
  <2>3. \A x \in Inum : itable[x].ref \in Nat /\ itable'[x].ref = itable[x].ref + B(x = i)
    BY <1>4 DEF Refers
  <2>1. \A x \in Inum : Balanced(p, x, 0)
    BY <2>2, <2>3, SMTT(30) DEF Balanced, Named, B
  <2> QED BY <1>1, <1>3, <1>4, <2>1, RefNone DEF Refers
<1> QED BY <1>1, <1>2, <1>3, <1>4, <1>5, <1>6, <1>7, <1>8, PointerStep DEF d, n, i, e, CreateAllocDone

CreateNewDone(p) ==
    LET l == c[p]
        m == c'[p]
        d == l.cur
        n == l.path[1]
        i == l.ip
        w == WithDots(p, 2)
        k == IF l.op = "mkdir" THEN itable[d].nlink + 1 ELSE itable[d].nlink
        pc == IF l.op = "creat" THEN "open_file" ELSE "create_put"
    IN /\ l.pc = "create_new" /\ l.puts = <<>> /\ d \in Inum /\ i \in Inum /\ d # i
       /\ CanLock(i) /\ n \in STRING /\ l.op \in Creates
       /\ w \in Ents /\ k \in Int
       /\ pc \in {"open_file", "create_put"}
       /\ lock' = [lock EXCEPT ![i] = p, ![d] = None]
       /\ UNCHANGED <<cwd, opened>>
       /\ m.pc = pc /\ m.op = None /\ m.path = <<>>
       /\ m.cur = None /\ m.ip = i /\ m.new = None
       /\ m.puts = <<d>> /\ m.put = "test"
       /\ ReadBoth(i, 1, d, k) /\ SameRefs
       /\ Created(d, n, k, i, w)
       /\ Alone(p) /\ RefOK(p) /\ PointerInv'

\* create() enters the new inode and returns it locked.
LEMMA CreateNewStep ==
    ASSUME PointerInv, NEW p \in Proc, CreateNew(p)
    PROVE  CreateNewDone(p)
<1> DEFINE l == c[p]
           m == c'[p]
           d == l.cur
           n == l.path[1]
           i == l.ip
           w == WithDots(p, 2)
           k == IF l.op = "mkdir" THEN itable[d].nlink + 1 ELSE itable[d].nlink
           pc == IF l.op = "creat" THEN "open_file" ELSE "create_put"
<1>1. /\ l.cur = d /\ l.path[1] = n /\ l.ip = i
      /\ l.pc = "create_new" /\ l.puts = <<>> /\ d \in Inum /\ i \in Inum /\ d # i
      /\ CanLock(i) /\ n \in STRING /\ l.op \in Creates
      /\ w \in Ents /\ k \in Int
      /\ pc \in {"open_file", "create_put"}
  <2>1. l.pc = "create_new" /\ l.puts = <<>> /\ d \in Inum /\ i \in Inum /\ d # i
        /\ CanLock(i) /\ n \in STRING /\ l.op \in Creates
    <3>1. At(p, "create_new") /\ CanLock(i)
      BY DEF CreateNew
    <3> QED BY <3>1, PointersOf
       DEF CanLock, Locking, LockCur, At, CallOK, LocalsOK, Linking, AtIp, AtCur, AtLast
  <2>2. itable[d].nlink \in Int /\ dinode[i].ents \in Ents
    BY <2>1, PointersOf DEF DataTypes
  <2>3. w \in Ents
    BY <2>1, <2>2, WithDotsIs
  <2> QED BY <2>1, <2>2, <2>3
<1>2. /\ Only(p, [pc |-> pc, ip |-> i, puts |-> <<d>>])
      /\ dinode' = [dinode EXCEPT ![i] = Filled(@, 1, w), ![d] = With(@, n, i, k)]
      /\ itable' = [itable EXCEPT ![i] = [Loaded(i) EXCEPT !.nlink = 1], ![d].nlink = k]
      /\ lock' = [lock EXCEPT ![i] = p, ![d] = None]
      /\ UNCHANGED <<cwd, opened>>
  BY <1>1 DEF CreateNew
<1>3. /\ m.pc = pc /\ m.op = None /\ m.path = <<>>
      /\ m.cur = None /\ m.ip = i /\ m.new = None
      /\ m.puts = <<d>> /\ m.put = "test"
      /\ DOMAIN m = DOMAIN NoCall
      /\ Alone(p)
  <2>1. DOMAIN l = DOMAIN NoCall
    BY PointersOf DEF CallOK, LocalsOK
  <2>2. Alone(p)
    BY <1>2, PointersOf, OnlyAlone
  <2>3. m = Updated(NoCall, [pc |-> pc, ip |-> i, puts |-> <<d>>])
    BY <1>2, PointersOf DEF Only
  <2> HIDE DEF d, n, i, w, k, pc
  <2> QED BY <1>1, <2>1, <2>2, <2>3 DEF Updated, NoCall
<1> HIDE DEF d, n, i, w, k, pc
<1>4. /\ ReadBoth(i, 1, d, k) /\ SameRefs
      /\ Created(d, n, k, i, w)
  <2>0. DataTypes
    BY PointersOf
  <2> HIDE DEF l, m
  <2>1. ReadBoth(i, 1, d, k) /\ SameRefs
    BY <1>1, <1>2, <2>0, ReadBothOne
  <2>2. Created(d, n, k, i, w)
    BY <1>1, <1>2, <2>0, CreatedIs
  <2> QED BY <2>1, <2>2
<1>5. DataTypes'
  BY <1>1, <1>2, <1>4, PointersOf, DataIs, TwoLocks DEF ReadBoth, Created
<1>6. CallOK(p)'
  <2>1. LocalsOK(m)
    BY <1>1, <1>2, <1>3, PointersOf DEF CallOK, LocalsOK, Linking, PCs, AtCur, AtIp, AtLast, Creates
  <2> QED BY <2>1, <1>1, <1>2, <1>3, PointersOf DEF CallOK
<1>7. Apart(m) /\ LockOK(p)
  BY <1>1, <1>2, <1>3, PointersOf DEF Apart, LockOK, Locking, DataTypes, LockCur, LockIp, CanLock
<1>8. RefOK(p)
  <2>2. /\ cwd'[p] = cwd[p] /\ opened'[p] = opened[p] /\ m.cur = None /\ m.ip = i
        /\ l.cur = d /\ l.ip = i /\ None \notin Inum
    BY <1>1, <1>2, <1>3, InodesAssumption
  <2>3. \A x \in Inum : itable[x].ref \in Nat /\ itable'[x].ref = itable[x].ref
    BY <1>4 DEF SameRefs
  <2>1. \A x \in Inum : Balanced(p, x, B(d = x))
    BY <2>2, <2>3 DEF Balanced, Named, B
  <2> QED BY <1>1, <1>3, <1>4, <2>1, RefOne DEF SameRefs
<1> QED BY <1>1, <1>2, <1>3, <1>4, <1>5, <1>6, <1>7, <1>8, PointerStep
   DEF d, n, i, w, k, pc, CreateNewDone

CreateFailsDone(p) ==
    LET l == c[p]
        m == c'[p]
        d == l.cur
        i == l.ip
    IN /\ l.pc = "create_new" /\ l.puts = <<>> /\ d \in Inum /\ i \in Inum /\ d # i
       /\ CanLock(i)
       /\ UNCHANGED <<lock, cwd, opened>>
       /\ m.pc = "unlink_bad" /\ m.op = None /\ m.path = <<>>
       /\ m.cur = d /\ m.ip = None /\ m.new = None
       /\ m.puts = <<i>> /\ m.put = "test"
       /\ ReadAs(i, 0) /\ SameRefs
       /\ \E k \in 0 .. 2 : Rewritten(i, 0, WithDots(p, k))
       /\ Alone(p) /\ RefOK(p) /\ PointerInv'

\* create() finds no block and gives the new inode up.
LEMMA CreateFailsStep ==
    ASSUME PointerInv, NEW p \in Proc, CreateFails(p)
    PROVE  CreateFailsDone(p)
<1> DEFINE l == c[p]
           m == c'[p]
           d == l.cur
           i == l.ip
<1>1. /\ l.cur = d /\ l.ip = i
      /\ l.pc = "create_new" /\ l.puts = <<>> /\ d \in Inum /\ i \in Inum /\ d # i
      /\ CanLock(i)
  <2>1. At(p, "create_new") /\ CanLock(i)
    BY DEF CreateFails
  <2> QED BY <2>1, PointersOf
     DEF CanLock, Locking, LockCur, At, CallOK, LocalsOK, Linking, AtIp, AtCur, AtLast
<1>2. /\ Only(p, [pc |-> "unlink_bad", cur |-> d, puts |-> <<i>>])
      /\ \E k \in 0 .. 2 : dinode' = [dinode EXCEPT ![i] = Filled(@, 0, WithDots(p, k))]
      /\ itable' = [itable EXCEPT ![i] = [Loaded(i) EXCEPT !.nlink = 0]]
      /\ UNCHANGED <<lock, cwd, opened>>
  BY <1>1 DEF CreateFails, Linked
<1>3. /\ m.pc = "unlink_bad" /\ m.op = None /\ m.path = <<>>
      /\ m.cur = d /\ m.ip = None /\ m.new = None
      /\ m.puts = <<i>> /\ m.put = "test"
      /\ DOMAIN m = DOMAIN NoCall
      /\ Alone(p)
  <2>1. DOMAIN l = DOMAIN NoCall
    BY PointersOf DEF CallOK, LocalsOK
  <2>2. Alone(p)
    BY <1>2, PointersOf, OnlyAlone
  <2>3. m = Updated(NoCall, [pc |-> "unlink_bad", cur |-> d, puts |-> <<i>>])
    BY <1>2, PointersOf DEF Only
  <2> HIDE DEF d, i
  <2> QED BY <1>1, <2>1, <2>2, <2>3 DEF Updated, NoCall
<1> HIDE DEF d, i
<1>4. /\ ReadAs(i, 0) /\ SameRefs
      /\ \E k \in 0 .. 2 : Rewritten(i, 0, WithDots(p, k))
  <2>0. DataTypes
    BY PointersOf
  <2> HIDE DEF l, m
  <2>1. ReadAs(i, 0) /\ SameRefs
    <3>1. PICK n \in Int : n = 0
      OBVIOUS
    <3>2. itable' = [itable EXCEPT ![i] = [Loaded(i) EXCEPT !.nlink = n]]
      BY <1>2, <3>1
    <3>3. ReadAs(i, n) /\ SameRefs
      BY <1>1, <2>0, <3>2, ReadAsIs
    <3> QED BY <3>1, <3>3
  <2>2. \E k \in 0 .. 2 : Rewritten(i, 0, WithDots(p, k))
    <3>1. PICK k \in 0 .. 2 : dinode' = [dinode EXCEPT ![i] = Filled(@, 0, WithDots(p, k))]
      BY <1>2
    <3>2. WithDots(p, k) \in Ents
      BY <1>1, <2>0, WithDotsIs DEF DataTypes, l
    <3>3. PICK n \in Int : n = 0
      OBVIOUS
    <3>4. Rewritten(i, n, WithDots(p, k))
      BY <1>1, <2>0, <3>1, <3>2, <3>3, RewrittenIs
    <3> QED BY <3>3, <3>4
  <2> QED BY <2>1, <2>2
<1>5. DataTypes'
  BY <1>2, <1>4, PointersOf, DataIs, DiskSame DEF ReadAs, Rewritten
<1>6. CallOK(p)'
  <2>1. LocalsOK(m)
    BY <1>1, <1>2, <1>3, PointersOf DEF CallOK, LocalsOK, Linking, PCs, AtCur, AtIp, AtLast, Creates
  <2> QED BY <2>1, <1>1, <1>2, <1>3, PointersOf DEF CallOK
<1>7. Apart(m) /\ LockOK(p)
  BY <1>1, <1>2, <1>3, PointersOf DEF Apart, LockOK, Locking, DataTypes, LockCur, LockIp, CanLock
<1>8. RefOK(p)
  <2>2. /\ cwd'[p] = cwd[p] /\ opened'[p] = opened[p] /\ m.cur = d /\ m.ip = None
        /\ l.cur = d /\ l.ip = i /\ None \notin Inum
    BY <1>1, <1>2, <1>3, InodesAssumption
  <2>3. \A x \in Inum : itable[x].ref \in Nat /\ itable'[x].ref = itable[x].ref
    BY <1>4 DEF SameRefs
  <2>1. \A x \in Inum : Balanced(p, x, B(i = x))
    BY <2>2, <2>3 DEF Balanced, Named, B
  <2> QED BY <1>1, <1>3, <1>4, <2>1, RefOne DEF SameRefs
<1> QED BY <1>1, <1>2, <1>3, <1>4, <1>5, <1>6, <1>7, <1>8, PointerStep DEF d, i, CreateFailsDone

CreatePutDone(p) ==
    LET l == c[p]
        m == c'[p]
        i == l.ip
    IN /\ l.pc = "create_put" /\ l.puts = <<>> /\ i \in Inum /\ l.cur = None
       /\ lock' = [lock EXCEPT ![i] = None]
       /\ UNCHANGED <<dinode, itable, cwd, opened>>
       /\ m.pc = "idle" /\ m.op = None /\ m.path = <<>>
       /\ m.cur = None /\ m.ip = None /\ m.new = None
       /\ m.puts = <<i>> /\ m.put = "test"
       /\ Unread /\ SameRefs
       /\ Alone(p) /\ RefOK(p) /\ PointerInv'

\* mkdir() and mknod() let go of what create() returned.
LEMMA CreatePutStep ==
    ASSUME PointerInv, NEW p \in Proc, CreatePut(p)
    PROVE  CreatePutDone(p)
<1> DEFINE l == c[p]
           m == c'[p]
           i == l.ip
<1>1. /\ l.ip = i
      /\ l.pc = "create_put" /\ l.puts = <<>> /\ i \in Inum /\ l.cur = None
  BY PointersOf DEF CreatePut, At, CallOK, LocalsOK, Linking, AtIp, AtCur, AtLast
<1>2. /\ Only(p, [puts |-> <<i>>])
      /\ lock' = [lock EXCEPT ![i] = None]
      /\ UNCHANGED <<dinode, itable, cwd, opened>>
  BY <1>1 DEF CreatePut, Returns
<1>3. /\ m.pc = "idle" /\ m.op = None /\ m.path = <<>>
      /\ m.cur = None /\ m.ip = None /\ m.new = None
      /\ m.puts = <<i>> /\ m.put = "test"
      /\ DOMAIN m = DOMAIN NoCall
      /\ Alone(p)
  <2>1. DOMAIN l = DOMAIN NoCall
    BY PointersOf DEF CallOK, LocalsOK
  <2>2. Alone(p)
    BY <1>2, PointersOf, OnlyAlone
  <2>3. m = Updated(NoCall, [puts |-> <<i>>])
    BY <1>2, PointersOf DEF Only
  <2> HIDE DEF i
  <2> QED BY <1>1, <2>1, <2>2, <2>3 DEF Updated, NoCall
<1> HIDE DEF i
<1>4. /\ Unread /\ SameRefs
  BY <1>2, PointersOf, UnreadIs
<1>5. DataTypes'
  BY <1>1, <1>2, PointersOf, DataIs, DiskSame, LockType
<1>6. CallOK(p)'
  <2>1. LocalsOK(m)
    BY <1>1, <1>2, <1>3, PointersOf DEF CallOK, LocalsOK, Linking, PCs, AtCur, AtIp, AtLast, Creates
  <2> QED BY <2>1, <1>1, <1>2, <1>3, PointersOf DEF CallOK
<1>7. Apart(m) /\ LockOK(p)
  BY <1>1, <1>2, <1>3, PointersOf DEF Apart, LockOK, Locking, DataTypes, LockCur, LockIp
<1>8. RefOK(p)
  <2>2. /\ cwd'[p] = cwd[p] /\ opened'[p] = opened[p] /\ m.cur = None /\ m.ip = None
        /\ l.cur = None /\ l.ip = i /\ None \notin Inum
    BY <1>1, <1>2, <1>3, InodesAssumption
  <2>3. \A x \in Inum : itable[x].ref \in Nat /\ itable'[x].ref = itable[x].ref
    BY <1>4 DEF SameRefs
  <2>1. \A x \in Inum : Balanced(p, x, B(i = x))
    BY <2>2, <2>3 DEF Balanced, Named, B
  <2> QED BY <1>1, <1>3, <1>4, <2>1, RefOne DEF SameRefs
<1> QED BY <1>1, <1>2, <1>3, <1>4, <1>5, <1>6, <1>7, <1>8, PointerStep DEF i, CreatePutDone

\* A step that changes the current directories or the open files too.
LEMMA DataIs2 ==
    ASSUME DataTypes, dinode' \in DinodeType, itable' \in ItableType,
           lock' \in [Inum -> Proc \cup {None}],
           cwd' \in [Proc \cup {Init1} -> Inum \cup {None}], opened' \in [Proc -> Inum \cup {None}]
    PROVE  DataTypes'
  BY DEF DataTypes, DinodeType, ItableType

OpenDirDone(p) ==
    LET l == c[p]
        m == c'[p]
        i == l.cur
    IN /\ l.pc = "open_ip" /\ l.puts = <<>> /\ i \in Inum /\ l.ip = None
       /\ CanLock(i)
       /\ UNCHANGED <<dinode, lock, cwd, opened>>
       /\ m.pc = "idle" /\ m.op = None /\ m.path = <<>>
       /\ m.cur = None /\ m.ip = None /\ m.new = None
       /\ m.puts = <<i>> /\ m.put = "test"
       /\ Read(i) /\ SameRefs
       /\ Alone(p) /\ RefOK(p) /\ PointerInv'

\* open() of a directory for writing is refused.
LEMMA OpenDirStep ==
    ASSUME PointerInv, NEW p \in Proc, OpenIp(p),
           Loaded(c[p].cur).type = "dir" /\ c[p].op = "openw"
    PROVE  OpenDirDone(p)
<1> DEFINE l == c[p]
           m == c'[p]
           i == l.cur
<1>1. /\ l.cur = i
      /\ l.pc = "open_ip" /\ l.puts = <<>> /\ i \in Inum /\ l.ip = None
      /\ CanLock(i)
  BY PointersOf DEF OpenIp, At, CallOK, LocalsOK, Linking, AtIp, AtCur, AtLast
<1>2. /\ Only(p, [puts |-> <<i>>])
      /\ itable' = [itable EXCEPT ![i] = Loaded(i)]
      /\ UNCHANGED <<dinode, lock, cwd, opened>>
  BY <1>1 DEF OpenIp, Returns
<1>3. /\ m.pc = "idle" /\ m.op = None /\ m.path = <<>>
      /\ m.cur = None /\ m.ip = None /\ m.new = None
      /\ m.puts = <<i>> /\ m.put = "test"
      /\ DOMAIN m = DOMAIN NoCall
      /\ Alone(p)
  <2>1. DOMAIN l = DOMAIN NoCall
    BY PointersOf DEF CallOK, LocalsOK
  <2>2. Alone(p)
    BY <1>2, PointersOf, OnlyAlone
  <2>3. m = Updated(NoCall, [puts |-> <<i>>])
    BY <1>2, PointersOf DEF Only
  <2> HIDE DEF i
  <2> QED BY <1>1, <2>1, <2>2, <2>3 DEF Updated, NoCall
<1> HIDE DEF i
<1>4. /\ Read(i) /\ SameRefs
  BY <1>1, <1>2, PointersOf, ReadIs
<1>5. DataTypes'
  BY <1>2, <1>4, PointersOf, DataSame DEF Read
<1>6. CallOK(p)'
  <2>1. LocalsOK(m)
    BY <1>1, <1>2, <1>3, PointersOf DEF CallOK, LocalsOK, Linking, PCs, AtCur, AtIp, AtLast, Creates
  <2> QED BY <2>1, <1>1, <1>2, <1>3, PointersOf DEF CallOK
<1>7. Apart(m) /\ LockOK(p)
  BY <1>1, <1>2, <1>3, LocksStay DEF Unlocked, LockCur, LockIp
<1>8. RefOK(p)
  <2>2. /\ cwd'[p] = cwd[p] /\ opened'[p] = opened[p] /\ m.cur = None /\ m.ip = None
        /\ l.cur = i /\ l.ip = None /\ None \notin Inum
    BY <1>1, <1>2, <1>3, InodesAssumption
  <2>3. \A x \in Inum : itable[x].ref \in Nat /\ itable'[x].ref = itable[x].ref
    BY <1>4 DEF SameRefs
  <2>1. \A x \in Inum : Balanced(p, x, B(i = x))
    BY <2>2, <2>3 DEF Balanced, Named, B
  <2> QED BY <1>1, <1>3, <1>4, <2>1, RefOne DEF SameRefs
<1> QED BY <1>1, <1>2, <1>3, <1>4, <1>5, <1>6, <1>7, <1>8, PointerStep DEF i, OpenDirDone

OpenIpDone(p) ==
    LET l == c[p]
        m == c'[p]
        i == l.cur
    IN /\ l.pc = "open_ip" /\ l.puts = <<>> /\ i \in Inum /\ l.ip = None
       /\ CanLock(i)
       /\ lock' = [lock EXCEPT ![i] = p]
       /\ UNCHANGED <<dinode, cwd, opened>>
       /\ m.pc = "open_file" /\ m.op = None /\ m.path = <<>>
       /\ m.cur = None /\ m.ip = i /\ m.new = None
       /\ m.puts = <<>> /\ m.put = "test"
       /\ Read(i) /\ SameRefs
       /\ Alone(p) /\ RefOK(p) /\ PointerInv'

\* open() keeps the inode locked until it has a file.
LEMMA OpenIpStep ==
    ASSUME PointerInv, NEW p \in Proc, OpenIp(p),
           ~(Loaded(c[p].cur).type = "dir" /\ c[p].op = "openw")
    PROVE  OpenIpDone(p)
<1> DEFINE l == c[p]
           m == c'[p]
           i == l.cur
<1>1. /\ l.cur = i
      /\ l.pc = "open_ip" /\ l.puts = <<>> /\ i \in Inum /\ l.ip = None
      /\ CanLock(i)
  BY PointersOf DEF OpenIp, At, CallOK, LocalsOK, Linking, AtIp, AtCur, AtLast
<1>2. /\ Only(p, [pc |-> "open_file", ip |-> i])
      /\ itable' = [itable EXCEPT ![i] = Loaded(i)]
      /\ lock' = [lock EXCEPT ![i] = p]
      /\ UNCHANGED <<dinode, cwd, opened>>
  BY <1>1 DEF OpenIp
<1>3. /\ m.pc = "open_file" /\ m.op = None /\ m.path = <<>>
      /\ m.cur = None /\ m.ip = i /\ m.new = None
      /\ m.puts = <<>> /\ m.put = "test"
      /\ DOMAIN m = DOMAIN NoCall
      /\ Alone(p)
  <2>1. DOMAIN l = DOMAIN NoCall
    BY PointersOf DEF CallOK, LocalsOK
  <2>2. Alone(p)
    BY <1>2, PointersOf, OnlyAlone
  <2>3. m = Updated(NoCall, [pc |-> "open_file", ip |-> i])
    BY <1>2, PointersOf DEF Only
  <2> HIDE DEF i
  <2> QED BY <1>1, <2>1, <2>2, <2>3 DEF Updated, NoCall
<1> HIDE DEF i
<1>4. /\ Read(i) /\ SameRefs
  BY <1>1, <1>2, PointersOf, ReadIs
<1>5. DataTypes'
  BY <1>1, <1>2, <1>4, PointersOf, DataIs, DiskSame, LockType DEF Read, ReadAs
<1>6. CallOK(p)'
  <2>1. LocalsOK(m)
    BY <1>1, <1>2, <1>3, PointersOf DEF CallOK, LocalsOK, Linking, PCs, AtCur, AtIp, AtLast, Creates
  <2> QED BY <2>1, <1>1, <1>2, <1>3, PointersOf DEF CallOK
<1>7. Apart(m) /\ LockOK(p)
  BY <1>1, <1>2, <1>3, PointersOf DEF Apart, LockOK, Locking, DataTypes, LockCur, LockIp, CanLock
<1>8. RefOK(p)
  <2>2. /\ cwd'[p] = cwd[p] /\ opened'[p] = opened[p] /\ m.cur = None /\ m.ip = i
        /\ l.cur = i /\ l.ip = None /\ None \notin Inum
    BY <1>1, <1>2, <1>3, InodesAssumption
  <2>3. \A x \in Inum : itable[x].ref \in Nat /\ itable'[x].ref = itable[x].ref
    BY <1>4 DEF SameRefs
  <2>1. \A x \in Inum : Balanced(p, x, 0)
    BY <2>2, <2>3 DEF Balanced, Named, B
  <2> QED BY <1>1, <1>3, <1>4, <2>1, RefNone DEF SameRefs
<1> QED BY <1>1, <1>2, <1>3, <1>4, <1>5, <1>6, <1>7, <1>8, PointerStep DEF i, OpenIpDone

OpenFileDone(p) ==
    LET l == c[p]
        m == c'[p]
        i == l.ip
    IN /\ l.pc = "open_file" /\ l.puts = <<>> /\ i \in Inum /\ l.cur = None
       /\ lock' = [lock EXCEPT ![i] = None]
       /\ opened[p] = None /\ opened' = [opened EXCEPT ![p] = i]
       /\ UNCHANGED <<dinode, itable, cwd>>
       /\ m.pc = "idle" /\ m.op = None /\ m.path = <<>>
       /\ m.cur = None /\ m.ip = None /\ m.new = None
       /\ m.puts = <<>> /\ m.put = "test"
       /\ Unread /\ SameRefs
       /\ Alone(p) /\ RefOK(p) /\ PointerInv'

\* The open file takes the reference over, ...
LEMMA OpenFileStep ==
    ASSUME PointerInv, NEW p \in Proc, OpenFile(p), c'[p].puts = <<>>
    PROVE  OpenFileDone(p)
<1> DEFINE l == c[p]
           m == c'[p]
           i == l.ip
<1>1. /\ l.ip = i
      /\ l.pc = "open_file" /\ l.puts = <<>> /\ i \in Inum /\ l.cur = None
  BY PointersOf DEF OpenFile, At, CallOK, LocalsOK, Linking, AtIp, AtCur, AtLast
<1>2. /\ Only(p, [puts |-> <<>>])
      /\ lock' = [lock EXCEPT ![i] = None]
      /\ opened[p] = None /\ opened' = [opened EXCEPT ![p] = i]
      /\ UNCHANGED <<dinode, itable, cwd>>
  BY <1>1, PointersOf DEF OpenFile, Returns, Only, Updated, NoCall
<1>3. /\ m.pc = "idle" /\ m.op = None /\ m.path = <<>>
      /\ m.cur = None /\ m.ip = None /\ m.new = None
      /\ m.puts = <<>> /\ m.put = "test"
      /\ DOMAIN m = DOMAIN NoCall
      /\ Alone(p)
  <2>1. DOMAIN l = DOMAIN NoCall
    BY PointersOf DEF CallOK, LocalsOK
  <2>2. Alone(p)
    BY <1>2, PointersOf DEF Only, Alone, DataTypes
  <2>3. m = Updated(NoCall, [puts |-> <<>>])
    BY <1>2, PointersOf DEF Only
  <2> HIDE DEF i
  <2> QED BY <1>1, <2>1, <2>2, <2>3 DEF Updated, NoCall
<1> HIDE DEF i
<1>4. /\ Unread /\ SameRefs
  BY <1>2, PointersOf, UnreadIs
<1>5. DataTypes'
  BY <1>1, <1>2, PointersOf, DataIs2, DiskSame, LockType DEF DataTypes
<1>6. CallOK(p)'
  <2>1. LocalsOK(m)
    BY <1>1, <1>2, <1>3, PointersOf DEF CallOK, LocalsOK, Linking, PCs, AtCur, AtIp, AtLast, Creates
  <2> QED BY <2>1, <1>1, <1>2, <1>3, PointersOf DEF CallOK, DataTypes
<1>7. Apart(m) /\ LockOK(p)
  BY <1>1, <1>2, <1>3, PointersOf DEF Apart, LockOK, Locking, DataTypes, LockCur, LockIp
<1>8. RefOK(p)
  <2>2. /\ cwd'[p] = cwd[p] /\ opened'[p] = i /\ m.cur = None /\ m.ip = None
        /\ l.cur = None /\ l.ip = i /\ None \notin Inum
        /\ cwd[p] = cwd[p] /\ opened[p] = None
    BY <1>1, <1>2, <1>3, InodesAssumption, PointersOf DEF DataTypes, i
  <2>3. \A x \in Inum : itable[x].ref \in Nat /\ itable'[x].ref = itable[x].ref
    BY <1>4 DEF SameRefs
  <2>1. \A x \in Inum : Balanced(p, x, 0)
    BY <2>2, <2>3 DEF Balanced, Named, B
  <2> QED BY <1>1, <1>3, <1>4, <2>1, RefNone DEF SameRefs
<1> QED BY <1>1, <1>2, <1>3, <1>4, <1>5, <1>6, <1>7, <1>8, PointerStep DEF i, OpenFileDone

OpenNoneDone(p) ==
    LET l == c[p]
        m == c'[p]
        i == l.ip
    IN /\ l.pc = "open_file" /\ l.puts = <<>> /\ i \in Inum /\ l.cur = None
       /\ lock' = [lock EXCEPT ![i] = None]
       /\ UNCHANGED <<dinode, itable, cwd, opened>>
       /\ m.pc = "idle" /\ m.op = None /\ m.path = <<>>
       /\ m.cur = None /\ m.ip = None /\ m.new = None
       /\ m.puts = <<i>> /\ m.put = "test"
       /\ Unread /\ SameRefs
       /\ Alone(p) /\ RefOK(p) /\ PointerInv'

\* ... or there is no file or descriptor.
LEMMA OpenNoneStep ==
    ASSUME PointerInv, NEW p \in Proc, OpenFile(p), c'[p].puts # <<>>
    PROVE  OpenNoneDone(p)
<1> DEFINE l == c[p]
           m == c'[p]
           i == l.ip
<1>1. /\ l.ip = i
      /\ l.pc = "open_file" /\ l.puts = <<>> /\ i \in Inum /\ l.cur = None
  BY PointersOf DEF OpenFile, At, CallOK, LocalsOK, Linking, AtIp, AtCur, AtLast
<1>2. /\ Only(p, [puts |-> <<i>>])
      /\ lock' = [lock EXCEPT ![i] = None]
      /\ UNCHANGED <<dinode, itable, cwd, opened>>
  BY <1>1, PointersOf DEF OpenFile, Returns, Only, Updated, NoCall
<1>3. /\ m.pc = "idle" /\ m.op = None /\ m.path = <<>>
      /\ m.cur = None /\ m.ip = None /\ m.new = None
      /\ m.puts = <<i>> /\ m.put = "test"
      /\ DOMAIN m = DOMAIN NoCall
      /\ Alone(p)
  <2>1. DOMAIN l = DOMAIN NoCall
    BY PointersOf DEF CallOK, LocalsOK
  <2>2. Alone(p)
    BY <1>2, PointersOf, OnlyAlone
  <2>3. m = Updated(NoCall, [puts |-> <<i>>])
    BY <1>2, PointersOf DEF Only
  <2> HIDE DEF i
  <2> QED BY <1>1, <2>1, <2>2, <2>3 DEF Updated, NoCall
<1> HIDE DEF i
<1>4. /\ Unread /\ SameRefs
  BY <1>2, PointersOf, UnreadIs
<1>5. DataTypes'
  BY <1>1, <1>2, PointersOf, DataIs, DiskSame, LockType
<1>6. CallOK(p)'
  <2>1. LocalsOK(m)
    BY <1>1, <1>2, <1>3, PointersOf DEF CallOK, LocalsOK, Linking, PCs, AtCur, AtIp, AtLast, Creates
  <2> QED BY <2>1, <1>1, <1>2, <1>3, PointersOf DEF CallOK
<1>7. Apart(m) /\ LockOK(p)
  BY <1>1, <1>2, <1>3, PointersOf DEF Apart, LockOK, Locking, DataTypes, LockCur, LockIp
<1>8. RefOK(p)
  <2>2. /\ cwd'[p] = cwd[p] /\ opened'[p] = opened[p] /\ m.cur = None /\ m.ip = None
        /\ l.cur = None /\ l.ip = i /\ None \notin Inum
    BY <1>1, <1>2, <1>3, InodesAssumption
  <2>3. \A x \in Inum : itable[x].ref \in Nat /\ itable'[x].ref = itable[x].ref
    BY <1>4 DEF SameRefs
  <2>1. \A x \in Inum : Balanced(p, x, B(i = x))
    BY <2>2, <2>3 DEF Balanced, Named, B
  <2> QED BY <1>1, <1>3, <1>4, <2>1, RefOne DEF SameRefs
<1> QED BY <1>1, <1>2, <1>3, <1>4, <1>5, <1>6, <1>7, <1>8, PointerStep DEF i, OpenNoneDone

ChdirDirDone(p) ==
    LET l == c[p]
        m == c'[p]
        i == l.cur
        old == cwd[p]
    IN /\ l.pc = "chdir_ip" /\ l.puts = <<>> /\ i \in Inum /\ l.ip = None
       /\ CanLock(i)
       /\ old \in Inum
       /\ cwd' = [cwd EXCEPT ![p] = i]
       /\ UNCHANGED <<dinode, lock, opened>>
       /\ m.pc = "idle" /\ m.op = None /\ m.path = <<>>
       /\ m.cur = None /\ m.ip = None /\ m.new = None
       /\ m.puts = <<old>> /\ m.put = "test"
       /\ Read(i) /\ SameRefs
       /\ Alone(p) /\ RefOK(p) /\ PointerInv'

\* The new current directory takes the reference over; the old one is put.
LEMMA ChdirDirStep ==
    ASSUME PointerInv, NEW p \in Proc, ChdirIp(p), Loaded(c[p].cur).type = "dir"
    PROVE  ChdirDirDone(p)
<1> DEFINE l == c[p]
           m == c'[p]
           i == l.cur
           old == cwd[p]
<1>1. /\ l.cur = i
      /\ l.pc = "chdir_ip" /\ l.puts = <<>> /\ i \in Inum /\ l.ip = None
      /\ CanLock(i)
      /\ old \in Inum
  <2>1. l.pc = "chdir_ip" /\ l.puts = <<>> /\ i \in Inum /\ l.ip = None /\ CanLock(i)
    BY PointersOf DEF ChdirIp, At, CallOK, LocalsOK, Linking, AtIp, AtCur, AtLast
  <2>2. cwd[p] # None /\ cwd[p] \in Inum \cup {None}
    BY <2>1, PointersOf DEF CallOK, DataTypes
  <2> QED BY <2>1, <2>2
<1>2. /\ Only(p, [puts |-> <<old>>])
      /\ itable' = [itable EXCEPT ![i] = Loaded(i)]
      /\ cwd' = [cwd EXCEPT ![p] = i]
      /\ UNCHANGED <<dinode, lock, opened>>
  BY <1>1 DEF ChdirIp, Returns, OldCwd
<1>3. /\ m.pc = "idle" /\ m.op = None /\ m.path = <<>>
      /\ m.cur = None /\ m.ip = None /\ m.new = None
      /\ m.puts = <<old>> /\ m.put = "test"
      /\ DOMAIN m = DOMAIN NoCall
      /\ Alone(p)
  <2>1. DOMAIN l = DOMAIN NoCall
    BY PointersOf DEF CallOK, LocalsOK
  <2>2. Alone(p)
    BY <1>2, PointersOf DEF Only, Alone, DataTypes
  <2>3. m = Updated(NoCall, [puts |-> <<old>>])
    BY <1>2, PointersOf DEF Only
  <2> HIDE DEF i, old
  <2> QED BY <1>1, <2>1, <2>2, <2>3 DEF Updated, NoCall
<1> HIDE DEF i, old
<1>4. /\ Read(i) /\ SameRefs
  BY <1>1, <1>2, PointersOf, ReadIs
<1>5. DataTypes'
  BY <1>1, <1>2, <1>4, PointersOf, DataIs2, DiskSame DEF DataTypes, Read, ReadAs
<1>6. CallOK(p)'
  <2>1. LocalsOK(m)
    BY <1>1, <1>2, <1>3, PointersOf DEF CallOK, LocalsOK, Linking, PCs, AtCur, AtIp, AtLast, Creates
  <2> QED BY <2>1, <1>1, <1>2, <1>3, PointersOf DEF CallOK, DataTypes
<1>7. Apart(m) /\ LockOK(p)
  BY <1>1, <1>2, <1>3, LocksStay DEF Unlocked, LockCur, LockIp
<1>8. RefOK(p)
  <2>2. /\ cwd'[p] = i /\ opened'[p] = opened[p] /\ m.cur = None /\ m.ip = None
        /\ l.cur = i /\ l.ip = None /\ None \notin Inum
        /\ cwd[p] = old /\ opened[p] = opened[p]
    BY <1>1, <1>2, <1>3, InodesAssumption, PointersOf DEF DataTypes, i, old
  <2>3. \A x \in Inum : itable[x].ref \in Nat /\ itable'[x].ref = itable[x].ref
    BY <1>4 DEF SameRefs
  <2>1. \A x \in Inum : Balanced(p, x, B(old = x))
    BY <2>2, <2>3 DEF Balanced, Named, B
  <2> QED BY <1>1, <1>3, <1>4, <2>1, RefOne DEF SameRefs
<1> QED BY <1>1, <1>2, <1>3, <1>4, <1>5, <1>6, <1>7, <1>8, PointerStep DEF i, old, ChdirDirDone

ChdirFileDone(p) ==
    LET l == c[p]
        m == c'[p]
        i == l.cur
    IN /\ l.pc = "chdir_ip" /\ l.puts = <<>> /\ i \in Inum /\ l.ip = None
       /\ CanLock(i)
       /\ UNCHANGED <<dinode, lock, cwd, opened>>
       /\ m.pc = "idle" /\ m.op = None /\ m.path = <<>>
       /\ m.cur = None /\ m.ip = None /\ m.new = None
       /\ m.puts = <<i>> /\ m.put = "test"
       /\ Read(i) /\ SameRefs
       /\ Alone(p) /\ RefOK(p) /\ PointerInv'

\* chdir() to what is no directory.
LEMMA ChdirFileStep ==
    ASSUME PointerInv, NEW p \in Proc, ChdirIp(p), Loaded(c[p].cur).type # "dir"
    PROVE  ChdirFileDone(p)
<1> DEFINE l == c[p]
           m == c'[p]
           i == l.cur
<1>1. /\ l.cur = i
      /\ l.pc = "chdir_ip" /\ l.puts = <<>> /\ i \in Inum /\ l.ip = None
      /\ CanLock(i)
  BY PointersOf DEF ChdirIp, At, CallOK, LocalsOK, Linking, AtIp, AtCur, AtLast
<1>2. /\ Only(p, [puts |-> <<i>>])
      /\ itable' = [itable EXCEPT ![i] = Loaded(i)]
      /\ UNCHANGED <<dinode, lock, cwd, opened>>
  BY <1>1 DEF ChdirIp, Returns
<1>3. /\ m.pc = "idle" /\ m.op = None /\ m.path = <<>>
      /\ m.cur = None /\ m.ip = None /\ m.new = None
      /\ m.puts = <<i>> /\ m.put = "test"
      /\ DOMAIN m = DOMAIN NoCall
      /\ Alone(p)
  <2>1. DOMAIN l = DOMAIN NoCall
    BY PointersOf DEF CallOK, LocalsOK
  <2>2. Alone(p)
    BY <1>2, PointersOf, OnlyAlone
  <2>3. m = Updated(NoCall, [puts |-> <<i>>])
    BY <1>2, PointersOf DEF Only
  <2> HIDE DEF i
  <2> QED BY <1>1, <2>1, <2>2, <2>3 DEF Updated, NoCall
<1> HIDE DEF i
<1>4. /\ Read(i) /\ SameRefs
  BY <1>1, <1>2, PointersOf, ReadIs
<1>5. DataTypes'
  BY <1>2, <1>4, PointersOf, DataSame DEF Read
<1>6. CallOK(p)'
  <2>1. LocalsOK(m)
    BY <1>1, <1>2, <1>3, PointersOf DEF CallOK, LocalsOK, Linking, PCs, AtCur, AtIp, AtLast, Creates
  <2> QED BY <2>1, <1>1, <1>2, <1>3, PointersOf DEF CallOK
<1>7. Apart(m) /\ LockOK(p)
  BY <1>1, <1>2, <1>3, LocksStay DEF Unlocked, LockCur, LockIp
<1>8. RefOK(p)
  <2>2. /\ cwd'[p] = cwd[p] /\ opened'[p] = opened[p] /\ m.cur = None /\ m.ip = None
        /\ l.cur = i /\ l.ip = None /\ None \notin Inum
    BY <1>1, <1>2, <1>3, InodesAssumption
  <2>3. \A x \in Inum : itable[x].ref \in Nat /\ itable'[x].ref = itable[x].ref
    BY <1>4 DEF SameRefs
  <2>1. \A x \in Inum : Balanced(p, x, B(i = x))
    BY <2>2, <2>3 DEF Balanced, Named, B
  <2> QED BY <1>1, <1>3, <1>4, <2>1, RefOne DEF SameRefs
<1> QED BY <1>1, <1>2, <1>3, <1>4, <1>5, <1>6, <1>7, <1>8, PointerStep DEF i, ChdirFileDone

CloseDone(p) ==
    LET l == c[p]
        m == c'[p]
        i == opened[p]
    IN /\ l.pc = "idle" /\ l.puts = <<>> /\ l.put = "test" /\ l.cur = None /\ l.ip = None
       /\ i \in Inum
       /\ opened' = [opened EXCEPT ![p] = None]
       /\ UNCHANGED <<dinode, itable, lock, cwd>>
       /\ m.pc = l.pc /\ m.op = l.op /\ m.path = l.path
       /\ m.cur = l.cur /\ m.ip = l.ip /\ m.new = l.new
       /\ m.puts = <<i>> /\ m.put = l.put
       /\ Unread /\ SameRefs
       /\ Alone(p) /\ RefOK(p) /\ PointerInv'

\* The last close() puts the inode.
LEMMA CloseStep ==
    ASSUME PointerInv, NEW p \in Proc, Close(p)
    PROVE  CloseDone(p)
<1> DEFINE l == c[p]
           m == c'[p]
           i == opened[p]
<1>1. /\ l.pc = "idle" /\ l.puts = <<>> /\ l.put = "test" /\ l.cur = None /\ l.ip = None
      /\ i \in Inum
  <2>1. l.pc = "idle" /\ l.puts = <<>> /\ l.put = "test" /\ l.cur = None /\ l.ip = None
    BY PointersOf DEF Close, At, CallOK, LocalsOK, Linking, AtIp, AtCur, AtLast
  <2> QED BY <2>1, PointersOf DEF Close, DataTypes
<1>2. /\ Locals(p, [puts |-> <<i>>])
      /\ opened' = [opened EXCEPT ![p] = None]
      /\ UNCHANGED <<dinode, itable, lock, cwd>>
  BY <1>1 DEF Close, inodeVars
<1>3. /\ m.pc = l.pc /\ m.op = l.op /\ m.path = l.path
      /\ m.cur = l.cur /\ m.ip = l.ip /\ m.new = l.new
      /\ m.puts = <<i>> /\ m.put = l.put
      /\ DOMAIN m = DOMAIN NoCall
      /\ Alone(p)
  <2>1. DOMAIN l = DOMAIN NoCall
    BY PointersOf DEF CallOK, LocalsOK
  <2>2. Alone(p)
    BY <1>2, PointersOf DEF Locals, Alone, DataTypes
  <2>3. m = Updated(l, [puts |-> <<i>>])
    BY <1>2, PointersOf DEF Locals
  <2> HIDE DEF i
  <2> QED BY <1>1, <2>1, <2>2, <2>3 DEF Updated, NoCall
<1> HIDE DEF i
<1>4. /\ Unread /\ SameRefs
  BY <1>2, PointersOf, UnreadIs
<1>5. DataTypes'
  BY <1>1, <1>2, PointersOf, DataIs2, DiskSame DEF DataTypes
<1>6. CallOK(p)'
  <2>1. LocalsOK(m)
    BY <1>1, <1>2, <1>3, PointersOf DEF CallOK, LocalsOK, Linking, PCs, AtCur, AtIp, AtLast, Creates
  <2> QED BY <2>1, <1>1, <1>2, <1>3, PointersOf DEF CallOK, DataTypes
<1>7. Apart(m) /\ LockOK(p)
  BY <1>1, <1>2, <1>3, LocksStay DEF Unlocked, LockCur, LockIp
<1>8. RefOK(p)
  <2>2. /\ cwd'[p] = cwd[p] /\ opened'[p] = None /\ m.cur = None /\ m.ip = None
        /\ l.cur = None /\ l.ip = None /\ None \notin Inum
        /\ cwd[p] = cwd[p] /\ opened[p] = i
    BY <1>1, <1>2, <1>3, InodesAssumption, PointersOf DEF DataTypes, i
  <2>3. \A x \in Inum : itable[x].ref \in Nat /\ itable'[x].ref = itable[x].ref
    BY <1>4 DEF SameRefs
  <2>1. \A x \in Inum : Balanced(p, x, B(i = x))
    BY <2>2, <2>3 DEF Balanced, Named, B
  <2> QED BY <1>1, <1>3, <1>4, <2>1, RefOne DEF SameRefs
<1> QED BY <1>1, <1>2, <1>3, <1>4, <1>5, <1>6, <1>7, <1>8, PointerStep DEF i, CloseDone

exitDone(p) ==
    LET l == c[p]
        m == c'[p]
        i == cwd[p]
    IN /\ l.pc = "idle" /\ l.puts = <<>> /\ l.put = "test" /\ l.cur = None /\ l.ip = None
       /\ i \in Inum /\ opened[p] = None
       /\ cwd' = [cwd EXCEPT ![p] = None]
       /\ UNCHANGED <<dinode, itable, lock, opened>>
       /\ m.pc = "unused" /\ m.op = l.op /\ m.path = l.path
       /\ m.cur = l.cur /\ m.ip = l.ip /\ m.new = l.new
       /\ m.puts = <<i>> /\ m.put = l.put
       /\ Unread /\ SameRefs
       /\ Alone(p) /\ RefOK(p) /\ PointerInv'

\* exit() puts the current directory.
LEMMA exitStep ==
    ASSUME PointerInv, NEW p \in Proc, exit(p)
    PROVE  exitDone(p)
<1> DEFINE l == c[p]
           m == c'[p]
           i == cwd[p]
<1>1. /\ l.pc = "idle" /\ l.puts = <<>> /\ l.put = "test" /\ l.cur = None /\ l.ip = None
      /\ i \in Inum /\ opened[p] = None
  <2>1. l.pc = "idle" /\ l.puts = <<>> /\ l.put = "test" /\ l.cur = None /\ l.ip = None /\ opened[p] = None
    BY PointersOf DEF exit, At, CallOK, LocalsOK, Linking, AtIp, AtCur, AtLast
  <2>2. i \in Inum
    BY <2>1, PointersOf DEF CallOK, DataTypes
  <2> QED BY <2>1, <2>2
<1>2. /\ Locals(p, [pc |-> "unused", puts |-> <<i>>])
      /\ cwd' = [cwd EXCEPT ![p] = None]
      /\ UNCHANGED <<dinode, itable, lock, opened>>
  BY <1>1 DEF exit, inodeVars
<1>3. /\ m.pc = "unused" /\ m.op = l.op /\ m.path = l.path
      /\ m.cur = l.cur /\ m.ip = l.ip /\ m.new = l.new
      /\ m.puts = <<i>> /\ m.put = l.put
      /\ DOMAIN m = DOMAIN NoCall
      /\ Alone(p)
  <2>1. DOMAIN l = DOMAIN NoCall
    BY PointersOf DEF CallOK, LocalsOK
  <2>2. Alone(p)
    BY <1>2, PointersOf DEF Locals, Alone, DataTypes
  <2>3. m = Updated(l, [pc |-> "unused", puts |-> <<i>>])
    BY <1>2, PointersOf DEF Locals
  <2> HIDE DEF i
  <2> QED BY <1>1, <2>1, <2>2, <2>3 DEF Updated, NoCall
<1> HIDE DEF i
<1>4. /\ Unread /\ SameRefs
  BY <1>2, PointersOf, UnreadIs
<1>5. DataTypes'
  BY <1>1, <1>2, PointersOf, DataIs2, DiskSame DEF DataTypes
<1>6. CallOK(p)'
  <2>1. LocalsOK(m)
    BY <1>1, <1>2, <1>3, PointersOf DEF CallOK, LocalsOK, Linking, PCs, AtCur, AtIp, AtLast, Creates
  <2> QED BY <2>1, <1>1, <1>2, <1>3, PointersOf DEF CallOK, DataTypes
<1>7. Apart(m) /\ LockOK(p)
  BY <1>1, <1>2, <1>3, LocksStay DEF Unlocked, LockCur, LockIp
<1>8. RefOK(p)
  <2>2. /\ cwd'[p] = None /\ opened'[p] = None /\ m.cur = None /\ m.ip = None
        /\ l.cur = None /\ l.ip = None /\ None \notin Inum
        /\ cwd[p] = i /\ opened[p] = None
    BY <1>1, <1>2, <1>3, InodesAssumption, PointersOf DEF DataTypes, i
  <2>3. \A x \in Inum : itable[x].ref \in Nat /\ itable'[x].ref = itable[x].ref
    BY <1>4 DEF SameRefs
  <2>1. \A x \in Inum : Balanced(p, x, B(i = x))
    BY <2>2, <2>3 DEF Balanced, Named, B
  <2> QED BY <1>1, <1>3, <1>4, <2>1, RefOne DEF SameRefs
<1> QED BY <1>1, <1>2, <1>3, <1>4, <1>5, <1>6, <1>7, <1>8, PointerStep DEF i, exitDone

forkDone(p, q) ==
    LET l == c[p]
        m == c'[p]
        i == cwd[q]
    IN /\ l.pc = "unused" /\ l.puts = <<>> /\ l.put = "test" /\ l.cur = None /\ l.ip = None
       /\ i \in Inum /\ cwd[p] = None /\ opened[p] = None /\ q # p
       /\ cwd' = [cwd EXCEPT ![p] = i]
       /\ UNCHANGED <<dinode, lock, opened>>
       /\ m.pc = "idle" /\ m.op = l.op /\ m.path = l.path
       /\ m.cur = l.cur /\ m.ip = l.ip /\ m.new = l.new
       /\ m.puts = l.puts /\ m.put = l.put
       /\ Unread /\ Refers(i)
       /\ Alone(p) /\ RefOK(p) /\ PointerInv'

\* fork() refers to the parent's current directory.
LEMMA forkStep ==
    ASSUME PointerInv, NEW p \in Proc, NEW q \in Proc \cup {Init1}, fork(q, p)
    PROVE  forkDone(p, q)
<1> DEFINE l == c[p]
           m == c'[p]
           i == cwd[q]
<1>1. /\ l.pc = "unused" /\ l.puts = <<>> /\ l.put = "test" /\ l.cur = None /\ l.ip = None
      /\ i \in Inum /\ cwd[p] = None /\ opened[p] = None /\ q # p
  <2>1. l.pc = "unused" /\ l.puts = <<>> /\ l.put = "test" /\ l.cur = None /\ l.ip = None
    BY PointersOf DEF fork, At, CallOK, LocalsOK, Linking, AtIp, AtCur, AtLast
  <2>2. cwd[p] = None /\ opened[p] = None
    BY <2>1, PointersOf DEF CallOK
  <2>3. i \in Inum
    <3>1. CASE q = Init1
      BY <3>1, InodesAssumption DEF PointerInv, CallInv
    <3>2. CASE q # Init1
      <4>1. q \in Proc /\ c[q].pc = "idle"
        BY <3>2 DEF fork, At
      <4> QED BY <4>1, PointersOf DEF CallOK, DataTypes
    <3> QED BY <3>1, <3>2
  <2> QED BY <2>1, <2>2, <2>3, InodesAssumption
<1>2. /\ Locals(p, [pc |-> "idle"])
      /\ itable' = [itable EXCEPT ![i].ref = @ + 1]
      /\ cwd' = [cwd EXCEPT ![p] = i]
      /\ UNCHANGED <<dinode, lock, opened>>
  BY <1>1 DEF fork
<1>3. /\ m.pc = "idle" /\ m.op = l.op /\ m.path = l.path
      /\ m.cur = l.cur /\ m.ip = l.ip /\ m.new = l.new
      /\ m.puts = l.puts /\ m.put = l.put
      /\ DOMAIN m = DOMAIN NoCall
      /\ Alone(p)
  <2>1. DOMAIN l = DOMAIN NoCall
    BY PointersOf DEF CallOK, LocalsOK
  <2>2. Alone(p)
    BY <1>2, PointersOf DEF Locals, Alone, DataTypes
  <2>3. m = Updated(l, [pc |-> "idle"])
    BY <1>2, PointersOf DEF Locals
  <2> HIDE DEF i
  <2> QED BY <1>1, <2>1, <2>2, <2>3 DEF Updated, NoCall
<1> HIDE DEF i
<1>4. /\ Unread /\ Refers(i)
  BY <1>1, <1>2, PointersOf, TakeIs
<1>5. DataTypes'
  BY <1>1, <1>2, <1>4, PointersOf, DataIs2, DiskSame DEF DataTypes, Unread
<1>6. CallOK(p)'
  <2>1. LocalsOK(m)
    BY <1>1, <1>2, <1>3, PointersOf DEF CallOK, LocalsOK, Linking, PCs, AtCur, AtIp, AtLast, Creates
  <2> QED BY <2>1, <1>1, <1>2, <1>3, PointersOf DEF CallOK, DataTypes
<1>7. Apart(m) /\ LockOK(p)
  BY <1>1, <1>2, <1>3, LocksStay DEF Unlocked, LockCur, LockIp
<1>8. RefOK(p)
  <2>2. /\ cwd'[p] = i /\ opened'[p] = None /\ m.cur = None /\ m.ip = None
        /\ l.cur = None /\ l.ip = None /\ None \notin Inum
        /\ cwd[p] = None /\ opened[p] = None
    BY <1>1, <1>2, <1>3, InodesAssumption, PointersOf DEF DataTypes, i
  <2>3. \A x \in Inum : itable[x].ref \in Nat /\ itable'[x].ref = itable[x].ref + B(x = i)
    BY <1>4 DEF Refers
  <2>1. \A x \in Inum : Balanced(p, x, 0)
    BY <2>2, <2>3 DEF Balanced, Named, B
  <2> QED BY <1>1, <1>3, <1>4, <2>1, RefNone DEF Refers
<1> QED BY <1>1, <1>2, <1>3, <1>4, <1>5, <1>6, <1>7, <1>8, PointerStep DEF i, forkDone


\* The process that puts an inode points to it.
LEMMA PutIs ==
    ASSUME PointerInv, NEW p \in Proc, c[p].puts # <<>>
    PROVE  LET l == c[p]
               i == Head(l.puts)
           IN /\ i \in Inum /\ l.puts[1] = i /\ Len(l.puts) \in {1, 2}
              /\ Puts(l, 1, i) /\ itable[i].ref \in Nat /\ itable[i].ref >= 1
<1> DEFINE l == c[p]
           i == Head(l.puts)
<1>1. l.puts \in Seq(Inum) /\ Len(l.puts) <= 2
  BY PointersOf DEF CallOK, LocalsOK
<1>2. i \in Inum /\ l.puts[1] = i /\ Len(l.puts) \in Nat /\ Len(l.puts) >= 1
  BY <1>1, TailIs
<1>3. Puts(l, 1, i)
  BY <1>2 DEF Puts
<1>4. PICK b1, b2, b3, b4, b6 \in {0, 1} :
          Count(cwd[p], opened[p], l, i) = b1 + b2 + b3 + b4 + 1 + b6
  <2>1. \A x : B(x) \in {0, 1}
    BY DEF B
  <2>2. B(Puts(l, 1, i)) = 1
    BY <1>3 DEF B
  <2> QED BY <2>1, <2>2 DEF Count
<1>5. PICK m \in Nat : m = Cardinality(Others(p, i))
  BY SplitHolds, PointersOf DEF Split, PointerInv
<1>6. itable[i].ref = m + Count(cwd[p], opened[p], l, i)
  <2>1. itable[i].ref = Cardinality(Pointers(i))
    BY <1>2 DEF PointerInv, RefExact
  <2>2. Cardinality(Pointers(i)) = m + Count(cwd[p], opened[p], l, i)
    BY <1>5, SplitHolds DEF Split, PointerInv
  <2> QED BY <2>1, <2>2
<1>7. itable[i].ref \in Nat
  BY <1>2, PointersOf DEF DataTypes
<1>9. Len(l.puts) \in {1, 2}
  <2>1. PICK n \in Nat : n = Len(l.puts)
    BY <1>2
  <2>2. n >= 1 /\ n <= 2
    BY <1>1, <1>2, <2>1
  <2>3. n = 1 \/ n = 2
    <3> HIDE DEF l
    <3> QED BY <2>2
  <2> QED BY <2>1, <2>3
<1> HIDE DEF l, i
<1>8. itable[i].ref >= 1
  BY <1>4, <1>5, <1>6
<1> QED BY <1>2, <1>3, <1>7, <1>8, <1>9 DEF l, i

IputLastDone(p, i) ==
    LET l == c[p]
        m == c'[p]
    IN /\ l.puts # <<>> /\ i = Head(l.puts) /\ l.put = "test" /\ LastUse(i)
       /\ lock[i] = None /\ lock' = [lock EXCEPT ![i] = p]
       /\ UNCHANGED <<dinode, itable, cwd, opened>>
       /\ m.pc = l.pc /\ m.op = l.op /\ m.path = l.path
       /\ m.cur = l.cur /\ m.ip = l.ip /\ m.new = l.new
       /\ m.puts = l.puts /\ m.put = "free"
       /\ Unread /\ SameRefs
       /\ Alone(p) /\ RefOK(p) /\ PointerInv'

\* iput() locks the inode it will free, ...
LEMMA IputLastStep ==
    ASSUME PointerInv, NEW p \in Proc, NEW i \in Inum, IputLast(p, i), UNCHANGED opened
    PROVE  IputLastDone(p, i)
<1> DEFINE l == c[p]
           m == c'[p]
<1>1. /\ l.puts # <<>> /\ i = Head(l.puts) /\ l.put = "test" /\ LastUse(i)
      /\ lock[i] = None /\ lock' = [lock EXCEPT ![i] = p]
      /\ UNCHANGED <<dinode, itable, cwd, opened>>
      /\ Locals(p, [put |-> "free"])
  BY DEF IputLast, Putting
<1>2. CallOK(p) /\ DOMAIN l = DOMAIN NoCall
  BY PointersOf DEF CallOK, LocalsOK
<1>3. /\ m.pc = l.pc /\ m.op = l.op /\ m.path = l.path
      /\ m.cur = l.cur /\ m.ip = l.ip /\ m.new = l.new
      /\ m.puts = l.puts /\ m.put = "free"
      /\ DOMAIN m = DOMAIN NoCall
  <2>1. m = Updated(l, [put |-> "free"])
    BY <1>1, PointersOf DEF Locals
  <2> QED BY <1>2, <2>1 DEF Updated, NoCall
<1>4. Alone(p)
  BY <1>1, PointersOf, LocalsAlone
<1>5. Unread /\ SameRefs
  BY <1>1, PointersOf, UnreadIs
<1>6. DataTypes'
  BY <1>1, PointersOf, DataIs, DiskSame, LockType
<1>7. CallOK(p)'
  <2>1. LocalsOK(m)
    BY <1>1, <1>2, <1>3, Zenon DEF CallOK, LocalsOK, Linking
  <2> QED BY <2>1, <1>1, <1>2, <1>3 DEF CallOK
<1>8. Apart(m) /\ LockOK(p)
  BY <1>1, <1>3, PointersOf DEF Apart, LockOK, Locking, DataTypes
<1>9. RefOK(p)
  <2>1. \A j : Count(cwd'[p], opened'[p], m, j) = Count(cwd[p], opened[p], l, j)
    BY <1>1, <1>3 DEF Count, Puts
  <2> QED BY <1>1, <2>1 DEF RefOK
<1> QED BY <1>1, <1>3, <1>4, <1>5, <1>6, <1>7, <1>8, <1>9, PointerStep DEF IputLastDone

IputFreeDone(p, i) ==
    LET l == c[p]
        m == c'[p]
    IN /\ l.puts # <<>> /\ i = Head(l.puts) /\ l.put = "free"
       /\ lock' = [lock EXCEPT ![i] = None]
       /\ UNCHANGED <<cwd, opened>>
       /\ m.pc = l.pc /\ m.op = l.op /\ m.path = l.path
       /\ m.cur = l.cur /\ m.ip = l.ip /\ m.new = l.new
       /\ m.puts = l.puts /\ m.put = "drop"
       /\ itable' \in ItableType /\ SameRefs /\ ~itable'[i].valid /\ itable'[i].nlink = 0
       /\ \A j \in Inum \ {i} : itable'[j] = itable[j]
       /\ dinode' \in DinodeType /\ dinode'[i] = Free
       /\ \A j \in Inum \ {i} : dinode'[j] = dinode[j]
       /\ Alone(p) /\ RefOK(p) /\ PointerInv'

\* ... frees and unlocks it, ...
LEMMA IputFreeStep ==
    ASSUME PointerInv, NEW p \in Proc, NEW i \in Inum, IputFree(p, i), UNCHANGED opened
    PROVE  IputFreeDone(p, i)
<1> DEFINE l == c[p]
           m == c'[p]
<1>1. /\ l.puts # <<>> /\ i = Head(l.puts) /\ l.put = "free"
      /\ lock' = [lock EXCEPT ![i] = None]
      /\ dinode' = [dinode EXCEPT ![i] = Free]
      /\ itable' = [itable EXCEPT ![i] = Freed(i)]
      /\ UNCHANGED <<cwd, opened>>
      /\ Locals(p, [put |-> "drop"])
  BY DEF IputFree, Putting
<1>2. CallOK(p) /\ DOMAIN l = DOMAIN NoCall
  BY PointersOf DEF CallOK, LocalsOK
<1>3. /\ m.pc = l.pc /\ m.op = l.op /\ m.path = l.path
      /\ m.cur = l.cur /\ m.ip = l.ip /\ m.new = l.new
      /\ m.puts = l.puts /\ m.put = "drop"
      /\ DOMAIN m = DOMAIN NoCall
  <2>1. m = Updated(l, [put |-> "drop"])
    BY <1>1, PointersOf DEF Locals
  <2> QED BY <1>2, <2>1 DEF Updated, NoCall
<1>4. Alone(p)
  BY <1>1, PointersOf, LocalsAlone
<1>5. /\ itable' \in ItableType /\ SameRefs /\ ~itable'[i].valid /\ itable'[i].nlink = 0
      /\ \A j \in Inum \ {i} : itable'[j] = itable[j]
  <2>1. /\ Freed(i) \in [ref : Nat, valid : BOOLEAN, type : Kinds, nlink : Int]
        /\ Freed(i).ref = itable[i].ref /\ ~Freed(i).valid /\ Freed(i).nlink = 0
    <3>1. /\ NoEntry \in [ref : Nat, valid : BOOLEAN, type : Kinds, nlink : Int]
           /\ ~NoEntry.valid /\ NoEntry.nlink = 0
      BY DEF NoEntry, Kinds
    <3>2. itable[i].ref \in Nat
      BY <1>1, PutIs
    <3> QED BY <3>1, <3>2 DEF Freed
  <2>2. itable \in ItableType
    BY PointersOf DEF DataTypes, ItableType
  <2> QED BY <1>1, <2>1, <2>2 DEF ItableType, SameRefs
<1>6. /\ dinode' \in DinodeType /\ dinode'[i] = Free
      /\ \A j \in Inum \ {i} : dinode'[j] = dinode[j]
  <2>1. Free \in Dinode
    BY NoEnts DEF Free, Dinode, Kinds
  <2> QED BY <1>1, <2>1, PointersOf, OneDinode
<1>7. DataTypes'
  BY <1>1, <1>5, <1>6, PointersOf, DataIs, LockType
<1>8. CallOK(p)'
  <2>1. LocalsOK(m)
    BY <1>1, <1>2, <1>3 DEF CallOK, LocalsOK, Linking
  <2> QED BY <2>1, <1>1, <1>2, <1>3 DEF CallOK
<1>9. Apart(m) /\ LockOK(p)
  BY <1>1, <1>3, PointersOf DEF Apart, LockOK, Locking, DataTypes
<1>10. RefOK(p)
  <2>1. \A j : Count(cwd'[p], opened'[p], m, j) = Count(cwd[p], opened[p], l, j)
    BY <1>1, <1>3, Zenon DEF Count, Puts
  <2> QED BY <1>5, <2>1 DEF RefOK, SameRefs
<1> QED BY <1>1, <1>3, <1>4, <1>5, <1>6, <1>7, <1>8, <1>9, <1>10, PointerStep DEF IputFreeDone

IputDropDone(p, i) ==
    LET l == c[p]
        m == c'[p]
    IN /\ l.puts # <<>> /\ i = Head(l.puts)
       /\ l.put = "drop" \/ (l.put = "test" /\ ~LastUse(i))
       /\ UNCHANGED <<dinode, lock, cwd, opened>>
       /\ m.pc = l.pc /\ m.op = l.op /\ m.path = l.path
       /\ m.cur = l.cur /\ m.ip = l.ip /\ m.new = l.new
       /\ m.puts = Tail(l.puts) /\ m.put = "test"
       /\ itable' \in ItableType
       /\ \A j \in Inum \ {i} : itable'[j] = itable[j]
       /\ itable'[i].ref = itable[i].ref - 1
       /\ itable[i].ref = 1 => ~itable'[i].valid /\ itable'[i].nlink = 0
       /\ itable[i].ref # 1 =>
              /\ itable'[i].valid = itable[i].valid /\ itable'[i].type = itable[i].type
              /\ itable'[i].nlink = itable[i].nlink
       /\ Alone(p) /\ RefOK(p) /\ PointerInv'

\* ... and gives its reference back.
LEMMA IputDropStep ==
    ASSUME PointerInv, NEW p \in Proc, NEW i \in Inum, IputDrop(p, i), UNCHANGED opened
    PROVE  IputDropDone(p, i)
<1> DEFINE l == c[p]
           m == c'[p]
           e == Dropped(itable[i])
<1>1. /\ l.puts # <<>> /\ i = Head(l.puts)
      /\ l.put = "drop" \/ (l.put = "test" /\ ~LastUse(i))
      /\ itable' = [itable EXCEPT ![i] = e]
      /\ UNCHANGED <<dinode, lock, cwd, opened>>
      /\ Locals(p, [puts |-> Tail(l.puts), put |-> "test"])
  BY DEF IputDrop, Putting
<1>2. CallOK(p) /\ DOMAIN l = DOMAIN NoCall
  BY PointersOf DEF CallOK, LocalsOK
<1>3. /\ m.pc = l.pc /\ m.op = l.op /\ m.path = l.path
      /\ m.cur = l.cur /\ m.ip = l.ip /\ m.new = l.new
      /\ m.puts = Tail(l.puts) /\ m.put = "test"
      /\ DOMAIN m = DOMAIN NoCall
  <2>1. m = Updated(l, [puts |-> Tail(l.puts), put |-> "test"])
    BY <1>1, PointersOf DEF Locals
  <2> QED BY <1>2, <2>1 DEF Updated, NoCall
<1>4. Alone(p)
  BY <1>1, PointersOf, LocalsAlone
<1>5. /\ itable' \in ItableType
      /\ \A j \in Inum \ {i} : itable'[j] = itable[j]
      /\ itable'[i].ref = itable[i].ref - 1
      /\ itable[i].ref = 1 => ~itable'[i].valid /\ itable'[i].nlink = 0
      /\ itable[i].ref # 1 =>
             /\ itable'[i].valid = itable[i].valid /\ itable'[i].type = itable[i].type
             /\ itable'[i].nlink = itable[i].nlink
  <2>1. itable \in ItableType /\ itable[i].ref \in Nat /\ itable[i].ref >= 1
    BY <1>1, PointersOf, PutIs DEF DataTypes, ItableType
  <2>2. /\ e \in [ref : Nat, valid : BOOLEAN, type : Kinds, nlink : Int]
        /\ e.ref = itable[i].ref - 1
        /\ itable[i].ref = 1 => ~e.valid /\ e.nlink = 0
        /\ itable[i].ref # 1 => e.valid = itable[i].valid /\ e.type = itable[i].type
                                /\ e.nlink = itable[i].nlink
    <3>1. CASE itable[i].ref = 1
      BY <2>1, <3>1 DEF NoEntry, Kinds, Dropped
    <3>2. CASE itable[i].ref # 1
      BY <2>1, <3>2, SMTT(30) DEF ItableType, Dropped
    <3> QED BY <3>1, <3>2
  <2> HIDE DEF e
  <2> QED BY <1>1, <2>1, <2>2 DEF ItableType
<1>6. DataTypes'
  BY <1>1, <1>5, PointersOf, DataIs, DiskSame
<1>7. /\ Tail(l.puts) \in Seq(Inum) /\ Len(Tail(l.puts)) <= 2
      /\ l.puts \in Seq(Inum) /\ l.puts[1] = i /\ Len(l.puts) \in {1, 2}
      /\ Len(Tail(l.puts)) = Len(l.puts) - 1
      /\ Len(l.puts) = 2 => Tail(l.puts)[1] = l.puts[2]
  <2>1. l.puts \in Seq(Inum) /\ Len(l.puts) <= 2
    BY <1>2 DEF CallOK, LocalsOK
  <2>2. Len(l.puts) \in {1, 2} /\ l.puts[1] = i
    BY <1>1, PutIs
  <2> QED BY <1>1, <2>1, <2>2, TailIs
<1>8. CallOK(p)'
  <2>1. LocalsOK(m)
    BY <1>1, <1>2, <1>3, <1>7 DEF CallOK, LocalsOK, Linking
  <2> QED BY <2>1, <1>1, <1>2, <1>3 DEF CallOK
<1>9. Apart(m) /\ LockOK(p)
  <2>1. \A j \in Inum : Locking(m, j) = Locking(l, j)
    BY <1>1, <1>3 DEF Locking
  <2> QED BY <1>1, <1>3, <2>1, PointersOf DEF Apart, LockOK
<1>10. RefOK(p)
  <2> SUFFICES ASSUME NEW j \in Inum
               PROVE  itable'[j].ref + Count(cwd[p], opened[p], l, j)
                          = itable[j].ref + Count(cwd'[p], opened'[p], m, j)
    BY DEF RefOK
  <2>1. /\ Puts(l, 1, j) <=> i = j
        /\ Puts(m, 1, j) <=> Puts(l, 2, j)
        /\ ~Puts(m, 2, j)
    BY <1>3, <1>7 DEF Puts
  <2>2. \A k : Puts(l, k, j) \in BOOLEAN /\ Puts(m, k, j) \in BOOLEAN
    BY DEF Puts
  <2>3. Count(cwd[p], opened[p], l, j) = Count(cwd'[p], opened'[p], m, j) + B(i = j)
    BY <1>1, <1>3, <2>1, <2>2 DEF Count, B
  <2>4. itable[j].ref \in Nat /\ itable'[j].ref \in Nat
    BY <1>5, PointersOf DEF DataTypes, ItableType
  <2>5. itable'[j].ref + B(i = j) = itable[j].ref
    BY <1>5, <2>4 DEF B
  <2>6. Count(cwd'[p], opened'[p], m, j) \in Nat /\ B(i = j) \in Nat
    BY CountIs DEF B
  <2> QED BY <2>3, <2>4, <2>5, <2>6
<1> QED BY <1>1, <1>3, <1>4, <1>5, <1>6, <1>8, <1>9, <1>10, PointerStep DEF IputDropDone
-----------------------------------------------------------------------------
(***************************************************************************)
(* Every action keeps it.                                                  *)
(***************************************************************************)
Stays == UNCHANGED <<inodeVars, cwd, c, opened>>

\* The start of a call keeps the invariant; a panic changes nothing else.
LEMMA StartPointers ==
    ASSUME PointerInv, NEW p \in Proc, Start(p)
    PROVE  PointerInv'
<1>1. PICK call \in Calls :
          LET i == StartOf(p, call.path)
          IN IF IgetPanics(i)
             THEN panic' = "iget: no inodes" /\ UNCHANGED <<itable, c>>
             ELSE /\ itable' = [itable EXCEPT ![i].ref = @ + 1]
                  /\ Walk(p, call.op, call.path, None, call.new)
                  /\ UNCHANGED panic
  BY Zenon DEF Start
<1>2. At(p, "idle") /\ UNCHANGED <<dinode, lock, cwd, opened>>
  BY Zenon DEF Start
<1>3. CASE IgetPanics(StartOf(p, call.path))
  <2>1. Stays
    BY <1>1, <1>2, <1>3, Zenon DEF Stays, inodeVars
  <2> QED BY <2>1, PointersStay DEF Stays
<1>4. CASE ~IgetPanics(StartOf(p, call.path))
  <2>1. /\ itable' = [itable EXCEPT ![StartOf(p, call.path)].ref = @ + 1]
        /\ Walk(p, call.op, call.path, None, call.new)
    BY <1>1, <1>4
  <2>2. CASE call.path.elems # <<>>
    BY <1>2, <1>4, <2>1, <2>2, StartWalkStep DEF StartWalkDone
  <2>3. CASE call.path.elems = <<>> /\ ~WantsParent(call.op)
    BY <1>2, <1>4, <2>1, <2>3, StartHereStep DEF StartHereDone
  <2>4. CASE call.path.elems = <<>> /\ WantsParent(call.op)
    BY <1>2, <1>4, <2>1, <2>4, StartNoneStep DEF StartNoneDone
  <2> QED BY <2>2, <2>3, <2>4
<1> QED BY <1>3, <1>4

\* So does each element of a path, ...
LEMMA NamexPointers ==
    ASSUME PointerInv, NEW p \in Proc, NEW i \in Inum, NamexStep(p, i)
    PROVE  PointerInv'
<1>1. UNCHANGED opened
  BY DEF NamexStep
<1>2. CASE NamexFail(p, i)
  BY <1>1, <1>2, NamexFailStep DEF NamexFailDone
<1>3. CASE NamexParent(p, i)
  BY <1>1, <1>3, NamexParentStep DEF NamexParentDone
<1>4. CASE NamexDescend(p, i) /\ IgetPanics(dinode[i].ents[Head(c[p].path)])
  <2>1. Stays
    BY <1>1, <1>4, ZenonT(60) DEF NamexDescend, Stays, inodeVars
  <2> QED BY <2>1, PointersStay DEF Stays
<1>5. CASE NamexDescend(p, i) /\ ~IgetPanics(dinode[i].ents[Head(c[p].path)])
  BY <1>1, <1>5, NamexDescendStep DEF NamexDescendDone
<1> QED BY <1>2, <1>3, <1>4, <1>5 DEF NamexStep

\* ... each step of link(), ...
LEMMA LinkPointers ==
    ASSUME PointerInv, NEW p \in Proc,
           LinkIp(p) \/ LinkExists(p) \/ LinkBadDp(p) \/ LinkDp(p) \/ LinkBad(p)
    PROVE  PointerInv'
<1>1. CASE LinkIp(p)
  <2>1. CASE Loaded(c[p].cur).type = "dir"
    BY <1>1, <2>1, LinkIpDirStep DEF LinkIpDirDone
  <2>2. CASE Loaded(c[p].cur).type # "dir" /\ IgetPanics(StartOf(p, c[p].new))
    <3>1. Stays
      BY <1>1, <2>2, Zenon DEF LinkIp, Stays, inodeVars
    <3> QED BY <3>1, PointersStay DEF Stays
  <2>3. CASE Loaded(c[p].cur).type # "dir" /\ ~IgetPanics(StartOf(p, c[p].new))
    <3>1. CASE c[p].new.elems # <<>>
      BY <1>1, <2>3, <3>1, LinkIpWalkStep DEF LinkIpWalkDone
    <3>2. CASE c[p].new.elems = <<>>
      BY <1>1, <2>3, <3>2, LinkIpNoneStep DEF LinkIpNoneDone
    <3> QED BY <3>1, <3>2
  <2> QED BY <2>1, <2>2, <2>3
<1>2. CASE LinkExists(p)
  <2>1. CASE IgetPanics(dinode[c[p].cur].ents[c[p].path[1]])
    <3>1. Stays
      BY <1>2, <2>1, ZenonT(60) DEF LinkExists, Stays, inodeVars
    <3> QED BY <3>1, PointersStay DEF Stays
  <2>2. CASE ~IgetPanics(dinode[c[p].cur].ents[c[p].path[1]])
    BY <1>2, <2>2, LinkExistsStep DEF LinkExistsDone
  <2> QED BY <2>1, <2>2
<1>3. CASE LinkBadDp(p)
  BY <1>3, LinkBadDpStep DEF LinkBadDpDone
<1>4. CASE LinkDp(p)
  <2>1. CASE c'[p].puts = <<c[p].cur>>
    BY <1>4, <2>1, LinkNoBlockStep DEF LinkNoBlockDone
  <2>2. CASE c'[p].puts # <<c[p].cur>>
    BY <1>4, <2>2, LinkDpStep DEF LinkDpDone
  <2> QED BY <2>1, <2>2
<1>5. CASE LinkBad(p)
  BY <1>5, LinkBadStep DEF LinkBadDone
<1> QED BY <1>1, <1>2, <1>3, <1>4, <1>5

\* ... of unlink(), ...
LEMMA UnlinkPointers ==
    ASSUME PointerInv, NEW p \in Proc,
           UnlinkDp(p) \/ UnlinkRefused(p) \/ UnlinkBad(p) \/ UnlinkIp(p) \/ UnlinkDrop(p)
    PROVE  PointerInv'
<1>1. CASE UnlinkDp(p)
  <2>1. CASE c[p].path[1] \in {".", ".."} \/ c[p].path[1] \notin DOMAIN dinode[c[p].cur].ents
    BY <1>1, <2>1, UnlinkNoneStep DEF UnlinkNoneDone
  <2>2. CASE /\ c[p].path[1] \notin {".", ".."} /\ c[p].path[1] \in DOMAIN dinode[c[p].cur].ents
             /\ IgetPanics(dinode[c[p].cur].ents[c[p].path[1]])
    <3>1. Stays
      BY <1>1, <2>2, ZenonT(60) DEF UnlinkDp, Stays, inodeVars
    <3> QED BY <3>1, PointersStay DEF Stays
  <2>3. CASE /\ c[p].path[1] \notin {".", ".."} /\ c[p].path[1] \in DOMAIN dinode[c[p].cur].ents
             /\ ~IgetPanics(dinode[c[p].cur].ents[c[p].path[1]])
    BY <1>1, <2>3, UnlinkDpStep DEF UnlinkDpDone
  <2> QED BY <2>1, <2>2, <2>3
<1>2. CASE UnlinkRefused(p)
  BY <1>2, UnlinkRefusedStep DEF UnlinkRefusedDone
<1>3. CASE UnlinkBad(p)
  BY <1>3, UnlinkBadStep DEF UnlinkBadDone
<1>4. CASE UnlinkIp(p) /\ Loaded(c[p].ip).nlink < 1
  <2>1. Stays
    BY <1>4, Zenon DEF UnlinkIp, Stays
  <2> QED BY <2>1, PointersStay DEF Stays
<1>5. CASE UnlinkIp(p) /\ ~(Loaded(c[p].ip).nlink < 1)
  <2>1. Loaded(c[p].ip).nlink >= 1
    <3>1. c[p].pc = "unlink_ip" /\ c[p].ip \in Inum
      BY <1>5, PointersOf DEF UnlinkIp, At, CallOK, LocalsOK, AtIp
    <3>2. Loaded(c[p].ip).nlink \in Int
      BY <3>1, LoadedIs, PointersOf
    <3> QED BY <1>5, <3>2
  <2> QED BY <1>5, <2>1, UnlinkIpStep DEF UnlinkIpDone
<1>6. CASE UnlinkDrop(p)
  BY <1>6, UnlinkDropStep DEF UnlinkDropDone
<1> QED BY <1>1, <1>2, <1>3, <1>4, <1>5, <1>6

\* ... of create(), ...
LEMMA CreatePointers ==
    ASSUME PointerInv, NEW p \in Proc,
           \/ CreateExists(p) \/ CreateFound(p) \/ CreateAlloc(p)
           \/ CreateNew(p) \/ CreateFails(p) \/ CreatePut(p)
    PROVE  PointerInv'
<1>1. CASE CreateExists(p)
  <2>1. CASE IgetPanics(dinode[c[p].cur].ents[c[p].path[1]])
    <3>1. Stays
      BY <1>1, <2>1, ZenonT(60) DEF CreateExists, Stays, inodeVars
    <3> QED BY <3>1, PointersStay DEF Stays
  <2>2. CASE ~IgetPanics(dinode[c[p].cur].ents[c[p].path[1]])
    BY <1>1, <2>2, CreateExistsStep DEF CreateExistsDone
  <2> QED BY <2>1, <2>2
<1>2. CASE CreateFound(p)
  BY <1>2, CreateOpenStep, CreateFoundStep DEF CreateOpenDone, CreateFoundDone
<1>3. CASE CreateAlloc(p)
  <2> DEFINE i == CHOOSE j \in FreeInums : \A k \in FreeInums : j <= k
  <2>1. CASE FreeInums = {}
    BY <1>3, <2>1, CreateNoneStep DEF CreateNoneDone
  <2>2. CASE FreeInums # {} /\ IgetPanics(i)
    <3>1. Stays
      BY <1>3, <2>2, Zenon DEF CreateAlloc, Stays
    <3> QED BY <3>1, PointersStay DEF Stays
  <2>3. CASE FreeInums # {} /\ ~IgetPanics(i)
    BY <1>3, <2>3, CreateAllocStep DEF CreateAllocDone
  <2> QED BY <2>1, <2>2, <2>3
<1>4. CASE CreateNew(p)
  BY <1>4, CreateNewStep DEF CreateNewDone
<1>5. CASE CreateFails(p)
  BY <1>5, CreateFailsStep DEF CreateFailsDone
<1>6. CASE CreatePut(p)
  BY <1>6, CreatePutStep DEF CreatePutDone
<1> QED BY <1>1, <1>2, <1>3, <1>4, <1>5, <1>6

\* ... of open(), chdir(), close() and exit().
LEMMA OpenPointers ==
    ASSUME PointerInv, NEW p \in Proc,
           OpenIp(p) \/ OpenFile(p) \/ ChdirIp(p) \/ Close(p) \/ exit(p)
    PROVE  PointerInv'
<1>1. CASE OpenIp(p)
  BY <1>1, OpenDirStep, OpenIpStep DEF OpenDirDone, OpenIpDone
<1>2. CASE OpenFile(p)
  BY <1>2, OpenFileStep, OpenNoneStep DEF OpenFileDone, OpenNoneDone
<1>3. CASE ChdirIp(p)
  BY <1>3, ChdirDirStep, ChdirFileStep DEF ChdirDirDone, ChdirFileDone
<1>4. CASE Close(p)
  BY <1>4, CloseStep DEF CloseDone
<1>5. CASE exit(p)
  BY <1>5, exitStep DEF exitDone
<1> QED BY <1>1, <1>2, <1>3, <1>4, <1>5

\* Every step keeps it.
LEMMA NextPointers ==
    ASSUME PointerInv, [Next]_vars
    PROVE  PointerInv'
<1>1. CASE UNCHANGED vars
  <2>1. Stays
    BY <1>1 DEF vars, Stays
  <2> QED BY <2>1, PointersStay DEF Stays
<1>2. ASSUME NEW p \in Proc, IlockStep(p) PROVE PointerInv'
  <2>1. CASE Loaded(Wants(p)).type = "free"
    <3>1. Stays
      BY <1>2, <2>1, Zenon DEF IlockStep, Stays
    <3> QED BY <3>1, PointersStay DEF Stays
  <2>2. CASE Loaded(Wants(p)).type # "free"
    BY <1>2, <2>2, NamexPointers, LinkPointers, UnlinkPointers, CreatePointers, OpenPointers
       DEF IlockStep
  <2> QED BY <2>1, <2>2
<1>3. ASSUME NEW p \in Proc, NEW i \in Inum, IputStep(p, i) PROVE PointerInv'
  BY <1>3, IputLastStep, IputFreeStep, IputDropStep
     DEF IputStep, IputLastDone, IputFreeDone, IputDropDone
<1>4. ASSUME NEW p \in Proc, NEW q \in Proc \cup {Init1}, fork(q, p) PROVE PointerInv'
  BY <1>4, forkStep DEF forkDone
<1>5. CASE Next
  BY <1>2, <1>3, <1>4, <1>5, StartPointers, LinkPointers, UnlinkPointers, CreatePointers,
     OpenPointers DEF Next
<1> QED BY <1>1, <1>5

\* It holds at the start, when init alone has a pointer, to the root.
LEMMA InitPointers == Init => PointerInv
<1> SUFFICES ASSUME Init PROVE PointerInv
  OBVIOUS
<1>1. Free \in Dinode /\ RootDir \in Dinode
  <2>1. <<>> \in Ents
    BY NoEnts
  <2>2. Entered(<<>>, "..", ROOTINO) \in Ents
    BY <2>1, EnteredType, InodesAssumption DEF Names
  <2>3. Dots(ROOTINO, ROOTINO) \in Ents
    BY <2>2, EnteredType, InodesAssumption DEF Names, Dots
  <2> QED BY <2>1, <2>3 DEF Free, RootDir, Dinode, Kinds
<1>2. DataTypes
  <2>1. dinode \in [Inum -> Dinode]
    BY <1>1 DEF Init
  <2>2. itable \in [Inum -> [ref : Nat, valid : BOOLEAN, type : Kinds, nlink : Int]]
    BY DEF Init, NoEntry, Kinds
  <2> QED BY <2>1, <2>2, InodesAssumption DEF Init, DataTypes, Dinode
<1> DEFINE l == [NoCall EXCEPT !.pc = "unused"]
<1>3. /\ l.pc = "unused" /\ l.op = None /\ l.path = <<>> /\ l.cur = None /\ l.ip = None
      /\ l.new = None /\ l.puts = <<>> /\ l.put = "test" /\ DOMAIN l = DOMAIN NoCall
  BY DEF NoCall
<1> HIDE DEF l
<1>4. \A p \in Proc : c[p] = l
  BY DEF Init, l
<1>5. LocalsOK(l)
  BY <1>3 DEF LocalsOK, PCs, AtCur, AtIp, AtLast, Linking
<1>6. CallInv
  BY <1>3, <1>4, <1>5, TreeAssumption, InodesAssumption DEF Init, CallInv
<1>7. LockInv
  <2>1. \A p \in Proc, i \in Inum : lock[i] # p
    BY InodesAssumption DEF Init
  <2>2. \A p \in Proc, i \in Inum : ~Locking(c[p], i)
    BY <1>3, <1>4 DEF Locking, LockCur, LockIp
  <2> QED BY <1>3, <1>4, <2>1, <2>2 DEF LockInv
<1>8. RefExact
  <2> SUFFICES ASSUME NEW i \in Inum PROVE itable[i].ref = Cardinality(Pointers(i))
    BY DEF RefExact
  <2>5. \A p \in Proc : opened[p] # i
    BY InodesAssumption DEF Init
  <2>6. \A p \in Proc : c[p].cur # i /\ c[p].ip # i
    BY <1>3, <1>4, InodesAssumption
  <2>1. \A p \in Proc : opened[p] # i /\ c[p].cur # i /\ c[p].ip # i /\ DOMAIN c[p].puts = {}
    BY <1>3, <1>4, <2>5, <2>6, NoEnts
  <2>2. Pointers(i) = {<<"cwd", p>> : p \in {q \in DOMAIN cwd : cwd[q] = i}}
    BY <2>1 DEF Pointers
  <2>3. CASE i = ROOTINO
    <3>1. {q \in DOMAIN cwd : cwd[q] = i} = {Init1}
      BY <2>3, InodesAssumption DEF Init
    <3>2. Pointers(i) = {<<"cwd", Init1>>}
      BY <2>2, <3>1
    <3>3. Cardinality(Pointers(i)) = 1
      BY <3>2, FS_Singleton
    <3> QED BY <2>3, <3>3 DEF Init
  <2>4. CASE i # ROOTINO
    <3>1. {q \in DOMAIN cwd : cwd[q] = i} = {}
      BY <2>4, InodesAssumption DEF Init
    <3>2. Pointers(i) = {}
      BY <2>2, <3>1
    <3> QED BY <2>4, <3>2, FS_EmptySet DEF Init, NoEntry
  <2> QED BY <2>3, <2>4
<1> QED BY <1>2, <1>6, <1>7, <1>8 DEF PointerInv

\* What holds whatever ".." names: the locals of each system call are what
\* its place in the code says, ilock() and iunlock() take and let go of the
\* inode locks that it says, and every reference is counted.
THEOREM PointersRight == Spec => []PointerInv
<1>1. Init => PointerInv
  BY InitPointers
<1>2. PointerInv /\ [Next]_vars => PointerInv'
  BY NextPointers
<1> QED BY <1>1, <1>2, PTL DEF Spec

\* ip->ref is the number of pointers to the entry: no call, whatever fails in
\* it and whoever runs beside it, loses or forgets a reference.
THEOREM RefIsExact == Spec => []RefExact
<1>1. PointerInv => RefExact
  BY DEF PointerInv
<1> QED BY <1>1, PointersRight, PTL

\* Two pointers to an inode.
LEMMA TwoPointers ==
    ASSUME PointerInv, NEW i \in Inum, NEW a \in Pointers(i), NEW b \in Pointers(i), a # b
    PROVE  itable[i].ref # 1
<1> SUFFICES ASSUME itable[i].ref = 1 PROVE FALSE
  OBVIOUS
<1>1. Cardinality(Pointers(i)) = 1
  BY DEF PointerInv, RefExact
<1>2. IsFiniteSet(Pointers(i))
  BY PointersFinite DEF PointerInv
<1>3. PICK x : Pointers(i) = {x}
  BY <1>1, <1>2, FS_Singleton
<1> QED BY <1>3

\* Nobody has the inode locked whose last reference is being put.
LEMMA LastUseAlone ==
    ASSUME PointerInv, NEW p \in Proc, NEW i \in Inum,
           c[p].puts # <<>>, i = Head(c[p].puts), c[p].put = "test", itable[i].ref = 1
    PROVE  lock[i] = None
<1> SUFFICES ASSUME lock[i] # None PROVE FALSE
  OBVIOUS
<1>2. PICK q \in Proc : lock[i] = q
  BY DEF PointerInv, DataTypes
<1>3. Locking(c[q], i)
  BY <1>2, PointersOf
<1>4. <<"put", p, 1>> \in Pointers(i)
  BY PutIs DEF Pointers, Puts
<1>5. CASE c[q].cur = i \/ c[q].ip = i
  <2>1. <<"cur", q>> \in Pointers(i) \/ <<"ip", q>> \in Pointers(i)
    BY <1>5 DEF Pointers
  <2> QED BY <1>4, <2>1, TwoPointers
<1>6. CASE c[q].puts # <<>> /\ c[q].put = "free" /\ Head(c[q].puts) = i
  <2>1. <<"put", q, 1>> \in Pointers(i)
    BY <1>6, PutIs DEF Pointers, Puts
  <2>2. p # q
    BY <1>6
  <2> QED BY <1>4, <2>1, <2>2, TwoPointers
<1> QED BY <1>3, <1>5, <1>6 DEF Locking

\* iput() finds the inode unlocked that nobody else refers to.
LEMMA PutsAlone ==
    ASSUME PointerInv
    PROVE  IputNeverBlocks
  BY LastUseAlone DEF IputNeverBlocks, Putting, LastUse

\* fs.c, in iput(): ip->ref == 1 means no other process can have ip locked, so
\* the sleep lock it takes with itable.lock held is free.
THEOREM IputFindsItFree == Spec => []IputNeverBlocks
<1>1. PointerInv => IputNeverBlocks
  BY PutsAlone
<1> QED BY <1>1, PointersRight, PTL
-----------------------------------------------------------------------------
(***************************************************************************)
(* Finite sets, in this state and in the next.                             *)
(***************************************************************************)
LEMMA CardLe ==
    ASSUME NEW S, IsFiniteSet(S), NEW T, T \subseteq S
    PROVE  /\ IsFiniteSet(T) /\ Cardinality(T) \in Nat /\ Cardinality(S) \in Nat
           /\ Cardinality(T) <= Cardinality(S)
<1>1. IsFiniteSet(T) /\ Cardinality(T) <= Cardinality(S)
  BY FS_Subset
<1> QED BY <1>1, FS_CardinalityType

\* A set grows by an element at most, ...
LEMMA CardAdd ==
    ASSUME NEW S, IsFiniteSet(S), NEW x, NEW T, T \subseteq S \cup {x}
    PROVE  Cardinality(T) <= Cardinality(S) + 1
<1>1. IsFiniteSet(S \cup {x})
  BY FS_AddElement
<1>2. Cardinality(S \cup {x}) <= Cardinality(S) + 1
  <2>1. Cardinality(S) \in Nat
    BY FS_CardinalityType
  <2>2. Cardinality(S \cup {x}) = Cardinality(S) \/ Cardinality(S \cup {x}) = Cardinality(S) + 1
    BY FS_AddElement
  <2> QED BY <2>1, <2>2
<1>3. /\ Cardinality(T) <= Cardinality(S \cup {x})
      /\ Cardinality(T) \in Nat /\ Cardinality(S \cup {x}) \in Nat
  BY <1>1, CardLe
<1>4. Cardinality(S) \in Nat
  BY FS_CardinalityType
<1> QED BY <1>2, <1>3, <1>4

\* ... or loses one at least.
LEMMA CardDel ==
    ASSUME NEW S, IsFiniteSet(S), NEW x \in S, NEW T, T \subseteq S \ {x}
    PROVE  Cardinality(T) + 1 <= Cardinality(S)
<1>1. IsFiniteSet(S \ {x}) /\ Cardinality(S \ {x}) = Cardinality(S) - 1
  BY FS_RemoveElement
<1>2. /\ Cardinality(T) <= Cardinality(S \ {x})
      /\ Cardinality(T) \in Nat /\ Cardinality(S \ {x}) \in Nat
  BY <1>1, CardLe
<1>3. Cardinality(S) \in Nat
  BY FS_CardinalityType
<1> QED BY <1>1, <1>2, <1>3

LinksFinite == DataTypes => \A i \in Inum :
    IsFiniteSet(EntriesOf(i)) /\ IsFiniteSet(Subdirs(i)) /\ IsFiniteSet(Pending(i))

\* The names, subdirectories and links under way of an inode are finitely many.
LEMMA LinksFiniteHolds == LinksFinite /\ LinksFinite'
<1>1. LinksFinite
  <2> SUFFICES ASSUME DataTypes, NEW i \in Inum
               PROVE  IsFiniteSet(EntriesOf(i)) /\ IsFiniteSet(Subdirs(i)) /\ IsFiniteSet(Pending(i))
    BY DEF LinksFinite
  <2>1. \A d \in Inum : IsFiniteSet(Name(d))
    <3> TAKE d \in Inum
    <3>1. dinode[d].ents \in Ents
      BY DEF DataTypes
    <3>2. IsFiniteSet(DOMAIN dinode[d].ents)
      BY <3>1, EntsHave
    <3> QED BY <3>2, FS_Difference DEF Name
  <2>2. IsFiniteSet(Inum) /\ IsFiniteSet(Proc)
    BY InodesAssumption
  <2> DEFINE N == {Name(d) : d \in Inum}
             f == [d \in Inum |-> Name(d)]
  <2>3. IsFiniteSet(N)
    <3>1. f \in Surjection(Inum, N)
      BY DEF Surjection
    <3> HIDE DEF f, N
    <3> QED BY <2>2, <3>1, FS_Surjection
  <2>4. \A T \in N : IsFiniteSet(T)
    BY <2>1
  <2> HIDE DEF N, f
  <2>5. IsFiniteSet(UNION N)
    BY <2>3, <2>4, FS_UNION
  <2>6. IsFiniteSet(Inum \X UNION N)
    BY <2>2, <2>5, FS_Product
  <2>7. EntriesOf(i) \subseteq Inum \X UNION N
    BY DEF EntriesOf, N
  <2>8. Subdirs(i) \subseteq Name(i) /\ Pending(i) \subseteq Proc
    BY DEF Subdirs, Pending
  <2> QED BY <2>1, <2>2, <2>6, <2>7, <2>8, FS_Subset
<1> QED BY <1>1, PTL

\* The three numbers that make Links(i).
LEMMA LinksAre ==
    ASSUME DataTypes, NEW i \in Inum
    PROVE  /\ IsFiniteSet(EntriesOf(i)) /\ IsFiniteSet(Subdirs(i)) /\ IsFiniteSet(Pending(i))
           /\ Cardinality(EntriesOf(i)) \in Nat /\ Cardinality(Subdirs(i)) \in Nat
           /\ Cardinality(Pending(i)) \in Nat
  BY LinksFiniteHolds, FS_CardinalityType DEF LinksFinite

\* The same after a step.
LEMMA LinksAreNext ==
    ASSUME DataTypes', NEW i \in Inum
    PROVE  /\ Cardinality(EntriesOf(i)') \in Nat /\ Cardinality(Subdirs(i)') \in Nat
           /\ Cardinality(Pending(i)') \in Nat
  BY LinksFiniteHolds, FS_CardinalityType DEF LinksFinite

\* An inode with a name, or a link that is counted, has a positive link count.
LEMMA LinkPositive ==
    ASSUME DataTypes, LinkInv, NEW i \in Inum,
           EntriesOf(i) # {} \/ Pending(i) # {} \/ Subdirs(i) # {} \/ i = ROOTINO
    PROVE  dinode[i].nlink >= 1
<1> DEFINE e == Cardinality(EntriesOf(i))
           s == Cardinality(Subdirs(i))
           q == Cardinality(Pending(i))
           r == IF i = ROOTINO THEN 1 ELSE 0
<1>1. e \in Nat /\ s \in Nat /\ q \in Nat
  BY LinksAre
<1>2. e # 0 \/ s # 0 \/ q # 0 \/ i = ROOTINO
  BY LinksAre, FS_EmptySet
<1>3. dinode[i].nlink \in Int /\ dinode[i].nlink >= e + s + q + r
  BY DEF LinkInv, Links, DataTypes
<1> HIDE DEF e, s, q
<1> QED BY <1>1, <1>2, <1>3

\* Link counts are not negative, and an inode with count 0 has no name.
LEMMA LinkNatural ==
    ASSUME DataTypes, LinkInv, NEW i \in Inum
    PROVE  /\ dinode[i].nlink \in Nat
           /\ dinode[i].nlink = 0 => /\ EntriesOf(i) = {} /\ Pending(i) = {} /\ Subdirs(i) = {}
                                     /\ i # ROOTINO
<1> DEFINE e == Cardinality(EntriesOf(i))
           s == Cardinality(Subdirs(i))
           q == Cardinality(Pending(i))
           r == IF i = ROOTINO THEN 1 ELSE 0
<1>1. e \in Nat /\ s \in Nat /\ q \in Nat
  BY LinksAre
<1>2. dinode[i].nlink \in Int /\ dinode[i].nlink >= e + s + q + r
  BY DEF LinkInv, Links, DataTypes
<1>3. dinode[i].nlink \in Nat
  <2> HIDE DEF e, s, q
  <2> QED BY <1>1, <1>2
<1>4. dinode[i].nlink = 0 => e + s + q + r <= 0
  BY <1>1, <1>2
<1> QED BY <1>3, <1>4, LinkPositive
-----------------------------------------------------------------------------
(***************************************************************************)
(* What a step of p may do to the others: p changes the disk where p has a *)
(* pointer, the entries of what nobody else has locked, and takes new      *)
(* pointers to what has a link or is a current directory.                  *)
(***************************************************************************)
\* A pointer of p, but for the one an iput() has finished with.
Points(p, j) ==
    \/ cwd[p] = j \/ opened[p] = j \/ c[p].cur = j \/ c[p].ip = j
    \/ \E k \in 1 .. Len(c[p].puts) : c[p].puts[k] = j /\ ~(k = 1 /\ c[p].put = "drop")

\* The iput() under way has the only pointer.
Sole(p, j) == itable[j].ref = 1 /\ c[p].puts # <<>> /\ Head(c[p].puts) = j

Reach(j) == dinode[j].nlink >= 1 \/ \E r \in Proc \cup {Init1} : cwd[r] = j

\* The inode stays what it is, but for the entries of a directory p has locked.
Calm(p, j) ==
    /\ dinode'[j].type = dinode[j].type
    /\ HasDots(j) => HasDots(j)'
    /\ dinode'[j] # dinode[j] => c[p].cur = j \/ c[p].ip = j
    /\ dinode'[j].ents # dinode[j].ents => lock[j] \in {None, p}

FrameDisk(p) == \A j \in Inum : Calm(p, j) \/ dinode[j].type = "free" \/ Sole(p, j)

FrameValid(p) == \A j \in Inum :
    /\ ~Valid(j) /\ Valid(j)' => c[p].cur = j \/ c[p].ip = j
    /\ Valid(j) /\ ~Valid(j)' => Sole(p, j)

FramePoints(p) ==
    /\ \A j \in Inum : Points(p, j)' => Points(p, j) \/ Reach(j) \/ dinode[j].type = "free"
    /\ c'[p].puts # <<>> /\ c'[p].put = "drop" => Points(p, Head(c'[p].puts))

\* What a process uses is one of its pointers to the inode.
LEMMA PointsIn ==
    ASSUME PointerInv, NEW p \in Proc, NEW j \in Inum,
           Points(p, j) \/ (c[p].puts # <<>> /\ Head(c[p].puts) = j)
    PROVE  \E x \in Pointers(j) : \E s, k : x \in {<<s, p>>, <<"put", p, k>>}
<1>1. cwd[p] = j => <<"cwd", p>> \in Pointers(j)
  BY DEF PointerInv, DataTypes, Pointers
<1>2. opened[p] = j => <<"file", p>> \in Pointers(j)
  BY DEF Pointers
<1>3. c[p].cur = j => <<"cur", p>> \in Pointers(j)
  BY DEF Pointers
<1>4. c[p].ip = j => <<"ip", p>> \in Pointers(j)
  BY DEF Pointers
<1>5. \A k \in 1 .. Len(c[p].puts) : c[p].puts[k] = j => <<"put", p, k>> \in Pointers(j)
  <2>1. DOMAIN c[p].puts = 1 .. Len(c[p].puts)
    BY PointersOf DEF CallOK, LocalsOK
  <2> QED BY <2>1 DEF Pointers
<1>6. c[p].puts # <<>> /\ Head(c[p].puts) = j => <<"put", p, 1>> \in Pointers(j)
  BY PutIs DEF Pointers, Puts
<1> QED BY <1>1, <1>2, <1>3, <1>4, <1>5, <1>6 DEF Points

\* The only pointer is the only one.
LEMMA SoleIs ==
    ASSUME PointerInv, NEW p \in Proc, NEW j \in Inum, Sole(p, j)
    PROVE  /\ \A r \in Proc \cup {Init1} : cwd[r] # j
           /\ \A q \in Proc \ {p} : ~Points(q, j)
           /\ opened[p] # j /\ c[p].cur # j /\ c[p].ip # j
           /\ \A k \in 1 .. Len(c[p].puts) : c[p].puts[k] = j => k = 1
<1>1. <<"put", p, 1>> \in Pointers(j)
  BY PutIs DEF Pointers, Puts, Sole
<1>2. \A x \in Pointers(j) : x = <<"put", p, 1>>
  BY <1>1, TwoPointers DEF Sole
<1>3. \A r \in Proc \cup {Init1} : cwd[r] # j
  <2> SUFFICES ASSUME NEW r \in Proc \cup {Init1}, cwd[r] = j PROVE FALSE
    OBVIOUS
  <2>1. <<"cwd", r>> \in Pointers(j)
    BY DEF PointerInv, DataTypes, Pointers
  <2> QED BY <1>2, <2>1
<1>4. \A q \in Proc \ {p} : ~Points(q, j)
  <2> SUFFICES ASSUME NEW q \in Proc \ {p}, Points(q, j) PROVE FALSE
    OBVIOUS
  <2>1. PICK x \in Pointers(j) : \E s, k : x \in {<<s, q>>, <<"put", q, k>>}
    BY PointsIn
  <2> QED BY <1>2, <2>1
<1>5. opened[p] # j /\ c[p].cur # j /\ c[p].ip # j
  <2>1. opened[p] # j
    <3> SUFFICES ASSUME opened[p] = j PROVE FALSE
      OBVIOUS
    <3>1. <<"file", p>> \in Pointers(j)
      BY DEF Pointers
    <3> QED BY <1>2, <3>1
  <2>2. c[p].cur # j
    <3> SUFFICES ASSUME c[p].cur = j PROVE FALSE
      OBVIOUS
    <3>1. <<"cur", p>> \in Pointers(j)
      BY DEF Pointers
    <3> QED BY <1>2, <3>1
  <2>3. c[p].ip # j
    <3> SUFFICES ASSUME c[p].ip = j PROVE FALSE
      OBVIOUS
    <3>1. <<"ip", p>> \in Pointers(j)
      BY DEF Pointers
    <3> QED BY <1>2, <3>1
  <2> QED BY <2>1, <2>2, <2>3
<1>6. \A k \in 1 .. Len(c[p].puts) : c[p].puts[k] = j => k = 1
  <2> SUFFICES ASSUME NEW k \in 1 .. Len(c[p].puts), c[p].puts[k] = j PROVE k = 1
    OBVIOUS
  <2>1. k \in DOMAIN c[p].puts
    BY PointersOf DEF CallOK, LocalsOK
  <2>2. <<"put", p, k>> \in Pointers(j)
    BY <2>1 DEF Pointers
  <2> QED BY <1>2, <2>2
<1> QED BY <1>3, <1>4, <1>5, <1>6

\* What another process points to stays what it is.
LEMMA Lasts ==
    ASSUME PointerInv, NEW p \in Proc, FrameDisk(p), FrameValid(p), NEW j \in Inum,
           (\E q \in Proc \ {p} : Points(q, j)) \/ (\E r \in (Proc \cup {Init1}) \ {p} : cwd[r] = j)
    PROVE  /\ InUse(j) => Calm(p, j) /\ InUse(j)' /\ (IsDir(j)' <=> IsDir(j)) /\ (HasDots(j) => HasDots(j)')
           /\ Valid(j) => Valid(j)'
<1>1. ~Sole(p, j)
  BY SoleIs
<1> QED BY <1>1 DEF FrameDisk, FrameValid, Calm, InUse, IsDir

\* What another process uses stays allocated and what kind it is, ...
LEMMA FramePlace ==
    ASSUME PointerInv, NEW p \in Proc, FrameDisk(p), FrameValid(p), Alone(p),
           NEW q \in Proc, q # p, PlaceOK(q)
    PROVE  PlaceOK(q)'
<1>1. c'[q] = c[q] /\ opened'[q] = opened[q]
  BY DEF Alone
<1>2. LocalsOK(c[q]) /\ opened[q] \in Inum \cup {None}
  BY PointersOf DEF CallOK, DataTypes
<1>3. \A j \in Inum : Points(q, j) /\ InUse(j) =>
          InUse(j)' /\ (IsDir(j)' <=> IsDir(j)) /\ (HasDots(j) => HasDots(j)')
  BY Lasts
<1>4. \A j \in Inum : Points(q, j) /\ Valid(j) => Valid(j)'
  BY Lasts
<1>5. opened'[q] # None => Valid(opened[q])' /\ InUse(opened[q])'
  BY <1>1, <1>2, <1>3, <1>4 DEF Points, PlaceOK, Valid, InUse
<1> DEFINE l == c[q]
<1>6. l.cur # None => /\ dinode'[l.cur].type # "free"
                      /\ dinode'[l.cur].type = "dir" =>
                             {".", ".."} \subseteq DOMAIN dinode'[l.cur].ents
  <2> HAVE l.cur # None
  <2>1. l.cur \in Inum /\ Points(q, l.cur) /\ InUse(l.cur) /\ (IsDir(l.cur) => HasDots(l.cur))
    BY <1>2 DEF LocalsOK, Points, PlaceOK
  <2> HIDE DEF l
  <2> QED BY <1>3, <2>1 DEF InUse, IsDir, HasDots
<1>7. l.pc \in AtDir => dinode'[l.cur].type = "dir" /\ itable'[l.cur].valid
  <2> HAVE l.pc \in AtDir
  <2>1. l.cur \in Inum
    BY <1>2 DEF LocalsOK, AtDir, AtLast, AtCur
  <2>2. Points(q, l.cur) /\ IsDir(l.cur) /\ Valid(l.cur) /\ InUse(l.cur)
    BY DEF Points, PlaceOK, IsDir, InUse
  <2> HIDE DEF l
  <2> QED BY <1>3, <1>4, <2>1, <2>2 DEF IsDir, Valid
<1>8. l.ip # None => /\ dinode'[l.ip].type # "free"
                     /\ Linking(l) => dinode'[l.ip].type # "dir"
                     /\ l.pc \in LockIp => itable'[l.ip].valid
  <2> HAVE l.ip # None
  <2>1. /\ l.ip \in Inum /\ Points(q, l.ip) /\ InUse(l.ip)
        /\ Linking(l) => ~IsDir(l.ip)
        /\ l.pc \in LockIp => Valid(l.ip)
    BY <1>2 DEF LocalsOK, Points, PlaceOK
  <2> HIDE DEF l
  <2> QED BY <1>3, <1>4, <2>1 DEF InUse, IsDir, Valid
<1>9. Linking(l) \/ l.pc \in LockIp => l.ip # None
  BY <1>2 DEF LocalsOK, LockIp, AtIp
<1>10. \A k \in 1 .. Len(l.puts) : dinode'[l.puts[k]].type # "free" \/ (k = 1 /\ l.put = "drop")
  <2> TAKE k \in 1 .. Len(l.puts)
  <2>1. l.puts[k] \in Inum
    BY <1>2 DEF LocalsOK
  <2>2. CASE ~(k = 1 /\ l.put = "drop")
    <3>1. Points(q, l.puts[k]) /\ InUse(l.puts[k])
      BY <2>2 DEF Points, PlaceOK
    <3> HIDE DEF l
    <3> QED BY <1>3, <2>1, <3>1 DEF InUse
  <2> QED BY <2>2
<1> DEFINE m == c'[q]
<1> SUFFICES PlaceOK(q)'
  OBVIOUS
<1>11. l = m /\ (Linking(l) <=> Linking(m))
  BY <1>1
<1>12. PlaceOK(q)' <=>
    /\ opened'[q] # None => itable'[opened'[q]].valid /\ dinode'[opened'[q]].type # "free"
    /\ m.cur # None => /\ dinode'[m.cur].type # "free"
                       /\ dinode'[m.cur].type = "dir" =>
                              {".", ".."} \subseteq DOMAIN dinode'[m.cur].ents
    /\ m.pc \in AtDir => dinode'[m.cur].type = "dir" /\ itable'[m.cur].valid
    /\ m.ip # None => dinode'[m.ip].type # "free"
    /\ Linking(m) => dinode'[m.ip].type # "dir"
    /\ m.pc \in LockIp => itable'[m.ip].valid
    /\ \A k \in 1 .. Len(m.puts) : dinode'[m.puts[k]].type # "free" \/ (k = 1 /\ m.put = "drop")
  BY DEF PlaceOK, InUse, IsDir, Valid, HasDots, Linking
<1> HIDE DEF l, m
<1> QED BY <1>1, <1>5, <1>6, <1>7, <1>8, <1>9, <1>10, <1>11, <1>12 DEF Valid, InUse

\* ... the name that its unlink() removes stays, since dp is locked, ...
LEMMA FrameUnlink ==
    ASSUME PointerInv, NEW p \in Proc, FrameDisk(p), FrameValid(p), Alone(p),
           NEW q \in Proc, q # p, PlaceOK(q), UnlinkOK(q)
    PROVE  UnlinkOK(q)'
<1> DEFINE d == c[q].cur
           n == c[q].path[1]
<1> SUFFICES ASSUME c'[q].pc = "unlink_ip"
             PROVE  /\ n \in DOMAIN dinode'[d].ents \ {".", ".."}
                    /\ dinode'[d].ents[n] = c[q].ip
  BY DEF UnlinkOK, Name, Alone
<1>1. c[q].pc = "unlink_ip" /\ d \in Inum
  BY PointersOf DEF Alone, CallOK, LocalsOK, AtCur
<1>2. Locking(c[q], d) /\ Points(q, d) /\ InUse(d)
  BY <1>1 DEF Locking, LockCur, Points, PlaceOK, AtDir, AtLast, IsDir, InUse
<1>3. lock[d] = q
  BY <1>1, <1>2, PointersOf
<1>4. Calm(p, d)
  BY <1>1, <1>2, Lasts
<1>5. dinode'[d].ents = dinode[d].ents
  BY <1>3, <1>4, PointersOf DEF Calm
<1> QED BY <1>1, <1>5 DEF UnlinkOK, Name

\* Nobody else gets to an inode that create() has not entered yet.
LEMMA ReachNew ==
    ASSUME PointerInv, DiskInv, NEW q \in Proc, NewOK(q), c[q].pc = "create_new"
    PROVE  LET i == c[q].ip
           IN /\ i \in Inum /\ ~Reach(i) /\ dinode[i].type # "free"
              /\ \A p \in Proc \ {q} : ~Points(p, i)
              /\ \A p \in Proc : opened[p] # i /\ c[p].cur # i
              /\ \A r \in Proc \cup {Init1} : cwd[r] # i
<1> DEFINE i == c[q].ip
<1>1. i \in Inum /\ c[q].op \in Creates
  BY PointersOf DEF CallOK, LocalsOK, AtIp
<1>2. dinode[i].nlink = 0 /\ dinode[i].type # "free"
  BY <1>1, AllocatedIs DEF NewOK
<1>3. Private(q, i)
  BY DEF NewOK
<1>4. \A r \in Proc \cup {Init1} : cwd[r] # i
  BY <1>3 DEF Private
<1>5. ~Reach(i)
  BY <1>2, <1>4 DEF Reach
<1> QED BY <1>1, <1>2, <1>3, <1>4, <1>5 DEF Private, Points

\* ... the inode that its create() has allocated stays its own, ...
LEMMA FrameNew ==
    ASSUME PointerInv, DiskInv, NEW p \in Proc, FrameDisk(p), FrameValid(p), FramePoints(p), Alone(p),
           NEW q \in Proc, q # p, PlaceOK(q), NewOK(q)
    PROVE  NewOK(q)'
<1> DEFINE d == c[q].cur
           n == c[q].path[1]
<1>0. c'[q] = c[q]
  BY DEF Alone
<1> SUFFICES ASSUME c[q].pc = "create_new", NEW i \in Inum, i = c[q].ip
             PROVE  /\ n \notin DOMAIN dinode'[d].ents
                    /\ dinode'[i] = Allocated(c[q].op) /\ ~itable'[i].valid
                    /\ Private(q, i)'
  <2>1. NewOK(q)' <=> (c'[q].pc = "create_new" =>
            /\ c'[q].path[1] \notin DOMAIN dinode'[c'[q].cur].ents
            /\ dinode'[c'[q].ip] = Allocated(c'[q].op) /\ ~itable'[c'[q].ip].valid
            /\ Private(q, c[q].ip)')
    BY DEF NewOK, Valid
  <2>2. \A i : i = c'[q].ip /\ Private(q, i)' => Private(q, c[q].ip)'
    BY DEF Private
  <2>3. c[q].pc = "create_new" => c[q].ip \in Inum
    BY ReachNew
  <2> QED BY <1>0, <2>1, <2>2, <2>3
<1>1. /\ i \in Inum /\ ~Reach(i) /\ dinode[i].type # "free"
      /\ \A r \in Proc \ {q} : ~Points(r, i)
      /\ \A r \in Proc : opened[r] # i /\ c[r].cur # i
      /\ \A r \in Proc \cup {Init1} : cwd[r] # i
  BY ReachNew
<1>2. Points(q, i)
  BY DEF Points
<1>3. dinode'[i] = dinode[i]
  <2>1. Calm(p, i)
    BY <1>1, <1>2, Lasts DEF InUse
  <2>2. c[p].cur # i /\ c[p].ip # i
    BY <1>1 DEF Points
  <2> QED BY <2>1, <2>2 DEF Calm
<1>4. ~itable'[i].valid
  <2>1. c[p].cur # i /\ c[p].ip # i
    BY <1>1 DEF Points
  <2> QED BY <1>1, <2>1 DEF FrameValid, Valid, NewOK
<1>5. n \notin DOMAIN dinode'[d].ents
  <2>1. d \in Inum
    BY PointersOf DEF CallOK, LocalsOK, AtCur
  <2>2. Locking(c[q], d) /\ Points(q, d) /\ InUse(d)
    BY DEF Locking, LockCur, Points, PlaceOK, AtDir, AtLast, IsDir, InUse
  <2>3. lock[d] = q
    BY <2>1, <2>2, PointersOf
  <2>4. Calm(p, d)
    BY <2>1, <2>2, Lasts
  <2>5. dinode'[d].ents = dinode[d].ents
    BY <2>3, <2>4, PointersOf DEF Calm
  <2> QED BY <2>5 DEF NewOK
<1>6. ~Points(p, i)'
  BY <1>1 DEF FramePoints
<1>7. Private(q, i)'
  <2>1. Private(q, i)
    BY DEF NewOK
  <2>2. \A r \in Proc \ {p} : cwd'[r] = cwd[r] /\ opened'[r] = opened[r] /\ c'[r] = c[r]
    BY DEF Alone
  <2>3. cwd'[Init1] = cwd[Init1]
    BY TreeAssumption DEF Alone
  <2>4. /\ cwd'[p] # i /\ opened'[p] # i /\ c'[p].cur # i /\ c'[p].ip # i
        /\ \A k \in 1 .. Len(c'[p].puts) : c'[p].puts[k] = i => k = 1 /\ c'[p].put = "drop"
    BY <1>6 DEF Points
  <2> QED BY <2>1, <2>2, <2>3, <2>4 DEF Private
<1> QED BY <1>3, <1>4, <1>5, <1>7 DEF NewOK

\* ... and so does the inode that its iput() frees.
LEMMA FrameFreeing ==
    ASSUME PointerInv, DiskInv, PointerInv', NEW p \in Proc, FrameDisk(p), FrameValid(p),
           FramePoints(p), Alone(p), RefOK(p), NEW q \in Proc, q # p, FreeingOK(q)
    PROVE  FreeingOK(q)'
<1>0. c'[q] = c[q]
  BY DEF Alone
<1> SUFFICES ASSUME c[q].puts # <<>>, c[q].put = "free", NEW i \in Inum, i = Head(c[q].puts)
             PROVE  itable'[i].ref = 1 /\ itable'[i].valid /\ dinode'[i].nlink = 0
  <2>1. FreeingOK(q)' <=> (c'[q].puts # <<>> /\ c'[q].put = "free" =>
            LET j == Head(c'[q].puts)
            IN itable'[j].ref = 1 /\ itable'[j].valid /\ dinode'[j].nlink = 0)
    BY DEF FreeingOK, Valid
  <2>2. c[q].puts # <<>> => Head(c[q].puts) \in Inum
    BY PutIs
  <2> QED BY <1>0, <2>1, <2>2
<1>1. i \in Inum /\ itable[i].ref = 1 /\ Valid(i) /\ dinode[i].nlink = 0
  BY PutIs DEF FreeingOK
<1>2. Sole(q, i)
  BY <1>1 DEF Sole
<1>3. InUse(i)
  BY <1>1 DEF DiskInv, CopyInv
<1>4. ~Points(p, i) /\ \A r \in Proc \cup {Init1} : cwd[r] # i
  BY <1>1, <1>2, SoleIs
<1>5. Head(c[q].puts) = i /\ c[q].puts[1] = i
  BY PutIs
<1>6. Points(q, i)
  BY <1>5, PutIs DEF Points
<1>7. dinode'[i] = dinode[i] /\ itable'[i].valid
  <2>1. Calm(p, i) /\ Valid(i)'
    BY <1>1, <1>3, <1>6, Lasts
  <2>2. c[p].cur # i /\ c[p].ip # i
    BY <1>4 DEF Points
  <2> QED BY <2>1, <2>2 DEF Calm, Valid
<1>8. ~Reach(i)
  BY <1>1, <1>4 DEF Reach
<1>9. ~Points(p, i)'
  BY <1>1, <1>3, <1>4, <1>8 DEF FramePoints, InUse
<1>10. ~(c[p].puts # <<>> /\ Head(c[p].puts) = i)
  <2>1. ASSUME c[p].puts # <<>>, Head(c[p].puts) = i PROVE FALSE
    <3>1. <<"put", p, 1>> \in Pointers(i) /\ <<"put", q, 1>> \in Pointers(i)
      BY <1>5, <2>1, PutIs DEF Pointers, Puts
    <3> QED BY <1>1, <3>1, TwoPointers
  <2> QED BY <2>1
<1>11. ~(c'[p].puts # <<>> /\ c'[p].put = "drop" /\ Head(c'[p].puts) = i)
  BY <1>4 DEF FramePoints
<1>12. Count(cwd[p], opened[p], c[p], i) = 0
  <2>1. \A k \in {1, 2} : Puts(c[p], k, i) => k \in 1 .. Len(c[p].puts) /\ c[p].puts[k] = i
    BY PointersOf DEF Puts, CallOK, LocalsOK
  <2>2. \A k \in {1, 2} : ~Puts(c[p], k, i)
    <3> SUFFICES ASSUME NEW k \in {1, 2}, Puts(c[p], k, i) PROVE FALSE
      OBVIOUS
    <3>1. k \in 1 .. Len(c[p].puts) /\ c[p].puts[k] = i
      BY <2>1
    <3>2. k = 1 /\ c[p].put = "drop"
      BY <1>4, <3>1 DEF Points
    <3>3. c[p].puts # <<>> /\ Head(c[p].puts) = i
      BY <3>1, <3>2, PointersOf DEF CallOK, LocalsOK
    <3> QED BY <1>10, <3>3
  <2>3. cwd[p] # i /\ opened[p] # i /\ c[p].cur # i /\ c[p].ip # i
    BY <1>4 DEF Points
  <2> QED BY <2>2, <2>3 DEF Count, B
<1>13. Count(cwd'[p], opened'[p], c'[p], i) = 0
  <2>1. LocalsOK(c'[p])
    BY DEF PointerInv, CallInv
  <2>2. \A k \in {1, 2} : ~Puts(c'[p], k, i)
    <3> SUFFICES ASSUME NEW k \in {1, 2}, Puts(c'[p], k, i) PROVE FALSE
      OBVIOUS
    <3>1. k \in 1 .. Len(c'[p].puts) /\ c'[p].puts[k] = i
      BY <2>1 DEF Puts, LocalsOK
    <3>2. k = 1 /\ c'[p].put = "drop"
      BY <1>9, <3>1 DEF Points
    <3>3. c'[p].puts # <<>> /\ Head(c'[p].puts) = i
      BY <2>1, <3>1, <3>2 DEF LocalsOK
    <3> QED BY <1>11, <3>2, <3>3
  <2>3. cwd'[p] # i /\ opened'[p] # i /\ c'[p].cur # i /\ c'[p].ip # i
    BY <1>9 DEF Points
  <2> QED BY <2>2, <2>3 DEF Count, B
<1>14. itable'[i].ref = 1
  <2>1. itable'[i].ref \in Nat
    BY <1>1 DEF PointerInv, DataTypes
  <2> QED BY <1>1, <1>12, <1>13, <2>1 DEF RefOK
<1> QED BY <1>1, <1>7, <1>14

\* The other processes' calls and current directories.
LEMMA Frame ==
    ASSUME IInv, PointerInv', NEW p \in Proc, FrameDisk(p), FrameValid(p), FramePoints(p),
           Alone(p), RefOK(p), NEW q \in Proc, q # p
    PROVE  CallsOK(q)'
<1>1. PointerInv /\ DiskInv /\ CallsOK(q)
  BY DEF IInv
<1>2. PathOK(q)'
  BY <1>1 DEF CallsOK, PathOK, Alone
<1>3. PlaceOK(q)'
  BY <1>1, FramePlace DEF CallsOK
<1>4. UnlinkOK(q)'
  BY <1>1, FrameUnlink DEF CallsOK
<1>5. NewOK(q)'
  BY <1>1, FrameNew DEF CallsOK
<1>6. FreeingOK(q)'
  BY <1>1, FrameFreeing DEF CallsOK
<1> QED BY <1>2, <1>3, <1>4, <1>5, <1>6 DEF CallsOK

\* A step that leaves other current directories as they are, and p's is a directory.
LEMMA FrameCwd ==
    ASSUME IInv, NEW p \in Proc, FrameDisk(p), FrameValid(p), Alone(p),
           cwd'[p] # None => /\ cwd'[p] \in Inum /\ itable'[cwd'[p]].valid
                             /\ dinode'[cwd'[p]].type = "dir"
                             /\ {".", ".."} \subseteq DOMAIN dinode'[cwd'[p]].ents
    PROVE  CwdInv'
<1> DEFINE w == cwd'
           Fine(i) == /\ itable'[i].valid /\ dinode'[i].type = "dir"
                      /\ {".", ".."} \subseteq DOMAIN dinode'[i].ents
<1>1. ASSUME NEW r \in Proc \cup {Init1}, r # p, w[r] # None PROVE Fine(w[r])
  <2>1. w[r] = cwd[r] /\ cwd[r] \in Inum
    BY <1>1 DEF Alone, IInv, PointerInv, DataTypes
  <2>2. Valid(cwd[r]) /\ IsDir(cwd[r]) /\ HasDots(cwd[r])
    BY <1>1, <2>1 DEF IInv, CwdInv
  <2>3. InUse(cwd[r])
    BY <2>2 DEF IsDir, InUse
  <2>4. PICK i \in Inum : i = cwd[r]
    BY <2>1
  <2>5. Valid(i)' /\ IsDir(i)' /\ HasDots(i)'
    BY <1>1, <2>1, <2>2, <2>3, <2>4, Lasts DEF IInv
  <2> QED BY <2>1, <2>4, <2>5 DEF Valid, IsDir, HasDots
<1>2. \A r \in Proc \cup {Init1} : w[r] # None => Fine(w[r])
  BY <1>1
<1> QED BY <1>2 DEF CwdInv, Valid, IsDir, HasDots
-----------------------------------------------------------------------------
(***************************************************************************)
(* The step's own process: what it points to.                              *)
(***************************************************************************)
Fine(j) == InUse(j) /\ (IsDir(j) => HasDots(j))

\* The parts of the inductive invariant.
LEMMA InvParts ==
    ASSUME IInv
    PROVE  /\ PointerInv /\ DataTypes /\ CopyInv /\ EntryInv /\ LinkInv /\ TreeInv /\ CwdInv /\ DiskInv
           /\ \A p \in Proc : PathOK(p) /\ PlaceOK(p) /\ UnlinkOK(p) /\ NewOK(p) /\ FreeingOK(p)
  BY DEF IInv, PointerInv, DiskInv, CallsOK

\* An inode with a name, or a current directory, can be used.
LEMMA ReachFine ==
    ASSUME IInv, NEW j \in Inum, Reach(j)
    PROVE  Fine(j)
<1>0. DataTypes /\ EntryInv /\ CwdInv
  BY InvParts
<1>1. CASE dinode[j].nlink >= 1
  <2>1. dinode[j].nlink \in Int
    BY <1>0 DEF DataTypes
  <2>2. dinode[j].type # "free"
    <3>1. Free.nlink = 0
      BY DEF Free
    <3> QED BY <1>0, <1>1, <3>1 DEF EntryInv
  <2> QED BY <1>0, <1>1, <2>1, <2>2 DEF EntryInv, Fine, InUse, IsDir
<1>2. CASE \E r \in Proc \cup {Init1} : cwd[r] = j
  <2>1. j # None
    BY InodesAssumption
  <2>2. IsDir(j) /\ HasDots(j)
    BY <1>0, <1>2, <2>1 DEF CwdInv
  <2> QED BY <2>2 DEF Fine, InUse, IsDir
<1> QED BY <1>1, <1>2 DEF Reach

\* What a process uses is allocated.
LEMMA PointsInUse ==
    ASSUME IInv, NEW p \in Proc, NEW j \in Inum, Points(p, j)
    PROVE  InUse(j)
<1>0. PlaceOK(p) /\ CwdInv /\ j # None
  BY InvParts, InodesAssumption
<1>1. CASE cwd[p] = j
  BY <1>0, <1>1, ReachFine DEF Fine, Reach
<1>2. CASE opened[p] = j \/ c[p].cur = j \/ c[p].ip = j
  BY <1>0, <1>2 DEF PlaceOK
<1>3. CASE \E k \in 1 .. Len(c[p].puts) : c[p].puts[k] = j /\ ~(k = 1 /\ c[p].put = "drop")
  BY <1>0, <1>3 DEF PlaceOK
<1> QED BY <1>1, <1>2, <1>3 DEF Points

\* What a lookup finds in a directory is the directory itself or has a link.
LEMMA EntryIs ==
    ASSUME IInv, NEW d \in Inum, NEW n \in DOMAIN dinode[d].ents, OneLevel \/ n # ".."
    PROVE  /\ dinode[d].ents[n] \in Inum
           /\ dinode[d].ents[n] = d \/ dinode[dinode[d].ents[n]].nlink >= 1
<1> DEFINE j == dinode[d].ents[n]
<1>0. DataTypes /\ EntryInv /\ LinkInv
  BY InvParts
<1>1. j \in Inum
  <2>1. dinode[d].ents \in Ents
    BY <1>0 DEF DataTypes
  <2> QED BY <2>1, EntsHave
<1>2. CASE n = "."
  BY <1>0, <1>1, <1>2 DEF EntryInv
<1>3. CASE n = ".."
  <2>1. j = ROOTINO
    BY <1>0, <1>3 DEF EntryInv
  <2> QED BY <1>0, <1>1, <2>1, LinkPositive
<1>4. CASE n \notin {".", ".."}
  <2>1. n \in Name(d)
    BY <1>4 DEF Name
  <2>2. <<d, n>> \in EntriesOf(j)
    BY <1>1, <2>1 DEF EntriesOf
  <2> HIDE DEF j
  <2>3. dinode[j].nlink >= 1
    BY <1>0, <1>1, <2>2, LinkPositive
  <2> QED BY <1>1, <2>3 DEF j
<1> QED BY <1>2, <1>3, <1>4

\* The copy of a locked inode.
LEMMA LoadedDisk ==
    ASSUME IInv, NEW i \in Inum
    PROVE  Loaded(i).type = dinode[i].type /\ Loaded(i).nlink = dinode[i].nlink
  BY InvParts, LoadedIs DEF CopyInv, Valid

\* Copies agree with the disk when one more is read, ...
LEMMA ReadCopy ==
    ASSUME IInv, UNCHANGED dinode, NEW i \in Inum, Read(i), CanLock(i)
    PROVE  CopyInv'
<1>1. CopyInv /\ Loaded(i).type = dinode[i].type /\ Loaded(i).nlink = dinode[i].nlink
  BY InvParts, LoadedDisk
<1> QED BY <1>1 DEF CopyInv, Read, ReadAs, CanLock, Valid, InUse

\* ... and when none is.
LEMMA UnreadCopy ==
    ASSUME IInv, UNCHANGED dinode, Unread
    PROVE  CopyInv'
<1>1. CopyInv
  BY InvParts
<1> QED BY <1>1 DEF CopyInv, Unread, Valid, InUse

\* No copy becomes invalid when one is read.
LEMMA ReadValid ==
    ASSUME IInv, NEW p \in Proc,
           Unread \/ \E i \in Inum : \E n : i \in {c[p].cur, c[p].ip} /\ ReadAs(i, n)
    PROVE  FrameValid(p) /\ \A j \in Inum : Valid(j) => Valid(j)'
  BY DEF FrameValid, Unread, ReadAs, Valid

\* No inode changes its type, and a directory keeps its dots.
KeepsDisk == \A j \in Inum :
    dinode'[j].type = dinode[j].type /\ (HasDots(j) => HasDots(j)')

\* The new pointers of p: what it pointed to already, and what can be reached.
OwnPoints(p) ==
    LET l == c[p]
        m == c'[p]
    IN /\ \A j \in Inum : Points(p, j)' => Points(p, j) \/ Reach(j)
       /\ opened'[p] \in {None, opened[p]} \/ (opened'[p] = l.ip /\ l.pc \in LockIp)
       /\ m.cur \in {None, l.cur} \/ Reach(m.cur)
       /\ m.pc \in AtDir => IsDir(m.cur) /\ itable'[m.cur].valid
       /\ Linking(m) => ~IsDir(m.ip)
       /\ m.pc \in LockIp => itable'[m.ip].valid
       /\ m.put # "drop"

\* What p uses after its step is allocated if it could be reached before.
LEMMA OwnPlace ==
    ASSUME IInv, PointerInv', NEW p \in Proc, KeepsDisk, OwnPoints(p),
           \A j \in Inum : Valid(j) => Valid(j)'
    PROVE  PlaceOK(p)' /\ FramePoints(p)
<1>0. PlaceOK(p) /\ PointerInv /\ None \notin Inum
  BY InvParts, InodesAssumption
<1>1. FramePoints(p)
  BY DEF FramePoints, OwnPoints
<1>2. LocalsOK(c[p]) /\ LocalsOK(c'[p]) /\ opened[p] \in Inum \cup {None}
      /\ opened'[p] \in Inum \cup {None}
  BY <1>0 DEF PointerInv, CallInv, DataTypes
<1>3. \A j \in Inum : Points(p, j)' => dinode'[j].type # "free"
  <2> SUFFICES ASSUME NEW j \in Inum, Points(p, j)' PROVE dinode'[j].type # "free"
    OBVIOUS
  <2>1. InUse(j)
    BY PointsInUse, ReachFine DEF OwnPoints, Fine
  <2> QED BY <2>1 DEF InUse, KeepsDisk
<1>4. \A j \in Inum : Fine(j) => dinode'[j].type # "free" /\
          (dinode'[j].type = "dir" => {".", ".."} \subseteq DOMAIN dinode'[j].ents)
  BY DEF Fine, KeepsDisk, InUse, IsDir, HasDots
<1> DEFINE l == c[p]
           m == c'[p]
<1>5. opened'[p] # None => itable'[opened'[p]].valid /\ dinode'[opened'[p]].type # "free"
  <2> HAVE opened'[p] # None
  <2>1. PICK i \in Inum : i = opened'[p]
    BY <1>2
  <2>2. Points(p, i)'
    BY <2>1 DEF Points
  <2>3. Valid(i)
    BY <1>0, <2>1 DEF OwnPoints, PlaceOK
  <2> QED BY <1>3, <2>1, <2>2, <2>3 DEF Valid
<1>6. m.cur # None => /\ dinode'[m.cur].type # "free"
                      /\ dinode'[m.cur].type = "dir" =>
                             {".", ".."} \subseteq DOMAIN dinode'[m.cur].ents
  <2> HAVE m.cur # None
  <2>1. PICK i \in Inum : i = m.cur
    BY <1>2 DEF LocalsOK
  <2>2. Fine(i)
    <3>1. CASE l.cur = i
      BY <1>0, <2>1, <3>1 DEF PlaceOK, Fine
    <3>2. CASE Reach(i)
      BY <3>2, ReachFine
    <3> QED BY <2>1, <3>1, <3>2 DEF OwnPoints
  <2> QED BY <1>4, <2>1, <2>2
<1>7. m.pc \in AtDir => dinode'[m.cur].type = "dir" /\ itable'[m.cur].valid
  <2> HAVE m.pc \in AtDir
  <2>1. PICK i \in Inum : i = m.cur
    BY <1>2 DEF LocalsOK, AtDir, AtLast, AtCur
  <2> QED BY <2>1 DEF OwnPoints, KeepsDisk, IsDir
<1>8. m.ip # None => dinode'[m.ip].type # "free"
  <2> HAVE m.ip # None
  <2>1. PICK i \in Inum : i = m.ip
    BY <1>2 DEF LocalsOK
  <2>2. Points(p, i)'
    BY <2>1 DEF Points
  <2> QED BY <1>3, <2>1, <2>2
<1>9. Linking(m) => dinode'[m.ip].type # "dir"
  <2> HAVE Linking(m)
  <2>1. PICK i \in Inum : i = m.ip
    BY <1>2 DEF LocalsOK
  <2> QED BY <2>1 DEF OwnPoints, KeepsDisk, IsDir
<1>10. \A k \in 1 .. Len(m.puts) : dinode'[m.puts[k]].type # "free" \/ (k = 1 /\ m.put = "drop")
  <2> TAKE k \in 1 .. Len(m.puts)
  <2>1. PICK i \in Inum : i = m.puts[k]
    BY <1>2 DEF LocalsOK
  <2>2. m.put # "drop"
    BY DEF OwnPoints
  <2>3. Points(p, i)'
    BY <2>1, <2>2 DEF Points
  <2> QED BY <1>3, <2>1, <2>3
<1>11. m.pc \in LockIp => itable'[m.ip].valid
  BY DEF OwnPoints
<1>12. PlaceOK(p)' <=>
    /\ opened'[p] # None => itable'[opened'[p]].valid /\ dinode'[opened'[p]].type # "free"
    /\ m.cur # None => /\ dinode'[m.cur].type # "free"
                       /\ dinode'[m.cur].type = "dir" =>
                              {".", ".."} \subseteq DOMAIN dinode'[m.cur].ents
    /\ m.pc \in AtDir => dinode'[m.cur].type = "dir" /\ itable'[m.cur].valid
    /\ m.ip # None => dinode'[m.ip].type # "free"
    /\ Linking(m) => dinode'[m.ip].type # "dir"
    /\ m.pc \in LockIp => itable'[m.ip].valid
    /\ \A k \in 1 .. Len(m.puts) : dinode'[m.puts[k]].type # "free" \/ (k = 1 /\ m.put = "drop")
  BY DEF PlaceOK, InUse, IsDir, Valid, HasDots, Linking
<1> HIDE DEF l, m
<1> QED BY <1>1, <1>5, <1>6, <1>7, <1>8, <1>9, <1>10, <1>11, <1>12
-----------------------------------------------------------------------------
(***************************************************************************)
(* Steps that leave the disk alone.                                        *)
(***************************************************************************)
LEMMA SameCwd ==
    ASSUME IInv, NEW p \in Proc, FrameDisk(p), FrameValid(p), Alone(p), cwd'[p] \in {None, cwd[p]}
    PROVE  CwdInv'
<1>1. cwd'[p] # None => /\ cwd'[p] \in Inum /\ itable'[cwd'[p]].valid
                        /\ dinode'[cwd'[p]].type = "dir"
                        /\ {".", ".."} \subseteq DOMAIN dinode'[cwd'[p]].ents
  <2> HAVE cwd'[p] # None
  <2>1. PICK i \in Inum : i = cwd[p] /\ i = cwd'[p]
    BY InvParts DEF DataTypes
  <2>2. Valid(i) /\ IsDir(i) /\ HasDots(i)
    BY <2>1, InvParts, InodesAssumption DEF CwdInv
  <2>3. ~Sole(p, i)
    BY <2>1, InvParts, SoleIs
  <2>4. Calm(p, i) /\ Valid(i)'
    BY <2>2, <2>3 DEF FrameDisk, FrameValid, IsDir
  <2> QED BY <2>1, <2>2, <2>4 DEF Calm, IsDir, HasDots, Valid
<1> QED BY <1>1, FrameCwd

\* p counts no link that it did not count before.
FewerPending(p) == IsPending(c'[p]) => IsPending(c[p]) /\ c'[p].ip = c[p].ip

\* No links under way but those there were.
LEMMA PendingLe ==
    ASSUME NEW p \in Proc, Alone(p), FewerPending(p), NEW j \in Inum
    PROVE  Pending(j)' \subseteq Pending(j)
<1> SUFFICES ASSUME NEW q \in Proc, c'[q].ip = j, IsPending(c'[q])
             PROVE  c[q].ip = j /\ IsPending(c[q])
  BY DEF Pending, IsPending, Linking
<1>1. CASE q = p
  BY <1>1 DEF FewerPending
<1>2. CASE q # p
  BY <1>2 DEF Alone
<1> QED BY <1>1, <1>2

\* The links of an inode, when each part of them grows by so much at most.
LEMMA LinkStep ==
    ASSUME DataTypes, DataTypes', LinkInv, NEW j \in Inum, NEW a \in Int, NEW b \in Int, NEW d \in Int,
           Cardinality(EntriesOf(j)') <= Cardinality(EntriesOf(j)) + a,
           Cardinality(Subdirs(j)') <= Cardinality(Subdirs(j)) + b,
           Cardinality(Pending(j)') <= Cardinality(Pending(j)) + d,
           dinode'[j].nlink >= dinode[j].nlink + a + b + d
    PROVE  dinode'[j].nlink >= Links(j)' + (IF j = ROOTINO THEN 1 ELSE 0)
<1>1. PICK e, s, q \in Nat : /\ e = Cardinality(EntriesOf(j)) /\ s = Cardinality(Subdirs(j))
                             /\ q = Cardinality(Pending(j))
  BY LinksAre
<1>2. PICK e1, s1, q1 \in Nat : /\ e1 = Cardinality(EntriesOf(j)') /\ s1 = Cardinality(Subdirs(j)')
                                /\ q1 = Cardinality(Pending(j)')
  BY LinksAreNext
<1>3. PICK r \in {0, 1} : r = IF j = ROOTINO THEN 1 ELSE 0
  OBVIOUS
<1>4. dinode[j].nlink \in Int /\ dinode'[j].nlink \in Int /\ dinode[j].nlink >= e + s + q + r
  BY <1>1, <1>3 DEF LinkInv, Links, DataTypes
<1>5. dinode'[j].nlink >= e1 + s1 + q1 + r
  BY <1>1, <1>2, <1>4
<1>6. Links(j)' = e1 + s1 + q1
  BY <1>2 DEF Links
<1> QED BY <1>2, <1>3, <1>5, <1>6

\* No more entries and links of an inode, and no smaller count.
LEMMA LinkSame ==
    ASSUME DataTypes, DataTypes', LinkInv, NEW j \in Inum,
           EntriesOf(j)' \subseteq EntriesOf(j), Subdirs(j)' \subseteq Subdirs(j),
           Pending(j)' \subseteq Pending(j), dinode'[j].nlink >= dinode[j].nlink
    PROVE  dinode'[j].nlink >= Links(j)' + (IF j = ROOTINO THEN 1 ELSE 0)
<1>1. /\ IsFiniteSet(EntriesOf(j)) /\ IsFiniteSet(Subdirs(j)) /\ IsFiniteSet(Pending(j))
      /\ Cardinality(EntriesOf(j)) \in Nat /\ Cardinality(Subdirs(j)) \in Nat
      /\ Cardinality(Pending(j)) \in Nat
  BY LinksAre
<1>2. /\ Cardinality(EntriesOf(j)') <= Cardinality(EntriesOf(j)) + 0
      /\ Cardinality(Subdirs(j)') <= Cardinality(Subdirs(j)) + 0
      /\ Cardinality(Pending(j)') <= Cardinality(Pending(j)) + 0
  BY <1>1, CardLe
<1>3. dinode'[j].nlink >= dinode[j].nlink + 0 + 0 + 0
  BY DEF DataTypes
<1> QED BY <1>2, <1>3, LinkStep

\* The entries stay, and the types, and no count goes down.
LEMMA SameEntries ==
    ASSUME \A j \in Inum : dinode'[j].ents = dinode[j].ents /\ dinode'[j].type = dinode[j].type,
           DataTypes, NEW j \in Inum
    PROVE  EntriesOf(j)' = EntriesOf(j) /\ Subdirs(j)' = Subdirs(j) /\ Name(j)' = Name(j)
<1>1. \A i \in Inum : Name(i)' = Name(i)
  BY DEF Name
<1>2. EntriesOf(j)' = EntriesOf(j)
  BY <1>1 DEF EntriesOf
<1>3. \A n \in Name(j) : dinode[j].ents[n] \in Inum
  BY EntsHave DEF DataTypes, Name
<1>4. Subdirs(j)' = Subdirs(j)
  BY <1>1, <1>3 DEF Subdirs
<1> QED BY <1>1, <1>2, <1>4

\* The entries stay, and so do the directories a tree.
LEMMA SameTree ==
    ASSUME TreeInv, DataTypes, \A j \in Inum : dinode'[j].ents = dinode[j].ents
    PROVE  TreeInv'
<1>1. \A i \in Inum : Name(i)' = Name(i)
  BY DEF Name
<1> QED BY <1>1, ZenonT(60) DEF TreeInv

\* A step that does not write to the disk.
LEMMA QuietDisk ==
    ASSUME IInv, PointerInv', UNCHANGED dinode, CopyInv', NEW p \in Proc, Alone(p), FewerPending(p)
    PROVE  DiskInv'
<1>1. DataTypes /\ EntryInv /\ LinkInv /\ TreeInv /\ DataTypes'
  BY InvParts DEF PointerInv
<1>2. EntryInv'
  BY <1>1 DEF EntryInv, HasDots
<1>3. LinkInv'
  <2>1. ASSUME NEW j \in Inum
        PROVE  dinode'[j].nlink >= Links(j)' + (IF j = ROOTINO THEN 1 ELSE 0)
    <3>1. EntriesOf(j)' = EntriesOf(j) /\ Subdirs(j)' = Subdirs(j)
      BY <1>1, SameEntries
    <3>2. Pending(j)' \subseteq Pending(j)
      BY PendingLe
    <3>3. dinode'[j].nlink >= dinode[j].nlink
      BY <1>1 DEF DataTypes
    <3> QED BY <1>1, <3>1, <3>2, <3>3, LinkSame
  <2> QED BY <2>1 DEF LinkInv
<1>4. TreeInv'
  BY <1>1, SameTree
<1> QED BY <1>2, <1>3, <1>4 DEF DiskInv

\* What remains to be shown of a step of p.
LEMMA StepKeeps ==
    ASSUME IInv, PointerInv', DiskInv', CwdInv', NEW p \in Proc, FrameDisk(p), FrameValid(p), FramePoints(p),
           Alone(p), RefOK(p), PathOK(p)', PlaceOK(p)', UnlinkOK(p)', NewOK(p)', FreeingOK(p)'
    PROVE  IInv'
<1>1. ASSUME NEW q \in Proc PROVE CallsOK(q)'
  <2>1. CASE q = p
    BY <2>1 DEF CallsOK
  <2>2. CASE q # p
    BY <2>2, Frame
  <2> QED BY <2>1, <2>2
<1> QED BY <1>1 DEF IInv

\* It disturbs nobody.
LEMMA QuietFrame ==
    ASSUME UNCHANGED dinode
    PROVE  KeepsDisk /\ \A p \in Proc : FrameDisk(p)
  BY DEF KeepsDisk, FrameDisk, Calm, HasDots

\* It keeps the invariant if p's own call is right, ...
LEMMA QuietStep ==
    ASSUME IInv, PointerInv', UNCHANGED dinode, CopyInv', NEW p \in Proc, FrameValid(p),
           \A j \in Inum : Valid(j) => Valid(j)', OwnPoints(p), Alone(p), RefOK(p), FewerPending(p),
           CwdInv', PathOK(p)', UnlinkOK(p)', NewOK(p)', FreeingOK(p)'
    PROVE  IInv'
<1>1. DiskInv' /\ FrameDisk(p) /\ KeepsDisk
  BY QuietDisk, QuietFrame
<1>2. PlaceOK(p)' /\ FramePoints(p)
  BY <1>1, OwnPlace
<1> QED BY <1>1, <1>2, StepKeeps

\* The call, or what is left of it, neither looks up nor removes nor makes a name.
Settled(p) ==
    /\ c'[p].pc \notin {"namex", "link_ip", "create_dp", "create_new", "unlink_ip"}
    /\ c'[p].path \in {<<>>, c[p].path} /\ c'[p].put # "free"

\* (A call that has no name to look up, remove or make is right.)
LEMMA SettledIs ==
    ASSUME IInv, NEW p \in Proc, Settled(p)
    PROVE  PathOK(p)' /\ UnlinkOK(p)' /\ NewOK(p)' /\ FreeingOK(p)'
<1>1. PathOK(p)'
  <2>1. ".." \notin Range(<<>>)
    BY NoEnts DEF Range
  <2>2. NoDotDot => ".." \notin Range(c[p].path)
    BY InvParts DEF PathOK
  <2>3. NoDotDot => ".." \notin Range(c'[p].path)
    BY <2>1, <2>2 DEF Settled
  <2> QED BY <2>3 DEF PathOK, Settled
<1> QED BY <1>1 DEF UnlinkOK, NewOK, FreeingOK, Settled

\* ... for instance because it only has inodes to put.
LEMMA QuietSettles ==
    ASSUME IInv, PointerInv', UNCHANGED dinode, CopyInv', NEW p \in Proc, FrameValid(p),
           \A j \in Inum : Valid(j) => Valid(j)', OwnPoints(p), Alone(p), RefOK(p), FewerPending(p),
           cwd'[p] \in {None, cwd[p]}, Settled(p)
    PROVE  IInv'
  BY QuietFrame, SameCwd, SettledIs, QuietStep

\* What p uses after its step, by the number of inodes left to put.
LEMMA NewPoints ==
    ASSUME NEW p \in Proc, NEW j \in Inum, Points(p, j)'
    PROVE  /\ c'[p].puts = <<>> => j \in {cwd'[p], opened'[p], c'[p].cur, c'[p].ip}
           /\ \A i : c'[p].puts = <<i>> => j \in {cwd'[p], opened'[p], c'[p].cur, c'[p].ip, i}
<1>1. \/ cwd'[p] = j \/ opened'[p] = j \/ c'[p].cur = j \/ c'[p].ip = j
      \/ \E k \in 1 .. Len(c'[p].puts) : c'[p].puts[k] = j
  BY DEF Points
<1>2. c'[p].puts = <<>> => ~ \E k \in 1 .. Len(c'[p].puts) : c'[p].puts[k] = j
  OBVIOUS
<1>3. \A i : c'[p].puts = <<i>> /\ (\E k \in 1 .. Len(c'[p].puts) : c'[p].puts[k] = j) => j = i
  OBVIOUS
<1> QED BY <1>1, <1>2, <1>3

\* The root can always be reached.
LEMMA RootReach == IInv => Reach(ROOTINO)
  BY InvParts, LinkPositive, InodesAssumption DEF Reach

\* Where a lookup starts.
LEMMA StartReach ==
    ASSUME IInv, NEW p \in Proc, NEW i \in Inum, i = ROOTINO \/ i = cwd[p]
    PROVE  Reach(i)
  BY RootReach DEF Reach

\* What an element of a path names.
LEMMA NameReach ==
    ASSUME DotDotSafe, IInv, NEW p \in Proc, c[p].path \in Seq(STRING), c[p].path # <<>>,
           NEW d \in Inum, NEW n \in DOMAIN dinode[d].ents, n = c[p].path[1]
    PROVE  /\ dinode[d].ents[n] \in Inum
           /\ dinode[d].ents[n] = d \/ Reach(dinode[d].ents[n])
<1>1. NoDotDot => n # ".."
  <2>1. n \in Range(c[p].path)
    BY DEF Range
  <2> QED BY <2>1, InvParts DEF PathOK
<1>2. OneLevel \/ n # ".."
  BY <1>1 DEF DotDotSafe
<1> QED BY <1>2, EntryIs DEF Reach

\* The last element of a path is there.
LEMMA LastName ==
    ASSUME IInv, NEW p \in Proc, c[p].pc \in AtLast
    PROVE  c[p].path \in Seq(STRING) /\ c[p].path # <<>>
<1>1. c[p].path \in Seq(STRING) /\ Len(c[p].path) = 1
  BY InvParts, PointersOf DEF CallOK, LocalsOK
<1> QED BY <1>1
-----------------------------------------------------------------------------
\* Steps that do not write to the disk. A path without elements, ...
LEMMA StartNoneKeeps ==
    ASSUME IInv, NEW p \in Proc, NEW call \in Calls, StartNoneDone(p, call)
    PROVE  IInv'
<1>1. CopyInv'
  BY UnreadCopy DEF StartNoneDone
<1>2. FrameValid(p) /\ \A j \in Inum : Valid(j) => Valid(j)'
  BY ReadValid DEF StartNoneDone
<1>3. OwnPoints(p)
  <2>1. Reach(StartOf(p, call.path))
    BY StartReach DEF StartNoneDone
  <2>2. \A j \in Inum : Points(p, j)' => Points(p, j) \/ Reach(j)
    BY <2>1, NewPoints, InvParts DEF StartNoneDone, Points, AfterFailure
  <2> QED BY <2>1, <2>2, InvParts, InodesAssumption
     DEF StartNoneDone, OwnPoints, AtDir, AtLast, LockIp, Linking, AfterFailure
<1> QED
  BY <1>1, <1>2, <1>3, InvParts, QuietSettles
     DEF StartNoneDone, Settled, FewerPending, IsPending, Linking, AfterFailure

\* ... a lookup that fails, ...
LEMMA NamexFailKeeps ==
    ASSUME IInv, NEW p \in Proc, NEW i \in Inum, NamexFailDone(p, i)
    PROVE  IInv'
<1>1. CopyInv'
  BY ReadCopy DEF NamexFailDone
<1>2. FrameValid(p) /\ \A j \in Inum : Valid(j) => Valid(j)'
  <2>1. i \in Inum /\ i \in {c[p].cur, c[p].ip} /\ ReadAs(i, Loaded(i).nlink)
    BY DEF NamexFailDone, Read
  <2> QED BY <2>1, ReadValid
<1>3. OwnPoints(p)
  <2>2. \A j \in Inum : Points(p, j)' => Points(p, j) \/ Reach(j)
    <3> SUFFICES ASSUME NEW j \in Inum, Points(p, j)' PROVE Points(p, j) \/ Reach(j)
      OBVIOUS
    <3>1. c'[p].puts = <<c'[p].puts[1]>> /\ cwd'[p] = cwd[p] /\ opened'[p] = opened[p]
      BY DEF NamexFailDone
    <3>2. j \in {cwd[p], opened[p], c'[p].cur, c'[p].ip, c'[p].puts[1]}
      BY <3>1, NewPoints
    <3>3. {c'[p].cur, c'[p].ip, c'[p].puts[1]} \subseteq {None, c[p].cur, c[p].ip}
      BY DEF NamexFailDone
    <3> QED BY <3>2, <3>3, InodesAssumption DEF Points
  <2>3. Linking(c'[p]) => ~IsDir(c'[p].ip)
    BY InvParts, InodesAssumption DEF NamexFailDone, Linking, PlaceOK, AfterFailure
  <2> QED BY <2>2, <2>3, InvParts, InodesAssumption
     DEF NamexFailDone, OwnPoints, AtDir, AtLast, LockIp, AfterFailure
<1> QED
  BY <1>1, <1>2, <1>3, InvParts, QuietSettles
     DEF NamexFailDone, Settled, FewerPending, IsPending, Linking, AfterFailure

\* ... link() of a directory, ...
LEMMA LinkIpDirKeeps ==
    ASSUME IInv, NEW p \in Proc, LinkIpDirDone(p)
    PROVE  IInv'
<1>1. CopyInv'
  BY ReadCopy DEF LinkIpDirDone
<1>2. FrameValid(p) /\ \A j \in Inum : Valid(j) => Valid(j)'
  <2>1. c[p].cur \in Inum /\ c[p].cur \in {c[p].cur, c[p].ip} /\ ReadAs(c[p].cur, Loaded(c[p].cur).nlink)
    BY DEF LinkIpDirDone, Read
  <2> QED BY <2>1, ReadValid
<1>3. OwnPoints(p)
  <2>2. \A j \in Inum : Points(p, j)' => Points(p, j) \/ Reach(j)
    BY NewPoints, InvParts, Zenon DEF LinkIpDirDone, Points
  <2> QED BY <2>2, InvParts, InodesAssumption
     DEF LinkIpDirDone, OwnPoints, AtDir, AtLast, LockIp, Linking
<1> QED
  BY <1>1, <1>2, <1>3, InvParts, QuietSettles
     DEF LinkIpDirDone, Settled, FewerPending, IsPending, Linking

\* ... of a new name that exists, ...
LEMMA LinkExistsKeeps ==
    ASSUME DotDotSafe, IInv, NEW p \in Proc, LinkExistsDone(p)
    PROVE  IInv'
<1>1. CopyInv'
  BY ReadCopy DEF LinkExistsDone
<1>2. FrameValid(p) /\ \A j \in Inum : Valid(j) => Valid(j)'
  <2>1. c[p].cur \in Inum /\ c[p].cur \in {c[p].cur, c[p].ip} /\ ReadAs(c[p].cur, Loaded(c[p].cur).nlink)
    BY DEF LinkExistsDone, Read
  <2> QED BY <2>1, ReadValid, SMTT(30)
<1>3. OwnPoints(p)
  <2>1. LET i == dinode[c[p].cur].ents[c[p].path[1]] IN i \in Inum /\ (i = c[p].cur \/ Reach(i))
    <3>1. c[p].path \in Seq(STRING) /\ c[p].path # <<>>
      BY LastName DEF LinkExistsDone, AtLast
    <3> QED BY <3>1, NameReach, ZenonT(60) DEF LinkExistsDone
  <2>2. \A j \in Inum : Points(p, j)' => Points(p, j) \/ Reach(j)
    BY <2>1, NewPoints, InvParts, ZenonT(60) DEF LinkExistsDone, Points
  <2>3. Linking(c'[p]) => ~IsDir(c'[p].ip)
    BY InvParts, InodesAssumption DEF LinkExistsDone, Linking, PlaceOK, AfterFailure
  <2>4. c'[p].pc \in AtDir => IsDir(c'[p].cur) /\ itable'[c'[p].cur].valid
    BY InvParts, Zenon
       DEF LinkExistsDone, AtDir, AtLast, PlaceOK, Valid, Read, ReadAs, Unread, AfterFailure
  <2> QED BY <2>1, <2>2, <2>3, <2>4, InvParts, InodesAssumption, Zenon
     DEF LinkExistsDone, OwnPoints, AtDir, AtLast, LockIp
<1> QED
  BY <1>1, <1>2, <1>3, InvParts, QuietSettles, Zenon
     DEF LinkExistsDone, Settled, FewerPending, IsPending, Linking

\* ... its way out, ...
LEMMA LinkBadDpKeeps ==
    ASSUME IInv, NEW p \in Proc, LinkBadDpDone(p)
    PROVE  IInv'
<1>1. CopyInv'
  BY UnreadCopy DEF LinkBadDpDone
<1>2. FrameValid(p) /\ \A j \in Inum : Valid(j) => Valid(j)'
  BY ReadValid DEF LinkBadDpDone
<1>3. OwnPoints(p)
  <2>2. \A j \in Inum : Points(p, j)' => Points(p, j) \/ Reach(j)
    <3> SUFFICES ASSUME NEW j \in Inum, Points(p, j)' PROVE Points(p, j) \/ Reach(j)
      OBVIOUS
    <3>1. c'[p].puts = <<c'[p].puts[1]>> /\ cwd'[p] = cwd[p] /\ opened'[p] = opened[p]
      BY DEF LinkBadDpDone
    <3>2. j \in {cwd[p], opened[p], c'[p].cur, c'[p].ip, c'[p].puts[1]}
      BY <3>1, NewPoints
    <3>3. {c'[p].cur, c'[p].ip, c'[p].puts[1]} \subseteq {None, c[p].cur, c[p].ip}
      BY DEF LinkBadDpDone
    <3> QED BY <3>2, <3>3, InodesAssumption DEF Points
  <2>3. Linking(c'[p]) => ~IsDir(c'[p].ip)
    BY InvParts, InodesAssumption DEF LinkBadDpDone, Linking, PlaceOK, AfterFailure
  <2> QED BY <2>2, <2>3, InvParts, InodesAssumption DEF LinkBadDpDone, OwnPoints, AtDir, AtLast, LockIp
<1> QED
  BY <1>1, <1>2, <1>3, InvParts, QuietSettles
     DEF LinkBadDpDone, Settled, FewerPending, IsPending, Linking

\* ... link() without a block for the entry, ...
LEMMA LinkNoBlockKeeps ==
    ASSUME IInv, NEW p \in Proc, LinkNoBlockDone(p)
    PROVE  IInv'
<1>1. CopyInv'
  BY ReadCopy DEF LinkNoBlockDone
<1>2. FrameValid(p) /\ \A j \in Inum : Valid(j) => Valid(j)'
  <2>1. c[p].cur \in Inum /\ c[p].cur \in {c[p].cur, c[p].ip} /\ ReadAs(c[p].cur, Loaded(c[p].cur).nlink)
    BY DEF LinkNoBlockDone, Read
  <2> QED BY <2>1, ReadValid
<1>3. OwnPoints(p)
  <2>2. \A j \in Inum : Points(p, j)' => Points(p, j) \/ Reach(j)
    <3> SUFFICES ASSUME NEW j \in Inum, Points(p, j)' PROVE Points(p, j) \/ Reach(j)
      OBVIOUS
    <3>1. c'[p].puts = <<c'[p].puts[1]>> /\ cwd'[p] = cwd[p] /\ opened'[p] = opened[p]
      BY DEF LinkNoBlockDone
    <3>2. j \in {cwd[p], opened[p], c'[p].cur, c'[p].ip, c'[p].puts[1]}
      BY <3>1, NewPoints
    <3>3. {c'[p].cur, c'[p].ip, c'[p].puts[1]} \subseteq {None, c[p].cur, c[p].ip}
      BY DEF LinkNoBlockDone
    <3> QED BY <3>2, <3>3, InodesAssumption DEF Points
  <2>3. Linking(c'[p]) => ~IsDir(c'[p].ip)
    BY InvParts, InodesAssumption DEF LinkNoBlockDone, Linking, PlaceOK, AfterFailure
  <2> QED BY <2>2, <2>3, InvParts, InodesAssumption
     DEF LinkNoBlockDone, OwnPoints, AtDir, AtLast, LockIp
<1> QED
  BY <1>1, <1>2, <1>3, InvParts, QuietSettles
     DEF LinkNoBlockDone, Settled, FewerPending, IsPending, Linking

\* ... unlink() of no name, ...
LEMMA UnlinkNoneKeeps ==
    ASSUME IInv, NEW p \in Proc, UnlinkNoneDone(p)
    PROVE  IInv'
<1>1. CopyInv'
  BY ReadCopy DEF UnlinkNoneDone
<1>2. FrameValid(p) /\ \A j \in Inum : Valid(j) => Valid(j)'
  <2>1. c[p].cur \in Inum /\ c[p].cur \in {c[p].cur, c[p].ip} /\ ReadAs(c[p].cur, Loaded(c[p].cur).nlink)
    BY DEF UnlinkNoneDone, Read
  <2> QED BY <2>1, ReadValid
<1>3. OwnPoints(p)
  <2>2. \A j \in Inum : Points(p, j)' => Points(p, j) \/ Reach(j)
    BY NewPoints, InvParts DEF UnlinkNoneDone, Points
  <2> QED BY <2>2, InvParts, InodesAssumption
     DEF UnlinkNoneDone, OwnPoints, AtDir, AtLast, LockIp, Linking
<1> QED
  BY <1>1, <1>2, <1>3, InvParts, QuietSettles
     DEF UnlinkNoneDone, Settled, FewerPending, IsPending, Linking

\* ... of a directory that is not empty, ...
LEMMA UnlinkRefusedKeeps ==
    ASSUME IInv, NEW p \in Proc, UnlinkRefusedDone(p)
    PROVE  IInv'
<1>1. CopyInv'
  BY ReadCopy DEF UnlinkRefusedDone
<1>2. FrameValid(p) /\ \A j \in Inum : Valid(j) => Valid(j)'
  <2>1. c[p].ip \in Inum /\ c[p].ip \in {c[p].cur, c[p].ip} /\ ReadAs(c[p].ip, Loaded(c[p].ip).nlink)
    BY DEF UnlinkRefusedDone, Read
  <2> QED BY <2>1, ReadValid
<1>3. OwnPoints(p)
  <2>2. \A j \in Inum : Points(p, j)' => Points(p, j) \/ Reach(j)
    <3> SUFFICES ASSUME NEW j \in Inum, Points(p, j)' PROVE Points(p, j) \/ Reach(j)
      OBVIOUS
    <3>1. c'[p].puts = <<c'[p].puts[1]>> /\ cwd'[p] = cwd[p] /\ opened'[p] = opened[p]
      BY DEF UnlinkRefusedDone
    <3>2. j \in {cwd[p], opened[p], c'[p].cur, c'[p].ip, c'[p].puts[1]}
      BY <3>1, NewPoints
    <3>3. {c'[p].cur, c'[p].ip, c'[p].puts[1]} \subseteq {None, c[p].cur, c[p].ip}
      BY DEF UnlinkRefusedDone
    <3> QED BY <3>2, <3>3, InodesAssumption DEF Points
  <2>4. c'[p].pc \in AtDir => IsDir(c'[p].cur) /\ itable'[c'[p].cur].valid
    BY InvParts DEF UnlinkRefusedDone, AtDir, AtLast, PlaceOK, Valid, Read, ReadAs, Unread, AfterFailure
  <2> QED BY <2>2, <2>4, InvParts, InodesAssumption
     DEF UnlinkRefusedDone, OwnPoints, AtDir, AtLast, LockIp, Linking
<1> QED
  BY <1>1, <1>2, <1>3, InvParts, QuietSettles
     DEF UnlinkRefusedDone, Settled, FewerPending, IsPending, Linking

\* ... its way out, ...
LEMMA UnlinkBadKeeps ==
    ASSUME IInv, NEW p \in Proc, UnlinkBadDone(p)
    PROVE  IInv'
<1>1. CopyInv'
  BY UnreadCopy DEF UnlinkBadDone
<1>2. FrameValid(p) /\ \A j \in Inum : Valid(j) => Valid(j)'
  BY ReadValid DEF UnlinkBadDone
<1>3. OwnPoints(p)
  <2>2. \A j \in Inum : Points(p, j)' => Points(p, j) \/ Reach(j)
    BY NewPoints, InvParts, Zenon DEF UnlinkBadDone, Points
  <2> QED BY <2>2, InvParts, InodesAssumption
     DEF UnlinkBadDone, OwnPoints, AtDir, AtLast, LockIp, Linking
<1> QED
  BY <1>1, <1>2, <1>3, InvParts, QuietSettles
     DEF UnlinkBadDone, Settled, FewerPending, IsPending, Linking

\* ... create() of a name that exists, ...
LEMMA CreateExistsKeeps ==
    ASSUME DotDotSafe, IInv, NEW p \in Proc, CreateExistsDone(p)
    PROVE  IInv'
<1>1. CopyInv'
  BY ReadCopy, Zenon DEF CreateExistsDone
<1>2. FrameValid(p) /\ \A j \in Inum : Valid(j) => Valid(j)'
  <2>1. c[p].cur \in Inum /\ c[p].cur \in {c[p].cur, c[p].ip} /\ ReadAs(c[p].cur, Loaded(c[p].cur).nlink)
    BY DEF CreateExistsDone, Read
  <2> QED BY <2>1, ReadValid
<1>3. OwnPoints(p)
  <2>1. LET i == dinode[c[p].cur].ents[c[p].path[1]] IN i \in Inum /\ (i = c[p].cur \/ Reach(i))
    <3>1. c[p].path \in Seq(STRING) /\ c[p].path # <<>>
      BY LastName, Zenon DEF CreateExistsDone, AtLast
    <3> QED BY <3>1, NameReach, ZenonT(60) DEF CreateExistsDone
  <2>2. \A j \in Inum : Points(p, j)' => Points(p, j) \/ Reach(j)
    <3> SUFFICES ASSUME NEW j \in Inum, Points(p, j)' PROVE Points(p, j) \/ Reach(j)
      OBVIOUS
    <3>1. c'[p].puts = <<c'[p].puts[1]>> /\ cwd'[p] = cwd[p] /\ opened'[p] = opened[p]
      BY DEF CreateExistsDone
    <3>2. j \in {cwd[p], opened[p], c'[p].cur, c'[p].ip, c'[p].puts[1]}
      BY <3>1, NewPoints, Zenon
    <3>3. {c'[p].cur, c'[p].ip, c'[p].puts[1]} \subseteq {None, c[p].cur, c[p].ip, dinode[c[p].cur].ents[c[p].path[1]]}
      BY DEF CreateExistsDone
    <3> QED BY <2>1, <3>2, <3>3, InodesAssumption, Zenon DEF Points
  <2> QED BY <2>1, <2>2, InvParts, InodesAssumption, Zenon
     DEF CreateExistsDone, OwnPoints, AtDir, AtLast, LockIp, Linking
<1> QED
  BY <1>1, <1>2, <1>3, InvParts, QuietSettles, Zenon
     DEF CreateExistsDone, Settled, FewerPending, IsPending, Linking

\* ... which is opened ...
LEMMA CreateOpenKeeps ==
    ASSUME IInv, NEW p \in Proc, CreateOpenDone(p)
    PROVE  IInv'
<1>1. CopyInv'
  BY ReadCopy DEF CreateOpenDone
<1>2. FrameValid(p) /\ \A j \in Inum : Valid(j) => Valid(j)'
  <2>1. c[p].ip \in Inum /\ c[p].ip \in {c[p].cur, c[p].ip} /\ ReadAs(c[p].ip, Loaded(c[p].ip).nlink)
    BY DEF CreateOpenDone, Read
  <2> QED BY <2>1, ReadValid
<1>3. OwnPoints(p)
  <2>2. \A j \in Inum : Points(p, j)' => Points(p, j) \/ Reach(j)
    BY NewPoints, InvParts DEF CreateOpenDone, Points
  <2>5. itable'[c'[p].ip].valid
    BY DEF CreateOpenDone, Read, ReadAs
  <2> QED BY <2>2, <2>5, InvParts, InodesAssumption
     DEF CreateOpenDone, OwnPoints, AtDir, AtLast, LockIp, Linking
<1> QED
  BY <1>1, <1>2, <1>3, InvParts, QuietSettles
     DEF CreateOpenDone, Settled, FewerPending, IsPending, Linking

\* ... or refused, ...
LEMMA CreateFoundKeeps ==
    ASSUME IInv, NEW p \in Proc, CreateFoundDone(p)
    PROVE  IInv'
<1>1. CopyInv'
  BY ReadCopy DEF CreateFoundDone
<1>2. FrameValid(p) /\ \A j \in Inum : Valid(j) => Valid(j)'
  <2>1. c[p].ip \in Inum /\ c[p].ip \in {c[p].cur, c[p].ip} /\ ReadAs(c[p].ip, Loaded(c[p].ip).nlink)
    BY DEF CreateFoundDone, Read
  <2> QED BY <2>1, ReadValid
<1>3. OwnPoints(p)
  <2>2. \A j \in Inum : Points(p, j)' => Points(p, j) \/ Reach(j)
    BY NewPoints, InvParts DEF CreateFoundDone, Points
  <2> QED BY <2>2, InvParts, InodesAssumption
     DEF CreateFoundDone, OwnPoints, AtDir, AtLast, LockIp, Linking
<1> QED
  BY <1>1, <1>2, <1>3, InvParts, QuietSettles
     DEF CreateFoundDone, Settled, FewerPending, IsPending, Linking

\* ... create() without a free inode, ...
LEMMA CreateNoneKeeps ==
    ASSUME IInv, NEW p \in Proc, CreateNoneDone(p)
    PROVE  IInv'
<1>1. CopyInv'
  BY ReadCopy DEF CreateNoneDone
<1>2. FrameValid(p) /\ \A j \in Inum : Valid(j) => Valid(j)'
  <2>1. c[p].cur \in Inum /\ c[p].cur \in {c[p].cur, c[p].ip} /\ ReadAs(c[p].cur, Loaded(c[p].cur).nlink)
    BY DEF CreateNoneDone, Read
  <2> QED BY <2>1, ReadValid
<1>3. OwnPoints(p)
  <2>2. \A j \in Inum : Points(p, j)' => Points(p, j) \/ Reach(j)
    BY NewPoints, InvParts DEF CreateNoneDone, Points
  <2> QED BY <2>2, InvParts, InodesAssumption
     DEF CreateNoneDone, OwnPoints, AtDir, AtLast, LockIp, Linking
<1> QED
  BY <1>1, <1>2, <1>3, InvParts, QuietSettles
     DEF CreateNoneDone, Settled, FewerPending, IsPending, Linking

\* ... the end of mkdir() and mknod(), ...
LEMMA CreatePutKeeps ==
    ASSUME IInv, NEW p \in Proc, CreatePutDone(p)
    PROVE  IInv'
<1>1. CopyInv'
  BY UnreadCopy DEF CreatePutDone
<1>2. FrameValid(p) /\ \A j \in Inum : Valid(j) => Valid(j)'
  BY ReadValid DEF CreatePutDone
<1>3. OwnPoints(p)
  <2>2. \A j \in Inum : Points(p, j)' => Points(p, j) \/ Reach(j)
    BY NewPoints, InvParts DEF CreatePutDone, Points
  <2> QED BY <2>2, InvParts, InodesAssumption
     DEF CreatePutDone, OwnPoints, AtDir, AtLast, LockIp, Linking
<1> QED
  BY <1>1, <1>2, <1>3, InvParts, QuietSettles
     DEF CreatePutDone, Settled, FewerPending, IsPending, Linking

\* ... open() of a directory for writing, ...
LEMMA OpenDirKeeps ==
    ASSUME IInv, NEW p \in Proc, OpenDirDone(p)
    PROVE  IInv'
<1>1. CopyInv'
  BY ReadCopy DEF OpenDirDone
<1>2. FrameValid(p) /\ \A j \in Inum : Valid(j) => Valid(j)'
  <2>1. c[p].cur \in Inum /\ c[p].cur \in {c[p].cur, c[p].ip} /\ ReadAs(c[p].cur, Loaded(c[p].cur).nlink)
    BY DEF OpenDirDone, Read
  <2> QED BY <2>1, ReadValid
<1>3. OwnPoints(p)
  <2>2. \A j \in Inum : Points(p, j)' => Points(p, j) \/ Reach(j)
    BY NewPoints, InvParts DEF OpenDirDone, Points
  <2> QED BY <2>2, InvParts, InodesAssumption DEF OpenDirDone, OwnPoints, AtDir, AtLast, LockIp, Linking
<1> QED
  BY <1>1, <1>2, <1>3, InvParts, QuietSettles
     DEF OpenDirDone, Settled, FewerPending, IsPending, Linking

\* ... of anything else, ...
LEMMA OpenIpKeeps ==
    ASSUME IInv, NEW p \in Proc, OpenIpDone(p)
    PROVE  IInv'
<1>1. CopyInv'
  BY ReadCopy DEF OpenIpDone
<1>2. FrameValid(p) /\ \A j \in Inum : Valid(j) => Valid(j)'
  <2>1. c[p].cur \in Inum /\ c[p].cur \in {c[p].cur, c[p].ip} /\ ReadAs(c[p].cur, Loaded(c[p].cur).nlink)
    BY DEF OpenIpDone, Read
  <2> QED BY <2>1, ReadValid
<1>3. OwnPoints(p)
  <2>2. \A j \in Inum : Points(p, j)' => Points(p, j) \/ Reach(j)
    BY NewPoints, InvParts DEF OpenIpDone, Points
  <2>5. itable'[c'[p].ip].valid
    BY DEF OpenIpDone, Read, ReadAs
  <2> QED BY <2>2, <2>5, InvParts, InodesAssumption
     DEF OpenIpDone, OwnPoints, AtDir, AtLast, LockIp, Linking
<1> QED
  BY <1>1, <1>2, <1>3, InvParts, QuietSettles
     DEF OpenIpDone, Settled, FewerPending, IsPending, Linking

\* ... with a file for it ...
LEMMA OpenFileKeeps ==
    ASSUME IInv, NEW p \in Proc, OpenFileDone(p)
    PROVE  IInv'
<1>1. CopyInv'
  BY UnreadCopy DEF OpenFileDone
<1>2. FrameValid(p) /\ \A j \in Inum : Valid(j) => Valid(j)'
  BY ReadValid DEF OpenFileDone
<1>3. OwnPoints(p)
  <2>2. \A j \in Inum : Points(p, j)' => Points(p, j) \/ Reach(j)
    BY NewPoints, InvParts DEF OpenFileDone, Points
  <2> QED BY <2>2, InvParts, InodesAssumption
     DEF OpenFileDone, OwnPoints, AtDir, AtLast, LockIp, Linking
<1> QED
  BY <1>1, <1>2, <1>3, InvParts, QuietSettles
     DEF OpenFileDone, Settled, FewerPending, IsPending, Linking

\* ... or without, ...
LEMMA OpenNoneKeeps ==
    ASSUME IInv, NEW p \in Proc, OpenNoneDone(p)
    PROVE  IInv'
<1>1. CopyInv'
  BY UnreadCopy DEF OpenNoneDone
<1>2. FrameValid(p) /\ \A j \in Inum : Valid(j) => Valid(j)'
  BY ReadValid DEF OpenNoneDone
<1>3. OwnPoints(p)
  <2>2. \A j \in Inum : Points(p, j)' => Points(p, j) \/ Reach(j)
    BY NewPoints, InvParts DEF OpenNoneDone, Points
  <2> QED BY <2>2, InvParts, InodesAssumption
     DEF OpenNoneDone, OwnPoints, AtDir, AtLast, LockIp, Linking
<1> QED
  BY <1>1, <1>2, <1>3, InvParts, QuietSettles
     DEF OpenNoneDone, Settled, FewerPending, IsPending, Linking

\* ... chdir() to a file, ...
LEMMA ChdirFileKeeps ==
    ASSUME IInv, NEW p \in Proc, ChdirFileDone(p)
    PROVE  IInv'
<1>1. CopyInv'
  BY ReadCopy DEF ChdirFileDone
<1>2. FrameValid(p) /\ \A j \in Inum : Valid(j) => Valid(j)'
  <2>1. c[p].cur \in Inum /\ c[p].cur \in {c[p].cur, c[p].ip} /\ ReadAs(c[p].cur, Loaded(c[p].cur).nlink)
    BY DEF ChdirFileDone, Read
  <2> QED BY <2>1, ReadValid
<1>3. OwnPoints(p)
  <2>2. \A j \in Inum : Points(p, j)' => Points(p, j) \/ Reach(j)
    BY NewPoints, InvParts DEF ChdirFileDone, Points
  <2> QED BY <2>2, InvParts, InodesAssumption
     DEF ChdirFileDone, OwnPoints, AtDir, AtLast, LockIp, Linking
<1> QED
  BY <1>1, <1>2, <1>3, InvParts, QuietSettles
     DEF ChdirFileDone, Settled, FewerPending, IsPending, Linking

\* ... close(), ...
LEMMA CloseKeeps ==
    ASSUME IInv, NEW p \in Proc, CloseDone(p)
    PROVE  IInv'
<1>1. CopyInv'
  BY UnreadCopy DEF CloseDone
<1>2. FrameValid(p) /\ \A j \in Inum : Valid(j) => Valid(j)'
  BY ReadValid DEF CloseDone
<1>3. OwnPoints(p)
  <2>2. \A j \in Inum : Points(p, j)' => Points(p, j) \/ Reach(j)
    BY NewPoints, InvParts DEF CloseDone, Points
  <2> QED BY <2>2, InvParts, InodesAssumption DEF CloseDone, OwnPoints, AtDir, AtLast, LockIp, Linking
<1> QED
  BY <1>1, <1>2, <1>3, InvParts, QuietSettles
     DEF CloseDone, Settled, FewerPending, IsPending, Linking

\* ... and exit().
LEMMA exitKeeps ==
    ASSUME IInv, NEW p \in Proc, exitDone(p)
    PROVE  IInv'
<1>1. CopyInv'
  BY UnreadCopy DEF exitDone
<1>2. FrameValid(p) /\ \A j \in Inum : Valid(j) => Valid(j)'
  BY ReadValid DEF exitDone
<1>3. OwnPoints(p)
  <2>2. \A j \in Inum : Points(p, j)' => Points(p, j) \/ Reach(j)
    BY NewPoints, InvParts DEF exitDone, Points
  <2> QED BY <2>2, InvParts, InodesAssumption DEF exitDone, OwnPoints, AtDir, AtLast, LockIp, Linking
<1> QED
  BY <1>1, <1>2, <1>3, InvParts, QuietSettles
     DEF exitDone, Settled, FewerPending, IsPending, Linking

-----------------------------------------------------------------------------
\* A lookup that starts has to start somewhere safe, ...
LEMMA StartWalkKeeps ==
    ASSUME IInv, NEW p \in Proc, NEW call \in Calls, StartWalkDone(p, call)
    PROVE  IInv'
<1> DEFINE i == StartOf(p, call.path)
<1>1. CopyInv'
  BY UnreadCopy DEF StartWalkDone
<1>2. FrameValid(p) /\ \A j \in Inum : Valid(j) => Valid(j)'
  BY ReadValid DEF StartWalkDone
<1>3. OwnPoints(p)
  <2>1. i \in Inum /\ Reach(i)
    BY StartReach DEF StartWalkDone
  <2>2. \A j \in Inum : Points(p, j)' => Points(p, j) \/ Reach(j)
    BY <2>1, NewPoints, InvParts DEF StartWalkDone, Points
  <2>3. ~Linking(c'[p])
    BY DEF StartWalkDone, Linking
  <2> QED BY <2>1, <2>2, <2>3, InodesAssumption DEF StartWalkDone, OwnPoints, AtDir, AtLast, LockIp
<1>4. PathOK(p)'
  <2>1. OneLevel /\ call.op = "mkdir" => i = ROOTINO /\ Len(call.path.elems) = 1
    <3> HAVE OneLevel /\ call.op = "mkdir"
    <3>1. call.path.abs
      BY DEF OneLevel
    <3>5. Len(call.path.elems) <= 1
      BY DEF OneLevel
    <3>2. call.path.elems \in Seq(STRING) /\ call.path.elems # <<>>
      BY DEF StartWalkDone
    <3>3. Len(call.path.elems) \in Nat /\ Len(call.path.elems) >= 1
      BY <3>2, TailIs
    <3>4. i = ROOTINO
      BY <3>1 DEF StartOf
    <3>6. \A k \in Nat : k >= 1 /\ k <= 1 => k = 1
      OBVIOUS
    <3>7. Len(call.path.elems) = 1
      BY <3>3, <3>5, <3>6
    <3> QED BY <3>4, <3>7
  <2>2. /\ NoDotDot => ".." \notin Range(call.path.elems)
        /\ NoDotDot /\ call.op = "link" => ".." \notin Range(call.new.elems)
    BY DEF NoDotDot
  <2> QED BY <2>1, <2>2 DEF PathOK, StartWalkDone
<1>5. UnlinkOK(p)' /\ NewOK(p)' /\ FreeingOK(p)'
  BY DEF StartWalkDone, UnlinkOK, NewOK, FreeingOK
<1>6. CwdInv'
  BY <1>2, QuietFrame, SameCwd DEF StartWalkDone
<1> QED BY <1>1, <1>2, <1>3, <1>4, <1>5, <1>6, QuietStep
       DEF StartWalkDone, FewerPending, IsPending, Linking

\* ... also when it ends there, ...
LEMMA StartHereKeeps ==
    ASSUME IInv, NEW p \in Proc, NEW call \in Calls, StartHereDone(p, call)
    PROVE  IInv'
<1> DEFINE i == StartOf(p, call.path)
<1>1. CopyInv'
  BY UnreadCopy DEF StartHereDone
<1>2. FrameValid(p) /\ \A j \in Inum : Valid(j) => Valid(j)'
  BY ReadValid DEF StartHereDone
<1>0. c'[p].pc \in {"link_ip", "open_ip", "chdir_ip"} /\ (c'[p].pc = "link_ip" => call.op = "link")
  BY DEF StartHereDone
<1>3. OwnPoints(p)
  <2>1. i \in Inum /\ Reach(i)
    BY StartReach DEF StartHereDone
  <2>2. \A j \in Inum : Points(p, j)' => Points(p, j) \/ Reach(j)
    BY <2>1, NewPoints, InvParts DEF StartHereDone, Points
  <2> QED BY <1>0, <2>1, <2>2, InodesAssumption
     DEF StartHereDone, OwnPoints, AtDir, AtLast, LockIp, Linking
<1>4. PathOK(p)'
  <2>1. ".." \notin Range(<<>>)
    BY NoEnts DEF Range
  <2>2. NoDotDot /\ call.op = "link" => ".." \notin Range(call.new.elems)
    BY DEF NoDotDot
  <2> QED BY <1>0, <2>1, <2>2 DEF PathOK, StartHereDone
<1>5. UnlinkOK(p)' /\ NewOK(p)' /\ FreeingOK(p)'
  BY <1>0 DEF StartHereDone, UnlinkOK, NewOK, FreeingOK
<1>6. CwdInv'
  BY <1>2, QuietFrame, SameCwd DEF StartHereDone
<1>7. FewerPending(p)
  BY <1>0 DEF FewerPending, IsPending, Linking
<1> QED BY <1>1, <1>2, <1>3, <1>4, <1>5, <1>6, <1>7, QuietStep DEF StartHereDone

\* ... the parent it reaches has to be a directory, ...
LEMMA NamexParentKeeps ==
    ASSUME IInv, NEW p \in Proc, NEW i \in Inum, NamexParentDone(p, i)
    PROVE  IInv'
<1>0. /\ c'[p].pc \in {"link_dp", "unlink_dp", "create_dp"}
      /\ c'[p].pc = "link_dp" <=> c[p].op = "link_new"
  BY DEF NamexParentDone
<1>1. CopyInv'
  BY ReadCopy DEF NamexParentDone
<1>2. FrameValid(p) /\ \A j \in Inum : Valid(j) => Valid(j)'
  <2>1. i \in {c[p].cur, c[p].ip} /\ ReadAs(i, Loaded(i).nlink)
    BY DEF NamexParentDone, Read
  <2> QED BY <2>1, ReadValid
<1>3. OwnPoints(p)
  <2>1. \A j \in Inum : Points(p, j)' => Points(p, j) \/ Reach(j)
    BY DEF NamexParentDone, Points
  <2>2. IsDir(i) /\ itable'[i].valid
    BY LoadedDisk DEF NamexParentDone, IsDir, Read, ReadAs
  <2>3. Linking(c'[p]) => ~IsDir(c'[p].ip)
    BY <1>0, InvParts DEF NamexParentDone, Linking, PlaceOK
  <2> QED BY <1>0, <2>1, <2>2, <2>3 DEF NamexParentDone, OwnPoints, LockIp
<1>4. PathOK(p)'
  BY <1>0, InvParts DEF NamexParentDone, PathOK
<1>5. UnlinkOK(p)' /\ NewOK(p)' /\ FreeingOK(p)'
  BY <1>0 DEF NamexParentDone, UnlinkOK, NewOK, FreeingOK
<1>6. CwdInv'
  BY <1>2, QuietFrame, SameCwd DEF NamexParentDone
<1>7. FewerPending(p)
  BY <1>0 DEF NamexParentDone, FewerPending, IsPending, Linking
<1> QED BY <1>1, <1>2, <1>3, <1>4, <1>5, <1>6, <1>7, QuietStep DEF NamexParentDone

\* ... and the next inode, which may be that of "..", a safe one.
LEMMA NamexDescendKeeps ==
    ASSUME DotDotSafe, IInv, NEW p \in Proc, NEW i \in Inum, NamexDescendDone(p, i)
    PROVE  IInv'
<1> DEFINE next == dinode[i].ents[Head(c[p].path)]
<1>0. /\ c'[p].pc \in {"namex", "link_ip", "open_ip", "chdir_ip"}
      /\ c[p].op \in Ops /\ c'[p].op = c[p].op /\ c[p].path \in Seq(STRING) /\ c[p].path # <<>>
      /\ c[p].pc = "namex" /\ c'[p].path = Tail(c[p].path) /\ c'[p].cur = next
      /\ next \in Inum /\ c'[p].puts = <<i>> /\ c'[p].put = "test" /\ c[p].cur = i
      /\ c'[p].new = c[p].new /\ c'[p].ip = c[p].ip /\ UNCHANGED <<dinode, cwd, opened>>
      /\ ~(WantsParent(c[p].op) /\ Len(c[p].path) = 1) /\ Head(c[p].path) \in DOMAIN dinode[i].ents
  BY DEF NamexDescendDone
<1>8. c'[p].pc = IF Len(c[p].path) = 1 THEN After[c[p].op] ELSE "namex"
  BY DEF NamexDescendDone
<1>9. c'[p].pc = "link_ip" => c[p].op = "link"
  BY <1>0, <1>8 DEF After, Ops
<1>1. CopyInv'
  BY ReadCopy DEF NamexDescendDone
<1>2. FrameValid(p) /\ \A j \in Inum : Valid(j) => Valid(j)'
  <2>1. i \in {c[p].cur, c[p].ip} /\ ReadAs(i, Loaded(i).nlink)
    BY DEF NamexDescendDone, Read
  <2> QED BY <2>1, ReadValid
<1>10. Head(c[p].path) = c[p].path[1] /\ Range(Tail(c[p].path)) \subseteq Range(c[p].path)
  <2>1. c[p].path \in Seq(STRING) /\ Len(c[p].path) \in Nat
    BY <1>0
  <2>2. \A k \in 1 .. Len(c[p].path) - 1 : Tail(c[p].path)[k] = c[p].path[k + 1]
    BY <1>0, TailIs
  <2>3. Len(Tail(c[p].path)) = Len(c[p].path) - 1 /\ Tail(c[p].path) \in Seq(STRING)
    BY <1>0, TailIs
  <2> QED BY <1>0, <2>1, <2>2, <2>3, TailIs DEF Range
<1>11. next = i \/ Reach(next)
  BY <1>0, <1>10, NameReach
<1> HIDE DEF next
<1>3. OwnPoints(p)
  <2>1. \A j \in Inum : Points(p, j)' => Points(p, j) \/ Reach(j)
    <3> SUFFICES ASSUME NEW j \in Inum, Points(p, j)' PROVE Points(p, j) \/ Reach(j)
      OBVIOUS
    <3>1. j \in {cwd[p], opened[p], next, c[p].ip, i}
      BY <1>0, NewPoints
    <3> QED BY <1>0, <1>11, <3>1 DEF Points
  <2>2. Linking(c'[p]) => ~IsDir(c'[p].ip)
    BY <1>0, InvParts DEF Linking, PlaceOK
  <2> QED BY <1>0, <1>11, <2>1, <2>2 DEF OwnPoints, AtDir, AtLast, LockIp
<1>4. PathOK(p)'
  <2>1. PathOK(p)
    BY InvParts
  <2>2. ~(OneLevel /\ c[p].op = "mkdir")
    BY <1>0, <2>1 DEF PathOK, WantsParent
  <2> QED BY <1>0, <1>9, <1>10, <2>1, <2>2 DEF PathOK
<1>5. UnlinkOK(p)' /\ NewOK(p)' /\ FreeingOK(p)'
  BY <1>0 DEF UnlinkOK, NewOK, FreeingOK
<1>6. CwdInv'
  BY <1>2, QuietFrame, SameCwd DEF NamexDescendDone
<1>7. FewerPending(p)
  BY <1>0 DEF FewerPending, IsPending, Linking
<1> QED BY <1>1, <1>2, <1>3, <1>4, <1>5, <1>6, <1>7, QuietStep, Zenon DEF NamexDescendDone

\* The name that unlink() found is there until it lets go of dp.
LEMMA UnlinkDpKeeps ==
    ASSUME IInv, NEW p \in Proc, UnlinkDpDone(p)
    PROVE  IInv'
<1> DEFINE d == c[p].cur
           n == c[p].path[1]
           i == dinode[d].ents[n]
<1>0. /\ c[p].pc = "unlink_dp" /\ d \in Inum /\ CanLock(d) /\ Read(d) /\ n \notin {".", ".."}
      /\ n \in DOMAIN dinode[d].ents /\ i \in Inum /\ UNCHANGED <<dinode, cwd, opened>>
      /\ c'[p].pc = "unlink_ip" /\ c'[p].op = c[p].op /\ c'[p].path = c[p].path
      /\ c'[p].cur = d /\ c'[p].ip = i /\ c[p].puts = <<>> /\ c'[p].puts = <<>> /\ c'[p].put = "test"
  BY Zenon DEF UnlinkDpDone
<1>1. CopyInv'
  BY <1>0, ReadCopy
<1>2. FrameValid(p) /\ \A j \in Inum : Valid(j) => Valid(j)'
  <2>1. d \in {c[p].cur, c[p].ip} /\ ReadAs(d, Loaded(d).nlink)
    BY <1>0, Zenon DEF Read
  <2> QED BY <1>0, <2>1, ReadValid
<1>8. Reach(i)
  <2>1. dinode[i].nlink >= 1
    <3>1. n \in Name(d)
      BY <1>0 DEF Name
    <3>2. <<d, n>> \in EntriesOf(i)
      BY <1>0, <3>1, Zenon DEF EntriesOf
    <3> HIDE DEF i
    <3> QED BY <1>0, <3>2, InvParts, LinkPositive
  <2> QED BY <2>1 DEF Reach
<1>9. IsDir(d) /\ itable'[d].valid
  BY <1>0, InvParts DEF PlaceOK, AtDir, AtLast, Read, ReadAs
<1>10. UnlinkOK(p)'
  BY <1>0 DEF UnlinkOK, Name
<1> HIDE DEF d, i, n
<1>3. OwnPoints(p)
  <2>1. \A j \in Inum : Points(p, j)' => Points(p, j) \/ Reach(j)
    BY <1>0, <1>8, NewPoints DEF Points, d
  <2> QED BY <1>0, <1>9, <2>1 DEF OwnPoints, LockIp, Linking, d
<1>4. PathOK(p)'
  BY <1>0, InvParts DEF PathOK
<1>5. NewOK(p)' /\ FreeingOK(p)'
  BY <1>0 DEF NewOK, FreeingOK
<1>6. CwdInv'
  BY <1>0, <1>2, QuietFrame, SameCwd DEF UnlinkDpDone
<1>7. FewerPending(p)
  BY <1>0 DEF FewerPending, IsPending, Linking
<1> QED BY <1>0, <1>1, <1>2, <1>3, <1>4, <1>5, <1>6, <1>7, <1>10, QuietStep DEF UnlinkDpDone
-----------------------------------------------------------------------------
\* The new current directory is one.
LEMMA ChdirDirKeeps ==
    ASSUME IInv, NEW p \in Proc, ChdirDirDone(p), Loaded(c[p].cur).type = "dir"
    PROVE  IInv'
<1> DEFINE i == c[p].cur
<1>0. /\ i \in Inum /\ CanLock(i) /\ Read(i) /\ UNCHANGED <<dinode, opened>>
      /\ cwd' = [cwd EXCEPT ![p] = i] /\ cwd[p] \in Inum /\ c'[p].puts = <<cwd[p]>>
      /\ c'[p].cur = None /\ c'[p].ip = None /\ c'[p].pc = "idle" /\ c'[p].put = "test"
  BY DEF ChdirDirDone
<1>1. CopyInv'
  BY <1>0, ReadCopy
<1>2. FrameValid(p) /\ \A j \in Inum : Valid(j) => Valid(j)'
  <2>1. i \in {c[p].cur, c[p].ip} /\ ReadAs(i, Loaded(i).nlink)
    BY <1>0 DEF Read
  <2> QED BY <1>0, <2>1, ReadValid
<1>8. cwd'[p] = i
  BY <1>0, InvParts DEF DataTypes
<1>3. OwnPoints(p)
  <2>1. \A j \in Inum : Points(p, j)' => Points(p, j) \/ Reach(j)
    BY <1>0, <1>8, NewPoints, InodesAssumption DEF Points
  <2> QED BY <1>0, <2>1 DEF OwnPoints, AtDir, AtLast, LockIp, Linking
<1>4. Settled(p)
  BY DEF ChdirDirDone, Settled
<1>6. CwdInv'
  <2>1. i # None /\ itable'[i].valid /\ dinode[i].type = "dir"
    BY <1>0, LoadedDisk, InodesAssumption DEF Read, ReadAs
  <2>2. HasDots(i)
    BY <2>1, InvParts DEF PlaceOK, IsDir
  <2> HIDE DEF i
  <2> QED BY <1>0, <1>2, <1>8, <2>1, <2>2, QuietFrame, FrameCwd DEF HasDots, ChdirDirDone
<1>7. FewerPending(p)
  BY <1>0 DEF FewerPending, IsPending, Linking
<1> QED BY <1>1, <1>2, <1>3, <1>4, <1>6, <1>7, SettledIs, QuietStep DEF ChdirDirDone

\* So is the child's.
LEMMA forkKeeps ==
    ASSUME IInv, NEW p \in Proc, NEW q \in Proc \cup {Init1}, forkDone(p, q)
    PROVE  IInv'
<1> DEFINE i == cwd[q]
<1>0. /\ i \in Inum /\ UNCHANGED <<dinode, opened>> /\ cwd' = [cwd EXCEPT ![p] = i]
      /\ c'[p].puts = <<>> /\ c'[p].put = "test" /\ c'[p].cur = None /\ c'[p].ip = None
      /\ c'[p].pc = "idle" /\ c'[p].path = c[p].path /\ Unread
  BY DEF forkDone
<1>1. CopyInv'
  BY <1>0, UnreadCopy
<1>2. FrameValid(p) /\ \A j \in Inum : Valid(j) => Valid(j)'
  BY <1>0, ReadValid
<1>8. cwd'[p] = i
  BY <1>0, InvParts DEF DataTypes
<1>3. OwnPoints(p)
  <2>1. \A j \in Inum : Points(p, j)' => Points(p, j) \/ Reach(j)
    BY <1>0, <1>8, NewPoints, InodesAssumption DEF Points, Reach
  <2> QED BY <1>0, <2>1 DEF OwnPoints, AtDir, AtLast, LockIp, Linking
<1>4. Settled(p)
  BY <1>0 DEF Settled
<1>6. CwdInv'
  <2>1. Valid(i) /\ IsDir(i) /\ HasDots(i)
    BY <1>0, InvParts, InodesAssumption DEF CwdInv
  <2>2. Valid(i)'
    BY <1>0, <1>2, <2>1
  <2> HIDE DEF i
  <2> QED BY <1>0, <1>2, <1>8, <2>1, <2>2, QuietFrame, FrameCwd DEF HasDots, IsDir, Valid, forkDone
<1>7. FewerPending(p)
  BY <1>0 DEF FewerPending, IsPending, Linking
<1> QED BY <1>0, <1>1, <1>2, <1>3, <1>4, <1>6, <1>7, SettledIs, QuietStep DEF forkDone
-----------------------------------------------------------------------------
(***************************************************************************)
(* iput(): the call goes on when the inodes have been put.                 *)
(***************************************************************************)
\* The call's own variables stay, and what is put was to be put.
SameCall(p) ==
    LET l == c[p]
        m == c'[p]
    IN /\ m.pc = l.pc /\ m.op = l.op /\ m.path = l.path
       /\ m.cur = l.cur /\ m.ip = l.ip /\ m.new = l.new
       /\ \A k \in 1 .. Len(m.puts) :
              \/ k = 1 /\ m.put = "drop"
              \/ \E k2 \in 1 .. Len(l.puts) : l.puts[k2] = m.puts[k] /\ ~(k2 = 1 /\ l.put = "drop")
       /\ UNCHANGED <<cwd, opened>>

\* A step of an iput() leaves the call where it is, ...
LEMMA SameCallIs ==
    ASSUME IInv, NEW p \in Proc, SameCall(p)
    PROVE  /\ PathOK(p)' /\ FewerPending(p) /\ cwd'[p] \in {None, cwd[p]}
           /\ \A j \in Inum : Points(p, j)' => Points(p, j)
<1>1. PathOK(p)' /\ FewerPending(p) /\ cwd'[p] \in {None, cwd[p]}
  BY InvParts DEF SameCall, PathOK, FewerPending, IsPending, Linking
<1>2. \A j \in Inum : Points(p, j)' => Points(p, j)
  BY DEF SameCall, Points
<1> QED BY <1>1, <1>2

\* The inode that goes, if one goes, is not one the call still uses.
LEMMA SamePlace ==
    ASSUME IInv, PointerInv', NEW p \in Proc, SameCall(p), NEW i \in Inum,
           \A j \in Inum \ {i} : Calm(p, j) /\ (Valid(j) => Valid(j)'),
           Sole(p, i) \/ (Calm(p, i) /\ (Valid(i) => Valid(i)')),
           \A k \in 1 .. Len(c'[p].puts) :
               c'[p].puts[k] # i \/ Calm(p, i) \/ (k = 1 /\ c'[p].put = "drop")
    PROVE  PlaceOK(p)'
<1>0. PlaceOK(p) /\ PointerInv /\ None \notin Inum
  BY InvParts, InodesAssumption
<1>1. LocalsOK(c[p]) /\ LocalsOK(c'[p]) /\ opened[p] \in Inum \cup {None}
  BY <1>0 DEF PointerInv, CallInv, DataTypes
<1>2. \A j \in Inum : j \in {opened[p], c[p].cur, c[p].ip} =>
          Calm(p, j) /\ (Valid(j) => Valid(j)')
  BY <1>0, SoleIs
<1> DEFINE l == c[p]
           m == c'[p]
<1>3. opened[p] # None => itable'[opened[p]].valid /\ dinode'[opened[p]].type # "free"
  BY <1>0, <1>1, <1>2 DEF PlaceOK, Calm, Valid, InUse
<1>4. l.cur # None => /\ dinode'[l.cur].type # "free"
                      /\ dinode'[l.cur].type = "dir" =>
                             {".", ".."} \subseteq DOMAIN dinode'[l.cur].ents
  <2> HAVE l.cur # None
  <2>1. PICK j \in Inum : j = l.cur
    BY <1>1 DEF LocalsOK
  <2>2. Calm(p, j) /\ InUse(j) /\ (IsDir(j) => HasDots(j))
    BY <1>0, <1>2, <2>1 DEF PlaceOK
  <2> QED BY <2>1, <2>2 DEF Calm, InUse, IsDir, HasDots
<1>5. l.pc \in AtDir => dinode'[l.cur].type = "dir" /\ itable'[l.cur].valid
  <2> HAVE l.pc \in AtDir
  <2>1. PICK j \in Inum : j = l.cur
    BY <1>1 DEF LocalsOK, AtDir, AtLast, AtCur
  <2> QED BY <1>0, <1>2, <2>1 DEF PlaceOK, Calm, Valid, IsDir
<1>6. l.ip # None => /\ dinode'[l.ip].type # "free"
                     /\ Linking(l) => dinode'[l.ip].type # "dir"
                     /\ l.pc \in LockIp => itable'[l.ip].valid
  <2> HAVE l.ip # None
  <2>1. PICK j \in Inum : j = l.ip
    BY <1>1 DEF LocalsOK
  <2> QED BY <1>0, <1>2, <2>1 DEF PlaceOK, Calm, Valid, IsDir, InUse
<1>7. Linking(l) \/ l.pc \in LockIp => l.ip # None
  BY <1>1 DEF LocalsOK, LockIp, AtIp
<1>8. \A k \in 1 .. Len(m.puts) : dinode'[m.puts[k]].type # "free" \/ (k = 1 /\ m.put = "drop")
  <2> TAKE k \in 1 .. Len(m.puts)
  <2>1. PICK j \in Inum : j = m.puts[k]
    BY <1>1 DEF LocalsOK
  <2>2. CASE \E k2 \in 1 .. Len(l.puts) : l.puts[k2] = j /\ ~(k2 = 1 /\ l.put = "drop")
    <3>1. InUse(j)
      BY <1>0, <2>2 DEF PlaceOK
    <3>2. Calm(p, j) \/ (k = 1 /\ m.put = "drop")
      BY <2>1
    <3> QED BY <2>1, <3>1, <3>2 DEF Calm, InUse
  <2> QED BY <2>1, <2>2 DEF SameCall
<1>9. /\ m.pc = l.pc /\ m.cur = l.cur /\ m.ip = l.ip /\ opened'[p] = opened[p]
      /\ Linking(l) <=> Linking(m)
  BY DEF SameCall, Linking
<1>10. PlaceOK(p)' <=>
    /\ opened'[p] # None => itable'[opened'[p]].valid /\ dinode'[opened'[p]].type # "free"
    /\ m.cur # None => /\ dinode'[m.cur].type # "free"
                       /\ dinode'[m.cur].type = "dir" =>
                              {".", ".."} \subseteq DOMAIN dinode'[m.cur].ents
    /\ m.pc \in AtDir => dinode'[m.cur].type = "dir" /\ itable'[m.cur].valid
    /\ m.ip # None => dinode'[m.ip].type # "free"
    /\ Linking(m) => dinode'[m.ip].type # "dir"
    /\ m.pc \in LockIp => itable'[m.ip].valid
    /\ \A k \in 1 .. Len(m.puts) : dinode'[m.puts[k]].type # "free" \/ (k = 1 /\ m.put = "drop")
  BY DEF PlaceOK, InUse, IsDir, Valid, HasDots, Linking
<1> HIDE DEF l, m
<1> QED BY <1>3, <1>4, <1>5, <1>6, <1>7, <1>8, <1>9, <1>10

\* ... with what it found out.
LEMMA SameRest ==
    ASSUME IInv, NEW p \in Proc, SameCall(p), NEW i \in Inum, Alone(p),
           \A j \in Inum \ {i} : dinode'[j] = dinode[j] /\ (Valid(j)' => Valid(j)),
           Sole(p, i) \/ (dinode'[i] = dinode[i] /\ (Valid(i)' => Valid(i)))
    PROVE  UnlinkOK(p)' /\ NewOK(p)'
<1>0. UnlinkOK(p) /\ NewOK(p) /\ PointerInv /\ LocalsOK(c[p])
  BY InvParts, PointersOf DEF CallOK
<1>1. \A j \in Inum : j \in {c[p].cur, c[p].ip} => dinode'[j] = dinode[j] /\ (Valid(j)' => Valid(j))
  BY <1>0, SoleIs
<1>2. UnlinkOK(p)'
  <2> SUFFICES ASSUME c'[p].pc = "unlink_ip"
               PROVE  /\ c'[p].path[1] \in DOMAIN dinode'[c'[p].cur].ents \ {".", ".."}
                      /\ dinode'[c'[p].cur].ents[c'[p].path[1]] = c'[p].ip
    BY DEF UnlinkOK, Name
  <2>1. c[p].pc = "unlink_ip" /\ c[p].cur \in Inum
    BY <1>0 DEF SameCall, LocalsOK, AtCur
  <2> QED BY <1>0, <1>1, <2>1 DEF UnlinkOK, SameCall, Name
<1>3. NewOK(p)'
  <2>1. CASE c[p].pc # "create_new"
    BY <2>1 DEF NewOK, SameCall
  <2>2. CASE c[p].pc = "create_new"
    <3>1. PICK d, n \in Inum : d = c[p].cur /\ n = c[p].ip
      BY <1>0, <2>2 DEF LocalsOK, AtCur, AtIp
    <3>2. dinode'[d] = dinode[d] /\ dinode'[n] = dinode[n] /\ ~itable'[n].valid
      BY <1>0, <1>1, <2>2, <3>1 DEF NewOK, Valid
    <3>3. Private(p, n)
      BY <1>0, <2>2, <3>1 DEF NewOK
    <3>4. /\ cwd'[Init1] # n
          /\ \A q \in Proc : /\ cwd'[q] # n /\ opened'[q] # n /\ c'[q].cur # n /\ (q # p => c'[q].ip # n)
                             /\ \A k \in 1 .. Len(c'[q].puts) : c'[q].puts[k] = n => k = 1 /\ c'[q].put = "drop"
      <4>1. \A q \in Proc : /\ cwd'[q] # n /\ opened'[q] # n /\ c'[q].cur # n /\ (q # p => c'[q].ip # n)
        BY <3>3 DEF Private, Alone, SameCall
      <4>2. \A q \in Proc \ {p} : \A k \in 1 .. Len(c'[q].puts) : c'[q].puts[k] = n => k = 1 /\ c'[q].put = "drop"
        BY <3>3 DEF Private, Alone
      <4>3. \A k \in 1 .. Len(c'[p].puts) : c'[p].puts[k] = n => k = 1 /\ c'[p].put = "drop"
        BY <3>3 DEF Private, SameCall
      <4>4. cwd'[Init1] # n
        BY <3>3 DEF Private, SameCall
      <4> QED BY <4>1, <4>2, <4>3, <4>4
    <3>5. NewOK(p)' <=> (c'[p].pc = "create_new" =>
              /\ c'[p].path[1] \notin DOMAIN dinode'[c'[p].cur].ents
              /\ dinode'[c'[p].ip] = Allocated(c'[p].op) /\ ~itable'[c'[p].ip].valid
              /\ cwd'[Init1] # c'[p].ip
              /\ \A q \in Proc : /\ cwd'[q] # c'[p].ip /\ opened'[q] # c'[p].ip
                                 /\ c'[q].cur # c'[p].ip /\ (q # p => c'[q].ip # c'[p].ip)
                                 /\ \A k \in 1 .. Len(c'[q].puts) :
                                        c'[q].puts[k] = c'[p].ip => k = 1 /\ c'[q].put = "drop")
      BY DEF NewOK, Valid, Private
    <3>6. c'[p].ip = n /\ c'[p].cur = d /\ c'[p].path = c[p].path /\ c'[p].op = c[p].op
      BY <3>1 DEF SameCall
    <3>7. c[p].path[1] \notin DOMAIN dinode[d].ents /\ dinode[n] = Allocated(c[p].op)
      BY <1>0, <2>2, <3>1 DEF NewOK
    <3> QED BY <3>2, <3>4, <3>5, <3>6, <3>7
  <2> QED BY <2>1, <2>2
<1> QED BY <1>2, <1>3
-----------------------------------------------------------------------------
\* An iput() about to free: the inode has no name and no other pointer.
LEMMA IputLastKeeps ==
    ASSUME IInv, NEW p \in Proc, NEW i \in Inum, IputLastDone(p, i)
    PROVE  IInv'
<1> DEFINE l == c[p]
           m == c'[p]
<1>0. /\ l.puts # <<>> /\ i = Head(l.puts) /\ l.put = "test" /\ LastUse(i)
      /\ UNCHANGED <<dinode, itable, cwd, opened>> /\ Unread
      /\ m.pc = l.pc /\ m.op = l.op /\ m.path = l.path
      /\ m.cur = l.cur /\ m.ip = l.ip /\ m.new = l.new /\ m.puts = l.puts /\ m.put = "free"
      /\ Alone(p) /\ RefOK(p) /\ PointerInv'
  BY DEF IputLastDone
<1>1. CopyInv'
  BY <1>0, UnreadCopy
<1>2. FrameValid(p) /\ \A j \in Inum : Valid(j) => Valid(j)'
  BY <1>0, ReadValid
<1>3. SameCall(p)
  BY <1>0 DEF SameCall
<1>4. OwnPoints(p)
  <2>1. PlaceOK(p) /\ \A j \in Inum : Points(p, j)' => Points(p, j)
    BY <1>3, InvParts, SameCallIs
  <2> QED BY <1>0, <2>1 DEF OwnPoints, PlaceOK, Valid, Linking
<1>5. UnlinkOK(p)' /\ NewOK(p)'
  BY <1>0, <1>3, SameRest DEF Valid
<1>6. FreeingOK(p)'
  <2>1. itable[i].ref = 1 /\ itable[i].valid /\ itable[i].nlink = 0
    BY <1>0 DEF LastUse
  <2>2. dinode[i].nlink = 0
    BY <2>1, InvParts DEF CopyInv, Valid
  <2>3. Head(m.puts) = i
    BY <1>0
  <2>4. FreeingOK(p)' <=> (m.puts # <<>> /\ m.put = "free" =>
            LET j == Head(m.puts)
            IN itable'[j].ref = 1 /\ itable'[j].valid /\ dinode'[j].nlink = 0)
    BY DEF FreeingOK, Valid
  <2> QED BY <1>0, <2>1, <2>2, <2>3, <2>4
<1>7. CwdInv'
  BY <1>0, <1>2, <1>3, SameCallIs, QuietFrame, SameCwd
<1> QED BY <1>0, <1>1, <1>2, <1>3, <1>4, <1>5, <1>6, <1>7, SameCallIs, QuietStep

\* An iput() that gives its reference back.
LEMMA IputDropKeeps ==
    ASSUME IInv, NEW p \in Proc, NEW i \in Inum, IputDropDone(p, i)
    PROVE  IInv'
<1> DEFINE l == c[p]
           m == c'[p]
<1>0. /\ l.puts # <<>> /\ i = Head(l.puts) /\ UNCHANGED <<dinode, cwd, opened>>
      /\ m.pc = l.pc /\ m.op = l.op /\ m.path = l.path
      /\ m.cur = l.cur /\ m.ip = l.ip /\ m.new = l.new /\ m.puts = Tail(l.puts) /\ m.put = "test"
      /\ \A j \in Inum \ {i} : itable'[j] = itable[j]
      /\ itable[i].ref = 1 => ~itable'[i].valid /\ itable'[i].nlink = 0
      /\ itable[i].ref # 1 =>
             /\ itable'[i].valid = itable[i].valid /\ itable'[i].type = itable[i].type
             /\ itable'[i].nlink = itable[i].nlink
      /\ Alone(p) /\ RefOK(p) /\ PointerInv'
  BY Zenon DEF IputDropDone
<1>1. CopyInv'
  <2>1. CopyInv
    BY InvParts
  <2> QED BY <1>0, <2>1 DEF CopyInv, Valid, InUse
<1>2. /\ FrameValid(p)
      /\ \A j \in Inum \ {i} : (Valid(j) => Valid(j)') /\ (Valid(j)' => Valid(j))
      /\ Sole(p, i) \/ ((Valid(i) => Valid(i)') /\ (Valid(i)' => Valid(i)))
  BY <1>0 DEF FrameValid, Sole, Valid
<1>3. SameCall(p)
  <2>1. l.puts \in Seq(Inum) /\ l.puts # <<>> /\ Len(l.puts) \in Nat
    BY <1>0, InvParts, PointersOf DEF CallOK, LocalsOK
  <2>2. /\ Len(m.puts) = Len(l.puts) - 1
        /\ \A k \in 1 .. Len(l.puts) - 1 : m.puts[k] = l.puts[k + 1]
    BY <1>0, <2>1, TailIs
  <2>3. ASSUME NEW k \in 1 .. Len(m.puts)
        PROVE  \E k2 \in 1 .. Len(l.puts) : l.puts[k2] = m.puts[k] /\ ~(k2 = 1 /\ l.put = "drop")
    <3>1. k + 1 \in 1 .. Len(l.puts) /\ k + 1 # 1 /\ l.puts[k + 1] = m.puts[k]
      BY <2>1, <2>2
    <3> QED BY <3>1
  <2> HIDE DEF l, m
  <2> QED BY <1>0, <2>3 DEF SameCall, l, m
<1>4. \A j \in Inum : Calm(p, j)
  BY <1>0 DEF Calm, HasDots
<1>5. KeepsDisk /\ FrameDisk(p)
  BY <1>0, QuietFrame
<1>6. PlaceOK(p)'
  BY <1>0, <1>2, <1>3, <1>4, SamePlace
<1>7. UnlinkOK(p)' /\ NewOK(p)' /\ FreeingOK(p)'
  <2>1. UnlinkOK(p)' /\ NewOK(p)'
    BY <1>0, <1>2, <1>3, SameRest
  <2> QED BY <1>0, <2>1 DEF FreeingOK
<1>8. DiskInv'
  BY <1>0, <1>1, <1>3, SameCallIs, QuietDisk
<1>9. CwdInv'
  BY <1>0, <1>2, <1>3, <1>5, SameCallIs, SameCwd
<1>10. FramePoints(p)
  BY <1>0, <1>3, SameCallIs DEF FramePoints
<1> QED BY <1>0, <1>2, <1>3, <1>5, <1>6, <1>7, <1>8, <1>9, <1>10, SameCallIs, StepKeeps

\* Fewer entries, none of which is new.
LEMMA FewerTree ==
    ASSUME TreeInv, \A d \in Inum : \A n \in Name(d)' : n \in Name(d) /\ dinode'[d].ents[n] = dinode[d].ents[n]
    PROVE  TreeInv'
  BY DEF TreeInv

\* Fewer names: no inode has more of them.
LEMMA FewerEntries ==
    ASSUME \A d \in Inum : \A n \in Name(d)' : n \in Name(d) /\ dinode'[d].ents[n] = dinode[d].ents[n],
           \A j \in Inum : dinode'[j].type = "dir" => dinode[j].type = "dir",
           DataTypes, NEW j \in Inum
    PROVE  EntriesOf(j)' \subseteq EntriesOf(j) /\ Subdirs(j)' \subseteq Subdirs(j)
<1>1. EntriesOf(j)' \subseteq EntriesOf(j)
  <2> SUFFICES ASSUME NEW d \in Inum, NEW n \in Name(d)', dinode'[d].ents[n] = j
               PROVE  <<d, n>> \in EntriesOf(j)
    BY DEF EntriesOf
  <2> QED BY DEF EntriesOf
<1>2. Subdirs(j)' \subseteq Subdirs(j)
  <2> SUFFICES ASSUME NEW n \in Name(j)', dinode'[dinode'[j].ents[n]].type = "dir"
               PROVE  n \in Subdirs(j)
    BY DEF Subdirs
  <2>1. n \in Name(j) /\ dinode'[j].ents[n] = dinode[j].ents[n]
    OBVIOUS
  <2>2. dinode[j].ents[n] \in Inum
    BY <2>1, EntsHave DEF DataTypes, Name
  <2> QED BY <2>1, <2>2 DEF Subdirs
<1> QED BY <1>1, <1>2

\* An iput() frees: nobody uses the inode, and no name is lost or becomes free.
LEMMA IputFreeKeeps ==
    ASSUME IInv, NEW p \in Proc, NEW i \in Inum, IputFreeDone(p, i)
    PROVE  IInv'
<1> DEFINE l == c[p]
           m == c'[p]
<1>0. /\ l.puts # <<>> /\ i = Head(l.puts) /\ l.put = "free" /\ UNCHANGED <<cwd, opened>>
      /\ m.pc = l.pc /\ m.op = l.op /\ m.path = l.path
      /\ m.cur = l.cur /\ m.ip = l.ip /\ m.new = l.new /\ m.puts = l.puts /\ m.put = "drop"
      /\ ~itable'[i].valid /\ itable'[i].nlink = 0
      /\ \A j \in Inum \ {i} : itable'[j] = itable[j]
      /\ dinode'[i] = Free /\ \A j \in Inum \ {i} : dinode'[j] = dinode[j]
      /\ Alone(p) /\ RefOK(p) /\ PointerInv'
  BY DEF IputFreeDone
<1>1. Valid(i) /\ dinode[i].nlink = 0 /\ Sole(p, i)
  <2>1. FreeingOK(p)
    BY InvParts
  <2> QED BY <1>0, <2>1 DEF FreeingOK, Sole
<1>2. l.puts \in Seq(Inum) /\ l.puts[1] = i
  BY <1>0, InvParts, PointersOf, PutIs DEF CallOK, LocalsOK
<1>3. FrameValid(p) /\ \A j \in Inum \ {i} : (Valid(j) => Valid(j)') /\ (Valid(j)' => Valid(j))
  BY <1>0, <1>1 DEF FrameValid, Valid
<1>4. FrameDisk(p) /\ \A j \in Inum \ {i} : Calm(p, j)
  <2>1. \A j \in Inum \ {i} : Calm(p, j)
    BY <1>0 DEF Calm, HasDots
  <2> QED BY <1>1, <2>1 DEF FrameDisk
<1>5. SameCall(p)
  BY <1>0 DEF SameCall
<1>6. PlaceOK(p)'
  <2>1. \A k \in 1 .. Len(m.puts) : m.puts[k] # i \/ (k = 1 /\ m.put = "drop")
    BY <1>0, <1>1, InvParts, SoleIs
  <2> QED BY <1>0, <1>1, <1>3, <1>4, <1>5, <2>1, SamePlace
<1>7. UnlinkOK(p)' /\ NewOK(p)' /\ FreeingOK(p)'
  <2>1. UnlinkOK(p)' /\ NewOK(p)'
    BY <1>0, <1>1, <1>3, <1>5, SameRest
  <2> QED BY <1>0, <2>1 DEF FreeingOK
<1>8. /\ Free.type = "free" /\ Free.nlink = 0 /\ DOMAIN Free.ents = {}
  BY NoEnts DEF Free
<1>9. \A d \in Inum : \A n \in Name(d)' : n \in Name(d) /\ dinode'[d].ents[n] = dinode[d].ents[n]
  BY <1>0, <1>8 DEF Name
<1>10. DataTypes /\ DataTypes' /\ LinkInv /\ TreeInv /\ CopyInv /\ EntryInv
  BY <1>0, InvParts DEF PointerInv
<1>11. CopyInv'
  BY <1>0, <1>10 DEF CopyInv, Valid, InUse
<1>12. EntryInv'
  BY <1>0, <1>8, <1>10 DEF EntryInv, HasDots
<1>13. LinkInv'
  <2>1. ASSUME NEW j \in Inum
        PROVE  dinode'[j].nlink >= Links(j)' + (IF j = ROOTINO THEN 1 ELSE 0)
    <3>1. EntriesOf(j)' \subseteq EntriesOf(j) /\ Subdirs(j)' \subseteq Subdirs(j)
      BY <1>0, <1>8, <1>9, <1>10, FewerEntries
    <3>2. Pending(j)' \subseteq Pending(j)
      BY <1>0, <1>5, SameCallIs, PendingLe
    <3>3. dinode[j].nlink \in Int /\ dinode'[j].nlink \in Int
      BY <1>10 DEF DataTypes
    <3>4. dinode'[j].nlink >= dinode[j].nlink
      BY <1>0, <1>1, <1>8, <3>3
    <3> QED BY <1>10, <3>1, <3>2, <3>4, LinkSame
  <2> QED BY <2>1 DEF LinkInv
<1>14. TreeInv'
  BY <1>9, <1>10, FewerTree
<1>15. CwdInv'
  BY <1>0, <1>3, <1>4, <1>5, SameCallIs, SameCwd
<1>16. FramePoints(p)
  <2>1. Len(l.puts) \in Nat /\ Len(l.puts) >= 1
    BY <1>0, <1>2
  <2>2. Points(p, i)
    BY <1>0, <1>2, <2>1 DEF Points
  <2>3. Head(m.puts) = i
    BY <1>0
  <2> QED BY <1>5, <2>2, <2>3, SameCallIs DEF FramePoints
<1> QED BY <1>0, <1>3, <1>4, <1>5, <1>6, <1>7, <1>11, <1>12, <1>13, <1>14, <1>15, <1>16,
       SameCallIs, StepKeeps DEF DiskInv
-----------------------------------------------------------------------------
(***************************************************************************)
(* Steps that change a link count.                                         *)
(***************************************************************************)
LEMMA RecountFrame ==
    ASSUME IInv, PointerInv', NEW p \in Proc, NEW i \in Inum, NEW n \in Int, Recounted(i, n),
           ReadAs(i, n), i \in {c[p].cur, c[p].ip}, InUse(i)
    PROVE  /\ KeepsDisk /\ FrameDisk(p) /\ FrameValid(p) /\ \A j \in Inum : Valid(j) => Valid(j)'
           /\ \A j \in Inum \ {i} : dinode'[j] = dinode[j]
           /\ CopyInv' /\ TreeInv' /\ DataTypes /\ DataTypes' /\ LinkInv /\ EntryInv
<1>1. DataTypes /\ DataTypes' /\ LinkInv /\ TreeInv /\ CopyInv /\ EntryInv
  BY InvParts DEF PointerInv
<1>2. \A j \in Inum \ {i} : dinode'[j] = dinode[j]
  <2> SUFFICES ASSUME NEW j \in Inum \ {i} PROVE dinode'[j] = dinode[j]
    OBVIOUS
  <2>1. /\ dinode[j] \in [type : Kinds, nlink : Int, ents : Ents]
        /\ dinode'[j] \in [type : Kinds, nlink : Int, ents : Ents]
    BY <1>1 DEF DataTypes
  <2>2. /\ dinode'[j].type = dinode[j].type /\ dinode'[j].ents = dinode[j].ents
        /\ dinode'[j].nlink = dinode[j].nlink
    BY DEF Recounted
  <2> QED BY <2>1, <2>2
<1>3. KeepsDisk /\ FrameDisk(p)
  BY <1>2 DEF Recounted, KeepsDisk, FrameDisk, Calm, HasDots
<1>4. FrameValid(p) /\ \A j \in Inum : Valid(j) => Valid(j)'
  BY ReadValid
<1>5. CopyInv'
  <2>1. Loaded(i).type = dinode[i].type
    BY LoadedDisk
  <2> QED BY <1>1, <2>1 DEF CopyInv, Recounted, ReadAs, Valid, InUse
<1>6. TreeInv'
  BY <1>1, SameTree DEF Recounted
<1> QED BY <1>1, <1>2, <1>3, <1>4, <1>5, <1>6

\* sys_link() counts the link it will make: of no directory.
LEMMA CountMore ==
    ASSUME IInv, PointerInv', NEW p \in Proc, NEW i \in Inum, NEW n \in Int, Recounted(i, n),
           ReadAs(i, n), i \in {c[p].cur, c[p].ip}, InUse(i), Alone(p),
           ~IsDir(i), n = dinode[i].nlink + 1, c'[p].ip = i
    PROVE  DiskInv'
<1>1. /\ \A j \in Inum \ {i} : dinode'[j] = dinode[j]
      /\ CopyInv' /\ TreeInv' /\ DataTypes /\ DataTypes' /\ LinkInv /\ EntryInv
  BY RecountFrame
<1>2. EntryInv'
  BY <1>1 DEF EntryInv, Recounted, HasDots, IsDir, InUse
<1>3. LinkInv'
  <2>1. ASSUME NEW j \in Inum
        PROVE  dinode'[j].nlink >= Links(j)' + (IF j = ROOTINO THEN 1 ELSE 0)
    <3>1. EntriesOf(j)' = EntriesOf(j) /\ Subdirs(j)' = Subdirs(j)
      BY <1>1, SameEntries DEF Recounted
    <3>2. Pending(j)' \subseteq Pending(j) \cup {p}
      BY DEF Pending, Alone, IsPending, Linking
    <3>3. /\ IsFiniteSet(Pending(j)) /\ Cardinality(EntriesOf(j)) \in Nat
          /\ Cardinality(Subdirs(j)) \in Nat /\ Cardinality(Pending(j)) \in Nat
      BY <1>1, LinksAre
    <3>4. CASE j = i
      <4>1. Cardinality(Pending(j)') <= Cardinality(Pending(j)) + 1
        BY <3>2, <3>3, CardAdd
      <4>2. dinode'[j].nlink >= dinode[j].nlink + 0 + 0 + 1
        BY <1>1, <3>4 DEF Recounted, DataTypes
      <4>3. /\ Cardinality(EntriesOf(j)') <= Cardinality(EntriesOf(j)) + 0
            /\ Cardinality(Subdirs(j)') <= Cardinality(Subdirs(j)) + 0
        BY <3>1, <3>3
      <4> QED BY <1>1, <4>1, <4>2, <4>3, LinkStep
    <3>5. CASE j # i
      <4>1. Pending(j)' \subseteq Pending(j)
        BY <3>5 DEF Pending, Alone, IsPending, Linking
      <4>2. dinode'[j].nlink >= dinode[j].nlink
        BY <1>1, <3>5 DEF DataTypes
      <4> QED BY <1>1, <3>1, <4>1, <4>2, LinkSame
    <3> QED BY <3>4, <3>5
  <2> QED BY <2>1 DEF LinkInv
<1> QED BY <1>1, <1>2, <1>3 DEF DiskInv

\* A link that was counted and not entered is taken back.
LEMMA CountLess ==
    ASSUME IInv, PointerInv', NEW p \in Proc, NEW i \in Inum, NEW n \in Int, Recounted(i, n),
           ReadAs(i, n), InUse(i), Alone(p),
           n = dinode[i].nlink - 1, c[p].ip = i, IsPending(c[p]), ~IsPending(c'[p])
    PROVE  DiskInv'
<1>1. /\ \A j \in Inum \ {i} : dinode'[j] = dinode[j]
      /\ CopyInv' /\ TreeInv' /\ DataTypes /\ DataTypes' /\ LinkInv /\ EntryInv
  BY RecountFrame
<1>2. EntryInv'
  <2>1. dinode[i].nlink \in Int
    BY <1>1 DEF DataTypes
  <2> QED BY <1>1, <2>1 DEF EntryInv, Recounted, HasDots, IsDir, InUse
<1>3. LinkInv'
  <2>1. ASSUME NEW j \in Inum
        PROVE  dinode'[j].nlink >= Links(j)' + (IF j = ROOTINO THEN 1 ELSE 0)
    <3>1. EntriesOf(j)' = EntriesOf(j) /\ Subdirs(j)' = Subdirs(j)
      BY <1>1, SameEntries DEF Recounted
    <3>2. Pending(j)' \subseteq Pending(j) \ {p}
      BY DEF Pending, Alone, IsPending, Linking
    <3>3. /\ IsFiniteSet(Pending(j)) /\ Cardinality(EntriesOf(j)) \in Nat
          /\ Cardinality(Subdirs(j)) \in Nat /\ Cardinality(Pending(j)) \in Nat
      BY <1>1, LinksAre
    <3>4. CASE j = i
      <4>1. p \in Pending(j)
        BY <3>4 DEF Pending
      <4>2. Cardinality(Pending(j)') + 1 <= Cardinality(Pending(j))
        BY <3>2, <3>3, <4>1, CardDel
      <4>3. Cardinality(Pending(j)') \in Nat
        BY <1>1, LinksAreNext
      <4>4. Cardinality(Pending(j)') <= Cardinality(Pending(j)) + (-1)
        BY <3>3, <4>2, <4>3
      <4>5. dinode'[j].nlink >= dinode[j].nlink + 0 + 0 + (-1)
        BY <1>1, <3>4 DEF Recounted, DataTypes
      <4>6. /\ Cardinality(EntriesOf(j)') <= Cardinality(EntriesOf(j)) + 0
            /\ Cardinality(Subdirs(j)') <= Cardinality(Subdirs(j)) + 0
        BY <3>1, <3>3
      <4> QED BY <1>1, <4>4, <4>5, <4>6, LinkStep
    <3>5. CASE j # i
      <4>1. Pending(j)' \subseteq Pending(j)
        BY <3>2
      <4>2. dinode'[j].nlink >= dinode[j].nlink
        BY <1>1, <3>5 DEF DataTypes
      <4> QED BY <1>1, <3>1, <4>1, <4>2, LinkSame
    <3> QED BY <3>4, <3>5
  <2> QED BY <2>1 DEF LinkInv
<1> QED BY <1>1, <1>2, <1>3 DEF DiskInv

\* link() counts the link that it has yet to enter, ...
LEMMA LinkIpWalkKeeps ==
    ASSUME IInv, NEW p \in Proc, LinkIpWalkDone(p), Loaded(c[p].cur).type # "dir"
    PROVE  IInv'
<1> DEFINE i == c[p].cur
           j == StartOf(p, c[p].new)
           n == Loaded(i).nlink + 1
           m == c'[p]
<1>0. /\ c[p].pc = "link_ip" /\ i \in Inum /\ CanLock(i) /\ j \in Inum /\ (j = ROOTINO \/ j = cwd[p])
      /\ n \in Int /\ UNCHANGED <<cwd, opened>>
      /\ m.pc = "namex" /\ m.op = "link_new" /\ m.path = c[p].new.elems
      /\ m.cur = j /\ m.ip = i /\ m.puts = <<>> /\ m.put = "test"
      /\ ReadAs(i, n) /\ Recounted(i, n) /\ Alone(p) /\ RefOK(p) /\ PointerInv'
  BY DEF LinkIpWalkDone
<1>1. n = dinode[i].nlink + 1 /\ ~IsDir(i) /\ InUse(i)
  BY <1>0, LoadedDisk DEF CanLock, IsDir, InUse
<1> HIDE DEF n, j
<1>2. DiskInv'
  BY <1>0, <1>1, CountMore
<1>3. KeepsDisk /\ FrameDisk(p) /\ FrameValid(p) /\ \A x \in Inum : Valid(x) => Valid(x)'
  BY <1>0, <1>1, RecountFrame
<1>4. OwnPoints(p)
  <2>1. Reach(j)
    BY <1>0, StartReach
  <2>2. \A x \in Inum : Points(p, x)' => Points(p, x) \/ Reach(x)
    BY <1>0, <2>1, NewPoints DEF Points
  <2> QED BY <1>0, <1>1, <2>1, <2>2 DEF OwnPoints, AtDir, AtLast, LockIp
<1>5. PathOK(p)'
  <2>1. PathOK(p)
    BY InvParts
  <2> QED BY <1>0, <2>1 DEF PathOK
<1>6. UnlinkOK(p)' /\ NewOK(p)' /\ FreeingOK(p)'
  BY <1>0 DEF UnlinkOK, NewOK, FreeingOK
<1>7. CwdInv'
  BY <1>0, <1>3, SameCwd
<1>8. PlaceOK(p)' /\ FramePoints(p)
  BY <1>0, <1>3, <1>4, OwnPlace
<1> QED BY <1>0, <1>2, <1>3, <1>5, <1>6, <1>7, <1>8, StepKeeps

\* ... or to take back, ...
LEMMA LinkIpNoneKeeps ==
    ASSUME IInv, NEW p \in Proc, LinkIpNoneDone(p), Loaded(c[p].cur).type # "dir"
    PROVE  IInv'
<1> DEFINE i == c[p].cur
           j == StartOf(p, c[p].new)
           n == Loaded(i).nlink + 1
           m == c'[p]
<1>0. /\ c[p].pc = "link_ip" /\ i \in Inum /\ CanLock(i) /\ j \in Inum /\ (j = ROOTINO \/ j = cwd[p])
      /\ n \in Int /\ UNCHANGED <<cwd, opened>>
      /\ m.pc = "link_bad" /\ m.path = <<>>
      /\ m.cur = None /\ m.ip = i /\ m.puts = <<j>> /\ m.put = "test"
      /\ ReadAs(i, n) /\ Recounted(i, n) /\ Alone(p) /\ RefOK(p) /\ PointerInv'
  BY DEF LinkIpNoneDone
<1>1. n = dinode[i].nlink + 1 /\ ~IsDir(i) /\ InUse(i)
  BY <1>0, LoadedDisk DEF CanLock, IsDir, InUse
<1> HIDE DEF n, j
<1>2. DiskInv'
  BY <1>0, <1>1, CountMore
<1>3. KeepsDisk /\ FrameDisk(p) /\ FrameValid(p) /\ \A x \in Inum : Valid(x) => Valid(x)'
  BY <1>0, <1>1, RecountFrame
<1>4. OwnPoints(p)
  <2>1. Reach(j)
    BY <1>0, StartReach
  <2>2. \A x \in Inum : Points(p, x)' => Points(p, x) \/ Reach(x)
    BY <1>0, <2>1, NewPoints, InodesAssumption DEF Points
  <2> QED BY <1>0, <1>1, <2>1, <2>2 DEF OwnPoints, AtDir, AtLast, LockIp
<1>5. Settled(p)
  BY <1>0 DEF Settled
<1>7. CwdInv'
  BY <1>0, <1>3, SameCwd
<1>8. PlaceOK(p)' /\ FramePoints(p)
  BY <1>0, <1>3, <1>4, OwnPlace
<1> QED BY <1>0, <1>2, <1>3, <1>5, <1>7, <1>8, SettledIs, StepKeeps

\* ... and takes it back.
LEMMA LinkBadKeeps ==
    ASSUME IInv, NEW p \in Proc, LinkBadDone(p)
    PROVE  IInv'
<1> DEFINE i == c[p].ip
           n == Loaded(i).nlink - 1
           m == c'[p]
<1>0. /\ c[p].pc = "link_bad" /\ i \in Inum /\ CanLock(i) /\ n \in Int /\ UNCHANGED <<cwd, opened>>
      /\ m.pc = "idle" /\ m.path = <<>> /\ m.cur = None /\ m.ip = None /\ m.puts = <<i>> /\ m.put = "test"
      /\ ReadAs(i, n) /\ Recounted(i, n) /\ Alone(p) /\ RefOK(p) /\ PointerInv'
  BY DEF LinkBadDone
<1>1. n = dinode[i].nlink - 1 /\ InUse(i)
  BY <1>0, LoadedDisk DEF CanLock, InUse
<1> HIDE DEF n
<1>2. DiskInv'
  BY <1>0, <1>1, CountLess DEF IsPending, Linking
<1>3. KeepsDisk /\ FrameDisk(p) /\ FrameValid(p) /\ \A x \in Inum : Valid(x) => Valid(x)'
  BY <1>0, <1>1, RecountFrame
<1>4. OwnPoints(p)
  <2>2. \A x \in Inum : Points(p, x)' => Points(p, x) \/ Reach(x)
    BY <1>0, NewPoints, InodesAssumption DEF Points
  <2> QED BY <1>0, <1>1, <2>2 DEF OwnPoints, AtDir, AtLast, LockIp, Linking
<1>5. Settled(p)
  BY <1>0 DEF Settled
<1>7. CwdInv'
  BY <1>0, <1>3, SameCwd
<1>8. PlaceOK(p)' /\ FramePoints(p)
  BY <1>0, <1>3, <1>4, OwnPlace
<1> QED BY <1>0, <1>2, <1>3, <1>5, <1>7, <1>8, SettledIs, StepKeeps

\* unlink() takes back the link of the name it removed.
LEMMA UnlinkDropKeeps ==
    ASSUME IInv, NEW p \in Proc, UnlinkDropDone(p)
    PROVE  IInv'
<1> DEFINE i == c[p].ip
           n == itable[i].nlink - 1
           m == c'[p]
<1>0. /\ c[p].pc = "unlink_drop" /\ i \in Inum /\ n \in Int /\ UNCHANGED <<cwd, opened>>
      /\ m.pc = "idle" /\ m.path = <<>> /\ m.cur = None /\ m.ip = None /\ m.puts = <<i>> /\ m.put = "test"
      /\ ReadAs(i, n) /\ Recounted(i, n) /\ Alone(p) /\ RefOK(p) /\ PointerInv'
  BY DEF UnlinkDropDone
<1>1. n = dinode[i].nlink - 1 /\ InUse(i)
  <2>1. Valid(i)
    BY <1>0, InvParts DEF PlaceOK, LockIp
  <2> QED BY <1>0, <2>1, InvParts DEF CopyInv, Valid, InUse
<1> HIDE DEF n
<1>2. DiskInv'
  BY <1>0, <1>1, CountLess DEF IsPending, Linking
<1>3. KeepsDisk /\ FrameDisk(p) /\ FrameValid(p) /\ \A x \in Inum : Valid(x) => Valid(x)'
  BY <1>0, <1>1, RecountFrame
<1>4. OwnPoints(p)
  <2>2. \A x \in Inum : Points(p, x)' => Points(p, x) \/ Reach(x)
    BY <1>0, NewPoints, InodesAssumption DEF Points
  <2> QED BY <1>0, <1>1, <2>2 DEF OwnPoints, AtDir, AtLast, LockIp, Linking
<1>5. Settled(p)
  BY <1>0 DEF Settled
<1>7. CwdInv'
  BY <1>0, <1>3, SameCwd
<1>8. PlaceOK(p)' /\ FramePoints(p)
  BY <1>0, <1>3, <1>4, OwnPlace
<1> QED BY <1>0, <1>2, <1>3, <1>5, <1>7, <1>8, SettledIs, StepKeeps
-----------------------------------------------------------------------------
(***************************************************************************)
(* Steps that make an entry, or remove one.                                *)
(***************************************************************************)
\* The only new entry is n of d, for inode i, which has no entries itself.
NewEntry(d, n, i) ==
    /\ \A j \in Inum : dinode'[j].type = dinode[j].type
    /\ \A j \in Inum : Name(j)' = IF j = d THEN Name(j) \cup {n} ELSE Name(j)
    /\ \A j \in Inum : \A k \in Name(j) : dinode'[j].ents[k] = dinode[j].ents[k]
    /\ n \notin Name(d) /\ dinode'[d].ents[n] = i
    /\ Name(i) = {} /\ i # d

\* An entry for an inode that has no entries itself makes no circle, ...
LEMMA NewEntryTree ==
    ASSUME TreeInv, NEW d \in Inum, NEW n, NEW i \in Inum, NewEntry(d, n, i)
    PROVE  TreeInv'
<1> SUFFICES ASSUME NEW S \in (SUBSET Inum) \ {{}},
                    \A e \in S : \E k \in Name(e)' : dinode'[e].ents[k] \in S
             PROVE  FALSE
  BY DEF TreeInv
<1>1. i \notin S
  BY DEF NewEntry
<1>2. \A e \in S : \E k \in Name(e) : dinode[e].ents[k] \in S
  <2> TAKE e \in S
  <2>1. PICK k \in Name(e)' : dinode'[e].ents[k] \in S
    OBVIOUS
  <2>2. k \in Name(e)
    BY <1>1, <2>1 DEF NewEntry
  <2> QED BY <2>1, <2>2 DEF NewEntry
<1> QED BY <1>2 DEF TreeInv

\* ... and adds one name to it, and perhaps one subdirectory to its directory.
LEMMA NewEntryLinks ==
    ASSUME DataTypes, DataTypes', NEW d \in Inum, NEW n, NEW i \in Inum, NewEntry(d, n, i), NEW j \in Inum
    PROVE  /\ Cardinality(EntriesOf(j)') <= Cardinality(EntriesOf(j)) + (IF j = i THEN 1 ELSE 0)
           /\ Cardinality(Subdirs(j)') <= Cardinality(Subdirs(j)) + (IF j = d /\ IsDir(i) THEN 1 ELSE 0)
<1>0. /\ IsFiniteSet(EntriesOf(j)) /\ IsFiniteSet(Subdirs(j))
      /\ Cardinality(EntriesOf(j)) \in Nat /\ Cardinality(Subdirs(j)) \in Nat
  BY LinksAre
<1>1. \A e \in EntriesOf(j)' : e \in EntriesOf(j) \/ (e = <<d, n>> /\ j = i)
  <2> SUFFICES ASSUME NEW x \in Inum, NEW k \in Name(x)', dinode'[x].ents[k] = j
               PROVE  <<x, k>> \in EntriesOf(j) \/ (<<x, k>> = <<d, n>> /\ j = i)
    BY DEF EntriesOf
  <2>1. CASE k \in Name(x)
    BY <2>1 DEF NewEntry, EntriesOf
  <2>2. CASE k \notin Name(x)
    BY <2>2 DEF NewEntry
  <2> QED BY <2>1, <2>2
<1>2. \A k \in Subdirs(j)' : k \in Subdirs(j) \/ (k = n /\ j = d /\ IsDir(i))
  <2> SUFFICES ASSUME NEW k \in Name(j)', dinode'[dinode'[j].ents[k]].type = "dir"
               PROVE  k \in Subdirs(j) \/ (k = n /\ j = d /\ IsDir(i))
    BY DEF Subdirs
  <2>1. CASE k \in Name(j)
    <3>1. dinode[j].ents[k] \in Inum
      BY <2>1, EntsHave DEF DataTypes, Name
    <3> QED BY <2>1, <3>1 DEF NewEntry, Subdirs
  <2>2. CASE k \notin Name(j)
    BY <2>2 DEF NewEntry, IsDir
  <2> QED BY <2>1, <2>2
<1>3. Cardinality(EntriesOf(j)') <= Cardinality(EntriesOf(j)) + (IF j = i THEN 1 ELSE 0)
  <2>1. CASE j = i
    <3>1. EntriesOf(j)' \subseteq EntriesOf(j) \cup {<<d, n>>}
      BY <1>1
    <3> QED BY <1>0, <2>1, <3>1, CardAdd
  <2>2. CASE j # i
    <3>1. EntriesOf(j)' \subseteq EntriesOf(j)
      BY <1>1, <2>2
    <3>2. /\ Cardinality(EntriesOf(j)') \in Nat
          /\ Cardinality(EntriesOf(j)') <= Cardinality(EntriesOf(j))
      BY <1>0, <3>1, CardLe
    <3> QED BY <1>0, <2>2, <3>2
  <2> QED BY <2>1, <2>2
<1>4. Cardinality(Subdirs(j)') <= Cardinality(Subdirs(j)) + (IF j = d /\ IsDir(i) THEN 1 ELSE 0)
  <2>1. CASE j = d /\ IsDir(i)
    <3>1. Subdirs(j)' \subseteq Subdirs(j) \cup {n}
      BY <1>2
    <3> QED BY <1>0, <2>1, <3>1, CardAdd
  <2>2. CASE ~(j = d /\ IsDir(i))
    <3>1. Subdirs(j)' \subseteq Subdirs(j)
      BY <1>2, <2>2
    <3>2. /\ Cardinality(Subdirs(j)') \in Nat
          /\ Cardinality(Subdirs(j)') <= Cardinality(Subdirs(j))
      BY <1>0, <3>1, CardLe
    <3> QED BY <1>0, <2>2, <3>2
  <2> QED BY <2>1, <2>2
<1> QED BY <1>3, <1>4

\* link() enters the name it has counted.
LEMMA LinkDpKeeps ==
    ASSUME IInv, NEW p \in Proc, LinkDpDone(p)
    PROVE  IInv'
<1> DEFINE d == c[p].cur
           n == c[p].path[1]
           i == c[p].ip
           m == c'[p]
<1>0. /\ c[p].pc = "link_dp" /\ d \in Inum /\ i \in Inum /\ CanLock(d)
      /\ n \notin DOMAIN dinode[d].ents /\ UNCHANGED <<lock, cwd, opened>>
      /\ m.pc = "idle" /\ m.op = None /\ m.path = <<>>
      /\ m.cur = None /\ m.ip = None /\ m.puts = <<d, i>> /\ m.put = "test"
      /\ Read(d) /\ EnteredIn(d, n, i)
      /\ Alone(p) /\ RefOK(p) /\ PointerInv'
  BY DEF LinkDpDone
<1>1. /\ DataTypes /\ DataTypes' /\ CopyInv /\ EntryInv /\ LinkInv /\ TreeInv
      /\ Loaded(d).type = dinode[d].type /\ Loaded(d).nlink = dinode[d].nlink
  BY <1>0, InvParts, LoadedDisk DEF PointerInv
<1>2. IsDir(d) /\ HasDots(d) /\ ~IsDir(i) /\ DOMAIN dinode[i].ents = {}
  <2>1. PlaceOK(p) /\ d # None
    BY <1>0, InvParts, InodesAssumption
  <2>2. IsDir(d) /\ HasDots(d) /\ ~IsDir(i)
    BY <1>0, <2>1 DEF PlaceOK, AtDir, AtLast, Linking
  <2> QED BY <1>0, <1>1, <2>2 DEF EntryInv, IsDir
<1> HIDE DEF d, n, i
<1>3. /\ DOMAIN dinode'[d].ents = DOMAIN dinode[d].ents \cup {n}
      /\ dinode'[d].ents[n] = i
      /\ \A k \in DOMAIN dinode[d].ents : dinode'[d].ents[k] = dinode[d].ents[k]
  BY <1>0 DEF EnteredIn, Entered
<1>4. NewEntry(d, n, i)
  <2>1. n \notin {".", ".."} /\ i # d
    BY <1>0, <1>2 DEF HasDots
  <2> QED BY <1>0, <1>2, <1>3, <2>1 DEF NewEntry, EnteredIn, Name
<1>5. \A j \in Inum \ {d} : dinode'[j] = dinode[j]
  <2> SUFFICES ASSUME NEW j \in Inum \ {d} PROVE dinode'[j] = dinode[j]
    OBVIOUS
  <2>1. /\ dinode[j] \in [type : Kinds, nlink : Int, ents : Ents]
        /\ dinode'[j] \in [type : Kinds, nlink : Int, ents : Ents]
    BY <1>1 DEF DataTypes
  <2>2. /\ dinode'[j].type = dinode[j].type /\ dinode'[j].ents = dinode[j].ents
        /\ dinode'[j].nlink = dinode[j].nlink
    BY <1>0 DEF EnteredIn
  <2> QED BY <2>1, <2>2
<1>6. KeepsDisk /\ FrameDisk(p)
  BY <1>0, <1>3, <1>5 DEF EnteredIn, KeepsDisk, FrameDisk, Calm, HasDots, CanLock, d
<1>7. FrameValid(p) /\ \A j \in Inum : Valid(j) => Valid(j)'
  <2>1. d \in {c[p].cur, c[p].ip} /\ ReadAs(d, Loaded(d).nlink)
    BY <1>0 DEF Read, d
  <2> QED BY <1>0, <2>1, ReadValid
<1>8. CopyInv'
  BY <1>0, <1>1 DEF CopyInv, EnteredIn, Read, ReadAs, CanLock, Valid, InUse
<1>9. EntryInv'
  <2>1. \A j \in Inum \ {d} : dinode'[j] = dinode[j]
    BY <1>5
  <2>2. /\ dinode'[d].type = "dir" /\ "." \in DOMAIN dinode[d].ents /\ ".." \in DOMAIN dinode[d].ents
        /\ "." \in DOMAIN dinode'[d].ents /\ ".." \in DOMAIN dinode'[d].ents
    BY <1>0, <1>2, <1>3 DEF EnteredIn, IsDir, HasDots
  <2> QED BY <1>1, <1>3, <2>1, <2>2 DEF EntryInv, HasDots
<1>10. LinkInv'
  <2>1. ASSUME NEW j \in Inum
        PROVE  dinode'[j].nlink >= Links(j)' + (IF j = ROOTINO THEN 1 ELSE 0)
    <3>1. Pending(j)' \subseteq Pending(j) \ {p}
      BY <1>0 DEF Pending, Alone, IsPending, Linking
    <3>2. /\ IsFiniteSet(Pending(j)) /\ Cardinality(EntriesOf(j)) \in Nat
          /\ Cardinality(Subdirs(j)) \in Nat /\ Cardinality(Pending(j)) \in Nat
      BY <1>1, LinksAre
    <3>3. Cardinality(EntriesOf(j)') <= Cardinality(EntriesOf(j)) + (IF j = i THEN 1 ELSE 0)
      BY <1>0, <1>1, <1>4, NewEntryLinks
    <3>4. Cardinality(Subdirs(j)') <= Cardinality(Subdirs(j)) + 0
      BY <1>0, <1>1, <1>2, <1>4, NewEntryLinks
    <3>5. dinode'[j].nlink = dinode[j].nlink /\ dinode[j].nlink \in Int
      BY <1>0, <1>1 DEF EnteredIn, DataTypes
    <3>6. CASE j = i
      <4>1. p \in Pending(j)
        BY <1>0, <3>6 DEF Pending, IsPending, Linking, i
      <4>2. Cardinality(Pending(j)') + 1 <= Cardinality(Pending(j))
        BY <3>1, <3>2, <4>1, CardDel
      <4>3. Cardinality(Pending(j)') \in Nat
        BY <1>1, LinksAreNext
      <4>4. Cardinality(Pending(j)') <= Cardinality(Pending(j)) + (-1)
        BY <3>2, <4>2, <4>3
      <4>5. dinode'[j].nlink >= dinode[j].nlink + 1 + 0 + (-1)
        BY <3>5
      <4>6. Cardinality(EntriesOf(j)') <= Cardinality(EntriesOf(j)) + 1
        BY <3>3, <3>6
      <4> QED BY <1>1, <3>4, <4>4, <4>5, <4>6, LinkStep
    <3>7. CASE j # i
      <4>1. Pending(j)' \subseteq Pending(j)
        BY <3>1
      <4>2. Cardinality(Pending(j)') <= Cardinality(Pending(j)) + 0
        BY <3>2, <4>1, CardLe
      <4>3. dinode'[j].nlink >= dinode[j].nlink + 0 + 0 + 0
        BY <3>5
      <4>4. Cardinality(EntriesOf(j)') <= Cardinality(EntriesOf(j)) + 0
        BY <3>3, <3>7
      <4> QED BY <1>1, <3>4, <4>2, <4>3, <4>4, LinkStep
    <3> QED BY <3>6, <3>7
  <2> QED BY <2>1 DEF LinkInv
<1>11. TreeInv'
  BY <1>0, <1>1, <1>4, NewEntryTree
<1>12. OwnPoints(p)
  <2>1. \A j \in Inum : Points(p, j)' => Points(p, j)
    <3> SUFFICES ASSUME NEW j \in Inum, Points(p, j)' PROVE Points(p, j)
      OBVIOUS
    <3>1. \A k \in 1 .. Len(<<d, i>>) : <<d, i>>[k] \in {d, i}
      OBVIOUS
    <3>2. j \in {cwd[p], opened[p], d, i}
      BY <1>0, <3>1, InodesAssumption DEF Points
    <3> QED BY <3>2 DEF Points, d, i
  <2> QED BY <1>0, <2>1 DEF OwnPoints, AtDir, AtLast, LockIp, Linking
<1>13. Settled(p)
  BY <1>0 DEF Settled
<1>14. CwdInv'
  BY <1>0, <1>6, <1>7, SameCwd
<1>15. PlaceOK(p)' /\ FramePoints(p)
  BY <1>0, <1>6, <1>7, <1>12, OwnPlace
<1>16. DiskInv'
  BY <1>8, <1>9, <1>10, <1>11 DEF DiskInv
<1> QED BY <1>0, <1>6, <1>7, <1>13, <1>14, <1>15, <1>16, SettledIs, StepKeeps

\* unlink() removes the name; its link remains to be taken back.
LEMMA UnlinkIpKeeps ==
    ASSUME IInv, NEW p \in Proc, UnlinkIpDone(p)
    PROVE  IInv'
<1> DEFINE d == c[p].cur
           n == c[p].path[1]
           i == c[p].ip
           k == DpLinks(d, i)
           m == c'[p]
<1>0. /\ c[p].pc = "unlink_ip" /\ d \in Inum /\ i \in Inum /\ d # i /\ CanLock(i) /\ k \in Int
      /\ UNCHANGED <<cwd, opened>>
      /\ m.pc = "unlink_drop" /\ m.op = None /\ m.path = <<>>
      /\ m.cur = None /\ m.ip = i /\ m.puts = <<d>> /\ m.put = "test"
      /\ ReadBoth(i, Loaded(i).nlink, d, k) /\ RemovedFrom(d, n, k)
      /\ Alone(p) /\ RefOK(p) /\ PointerInv'
  BY DEF UnlinkIpDone
<1>1. /\ DataTypes /\ DataTypes' /\ CopyInv /\ EntryInv /\ LinkInv /\ TreeInv
      /\ Loaded(i).type = dinode[i].type /\ Loaded(i).nlink = dinode[i].nlink
  BY <1>0, InvParts, LoadedDisk DEF PointerInv
<1>2. /\ IsDir(d) /\ Valid(d) /\ HasDots(d) /\ InUse(i)
      /\ n \in Name(d) /\ dinode[d].ents[n] = i
  <2>1. PlaceOK(p) /\ UnlinkOK(p) /\ d # None
    BY <1>0, InvParts, InodesAssumption
  <2>2. IsDir(d) /\ Valid(d) /\ HasDots(d)
    BY <1>0, <2>1 DEF PlaceOK, AtDir, AtLast
  <2>3. n \in Name(d) /\ dinode[d].ents[n] = i
    BY <1>0, <2>1, Zenon DEF UnlinkOK
  <2> QED BY <1>0, <1>1, <2>2, <2>3 DEF CanLock, InUse
<1>3. k = IF IsDir(i) THEN dinode[d].nlink - 1 ELSE dinode[d].nlink
  BY <1>0, <1>1, <1>2 DEF DpLinks, IsDir, CopyInv
<1>4. lock[d] = p
  BY <1>0, InvParts, PointersOf DEF Locking, LockCur
<1> HIDE DEF d, n, i, k
<1>5. /\ \A j \in Inum \ {d} : dinode'[j] = dinode[j]
      /\ dinode'[d].type = dinode[d].type /\ dinode'[d].nlink = k
      /\ DOMAIN dinode'[d].ents = DOMAIN dinode[d].ents \ {n}
      /\ \A x \in DOMAIN dinode[d].ents \ {n} : dinode'[d].ents[x] = dinode[d].ents[x]
      /\ n \in DOMAIN dinode[d].ents /\ n \notin {".", ".."}
  BY <1>0, <1>2 DEF RemovedFrom, Name
<1>6. KeepsDisk /\ FrameDisk(p)
  BY <1>0, <1>4, <1>5 DEF KeepsDisk, FrameDisk, Calm, HasDots, d
<1>7. FrameValid(p) /\ \A j \in Inum : Valid(j) => Valid(j)'
  BY <1>0 DEF FrameValid, Valid, ReadBoth, i
<1>8. CopyInv'
  <2>1. /\ itable'[i].valid /\ itable'[i].type = dinode'[i].type
        /\ itable'[i].nlink = dinode'[i].nlink /\ dinode'[i].type # "free"
    BY <1>0, <1>1, <1>2, <1>5 DEF ReadBoth, InUse
  <2>2. /\ itable'[d].valid /\ itable'[d].type = dinode'[d].type
        /\ itable'[d].nlink = dinode'[d].nlink /\ dinode'[d].type # "free"
    BY <1>0, <1>1, <1>2, <1>5 DEF CopyInv, ReadBoth, Valid, IsDir
  <2>3. \A j \in Inum \ {i, d} :
            /\ dinode'[j] = dinode[j] /\ itable'[j].valid = itable[j].valid
            /\ itable'[j].type = itable[j].type /\ itable'[j].nlink = itable[j].nlink
    BY <1>0, <1>5 DEF ReadBoth
  <2> QED BY <1>1, <2>1, <2>2, <2>3 DEF CopyInv, Valid, InUse
<1>9. EntryInv'
  <2>1. /\ dinode'[d].type = "dir"
        /\ "." \in DOMAIN dinode'[d].ents /\ ".." \in DOMAIN dinode'[d].ents
    BY <1>2, <1>5 DEF IsDir, HasDots
  <2> QED BY <1>1, <1>5, <2>1 DEF EntryInv, HasDots
<1>10. \A e \in Inum : \A x \in Name(e)' : x \in Name(e) /\ dinode'[e].ents[x] = dinode[e].ents[x]
  BY <1>5 DEF Name
<1>11. LinkInv'
  <2>1. ASSUME NEW j \in Inum
        PROVE  dinode'[j].nlink >= Links(j)' + (IF j = ROOTINO THEN 1 ELSE 0)
    <3>1. EntriesOf(j)' \subseteq EntriesOf(j) /\ Subdirs(j)' \subseteq Subdirs(j)
      BY <1>1, <1>6, <1>10, FewerEntries DEF KeepsDisk
    <3>2. /\ IsFiniteSet(EntriesOf(j)) /\ IsFiniteSet(Subdirs(j)) /\ IsFiniteSet(Pending(j))
          /\ Cardinality(EntriesOf(j)) \in Nat /\ Cardinality(Subdirs(j)) \in Nat
          /\ Cardinality(Pending(j)) \in Nat
      BY <1>1, LinksAre
    <3>3. /\ Cardinality(EntriesOf(j)') \in Nat /\ Cardinality(Subdirs(j)') \in Nat
          /\ Cardinality(Pending(j)') \in Nat
      BY <1>1, LinksAreNext
    <3>4. /\ Cardinality(EntriesOf(j)') <= Cardinality(EntriesOf(j)) + 0
          /\ Cardinality(Subdirs(j)') <= Cardinality(Subdirs(j)) + 0
      BY <3>1, <3>2, CardLe
    <3>5. dinode[j].nlink \in Int /\ dinode'[j].nlink \in Int
      BY <1>1 DEF DataTypes
    <3>6. CASE j = i
      <4>1. EntriesOf(j)' \subseteq EntriesOf(j) \ {<<d, n>>} /\ <<d, n>> \in EntriesOf(j)
        <5>1. <<d, n>> \in EntriesOf(j)
          BY <1>0, <1>2, <3>6 DEF EntriesOf
        <5>3. <<d, n>> \notin EntriesOf(j)'
          BY <1>0, <1>5 DEF EntriesOf, Name
        <5> QED BY <3>1, <5>1, <5>3
      <4>2. Cardinality(EntriesOf(j)') + 1 <= Cardinality(EntriesOf(j))
        BY <3>2, <4>1, CardDel
      <4>3. Cardinality(EntriesOf(j)') <= Cardinality(EntriesOf(j)) + (-1)
        BY <3>2, <3>3, <4>2
      <4>4. Pending(j)' \subseteq Pending(j) \cup {p}
        BY <1>0 DEF Pending, Alone, IsPending, Linking
      <4>5. Cardinality(Pending(j)') <= Cardinality(Pending(j)) + 1
        BY <3>2, <4>4, CardAdd
      <4>6. dinode'[j].nlink >= dinode[j].nlink + (-1) + 0 + 1
        BY <1>0, <1>5, <3>5, <3>6
      <4> QED BY <1>1, <3>4, <4>3, <4>5, <4>6, LinkStep
    <3>7. CASE j # i
      <4>1. Pending(j)' \subseteq Pending(j)
        BY <1>0, <3>7 DEF Pending, Alone, IsPending, Linking
      <4>2. Cardinality(Pending(j)') <= Cardinality(Pending(j)) + 0
        BY <3>2, <4>1, CardLe
      <4>3. CASE j = d /\ IsDir(i)
        <5>1. n \in Subdirs(j)
          BY <1>2, <4>3 DEF Subdirs, IsDir
        <5>2. n \notin Subdirs(j)'
          BY <1>5, <4>3 DEF Subdirs, Name
        <5>3. Cardinality(Subdirs(j)') + 1 <= Cardinality(Subdirs(j))
          BY <3>1, <3>2, <5>1, <5>2, CardDel
        <5>4. Cardinality(Subdirs(j)') <= Cardinality(Subdirs(j)) + (-1)
          BY <3>2, <3>3, <5>3
        <5>5. dinode'[j].nlink >= dinode[j].nlink + 0 + (-1) + 0
          BY <1>3, <1>5, <3>5, <4>3
        <5> QED BY <1>1, <3>4, <4>2, <5>4, <5>5, LinkStep
      <4>4. CASE ~(j = d /\ IsDir(i))
        <5>1. dinode'[j].nlink >= dinode[j].nlink + 0 + 0 + 0
          BY <1>3, <1>5, <3>5, <4>4
        <5> QED BY <1>1, <3>4, <4>2, <5>1, LinkStep
      <4> QED BY <4>3, <4>4
    <3> QED BY <3>6, <3>7
  <2> QED BY <2>1 DEF LinkInv
<1>12. TreeInv'
  BY <1>1, <1>10, FewerTree
<1>13. OwnPoints(p)
  <2>1. \A j \in Inum : Points(p, j)' => Points(p, j)
    BY <1>0, NewPoints, InodesAssumption DEF Points, d, i
  <2>2. itable'[i].valid
    BY <1>0 DEF ReadBoth
  <2> QED BY <1>0, <2>1, <2>2 DEF OwnPoints, AtDir, AtLast, LockIp, Linking
<1>14. Settled(p)
  BY <1>0 DEF Settled
<1>15. CwdInv'
  BY <1>0, <1>6, <1>7, SameCwd
<1>16. PlaceOK(p)' /\ FramePoints(p)
  BY <1>0, <1>6, <1>7, <1>13, OwnPlace
<1>17. DiskInv'
  BY <1>8, <1>9, <1>11, <1>12 DEF DiskInv
<1> QED BY <1>0, <1>6, <1>7, <1>14, <1>15, <1>16, <1>17, SettledIs, StepKeeps
-----------------------------------------------------------------------------
(***************************************************************************)
(* create(): the new inode.                                                *)
(***************************************************************************)
\* A free inode is blank, and nobody points to it.
LEMMA FreeIs ==
    ASSUME IInv, NEW i \in Inum, dinode[i].type = "free"
    PROVE  /\ dinode[i].nlink = 0 /\ DOMAIN dinode[i].ents = {} /\ ~Valid(i)
           /\ EntriesOf(i) = {} /\ ~Reach(i) /\ \A p \in Proc : ~Points(p, i)
           /\ cwd[Init1] # i
<1>1. DataTypes /\ CopyInv /\ EntryInv /\ LinkInv
  BY InvParts
<1>2. dinode[i].nlink = 0 /\ DOMAIN dinode[i].ents = {}
  BY <1>1, NoEnts DEF EntryInv, Free
<1>3. ~Valid(i)
  BY <1>1 DEF CopyInv, InUse
<1>4. EntriesOf(i) = {}
  BY <1>1, <1>2, LinkNatural
<1>5. ~Reach(i)
  BY ReachFine DEF Fine, InUse
<1>6. \A p \in Proc : ~Points(p, i)
  BY PointsInUse DEF InUse
<1> QED BY <1>2, <1>3, <1>4, <1>5, <1>6 DEF Reach

\* The inode from ialloc() was blank, and is nobody else's.
LEMMA CreateAllocKeeps ==
    ASSUME IInv, NEW p \in Proc, CreateAllocDone(p)
    PROVE  IInv'
<1> DEFINE d == c[p].cur
           n == c[p].path[1]
           m == c'[p]
<1>a. PICK i \in Inum : i = CHOOSE j \in FreeInums : \A k \in FreeInums : j <= k
  BY DEF CreateAllocDone
<1>0. /\ c[p].pc = "create_dp" /\ c[p].puts = <<>> /\ d \in Inum /\ c[p].ip = None
      /\ CanLock(d) /\ n \in STRING /\ c[p].op \in Creates
      /\ n \notin DOMAIN dinode[d].ents /\ dinode[i].type = "free"
      /\ UNCHANGED <<cwd, opened>>
      /\ m.pc = "create_new" /\ m.op = c[p].op /\ m.path = c[p].path
      /\ m.cur = d /\ m.ip = i /\ m.new = c[p].new /\ m.puts = <<>> /\ m.put = c[p].put
      /\ Read(d) /\ dinode'[i] = Allocated(c[p].op) /\ \A j \in Inum \ {i} : dinode'[j] = dinode[j]
      /\ Alone(p) /\ RefOK(p) /\ PointerInv'
  BY <1>a DEF CreateAllocDone
<1>1. /\ DataTypes /\ DataTypes' /\ CopyInv /\ EntryInv /\ LinkInv /\ TreeInv
      /\ Loaded(d).type = dinode[d].type /\ Loaded(d).nlink = dinode[d].nlink
      /\ PathOK(p) /\ PlaceOK(p)
  BY <1>0, InvParts, LoadedDisk DEF PointerInv
<1>2. /\ dinode[i].nlink = 0 /\ DOMAIN dinode[i].ents = {} /\ ~Valid(i)
      /\ EntriesOf(i) = {} /\ ~Reach(i) /\ \A q \in Proc : ~Points(q, i)
      /\ cwd[Init1] # i
  BY <1>0, FreeIs
<1>3. /\ dinode'[i].type \in {"dir", "device", "file"} /\ dinode'[i].nlink = 0
      /\ DOMAIN dinode'[i].ents = {}
  <2>1. /\ Allocated(c[p].op).type \in {"dir", "device", "file"}
        /\ Allocated(c[p].op).nlink = 0 /\ Allocated(c[p].op).ents = <<>>
    BY <1>0, AllocatedIs
  <2> QED BY <1>0, <2>1, NoEnts
<1>4. d # i /\ IsDir(d) /\ Valid(d)
  <2>1. IsDir(d) /\ Valid(d)
    BY <1>0, <1>1 DEF PlaceOK, AtDir, AtLast
  <2> QED BY <1>0, <2>1 DEF IsDir
<1> HIDE DEF d, n
<1>5. FrameDisk(p) /\ \A j \in Inum \ {i} : Calm(p, j)
  BY <1>0 DEF FrameDisk, Calm, HasDots
<1>6. FrameValid(p) /\ \A j \in Inum : Valid(j) => Valid(j)'
  <2>1. d \in {c[p].cur, c[p].ip} /\ ReadAs(d, Loaded(d).nlink)
    BY <1>0 DEF Read, d
  <2> QED BY <1>0, <2>1, ReadValid
<1>7. ~itable'[i].valid /\ itable'[i].nlink = itable[i].nlink
  BY <1>2, <1>4, <1>0 DEF Read, ReadAs, Valid
<1>8. CopyInv'
  <2>1. itable'[d].valid /\ itable'[d].type = dinode'[d].type /\ itable'[d].nlink = dinode'[d].nlink
        /\ dinode'[d].type # "free"
    BY <1>0, <1>1, <1>4 DEF Read, ReadAs, IsDir
  <2>2. \A j \in Inum \ {i, d} :
            /\ dinode'[j] = dinode[j] /\ itable'[j].valid = itable[j].valid
            /\ itable'[j].type = itable[j].type /\ itable'[j].nlink = itable[j].nlink
    BY <1>0 DEF Read, ReadAs
  <2> QED BY <1>1, <1>2, <1>7, <2>1, <2>2 DEF CopyInv, Valid, InUse
<1>9. EntryInv'
  BY <1>0, <1>1, <1>3 DEF EntryInv, HasDots
<1>10. \A e \in Inum : Name(e)' = Name(e) /\ \A x \in Name(e) : dinode'[e].ents[x] = dinode[e].ents[x]
  BY <1>0, <1>2, <1>3 DEF Name
<1>11. LinkInv'
  <2>1. ASSUME NEW j \in Inum
        PROVE  dinode'[j].nlink >= Links(j)' + (IF j = ROOTINO THEN 1 ELSE 0)
    <3>1. EntriesOf(j)' \subseteq EntriesOf(j)
      <4> SUFFICES ASSUME NEW x \in Inum, NEW k \in Name(x)', dinode'[x].ents[k] = j
                   PROVE  <<x, k>> \in EntriesOf(j)
        BY DEF EntriesOf
      <4> QED BY <1>10 DEF EntriesOf
    <3>2. Subdirs(j)' \subseteq Subdirs(j)
      <4> SUFFICES ASSUME NEW k \in Name(j)', dinode'[dinode'[j].ents[k]].type = "dir"
                   PROVE  k \in Subdirs(j)
        BY DEF Subdirs
      <4>1. k \in Name(j) /\ dinode'[j].ents[k] = dinode[j].ents[k]
        BY <1>10
      <4>2. dinode[j].ents[k] \in Inum
        BY <1>1, <4>1, EntsHave DEF DataTypes, Name
      <4>3. dinode[j].ents[k] # i
        <5> SUFFICES ASSUME dinode[j].ents[k] = i PROVE FALSE
          OBVIOUS
        <5>1. <<j, k>> \in EntriesOf(i)
          BY <4>1 DEF EntriesOf
        <5> QED BY <1>2, <5>1
      <4> QED BY <1>0, <4>1, <4>2, <4>3 DEF Subdirs
    <3>3. Pending(j)' \subseteq Pending(j)
      BY <1>0, PendingLe DEF FewerPending, IsPending, Linking
    <3>4. dinode'[j].nlink >= dinode[j].nlink
      <4>1. dinode[j].nlink \in Int
        BY <1>1 DEF DataTypes
      <4>2. dinode'[j].nlink = dinode[j].nlink
        BY <1>0, <1>2, <1>3
      <4> QED BY <4>1, <4>2
    <3> QED BY <1>1, <3>1, <3>2, <3>3, <3>4, LinkSame
  <2> QED BY <2>1 DEF LinkInv
<1>12. TreeInv'
  BY <1>1, <1>10, FewerTree
<1>13. \A j \in Inum \ {i} : Points(p, j)' => Points(p, j)
  BY <1>0, NewPoints DEF Points, d
<1>14. FramePoints(p)
  BY <1>0, <1>13 DEF FramePoints
<1>15. /\ cwd[p] # i /\ opened[p] # i
       /\ \A q \in Proc \ {p} :
              /\ cwd[q] # i /\ opened[q] # i /\ c[q].cur # i /\ c[q].ip # i
              /\ \A k \in 1 .. Len(c[q].puts) : c[q].puts[k] = i => k = 1 /\ c[q].put = "drop"
  BY <1>2 DEF Points
<1>16. NewOK(p)'
  <2>1. Private(p, i)'
    <3>1. \A q \in Proc \ {p} : cwd'[q] = cwd[q] /\ opened'[q] = opened[q] /\ c'[q] = c[q]
      BY <1>0 DEF Alone
    <3>2. cwd'[Init1] # i /\ cwd'[p] # i /\ opened'[p] # i /\ m.cur # i
          /\ \A k \in 1 .. Len(m.puts) : FALSE
      BY <1>0, <1>2, <1>4, <1>15
    <3> QED BY <1>15, <3>1, <3>2 DEF Private
  <2>2. n \notin DOMAIN dinode'[d].ents
    BY <1>0, <1>4
  <2>3. NewOK(p)' <=> (m.pc = "create_new" =>
            /\ m.path[1] \notin DOMAIN dinode'[m.cur].ents
            /\ dinode'[m.ip] = Allocated(m.op) /\ ~itable'[m.ip].valid
            /\ Private(p, c[p].ip)')
    BY DEF NewOK, Valid
  <2>4. m.ip = i => (Private(p, c[p].ip)' <=> Private(p, i)')
    BY DEF Private
  <2>5. m.path[1] = n
    BY <1>0 DEF n
  <2> QED BY <1>0, <1>7, <2>1, <2>2, <2>3, <2>4, <2>5
<1>17. PlaceOK(p)'
  <2>1. opened'[p] # None => itable'[opened'[p]].valid /\ dinode'[opened'[p]].type # "free"
    <3> HAVE opened'[p] # None
    <3>1. PICK k \in Inum : k = opened[p] /\ k = opened'[p]
      BY <1>0, <1>1 DEF DataTypes
    <3>2. Valid(k) /\ InUse(k) /\ k # i
      BY <1>1, <1>15, <3>1, InodesAssumption DEF PlaceOK
    <3> QED BY <1>0, <1>6, <3>1, <3>2 DEF Valid, InUse
  <2>2. /\ dinode'[d].type = "dir" /\ itable'[d].valid
        /\ {".", ".."} \subseteq DOMAIN dinode'[d].ents
    <3>1. HasDots(d)
      BY <1>0, <1>1, <1>4, InodesAssumption DEF PlaceOK, d
    <3> QED BY <1>0, <1>4, <3>1 DEF IsDir, HasDots, Read, ReadAs
  <2>3. \A k \in 1 .. Len(m.puts) : FALSE
    BY <1>0
  <2>4. ~Linking(m) /\ m.pc \notin LockIp
    BY <1>0 DEF Linking, LockIp
  <2>5. PlaceOK(p)' <=>
    /\ opened'[p] # None => itable'[opened'[p]].valid /\ dinode'[opened'[p]].type # "free"
    /\ m.cur # None => /\ dinode'[m.cur].type # "free"
                       /\ dinode'[m.cur].type = "dir" =>
                              {".", ".."} \subseteq DOMAIN dinode'[m.cur].ents
    /\ m.pc \in AtDir => dinode'[m.cur].type = "dir" /\ itable'[m.cur].valid
    /\ m.ip # None => dinode'[m.ip].type # "free"
    /\ Linking(m) => dinode'[m.ip].type # "dir"
    /\ m.pc \in LockIp => itable'[m.ip].valid
    /\ \A k \in 1 .. Len(m.puts) : dinode'[m.puts[k]].type # "free" \/ (k = 1 /\ m.put = "drop")
    BY DEF PlaceOK, InUse, IsDir, Valid, HasDots, Linking
  <2> HIDE DEF m
  <2> QED BY <1>0, <1>3, <2>1, <2>2, <2>3, <2>4, <2>5
<1>18. PathOK(p)'
  BY <1>0, <1>1 DEF PathOK, d
<1>19. UnlinkOK(p)' /\ FreeingOK(p)'
  BY <1>0 DEF UnlinkOK, FreeingOK
<1>20. CwdInv'
  BY <1>0, <1>5, <1>6, SameCwd
<1>21. DiskInv'
  BY <1>8, <1>9, <1>11, <1>12 DEF DiskInv
<1> QED BY <1>0, <1>5, <1>6, <1>14, <1>16, <1>17, <1>18, <1>19, <1>20, <1>21, StepKeeps

\* What create() knows of the inode it has allocated.
LEMMA NewInode ==
    ASSUME IInv, NEW p \in Proc, c[p].pc = "create_new",
           NEW d, d = c[p].cur, NEW i, i = c[p].ip
    PROVE  /\ d \in Inum /\ i \in Inum /\ d # i /\ c[p].op \in Creates
           /\ dinode[i].type = NewType(c[p].op) /\ (IsDir(i) <=> c[p].op = "mkdir") /\ InUse(i)
           /\ dinode[i].nlink = 0 /\ dinode[i].ents = <<>> /\ DOMAIN dinode[i].ents = {}
           /\ Name(i) = {} /\ EntriesOf(i) = {} /\ Pending(i) = {}
           /\ Subdirs(i) = {} /\ i # ROOTINO /\ ~Valid(i)
           /\ IsDir(d) /\ Valid(d) /\ HasDots(d) /\ lock[d] = p
           /\ OneLevel /\ IsDir(i) => d = ROOTINO
           /\ c[p].path[1] \notin DOMAIN dinode[d].ents
<1>1. d \in Inum /\ i \in Inum /\ c[p].op \in Creates /\ lock[d] = p
  BY InvParts, PointersOf DEF CallOK, LocalsOK, AtIp, AtCur, Locking, LockCur
<1>2. PlaceOK(p) /\ NewOK(p) /\ PathOK(p) /\ DataTypes /\ LinkInv /\ d # None
  BY <1>1, InvParts, InodesAssumption
<1>3. IsDir(d) /\ Valid(d) /\ HasDots(d)
  BY <1>2 DEF PlaceOK, AtDir, AtLast
<1>4. d # i /\ ~Valid(i) /\ dinode[i] = Allocated(c[p].op) /\ c[p].path[1] \notin DOMAIN dinode[d].ents
  BY <1>2 DEF NewOK, Private
<1>5. /\ dinode[i].type = NewType(c[p].op) /\ (IsDir(i) <=> c[p].op = "mkdir") /\ InUse(i)
      /\ dinode[i].nlink = 0 /\ dinode[i].ents = <<>>
  BY <1>1, <1>4, AllocatedIs DEF IsDir, InUse
<1>6. DOMAIN dinode[i].ents = {} /\ Name(i) = {}
  BY <1>5, NoEnts DEF Name
<1>7. EntriesOf(i) = {} /\ Pending(i) = {} /\ Subdirs(i) = {} /\ i # ROOTINO
  BY <1>1, <1>2, <1>5, LinkNatural
<1>8. OneLevel /\ IsDir(i) => d = ROOTINO
  BY <1>2, <1>5 DEF PathOK
<1> QED BY <1>1, <1>3, <1>4, <1>5, <1>6, <1>7, <1>8

\* The entries of the new inode before it is entered: some of "." and "..".
LEMMA WithDotsHas ==
    ASSUME IInv, NEW p \in Proc, c[p].pc = "create_new", NEW k \in 0 .. 2, NEW w, w = WithDots(p, k)
    PROVE  /\ DOMAIN w \subseteq {".", ".."}
           /\ c[p].op # "mkdir" => DOMAIN w = {}
           /\ c[p].op = "mkdir" /\ k = 2 => "." \in DOMAIN w /\ ".." \in DOMAIN w
           /\ "." \in DOMAIN w => w["."] = c[p].ip
           /\ ".." \in DOMAIN w => w[".."] = c[p].cur
<1> DEFINE ents == dinode[c[p].ip].ents
           one == Entered(ents, ".", c[p].ip)
           two == Entered(one, "..", c[p].cur)
<1>1. DOMAIN ents = {}
  BY NewInode
<1> HIDE DEF ents
<1>2. DOMAIN one = {"."} /\ one["."] = c[p].ip
  BY <1>1 DEF Entered
<1> HIDE DEF one
<1>3. DOMAIN two = {".", ".."} /\ two["."] = c[p].ip /\ two[".."] = c[p].cur
  BY <1>2 DEF Entered
<1> HIDE DEF two
<1>4. /\ c[p].op # "mkdir" \/ k = 0 => w = ents
      /\ c[p].op = "mkdir" /\ k = 1 => w = one
      /\ c[p].op = "mkdir" /\ k = 2 => w = two
  BY DEF WithDots, ents, one, two
<1> QED BY <1>1, <1>2, <1>3, <1>4

\* A new inode that create() gives up has no name, so that iput() frees it.
LEMMA CreateFailsKeeps ==
    ASSUME IInv, NEW p \in Proc, CreateFailsDone(p)
    PROVE  IInv'
<1>a. PICK d \in Inum, i \in Inum : d = c[p].cur /\ i = c[p].ip
  BY DEF CreateFailsDone
<1>b. PICK k \in 0 .. 2 : Rewritten(i, 0, WithDots(p, k))
  BY <1>a DEF CreateFailsDone
<1>c. PICK w : w = WithDots(p, k)
  OBVIOUS
<1> DEFINE m == c'[p]
<1>0. /\ c[p].pc = "create_new" /\ d = c[p].cur /\ i = c[p].ip
      /\ CanLock(i) /\ UNCHANGED <<lock, cwd, opened>>
      /\ m.pc = "unlink_bad" /\ m.op = None /\ m.path = <<>>
      /\ m.cur = d /\ m.ip = None /\ m.puts = <<i>> /\ m.put = "test"
      /\ ReadAs(i, 0) /\ Rewritten(i, 0, w)
      /\ Alone(p) /\ RefOK(p) /\ PointerInv'
  BY <1>a, <1>b, <1>c DEF CreateFailsDone
<1>1. /\ DataTypes /\ DataTypes' /\ CopyInv /\ EntryInv /\ LinkInv /\ TreeInv
      /\ Loaded(i).type = dinode[i].type
  BY <1>0, InvParts, LoadedDisk DEF PointerInv
<1>2. /\ d # i /\ (IsDir(i) <=> c[p].op = "mkdir") /\ InUse(i)
      /\ dinode[i].nlink = 0 /\ DOMAIN dinode[i].ents = {} /\ Name(i) = {}
      /\ IsDir(d) /\ Valid(d) /\ (OneLevel /\ IsDir(i) => d = ROOTINO)
  BY <1>0, NewInode
<1>3. /\ DOMAIN w \subseteq {".", ".."} /\ (~IsDir(i) => DOMAIN w = {})
      /\ "." \in DOMAIN w => w["."] = i
      /\ ".." \in DOMAIN w => w[".."] = d
  BY <1>0, <1>2, <1>c, WithDotsHas
<1>4. /\ \A j \in Inum \ {i} : dinode'[j] = dinode[j]
      /\ dinode'[i].type = dinode[i].type /\ dinode'[i].nlink = 0 /\ dinode'[i].ents = w
  BY <1>0 DEF Rewritten
<1>5. KeepsDisk /\ FrameDisk(p)
  BY <1>0, <1>2, <1>4 DEF KeepsDisk, FrameDisk, Calm, HasDots, CanLock
<1>6. FrameValid(p) /\ \A j \in Inum : Valid(j) => Valid(j)'
  BY <1>0, ReadValid
<1>7. CopyInv'
  BY <1>0, <1>1, <1>2, <1>4 DEF CopyInv, ReadAs, Valid, InUse
<1>8. EntryInv'
  <2>1. dinode'[i].type # "free" /\ (dinode'[i].type # "dir" => DOMAIN w = {})
    BY <1>2, <1>3, <1>4 DEF InUse, IsDir
  <2>2. OneLevel /\ ".." \in DOMAIN w => w[".."] = ROOTINO
    BY <1>2, <1>3
  <2>3. ~(dinode'[i].nlink > 0)
    BY <1>4
  <2> QED BY <1>1, <1>3, <1>4, <2>1, <2>2, <2>3 DEF EntryInv, HasDots
<1>9. \A e \in Inum : \A x \in Name(e)' : x \in Name(e) /\ dinode'[e].ents[x] = dinode[e].ents[x]
  BY <1>3, <1>4 DEF Name
<1>10. LinkInv'
  <2>1. ASSUME NEW j \in Inum
        PROVE  dinode'[j].nlink >= Links(j)' + (IF j = ROOTINO THEN 1 ELSE 0)
    <3>1. EntriesOf(j)' \subseteq EntriesOf(j) /\ Subdirs(j)' \subseteq Subdirs(j)
      BY <1>1, <1>5, <1>9, FewerEntries DEF KeepsDisk
    <3>2. Pending(j)' \subseteq Pending(j)
      BY <1>0, PendingLe DEF FewerPending, IsPending, Linking
    <3>3. dinode'[j].nlink >= dinode[j].nlink
      <4>1. dinode[j].nlink \in Int
        BY <1>1 DEF DataTypes
      <4>2. dinode'[j].nlink = dinode[j].nlink
        BY <1>2, <1>4
      <4> QED BY <4>1, <4>2
    <3> QED BY <1>1, <3>1, <3>2, <3>3, LinkSame
  <2> QED BY <2>1 DEF LinkInv
<1>11. TreeInv'
  BY <1>1, <1>9, FewerTree
<1>12. OwnPoints(p)
  <2>1. \A j \in Inum : Points(p, j)' => Points(p, j)
    BY <1>0, NewPoints, InodesAssumption DEF Points
  <2>2. itable'[d].valid
    BY <1>0, <1>2, <1>6 DEF Valid
  <2> QED BY <1>0, <1>2, <2>1, <2>2 DEF OwnPoints, LockIp, Linking
<1>13. Settled(p)
  BY <1>0 DEF Settled
<1>14. CwdInv'
  BY <1>0, <1>5, <1>6, SameCwd
<1>15. PlaceOK(p)' /\ FramePoints(p)
  BY <1>0, <1>5, <1>6, <1>12, OwnPlace
<1>16. DiskInv'
  BY <1>7, <1>8, <1>10, <1>11 DEF DiskInv
<1> QED BY <1>0, <1>5, <1>6, <1>13, <1>14, <1>15, <1>16, SettledIs, StepKeeps

\* The new inode gets its link and its name at once.
LEMMA CreateNewKeeps ==
    ASSUME IInv, NEW p \in Proc, CreateNewDone(p)
    PROVE  IInv'
<1>a. PICK d \in Inum, i \in Inum : d = c[p].cur /\ i = c[p].ip
  BY DEF CreateNewDone
<1>b. PICK n : n = c[p].path[1]
  OBVIOUS
<1>c. PICK w : w = WithDots(p, 2)
  OBVIOUS
<1>d. PICK k \in Int : k = IF c[p].op = "mkdir" THEN itable[d].nlink + 1 ELSE itable[d].nlink
  BY <1>a, Zenon DEF CreateNewDone
<1> DEFINE m == c'[p]
<1>0. /\ c[p].pc = "create_new" /\ d = c[p].cur /\ i = c[p].ip
      /\ CanLock(i) /\ UNCHANGED <<cwd, opened>>
      /\ m.pc \in {"open_file", "create_put"} /\ m.op = None /\ m.path = <<>>
      /\ m.cur = None /\ m.ip = i /\ m.puts = <<d>> /\ m.put = "test"
      /\ ReadBoth(i, 1, d, k) /\ Created(d, n, k, i, w)
      /\ Alone(p) /\ RefOK(p) /\ PointerInv'
  BY <1>a, <1>b, <1>c, <1>d DEF CreateNewDone
<1>1. /\ DataTypes /\ DataTypes' /\ CopyInv /\ EntryInv /\ LinkInv /\ TreeInv
      /\ Loaded(i).type = dinode[i].type
  BY <1>0, InvParts, LoadedDisk DEF PointerInv
<1>2. /\ d # i /\ (IsDir(i) <=> c[p].op = "mkdir") /\ InUse(i)
      /\ dinode[i].nlink = 0 /\ DOMAIN dinode[i].ents = {} /\ Name(i) = {}
      /\ EntriesOf(i) = {} /\ Pending(i) = {} /\ Subdirs(i) = {} /\ i # ROOTINO
      /\ IsDir(d) /\ Valid(d) /\ HasDots(d) /\ lock[d] = p
      /\ (OneLevel /\ IsDir(i) => d = ROOTINO)
      /\ n \notin DOMAIN dinode[d].ents
  <2>1. c[p].path[1] \notin DOMAIN dinode[d].ents
    BY <1>0, NewInode
  <2>2. /\ d # i /\ (IsDir(i) <=> c[p].op = "mkdir") /\ InUse(i)
        /\ dinode[i].nlink = 0 /\ DOMAIN dinode[i].ents = {} /\ Name(i) = {}
        /\ IsDir(d) /\ Valid(d) /\ (OneLevel /\ IsDir(i) => d = ROOTINO)
    BY <1>0, NewInode, SMTT(30)
  <2>3. /\ EntriesOf(i) = {} /\ Pending(i) = {} /\ Subdirs(i) = {} /\ i # ROOTINO
        /\ HasDots(d) /\ lock[d] = p
    BY <1>0, NewInode
  <2> QED BY <1>b, <2>1, <2>2, <2>3
<1>3. /\ DOMAIN w \subseteq {".", ".."} /\ (~IsDir(i) => DOMAIN w = {})
      /\ IsDir(i) => "." \in DOMAIN w /\ ".." \in DOMAIN w
      /\ "." \in DOMAIN w => w["."] = i
      /\ ".." \in DOMAIN w => w[".."] = d
  BY <1>0, <1>2, <1>c, WithDotsHas, SMTT(30)
<1>4. /\ \A j \in Inum \ {i, d} : dinode'[j] = dinode[j]
      /\ dinode'[i].type = dinode[i].type /\ dinode'[i].nlink = 1 /\ dinode'[i].ents = w
      /\ dinode'[d].type = dinode[d].type /\ dinode'[d].nlink = k
      /\ DOMAIN dinode'[d].ents = DOMAIN dinode[d].ents \cup {n}
      /\ dinode'[d].ents[n] = i
      /\ \A x \in DOMAIN dinode[d].ents : dinode'[d].ents[x] = dinode[d].ents[x]
  BY <1>0, <1>2 DEF Created, Entered
<1>5. k = IF IsDir(i) THEN dinode[d].nlink + 1 ELSE dinode[d].nlink
  BY <1>1, <1>2, <1>d DEF CopyInv
<1>6. n \notin {".", ".."}
  BY <1>2 DEF HasDots
<1>7. NewEntry(d, n, i)
  <2>1. Name(d)' = Name(d) \cup {n} /\ Name(i)' = Name(i) /\ n \notin Name(d)
    BY <1>2, <1>3, <1>4, <1>6 DEF Name
  <2>2. \A j \in Inum \ {i, d} : Name(j)' = Name(j)
    BY <1>4 DEF Name
  <2>3. \A j \in Inum : \A x \in Name(j) : dinode'[j].ents[x] = dinode[j].ents[x]
    BY <1>2, <1>4 DEF Name
  <2>4. \A j \in Inum : dinode'[j].type = dinode[j].type
    BY <1>4
  <2> QED BY <1>2, <1>4, <2>1, <2>2, <2>3, <2>4 DEF NewEntry
<1>8. KeepsDisk /\ FrameDisk(p)
  <2>1. \A j \in Inum : HasDots(j) => HasDots(j)'
    BY <1>2, <1>4 DEF HasDots
  <2>2. \A j \in Inum : dinode'[j].type = dinode[j].type
    BY <1>4
  <2>3. \A j \in Inum : dinode'[j] # dinode[j] => (j = d \/ j = i)
    BY <1>4
  <2>4. lock[i] = None /\ lock[d] = p
    BY <1>0, <1>2 DEF CanLock
  <2> QED BY <1>0, <2>1, <2>2, <2>3, <2>4 DEF KeepsDisk, FrameDisk, Calm
<1>9. FrameValid(p) /\ \A j \in Inum : Valid(j) => Valid(j)'
  BY <1>0 DEF FrameValid, Valid, ReadBoth
<1>10. CopyInv'
  <2>1. /\ itable'[i].valid /\ itable'[i].type = dinode'[i].type
        /\ itable'[i].nlink = dinode'[i].nlink /\ dinode'[i].type # "free"
    BY <1>0, <1>1, <1>2, <1>4, Zenon DEF ReadBoth, InUse
  <2>2. /\ itable'[d].valid /\ itable'[d].type = dinode'[d].type
        /\ itable'[d].nlink = dinode'[d].nlink /\ dinode'[d].type # "free"
    BY <1>0, <1>1, <1>2, <1>4, SMTT(30) DEF CopyInv, ReadBoth, Valid, IsDir
  <2>3. \A j \in Inum \ {i, d} :
            /\ dinode'[j] = dinode[j] /\ itable'[j].valid = itable[j].valid
            /\ itable'[j].type = itable[j].type /\ itable'[j].nlink = itable[j].nlink
    BY <1>0, <1>4 DEF ReadBoth
  <2> QED BY <1>1, <2>1, <2>2, <2>3, Zenon DEF CopyInv, Valid, InUse
<1>11. EntryInv'
  <2>1. ASSUME NEW j \in Inum \ {i, d}
        PROVE  /\ dinode'[j].type = "free" => dinode'[j] = Free
               /\ dinode'[j].type # "dir" => DOMAIN dinode'[j].ents = {}
               /\ dinode'[j].type = "dir" /\ dinode'[j].nlink > 0 => {".", ".."} \subseteq DOMAIN dinode'[j].ents
               /\ "." \in DOMAIN dinode'[j].ents => dinode'[j].ents["."] = j
               /\ OneLevel /\ ".." \in DOMAIN dinode'[j].ents => dinode'[j].ents[".."] = ROOTINO
    BY <1>1, <1>4, <2>1 DEF EntryInv, HasDots
  <2>2. /\ dinode'[i].type # "free" /\ (dinode'[i].type # "dir" => DOMAIN w = {})
        /\ dinode'[i].type = "dir" => {".", ".."} \subseteq DOMAIN w
        /\ "." \in DOMAIN w => w["."] = i
        /\ OneLevel /\ ".." \in DOMAIN w => w[".."] = ROOTINO
    <3>1. OneLevel /\ ".." \in DOMAIN w => w[".."] = ROOTINO
      BY <1>2, <1>3
    <3> QED BY <1>2, <1>3, <1>4, <3>1 DEF InUse, IsDir
  <2>3. /\ dinode'[d].type = "dir" /\ {".", ".."} \subseteq DOMAIN dinode'[d].ents
        /\ "." \in DOMAIN dinode'[d].ents => dinode'[d].ents["."] = d
        /\ OneLevel /\ ".." \in DOMAIN dinode'[d].ents => dinode'[d].ents[".."] = ROOTINO
    BY <1>1, <1>2, <1>4 DEF EntryInv, HasDots, IsDir
  <2> QED BY <1>4, <2>1, <2>2, <2>3 DEF EntryInv, HasDots
<1>12. LinkInv'
  <2>1. ASSUME NEW j \in Inum
        PROVE  dinode'[j].nlink >= Links(j)' + (IF j = ROOTINO THEN 1 ELSE 0)
    <3>1. Pending(j)' \subseteq Pending(j)
      BY <1>0, PendingLe DEF FewerPending, IsPending, Linking
    <3>2. /\ IsFiniteSet(Pending(j)) /\ Cardinality(EntriesOf(j)) \in Nat
          /\ Cardinality(Subdirs(j)) \in Nat /\ Cardinality(Pending(j)) \in Nat
      BY <1>1, LinksAre
    <3>3. Cardinality(EntriesOf(j)') <= Cardinality(EntriesOf(j)) + (IF j = i THEN 1 ELSE 0)
      BY <1>1, <1>7, NewEntryLinks
    <3>4. Cardinality(Subdirs(j)') <= Cardinality(Subdirs(j)) + (IF j = d /\ IsDir(i) THEN 1 ELSE 0)
      BY <1>1, <1>7, NewEntryLinks
    <3>5. Cardinality(Pending(j)') <= Cardinality(Pending(j)) + 0
      BY <3>1, <3>2, CardLe
    <3>6. dinode[j].nlink \in Int
      BY <1>1 DEF DataTypes
    <3>7. CASE j = i
      <4>1. dinode'[j].nlink >= dinode[j].nlink + 1 + 0 + 0
        BY <1>2, <1>4, <3>7
      <4>2. Cardinality(Subdirs(j)') <= Cardinality(Subdirs(j)) + 0
        BY <1>2, <3>4, <3>7
      <4>3. Cardinality(EntriesOf(j)') <= Cardinality(EntriesOf(j)) + 1
        BY <3>3, <3>7
      <4> QED BY <1>1, <3>5, <4>1, <4>2, <4>3, LinkStep
    <3>8. CASE j # i
      <4>1. Cardinality(EntriesOf(j)') <= Cardinality(EntriesOf(j)) + 0
        BY <3>3, <3>8
      <4>2. CASE j = d /\ IsDir(i)
        <5>1. Cardinality(Subdirs(j)') <= Cardinality(Subdirs(j)) + 1
          BY <3>4, <4>2
        <5>2. dinode'[j].nlink >= dinode[j].nlink + 0 + 1 + 0
          BY <1>4, <1>5, <3>6, <4>2
        <5> QED BY <1>1, <3>5, <4>1, <5>1, <5>2, LinkStep
      <4>3. CASE ~(j = d /\ IsDir(i))
        <5>1. Cardinality(Subdirs(j)') <= Cardinality(Subdirs(j)) + 0
          BY <3>4, <4>3
        <5>3. dinode'[j].nlink = dinode[j].nlink
          BY <1>4, <1>5, <3>8, <4>3
        <5>2. dinode'[j].nlink >= dinode[j].nlink + 0 + 0 + 0
          BY <3>6, <5>3
        <5> QED BY <1>1, <3>5, <4>1, <5>1, <5>2, LinkStep
      <4> QED BY <4>2, <4>3
    <3> QED BY <3>7, <3>8
  <2> QED BY <2>1 DEF LinkInv
<1>13. TreeInv'
  BY <1>1, <1>7, NewEntryTree
<1>14. OwnPoints(p)
  <2>1. \A j \in Inum : Points(p, j)' => Points(p, j)
    BY <1>0, NewPoints, InodesAssumption DEF Points
  <2>2. itable'[i].valid
    BY <1>0 DEF ReadBoth
  <2> QED BY <1>0, <2>1, <2>2 DEF OwnPoints, AtDir, AtLast, LockIp, Linking
<1>15. Settled(p)
  BY <1>0 DEF Settled
<1>16. CwdInv'
  BY <1>0, <1>8, <1>9, SameCwd
<1>17. PlaceOK(p)' /\ FramePoints(p)
  BY <1>0, <1>8, <1>9, <1>14, OwnPlace
<1>18. DiskInv'
  BY <1>10, <1>11, <1>12, <1>13 DEF DiskInv
<1> QED BY <1>0, <1>8, <1>9, <1>15, <1>16, <1>17, <1>18, SettledIs, StepKeeps
-----------------------------------------------------------------------------
(***************************************************************************)
(* Every action keeps the invariant.                                       *)
(***************************************************************************)
LEMMA StayKeeps ==
    ASSUME IInv, Stays
    PROVE  IInv'
<1>1. UNCHANGED <<dinode, itable, lock, cwd, c, opened>>
  BY DEF Stays, inodeVars
<1>2. PointerInv'
  BY InvParts, PointersStay DEF Stays
<1>3. CopyInv' /\ EntryInv'
  BY <1>1, InvParts DEF CopyInv, EntryInv, Valid, InUse, HasDots
<1>4. LinkInv'
  BY <1>1, InvParts DEF LinkInv, Links, EntriesOf, Subdirs, Pending, Name, IsPending, Linking
<1>5. TreeInv'
  BY <1>1, InvParts, SameTree
<1>6. CwdInv'
  BY <1>1, InvParts DEF CwdInv, Valid, IsDir, HasDots
<1>7. \A p \in Proc : CallsOK(p)'
  <2> TAKE p \in Proc
  <2>1. CallsOK(p)
    BY DEF IInv
  <2>2. PathOK(p)' /\ UnlinkOK(p)' /\ FreeingOK(p)'
    BY <1>1, <2>1 DEF CallsOK, PathOK, UnlinkOK, FreeingOK, Name, Valid
  <2>3. PlaceOK(p)'
    BY <1>1, <2>1 DEF CallsOK, PlaceOK, InUse, IsDir, Valid, HasDots, Linking
  <2>4. NewOK(p)'
    BY <1>1, <2>1 DEF CallsOK, NewOK, Private, Valid
  <2> QED BY <2>2, <2>3, <2>4 DEF CallsOK
<1> QED BY <1>2, <1>3, <1>4, <1>5, <1>6, <1>7 DEF IInv, DiskInv

\* The start of a call keeps the invariant, ...
LEMMA StartKeeps ==
    ASSUME IInv, NEW p \in Proc, Start(p)
    PROVE  IInv'
<1>0. PointerInv
  BY InvParts
<1>1. PICK call \in Calls :
          LET i == StartOf(p, call.path)
          IN IF IgetPanics(i)
             THEN panic' = "iget: no inodes" /\ UNCHANGED <<itable, c>>
             ELSE /\ itable' = [itable EXCEPT ![i].ref = @ + 1]
                  /\ Walk(p, call.op, call.path, None, call.new)
                  /\ UNCHANGED panic
  BY Zenon DEF Start
<1>2. At(p, "idle") /\ UNCHANGED <<dinode, lock, cwd, opened>>
  BY Zenon DEF Start
<1>3. CASE IgetPanics(StartOf(p, call.path))
  <2>1. Stays
    BY <1>1, <1>2, <1>3, Zenon DEF Stays, inodeVars
  <2> QED BY <2>1, StayKeeps
<1>4. CASE ~IgetPanics(StartOf(p, call.path))
  <2>1. /\ itable' = [itable EXCEPT ![StartOf(p, call.path)].ref = @ + 1]
        /\ Walk(p, call.op, call.path, None, call.new)
    BY <1>1, <1>4
  <2>2. CASE call.path.elems # <<>>
    BY <1>0, <1>2, <1>4, <2>1, <2>2, StartWalkStep, StartWalkKeeps
  <2>3. CASE call.path.elems = <<>> /\ ~WantsParent(call.op)
    BY <1>0, <1>2, <1>4, <2>1, <2>3, StartHereStep, StartHereKeeps
  <2>4. CASE call.path.elems = <<>> /\ WantsParent(call.op)
    BY <1>0, <1>2, <1>4, <2>1, <2>4, StartNoneStep, StartNoneKeeps
  <2> QED BY <2>2, <2>3, <2>4
<1> QED BY <1>3, <1>4

\* ... each element of a path does, ...
LEMMA NamexKeeps ==
    ASSUME DotDotSafe, IInv, NEW p \in Proc, NEW i \in Inum, NamexStep(p, i)
    PROVE  IInv'
<1>1. UNCHANGED opened /\ PointerInv
  BY InvParts DEF NamexStep
<1>2. CASE NamexFail(p, i)
  BY <1>1, <1>2, NamexFailStep, NamexFailKeeps
<1>3. CASE NamexParent(p, i)
  BY <1>1, <1>3, NamexParentStep, NamexParentKeeps
<1>4. CASE NamexDescend(p, i) /\ IgetPanics(dinode[i].ents[Head(c[p].path)])
  <2>1. Stays
    BY <1>1, <1>4, Zenon DEF NamexDescend, Stays, inodeVars
  <2> QED BY <2>1, StayKeeps
<1>5. CASE NamexDescend(p, i) /\ ~IgetPanics(dinode[i].ents[Head(c[p].path)])
  BY <1>1, <1>5, NamexDescendStep, NamexDescendKeeps
<1> QED BY <1>2, <1>3, <1>4, <1>5 DEF NamexStep

\* ... each step of link(), ...
LEMMA LinkKeeps ==
    ASSUME DotDotSafe, IInv, NEW p \in Proc,
           LinkIp(p) \/ LinkExists(p) \/ LinkBadDp(p) \/ LinkDp(p) \/ LinkBad(p)
    PROVE  IInv'
<1>0. PointerInv
  BY InvParts
<1>1. CASE LinkIp(p)
  <2>1. CASE Loaded(c[p].cur).type = "dir"
    BY <1>0, <1>1, <2>1, LinkIpDirStep, LinkIpDirKeeps
  <2>2. CASE Loaded(c[p].cur).type # "dir" /\ IgetPanics(StartOf(p, c[p].new))
    <3>1. Stays
      BY <1>1, <2>2, Zenon DEF LinkIp, Stays, inodeVars
    <3> QED BY <3>1, StayKeeps
  <2>3. CASE Loaded(c[p].cur).type # "dir" /\ ~IgetPanics(StartOf(p, c[p].new))
    <3>1. CASE c[p].new.elems # <<>>
      BY <1>0, <1>1, <2>3, <3>1, LinkIpWalkStep, LinkIpWalkKeeps
    <3>2. CASE c[p].new.elems = <<>>
      BY <1>0, <1>1, <2>3, <3>2, LinkIpNoneStep, LinkIpNoneKeeps
    <3> QED BY <3>1, <3>2
  <2> QED BY <2>1, <2>2, <2>3
<1>2. CASE LinkExists(p)
  <2>1. CASE IgetPanics(dinode[c[p].cur].ents[c[p].path[1]])
    <3>1. Stays
      BY <1>2, <2>1, Zenon DEF LinkExists, Stays, inodeVars
    <3> QED BY <3>1, StayKeeps
  <2>2. CASE ~IgetPanics(dinode[c[p].cur].ents[c[p].path[1]])
    BY <1>0, <1>2, <2>2, LinkExistsStep, LinkExistsKeeps
  <2> QED BY <2>1, <2>2
<1>3. CASE LinkBadDp(p)
  BY <1>0, <1>3, LinkBadDpStep, LinkBadDpKeeps
<1>4. CASE LinkDp(p)
  <2>1. CASE c'[p].puts = <<c[p].cur>>
    BY <1>0, <1>4, <2>1, LinkNoBlockStep, LinkNoBlockKeeps
  <2>2. CASE c'[p].puts # <<c[p].cur>>
    BY <1>0, <1>4, <2>2, LinkDpStep, LinkDpKeeps
  <2> QED BY <2>1, <2>2
<1>5. CASE LinkBad(p)
  BY <1>0, <1>5, LinkBadStep, LinkBadKeeps
<1> QED BY <1>1, <1>2, <1>3, <1>4, <1>5

\* The inode sys_unlink() takes the name of has a link.
LEMMA UnlinkCount ==
    ASSUME IInv, NEW p \in Proc, c[p].pc = "unlink_ip"
    PROVE  /\ c[p].ip \in Inum /\ Loaded(c[p].ip).nlink >= 1
           /\ dinode[c[p].ip].nlink \in Int
<1>1. PICK i \in Inum, d \in Inum : i = c[p].ip /\ d = c[p].cur
  BY InvParts, PointersOf DEF CallOK, LocalsOK, AtIp, AtCur
<1>2. c[p].path[1] \in Name(d) /\ dinode[d].ents[c[p].path[1]] = i
  BY <1>1, InvParts DEF UnlinkOK
<1>3. <<d, c[p].path[1]>> \in EntriesOf(i)
  BY <1>2 DEF EntriesOf
<1>4. dinode[i].nlink >= 1 /\ dinode[i].nlink \in Int
  BY <1>3, InvParts, LinkPositive DEF DataTypes
<1>5. Loaded(i).nlink = dinode[i].nlink
  BY LoadedDisk
<1> QED BY <1>1, <1>4, <1>5

\* ... of unlink(), ...
LEMMA UnlinkKeeps ==
    ASSUME IInv, NEW p \in Proc,
           UnlinkDp(p) \/ UnlinkRefused(p) \/ UnlinkBad(p) \/ UnlinkIp(p) \/ UnlinkDrop(p)
    PROVE  IInv'
<1>0. PointerInv
  BY InvParts
<1>1. CASE UnlinkDp(p)
  <2>1. CASE c[p].path[1] \in {".", ".."} \/ c[p].path[1] \notin DOMAIN dinode[c[p].cur].ents
    BY <1>0, <1>1, <2>1, UnlinkNoneStep, UnlinkNoneKeeps
  <2>2. CASE /\ c[p].path[1] \notin {".", ".."} /\ c[p].path[1] \in DOMAIN dinode[c[p].cur].ents
             /\ IgetPanics(dinode[c[p].cur].ents[c[p].path[1]])
    <3>1. Stays
      BY <1>1, <2>2, Zenon DEF UnlinkDp, Stays, inodeVars
    <3> QED BY <3>1, StayKeeps
  <2>3. CASE /\ c[p].path[1] \notin {".", ".."} /\ c[p].path[1] \in DOMAIN dinode[c[p].cur].ents
             /\ ~IgetPanics(dinode[c[p].cur].ents[c[p].path[1]])
    BY <1>0, <1>1, <2>3, UnlinkDpStep, UnlinkDpKeeps
  <2> QED BY <2>1, <2>2, <2>3
<1>2. CASE UnlinkRefused(p)
  BY <1>0, <1>2, UnlinkRefusedStep, UnlinkRefusedKeeps
<1>3. CASE UnlinkBad(p)
  BY <1>0, <1>3, UnlinkBadStep, UnlinkBadKeeps
<1>4. CASE UnlinkIp(p)
  <2>1. Loaded(c[p].ip).nlink >= 1
    BY <1>4, UnlinkCount, Zenon DEF UnlinkIp, At
  <2> QED BY <1>0, <1>4, <2>1, UnlinkIpStep, UnlinkIpKeeps
<1>5. CASE UnlinkDrop(p)
  BY <1>0, <1>5, UnlinkDropStep, UnlinkDropKeeps
<1> QED BY <1>1, <1>2, <1>3, <1>4, <1>5

\* ... of create(), ...
LEMMA CreateKeeps ==
    ASSUME DotDotSafe, IInv, NEW p \in Proc,
           \/ CreateExists(p) \/ CreateFound(p) \/ CreateAlloc(p)
           \/ CreateNew(p) \/ CreateFails(p) \/ CreatePut(p)
    PROVE  IInv'
<1>0. PointerInv
  BY InvParts
<1>1. CASE CreateExists(p)
  <2>1. CASE IgetPanics(dinode[c[p].cur].ents[c[p].path[1]])
    <3>1. Stays
      BY <1>1, <2>1, Zenon DEF CreateExists, Stays, inodeVars
    <3> QED BY <3>1, StayKeeps
  <2>2. CASE ~IgetPanics(dinode[c[p].cur].ents[c[p].path[1]])
    BY <1>0, <1>1, <2>2, CreateExistsStep, CreateExistsKeeps
  <2> QED BY <2>1, <2>2
<1>2. CASE CreateFound(p)
  BY <1>0, <1>2, CreateOpenStep, CreateFoundStep, CreateOpenKeeps, CreateFoundKeeps
<1>3. CASE CreateAlloc(p)
  <2> DEFINE i == CHOOSE j \in FreeInums : \A k \in FreeInums : j <= k
  <2>1. CASE FreeInums = {}
    BY <1>0, <1>3, <2>1, CreateNoneStep, CreateNoneKeeps
  <2>2. CASE FreeInums # {} /\ IgetPanics(i)
    <3>1. Stays
      BY <1>3, <2>2, Zenon DEF CreateAlloc, Stays
    <3> QED BY <3>1, StayKeeps
  <2>3. CASE FreeInums # {} /\ ~IgetPanics(i)
    BY <1>0, <1>3, <2>3, CreateAllocStep, CreateAllocKeeps
  <2> QED BY <2>1, <2>2, <2>3
<1>4. CASE CreateNew(p)
  BY <1>0, <1>4, CreateNewStep, CreateNewKeeps
<1>5. CASE CreateFails(p)
  BY <1>0, <1>5, CreateFailsStep, CreateFailsKeeps
<1>6. CASE CreatePut(p)
  BY <1>0, <1>6, CreatePutStep, CreatePutKeeps
<1> QED BY <1>1, <1>2, <1>3, <1>4, <1>5, <1>6

\* ... of open(), chdir(), close() and exit().
LEMMA OpenKeeps ==
    ASSUME IInv, NEW p \in Proc,
           OpenIp(p) \/ OpenFile(p) \/ ChdirIp(p) \/ Close(p) \/ exit(p)
    PROVE  IInv'
<1>0. PointerInv
  BY InvParts
<1>1. CASE OpenIp(p)
  BY <1>0, <1>1, OpenDirStep, OpenIpStep, OpenDirKeeps, OpenIpKeeps
<1>2. CASE OpenFile(p)
  BY <1>0, <1>2, OpenFileStep, OpenNoneStep, OpenFileKeeps, OpenNoneKeeps
<1>3. CASE ChdirIp(p)
  BY <1>0, <1>3, ChdirDirStep, ChdirFileStep, ChdirDirKeeps, ChdirFileKeeps
<1>4. CASE Close(p)
  BY <1>0, <1>4, CloseStep, CloseKeeps
<1>5. CASE exit(p)
  BY <1>0, <1>5, exitStep, exitKeeps
<1> QED BY <1>1, <1>2, <1>3, <1>4, <1>5

\* Every step keeps it.
LEMMA NextKeeps ==
    ASSUME DotDotSafe, IInv, [Next]_vars
    PROVE  IInv'
<1>0. PointerInv
  BY InvParts
<1>1. CASE UNCHANGED vars
  <2>1. Stays
    BY <1>1 DEF vars, Stays
  <2> QED BY <2>1, StayKeeps
<1>2. ASSUME NEW p \in Proc, IlockStep(p) PROVE IInv'
  <2>1. CASE Loaded(Wants(p)).type = "free"
    <3>1. Stays
      BY <1>2, <2>1, Zenon DEF IlockStep, Stays
    <3> QED BY <3>1, StayKeeps
  <2>2. CASE Loaded(Wants(p)).type # "free"
    BY <1>2, <2>2, NamexKeeps, LinkKeeps, UnlinkKeeps, CreateKeeps, OpenKeeps DEF IlockStep
  <2> QED BY <2>1, <2>2
<1>3. ASSUME NEW p \in Proc, NEW i \in Inum, IputStep(p, i) PROVE IInv'
  BY <1>0, <1>3, IputLastStep, IputFreeStep, IputDropStep, IputLastKeeps, IputFreeKeeps, IputDropKeeps
     DEF IputStep
<1>4. ASSUME NEW p \in Proc, NEW q \in Proc \cup {Init1}, fork(q, p) PROVE IInv'
  BY <1>0, <1>4, forkStep, forkKeeps
<1>5. CASE Next
  BY <1>2, <1>3, <1>4, <1>5, StartKeeps, LinkKeeps, UnlinkKeeps, CreateKeeps, OpenKeeps DEF Next
<1> QED BY <1>1, <1>5

\* It holds of the disk mkfs makes.
LEMMA InitInv == Init => IInv
<1> SUFFICES ASSUME Init PROVE IInv
  OBVIOUS
<1>1. PointerInv
  BY InitPointers
<1> DEFINE l == [NoCall EXCEPT !.pc = "unused"]
<1>2. /\ l.pc = "unused" /\ l.op = None /\ l.path = <<>> /\ l.cur = None /\ l.ip = None
      /\ l.new = None /\ l.puts = <<>> /\ l.put = "test"
  BY DEF NoCall
<1> HIDE DEF l
<1>3. \A p \in Proc : c[p] = l /\ opened[p] = None
  BY DEF Init, l
<1>4. /\ dinode[ROOTINO].type = "dir" /\ dinode[ROOTINO].nlink = 1
      /\ DOMAIN dinode[ROOTINO].ents = {".", ".."}
      /\ dinode[ROOTINO].ents["."] = ROOTINO /\ dinode[ROOTINO].ents[".."] = ROOTINO
  <2>1. dinode[ROOTINO] = RootDir
    BY InodesAssumption DEF Init
  <2>2. DOMAIN <<>> = {}
    BY NoEnts
  <2>3. /\ DOMAIN Dots(ROOTINO, ROOTINO) = {".", ".."}
        /\ Dots(ROOTINO, ROOTINO)["."] = ROOTINO /\ Dots(ROOTINO, ROOTINO)[".."] = ROOTINO
    BY <2>2 DEF Dots, Entered
  <2> QED BY <2>1, <2>3 DEF RootDir
<1>5. /\ \A i \in Inum \ {ROOTINO} : dinode[i] = Free
      /\ Free.type = "free" /\ Free.nlink = 0 /\ DOMAIN Free.ents = {}
  BY NoEnts DEF Init, Free
<1>6. /\ itable[ROOTINO].valid /\ itable[ROOTINO].type = "dir" /\ itable[ROOTINO].nlink = 1
      /\ \A i \in Inum \ {ROOTINO} : ~itable[i].valid /\ itable[i].nlink = 0
  BY InodesAssumption DEF Init, NoEntry
<1>7. CopyInv
  BY <1>4, <1>6 DEF CopyInv, Valid, InUse
<1>8. EntryInv
  BY <1>4, <1>5 DEF EntryInv, HasDots
<1>9. \A d \in Inum : Name(d) = {}
  BY <1>4, <1>5 DEF Name
<1>10. LinkInv
  <2> SUFFICES ASSUME NEW i \in Inum
               PROVE  dinode[i].nlink >= Links(i) + (IF i = ROOTINO THEN 1 ELSE 0)
    BY DEF LinkInv
  <2>1. EntriesOf(i) = {} /\ Subdirs(i) = {}
    BY <1>9 DEF EntriesOf, Subdirs
  <2>2. Pending(i) = {}
    BY <1>2, <1>3, InodesAssumption DEF Pending
  <2>3. Links(i) = 0
    BY <2>1, <2>2, FS_EmptySet DEF Links
  <2>4. dinode[i].nlink = IF i = ROOTINO THEN 1 ELSE 0
    BY <1>4, <1>5
  <2> QED BY <2>3, <2>4
<1>11. TreeInv
  <2> SUFFICES ASSUME NEW S \in (SUBSET Inum) \ {{}},
                      \A d \in S : \E n \in Name(d) : dinode[d].ents[n] \in S
               PROVE  FALSE
    BY DEF TreeInv
  <2>2. S # {} /\ S \subseteq Inum
    OBVIOUS
  <2>1. PICK d : d \in S /\ d \in Inum
    BY <2>2
  <2> QED BY <1>9, <2>1
<1>12. CwdInv
  BY <1>4, <1>6, InodesAssumption DEF Init, CwdInv, Valid, IsDir, HasDots
<1>13. ASSUME NEW p \in Proc PROVE CallsOK(p)
  <2>1. PathOK(p)
    <3>1. ".." \notin Range(<<>>)
      BY NoEnts DEF Range
    <3> QED BY <1>2, <1>3, <3>1 DEF PathOK
  <2>2. PlaceOK(p)
    BY <1>2, <1>3, InodesAssumption DEF PlaceOK, Linking, AtDir, AtLast, LockIp
  <2>3. UnlinkOK(p) /\ NewOK(p) /\ FreeingOK(p)
    BY <1>2, <1>3 DEF UnlinkOK, NewOK, FreeingOK
  <2> QED BY <2>1, <2>2, <2>3 DEF CallsOK
<1> QED BY <1>1, <1>7, <1>8, <1>10, <1>11, <1>12, <1>13 DEF IInv, DiskInv

\* The inodes on the disk, the copies in the table, the links that are counted
\* and the names that use them agree at every step of every call, as long as no
\* lookup meets a ".." that has gone stale.
THEOREM TreeRight == DotDotSafe => (Spec => []IInv)
<1> SUFFICES ASSUME DotDotSafe PROVE Spec => []IInv
  OBVIOUS
<1>1. Init => IInv
  BY InitInv
<1>2. IInv /\ [Next]_vars => IInv'
  BY NextKeeps
<1> QED BY <1>1, <1>2, PTL DEF Spec
-----------------------------------------------------------------------------
(***************************************************************************)
(* What follows from it.                                                   *)
(***************************************************************************)
\* iput() frees no inode that a process has open or for its current directory,
\* although it lets go of itable.lock before it frees, and a valid copy in the
\* table agrees with the disk.
THEOREM UsedIsAllocated == DotDotSafe => (Spec => []InUseIsAllocated)
<1>1. IInv => InUseIsAllocated
  <2> SUFFICES ASSUME IInv PROVE InUseIsAllocated
    OBVIOUS
  <2>1. CopyInv /\ CwdInv /\ PointerInv /\ \A p \in Proc : PlaceOK(p)
    BY InvParts
  <2>2. DOMAIN cwd = Proc \cup {Init1}
    BY <2>1 DEF PointerInv, DataTypes
  <2> QED BY <2>1, <2>2 DEF InUseIsAllocated, CopyInv, CwdInv, PlaceOK, Valid, IsDir, InUse
<1> QED BY <1>1, TreeRight, PTL

\* The links counted cover the names without those under way as well.
LEMMA LinksAreCovered == IInv => LinksCovered
<1> SUFFICES ASSUME IInv, NEW i \in Inum
             PROVE  dinode[i].nlink >= Cardinality(EntriesOf(i)) + Cardinality(Subdirs(i))
  BY DEF LinksCovered
<1>0. DataTypes /\ LinkInv
  BY InvParts
<1>1. PICK e, s, q \in Nat : /\ e = Cardinality(EntriesOf(i)) /\ s = Cardinality(Subdirs(i))
                             /\ q = Cardinality(Pending(i))
  BY <1>0, LinksAre
<1>2. PICK r \in {0, 1} : r = IF i = ROOTINO THEN 1 ELSE 0
  OBVIOUS
<1>3. dinode[i].nlink \in Int /\ dinode[i].nlink >= e + s + q + r
  BY <1>0, <1>1, <1>2 DEF LinkInv, Links, DataTypes
<1>4. dinode[i].nlink >= e + s
  BY <1>3
<1> QED BY <1>1, <1>4

\* The link count on the disk covers every name and every subdirectory's "..",
\* whatever calls are between counting and entering: what iput() frees, because
\* its count is 0, has no name.
THEOREM LinksAlwaysCovered == DotDotSafe => (Spec => []LinksCovered)
  BY LinksAreCovered, TreeRight, PTL

\* The types follow.
LEMMA TypesHold == IInv => TypeOK
<1> SUFFICES ASSUME IInv PROVE TypeOK
  OBVIOUS
<1>0. DataTypes /\ LinkInv /\ CopyInv /\ PointerInv
  BY InvParts
<1>1. \A i \in Inum : dinode[i].nlink \in Nat
  BY <1>0, LinkNatural
<1>2. \A i \in Inum : dinode[i].type \in Kinds /\ Range(dinode[i].ents) \subseteq Inum
  <2> TAKE i \in Inum
  <2>1. dinode[i].ents \in Ents /\ dinode[i].type \in Kinds
    BY <1>0 DEF DataTypes
  <2>2. \A n \in DOMAIN dinode[i].ents : dinode[i].ents[n] \in Inum
    BY <2>1, EntsHave
  <2> QED BY <2>1, <2>2 DEF Range
<1>3. itable \in [Inum -> [ref : Nat, valid : BOOLEAN, type : Kinds, nlink : Nat]]
  <2>1. itable \in [Inum -> [ref : Nat, valid : BOOLEAN, type : Kinds, nlink : Int]]
    BY <1>0 DEF DataTypes
  <2>2. \A i \in Inum : itable[i].nlink \in Nat
    BY <1>0, <1>1 DEF CopyInv
  <2> QED BY <2>1, <2>2
<1>4. \A p \in Proc : c[p].puts \in Seq(Inum) /\ {c[p].cur, c[p].ip} \subseteq Inum \cup {None}
  BY <1>0, PointersOf DEF CallOK, LocalsOK
<1> QED BY <1>0, <1>1, <1>2, <1>3, <1>4 DEF TypeOK, DataTypes, Kinds
-----------------------------------------------------------------------------
(***************************************************************************)
(* The panics.                                                             *)
(***************************************************************************)
\* What a process is about to lock is allocated.
LEMMA WantsInUse ==
    ASSUME IInv, NEW p \in Proc, c[p].puts = <<>>, Wants(p) # None
    PROVE  Wants(p) \in Inum /\ Loaded(Wants(p)).type # "free"
<1>1. Wants(p) \in {c[p].cur, c[p].ip}
  BY DEF Wants
<1>2. PICK i \in Inum : i = Wants(p)
  BY <1>1, InvParts, PointersOf DEF CallOK, LocalsOK
<1>3. InUse(i)
  BY <1>1, <1>2, PointsInUse DEF Points
<1>4. Loaded(i).type = dinode[i].type
  BY LoadedDisk
<1> QED BY <1>2, <1>3, <1>4 DEF InUse

\* No other panic than iget()'s, and that one when the table is full.
TablePanics == panic' = "iget: no inodes" /\ \E i \in Inum : IgetPanics(i)

\* A lookup starts at an inode.
LEMMA StartIn ==
    ASSUME IInv, NEW p \in Proc, c[p].pc # "unused", NEW path
    PROVE  StartOf(p, path) \in Inum
<1>1. cwd[p] # None /\ cwd[p] \in Inum \cup {None}
  BY InvParts, PointersOf DEF CallOK, DataTypes
<1> QED BY <1>1, InodesAssumption DEF StartOf

\* An entry names an inode.
LEMMA EntryIn ==
    ASSUME IInv, NEW d \in Inum, NEW n \in DOMAIN dinode[d].ents
    PROVE  dinode[d].ents[n] \in Inum
  BY InvParts, EntsHave DEF DataTypes

\* A step that panics does because iget() finds the table full.
LEMMA NextPanics ==
    ASSUME IInv, [Next]_vars
    PROVE  UNCHANGED panic \/ TablePanics
<1>0. \A p \in Proc : c[p].cur # None => c[p].cur \in Inum
  BY InvParts, PointersOf DEF CallOK, LocalsOK
<1>1. CASE UNCHANGED vars
  BY <1>1 DEF vars
<1>2. ASSUME NEW p \in Proc, Start(p) PROVE UNCHANGED panic \/ TablePanics
  <2>1. \A call \in Calls : StartOf(p, call.path) \in Inum
    BY <1>2, StartIn, Zenon DEF Start, At
  <2> QED BY <1>2, <2>1, Zenon DEF Start, TablePanics
<1>3. ASSUME NEW p \in Proc, NEW i \in Inum, NamexStep(p, i) PROVE UNCHANGED panic \/ TablePanics
  <2>1. NamexDescend(p, i) => dinode[i].ents[Head(c[p].path)] \in Inum
    BY EntryIn, ZenonT(60) DEF NamexDescend
  <2> QED BY <1>3, <2>1, Zenon DEF NamexStep, NamexFail, NamexParent, NamexDescend, TablePanics
<1>4. ASSUME NEW p \in Proc,
             \/ LinkDp(p) \/ LinkBad(p) \/ LinkBadDp(p)
             \/ UnlinkRefused(p) \/ UnlinkBad(p) \/ UnlinkDrop(p)
             \/ CreateFound(p) \/ CreateNew(p) \/ CreateFails(p) \/ CreatePut(p)
             \/ OpenIp(p) \/ OpenFile(p) \/ ChdirIp(p) \/ Close(p) \/ exit(p)
      PROVE  UNCHANGED panic
  BY <1>4 DEF LinkDp, LinkBad, LinkBadDp, UnlinkRefused, UnlinkBad, UnlinkDrop,
     CreateFound, CreateNew, CreateFails, CreatePut, OpenIp, OpenFile, ChdirIp, Close, exit
<1>5. ASSUME NEW p \in Proc, LinkIp(p) PROVE UNCHANGED panic \/ TablePanics
  <2>1. StartOf(p, c[p].new) \in Inum
    BY <1>5, StartIn, Zenon DEF LinkIp, At
  <2> QED BY <1>5, <2>1, Zenon DEF LinkIp, TablePanics
<1>6. ASSUME NEW p \in Proc, LinkExists(p) \/ CreateExists(p) PROVE UNCHANGED panic \/ TablePanics
  <2>1. c[p].pc \in {"link_dp", "create_dp"} /\ c[p].path[1] \in DOMAIN dinode[c[p].cur].ents
    BY <1>6, Zenon DEF LinkExists, CreateExists, At
  <2>2. c[p].cur \in Inum
    BY <2>1, InvParts, PointersOf DEF CallOK, LocalsOK, AtCur
  <2>3. dinode[c[p].cur].ents[c[p].path[1]] \in Inum
    BY <2>1, <2>2, EntryIn
  <2> QED BY <1>6, <2>3, Zenon DEF LinkExists, CreateExists, TablePanics
<1>7. ASSUME NEW p \in Proc, UnlinkDp(p) PROVE UNCHANGED panic \/ TablePanics
  <2>1. c[p].cur \in Inum
    BY <1>7, InvParts, PointersOf, Zenon DEF UnlinkDp, At, CallOK, LocalsOK, AtCur
  <2>2. c[p].path[1] \in DOMAIN dinode[c[p].cur].ents => dinode[c[p].cur].ents[c[p].path[1]] \in Inum
    BY <2>1, EntryIn
  <2> QED BY <1>7, <2>2, Zenon DEF UnlinkDp, TablePanics
<1>8. ASSUME NEW p \in Proc, UnlinkIp(p) PROVE UNCHANGED panic
  <2>1. Loaded(c[p].ip).nlink >= 1
    BY <1>8, UnlinkCount, Zenon DEF UnlinkIp, At
  <2>2. Loaded(c[p].ip).nlink \in Int
    <3>1. c[p].ip \in Inum
      BY <1>8, UnlinkCount, Zenon DEF UnlinkIp, At
    <3> QED BY <3>1, InvParts, LoadedIs
  <2>3. ~(Loaded(c[p].ip).nlink < 1)
    BY <2>1, <2>2
  <2> QED BY <1>8, <2>3 DEF UnlinkIp
<1>9. ASSUME NEW p \in Proc, CreateAlloc(p) PROVE UNCHANGED panic \/ TablePanics
  <2> DEFINE i == CHOOSE j \in FreeInums : \A k \in FreeInums : j <= k
  <2>1. FreeInums # {} => i \in Inum
    BY FirstFree
  <2> QED BY <1>9, <2>1, Zenon DEF CreateAlloc, TablePanics
<1>10. ASSUME NEW p \in Proc, IlockStep(p) PROVE UNCHANGED panic \/ TablePanics
  <2>1. Loaded(Wants(p)).type # "free"
    BY <1>10, WantsInUse, Zenon DEF IlockStep
  <2> QED BY <1>3, <1>4, <1>5, <1>6, <1>7, <1>8, <1>9, <1>10, <2>1 DEF IlockStep
<1>11. ASSUME NEW p \in Proc, NEW i \in Inum, IputStep(p, i) PROVE UNCHANGED panic
  BY <1>11 DEF IputStep, IputLast, IputFree, IputDrop
<1>12. ASSUME NEW p \in Proc, NEW q \in Proc \cup {Init1}, fork(q, p) PROVE UNCHANGED panic
  BY <1>12 DEF fork
<1> QED BY <1>1, <1>2, <1>4, <1>10, <1>11, <1>12 DEF Next

\* The only panic() a call can reach is iget()'s, when the table is full: ilock()
\* finds no free inode and sys_unlink() no inode without a link.
THEOREM OnlyIgetPanics == DotDotSafe => (Spec => []OnlyTableFull)
<1> SUFFICES ASSUME DotDotSafe PROVE Spec => []OnlyTableFull
  OBVIOUS
<1>1. Init => OnlyTableFull
  BY DEF Init, OnlyTableFull
<1>2. IInv /\ OnlyTableFull /\ [Next]_vars => OnlyTableFull'
  BY NextPanics, Zenon DEF TablePanics, OnlyTableFull
<1> QED BY <1>1, <1>2, TreeRight, PTL DEF Spec

\* The counts that decide when iput() frees an inode are right, however many
\* entries the table has: what a full table costs is the panic of iget().
THEOREM CountsAlwaysExact == DotDotSafe => (Spec => []CountsExact)
<1> SUFFICES ASSUME DotDotSafe PROVE Spec => []CountsExact
  OBVIOUS
<1>1. IInv /\ OnlyTableFull => CountsExact
  BY TypesHold, LinksAreCovered, InvParts DEF CountsExact, PointerInv
<1> QED BY <1>1, TreeRight, OnlyIgetPanics, PTL
-----------------------------------------------------------------------------
(***************************************************************************)
(* The lock order.                                                         *)
(***************************************************************************)
\* Processes that wait for each other are in sys_unlink() or create(), have a
\* directory locked and want an inode in it.
LEMMA WaitersHold ==
    ASSUME IInv, NEW S \in SUBSET Proc,
           \A p \in S : Wants(p) # None /\ lock[Wants(p)] \in S,
           NEW p \in S
    PROVE  /\ c[p].puts = <<>> /\ Wants(p) \in Inum
           /\ Locking(c[lock[Wants(p)]], Wants(p))
<1>1. lock[Wants(p)] \in Proc /\ lock[Wants(p)] # None
  BY InodesAssumption
<1>2. c[p].puts = <<>>
  <2> SUFFICES ASSUME c[p].puts # <<>> PROVE FALSE
    OBVIOUS
  <2>1. /\ Wants(p) = Head(c[p].puts) /\ c[p].put = "test" /\ LastUse(Head(c[p].puts))
    BY DEF Wants
  <2>2. Head(c[p].puts) \in Inum
    BY InvParts, PointersOf, TailIs DEF CallOK, LocalsOK
  <2>3. lock[Head(c[p].puts)] = None
    BY <2>1, <2>2, LastUseAlone, InvParts DEF LastUse
  <2> QED BY <1>1, <2>1, <2>3
<1>3. Wants(p) \in Inum
  BY <1>2, WantsInUse
<1> QED BY <1>1, <1>2, <1>3, InvParts, PointersOf

\* The one with the directory locked is in sys_unlink(): nobody else wants the inode
\* that create() has allocated.
LEMMA HolderUnlinks ==
    ASSUME IInv, NEW S \in SUBSET Proc,
           \A p \in S : Wants(p) # None /\ lock[Wants(p)] \in S,
           NEW p \in S
    PROVE  /\ c[lock[Wants(p)]].pc = "unlink_ip"
           /\ c[lock[Wants(p)]].cur = Wants(p)
           /\ Wants(lock[Wants(p)]) = c[lock[Wants(p)]].ip
<1>1. ASSUME NEW q \in S
      PROVE  LET h == lock[Wants(q)]
             IN  /\ h \in S /\ c[h].cur = Wants(q) /\ Wants(h) = c[h].ip
                 /\ c[h].pc \in {"unlink_ip", "create_new"}
  <2>1. PICK h \in S : h = lock[Wants(q)]
    OBVIOUS
  <2>2. Locking(c[h], Wants(q)) /\ c[h].puts = <<>> /\ Wants(h) # None
    BY <2>1, WaitersHold, Zenon
  <2>3. c[h].pc \in {"unlink_ip", "create_new"} /\ c[h].cur = Wants(q)
    BY <2>2, Zenon DEF Locking, Wants, LockCur, LockIp
  <2>4. Wants(h) = c[h].ip
    BY <2>2, <2>3 DEF Wants
  <2> QED BY <2>1, <2>3, <2>4
<1>2. PICK h \in S : h = lock[Wants(p)]
  OBVIOUS
<1>3. /\ c[h].cur = Wants(p) /\ Wants(h) = c[h].ip /\ c[h].pc \in {"unlink_ip", "create_new"}
  BY <1>1, <1>2
<1>4. PICK g \in S : g = lock[Wants(h)]
  OBVIOUS
<1>5. c[g].cur = c[h].ip
  BY <1>1, <1>3, <1>4
<1>6. c[h].pc # "create_new"
  BY <1>5, InvParts DEF CallsOK, NewOK, Private
<1> QED BY <1>2, <1>3, <1>6

\* unlink() and create() lock a directory and then an inode in it, and the
\* directories are a tree.
LEMMA LocksHaveNoCycle ==
    ASSUME IInv
    PROVE  NoLockCycle
<1> SUFFICES ASSUME NEW S \in (SUBSET Proc) \ {{}},
                    \A p \in S : Wants(p) # None /\ lock[Wants(p)] \in S
             PROVE  FALSE
  BY DEF NoLockCycle
<1> DEFINE D == {Wants(p) : p \in S}
<1>1. D \subseteq Inum /\ D # {}
  BY WaitersHold
<1>2. ASSUME NEW p \in S
      PROVE  \E n \in Name(Wants(p)) : dinode[Wants(p)].ents[n] \in D
  <2>1. PICK h \in S : h = lock[Wants(p)]
    OBVIOUS
  <2>2. c[h].pc = "unlink_ip" /\ c[h].cur = Wants(p) /\ Wants(h) = c[h].ip
    BY <2>1, HolderUnlinks
  <2>3. c[h].path[1] \in Name(Wants(p)) /\ dinode[Wants(p)].ents[c[h].path[1]] = Wants(h)
    BY <2>2, InvParts DEF CallsOK, UnlinkOK
  <2> QED BY <2>3
<1>3. \A d \in D : \E n \in Name(d) : dinode[d].ents[n] \in D
  BY <1>2
<1> HIDE DEF D
<1> QED BY <1>1, <1>3, InvParts DEF DiskInv, TreeInv

\* Nobody waits for an inode's lock for ever: the lock order has no cycle, and
\* iput(), which holds other locks, finds the lock it takes free.
THEOREM NeverDeadlocked == DotDotSafe => (Spec => []NoDeadlock)
<1> SUFFICES ASSUME DotDotSafe PROVE Spec => []NoDeadlock
  OBVIOUS
<1>1. IInv => NoDeadlock
  BY LocksHaveNoCycle, PutsAlone, InvParts DEF NoDeadlock
<1> QED BY <1>1, TreeRight, PTL
-----------------------------------------------------------------------------
(***************************************************************************)
(* The directory tree is NameSpace's.                                      *)
(***************************************************************************)
Kind   == [i \in Inum |-> dinode[i].type]
Branch == [i \in Inum |-> Restrict(dinode[i].ents, Name(i))]
Users  == (Range(cwd) \cup Range(opened)) \ {None}

\* The names of a directory, without "." and "..", ...
LEMMA BranchIs ==
    /\ DOMAIN Branch = Inum
    /\ \A i \in Inum : /\ DOMAIN Branch[i] = Name(i)
                       /\ \A n \in Name(i) : Branch[i][n] = dinode[i].ents[n]
  BY DEF Branch, Restrict

\* ... stay when its entries do.
LEMMA BranchSame ==
    ASSUME NEW j \in Inum, Name(j)' = Name(j),
           \A n \in Name(j) : dinode'[j].ents[n] = dinode[j].ents[n]
    PROVE  Branch'[j] = Branch[j]
  BY DEF Branch, Restrict

\* An inode without entries has no name.
LEMMA BoundIs ==
    ASSUME NEW i \in Inum, EntriesOf(i) = {}
    PROVE  ~ \E d \in Inum : \E n \in DOMAIN Branch[d] : Branch[d][n] = i
<1> SUFFICES ASSUME NEW d \in Inum, NEW n \in Name(d), dinode[d].ents[n] = i
             PROVE  FALSE
  BY BranchIs
<1>1. <<d, n>> \in EntriesOf(i)
  BY DEF EntriesOf
<1> QED BY <1>1

\* The steps that leave the names alone: they may open, close, enter or leave.
SameNames ==
    \A j \in Inum : /\ dinode'[j].type = dinode[j].type /\ Name(j)' = Name(j)
                    /\ \A n \in Name(j) : dinode'[j].ents[n] = dinode[j].ents[n]

\* The steps that change no name and no type are uses or nothing.
LEMMA UseStep ==
    ASSUME IInv', SameNames
    PROVE  NS!Next
<1>1. Kind' = Kind
  BY DEF SameNames, Kind
<1>2. Branch' = Branch
  <2>1. \A j \in Inum : Branch'[j] = Branch[j]
    BY BranchSame DEF SameNames
  <2> QED BY <2>1 DEF Branch
<1>3. DataTypes' /\ CwdInv' /\ \A p \in Proc : PlaceOK(p)'
  BY DEF IInv, PointerInv, CallsOK
<1>4. Users' \in SUBSET Inum
  BY <1>3 DEF DataTypes, Users, Range
<1>5. \A i \in Users' : Kind[i] # "free"
  <2> SUFFICES ASSUME NEW i \in Users' PROVE Kind'[i] # "free"
    BY <1>1
  <2>1. i \in Inum /\ i # None
    BY <1>4 DEF Users
  <2>2. (\E p \in Proc \cup {Init1} : cwd'[p] = i) \/ (\E p \in Proc : opened'[p] = i)
    BY <1>3 DEF Users, Range, DataTypes
  <2>3. dinode'[i].type # "free"
    BY <1>3, <2>1, <2>2 DEF CwdInv, PlaceOK, IsDir, InUse
  <2> QED BY <2>1, <2>3 DEF Kind
<1>6. NS!Use
  BY <1>1, <1>2, <1>4, <1>5 DEF NS!Use, Kind, Branch, Users
<1> QED BY <1>6 DEF NS!Next

\* Those that make an entry, ...
LEMMA BindStep ==
    ASSUME DataTypes, NEW d \in Inum, NEW n, NEW i \in Inum, NewEntry(d, n, i),
           IsDir(d), InUse(i), IsDir(i) => EntriesOf(i) = {}, UNCHANGED <<cwd, opened>>
    PROVE  NS!Next
<1>1. Kind' = Kind /\ Kind[d] = "dir" /\ Kind[i] # "free" /\ (Kind[i] = "dir" <=> IsDir(i))
  BY DEF NewEntry, Kind, IsDir, InUse
<1>2. n \notin DOMAIN Branch[d]
  BY BranchIs DEF NewEntry
<1>3. Kind[i] = "dir" => ~ \E e \in Inum : \E m \in DOMAIN Branch[e] : Branch[e][m] = i
  BY <1>1, BoundIs
<1>4. \A j \in Inum \ {d} : Branch'[j] = Branch[j]
  BY BranchSame DEF NewEntry
<1>5. Branch'[d] = [m \in DOMAIN Branch[d] \cup {n} |-> IF m = n THEN i ELSE Branch[d][m]]
  <2>1. Branch'[d] = [m \in Name(d)' |-> dinode'[d].ents[m]]
    BY DEF Branch, Restrict
  <2>2. Name(d)' = Name(d) \cup {n} /\ dinode'[d].ents[n] = i
        /\ \A m \in Name(d) : dinode'[d].ents[m] = dinode[d].ents[m]
    BY DEF NewEntry
  <2> QED BY <2>1, <2>2, BranchIs
<1>6. Branch' = [Branch EXCEPT ![d] = [m \in DOMAIN Branch[d] \cup {n} |->
                                          IF m = n THEN i ELSE Branch[d][m]]]
  <2>1. DOMAIN Branch' = Inum
    BY DEF Branch
  <2>2. Branch' = [j \in Inum |-> Branch'[j]]
    BY DEF Branch
  <2> QED BY <1>4, <1>5, <2>1, <2>2, BranchIs
<1>7. Users' = Users
  BY DEF Users
<1>8. n \in DOMAIN Branch'[d]
  BY <1>5
<1>9. NS!Bind(d, n, i)
  BY <1>1, <1>2, <1>3, <1>6, <1>7 DEF NS!Bind, NS!Bound, Kind, Branch, Users
<1>10. \E e, j \in Inum : \E m \in DOMAIN Branch'[e] : NS!Bind(e, m, j)
  BY <1>8, <1>9
<1> QED BY <1>10 DEF NS!Next, Branch

\* ... remove one, ...
LEMMA UnbindStep ==
    ASSUME DataTypes, NEW d \in Inum, NEW n \in Name(d), NEW i \in Inum,
           dinode[d].ents[n] = i, Name(i) = {}, UNCHANGED <<cwd, opened>>,
           \A j \in Inum : dinode'[j].type = dinode[j].type,
           \A j \in Inum \ {d} : dinode'[j] = dinode[j],
           Name(d)' = Name(d) \ {n},
           \A m \in Name(d) \ {n} : dinode'[d].ents[m] = dinode[d].ents[m]
    PROVE  NS!Next
<1>1. Kind' = Kind /\ Users' = Users
  BY DEF Kind, Users
<1>2. n \in DOMAIN Branch[d] /\ DOMAIN Branch[Branch[d][n]] = {}
  BY BranchIs
<1>3. \A j \in Inum \ {d} : Branch'[j] = Branch[j]
  BY BranchSame DEF Name
<1>4. Branch'[d] = [m \in DOMAIN Branch[d] \ {n} |-> Branch[d][m]]
  <2>1. Branch'[d] = [m \in Name(d)' |-> dinode'[d].ents[m]]
    BY DEF Branch, Restrict
  <2> QED BY <2>1, BranchIs
<1>5. Branch' = [Branch EXCEPT ![d] = [m \in DOMAIN Branch[d] \ {n} |-> Branch[d][m]]]
  <2>1. Branch' = [j \in Inum |-> Branch'[j]]
    BY DEF Branch
  <2> QED BY <1>3, <1>4, <2>1, BranchIs
<1>6. NS!Unbind(d, n)
  BY <1>1, <1>2, <1>5 DEF NS!Unbind, NS!Restrict, Kind, Branch, Users
<1>7. \E e \in Inum : \E m \in DOMAIN Branch[e] : NS!Unbind(e, m)
  BY <1>2, <1>6
<1> QED BY <1>7 DEF NS!Next, Branch

\* ... allocate an inode, ...
LEMMA AllocStep ==
    ASSUME DataTypes, NEW i \in Inum, dinode[i].type = "free", dinode'[i].type # "free",
           Name(i) = {}, Name(i)' = {}, \A j \in Inum \ {i} : dinode'[j] = dinode[j],
           UNCHANGED <<cwd, opened>>
    PROVE  NS!Next
<1>1. Users' = Users
  BY DEF Users
<1>2. Branch' = Branch
  <2>1. \A j \in Inum : Branch'[j] = Branch[j]
    BY BranchSame DEF Name
  <2> QED BY <2>1 DEF Branch
<1>3. Kind' = [Kind EXCEPT ![i] = Kind'[i]] /\ Kind[i] = "free" /\ Kind'[i] # "free"
  BY DEF Kind
<1>4. NS!Alloc(i, Kind'[i])
  BY <1>1, <1>2, <1>3 DEF NS!Alloc, Kind, Branch, Users
<1> QED BY <1>4 DEF NS!Next, Kind

\* ... or free one that has no name and that nobody uses.
LEMMA FreeStep ==
    ASSUME DataTypes, NEW i \in Inum, EntriesOf(i) = {},
           \A p \in Proc \cup {Init1} : cwd[p] # i, \A p \in Proc : opened[p] # i,
           dinode'[i].type = "free", Name(i)' = {}, \A j \in Inum \ {i} : dinode'[j] = dinode[j],
           UNCHANGED <<cwd, opened>>
    PROVE  NS!Next
<1>1. Users' = Users /\ i \notin Users
  BY DEF Users, Range, DataTypes
<1>2. Branch' = [Branch EXCEPT ![i] = <<>>]
  <2>1. \A j \in Inum \ {i} : Branch'[j] = Branch[j]
    BY BranchSame DEF Name
  <2>2. Branch'[i] = <<>>
    BY DEF Branch, Restrict
  <2>3. Branch' = [j \in Inum |-> Branch'[j]]
    BY DEF Branch
  <2> QED BY <2>1, <2>2, <2>3, BranchIs
<1>3. Kind' = [Kind EXCEPT ![i] = "free"]
  BY DEF Kind
<1>4. ~ \E d \in Inum : \E n \in DOMAIN Branch[d] : Branch[d][n] = i
  BY BoundIs
<1>5. NS!Free(i)
  BY <1>1, <1>2, <1>3, <1>4 DEF NS!Free, NS!Bound, Kind, Branch, Users
<1> QED BY <1>5 DEF NS!Next, Kind

\* A step that does not write to the disk changes no name, ...
LEMMA DiskStays ==
    ASSUME UNCHANGED dinode
    PROVE  SameNames
  BY DEF SameNames, Name

\* ... nor does one that writes a link count.
LEMMA CountOnly ==
    ASSUME DataTypes, NEW i, NEW n, Iupdate(i, n)
    PROVE  SameNames
<1>1. \A j \in Inum : dinode'[j].type = dinode[j].type /\ dinode'[j].ents = dinode[j].ents
  BY DEF Iupdate, DataTypes
<1> QED BY <1>1 DEF SameNames, Name

\* link() binds a name, ...
LEMMA LinkBinds ==
    ASSUME IInv, NEW p \in Proc, LinkDpDone(p)
    PROVE  NS!Next
<1>a. PICK d \in Inum, i \in Inum, n \in {c[p].path[1]} : d = c[p].cur /\ i = c[p].ip /\ n = c[p].path[1]
  BY DEF LinkDpDone
<1>1. /\ c[p].pc = "link_dp" /\ n \notin DOMAIN dinode[d].ents /\ UNCHANGED <<cwd, opened>>
      /\ EnteredIn(d, n, i)
  BY <1>a DEF LinkDpDone
<1>2. IsDir(d) /\ HasDots(d) /\ ~IsDir(i) /\ InUse(i)
  <2>1. PlaceOK(p) /\ d # None /\ i # None
    BY InvParts, InodesAssumption
  <2> QED BY <1>a, <1>1, <2>1 DEF PlaceOK, AtDir, AtLast, Linking
<1>3. DOMAIN dinode[i].ents = {}
  BY <1>2, InvParts DEF EntryInv, IsDir
<1>4. /\ DOMAIN dinode'[d].ents = DOMAIN dinode[d].ents \cup {n}
      /\ dinode'[d].ents[n] = i
      /\ \A k \in DOMAIN dinode[d].ents : dinode'[d].ents[k] = dinode[d].ents[k]
  BY <1>1 DEF EnteredIn, Entered
<1>5. n \notin {".", ".."} /\ i # d
  BY <1>1, <1>2 DEF HasDots
<1>6. NewEntry(d, n, i)
  BY <1>1, <1>3, <1>4, <1>5 DEF NewEntry, EnteredIn, Name
<1> QED BY <1>1, <1>2, <1>6, InvParts, BindStep

\* ... create() binds the new inode, ...
LEMMA CreateBinds ==
    ASSUME IInv, NEW p \in Proc, CreateNewDone(p)
    PROVE  NS!Next
<1>a. PICK d \in Inum, i \in Inum, n \in {c[p].path[1]}, w \in {WithDots(p, 2)} :
          d = c[p].cur /\ i = c[p].ip /\ n = c[p].path[1] /\ w = WithDots(p, 2)
  BY DEF CreateNewDone
<1>1. /\ c[p].pc = "create_new" /\ UNCHANGED <<cwd, opened>>
      /\ \E k : Created(d, n, k, i, w)
  BY <1>a DEF CreateNewDone
<1>2. /\ d # i /\ InUse(i) /\ DOMAIN dinode[i].ents = {} /\ Name(i) = {} /\ EntriesOf(i) = {}
      /\ IsDir(d) /\ HasDots(d)
  <2>0. c[p].pc = "create_new" /\ d = c[p].cur /\ i = c[p].ip
    BY <1>a, <1>1
  <2>1. d # i /\ InUse(i) /\ DOMAIN dinode[i].ents = {} /\ Name(i) = {}
    BY <2>0, NewInode, SMTT(30)
  <2>2. EntriesOf(i) = {}
    BY <2>0, NewInode
  <2>3. IsDir(d) /\ HasDots(d)
    BY <2>0, NewInode
  <2> QED BY <2>1, <2>2, <2>3
<1>3. n \notin DOMAIN dinode[d].ents
  BY <1>a, <1>1, NewInode
<1>4. DOMAIN w \subseteq {".", ".."}
  BY <1>a, <1>1, WithDotsHas
<1>5. /\ \A j \in Inum \ {i, d} : dinode'[j] = dinode[j]
      /\ dinode'[i].type = dinode[i].type /\ dinode'[i].ents = w
      /\ dinode'[d].type = dinode[d].type
      /\ DOMAIN dinode'[d].ents = DOMAIN dinode[d].ents \cup {n}
      /\ dinode'[d].ents[n] = i
      /\ \A x \in DOMAIN dinode[d].ents : dinode'[d].ents[x] = dinode[d].ents[x]
  BY <1>1, <1>3 DEF Created, Entered
<1>6. NewEntry(d, n, i)
  <2>1. n \notin {".", ".."}
    BY <1>2, <1>3 DEF HasDots
  <2>2. Name(d)' = Name(d) \cup {n} /\ Name(i)' = Name(i) /\ n \notin Name(d)
    BY <1>2, <1>3, <1>4, <1>5, <2>1 DEF Name
  <2>3. \A j \in Inum \ {i, d} : Name(j)' = Name(j)
    BY <1>5 DEF Name
  <2>4. \A j \in Inum : \A x \in Name(j) : dinode'[j].ents[x] = dinode[j].ents[x]
    BY <1>2, <1>5 DEF Name
  <2>5. \A j \in Inum : dinode'[j].type = dinode[j].type
    BY <1>5
  <2> QED BY <1>2, <1>5, <2>2, <2>3, <2>4, <2>5 DEF NewEntry
<1> QED BY <1>1, <1>2, <1>6, InvParts, BindStep

\* ... or changes no name but "." and "..", ...
LEMMA CreateFailsNames ==
    ASSUME IInv, NEW p \in Proc, CreateFails(p)
    PROVE  SameNames
<1>a. PICK d \in Inum, i \in Inum : d = c[p].cur /\ i = c[p].ip /\ c[p].pc = "create_new"
  BY InvParts, PointersOf DEF CreateFails, At, CallOK, LocalsOK, AtIp, AtCur
<1>b. PICK k \in 0 .. 2 : dinode' = [dinode EXCEPT ![i] = Filled(@, 0, WithDots(p, k))]
  BY <1>a DEF CreateFails
<1>c. PICK w : w = WithDots(p, k)
  OBVIOUS
<1>1. DOMAIN w \subseteq {".", ".."}
  BY <1>a, <1>c, WithDotsHas
<1>2. Name(i) = {}
  BY <1>a, NewInode
<1>3. dinode'[i].type = dinode[i].type /\ dinode'[i].ents = w
  BY <1>b, <1>c, InvParts DEF Filled, DataTypes
<1>4. \A j \in Inum \ {i} : dinode'[j] = dinode[j]
  BY <1>b, InvParts DEF DataTypes
<1> QED BY <1>1, <1>2, <1>3, <1>4 DEF SameNames, Name

\* ... unlink() removes a name, of a directory only when it is empty, ...
LEMMA UnlinkUnbinds ==
    ASSUME IInv, NEW p \in Proc, UnlinkIpDone(p)
    PROVE  NS!Next
<1>a. PICK d \in Inum, i \in Inum, n \in {c[p].path[1]} : d = c[p].cur /\ i = c[p].ip /\ n = c[p].path[1]
  BY DEF UnlinkIpDone
<1>1. /\ c[p].pc = "unlink_ip" /\ UNCHANGED <<cwd, opened>> /\ d # i
      /\ Loaded(i).type = "dir" => isdirempty(i)
      /\ \E k : RemovedFrom(d, n, k)
  BY <1>a DEF UnlinkIpDone
<1>2. n \in Name(d) /\ dinode[d].ents[n] = i
  BY <1>a, <1>1, InvParts DEF UnlinkOK
<1>3. Name(i) = {}
  BY <1>1, InvParts, LoadedDisk DEF EntryInv, isdirempty, Name
<1>4. /\ \A j \in Inum \ {d} : dinode'[j] = dinode[j]
      /\ dinode'[d].type = dinode[d].type
      /\ DOMAIN dinode'[d].ents = DOMAIN dinode[d].ents \ {n}
      /\ \A x \in DOMAIN dinode[d].ents \ {n} : dinode'[d].ents[x] = dinode[d].ents[x]
  BY <1>1 DEF RemovedFrom
<1>5. /\ Name(d)' = Name(d) \ {n}
      /\ \A m \in Name(d) \ {n} : dinode'[d].ents[m] = dinode[d].ents[m]
  BY <1>4 DEF Name
<1>6. \A j \in Inum : dinode'[j].type = dinode[j].type
  BY <1>4
<1> QED BY <1>1, <1>2, <1>3, <1>4, <1>5, <1>6, InvParts, UnbindStep

\* ... ialloc() takes a free inode, ...
LEMMA AllocAllocs ==
    ASSUME IInv, NEW p \in Proc, CreateAllocDone(p)
    PROVE  NS!Next
<1>a. PICK i \in Inum : i = CHOOSE j \in FreeInums : \A k \in FreeInums : j <= k
  BY DEF CreateAllocDone
<1>1. /\ dinode[i].type = "free" /\ c[p].op \in Creates /\ UNCHANGED <<cwd, opened>>
      /\ dinode'[i] = Allocated(c[p].op) /\ \A j \in Inum \ {i} : dinode'[j] = dinode[j]
  BY <1>a DEF CreateAllocDone
<1>2. DOMAIN dinode[i].ents = {}
  BY <1>1, FreeIs
<1>3. dinode'[i].type # "free" /\ DOMAIN dinode'[i].ents = {}
  BY <1>1, AllocatedIs, NoEnts
<1>4. Name(i) = {} /\ Name(i)' = {}
  BY <1>2, <1>3 DEF Name
<1> QED BY <1>1, <1>3, <1>4, InvParts, AllocStep

\* ... and iput() frees one without name or user.
LEMMA IputFrees ==
    ASSUME IInv, NEW p \in Proc, NEW i \in Inum, IputFreeDone(p, i)
    PROVE  NS!Next
<1>1. /\ c[p].puts # <<>> /\ i = Head(c[p].puts) /\ c[p].put = "free" /\ UNCHANGED <<cwd, opened>>
      /\ dinode'[i] = Free /\ \A j \in Inum \ {i} : dinode'[j] = dinode[j]
  BY DEF IputFreeDone
<1>2. dinode[i].nlink = 0 /\ Sole(p, i)
  BY <1>1, InvParts DEF FreeingOK, Sole
<1>3. EntriesOf(i) = {}
  BY <1>2, InvParts, LinkNatural
<1>4. \A q \in Proc \cup {Init1} : cwd[q] # i
  BY <1>2, InvParts, SoleIs
<1>5. \A q \in Proc : opened[q] # i
  BY <1>2, InvParts, SoleIs DEF Points
<1>6. dinode'[i].type = "free" /\ Name(i)' = {}
  BY <1>1, NoEnts DEF Free, Name
<1> QED BY <1>1, <1>3, <1>4, <1>5, <1>6, InvParts, FreeStep

\* The steps that begin with an ilock().
LEMMA IlockImplements ==
    ASSUME IInv, IInv', NEW p \in Proc, IlockStep(p)
    PROVE  NS!Next
<1>0. PointerInv /\ DataTypes
  BY InvParts
<1>1. CASE UNCHANGED dinode
  BY <1>1, DiskStays, UseStep
<1>2. CASE \E i \in Inum : NamexStep(p, i)
  BY <1>2, DiskStays, UseStep, Zenon DEF NamexStep, NamexFail, NamexParent, NamexDescend
<1>3. CASE LinkExists(p) \/ UnlinkDp(p) \/ UnlinkRefused(p) \/ CreateExists(p) \/ CreateFound(p)
           \/ OpenIp(p) \/ ChdirIp(p)
  <2>1. UNCHANGED dinode
    BY <1>3, Zenon DEF LinkExists, UnlinkDp, UnlinkRefused, CreateExists, CreateFound, OpenIp, ChdirIp
  <2> QED BY <2>1, <1>1
<1>4. CASE LinkIp(p)
  <2>1. UNCHANGED dinode \/ \E i, n : Iupdate(i, n)
    BY <1>4, Zenon DEF LinkIp
  <2> QED BY <1>0, <1>1, <2>1, CountOnly, UseStep
<1>5. CASE LinkBad(p)
  <2>1. \E i, n : Iupdate(i, n)
    BY <1>5 DEF LinkBad
  <2> QED BY <1>0, <2>1, CountOnly, UseStep
<1>6. CASE LinkDp(p)
  <2>1. CASE c'[p].puts = <<c[p].cur>>
    <3>1. UNCHANGED dinode
      BY <1>0, <1>6, <2>1, LinkNoBlockStep DEF LinkNoBlockDone
    <3> QED BY <3>1, <1>1
  <2>2. CASE c'[p].puts # <<c[p].cur>>
    BY <1>0, <1>6, <2>2, LinkDpStep, LinkBinds
  <2> QED BY <2>1, <2>2
<1>7. CASE UnlinkIp(p)
  <2>1. Loaded(c[p].ip).nlink >= 1
    BY <1>7, UnlinkCount, Zenon DEF UnlinkIp, At
  <2> QED BY <1>0, <1>7, <2>1, UnlinkIpStep, UnlinkUnbinds
<1>8. CASE CreateAlloc(p)
  <2> DEFINE i == CHOOSE j \in FreeInums : \A k \in FreeInums : j <= k
  <2>1. CASE FreeInums = {} \/ IgetPanics(i)
    <3>1. UNCHANGED dinode
      BY <1>8, <2>1, Zenon DEF CreateAlloc, inodeVars
    <3> QED BY <3>1, <1>1
  <2>2. CASE FreeInums # {} /\ ~IgetPanics(i)
    BY <1>0, <1>8, <2>2, CreateAllocStep, AllocAllocs
  <2> QED BY <2>1, <2>2
<1>9. CASE CreateNew(p)
  BY <1>0, <1>9, CreateNewStep, CreateBinds
<1>10. CASE CreateFails(p)
  BY <1>10, CreateFailsNames, UseStep
<1>11. CASE UNCHANGED <<inodeVars, cwd, c, opened>>
  BY <1>1, <1>11 DEF inodeVars
<1> QED
  BY <1>2, <1>3, <1>4, <1>5, <1>6, <1>7, <1>8, <1>9, <1>10, <1>11, Zenon DEF IlockStep

\* Every step of the calls is one of NameSpace, or none.
LEMMA NextImplements ==
    ASSUME IInv, IInv', [Next]_vars
    PROVE  NS!Next
<1>0. PointerInv /\ DataTypes
  BY InvParts
<1>1. CASE UNCHANGED dinode
  BY <1>1, DiskStays, UseStep
<1>2. CASE UNCHANGED vars
  BY <1>1, <1>2 DEF vars, inodeVars
<1>3. ASSUME NEW p \in Proc,
             \/ Start(p) \/ LinkBadDp(p) \/ UnlinkBad(p) \/ CreatePut(p) \/ OpenFile(p)
             \/ Close(p) \/ exit(p)
             \/ \E q \in Proc \cup {Init1} : fork(q, p)
      PROVE  NS!Next
  <2>1. UNCHANGED dinode
    BY <1>3, Zenon DEF Start, LinkBadDp, UnlinkBad, CreatePut, OpenFile, Close, exit, fork, inodeVars
  <2> QED BY <2>1, <1>1
<1>4. ASSUME NEW p \in Proc, UnlinkDrop(p) PROVE NS!Next
  <2>1. \E i, n : Iupdate(i, n)
    BY <1>4 DEF UnlinkDrop
  <2> QED BY <1>0, <2>1, CountOnly, UseStep
<1>5. ASSUME NEW p \in Proc, NEW i \in Inum, IputStep(p, i) PROVE NS!Next
  <2>1. CASE IputFree(p, i)
    BY <1>0, <1>5, <2>1, IputFreeStep, IputFrees DEF IputStep
  <2>2. CASE IputLast(p, i) \/ IputDrop(p, i)
    <3>1. UNCHANGED dinode
      BY <2>2 DEF IputLast, IputDrop
    <3> QED BY <3>1, <1>1
  <2> QED BY <1>5, <2>1, <2>2 DEF IputStep
<1>6. CASE Next
  BY <1>3, <1>4, <1>5, <1>6, IlockImplements DEF Next
<1> QED BY <1>2, <1>6

\* The disk mkfs makes is an empty name space.
LEMMA InitImplements ==
    ASSUME Init
    PROVE  NS!Init
<1>1. /\ dinode[ROOTINO].type = "dir" /\ DOMAIN dinode[ROOTINO].ents \subseteq {".", ".."}
      /\ \A i \in Inum \ {ROOTINO} : dinode[i].type = "free" /\ DOMAIN dinode[i].ents = {}
  <2>1. DOMAIN <<>> = {}
    OBVIOUS
  <2>2. DOMAIN Dots(ROOTINO, ROOTINO) \subseteq {".", ".."}
    BY <2>1 DEF Dots, Entered
  <2> QED BY <2>1, <2>2, InodesAssumption DEF Init, RootDir, Free
<1>2. Kind = [i \in Inum |-> IF i = 1 THEN "dir" ELSE "free"]
  BY <1>1 DEF Kind, ROOTINO
<1>3. Branch = [i \in Inum |-> <<>>]
  <2>1. \A i \in Inum : Name(i) = {}
    BY <1>1 DEF Name
  <2> QED BY <2>1 DEF Branch, Restrict
<1>4. Users = {1}
  <2>1. \A x \in Range(opened) : x = None
    BY DEF Range, Init
  <2> QED BY <2>1, InodesAssumption DEF Users, Range, Init, ROOTINO
<1> QED BY <1>2, <1>3, <1>4 DEF NS!Init, Kind, Branch, Users

\* The calls change the tree as NameSpace says: whoever looks at the names, the
\* types and the inodes in use sees names bound and unbound one at a time, a
\* directory removed only when it is empty, and nothing freed that has a name or
\* is in use.
THEOREM TreeIsANameSpace == DotDotSafe => (Spec => ImplementsNameSpace)
<1> SUFFICES ASSUME DotDotSafe PROVE Spec => ImplementsNameSpace
  OBVIOUS
<1>1. Init => NS!Init
  BY InitImplements
<1>2. IInv /\ IInv' /\ [Next]_vars => [NS!Next]_(NS!vars)
  BY NextImplements
<1> QED BY <1>1, <1>2, TreeRight, PTL DEF Spec, ImplementsNameSpace, NS!Spec
===============================================================================
