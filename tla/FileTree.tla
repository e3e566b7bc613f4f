------------------------------ MODULE FileTree ------------------------------
(***************************************************************************)
(* kernel/sysfile.c: the system calls that use the directory tree, on top  *)
(* of Inodes.  fork() and exit() (kernel/proc.c) take part because they    *)
(* share and leave current directories.                                    *)
(*                                                                         *)
(* FileTable has the descriptors and open files; here a process has at     *)
(* most one open file, which is not shared, and open() may find no file or *)
(* descriptor.                                                             *)
(***************************************************************************)
EXTENDS Inodes

CONSTANTS Calls,    \* the calls made: op, path, and new, a second path
          Init1     \* the first process, which stays in the root directory

Paths == [abs : BOOLEAN, elems : Seq(STRING)]

ASSUME TreeAssumption ==
    /\ Init1 \notin Proc
    /\ \A call \in Calls :
          /\ call.op \in {"link", "unlink", "mkdir", "mknod", "creat", "open", "openw", "chdir"}
          /\ call.path \in Paths
          /\ call.op = "link" => call.new \in Paths

VARIABLE opened     \* the inode of each process's open file

vars == <<inodeVars, cwd, c, panic, opened>>

Init ==
    /\ dinode = [i \in Inum |-> IF i = ROOTINO THEN RootDir ELSE Free]
    /\ itable = [i \in Inum |->
           IF i = ROOTINO THEN [ref |-> 1, valid |-> TRUE, type |-> "dir", nlink |-> 1] ELSE NoEntry]
    /\ lock = [i \in Inum |-> None]
    /\ cwd = [p \in Proc \cup {Init1} |-> IF p = Init1 THEN ROOTINO ELSE None]
    /\ c = [p \in Proc |-> [NoCall EXCEPT !.pc = "unused"]]
    /\ panic = None
    /\ opened = [p \in Proc |-> None]

\* The call is over when these have been put.
Returns(p, puts) == Only(p, [puts |-> puts])

\* A call that looks up a path starts.
Start(p) ==
    /\ At(p, "idle")
    /\ \E call \in Calls :
          LET i == StartOf(p, call.path)
          IN IF IgetPanics(i)
             THEN panic' = "iget: no inodes" /\ UNCHANGED <<itable, c>>
             ELSE /\ itable' = [itable EXCEPT ![i].ref = @ + 1]
                  /\ Walk(p, call.op, call.path, None, call.new)
                  /\ UNCHANGED panic
    /\ UNCHANGED <<dinode, lock, cwd, opened>>

\* The inode the process locks next, if it is about to lock one.
Wants(p) ==
    CASE c[p].puts # <<>> -> IF c[p].put = "test" /\ LastUse(Head(c[p].puts))
                             THEN Head(c[p].puts) ELSE None
      [] c[p].puts = <<>> /\ c[p].pc = "namex" -> c[p].cur
      [] c[p].puts = <<>> /\ c[p].pc \in {"link_ip", "link_dp", "unlink_dp", "create_dp",
                                          "open_ip", "chdir_ip"} -> c[p].cur
      [] c[p].puts = <<>> /\ c[p].pc \in {"link_bad", "unlink_ip", "create_found", "create_new"} -> c[p].ip
      [] OTHER -> None

\* The entry of an inode with its link count changed, and written by iupdate().
Linked(i, n)  == itable' = [itable EXCEPT ![i] = [Loaded(i) EXCEPT !.nlink = n]]
Iupdate(i, n) == dinode' = [dinode EXCEPT ![i].nlink = n]

\* An inode with link count n and these entries, one entry more, or one less.
Filled(inode, n, ents)    == [inode EXCEPT !.nlink = n, !.ents = ents]
With(inode, name, i, n)   == Filled(inode, n, Entered(inode.ents, name, i))
Without(inode, name, n)   == Filled(inode, n, Restrict(inode.ents, DOMAIN inode.ents \ {name}))
-----------------------------------------------------------------------------
(***************************************************************************)
(* sys_link(): count the new link first, then look for its directory.      *)
(***************************************************************************)
LinkIp(p) ==
    LET i == c[p].cur
        j == StartOf(p, c[p].new)
        n == Loaded(i).nlink + 1
    IN /\ At(p, "link_ip") /\ CanLock(i)
       /\ CASE Loaded(i).type = "dir" ->
               /\ itable' = [itable EXCEPT ![i] = Loaded(i)]
               /\ Returns(p, <<i>>)
               /\ UNCHANGED <<dinode, panic>>
            [] Loaded(i).type # "dir" /\ IgetPanics(j) ->
               panic' = "iget: no inodes" /\ UNCHANGED <<dinode, itable, c>>
            [] Loaded(i).type # "dir" /\ ~IgetPanics(j) ->
               /\ Iupdate(i, n)
               /\ itable' = [itable EXCEPT ![i] = [Loaded(i) EXCEPT !.nlink = n], ![j].ref = @ + 1]
               /\ Walk(p, "link_new", c[p].new, i, None)
               /\ UNCHANGED panic
       /\ UNCHANGED <<lock, cwd, opened>>

\* dirlink(): the name is taken, and what it names is put with dp locked; ...
LinkExists(p) ==
    LET d    == c[p].cur
        name == c[p].path[1]
    IN /\ At(p, "link_dp") /\ CanLock(d) /\ name \in DOMAIN dinode[d].ents
       /\ LET i == dinode[d].ents[name]
          IN IF IgetPanics(i)
             THEN panic' = "iget: no inodes" /\ UNCHANGED <<itable, lock, c>>
             ELSE /\ itable' = [itable EXCEPT ![d] = Loaded(d), ![i].ref = @ + 1]
                  /\ lock' = [lock EXCEPT ![d] = p]
                  /\ Only(p, [pc |-> "link_bad_dp", cur |-> d, ip |-> c[p].ip, puts |-> <<i>>])
                  /\ UNCHANGED panic
       /\ UNCHANGED <<dinode, cwd, opened>>

LinkBadDp(p) ==
    /\ At(p, "link_bad_dp")
    /\ lock' = [lock EXCEPT ![c[p].cur] = None]
    /\ Only(p, [pc |-> "link_bad", ip |-> c[p].ip, puts |-> <<c[p].cur>>])
    /\ UNCHANGED <<dinode, itable, cwd, panic, opened>>

\* ... or the entry is written, or there is no block for it.
LinkDp(p) ==
    LET d    == c[p].cur
        name == c[p].path[1]
    IN /\ At(p, "link_dp") /\ CanLock(d) /\ name \notin DOMAIN dinode[d].ents
       /\ itable' = [itable EXCEPT ![d] = Loaded(d)]
       /\ \/ /\ dinode' = [dinode EXCEPT ![d].ents = Entered(@, name, c[p].ip)]
             /\ Returns(p, <<d, c[p].ip>>)
          \/ /\ Only(p, [pc |-> "link_bad", ip |-> c[p].ip, puts |-> <<d>>])
             /\ UNCHANGED dinode
       /\ UNCHANGED <<lock, cwd, panic, opened>>

\* Mutant: the link that was not made is taken back twice.
Uncounted_Twice(n) == IF n > 1 THEN n - 2 ELSE 0

Uncounted(n) == n - 1

LinkBad(p) ==
    LET i == c[p].ip
        n == Uncounted(Loaded(i).nlink)
    IN /\ At(p, "link_bad") /\ CanLock(i)
       /\ Iupdate(i, n) /\ Linked(i, n)
       /\ Returns(p, <<i>>)
       /\ UNCHANGED <<lock, cwd, panic, opened>>
-----------------------------------------------------------------------------
(***************************************************************************)
(* sys_unlink(): the directory is locked first, then what the name names.  *)
(***************************************************************************)
UnlinkDp(p) ==
    LET d    == c[p].cur
        name == c[p].path[1]
    IN /\ At(p, "unlink_dp") /\ CanLock(d)
       /\ IF name \in {".", ".."} \/ name \notin DOMAIN dinode[d].ents
          THEN /\ itable' = [itable EXCEPT ![d] = Loaded(d)]
               /\ Returns(p, <<d>>)
               /\ UNCHANGED <<lock, panic>>
          ELSE LET i == dinode[d].ents[name]
               IN IF IgetPanics(i)
                  THEN panic' = "iget: no inodes" /\ UNCHANGED <<itable, lock, c>>
                  ELSE /\ itable' = [itable EXCEPT ![d] = Loaded(d), ![i].ref = @ + 1]
                       /\ lock' = [lock EXCEPT ![d] = p]
                       /\ Locals(p, [pc |-> "unlink_ip", ip |-> i])
                       /\ UNCHANGED panic
       /\ UNCHANGED <<dinode, cwd, opened>>

\* Mutant: a directory is taken for empty without looking.
isdirempty_Always(i) == TRUE

isdirempty(i) == DOMAIN dinode[i].ents \subseteq {".", ".."}

\* Not empty: ip is put while dp is locked.
UnlinkRefused(p) ==
    LET i == c[p].ip
    IN /\ At(p, "unlink_ip") /\ CanLock(i) /\ Loaded(i).nlink >= 1
       /\ Loaded(i).type = "dir" /\ ~isdirempty(i)
       /\ itable' = [itable EXCEPT ![i] = Loaded(i)]
       /\ Only(p, [pc |-> "unlink_bad", cur |-> c[p].cur, puts |-> <<i>>])
       /\ UNCHANGED <<dinode, lock, cwd, panic, opened>>

UnlinkBad(p) ==
    /\ At(p, "unlink_bad")
    /\ lock' = [lock EXCEPT ![c[p].cur] = None]
    /\ Returns(p, <<c[p].cur>>)
    /\ UNCHANGED <<dinode, itable, cwd, panic, opened>>

\* dp->nlink after the entry of i is gone, with the ".." of a directory.
DpLinks(d, i) == IF Loaded(i).type = "dir" THEN itable[d].nlink - 1 ELSE itable[d].nlink

\* The entry goes, and dp is put while ip is locked.
UnlinkIp(p) ==
    LET d == c[p].cur
        i == c[p].ip
        n == DpLinks(d, i)
    IN /\ At(p, "unlink_ip") /\ CanLock(i)
       /\ Loaded(i).type = "dir" => isdirempty(i)
       /\ IF Loaded(i).nlink < 1
          THEN panic' = "unlink: nlink < 1" /\ UNCHANGED <<inodeVars, c>>
          ELSE /\ dinode' = [dinode EXCEPT ![d] = Without(@, c[p].path[1], n)]
               /\ itable' = [itable EXCEPT ![d].nlink = n, ![i] = Loaded(i)]
               /\ lock' = [lock EXCEPT ![d] = None, ![i] = p]
               /\ Only(p, [pc |-> "unlink_drop", ip |-> i, puts |-> <<d>>])
               /\ UNCHANGED panic
       /\ UNCHANGED <<cwd, opened>>

UnlinkDrop(p) ==
    LET i == c[p].ip
    IN /\ At(p, "unlink_drop")
       /\ Iupdate(i, itable[i].nlink - 1) /\ Linked(i, itable[i].nlink - 1)
       /\ lock' = [lock EXCEPT ![i] = None]
       /\ Returns(p, <<i>>)
       /\ UNCHANGED <<cwd, panic, opened>>
-----------------------------------------------------------------------------
(***************************************************************************)
(* create(), for mkdir, mknod and open with O_CREATE.                      *)
(***************************************************************************)
NewType(op) == CASE op = "mkdir" -> "dir" [] op = "mknod" -> "device" [] op = "creat" -> "file"

\* Mutant: iput(dp) in place of iunlockput(dp).
DpLock_Kept(p, d) == [lock EXCEPT ![d] = p]

\* The locks after iunlockput(dp), when the name exists.
DpLock(p, d) == [lock EXCEPT ![d] = None]

\* The name exists: dp is put, then the inode is locked.
CreateExists(p) ==
    LET d    == c[p].cur
        name == c[p].path[1]
    IN /\ At(p, "create_dp") /\ CanLock(d) /\ name \in DOMAIN dinode[d].ents
       /\ LET i == dinode[d].ents[name]
          IN IF IgetPanics(i)
             THEN panic' = "iget: no inodes" /\ UNCHANGED <<itable, lock, c>>
             ELSE /\ itable' = [itable EXCEPT ![d] = Loaded(d), ![i].ref = @ + 1]
                  /\ lock' = DpLock(p, d)
                  /\ Only(p, [pc |-> "create_found", op |-> c[p].op, ip |-> i, puts |-> <<d>>])
                  /\ UNCHANGED panic
       /\ UNCHANGED <<dinode, cwd, opened>>

CreateFound(p) ==
    LET i == c[p].ip
    IN /\ At(p, "create_found") /\ CanLock(i)
       /\ itable' = [itable EXCEPT ![i] = Loaded(i)]
       /\ IF c[p].op = "creat" /\ Loaded(i).type \in {"file", "device"}
          THEN /\ lock' = [lock EXCEPT ![i] = p]
               /\ Only(p, [pc |-> "open_file", ip |-> i])
          ELSE Returns(p, <<i>>) /\ UNCHANGED lock
       /\ UNCHANGED <<dinode, cwd, panic, opened>>

\* What ialloc() writes.
Allocated(op) == [Free EXCEPT !.type = NewType(op)]

FreeInums == {i \in Inum : dinode[i].type = "free"}

\* ialloc() takes the first free inode, or there is none.
CreateAlloc(p) ==
    LET d == c[p].cur
        i == CHOOSE j \in FreeInums : \A k \in FreeInums : j <= k
    IN /\ At(p, "create_dp") /\ CanLock(d) /\ c[p].path[1] \notin DOMAIN dinode[d].ents
       /\ IF FreeInums = {}
          THEN /\ itable' = [itable EXCEPT ![d] = Loaded(d)]
               /\ Returns(p, <<d>>)
               /\ UNCHANGED <<dinode, lock, panic>>
          ELSE IF IgetPanics(i)
          THEN panic' = "iget: no inodes" /\ UNCHANGED <<inodeVars, c>>
          ELSE /\ dinode' = [dinode EXCEPT ![i] = Allocated(c[p].op)]
               /\ itable' = [itable EXCEPT ![d] = Loaded(d), ![i].ref = @ + 1]
               /\ lock' = [lock EXCEPT ![d] = p]
               /\ Locals(p, [pc |-> "create_new", ip |-> i])
               /\ UNCHANGED panic
       /\ UNCHANGED <<cwd, opened>>

\* The entries of the new inode when create() has written k of "." and "..".
WithDots(p, k) ==
    LET i    == c[p].ip
        ents == dinode[i].ents
        one  == Entered(ents, ".", i)
    IN CASE c[p].op # "mkdir" \/ k = 0 -> ents
         [] c[p].op = "mkdir" /\ k = 1 -> one
         [] c[p].op = "mkdir" /\ k = 2 -> Entered(one, "..", c[p].cur)

\* The new inode is filled in and entered; create() returns it locked.
CreateNew(p) ==
    LET d   == c[p].cur
        i   == c[p].ip
        dir == c[p].op = "mkdir"
        n   == IF dir THEN itable[d].nlink + 1 ELSE itable[d].nlink
    IN /\ At(p, "create_new") /\ CanLock(i)
       /\ dinode' = [dinode EXCEPT
              ![i] = Filled(@, 1, WithDots(p, 2)),
              ![d] = With(@, c[p].path[1], i, n)]
       /\ itable' = [itable EXCEPT ![i] = [Loaded(i) EXCEPT !.nlink = 1], ![d].nlink = n]
       /\ lock' = [lock EXCEPT ![i] = p, ![d] = None]
       /\ Only(p, [pc |-> IF c[p].op = "creat" THEN "open_file" ELSE "create_put",
                   ip |-> i, puts |-> <<d>>])
       /\ UNCHANGED <<cwd, panic, opened>>

\* A dirlink() finds no block: nlink is 0 again, and ip is put while dp is locked.
CreateFails(p) ==
    LET i == c[p].ip
    IN /\ At(p, "create_new") /\ CanLock(i)
       /\ \E k \in 0 .. 2 :
              dinode' = [dinode EXCEPT ![i] = Filled(@, 0, WithDots(p, k))]
       /\ Linked(i, 0)
       /\ Only(p, [pc |-> "unlink_bad", cur |-> c[p].cur, puts |-> <<i>>])
       /\ UNCHANGED <<lock, cwd, panic, opened>>

\* sys_mkdir(), sys_mknod(): iunlockput() of what create() returned.
CreatePut(p) ==
    /\ At(p, "create_put")
    /\ lock' = [lock EXCEPT ![c[p].ip] = None]
    /\ Returns(p, <<c[p].ip>>)
    /\ UNCHANGED <<dinode, itable, cwd, panic, opened>>
-----------------------------------------------------------------------------
(***************************************************************************)
(* sys_open() of what exists ("openw": for writing), and sys_chdir().      *)
(***************************************************************************)
OpenIp(p) ==
    LET i == c[p].cur
    IN /\ At(p, "open_ip") /\ CanLock(i)
       /\ itable' = [itable EXCEPT ![i] = Loaded(i)]
       /\ IF Loaded(i).type = "dir" /\ c[p].op = "openw"
          THEN Returns(p, <<i>>) /\ UNCHANGED lock
          ELSE /\ lock' = [lock EXCEPT ![i] = p]
               /\ Only(p, [pc |-> "open_file", ip |-> i])
       /\ UNCHANGED <<dinode, cwd, panic, opened>>

\* There is a file and a descriptor for it, or not, or a device has no driver.
OpenFile(p) ==
    LET i == c[p].ip
    IN /\ At(p, "open_file")
       /\ lock' = [lock EXCEPT ![i] = None]
       /\ \/ /\ opened[p] = None
             /\ opened' = [opened EXCEPT ![p] = i]
             /\ Returns(p, <<>>)
          \/ Returns(p, <<i>>) /\ UNCHANGED opened
       /\ UNCHANGED <<dinode, itable, cwd, panic>>

OldCwd(p) == <<cwd[p]>>

ChdirIp(p) ==
    LET i == c[p].cur
    IN /\ At(p, "chdir_ip") /\ CanLock(i)
       /\ itable' = [itable EXCEPT ![i] = Loaded(i)]
       /\ IF Loaded(i).type = "dir"
          THEN cwd' = [cwd EXCEPT ![p] = i] /\ Returns(p, OldCwd(p))
          ELSE Returns(p, <<i>>) /\ UNCHANGED cwd
       /\ UNCHANGED <<dinode, lock, panic, opened>>
-----------------------------------------------------------------------------
(***************************************************************************)
(* The last close(), fork() and exit().                                    *)
(***************************************************************************)
Close(p) ==
    /\ At(p, "idle") /\ opened[p] # None
    /\ opened' = [opened EXCEPT ![p] = None]
    /\ Locals(p, [puts |-> <<opened[p]>>])
    /\ UNCHANGED <<inodeVars, cwd, panic>>

fork(p, q) ==
    /\ p # Init1 => At(p, "idle")
    /\ At(q, "unused")
    /\ cwd' = [cwd EXCEPT ![q] = cwd[p]]
    /\ itable' = [itable EXCEPT ![cwd[p]].ref = @ + 1]
    /\ Locals(q, [pc |-> "idle"])
    /\ UNCHANGED <<dinode, lock, panic, opened>>

\* exit() leaves the current directory when the files are closed.
exit(p) ==
    /\ At(p, "idle") /\ opened[p] = None
    /\ Locals(p, [pc |-> "unused", puts |-> <<cwd[p]>>])
    /\ cwd' = [cwd EXCEPT ![p] = None]
    /\ UNCHANGED <<inodeVars, panic, opened>>
-----------------------------------------------------------------------------
IputStep(p, i) ==
    /\ IputLast(p, i) \/ IputFree(p, i) \/ IputDrop(p, i)
    /\ UNCHANGED opened

NamexStep(p, i) ==
    /\ NamexFail(p, i) \/ NamexParent(p, i) \/ NamexDescend(p, i)
    /\ UNCHANGED opened

\* The steps that start with an ilock(), which may find that the inode is free.
IlockStep(p) ==
    /\ panic = None /\ c[p].puts = <<>> /\ Wants(p) # None
    /\ lock[Wants(p)] = None
    /\ IF Loaded(Wants(p)).type = "free"
       THEN panic' = "ilock: no type" /\ UNCHANGED <<inodeVars, cwd, c, opened>>
       ELSE \/ \E i \in Inum : NamexStep(p, i)
            \/ LinkIp(p) \/ LinkExists(p) \/ LinkDp(p) \/ LinkBad(p)
            \/ UnlinkDp(p) \/ UnlinkRefused(p) \/ UnlinkIp(p)
            \/ CreateExists(p) \/ CreateFound(p) \/ CreateAlloc(p) \/ CreateNew(p) \/ CreateFails(p)
            \/ OpenIp(p) \/ ChdirIp(p)

Next ==
    \E p \in Proc :
        \/ Start(p) \/ IlockStep(p)
        \/ \E i \in Inum : IputStep(p, i)
        \/ LinkBadDp(p) \/ UnlinkBad(p) \/ UnlinkDrop(p) \/ CreatePut(p) \/ OpenFile(p)
        \/ Close(p) \/ exit(p)
        \/ \E q \in Proc \cup {Init1} : fork(q, p)

Spec == Init /\ [][Next]_vars
-----------------------------------------------------------------------------
Name(d) == DOMAIN dinode[d].ents \ {".", ".."}

\* The types of the variables.
TypeOK ==
    /\ \A i \in Inum : /\ dinode[i].type \in {"free", "dir", "file", "device"}
                       /\ dinode[i].nlink \in Nat
                       /\ Range(dinode[i].ents) \subseteq Inum
    /\ itable \in [Inum -> [ref : Nat, valid : BOOLEAN,
                            type : {"free", "dir", "file", "device"}, nlink : Nat]]
    /\ lock \in [Inum -> Proc \cup {None}]
    /\ cwd \in [Proc \cup {Init1} -> Inum \cup {None}]
    /\ opened \in [Proc -> Inum \cup {None}]
    /\ \A p \in Proc : c[p].puts \in Seq(Inum) /\ {c[p].cur, c[p].ip} \subseteq Inum \cup {None}

\* The pointers to the table entry of an inode.
Pointers(i) ==
    {<<"cwd", p>> : p \in {q \in DOMAIN cwd : cwd[q] = i}}
    \cup {<<"file", p>> : p \in {q \in Proc : opened[q] = i}}
    \cup {<<"cur", p>> : p \in {q \in Proc : c[q].cur = i}}
    \cup {<<"ip", p>> : p \in {q \in Proc : c[q].ip = i}}
    \cup UNION {{<<"put", p, k>> : k \in {j \in DOMAIN c[p].puts : c[p].puts[j] = i}} : p \in Proc}

\* fs.c: "ip->ref tracks the number of in-memory pointers to the entry".  No call,
\* whatever fails in it and whoever runs beside it, loses or forgets a reference.
RefExact == \A i \in Inum : itable[i].ref = Cardinality(Pointers(i))

\* A valid copy agrees with the disk, and what is open or a current directory, or
\* locked, is allocated: iput() frees no inode that another process still uses,
\* although it lets go of itable.lock before it does.
InUseIsAllocated ==
    /\ \A i \in Inum : itable[i].valid =>
           itable[i].type = dinode[i].type /\ itable[i].nlink = dinode[i].nlink
    /\ \A p \in DOMAIN cwd : cwd[p] # None => itable[cwd[p]].valid /\ dinode[cwd[p]].type = "dir"
    /\ \A p \in Proc : opened[p] # None => itable[opened[p]].valid /\ dinode[opened[p]].type # "free"

\* The entries that name an inode: each a directory and a name in it.
EntriesOf(i) == {e \in Inum \X UNION {Name(d) : d \in Inum} :
                    e[2] \in Name(e[1]) /\ dinode[e[1]].ents[e[2]] = i}

\* The names of the directories inside one.
Subdirs(d) == {n \in Name(d) : dinode[dinode[d].ents[n]].type = "dir"}

\* Every entry, and every subdirectory's "..", is covered by the link count of the
\* inode it names: sys_link() counts before it enters, sys_unlink() after, and
\* failures in between take back no more than was counted.  An inode whose count
\* is 0 therefore has no name.
LinksCovered == \A i \in Inum :
    dinode[i].nlink >= Cardinality(EntriesOf(i)) + Cardinality(Subdirs(i))

\* No set of processes waits for inode locks that they hold themselves: unlink()
\* and create() lock a directory and then an inode in it, and no lookup, of ".."
\* in particular, holds one inode while it locks the next.
NoLockCycle ==
    ~ \E S \in (SUBSET Proc) \ {{}} : \A p \in S :
        Wants(p) # None /\ lock[Wants(p)] \in S

\* fs.c, in iput(): "ip->ref == 1 means no other process can have ip locked, so
\* this acquiresleep() won't block (or deadlock)".
IputNeverBlocks ==
    \A p \in Proc, i \in Inum : Putting(p, i, "test") /\ LastUse(i) => lock[i] = None

\* No panic().  (The code can reach one, see ilock().)
NoPanic == panic = None

\* The one panic() that calls may reach is iget()'s, when more inodes are used at
\* once than the table has entries: ilock() finds no free inode, and sys_unlink()
\* none without a link.
OnlyTableFull == panic \in {None, "iget: no inodes"}

\* The counts that decide when iput() frees an inode are right: ip->ref is exact,
\* and ip->nlink covers every name.
CountsExact == TypeOK /\ OnlyTableFull /\ RefExact /\ LinksCovered

\* Nobody waits for an inode's lock for ever: the lock order has no cycle, and
\* iput(), which holds other locks, finds the lock it takes free.
NoDeadlock == NoLockCycle /\ IputNeverBlocks

\* The calls, whatever their interleaving, change the tree as NameSpace says.
NS == INSTANCE NameSpace WITH
    kind  <- [i \in Inum |-> dinode[i].type],
    tree  <- [i \in Inum |-> Restrict(dinode[i].ents, Name(i))],
    inUse <- (Range(cwd) \cup Range(opened)) \ {None}

ImplementsNameSpace == NS!Spec
=============================================================================
