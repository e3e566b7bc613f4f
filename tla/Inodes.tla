------------------------------- MODULE Inodes -------------------------------
(***************************************************************************)
(* kernel/fs.c: the inodes on the disk, the table of inodes in memory, and *)
(* the lookup of path names.                                               *)
(*                                                                         *)
(* iget() finds or makes a table entry under itable.lock, so an inode has  *)
(* at most one, and the model names the entry by the inode number; the     *)
(* fields of an entry nobody refers to are never read and are reset.  What *)
(* a process does between ilock() and iunlock() is one step where it takes *)
(* no other lock on the way.  Every call here is inside a transaction; see *)
(* Log for those.  A directory's content is a function from names to inode *)
(* numbers, and a file has none.                                           *)
(***************************************************************************)
EXTENDS Naturals, Sequences, FiniteSets, Functions

CONSTANTS Proc,
          Inum,      \* 1 .. sb.ninodes - 1
          NINODE,    \* entries of the inode table
          None

ROOTINO == 1

ASSUME InodesAssumption ==
    /\ Inum \subseteq Nat \ {0} /\ ROOTINO \in Inum /\ NINODE \in Nat
    /\ IsFiniteSet(Inum) /\ IsFiniteSet(Proc)
    /\ None \notin Proc \cup Inum

VARIABLES
    dinode,   \* on disk: type, nlink, and the entries of a directory
    itable,   \* in memory: ref, valid, and the copies of type and nlink
    lock,     \* who holds ip->lock
    cwd,      \* of each process
    c,        \* the local variables of each process's system call
    panic     \* what panic() said, or None

inodeVars == <<dinode, itable, lock>>

(***************************************************************************)
(* Where the call is; the path still to walk and the inode reached; the    *)
(* other inode of the call; the second path of link(); and the inodes      *)
(* whose iput() is under way, with the place in the first.                 *)
(***************************************************************************)
NoCall == [pc |-> "idle", op |-> None, path |-> <<>>, cur |-> None, ip |-> None,
           new |-> None, puts |-> <<>>, put |-> "test"]

Free    == [type |-> "free", nlink |-> 0, ents |-> <<>>]
NoEntry == [ref |-> 0, valid |-> FALSE, type |-> "free", nlink |-> 0]

\* The entries of a directory with one for inode i more; those of an empty one.
Entered(ents, name, i) ==
    [n \in DOMAIN ents \cup {name} |-> IF n = name THEN i ELSE ents[n]]
Dots(i, parent) == Entered(Entered(<<>>, "..", parent), ".", i)

\* The disk mkfs makes.
RootDir == [type |-> "dir", nlink |-> 1, ents |-> Dots(ROOTINO, ROOTINO)]

\* The process runs, and no iput() of its is unfinished.
At(p, pc) == panic = None /\ c[p].pc = pc /\ c[p].puts = <<>>

\* The process's local variables after a step: those of r change.
Updated(s, r) == [f \in DOMAIN s |-> IF f \in DOMAIN r THEN r[f] ELSE s[f]]
Locals(p, r)  == c' = [c EXCEPT ![p] = Updated(@, r)]

\* The same when only those of r are used again.
Only(p, r) == c' = [c EXCEPT ![p] = Updated(NoCall, r)]

Holds(p, i) == lock[i] = p

\* iget() of an inode that has no entry yet needs a free one.
IgetPanics(i) ==
    itable[i].ref = 0 /\ Cardinality({j \in Inum : itable[j].ref > 0}) >= NINODE

\* The table entry as ilock() leaves it: read from the disk if it was not.
Loaded(i) ==
    IF itable[i].valid THEN itable[i]
    ELSE [itable[i] EXCEPT !.valid = TRUE, !.type = dinode[i].type, !.nlink = dinode[i].nlink]

\* ilock(i) returns; otherwise it sleeps or panics.
CanLock(i) == lock[i] = None /\ Loaded(i).type # "free"
-----------------------------------------------------------------------------
(***************************************************************************)
(* iput() of the first of c[p].puts.                                       *)
(***************************************************************************)
LastUse(i) == itable[i].ref = 1 /\ itable[i].valid /\ itable[i].nlink = 0

Putting(p, i, at) ==
    panic = None /\ c[p].puts # <<>> /\ i = Head(c[p].puts) /\ c[p].put = at

\* The last reference to an inode without links: lock it, let go of itable.lock.
IputLast(p, i) ==
    /\ Putting(p, i, "test") /\ LastUse(i) /\ lock[i] = None
    /\ lock' = [lock EXCEPT ![i] = p]
    /\ Locals(p, [put |-> "free"])
    /\ UNCHANGED <<dinode, itable, cwd, panic>>

\* Mutant: ip->valid is not cleared.
Freed_StillValid(i) == [NoEntry EXCEPT !.ref = itable[i].ref, !.valid = TRUE]

Freed(i) == [NoEntry EXCEPT !.ref = itable[i].ref]

\* itrunc(), type = 0, iupdate(), valid = 0, releasesleep().
IputFree(p, i) ==
    /\ Putting(p, i, "free")
    /\ dinode' = [dinode EXCEPT ![i] = Free]
    /\ itable' = [itable EXCEPT ![i] = Freed(i)]
    /\ lock' = [lock EXCEPT ![i] = None]
    /\ Locals(p, [put |-> "drop"])
    /\ UNCHANGED <<cwd, panic>>

\* ref--; the entry is free when it was the last.
Dropped(e) == IF e.ref = 1 THEN NoEntry ELSE [e EXCEPT !.ref = @ - 1]

\* At once, or after the inode has been freed.
IputDrop(p, i) ==
    /\ \/ Putting(p, i, "test") /\ ~LastUse(i)
       \/ Putting(p, i, "drop")
    /\ itable' = [itable EXCEPT ![i] = Dropped(@)]
    /\ Locals(p, [puts |-> Tail(c[p].puts), put |-> "test"])
    /\ UNCHANGED <<dinode, lock, cwd, panic>>
-----------------------------------------------------------------------------
(***************************************************************************)
(* namex().  A call that wants the parent of its path stops one level      *)
(* early, with the last element left in c[p].path.                         *)
(***************************************************************************)
WantsParent(op) == op \in {"link_new", "unlink", "mkdir", "mknod", "creat"}

\* Where a call goes on when the lookup succeeds, and when it fails.
After == [link |-> "link_ip", link_new |-> "link_dp", unlink |-> "unlink_dp",
          mkdir |-> "create_dp", mknod |-> "create_dp", creat |-> "create_dp",
          open |-> "open_ip", openw |-> "open_ip", chdir |-> "chdir_ip"]
AfterFailure(op) == IF op = "link_new" THEN "link_bad" ELSE "idle"

\* A lookup starts with iget(ROOTDEV, ROOTINO) or idup(cwd).
StartOf(p, path) == IF path.abs THEN ROOTINO ELSE cwd[p]

\* It is looked up; a path without elements ends there.
Walk(p, op, path, ip, new) ==
    LET i == StartOf(p, path)
    IN CASE path.elems # <<>> ->
            Only(p, [pc |-> "namex", op |-> op, path |-> path.elems, cur |-> i, ip |-> ip, new |-> new])
         [] path.elems = <<>> /\ ~WantsParent(op) ->
            Only(p, [pc |-> After[op], op |-> op, cur |-> i, ip |-> ip, new |-> new])
         [] path.elems = <<>> /\ WantsParent(op) ->
            Only(p, [pc |-> AfterFailure(op), ip |-> ip, puts |-> <<i>>])

\* One element: lock, look it up, unlock.  The inode is no directory, or has no
\* such entry, ...
AtParent(p) == WantsParent(c[p].op) /\ Len(c[p].path) = 1

NamexLocks(p, i) ==
    /\ At(p, "namex") /\ c[p].path # <<>> /\ i = c[p].cur
    /\ CanLock(i)

NamexFail(p, i) ==
    /\ NamexLocks(p, i)
    /\ \/ Loaded(i).type # "dir"
       \/ ~AtParent(p) /\ Head(c[p].path) \notin DOMAIN dinode[i].ents
    /\ itable' = [itable EXCEPT ![i] = Loaded(i)]
    /\ Only(p, [pc |-> AfterFailure(c[p].op), ip |-> c[p].ip, puts |-> <<i>>])
    /\ UNCHANGED <<dinode, lock, cwd, panic>>

\* ... or it is the parent that was asked for, ...
NamexParent(p, i) ==
    /\ NamexLocks(p, i) /\ Loaded(i).type = "dir" /\ AtParent(p)
    /\ itable' = [itable EXCEPT ![i] = Loaded(i)]
    /\ Locals(p, [pc |-> After[c[p].op]])
    /\ UNCHANGED <<dinode, lock, cwd, panic>>

\* ... or the walk goes on at the entry's inode, and this one is put.
NamexDescend(p, i) ==
    /\ NamexLocks(p, i) /\ Loaded(i).type = "dir" /\ ~AtParent(p)
    /\ Head(c[p].path) \in DOMAIN dinode[i].ents
    /\ LET next == dinode[i].ents[Head(c[p].path)]
       IN IF IgetPanics(next)
          THEN panic' = "iget: no inodes" /\ UNCHANGED <<itable, c>>
          ELSE /\ itable' = [itable EXCEPT ![i] = Loaded(i), ![next].ref = @ + 1]
               /\ Locals(p, [pc |-> IF Len(c[p].path) = 1 THEN After[c[p].op] ELSE "namex",
                             cur |-> next, path |-> Tail(c[p].path), puts |-> <<i>>])
               /\ UNCHANGED panic
    /\ UNCHANGED <<dinode, lock, cwd>>
=============================================================================
