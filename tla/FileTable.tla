----------------------------- MODULE FileTable -----------------------------
(***************************************************************************)
(* kernel/file.c and the part of kernel/sysfile.c about descriptors: the   *)
(* table of open files, the descriptors of each process, and what dup(),   *)
(* close(), pipe(), fork() and exit() do to them.                          *)
(*                                                                         *)
(* ftable.lock is never held across another lock: each of its sections is  *)
(* a step, with the code around it that touches only the descriptors of    *)
(* the caller.  Pipe has what pipeclose() does, FileTree what iput() does. *)
(***************************************************************************)
EXTENDS Naturals, FiniteSets, FiniteSetsExt, TLC

CONSTANTS Proc, Inum,
          File,    \* entries of ftable
          FD,      \* descriptors of a process
          None

ASSUME FilesAssumption ==
    /\ IsFiniteSet(Proc) /\ IsFiniteSet(FD)
    /\ File \subseteq Nat /\ FD \subseteq Nat
    /\ None \notin Proc \cup Inum \cup File \cup FD

VARIABLES
    file,      \* struct file: ref, type, ip, off
    ofile,     \* p->ofile
    pc,        \* where each process is
    held,      \* f of open(), rf and wf of pipe(), until a descriptor has them
    fds,       \* fd0 and fd1 of pipe()
    np         \* the child of fork()

tableVars == <<file, ofile, held, fds, np>>

None2 == <<None, None>>

NoFile == [ref |-> 0, type |-> "none", ip |-> None, off |-> 0]

TableInit ==
    /\ file = [f \in File |-> NoFile]
    /\ ofile = [p \in Proc |-> [fd \in FD |-> None]]
    /\ pc \in {[p \in Proc |-> IF p = q THEN "user" ELSE "unused"] : q \in Proc}
    /\ held = [p \in Proc |-> None2] /\ fds = [p \in Proc |-> None2]
    /\ np = [p \in Proc |-> None]

Goto(p, l) == pc' = [pc EXCEPT ![p] = l]

\* filealloc() and fdalloc() take the first that is free.
FreeFiles  == {f \in File : file[f].ref = 0}
FreeFds(p) == {fd \in FD : ofile[p][fd] = None}
-----------------------------------------------------------------------------
\* sys_open(), the inode being locked: a file and a descriptor, ...
OpenFile(p, i) ==
    /\ pc[p] = "user" /\ FreeFiles # {} /\ FreeFds(p) # {}
    /\ file' = [file EXCEPT ![Min(FreeFiles)] = [NoFile EXCEPT !.ref = 1, !.type = "inode", !.ip = i]]
    /\ ofile' = [ofile EXCEPT ![p][Min(FreeFds(p))] = Min(FreeFiles)]
    /\ UNCHANGED <<pc, held, fds, np>>

\* filealloc(), whose file is the k-th that p holds.
filealloc(p, k) ==
    /\ FreeFiles # {}
    /\ file' = [file EXCEPT ![Min(FreeFiles)].ref = 1]
    /\ held' = [held EXCEPT ![p][k] = Min(FreeFiles)]
    /\ UNCHANGED <<ofile, fds, np>>

\* ... or no descriptor: the file is to be closed.  The lock of the inode, which
\* open() lets go after that, is left out.
OpenFails(p) ==
    /\ pc[p] = "user" /\ FreeFds(p) = {}
    /\ filealloc(p, 1)
    /\ Goto(p, "bad")

sys_dup(p, fd) ==
    /\ pc[p] = "user" /\ ofile[p][fd] # None /\ FreeFds(p) # {}
    /\ ofile' = [ofile EXCEPT ![p][Min(FreeFds(p))] = ofile[p][fd]]
    /\ file' = [file EXCEPT ![ofile[p][fd]].ref = @ + 1]
    /\ UNCHANGED <<pc, held, fds, np>>

fileclose(f) ==
    IF file[f].ref > 1 THEN [file EXCEPT ![f].ref = @ - 1] ELSE [file EXCEPT ![f] = NoFile]

\* sys_close(), and the loop of exit(), in which the lowest is closed first.
sys_close(p, fd) ==
    /\ pc[p] \in {"user", "exit"} /\ ofile[p][fd] # None
    /\ pc[p] = "exit" => \A e \in FD : e < fd => ofile[p][e] = None
    /\ ofile' = [ofile EXCEPT ![p][fd] = None]
    /\ file' = fileclose(ofile[p][fd])
    /\ UNCHANGED <<pc, held, fds, np>>

-----------------------------------------------------------------------------
(***************************************************************************)
(* sys_pipe(): pipealloc() takes two files and a page, each file gets a    *)
(* descriptor, and both descriptors are copied to the user.                *)
(***************************************************************************)
sys_pipe(p) == pc[p] = "user" /\ filealloc(p, 1) /\ Goto(p, "pipe")

PipeSecond(p) == pc[p] = "pipe" /\ filealloc(p, 2) /\ Goto(p, "pipealloc")

PipeAlloc(p) ==
    /\ pc[p] = "pipealloc"
    /\ file' = [f \in File |-> IF f \in {held[p][1], held[p][2]}
                               THEN [file[f] EXCEPT !.type = "pipe"] ELSE file[f]]
    /\ Goto(p, "pipefd")
    /\ UNCHANGED <<ofile, held, fds, np>>

\* fdalloc() for the first file, then for the second.
PipeFd(p, k) ==
    /\ pc[p] = "pipefd" /\ FreeFds(p) # {}
    /\ held[p][k] # None /\ (k = 2 => held[p][1] = None)
    /\ ofile' = [ofile EXCEPT ![p][Min(FreeFds(p))] = held[p][k]]
    /\ held' = [held EXCEPT ![p][k] = None]
    /\ fds' = [fds EXCEPT ![p][k] = Min(FreeFds(p))]
    /\ UNCHANGED <<file, pc, np>>

PipeDone(p) ==
    /\ pc[p] = "pipefd" /\ held[p] = None2
    /\ fds' = [fds EXCEPT ![p] = None2]
    /\ Goto(p, "user")
    /\ UNCHANGED <<file, ofile, held, np>>

\* There is no second file or no page, ...
PipeNoMemory(p) ==
    /\ \/ pc[p] = "pipe" /\ FreeFiles = {}
       \/ pc[p] = "pipealloc"
    /\ Goto(p, "bad")
    /\ UNCHANGED tableVars

\* Mutant: the first descriptor keeps its file.
PipeFails_KeepsFd(p) ==
    /\ pc[p] = "pipefd"
    /\ held[p] # None2 => FreeFds(p) = {}
    /\ ofile' = [ofile EXCEPT ![p] = [fd \in FD |-> IF fd = fds[p][2] THEN None ELSE ofile[p][fd]]]
    /\ held' = [held EXCEPT ![p] = [k \in 1 .. 2 |->
                   IF fds[p][k] = None THEN held[p][k] ELSE ofile[p][fds[p][k]]]]
    /\ fds' = [fds EXCEPT ![p] = None2]
    /\ Goto(p, "bad")
    /\ UNCHANGED <<file, np>>

\* ... or no descriptor, or copyout() fails: those that were set are cleared.
PipeFails(p) ==
    /\ pc[p] = "pipefd"
    /\ held[p] # None2 => FreeFds(p) = {}
    /\ ofile' = [ofile EXCEPT ![p] = [fd \in FD |->
                   IF fd \in {fds[p][1], fds[p][2]} THEN None ELSE ofile[p][fd]]]
    /\ held' = [held EXCEPT ![p] = [k \in 1 .. 2 |->
                   IF fds[p][k] = None THEN held[p][k] ELSE ofile[p][fds[p][k]]]]
    /\ fds' = [fds EXCEPT ![p] = None2]
    /\ Goto(p, "bad")
    /\ UNCHANGED <<file, np>>

\* Both files are closed, one after the other; open() has one.
CloseHeld(p, k) ==
    /\ pc[p] = "bad" /\ held[p][k] # None /\ (k = 2 => held[p][1] = None)
    /\ file' = fileclose(held[p][k])
    /\ held' = [held EXCEPT ![p][k] = None]
    /\ UNCHANGED <<ofile, fds, pc, np>>

BadReturns(p) ==
    /\ pc[p] = "bad" /\ held[p] = None2
    /\ Goto(p, "user")
    /\ UNCHANGED tableVars
-----------------------------------------------------------------------------
(***************************************************************************)
(* fork() and exit().                                                      *)
(***************************************************************************)
fork(p, q) ==
    /\ pc[p] = "user" /\ pc[q] = "unused"
    /\ pc' = [pc EXCEPT ![p] = "fork", ![q] = "embryo"]
    /\ np' = [np EXCEPT ![p] = q]
    /\ UNCHANGED <<file, ofile, held, fds>>

\* The descriptors that the child does not have yet.
ToShare(p) == {fd \in FD : ofile[p][fd] # None /\ ofile[np[p]][fd] = None}

\* Mutant: the child shares the file without filedup().
filedup_Uncounted(f) == file

filedup(f) == [file EXCEPT ![f].ref = @ + 1]

\* The next turn of the loop over the descriptors; the child does not run yet.
ForkDup(p) ==
    LET fd == Min(ToShare(p))
    IN /\ pc[p] = "fork" /\ ToShare(p) # {}
       /\ file' = filedup(ofile[p][fd])
       /\ ofile' = [ofile EXCEPT ![np[p]][fd] = ofile[p][fd]]
       /\ UNCHANGED <<pc, held, fds, np>>

ForkDone(p) ==
    /\ pc[p] = "fork" /\ ToShare(p) = {}
    /\ pc' = [pc EXCEPT ![p] = "user", ![np[p]] = "user"]
    /\ np' = [np EXCEPT ![p] = None]
    /\ UNCHANGED <<file, ofile, held, fds>>

\* exit(), when another process is left.
exit(p) ==
    /\ pc[p] = "user" /\ \E q \in Proc : pc[q] \notin {"unused", "exit"} /\ q # p
    /\ Goto(p, "exit")
    /\ UNCHANGED tableVars

ExitDone(p) ==
    /\ pc[p] = "exit" /\ \A fd \in FD : ofile[p][fd] = None
    /\ Goto(p, "unused")
    /\ UNCHANGED tableVars

TableNext(p) ==
    \/ OpenFails(p) \/ BadReturns(p) \/ exit(p) \/ ExitDone(p)
    \/ sys_pipe(p) \/ PipeSecond(p) \/ PipeAlloc(p) \/ PipeDone(p)
    \/ PipeNoMemory(p) \/ PipeFails(p)
    \/ \E k \in 1 .. 2 : PipeFd(p, k) \/ CloseHeld(p, k)
    \/ \E fd \in FD : sys_dup(p, fd) \/ sys_close(p, fd)
    \/ \E q \in Proc : fork(p, q)
    \/ ForkDup(p) \/ ForkDone(p)
-----------------------------------------------------------------------------
\* A file's count is the number of descriptors that refer to it, in all processes,
\* and of the calls that hold it, at every step of dup(), fork() and exit() and of
\* the failures of open() and pipe(): no file is reused while a descriptor is
\* left, and none is lost.
FileRefExact ==
    \A f \in File : file[f].ref =
        Cardinality({x \in Proc \X FD : ofile[x[1]][x[2]] = f})
        + Cardinality({x \in Proc \X (1 .. 2) : held[x[1]][x[2]] = f})
=============================================================================
