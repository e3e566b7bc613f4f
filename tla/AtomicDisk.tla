----------------------------- MODULE AtomicDisk -----------------------------
(***************************************************************************)
(* What the log promises the file system: system calls change the blocks   *)
(* in memory; every so often, when no call is in progress, all changes     *)
(* made so far become stable at once; a crash brings back the blocks as    *)
(* they were made stable last.                                             *)
(***************************************************************************)
CONSTANTS Block, Val, Op

VARIABLES
    mem,      \* the blocks as system calls see them
    stable,   \* the blocks as they would be after a crash
    active    \* the system calls in progress

atomicvars == <<mem, stable, active>>

AtomicInit ==
    /\ mem \in [Block -> Val]
    /\ stable = mem
    /\ active = {}

Begin(o) == o \notin active /\ active' = active \cup {o} /\ UNCHANGED <<mem, stable>>

Write(o, b, v) ==
    /\ o \in active
    /\ mem' = [mem EXCEPT ![b] = v]
    /\ UNCHANGED <<stable, active>>

End(o) == o \in active /\ active' = active \ {o} /\ UNCHANGED <<mem, stable>>

Commit == active = {} /\ stable' = mem /\ UNCHANGED <<mem, active>>

Crash == mem' = stable /\ active' = {} /\ UNCHANGED stable

AtomicNext ==
    \/ \E o \in Op : Begin(o) \/ End(o) \/ \E b \in Block, v \in Val : Write(o, b, v)
    \/ Commit
    \/ Crash

AtomicSpec == AtomicInit /\ [][AtomicNext]_atomicvars
=============================================================================
