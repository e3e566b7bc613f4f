-------------------------------- MODULE Log --------------------------------
(***************************************************************************)
(* The file system log of kernel/log.c: system calls that share a          *)
(* transaction, group commit by the last one to end, a crash between any   *)
(* two disk writes, and recovery at the next boot, which may itself be cut *)
(* short.                                                                  *)
(*                                                                         *)
(* A step ends at a disk write (bwrite() waits for the device, so disk     *)
(* writes happen in program order) or at a release of log.lock.  A disk    *)
(* block is written entirely or not at all.  The buffer cache is modelled  *)
(* as far as the log depends on it: a block is cached or not, and bget()   *)
(* may recycle the buffer of any block that is not pinned.                 *)
(***************************************************************************)
EXTENDS Naturals, Sequences, FiniteSets

CONSTANTS
    Proc,          \* the processes that make file system calls
    Block,         \* the home blocks of the disk
    Val,           \* what a block may contain
    MAXOPBLOCKS, LOGSIZE,
    NLog,          \* sb->nlog: header and data blocks of the log on disk
    OpBlocks,      \* bound: the distinct blocks one system call writes
    Absent         \* the block has no buffer

ASSUME LogAssumption ==
    /\ MAXOPBLOCKS \in Nat \ {0} /\ LOGSIZE \in Nat /\ NLog \in Nat
    /\ MAXOPBLOCKS < LOGSIZE /\ LOGSIZE <= NLog   \* param.h, mkfs.c
    /\ OpBlocks \in 0 .. MAXOPBLOCKS
    /\ Val # {} /\ Absent \notin Val

VARIABLES
    disk,         \* home blocks on disk
    logblk,       \* data blocks of the log on disk
    head,         \* header block of the log on disk
    cache, pin,   \* buffers of the home blocks; references held by the log
    lh,           \* log.lh
    outstanding, committing,
    boot,         \* how far initlog() has got: "head", "install" or "up"
    tail,         \* loop variable of write_log() and install_trans()
    pc, wrote     \* of each process; the blocks its system call has written

ondisk == <<disk, logblk, head>>
vars == <<disk, logblk, head, cache, pin, lh, outstanding, committing,
          boot, tail, pc, wrote>>

PC == {"down", "idle", "asleep", "woken", "op",
       "writelog", "install", "finish", "panic"}

\* What bread() returns for block b.
bread(b) == IF cache[b] = Absent THEN disk[b] ELSE cache[b]

InLog(s, b) == \E i \in DOMAIN s : s[i] = b

Goto(p, to) == pc' = [pc EXCEPT ![p] = to]

\* wakeup(&log), by p, which goes on at "to".
WakeupLog(p, to) ==
    pc' = [q \in Proc |-> IF q = p THEN to
                          ELSE IF pc[q] = "asleep" THEN "woken" ELSE pc[q]]

\* Memory as a crash leaves it: nothing, until initlog() has run.
Volatile ==
    /\ cache' = [b \in Block |-> Absent]
    /\ pin'   = [b \in Block |-> 0]
    /\ lh'    = <<>>
    /\ outstanding' = 0
    /\ committing'  = FALSE
    /\ boot'  = "head"
    /\ tail'  = 1
    /\ pc'    = [p \in Proc |-> "down"]
    /\ wrote' = [p \in Proc |-> {}]

\* A disk made by mkfs, before the first boot.
Init ==
    /\ disk   \in [Block -> Val]
    /\ logblk = [i \in 1 .. NLog - 1 |-> CHOOSE v \in Val : TRUE]
    /\ head   = <<>>
    /\ cache  = [b \in Block |-> Absent]
    /\ pin    = [b \in Block |-> 0]
    /\ lh     = <<>>
    /\ outstanding = 0
    /\ committing  = FALSE
    /\ boot   = "head"
    /\ tail   = 1
    /\ pc     = [p \in Proc |-> "down"]
    /\ wrote  = [p \in Proc |-> {}]
-----------------------------------------------------------------------------
(***************************************************************************)
(* initlog(), recover_from_log(): read the header, copy what it lists from *)
(* the log to the home blocks, erase the header.                           *)
(***************************************************************************)
RecoverHead ==
    /\ boot = "head"
    /\ lh'   = head
    /\ tail' = 1
    /\ boot' = "install"
    /\ UNCHANGED <<ondisk, cache, pin, outstanding, committing, pc, wrote>>

RecoverInstall ==
    /\ boot = "install" /\ tail <= Len(lh)
    /\ cache' = [cache EXCEPT ![lh[tail]] = logblk[tail]]
    /\ disk'  = [disk EXCEPT ![lh[tail]] = logblk[tail]]
    /\ tail'  = tail + 1
    /\ UNCHANGED <<logblk, head, pin, lh, outstanding, committing, boot, pc, wrote>>

RecoverClear ==
    /\ boot = "install" /\ tail > Len(lh)
    /\ lh'   = <<>>
    /\ head' = <<>>
    /\ tail' = 1
    /\ boot' = "up"
    /\ pc'   = [p \in Proc |-> "idle"]
    /\ UNCHANGED <<disk, logblk, cache, pin, outstanding, committing, wrote>>
-----------------------------------------------------------------------------
(***************************************************************************)
(* begin_op().                                                             *)
(***************************************************************************)
\* Mutant: the room for the calling operation is not reserved.
MustWait_OffByOne == committing \/ Len(lh) + outstanding * MAXOPBLOCKS > LOGSIZE

MustWait ==
    \/ committing
    \/ Len(lh) + (outstanding + 1) * MAXOPBLOCKS > LOGSIZE

BeginOpSleep(p) ==
    /\ pc[p] \in {"idle", "woken"}
    /\ MustWait
    /\ Goto(p, "asleep")
    /\ UNCHANGED <<ondisk, cache, pin, lh, outstanding, committing, boot, tail, wrote>>

BeginOp(p) ==
    /\ pc[p] \in {"idle", "woken"}
    /\ ~MustWait
    /\ outstanding' = outstanding + 1
    /\ Goto(p, "op")
    /\ UNCHANGED <<ondisk, cache, pin, lh, committing, boot, tail, wrote>>

(***************************************************************************)
(* A system call reads block b, changes it and calls log_write() while it  *)
(* holds the buffer.                                                       *)
(***************************************************************************)
LogFull == Len(lh) >= LOGSIZE \/ Len(lh) >= NLog - 1

log_write(p, b, v) ==
    /\ pc[p] = "op"
    /\ b \in wrote[p] \/ Cardinality(wrote[p]) < OpBlocks
    /\ cache' = [cache EXCEPT ![b] = v]
    /\ IF LogFull \/ outstanding < 1
       THEN Goto(p, "panic") /\ UNCHANGED <<lh, pin, wrote>>
       ELSE /\ wrote' = [wrote EXCEPT ![p] = @ \cup {b}]
            /\ lh'  = IF InLog(lh, b) THEN lh ELSE Append(lh, b)
            /\ pin' = IF InLog(lh, b) THEN pin ELSE [pin EXCEPT ![b] = @ + 1]
            /\ UNCHANGED pc
    /\ UNCHANGED <<ondisk, outstanding, committing, boot, tail>>

(***************************************************************************)
(* end_op(): the last call to end commits.                                 *)
(***************************************************************************)
EndOp(p) ==
    /\ pc[p] = "op"
    /\ outstanding' = outstanding - 1
    /\ wrote' = [wrote EXCEPT ![p] = {}]
    /\ IF committing
       THEN Goto(p, "panic") /\ UNCHANGED <<committing, tail>>
       ELSE IF outstanding' = 0
       THEN /\ committing' = TRUE
            /\ tail' = 1
            /\ Goto(p, IF lh = <<>> THEN "finish" ELSE "writelog")
       ELSE WakeupLog(p, "idle") /\ UNCHANGED <<committing, tail>>
    /\ UNCHANGED <<ondisk, cache, pin, lh, boot>>

\* write_log(): one block from the cache to the log.
WriteLog(p) ==
    /\ pc[p] = "writelog" /\ tail <= Len(lh)
    /\ cache'  = [cache EXCEPT ![lh[tail]] = bread(lh[tail])]
    /\ logblk' = [logblk EXCEPT ![tail] = bread(lh[tail])]
    /\ tail'   = tail + 1
    /\ UNCHANGED <<disk, head, pin, lh, outstanding, committing, boot, pc, wrote>>

\* Mutant: the header may be written before all blocks are in the log.
WriteHead_Early(p) ==
    /\ pc[p] = "writelog"
    /\ head' = lh
    /\ tail' = 1
    /\ Goto(p, "install")
    /\ UNCHANGED <<disk, logblk, cache, pin, lh, outstanding, committing, boot, wrote>>

\* write_head(): the commit.
WriteHead(p) ==
    /\ pc[p] = "writelog" /\ tail > Len(lh)
    /\ head' = lh
    /\ tail' = 1
    /\ Goto(p, "install")
    /\ UNCHANGED <<disk, logblk, cache, pin, lh, outstanding, committing, boot, wrote>>

\* install_trans(0): one block from the log to its home.
Install(p) ==
    /\ pc[p] = "install" /\ tail <= Len(lh)
    /\ cache' = [cache EXCEPT ![lh[tail]] = logblk[tail]]
    /\ disk'  = [disk EXCEPT ![lh[tail]] = logblk[tail]]
    /\ pin'   = [pin EXCEPT ![lh[tail]] = @ - 1]
    /\ tail'  = tail + 1
    /\ UNCHANGED <<logblk, head, lh, outstanding, committing, boot, pc, wrote>>

\* The transaction is erased from the log.
ClearHead(p) ==
    /\ pc[p] = "install" /\ tail > Len(lh)
    /\ lh'   = <<>>
    /\ head' = <<>>
    /\ tail' = 1
    /\ Goto(p, "finish")
    /\ UNCHANGED <<disk, logblk, cache, pin, outstanding, committing, boot, wrote>>

\* Mutant: nobody is woken after a commit.
CommitDone_NoWakeup(p) ==
    /\ pc[p] = "finish"
    /\ committing' = FALSE
    /\ Goto(p, "idle")
    /\ UNCHANGED <<ondisk, cache, pin, lh, outstanding, boot, tail, wrote>>

\* Mutant: log.committing stays set.
CommitDone_StaysCommitting(p) ==
    /\ pc[p] = "finish"
    /\ Goto(p, "idle")
    /\ UNCHANGED <<ondisk, cache, pin, lh, outstanding, committing, boot, tail, wrote>>

CommitDone(p) ==
    /\ pc[p] = "finish"
    /\ committing' = FALSE
    /\ WakeupLog(p, "idle")
    /\ UNCHANGED <<ondisk, cache, pin, lh, outstanding, boot, tail, wrote>>
-----------------------------------------------------------------------------
(***************************************************************************)
(* The buffer cache: a block is read, inside or outside of a system call   *)
(* that uses the log, or the buffer of a block is recycled.                *)
(***************************************************************************)
Load(b) ==
    /\ boot = "up" /\ cache[b] = Absent
    /\ cache' = [cache EXCEPT ![b] = disk[b]]
    /\ UNCHANGED <<ondisk, pin, lh, outstanding, committing, boot, tail, pc, wrote>>

Evict(b) ==
    /\ cache[b] # Absent /\ pin[b] = 0
    /\ cache' = [cache EXCEPT ![b] = Absent]
    /\ UNCHANGED <<ondisk, pin, lh, outstanding, committing, boot, tail, pc, wrote>>

Crash == boot # "head" /\ Volatile /\ UNCHANGED ondisk

Recover == RecoverHead \/ RecoverInstall \/ RecoverClear

Commit(p) == WriteLog(p) \/ WriteHead(p) \/ Install(p) \/ ClearHead(p) \/ CommitDone(p)

Call(p) ==
    \/ BeginOpSleep(p) \/ BeginOp(p)
    \/ \E b \in Block, v \in Val : log_write(p, b, v)
    \/ EndOp(p)

Next ==
    \/ Recover
    \/ \E p \in Proc : Call(p) \/ Commit(p)
    \/ \E b \in Block : Load(b) \/ Evict(b)
    \/ Crash

Spec == Init /\ [][Next]_vars

(***************************************************************************)
(* Recovery and commits go on, system calls end, and a process that was    *)
(* woken looks again at the log.                                           *)
(***************************************************************************)
Fairness ==
    /\ WF_vars(Recover)
    /\ \A p \in Proc :
          /\ WF_vars(Commit(p)) /\ WF_vars(EndOp(p))
          /\ WF_vars(pc[p] = "woken" /\ (BeginOp(p) \/ BeginOpSleep(p)))

FairSpec == Spec /\ Fairness
-----------------------------------------------------------------------------
TypeOK ==
    /\ disk   \in [Block -> Val]
    /\ logblk \in [1 .. NLog - 1 -> Val]
    /\ head   \in Seq(Block)
    /\ cache  \in [Block -> Val \cup {Absent}]
    /\ pin    \in [Block -> Nat]
    /\ lh     \in Seq(Block)
    /\ outstanding \in Nat
    /\ committing  \in BOOLEAN
    /\ boot   \in {"head", "install", "up"}
    /\ tail   \in Nat
    /\ pc     \in [Proc -> PC]
    /\ wrote  \in [Proc -> SUBSET Block]

\* No panic() of log.c is reached: a transaction never outgrows the log that
\* begin_op() reserved space in, and nobody is inside a system call while the
\* log commits.
NoPanic == \A p \in Proc : pc[p] # "panic"

\* Who sleeps in begin_op() will be woken: a system call is in progress that
\* will end, or a commit that will finish.
SleeperHasWaker ==
    (\E p \in Proc : pc[p] = "asleep") => outstanding > 0 \/ committing

\* Every bpin() of log_write() is undone by the commit: absorption pins a
\* block once, and no buffer stays pinned when the log is empty.
PinsReleased ==
    boot = "up" /\ lh = <<>> => \A b \in Block : pin[b] = 0

\* The log's book-keeping between its disk writes, across crashes: a sleeper in
\* begin_op() has somebody to wake it, and pins do not outlive their commit.
LogInv == TypeOK /\ SleeperHasWaker /\ PinsReleased

\* A process that sleeps in begin_op() is woken.
SleeperWakes == \A p \in Proc : pc[p] = "asleep" ~> pc[p] # "asleep"

\* The blocks that recovery would produce from what is on disk now.
Recovered(b) ==
    IF InLog(head, b) THEN logblk[CHOOSE i \in DOMAIN head : head[i] = b] ELSE disk[b]

Memory == [b \in Block |-> IF boot = "up" THEN bread(b) ELSE Recovered(b)]
Stable == [b \in Block |-> Recovered(b)]
Active == {p \in Proc : pc[p] = "op"}

A == INSTANCE AtomicDisk WITH
        Op <- Proc, mem <- Memory, stable <- Stable, active <- Active

\* Whatever the crashes, also during recovery: the disk comes back with all
\* changes of the transactions that were committed and nothing of the one
\* that was not, and the cache never loses a change in between.
ImplementsAtomicDisk == A!AtomicSpec
=============================================================================
