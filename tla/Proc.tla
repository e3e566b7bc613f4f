-------------------------------- MODULE Proc --------------------------------
(***************************************************************************)
(* The process table of kernel/proc.c: fork, exit, wait, kill, sleep,      *)
(* wakeup, yield and the per-hart scheduler, with the locks that order     *)
(* them, wait_lock and the lock of each table slot.                        *)
(*                                                                         *)
(* A thread is the kernel thread of a slot; it takes a step only while it  *)
(* is on a hart.  A step runs from one lock acquisition to the next: the   *)
(* code between them touches only what the locks it holds protect, and     *)
(* SpinLock shows that acquire() and release() are atomic.  As in          *)
(* spinlock.h a lock is held by a hart, not by a thread, which is how a    *)
(* thread hands p->lock to the scheduler across swtch().                   *)
(*                                                                         *)
(* Left out because nothing here depends on it: user memory, open files    *)
(* and the current directory, the exit status, names, tracing.             *)
(***************************************************************************)
EXTENDS Naturals, FiniteSets

CONSTANTS
    NPROC,     \* slots of the process table
    CPU,       \* the harts
    MaxPid,    \* bound: fork() is called only while nextpid <= MaxPid
    KillPid,   \* the pids user programs pass to kill()
    FaultPid,  \* the pids of the programs that may raise an exception
    NoCpu,     \* the holder of a free lock
    NoProc     \* a null pointer to a slot

ASSUME ProcAssumption ==
    /\ NPROC \in Nat \ {0}
    /\ MaxPid \in Nat
    /\ KillPid \subseteq Nat
    /\ FaultPid \subseteq Nat
    /\ NoCpu \notin CPU
    /\ NoProc \notin Nat

Slot == 0 .. NPROC - 1

initproc == 0

VARIABLES
    state, parent, chan, killed, pid,   \* the fields of struct proc
    nextpid,
    lock,       \* lock[p]: the hart that holds p->lock
    wait_lock,  \* the hart that holds wait_lock
    cproc,      \* c->proc
    next,       \* the slot at which the scheduler's loop on each hart is
    pc,         \* where the thread of each slot is
    pp,         \* its loop variable over the table, or fork()'s np
    w,          \* the loop variable of wakeup()
    local,      \* kill()'s pid, wait()'s havekids, wakeup()'s chan
    after,      \* where it goes on after yield() or wakeup()
    victims     \* history: the pids given to kill(), or that faulted

fields == <<state, parent, chan, killed, pid, nextpid>>
locks  == <<lock, wait_lock>>
thread == <<pc, pp, w, local, after>>
sched  == <<cproc, next>>
vars   == <<state, parent, chan, killed, pid, nextpid, lock, wait_lock,
            cproc, next, pc, pp, w, local, after, victims>>

State == {"UNUSED", "USED", "SLEEPING", "RUNNABLE", "RUNNING", "ZOMBIE"}

PC == {"none", "forkret", "user", "ret", "preempt", "yielded",
       "fork", "forkcopy", "forkparent", "forkrun",
       "exit", "initpanic", "reparent", "wakeup", "zombie",
       "wait", "waitscan", "waitkilled", "waitsleep", "waitwoken",
       "kill", "schedyield", "schedsleep", "schedexit", "panic"}

\* Where kernel code runs with interrupts enabled.  "initpanic" is the endless
\* loop of panic(), entered by exit() of init with no lock held.
Interruptible == {"ret", "fork", "forkparent", "forkrun", "exit", "initpanic",
                  "wait", "kill"}

(***************************************************************************)
(* The state that userinit() leaves behind: the first process is runnable  *)
(* in slot 0 with pid 1, and the harts enter scheduler().                  *)
(***************************************************************************)
Init ==
    /\ state   = [p \in Slot |-> IF p = initproc THEN "RUNNABLE" ELSE "UNUSED"]
    /\ parent  = [p \in Slot |-> NoProc]
    /\ chan    = [p \in Slot |-> NoProc]
    /\ killed  = [p \in Slot |-> FALSE]
    /\ pid     = [p \in Slot |-> IF p = initproc THEN 1 ELSE 0]
    /\ nextpid = 2
    /\ lock    = [p \in Slot |-> NoCpu]
    /\ wait_lock = NoCpu
    /\ cproc   = [c \in CPU |-> NoProc]
    /\ next    = [c \in CPU |-> 0]
    /\ pc      = [p \in Slot |-> IF p = initproc THEN "forkret" ELSE "none"]
    /\ pp      = [p \in Slot |-> 0]
    /\ w       = [p \in Slot |-> 0]
    /\ local   = [p \in Slot |-> 0]
    /\ after   = [p \in Slot |-> "none"]
    /\ victims = {}

\* Thread p executes on hart c and is at one of the given places.
At(c, p, places) == cproc[c] = p /\ pc[p] \in places

Goto(p, to) == pc' = [pc EXCEPT ![p] = to]

Free(p) == lock[p] = NoCpu

\* p->lock is taken and given back within the step.
BrieflyLocked(p) == Free(p) /\ UNCHANGED lock

\* The slots from i on whose parent is p.
ChildrenFrom(p, i) == {q \in Slot : q >= i /\ parent[q] = p}

First(S) == CHOOSE q \in S : \A r \in S : q <= r

\* Mutant: p->killed survives in the free slot.
freeproc_KeepsKilled(q) ==
    /\ state'  = [state EXCEPT ![q] = "UNUSED"]
    /\ parent' = [parent EXCEPT ![q] = NoProc]
    /\ chan'   = [chan EXCEPT ![q] = NoProc]
    /\ pid'    = [pid EXCEPT ![q] = 0]
    /\ UNCHANGED killed

\* freeproc(): every field of the slot that is modelled is reset.
freeproc(q) ==
    /\ state'  = [state EXCEPT ![q] = "UNUSED"]
    /\ parent' = [parent EXCEPT ![q] = NoProc]
    /\ chan'   = [chan EXCEPT ![q] = NoProc]
    /\ killed' = [killed EXCEPT ![q] = FALSE]
    /\ pid'    = [pid EXCEPT ![q] = 0]
-----------------------------------------------------------------------------
(***************************************************************************)
(* scheduler(): one iteration of the loop over the table.  A runnable slot *)
(* is switched to with its lock held; the thread releases it.              *)
(***************************************************************************)
\* Mutant: the loop starts over after every slot.
NextSlot_Restarts(c) == next' = [next EXCEPT ![c] = 0]

NextSlot(c) == next' = [next EXCEPT ![c] = (next[c] + 1) % NPROC]

SchedulerSkip(c) ==
    /\ cproc[c] = NoProc
    /\ BrieflyLocked(next[c])
    /\ state[next[c]] # "RUNNABLE"
    /\ NextSlot(c)
    /\ UNCHANGED <<fields, wait_lock, thread, cproc, victims>>

SchedulerRun(c) ==
    /\ cproc[c] = NoProc
    /\ Free(next[c])
    /\ state[next[c]] = "RUNNABLE"
    /\ lock'  = [lock EXCEPT ![next[c]] = c]
    /\ state' = [state EXCEPT ![next[c]] = "RUNNING"]
    /\ cproc' = [cproc EXCEPT ![c] = next[c]]
    /\ UNCHANGED <<parent, chan, killed, pid, nextpid, wait_lock, next, thread, victims>>

(***************************************************************************)
(* sched(): its four checks, of which interrupts are off is SpinLock's     *)
(* business, then swtch() into the scheduler, which clears c->proc and     *)
(* releases the lock of the slot it had switched to.                       *)
(***************************************************************************)
SchedOK(c, p) ==
    /\ lock[p] = c
    /\ wait_lock # c /\ \A q \in Slot \ {p} : lock[q] # c
    /\ state[p] # "RUNNING"

Resume(p) == CASE pc[p] = "schedyield" -> "yielded"
               [] pc[p] = "schedsleep" -> "waitwoken"
               [] pc[p] = "schedexit"  -> "none"

Sched(c, p) ==
    /\ At(c, p, {"schedyield", "schedsleep", "schedexit"})
    /\ IF SchedOK(c, p)
       THEN /\ Goto(p, Resume(p))
            /\ cproc' = [cproc EXCEPT ![c] = NoProc]
            /\ lock'  = [lock EXCEPT ![next[c]] = NoCpu]
            /\ NextSlot(c)
       ELSE /\ Goto(p, "panic")
            /\ UNCHANGED <<lock, sched>>
    /\ UNCHANGED <<fields, wait_lock, pp, w, local, after, victims>>

\* The first thing a thread does on its hart: release its lock, in
\* forkret(), at the end of yield(), or in sleep().
Forkret(c, p) ==
    /\ At(c, p, {"forkret"})
    /\ lock' = [lock EXCEPT ![p] = NoCpu]
    /\ Goto(p, "user")
    /\ UNCHANGED <<fields, wait_lock, sched, pp, w, local, after, victims>>

YieldReturn(c, p) ==
    /\ At(c, p, {"yielded"})
    /\ lock'  = [lock EXCEPT ![p] = NoCpu]
    /\ Goto(p, after[p])
    /\ after' = [after EXCEPT ![p] = "none"]
    /\ UNCHANGED <<fields, wait_lock, sched, pp, w, local, victims>>

\* Mutant: the state changes before p->lock is taken.
Yield_Unlocked(c, p) ==
    /\ At(c, p, Interruptible \cup {"preempt"})
    /\ state' = [state EXCEPT ![p] = "RUNNABLE"]
    /\ after' = [after EXCEPT ![p] = IF pc[p] = "preempt" THEN "user" ELSE pc[p]]
    /\ Goto(p, "schedyield")
    /\ UNCHANGED <<parent, chan, killed, pid, nextpid, locks, sched, pp, w, local, victims>>

\* yield(), from the timer interrupt in user mode (which usertrap() checks
\* killed() before) or from kerneltrap() where interrupts are enabled.
Yield(c, p) ==
    /\ At(c, p, Interruptible \cup {"preempt"})
    /\ Free(p)
    /\ lock'  = [lock EXCEPT ![p] = c]
    /\ state' = [state EXCEPT ![p] = "RUNNABLE"]
    /\ after' = [after EXCEPT ![p] = IF pc[p] = "preempt" THEN "user" ELSE pc[p]]
    /\ Goto(p, "schedyield")
    /\ UNCHANGED <<parent, chan, killed, pid, nextpid, wait_lock, sched,
                   pp, w, local, victims>>
-----------------------------------------------------------------------------
(***************************************************************************)
(* usertrap(): entry from user mode by a system call, an interrupt or an   *)
(* exception, and the check of p->killed before returning to user mode.    *)
(***************************************************************************)
TrapKilled(c, p) ==
    /\ At(c, p, {"user", "ret"})
    /\ BrieflyLocked(p)
    /\ killed[p]
    /\ Goto(p, "exit")
    /\ UNCHANGED <<fields, wait_lock, sched, pp, w, local, after, victims>>

\* A trap taken by a process that killed() finds alive.
Trap(c, p, to) ==
    /\ At(c, p, {"user"})
    /\ BrieflyLocked(p)
    /\ ~killed[p]
    /\ Goto(p, to)
    /\ UNCHANGED <<fields, wait_lock, sched, after, victims>>

SysFork(c, p) ==
    /\ nextpid <= MaxPid
    /\ Trap(c, p, "fork")
    /\ pp' = [pp EXCEPT ![p] = 0]
    /\ UNCHANGED <<w, local>>

\* Any program may exit, init too: it does when fork() or wait() fails.
SysExit(c, p) ==
    /\ Trap(c, p, "exit")
    /\ UNCHANGED <<pp, w, local>>

SysWait(c, p) ==
    /\ Trap(c, p, "wait")
    /\ UNCHANGED <<pp, w, local>>

SysKill(c, p, target) ==
    /\ Trap(c, p, "kill")
    /\ pp'    = [pp EXCEPT ![p] = 0]
    /\ local' = [local EXCEPT ![p] = target]
    /\ UNCHANGED w

Timer(c, p) ==
    /\ Trap(c, p, "preempt")
    /\ UNCHANGED <<pp, w, local>>

\* setkilled() after an exception in user mode.
Fault(c, p) ==
    /\ At(c, p, {"user"})
    /\ pid[p] \in FaultPid
    /\ BrieflyLocked(p)
    /\ killed'  = [killed EXCEPT ![p] = TRUE]
    /\ victims' = victims \cup {pid[p]}
    /\ Goto(p, "ret")
    /\ UNCHANGED <<state, parent, chan, pid, nextpid, wait_lock, sched,
                   pp, w, local, after>>

TrapReturn(c, p) ==
    /\ At(c, p, {"ret"})
    /\ BrieflyLocked(p)
    /\ ~killed[p]
    /\ Goto(p, "user")
    /\ UNCHANGED <<fields, wait_lock, sched, pp, w, local, after, victims>>
-----------------------------------------------------------------------------
(***************************************************************************)
(* allocproc(): look for an unused slot; it stays locked.                  *)
(***************************************************************************)
AllocSkip(c, p) ==
    /\ At(c, p, {"fork"})
    /\ BrieflyLocked(pp[p])
    /\ state[pp[p]] # "UNUSED"
    /\ IF pp[p] + 1 < NPROC
       THEN pp' = [pp EXCEPT ![p] = @ + 1] /\ UNCHANGED pc
       ELSE pp' = [pp EXCEPT ![p] = 0] /\ Goto(p, "ret")
    /\ UNCHANGED <<fields, wait_lock, sched, w, local, after, victims>>

\* Mutant: nextpid is not advanced.
AllocFound_SamePid(c, p) ==
    /\ At(c, p, {"fork"})
    /\ LET np == pp[p] IN
         /\ Free(np)
         /\ state[np] = "UNUSED"
         /\ lock'  = [lock EXCEPT ![np] = c]
         /\ pid'   = [pid EXCEPT ![np] = nextpid]
         /\ state' = [state EXCEPT ![np] = "USED"]
         /\ pc'    = [pc EXCEPT ![p] = "forkcopy", ![np] = "forkret"]
    /\ UNCHANGED <<parent, chan, killed, nextpid, wait_lock, sched, pp, w, local, after, victims>>

AllocFound(c, p) ==
    /\ At(c, p, {"fork"})
    /\ LET np == pp[p] IN
         /\ Free(np)
         /\ state[np] = "UNUSED"
         /\ lock'    = [lock EXCEPT ![np] = c]
         /\ pid'     = [pid EXCEPT ![np] = nextpid]
         /\ state'   = [state EXCEPT ![np] = "USED"]
         /\ pc'      = [pc EXCEPT ![p] = "forkcopy", ![np] = "forkret"]
    /\ nextpid' = nextpid + 1
    /\ UNCHANGED <<parent, chan, killed, wait_lock, sched, pp, w, local, after, victims>>

\* No memory for the trapframe, the page table or the copy of the parent's
\* memory: the slot is given back.
ForkFail(c, p) ==
    /\ At(c, p, {"forkcopy"})
    /\ freeproc(pp[p])
    /\ lock' = [lock EXCEPT ![pp[p]] = NoCpu]
    /\ pc'   = [pc EXCEPT ![p] = "ret", ![pp[p]] = "none"]
    /\ pp'   = [pp EXCEPT ![p] = 0]
    /\ UNCHANGED <<nextpid, wait_lock, sched, w, local, after, victims>>

\* The copy succeeds; np->lock is released while np is still USED.
ForkCopy(c, p) ==
    /\ At(c, p, {"forkcopy"})
    /\ lock' = [lock EXCEPT ![pp[p]] = NoCpu]
    /\ Goto(p, "forkparent")
    /\ UNCHANGED <<fields, wait_lock, sched, pp, w, local, after, victims>>

ForkParent(c, p) ==
    /\ At(c, p, {"forkparent"})
    /\ wait_lock = NoCpu
    /\ parent' = [parent EXCEPT ![pp[p]] = p]
    /\ Goto(p, "forkrun")
    /\ UNCHANGED <<state, chan, killed, pid, nextpid, locks, sched,
                   pp, w, local, after, victims>>

ForkRun(c, p) ==
    /\ At(c, p, {"forkrun"})
    /\ BrieflyLocked(pp[p])
    /\ state' = [state EXCEPT ![pp[p]] = "RUNNABLE"]
    /\ Goto(p, "ret")
    /\ pp'    = [pp EXCEPT ![p] = 0]
    /\ UNCHANGED <<parent, chan, killed, pid, nextpid, wait_lock, sched,
                   w, local, after, victims>>
-----------------------------------------------------------------------------
(***************************************************************************)
(* exit(): the panic for init, wait_lock, reparent() with a wakeup(init)   *)
(* for each child, wakeup(parent), then ZOMBIE and sched() with p->lock    *)
(* held.                                                                   *)
(***************************************************************************)
Exit(c, p) ==
    /\ At(c, p, {"exit"})
    /\ IF p = initproc
       THEN Goto(p, "initpanic") /\ UNCHANGED <<wait_lock, pp>>
       ELSE /\ wait_lock = NoCpu
            /\ wait_lock' = c
            /\ pp' = [pp EXCEPT ![p] = 0]
            /\ Goto(p, "reparent")
    /\ UNCHANGED <<fields, lock, sched, w, local, after, victims>>

\* Mutant: wakeup() leaves out the first slot.
CallWakeup_SkipsFirst(p, ch, to) ==
    /\ local' = [local EXCEPT ![p] = ch]
    /\ w'     = [w EXCEPT ![p] = 1]
    /\ after' = [after EXCEPT ![p] = to]
    /\ Goto(p, "wakeup")

\* wakeup(ch) is called and goes on at "to".
CallWakeup(p, ch, to) ==
    /\ local' = [local EXCEPT ![p] = ch]
    /\ w'     = [w EXCEPT ![p] = 0]
    /\ after' = [after EXCEPT ![p] = to]
    /\ Goto(p, "wakeup")

Reparent(c, p) ==
    /\ At(c, p, {"reparent"})
    /\ LET kids == ChildrenFrom(p, pp[p]) IN
         IF kids # {}
         THEN /\ parent' = [parent EXCEPT ![First(kids)] = initproc]
              /\ pp' = [pp EXCEPT ![p] = First(kids) + 1]
              /\ CallWakeup(p, initproc, "reparent")
         ELSE /\ CallWakeup(p, parent[p], "zombie")
              /\ pp' = [pp EXCEPT ![p] = 0]
              /\ UNCHANGED parent
    /\ UNCHANGED <<state, chan, killed, pid, nextpid, locks, sched, victims>>

\* One iteration of wakeup(), which skips its caller.
Wakeup(c, p) ==
    /\ At(c, p, {"wakeup"})
    /\ LET q == w[p] IN
         /\ IF q # p
            THEN /\ BrieflyLocked(q)
                 /\ state' = [state EXCEPT ![q] =
                      IF @ = "SLEEPING" /\ chan[q] = local[p] THEN "RUNNABLE" ELSE @]
            ELSE UNCHANGED <<state, lock>>
         /\ IF q + 1 < NPROC
            THEN w' = [w EXCEPT ![p] = q + 1] /\ UNCHANGED <<pc, local, after>>
            ELSE /\ w'     = [w EXCEPT ![p] = 0]
                 /\ local' = [local EXCEPT ![p] = 0]
                 /\ after' = [after EXCEPT ![p] = "none"]
                 /\ Goto(p, after[p])
    /\ UNCHANGED <<parent, chan, killed, pid, nextpid, wait_lock, sched, pp, victims>>

ExitZombie(c, p) ==
    /\ At(c, p, {"zombie"})
    /\ Free(p)
    /\ lock'      = [lock EXCEPT ![p] = c]
    /\ state'     = [state EXCEPT ![p] = "ZOMBIE"]
    /\ wait_lock' = NoCpu
    /\ Goto(p, "schedexit")
    /\ UNCHANGED <<parent, chan, killed, pid, nextpid, sched, pp, w, local, after, victims>>
-----------------------------------------------------------------------------
(***************************************************************************)
(* wait(): wait_lock is held from the scan of the table until sleep() has  *)
(* the lock of the caller.                                                 *)
(***************************************************************************)
WaitLock(c, p) ==
    /\ At(c, p, {"wait"})
    /\ wait_lock = NoCpu
    /\ wait_lock' = c
    /\ pp'    = [pp EXCEPT ![p] = 0]
    /\ local' = [local EXCEPT ![p] = 0]
    /\ Goto(p, "waitscan")
    /\ UNCHANGED <<fields, lock, sched, w, after, victims>>

\* wait() returns: its locks are given back.
WaitReturn(p) ==
    /\ wait_lock' = NoCpu
    /\ pp'    = [pp EXCEPT ![p] = 0]
    /\ local' = [local EXCEPT ![p] = 0]
    /\ Goto(p, "ret")

\* The next child of the table.  A zombie is freed, unless the copyout of its
\* status fails; init passes wait() no address to copy to.
WaitChild(c, p) ==
    /\ At(c, p, {"waitscan"})
    /\ ChildrenFrom(p, pp[p]) # {}
    /\ LET q == First(ChildrenFrom(p, pp[p])) IN
         /\ BrieflyLocked(q)
         /\ IF state[q] = "ZOMBIE"
            THEN /\ WaitReturn(p)
                 /\ \/ freeproc(q)
                    \/ p # initproc /\ UNCHANGED <<state, parent, chan, killed, pid>>
            ELSE /\ pp'    = [pp EXCEPT ![p] = q + 1]
                 /\ local' = [local EXCEPT ![p] = 1]
                 /\ UNCHANGED <<state, parent, chan, killed, pid, wait_lock, pc>>
    /\ UNCHANGED <<nextpid, sched, w, after, victims>>

WaitScanned(c, p) ==
    /\ At(c, p, {"waitscan"})
    /\ ChildrenFrom(p, pp[p]) = {}
    /\ IF local[p] = 0
       THEN WaitReturn(p)
       ELSE Goto(p, "waitkilled") /\ UNCHANGED <<wait_lock, pp, local>>
    /\ UNCHANGED <<fields, lock, sched, w, after, victims>>

\* Mutant: wait_lock is released before sleep() is entered.
WaitKilled_Unlocks(c, p) ==
    /\ At(c, p, {"waitkilled"})
    /\ BrieflyLocked(p)
    /\ IF killed[p]
       THEN WaitReturn(p)
       ELSE Goto(p, "waitsleep") /\ wait_lock' = NoCpu /\ UNCHANGED <<pp, local>>
    /\ UNCHANGED <<fields, sched, w, after, victims>>

WaitKilled(c, p) ==
    /\ At(c, p, {"waitkilled"})
    /\ BrieflyLocked(p)
    /\ IF killed[p]
       THEN WaitReturn(p)
       ELSE Goto(p, "waitsleep") /\ UNCHANGED <<wait_lock, pp, local>>
    /\ UNCHANGED <<fields, sched, w, after, victims>>

\* Mutant: sleep() keeps the lock it was given.
WaitSleep_KeepsLock(c, p) ==
    /\ At(c, p, {"waitsleep"})
    /\ Free(p)
    /\ lock'  = [lock EXCEPT ![p] = c]
    /\ chan'  = [chan EXCEPT ![p] = p]
    /\ state' = [state EXCEPT ![p] = "SLEEPING"]
    /\ Goto(p, "schedsleep")
    /\ UNCHANGED <<parent, killed, pid, nextpid, wait_lock, sched, pp, w, local, after, victims>>

\* sleep(p, &wait_lock): p->lock is taken before wait_lock is released.
WaitSleep(c, p) ==
    /\ At(c, p, {"waitsleep"})
    /\ Free(p)
    /\ lock'      = [lock EXCEPT ![p] = c]
    /\ wait_lock' = NoCpu
    /\ chan'      = [chan EXCEPT ![p] = p]
    /\ state'     = [state EXCEPT ![p] = "SLEEPING"]
    /\ Goto(p, "schedsleep")
    /\ UNCHANGED <<parent, killed, pid, nextpid, sched, pp, w, local, after, victims>>

\* The end of sleep(); wait() then takes wait_lock again and scans afresh.
WaitWoken(c, p) ==
    /\ At(c, p, {"waitwoken"})
    /\ chan' = [chan EXCEPT ![p] = NoProc]
    /\ lock' = [lock EXCEPT ![p] = NoCpu]
    /\ Goto(p, "wait")
    /\ UNCHANGED <<state, parent, killed, pid, nextpid, wait_lock, sched,
                   pp, w, local, after, victims>>
-----------------------------------------------------------------------------
(***************************************************************************)
(* kill(): one iteration of its loop over the table.                       *)
(***************************************************************************)
KillDone(p) ==
    /\ Goto(p, "ret")
    /\ pp'    = [pp EXCEPT ![p] = 0]
    /\ local' = [local EXCEPT ![p] = 0]

KillHit(c, p) ==
    /\ At(c, p, {"kill"})
    /\ LET q == pp[p] IN
         /\ BrieflyLocked(q)
         /\ pid[q] = local[p]
         /\ killed' = [killed EXCEPT ![q] = TRUE]
         /\ state'  = [state EXCEPT ![q] = IF @ = "SLEEPING" THEN "RUNNABLE" ELSE @]
         /\ victims' = victims \cup {pid[q]}
    /\ KillDone(p)
    /\ UNCHANGED <<parent, chan, pid, nextpid, wait_lock, sched, w, after>>

KillMiss(c, p) ==
    /\ At(c, p, {"kill"})
    /\ BrieflyLocked(pp[p])
    /\ pid[pp[p]] # local[p]
    /\ IF pp[p] + 1 < NPROC
       THEN pp' = [pp EXCEPT ![p] = @ + 1] /\ UNCHANGED <<pc, local>>
       ELSE KillDone(p)
    /\ UNCHANGED <<fields, wait_lock, sched, w, after, victims>>
-----------------------------------------------------------------------------
Scheduler(c) == SchedulerSkip(c) \/ SchedulerRun(c)

\* Leaving the hart and coming back to it.
Switch(c, p) == Sched(c, p) \/ Forkret(c, p) \/ YieldReturn(c, p) \/ WaitWoken(c, p)

\* The system calls of thread p once they have been entered.
Kernel(c, p) ==
    \/ TrapKilled(c, p) \/ TrapReturn(c, p)
    \/ AllocSkip(c, p) \/ AllocFound(c, p) \/ ForkFail(c, p) \/ ForkCopy(c, p)
    \/ ForkParent(c, p) \/ ForkRun(c, p)
    \/ Exit(c, p) \/ Reparent(c, p) \/ Wakeup(c, p) \/ ExitZombie(c, p)
    \/ WaitLock(c, p) \/ WaitChild(c, p) \/ WaitScanned(c, p) \/ WaitKilled(c, p)
    \/ WaitSleep(c, p)
    \/ KillHit(c, p) \/ KillMiss(c, p)

\* What the user program does, and the interrupts.
User(c, p) ==
    \/ SysFork(c, p) \/ SysExit(c, p) \/ SysWait(c, p)
    \/ \E target \in KillPid : SysKill(c, p, target)
    \/ Timer(c, p) \/ Fault(c, p) \/ Yield(c, p)

Next ==
    \E c \in CPU :
        \/ Scheduler(c)
        \/ \E p \in Slot : Switch(c, p) \/ Kernel(c, p) \/ User(c, p)

Spec == Init /\ [][Next]_vars

(***************************************************************************)
(* Every hart keeps running its scheduler, and the timer interrupts user   *)
(* code that is on a hart for ever or again and again.  Kernel code is     *)
(* strongly fair: the tick is long compared with a step of kernel code, so *)
(* preemption does not stop it for ever, and a lock that is free again and *)
(* again is eventually obtained.  The endless loop of panic() is           *)
(* interrupted like user code.  init calls wait() for ever, unless it      *)
(* exits (user/init.c); nothing is assumed of other programs.              *)
(***************************************************************************)
Fairness ==
    /\ \A c \in CPU : WF_vars(Scheduler(c))
    /\ \A p \in Slot :
          /\ WF_vars(\E c \in CPU : Switch(c, p))
          /\ SF_vars(\E c \in CPU : Kernel(c, p))
          /\ SF_vars(\E c \in CPU : Timer(c, p))
          /\ WF_vars(\E c \in CPU : pc[p] \in {"preempt", "initpanic"} /\ Yield(c, p))
    /\ SF_vars(\E c \in CPU : SysWait(c, initproc))

FairSpec == Spec /\ Fairness
-----------------------------------------------------------------------------
TypeOK ==
    /\ state   \in [Slot -> State]
    /\ parent  \in [Slot -> Slot \cup {NoProc}]
    /\ chan    \in [Slot -> Slot \cup {NoProc}]
    /\ killed  \in [Slot -> BOOLEAN]
    /\ pid     \in [Slot -> Nat]
    /\ nextpid \in Nat
    /\ lock    \in [Slot -> CPU \cup {NoCpu}]
    /\ wait_lock \in CPU \cup {NoCpu}
    /\ cproc   \in [CPU -> Slot \cup {NoProc}]
    /\ next    \in [CPU -> Slot]
    /\ pc      \in [Slot -> PC]
    /\ pp      \in [Slot -> Nat]
    /\ w       \in [Slot -> Slot]
    /\ local   \in [Slot -> Nat \cup {NoProc}]
    /\ after   \in [Slot -> PC]
    /\ victims \subseteq Nat

\* A process is on at most one hart, and outside of its lock it is RUNNING
\* exactly while it is on one.  Two harts never run on one kernel stack, and
\* wait() never frees a slot whose thread is still in exit() or swtch().
OneHartPerProcess ==
    /\ \A c, d \in CPU : cproc[c] = cproc[d] /\ cproc[c] # NoProc => c = d
    /\ \A p \in Slot : Free(p) =>
          (state[p] = "RUNNING" <=> \E c \in CPU : cproc[c] = p)

\* None of the panics of sched() is reached: every path into the scheduler
\* holds the lock of the process and nothing else, and has left RUNNING.  Nor
\* is exit()'s "zombie exit": no hart is given a thread that has left the
\* kernel by exit().  This holds whatever the programs do, init included.
NoPanic ==
    \A p \in Slot :
        /\ pc[p] # "panic"
        /\ \A c \in CPU : ~At(c, p, {"none"})

\* A process that has a parent can be waited for: the parent has neither
\* exited nor been freed, at any moment of fork(), exit() and reparent().
ParentCanWait ==
    \A p \in Slot :
        /\ parent[p] # NoProc => state[parent[p]] \in {"SLEEPING", "RUNNABLE", "RUNNING"}
        /\ p # initproc /\ state[p] \notin {"UNUSED", "USED"} => parent[p] # NoProc

\* The process table is consistent at every step: a process runs on one hart, the
\* thread of a freed slot is gone, and everybody has a parent that can reap it.
ProcInv == TypeOK /\ OneHartPerProcess /\ ParentCanWait

\* No wakeup is lost between exit() and wait(): outside of wait_lock, nobody
\* sleeps in wait() while one of its children is a zombie.
NoLostWakeup ==
    wait_lock = NoCpu =>
        \A p, q \in Slot : parent[q] = p /\ state[q] = "ZOMBIE" => state[p] # "SLEEPING"

\* A process whose p->killed is set was the argument of a kill(), or has
\* faulted.
KilledWasAsked ==
    \A p \in Slot : state[p] # "UNUSED" /\ killed[p] => pid[p] \in victims

\* Round robin is fair: a runnable process gets a hart, although the harts
\* walk the table independently and skip what they find locked or taken.
RunnableRuns ==
    \A p \in Slot : state[p] = "RUNNABLE" ~> state[p] = "RUNNING"

\* init has exited: its thread is in the loop of panic("init exiting"), or was
\* interrupted there.
InitExited == "initpanic" \in {pc[initproc], after[initproc]}

\* A zombie that is init's child, by fork() or by reparent(), is reaped,
\* unless init exits.
ZombieReaped ==
    \A p \in Slot :
        (state[p] = "ZOMBIE" /\ parent[p] = initproc) ~>
            (state[p] = "UNUSED" \/ InitExited)

(***************************************************************************)
(* proc.c seen as the life of the processes it has created.                *)
(***************************************************************************)
AllPids == 1 .. MaxPid + NPROC

Stage(p) == CASE state[p] = "USED"   -> "embryo"
              [] state[p] = "ZOMBIE" -> "zombie"
              [] OTHER               -> "live"

Life(i) ==
    IF \E p \in Slot : pid[p] = i
    THEN Stage(CHOOSE p \in Slot : pid[p] = i)
    ELSE IF i < nextpid THEN "gone" ELSE "unborn"

Par(i) ==
    IF \E p \in Slot : pid[p] = i /\ state[p] # "USED" /\ parent[p] # NoProc
    THEN pid[parent[CHOOSE p \in Slot : pid[p] = i]]
    ELSE 0

Lives == [i \in AllPids |-> Life(i)]
Pars  == [i \in AllPids |-> Par(i)]

L == INSTANCE Processes WITH
        Pids <- AllPids,
        life <- Lives,
        par  <- Pars

\* proc.c implements the life cycle that fork, exit and wait promise.
ImplementsLifeCycle == L!LifeSpec
=============================================================================
