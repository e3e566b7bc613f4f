----------------------------- MODULE ProcProofs -----------------------------
(***************************************************************************)
(* Proofs about Proc, for any number of slots, harts and processes.        *)
(***************************************************************************)
EXTENDS Proc, FiniteSetTheorems, WellFoundedInduction, TLAPS

\* No program calls kill() with pid 0, which unused slots have.
ZeroSpared == 0 \notin KillPid

\* Where a thread holds its own p->lock, coming from or going to the scheduler.
Entering == {"forkret", "yielded", "waitwoken"}
Leaving  == {"schedyield", "schedsleep", "schedexit"}

\* Where a thread holds wait_lock.
Waiting == {"reparent", "wakeup", "zombie", "waitscan", "waitkilled", "waitsleep"}

\* Where a thread is, seen through yield().
Place(p) == IF pc[p] \in {"schedyield", "yielded"} THEN after[p] ELSE pc[p]

\* Where fork() has a slot of its own.
Forking == {"forkcopy", "forkparent", "forkrun"}

OnHart(p) == \E c \in CPU : cproc[c] = p

\* A hart runs the slot its scheduler is at, and a slot is on one hart.
HartInv ==
    /\ \A c \in CPU : cproc[c] # NoProc => next[c] = cproc[c]
    /\ \A c, d \in CPU : cproc[c] = cproc[d] /\ cproc[c] # NoProc => c = d

\* p->state says where the thread is.
StateInv ==
    \A p \in Slot :
        /\ OnHart(p) =>
             /\ pc[p] = "schedyield" => state[p] = "RUNNABLE"
             /\ pc[p] = "schedsleep" => state[p] = "SLEEPING"
             /\ pc[p] = "schedexit"  => state[p] = "ZOMBIE"
             /\ pc[p] \notin Leaving => state[p] = "RUNNING"
             /\ pc[p] # "none"
        /\ ~OnHart(p) =>
             /\ state[p] # "RUNNING"
             /\ state[p] \in {"UNUSED", "ZOMBIE"} => pc[p] = "none"
             /\ state[p] = "USED"     => pc[p] = "forkret"
             /\ state[p] = "RUNNABLE" => pc[p] \in Entering
             /\ state[p] = "SLEEPING" => pc[p] = "waitwoken"

\* p->lock is held for the thread that comes or goes, or by fork() for the
\* slot it fills.
LockInv ==
    \A p \in Slot, c \in CPU :
        lock[p] = c <=> \/ cproc[c] = p /\ pc[p] \in Entering \cup Leaving
                        \/ \E q \in Slot : cproc[c] = q /\ pc[q] = "forkcopy" /\ pp[q] = p

WaitLockInv ==
    \A c \in CPU : wait_lock = c <=> \E p \in Slot : cproc[c] = p /\ pc[p] \in Waiting

\* What a thread goes on with, and the variables of its loops.
PlaceInv ==
    \A p \in Slot :
        /\ pc[p] \in {"schedyield", "yielded"} => after[p] \in Interruptible \cup {"user"}
        /\ pc[p] = "wakeup" => after[p] \in {"reparent", "zombie"}
        /\ Place(p) \in {"fork", "kill"} => pp[p] \in Slot
        /\ Place(p) = "kill" => local[p] \in KillPid

\* The slot that fork() fills is its own until it runs.
ForkInv ==
    /\ \A p \in Slot : Place(p) \in Forking =>
          /\ pp[p] \in Slot /\ state[pp[p]] = "USED"
          /\ parent[pp[p]] = IF Place(p) = "forkrun" THEN p ELSE NoProc
    /\ \A p, q \in Slot : Place(p) \in Forking /\ Place(q) \in Forking /\ pp[p] = pp[q]
          => p = q

\* Process identifiers are fresh; a free slot is clean.
PidInv ==
    /\ nextpid >= 2 /\ pid[initproc] = 1
    /\ \A p \in Slot : /\ pid[p] < nextpid
                       /\ state[p] = "UNUSED" <=> pid[p] = 0
                       /\ state[p] = "UNUSED" => parent[p] = NoProc
    /\ \A p, q \in Slot : pid[p] = pid[q] /\ pid[p] # 0 => p = q

\* exit() of init panics before it does anything: init is never a zombie.
InitInv ==
    /\ state[initproc] \in {"SLEEPING", "RUNNABLE", "RUNNING"}
    /\ pc[initproc] \notin {"reparent", "wakeup", "zombie", "schedexit"}

\* exit() gives the children away: those below its loop variable, then all.
ExitInv ==
    \A p \in Slot :
        /\ pc[p] = "reparent" \/ (pc[p] = "wakeup" /\ after[p] = "reparent")
             => \A q \in Slot : q < pp[p] => parent[q] # p
        /\ pc[p] = "zombie" \/ (pc[p] = "wakeup" /\ after[p] = "zombie")
             => \A q \in Slot : parent[q] # p

\* The inductive invariant of the process table.
TableInv ==
    /\ TypeOK /\ HartInv /\ StateInv /\ LockInv /\ WaitLockInv /\ PlaceInv
    /\ ForkInv /\ PidInv /\ InitInv /\ ExitInv /\ ParentCanWait

\* Who sleeps, sleeps in wait().
SleepInv == \A p \in Slot : state[p] = "SLEEPING" => chan[p] = p

\* A parent that sleeps with a zombie child is still to be woken.
WakeInv ==
    \A p, q \in Slot :
        parent[q] = p /\ state[q] = "ZOMBIE" /\ state[p] = "SLEEPING" =>
            \E r \in Slot : pc[r] = "wakeup" /\ local[r] = p /\ w[r] <= p

\* wait() has seen no zombie below its loop variable, then none at all.
ScanInv ==
    \A p, q \in Slot :
        parent[q] = p /\ state[q] = "ZOMBIE" =>
            /\ pc[p] = "waitscan" => q >= pp[p]
            /\ pc[p] \notin {"waitkilled", "waitsleep"}

\* The parent of a process in exit() is awake, or still to be woken.
ExitWakeInv ==
    \A p \in Slot :
        /\ pc[p] = "zombie" => state[parent[p]] # "SLEEPING"
        /\ pc[p] = "wakeup" /\ after[p] = "zombie" =>
              /\ local[p] = parent[p]
              /\ state[parent[p]] = "SLEEPING" => w[p] <= parent[p]

WakeupInv == SleepInv /\ WakeInv /\ ScanInv /\ ExitWakeInv

\* p->killed is clear in a free slot.
KilledInv ==
    /\ KilledWasAsked
    /\ \A p \in Slot : state[p] = "UNUSED" => ~killed[p]

\* No thread is in a panic of sched().
SchedPasses == \A p \in Slot : pc[p] # "panic"
-----------------------------------------------------------------------------
\* The slots are numbers, and null pointers are none of them.
LEMMA SlotFacts ==
    /\ Slot \subseteq Nat /\ initproc \in Slot /\ NoProc \notin Slot
    /\ NoCpu \notin CPU
  BY ProcAssumption DEF Slot, initproc

\* A set of slots has a first element.
LEMMA FirstIs ==
    ASSUME NEW S, S \subseteq Slot, S # {}
    PROVE  First(S) \in S /\ \A r \in S : First(S) <= r
<1> DEFINE R == OpToRel(<, Nat)
<1>1. IsWellFoundedOn(R, Nat)
  BY NatLessThanWellFounded
<1>2. \A x, y \in Nat : <<x, y>> \in R <=> x < y
  BY DEF OpToRel
<1>3. S \subseteq Nat
  BY SlotFacts
<1> HIDE DEF R
<1>4. PICK x \in S : \A y \in S : ~(<<y, x>> \in R)
  BY <1>1, <1>3, WFMin
<1>5. \A y \in S : x \in Nat /\ y \in Nat /\ ~(y < x)
  BY <1>2, <1>3, <1>4
<1>6. \A y \in S : x <= y
  BY <1>5
<1> QED BY <1>6 DEF First

\* The thread that a hart runs is on that hart only, and is no other thread.
LEMMA Here ==
    ASSUME TableInv, NEW c \in CPU, NEW p \in Slot, cproc[c] = p
    PROVE  /\ OnHart(p) /\ next[c] = p
           /\ \A d \in CPU : cproc[d] = p => d = c
  BY SlotFacts DEF TableInv, HartInv, OnHart

\* A slot that nobody has locked, or that fork() has not started yet, is on no
\* hart unless it is RUNNING.
LEMMA Off ==
    ASSUME TableInv, NEW q \in Slot,
           \/ state[q] \in {"UNUSED", "USED"}
           \/ Free(q) /\ state[q] # "RUNNING"
    PROVE  /\ ~OnHart(q)
           /\ state[q] \in {"UNUSED", "ZOMBIE"} => pc[q] = "none"
           /\ state[q] = "USED"     => pc[q] = "forkret"
           /\ state[q] = "RUNNABLE" => pc[q] \in Entering
           /\ state[q] = "SLEEPING" => pc[q] = "waitwoken"
<1>1. ~OnHart(q)
  <2> SUFFICES ASSUME NEW d \in CPU, cproc[d] = q PROVE FALSE
    BY DEF OnHart
  <2>1. pc[q] \in Leaving /\ state[q] \notin {"UNUSED", "USED"}
    BY DEF TableInv, StateInv, OnHart, Leaving, Free, LockInv
  <2>2. lock[q] = d
    BY <2>1 DEF TableInv, LockInv
  <2> QED BY <2>1, <2>2, SlotFacts DEF Free
<1> QED BY <1>1 DEF TableInv, StateInv

\* A thread that is not about to leave its hart is RUNNING.
LEMMA Running ==
    ASSUME TableInv, NEW c \in CPU, NEW p \in Slot, cproc[c] = p, pc[p] \notin Leaving
    PROVE  state[p] = "RUNNING"
  BY DEF TableInv, StateInv, OnHart

\* Threads that are on no hart are between two runs.
LEMMA OffPlaces ==
    ASSUME TableInv, NEW q \in Slot, ~OnHart(q)
    PROVE  pc[q] \in Entering \cup {"none"}
  BY DEF TableInv, TypeOK, State, StateInv, Entering

\* The scheduler's loop variable stays in the table.
LEMMA NextSlotIs == \A s \in Slot : (s + 1) % NPROC \in Slot
  BY ProcAssumption DEF Slot

\* The loops over the table stay in it.
LEMMA LoopSlots ==
    /\ 0 \in Slot
    /\ \A s \in Slot : s + 1 < NPROC => s + 1 \in Slot
  BY ProcAssumption DEF Slot

\* sched() finds everything as it expects it.
LEMMA SchedSafe ==
    ASSUME TableInv, NEW c \in CPU, NEW p \in Slot, At(c, p, Leaving)
    PROVE  SchedOK(c, p)
<1>1. cproc[c] = p /\ pc[p] \in Leaving
  BY DEF At
<1>2. lock[p] = c
  BY <1>1 DEF TableInv, LockInv
<1>3. wait_lock # c
  BY <1>1 DEF TableInv, WaitLockInv, Waiting, Leaving
<1>4. \A q \in Slot \ {p} : lock[q] # c
  BY <1>1 DEF TableInv, LockInv, Leaving
<1>5. state[p] # "RUNNING"
  BY <1>1 DEF TableInv, StateInv, OnHart, Leaving
<1> QED BY <1>2, <1>3, <1>4, <1>5 DEF SchedOK

\* SchedulerSkip keeps the table consistent.
LEMMA SchedulerSkipTable ==
    ASSUME TableInv, NEW c \in CPU, SchedulerSkip(c)
    PROVE  TableInv'
<1>1. TypeOK'
  BY SlotFacts, NextSlotIs DEF TableInv, TypeOK, State, PC, fields, locks,
     thread, sched, SchedulerSkip, NextSlot, BrieflyLocked, Free
<1>2. HartInv'
  BY SlotFacts DEF TableInv, TypeOK, HartInv, fields, locks, thread, sched,
     SchedulerSkip, NextSlot, BrieflyLocked, Free
<1>3. StateInv'
  BY SlotFacts DEF TableInv, TypeOK, StateInv, OnHart, Entering, Leaving,
     fields, locks, thread, sched, SchedulerSkip, NextSlot, BrieflyLocked, Free
<1>4. LockInv'
  BY SlotFacts DEF TableInv, TypeOK, LockInv, Entering, Leaving, fields, locks,
     thread, sched, SchedulerSkip, NextSlot, BrieflyLocked, Free
<1>5. WaitLockInv'
  BY SlotFacts DEF TableInv, TypeOK, WaitLockInv, Waiting, fields, locks,
     thread, sched, SchedulerSkip, NextSlot, BrieflyLocked, Free
<1>6. PlaceInv'
  BY SlotFacts DEF TableInv, TypeOK, PlaceInv, Place, Interruptible, fields,
     locks, thread, sched, SchedulerSkip, NextSlot, BrieflyLocked, Free
<1>7. ForkInv'
  BY SlotFacts DEF TableInv, TypeOK, ForkInv, Place, Forking, fields, locks,
     thread, sched, SchedulerSkip, NextSlot, BrieflyLocked, Free
<1>8. PidInv'
  BY SlotFacts DEF TableInv, TypeOK, PidInv, fields, locks, thread, sched,
     SchedulerSkip, NextSlot, BrieflyLocked, Free
<1>9. InitInv'
  BY SlotFacts DEF TableInv, TypeOK, InitInv, fields, locks, thread, sched,
     SchedulerSkip, NextSlot, BrieflyLocked, Free
<1>10. ExitInv'
  BY SlotFacts DEF TableInv, TypeOK, ExitInv, fields, locks, thread, sched,
     SchedulerSkip, NextSlot, BrieflyLocked, Free
<1>11. ParentCanWait'
  BY SlotFacts DEF TableInv, TypeOK, ParentCanWait, fields, locks, thread,
     sched, SchedulerSkip, NextSlot, BrieflyLocked, Free
<1> QED BY <1>1, <1>2, <1>3, <1>4, <1>5, <1>6, <1>7, <1>8, <1>9, <1>10, <1>11
   DEF TableInv

\* SchedulerRun keeps the table consistent.
LEMMA SchedulerRunTable ==
    ASSUME TableInv, NEW c \in CPU, SchedulerRun(c)
    PROVE  TableInv'
<1>a. /\ next[c] \in Slot /\ ~OnHart(next[c]) /\ pc[next[c]] \in Entering
      /\ cproc[c] = NoProc /\ next' = next
  BY Off DEF SchedulerRun, TableInv, TypeOK
<1>b. \A d \in CPU : cproc'[d] = IF d = c THEN next[c] ELSE cproc[d]
  BY DEF SchedulerRun, TableInv, TypeOK
<1>c. \A d \in CPU : cproc[d] # next[c]
  BY <1>a DEF OnHart
<1>1. TypeOK'
  BY SlotFacts DEF TableInv, TypeOK, State, PC, fields, locks, thread, sched,
     SchedulerRun, Free
<1>2. HartInv'
  BY <1>b, <1>c DEF TableInv, HartInv, SchedulerRun
<1>3. StateInv'
  <2>1. /\ OnHart(next[c])'
        /\ \A q \in Slot : q # next[c] => (OnHart(q)' <=> OnHart(q))
    BY <1>a, <1>b, SlotFacts DEF OnHart
  <2>2. /\ state'[next[c]] = "RUNNING"
        /\ \A q \in Slot : q # next[c] => state'[q] = state[q]
    BY <1>a DEF TableInv, TypeOK, SchedulerRun
  <2> QED BY <1>a, <2>1, <2>2 DEF TableInv, StateInv, SchedulerRun, thread, Entering,
       Leaving
<1>4. LockInv'
  <2>1. \A q \in Slot : lock'[q] = IF q = next[c] THEN c ELSE lock[q]
    BY <1>a DEF TableInv, TypeOK, SchedulerRun
  <2>2. lock[next[c]] = NoCpu /\ pc' = pc /\ pp' = pp
    BY DEF SchedulerRun, Free, thread
  <2> QED BY <1>a, <1>b, <1>c, <2>1, <2>2, SlotFacts DEF TableInv, LockInv, Entering
<1>5. WaitLockInv'
  <2>1. wait_lock' = wait_lock /\ pc' = pc
    BY DEF SchedulerRun, thread
  <2> QED BY <1>a, <1>b, <2>1, SlotFacts DEF TableInv, WaitLockInv, Waiting, Entering
<1>6. PlaceInv'
  BY SlotFacts DEF TableInv, TypeOK, PlaceInv, Place, Interruptible, fields,
     locks, thread, sched, SchedulerRun, Free
<1>7. ForkInv'
  BY SlotFacts DEF TableInv, TypeOK, ForkInv, Place, Forking, fields, locks,
     thread, sched, SchedulerRun, Free
<1>8. PidInv'
  BY SlotFacts DEF TableInv, TypeOK, PidInv, fields, locks, thread, sched,
     SchedulerRun, Free
<1>9. InitInv'
  BY SlotFacts DEF TableInv, TypeOK, InitInv, fields, locks, thread, sched,
     SchedulerRun, Free
<1>10. ExitInv'
  BY SlotFacts DEF TableInv, TypeOK, ExitInv, fields, locks, thread, sched,
     SchedulerRun, Free
<1>11. ParentCanWait'
  BY SlotFacts DEF TableInv, TypeOK, ParentCanWait, fields, locks, thread,
     sched, SchedulerRun, Free
<1> QED BY <1>1, <1>2, <1>3, <1>4, <1>5, <1>6, <1>7, <1>8, <1>9, <1>10, <1>11
   DEF TableInv

\* Sched keeps the table consistent.
LEMMA SchedTable ==
    ASSUME TableInv, NEW c \in CPU, NEW p \in Slot, Sched(c, p)
    PROVE  TableInv'
<1>a. cproc[c] = p /\ pc[p] \in Leaving
  BY DEF Sched, At, Leaving
<1>b. /\ pc' = [pc EXCEPT ![p] = Resume(p)] /\ cproc' = [cproc EXCEPT ![c] = NoProc]
      /\ lock' = [lock EXCEPT ![p] = NoCpu] /\ NextSlot(c)
  BY <1>a, Here, SchedSafe DEF Sched, At, Goto, Leaving
<1>c. \/ pc[p] = "schedyield" /\ Resume(p) = "yielded"
      \/ pc[p] = "schedsleep" /\ Resume(p) = "waitwoken"
      \/ pc[p] = "schedexit" /\ Resume(p) = "none"
  BY <1>a DEF Resume, Leaving
<1>d. \A q \in Slot : pc'[q] = IF q = p THEN Resume(p) ELSE pc[q]
  BY <1>b DEF TableInv, TypeOK
<1>e. \A d \in CPU : cproc'[d] = IF d = c THEN NoProc ELSE cproc[d]
  BY <1>b DEF TableInv, TypeOK
<1>f. UNCHANGED <<fields, wait_lock, pp, w, local, after, victims>>
  BY DEF Sched
<1>1. TypeOK'
  <2>1. pc' \in [Slot -> PC]
    BY <1>b, <1>c DEF TableInv, TypeOK, PC
  <2>2. next' \in [CPU -> Slot]
    BY <1>b, NextSlotIs DEF TableInv, TypeOK, NextSlot
  <2>3. cproc' \in [CPU -> Slot \cup {NoProc}] /\ lock' \in [Slot -> CPU \cup {NoCpu}]
    BY <1>b DEF TableInv, TypeOK
  <2> QED BY <1>f, <2>1, <2>2, <2>3 DEF TableInv, TypeOK, fields
<1>2. HartInv'
  BY SlotFacts, Here DEF TableInv, TypeOK, HartInv, fields, locks, thread,
     sched, Sched, At, SchedOK, Resume, NextSlot, Goto
<1>3. StateInv'
  <2>1. ~OnHart(p)' /\ \A q \in Slot : q # p => (OnHart(q)' <=> OnHart(q))
    BY <1>a, <1>e, Here, SlotFacts DEF OnHart
  <2>2. OnHart(p)
    BY <1>a, Here
  <2> QED BY <1>c, <1>d, <1>f, <2>1, <2>2 DEF TableInv, StateInv, fields, Entering,
       Leaving
<1>4. LockInv'
  <2>1. \A q \in Slot : lock'[q] = IF q = p THEN NoCpu ELSE lock[q]
    BY <1>b DEF TableInv, TypeOK
  <2>2. \A d \in CPU : d # c => lock[p] # d
    BY <1>a DEF TableInv, LockInv
  <2>3. \A q \in Slot : q # p => lock[q] # c
    BY <1>a, SchedSafe DEF SchedOK, At
  <2> QED BY <1>a, <1>c, <1>d, <1>e, <1>f, <2>1, <2>2, <2>3, Here, SlotFacts
       DEF TableInv, LockInv, Entering, Leaving
<1>5. WaitLockInv'
  BY SlotFacts, Here DEF TableInv, TypeOK, WaitLockInv, Waiting, fields, locks,
     thread, sched, Sched, At, SchedOK, Resume, NextSlot, Goto
<1>6. PlaceInv'
  BY SlotFacts, Here DEF TableInv, TypeOK, PlaceInv, Place, Interruptible,
     fields, locks, thread, sched, Sched, At, SchedOK, Resume, NextSlot, Goto
<1>7. ForkInv'
  <2>1. \A q \in Slot : Place(q)' \in Forking => Place(q)' = Place(q)
    BY <1>c, <1>d, <1>f DEF Place, Forking
  <2> QED BY <1>f, <2>1 DEF TableInv, ForkInv, fields
<1>8. PidInv'
  BY SlotFacts, Here DEF TableInv, TypeOK, PidInv, fields, locks, thread,
     sched, Sched, At, SchedOK, Resume, NextSlot, Goto
<1>9. InitInv'
  BY SlotFacts, Here DEF TableInv, TypeOK, InitInv, fields, locks, thread,
     sched, Sched, At, SchedOK, Resume, NextSlot, Goto
<1>10. ExitInv'
  BY SlotFacts, Here DEF TableInv, TypeOK, ExitInv, fields, locks, thread,
     sched, Sched, At, SchedOK, Resume, NextSlot, Goto
<1>11. ParentCanWait'
  BY SlotFacts, Here DEF TableInv, TypeOK, ParentCanWait, fields, locks,
     thread, sched, Sched, At, SchedOK, Resume, NextSlot, Goto
<1> QED BY <1>1, <1>2, <1>3, <1>4, <1>5, <1>6, <1>7, <1>8, <1>9, <1>10, <1>11
   DEF TableInv

\* Forkret keeps the table consistent.
LEMMA ForkretTable ==
    ASSUME TableInv, NEW c \in CPU, NEW p \in Slot, Forkret(c, p)
    PROVE  TableInv'
<1>1. TypeOK'
  BY SlotFacts, Here DEF TableInv, TypeOK, State, PC, fields, locks, thread,
     sched, Forkret, At, Goto
<1>2. HartInv'
  BY SlotFacts, Here DEF TableInv, TypeOK, HartInv, fields, locks, thread,
     sched, Forkret, At, Goto
<1>3. StateInv'
  BY SlotFacts, Here DEF TableInv, TypeOK, StateInv, OnHart, Entering, Leaving,
     fields, locks, thread, sched, Forkret, At, Goto
<1>4. LockInv'
  BY SlotFacts, Here DEF TableInv, TypeOK, LockInv, Entering, Leaving, fields,
     locks, thread, sched, Forkret, At, Goto
<1>5. WaitLockInv'
  BY SlotFacts, Here DEF TableInv, TypeOK, WaitLockInv, Waiting, fields, locks,
     thread, sched, Forkret, At, Goto
<1>6. PlaceInv'
  BY SlotFacts, Here DEF TableInv, TypeOK, PlaceInv, Place, Interruptible,
     fields, locks, thread, sched, Forkret, At, Goto
<1>7. ForkInv'
  BY SlotFacts, Here DEF TableInv, TypeOK, ForkInv, Place, Forking, fields,
     locks, thread, sched, Forkret, At, Goto
<1>8. PidInv'
  BY SlotFacts, Here DEF TableInv, TypeOK, PidInv, fields, locks, thread,
     sched, Forkret, At, Goto
<1>9. InitInv'
  BY SlotFacts, Here DEF TableInv, TypeOK, InitInv, fields, locks, thread,
     sched, Forkret, At, Goto
<1>10. ExitInv'
  BY SlotFacts, Here DEF TableInv, TypeOK, ExitInv, fields, locks, thread,
     sched, Forkret, At, Goto
<1>11. ParentCanWait'
  BY SlotFacts, Here DEF TableInv, TypeOK, ParentCanWait, fields, locks,
     thread, sched, Forkret, At, Goto
<1> QED BY <1>1, <1>2, <1>3, <1>4, <1>5, <1>6, <1>7, <1>8, <1>9, <1>10, <1>11
   DEF TableInv

\* YieldReturn keeps the table consistent.
LEMMA YieldReturnTable ==
    ASSUME TableInv, NEW c \in CPU, NEW p \in Slot, YieldReturn(c, p)
    PROVE  TableInv'
<1>a. cproc[c] = p /\ after[p] \in Interruptible \cup {"user"}
  BY DEF YieldReturn, At, TableInv, PlaceInv
<1>1. TypeOK'
  BY SlotFacts, Here DEF TableInv, TypeOK, State, PC, fields, locks, thread,
     sched, YieldReturn, At, Goto
<1>2. HartInv'
  BY SlotFacts, Here DEF TableInv, TypeOK, HartInv, fields, locks, thread,
     sched, YieldReturn, At, Goto
<1>3. StateInv'
  BY SlotFacts, Here, <1>a DEF TableInv, TypeOK, StateInv, OnHart, Entering,
     Leaving, Interruptible, fields, locks, thread, sched, YieldReturn, At,
     Goto
<1>4. LockInv'
  BY SlotFacts, Here, <1>a DEF TableInv, TypeOK, LockInv, Entering, Leaving,
     Interruptible, fields, locks, thread, sched, YieldReturn, At, Goto
<1>5. WaitLockInv'
  BY SlotFacts, Here, <1>a DEF TableInv, TypeOK, WaitLockInv, Waiting,
     Interruptible, fields, locks, thread, sched, YieldReturn, At, Goto
<1>6. PlaceInv'
  BY SlotFacts, Here DEF TableInv, TypeOK, PlaceInv, Place, Interruptible,
     fields, locks, thread, sched, YieldReturn, At, Goto
<1>7. ForkInv'
  BY SlotFacts, Here DEF TableInv, TypeOK, ForkInv, Place, Forking, fields,
     locks, thread, sched, YieldReturn, At, Goto
<1>8. PidInv'
  BY SlotFacts, Here DEF TableInv, TypeOK, PidInv, fields, locks, thread,
     sched, YieldReturn, At, Goto
<1>9. InitInv'
  BY SlotFacts, Here, <1>a DEF TableInv, TypeOK, InitInv, Interruptible,
     fields, locks, thread, sched, YieldReturn, At, Goto
<1>10. ExitInv'
  BY SlotFacts, Here, <1>a DEF TableInv, TypeOK, ExitInv, Interruptible,
     fields, locks, thread, sched, YieldReturn, At, Goto
<1>11. ParentCanWait'
  BY SlotFacts, Here DEF TableInv, TypeOK, ParentCanWait, fields, locks,
     thread, sched, YieldReturn, At, Goto
<1> QED BY <1>1, <1>2, <1>3, <1>4, <1>5, <1>6, <1>7, <1>8, <1>9, <1>10, <1>11
   DEF TableInv

\* WaitWoken keeps the table consistent.
LEMMA WaitWokenTable ==
    ASSUME TableInv, NEW c \in CPU, NEW p \in Slot, WaitWoken(c, p)
    PROVE  TableInv'
<1>1. TypeOK'
  BY SlotFacts, Here DEF TableInv, TypeOK, State, PC, fields, locks, thread,
     sched, WaitWoken, At, Goto
<1>2. HartInv'
  BY SlotFacts, Here DEF TableInv, TypeOK, HartInv, fields, locks, thread,
     sched, WaitWoken, At, Goto
<1>3. StateInv'
  BY SlotFacts, Here DEF TableInv, TypeOK, StateInv, OnHart, Entering, Leaving,
     fields, locks, thread, sched, WaitWoken, At, Goto
<1>4. LockInv'
  BY SlotFacts, Here DEF TableInv, TypeOK, LockInv, Entering, Leaving, fields,
     locks, thread, sched, WaitWoken, At, Goto
<1>5. WaitLockInv'
  BY SlotFacts, Here DEF TableInv, TypeOK, WaitLockInv, Waiting, fields, locks,
     thread, sched, WaitWoken, At, Goto
<1>6. PlaceInv'
  BY SlotFacts, Here DEF TableInv, TypeOK, PlaceInv, Place, Interruptible,
     fields, locks, thread, sched, WaitWoken, At, Goto
<1>7. ForkInv'
  BY SlotFacts, Here DEF TableInv, TypeOK, ForkInv, Place, Forking, fields,
     locks, thread, sched, WaitWoken, At, Goto
<1>8. PidInv'
  BY SlotFacts, Here DEF TableInv, TypeOK, PidInv, fields, locks, thread,
     sched, WaitWoken, At, Goto
<1>9. InitInv'
  BY SlotFacts, Here DEF TableInv, TypeOK, InitInv, fields, locks, thread,
     sched, WaitWoken, At, Goto
<1>10. ExitInv'
  BY SlotFacts, Here DEF TableInv, TypeOK, ExitInv, fields, locks, thread,
     sched, WaitWoken, At, Goto
<1>11. ParentCanWait'
  BY SlotFacts, Here DEF TableInv, TypeOK, ParentCanWait, fields, locks,
     thread, sched, WaitWoken, At, Goto
<1> QED BY <1>1, <1>2, <1>3, <1>4, <1>5, <1>6, <1>7, <1>8, <1>9, <1>10, <1>11
   DEF TableInv

\* TrapKilled keeps the table consistent.
LEMMA TrapKilledTable ==
    ASSUME TableInv, NEW c \in CPU, NEW p \in Slot, TrapKilled(c, p)
    PROVE  TableInv'
<1>1. TypeOK'
  BY SlotFacts, Here DEF TableInv, TypeOK, State, PC, fields, locks, thread,
     sched, TrapKilled, At, BrieflyLocked, Free, Goto
<1>2. HartInv'
  BY SlotFacts, Here DEF TableInv, TypeOK, HartInv, fields, locks, thread,
     sched, TrapKilled, At, BrieflyLocked, Free, Goto
<1>3. StateInv'
  BY SlotFacts, Here DEF TableInv, TypeOK, StateInv, OnHart, Entering, Leaving,
     fields, locks, thread, sched, TrapKilled, At, BrieflyLocked, Free, Goto
<1>4. LockInv'
  BY SlotFacts, Here DEF TableInv, TypeOK, LockInv, Entering, Leaving, fields,
     locks, thread, sched, TrapKilled, At, BrieflyLocked, Free, Goto
<1>5. WaitLockInv'
  BY SlotFacts, Here DEF TableInv, TypeOK, WaitLockInv, Waiting, fields, locks,
     thread, sched, TrapKilled, At, BrieflyLocked, Free, Goto
<1>6. PlaceInv'
  BY SlotFacts, Here DEF TableInv, TypeOK, PlaceInv, Place, Interruptible,
     fields, locks, thread, sched, TrapKilled, At, BrieflyLocked, Free, Goto
<1>7. ForkInv'
  BY SlotFacts, Here DEF TableInv, TypeOK, ForkInv, Place, Forking, fields,
     locks, thread, sched, TrapKilled, At, BrieflyLocked, Free, Goto
<1>8. PidInv'
  BY SlotFacts, Here DEF TableInv, TypeOK, PidInv, fields, locks, thread,
     sched, TrapKilled, At, BrieflyLocked, Free, Goto
<1>9. InitInv'
  BY SlotFacts, Here DEF TableInv, TypeOK, InitInv, fields, locks, thread,
     sched, TrapKilled, At, BrieflyLocked, Free, Goto
<1>10. ExitInv'
  BY SlotFacts, Here DEF TableInv, TypeOK, ExitInv, fields, locks, thread,
     sched, TrapKilled, At, BrieflyLocked, Free, Goto
<1>11. ParentCanWait'
  BY SlotFacts, Here DEF TableInv, TypeOK, ParentCanWait, fields, locks,
     thread, sched, TrapKilled, At, BrieflyLocked, Free, Goto
<1> QED BY <1>1, <1>2, <1>3, <1>4, <1>5, <1>6, <1>7, <1>8, <1>9, <1>10, <1>11
   DEF TableInv

\* TrapReturn keeps the table consistent.
LEMMA TrapReturnTable ==
    ASSUME TableInv, NEW c \in CPU, NEW p \in Slot, TrapReturn(c, p)
    PROVE  TableInv'
<1>1. TypeOK'
  BY SlotFacts, Here DEF TableInv, TypeOK, State, PC, fields, locks, thread,
     sched, TrapReturn, At, BrieflyLocked, Free, Goto
<1>2. HartInv'
  BY SlotFacts, Here DEF TableInv, TypeOK, HartInv, fields, locks, thread,
     sched, TrapReturn, At, BrieflyLocked, Free, Goto
<1>3. StateInv'
  BY SlotFacts, Here DEF TableInv, TypeOK, StateInv, OnHart, Entering, Leaving,
     fields, locks, thread, sched, TrapReturn, At, BrieflyLocked, Free, Goto
<1>4. LockInv'
  BY SlotFacts, Here DEF TableInv, TypeOK, LockInv, Entering, Leaving, fields,
     locks, thread, sched, TrapReturn, At, BrieflyLocked, Free, Goto
<1>5. WaitLockInv'
  BY SlotFacts, Here DEF TableInv, TypeOK, WaitLockInv, Waiting, fields, locks,
     thread, sched, TrapReturn, At, BrieflyLocked, Free, Goto
<1>6. PlaceInv'
  BY SlotFacts, Here DEF TableInv, TypeOK, PlaceInv, Place, Interruptible,
     fields, locks, thread, sched, TrapReturn, At, BrieflyLocked, Free, Goto
<1>7. ForkInv'
  BY SlotFacts, Here DEF TableInv, TypeOK, ForkInv, Place, Forking, fields,
     locks, thread, sched, TrapReturn, At, BrieflyLocked, Free, Goto
<1>8. PidInv'
  BY SlotFacts, Here DEF TableInv, TypeOK, PidInv, fields, locks, thread,
     sched, TrapReturn, At, BrieflyLocked, Free, Goto
<1>9. InitInv'
  BY SlotFacts, Here DEF TableInv, TypeOK, InitInv, fields, locks, thread,
     sched, TrapReturn, At, BrieflyLocked, Free, Goto
<1>10. ExitInv'
  BY SlotFacts, Here DEF TableInv, TypeOK, ExitInv, fields, locks, thread,
     sched, TrapReturn, At, BrieflyLocked, Free, Goto
<1>11. ParentCanWait'
  BY SlotFacts, Here DEF TableInv, TypeOK, ParentCanWait, fields, locks,
     thread, sched, TrapReturn, At, BrieflyLocked, Free, Goto
<1> QED BY <1>1, <1>2, <1>3, <1>4, <1>5, <1>6, <1>7, <1>8, <1>9, <1>10, <1>11
   DEF TableInv

\* AllocSkip keeps the table consistent.
LEMMA AllocSkipTable ==
    ASSUME TableInv, NEW c \in CPU, NEW p \in Slot, AllocSkip(c, p)
    PROVE  TableInv'
<1>1. TypeOK'
  BY SlotFacts, Here DEF TableInv, TypeOK, State, PC, fields, locks, thread,
     sched, AllocSkip, At, BrieflyLocked, Free, Goto
<1>2. HartInv'
  BY SlotFacts, Here DEF TableInv, TypeOK, HartInv, fields, locks, thread,
     sched, AllocSkip, At, BrieflyLocked, Free, Goto
<1>3. StateInv'
  BY SlotFacts, Here DEF TableInv, TypeOK, StateInv, OnHart, Entering, Leaving,
     fields, locks, thread, sched, AllocSkip, At, BrieflyLocked, Free, Goto
<1>4. LockInv'
  BY SlotFacts, Here DEF TableInv, TypeOK, LockInv, Entering, Leaving, fields,
     locks, thread, sched, AllocSkip, At, BrieflyLocked, Free, Goto
<1>5. WaitLockInv'
  BY SlotFacts, Here DEF TableInv, TypeOK, WaitLockInv, Waiting, fields, locks,
     thread, sched, AllocSkip, At, BrieflyLocked, Free, Goto
<1>6. PlaceInv'
  BY SlotFacts, Here, LoopSlots DEF TableInv, TypeOK, PlaceInv, Place,
     Interruptible, fields, locks, thread, sched, AllocSkip, At, BrieflyLocked,
     Free, Goto
<1>7. ForkInv'
  BY SlotFacts, Here DEF TableInv, TypeOK, ForkInv, Place, Forking, fields,
     locks, thread, sched, AllocSkip, At, BrieflyLocked, Free, Goto
<1>8. PidInv'
  BY SlotFacts, Here DEF TableInv, TypeOK, PidInv, fields, locks, thread,
     sched, AllocSkip, At, BrieflyLocked, Free, Goto
<1>9. InitInv'
  BY SlotFacts, Here DEF TableInv, TypeOK, InitInv, fields, locks, thread,
     sched, AllocSkip, At, BrieflyLocked, Free, Goto
<1>10. ExitInv'
  BY SlotFacts, Here DEF TableInv, TypeOK, ExitInv, fields, locks, thread,
     sched, AllocSkip, At, BrieflyLocked, Free, Goto
<1>11. ParentCanWait'
  BY SlotFacts, Here DEF TableInv, TypeOK, ParentCanWait, fields, locks,
     thread, sched, AllocSkip, At, BrieflyLocked, Free, Goto
<1> QED BY <1>1, <1>2, <1>3, <1>4, <1>5, <1>6, <1>7, <1>8, <1>9, <1>10, <1>11
   DEF TableInv

\* AllocFound keeps the table consistent.
LEMMA AllocFoundTable ==
    ASSUME TableInv, NEW c \in CPU, NEW p \in Slot, AllocFound(c, p)
    PROVE  TableInv'
<1> DEFINE np == pp[p]
<1>a. cproc[c] = p /\ pc[p] = "fork" /\ state[p] = "RUNNING" /\ OnHart(p)
  BY Running, Here DEF AllocFound, At, Leaving
<1>b. np \in Slot /\ state[np] = "UNUSED" /\ lock[np] = NoCpu
  BY <1>a DEF AllocFound, Free, TableInv, PlaceInv, Place
<1>c. ~OnHart(np) /\ pc[np] = "none" /\ np # p
  BY <1>a, <1>b, Off
<1>d. /\ \A q \in Slot : pc'[q] = IF q = p THEN "forkcopy"
                                  ELSE IF q = np THEN "forkret" ELSE pc[q]
      /\ \A q \in Slot : lock'[q] = IF q = np THEN c ELSE lock[q]
      /\ \A q \in Slot : state'[q] = IF q = np THEN "USED" ELSE state[q]
  BY <1>b, <1>c DEF AllocFound, TableInv, TypeOK
<1>e. UNCHANGED <<parent, chan, killed, wait_lock, sched, pp, w, local, after, victims>>
  BY DEF AllocFound
<1>f. \A q \in Slot : Place(q)' = IF q = p THEN "forkcopy"
                                  ELSE IF q = np THEN "forkret" ELSE Place(q)
  BY <1>a, <1>c, <1>d, <1>e DEF Place
<1>1. TypeOK'
  <2>1. /\ pc' \in [Slot -> PC] /\ lock' \in [Slot -> CPU \cup {NoCpu}]
        /\ state' \in [Slot -> State]
    BY <1>b DEF AllocFound, TableInv, TypeOK, PC, State
  <2>2. pid' \in [Slot -> Nat] /\ nextpid' \in Nat
    BY <1>b DEF AllocFound, TableInv, TypeOK
  <2> QED BY <1>e, <2>1, <2>2 DEF TableInv, TypeOK, sched
<1>2. HartInv'
  BY SlotFacts, Here DEF TableInv, TypeOK, HartInv, fields, locks, thread,
     sched, AllocFound, At, Free
<1>3. StateInv'
  BY SlotFacts, Here DEF TableInv, TypeOK, StateInv, OnHart, Entering, Leaving,
     fields, locks, thread, sched, AllocFound, At, Free
<1>4. LockInv'
  BY <1>a, <1>b, <1>c, <1>d, <1>e, Here, SlotFacts
     DEF TableInv, LockInv, Entering, Leaving, sched, OnHart
<1>5. WaitLockInv'
  BY <1>a, <1>b, <1>c, <1>d, <1>e, Here, SlotFacts
     DEF TableInv, WaitLockInv, Waiting, sched, OnHart
<1>6. PlaceInv'
  BY SlotFacts, Here DEF TableInv, TypeOK, PlaceInv, Place, Interruptible,
     fields, locks, thread, sched, AllocFound, At, Free
<1>7. ForkInv'
  <2>1. \A q \in Slot : q # p /\ Place(q)' \in Forking =>
            Place(q) = Place(q)' /\ pp[q] \in Slot /\ pp[q] # np
    BY <1>b, <1>f DEF TableInv, ForkInv, Forking
  <2>2. parent[np] = NoProc
    BY <1>b DEF TableInv, PidInv
  <2> QED BY <1>b, <1>d, <1>e, <1>f, <2>1, <2>2 DEF TableInv, ForkInv, Forking
<1>8. PidInv'
  BY SlotFacts, Here DEF TableInv, TypeOK, PidInv, fields, locks, thread,
     sched, AllocFound, At, Free
<1>9. InitInv'
  BY SlotFacts, Here DEF TableInv, TypeOK, InitInv, fields, locks, thread,
     sched, AllocFound, At, Free
<1>10. ExitInv'
  BY SlotFacts, Here DEF TableInv, TypeOK, ExitInv, fields, locks, thread,
     sched, AllocFound, At, Free
<1>11. ParentCanWait'
  BY SlotFacts, Here DEF TableInv, TypeOK, ParentCanWait, fields, locks,
     thread, sched, AllocFound, At, Free
<1> QED BY <1>1, <1>2, <1>3, <1>4, <1>5, <1>6, <1>7, <1>8, <1>9, <1>10, <1>11
   DEF TableInv

\* ForkFail keeps the table consistent.
LEMMA ForkFailTable ==
    ASSUME TableInv, NEW c \in CPU, NEW p \in Slot, ForkFail(c, p)
    PROVE  TableInv'
<1> DEFINE np == pp[p]
<1>a. cproc[c] = p /\ pc[p] = "forkcopy" /\ state[p] = "RUNNING" /\ OnHart(p)
  BY Running, Here DEF ForkFail, At, Leaving
<1>b. np \in Slot /\ state[np] = "USED" /\ lock[np] = c
  BY <1>a DEF TableInv, ForkInv, Place, Forking, LockInv
<1>c. ~OnHart(np) /\ pc[np] = "forkret" /\ np # p /\ np # initproc
  BY <1>a, <1>b, Off DEF TableInv, InitInv
<1>d. /\ \A q \in Slot : pc'[q] = IF q = p THEN "ret"
                                  ELSE IF q = np THEN "none" ELSE pc[q]
      /\ \A q \in Slot : lock'[q] = IF q = np THEN NoCpu ELSE lock[q]
      /\ \A q \in Slot : state'[q] = IF q = np THEN "UNUSED" ELSE state[q]
  BY <1>b, <1>c DEF ForkFail, freeproc, TableInv, TypeOK
<1>e. /\ \A q \in Slot : parent'[q] = IF q = np THEN NoProc ELSE parent[q]
      /\ \A q \in Slot : pid'[q] = IF q = np THEN 0 ELSE pid[q]
      /\ \A q \in Slot : pp'[q] = IF q = p THEN 0 ELSE pp[q]
  BY <1>b DEF ForkFail, freeproc, TableInv, TypeOK
<1>f. UNCHANGED <<nextpid, wait_lock, sched, w, local, after, victims>>
  BY DEF ForkFail
<1>g. \A q \in Slot : parent[q] # np
  BY <1>b, SlotFacts DEF TableInv, ParentCanWait
<1>1. TypeOK'
  BY SlotFacts, Here DEF TableInv, TypeOK, State, PC, fields, locks, thread,
     sched, ForkFail, At, freeproc
<1>2. HartInv'
  BY SlotFacts, Here DEF TableInv, TypeOK, HartInv, fields, locks, thread,
     sched, ForkFail, At, freeproc
<1>3. StateInv'
  <2>1. \A q \in Slot : OnHart(q)' <=> OnHart(q)
    BY <1>f DEF OnHart, sched
  <2> QED BY <1>a, <1>c, <1>d, <2>1 DEF TableInv, StateInv, Entering, Leaving
<1>4. LockInv'
  <2>1. \A q \in Slot : pc[q] = "forkcopy" => Place(q) \in Forking
    BY DEF Place, Forking
  <2>2. \A q \in Slot : pc[q] = "forkcopy" /\ pp[q] = np => q = p
    BY <1>a, <2>1 DEF TableInv, ForkInv
  <2> QED BY <1>a, <1>b, <1>c, <1>d, <1>e, <1>f, <2>2, Here, SlotFacts
     DEF TableInv, LockInv, Entering, Leaving, sched, OnHart
<1>5. WaitLockInv'
  BY <1>a, <1>b, <1>c, <1>d, <1>f, Here, SlotFacts
     DEF TableInv, WaitLockInv, Waiting, sched, OnHart
<1>6. PlaceInv'
  BY SlotFacts, Here DEF TableInv, TypeOK, PlaceInv, Place, Interruptible,
     fields, locks, thread, sched, ForkFail, At, freeproc
<1>7. ForkInv'
  BY SlotFacts, Here DEF TableInv, TypeOK, ForkInv, Place, Forking, fields,
     locks, thread, sched, ForkFail, At, freeproc
<1>8. PidInv'
  <2>1. nextpid' >= 2 /\ pid'[initproc] = 1
    BY <1>c, <1>e, <1>f, SlotFacts DEF TableInv, PidInv
  <2>2. \A q \in Slot : pid'[q] < nextpid'
    BY <1>e, <1>f DEF TableInv, TypeOK, PidInv
  <2>3. \A q \in Slot : /\ state'[q] = "UNUSED" <=> pid'[q] = 0
                        /\ state'[q] = "UNUSED" => parent'[q] = NoProc
    BY <1>d, <1>e DEF TableInv, PidInv
  <2>4. \A q, r \in Slot : pid'[q] = pid'[r] /\ pid'[q] # 0 => q = r
    BY <1>e DEF TableInv, PidInv
  <2> QED BY <2>1, <2>2, <2>3, <2>4 DEF PidInv
<1>9. InitInv'
  BY <1>a, <1>b, <1>c, <1>d, SlotFacts DEF TableInv, InitInv
<1>10. ExitInv'
  BY SlotFacts, Here DEF TableInv, TypeOK, ExitInv, fields, locks, thread,
     sched, ForkFail, At, freeproc
<1>11. ParentCanWait'
  <2>1. \A q \in Slot : q # np => parent'[q] = parent[q] /\ state'[q] = state[q]
    BY <1>d, <1>e
  <2>2. parent'[np] = NoProc /\ state'[np] = "UNUSED"
    BY <1>b, <1>d, <1>e
  <2> HIDE DEF np
  <2> QED BY <1>g, <2>1, <2>2 DEF TableInv, TypeOK, ParentCanWait
<1> QED BY <1>1, <1>2, <1>3, <1>4, <1>5, <1>6, <1>7, <1>8, <1>9, <1>10, <1>11
   DEF TableInv

\* ForkCopy keeps the table consistent.
LEMMA ForkCopyTable ==
    ASSUME TableInv, NEW c \in CPU, NEW p \in Slot, ForkCopy(c, p)
    PROVE  TableInv'
<1>1. TypeOK'
  BY SlotFacts, Here DEF TableInv, TypeOK, State, PC, fields, locks, thread,
     sched, ForkCopy, At, Goto
<1>2. HartInv'
  BY SlotFacts, Here DEF TableInv, TypeOK, HartInv, fields, locks, thread,
     sched, ForkCopy, At, Goto
<1>3. StateInv'
  BY SlotFacts, Here DEF TableInv, TypeOK, StateInv, OnHart, Entering, Leaving,
     fields, locks, thread, sched, ForkCopy, At, Goto
<1>4. LockInv'
  BY SlotFacts, Here DEF TableInv, TypeOK, LockInv, Entering, Leaving, fields,
     locks, thread, sched, ForkCopy, At, Goto
<1>5. WaitLockInv'
  BY SlotFacts, Here DEF TableInv, TypeOK, WaitLockInv, Waiting, fields, locks,
     thread, sched, ForkCopy, At, Goto
<1>6. PlaceInv'
  BY SlotFacts, Here DEF TableInv, TypeOK, PlaceInv, Place, Interruptible,
     fields, locks, thread, sched, ForkCopy, At, Goto
<1>7. ForkInv'
  BY SlotFacts, Here DEF TableInv, TypeOK, ForkInv, Place, Forking, fields,
     locks, thread, sched, ForkCopy, At, Goto
<1>8. PidInv'
  BY SlotFacts, Here DEF TableInv, TypeOK, PidInv, fields, locks, thread,
     sched, ForkCopy, At, Goto
<1>9. InitInv'
  BY SlotFacts, Here DEF TableInv, TypeOK, InitInv, fields, locks, thread,
     sched, ForkCopy, At, Goto
<1>10. ExitInv'
  BY SlotFacts, Here DEF TableInv, TypeOK, ExitInv, fields, locks, thread,
     sched, ForkCopy, At, Goto
<1>11. ParentCanWait'
  BY SlotFacts, Here DEF TableInv, TypeOK, ParentCanWait, fields, locks,
     thread, sched, ForkCopy, At, Goto
<1> QED BY <1>1, <1>2, <1>3, <1>4, <1>5, <1>6, <1>7, <1>8, <1>9, <1>10, <1>11
   DEF TableInv

\* ForkParent keeps the table consistent.
LEMMA ForkParentTable ==
    ASSUME TableInv, NEW c \in CPU, NEW p \in Slot, ForkParent(c, p)
    PROVE  TableInv'
<1>a. cproc[c] = p /\ state[p] = "RUNNING"
  BY Running DEF ForkParent, At, Leaving
<1>b. Place(p) = "forkparent" /\ pp[p] \in Slot /\ state[pp[p]] = "USED"
  BY DEF ForkParent, At, Place, TableInv, ForkInv, Forking
<1>1. TypeOK'
  BY SlotFacts, Here DEF TableInv, TypeOK, State, PC, fields, locks, thread,
     sched, ForkParent, At, Goto
<1>2. HartInv'
  BY SlotFacts, Here DEF TableInv, TypeOK, HartInv, fields, locks, thread,
     sched, ForkParent, At, Goto
<1>3. StateInv'
  BY SlotFacts, Here DEF TableInv, TypeOK, StateInv, OnHart, Entering, Leaving,
     fields, locks, thread, sched, ForkParent, At, Goto
<1>4. LockInv'
  BY SlotFacts, Here DEF TableInv, TypeOK, LockInv, Entering, Leaving, fields,
     locks, thread, sched, ForkParent, At, Goto
<1>5. WaitLockInv'
  BY SlotFacts, Here DEF TableInv, TypeOK, WaitLockInv, Waiting, fields, locks,
     thread, sched, ForkParent, At, Goto
<1>6. PlaceInv'
  BY SlotFacts, Here DEF TableInv, TypeOK, PlaceInv, Place, Interruptible,
     fields, locks, thread, sched, ForkParent, At, Goto
<1>7. ForkInv'
  BY SlotFacts, Here DEF TableInv, TypeOK, ForkInv, Place, Forking, fields,
     locks, thread, sched, ForkParent, At, Goto
<1>8. PidInv'
  BY SlotFacts, Here, <1>a, <1>b DEF TableInv, TypeOK, PidInv, fields, locks,
     thread, sched, ForkParent, At, Goto
<1>9. InitInv'
  BY SlotFacts, Here DEF TableInv, TypeOK, InitInv, fields, locks, thread,
     sched, ForkParent, At, Goto
<1>10. ExitInv'
  BY SlotFacts, Here DEF TableInv, TypeOK, ExitInv, fields, locks, thread,
     sched, ForkParent, At, Goto
<1>11. ParentCanWait'
  BY SlotFacts, Here, <1>a, <1>b DEF TableInv, TypeOK, ParentCanWait, fields,
     locks, thread, sched, ForkParent, At, Goto
<1> QED BY <1>1, <1>2, <1>3, <1>4, <1>5, <1>6, <1>7, <1>8, <1>9, <1>10, <1>11
   DEF TableInv

\* ForkRun keeps the table consistent.
LEMMA ForkRunTable ==
    ASSUME TableInv, NEW c \in CPU, NEW p \in Slot, ForkRun(c, p)
    PROVE  TableInv'
<1> DEFINE np == pp[p]
<1>a. cproc[c] = p /\ pc[p] = "forkrun" /\ state[p] = "RUNNING" /\ OnHart(p)
  BY Running, Here DEF ForkRun, At, Leaving
<1>b. np \in Slot /\ state[np] = "USED" /\ parent[np] = p
  BY <1>a DEF TableInv, ForkInv, Place, Forking
<1>c. ~OnHart(np) /\ pc[np] = "forkret" /\ np # p
  BY <1>a, <1>b, Off
<1>d. /\ \A q \in Slot : pc'[q] = IF q = p THEN "ret" ELSE pc[q]
      /\ \A q \in Slot : state'[q] = IF q = np THEN "RUNNABLE" ELSE state[q]
  BY <1>b, <1>c DEF ForkRun, Goto, TableInv, TypeOK
<1>e. UNCHANGED <<parent, chan, killed, pid, nextpid, wait_lock, sched>>
  BY DEF ForkRun
<1>1. TypeOK'
  BY SlotFacts, Here DEF TableInv, TypeOK, State, PC, fields, locks, thread,
     sched, ForkRun, At, BrieflyLocked, Free, Goto
<1>2. HartInv'
  BY SlotFacts, Here DEF TableInv, TypeOK, HartInv, fields, locks, thread,
     sched, ForkRun, At, BrieflyLocked, Free, Goto
<1>3. StateInv'
  <2>1. \A q \in Slot : OnHart(q)' <=> OnHart(q)
    BY <1>e DEF OnHart, sched
  <2> QED BY <1>a, <1>c, <1>d, <2>1 DEF TableInv, StateInv, Entering, Leaving
<1>4. LockInv'
  BY SlotFacts, Here DEF TableInv, TypeOK, LockInv, Entering, Leaving, fields,
     locks, thread, sched, ForkRun, At, BrieflyLocked, Free, Goto
<1>5. WaitLockInv'
  BY SlotFacts, Here DEF TableInv, TypeOK, WaitLockInv, Waiting, fields, locks,
     thread, sched, ForkRun, At, BrieflyLocked, Free, Goto
<1>6. PlaceInv'
  BY SlotFacts, Here DEF TableInv, TypeOK, PlaceInv, Place, Interruptible,
     fields, locks, thread, sched, ForkRun, At, BrieflyLocked, Free, Goto
<1>7. ForkInv'
  BY SlotFacts, Here DEF TableInv, TypeOK, ForkInv, Place, Forking, fields,
     locks, thread, sched, ForkRun, At, BrieflyLocked, Free, Goto
<1>8. PidInv'
  BY <1>b, <1>d, <1>e DEF TableInv, PidInv
<1>9. InitInv'
  BY SlotFacts, Here DEF TableInv, TypeOK, InitInv, fields, locks, thread,
     sched, ForkRun, At, BrieflyLocked, Free, Goto
<1>10. ExitInv'
  BY SlotFacts, Here DEF TableInv, TypeOK, ExitInv, fields, locks, thread,
     sched, ForkRun, At, BrieflyLocked, Free, Goto
<1>11. ParentCanWait'
  <2>1. \A q \in Slot : q # np => state'[q] = state[q]
    BY <1>d
  <2>2. state'[np] = "RUNNABLE" /\ parent[np] # NoProc /\ parent' = parent
    BY <1>b, <1>d, <1>e, SlotFacts
  <2> HIDE DEF np
  <2> QED BY <2>1, <2>2 DEF TableInv, TypeOK, ParentCanWait
<1> QED BY <1>1, <1>2, <1>3, <1>4, <1>5, <1>6, <1>7, <1>8, <1>9, <1>10, <1>11
   DEF TableInv

\* Exit keeps the table consistent.
LEMMA ExitTable ==
    ASSUME TableInv, NEW c \in CPU, NEW p \in Slot, Exit(c, p)
    PROVE  TableInv'
<1>1. TypeOK'
  BY SlotFacts, Here DEF TableInv, TypeOK, State, PC, fields, locks, thread,
     sched, Exit, At, Goto
<1>2. HartInv'
  BY SlotFacts, Here DEF TableInv, TypeOK, HartInv, fields, locks, thread,
     sched, Exit, At, Goto
<1>3. StateInv'
  BY SlotFacts, Here DEF TableInv, TypeOK, StateInv, OnHart, Entering, Leaving,
     fields, locks, thread, sched, Exit, At, Goto
<1>4. LockInv'
  BY SlotFacts, Here DEF TableInv, TypeOK, LockInv, Entering, Leaving, fields,
     locks, thread, sched, Exit, At, Goto
<1>5. WaitLockInv'
  BY SlotFacts, Here DEF TableInv, TypeOK, WaitLockInv, Waiting, fields, locks,
     thread, sched, Exit, At, Goto
<1>6. PlaceInv'
  BY SlotFacts, Here DEF TableInv, TypeOK, PlaceInv, Place, Interruptible,
     fields, locks, thread, sched, Exit, At, Goto
<1>7. ForkInv'
  BY SlotFacts, Here DEF TableInv, TypeOK, ForkInv, Place, Forking, fields,
     locks, thread, sched, Exit, At, Goto
<1>8. PidInv'
  BY SlotFacts, Here DEF TableInv, TypeOK, PidInv, fields, locks, thread,
     sched, Exit, At, Goto
<1>9. InitInv'
  BY SlotFacts, Here DEF TableInv, TypeOK, InitInv, fields, locks, thread,
     sched, Exit, At, Goto
<1>10. ExitInv'
  BY SlotFacts, Here DEF TableInv, TypeOK, ExitInv, fields, locks, thread,
     sched, Exit, At, Goto
<1>11. ParentCanWait'
  BY SlotFacts, Here DEF TableInv, TypeOK, ParentCanWait, fields, locks,
     thread, sched, Exit, At, Goto
<1> QED BY <1>1, <1>2, <1>3, <1>4, <1>5, <1>6, <1>7, <1>8, <1>9, <1>10, <1>11
   DEF TableInv

\* Reparent keeps the table consistent.
LEMMA ReparentTable ==
    ASSUME TableInv, NEW c \in CPU, NEW p \in Slot, Reparent(c, p)
    PROVE  TableInv'
<1> DEFINE kids == ChildrenFrom(p, pp[p])
           k    == First(kids)
<1>a. cproc[c] = p /\ pc[p] = "reparent" /\ state[p] = "RUNNING" /\ p # initproc
  BY Running DEF Reparent, At, Leaving, TableInv, InitInv
<1>b. kids \subseteq Slot /\ \A q \in kids : q >= pp[p] /\ parent[q] = p
  BY DEF ChildrenFrom
<1>c. kids # {} => k \in Slot /\ k \in kids /\ \A q \in kids : k <= q
  BY <1>b, FirstIs
<1>d. \/ /\ kids # {} /\ parent' = [parent EXCEPT ![k] = initproc]
         /\ pp' = [pp EXCEPT ![p] = k + 1] /\ after' = [after EXCEPT ![p] = "reparent"]
         /\ local' = [local EXCEPT ![p] = initproc]
      \/ /\ kids = {} /\ parent' = parent
         /\ pp' = [pp EXCEPT ![p] = 0] /\ after' = [after EXCEPT ![p] = "zombie"]
         /\ local' = [local EXCEPT ![p] = parent[p]]
  BY DEF Reparent, CallWakeup
<1> HIDE DEF kids, k
<1>e. /\ pc' = [pc EXCEPT ![p] = "wakeup"] /\ w' = [w EXCEPT ![p] = 0]
      /\ UNCHANGED <<state, chan, killed, pid, nextpid, locks, sched, victims>>
  BY DEF Reparent, CallWakeup, Goto
<1>f. \A q \in Slot : parent'[q] = parent[q] \/ (parent[q] = p /\ parent'[q] = initproc)
  BY <1>b, <1>c, <1>d DEF TableInv, TypeOK
<1>1. TypeOK'
  <2>1. parent' \in [Slot -> Slot \cup {NoProc}]
    BY <1>c, <1>d, SlotFacts DEF TableInv, TypeOK
  <2>2. pp' \in [Slot -> Nat]
    <3>1. \A s \in Slot : s + 1 \in Nat
      BY SlotFacts
    <3>2. kids # {} => k + 1 \in Nat
      BY <1>c, <3>1
    <3> QED BY <1>d, <3>2 DEF TableInv, TypeOK
  <2>3. after' \in [Slot -> PC]
    BY <1>d DEF TableInv, TypeOK, PC
  <2>4. local' \in [Slot -> Nat \cup {NoProc}]
    <3>1. initproc \in Nat \cup {NoProc} /\ parent[p] \in Nat \cup {NoProc}
      BY SlotFacts DEF TableInv, TypeOK
    <3> QED BY <1>d, <3>1 DEF TableInv, TypeOK
  <2>5. pc' \in [Slot -> PC] /\ w' \in [Slot -> Slot]
    BY <1>e, LoopSlots DEF TableInv, TypeOK, PC
  <2> QED BY <1>e, <2>1, <2>2, <2>3, <2>4, <2>5 DEF TableInv, TypeOK, locks, sched
<1>2. HartInv'
  BY SlotFacts, Here DEF TableInv, TypeOK, HartInv, fields, locks, thread,
     sched, Reparent, At, CallWakeup, Goto
<1>3. StateInv'
  BY SlotFacts, Here DEF TableInv, TypeOK, StateInv, OnHart, Entering, Leaving,
     fields, locks, thread, sched, Reparent, At, CallWakeup, Goto
<1>4. LockInv'
  BY SlotFacts, Here DEF TableInv, TypeOK, LockInv, Entering, Leaving, fields,
     locks, thread, sched, Reparent, At, CallWakeup, Goto
<1>5. WaitLockInv'
  BY SlotFacts, Here DEF TableInv, TypeOK, WaitLockInv, Waiting, fields, locks,
     thread, sched, Reparent, At, CallWakeup, Goto
<1>6. PlaceInv'
  BY SlotFacts, Here DEF TableInv, TypeOK, PlaceInv, Place, Interruptible,
     fields, locks, thread, sched, Reparent, At, CallWakeup, Goto
<1>7. ForkInv'
  <2>1. \A q \in Slot : q # p => pp'[q] = pp[q] /\ pc'[q] = pc[q] /\ after'[q] = after[q]
    BY <1>d, <1>e DEF TableInv, TypeOK
  <2>2. \A q \in Slot : q # p => Place(q)' = Place(q)
    BY <2>1 DEF Place
  <2>3. Place(p)' \notin Forking
    BY <1>e DEF Place, Forking, TableInv, TypeOK
  <2>4. \A q \in Slot : Place(q) \in Forking /\ q # p => parent'[pp[q]] = parent[pp[q]]
    BY <1>f, SlotFacts DEF TableInv, ForkInv
  <2> QED BY <1>e, <2>1, <2>2, <2>3, <2>4 DEF TableInv, ForkInv
<1>8. PidInv'
  BY <1>e, <1>f, SlotFacts DEF TableInv, PidInv
<1>9. InitInv'
  BY SlotFacts, Here DEF TableInv, TypeOK, InitInv, fields, locks, thread,
     sched, Reparent, At, CallWakeup, Goto
<1>10. ExitInv'
  <2>1. \A q \in Slot : q # p => pp'[q] = pp[q] /\ pc'[q] = pc[q] /\ after'[q] = after[q]
    BY <1>d, <1>e DEF TableInv, TypeOK
  <2>2. \A q \in Slot : q < pp[p] => parent[q] # p
    BY <1>a DEF TableInv, ExitInv
  <2>3. \A q \in Slot : q # p /\ pc[q] \in {"reparent", "wakeup", "zombie"} => q # initproc
    BY DEF TableInv, InitInv
  <2>4. pc'[p] = "wakeup"
    BY <1>e DEF TableInv, TypeOK
  <2>5. ASSUME kids # {}
        PROVE  /\ after'[p] = "reparent" /\ pp'[p] = k + 1
               /\ \A q \in Slot : q < k + 1 => parent'[q] # p
    <3>1. after'[p] = "reparent" /\ pp'[p] = k + 1
      BY <1>d, <2>5 DEF TableInv, TypeOK
    <3>2. \A q \in Slot : parent'[q] = IF q = k THEN initproc ELSE parent[q]
      BY <1>c, <1>d, <2>5 DEF TableInv, TypeOK
    <3>3. ASSUME NEW q \in Slot, q < k + 1, q # k PROVE parent[q] # p
      <4>a. q \in Nat /\ k \in Nat
        BY <1>c, <2>5, SlotFacts
      <4>1. q \in Nat /\ k \in Nat /\ pp[p] \in Nat /\ q < k
        BY <3>3, <4>a DEF TableInv, TypeOK
      <4>2. q \notin kids
        BY <4>1, <1>c, <2>5
      <4> QED BY <4>1, <4>2, <2>2 DEF kids, ChildrenFrom
    <3> QED BY <1>a, <3>1, <3>2, <3>3
  <2>6. ASSUME kids = {}
        PROVE  after'[p] = "zombie" /\ \A q \in Slot : parent'[q] # p
    BY <2>2, <2>6, <1>d, SlotFacts DEF kids, ChildrenFrom, TableInv, TypeOK
  <2>7. \A q \in Slot : q # p /\ pc[q] \in {"reparent", "wakeup", "zombie"} =>
            \A r \in Slot : parent[r] # q => parent'[r] # q
    BY <1>f, <2>3
  <2> QED BY <2>1, <2>4, <2>5, <2>6, <2>7 DEF TableInv, ExitInv
<1>11. ParentCanWait'
  BY <1>e, <1>f, SlotFacts DEF TableInv, TypeOK, ParentCanWait, InitInv
<1> QED BY <1>1, <1>2, <1>3, <1>4, <1>5, <1>6, <1>7, <1>8, <1>9, <1>10, <1>11
   DEF TableInv

\* Wakeup keeps the table consistent.
LEMMA WakeupTable ==
    ASSUME TableInv, NEW c \in CPU, NEW p \in Slot, Wakeup(c, p)
    PROVE  TableInv'
<1> DEFINE q == w[p]
<1>a. cproc[c] = p /\ pc[p] = "wakeup" /\ state[p] = "RUNNING" /\ q \in Slot
  BY Running DEF Wakeup, At, Leaving, TableInv, TypeOK
<1>b. /\ lock' = lock
      /\ \/ state' = state
         \/ /\ state[q] = "SLEEPING" /\ pc[q] = "waitwoken" /\ ~OnHart(q) /\ q # p
            /\ state' = [state EXCEPT ![q] = "RUNNABLE"]
  <2>1. lock' = lock /\ (q # p => Free(q))
    BY DEF Wakeup, BrieflyLocked
  <2>2. \/ state' = state
        \/ /\ state[q] = "SLEEPING" /\ q # p
           /\ state' = [state EXCEPT ![q] = "RUNNABLE"]
    BY <1>a DEF Wakeup, TableInv, TypeOK
  <2> QED BY <1>a, <2>1, <2>2, Off
<1>c. \/ pc' = pc /\ after' = after /\ local' = local
                  /\ q + 1 < NPROC /\ w' = [w EXCEPT ![p] = q + 1]
      \/ /\ pc' = [pc EXCEPT ![p] = after[p]] /\ after' = [after EXCEPT ![p] = "none"]
         /\ local' = [local EXCEPT ![p] = 0] /\ w' = [w EXCEPT ![p] = 0]
         /\ ~(q + 1 < NPROC)
  BY DEF Wakeup, Goto
<1>d. after[p] \in {"reparent", "zombie"}
  BY <1>a DEF TableInv, PlaceInv
<1>e. UNCHANGED <<parent, chan, killed, pid, nextpid, wait_lock, sched, pp, victims>>
  BY DEF Wakeup
<1>f. \A r \in Slot : r # p => pc'[r] = pc[r] /\ after'[r] = after[r]
  BY <1>c DEF TableInv, TypeOK
<1>g. pc'[p] \in {"wakeup", "reparent", "zombie"}
  BY <1>a, <1>c, <1>d DEF TableInv, TypeOK
<1>h. \A r \in Slot : \/ state'[r] = state[r]
                      \/ /\ state[r] = "SLEEPING" /\ state'[r] = "RUNNABLE"
                         /\ pc[r] = "waitwoken" /\ ~OnHart(r) /\ r # p
  BY <1>a, <1>b DEF TableInv, TypeOK
<1>1. TypeOK'
  <2>1. state' \in [Slot -> State]
    BY <1>b DEF TableInv, TypeOK, State
  <2>2. w' \in [Slot -> Slot]
    BY <1>a, <1>c, LoopSlots DEF TableInv, TypeOK
  <2>3. local' \in [Slot -> Nat \cup {NoProc}]
    BY <1>c DEF TableInv, TypeOK
  <2>4. pc' \in [Slot -> PC] /\ after' \in [Slot -> PC]
    BY <1>c, <1>d DEF TableInv, TypeOK, PC
  <2> QED BY <1>b, <1>e, <2>1, <2>2, <2>3, <2>4 DEF TableInv, TypeOK, sched
<1>2. HartInv'
  BY SlotFacts, Here DEF TableInv, TypeOK, HartInv, fields, locks, thread,
     sched, Wakeup, At, BrieflyLocked, Free, Goto
<1>3. StateInv'
  <2>1. \A r \in Slot : OnHart(r)' <=> OnHart(r)
    BY <1>e DEF OnHart, sched
  <2>2. OnHart(p)
    BY <1>a, Here
  <2> QED BY <1>a, <1>f, <1>g, <1>h, <2>1, <2>2 DEF TableInv, StateInv, Entering, Leaving
<1>4. LockInv'
  BY <1>a, <1>b, <1>e, <1>f, <1>g, SlotFacts
     DEF TableInv, LockInv, Entering, Leaving, sched
<1>5. WaitLockInv'
  BY <1>a, <1>e, <1>f, <1>g, SlotFacts DEF TableInv, WaitLockInv, Waiting, sched
<1>6. PlaceInv'
  BY SlotFacts, Here DEF TableInv, TypeOK, PlaceInv, Place, Interruptible,
     fields, locks, thread, sched, Wakeup, At, BrieflyLocked, Free, Goto
<1>7. ForkInv'
  <2>1. \A r \in Slot : Place(r)' \in Forking => Place(r)' = Place(r)
    BY <1>f, <1>g DEF Place, Forking
  <2> QED BY <1>e, <1>h, <2>1 DEF TableInv, ForkInv
<1>8. PidInv'
  BY SlotFacts, Here DEF TableInv, TypeOK, PidInv, fields, locks, thread,
     sched, Wakeup, At, BrieflyLocked, Free, Goto
<1>9. InitInv'
  BY SlotFacts, Here DEF TableInv, TypeOK, InitInv, fields, locks, thread,
     sched, Wakeup, At, BrieflyLocked, Free, Goto
<1>10. ExitInv'
  BY SlotFacts, Here DEF TableInv, TypeOK, ExitInv, fields, locks, thread,
     sched, Wakeup, At, BrieflyLocked, Free, Goto
<1>11. ParentCanWait'
  <2>1. /\ parent' = parent /\ \A r \in Slot : parent[r] \in Slot \cup {NoProc}
        /\ \A r \in Slot : state'[r] \in {"UNUSED", "USED"} => state'[r] = state[r]
        /\ \A r \in Slot : state[r] \in {"SLEEPING", "RUNNABLE", "RUNNING"} =>
              state'[r] \in {"SLEEPING", "RUNNABLE", "RUNNING"}
        /\ \A r \in Slot : state[r] \in {"UNUSED", "USED"} => state'[r] = state[r]
    BY <1>e, <1>h DEF TableInv, TypeOK
  <2>2. ASSUME NEW r \in Slot, parent'[r] # NoProc
        PROVE  state'[parent'[r]] \in {"SLEEPING", "RUNNABLE", "RUNNING"}
    BY <2>1, <2>2 DEF TableInv, ParentCanWait
  <2>3. ASSUME NEW r \in Slot, r # initproc, state'[r] \notin {"UNUSED", "USED"}
        PROVE  parent'[r] # NoProc
    BY <2>1, <2>3 DEF TableInv, ParentCanWait
  <2> QED BY <2>2, <2>3 DEF ParentCanWait
<1> QED BY <1>1, <1>2, <1>3, <1>4, <1>5, <1>6, <1>7, <1>8, <1>9, <1>10, <1>11
   DEF TableInv

\* ExitZombie keeps the table consistent.
LEMMA ExitZombieTable ==
    ASSUME TableInv, NEW c \in CPU, NEW p \in Slot, ExitZombie(c, p)
    PROVE  TableInv'
<1>a. cproc[c] = p /\ state[p] = "RUNNING" /\ p # initproc
  BY Running DEF ExitZombie, At, Leaving, TableInv, InitInv
<1>1. TypeOK'
  BY SlotFacts, Here DEF TableInv, TypeOK, State, PC, fields, locks, thread,
     sched, ExitZombie, At, Free, Goto
<1>2. HartInv'
  BY SlotFacts, Here DEF TableInv, TypeOK, HartInv, fields, locks, thread,
     sched, ExitZombie, At, Free, Goto
<1>3. StateInv'
  BY SlotFacts, Here DEF TableInv, TypeOK, StateInv, OnHart, Entering, Leaving,
     fields, locks, thread, sched, ExitZombie, At, Free, Goto
<1>4. LockInv'
  BY SlotFacts, Here DEF TableInv, TypeOK, LockInv, Entering, Leaving, fields,
     locks, thread, sched, ExitZombie, At, Free, Goto
<1>5. WaitLockInv'
  BY SlotFacts, Here DEF TableInv, TypeOK, WaitLockInv, Waiting, fields, locks,
     thread, sched, ExitZombie, At, Free, Goto
<1>6. PlaceInv'
  BY SlotFacts, Here DEF TableInv, TypeOK, PlaceInv, Place, Interruptible,
     fields, locks, thread, sched, ExitZombie, At, Free, Goto
<1>7. ForkInv'
  BY SlotFacts, Here, <1>a DEF TableInv, TypeOK, ForkInv, Place, Forking,
     fields, locks, thread, sched, ExitZombie, At, Free, Goto
<1>8. PidInv'
  BY SlotFacts, Here, <1>a DEF TableInv, TypeOK, PidInv, fields, locks, thread,
     sched, ExitZombie, At, Free, Goto
<1>9. InitInv'
  BY SlotFacts, Here DEF TableInv, TypeOK, InitInv, fields, locks, thread,
     sched, ExitZombie, At, Free, Goto
<1>10. ExitInv'
  BY SlotFacts, Here DEF TableInv, TypeOK, ExitInv, fields, locks, thread,
     sched, ExitZombie, At, Free, Goto
<1>11. ParentCanWait'
  BY SlotFacts, Here, <1>a DEF TableInv, TypeOK, ParentCanWait, ExitInv,
     fields, locks, thread, sched, ExitZombie, At, Free, Goto
<1> QED BY <1>1, <1>2, <1>3, <1>4, <1>5, <1>6, <1>7, <1>8, <1>9, <1>10, <1>11
   DEF TableInv

\* WaitLock keeps the table consistent.
LEMMA WaitLockTable ==
    ASSUME TableInv, NEW c \in CPU, NEW p \in Slot, WaitLock(c, p)
    PROVE  TableInv'
<1>1. TypeOK'
  BY SlotFacts, Here DEF TableInv, TypeOK, State, PC, fields, locks, thread,
     sched, WaitLock, At, Goto
<1>2. HartInv'
  BY SlotFacts, Here DEF TableInv, TypeOK, HartInv, fields, locks, thread,
     sched, WaitLock, At, Goto
<1>3. StateInv'
  BY SlotFacts, Here DEF TableInv, TypeOK, StateInv, OnHart, Entering, Leaving,
     fields, locks, thread, sched, WaitLock, At, Goto
<1>4. LockInv'
  BY SlotFacts, Here DEF TableInv, TypeOK, LockInv, Entering, Leaving, fields,
     locks, thread, sched, WaitLock, At, Goto
<1>5. WaitLockInv'
  BY SlotFacts, Here DEF TableInv, TypeOK, WaitLockInv, Waiting, fields, locks,
     thread, sched, WaitLock, At, Goto
<1>6. PlaceInv'
  BY SlotFacts, Here DEF TableInv, TypeOK, PlaceInv, Place, Interruptible,
     fields, locks, thread, sched, WaitLock, At, Goto
<1>7. ForkInv'
  BY SlotFacts, Here DEF TableInv, TypeOK, ForkInv, Place, Forking, fields,
     locks, thread, sched, WaitLock, At, Goto
<1>8. PidInv'
  BY SlotFacts, Here DEF TableInv, TypeOK, PidInv, fields, locks, thread,
     sched, WaitLock, At, Goto
<1>9. InitInv'
  BY SlotFacts, Here DEF TableInv, TypeOK, InitInv, fields, locks, thread,
     sched, WaitLock, At, Goto
<1>10. ExitInv'
  BY SlotFacts, Here DEF TableInv, TypeOK, ExitInv, fields, locks, thread,
     sched, WaitLock, At, Goto
<1>11. ParentCanWait'
  BY SlotFacts, Here DEF TableInv, TypeOK, ParentCanWait, fields, locks,
     thread, sched, WaitLock, At, Goto
<1> QED BY <1>1, <1>2, <1>3, <1>4, <1>5, <1>6, <1>7, <1>8, <1>9, <1>10, <1>11
   DEF TableInv

\* WaitChild keeps the table consistent.
LEMMA WaitChildTable ==
    ASSUME TableInv, NEW c \in CPU, NEW p \in Slot, WaitChild(c, p)
    PROVE  TableInv'
<1> DEFINE kids == ChildrenFrom(p, pp[p])
           q    == First(kids)
<1>a. cproc[c] = p /\ pc[p] = "waitscan" /\ state[p] = "RUNNING"
  BY Running DEF WaitChild, At, Leaving
<1>b. kids \subseteq Slot /\ kids # {} /\ \A r \in kids : r >= pp[p] /\ parent[r] = p
  BY DEF WaitChild, ChildrenFrom
<1>c. q \in Slot /\ q \in kids /\ (\A r \in kids : q <= r) /\ parent[q] = p
  BY <1>b, FirstIs
<1>d. /\ lock' = lock /\ Free(q)
      /\ \/ /\ state[q] = "ZOMBIE" /\ WaitReturn(p)
            /\ freeproc(q) \/ UNCHANGED <<state, parent, chan, killed, pid>>
         \/ /\ state[q] # "ZOMBIE"
            /\ pp' = [pp EXCEPT ![p] = q + 1] /\ local' = [local EXCEPT ![p] = 1]
            /\ UNCHANGED <<state, parent, chan, killed, pid, wait_lock, pc>>
  BY DEF WaitChild, BrieflyLocked
<1>e. UNCHANGED <<nextpid, sched, w, after, victims>>
  BY DEF WaitChild
<1> HIDE DEF kids, q
<1>f. state[q] = "ZOMBIE" => ~OnHart(q) /\ pc[q] = "none" /\ q # p /\ q # initproc
  BY <1>a, <1>c, <1>d, Off DEF TableInv, InitInv
<1>g. \/ UNCHANGED <<state, parent, pid>>
      \/ /\ state[q] = "ZOMBIE" /\ freeproc(q) /\ pc'[p] = "ret"
  BY <1>d DEF WaitReturn, Goto, TableInv, TypeOK
<1>h. \A r \in Slot : r # q => /\ state'[r] = state[r] /\ parent'[r] = parent[r]
                               /\ pid'[r] = pid[r]
  BY <1>d DEF freeproc, TableInv, TypeOK
<1>i. \/ UNCHANGED <<state, parent, pid>>
      \/ /\ state[q] = "ZOMBIE" /\ state'[q] = "UNUSED" /\ parent'[q] = NoProc
         /\ pid'[q] = 0
  BY <1>c, <1>d DEF freeproc, TableInv, TypeOK
<1>1. TypeOK'
  <2>1. /\ state' \in [Slot -> State] /\ pid' \in [Slot -> Nat]
        /\ killed' \in [Slot -> BOOLEAN]
    <3>1. CASE UNCHANGED <<state, parent, chan, killed, pid>>
      BY <3>1 DEF TableInv, TypeOK
    <3>2. CASE freeproc(q)
      <4>1. state' \in [Slot -> State]
        BY <3>2 DEF freeproc, TableInv, TypeOK, State
      <4>2. pid' \in [Slot -> Nat]
        BY <3>2 DEF freeproc, TableInv, TypeOK
      <4>3. killed' \in [Slot -> BOOLEAN]
        BY <3>2 DEF freeproc, TableInv, TypeOK
      <4> QED BY <4>1, <4>2, <4>3
    <3> QED BY <1>d, <3>1, <3>2
  <2>2. /\ parent' \in [Slot -> Slot \cup {NoProc}]
        /\ chan' \in [Slot -> Slot \cup {NoProc}]
    BY <1>d DEF freeproc, TableInv, TypeOK
  <2>3. pp' \in [Slot -> Nat] /\ local' \in [Slot -> Nat \cup {NoProc}]
    <3>1. q + 1 \in Nat
      BY <1>c, SlotFacts
    <3> QED BY <1>d, <3>1 DEF WaitReturn, TableInv, TypeOK
  <2>4. pc' \in [Slot -> PC] /\ wait_lock' \in CPU \cup {NoCpu}
    BY <1>d DEF WaitReturn, Goto, TableInv, TypeOK, PC
  <2> QED BY <1>d, <1>e, <2>1, <2>2, <2>3, <2>4 DEF TableInv, TypeOK, sched
<1>2. HartInv'
  BY SlotFacts, Here DEF TableInv, TypeOK, HartInv, fields, locks, thread,
     sched, WaitChild, At, WaitReturn, freeproc, BrieflyLocked, Free, Goto
<1>3. StateInv'
  <2>1. \A r \in Slot : OnHart(r)' <=> OnHart(r)
    BY <1>e DEF OnHart, sched
  <2>2. OnHart(p)
    BY <1>a, Here
  <2>3. /\ pc'[p] \in {"waitscan", "ret"}
        /\ \A r \in Slot : r # p => pc'[r] = pc[r]
    BY <1>a, <1>d DEF WaitReturn, Goto, TableInv, TypeOK
  <2> QED BY <1>a, <1>c, <1>f, <1>h, <1>i, <2>1, <2>2, <2>3
       DEF TableInv, StateInv, Entering, Leaving
<1>4. LockInv'
  BY SlotFacts, Here DEF TableInv, TypeOK, LockInv, Entering, Leaving, fields,
     locks, thread, sched, WaitChild, At, WaitReturn, freeproc, BrieflyLocked,
     Free, Goto
<1>5. WaitLockInv'
  BY SlotFacts, Here DEF TableInv, TypeOK, WaitLockInv, Waiting, fields, locks,
     thread, sched, WaitChild, At, WaitReturn, freeproc, BrieflyLocked, Free,
     Goto
<1>6. PlaceInv'
  BY SlotFacts, Here DEF TableInv, TypeOK, PlaceInv, Place, Interruptible,
     fields, locks, thread, sched, WaitChild, At, WaitReturn, freeproc,
     BrieflyLocked, Free, Goto
<1>7. ForkInv'
  BY SlotFacts, Here DEF TableInv, TypeOK, ForkInv, Place, Forking, fields,
     locks, thread, sched, WaitChild, At, WaitReturn, freeproc, BrieflyLocked,
     Free, Goto
<1>8. PidInv'
  <2>1. nextpid' >= 2 /\ pid'[initproc] = 1
    BY <1>e, <1>f, <1>h, <1>i, SlotFacts DEF TableInv, PidInv
  <2>2. \A r \in Slot : pid'[r] < nextpid'
    BY <1>c, <1>e, <1>h, <1>i DEF TableInv, TypeOK, PidInv
  <2>3. \A r \in Slot : /\ state'[r] = "UNUSED" <=> pid'[r] = 0
                        /\ state'[r] = "UNUSED" => parent'[r] = NoProc
    BY <1>c, <1>h, <1>i DEF TableInv, PidInv
  <2>4. \A s, r \in Slot : pid'[s] = pid'[r] /\ pid'[s] # 0 => s = r
    BY <1>h, <1>i DEF TableInv, PidInv
  <2> QED BY <2>1, <2>2, <2>3, <2>4 DEF PidInv
<1>9. InitInv'
  BY SlotFacts, Here DEF TableInv, TypeOK, InitInv, fields, locks, thread,
     sched, WaitChild, At, WaitReturn, freeproc, BrieflyLocked, Free, Goto
<1>10. ExitInv'
  BY SlotFacts, Here DEF TableInv, TypeOK, ExitInv, fields, locks, thread,
     sched, WaitChild, At, WaitReturn, freeproc, BrieflyLocked, Free, Goto
<1>11. ParentCanWait'
  <2>1. state[q] = "ZOMBIE" => \A r \in Slot : parent[r] # q
    BY <1>c, SlotFacts DEF TableInv, ParentCanWait
  <2> QED BY <1>c, <1>h, <1>i, <2>1 DEF TableInv, TypeOK, ParentCanWait
<1> QED BY <1>1, <1>2, <1>3, <1>4, <1>5, <1>6, <1>7, <1>8, <1>9, <1>10, <1>11
   DEF TableInv

\* WaitScanned keeps the table consistent.
LEMMA WaitScannedTable ==
    ASSUME TableInv, NEW c \in CPU, NEW p \in Slot, WaitScanned(c, p)
    PROVE  TableInv'
<1>1. TypeOK'
  BY SlotFacts, Here DEF TableInv, TypeOK, State, PC, fields, locks, thread,
     sched, WaitScanned, At, WaitReturn, Goto
<1>2. HartInv'
  BY SlotFacts, Here DEF TableInv, TypeOK, HartInv, fields, locks, thread,
     sched, WaitScanned, At, WaitReturn, Goto
<1>3. StateInv'
  BY SlotFacts, Here DEF TableInv, TypeOK, StateInv, OnHart, Entering, Leaving,
     fields, locks, thread, sched, WaitScanned, At, WaitReturn, Goto
<1>4. LockInv'
  BY SlotFacts, Here DEF TableInv, TypeOK, LockInv, Entering, Leaving, fields,
     locks, thread, sched, WaitScanned, At, WaitReturn, Goto
<1>5. WaitLockInv'
  BY SlotFacts, Here DEF TableInv, TypeOK, WaitLockInv, Waiting, fields, locks,
     thread, sched, WaitScanned, At, WaitReturn, Goto
<1>6. PlaceInv'
  BY SlotFacts, Here DEF TableInv, TypeOK, PlaceInv, Place, Interruptible,
     fields, locks, thread, sched, WaitScanned, At, WaitReturn, Goto
<1>7. ForkInv'
  BY SlotFacts, Here DEF TableInv, TypeOK, ForkInv, Place, Forking, fields,
     locks, thread, sched, WaitScanned, At, WaitReturn, Goto
<1>8. PidInv'
  BY SlotFacts, Here DEF TableInv, TypeOK, PidInv, fields, locks, thread,
     sched, WaitScanned, At, WaitReturn, Goto
<1>9. InitInv'
  BY SlotFacts, Here DEF TableInv, TypeOK, InitInv, fields, locks, thread,
     sched, WaitScanned, At, WaitReturn, Goto
<1>10. ExitInv'
  BY SlotFacts, Here DEF TableInv, TypeOK, ExitInv, fields, locks, thread,
     sched, WaitScanned, At, WaitReturn, Goto
<1>11. ParentCanWait'
  BY SlotFacts, Here DEF TableInv, TypeOK, ParentCanWait, fields, locks,
     thread, sched, WaitScanned, At, WaitReturn, Goto
<1> QED BY <1>1, <1>2, <1>3, <1>4, <1>5, <1>6, <1>7, <1>8, <1>9, <1>10, <1>11
   DEF TableInv

\* WaitKilled keeps the table consistent.
LEMMA WaitKilledTable ==
    ASSUME TableInv, NEW c \in CPU, NEW p \in Slot, WaitKilled(c, p)
    PROVE  TableInv'
<1>1. TypeOK'
  BY SlotFacts, Here DEF TableInv, TypeOK, State, PC, fields, locks, thread,
     sched, WaitKilled, At, WaitReturn, BrieflyLocked, Free, Goto
<1>2. HartInv'
  BY SlotFacts, Here DEF TableInv, TypeOK, HartInv, fields, locks, thread,
     sched, WaitKilled, At, WaitReturn, BrieflyLocked, Free, Goto
<1>3. StateInv'
  BY SlotFacts, Here DEF TableInv, TypeOK, StateInv, OnHart, Entering, Leaving,
     fields, locks, thread, sched, WaitKilled, At, WaitReturn, BrieflyLocked,
     Free, Goto
<1>4. LockInv'
  BY SlotFacts, Here DEF TableInv, TypeOK, LockInv, Entering, Leaving, fields,
     locks, thread, sched, WaitKilled, At, WaitReturn, BrieflyLocked, Free,
     Goto
<1>5. WaitLockInv'
  BY SlotFacts, Here DEF TableInv, TypeOK, WaitLockInv, Waiting, fields, locks,
     thread, sched, WaitKilled, At, WaitReturn, BrieflyLocked, Free, Goto
<1>6. PlaceInv'
  BY SlotFacts, Here DEF TableInv, TypeOK, PlaceInv, Place, Interruptible,
     fields, locks, thread, sched, WaitKilled, At, WaitReturn, BrieflyLocked,
     Free, Goto
<1>7. ForkInv'
  BY SlotFacts, Here DEF TableInv, TypeOK, ForkInv, Place, Forking, fields,
     locks, thread, sched, WaitKilled, At, WaitReturn, BrieflyLocked, Free,
     Goto
<1>8. PidInv'
  BY SlotFacts, Here DEF TableInv, TypeOK, PidInv, fields, locks, thread,
     sched, WaitKilled, At, WaitReturn, BrieflyLocked, Free, Goto
<1>9. InitInv'
  BY SlotFacts, Here DEF TableInv, TypeOK, InitInv, fields, locks, thread,
     sched, WaitKilled, At, WaitReturn, BrieflyLocked, Free, Goto
<1>10. ExitInv'
  BY SlotFacts, Here DEF TableInv, TypeOK, ExitInv, fields, locks, thread,
     sched, WaitKilled, At, WaitReturn, BrieflyLocked, Free, Goto
<1>11. ParentCanWait'
  BY SlotFacts, Here DEF TableInv, TypeOK, ParentCanWait, fields, locks,
     thread, sched, WaitKilled, At, WaitReturn, BrieflyLocked, Free, Goto
<1> QED BY <1>1, <1>2, <1>3, <1>4, <1>5, <1>6, <1>7, <1>8, <1>9, <1>10, <1>11
   DEF TableInv

\* WaitSleep keeps the table consistent.
LEMMA WaitSleepTable ==
    ASSUME TableInv, NEW c \in CPU, NEW p \in Slot, WaitSleep(c, p)
    PROVE  TableInv'
<1>a. cproc[c] = p /\ state[p] = "RUNNING"
  BY Running DEF WaitSleep, At, Leaving
<1>1. TypeOK'
  BY SlotFacts, Here DEF TableInv, TypeOK, State, PC, fields, locks, thread,
     sched, WaitSleep, At, Free, Goto
<1>2. HartInv'
  BY SlotFacts, Here DEF TableInv, TypeOK, HartInv, fields, locks, thread,
     sched, WaitSleep, At, Free, Goto
<1>3. StateInv'
  BY SlotFacts, Here DEF TableInv, TypeOK, StateInv, OnHart, Entering, Leaving,
     fields, locks, thread, sched, WaitSleep, At, Free, Goto
<1>4. LockInv'
  BY SlotFacts, Here DEF TableInv, TypeOK, LockInv, Entering, Leaving, fields,
     locks, thread, sched, WaitSleep, At, Free, Goto
<1>5. WaitLockInv'
  BY SlotFacts, Here DEF TableInv, TypeOK, WaitLockInv, Waiting, fields, locks,
     thread, sched, WaitSleep, At, Free, Goto
<1>6. PlaceInv'
  BY SlotFacts, Here DEF TableInv, TypeOK, PlaceInv, Place, Interruptible,
     fields, locks, thread, sched, WaitSleep, At, Free, Goto
<1>7. ForkInv'
  BY SlotFacts, Here, <1>a DEF TableInv, TypeOK, ForkInv, Place, Forking,
     fields, locks, thread, sched, WaitSleep, At, Free, Goto
<1>8. PidInv'
  BY SlotFacts, Here, <1>a DEF TableInv, TypeOK, PidInv, fields, locks, thread,
     sched, WaitSleep, At, Free, Goto
<1>9. InitInv'
  BY SlotFacts, Here DEF TableInv, TypeOK, InitInv, fields, locks, thread,
     sched, WaitSleep, At, Free, Goto
<1>10. ExitInv'
  BY SlotFacts, Here DEF TableInv, TypeOK, ExitInv, fields, locks, thread,
     sched, WaitSleep, At, Free, Goto
<1>11. ParentCanWait'
  BY SlotFacts, Here, <1>a DEF TableInv, TypeOK, ParentCanWait, fields, locks,
     thread, sched, WaitSleep, At, Free, Goto
<1> QED BY <1>1, <1>2, <1>3, <1>4, <1>5, <1>6, <1>7, <1>8, <1>9, <1>10, <1>11
   DEF TableInv

\* KillHit keeps the table consistent.
LEMMA KillHitTable ==
    ASSUME TableInv, NEW c \in CPU, NEW p \in Slot, KillHit(c, p)
    PROVE  TableInv'
<1> DEFINE q == pp[p]
<1>a. cproc[c] = p /\ pc[p] = "kill" /\ q \in Slot
  BY DEF KillHit, At, TableInv, PlaceInv, Place
<1>b. Free(q) /\ state[q] = "SLEEPING" => ~OnHart(q) /\ pc[q] = "waitwoken"
  BY <1>a, Off
<1>1. TypeOK'
  <2>1. state' \in [Slot -> State] /\ killed' \in [Slot -> BOOLEAN]
    BY <1>a DEF KillHit, TableInv, TypeOK, State
  <2>2. victims' \subseteq Nat
    <3>1. victims' = victims \cup {pid[q]} /\ pid[q] \in Nat /\ victims \subseteq Nat
      BY <1>a DEF KillHit, TableInv, TypeOK
    <3> QED BY <3>1
  <2>3. /\ pc' \in [Slot -> PC] /\ pp' \in [Slot -> Nat]
        /\ local' \in [Slot -> Nat \cup {NoProc}]
    BY DEF KillHit, KillDone, Goto, TableInv, TypeOK, PC
  <2> QED BY <2>1, <2>2, <2>3 DEF KillHit, BrieflyLocked, TableInv, TypeOK, sched
<1>2. HartInv'
  BY SlotFacts, Here DEF TableInv, TypeOK, HartInv, fields, locks, thread,
     sched, KillHit, At, KillDone, BrieflyLocked, Free, Goto
<1>3. StateInv'
  <2>1. \A r \in Slot : OnHart(r)' <=> OnHart(r)
    BY DEF KillHit, OnHart, sched
  <2>2. OnHart(p)
    BY <1>a, Here
  <2>3. /\ pc'[p] = "ret" /\ \A r \in Slot : r # p => pc'[r] = pc[r]
    BY DEF KillHit, KillDone, Goto, TableInv, TypeOK
  <2>4. \A r \in Slot : \/ state'[r] = state[r]
                        \/ r = q /\ state[q] = "SLEEPING" /\ state'[q] = "RUNNABLE"
    BY <1>a DEF KillHit, TableInv, TypeOK
  <2>5. Free(q)
    BY DEF KillHit, BrieflyLocked
  <2> QED BY <1>a, <1>b, <2>1, <2>2, <2>3, <2>4, <2>5
       DEF TableInv, StateInv, Entering, Leaving
<1>4. LockInv'
  BY SlotFacts, Here DEF TableInv, TypeOK, LockInv, Entering, Leaving, fields,
     locks, thread, sched, KillHit, At, KillDone, BrieflyLocked, Free, Goto
<1>5. WaitLockInv'
  BY SlotFacts, Here DEF TableInv, TypeOK, WaitLockInv, Waiting, fields, locks,
     thread, sched, KillHit, At, KillDone, BrieflyLocked, Free, Goto
<1>6. PlaceInv'
  BY SlotFacts, Here DEF TableInv, TypeOK, PlaceInv, Place, Interruptible,
     fields, locks, thread, sched, KillHit, At, KillDone, BrieflyLocked, Free,
     Goto
<1>7. ForkInv'
  BY SlotFacts, Here DEF TableInv, TypeOK, ForkInv, Place, Forking, fields,
     locks, thread, sched, KillHit, At, KillDone, BrieflyLocked, Free, Goto
<1>8. PidInv'
  BY SlotFacts, Here DEF TableInv, TypeOK, PidInv, fields, locks, thread,
     sched, KillHit, At, KillDone, BrieflyLocked, Free, Goto
<1>9. InitInv'
  BY SlotFacts, Here DEF TableInv, TypeOK, InitInv, fields, locks, thread,
     sched, KillHit, At, KillDone, BrieflyLocked, Free, Goto
<1>10. ExitInv'
  BY SlotFacts, Here DEF TableInv, TypeOK, ExitInv, fields, locks, thread,
     sched, KillHit, At, KillDone, BrieflyLocked, Free, Goto
<1>11. ParentCanWait'
  BY SlotFacts, Here DEF TableInv, TypeOK, ParentCanWait, fields, locks,
     thread, sched, KillHit, At, KillDone, BrieflyLocked, Free, Goto
<1> QED BY <1>1, <1>2, <1>3, <1>4, <1>5, <1>6, <1>7, <1>8, <1>9, <1>10, <1>11
   DEF TableInv

\* KillMiss keeps the table consistent.
LEMMA KillMissTable ==
    ASSUME TableInv, NEW c \in CPU, NEW p \in Slot, KillMiss(c, p)
    PROVE  TableInv'
<1>1. TypeOK'
  BY SlotFacts, Here DEF TableInv, TypeOK, State, PC, fields, locks, thread,
     sched, KillMiss, At, KillDone, BrieflyLocked, Free, Goto
<1>2. HartInv'
  BY SlotFacts, Here DEF TableInv, TypeOK, HartInv, fields, locks, thread,
     sched, KillMiss, At, KillDone, BrieflyLocked, Free, Goto
<1>3. StateInv'
  BY SlotFacts, Here DEF TableInv, TypeOK, StateInv, OnHart, Entering, Leaving,
     fields, locks, thread, sched, KillMiss, At, KillDone, BrieflyLocked, Free,
     Goto
<1>4. LockInv'
  BY SlotFacts, Here DEF TableInv, TypeOK, LockInv, Entering, Leaving, fields,
     locks, thread, sched, KillMiss, At, KillDone, BrieflyLocked, Free, Goto
<1>5. WaitLockInv'
  BY SlotFacts, Here DEF TableInv, TypeOK, WaitLockInv, Waiting, fields, locks,
     thread, sched, KillMiss, At, KillDone, BrieflyLocked, Free, Goto
<1>6. PlaceInv'
  BY SlotFacts, Here, LoopSlots DEF TableInv, TypeOK, PlaceInv, Place,
     Interruptible, fields, locks, thread, sched, KillMiss, At, KillDone,
     BrieflyLocked, Free, Goto
<1>7. ForkInv'
  BY SlotFacts, Here DEF TableInv, TypeOK, ForkInv, Place, Forking, fields,
     locks, thread, sched, KillMiss, At, KillDone, BrieflyLocked, Free, Goto
<1>8. PidInv'
  BY SlotFacts, Here DEF TableInv, TypeOK, PidInv, fields, locks, thread,
     sched, KillMiss, At, KillDone, BrieflyLocked, Free, Goto
<1>9. InitInv'
  BY SlotFacts, Here DEF TableInv, TypeOK, InitInv, fields, locks, thread,
     sched, KillMiss, At, KillDone, BrieflyLocked, Free, Goto
<1>10. ExitInv'
  BY SlotFacts, Here DEF TableInv, TypeOK, ExitInv, fields, locks, thread,
     sched, KillMiss, At, KillDone, BrieflyLocked, Free, Goto
<1>11. ParentCanWait'
  BY SlotFacts, Here DEF TableInv, TypeOK, ParentCanWait, fields, locks,
     thread, sched, KillMiss, At, KillDone, BrieflyLocked, Free, Goto
<1> QED BY <1>1, <1>2, <1>3, <1>4, <1>5, <1>6, <1>7, <1>8, <1>9, <1>10, <1>11
   DEF TableInv

\* SysFork keeps the table consistent.
LEMMA SysForkTable ==
    ASSUME TableInv, NEW c \in CPU, NEW p \in Slot, SysFork(c, p)
    PROVE  TableInv'
<1>1. TypeOK'
  BY SlotFacts, Here DEF TableInv, TypeOK, State, PC, fields, locks, thread,
     sched, SysFork, Trap, At, BrieflyLocked, Free, Goto
<1>2. HartInv'
  BY SlotFacts, Here DEF TableInv, TypeOK, HartInv, fields, locks, thread,
     sched, SysFork, Trap, At, BrieflyLocked, Free, Goto
<1>3. StateInv'
  BY SlotFacts, Here DEF TableInv, TypeOK, StateInv, OnHart, Entering, Leaving,
     fields, locks, thread, sched, SysFork, Trap, At, BrieflyLocked, Free, Goto
<1>4. LockInv'
  BY SlotFacts, Here DEF TableInv, TypeOK, LockInv, Entering, Leaving, fields,
     locks, thread, sched, SysFork, Trap, At, BrieflyLocked, Free, Goto
<1>5. WaitLockInv'
  BY SlotFacts, Here DEF TableInv, TypeOK, WaitLockInv, Waiting, fields, locks,
     thread, sched, SysFork, Trap, At, BrieflyLocked, Free, Goto
<1>6. PlaceInv'
  BY SlotFacts, Here, LoopSlots DEF TableInv, TypeOK, PlaceInv, Place,
     Interruptible, fields, locks, thread, sched, SysFork, Trap, At,
     BrieflyLocked, Free, Goto
<1>7. ForkInv'
  BY SlotFacts, Here DEF TableInv, TypeOK, ForkInv, Place, Forking, fields,
     locks, thread, sched, SysFork, Trap, At, BrieflyLocked, Free, Goto
<1>8. PidInv'
  BY SlotFacts, Here DEF TableInv, TypeOK, PidInv, fields, locks, thread,
     sched, SysFork, Trap, At, BrieflyLocked, Free, Goto
<1>9. InitInv'
  BY SlotFacts, Here DEF TableInv, TypeOK, InitInv, fields, locks, thread,
     sched, SysFork, Trap, At, BrieflyLocked, Free, Goto
<1>10. ExitInv'
  BY SlotFacts, Here DEF TableInv, TypeOK, ExitInv, fields, locks, thread,
     sched, SysFork, Trap, At, BrieflyLocked, Free, Goto
<1>11. ParentCanWait'
  BY SlotFacts, Here DEF TableInv, TypeOK, ParentCanWait, fields, locks,
     thread, sched, SysFork, Trap, At, BrieflyLocked, Free, Goto
<1> QED BY <1>1, <1>2, <1>3, <1>4, <1>5, <1>6, <1>7, <1>8, <1>9, <1>10, <1>11
   DEF TableInv

\* SysExit keeps the table consistent.
LEMMA SysExitTable ==
    ASSUME TableInv, NEW c \in CPU, NEW p \in Slot, SysExit(c, p)
    PROVE  TableInv'
<1>1. TypeOK'
  BY SlotFacts, Here DEF TableInv, TypeOK, State, PC, fields, locks, thread,
     sched, SysExit, Trap, At, BrieflyLocked, Free, Goto
<1>2. HartInv'
  BY SlotFacts, Here DEF TableInv, TypeOK, HartInv, fields, locks, thread,
     sched, SysExit, Trap, At, BrieflyLocked, Free, Goto
<1>3. StateInv'
  BY SlotFacts, Here DEF TableInv, TypeOK, StateInv, OnHart, Entering, Leaving,
     fields, locks, thread, sched, SysExit, Trap, At, BrieflyLocked, Free, Goto
<1>4. LockInv'
  BY SlotFacts, Here DEF TableInv, TypeOK, LockInv, Entering, Leaving, fields,
     locks, thread, sched, SysExit, Trap, At, BrieflyLocked, Free, Goto
<1>5. WaitLockInv'
  BY SlotFacts, Here DEF TableInv, TypeOK, WaitLockInv, Waiting, fields, locks,
     thread, sched, SysExit, Trap, At, BrieflyLocked, Free, Goto
<1>6. PlaceInv'
  BY SlotFacts, Here DEF TableInv, TypeOK, PlaceInv, Place, Interruptible,
     fields, locks, thread, sched, SysExit, Trap, At, BrieflyLocked, Free, Goto
<1>7. ForkInv'
  BY SlotFacts, Here DEF TableInv, TypeOK, ForkInv, Place, Forking, fields,
     locks, thread, sched, SysExit, Trap, At, BrieflyLocked, Free, Goto
<1>8. PidInv'
  BY SlotFacts, Here DEF TableInv, TypeOK, PidInv, fields, locks, thread,
     sched, SysExit, Trap, At, BrieflyLocked, Free, Goto
<1>9. InitInv'
  BY SlotFacts, Here DEF TableInv, TypeOK, InitInv, fields, locks, thread,
     sched, SysExit, Trap, At, BrieflyLocked, Free, Goto
<1>10. ExitInv'
  BY SlotFacts, Here DEF TableInv, TypeOK, ExitInv, fields, locks, thread,
     sched, SysExit, Trap, At, BrieflyLocked, Free, Goto
<1>11. ParentCanWait'
  BY SlotFacts, Here DEF TableInv, TypeOK, ParentCanWait, fields, locks,
     thread, sched, SysExit, Trap, At, BrieflyLocked, Free, Goto
<1> QED BY <1>1, <1>2, <1>3, <1>4, <1>5, <1>6, <1>7, <1>8, <1>9, <1>10, <1>11
   DEF TableInv

\* SysWait keeps the table consistent.
LEMMA SysWaitTable ==
    ASSUME TableInv, NEW c \in CPU, NEW p \in Slot, SysWait(c, p)
    PROVE  TableInv'
<1>1. TypeOK'
  BY SlotFacts, Here DEF TableInv, TypeOK, State, PC, fields, locks, thread,
     sched, SysWait, Trap, At, BrieflyLocked, Free, Goto
<1>2. HartInv'
  BY SlotFacts, Here DEF TableInv, TypeOK, HartInv, fields, locks, thread,
     sched, SysWait, Trap, At, BrieflyLocked, Free, Goto
<1>3. StateInv'
  BY SlotFacts, Here DEF TableInv, TypeOK, StateInv, OnHart, Entering, Leaving,
     fields, locks, thread, sched, SysWait, Trap, At, BrieflyLocked, Free, Goto
<1>4. LockInv'
  BY SlotFacts, Here DEF TableInv, TypeOK, LockInv, Entering, Leaving, fields,
     locks, thread, sched, SysWait, Trap, At, BrieflyLocked, Free, Goto
<1>5. WaitLockInv'
  BY SlotFacts, Here DEF TableInv, TypeOK, WaitLockInv, Waiting, fields, locks,
     thread, sched, SysWait, Trap, At, BrieflyLocked, Free, Goto
<1>6. PlaceInv'
  BY SlotFacts, Here DEF TableInv, TypeOK, PlaceInv, Place, Interruptible,
     fields, locks, thread, sched, SysWait, Trap, At, BrieflyLocked, Free, Goto
<1>7. ForkInv'
  BY SlotFacts, Here DEF TableInv, TypeOK, ForkInv, Place, Forking, fields,
     locks, thread, sched, SysWait, Trap, At, BrieflyLocked, Free, Goto
<1>8. PidInv'
  BY SlotFacts, Here DEF TableInv, TypeOK, PidInv, fields, locks, thread,
     sched, SysWait, Trap, At, BrieflyLocked, Free, Goto
<1>9. InitInv'
  BY SlotFacts, Here DEF TableInv, TypeOK, InitInv, fields, locks, thread,
     sched, SysWait, Trap, At, BrieflyLocked, Free, Goto
<1>10. ExitInv'
  BY SlotFacts, Here DEF TableInv, TypeOK, ExitInv, fields, locks, thread,
     sched, SysWait, Trap, At, BrieflyLocked, Free, Goto
<1>11. ParentCanWait'
  BY SlotFacts, Here DEF TableInv, TypeOK, ParentCanWait, fields, locks,
     thread, sched, SysWait, Trap, At, BrieflyLocked, Free, Goto
<1> QED BY <1>1, <1>2, <1>3, <1>4, <1>5, <1>6, <1>7, <1>8, <1>9, <1>10, <1>11
   DEF TableInv

\* SysKill keeps the table consistent.
LEMMA SysKillTable ==
    ASSUME TableInv, NEW c \in CPU, NEW p \in Slot, NEW target \in KillPid, SysKill(c, p, target)
    PROVE  TableInv'
<1>1. TypeOK'
  BY SlotFacts, Here, ProcAssumption DEF TableInv, TypeOK, State, PC, fields,
     locks, thread, sched, SysKill, Trap, At, BrieflyLocked, Free, Goto
<1>2. HartInv'
  BY SlotFacts, Here DEF TableInv, TypeOK, HartInv, fields, locks, thread,
     sched, SysKill, Trap, At, BrieflyLocked, Free, Goto
<1>3. StateInv'
  BY SlotFacts, Here DEF TableInv, TypeOK, StateInv, OnHart, Entering, Leaving,
     fields, locks, thread, sched, SysKill, Trap, At, BrieflyLocked, Free, Goto
<1>4. LockInv'
  BY SlotFacts, Here DEF TableInv, TypeOK, LockInv, Entering, Leaving, fields,
     locks, thread, sched, SysKill, Trap, At, BrieflyLocked, Free, Goto
<1>5. WaitLockInv'
  BY SlotFacts, Here DEF TableInv, TypeOK, WaitLockInv, Waiting, fields, locks,
     thread, sched, SysKill, Trap, At, BrieflyLocked, Free, Goto
<1>6. PlaceInv'
  BY SlotFacts, Here, LoopSlots, ProcAssumption DEF TableInv, TypeOK, PlaceInv,
     Place, Interruptible, fields, locks, thread, sched, SysKill, Trap, At,
     BrieflyLocked, Free, Goto
<1>7. ForkInv'
  BY SlotFacts, Here DEF TableInv, TypeOK, ForkInv, Place, Forking, fields,
     locks, thread, sched, SysKill, Trap, At, BrieflyLocked, Free, Goto
<1>8. PidInv'
  BY SlotFacts, Here DEF TableInv, TypeOK, PidInv, fields, locks, thread,
     sched, SysKill, Trap, At, BrieflyLocked, Free, Goto
<1>9. InitInv'
  BY SlotFacts, Here DEF TableInv, TypeOK, InitInv, fields, locks, thread,
     sched, SysKill, Trap, At, BrieflyLocked, Free, Goto
<1>10. ExitInv'
  BY SlotFacts, Here DEF TableInv, TypeOK, ExitInv, fields, locks, thread,
     sched, SysKill, Trap, At, BrieflyLocked, Free, Goto
<1>11. ParentCanWait'
  BY SlotFacts, Here DEF TableInv, TypeOK, ParentCanWait, fields, locks,
     thread, sched, SysKill, Trap, At, BrieflyLocked, Free, Goto
<1> QED BY <1>1, <1>2, <1>3, <1>4, <1>5, <1>6, <1>7, <1>8, <1>9, <1>10, <1>11
   DEF TableInv

\* Timer keeps the table consistent.
LEMMA TimerTable ==
    ASSUME TableInv, NEW c \in CPU, NEW p \in Slot, Timer(c, p)
    PROVE  TableInv'
<1>1. TypeOK'
  BY SlotFacts, Here DEF TableInv, TypeOK, State, PC, fields, locks, thread,
     sched, Timer, Trap, At, BrieflyLocked, Free, Goto
<1>2. HartInv'
  BY SlotFacts, Here DEF TableInv, TypeOK, HartInv, fields, locks, thread,
     sched, Timer, Trap, At, BrieflyLocked, Free, Goto
<1>3. StateInv'
  BY SlotFacts, Here DEF TableInv, TypeOK, StateInv, OnHart, Entering, Leaving,
     fields, locks, thread, sched, Timer, Trap, At, BrieflyLocked, Free, Goto
<1>4. LockInv'
  BY SlotFacts, Here DEF TableInv, TypeOK, LockInv, Entering, Leaving, fields,
     locks, thread, sched, Timer, Trap, At, BrieflyLocked, Free, Goto
<1>5. WaitLockInv'
  BY SlotFacts, Here DEF TableInv, TypeOK, WaitLockInv, Waiting, fields, locks,
     thread, sched, Timer, Trap, At, BrieflyLocked, Free, Goto
<1>6. PlaceInv'
  BY SlotFacts, Here DEF TableInv, TypeOK, PlaceInv, Place, Interruptible,
     fields, locks, thread, sched, Timer, Trap, At, BrieflyLocked, Free, Goto
<1>7. ForkInv'
  BY SlotFacts, Here DEF TableInv, TypeOK, ForkInv, Place, Forking, fields,
     locks, thread, sched, Timer, Trap, At, BrieflyLocked, Free, Goto
<1>8. PidInv'
  BY SlotFacts, Here DEF TableInv, TypeOK, PidInv, fields, locks, thread,
     sched, Timer, Trap, At, BrieflyLocked, Free, Goto
<1>9. InitInv'
  BY SlotFacts, Here DEF TableInv, TypeOK, InitInv, fields, locks, thread,
     sched, Timer, Trap, At, BrieflyLocked, Free, Goto
<1>10. ExitInv'
  BY SlotFacts, Here DEF TableInv, TypeOK, ExitInv, fields, locks, thread,
     sched, Timer, Trap, At, BrieflyLocked, Free, Goto
<1>11. ParentCanWait'
  BY SlotFacts, Here DEF TableInv, TypeOK, ParentCanWait, fields, locks,
     thread, sched, Timer, Trap, At, BrieflyLocked, Free, Goto
<1> QED BY <1>1, <1>2, <1>3, <1>4, <1>5, <1>6, <1>7, <1>8, <1>9, <1>10, <1>11
   DEF TableInv

\* Fault keeps the table consistent.
LEMMA FaultTable ==
    ASSUME TableInv, NEW c \in CPU, NEW p \in Slot, Fault(c, p)
    PROVE  TableInv'
<1>1. TypeOK'
  <2>1. victims' \subseteq Nat /\ killed' \in [Slot -> BOOLEAN]
    BY DEF Fault, TableInv, TypeOK
  <2>2. pc' \in [Slot -> PC]
    BY DEF Fault, Goto, TableInv, TypeOK, PC
  <2> QED BY <2>1, <2>2 DEF Fault, BrieflyLocked, TableInv, TypeOK, sched
<1>2. HartInv'
  BY SlotFacts, Here DEF TableInv, TypeOK, HartInv, fields, locks, thread,
     sched, Fault, At, BrieflyLocked, Free, Goto
<1>3. StateInv'
  BY SlotFacts, Here DEF TableInv, TypeOK, StateInv, OnHart, Entering, Leaving,
     fields, locks, thread, sched, Fault, At, BrieflyLocked, Free, Goto
<1>4. LockInv'
  BY SlotFacts, Here DEF TableInv, TypeOK, LockInv, Entering, Leaving, fields,
     locks, thread, sched, Fault, At, BrieflyLocked, Free, Goto
<1>5. WaitLockInv'
  BY SlotFacts, Here DEF TableInv, TypeOK, WaitLockInv, Waiting, fields, locks,
     thread, sched, Fault, At, BrieflyLocked, Free, Goto
<1>6. PlaceInv'
  BY SlotFacts, Here DEF TableInv, TypeOK, PlaceInv, Place, Interruptible,
     fields, locks, thread, sched, Fault, At, BrieflyLocked, Free, Goto
<1>7. ForkInv'
  BY SlotFacts, Here DEF TableInv, TypeOK, ForkInv, Place, Forking, fields,
     locks, thread, sched, Fault, At, BrieflyLocked, Free, Goto
<1>8. PidInv'
  BY SlotFacts, Here DEF TableInv, TypeOK, PidInv, fields, locks, thread,
     sched, Fault, At, BrieflyLocked, Free, Goto
<1>9. InitInv'
  BY SlotFacts, Here DEF TableInv, TypeOK, InitInv, fields, locks, thread,
     sched, Fault, At, BrieflyLocked, Free, Goto
<1>10. ExitInv'
  BY SlotFacts, Here DEF TableInv, TypeOK, ExitInv, fields, locks, thread,
     sched, Fault, At, BrieflyLocked, Free, Goto
<1>11. ParentCanWait'
  BY SlotFacts, Here DEF TableInv, TypeOK, ParentCanWait, fields, locks,
     thread, sched, Fault, At, BrieflyLocked, Free, Goto
<1> QED BY <1>1, <1>2, <1>3, <1>4, <1>5, <1>6, <1>7, <1>8, <1>9, <1>10, <1>11
   DEF TableInv

\* Yield keeps the table consistent.
LEMMA YieldTable ==
    ASSUME TableInv, NEW c \in CPU, NEW p \in Slot, Yield(c, p)
    PROVE  TableInv'
<1>a. cproc[c] = p /\ state[p] = "RUNNING" /\ pc[p] \notin Leaving
  BY Running DEF Yield, At, Leaving, Interruptible
<1>b. Place(p)' = IF pc[p] = "preempt" THEN "user" ELSE Place(p)
  BY DEF Yield, At, Goto, Place, TableInv, TypeOK, Interruptible
<1>c. \A q \in Slot : q # p => Place(q)' = Place(q)
  BY DEF Yield, At, Goto, Place, TableInv, TypeOK
<1>1. TypeOK'
  BY SlotFacts, Here DEF TableInv, TypeOK, State, PC, fields, locks, thread,
     sched, Yield, At, Free, Goto
<1>2. HartInv'
  BY SlotFacts, Here DEF TableInv, TypeOK, HartInv, fields, locks, thread,
     sched, Yield, At, Free, Goto
<1>3. StateInv'
  BY SlotFacts, Here DEF TableInv, TypeOK, StateInv, OnHart, Entering, Leaving,
     fields, locks, thread, sched, Yield, At, Free, Goto
<1>4. LockInv'
  BY SlotFacts, Here, <1>a DEF TableInv, TypeOK, LockInv, Entering, Leaving,
     Interruptible, fields, locks, thread, sched, Yield, At, Free, Goto
<1>5. WaitLockInv'
  BY SlotFacts, Here, <1>a DEF TableInv, TypeOK, WaitLockInv, Waiting,
     Interruptible, fields, locks, thread, sched, Yield, At, Free, Goto
<1>6. PlaceInv'
  BY SlotFacts, Here DEF TableInv, TypeOK, PlaceInv, Place, Interruptible,
     fields, locks, thread, sched, Yield, At, Free, Goto
<1>7. ForkInv'
  <2>1. pp' = pp /\ parent' = parent /\ \A q \in Slot : q # p => state'[q] = state[q]
    BY DEF Yield, TableInv, TypeOK
  <2> QED BY <1>a, <1>b, <1>c, <2>1 DEF TableInv, ForkInv, Forking
<1>8. PidInv'
  BY SlotFacts, Here, <1>a DEF TableInv, TypeOK, PidInv, fields, locks, thread,
     sched, Yield, At, Free, Goto
<1>9. InitInv'
  BY SlotFacts, Here DEF TableInv, TypeOK, InitInv, fields, locks, thread,
     sched, Yield, At, Free, Goto
<1>10. ExitInv'
  BY SlotFacts, Here DEF TableInv, TypeOK, ExitInv, fields, locks, thread,
     sched, Yield, At, Free, Goto
<1>11. ParentCanWait'
  BY SlotFacts, Here, <1>a DEF TableInv, TypeOK, ParentCanWait, fields, locks,
     thread, sched, Yield, At, Free, Goto
<1> QED BY <1>1, <1>2, <1>3, <1>4, <1>5, <1>6, <1>7, <1>8, <1>9, <1>10, <1>11
   DEF TableInv

-----------------------------------------------------------------------------
\* userinit() leaves a consistent table.
LEMMA InitTable == Init => TableInv
<1> SUFFICES ASSUME Init PROVE TableInv
  OBVIOUS
<1>1. TypeOK
  <2>1. state \in [Slot -> State] /\ pc \in [Slot -> PC] /\ after \in [Slot -> PC]
    BY DEF Init, State, PC
  <2>2. /\ parent \in [Slot -> Slot \cup {NoProc}] /\ chan \in [Slot -> Slot \cup {NoProc}]
        /\ killed \in [Slot -> BOOLEAN] /\ lock \in [Slot -> CPU \cup {NoCpu}]
        /\ wait_lock \in CPU \cup {NoCpu} /\ cproc \in [CPU -> Slot \cup {NoProc}]
    BY DEF Init
  <2>3. /\ pid \in [Slot -> Nat] /\ nextpid \in Nat /\ pp \in [Slot -> Nat]
        /\ local \in [Slot -> Nat \cup {NoProc}] /\ victims \subseteq Nat
    BY DEF Init
  <2>4. next \in [CPU -> Slot] /\ w \in [Slot -> Slot]
    BY LoopSlots DEF Init
  <2> QED BY <2>1, <2>2, <2>3, <2>4 DEF TypeOK
<1>2. \A p \in Slot : ~OnHart(p)
  BY SlotFacts DEF Init, OnHart
<1>3. HartInv /\ StateInv
  BY <1>2 DEF Init, HartInv, StateInv, Entering
<1>4. LockInv /\ WaitLockInv
  BY SlotFacts DEF Init, LockInv, WaitLockInv
<1>5. \A p \in Slot : Place(p) \in {"none", "forkret"}
  BY DEF Init, Place
<1>6. PlaceInv /\ ForkInv
  BY <1>5 DEF Init, PlaceInv, ForkInv, Forking
<1>7. PidInv /\ InitInv /\ ExitInv /\ ParentCanWait
  BY SlotFacts DEF Init, PidInv, InitInv, ExitInv, ParentCanWait
<1> QED BY <1>1, <1>3, <1>4, <1>6, <1>7 DEF TableInv

\* Every step keeps the table consistent.
LEMMA NextTable == TableInv /\ [Next]_vars => TableInv'
<1> SUFFICES ASSUME TableInv, [Next]_vars PROVE TableInv'
  OBVIOUS
<1>1. CASE UNCHANGED vars
  <2>1. /\ UNCHANGED <<state, parent, chan, killed, pid, nextpid>>
        /\ UNCHANGED <<lock, wait_lock, cproc, next>>
        /\ UNCHANGED <<pc, pp, w, local, after, victims>>
    BY <1>1 DEF vars
  <2> QED BY <2>1 DEF TableInv, TypeOK, HartInv, StateInv, LockInv, WaitLockInv,
       PlaceInv, ForkInv, PidInv, InitInv, ExitInv, ParentCanWait, OnHart, Place
<1>2. ASSUME NEW c \in CPU, Scheduler(c)
      PROVE  TableInv'
  BY <1>2, SchedulerSkipTable, SchedulerRunTable DEF Scheduler
<1>3. ASSUME NEW c \in CPU, NEW p \in Slot, Switch(c, p)
      PROVE  TableInv'
  BY <1>3, SchedTable, ForkretTable, YieldReturnTable, WaitWokenTable DEF Switch
<1>4. ASSUME NEW c \in CPU, NEW p \in Slot, Kernel(c, p)
      PROVE  TableInv'
  BY <1>4, TrapKilledTable, TrapReturnTable, AllocSkipTable, AllocFoundTable,
     ForkFailTable, ForkCopyTable, ForkParentTable, ForkRunTable, ExitTable,
     ReparentTable, WakeupTable, ExitZombieTable, WaitLockTable,
     WaitChildTable, WaitScannedTable, WaitKilledTable, WaitSleepTable,
     KillHitTable, KillMissTable DEF Kernel
<1>5. ASSUME NEW c \in CPU, NEW p \in Slot, User(c, p)
      PROVE  TableInv'
  BY <1>5, SysForkTable, SysExitTable, SysWaitTable, SysKillTable, TimerTable,
     FaultTable, YieldTable DEF User
<1> QED BY <1>1, <1>2, <1>3, <1>4, <1>5 DEF Next

\* The table is consistent in every reachable state.
THEOREM TableAlways == Spec => []TableInv
<1>1. Init => TableInv
  BY InitTable
<1>2. TableInv /\ [Next]_vars => TableInv'
  BY NextTable
<1> QED BY <1>1, <1>2, PTL DEF Spec

\* A process runs on one hart at a time and is RUNNING exactly then, for any
\* number of slots and harts: scheduler(), sched() and the slot locks never give
\* a kernel stack to two harts; and every process has a parent that can reap it.
THEOREM ProcInvariant == Spec => []ProcInv
<1>1. TableInv => ProcInv
  <2> SUFFICES ASSUME TableInv PROVE OneHartPerProcess
    BY DEF TableInv, ProcInv
  <2>1. \A c, d \in CPU : cproc[c] = cproc[d] /\ cproc[c] # NoProc => c = d
    BY DEF TableInv, HartInv
  <2>2. ASSUME NEW p \in Slot, Free(p), NEW c \in CPU, cproc[c] = p
        PROVE  state[p] = "RUNNING"
    <3>1. pc[p] \notin Leaving
      BY <2>2, SlotFacts DEF TableInv, LockInv, Free
    <3> QED BY <2>2, <3>1, Running
  <2>3. \A p \in Slot : state[p] = "RUNNING" => OnHart(p)
    BY DEF TableInv, StateInv
  <2> QED BY <2>1, <2>2, <2>3 DEF OneHartPerProcess, OnHart
<1> QED BY <1>1, TableAlways, PTL

-----------------------------------------------------------------------------
(***************************************************************************)
(* No wakeup is lost.                                                      *)
(***************************************************************************)

\* Only one thread is where wait_lock is held, and it is on a hart.
LEMMA OneWaiter ==
    ASSUME TableInv, NEW p \in Slot, pc[p] \in Waiting
    PROVE  /\ state[p] = "RUNNING" /\ wait_lock # NoCpu
           /\ \A q \in Slot : pc[q] \in Waiting => q = p
<1>1. \A q \in Slot : pc[q] \in Waiting => OnHart(q)
  BY OffPlaces DEF Waiting, Entering
<1>2. \A q \in Slot : pc[q] \in Waiting => \E c \in CPU : cproc[c] = q /\ wait_lock = c
  BY <1>1 DEF OnHart, TableInv, WaitLockInv
<1>3. PICK c \in CPU : cproc[c] = p /\ wait_lock = c
  BY <1>2
<1>4. state[p] = "RUNNING"
  BY <1>3, Running DEF Waiting, Leaving
<1> QED BY <1>2, <1>3, <1>4, SlotFacts

\* A process in exit() has a parent.
LEMMA ExitParent ==
    ASSUME TableInv, NEW p \in Slot, pc[p] \in {"reparent", "wakeup", "zombie"}
    PROVE  parent[p] \in Slot /\ p # initproc
<1>1. p # initproc /\ pc[p] \in Waiting
  BY DEF TableInv, InitInv, Waiting
<1>2. state[p] = "RUNNING"
  BY <1>1, OneWaiter
<1> QED BY <1>1, <1>2 DEF TableInv, TypeOK, ParentCanWait

\* The places that WakeupInv speaks of.
Watched == {"wakeup", "zombie", "waitscan", "waitkilled", "waitsleep"}

\* A step that puts nobody to sleep, makes no zombie and gives none away, and
\* enters none of those places.
Quiet ==
    /\ \A p \in Slot : state'[p] \in {"SLEEPING", "ZOMBIE"} => state'[p] = state[p]
    /\ \A p \in Slot : state'[p] = "SLEEPING" => chan'[p] = chan[p]
    /\ \A p \in Slot : \/ parent'[p] = parent[p]
                       \/ state'[p] # "ZOMBIE" /\ pc'[p] \notin {"wakeup", "zombie"}
    /\ \A p \in Slot : \/ /\ pc'[p] = pc[p] /\ pp'[p] = pp[p] /\ w'[p] = w[p]
                          /\ local'[p] = local[p] /\ after'[p] = after[p]
                       \/ pc[p] # "wakeup" /\ pc'[p] \notin Watched

\* A step that no sleeper and no waker can notice keeps the wakeup invariant.
LEMMA QuietStep ==
    ASSUME TableInv, WakeupInv, Quiet
    PROVE  WakeupInv'
<1>1. SleepInv'
  BY DEF WakeupInv, SleepInv, Quiet
<1>2. WakeInv'
  <2> SUFFICES ASSUME NEW p \in Slot, NEW q \in Slot, parent'[q] = p,
                      state'[q] = "ZOMBIE", state'[p] = "SLEEPING"
               PROVE  \E r \in Slot : pc'[r] = "wakeup" /\ local'[r] = p /\ w'[r] <= p
    BY DEF WakeInv
  <2>1. PICK r \in Slot : pc[r] = "wakeup" /\ local[r] = p /\ w[r] <= p
    BY DEF WakeupInv, WakeInv, Quiet
  <2> QED BY <2>1 DEF Quiet
<1>3. ScanInv'
  BY DEF WakeupInv, ScanInv, Quiet, Watched
<1>4. ExitWakeInv'
  <2> SUFFICES ASSUME NEW p \in Slot, pc'[p] \in {"wakeup", "zombie"}
               PROVE  /\ pc'[p] = "zombie" => state'[parent'[p]] # "SLEEPING"
                      /\ pc'[p] = "wakeup" /\ after'[p] = "zombie" =>
                            /\ local'[p] = parent'[p]
                            /\ state'[parent'[p]] = "SLEEPING" => w'[p] <= parent'[p]
    BY DEF ExitWakeInv
  <2>1. /\ pc'[p] = pc[p] /\ w'[p] = w[p] /\ local'[p] = local[p]
        /\ after'[p] = after[p] /\ parent'[p] = parent[p]
    BY DEF Quiet, Watched
  <2>2. parent[p] \in Slot
    BY <2>1, ExitParent
  <2> QED BY <2>1, <2>2 DEF WakeupInv, ExitWakeInv, Quiet
<1> QED BY <1>1, <1>2, <1>3, <1>4 DEF WakeupInv

\* The initial state.
LEMMA InitWakeup == Init => WakeupInv
  BY SlotFacts DEF Init, WakeupInv, SleepInv, WakeInv, ScanInv, ExitWakeInv

\* The steps of the scheduler, fork(), kill() and the traps are quiet.
LEMMA QuietSteps ==
    ASSUME TableInv, NEW c \in CPU, NEW p \in Slot,
           \/ Scheduler(c) \/ Switch(c, p) \/ User(c, p)
           \/ TrapKilled(c, p) \/ TrapReturn(c, p)
           \/ AllocSkip(c, p) \/ AllocFound(c, p) \/ ForkFail(c, p) \/ ForkCopy(c, p)
           \/ ForkParent(c, p) \/ ForkRun(c, p)
           \/ Exit(c, p) \/ KillHit(c, p) \/ KillMiss(c, p)
    PROVE  Quiet
<1>1. CASE SchedulerSkip(c)
  BY <1>1 DEF SchedulerSkip, NextSlot, BrieflyLocked, Free, Quiet, Watched,
     TableInv, TypeOK, fields, thread
<1>2. CASE SchedulerRun(c)
  BY <1>2 DEF SchedulerRun, Free, Quiet, Watched, TableInv, TypeOK, fields,
     thread
<1>3. CASE Sched(c, p)
  BY <1>3 DEF Sched, At, SchedOK, Resume, NextSlot, Goto, Quiet, Watched,
     TableInv, TypeOK, fields, thread
<1>4. CASE Forkret(c, p)
  BY <1>4 DEF Forkret, At, Goto, Quiet, Watched, TableInv, TypeOK, fields,
     thread
<1>5. CASE YieldReturn(c, p)
  <2>1. cproc[c] = p /\ after[p] \in Interruptible \cup {"user"}
    BY <1>5 DEF YieldReturn, At, TableInv, PlaceInv
  <2> QED BY <1>5, <2>1 DEF YieldReturn, At, Goto, Quiet, Watched, TableInv, TypeOK,
       fields, Interruptible
<1>6. CASE WaitWoken(c, p)
  <2>1. state[p] = "RUNNING"
    BY <1>6, Running DEF WaitWoken, At, Leaving
  <2> QED BY <1>6, <2>1 DEF WaitWoken, At, Goto, Quiet, Watched, TableInv, TypeOK
<1>7. CASE TrapKilled(c, p)
  BY <1>7 DEF TrapKilled, At, BrieflyLocked, Free, Goto, Quiet, Watched,
     TableInv, TypeOK, fields, thread
<1>8. CASE TrapReturn(c, p)
  BY <1>8 DEF TrapReturn, At, BrieflyLocked, Free, Goto, Quiet, Watched,
     TableInv, TypeOK, fields, thread
<1>9. CASE AllocSkip(c, p)
  BY <1>9 DEF AllocSkip, At, BrieflyLocked, Free, Goto, Quiet, Watched,
     TableInv, TypeOK, fields, thread
<1>10. CASE AllocFound(c, p)
  <2>1. pp[p] \in Slot /\ state[pp[p]] \in {"UNUSED", "USED"} /\ pc[p] # "wakeup"
    BY <1>10 DEF AllocFound, At, TableInv, PlaceInv, ForkInv, Place, Forking
  <2>2. pc[pp[p]] \in {"none", "forkret"}
    BY <2>1, Off
  <2> QED BY <1>10, <2>1, <2>2, SlotFacts DEF AllocFound, At, Free, Quiet,
     Watched, TableInv, TypeOK, fields, thread, sched
<1>11. CASE ForkFail(c, p)
  <2>1. pp[p] \in Slot /\ state[pp[p]] \in {"UNUSED", "USED"} /\ pc[p] # "wakeup"
    BY <1>11 DEF ForkFail, At, TableInv, PlaceInv, ForkInv, Place, Forking
  <2>2. pc[pp[p]] \in {"none", "forkret"}
    BY <2>1, Off
  <2> QED BY <1>11, <2>1, <2>2, SlotFacts DEF ForkFail, At, freeproc, Quiet,
     Watched, TableInv, TypeOK, fields, thread, sched
<1>12. CASE ForkCopy(c, p)
  BY <1>12 DEF ForkCopy, At, Goto, Quiet, Watched, TableInv, TypeOK, fields,
     thread
<1>13. CASE ForkParent(c, p)
  <2>1. pp[p] \in Slot /\ state[pp[p]] \in {"UNUSED", "USED"} /\ pc[p] # "wakeup"
    BY <1>13 DEF ForkParent, At, TableInv, PlaceInv, ForkInv, Place, Forking
  <2>2. pc[pp[p]] \in {"none", "forkret"}
    BY <2>1, Off
  <2> QED BY <1>13, <2>1, <2>2, SlotFacts DEF ForkParent, At, Goto, Quiet,
     Watched, TableInv, TypeOK, fields, thread, sched
<1>14. CASE ForkRun(c, p)
  <2>1. pp[p] \in Slot /\ state[pp[p]] \in {"UNUSED", "USED"} /\ pc[p] # "wakeup"
    BY <1>14 DEF ForkRun, At, TableInv, PlaceInv, ForkInv, Place, Forking
  <2>2. pc[pp[p]] \in {"none", "forkret"}
    BY <2>1, Off
  <2> QED BY <1>14, <2>1, <2>2, SlotFacts DEF ForkRun, At, BrieflyLocked, Free,
     Goto, Quiet, Watched, TableInv, TypeOK, fields, thread, sched
<1>15. CASE Exit(c, p)
  BY <1>15 DEF Exit, At, Goto, Quiet, Watched, TableInv, TypeOK, fields, thread
<1>16. CASE KillHit(c, p)
  BY <1>16 DEF KillHit, At, KillDone, BrieflyLocked, Free, Goto, Quiet,
     Watched, TableInv, TypeOK, fields, thread
<1>17. CASE KillMiss(c, p)
  BY <1>17 DEF KillMiss, At, KillDone, BrieflyLocked, Free, Goto, Quiet,
     Watched, TableInv, TypeOK, fields, thread
<1>18. CASE SysFork(c, p)
  BY <1>18 DEF SysFork, Trap, At, BrieflyLocked, Free, Goto, Quiet, Watched,
     TableInv, TypeOK, fields, thread
<1>19. CASE SysExit(c, p)
  BY <1>19 DEF SysExit, Trap, At, BrieflyLocked, Free, Goto, Quiet, Watched,
     TableInv, TypeOK, fields, thread
<1>20. CASE SysWait(c, p)
  BY <1>20 DEF SysWait, Trap, At, BrieflyLocked, Free, Goto, Quiet, Watched,
     TableInv, TypeOK, fields, thread
<1>21. ASSUME NEW target \in KillPid, SysKill(c, p, target) PROVE Quiet
  BY <1>21 DEF SysKill, Trap, At, BrieflyLocked, Free, Goto, Quiet, Watched,
     TableInv, TypeOK, fields, thread
<1>22. CASE Timer(c, p)
  BY <1>22 DEF Timer, Trap, At, BrieflyLocked, Free, Goto, Quiet, Watched,
     TableInv, TypeOK, fields, thread
<1>23. CASE Fault(c, p)
  BY <1>23 DEF Fault, At, BrieflyLocked, Free, Goto, Quiet, Watched, TableInv,
     TypeOK, fields, thread
<1>24. CASE Yield(c, p)
  BY <1>24 DEF Yield, At, Free, Goto, Quiet, Watched, TableInv, TypeOK, fields,
     thread, Interruptible
<1> QED BY <1>1, <1>2, <1>3, <1>4, <1>5, <1>6, <1>7, <1>8, <1>9, <1>10, <1>11,
   <1>12, <1>13, <1>14, <1>15, <1>16, <1>17, <1>18, <1>19, <1>20, <1>21, <1>22,
   <1>23, <1>24 DEF Scheduler, Switch, User

\* A child given to init is announced to it.
LEMMA ReparentWakeup ==
    ASSUME TableInv, WakeupInv, NEW c \in CPU, NEW p \in Slot, Reparent(c, p)
    PROVE  WakeupInv'
<1> DEFINE kids == ChildrenFrom(p, pp[p])
           k    == First(kids)
<1>a. cproc[c] = p /\ pc[p] = "reparent" /\ pc[p] \in Waiting
  BY DEF Reparent, At, Waiting
<1>b. \A q \in Slot : q # p => pc[q] \notin Waiting
  BY <1>a, OneWaiter
<1>c. parent[p] \in Slot /\ p # initproc
  BY <1>a, ExitParent
<1>d. /\ state' = state /\ chan' = chan
      /\ \A q \in Slot : pc'[q] = IF q = p THEN "wakeup" ELSE pc[q]
      /\ w'[p] = 0
  BY DEF Reparent, CallWakeup, Goto, TableInv, TypeOK
<1>e. \/ kids # {} /\ after'[p] = "reparent" /\ local'[p] = initproc
      \/ kids = {} /\ after'[p] = "zombie" /\ local'[p] = parent[p]
  BY DEF Reparent, CallWakeup, TableInv, TypeOK
<1>f. kids # {} => k \in Slot /\ parent[k] = p
  BY FirstIs DEF ChildrenFrom
<1>g. kids # {} => /\ parent'[k] = initproc
                   /\ \A q \in Slot : q # k => parent'[q] = parent[q]
  BY <1>f DEF Reparent, TableInv, TypeOK
<1>h. kids = {} => parent' = parent
  BY DEF Reparent
<1> HIDE DEF kids, k
<1>1. SleepInv'
  BY <1>d DEF WakeupInv, SleepInv
<1>2. WakeInv'
  <2> SUFFICES ASSUME NEW x \in Slot, NEW y \in Slot, parent'[y] = x,
                      state'[y] = "ZOMBIE", state'[x] = "SLEEPING"
               PROVE  \E r \in Slot : pc'[r] = "wakeup" /\ local'[r] = x /\ w'[r] <= x
    BY DEF WakeInv
  <2>1. ~(\E r \in Slot : pc[r] = "wakeup")
    BY <1>a, <1>b DEF Waiting
  <2>2. parent[y] # x
    BY <2>1, <1>d DEF WakeupInv, WakeInv
  <2>3. kids # {} /\ y = k /\ x = initproc
    BY <2>2, <1>f, <1>g, <1>h
  <2>4. pc'[p] = "wakeup" /\ local'[p] = x /\ w'[p] <= x
    BY <2>3, <1>d, <1>e, SlotFacts DEF initproc
  <2> QED BY <2>4
<1>3. ScanInv'
  BY <1>b, <1>d DEF ScanInv, Waiting
<1>4. ExitWakeInv'
  <2>1. parent'[p] = parent[p] \/ kids # {}
    BY <1>h
  <2>a. \A s \in Slot : 0 <= s
    BY SlotFacts
  <2>2. 0 <= parent[p]
    BY <1>c, <2>a
  <2>3. kids # {} => after'[p] # "zombie"
    BY <1>e
  <2> QED BY <1>b, <1>d, <1>e, <2>1, <2>2, <2>3 DEF ExitWakeInv, Waiting
<1> QED BY <1>1, <1>2, <1>3, <1>4 DEF WakeupInv

\* The loop of wakeup() does not pass by a parent that sleeps.
LEMMA WakeupWakeup ==
    ASSUME TableInv, WakeupInv, NEW c \in CPU, NEW p \in Slot, Wakeup(c, p)
    PROVE  WakeupInv'
<1> DEFINE q == w[p]
<1>a. pc[p] = "wakeup" /\ pc[p] \in Waiting /\ q \in Slot /\ q \in Nat
  BY SlotFacts DEF Wakeup, At, Waiting, TableInv, TypeOK
<1>b. state[p] = "RUNNING" /\ \A r \in Slot : r # p => pc[r] \notin Waiting
  BY <1>a, OneWaiter
<1>c. parent[p] \in Slot /\ p # initproc /\ parent' = parent /\ chan' = chan
      /\ pp' = pp
  BY <1>a, ExitParent DEF Wakeup
<1>d. \A r \in Slot : /\ r # q => state'[r] = state[r]
                      /\ state'[r] = state[r] \/ state'[r] = "RUNNABLE"
  BY <1>a DEF Wakeup, TableInv, TypeOK
<1>e. q # p /\ state[q] = "SLEEPING" /\ local[p] = q => state'[q] # "SLEEPING"
  BY <1>a DEF Wakeup, WakeupInv, SleepInv, TableInv, TypeOK
<1>f. \A r \in Slot : r # p => pc'[r] = pc[r]
  BY DEF Wakeup, Goto, TableInv, TypeOK
<1>g. \/ /\ q + 1 < NPROC /\ pc'[p] = "wakeup" /\ w'[p] = q + 1
         /\ local'[p] = local[p] /\ after'[p] = after[p]
      \/ ~(q + 1 < NPROC) /\ pc'[p] = after[p]
  BY <1>a DEF Wakeup, Goto, TableInv, TypeOK
<1>h. after[p] \in {"reparent", "zombie"}
  BY <1>a DEF TableInv, PlaceInv
<1>i. ASSUME NEW x \in Slot, x = local[p], q <= x, state'[x] = "SLEEPING"
      PROVE  q + 1 < NPROC /\ q + 1 <= x
  <2>1. state[x] = "SLEEPING" /\ x # p
    BY <1>i, <1>b, <1>d
  <2>2. q # x
    BY <2>1, <1>e, <1>i
  <2>3. q \in Nat /\ x \in Nat /\ x <= NPROC - 1 /\ NPROC \in Nat
    BY <1>a, ProcAssumption DEF Slot
  <2> HIDE DEF q
  <2> QED BY <1>i, <2>2, <2>3
<1> HIDE DEF q
<1>1. SleepInv'
  BY <1>c, <1>d DEF WakeupInv, SleepInv
<1>2. WakeInv'
  <2> SUFFICES ASSUME NEW x \in Slot, NEW y \in Slot, parent'[y] = x,
                      state'[y] = "ZOMBIE", state'[x] = "SLEEPING"
               PROVE  \E r \in Slot : pc'[r] = "wakeup" /\ local'[r] = x /\ w'[r] <= x
    BY DEF WakeInv
  <2>1. state[x] = "SLEEPING" /\ state[y] = "ZOMBIE" /\ parent[y] = x
    BY <1>c, <1>d
  <2>2. local[p] = x /\ q <= x
    BY <2>1, <1>b DEF WakeupInv, WakeInv, Waiting, q
  <2>3. q + 1 < NPROC /\ q + 1 <= x
    BY <1>i, <2>2
  <2> QED BY <2>2, <2>3, <1>g
<1>3. ScanInv'
  BY <1>b, <1>d, <1>f, <1>g, <1>h DEF ScanInv, Waiting
<1>4. ExitWakeInv'
  <2>1. ASSUME after[p] = "zombie", state'[parent[p]] = "SLEEPING"
        PROVE  q + 1 < NPROC /\ q + 1 <= parent[p]
    <3>1. local[p] = parent[p] /\ (state[parent[p]] = "SLEEPING" => q <= parent[p])
      BY <1>a, <2>1 DEF WakeupInv, ExitWakeInv, q
    <3>2. state[parent[p]] = "SLEEPING"
      BY <1>c, <1>d, <2>1
    <3> QED BY <3>1, <3>2, <2>1, <1>c, <1>i
  <2>2. pc[p] = "wakeup" /\ after[p] = "zombie" => local[p] = parent[p]
    BY DEF WakeupInv, ExitWakeInv
  <2> QED BY <2>1, <2>2, <1>a, <1>b, <1>c, <1>f, <1>g, <1>h DEF ExitWakeInv, Waiting
<1> QED BY <1>1, <1>2, <1>3, <1>4 DEF WakeupInv

\* A process becomes a zombie when its parent is awake and outside of wait().
LEMMA ExitZombieWakeup ==
    ASSUME TableInv, WakeupInv, NEW c \in CPU, NEW p \in Slot, ExitZombie(c, p)
    PROVE  WakeupInv'
<1>a. pc[p] = "zombie" /\ pc[p] \in Waiting
  BY DEF ExitZombie, At, Waiting
<1>b. \A r \in Slot : r # p => pc[r] \notin Waiting
  BY <1>a, OneWaiter
<1>c. /\ parent' = parent /\ chan' = chan /\ local' = local /\ w' = w
      /\ \A r \in Slot : state'[r] = IF r = p THEN "ZOMBIE" ELSE state[r]
      /\ \A r \in Slot : pc'[r] = IF r = p THEN "schedexit" ELSE pc[r]
  BY DEF ExitZombie, Goto, TableInv, TypeOK
<1>d. \A r \in Slot : pc'[r] \notin Waiting
  BY <1>b, <1>c DEF Waiting
<1>1. SleepInv'
  BY <1>c DEF WakeupInv, SleepInv
<1>2. WakeInv'
  <2> SUFFICES ASSUME NEW x \in Slot, NEW y \in Slot, parent'[y] = x,
                      state'[y] = "ZOMBIE", state'[x] = "SLEEPING"
               PROVE  \E r \in Slot : pc'[r] = "wakeup" /\ local'[r] = x /\ w'[r] <= x
    BY DEF WakeInv
  <2>1. y # p
    BY <1>a, <1>c DEF WakeupInv, ExitWakeInv
  <2> QED BY <1>a, <1>b, <1>c, <2>1 DEF WakeupInv, WakeInv, Waiting
<1>3. ScanInv' /\ ExitWakeInv'
  BY <1>d DEF ScanInv, ExitWakeInv, Waiting
<1> QED BY <1>1, <1>2, <1>3 DEF WakeupInv

\* wait() starts its scan of the table.
LEMMA WaitLockWakeup ==
    ASSUME TableInv, WakeupInv, NEW c \in CPU, NEW p \in Slot, WaitLock(c, p)
    PROVE  WakeupInv'
<1>a. cproc[c] = p /\ pc[p] = "wait" /\ wait_lock = NoCpu
  BY DEF WaitLock, At
<1>b. \A r \in Slot : pc[r] \notin Waiting
  BY <1>a, OneWaiter
<1>c. /\ UNCHANGED <<state, parent, chan>> /\ pp'[p] = 0
      /\ \A r \in Slot : pc'[r] = IF r = p THEN "waitscan" ELSE pc[r]
  BY DEF WaitLock, Goto, TableInv, TypeOK, fields
<1>1. SleepInv' /\ WakeInv'
  BY <1>b, <1>c DEF WakeupInv, SleepInv, WakeInv, Waiting
<1>2. ScanInv'
  BY <1>b, <1>c, SlotFacts DEF ScanInv, Waiting
<1>3. ExitWakeInv'
  BY <1>b, <1>c DEF ExitWakeInv, Waiting
<1> QED BY <1>1, <1>2, <1>3 DEF WakeupInv

\* wait() frees the first zombie it meets.
LEMMA WaitChildWakeup ==
    ASSUME TableInv, WakeupInv, NEW c \in CPU, NEW p \in Slot, WaitChild(c, p)
    PROVE  WakeupInv'
<1> DEFINE kids == ChildrenFrom(p, pp[p])
           q    == First(kids)
<1>a. pc[p] = "waitscan" /\ pc[p] \in Waiting /\ state[p] = "RUNNING"
  BY Running DEF WaitChild, At, Waiting, Leaving
<1>b. \A r \in Slot : r # p => pc[r] \notin Waiting
  BY <1>a, OneWaiter
<1>c. kids \subseteq Slot /\ kids # {}
  BY DEF WaitChild, ChildrenFrom
<1>d. q \in Slot /\ parent[q] = p /\ \A r \in kids : q <= r
  BY <1>c, FirstIs DEF ChildrenFrom
<1>e. \/ UNCHANGED <<state, parent, chan>>
      \/ /\ state'[q] = "UNUSED"
         /\ \A r \in Slot : r # q => /\ state'[r] = state[r] /\ parent'[r] = parent[r]
                                     /\ chan'[r] = chan[r]
  BY <1>d DEF WaitChild, freeproc, TableInv, TypeOK
<1>f. \/ pc'[p] = "ret"
      \/ /\ pc'[p] = "waitscan" /\ pp'[p] = q + 1 /\ state[q] # "ZOMBIE"
         /\ UNCHANGED <<state, parent, chan>>
  BY <1>a DEF WaitChild, WaitReturn, Goto, TableInv, TypeOK
<1>g. \A r \in Slot : r # p => pc'[r] = pc[r]
  BY DEF WaitChild, WaitReturn, Goto, TableInv, TypeOK
<1>h. \A r \in Slot : parent[r] = p /\ r >= pp[p] => r \in kids
  BY DEF ChildrenFrom
<1> HIDE DEF kids, q
<1>1. SleepInv'
  BY <1>e DEF WakeupInv, SleepInv
<1>2. WakeInv'
  <2> SUFFICES ASSUME NEW x \in Slot, NEW y \in Slot, parent'[y] = x,
                      state'[y] = "ZOMBIE", state'[x] = "SLEEPING"
               PROVE  \E r \in Slot : pc'[r] = "wakeup" /\ local'[r] = x /\ w'[r] <= x
    BY DEF WakeInv
  <2>1. state[y] = "ZOMBIE" /\ parent[y] = x /\ state[x] = "SLEEPING"
    BY <1>e
  <2> QED BY <1>a, <1>b, <2>1 DEF WakeupInv, WakeInv, Waiting
<1>3. ScanInv'
  <2> SUFFICES ASSUME NEW y \in Slot, parent'[y] = p, state'[y] = "ZOMBIE",
                      pc'[p] = "waitscan"
               PROVE  y >= pp'[p]
    BY <1>b, <1>f, <1>g DEF ScanInv, Waiting
  <2>1. pp'[p] = q + 1 /\ state[q] # "ZOMBIE" /\ parent[y] = p /\ state[y] = "ZOMBIE"
    BY <1>f
  <2>2. y >= pp[p]
    BY <1>a, <2>1 DEF WakeupInv, ScanInv
  <2>3. q <= y /\ q # y
    BY <1>d, <1>h, <2>1, <2>2
  <2>4. q \in Nat /\ y \in Nat
    BY <1>d, SlotFacts
  <2> QED BY <2>1, <2>3, <2>4
<1>4. ExitWakeInv'
  BY <1>b, <1>f, <1>g DEF ExitWakeInv, Waiting
<1> QED BY <1>1, <1>2, <1>3, <1>4 DEF WakeupInv

\* A scan that has reached the end of the table has met no zombie.
LEMMA WaitScannedWakeup ==
    ASSUME TableInv, WakeupInv, NEW c \in CPU, NEW p \in Slot, WaitScanned(c, p)
    PROVE  WakeupInv'
<1>a. pc[p] = "waitscan" /\ pc[p] \in Waiting /\ state[p] = "RUNNING"
  BY Running DEF WaitScanned, At, Waiting, Leaving
<1>b. \A r \in Slot : r # p => pc[r] \notin Waiting
  BY <1>a, OneWaiter
<1>c. /\ UNCHANGED <<state, parent, chan>> /\ pc'[p] \in {"ret", "waitkilled"}
      /\ \A r \in Slot : r # p => pc'[r] = pc[r]
  BY <1>a DEF WaitScanned, WaitReturn, Goto, TableInv, TypeOK, fields
<1>d. \A r \in Slot : parent[r] = p => ~(r >= pp[p])
  BY DEF WaitScanned, ChildrenFrom
<1>1. SleepInv' /\ WakeInv'
  BY <1>a, <1>b, <1>c DEF WakeupInv, SleepInv, WakeInv, Waiting
<1>2. ScanInv'
  BY <1>a, <1>b, <1>c, <1>d DEF WakeupInv, ScanInv, Waiting
<1>3. ExitWakeInv'
  BY <1>b, <1>c DEF ExitWakeInv, Waiting
<1> QED BY <1>1, <1>2, <1>3 DEF WakeupInv

\* wait_lock is kept from the scan to sleep().
LEMMA WaitKilledWakeup ==
    ASSUME TableInv, WakeupInv, NEW c \in CPU, NEW p \in Slot, WaitKilled(c, p)
    PROVE  WakeupInv'
<1>a. pc[p] = "waitkilled" /\ pc[p] \in Waiting /\ state[p] = "RUNNING"
  BY Running DEF WaitKilled, At, Waiting, Leaving
<1>b. \A r \in Slot : r # p => pc[r] \notin Waiting
  BY <1>a, OneWaiter
<1>c. /\ UNCHANGED <<state, parent, chan>> /\ pc'[p] \in {"ret", "waitsleep"}
      /\ \A r \in Slot : r # p => pc'[r] = pc[r]
  BY <1>a DEF WaitKilled, WaitReturn, Goto, TableInv, TypeOK, fields
<1>1. SleepInv' /\ WakeInv'
  BY <1>a, <1>b, <1>c DEF WakeupInv, SleepInv, WakeInv, Waiting
<1>2. ScanInv'
  BY <1>a, <1>b, <1>c DEF WakeupInv, ScanInv, Waiting
<1>3. ExitWakeInv'
  BY <1>b, <1>c DEF ExitWakeInv, Waiting
<1> QED BY <1>1, <1>2, <1>3 DEF WakeupInv

\* A process goes to sleep when it has no zombie to wait for.
LEMMA WaitSleepWakeup ==
    ASSUME TableInv, WakeupInv, NEW c \in CPU, NEW p \in Slot, WaitSleep(c, p)
    PROVE  WakeupInv'
<1>a. pc[p] = "waitsleep" /\ pc[p] \in Waiting /\ state[p] = "RUNNING"
  BY Running DEF WaitSleep, At, Waiting, Leaving
<1>b. \A r \in Slot : r # p => pc[r] \notin Waiting
  BY <1>a, OneWaiter
<1>c. /\ parent' = parent /\ chan'[p] = p
      /\ \A r \in Slot : r # p => chan'[r] = chan[r]
      /\ \A r \in Slot : state'[r] = IF r = p THEN "SLEEPING" ELSE state[r]
      /\ \A r \in Slot : pc'[r] = IF r = p THEN "schedsleep" ELSE pc[r]
  BY DEF WaitSleep, Goto, TableInv, TypeOK
<1>d. \A r \in Slot : parent[r] = p => state[r] # "ZOMBIE"
  BY <1>a DEF WakeupInv, ScanInv
<1>1. SleepInv'
  BY <1>c DEF WakeupInv, SleepInv
<1>2. WakeInv'
  <2> SUFFICES ASSUME NEW x \in Slot, NEW y \in Slot, parent'[y] = x,
                      state'[y] = "ZOMBIE", state'[x] = "SLEEPING"
               PROVE  \E r \in Slot : pc'[r] = "wakeup" /\ local'[r] = x /\ w'[r] <= x
    BY DEF WakeInv
  <2>1. x # p /\ parent[y] = x /\ state[y] = "ZOMBIE" /\ state[x] = "SLEEPING"
    BY <1>c, <1>d
  <2> QED BY <1>a, <1>b, <2>1 DEF WakeupInv, WakeInv, Waiting
<1>3. ScanInv' /\ ExitWakeInv'
  BY <1>b, <1>c DEF ScanInv, ExitWakeInv, Waiting
<1> QED BY <1>1, <1>2, <1>3 DEF WakeupInv

\* Every step.
LEMMA NextWakeup == TableInv /\ WakeupInv /\ [Next]_vars => WakeupInv'
<1> SUFFICES ASSUME TableInv, WakeupInv, [Next]_vars PROVE WakeupInv'
  OBVIOUS
<1>1. CASE UNCHANGED vars
  BY <1>1 DEF vars, WakeupInv, SleepInv, WakeInv, ScanInv, ExitWakeInv
<1>2. ASSUME NEW c \in CPU, Scheduler(c)
      PROVE  WakeupInv'
  BY <1>2, QuietStep, QuietSteps, SlotFacts
<1>3. ASSUME NEW c \in CPU, NEW p \in Slot, Switch(c, p) \/ User(c, p)
      PROVE  WakeupInv'
  BY <1>3, QuietStep, QuietSteps
<1>4. ASSUME NEW c \in CPU, NEW p \in Slot, Kernel(c, p)
      PROVE  WakeupInv'
  BY <1>4, QuietStep, QuietSteps, ReparentWakeup, WakeupWakeup, ExitZombieWakeup,
     WaitLockWakeup, WaitChildWakeup, WaitScannedWakeup, WaitKilledWakeup,
     WaitSleepWakeup DEF Kernel
<1> QED BY <1>1, <1>2, <1>3, <1>4 DEF Next

\* No interleaving of exit(), reparent(), wakeup(), wait(), sleep() and kill()
\* leaves a parent asleep with a zombie child once wait_lock is free, for any
\* number of processes and harts.
THEOREM NoLostWakeupHolds == Spec => []NoLostWakeup
<1>1. Init => WakeupInv
  BY InitWakeup
<1>2. TableInv /\ WakeupInv /\ [Next]_vars => WakeupInv'
  BY NextWakeup
<1>3. TableInv /\ WakeupInv => NoLostWakeup
  <2> SUFFICES ASSUME TableInv, WakeupInv, wait_lock = NoCpu
               PROVE  \A r \in Slot : pc[r] # "wakeup"
    BY DEF NoLostWakeup, WakeupInv, WakeInv
  <2> QED BY OneWaiter DEF Waiting
<1> QED BY <1>1, <1>2, <1>3, TableAlways, PTL DEF Spec

-----------------------------------------------------------------------------
(***************************************************************************)
(* Who is killed was asked to be.                                          *)
(***************************************************************************)

\* A step that starts and frees no process and kills none.
Spares ==
    /\ UNCHANGED <<killed, pid, victims>>
    /\ \A p \in Slot : state'[p] = "UNUSED" <=> state[p] = "UNUSED"

\* Every step but those that start, free or kill a process.
LEMMA SparingSteps ==
    ASSUME TableInv, NEW c \in CPU, NEW p \in Slot,
           \/ Scheduler(c) \/ Switch(c, p)
           \/ User(c, p) /\ ~Fault(c, p)
           \/ /\ Kernel(c, p)
              /\ ~(AllocFound(c, p) \/ ForkFail(c, p) \/ WaitChild(c, p) \/ KillHit(c, p))
    PROVE  Spares
<1>1. CASE SchedulerSkip(c)
  BY <1>1 DEF SchedulerSkip, NextSlot, BrieflyLocked, Free, Spares, TableInv,
     TypeOK, fields
<1>2. CASE SchedulerRun(c)
  BY <1>2 DEF SchedulerRun, Free, Spares, TableInv, TypeOK, fields
<1>3. CASE Sched(c, p)
  BY <1>3 DEF Sched, At, SchedOK, Resume, NextSlot, Goto, Spares, TableInv,
     TypeOK, fields
<1>4. CASE Forkret(c, p)
  BY <1>4 DEF Forkret, At, Goto, Spares, TableInv, TypeOK, fields
<1>5. CASE YieldReturn(c, p)
  BY <1>5 DEF YieldReturn, At, Goto, Spares, TableInv, TypeOK, fields
<1>6. CASE WaitWoken(c, p)
  BY <1>6 DEF WaitWoken, At, Goto, Spares, TableInv, TypeOK, fields
<1>7. CASE TrapKilled(c, p)
  BY <1>7 DEF TrapKilled, At, BrieflyLocked, Free, Goto, Spares, TableInv,
     TypeOK, fields
<1>8. CASE TrapReturn(c, p)
  BY <1>8 DEF TrapReturn, At, BrieflyLocked, Free, Goto, Spares, TableInv,
     TypeOK, fields
<1>9. CASE AllocSkip(c, p)
  BY <1>9 DEF AllocSkip, At, BrieflyLocked, Free, Goto, Spares, TableInv,
     TypeOK, fields
<1>10. CASE ForkCopy(c, p)
  BY <1>10 DEF ForkCopy, At, Goto, Spares, TableInv, TypeOK, fields
<1>11. CASE ForkParent(c, p)
  BY <1>11 DEF ForkParent, At, Goto, Spares, TableInv, TypeOK, fields
<1>12. CASE ForkRun(c, p)
  <2>1. pp[p] \in Slot /\ state[pp[p]] = "USED"
    BY <1>12 DEF ForkRun, At, TableInv, ForkInv, Place, Forking
  <2> QED BY <1>12, <2>1 DEF ForkRun, Spares, TableInv, TypeOK
<1>13. CASE Exit(c, p)
  BY <1>13 DEF Exit, At, Goto, Spares, TableInv, TypeOK, fields
<1>14. CASE Reparent(c, p)
  BY <1>14 DEF Reparent, At, CallWakeup, Goto, Spares, TableInv, TypeOK, fields
<1>15. CASE Wakeup(c, p)
  BY <1>15 DEF Wakeup, At, BrieflyLocked, Free, Goto, Spares, TableInv, TypeOK,
     fields
<1>16. CASE ExitZombie(c, p)
  <2>1. state[p] = "RUNNING"
    BY <1>16, Running DEF ExitZombie, At, Leaving, Interruptible
  <2> QED BY <1>16, <2>1 DEF ExitZombie, At, Free, Goto, Spares, TableInv,
     TypeOK
<1>17. CASE WaitLock(c, p)
  BY <1>17 DEF WaitLock, At, Goto, Spares, TableInv, TypeOK, fields
<1>18. CASE WaitScanned(c, p)
  BY <1>18 DEF WaitScanned, At, WaitReturn, Goto, Spares, TableInv, TypeOK,
     fields
<1>19. CASE WaitKilled(c, p)
  BY <1>19 DEF WaitKilled, At, WaitReturn, BrieflyLocked, Free, Goto, Spares,
     TableInv, TypeOK, fields
<1>20. CASE WaitSleep(c, p)
  <2>1. state[p] = "RUNNING"
    BY <1>20, Running DEF WaitSleep, At, Leaving, Interruptible
  <2> QED BY <1>20, <2>1 DEF WaitSleep, At, Free, Goto, Spares, TableInv,
     TypeOK
<1>21. CASE KillMiss(c, p)
  BY <1>21 DEF KillMiss, At, KillDone, BrieflyLocked, Free, Goto, Spares,
     TableInv, TypeOK, fields
<1>22. CASE SysFork(c, p)
  BY <1>22 DEF SysFork, Trap, At, BrieflyLocked, Free, Goto, Spares, TableInv,
     TypeOK, fields
<1>23. CASE SysExit(c, p)
  BY <1>23 DEF SysExit, Trap, At, BrieflyLocked, Free, Goto, Spares, TableInv,
     TypeOK, fields
<1>24. CASE SysWait(c, p)
  BY <1>24 DEF SysWait, Trap, At, BrieflyLocked, Free, Goto, Spares, TableInv,
     TypeOK, fields
<1>25. ASSUME NEW target \in KillPid, SysKill(c, p, target) PROVE Spares
  BY <1>25 DEF SysKill, Trap, At, BrieflyLocked, Free, Goto, Spares, TableInv,
     TypeOK, fields
<1>26. CASE Timer(c, p)
  BY <1>26 DEF Timer, Trap, At, BrieflyLocked, Free, Goto, Spares, TableInv,
     TypeOK, fields
<1>27. CASE Yield(c, p)
  <2>1. state[p] = "RUNNING"
    BY <1>27, Running DEF Yield, At, Leaving, Interruptible
  <2> QED BY <1>27, <2>1 DEF Yield, At, Free, Goto, Spares, TableInv, TypeOK
<1> QED BY <1>1, <1>2, <1>3, <1>4, <1>5, <1>6, <1>7, <1>8, <1>9, <1>10, <1>11,
   <1>12, <1>13, <1>14, <1>15, <1>16, <1>17, <1>18, <1>19, <1>20, <1>21, <1>22,
   <1>23, <1>24, <1>25, <1>26, <1>27 DEF Scheduler, Switch, User, Kernel

\* Every step.
LEMMA NextKilled ==
    ASSUME ZeroSpared, TableInv, KilledInv, [Next]_vars
    PROVE  KilledInv'
<1>1. ASSUME Spares PROVE KilledInv'
  BY <1>1 DEF Spares, KilledInv, KilledWasAsked
<1>2. CASE UNCHANGED vars
  BY <1>2 DEF vars, KilledInv, KilledWasAsked
<1>3. ASSUME NEW c \in CPU, NEW p \in Slot, AllocFound(c, p)
      PROVE  KilledInv'
  <2>1. pp[p] \in Slot /\ state[pp[p]] = "UNUSED" /\ ~killed[pp[p]]
    BY <1>3 DEF AllocFound, At, TableInv, PlaceInv, Place, KilledInv
  <2>2. /\ \A q \in Slot : q # pp[p] => state'[q] = state[q] /\ pid'[q] = pid[q]
        /\ state'[pp[p]] = "USED" /\ UNCHANGED <<killed, victims>>
    BY <1>3, <2>1 DEF AllocFound, TableInv, TypeOK
  <2> QED BY <2>1, <2>2 DEF KilledInv, KilledWasAsked
<1>4. ASSUME NEW q \in Slot, freeproc(q), victims' = victims
      PROVE  KilledInv'
  <2>1. /\ \A r \in Slot : r # q => /\ state'[r] = state[r] /\ pid'[r] = pid[r]
                                    /\ killed'[r] = killed[r]
        /\ ~killed'[q]
    BY <1>4 DEF freeproc, TableInv, TypeOK
  <2> QED BY <1>4, <2>1 DEF KilledInv, KilledWasAsked
<1>5. ASSUME NEW c \in CPU, NEW p \in Slot, ForkFail(c, p)
      PROVE  KilledInv'
  <2>1. pp[p] \in Slot
    BY <1>5 DEF ForkFail, At, TableInv, ForkInv, Place, Forking
  <2> QED BY <1>4, <1>5, <2>1 DEF ForkFail
<1>6. ASSUME NEW c \in CPU, NEW p \in Slot, WaitChild(c, p)
      PROVE  KilledInv'
  <2> DEFINE q == First(ChildrenFrom(p, pp[p]))
  <2>1. ChildrenFrom(p, pp[p]) \subseteq Slot /\ ChildrenFrom(p, pp[p]) # {}
    BY <1>6 DEF WaitChild, ChildrenFrom
  <2>2. q \in Slot
    BY <2>1, FirstIs
  <2>3. /\ freeproc(q) \/ UNCHANGED <<state, parent, chan, killed, pid>>
        /\ victims' = victims
    BY <1>6 DEF WaitChild
  <2>4. UNCHANGED <<state, killed, pid, victims>> => Spares
    BY DEF Spares
  <2> HIDE DEF q
  <2> QED BY <1>1, <1>4, <2>2, <2>3, <2>4
<1>7. ASSUME NEW c \in CPU, NEW p \in Slot, KillHit(c, p)
      PROVE  KilledInv'
  <2> DEFINE q == pp[p]
  <2>1. q \in Slot /\ local[p] \in KillPid /\ pid[q] = local[p]
    BY <1>7 DEF KillHit, At, TableInv, PlaceInv, Place
  <2>2. state[q] # "UNUSED"
    BY <2>1 DEF ZeroSpared, TableInv, PidInv
  <2>3. /\ pid' = pid /\ victims' = victims \cup {pid[q]}
        /\ \A r \in Slot : r # q => killed'[r] = killed[r] /\ state'[r] = state[r]
    BY <1>7 DEF KillHit, TableInv, TypeOK
  <2>4. state'[q] # "UNUSED"
    BY <1>7, <2>1, <2>2 DEF KillHit, TableInv, TypeOK
  <2> HIDE DEF q
  <2> QED BY <2>1, <2>2, <2>3, <2>4 DEF KilledInv, KilledWasAsked
<1>8. ASSUME NEW c \in CPU, NEW p \in Slot, Fault(c, p)
      PROVE  KilledInv'
  <2>1. state[p] = "RUNNING"
    BY <1>8, Running DEF Fault, At, Leaving
  <2>2. /\ UNCHANGED <<state, pid>> /\ victims' = victims \cup {pid[p]}
        /\ \A r \in Slot : r # p => killed'[r] = killed[r]
    BY <1>8 DEF Fault, TableInv, TypeOK
  <2> QED BY <2>1, <2>2 DEF KilledInv, KilledWasAsked
<1>9. ASSUME NEW c \in CPU, Scheduler(c) PROVE KilledInv'
  BY <1>1, <1>9, SparingSteps, SlotFacts
<1>10. ASSUME NEW c \in CPU, NEW p \in Slot, Switch(c, p) \/ Kernel(c, p) \/ User(c, p)
       PROVE  KilledInv'
  BY <1>1, <1>3, <1>5, <1>6, <1>7, <1>8, <1>10, SparingSteps
<1> QED BY <1>2, <1>9, <1>10 DEF Next

\* p->killed never passes from one process to the next in its slot, whatever
\* kill(), wait() and fork() do meanwhile, as long as no program calls kill(0).
THEOREM KilledWasAskedHolds ==
    ASSUME ZeroSpared
    PROVE  Spec => []KilledWasAsked
<1>1. Init => KilledInv
  BY DEF Init, KilledInv, KilledWasAsked
<1>2. TableInv /\ KilledInv /\ [Next]_vars => KilledInv'
  BY NextKilled
<1>3. KilledInv => KilledWasAsked
  BY DEF KilledInv
<1> QED BY <1>1, <1>2, <1>3, TableAlways, PTL DEF Spec

-----------------------------------------------------------------------------
(***************************************************************************)
(* No panic.                                                               *)
(***************************************************************************)

\* No step takes a thread into a panic of sched(), the exit of init included.
LEMMA StepPasses ==
    ASSUME TableInv, SchedPasses, NEW c \in CPU, NEW p \in Slot,
           Scheduler(c) \/ Switch(c, p) \/ Kernel(c, p) \/ User(c, p)
    PROVE  SchedPasses'
<1>1. CASE SchedulerSkip(c)
  BY <1>1, SlotFacts DEF SchedulerSkip, NextSlot, BrieflyLocked, Free, SchedPasses,
     TableInv, TypeOK, fields, thread
<1>2. CASE SchedulerRun(c)
  BY <1>2, SlotFacts DEF SchedulerRun, Free, SchedPasses, TableInv,
     TypeOK, fields, thread
<1>3. CASE Sched(c, p)
  <2>1. SchedOK(c, p)
    BY <1>3, SchedSafe DEF Sched, At, Leaving
  <2> QED BY <1>3, <2>1, SlotFacts DEF Sched, At, Goto, Resume, SchedPasses, TableInv, TypeOK,
       fields
<1>4. CASE Forkret(c, p)
  BY <1>4, SlotFacts DEF Forkret, At, Goto, SchedPasses, TableInv,
     TypeOK, fields, thread
<1>5. CASE YieldReturn(c, p)
  <2>1. pc[p] = "yielded" /\ after[p] # "panic"
    BY <1>5 DEF YieldReturn, At, TableInv, PlaceInv, Interruptible
  <2> QED BY <1>5, <2>1, SlotFacts DEF YieldReturn, Goto, SchedPasses, TableInv, TypeOK,
       fields
<1>6. CASE WaitWoken(c, p)
  BY <1>6, SlotFacts DEF WaitWoken, At, Goto, SchedPasses, TableInv,
     TypeOK, fields, thread
<1>7. CASE TrapKilled(c, p)
  BY <1>7, SlotFacts DEF TrapKilled, At, BrieflyLocked, Free, Goto, SchedPasses,
     TableInv, TypeOK, fields, thread
<1>8. CASE TrapReturn(c, p)
  BY <1>8, SlotFacts DEF TrapReturn, At, BrieflyLocked, Free, Goto, SchedPasses,
     TableInv, TypeOK, fields, thread
<1>9. CASE AllocSkip(c, p)
  BY <1>9, SlotFacts DEF AllocSkip, At, BrieflyLocked, Free, Goto, SchedPasses,
     TableInv, TypeOK, fields, thread
<1>10. CASE AllocFound(c, p)
  BY <1>10, SlotFacts DEF AllocFound, At, Free, SchedPasses, TableInv, TypeOK, fields, thread
<1>11. CASE ForkCopy(c, p)
  BY <1>11, SlotFacts DEF ForkCopy, At, Goto, SchedPasses, TableInv,
     TypeOK, fields, thread
<1>12. CASE ForkParent(c, p)
  BY <1>12, SlotFacts DEF ForkParent, At, Goto, SchedPasses, TableInv, TypeOK, fields, thread
<1>13. CASE ForkRun(c, p)
  BY <1>13, SlotFacts DEF ForkRun, At, BrieflyLocked, Free, Goto, SchedPasses,
     TableInv, TypeOK, fields, thread
<1>14. CASE Exit(c, p)
  BY <1>14, SlotFacts DEF Exit, At, Goto, SchedPasses, TableInv,
     TypeOK, fields, thread
<1>15. CASE Reparent(c, p)
  BY <1>15, SlotFacts DEF Reparent, At, CallWakeup, Goto, SchedPasses, TableInv, TypeOK, fields, thread
<1>16. CASE Wakeup(c, p)
  <2>1. after[p] \in {"reparent", "zombie"}
    BY <1>16 DEF Wakeup, At, TableInv, PlaceInv
  <2> QED BY <1>16, <2>1, SlotFacts DEF Wakeup, Goto, SchedPasses, TableInv, TypeOK
<1>17. CASE ExitZombie(c, p)
  BY <1>17, SlotFacts DEF ExitZombie, At, Free, Goto, SchedPasses, TableInv, TypeOK, fields, thread
<1>18. CASE WaitLock(c, p)
  BY <1>18, SlotFacts DEF WaitLock, At, Goto, SchedPasses, TableInv,
     TypeOK, fields, thread
<1>19. CASE WaitScanned(c, p)
  BY <1>19, SlotFacts DEF WaitScanned, At, WaitReturn, Goto, SchedPasses, TableInv, TypeOK, fields, thread
<1>20. CASE WaitKilled(c, p)
  BY <1>20, SlotFacts DEF WaitKilled, At, WaitReturn, BrieflyLocked, Free,
     Goto, SchedPasses, TableInv, TypeOK, fields, thread
<1>21. CASE WaitSleep(c, p)
  BY <1>21, SlotFacts DEF WaitSleep, At, Free, Goto, SchedPasses, TableInv, TypeOK, fields, thread
<1>22. CASE KillMiss(c, p)
  BY <1>22, SlotFacts DEF KillMiss, At, KillDone, BrieflyLocked, Free, Goto,
     SchedPasses, TableInv, TypeOK, fields, thread
<1>23. CASE SysFork(c, p)
  BY <1>23, SlotFacts DEF SysFork, Trap, At, BrieflyLocked, Free, Goto, SchedPasses,
     TableInv, TypeOK, fields, thread
<1>24. CASE SysExit(c, p)
  BY <1>24, SlotFacts DEF SysExit, Trap, At, BrieflyLocked, Free, Goto, SchedPasses,
     TableInv, TypeOK, fields, thread
<1>25. CASE SysWait(c, p)
  BY <1>25, SlotFacts DEF SysWait, Trap, At, BrieflyLocked, Free, Goto, SchedPasses,
     TableInv, TypeOK, fields, thread
<1>26. ASSUME NEW target \in KillPid, SysKill(c, p, target) PROVE SchedPasses'
  BY <1>26, SlotFacts DEF SysKill, Trap, At, BrieflyLocked, Free, Goto, SchedPasses,
     TableInv, TypeOK, fields, thread
<1>27. CASE Timer(c, p)
  BY <1>27, SlotFacts DEF Timer, Trap, At, BrieflyLocked, Free, Goto, SchedPasses,
     TableInv, TypeOK, fields, thread
<1>28. CASE Yield(c, p)
  BY <1>28, SlotFacts DEF Yield, At, Free, Goto, SchedPasses, TableInv, TypeOK, fields, thread, Interruptible
<1>29. CASE ForkFail(c, p)
  <2>1. pp[p] \in Slot
    BY <1>29 DEF ForkFail, At, TableInv, ForkInv, Place, Forking
  <2> QED BY <1>29, <2>1 DEF ForkFail, SchedPasses, TableInv, TypeOK
<1>30. CASE WaitChild(c, p)
  BY <1>30 DEF WaitChild, At, WaitReturn, Goto, SchedPasses, TableInv, TypeOK
<1>31. CASE KillHit(c, p)
  BY <1>31 DEF KillHit, At, KillDone, Goto, SchedPasses, TableInv, TypeOK
<1>32. CASE Fault(c, p)
  BY <1>32 DEF Fault, At, Goto, SchedPasses, TableInv, TypeOK
<1> QED BY <1>1, <1>2, <1>3, <1>4, <1>5, <1>6, <1>7, <1>8, <1>9, <1>10, <1>11,
   <1>12, <1>13, <1>14, <1>15, <1>16, <1>17, <1>18, <1>19, <1>20, <1>21, <1>22,
   <1>23, <1>24, <1>25, <1>26, <1>27, <1>28, <1>29, <1>30, <1>31, <1>32 DEF Scheduler, Switch, User, Kernel

\* No check of sched() fails on any path into the scheduler, and no hart runs
\* a thread that has exited, whatever the programs do: init may exit or be
\* killed, in any state of the others.
THEOREM ProcNoPanic == Spec => []NoPanic
<1>1. Init => SchedPasses
  BY SlotFacts DEF Init, SchedPasses
<1>2. TableInv /\ SchedPasses /\ [Next]_vars => SchedPasses'
  <2> SUFFICES ASSUME TableInv, SchedPasses, [Next]_vars PROVE SchedPasses'
    OBVIOUS
  <2>1. CASE UNCHANGED vars
    BY <2>1 DEF vars, SchedPasses
  <2>2. ASSUME NEW c \in CPU, Scheduler(c) PROVE SchedPasses'
    BY <2>2, StepPasses, SlotFacts
  <2>3. ASSUME NEW c \in CPU, NEW p \in Slot, Switch(c, p) \/ Kernel(c, p) \/ User(c, p)
        PROVE  SchedPasses'
    BY <2>3, StepPasses
  <2> QED BY <2>1, <2>2, <2>3 DEF Next
<1>3. TableInv /\ SchedPasses => NoPanic
  BY DEF TableInv, StateInv, OnHart, SchedPasses, NoPanic, At
<1> QED BY <1>1, <1>2, <1>3, TableAlways, PTL DEF Spec

-----------------------------------------------------------------------------
(***************************************************************************)
(* The life cycle.  fork() is entered while nextpid <= MaxPid, by at most  *)
(* NPROC processes at a time, so that all identifiers are in AllPids.      *)
(***************************************************************************)
Forkers == {p \in Slot : Place(p) = "fork"}

PidBound ==
    /\ \A p \in Slot : pid[p] <= MaxPid + NPROC
    /\ Forkers # {} => nextpid + Cardinality(Forkers) <= MaxPid + NPROC

\* There are at most NPROC of them.
LEMMA ForkersFinite ==
    \A S \in SUBSET Slot : /\ IsFiniteSet(S) /\ Cardinality(S) \in Nat
                           /\ Cardinality(S) <= NPROC
<1>1. IsFiniteSet(Slot) /\ Cardinality(Slot) = NPROC
  <2>1. 0 \in Int /\ NPROC - 1 \in Int /\ ~(0 > NPROC - 1)
    BY ProcAssumption
  <2>2. IsFiniteSet(0 .. NPROC - 1) /\ Cardinality(0 .. NPROC - 1) = (NPROC - 1) - 0 + 1
    BY <2>1, FS_Interval
  <2> QED BY <2>2, ProcAssumption DEF Slot
<1> QED BY <1>1, FS_Subset, FS_CardinalityType

\* A step that hands out no identifier and enters no fork().
LEMMA FewerForkers ==
    ASSUME TableInv, PidBound, nextpid' = nextpid, Forkers' \subseteq Forkers,
           \A p \in Slot : pid'[p] = pid[p] \/ pid'[p] = 0
    PROVE  PidBound'
<1>1. Forkers \subseteq Slot /\ Forkers' \subseteq Slot
  BY DEF Forkers
<1>2. /\ Cardinality(Forkers) \in Nat /\ Cardinality(Forkers') \in Nat
      /\ IsFiniteSet(Forkers)
  BY <1>1, ForkersFinite
<1>3. Cardinality(Forkers') <= Cardinality(Forkers)
  BY <1>2, FS_Subset
<1>4. Forkers' # {} => Forkers # {}
  OBVIOUS
<1>5. nextpid \in Nat /\ MaxPid + NPROC \in Nat
  BY ProcAssumption DEF TableInv, TypeOK
<1>6. Forkers' # {} => nextpid' + Cardinality(Forkers') <= MaxPid + NPROC
  BY <1>2, <1>3, <1>4, <1>5 DEF PidBound
<1>7. \A p \in Slot : pid'[p] <= MaxPid + NPROC
  BY <1>5 DEF PidBound
<1> QED BY <1>6, <1>7 DEF PidBound

\* A step that gives no process a new identifier and lets none into fork().
NoNewPid ==
    /\ nextpid' = nextpid
    /\ \A q \in Slot : /\ pid'[q] = pid[q] \/ pid'[q] = 0
                       /\ Place(q)' = "fork" => Place(q) = "fork"

\* Every step but the call of fork() and allocproc().
LEMMA BoundSteps ==
    ASSUME TableInv, NEW c \in CPU, NEW p \in Slot,
           \/ Scheduler(c) \/ Switch(c, p)
           \/ User(c, p) /\ ~SysFork(c, p)
           \/ Kernel(c, p) /\ ~AllocFound(c, p)
    PROVE  NoNewPid
<1>1. CASE SchedulerSkip(c)
  BY <1>1 DEF SchedulerSkip, NextSlot, BrieflyLocked, Free, NoNewPid, Place,
     TableInv, TypeOK, fields, thread
<1>2. CASE SchedulerRun(c)
  BY <1>2 DEF SchedulerRun, Free, NoNewPid, Place, TableInv, TypeOK, fields,
     thread
<1>3. CASE Sched(c, p)
  <2>1. SchedOK(c, p)
    BY <1>3, SchedSafe DEF Sched, At, Leaving
  <2> QED BY <1>3, <2>1 DEF Sched, At, Goto, Resume, NoNewPid, Place, TableInv, TypeOK, fields
<1>4. CASE Forkret(c, p)
  BY <1>4 DEF Forkret, At, Goto, NoNewPid, Place, TableInv, TypeOK, fields,
     thread
<1>5. CASE YieldReturn(c, p)
  BY <1>5 DEF YieldReturn, At, Goto, NoNewPid, Place, TableInv, TypeOK, fields
<1>6. CASE WaitWoken(c, p)
  BY <1>6 DEF WaitWoken, At, Goto, NoNewPid, Place, TableInv, TypeOK, fields,
     thread
<1>7. CASE TrapKilled(c, p)
  BY <1>7 DEF TrapKilled, At, BrieflyLocked, Free, Goto, NoNewPid, Place,
     TableInv, TypeOK, fields, thread
<1>8. CASE TrapReturn(c, p)
  BY <1>8 DEF TrapReturn, At, BrieflyLocked, Free, Goto, NoNewPid, Place,
     TableInv, TypeOK, fields, thread
<1>9. CASE AllocSkip(c, p)
  BY <1>9 DEF AllocSkip, At, BrieflyLocked, Free, Goto, NoNewPid, Place,
     TableInv, TypeOK, fields, thread
<1>10. CASE ForkFail(c, p)
  <2>1. pp[p] \in Slot
    BY <1>10 DEF ForkFail, At, TableInv, ForkInv, Place, Forking
  <2> QED BY <1>10, <2>1 DEF ForkFail, At, freeproc, NoNewPid, Place, TableInv, TypeOK
<1>11. CASE ForkCopy(c, p)
  BY <1>11 DEF ForkCopy, At, Goto, NoNewPid, Place, TableInv, TypeOK, fields,
     thread
<1>12. CASE ForkParent(c, p)
  BY <1>12 DEF ForkParent, At, Goto, NoNewPid, Place, TableInv, TypeOK, fields,
     thread
<1>13. CASE ForkRun(c, p)
  BY <1>13 DEF ForkRun, At, BrieflyLocked, Free, Goto, NoNewPid, Place,
     TableInv, TypeOK, fields, thread
<1>14. CASE Exit(c, p)
  BY <1>14 DEF Exit, At, Goto, NoNewPid, Place, TableInv, TypeOK, fields,
     thread
<1>15. CASE Reparent(c, p)
  BY <1>15 DEF Reparent, At, CallWakeup, Goto, NoNewPid, Place, TableInv,
     TypeOK, fields, thread
<1>16. CASE Wakeup(c, p)
  <2>1. after[p] \in {"reparent", "zombie"}
    BY <1>16 DEF Wakeup, At, TableInv, PlaceInv
  <2> QED BY <1>16, <2>1 DEF Wakeup, At, Goto, NoNewPid, Place, TableInv, TypeOK
<1>17. CASE ExitZombie(c, p)
  BY <1>17 DEF ExitZombie, At, Free, Goto, NoNewPid, Place, TableInv, TypeOK,
     fields, thread
<1>18. CASE WaitLock(c, p)
  BY <1>18 DEF WaitLock, At, Goto, NoNewPid, Place, TableInv, TypeOK, fields,
     thread
<1>19. CASE WaitChild(c, p)
  BY <1>19 DEF WaitChild, At, WaitReturn, freeproc, BrieflyLocked, Free, Goto,
     NoNewPid, Place, TableInv, TypeOK, fields, thread
<1>20. CASE WaitScanned(c, p)
  BY <1>20 DEF WaitScanned, At, WaitReturn, Goto, NoNewPid, Place, TableInv,
     TypeOK, fields, thread
<1>21. CASE WaitKilled(c, p)
  BY <1>21 DEF WaitKilled, At, WaitReturn, BrieflyLocked, Free, Goto, NoNewPid,
     Place, TableInv, TypeOK, fields, thread
<1>22. CASE WaitSleep(c, p)
  BY <1>22 DEF WaitSleep, At, Free, Goto, NoNewPid, Place, TableInv, TypeOK,
     fields, thread
<1>23. CASE KillHit(c, p)
  BY <1>23 DEF KillHit, At, KillDone, BrieflyLocked, Free, Goto, NoNewPid,
     Place, TableInv, TypeOK, fields, thread
<1>24. CASE KillMiss(c, p)
  BY <1>24 DEF KillMiss, At, KillDone, BrieflyLocked, Free, Goto, NoNewPid,
     Place, TableInv, TypeOK, fields, thread
<1>25. CASE SysExit(c, p)
  BY <1>25 DEF SysExit, Trap, At, BrieflyLocked, Free, Goto, NoNewPid, Place,
     TableInv, TypeOK, fields, thread
<1>26. CASE SysWait(c, p)
  BY <1>26 DEF SysWait, Trap, At, BrieflyLocked, Free, Goto, NoNewPid, Place,
     TableInv, TypeOK, fields, thread
<1>27. ASSUME NEW target \in KillPid, SysKill(c, p, target) PROVE NoNewPid
  BY <1>27 DEF SysKill, Trap, At, BrieflyLocked, Free, Goto, NoNewPid, Place,
     TableInv, TypeOK, fields, thread
<1>28. CASE Timer(c, p)
  BY <1>28 DEF Timer, Trap, At, BrieflyLocked, Free, Goto, NoNewPid, Place,
     TableInv, TypeOK, fields, thread
<1>29. CASE Fault(c, p)
  BY <1>29 DEF Fault, At, BrieflyLocked, Free, Goto, NoNewPid, Place, TableInv,
     TypeOK, fields, thread
<1>30. CASE Yield(c, p)
  BY <1>30 DEF Yield, At, Free, Goto, NoNewPid, Place, TableInv, TypeOK,
     fields, thread, Interruptible
<1> QED BY <1>1, <1>2, <1>3, <1>4, <1>5, <1>6, <1>7, <1>8, <1>9, <1>10, <1>11,
   <1>12, <1>13, <1>14, <1>15, <1>16, <1>17, <1>18, <1>19, <1>20, <1>21, <1>22,
   <1>23, <1>24, <1>25, <1>26, <1>27, <1>28, <1>29, <1>30 DEF Scheduler,
   Switch, User, Kernel

\* Every step.
LEMMA NextBound == TableInv /\ PidBound /\ [Next]_vars => PidBound'
<1> SUFFICES ASSUME TableInv, PidBound, [Next]_vars PROVE PidBound'
  OBVIOUS
<1> USE ProcAssumption
<1>1. CASE UNCHANGED vars
  BY <1>1 DEF vars, PidBound, Forkers, Place
<1>2. ASSUME NEW c \in CPU, NEW p \in Slot,
             \/ Scheduler(c) \/ Switch(c, p)
             \/ User(c, p) /\ ~SysFork(c, p)
             \/ Kernel(c, p) /\ ~AllocFound(c, p)
      PROVE  PidBound'
  <2>1. /\ nextpid' = nextpid
        /\ \A q \in Slot : /\ pid'[q] = pid[q] \/ pid'[q] = 0
                           /\ Place(q)' = "fork" => Place(q) = "fork"
    BY <1>2, BoundSteps DEF NoNewPid
  <2>2. Forkers' \subseteq Forkers
    BY <2>1 DEF Forkers
  <2> QED BY <2>1, <2>2, FewerForkers
<1>3. ASSUME NEW c \in CPU, NEW p \in Slot, SysFork(c, p)
      PROVE  PidBound'
  <2>1. Forkers' \subseteq Slot
    BY DEF Forkers
  <2>2. Cardinality(Forkers') \in Nat /\ Cardinality(Forkers') <= NPROC
    BY <2>1, ForkersFinite
  <2>3. nextpid <= MaxPid /\ nextpid \in Nat /\ UNCHANGED <<nextpid, pid>>
    BY <1>3 DEF SysFork, Trap, fields, TableInv, TypeOK
  <2> QED BY <2>2, <2>3 DEF PidBound
<1>4. ASSUME NEW c \in CPU, NEW p \in Slot, AllocFound(c, p)
      PROVE  PidBound'
  <2> DEFINE np == pp[p]
  <2>1. pc[p] = "fork" /\ Place(p) = "fork" /\ np \in Slot /\ state[np] = "UNUSED"
    BY <1>4 DEF AllocFound, At, Place, TableInv, PlaceInv
  <2>2. pc[np] = "none"
    BY <2>1, Off
  <2>3. /\ pc'[p] = "forkcopy" \/ p = np
        /\ pc'[np] = "forkret"
        /\ \A q \in Slot : q # p /\ q # np => pc'[q] = pc[q]
        /\ after' = after /\ nextpid' = nextpid + 1
    BY <1>4, <2>1 DEF AllocFound, TableInv, TypeOK
  <2>4. Forkers' = Forkers \ {p}
    BY <2>1, <2>2, <2>3 DEF Forkers, Place
  <2>5. p \in Forkers /\ Forkers \subseteq Slot
    BY <2>1 DEF Forkers
  <2>6. IsFiniteSet(Forkers) /\ Cardinality(Forkers) \in Nat
    BY <2>5, ForkersFinite
  <2>7. Cardinality(Forkers') = Cardinality(Forkers) - 1
    BY <2>4, <2>5, <2>6, FS_RemoveElement
  <2>8. nextpid \in Nat /\ nextpid + Cardinality(Forkers) <= MaxPid + NPROC
    BY <2>5 DEF PidBound, TableInv, TypeOK
  <2>9. Cardinality(Forkers') \in Nat
    BY <2>4, <2>5, ForkersFinite
  <2>10. \A q \in Slot : pid'[q] = IF q = np THEN nextpid ELSE pid[q]
    BY <1>4, <2>1 DEF AllocFound, TableInv, TypeOK
  <2>11. nextpid <= MaxPid + NPROC
    BY <2>6, <2>7, <2>8, <2>9
  <2>12. \A q \in Slot : pid'[q] <= MaxPid + NPROC
    BY <2>10, <2>11 DEF PidBound
  <2>13. nextpid' + Cardinality(Forkers') <= MaxPid + NPROC
    BY <2>3, <2>6, <2>7, <2>8
  <2> QED BY <2>12, <2>13 DEF PidBound
<1>5. ASSUME NEW c \in CPU, Scheduler(c) PROVE PidBound'
  BY <1>2, <1>5, SlotFacts
<1>6. ASSUME NEW c \in CPU, NEW p \in Slot, Switch(c, p) \/ Kernel(c, p) \/ User(c, p)
      PROVE  PidBound'
  BY <1>2, <1>3, <1>4, <1>6
<1> QED BY <1>1, <1>5, <1>6 DEF Next

\* The parent that Par reads in a slot.
ParOf(p) == IF state[p] # "USED" /\ parent[p] # NoProc THEN pid[parent[p]] ELSE 0

\* Life and Par read the slot that has the identifier; there is at most one.
LivesAre ==
    /\ \A p \in Slot : pid[p] # 0 =>
          Life(pid[p]) = Stage(p) /\ Par(pid[p]) = ParOf(p)
    /\ \A i \in Nat : (\A p \in Slot : pid[p] # i) =>
          Life(i) = (IF i < nextpid THEN "gone" ELSE "unborn") /\ Par(i) = 0

\* What the abstract life of each slot is, read off the table.
LEMMA LivesFact == TableInv => LivesAre
<1> SUFFICES ASSUME TableInv PROVE LivesAre
  OBVIOUS
<1>1. ASSUME NEW p \in Slot, pid[p] # 0
      PROVE  Life(pid[p]) = Stage(p) /\ Par(pid[p]) = ParOf(p)
  <2>1. (CHOOSE q \in Slot : pid[q] = pid[p]) = p
    BY <1>1 DEF TableInv, PidInv
  <2>2. Life(pid[p]) = Stage(p)
    BY <2>1 DEF Life
  <2>3. (\E q \in Slot : pid[q] = pid[p] /\ state[q] # "USED" /\ parent[q] # NoProc)
          <=> (state[p] # "USED" /\ parent[p] # NoProc)
    BY <1>1 DEF TableInv, PidInv
  <2>4. Par(pid[p]) = IF \E q \in Slot : /\ pid[q] = pid[p]
                                         /\ state[q] # "USED" /\ parent[q] # NoProc
                      THEN pid[parent[p]] ELSE 0
    BY <2>1 DEF Par
  <2>5. Par(pid[p]) = ParOf(p)
    BY <2>3, <2>4 DEF ParOf
  <2> QED BY <2>2, <2>5
<1>2. ASSUME NEW i \in Nat, \A p \in Slot : pid[p] # i
      PROVE  Life(i) = (IF i < nextpid THEN "gone" ELSE "unborn") /\ Par(i) = 0
  BY <1>2 DEF Life, Par
<1> QED BY <1>1, <1>2 DEF LivesAre

\* The same of the state after a step.
LEMMA LivesFactNext == TableInv' => LivesAre'
  BY LivesFact, PTL

\* A step that changes no process, as fork, exit and wait see it.
LEMMA SameLives ==
    ASSUME TableInv, TableInv', UNCHANGED <<pid, nextpid>>,
           \A p \in Slot : pid[p] # 0 => Stage(p)' = Stage(p) /\ ParOf(p)' = ParOf(p)
    PROVE  Lives' = Lives /\ Pars' = Pars
<1>1. LivesAre /\ LivesAre'
  BY LivesFact, LivesFactNext
<1>2. \A i \in AllPids : i \in Nat /\ i # 0
  BY ProcAssumption DEF AllPids
<1>3. ASSUME NEW i \in AllPids PROVE Life(i)' = Life(i) /\ Par(i)' = Par(i)
  <2>1. CASE \E p \in Slot : pid[p] = i
    <3>1. PICK p \in Slot : pid[p] = i
      BY <2>1
    <3> QED BY <1>1, <1>2, <3>1 DEF LivesAre
  <2>2. CASE \A p \in Slot : pid[p] # i
    BY <1>1, <1>2, <2>2 DEF LivesAre
  <2> QED BY <2>1, <2>2
<1> QED BY <1>3 DEF Lives, Pars

\* A step that changes one process, in slot q with identifier i.
LEMMA OneLife ==
    ASSUME TableInv, TableInv', NEW q \in Slot, NEW i \in AllPids,
           \A p \in Slot : p # q =>
              /\ pid'[p] = pid[p]
              /\ pid[p] # 0 => Stage(p)' = Stage(p) /\ ParOf(p)' = ParOf(p),
           pid[q] \in {0, i}, pid'[q] \in {0, i},
           nextpid' = nextpid \/ (nextpid' = nextpid + 1 /\ i = nextpid)
    PROVE  /\ Lives' = [Lives EXCEPT ![i] = Life(i)']
           /\ Pars' = [Pars EXCEPT ![i] = Par(i)']
<1>1. LivesAre /\ LivesAre'
  BY LivesFact, LivesFactNext
<1>2. \A j \in AllPids : j \in Nat /\ j # 0
  BY ProcAssumption DEF AllPids
<1>3. nextpid \in Nat
  BY DEF TableInv, TypeOK
<1>4. ASSUME NEW j \in AllPids, j # i PROVE Life(j)' = Life(j) /\ Par(j)' = Par(j)
  <2>1. CASE \E p \in Slot : pid[p] = j
    <3>1. PICK p \in Slot : pid[p] = j
      BY <2>1
    <3>2. p # q /\ pid'[p] = j
      BY <3>1, <1>2, <1>4
    <3> QED BY <1>1, <1>2, <3>1, <3>2 DEF LivesAre
  <2>2. CASE \A p \in Slot : pid[p] # j
    <3>1. \A p \in Slot : pid'[p] # j
      BY <2>2, <1>2, <1>4
    <3>2. j < nextpid' <=> j < nextpid
      BY <1>2, <1>3, <1>4
    <3> QED BY <1>1, <1>2, <2>2, <3>1, <3>2 DEF LivesAre
  <2> QED BY <2>1, <2>2
<1> QED BY <1>4 DEF Lives, Pars

Alive == {"SLEEPING", "RUNNABLE", "RUNNING"}

\* A step in which processes only go to sleep, wake up, run and stop running.
KeepsLives ==
    /\ UNCHANGED <<pid, nextpid>>
    /\ \A p \in Slot : /\ state'[p] = state[p] \/ (state[p] \in Alive /\ state'[p] \in Alive)
                       /\ parent'[p] = parent[p] \/ state[p] = "USED"

\* A step that changes no slot's life nor its parent leaves the abstract table alone.
LEMMA KeepsLivesStep ==
    ASSUME TableInv, TableInv', KeepsLives
    PROVE  Lives' = Lives /\ Pars' = Pars
<1>1. \A p \in Slot : Stage(p)' = Stage(p)
  BY DEF KeepsLives, Alive, Stage
<1>2. \A p \in Slot : ParOf(p)' = ParOf(p)
  BY DEF KeepsLives, Alive, ParOf
<1> QED BY <1>1, <1>2, SameLives DEF KeepsLives

\* Every step but those of Processes.
LEMMA KeepingSteps ==
    ASSUME TableInv, NEW c \in CPU, NEW p \in Slot,
           \/ Scheduler(c) \/ Switch(c, p) \/ User(c, p)
           \/ Kernel(c, p) /\ ~(\/ AllocFound(c, p) \/ ForkFail(c, p) \/ ForkRun(c, p)
                                \/ Reparent(c, p) \/ ExitZombie(c, p) \/ WaitChild(c, p))
    PROVE  KeepsLives
<1>1. CASE SchedulerSkip(c)
  BY <1>1 DEF SchedulerSkip, NextSlot, BrieflyLocked, Free, KeepsLives, Alive,
     TableInv, TypeOK, fields
<1>2. CASE SchedulerRun(c)
  BY <1>2 DEF SchedulerRun, Free, KeepsLives, Alive, TableInv, TypeOK, fields
<1>3. CASE Sched(c, p)
  BY <1>3 DEF Sched, At, SchedOK, Resume, NextSlot, Goto, KeepsLives, Alive,
     TableInv, TypeOK, fields
<1>4. CASE Forkret(c, p)
  BY <1>4 DEF Forkret, At, Goto, KeepsLives, Alive, TableInv, TypeOK, fields
<1>5. CASE YieldReturn(c, p)
  BY <1>5 DEF YieldReturn, At, Goto, KeepsLives, Alive, TableInv, TypeOK,
     fields
<1>6. CASE WaitWoken(c, p)
  BY <1>6 DEF WaitWoken, At, Goto, KeepsLives, Alive, TableInv, TypeOK, fields
<1>7. CASE TrapKilled(c, p)
  BY <1>7 DEF TrapKilled, At, BrieflyLocked, Free, Goto, KeepsLives, Alive,
     TableInv, TypeOK, fields
<1>8. CASE TrapReturn(c, p)
  BY <1>8 DEF TrapReturn, At, BrieflyLocked, Free, Goto, KeepsLives, Alive,
     TableInv, TypeOK, fields
<1>9. CASE AllocSkip(c, p)
  BY <1>9 DEF AllocSkip, At, BrieflyLocked, Free, Goto, KeepsLives, Alive,
     TableInv, TypeOK, fields
<1>10. CASE ForkCopy(c, p)
  BY <1>10 DEF ForkCopy, At, Goto, KeepsLives, Alive, TableInv, TypeOK, fields
<1>11. CASE ForkParent(c, p)
  <2>1. pp[p] \in Slot /\ state[pp[p]] = "USED"
    BY <1>11 DEF ForkParent, At, TableInv, ForkInv, Place, Forking
  <2> QED BY <1>11, <2>1 DEF ForkParent, KeepsLives, TableInv, TypeOK
<1>12. CASE Exit(c, p)
  BY <1>12 DEF Exit, At, Goto, KeepsLives, Alive, TableInv, TypeOK, fields
<1>13. CASE Wakeup(c, p)
  BY <1>13 DEF Wakeup, At, BrieflyLocked, Free, Goto, KeepsLives, Alive,
     TableInv, TypeOK, fields
<1>14. CASE WaitLock(c, p)
  BY <1>14 DEF WaitLock, At, Goto, KeepsLives, Alive, TableInv, TypeOK, fields
<1>15. CASE WaitScanned(c, p)
  BY <1>15 DEF WaitScanned, At, WaitReturn, Goto, KeepsLives, Alive, TableInv,
     TypeOK, fields
<1>16. CASE WaitKilled(c, p)
  BY <1>16 DEF WaitKilled, At, WaitReturn, BrieflyLocked, Free, Goto,
     KeepsLives, Alive, TableInv, TypeOK, fields
<1>17. CASE WaitSleep(c, p)
  <2>1. state[p] = "RUNNING"
    BY <1>17, Running DEF WaitSleep, At, Leaving, Interruptible
  <2> QED BY <1>17, <2>1 DEF WaitSleep, At, Free, Goto, KeepsLives, Alive,
     TableInv, TypeOK
<1>18. CASE KillHit(c, p)
  BY <1>18 DEF KillHit, At, KillDone, BrieflyLocked, Free, Goto, KeepsLives,
     Alive, TableInv, TypeOK, fields
<1>19. CASE KillMiss(c, p)
  BY <1>19 DEF KillMiss, At, KillDone, BrieflyLocked, Free, Goto, KeepsLives,
     Alive, TableInv, TypeOK, fields
<1>20. CASE SysFork(c, p)
  BY <1>20 DEF SysFork, Trap, At, BrieflyLocked, Free, Goto, KeepsLives, Alive,
     TableInv, TypeOK, fields
<1>21. CASE SysExit(c, p)
  BY <1>21 DEF SysExit, Trap, At, BrieflyLocked, Free, Goto, KeepsLives, Alive,
     TableInv, TypeOK, fields
<1>22. CASE SysWait(c, p)
  BY <1>22 DEF SysWait, Trap, At, BrieflyLocked, Free, Goto, KeepsLives, Alive,
     TableInv, TypeOK, fields
<1>23. ASSUME NEW target \in KillPid, SysKill(c, p, target) PROVE KeepsLives
  BY <1>23 DEF SysKill, Trap, At, BrieflyLocked, Free, Goto, KeepsLives, Alive,
     TableInv, TypeOK, fields
<1>24. CASE Timer(c, p)
  BY <1>24 DEF Timer, Trap, At, BrieflyLocked, Free, Goto, KeepsLives, Alive,
     TableInv, TypeOK, fields
<1>25. CASE Fault(c, p)
  BY <1>25 DEF Fault, At, BrieflyLocked, Free, Goto, KeepsLives, Alive,
     TableInv, TypeOK, fields
<1>26. CASE Yield(c, p)
  <2>1. state[p] = "RUNNING"
    BY <1>26, Running DEF Yield, At, Leaving, Interruptible
  <2> QED BY <1>26, <2>1 DEF Yield, At, Free, Goto, KeepsLives, Alive,
     TableInv, TypeOK
<1> QED BY <1>1, <1>2, <1>3, <1>4, <1>5, <1>6, <1>7, <1>8, <1>9, <1>10, <1>11,
   <1>12, <1>13, <1>14, <1>15, <1>16, <1>17, <1>18, <1>19, <1>20, <1>21, <1>22,
   <1>23, <1>24, <1>25, <1>26 DEF Scheduler, Switch, User, Kernel

\* The identifiers in use are in AllPids.
LEMMA PidsAre ==
    ASSUME TableInv, PidBound, NEW p \in Slot, state[p] # "UNUSED"
    PROVE  pid[p] \in AllPids /\ pid[p] # 0
<1>1. pid[p] \in Nat /\ pid[p] # 0 /\ pid[p] <= MaxPid + NPROC
  BY DEF TableInv, TypeOK, PidInv, PidBound
<1>2. MaxPid + NPROC \in Nat
  BY ProcAssumption
<1> QED BY <1>1, <1>2 DEF AllPids

\* allocproc() is Spawn.
LEMMA AllocFoundLife ==
    ASSUME TableInv, TableInv', PidBound, PidBound', NEW c \in CPU, NEW p \in Slot,
           AllocFound(c, p)
    PROVE  [L!LifeNext]_L!lifevars
<1>a. PICK np \in Slot : np = pp[p]
  BY DEF AllocFound, At, TableInv, PlaceInv, Place
<1>b. PICK i \in Nat : i = nextpid
  BY DEF TableInv, TypeOK
<1>1. np \in Slot /\ state[np] = "UNUSED" /\ pid[np] = 0
  BY <1>a DEF AllocFound, TableInv, PidInv
<1>2. /\ state'[np] = "USED" /\ pid'[np] = i /\ nextpid' = i + 1 /\ parent' = parent
      /\ \A q \in Slot : q # np => state'[q] = state[q] /\ pid'[q] = pid[q]
  BY <1>a, <1>b DEF AllocFound, TableInv, TypeOK
<1>3. i \in Nat /\ i >= 2 /\ \A q \in Slot : pid[q] # i
  BY <1>b DEF TableInv, TypeOK, PidInv
<1>4. i \in AllPids
  <2>1. i <= MaxPid + NPROC /\ MaxPid + NPROC \in Nat
    BY <1>1, <1>2, ProcAssumption DEF PidBound
  <2> QED BY <1>3, <2>1 DEF AllPids
<1>5. \A q \in Slot : parent[q] # np
  BY <1>1, SlotFacts DEF TableInv, ParentCanWait
<1>6. \A q \in Slot : q # np => Stage(q)' = Stage(q) /\ ParOf(q)' = ParOf(q)
  BY <1>2, <1>5 DEF Stage, ParOf, TableInv, TypeOK
<1>7. Stage(np)' = "embryo" /\ ParOf(np)' = 0
  BY <1>2 DEF Stage, ParOf
<1>8. LivesAre /\ LivesAre'
  BY LivesFact, LivesFactNext
<1>9. Life(i) = "unborn" /\ Par(i) = 0
  BY <1>b, <1>3, <1>8 DEF LivesAre
<1>10. Life(i)' = "embryo" /\ Par(i)' = 0
  BY <1>1, <1>2, <1>3, <1>7, <1>8 DEF LivesAre
<1>11. Lives' = [Lives EXCEPT ![i] = "embryo"] /\ Pars' = [Pars EXCEPT ![i] = 0]
  BY <1>1, <1>2, <1>4, <1>6, <1>10, <1>b, OneLife
<1>12. Lives[i] = "unborn" /\ Pars[i] = 0 /\ Pars' = Pars
  BY <1>4, <1>9, <1>11 DEF Lives, Pars
<1>13. ASSUME NEW j \in AllPids, j < i PROVE Lives[j] # "unborn"
  <2>1. j \in Nat /\ j # 0
    BY ProcAssumption DEF AllPids
  <2>2. Life(j) # "unborn"
    BY <1>b, <1>8, <1>13, <2>1 DEF LivesAre, Stage
  <2> QED BY <2>2 DEF Lives
<1>14. L!Spawn(i)
  BY <1>11, <1>12, <1>13 DEF L!Spawn, L!Become
<1> QED BY <1>4, <1>14 DEF L!LifeNext

\* freeproc() in fork() is Abort.
LEMMA ForkFailLife ==
    ASSUME TableInv, TableInv', PidBound, PidBound', NEW c \in CPU, NEW p \in Slot,
           ForkFail(c, p)
    PROVE  [L!LifeNext]_L!lifevars
<1>1. PICK np \in Slot : np = pp[p] /\ state[np] = "USED"
  BY DEF ForkFail, At, TableInv, ForkInv, Place, Forking
<1>12. PICK i \in Nat : pid[np] = i
  BY DEF TableInv, TypeOK
<1>2. /\ state'[np] = "UNUSED" /\ pid'[np] = 0 /\ nextpid' = nextpid
      /\ \A q \in Slot : q # np => /\ state'[q] = state[q] /\ pid'[q] = pid[q]
                                   /\ parent'[q] = parent[q]
  BY <1>1 DEF ForkFail, freeproc, TableInv, TypeOK
<1>3. i \in AllPids /\ i # 0 /\ i \in Nat /\ i < nextpid
  BY <1>1, <1>12, PidsAre DEF TableInv, TypeOK, PidInv
<1>4. \A q \in Slot : q # np => pid[q] # i
  BY <1>1, <1>3, <1>12 DEF TableInv, PidInv
<1>5. \A q \in Slot : parent[q] # np
  BY <1>1, SlotFacts DEF TableInv, ParentCanWait
<1>6. \A q \in Slot : q # np => Stage(q)' = Stage(q) /\ ParOf(q)' = ParOf(q)
  BY <1>2, <1>5 DEF Stage, ParOf, TableInv, TypeOK
<1>7. Stage(np) = "embryo" /\ ParOf(np) = 0
  BY <1>1 DEF Stage, ParOf
<1>8. LivesAre /\ LivesAre'
  BY LivesFact, LivesFactNext
<1>9. Life(i) = "embryo" /\ Par(i) = 0
  BY <1>1, <1>3, <1>7, <1>8, <1>12 DEF LivesAre
<1>10. \A q \in Slot : pid'[q] # i
  BY <1>2, <1>3, <1>4
<1>11. Life(i)' = "gone" /\ Par(i)' = 0
  BY <1>2, <1>3, <1>8, <1>10 DEF LivesAre
<1>13. Lives' = [Lives EXCEPT ![i] = "gone"] /\ Pars' = [Pars EXCEPT ![i] = 0]
  BY <1>1, <1>2, <1>3, <1>6, <1>11, <1>12, OneLife
<1>14. Lives[i] = "embryo" /\ Pars' = Pars
  BY <1>3, <1>9, <1>13 DEF Lives, Pars
<1>15. L!Abort(i)
  BY <1>13, <1>14 DEF L!Abort, L!Become
<1> QED BY <1>3, <1>15 DEF L!LifeNext

\* The end of fork() is Start.
LEMMA ForkRunLife ==
    ASSUME TableInv, TableInv', PidBound, PidBound', NEW c \in CPU, NEW p \in Slot,
           ForkRun(c, p)
    PROVE  [L!LifeNext]_L!lifevars
<1>1. PICK np \in Slot : np = pp[p] /\ state[np] = "USED" /\ parent[np] = p
  BY DEF ForkRun, At, TableInv, ForkInv, Place, Forking
<1>11. PICK i \in Nat : pid[np] = i
  BY DEF TableInv, TypeOK
<1>a. PICK j \in Nat : pid[p] = j
  BY DEF TableInv, TypeOK
<1>2. /\ state'[np] = "RUNNABLE" /\ UNCHANGED <<pid, nextpid, parent>>
      /\ \A q \in Slot : q # np => state'[q] = state[q]
  BY <1>1 DEF ForkRun, TableInv, TypeOK
<1>3. i \in AllPids /\ i # 0
  BY <1>1, <1>11, PidsAre
<1>4. state[p] = "RUNNING"
  BY Running DEF ForkRun, At, Leaving
<1>5. pid[p] \in AllPids /\ pid[p] # 0
  BY <1>4, PidsAre
<1>6. \A q \in Slot : q # np => Stage(q)' = Stage(q) /\ ParOf(q)' = ParOf(q)
  BY <1>2 DEF Stage, ParOf
<1>7. /\ Stage(np) = "embryo" /\ ParOf(np) = 0
      /\ Stage(np)' = "live" /\ ParOf(np)' = j /\ Stage(p) = "live"
  BY <1>1, <1>2, <1>4, <1>a, SlotFacts DEF Stage, ParOf
<1>8. LivesAre /\ LivesAre'
  BY LivesFact, LivesFactNext
<1>9. Life(i) = "embryo" /\ Life(pid[p]) = "live"
  BY <1>1, <1>3, <1>5, <1>7, <1>8, <1>11 DEF LivesAre
<1>10. Life(i)' = "live" /\ Par(i)' = j
  BY <1>1, <1>2, <1>3, <1>7, <1>8, <1>11 DEF LivesAre
<1>12. Lives' = [Lives EXCEPT ![i] = "live"] /\ Pars' = [Pars EXCEPT ![i] = j]
  BY <1>1, <1>2, <1>3, <1>6, <1>10, <1>11, OneLife
<1>13. Lives[i] = "embryo" /\ Lives[pid[p]] = "live"
  BY <1>3, <1>5, <1>9 DEF Lives
<1>14. L!Start(i, j)
  BY <1>a, <1>12, <1>13 DEF L!Start, L!Become
<1> QED BY <1>3, <1>5, <1>14, <1>a DEF L!LifeNext

\* reparent() is Adopt, for a child that has started.
LEMMA ReparentLife ==
    ASSUME TableInv, TableInv', PidBound, PidBound', NEW c \in CPU, NEW p \in Slot,
           Reparent(c, p)
    PROVE  [L!LifeNext]_L!lifevars
<1> DEFINE kids == ChildrenFrom(p, pp[p])
<1>1. CASE kids = {}
  <2>1. KeepsLives
    BY <1>1 DEF Reparent, KeepsLives
  <2> QED BY <2>1, KeepsLivesStep DEF L!lifevars
<1>2. CASE kids # {}
  <2>1. kids \subseteq Slot /\ \A q \in kids : parent[q] = p
    BY DEF ChildrenFrom
  <2>2. PICK k \in Slot : k = First(kids) /\ parent[k] = p
    BY <1>2, <2>1, FirstIs
  <2>3. UNCHANGED <<state, pid, nextpid>> /\ parent' = [parent EXCEPT ![k] = initproc]
    BY <1>2, <2>2 DEF Reparent
  <2>4. parent'[k] = initproc /\ \A q \in Slot : q # k => parent'[q] = parent[q]
    BY <2>2, <2>3 DEF TableInv, TypeOK
  <2>5. CASE state[k] = "USED"
    <3>1. KeepsLives
      BY <2>2, <2>3, <2>4, <2>5 DEF KeepsLives
    <3> QED BY <3>1, KeepsLivesStep DEF L!lifevars
  <2>6. CASE state[k] # "USED"
    <3>1. state[k] # "UNUSED"
      BY <2>2, SlotFacts DEF TableInv, PidInv
    <3>10. PICK i \in Nat : pid[k] = i
      BY DEF TableInv, TypeOK
    <3>2. i \in AllPids /\ i # 0
      BY <2>2, <3>1, <3>10, PidsAre
    <3>3. p # initproc /\ state[p] = "RUNNING"
      BY Running DEF Reparent, At, Leaving, TableInv, InitInv
    <3>4. pid[p] # 0 /\ pid[p] # 1 /\ pid[initproc] = 1
      BY <3>3, SlotFacts DEF TableInv, PidInv
    <3>5. \A q \in Slot : q # k => Stage(q)' = Stage(q) /\ ParOf(q)' = ParOf(q)
      BY <2>3, <2>4 DEF Stage, ParOf
    <3>6. /\ Stage(k)' = Stage(k) /\ Stage(k) \in {"live", "zombie"}
          /\ ParOf(k) = pid[p] /\ ParOf(k)' = 1
      BY <2>2, <2>3, <2>4, <2>6, <3>4, SlotFacts DEF Stage, ParOf
    <3>7. LivesAre /\ LivesAre'
      BY LivesFact, LivesFactNext
    <3>8. Life(i) \in {"live", "zombie"} /\ Par(i) = pid[p]
      BY <2>2, <3>2, <3>6, <3>7, <3>10 DEF LivesAre
    <3>9. Life(i)' = Life(i) /\ Par(i)' = 1
      BY <2>2, <2>3, <3>2, <3>6, <3>7, <3>10 DEF LivesAre
    <3>11. Lives' = [Lives EXCEPT ![i] = Life(i)] /\ Pars' = [Pars EXCEPT ![i] = 1]
      BY <2>2, <2>3, <3>2, <3>5, <3>9, <3>10, OneLife
    <3>12. Lives' = Lives /\ Lives[i] \in {"live", "zombie"} /\ Pars[i] = pid[p]
      BY <3>2, <3>8, <3>11 DEF Lives, Pars
    <3>13. L!Adopt(i)
      BY <3>4, <3>11, <3>12 DEF L!Adopt, L!init
    <3> QED BY <3>2, <3>13 DEF L!LifeNext
  <2> QED BY <2>5, <2>6
<1> QED BY <1>1, <1>2

\* The end of exit() is Exit.
LEMMA ExitZombieLife ==
    ASSUME TableInv, TableInv', PidBound, PidBound', NEW c \in CPU, NEW p \in Slot,
           ExitZombie(c, p)
    PROVE  [L!LifeNext]_L!lifevars
<1>12. PICK i \in Nat : pid[p] = i
  BY DEF TableInv, TypeOK
<1>1. p # initproc /\ state[p] = "RUNNING"
  BY Running DEF ExitZombie, At, Leaving, TableInv, InitInv
<1>2. /\ state'[p] = "ZOMBIE" /\ UNCHANGED <<pid, nextpid, parent>>
      /\ \A q \in Slot : q # p => state'[q] = state[q]
  BY DEF ExitZombie, TableInv, TypeOK
<1>3. i \in AllPids /\ i # 0 /\ i # 1
  <2>1. i # 1
    BY <1>1, <1>12, SlotFacts DEF TableInv, PidInv
  <2> QED BY <1>1, <1>12, <2>1, PidsAre
<1>4. \A q \in Slot : parent[q] # p
  BY DEF ExitZombie, At, TableInv, ExitInv
<1>5. \A q \in Slot : q # p => Stage(q)' = Stage(q) /\ ParOf(q)' = ParOf(q)
  BY <1>2 DEF Stage, ParOf
<1>6. Stage(p) = "live" /\ Stage(p)' = "zombie" /\ ParOf(p)' = ParOf(p)
  BY <1>1, <1>2 DEF Stage, ParOf
<1>7. LivesAre /\ LivesAre'
  BY LivesFact, LivesFactNext
<1>8. Life(i) = "live" /\ Par(i) = ParOf(p)
  BY <1>3, <1>6, <1>7, <1>12 DEF LivesAre
<1>9. Life(i)' = "zombie" /\ Par(i)' = Par(i)
  BY <1>2, <1>3, <1>6, <1>7, <1>8, <1>12 DEF LivesAre
<1>10. \A q \in Slot : ParOf(q) # i
  BY <1>3, <1>4, <1>12 DEF ParOf, TableInv, TypeOK, PidInv
<1>11. ASSUME NEW j \in AllPids PROVE Pars[j] # i
  <2>1. j \in Nat /\ j # 0
    BY ProcAssumption DEF AllPids
  <2>2. CASE \E q \in Slot : pid[q] = j
    BY <1>7, <1>10, <2>1, <2>2 DEF LivesAre, Pars
  <2>3. CASE \A q \in Slot : pid[q] # j
    BY <1>3, <1>7, <2>1, <2>3 DEF LivesAre, Pars
  <2> QED BY <2>2, <2>3
<1>13. Lives' = [Lives EXCEPT ![i] = "zombie"] /\ Pars' = [Pars EXCEPT ![i] = Par(i)']
  BY <1>2, <1>3, <1>5, <1>9, <1>12, OneLife
<1>14. Lives[i] = "live" /\ Pars' = Pars
  BY <1>3, <1>8, <1>9, <1>13 DEF Lives, Pars
<1>15. L!Exit(i)
  BY <1>3, <1>11, <1>13, <1>14 DEF L!Exit, L!Become, L!init
<1> QED BY <1>3, <1>15 DEF L!LifeNext

\* The freeproc() in wait() is Reap.
LEMMA WaitChildLife ==
    ASSUME TableInv, TableInv', PidBound, PidBound', NEW c \in CPU, NEW p \in Slot,
           WaitChild(c, p)
    PROVE  [L!LifeNext]_L!lifevars
<1> DEFINE kids == ChildrenFrom(p, pp[p])
<1>1. kids \subseteq Slot /\ kids # {} /\ \A r \in kids : parent[r] = p
  BY DEF WaitChild, ChildrenFrom
<1>2. PICK q \in Slot : q = First(kids) /\ parent[q] = p
  BY <1>1, FirstIs
<1>3. /\ nextpid' = nextpid
      /\ \/ state[q] = "ZOMBIE" /\ freeproc(q)
         \/ UNCHANGED <<state, parent, pid>>
  BY <1>2 DEF WaitChild
<1>4. CASE UNCHANGED <<state, parent, pid>>
  <2>1. KeepsLives
    BY <1>3, <1>4 DEF KeepsLives
  <2> QED BY <2>1, KeepsLivesStep DEF L!lifevars
<1>5. CASE state[q] = "ZOMBIE" /\ freeproc(q)
  <2>13. PICK i \in Nat : pid[q] = i
    BY DEF TableInv, TypeOK
  <2>1. i \in AllPids /\ i # 0
    BY <1>2, <1>5, <2>13, PidsAre
  <2>2. i \in Nat /\ i < nextpid
    BY <2>13 DEF TableInv, TypeOK, PidInv
  <2>3. /\ pid'[q] = 0
        /\ \A r \in Slot : r # q => /\ state'[r] = state[r] /\ pid'[r] = pid[r]
                                    /\ parent'[r] = parent[r]
    BY <1>2, <1>5 DEF freeproc, TableInv, TypeOK
  <2>4. \A r \in Slot : parent[r] # q
    BY <1>2, <1>5, SlotFacts DEF TableInv, ParentCanWait
  <2>5. \A r \in Slot : r # q => Stage(r)' = Stage(r) /\ ParOf(r)' = ParOf(r)
    BY <2>3, <2>4 DEF Stage, ParOf, TableInv, TypeOK
  <2>6. state[p] = "RUNNING"
    BY Running DEF WaitChild, At, Leaving
  <2>7. pid[p] \in AllPids /\ pid[p] # 0
    BY <2>6, PidsAre
  <2>8. Stage(q) = "zombie" /\ ParOf(q) = pid[p] /\ Stage(p) = "live"
    BY <1>2, <1>5, <2>6, SlotFacts DEF Stage, ParOf
  <2>9. LivesAre /\ LivesAre'
    BY LivesFact, LivesFactNext
  <2>10. Life(i) = "zombie" /\ Par(i) = pid[p] /\ Life(pid[p]) = "live"
    BY <1>2, <2>1, <2>7, <2>8, <2>9, <2>13 DEF LivesAre
  <2>11. \A r \in Slot : pid'[r] # i
    BY <1>2, <2>1, <2>3, <2>13 DEF TableInv, PidInv
  <2>12. Life(i)' = "gone" /\ Par(i)' = 0
    BY <1>3, <2>2, <2>9, <2>11 DEF LivesAre
  <2>14. Lives' = [Lives EXCEPT ![i] = "gone"] /\ Pars' = [Pars EXCEPT ![i] = 0]
    BY <1>2, <1>3, <2>1, <2>3, <2>5, <2>12, <2>13, OneLife
  <2>15. Lives[i] = "zombie" /\ Pars[i] = pid[p] /\ Lives[pid[p]] = "live"
    BY <2>1, <2>7, <2>10 DEF Lives, Pars
  <2>16. L!Reap(i)
    BY <2>7, <2>14, <2>15 DEF L!Reap, L!Become
  <2> QED BY <2>1, <2>16 DEF L!LifeNext
<1> QED BY <1>3, <1>4, <1>5

\* Every step is one of Processes, or changes nothing there.
LEMMA NextLife ==
    ASSUME TableInv, TableInv', PidBound, PidBound', [Next]_vars
    PROVE  [L!LifeNext]_L!lifevars
<1>1. CASE UNCHANGED vars
  <2>1. KeepsLives
    BY <1>1 DEF vars, KeepsLives
  <2> QED BY <2>1, KeepsLivesStep DEF L!lifevars
<1>2. ASSUME KeepsLives PROVE [L!LifeNext]_L!lifevars
  BY <1>2, KeepsLivesStep DEF L!lifevars
<1>3. ASSUME NEW c \in CPU, Scheduler(c)
      PROVE  [L!LifeNext]_L!lifevars
  BY <1>2, <1>3, KeepingSteps, SlotFacts
<1>4. ASSUME NEW c \in CPU, NEW p \in Slot, Switch(c, p) \/ Kernel(c, p) \/ User(c, p)
      PROVE  [L!LifeNext]_L!lifevars
  BY <1>2, <1>4, KeepingSteps, AllocFoundLife, ForkFailLife, ForkRunLife, ReparentLife,
     ExitZombieLife, WaitChildLife
<1> QED BY <1>1, <1>3, <1>4 DEF Next

\* fork(), exit() and wait() keep what Processes promises, whatever the harts
\* do: identifiers are never used twice, every child has a living parent, exit()
\* leaves no children behind, and a zombie is reaped once, by its parent.
THEOREM ProcLifeCycle == Spec => ImplementsLifeCycle
<1>1. Init => PidBound
  <2> SUFFICES ASSUME Init PROVE PidBound
    OBVIOUS
  <2>1. Forkers = {}
    BY DEF Init, Forkers, Place
  <2>2. \A p \in Slot : pid[p] <= MaxPid + NPROC
    BY ProcAssumption DEF Init
  <2> QED BY <2>1, <2>2 DEF PidBound
<1>2. TableInv /\ PidBound /\ [Next]_vars => PidBound'
  BY NextBound
<1>3. TableInv /\ TableInv' /\ PidBound /\ PidBound' /\ [Next]_vars
          => [L!LifeNext]_L!lifevars
  BY NextLife
<1>4. Init => L!LifeInit
  <2> SUFFICES ASSUME Init PROVE L!LifeInit
    OBVIOUS
  <2>1. LivesAre
    BY InitTable, LivesFact
  <2>2. ASSUME NEW i \in AllPids
        PROVE  Life(i) = (IF i = 1 THEN "live" ELSE "unborn") /\ Par(i) = 0
    <3>1. i \in Nat /\ i # 0
      BY ProcAssumption DEF AllPids
    <3>2. CASE i = 1
      <4>1. initproc \in Slot /\ pid[initproc] = 1
        BY SlotFacts DEF Init
      <4>2. Stage(initproc) = "live" /\ ParOf(initproc) = 0
        BY <4>1 DEF Init, Stage, ParOf
      <4> QED BY <2>1, <3>2, <4>1, <4>2 DEF LivesAre
    <3>3. CASE i # 1
      <4>1. (\A p \in Slot : pid[p] # i) /\ ~(i < nextpid)
        BY <3>1, <3>3 DEF Init
      <4> QED BY <2>1, <3>1, <3>3, <4>1 DEF LivesAre
    <3> QED BY <3>2, <3>3
  <2> QED BY <2>2 DEF L!LifeInit, L!init, Lives, Pars
<1> QED BY <1>1, <1>2, <1>3, <1>4, TableAlways, PTL
        DEF Spec, ImplementsLifeCycle, L!LifeSpec
=============================================================================
