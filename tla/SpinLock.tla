------------------------------ MODULE SpinLock ------------------------------
(***************************************************************************)
(* The spin locks of kernel/spinlock.c on every hart, one memory access at *)
(* a time: acquire() and release() with the per-hart interrupt nesting of  *)
(* push_off() and pop_off(), the code that calls them, and the interrupts  *)
(* that may arrive at any instruction at which the hart has them enabled.  *)
(*                                                                         *)
(* The callers are abstracted to what the kernel obeys everywhere: a hart  *)
(* takes locks in one global order, an interrupt handler gives back every  *)
(* lock it took, and the kernel enables or disables interrupts by hand     *)
(* only while it holds no lock.                                            *)
(***************************************************************************)
EXTENDS Naturals, FiniteSets

CONSTANTS
    CPU,        \* the harts
    Lock,       \* the locks, numbered in the order in which they are taken
    IntrLock,   \* the locks interrupt handlers take (cons, uart, ticks, ...)
    NoCpu,      \* lk->cpu == 0
    NoLock      \* the argument of a bare push_off()/pop_off() pair

ASSUME LockAssumption ==
    /\ Lock \subseteq Nat
    /\ IsFiniteSet(Lock)
    /\ IntrLock \subseteq Lock
    /\ NoCpu \notin CPU
    /\ NoLock \notin Lock

VARIABLES
    locked,   \* lk->locked
    lkcpu,    \* lk->cpu
    intr,     \* sstatus.SIE: does the hart accept interrupts?
    intena,   \* c->intena
    noff,     \* c->noff
    pc,       \* where the hart is in spinlock.c
    arg,      \* the lock that acquire() or release() was called with
    old,      \* the local variable of push_off()
    held,     \* the locks between the end of an acquire() and a release()
    saved,    \* what an interrupt suspended: at most one frame
    want      \* history: the setting of SIE the code chose outside of locks

vars == <<locked, lkcpu, intr, intena, noff, pc, arg, old, held, saved, want>>

PC == {"idle", "push", "check", "tas", "setcpu", "unlock", "pop", "panic"}

Frame == [pc : PC, arg : Lock \cup {NoLock}, old : BOOLEAN,
          held : SUBSET Lock, want : BOOLEAN]

\* initlock() of every lock; each hart starts with interrupts disabled.
Init ==
    /\ locked = [l \in Lock |-> FALSE]
    /\ lkcpu  = [l \in Lock |-> NoCpu]
    /\ intr   = [c \in CPU |-> FALSE]
    /\ intena = [c \in CPU |-> FALSE]
    /\ noff   = [c \in CPU |-> 0]
    /\ pc     = [c \in CPU |-> "idle"]
    /\ arg    = [c \in CPU |-> NoLock]
    /\ old    = [c \in CPU |-> FALSE]
    /\ held   = [c \in CPU |-> {}]
    /\ saved  = [c \in CPU |-> {}]
    /\ want   = [c \in CPU |-> FALSE]

\* The hart is inside an interrupt handler.
InHandler(c) == saved[c] # {}

Goto(c, to) == pc' = [pc EXCEPT ![c] = to]

holding(c, l) == locked[l] /\ lkcpu[l] = c

(***************************************************************************)
(* push_off(): the first statement reads SIE while interrupts may still be *)
(* enabled; the rest runs with them disabled.  It is called by acquire(l), *)
(* and alone (NoLock), as myproc() does.                                   *)
(***************************************************************************)
MayCall(c, l) ==
    \/ l = NoLock
    \/ /\ l \in Lock
       /\ \A h \in held[c] : h < l
       /\ InHandler(c) => l \in IntrLock

PushOffRead(c, l) ==
    /\ pc[c] = "idle"
    /\ MayCall(c, l)
    /\ arg' = [arg EXCEPT ![c] = l]
    /\ old' = [old EXCEPT ![c] = intr[c]]
    /\ Goto(c, "push")
    /\ UNCHANGED <<locked, lkcpu, intr, intena, noff, held, saved, want>>

\* Mutant: interrupts are left as they are.
PushOff_StaysOn(c) ==
    /\ pc[c] = "push"
    /\ intena' = [intena EXCEPT ![c] = IF noff[c] = 0 THEN old[c] ELSE @]
    /\ noff'   = [noff EXCEPT ![c] = @ + 1]
    /\ Goto(c, IF arg[c] = NoLock THEN "pop" ELSE "check")
    /\ UNCHANGED <<locked, lkcpu, intr, arg, old, held, saved, want>>

\* Mutant: intena is overwritten by a nested push_off().
PushOff_NotNested(c) ==
    /\ pc[c] = "push"
    /\ intr'   = [intr EXCEPT ![c] = FALSE]
    /\ intena' = [intena EXCEPT ![c] = old[c]]
    /\ noff'   = [noff EXCEPT ![c] = @ + 1]
    /\ Goto(c, IF arg[c] = NoLock THEN "pop" ELSE "check")
    /\ UNCHANGED <<locked, lkcpu, arg, old, held, saved, want>>

PushOff(c) ==
    /\ pc[c] = "push"
    /\ intr'   = [intr EXCEPT ![c] = FALSE]
    /\ intena' = [intena EXCEPT ![c] = IF noff[c] = 0 THEN old[c] ELSE @]
    /\ noff'   = [noff EXCEPT ![c] = @ + 1]
    /\ Goto(c, IF arg[c] = NoLock THEN "pop" ELSE "check")
    /\ UNCHANGED <<locked, lkcpu, arg, old, held, saved, want>>

(***************************************************************************)
(* acquire() after push_off(): the self-deadlock check, the atomic swap    *)
(* (enabled when it finds the lock free; the loop before that changes      *)
(* nothing), and the store to lk->cpu.                                     *)
(***************************************************************************)
AcquireCheck(c) ==
    /\ pc[c] = "check"
    /\ Goto(c, IF holding(c, arg[c]) THEN "panic" ELSE "tas")
    /\ UNCHANGED <<locked, lkcpu, intr, intena, noff, arg, old, held, saved, want>>

AcquireTestAndSet(c) ==
    /\ pc[c] = "tas"
    /\ ~locked[arg[c]]
    /\ locked' = [locked EXCEPT ![arg[c]] = TRUE]
    /\ Goto(c, "setcpu")
    /\ UNCHANGED <<lkcpu, intr, intena, noff, arg, old, held, saved, want>>

AcquireSetCpu(c) ==
    /\ pc[c] = "setcpu"
    /\ lkcpu' = [lkcpu EXCEPT ![arg[c]] = c]
    /\ held'  = [held EXCEPT ![c] = @ \cup {arg[c]}]
    /\ Goto(c, "idle")
    /\ UNCHANGED <<locked, intr, intena, noff, arg, old, saved, want>>

(***************************************************************************)
(* release(): holding() must be true; lk->cpu is cleared before lk->locked.*)
(***************************************************************************)
\* Mutant: lk->cpu is not cleared.
ReleaseClearCpu_KeepsCpu(c, l) ==
    /\ pc[c] = "idle"
    /\ l \in held[c]
    /\ arg' = [arg EXCEPT ![c] = l]
    /\ Goto(c, IF holding(c, l) THEN "unlock" ELSE "panic")
    /\ UNCHANGED <<locked, lkcpu, intr, intena, noff, old, held, saved, want>>

\* Mutant: the lock is freed before the critical section has ended.
ReleaseClearCpu_FreesFirst(c, l) ==
    /\ pc[c] = "idle"
    /\ l \in held[c]
    /\ arg' = [arg EXCEPT ![c] = l]
    /\ locked' = [locked EXCEPT ![l] = FALSE]
    /\ Goto(c, "unlock")
    /\ UNCHANGED <<lkcpu, intr, intena, noff, old, held, saved, want>>

ReleaseClearCpu(c, l) ==
    /\ pc[c] = "idle"
    /\ l \in held[c]
    /\ arg' = [arg EXCEPT ![c] = l]
    /\ IF holding(c, l)
       THEN /\ lkcpu' = [lkcpu EXCEPT ![l] = NoCpu]
            /\ Goto(c, "unlock")
       ELSE /\ Goto(c, "panic")
            /\ UNCHANGED lkcpu
    /\ UNCHANGED <<locked, intr, intena, noff, old, held, saved, want>>

\* Mutant: the lock stays taken.
ReleaseUnlock_StaysLocked(c) ==
    /\ pc[c] = "unlock"
    /\ held' = [held EXCEPT ![c] = @ \ {arg[c]}]
    /\ Goto(c, "pop")
    /\ UNCHANGED <<locked, lkcpu, intr, intena, noff, arg, old, saved, want>>

ReleaseUnlock(c) ==
    /\ pc[c] = "unlock"
    /\ locked' = [locked EXCEPT ![arg[c]] = FALSE]
    /\ held'   = [held EXCEPT ![c] = @ \ {arg[c]}]
    /\ Goto(c, "pop")
    /\ UNCHANGED <<lkcpu, intr, intena, noff, arg, old, saved, want>>

PopOff(c) ==
    /\ pc[c] = "pop"
    /\ IF intr[c] \/ noff[c] < 1
       THEN /\ Goto(c, "panic")
            /\ UNCHANGED <<noff, intr>>
       ELSE /\ noff' = [noff EXCEPT ![c] = @ - 1]
            /\ intr' = [intr EXCEPT ![c] = noff[c] = 1 /\ intena[c]]
            /\ Goto(c, "idle")
    /\ UNCHANGED <<locked, lkcpu, intena, arg, old, held, saved, want>>

(***************************************************************************)
(* intr_on() and intr_off() called directly, as usertrap(), usertrapret()  *)
(* and scheduler() do.                                                     *)
(***************************************************************************)
SetIntr(c, on) ==
    /\ pc[c] = "idle" /\ held[c] = {} /\ ~InHandler(c)
    /\ intr[c] # on
    /\ intr' = [intr EXCEPT ![c] = on]
    /\ want' = [want EXCEPT ![c] = on]
    /\ UNCHANGED <<locked, lkcpu, intena, noff, pc, arg, old, held, saved>>

(***************************************************************************)
(* An interrupt: the hardware clears SIE and kernelvec saves the registers *)
(* of the interrupted code; kerneltrap() returns by restoring them, with   *)
(* SIE set again from sstatus.SPIE.                                        *)
(***************************************************************************)
Interrupt(c) ==
    /\ intr[c] /\ ~InHandler(c) /\ pc[c] # "panic"
    /\ saved' = [saved EXCEPT ![c] =
                   {[pc |-> pc[c], arg |-> arg[c], old |-> old[c],
                     held |-> held[c], want |-> want[c]]}]
    /\ intr' = [intr EXCEPT ![c] = FALSE]
    /\ want' = [want EXCEPT ![c] = FALSE]
    /\ held' = [held EXCEPT ![c] = {}]
    /\ Goto(c, "idle")
    /\ UNCHANGED <<locked, lkcpu, intena, noff, arg, old>>

InterruptReturn(c) ==
    /\ pc[c] = "idle" /\ held[c] = {}
    /\ \E f \in saved[c] :
         /\ Goto(c, f.pc)
         /\ arg'  = [arg EXCEPT ![c] = f.arg]
         /\ old'  = [old EXCEPT ![c] = f.old]
         /\ held' = [held EXCEPT ![c] = f.held]
         /\ want' = [want EXCEPT ![c] = f.want]
    /\ saved' = [saved EXCEPT ![c] = {}]
    /\ intr'  = [intr EXCEPT ![c] = TRUE]
    /\ UNCHANGED <<locked, lkcpu, intena, noff>>

\* The steps of a call under way, or of giving back what was taken.
Finish(c) ==
    \/ PushOff(c)
    \/ AcquireCheck(c)
    \/ AcquireTestAndSet(c)
    \/ AcquireSetCpu(c)
    \/ \E l \in Lock : ReleaseClearCpu(c, l)
    \/ ReleaseUnlock(c)
    \/ PopOff(c)

Next ==
    \E c \in CPU :
        \/ \E l \in Lock \cup {NoLock} : PushOffRead(c, l)
        \/ Finish(c)
        \/ \E on \in BOOLEAN : SetIntr(c, on)
        \/ Interrupt(c)
        \/ InterruptReturn(c)

Spec == Init /\ [][Next]_vars

(***************************************************************************)
(* Every hart executes its instructions, and every critical section is     *)
(* finite (strong fairness of the release).  Nothing is assumed about      *)
(* which hart's swap succeeds when several contend.                        *)
(***************************************************************************)
Fairness ==
    \A c \in CPU :
        /\ WF_vars(PushOff(c) \/ AcquireCheck(c) \/ AcquireTestAndSet(c)
                     \/ AcquireSetCpu(c) \/ ReleaseUnlock(c) \/ PopOff(c))
        /\ SF_vars(\E l \in Lock : ReleaseClearCpu(c, l))
        /\ SF_vars(InterruptReturn(c))

FairSpec == Spec /\ Fairness
-----------------------------------------------------------------------------
TypeOK ==
    /\ locked \in [Lock -> BOOLEAN]
    /\ lkcpu  \in [Lock -> CPU \cup {NoCpu}]
    /\ intr   \in [CPU -> BOOLEAN]
    /\ intena \in [CPU -> BOOLEAN]
    /\ noff   \in [CPU -> Nat]
    /\ pc     \in [CPU -> PC]
    /\ arg    \in [CPU -> Lock \cup {NoLock}]
    /\ old    \in [CPU -> BOOLEAN]
    /\ held   \in [CPU -> SUBSET Lock]
    /\ saved  \in [CPU -> SUBSET Frame]
    /\ want   \in [CPU -> BOOLEAN]

\* The locks whose critical section the hart is in, in the code it runs or
\* in the code an interrupt suspended.
Critical(c) == held[c] \cup UNION {f.held : f \in saved[c]}

\* Two harts are never inside the critical section of one lock: the promise
\* of acquire() and release().
MutualExclusion ==
    \A c1, c2 \in CPU : c1 # c2 => Critical(c1) \cap Critical(c2) = {}

\* No panic() of spinlock.c is reached: a hart never finds itself holding
\* the lock it acquires, not even from an interrupt handler, never releases
\* a lock it does not hold, and never pops more than it pushed.
NoPanic == \A c \in CPU : pc[c] # "panic"

\* holding() tells the truth whenever the kernel asks outside of acquire()
\* and release(), although it reads lk->locked and lk->cpu without a lock
\* while other harts write them.
HoldingIsExact ==
    \A c \in CPU, l \in Lock : pc[c] = "idle" => (holding(c, l) <=> l \in held[c])

\* push_off() and pop_off() are matched: interrupts are off while any lock
\* is held, and once every lock is released the hart is back to the setting
\* it had before, whatever the order in which the locks were released.
InterruptsRestored ==
    \A c \in CPU : pc[c] = "idle" => intr[c] = (held[c] = {} /\ want[c])

\* If a hart spins, some hart gets a lock: the harts never all wait for each
\* other, nor a handler for the code it interrupted.
SpinnersProgress ==
    (\E c \in CPU : pc[c] = "tas") ~> (\E c \in CPU : pc[c] = "setcpu")

\* The hart that has taken the lock: from the swap that succeeded to the
\* store that frees it.
OwnerOf(l) ==
    IF \E c \in CPU : l \in Critical(c) \/ (pc[c] = "setcpu" /\ arg[c] = l)
    THEN CHOOSE c \in CPU : l \in Critical(c) \/ (pc[c] = "setcpu" /\ arg[c] = l)
    ELSE NoCpu

\* spinlock.c implements the abstract mutex: seen from outside, acquire()
\* and release() are each one atomic change of the owner.
M == INSTANCE Mutex WITH owner <- [l \in Lock |-> OwnerOf(l)]
ImplementsMutex == M!Spec
=============================================================================
