--------------------------- MODULE SpinLockProofs ---------------------------
(***************************************************************************)
(* Proofs about SpinLock for any number of harts and locks.                *)
(***************************************************************************)
EXTENDS SpinLock, FiniteSetTheorems, TLAPS

\* The hart has taken lock l: from the swap that succeeded to the store that
\* frees it.
Owns(c, l) == l \in held[c] \/ (pc[c] = "setcpu" /\ arg[c] = l)

\* What pc says about arg and held.
PcInv ==
    \A c \in CPU :
        /\ pc[c] # "panic"
        /\ pc[c] \in {"check", "tas", "setcpu"} => arg[c] \in Lock \ held[c]
        /\ pc[c] = "push" => arg[c] \notin held[c]
        /\ pc[c] = "unlock" => arg[c] \in held[c]

\* lk->locked and lk->cpu follow the owner.
OwnerInv ==
    /\ \A c1, c2 \in CPU, l \in Lock : Owns(c1, l) /\ Owns(c2, l) => c1 = c2
    /\ \A l \in Lock : locked[l] <=> \E c \in CPU : Owns(c, l)
    /\ \A c \in CPU, l \in Lock :
          lkcpu[l] = c <=> l \in held[c] /\ ~(pc[c] = "unlock" /\ arg[c] = l)

\* c->noff counts the locks held and the push_off() not yet undone.
Pushed(c) == IF pc[c] \in {"check", "tas", "setcpu", "pop"} THEN 1 ELSE 0

NoffInv == \A c \in CPU : noff[c] = Cardinality(held[c]) + Pushed(c)

\* SIE, c->intena and old agree with the setting chosen outside of locks.
IntrInv ==
    \A c \in CPU :
        /\ intr[c] = (noff[c] = 0 /\ want[c])
        /\ noff[c] # 0 => intena[c] = want[c]
        /\ pc[c] = "push" => old[c] = intr[c]

\* What an interrupt suspends holds no lock and had interrupts enabled.
SavedInv ==
    \A c \in CPU : \A f \in saved[c] :
        /\ f.held = {} /\ f.want
        /\ f.pc \in {"idle", "push"}
        /\ f.pc = "push" => f.old

IInv == TypeOK /\ PcInv /\ OwnerInv /\ NoffInv /\ IntrInv /\ SavedInv
-----------------------------------------------------------------------------
\* What the cardinality of held[c] does when a lock is added or removed.
LEMMA HeldCardinality ==
    ASSUME TypeOK, NEW c \in CPU
    PROVE  /\ Cardinality(held[c]) \in Nat
           /\ Cardinality(held[c]) = 0 <=> held[c] = {}
           /\ \A l : l \notin held[c] =>
                Cardinality(held[c] \cup {l}) = Cardinality(held[c]) + 1
           /\ \A l \in held[c] :
                Cardinality(held[c] \ {l}) = Cardinality(held[c]) - 1
  <1>1. IsFiniteSet(held[c])
    BY LockAssumption, FS_Subset DEF TypeOK
  <1>2. QED
    BY <1>1, FS_CardinalityType, FS_EmptySet, FS_AddElement, FS_RemoveElement

\* A hart at pc "idle" that holds nothing has undone every push_off().
LEMMA IdleNoff ==
    ASSUME IInv, NEW c \in CPU, pc[c] = "idle", held[c] = {}
    PROVE  noff[c] = 0
  BY HeldCardinality DEF IInv, NoffInv, Pushed

LEMMA PushOffReadStep ==
    ASSUME NEW c \in CPU, NEW l \in Lock \cup {NoLock}, IInv, PushOffRead(c, l)
    PROVE  IInv'
  <1>1. TypeOK'
    BY LockAssumption DEF IInv, TypeOK, PushOffRead, Goto, PC, Frame
  <1>2. PcInv'
    BY LockAssumption DEF IInv, TypeOK, PcInv, PushOffRead, MayCall, Goto, PC
  <1>3. OwnerInv'
    BY LockAssumption DEF IInv, TypeOK, PcInv, OwnerInv, Owns, PushOffRead, Goto, PC
  <1>4. NoffInv'
    BY LockAssumption DEF IInv, TypeOK, PcInv, NoffInv, Pushed, PushOffRead, Goto, PC
  <1>5. IntrInv'
    BY LockAssumption DEF IInv, TypeOK, PcInv, IntrInv, PushOffRead, Goto, PC
  <1>6. SavedInv'
    BY LockAssumption DEF IInv, TypeOK, PcInv, SavedInv, PushOffRead, Goto, PC
  <1>7. QED
    BY <1>1, <1>2, <1>3, <1>4, <1>5, <1>6 DEF IInv

LEMMA PushOffStep ==
    ASSUME NEW c \in CPU, IInv, PushOff(c)
    PROVE  IInv'
  <1>1. TypeOK'
    BY LockAssumption DEF IInv, TypeOK, PushOff, Goto, PC, Frame
  <1>2. PcInv'
    BY LockAssumption DEF IInv, TypeOK, PcInv, PushOff, Goto, PC
  <1>3. OwnerInv'
    BY LockAssumption DEF IInv, TypeOK, PcInv, OwnerInv, Owns, PushOff, Goto, PC
  <1>4. NoffInv'
    BY LockAssumption, HeldCardinality
       DEF IInv, TypeOK, PcInv, NoffInv, Pushed, PushOff, Goto, PC
  <1>5. IntrInv'
    <2>1. (IF noff[c] = 0 THEN old[c] ELSE intena[c]) = want[c]
      BY DEF IInv, TypeOK, IntrInv, PushOff
    <2>2. intena' = [intena EXCEPT ![c] = want[c]]
      BY <2>1, Zenon DEF PushOff
    <2>3. noff'[c] # 0 /\ pc'[c] # "push"
      BY DEF IInv, TypeOK, PushOff, Goto
    <2>4. QED
      BY <2>2, <2>3 DEF IInv, TypeOK, IntrInv, PushOff, Goto
  <1>6. SavedInv'
    BY LockAssumption DEF IInv, TypeOK, PcInv, SavedInv, PushOff, Goto, PC
  <1>7. QED
    BY <1>1, <1>2, <1>3, <1>4, <1>5, <1>6 DEF IInv

LEMMA AcquireCheckStep ==
    ASSUME NEW c \in CPU, IInv, AcquireCheck(c)
    PROVE  IInv'
  <1>1. TypeOK'
    BY LockAssumption DEF IInv, TypeOK, AcquireCheck, Goto, PC, Frame
  <1>2. PcInv' /\ pc' = [pc EXCEPT ![c] = "tas"]
    <2>1. ~holding(c, arg[c]) /\ arg[c] \in Lock
      BY DEF IInv, PcInv, OwnerInv, holding, AcquireCheck
    <2>2. QED
      BY <2>1 DEF IInv, TypeOK, PcInv, AcquireCheck, Goto, PC
  <1>3. OwnerInv'
    BY LockAssumption DEF IInv, TypeOK, PcInv, OwnerInv, Owns, AcquireCheck, Goto, PC
  <1>4. NoffInv'
    BY <1>2 DEF IInv, TypeOK, NoffInv, Pushed, AcquireCheck, PC
  <1>5. IntrInv'
    BY LockAssumption DEF IInv, TypeOK, PcInv, IntrInv, AcquireCheck, Goto, PC
  <1>6. SavedInv'
    BY LockAssumption DEF IInv, TypeOK, PcInv, SavedInv, AcquireCheck, Goto, PC
  <1>7. QED
    BY <1>1, <1>2, <1>3, <1>4, <1>5, <1>6 DEF IInv

LEMMA AcquireTestAndSetStep ==
    ASSUME NEW c \in CPU, IInv, AcquireTestAndSet(c)
    PROVE  IInv'
  <1>1. TypeOK'
    BY LockAssumption DEF IInv, TypeOK, AcquireTestAndSet, Goto, PC, Frame
  <1>2. PcInv'
    BY LockAssumption DEF IInv, TypeOK, PcInv, AcquireTestAndSet, Goto, PC
  <1>3. OwnerInv'
    BY LockAssumption DEF IInv, TypeOK, PcInv, OwnerInv, Owns, AcquireTestAndSet, Goto, PC
  <1>4. NoffInv'
    BY LockAssumption DEF IInv, TypeOK, PcInv, NoffInv, Pushed, AcquireTestAndSet, Goto, PC
  <1>5. IntrInv'
    BY LockAssumption DEF IInv, TypeOK, PcInv, IntrInv, AcquireTestAndSet, Goto, PC
  <1>6. SavedInv'
    BY LockAssumption DEF IInv, TypeOK, PcInv, SavedInv, AcquireTestAndSet, Goto, PC
  <1>7. QED
    BY <1>1, <1>2, <1>3, <1>4, <1>5, <1>6 DEF IInv

LEMMA AcquireSetCpuStep ==
    ASSUME NEW c \in CPU, IInv, AcquireSetCpu(c)
    PROVE  IInv'
  <1>1. TypeOK'
    BY LockAssumption DEF IInv, TypeOK, PcInv, AcquireSetCpu, Goto, PC, Frame
  <1>2. PcInv'
    BY LockAssumption DEF IInv, TypeOK, PcInv, AcquireSetCpu, Goto, PC
  <1>3. OwnerInv'
    BY LockAssumption DEF IInv, TypeOK, PcInv, OwnerInv, Owns, AcquireSetCpu, Goto, PC
  <1>4. NoffInv'
    BY HeldCardinality DEF IInv, TypeOK, PcInv, NoffInv, Pushed, AcquireSetCpu, Goto, PC
  <1>5. IntrInv'
    BY LockAssumption DEF IInv, TypeOK, PcInv, IntrInv, AcquireSetCpu, Goto, PC
  <1>6. SavedInv'
    BY LockAssumption DEF IInv, TypeOK, PcInv, SavedInv, AcquireSetCpu, Goto, PC
  <1>7. QED
    BY <1>1, <1>2, <1>3, <1>4, <1>5, <1>6 DEF IInv

LEMMA ReleaseClearCpuStep ==
    ASSUME NEW c \in CPU, NEW l \in Lock, IInv, ReleaseClearCpu(c, l)
    PROVE  IInv'
  <1>1. TypeOK'
    BY LockAssumption DEF IInv, TypeOK, ReleaseClearCpu, Goto, PC, Frame
  <1>2. PcInv'
    BY LockAssumption DEF IInv, TypeOK, PcInv, OwnerInv, Owns, holding, ReleaseClearCpu, Goto, PC
  <1>3. OwnerInv'
    BY LockAssumption DEF IInv, TypeOK, PcInv, OwnerInv, Owns, ReleaseClearCpu, Goto, PC
  <1>4. NoffInv'
    BY LockAssumption DEF IInv, TypeOK, PcInv, NoffInv, Pushed, ReleaseClearCpu, Goto, PC
  <1>5. IntrInv'
    BY LockAssumption DEF IInv, TypeOK, PcInv, IntrInv, ReleaseClearCpu, Goto, PC
  <1>6. SavedInv'
    BY LockAssumption DEF IInv, TypeOK, PcInv, SavedInv, ReleaseClearCpu, Goto, PC
  <1>7. QED
    BY <1>1, <1>2, <1>3, <1>4, <1>5, <1>6 DEF IInv

LEMMA ReleaseUnlockStep ==
    ASSUME NEW c \in CPU, IInv, ReleaseUnlock(c)
    PROVE  IInv'
  <1>1. TypeOK'
    BY LockAssumption DEF IInv, TypeOK, ReleaseUnlock, Goto, PC, Frame
  <1>2. PcInv'
    BY LockAssumption DEF IInv, TypeOK, PcInv, ReleaseUnlock, Goto, PC
  <1>3. OwnerInv'
    BY LockAssumption DEF IInv, TypeOK, PcInv, OwnerInv, Owns, ReleaseUnlock, Goto, PC
  <1>4. NoffInv'
    BY HeldCardinality DEF IInv, TypeOK, PcInv, NoffInv, Pushed, ReleaseUnlock, Goto, PC
  <1>5. IntrInv'
    BY LockAssumption DEF IInv, TypeOK, PcInv, IntrInv, ReleaseUnlock, Goto, PC
  <1>6. SavedInv'
    BY LockAssumption DEF IInv, TypeOK, PcInv, SavedInv, ReleaseUnlock, Goto, PC
  <1>7. QED
    BY <1>1, <1>2, <1>3, <1>4, <1>5, <1>6 DEF IInv

LEMMA PopOffStep ==
    ASSUME NEW c \in CPU, IInv, PopOff(c)
    PROVE  IInv'
  <1>1. TypeOK'
    BY LockAssumption DEF IInv, TypeOK, PopOff, Goto, PC, Frame
  <1>0. noff[c] = Cardinality(held[c]) + 1 /\ ~intr[c]
    BY HeldCardinality DEF IInv, TypeOK, NoffInv, IntrInv, Pushed, PopOff
  <1>2. PcInv' /\ pc' = [pc EXCEPT ![c] = "idle"]
    BY <1>0, HeldCardinality DEF IInv, TypeOK, PcInv, PopOff, Goto, PC
  <1>3. OwnerInv'
    BY LockAssumption DEF IInv, TypeOK, PcInv, OwnerInv, Owns, PopOff, Goto, PC
  <1>4. NoffInv'
    BY <1>0, <1>2, HeldCardinality DEF IInv, TypeOK, NoffInv, Pushed, PopOff
  <1>5. IntrInv'
    BY LockAssumption DEF IInv, TypeOK, PcInv, IntrInv, PopOff, Goto, PC
  <1>6. SavedInv'
    BY LockAssumption DEF IInv, TypeOK, PcInv, SavedInv, PopOff, Goto, PC
  <1>7. QED
    BY <1>1, <1>2, <1>3, <1>4, <1>5, <1>6 DEF IInv

LEMMA SetIntrStep ==
    ASSUME NEW c \in CPU, NEW on \in BOOLEAN, IInv, SetIntr(c, on)
    PROVE  IInv'
  <1>1. TypeOK'
    BY LockAssumption DEF IInv, TypeOK, SetIntr, Goto, PC, Frame
  <1>2. PcInv'
    BY LockAssumption DEF IInv, TypeOK, PcInv, SetIntr, Goto, PC
  <1>3. OwnerInv'
    BY LockAssumption DEF IInv, TypeOK, PcInv, OwnerInv, Owns, SetIntr, Goto, PC
  <1>4. NoffInv'
    BY LockAssumption DEF IInv, TypeOK, PcInv, NoffInv, Pushed, SetIntr, Goto, PC
  <1>5. IntrInv'
    BY IdleNoff DEF IInv, TypeOK, PcInv, IntrInv, SetIntr
  <1>6. SavedInv'
    BY LockAssumption DEF IInv, TypeOK, PcInv, SavedInv, SetIntr, Goto, PC
  <1>7. QED
    BY <1>1, <1>2, <1>3, <1>4, <1>5, <1>6 DEF IInv

LEMMA InterruptStep ==
    ASSUME NEW c \in CPU, IInv, Interrupt(c)
    PROVE  IInv'
  <1>1. TypeOK'
    BY LockAssumption DEF IInv, TypeOK, Interrupt, Goto, PC, Frame
  <1>2. PcInv'
    BY LockAssumption DEF IInv, TypeOK, PcInv, Interrupt, Goto, PC
  <1>0. /\ noff[c] = 0 /\ held[c] = {} /\ want[c]
        /\ pc[c] \in {"idle", "push"} /\ (pc[c] = "push" => old[c])
    BY HeldCardinality DEF IInv, TypeOK, PcInv, NoffInv, IntrInv, Pushed, Interrupt, PC
  <1>3. OwnerInv'
    BY <1>0 DEF IInv, TypeOK, OwnerInv, Owns, Interrupt, Goto
  <1>4. NoffInv'
    BY <1>0, HeldCardinality DEF IInv, TypeOK, NoffInv, Pushed, Interrupt, Goto
  <1>5. IntrInv'
    BY LockAssumption DEF IInv, TypeOK, PcInv, IntrInv, Interrupt, Goto, PC
  <1>6. SavedInv'
    BY <1>0 DEF IInv, TypeOK, SavedInv, Interrupt
  <1>7. QED
    BY <1>1, <1>2, <1>3, <1>4, <1>5, <1>6 DEF IInv

LEMMA InterruptReturnStep ==
    ASSUME NEW c \in CPU, IInv, InterruptReturn(c)
    PROVE  IInv'
  <1>1. TypeOK'
    BY LockAssumption DEF IInv, TypeOK, InterruptReturn, Goto, PC, Frame
  <1>0. PICK f \in saved[c] :
          /\ pc' = [pc EXCEPT ![c] = f.pc] /\ arg' = [arg EXCEPT ![c] = f.arg]
          /\ old' = [old EXCEPT ![c] = f.old] /\ held' = [held EXCEPT ![c] = {}]
          /\ want' = [want EXCEPT ![c] = TRUE]
          /\ f.pc \in {"idle", "push"} /\ (f.pc = "push" => f.old)
    BY DEF IInv, TypeOK, SavedInv, Frame, InterruptReturn, Goto
  <1>2. PcInv'
    BY <1>0 DEF IInv, TypeOK, PcInv, InterruptReturn
  <1>3. OwnerInv'
    BY <1>0 DEF IInv, TypeOK, OwnerInv, Owns, InterruptReturn
  <1>4. NoffInv'
    BY <1>0, HeldCardinality DEF IInv, TypeOK, NoffInv, Pushed, InterruptReturn
  <1>5. IntrInv'
    BY <1>0, IdleNoff DEF IInv, TypeOK, IntrInv, InterruptReturn
  <1>6. SavedInv'
    BY LockAssumption DEF IInv, TypeOK, PcInv, SavedInv, InterruptReturn, Goto, PC
  <1>7. QED
    BY <1>1, <1>2, <1>3, <1>4, <1>5, <1>6 DEF IInv

LEMMA InitIInv == Init => IInv
  <1> SUFFICES ASSUME Init PROVE IInv
    OBVIOUS
  <1>1. TypeOK /\ PcInv
    BY LockAssumption DEF Init, TypeOK, PC, PcInv
  <1>2. OwnerInv
    BY LockAssumption DEF Init, OwnerInv, Owns
  <1>3. NoffInv
    BY FS_EmptySet DEF Init, NoffInv, Pushed
  <1>4. IntrInv /\ SavedInv
    BY DEF Init, IntrInv, SavedInv
  <1>5. QED
    BY <1>1, <1>2, <1>3, <1>4 DEF IInv

LEMMA NextIInv == IInv /\ [Next]_vars => IInv'
  <1> SUFFICES ASSUME IInv, [Next]_vars PROVE IInv'
    OBVIOUS
  <1>1. CASE Next
    BY <1>1, PushOffReadStep, PushOffStep, AcquireCheckStep, AcquireTestAndSetStep,
       AcquireSetCpuStep, ReleaseClearCpuStep, ReleaseUnlockStep, PopOffStep,
       SetIntrStep, InterruptStep, InterruptReturnStep
       DEF Next, Finish
  <1>2. CASE UNCHANGED vars
    BY <1>2 DEF vars, IInv, TypeOK, PcInv, OwnerInv, Owns, NoffInv, Pushed, IntrInv, SavedInv
  <1>3. QED
    BY <1>1, <1>2

\* The inductive invariant holds in every reachable state of spinlock.c: it
\* ties lk->locked, lk->cpu, c->noff and SIE to the locks a hart holds.
THEOREM InductiveInvariant == Spec => []IInv
  <1>1. QED
    BY InitIInv, NextIInv, PTL DEF Spec

\* acquire() and release() exclude: no two harts are ever in the critical
\* section of one lock, for any number of harts, locks and interrupts.
THEOREM MutualExclusionHolds == Spec => []MutualExclusion
  <1>1. IInv => MutualExclusion
    <2> SUFFICES ASSUME IInv, NEW c1 \in CPU, NEW c2 \in CPU, NEW l, c1 # c2,
                        l \in Critical(c1), l \in Critical(c2)
                 PROVE  FALSE
      BY DEF MutualExclusion
    <2>1. l \in held[c1] /\ l \in held[c2]
      BY DEF IInv, SavedInv, Critical
    <2>2. QED
      BY <2>1 DEF IInv, TypeOK, OwnerInv, Owns
  <1>2. QED
    BY <1>1, InductiveInvariant, PTL

\* No panic() in spinlock.c is reachable.
THEOREM NoPanicHolds == Spec => []NoPanic
  <1>1. IInv => NoPanic
    BY DEF IInv, PcInv, NoPanic
  <1>2. QED
    BY <1>1, InductiveInvariant, PTL

\* holding() is exact although it reads the lock without holding it.
THEOREM HoldingIsExactHolds == Spec => []HoldingIsExact
  <1>1. IInv => HoldingIsExact
    BY DEF IInv, TypeOK, PcInv, OwnerInv, Owns, holding, HoldingIsExact
  <1>2. QED
    BY <1>1, InductiveInvariant, PTL

\* push_off() and pop_off() nest: interrupts are off while a lock is held and
\* are restored when the last one is released.
THEOREM InterruptsRestoredHolds == Spec => []InterruptsRestored
  <1>1. IInv => InterruptsRestored
    BY HeldCardinality DEF IInv, TypeOK, NoffInv, IntrInv, Pushed, InterruptsRestored
  <1>2. QED
    BY <1>1, InductiveInvariant, PTL
-----------------------------------------------------------------------------
\* Under the invariant OwnerOf names the one hart that owns the lock.
LEMMA OwnerOfIsOwner ==
    ASSUME IInv, NEW l \in Lock
    PROVE  /\ \A c \in CPU : OwnerOf(l) = c <=> Owns(c, l)
           /\ OwnerOf(l) \in CPU \cup {NoCpu}
  <1>1. \A c \in CPU : (l \in Critical(c) \/ (pc[c] = "setcpu" /\ arg[c] = l)) <=> Owns(c, l)
    BY DEF IInv, SavedInv, Critical, Owns
  <1>2. QED
    BY <1>1, LockAssumption DEF IInv, OwnerInv, OwnerOf

LEMMA OwnerOfIsOwnerNext ==
    ASSUME IInv', NEW l \in Lock
    PROVE  /\ \A c \in CPU : OwnerOf(l)' = c <=> Owns(c, l)'
           /\ OwnerOf(l)' \in CPU \cup {NoCpu}
  <1>1. \A c \in CPU : (l \in Critical(c) \/ (pc[c] = "setcpu" /\ arg[c] = l))' <=> Owns(c, l)'
    BY DEF IInv, SavedInv, Critical, Owns
  <1>2. QED
    BY <1>1, LockAssumption DEF IInv, OwnerInv, OwnerOf

\* The steps that do not change who owns what.
LEMMA SameOwners ==
    ASSUME IInv, IInv', \A c \in CPU, l \in Lock : Owns(c, l)' <=> Owns(c, l)
    PROVE  [l \in Lock |-> OwnerOf(l)]' = [l \in Lock |-> OwnerOf(l)]
  <1>1. ASSUME NEW l \in Lock PROVE OwnerOf(l)' = OwnerOf(l)
    BY OwnerOfIsOwner, OwnerOfIsOwnerNext
  <1>2. QED
    BY <1>1

\* acquire() takes effect at its atomic swap and release() at its store to
\* lk->locked; every other step of spinlock.c is invisible to the users of
\* the lock.  So SpinLock implements Mutex, for any number of harts.
THEOREM SpinLockImplementsMutex == Spec => ImplementsMutex
  <1>1. Init => M!Init
    BY LockAssumption DEF Init, M!Init, OwnerOf, Critical
  <1>2. IInv /\ IInv' /\ [Next]_vars => [M!Next]_([l \in Lock |-> OwnerOf(l)])
    <2> SUFFICES ASSUME IInv, IInv', [Next]_vars
                 PROVE  [M!Next]_([l \in Lock |-> OwnerOf(l)])
      OBVIOUS
    <2>1. ASSUME NEW c \in CPU, AcquireTestAndSet(c)
          PROVE  M!Acquire(c, arg[c]) /\ arg[c] \in Lock
      <3>1. arg[c] \in Lock /\ ~locked[arg[c]] /\ arg[c] \notin held[c]
        BY <2>1 DEF IInv, PcInv, AcquireTestAndSet
      <3>2. OwnerOf(arg[c]) = NoCpu
        BY <3>1, OwnerOfIsOwner DEF IInv, OwnerInv
      <3>3. \A d \in CPU, l \in Lock : Owns(d, l)' <=> (Owns(d, l) \/ (d = c /\ l = arg[c]))
        BY <2>1 DEF IInv, TypeOK, Owns, AcquireTestAndSet, Goto, PC
      <3>4. ASSUME NEW l \in Lock PROVE OwnerOf(l)' = IF l = arg[c] THEN c ELSE OwnerOf(l)
        BY <3>1, <3>2, <3>3, OwnerOfIsOwner, OwnerOfIsOwnerNext
      <3>5. QED
        BY <3>1, <3>2, <3>4 DEF M!Acquire
    <2>2. ASSUME NEW c \in CPU, ReleaseUnlock(c)
          PROVE  M!Release(c, arg[c]) /\ arg[c] \in Lock
      <3>1. arg[c] \in Lock /\ arg[c] \in held[c]
        BY <2>2 DEF IInv, TypeOK, PcInv, ReleaseUnlock
      <3>2. OwnerOf(arg[c]) = c
        BY <3>1, OwnerOfIsOwner DEF Owns
      <3>3. \A d \in CPU, l \in Lock : Owns(d, l)' <=> (Owns(d, l) /\ l # arg[c])
        BY <2>2, <3>1 DEF IInv, TypeOK, OwnerInv, Owns, ReleaseUnlock, Goto, PC
      <3>4. ASSUME NEW l \in Lock PROVE OwnerOf(l)' = IF l = arg[c] THEN NoCpu ELSE OwnerOf(l)
        BY <3>1, <3>3, OwnerOfIsOwner, OwnerOfIsOwnerNext
      <3>5. QED
        BY <3>1, <3>2, <3>4 DEF M!Release
    <2>3. ASSUME NEW c \in CPU, AcquireSetCpu(c)
          PROVE  \A d \in CPU, l \in Lock : Owns(d, l)' <=> Owns(d, l)
      BY <2>3 DEF IInv, TypeOK, PcInv, Owns, AcquireSetCpu, Goto, PC
    <2>4. ASSUME NEW c \in CPU, NEW l \in Lock, ReleaseClearCpu(c, l)
          PROVE  \A d \in CPU, k \in Lock : Owns(d, k)' <=> Owns(d, k)
      BY <2>4 DEF IInv, TypeOK, PcInv, Owns, ReleaseClearCpu, Goto, PC
    <2>5. ASSUME NEW c \in CPU, Interrupt(c)
          PROVE  \A d \in CPU, l \in Lock : Owns(d, l)' <=> Owns(d, l)
      <3>1. held[c] = {} /\ pc[c] # "setcpu"
        <4>1. noff[c] = 0
          BY <2>5 DEF IInv, TypeOK, IntrInv, Interrupt
        <4>2. QED
          BY <4>1, HeldCardinality DEF IInv, NoffInv, Pushed
      <3>2. QED
        BY <2>5, <3>1 DEF IInv, TypeOK, Owns, Interrupt, Goto
    <2>6. ASSUME NEW c \in CPU, InterruptReturn(c)
          PROVE  \A d \in CPU, l \in Lock : Owns(d, l)' <=> Owns(d, l)
      <3>1. held'[c] = {} /\ pc'[c] # "setcpu" /\ held[c] = {} /\ pc[c] # "setcpu"
        BY <2>6 DEF IInv, TypeOK, SavedInv, InterruptReturn, Goto
      <3>2. \A d \in CPU \ {c} : held'[d] = held[d] /\ pc'[d] = pc[d] /\ arg'[d] = arg[d]
        BY <2>6 DEF IInv, TypeOK, InterruptReturn, Goto
      <3>3. QED
        BY <3>1, <3>2 DEF Owns
    <2>7. ASSUME NEW c \in CPU,
                 \/ \E l \in Lock \cup {NoLock} : PushOffRead(c, l)
                 \/ PushOff(c) \/ AcquireCheck(c) \/ PopOff(c)
                 \/ \E on \in BOOLEAN : SetIntr(c, on)
          PROVE  \A d \in CPU, l \in Lock : Owns(d, l)' <=> Owns(d, l)
      BY <2>7 DEF IInv, TypeOK, PcInv, Owns, PushOffRead, PushOff, AcquireCheck, PopOff,
                  SetIntr, Goto, PC
    <2>8. CASE UNCHANGED vars
      <3>1. \A d \in CPU, l \in Lock : Owns(d, l)' <=> Owns(d, l)
        BY <2>8 DEF Owns, vars
      <3>2. QED
        BY <3>1, SameOwners
    <2>9. CASE Next
      BY <2>1, <2>2, <2>3, <2>4, <2>5, <2>6, <2>7, <2>9, SameOwners DEF Next, Finish, M!Next
    <2>10. QED
      BY <2>8, <2>9
  <1>3. QED
    BY <1>1, <1>2, InductiveInvariant, PTL DEF Spec, ImplementsMutex, M!Spec
=============================================================================
