----------------------------- MODULE PipeProofs -----------------------------
(***************************************************************************)
(* Proofs about Pipe, for any number of readers and writers, any size of   *)
(* the ring and any width of its counters.                                 *)
(***************************************************************************)
EXTENDS Pipe, SequenceTheorems, TLAPS

Inside  == {"write", "wput", "rwait", "rempty", "rcopy"}
Writing == {"write", "wput", "wsleep", "wwoken"}
Reading == {"rwait", "rempty", "rsleep", "rwoken", "rcopy"}

\* pi->lock is held by the one process that is inside the pipe.
LockInv == \A p \in Proc : pc[p] \in Inside <=> lock = p

\* Who is in a call has the end open; an end that somebody has is open.
EndsInv ==
    /\ wends \subseteq Writers
    /\ wends # {} => writeopen
    /\ rends # {} => readopen
    /\ \A p \in Proc : /\ pc[p] \in Writing => p \in wends
                       /\ pc[p] \in Reading => p \in rends
                       /\ pc[p] = "wput" => readopen

FreedInv == freed => ~readopen /\ ~writeopen

KilledInv == \A p \in Proc : killed[p] => p \in Killable

\* A writer sleeps on a full ring, or a reader is at work that will wake it.
WriterSleeps ==
    \A p \in Proc : pc[p] = "wsleep" =>
        (Full /\ readopen) \/ \E q \in Proc : pc[q] = "rcopy"

\* A reader sleeps on an empty ring, or a writer is at work that will wake
\* it, which it does unless it is killed.
ReaderSleeps ==
    Killable \cap Writers = {} =>
        \A p \in Proc : pc[p] = "rsleep" =>
            (Empty /\ writeopen) \/ \E q \in Proc : pc[q] \in {"write", "wput"}

\* kill() may come between the tests of piperead() and its sleep(), but
\* nothing that would end the wait.
EmptyInv == \A p \in Proc : pc[p] = "rempty" => MustWait

\* A reader that has copied nothing yet has something to copy, or the write
\* end is closed.
EofInv ==
    \A p \in Proc :
        pc[p] = "rcopy" /\ i[p] = 0 /\ n[p] > 0 => ~Empty \/ ~writeopen

\* The inductive invariant.
IInv ==
    /\ TypeOK /\ LockInv /\ EndsInv /\ FreedInv /\ KilledInv
    /\ WriterSleeps /\ ReaderSleeps /\ EmptyInv /\ EofInv
-----------------------------------------------------------------------------
\* WriteCall preserves the invariant.
LEMMA WriteCallStep ==
    ASSUME IInv, NEW p \in Proc, NEW len \in 0 .. MaxLen, WriteCall(p, len)
    PROVE  IInv'
<1>1. TypeOK'
  BY PipeAssumption DEF IInv, TypeOK, PC, WriteCall, Enter, Acquire, Goto, ring,
     ends
<1>2. LockInv'
  BY PipeAssumption DEF IInv, TypeOK, LockInv, Inside, PC, WriteCall, Enter,
     Acquire, Goto, ring, ends
<1>3. EndsInv'
  BY PipeAssumption DEF IInv, TypeOK, LockInv, EndsInv, Inside, Writing, Reading,
     PC, WriteCall, Enter, Acquire, Goto, ring, ends
<1>4. FreedInv'
  BY PipeAssumption DEF IInv, TypeOK, EndsInv, FreedInv, WriteCall, Enter, Acquire,
     Goto, ring, ends
<1>5. KilledInv'
  BY PipeAssumption DEF IInv, TypeOK, KilledInv, WriteCall, Enter, Acquire, Goto,
     ring, ends
<1>6. WriterSleeps'
  BY PipeAssumption DEF IInv, TypeOK, LockInv, EndsInv, WriterSleeps, Inside,
     Writing, Reading, Full, WriteCall, Enter, Acquire, Goto, ring, ends
<1>7. ReaderSleeps'
  BY PipeAssumption DEF IInv, TypeOK, LockInv, EndsInv, KilledInv, EmptyInv,
     MustWait, ReaderSleeps, Inside, Writing, Reading, Empty, WriteCall, Enter,
     Acquire, Goto, ring, ends
<1>8. EmptyInv'
  BY PipeAssumption DEF IInv, TypeOK, LockInv, EmptyInv, Inside, Empty, MustWait,
     WriteCall, Enter, Acquire, Goto, ring, ends
<1>9. EofInv'
  BY PipeAssumption DEF IInv, TypeOK, LockInv, EofInv, Inside, Empty, WriteCall,
     Enter, Acquire, Goto, ring, ends
<1> QED BY <1>1, <1>2, <1>3, <1>4, <1>5, <1>6, <1>7, <1>8, <1>9 DEF IInv

\* WriteAbort preserves the invariant.
LEMMA WriteAbortStep ==
    ASSUME IInv, NEW p \in Proc, WriteAbort(p)
    PROVE  IInv'
<1>1. TypeOK'
  BY PipeAssumption DEF IInv, TypeOK, PC, WriteAbort, InWrite, MustAbort, Leave,
     Release, Goto, ring, ends
<1>2. LockInv'
  BY PipeAssumption DEF IInv, TypeOK, LockInv, Inside, PC, WriteAbort, InWrite,
     MustAbort, Leave, Release, Goto, ring, ends
<1>3. EndsInv'
  BY PipeAssumption DEF IInv, TypeOK, LockInv, EndsInv, Inside, Writing, Reading,
     PC, WriteAbort, InWrite, MustAbort, Leave, Release, Goto, ring, ends
<1>4. FreedInv'
  BY PipeAssumption DEF IInv, TypeOK, EndsInv, FreedInv, WriteAbort, InWrite,
     MustAbort, Leave, Release, Goto, ring, ends
<1>5. KilledInv'
  BY PipeAssumption DEF IInv, TypeOK, KilledInv, WriteAbort, InWrite, MustAbort,
     Leave, Release, Goto, ring, ends
<1>6. WriterSleeps'
  BY PipeAssumption DEF IInv, TypeOK, LockInv, EndsInv, WriterSleeps, Inside,
     Writing, Reading, Full, WriteAbort, InWrite, MustAbort, Leave, Release, Goto,
     ring, ends
<1>7. ReaderSleeps'
  BY PipeAssumption DEF IInv, TypeOK, LockInv, EndsInv, KilledInv, EmptyInv,
     MustWait, ReaderSleeps, Inside, Writing, Reading, Empty, WriteAbort, InWrite,
     MustAbort, Leave, Release, Goto, ring, ends
<1>8. EmptyInv'
  BY PipeAssumption DEF IInv, TypeOK, LockInv, EmptyInv, Inside, Empty, MustWait,
     WriteAbort, InWrite, MustAbort, Leave, Release, Goto, ring, ends
<1>9. EofInv'
  BY PipeAssumption DEF IInv, TypeOK, LockInv, EofInv, Inside, Empty, WriteAbort,
     InWrite, MustAbort, Leave, Release, Goto, ring, ends
<1> QED BY <1>1, <1>2, <1>3, <1>4, <1>5, <1>6, <1>7, <1>8, <1>9 DEF IInv

\* WriteTested preserves the invariant.
LEMMA WriteTestedStep ==
    ASSUME IInv, NEW p \in Proc, WriteTested(p)
    PROVE  IInv'
<1>1. TypeOK'
  BY PipeAssumption DEF IInv, TypeOK, PC, WriteTested, InWrite, MustAbort, Goto,
     ring, ends
<1>2. LockInv'
  BY PipeAssumption DEF IInv, TypeOK, LockInv, Inside, PC, WriteTested, InWrite,
     MustAbort, Goto, ring, ends
<1>3. EndsInv'
  BY PipeAssumption DEF IInv, TypeOK, LockInv, EndsInv, Inside, Writing, Reading,
     PC, WriteTested, InWrite, MustAbort, Goto, ring, ends
<1>4. FreedInv'
  BY PipeAssumption DEF IInv, TypeOK, EndsInv, FreedInv, WriteTested, InWrite,
     MustAbort, Goto, ring, ends
<1>5. KilledInv'
  BY PipeAssumption DEF IInv, TypeOK, KilledInv, WriteTested, InWrite, MustAbort,
     Goto, ring, ends
<1>6. WriterSleeps'
  BY PipeAssumption DEF IInv, TypeOK, LockInv, EndsInv, WriterSleeps, Inside,
     Writing, Reading, Full, WriteTested, InWrite, MustAbort, Goto, ring, ends
<1>7. ReaderSleeps'
  BY PipeAssumption DEF IInv, TypeOK, LockInv, EndsInv, KilledInv, EmptyInv,
     MustWait, ReaderSleeps, Inside, Writing, Reading, Empty, WriteTested, InWrite,
     MustAbort, Goto, ring, ends
<1>8. EmptyInv'
  BY PipeAssumption DEF IInv, TypeOK, LockInv, EmptyInv, Inside, Empty, MustWait,
     WriteTested, InWrite, MustAbort, Goto, ring, ends
<1>9. EofInv'
  BY PipeAssumption DEF IInv, TypeOK, LockInv, EofInv, Inside, Empty, WriteTested,
     InWrite, MustAbort, Goto, ring, ends
<1> QED BY <1>1, <1>2, <1>3, <1>4, <1>5, <1>6, <1>7, <1>8, <1>9 DEF IInv

\* WriteFull preserves the invariant.
LEMMA WriteFullStep ==
    ASSUME IInv, NEW p \in Proc, WriteFull(p)
    PROVE  IInv'
<1>1. TypeOK'
  BY PipeAssumption DEF IInv, TypeOK, PC, WriteFull, Wakeup, Release, ring, ends
<1>2. LockInv'
  BY PipeAssumption DEF IInv, TypeOK, LockInv, Inside, PC, WriteFull, Wakeup,
     Release, ring, ends
<1>3. EndsInv'
  BY PipeAssumption DEF IInv, TypeOK, LockInv, EndsInv, Inside, Writing, Reading,
     PC, WriteFull, Wakeup, Release, ring, ends
<1>4. FreedInv'
  BY PipeAssumption DEF IInv, TypeOK, EndsInv, FreedInv, WriteFull, Wakeup, Release,
     ring, ends
<1>5. KilledInv'
  BY PipeAssumption DEF IInv, TypeOK, KilledInv, WriteFull, Wakeup, Release, ring,
     ends
<1>6. WriterSleeps'
  BY PipeAssumption DEF IInv, TypeOK, LockInv, EndsInv, WriterSleeps, Inside,
     Writing, Reading, Full, WriteFull, Wakeup, Release, ring, ends
<1>7. ReaderSleeps'
  BY PipeAssumption DEF IInv, TypeOK, LockInv, EndsInv, KilledInv, EmptyInv,
     MustWait, ReaderSleeps, Inside, Writing, Reading, Empty, WriteFull, Wakeup,
     Release, ring, ends
<1>8. EmptyInv'
  BY PipeAssumption DEF IInv, TypeOK, LockInv, EmptyInv, Inside, Empty, MustWait,
     WriteFull, Wakeup, Release, ring, ends
<1>9. EofInv'
  BY PipeAssumption DEF IInv, TypeOK, LockInv, EofInv, Inside, Empty, WriteFull,
     Wakeup, Release, ring, ends
<1> QED BY <1>1, <1>2, <1>3, <1>4, <1>5, <1>6, <1>7, <1>8, <1>9 DEF IInv

\* WriteByte preserves the invariant.
LEMMA WriteByteStep ==
    ASSUME IInv, NEW p \in Proc, NEW b \in Byte, WriteByte(p, b)
    PROVE  IInv'
<1>1. TypeOK'
  BY PipeAssumption DEF IInv, TypeOK, PC, WriteByte, Goto, ring, ends
<1>2. LockInv'
  BY PipeAssumption DEF IInv, TypeOK, LockInv, Inside, PC, WriteByte, Goto, ring,
     ends
<1>3. EndsInv'
  BY PipeAssumption DEF IInv, TypeOK, LockInv, EndsInv, Inside, Writing, Reading,
     PC, WriteByte, Goto, ring, ends
<1>4. FreedInv'
  BY PipeAssumption DEF IInv, TypeOK, EndsInv, FreedInv, WriteByte, Goto, ring, ends
<1>5. KilledInv'
  BY PipeAssumption DEF IInv, TypeOK, KilledInv, WriteByte, Goto, ring, ends
<1>6. WriterSleeps'
  BY PipeAssumption DEF IInv, TypeOK, LockInv, EndsInv, WriterSleeps, Inside,
     Writing, Reading, Full, WriteByte, Goto, ring, ends
<1>7. ReaderSleeps'
  BY PipeAssumption DEF IInv, TypeOK, LockInv, EndsInv, KilledInv, EmptyInv,
     MustWait, ReaderSleeps, Inside, Writing, Reading, Empty, WriteByte, Goto, ring,
     ends
<1>8. EmptyInv'
  BY PipeAssumption DEF IInv, TypeOK, LockInv, EmptyInv, Inside, Empty, MustWait,
     WriteByte, Goto, ring, ends
<1>9. EofInv'
  BY PipeAssumption DEF IInv, TypeOK, LockInv, EofInv, Inside, Empty, WriteByte,
     Goto, ring, ends
<1> QED BY <1>1, <1>2, <1>3, <1>4, <1>5, <1>6, <1>7, <1>8, <1>9 DEF IInv

\* WriteDone preserves the invariant.
LEMMA WriteDoneStep ==
    ASSUME IInv, NEW p \in Proc, WriteDone(p)
    PROVE  IInv'
<1>1. TypeOK'
  BY PipeAssumption DEF IInv, TypeOK, PC, WriteDone, Wakeup, Leave, Release, ring,
     ends
<1>2. LockInv'
  BY PipeAssumption DEF IInv, TypeOK, LockInv, Inside, PC, WriteDone, Wakeup, Leave,
     Release, ring, ends
<1>3. EndsInv'
  BY PipeAssumption DEF IInv, TypeOK, LockInv, EndsInv, Inside, Writing, Reading,
     PC, WriteDone, Wakeup, Leave, Release, ring, ends
<1>4. FreedInv'
  BY PipeAssumption DEF IInv, TypeOK, EndsInv, FreedInv, WriteDone, Wakeup, Leave,
     Release, ring, ends
<1>5. KilledInv'
  BY PipeAssumption DEF IInv, TypeOK, KilledInv, WriteDone, Wakeup, Leave, Release,
     ring, ends
<1>6. WriterSleeps'
  BY PipeAssumption DEF IInv, TypeOK, LockInv, EndsInv, WriterSleeps, Inside,
     Writing, Reading, Full, WriteDone, Wakeup, Leave, Release, ring, ends
<1>7. ReaderSleeps'
  BY PipeAssumption DEF IInv, TypeOK, LockInv, EndsInv, KilledInv, EmptyInv,
     MustWait, ReaderSleeps, Inside, Writing, Reading, Empty, WriteDone, Wakeup,
     Leave, Release, ring, ends
<1>8. EmptyInv'
  BY PipeAssumption DEF IInv, TypeOK, LockInv, EmptyInv, Inside, Empty, MustWait,
     WriteDone, Wakeup, Leave, Release, ring, ends
<1>9. EofInv'
  BY PipeAssumption DEF IInv, TypeOK, LockInv, EofInv, Inside, Empty, WriteDone,
     Wakeup, Leave, Release, ring, ends
<1> QED BY <1>1, <1>2, <1>3, <1>4, <1>5, <1>6, <1>7, <1>8, <1>9 DEF IInv

\* WriteWoken preserves the invariant.
LEMMA WriteWokenStep ==
    ASSUME IInv, NEW p \in Proc, WriteWoken(p)
    PROVE  IInv'
<1>1. TypeOK'
  BY PipeAssumption DEF IInv, TypeOK, PC, WriteWoken, Acquire, Goto, ring, ends
<1>2. LockInv'
  BY PipeAssumption DEF IInv, TypeOK, LockInv, Inside, PC, WriteWoken, Acquire,
     Goto, ring, ends
<1>3. EndsInv'
  BY PipeAssumption DEF IInv, TypeOK, LockInv, EndsInv, Inside, Writing, Reading,
     PC, WriteWoken, Acquire, Goto, ring, ends
<1>4. FreedInv'
  BY PipeAssumption DEF IInv, TypeOK, EndsInv, FreedInv, WriteWoken, Acquire, Goto,
     ring, ends
<1>5. KilledInv'
  BY PipeAssumption DEF IInv, TypeOK, KilledInv, WriteWoken, Acquire, Goto, ring,
     ends
<1>6. WriterSleeps'
  BY PipeAssumption DEF IInv, TypeOK, LockInv, EndsInv, WriterSleeps, Inside,
     Writing, Reading, Full, WriteWoken, Acquire, Goto, ring, ends
<1>7. ReaderSleeps'
  BY PipeAssumption DEF IInv, TypeOK, LockInv, EndsInv, KilledInv, EmptyInv,
     MustWait, ReaderSleeps, Inside, Writing, Reading, Empty, WriteWoken, Acquire,
     Goto, ring, ends
<1>8. EmptyInv'
  BY PipeAssumption DEF IInv, TypeOK, LockInv, EmptyInv, Inside, Empty, MustWait,
     WriteWoken, Acquire, Goto, ring, ends
<1>9. EofInv'
  BY PipeAssumption DEF IInv, TypeOK, LockInv, EofInv, Inside, Empty, WriteWoken,
     Acquire, Goto, ring, ends
<1> QED BY <1>1, <1>2, <1>3, <1>4, <1>5, <1>6, <1>7, <1>8, <1>9 DEF IInv

\* ReadCall preserves the invariant.
LEMMA ReadCallStep ==
    ASSUME IInv, NEW p \in Proc, NEW len \in 0 .. MaxLen, ReadCall(p, len)
    PROVE  IInv'
<1>1. TypeOK'
  BY PipeAssumption DEF IInv, TypeOK, PC, ReadCall, Enter, Acquire, Goto, ring, ends
<1>2. LockInv'
  BY PipeAssumption DEF IInv, TypeOK, LockInv, Inside, PC, ReadCall, Enter, Acquire,
     Goto, ring, ends
<1>3. EndsInv'
  BY PipeAssumption DEF IInv, TypeOK, LockInv, EndsInv, Inside, Writing, Reading,
     PC, ReadCall, Enter, Acquire, Goto, ring, ends
<1>4. FreedInv'
  BY PipeAssumption DEF IInv, TypeOK, EndsInv, FreedInv, ReadCall, Enter, Acquire,
     Goto, ring, ends
<1>5. KilledInv'
  BY PipeAssumption DEF IInv, TypeOK, KilledInv, ReadCall, Enter, Acquire, Goto,
     ring, ends
<1>6. WriterSleeps'
  BY PipeAssumption DEF IInv, TypeOK, LockInv, EndsInv, WriterSleeps, Inside,
     Writing, Reading, Full, ReadCall, Enter, Acquire, Goto, ring, ends
<1>7. ReaderSleeps'
  BY PipeAssumption DEF IInv, TypeOK, LockInv, EndsInv, KilledInv, EmptyInv,
     MustWait, ReaderSleeps, Inside, Writing, Reading, Empty, ReadCall, Enter,
     Acquire, Goto, ring, ends
<1>8. EmptyInv'
  BY PipeAssumption DEF IInv, TypeOK, LockInv, EmptyInv, Inside, Empty, MustWait,
     ReadCall, Enter, Acquire, Goto, ring, ends
<1>9. EofInv'
  BY PipeAssumption DEF IInv, TypeOK, LockInv, EofInv, Inside, Empty, ReadCall,
     Enter, Acquire, Goto, ring, ends
<1> QED BY <1>1, <1>2, <1>3, <1>4, <1>5, <1>6, <1>7, <1>8, <1>9 DEF IInv

\* ReadAbort preserves the invariant.
LEMMA ReadAbortStep ==
    ASSUME IInv, NEW p \in Proc, ReadAbort(p)
    PROVE  IInv'
<1>1. TypeOK'
  BY PipeAssumption DEF IInv, TypeOK, PC, ReadAbort, Leave, Release, Goto, ring,
     ends
<1>2. LockInv'
  BY PipeAssumption DEF IInv, TypeOK, LockInv, Inside, PC, ReadAbort, Leave,
     Release, Goto, ring, ends
<1>3. EndsInv'
  BY PipeAssumption DEF IInv, TypeOK, LockInv, EndsInv, Inside, Writing, Reading,
     PC, ReadAbort, Leave, Release, Goto, ring, ends
<1>4. FreedInv'
  BY PipeAssumption DEF IInv, TypeOK, EndsInv, FreedInv, ReadAbort, Leave, Release,
     Goto, ring, ends
<1>5. KilledInv'
  BY PipeAssumption DEF IInv, TypeOK, KilledInv, ReadAbort, Leave, Release, Goto,
     ring, ends
<1>6. WriterSleeps'
  BY PipeAssumption DEF IInv, TypeOK, LockInv, EndsInv, WriterSleeps, Inside,
     Writing, Reading, Full, ReadAbort, Leave, Release, Goto, ring, ends
<1>7. ReaderSleeps'
  BY PipeAssumption DEF IInv, TypeOK, LockInv, EndsInv, KilledInv, EmptyInv,
     MustWait, ReaderSleeps, Inside, Writing, Reading, Empty, ReadAbort, Leave,
     Release, Goto, ring, ends
<1>8. EmptyInv'
  BY PipeAssumption DEF IInv, TypeOK, LockInv, EmptyInv, Inside, Empty, MustWait,
     ReadAbort, Leave, Release, Goto, ring, ends
<1>9. EofInv'
  BY PipeAssumption DEF IInv, TypeOK, LockInv, EofInv, Inside, Empty, ReadAbort,
     Leave, Release, Goto, ring, ends
<1> QED BY <1>1, <1>2, <1>3, <1>4, <1>5, <1>6, <1>7, <1>8, <1>9 DEF IInv

\* ReadTested preserves the invariant.
LEMMA ReadTestedStep ==
    ASSUME IInv, NEW p \in Proc, ReadTested(p)
    PROVE  IInv'
<1>1. TypeOK'
  BY PipeAssumption DEF IInv, TypeOK, PC, ReadTested, MustWait, Goto, ring, ends
<1>2. LockInv'
  BY PipeAssumption DEF IInv, TypeOK, LockInv, Inside, PC, ReadTested, MustWait,
     Goto, ring, ends
<1>3. EndsInv'
  BY PipeAssumption DEF IInv, TypeOK, LockInv, EndsInv, Inside, Writing, Reading,
     PC, ReadTested, MustWait, Goto, ring, ends
<1>4. FreedInv'
  BY PipeAssumption DEF IInv, TypeOK, EndsInv, FreedInv, ReadTested, MustWait, Goto,
     ring, ends
<1>5. KilledInv'
  BY PipeAssumption DEF IInv, TypeOK, KilledInv, ReadTested, MustWait, Goto, ring,
     ends
<1>6. WriterSleeps'
  BY PipeAssumption DEF IInv, TypeOK, LockInv, EndsInv, WriterSleeps, Inside,
     Writing, Reading, Full, ReadTested, MustWait, Goto, ring, ends
<1>7. ReaderSleeps'
  BY PipeAssumption DEF IInv, TypeOK, LockInv, EndsInv, KilledInv, EmptyInv,
     MustWait, ReaderSleeps, Inside, Writing, Reading, Empty, ReadTested, Goto,
     ring, ends
<1>8. EmptyInv'
  BY PipeAssumption DEF IInv, TypeOK, LockInv, EmptyInv, Inside, Empty, MustWait,
     ReadTested, Goto, ring, ends
<1>9. EofInv'
  BY PipeAssumption DEF IInv, TypeOK, LockInv, EofInv, Inside, Empty, ReadTested,
     MustWait, Goto, ring, ends
<1> QED BY <1>1, <1>2, <1>3, <1>4, <1>5, <1>6, <1>7, <1>8, <1>9 DEF IInv

\* ReadSleep preserves the invariant.
LEMMA ReadSleepStep ==
    ASSUME IInv, NEW p \in Proc, ReadSleep(p)
    PROVE  IInv'
<1>1. TypeOK'
  BY PipeAssumption DEF IInv, TypeOK, PC, ReadSleep, Release, Goto, ring, ends
<1>2. LockInv'
  BY PipeAssumption DEF IInv, TypeOK, LockInv, Inside, PC, ReadSleep, Release, Goto,
     ring, ends
<1>3. EndsInv'
  BY PipeAssumption DEF IInv, TypeOK, LockInv, EndsInv, Inside, Writing, Reading,
     PC, ReadSleep, Release, Goto, ring, ends
<1>4. FreedInv'
  BY PipeAssumption DEF IInv, TypeOK, EndsInv, FreedInv, ReadSleep, Release, Goto,
     ring, ends
<1>5. KilledInv'
  BY PipeAssumption DEF IInv, TypeOK, KilledInv, ReadSleep, Release, Goto, ring,
     ends
<1>6. WriterSleeps'
  BY PipeAssumption DEF IInv, TypeOK, LockInv, EndsInv, WriterSleeps, Inside,
     Writing, Reading, Full, ReadSleep, Release, Goto, ring, ends
<1>7. ReaderSleeps'
  BY PipeAssumption DEF IInv, TypeOK, LockInv, EndsInv, KilledInv, EmptyInv,
     MustWait, ReaderSleeps, Inside, Writing, Reading, Empty, ReadSleep, Release,
     Goto, ring, ends
<1>8. EmptyInv'
  BY PipeAssumption DEF IInv, TypeOK, LockInv, EmptyInv, Inside, Empty, MustWait,
     ReadSleep, Release, Goto, ring, ends
<1>9. EofInv'
  BY PipeAssumption DEF IInv, TypeOK, LockInv, EofInv, Inside, Empty, ReadSleep,
     Release, Goto, ring, ends
<1> QED BY <1>1, <1>2, <1>3, <1>4, <1>5, <1>6, <1>7, <1>8, <1>9 DEF IInv

\* ReadWoken preserves the invariant.
LEMMA ReadWokenStep ==
    ASSUME IInv, NEW p \in Proc, ReadWoken(p)
    PROVE  IInv'
<1>1. TypeOK'
  BY PipeAssumption DEF IInv, TypeOK, PC, ReadWoken, Acquire, Goto, ring, ends
<1>2. LockInv'
  BY PipeAssumption DEF IInv, TypeOK, LockInv, Inside, PC, ReadWoken, Acquire, Goto,
     ring, ends
<1>3. EndsInv'
  BY PipeAssumption DEF IInv, TypeOK, LockInv, EndsInv, Inside, Writing, Reading,
     PC, ReadWoken, Acquire, Goto, ring, ends
<1>4. FreedInv'
  BY PipeAssumption DEF IInv, TypeOK, EndsInv, FreedInv, ReadWoken, Acquire, Goto,
     ring, ends
<1>5. KilledInv'
  BY PipeAssumption DEF IInv, TypeOK, KilledInv, ReadWoken, Acquire, Goto, ring,
     ends
<1>6. WriterSleeps'
  BY PipeAssumption DEF IInv, TypeOK, LockInv, EndsInv, WriterSleeps, Inside,
     Writing, Reading, Full, ReadWoken, Acquire, Goto, ring, ends
<1>7. ReaderSleeps'
  BY PipeAssumption DEF IInv, TypeOK, LockInv, EndsInv, KilledInv, EmptyInv,
     MustWait, ReaderSleeps, Inside, Writing, Reading, Empty, ReadWoken, Acquire,
     Goto, ring, ends
<1>8. EmptyInv'
  BY PipeAssumption DEF IInv, TypeOK, LockInv, EmptyInv, Inside, Empty, MustWait,
     ReadWoken, Acquire, Goto, ring, ends
<1>9. EofInv'
  BY PipeAssumption DEF IInv, TypeOK, LockInv, EofInv, Inside, Empty, ReadWoken,
     Acquire, Goto, ring, ends
<1> QED BY <1>1, <1>2, <1>3, <1>4, <1>5, <1>6, <1>7, <1>8, <1>9 DEF IInv

\* ReadReady preserves the invariant.
LEMMA ReadReadyStep ==
    ASSUME IInv, NEW p \in Proc, ReadReady(p)
    PROVE  IInv'
<1>1. TypeOK'
  BY PipeAssumption DEF IInv, TypeOK, PC, ReadReady, MustWait, Goto, ring, ends
<1>2. LockInv'
  BY PipeAssumption DEF IInv, TypeOK, LockInv, Inside, PC, ReadReady, MustWait,
     Goto, ring, ends
<1>3. EndsInv'
  BY PipeAssumption DEF IInv, TypeOK, LockInv, EndsInv, Inside, Writing, Reading,
     PC, ReadReady, MustWait, Goto, ring, ends
<1>4. FreedInv'
  BY PipeAssumption DEF IInv, TypeOK, EndsInv, FreedInv, ReadReady, MustWait, Goto,
     ring, ends
<1>5. KilledInv'
  BY PipeAssumption DEF IInv, TypeOK, KilledInv, ReadReady, MustWait, Goto, ring,
     ends
<1>6. WriterSleeps'
  BY PipeAssumption DEF IInv, TypeOK, LockInv, EndsInv, WriterSleeps, Inside,
     Writing, Reading, Full, ReadReady, MustWait, Goto, ring, ends
<1>7. ReaderSleeps'
  BY PipeAssumption DEF IInv, TypeOK, LockInv, EndsInv, KilledInv, EmptyInv,
     MustWait, ReaderSleeps, Inside, Writing, Reading, Empty, ReadReady, Goto, ring,
     ends
<1>8. EmptyInv'
  BY PipeAssumption DEF IInv, TypeOK, LockInv, EmptyInv, Inside, Empty, MustWait,
     ReadReady, Goto, ring, ends
<1>9. EofInv'
  BY PipeAssumption DEF IInv, TypeOK, LockInv, EofInv, Inside, Empty, ReadReady,
     MustWait, Goto, ring, ends
<1> QED BY <1>1, <1>2, <1>3, <1>4, <1>5, <1>6, <1>7, <1>8, <1>9 DEF IInv

\* ReadByte preserves the invariant.
LEMMA ReadByteStep ==
    ASSUME IInv, NEW p \in Proc, ReadByte(p)
    PROVE  IInv'
<1>1. TypeOK'
  <2>1. nread % PIPESIZE \in 0 .. PIPESIZE - 1
    BY PipeAssumption DEF IInv, TypeOK
  <2>2. (nread + 1) % UintMax1 \in 0 .. UintMax1 - 1
    BY PipeAssumption DEF IInv, TypeOK
  <2>3. ch' \in Byte
    BY <2>1 DEF IInv, TypeOK, ReadByte
  <2>4. i' \in [Proc -> Nat] /\ n' \in [Proc -> Nat]
    <3>1. i \in [Proc -> Nat] /\ n \in [Proc -> Nat]
      BY DEF IInv, TypeOK
    <3>2. CASE i' = [i EXCEPT ![p] = @ + 1] /\ UNCHANGED n
      BY <3>1, <3>2
    <3>3. CASE n' = [n EXCEPT ![p] = i[p]] /\ UNCHANGED i
      BY <3>1, <3>3
    <3> QED BY <3>2, <3>3 DEF ReadByte
  <2> QED BY <2>2, <2>3, <2>4 DEF IInv, TypeOK, ReadByte, ends
<1>2. LockInv'
  BY PipeAssumption DEF IInv, TypeOK, LockInv, Inside, PC, ReadByte, ring, ends
<1>3. EndsInv'
  BY PipeAssumption DEF IInv, TypeOK, LockInv, EndsInv, Inside, Writing, Reading,
     PC, ReadByte, ring, ends
<1>4. FreedInv'
  BY PipeAssumption DEF IInv, TypeOK, EndsInv, FreedInv, ReadByte, ring, ends
<1>5. KilledInv'
  BY PipeAssumption DEF IInv, TypeOK, KilledInv, ReadByte, ring, ends
<1>6. WriterSleeps'
  BY PipeAssumption DEF IInv, TypeOK, LockInv, EndsInv, WriterSleeps, Inside,
     Writing, Reading, Full, ReadByte, ring, ends
<1>7. ReaderSleeps'
  BY PipeAssumption DEF IInv, TypeOK, LockInv, EndsInv, KilledInv, EmptyInv,
     MustWait, ReaderSleeps, Inside, Writing, Reading, Empty, ReadByte, ring, ends
<1>8. EmptyInv'
  BY PipeAssumption DEF IInv, TypeOK, LockInv, EmptyInv, Inside, Empty, MustWait,
     ReadByte, ring, ends
<1>9. EofInv'
  BY PipeAssumption DEF IInv, TypeOK, LockInv, EofInv, Inside, Empty, ReadByte,
     ring, ends
<1> QED BY <1>1, <1>2, <1>3, <1>4, <1>5, <1>6, <1>7, <1>8, <1>9 DEF IInv

\* ReadDone preserves the invariant.
LEMMA ReadDoneStep ==
    ASSUME IInv, NEW p \in Proc, ReadDone(p)
    PROVE  IInv'
<1>1. TypeOK'
  BY PipeAssumption DEF IInv, TypeOK, PC, ReadDone, Wakeup, Leave, Release, ring,
     ends
<1>2. LockInv'
  BY PipeAssumption DEF IInv, TypeOK, LockInv, Inside, PC, ReadDone, Wakeup, Leave,
     Release, ring, ends
<1>3. EndsInv'
  BY PipeAssumption DEF IInv, TypeOK, LockInv, EndsInv, Inside, Writing, Reading,
     PC, ReadDone, Wakeup, Leave, Release, ring, ends
<1>4. FreedInv'
  BY PipeAssumption DEF IInv, TypeOK, EndsInv, FreedInv, ReadDone, Wakeup, Leave,
     Release, ring, ends
<1>5. KilledInv'
  BY PipeAssumption DEF IInv, TypeOK, KilledInv, ReadDone, Wakeup, Leave, Release,
     ring, ends
<1>6. WriterSleeps'
  BY PipeAssumption DEF IInv, TypeOK, LockInv, EndsInv, WriterSleeps, Inside,
     Writing, Reading, Full, ReadDone, Wakeup, Leave, Release, ring, ends
<1>7. ReaderSleeps'
  BY PipeAssumption DEF IInv, TypeOK, LockInv, EndsInv, KilledInv, EmptyInv,
     MustWait, ReaderSleeps, Inside, Writing, Reading, Empty, ReadDone, Wakeup,
     Leave, Release, ring, ends
<1>8. EmptyInv'
  BY PipeAssumption DEF IInv, TypeOK, LockInv, EmptyInv, Inside, Empty, MustWait,
     ReadDone, Wakeup, Leave, Release, ring, ends
<1>9. EofInv'
  BY PipeAssumption DEF IInv, TypeOK, LockInv, EofInv, Inside, Empty, ReadDone,
     Wakeup, Leave, Release, ring, ends
<1> QED BY <1>1, <1>2, <1>3, <1>4, <1>5, <1>6, <1>7, <1>8, <1>9 DEF IInv

\* CloseWrite preserves the invariant.
LEMMA CloseWriteStep ==
    ASSUME IInv, NEW p \in Proc, CloseWrite(p)
    PROVE  IInv'
<1>1. TypeOK'
  BY PipeAssumption DEF IInv, TypeOK, PC, CloseWrite, Wakeup, BothClosed, ring, ends
<1>2. LockInv'
  <2>1. \A q \in Proc : pc'[q] \in Inside <=> pc[q] \in Inside
    BY DEF IInv, TypeOK, CloseWrite, Wakeup, Inside
  <2> QED BY <2>1 DEF IInv, LockInv, CloseWrite
<1>3. EndsInv'
  BY PipeAssumption DEF IInv, TypeOK, LockInv, EndsInv, Inside, Writing, Reading,
     PC, CloseWrite, Wakeup, BothClosed, ring, ends
<1>4. FreedInv'
  BY PipeAssumption DEF IInv, TypeOK, EndsInv, FreedInv, CloseWrite, Wakeup,
     BothClosed, ring, ends
<1>5. KilledInv'
  BY PipeAssumption DEF IInv, TypeOK, KilledInv, CloseWrite, Wakeup, BothClosed,
     ring, ends
<1>6. WriterSleeps'
  BY PipeAssumption DEF IInv, TypeOK, LockInv, EndsInv, WriterSleeps, Inside,
     Writing, Reading, Full, CloseWrite, Wakeup, BothClosed, ring, ends
<1>7. ReaderSleeps'
  BY PipeAssumption DEF IInv, TypeOK, LockInv, EndsInv, KilledInv, EmptyInv,
     MustWait, ReaderSleeps, Inside, Writing, Reading, Empty, CloseWrite, Wakeup,
     BothClosed, ring, ends
<1>8. EmptyInv'
  BY PipeAssumption DEF IInv, TypeOK, LockInv, EmptyInv, Inside, Empty, MustWait,
     CloseWrite, Wakeup, BothClosed, ring, ends
<1>9. EofInv'
  BY PipeAssumption DEF IInv, TypeOK, LockInv, EofInv, Inside, Empty, CloseWrite,
     Wakeup, BothClosed, ring, ends
<1> QED BY <1>1, <1>2, <1>3, <1>4, <1>5, <1>6, <1>7, <1>8, <1>9 DEF IInv

\* CloseRead preserves the invariant.
LEMMA CloseReadStep ==
    ASSUME IInv, NEW p \in Proc, CloseRead(p)
    PROVE  IInv'
<1>1. TypeOK'
  BY PipeAssumption DEF IInv, TypeOK, PC, CloseRead, Wakeup, BothClosed, ring, ends
<1>2. LockInv'
  <2>1. \A q \in Proc : pc'[q] \in Inside <=> pc[q] \in Inside
    BY DEF IInv, TypeOK, CloseRead, Wakeup, Inside
  <2> QED BY <2>1 DEF IInv, LockInv, CloseRead
<1>3. EndsInv'
  BY PipeAssumption DEF IInv, TypeOK, LockInv, EndsInv, Inside, Writing, Reading,
     PC, CloseRead, Wakeup, BothClosed, ring, ends
<1>4. FreedInv'
  BY PipeAssumption DEF IInv, TypeOK, EndsInv, FreedInv, CloseRead, Wakeup,
     BothClosed, ring, ends
<1>5. KilledInv'
  BY PipeAssumption DEF IInv, TypeOK, KilledInv, CloseRead, Wakeup, BothClosed,
     ring, ends
<1>6. WriterSleeps'
  BY PipeAssumption DEF IInv, TypeOK, LockInv, EndsInv, WriterSleeps, Inside,
     Writing, Reading, Full, CloseRead, Wakeup, BothClosed, ring, ends
<1>7. ReaderSleeps'
  BY PipeAssumption DEF IInv, TypeOK, LockInv, EndsInv, KilledInv, EmptyInv,
     MustWait, ReaderSleeps, Inside, Writing, Reading, Empty, CloseRead, Wakeup,
     BothClosed, ring, ends
<1>8. EmptyInv'
  BY PipeAssumption DEF IInv, TypeOK, LockInv, EmptyInv, Inside, Empty, MustWait,
     CloseRead, Wakeup, BothClosed, ring, ends
<1>9. EofInv'
  BY PipeAssumption DEF IInv, TypeOK, LockInv, EofInv, Inside, Empty, CloseRead,
     Wakeup, BothClosed, ring, ends
<1> QED BY <1>1, <1>2, <1>3, <1>4, <1>5, <1>6, <1>7, <1>8, <1>9 DEF IInv

\* Kill preserves the invariant.
LEMMA KillStep ==
    ASSUME IInv, NEW p \in Proc, Kill(p)
    PROVE  IInv'
<1>1. TypeOK'
  BY PipeAssumption DEF IInv, TypeOK, PC, Kill, Goto, ring, ends
<1>2. LockInv'
  BY PipeAssumption DEF IInv, TypeOK, LockInv, Inside, PC, Kill, Goto, ring, ends
<1>3. EndsInv'
  BY PipeAssumption DEF IInv, TypeOK, LockInv, EndsInv, Inside, Writing, Reading,
     PC, Kill, Goto, ring, ends
<1>4. FreedInv'
  BY PipeAssumption DEF IInv, TypeOK, EndsInv, FreedInv, Kill, Goto, ring, ends
<1>5. KilledInv'
  BY PipeAssumption DEF IInv, TypeOK, KilledInv, Kill, Goto, ring, ends
<1>6. WriterSleeps'
  BY PipeAssumption DEF IInv, TypeOK, LockInv, EndsInv, WriterSleeps, Inside,
     Writing, Reading, Full, Kill, Goto, ring, ends
<1>7. ReaderSleeps'
  BY PipeAssumption DEF IInv, TypeOK, LockInv, EndsInv, KilledInv, EmptyInv,
     MustWait, ReaderSleeps, Inside, Writing, Reading, Empty, Kill, Goto, ring, ends
<1>8. EmptyInv'
  BY PipeAssumption DEF IInv, TypeOK, LockInv, EmptyInv, Inside, Empty, MustWait,
     Kill, Goto, ring, ends
<1>9. EofInv'
  BY PipeAssumption DEF IInv, TypeOK, LockInv, EofInv, Inside, Empty, Kill, Goto,
     ring, ends
<1> QED BY <1>1, <1>2, <1>3, <1>4, <1>5, <1>6, <1>7, <1>8, <1>9 DEF IInv

\* The initial state satisfies the invariant.
LEMMA InitIInv == Init => IInv
<1> SUFFICES ASSUME Init PROVE IInv OBVIOUS
<1>1. TypeOK
  <2>1. (CHOOSE b \in Byte : TRUE) \in Byte
    BY DEF Init
  <2>2. /\ data \in [0 .. PIPESIZE - 1 -> Byte]
        /\ nread \in 0 .. UintMax1 - 1 /\ nwrite \in 0 .. UintMax1 - 1
    BY <2>1, PipeAssumption DEF Init
  <2>3. /\ killed \in [Proc -> BOOLEAN] /\ pc \in [Proc -> PC]
        /\ i \in [Proc -> Nat] /\ n \in [Proc -> Nat]
    BY DEF Init, PC
  <2> QED BY <2>2, <2>3, PipeAssumption DEF Init, TypeOK
<1>2. LockInv /\ EndsInv /\ FreedInv /\ KilledInv
  BY PipeAssumption DEF Init, LockInv, EndsInv, FreedInv, KilledInv, Inside,
     Writing, Reading
<1>3. WriterSleeps /\ ReaderSleeps /\ EmptyInv /\ EofInv
  BY DEF Init, WriterSleeps, ReaderSleeps, EmptyInv, EofInv
<1> QED BY <1>1, <1>2, <1>3 DEF IInv

\* Every step preserves the invariant.
LEMMA NextIInv == IInv /\ [Next]_vars => IInv'
<1> SUFFICES ASSUME IInv, [Next]_vars PROVE IInv' OBVIOUS
<1>1. CASE UNCHANGED vars
  BY <1>1 DEF vars, IInv, TypeOK, LockInv, EndsInv, FreedInv, KilledInv,
     WriterSleeps, ReaderSleeps, EmptyInv, EofInv, MustWait, Full, Empty
<1>2. CASE Next
  <2> PICK p \in Proc :
        \/ \E len \in 0 .. MaxLen : WriteCall(p, len) \/ ReadCall(p, len)
        \/ InCall(p) \/ Woken(p) \/ CloseWrite(p) \/ CloseRead(p) \/ Kill(p)
    BY <1>2 DEF Next
  <2>1. CASE \E len \in 0 .. MaxLen : WriteCall(p, len) \/ ReadCall(p, len)
    BY <2>1, WriteCallStep, ReadCallStep
  <2>2. CASE InCall(p)
    BY <2>2, WriteAbortStep, WriteTestedStep, WriteFullStep, WriteDoneStep,
       WriteByteStep,
       ReadAbortStep, ReadTestedStep, ReadSleepStep, ReadReadyStep, ReadByteStep,
       ReadDoneStep DEF InCall
  <2>3. CASE Woken(p)
    BY <2>3, WriteWokenStep, ReadWokenStep DEF Woken
  <2>4. CASE CloseWrite(p) \/ CloseRead(p) \/ Kill(p)
    BY <2>4, CloseWriteStep, CloseReadStep, KillStep
  <2> QED BY <2>1, <2>2, <2>3, <2>4
<1> QED BY <1>1, <1>2

\* The inductive invariant holds in every state; its first part is TypeOK.
THEOREM PipeInvariant == Spec => []IInv
<1> QED BY InitIInv, NextIInv, PTL DEF Spec

\* The fields of the pipe keep their types: the counters stay below the
\* width of an unsigned integer and index the ring.
THEOREM TypeOKHolds == Spec => []TypeOK
<1>1. IInv => TypeOK BY DEF IInv
<1> QED BY <1>1, PipeInvariant, PTL

\* pipeclose() frees the page of the pipe only after the last use of it.
THEOREM FreedUnusedHolds == Spec => []FreedUnused
<1>1. IInv => FreedUnused
  <2> SUFFICES ASSUME IInv, freed PROVE
        lock = NoProc /\ \A p \in Proc : pc[p] = "idle" /\ p \notin wends \cup rends
    BY DEF FreedUnused
  <2>1. wends = {} /\ rends = {}
    BY DEF IInv, FreedInv, EndsInv
  <2>2. \A p \in Proc : pc[p] = "idle"
    BY <2>1 DEF IInv, TypeOK, EndsInv, PC, Writing, Reading
  <2>3. lock = NoProc
    BY <2>2 DEF IInv, TypeOK, LockInv, Inside
  <2> QED BY <2>1, <2>2, <2>3
<1> QED BY <1>1, PipeInvariant, PTL

\* A writer never sleeps in a pipe it could write to, or that nobody reads.
THEOREM SleepingWriterHolds == Spec => []SleepingWriterHasReason
<1>1. IInv => SleepingWriterHasReason
  BY PipeAssumption DEF IInv, LockInv, WriterSleeps, SleepingWriterHasReason, Inside
<1> QED BY <1>1, PipeInvariant, PTL

\* A reader never sleeps in a pipe that holds bytes or that nobody writes,
\* provided that no writer is killed: the early return of pipewrite() wakes
\* nobody.
THEOREM SleepingReaderHolds ==
    ASSUME Killable \cap Writers = {}
    PROVE  Spec => []SleepingReaderHasReason
<1>1. IInv => SleepingReaderHasReason
  BY PipeAssumption DEF IInv, LockInv, ReaderSleeps, SleepingReaderHasReason, Inside
<1> QED BY <1>1, PipeInvariant, PTL

\* read() reports the end of the stream only when the write end is closed.
THEOREM EndOfFileHolds == Spec => EndOfFileIsTrue
<1>1. IInv /\ [Next]_vars =>
        [\A p \in Proc :
           pc[p] = "rcopy" /\ pc'[p] = "idle" /\ i[p] = 0 /\ n[p] > 0 => ~writeopen]_vars
  <2> SUFFICES ASSUME IInv, Next, NEW p \in Proc,
                      pc[p] = "rcopy", pc'[p] = "idle", i[p] = 0, n[p] > 0
               PROVE  ~writeopen
    BY DEF vars
  <2>1. lock = p /\ \A q \in Proc : pc[q] \in Inside => q = p
    BY DEF IInv, LockInv, Inside
  <2>2. PICK q \in Proc :
          \/ \E len \in 0 .. MaxLen : WriteCall(q, len) \/ ReadCall(q, len)
          \/ InCall(q) \/ Woken(q) \/ CloseWrite(q) \/ CloseRead(q) \/ Kill(q)
    BY DEF Next
  <2>3. InCall(q)
    <3>1. ~ \E len \in 0 .. MaxLen : WriteCall(q, len) \/ ReadCall(q, len)
      BY <2>1, PipeAssumption DEF WriteCall, ReadCall, Enter, Acquire
    <3>2. ~Woken(q)
      BY <2>1, PipeAssumption DEF Woken, WriteWoken, ReadWoken, Acquire
    <3>3. ~CloseWrite(q) /\ ~CloseRead(q)
      BY <2>1, PipeAssumption DEF CloseWrite, CloseRead
    <3>4. ~Kill(q)
      BY DEF Kill, Goto, IInv, TypeOK
    <3> QED BY <2>2, <3>1, <3>2, <3>3, <3>4
  <2>4. q = p
    BY <2>1, <2>3 DEF InCall, WriteAbort, InWrite, WriteTested, WriteFull,
       WriteByte,
       WriteDone, ReadAbort, ReadTested, ReadSleep, ReadReady, ReadByte, ReadDone, Inside
  <2>5. Empty
    BY <2>3, <2>4 DEF InCall, WriteAbort, InWrite, WriteTested, WriteFull,
       WriteByte,
       WriteDone, ReadAbort, ReadTested, ReadSleep, ReadReady, ReadByte, ReadDone
  <2> QED BY <2>5 DEF IInv, EofInv
<1> QED BY <1>1, PipeInvariant, PTL DEF Spec, EndOfFileIsTrue
-----------------------------------------------------------------------------
(***************************************************************************)
(* Arithmetic with a modulus.                                              *)
(***************************************************************************)
\* A number below the modulus is its own remainder.
LEMMA ModSmall ==
    ASSUME NEW m \in Nat \ {0}, NEW a \in Nat, a < m
    PROVE  a % m = a
  OBVIOUS

\* A number between the modulus and its double.
LEMMA ModOnce ==
    ASSUME NEW m \in Nat \ {0}, NEW a \in Nat, m <= a, a < 2 * m
    PROVE  a % m = a - m
<1>1. a = m * (a \div m) + (a % m) /\ a \div m \in Int /\ a % m \in Nat /\ a % m < m
  OBVIOUS
<1>2. PICK d \in Int, t \in Nat : a = m * d + t /\ t < m /\ t = a % m
  BY <1>1
<1>3. d = 1
  <2>1. CASE d <= 0
    <3>1. m * d <= 0
      BY <2>1
    <3> QED BY <1>2, <3>1
  <2>2. CASE d >= 2
    <3>1. m * d >= 2 * m
      BY <2>2
    <3> QED BY <1>2, <3>1
  <2> QED BY <2>1, <2>2
<1> QED BY <1>2, <1>3

\* A multiple that is smaller than the modulus is 0.
LEMMA SmallMultiple ==
    ASSUME NEW m \in Nat \ {0}, NEW q \in Int, m * q < m, -m < m * q
    PROVE  q = 0
<1>1. CASE q >= 1
  <2>1. m * q >= m
    BY <1>1
  <2> QED BY <2>1
<1>2. CASE q <= -1
  <2>1. m * q <= -m
    BY <1>2
  <2> QED BY <2>1
<1> QED BY <1>1, <1>2

\* A number is a multiple of the modulus and its remainder.
LEMMA ModParts ==
    ASSUME NEW m \in Nat \ {0}, NEW a \in Nat
    PROVE  \E q \in Int : a = m * q + (a % m)
<1>1. a = m * (a \div m) + (a % m) /\ a \div m \in Int
  OBVIOUS
<1> QED BY <1>1

\* Numbers that differ by a multiple have one remainder.
LEMMA ModSame ==
    ASSUME NEW m \in Nat \ {0}, NEW a \in Nat, NEW b \in Nat, NEW q \in Int,
           a - b = m * q
    PROVE  a % m = b % m
<1>1. PICK h \in Int : a = m * h + (a % m)
  BY ModParts
<1>2. PICK l \in Int : b = m * l + (b % m)
  BY ModParts
<1>3. a % m \in Nat /\ a % m < m /\ b % m \in Nat /\ b % m < m
  OBVIOUS
<1>4. PICK x \in Nat, y \in Nat : x = a % m /\ y = b % m
  BY <1>3
<1>5. a - b = m * h - m * l + (x - y)
  <2>1. PICK u \in Int, v \in Int : u = m * h /\ v = m * l
    OBVIOUS
  <2>2. a = u + x /\ b = v + y
    BY <1>1, <1>2, <1>4, <2>1
  <2>3. a - b = u - v + (x - y)
    BY <2>2
  <2> QED BY <2>1, <2>3
<1>6. m * (q - h + l) = m * q - m * h + m * l /\ q - h + l \in Int
  OBVIOUS
<1>7. x - y = m * (q - h + l)
  BY <1>5, <1>6
<1>8. -m < x - y /\ x - y < m
  BY <1>3, <1>4
<1>9. PICK d \in Int : d = q - h + l
  OBVIOUS
<1>10. x - y = m * d /\ m * d < m /\ -m < m * d
  BY <1>7, <1>8, <1>9
<1>11. d = 0
  BY <1>10, SmallMultiple
<1>12. m * d = 0
  BY <1>11
<1> QED BY <1>4, <1>10, <1>12

\* Numbers that are close to each other have different remainders.
LEMMA ModDiffers ==
    ASSUME NEW m \in Nat \ {0}, NEW a \in Nat, NEW b \in Nat, a < b, b < a + m
    PROVE  a % m # b % m
<1> SUFFICES ASSUME a % m = b % m PROVE FALSE
  OBVIOUS
<1>1. PICK h \in Int : a = m * h + (a % m)
  BY ModParts
<1>2. PICK l \in Int : b = m * l + (b % m)
  BY ModParts
<1>3. PICK x \in Nat : x = a % m /\ x = b % m
  OBVIOUS
<1>4. b - a = m * l - m * h
  BY <1>1, <1>2, <1>3
<1>5. m * (l - h) = m * l - m * h
  OBVIOUS
<1>6. PICK d \in Int : d = l - h
  OBVIOUS
<1>7. b - a = m * d /\ m * d < m /\ -m < m * d
  BY <1>4, <1>5, <1>6
<1>8. d = 0
  BY <1>7, SmallMultiple
<1>9. m * d = 0
  BY <1>8
<1> QED BY <1>7, <1>9
-----------------------------------------------------------------------------
(***************************************************************************)
(* The counters nread and nwrite, which wrap around as a uint does, and    *)
(* what is in the ring f from position a on, m bytes long.                 *)
(***************************************************************************)
Index == 0 .. UintMax1 - 1
Slots == 0 .. PIPESIZE - 1
Rings == [Slots -> Byte]

Succ(a)   == (a + 1) % UintMax1
Gap(a, b) == (a + UintMax1 - b) % UintMax1

Cell(f, x)      == f[x % PIPESIZE]
Window(f, a, m) == [k \in 1 .. m |-> Cell(f, a + k - 1)]

\* The ring and the uint have a size.
LEMMA Sizes ==
    /\ PIPESIZE \in Nat \ {0} /\ UintMax1 \in Nat \ {0}
    /\ PIPESIZE < UintMax1
  BY PipeAssumption

\* The next index, with the wrap at the end.
LEMMA SuccIs ==
    \A a \in Index : /\ Succ(a) = IF a + 1 = UintMax1 THEN 0 ELSE a + 1
                     /\ Succ(a) \in Index
<1> SUFFICES ASSUME NEW a \in Index
             PROVE  /\ Succ(a) = IF a + 1 = UintMax1 THEN 0 ELSE a + 1
                    /\ Succ(a) \in Index
  OBVIOUS
<1>1. a \in Nat /\ a < UintMax1
  BY Sizes DEF Index
<1>2. CASE a + 1 = UintMax1
  <2>1. UintMax1 % UintMax1 = 0
    BY Sizes
  <2> QED BY Sizes, <1>1, <1>2, <2>1 DEF Succ, Index
<1>3. CASE a + 1 # UintMax1
  <2>1. a + 1 < UintMax1
    BY Sizes, <1>1, <1>3
  <2>2. (a + 1) % UintMax1 = a + 1
    BY Sizes, <1>1, <2>1, ModSmall
  <2> QED BY Sizes, <1>1, <2>1, <2>2 DEF Succ, Index
<1> QED BY <1>2, <1>3

\* The distance of two indices.
LEMMA GapIs ==
    \A a, b \in Index : /\ Gap(a, b) = IF b <= a THEN a - b ELSE a + UintMax1 - b
                        /\ Gap(a, b) \in Nat /\ Gap(a, b) < UintMax1
<1> SUFFICES ASSUME NEW a \in Index, NEW b \in Index
             PROVE  /\ Gap(a, b) = IF b <= a THEN a - b ELSE a + UintMax1 - b
                    /\ Gap(a, b) \in Nat /\ Gap(a, b) < UintMax1
  OBVIOUS
<1>1. a \in Nat /\ a < UintMax1 /\ b \in Nat /\ b < UintMax1
  BY Sizes DEF Index
<1>2. PICK d \in Nat : d = a + UintMax1 - b
  BY Sizes, <1>1
<1>3. CASE b <= a
  <2>1. UintMax1 <= d /\ d < 2 * UintMax1
    BY Sizes, <1>1, <1>2, <1>3
  <2>2. d % UintMax1 = d - UintMax1
    BY Sizes, <2>1, ModOnce
  <2> QED BY Sizes, <1>1, <1>2, <1>3, <2>2 DEF Gap
<1>4. CASE a < b
  <2>1. d % UintMax1 = d
    BY Sizes, <1>1, <1>2, <1>4, ModSmall
  <2> QED BY Sizes, <1>1, <1>2, <1>4, <2>1 DEF Gap
<1> QED BY <1>1, <1>3, <1>4

\* An index that lies a distance further, and its slot: the size of the ring
\* divides that of the uint.
LEMMA SlotIs ==
    ASSUME NEW a \in Nat
    PROVE  /\ a % UintMax1 \in Index
           /\ (a % UintMax1) % PIPESIZE = a % PIPESIZE
           /\ a % PIPESIZE \in 0 .. PIPESIZE - 1
           /\ \A k \in Nat : ((a % UintMax1) + k) % PIPESIZE = (a + k) % PIPESIZE
<1>1. a % UintMax1 \in Nat /\ a % UintMax1 \in Index
  BY Sizes DEF Index
<1>2. PICK q \in Int : a = UintMax1 * q + (a % UintMax1)
  BY Sizes, ModParts
<1>3. PICK c \in Int : UintMax1 = PIPESIZE * c
  <2>1. \E c \in Int : UintMax1 = PIPESIZE * c + (UintMax1 % PIPESIZE)
    BY Sizes, ModParts
  <2>2. UintMax1 % PIPESIZE = 0
    BY PipeAssumption
  <2> QED BY Sizes, <2>1, <2>2
<1>4. UintMax1 * q = PIPESIZE * (c * q) /\ c * q \in Int
  BY Sizes, <1>3
<1>5. PICK x \in Nat : x = a % UintMax1
  BY <1>1
<1>6. PICK d \in Int : d = c * q /\ a - x = PIPESIZE * d
  <2>1. PICK d \in Int : d = c * q
    BY <1>4
  <2>2. UintMax1 * q = PIPESIZE * d
    BY <1>4, <2>1
  <2>3. PICK t \in Int : t = UintMax1 * q
    BY Sizes
  <2>4. a = t + x /\ t = PIPESIZE * d
    BY <1>2, <1>5, <2>2, <2>3
  <2> QED BY <2>1, <2>4
<1>7. \A k \in Nat : (x + k) % PIPESIZE = (a + k) % PIPESIZE
  <2> SUFFICES ASSUME NEW k \in Nat
               PROVE  (a + k) % PIPESIZE = (x + k) % PIPESIZE
    OBVIOUS
  <2>1. (a + k) - (x + k) = PIPESIZE * d /\ a + k \in Nat /\ x + k \in Nat
    BY <1>6
  <2> QED BY Sizes, <2>1, ModSame
<1>8. x % PIPESIZE = a % PIPESIZE
  BY Sizes, <1>6, ModSame
<1>9. a % PIPESIZE \in 0 .. PIPESIZE - 1
  BY Sizes
<1> QED BY <1>1, <1>5, <1>7, <1>8, <1>9

\* Going the distance leads from one index to the other.
LEMMA GapGoes ==
    ASSUME NEW a \in Index, NEW b \in Index
    PROVE  b = (a + Gap(b, a)) % UintMax1
<1>1. a \in Nat /\ a < UintMax1 /\ b \in Nat /\ b < UintMax1
  BY Sizes DEF Index
<1>2. Gap(b, a) = IF a <= b THEN b - a ELSE b + UintMax1 - a
  BY GapIs
<1>3. CASE a <= b
  <2>1. a + Gap(b, a) = b
    BY <1>1, <1>2, <1>3
  <2> QED BY Sizes, <1>1, <2>1, ModSmall
<1>4. CASE b < a
  <2>1. PICK t \in Nat : t = b + UintMax1 /\ a + Gap(b, a) = t
    BY Sizes, <1>1, <1>2, <1>4
  <2>2. t % UintMax1 = t - UintMax1
    BY Sizes, <1>1, <2>1, ModOnce
  <2> QED BY Sizes, <1>1, <2>1, <2>2
<1> QED BY <1>1, <1>3, <1>4

\* The distances when one of the indices moves on.
LEMMA Distances ==
    ASSUME NEW a \in Index, NEW b \in Index
    PROVE  /\ Gap(a, a) = 0
           /\ Gap(b, a) = 0 <=> a = b
           /\ Gap(b, a) + 1 < UintMax1 => Gap(Succ(b), a) = Gap(b, a) + 1
           /\ a # b => Gap(b, Succ(a)) = Gap(b, a) - 1
<1>1. a \in Nat /\ a < UintMax1 /\ b \in Nat /\ b < UintMax1
  BY Sizes DEF Index
<1>2. /\ Succ(a) \in Index /\ Succ(b) \in Index
      /\ Succ(a) = IF a + 1 = UintMax1 THEN 0 ELSE a + 1
      /\ Succ(b) = IF b + 1 = UintMax1 THEN 0 ELSE b + 1
  BY SuccIs
<1>3. /\ Gap(a, a) = IF a <= a THEN a - a ELSE a + UintMax1 - a
      /\ Gap(b, a) = IF a <= b THEN b - a ELSE b + UintMax1 - a
  BY GapIs
<1>4. /\ Gap(Succ(b), a) =
            IF a <= Succ(b) THEN Succ(b) - a ELSE Succ(b) + UintMax1 - a
      /\ Gap(b, Succ(a)) =
            IF Succ(a) <= b THEN b - Succ(a) ELSE b + UintMax1 - Succ(a)
  BY <1>2, GapIs
<1>5. Gap(a, a) = 0 /\ (Gap(b, a) = 0 <=> a = b)
  BY Sizes, <1>1, <1>3
<1>6. Gap(b, a) + 1 < UintMax1 => Gap(Succ(b), a) = Gap(b, a) + 1
  BY Sizes, <1>1, <1>2, <1>3, <1>4
<1>7. a # b => Gap(b, Succ(a)) = Gap(b, a) - 1
  BY Sizes, <1>1, <1>2, <1>3, <1>4
<1> QED BY <1>5, <1>6, <1>7

\* A window is a sequence.
LEMMA WindowIsSeq ==
    ASSUME NEW f \in Rings, NEW a \in Nat, NEW m \in Nat
    PROVE  /\ Window(f, a, m) \in Seq(Byte)
           /\ Len(Window(f, a, m)) = m
           /\ \A k \in 1 .. m : Window(f, a, m)[k] = Cell(f, a + k - 1)
<1>1. \A k \in 1 .. m : Cell(f, a + k - 1) \in Byte
  <2> SUFFICES ASSUME NEW k \in 1 .. m
               PROVE  Cell(f, a + k - 1) \in Byte
    OBVIOUS
  <2>1. PICK t \in Nat : t = a + k - 1
    OBVIOUS
  <2>2. t % PIPESIZE \in Slots
    BY SlotIs DEF Slots
  <2> QED BY <2>1, <2>2 DEF Rings, Cell
<1>2. Window(f, a, m) \in Seq(Byte)
  BY <1>1, IsASeq DEF Window
<1> QED BY <1>2 DEF Window

\* An index stands for its slot, whatever multiple was taken off.
LEMMA WindowWraps ==
    ASSUME NEW f, NEW a \in Nat, NEW m \in Nat
    PROVE  Window(f, a % UintMax1, m) = Window(f, a, m)
<1>1. a % UintMax1 \in Nat
  BY Sizes
<1>2. ASSUME NEW k \in 1 .. m
      PROVE  Cell(f, (a % UintMax1) + k - 1) = Cell(f, a + k - 1)
  <2>1. PICK v \in Nat : v = k - 1
    OBVIOUS
  <2>2. ((a % UintMax1) + v) % PIPESIZE = (a + v) % PIPESIZE
    BY SlotIs
  <2>3. (a % UintMax1) + k - 1 = (a % UintMax1) + v /\ a + k - 1 = a + v
    BY <1>1, <2>1
  <2> QED BY <2>2, <2>3 DEF Cell
<1> QED BY <1>2 DEF Window

\* The empty window.
LEMMA WindowEmpty ==
    ASSUME NEW f \in Rings, NEW a \in Nat
    PROVE  Window(f, a, 0) = << >>
<1>1. Window(f, a, 0) \in Seq(Byte) /\ Len(Window(f, a, 0)) = 0
  BY WindowIsSeq
<1> QED BY <1>1, EmptySeq

\* The slot s is the one behind a window that does not fill the ring.
Behind(s, a, m) == m < PIPESIZE /\ s = (a + m) % PIPESIZE
Put(f, s, c) == [f EXCEPT ![s] = c]

\* A byte is put behind a window that does not fill the ring.
LEMMA WindowGrows ==
    ASSUME NEW f \in Rings, NEW a \in Nat, NEW m \in Nat,
           NEW c \in Byte, NEW s \in Slots, Behind(s, a, m)
    PROVE  /\ Put(f, s, c) \in Rings
           /\ Window(Put(f, s, c), a, m + 1) = Append(Window(f, a, m), c)
           /\ \A l \in 0 .. m : Window(Put(f, s, c), a, l) = Window(f, a, l)
<1> DEFINE C == Byte
<1> DEFINE g == Put(f, s, c)
<1>0. m < PIPESIZE /\ s = (a + m) % PIPESIZE /\ g = [f EXCEPT ![s] = c]
  BY DEF Behind, Put
<1> HIDE DEF g
<1>1. g \in Rings
  BY <1>0 DEF Rings
<1>2. g[s] = c /\ \A x \in Slots : x # s => g[x] = f[x]
  BY <1>0 DEF Rings
<1>3. ASSUME NEW k \in 1 .. m
      PROVE  Cell(g, a + k - 1) = Cell(f, a + k - 1)
  <2>1. PICK x \in Nat : x = a + k - 1
    OBVIOUS
  <2>2. x < a + m /\ a + m < x + PIPESIZE
    BY Sizes, <1>0, <2>1
  <2>3. x % PIPESIZE # (a + m) % PIPESIZE
    BY Sizes, <2>2, ModDiffers, a + m \in Nat
  <2>4. x % PIPESIZE \in Slots
    BY SlotIs DEF Slots
  <2> QED BY <1>0, <1>2, <2>1, <2>3, <2>4 DEF Cell
<1>4. Window(f, a, m) \in Seq(C) /\ Len(Window(f, a, m)) = m
      /\ \A k \in 1 .. m : Window(f, a, m)[k] = Cell(f, a + k - 1)
  BY WindowIsSeq
<1>5. Window(g, a, m + 1) \in Seq(C) /\ Len(Window(g, a, m + 1)) = m + 1
      /\ \A k \in 1 .. m + 1 : Window(g, a, m + 1)[k] = Cell(g, a + k - 1)
  BY <1>1, WindowIsSeq, m + 1 \in Nat
<1>6. c \in C
  BY DEF C
<1> HIDE DEF C
<1>7. PICK t : t = Window(f, a, m)
  OBVIOUS
<1>8. PICK u : u = Window(g, a, m + 1)
  OBVIOUS
<1>9. /\ Append(t, c) \in Seq(C) /\ Len(Append(t, c)) = m + 1
      /\ \A k \in 1 .. m : Append(t, c)[k] = t[k]
      /\ Append(t, c)[m + 1] = c
  BY <1>4, <1>6, <1>7, AppendProperties
<1>10. ASSUME NEW k \in 1 .. m + 1
       PROVE  u[k] = Append(t, c)[k]
  <2>1. CASE k \in 1 .. m
    BY <1>3, <1>4, <1>5, <1>7, <1>8, <1>9, <2>1
  <2>2. CASE k = m + 1
    <3>1. a + (m + 1) - 1 = a + m
      OBVIOUS
    <3>2. Cell(g, a + m) = c
      BY <1>0, <1>2 DEF Cell
    <3> QED BY <1>5, <1>8, <1>9, <2>2, <3>1, <3>2
  <2>3. k \in 1 .. m \/ k = m + 1
    OBVIOUS
  <2> QED BY <2>1, <2>2, <2>3
<1>11. u = Append(t, c)
  BY <1>5, <1>8, <1>9, <1>10, SeqEqual
<1>12. ASSUME NEW l \in 0 .. m
       PROVE  Window(g, a, l) = Window(f, a, l)
  <2>1. \A k \in 1 .. l : Cell(g, a + k - 1) = Cell(f, a + k - 1)
    <3>1. l \in Nat /\ \A k \in 1 .. l : k \in 1 .. m
      OBVIOUS
    <3> QED BY <1>3, <3>1
  <2> QED BY <2>1 DEF Window
<1> QED BY <1>1, <1>7, <1>8, <1>11, <1>12 DEF g

\* The first byte is taken off a window.
LEMMA WindowTail ==
    ASSUME NEW f \in Rings, NEW a \in Nat, NEW m \in Nat
    PROVE  /\ Window(f, a, m + 1) # << >>
           /\ Head(Window(f, a, m + 1)) = Cell(f, a)
           /\ Window(f, a + 1, m) = Tail(Window(f, a, m + 1))
<1> DEFINE s == Window(f, a + 1, m)
           u == Window(f, a, m + 1)
<1>1. s \in Seq(Byte) /\ Len(s) = m
      /\ \A k \in 1 .. m : s[k] = Cell(f, a + 1 + k - 1)
  BY WindowIsSeq, a + 1 \in Nat
<1>2. u \in Seq(Byte) /\ Len(u) = m + 1
      /\ \A k \in 1 .. m + 1 : u[k] = Cell(f, a + k - 1)
  BY WindowIsSeq, m + 1 \in Nat
<1> HIDE DEF s, u
<1>3. u # << >> /\ Head(u) = u[1]
  BY <1>2
<1>4. /\ Tail(u) \in Seq(Byte) /\ Len(Tail(u)) = m
      /\ \A k \in 1 .. m : Tail(u)[k] = u[k + 1]
  BY <1>2, <1>3, HeadTailProperties
<1>5. ASSUME NEW k \in 1 .. m
      PROVE  s[k] = Tail(u)[k]
  <2>1. a + 1 + k - 1 = a + (k + 1) - 1 /\ k + 1 \in 1 .. m + 1
    OBVIOUS
  <2> QED BY <1>1, <1>2, <1>4, <2>1
<1>6. s = Tail(u)
  BY <1>1, <1>4, <1>5, SeqEqual
<1>7. u[1] = Cell(f, a)
  <2>1. a + 1 - 1 = a /\ 1 \in 1 .. m + 1
    OBVIOUS
  <2> QED BY <1>2, <2>1
<1> QED BY <1>3, <1>6, <1>7 DEF s, u
-----------------------------------------------------------------------------
(***************************************************************************)
(* The ring implements the stream.                                         *)
(***************************************************************************)
Stream == [k \in 1 .. Used |-> data[(nread + k - 1) % PIPESIZE]]

\* The ring never holds more than it has room for.
UsedInv == Used <= PIPESIZE

\* The stream of this state and of the next one, as windows of the ring.
LEMMA StreamIs ==
    /\ Stream = Window(data, nread, Gap(nwrite, nread))
    /\ Stream' = Window(data', nread', Gap(nwrite', nread'))
    /\ Used = Gap(nwrite, nread) /\ Used' = Gap(nwrite', nread')
  BY DEF Stream, Used, Window, Cell, Gap

\* The ring and its counters have their types.
LEMMA RingTypes ==
    ASSUME TypeOK
    PROVE  /\ data \in Rings /\ nread \in Index /\ nwrite \in Index
           /\ nread \in Nat /\ nwrite \in Nat
           /\ Gap(nwrite, nread) \in Nat /\ Gap(nwrite, nread) < UintMax1
<1>1. data \in Rings /\ nread \in Index /\ nwrite \in Index
  BY DEF TypeOK, Rings, Slots, Index
<1>2. nread \in Nat /\ nwrite \in Nat
  BY <1>1, Sizes DEF Index
<1> QED BY <1>1, <1>2, GapIs

\* A ring with PIPESIZE bytes in it is full, and no other.
LEMMA FullIs ==
    ASSUME TypeOK
    PROVE  Full <=> Used = PIPESIZE
<1>1. nread \in Index /\ nwrite \in Index /\ nread \in Nat /\ nwrite \in Nat
  BY RingTypes
<1>2. nwrite = (nread + Gap(nwrite, nread)) % UintMax1
  BY <1>1, GapGoes
<1>3. CASE Used = PIPESIZE
  BY <1>2, <1>3, StreamIs DEF Full
<1>4. CASE Full
  <2>1. PICK x \in Nat : x = nread + PIPESIZE
    BY <1>1, Sizes
  <2>2. nwrite = x % UintMax1
    BY <1>4, <2>1 DEF Full
  <2>3. nread < UintMax1
    BY <1>1, Sizes DEF Index
  <2>4. Gap(nwrite, nread) = IF nread <= nwrite THEN nwrite - nread
                             ELSE nwrite + UintMax1 - nread
    BY <1>1, GapIs
  <2>5. CASE x < UintMax1
    <3>1. nwrite = x
      BY Sizes, <2>2, <2>5, ModSmall
    <3>2. nread <= nwrite
      BY Sizes, <1>1, <2>1, <3>1
    <3> QED BY Sizes, <1>1, <1>4, <2>1, <2>4, <3>1, <3>2, StreamIs
  <2>6. CASE UintMax1 <= x
    <3>1. x < 2 * UintMax1
      BY Sizes, <1>1, <2>1, <2>3
    <3>2. nwrite = x - UintMax1
      BY Sizes, <2>2, <2>6, <3>1, ModOnce
    <3>3. ~(nread <= nwrite)
      BY Sizes, <1>1, <2>1, <3>2
    <3> QED BY Sizes, <1>1, <1>4, <2>1, <2>4, <3>2, <3>3, StreamIs
  <2> QED BY Sizes, <2>1, <2>5, <2>6
<1> QED BY <1>3, <1>4

\* pipewrite() puts a byte behind the stream.
LEMMA PutStep ==
    ASSUME IInv, UsedInv, NEW p \in Proc, NEW b \in Byte, WriteByte(p, b)
    PROVE  UsedInv' /\ S!Put(b)
<1>1. TypeOK
  BY DEF IInv
<1>2. /\ data \in Rings /\ nread \in Index /\ nwrite \in Index
      /\ nread \in Nat /\ nwrite \in Nat
      /\ Gap(nwrite, nread) \in Nat /\ Gap(nwrite, nread) < UintMax1
  BY <1>1, RingTypes
<1>3. /\ data' = Put(data, nwrite % PIPESIZE, b) /\ nwrite' = Succ(nwrite)
      /\ nread' = nread /\ ch' = ch /\ ~Full
  BY DEF WriteByte, Put, Succ
<1>4. PICK m \in Nat : m = Gap(nwrite, nread) /\ m = Used /\ m < PIPESIZE
  BY <1>1, <1>2, <1>3, Sizes, StreamIs, FullIs DEF UsedInv
<1>5. Gap(nwrite', nread') = m + 1
  <2>1. m + 1 < UintMax1
    BY <1>4, Sizes
  <2>2. Gap(Succ(nwrite), nread) = m + 1
    BY <1>2, <1>4, <2>1, Distances
  <2> QED BY <1>3, <2>2
<1>6. PICK s \in Slots : s = nwrite % PIPESIZE
  BY <1>2, SlotIs DEF Slots
<1>7. Behind(s, nread, m)
  <2>1. PICK t \in Nat : t = nread + m
    BY <1>2
  <2>2. nwrite = t % UintMax1
    BY <1>2, <1>4, <2>1, GapGoes
  <2>3. (t % UintMax1) % PIPESIZE = t % PIPESIZE
    BY SlotIs
  <2> QED BY <1>4, <1>6, <2>1, <2>2, <2>3 DEF Behind
<1>8. Window(Put(data, s, b), nread, m + 1) = Append(Window(data, nread, m), b)
  BY ONLY <1>2, <1>7, b \in Byte, s \in Slots, m \in Nat, WindowGrows
<1>9. Stream' = Append(Stream, b)
  BY <1>3, <1>4, <1>5, <1>6, <1>8, StreamIs
<1>10. Len(Stream) = m
  BY <1>2, <1>4, StreamIs, WindowIsSeq
<1>11. Used' <= PIPESIZE
  <2>1. Used' = m + 1
    BY <1>5, StreamIs
  <2>2. m + 1 <= PIPESIZE
    BY <1>4, Sizes
  <2> QED BY <2>1, <2>2
<1> QED BY <1>3, <1>4, <1>9, <1>10, <1>11 DEF UsedInv, S!Put, Stream

\* piperead() takes the first byte of the stream.
LEMMA GetStep ==
    ASSUME IInv, UsedInv, NEW p \in Proc, ReadByte(p)
    PROVE  UsedInv' /\ S!Get
<1>1. TypeOK
  BY DEF IInv
<1>2. /\ data \in Rings /\ nread \in Index /\ nwrite \in Index
      /\ nread \in Nat /\ nwrite \in Nat
      /\ Gap(nwrite, nread) \in Nat /\ Gap(nwrite, nread) < UintMax1
  BY <1>1, RingTypes
<1>3. /\ data' = data /\ nread' = Succ(nread) /\ nwrite' = nwrite
      /\ ch' = Cell(data, nread) /\ nread # nwrite
  BY DEF ReadByte, Empty, Succ, Cell
<1>4. Gap(nwrite, nread) # 0 /\ Gap(nwrite', nread') = Gap(nwrite, nread) - 1
  BY <1>2, <1>3, Distances
<1>5. PICK m \in Nat : m + 1 = Gap(nwrite, nread) /\ m = Gap(nwrite', nread')
  BY <1>2, <1>4
<1>6. /\ Window(data, nread, m + 1) # << >>
      /\ Head(Window(data, nread, m + 1)) = Cell(data, nread)
      /\ Window(data, nread + 1, m) = Tail(Window(data, nread, m + 1))
  BY <1>2, WindowTail
<1>7. Window(data, nread', m) = Window(data, nread + 1, m)
  <2>1. nread' = (nread + 1) % UintMax1 /\ nread + 1 \in Nat
    BY <1>2, <1>3 DEF Succ
  <2> QED BY <2>1, WindowWraps
<1>8. Stream # << >> /\ ch' = Head(Stream) /\ Stream' = Tail(Stream)
  BY <1>3, <1>5, <1>6, <1>7, StreamIs
<1>9. Used' <= PIPESIZE
  BY <1>2, <1>4, <1>5, Sizes, StreamIs DEF UsedInv
<1> QED BY <1>8, <1>9 DEF UsedInv, S!Get, Stream

\* No other step touches the ring.
LEMMA StreamStep ==
    ASSUME IInv, UsedInv, [Next]_vars
    PROVE  UsedInv' /\ (S!StreamNext \/ UNCHANGED <<Stream, ch>>)
<1>1. ASSUME UNCHANGED <<data, nread, nwrite, ch>>
      PROVE  UsedInv' /\ UNCHANGED <<Stream, ch>>
  BY <1>1 DEF UsedInv, Used, Stream
<1>2. CASE UNCHANGED vars
  BY <1>1, <1>2 DEF vars
<1>3. ASSUME NEW p \in Proc,
             \/ \E len \in 0 .. MaxLen : WriteCall(p, len) \/ ReadCall(p, len)
             \/ Woken(p) \/ CloseWrite(p) \/ CloseRead(p) \/ Kill(p)
             \/ WriteAbort(p) \/ WriteTested(p) \/ WriteFull(p) \/ WriteDone(p)
             \/ ReadAbort(p) \/ ReadTested(p) \/ ReadSleep(p)
             \/ ReadReady(p) \/ ReadDone(p)
      PROVE  UsedInv' /\ UNCHANGED <<Stream, ch>>
  <2>1. UNCHANGED <<data, nread, nwrite, ch>>
    BY <1>3 DEF WriteCall, ReadCall, Enter, Woken, WriteWoken, ReadWoken, CloseWrite,
       CloseRead, Kill, WriteAbort, WriteTested, WriteFull, WriteDone, ReadAbort,
       ReadTested, ReadSleep, ReadReady, ReadDone, ring
  <2> QED BY <1>1, <2>1
<1>4. ASSUME NEW p \in Proc, NEW b \in Byte, WriteByte(p, b)
      PROVE  UsedInv' /\ S!StreamNext
  BY <1>4, PutStep DEF S!StreamNext
<1>5. ASSUME NEW p \in Proc, ReadByte(p)
      PROVE  UsedInv' /\ S!StreamNext
  BY <1>5, GetStep DEF S!StreamNext
<1> QED BY <1>2, <1>3, <1>4, <1>5 DEF Next, InCall

\* The ring implements the stream: what pipewrite() puts in, piperead() gets
\* once and in order, and there are never more than PIPESIZE bytes, also when
\* nread and nwrite have wrapped around.
THEOREM PipeIsByteStream == Spec => ImplementsByteStream
<1>1. Init => UsedInv /\ S!StreamInit
  <2> SUFFICES ASSUME Init PROVE UsedInv /\ S!StreamInit
    OBVIOUS
  <2>1. TypeOK
    BY InitIInv DEF IInv
  <2>2. nread = 0 /\ nwrite = 0 /\ ch \in Byte /\ 0 \in Index
    BY Sizes DEF Init, Index
  <2>3. Gap(nwrite, nread) = 0
    BY <2>2, Distances
  <2>4. Stream = << >>
    BY <2>1, <2>3, RingTypes, StreamIs, WindowEmpty
  <2> QED BY <2>2, <2>3, <2>4, Sizes, StreamIs DEF UsedInv, S!StreamInit, Stream
<1>2. IInv /\ UsedInv /\ [Next]_vars => UsedInv'
  BY StreamStep
<1>3. IInv /\ UsedInv /\ [Next]_vars => [S!StreamNext]_S!streamvars
  BY StreamStep DEF S!streamvars, Stream
<1> QED BY <1>1, <1>2, <1>3, PipeInvariant, PTL
    DEF Spec, ImplementsByteStream, S!StreamSpec
=============================================================================
