-------------------------------- MODULE Pipe --------------------------------
(***************************************************************************)
(* One pipe of kernel/pipe.c, and the processes that have its ends open:   *)
(* reads and writes that sleep on pi->nread and pi->nwrite, the last       *)
(* fileclose() of an end, and kill() at any moment.                        *)
(*                                                                         *)
(* pi->lock is held from one sleep() to the next, so a step is one turn of *)
(* a loop; only kill(), which takes another lock, comes in between.  The   *)
(* sleep() and wakeup() used here are atomic, as Proc shows.               *)
(***************************************************************************)
EXTENDS Naturals, Sequences, FiniteSets

CONSTANTS
    Proc,
    Writers, Readers,   \* who has the write end, the read end open at first
    Killable,           \* who may be killed
    Byte,
    PIPESIZE,
    UintMax1,           \* one more than the largest uint
    MaxLen,             \* bound: the largest n passed to read() or write()
    NoProc              \* the holder of a free lock

ASSUME PipeAssumption ==
    /\ Writers \subseteq Proc /\ Readers \subseteq Proc /\ Killable \subseteq Proc
    /\ PIPESIZE \in Nat \ {0} /\ UintMax1 \in Nat /\ MaxLen \in Nat
    /\ UintMax1 % PIPESIZE = 0 /\ UintMax1 > PIPESIZE
    /\ NoProc \notin Proc

VARIABLES
    data, nread, nwrite, readopen, writeopen,   \* struct pipe
    lock,            \* pi->lock
    freed,           \* the page of the pipe was given back by kfree()
    wends, rends,    \* who has a file descriptor of each end
    killed,
    pc, i, n,        \* of each process; its loop variable and its argument
    ch               \* the byte read last

ring == <<data, nread, nwrite>>
ends == <<readopen, writeopen, freed, wends, rends>>
vars == <<data, nread, nwrite, readopen, writeopen, lock, freed, wends, rends,
          killed, pc, i, n, ch>>

PC == {"idle", "write", "wput", "wsleep", "wwoken",
       "rwait", "rempty", "rsleep", "rwoken", "rcopy"}

Empty == nread = nwrite

\* Mutant: one byte too many fits into the ring.
Full_TooLate == nwrite = (nread + PIPESIZE + 1) % UintMax1

Full  == nwrite = (nread + PIPESIZE) % UintMax1

\* pipealloc(), and fork() sharing the two descriptors.
Init ==
    /\ data = [k \in 0 .. PIPESIZE - 1 |-> CHOOSE b \in Byte : TRUE]
    /\ nread = 0 /\ nwrite = 0
    /\ readopen = TRUE /\ writeopen = TRUE /\ freed = FALSE
    /\ wends = Writers /\ rends = Readers
    /\ lock = NoProc
    /\ killed = [p \in Proc |-> FALSE]
    /\ pc = [p \in Proc |-> "idle"]
    /\ i = [p \in Proc |-> 0]
    /\ n = [p \in Proc |-> 0]
    /\ ch \in Byte

Goto(p, to) == pc' = [pc EXCEPT ![p] = to]

\* wakeup() of the processes that sleep at "from"; p goes on at "to".
Wakeup(p, from, to) ==
    pc' = [q \in Proc |-> IF q = p THEN to
                          ELSE IF pc[q] = from
                          THEN IF from = "rsleep" THEN "rwoken" ELSE "wwoken"
                          ELSE pc[q]]

Acquire(p) == lock = NoProc /\ lock' = p
Release    == lock' = NoProc

\* A call begins: its lock, its argument, its loop variable.  The process may
\* be killed already: kill() can come after the test in usertrap().
Enter(p, len, at) ==
    /\ pc[p] = "idle"
    /\ Acquire(p)
    /\ n' = [n EXCEPT ![p] = len]
    /\ i' = [i EXCEPT ![p] = 0]
    /\ Goto(p, at)
    /\ UNCHANGED <<ring, ends, killed, ch>>

\* It returns: locals are forgotten.
Leave(p) ==
    /\ Release
    /\ n' = [n EXCEPT ![p] = 0]
    /\ i' = [i EXCEPT ![p] = 0]
-----------------------------------------------------------------------------
(***************************************************************************)
(* pipewrite(): "write" is the top of its loop, and "wput" follows the     *)
(* test of readopen and killed(): kill() may come between that test and    *)
(* sleep().                                                                *)
(***************************************************************************)
WriteCall(p, len) == p \in wends /\ Enter(p, len, "write")

InWrite(p) == pc[p] = "write" /\ i[p] < n[p]

MustAbort(p) == ~readopen \/ killed[p]

WriteAbort(p) ==
    /\ InWrite(p) /\ MustAbort(p)
    /\ Leave(p)
    /\ Goto(p, "idle")
    /\ UNCHANGED <<ring, ends, killed, ch>>

WriteTested(p) ==
    /\ InWrite(p) /\ ~MustAbort(p)
    /\ Goto(p, "wput")
    /\ UNCHANGED <<ring, ends, lock, killed, i, n, ch>>

WriteFull(p) ==
    /\ pc[p] = "wput" /\ Full
    /\ Wakeup(p, "rsleep", "wsleep")
    /\ Release
    /\ UNCHANGED <<ring, ends, killed, i, n, ch>>

WriteByte(p, b) ==
    /\ pc[p] = "wput" /\ ~Full
    /\ data'   = [data EXCEPT ![nwrite % PIPESIZE] = b]
    /\ nwrite' = (nwrite + 1) % UintMax1
    /\ i' = [i EXCEPT ![p] = @ + 1]
    /\ Goto(p, "write")
    /\ UNCHANGED <<nread, ends, lock, killed, n, ch>>

\* Mutant: readers are woken only when the ring is full.
WriteDone_NoWakeup(p) ==
    /\ \/ pc[p] = "write" /\ i[p] = n[p]
       \/ pc[p] = "wput" /\ ~Full
    /\ Goto(p, "idle")
    /\ Leave(p)
    /\ UNCHANGED <<ring, ends, killed, ch>>

\* All bytes are written, or copyin() has failed.
WriteDone(p) ==
    /\ \/ pc[p] = "write" /\ i[p] = n[p]
       \/ pc[p] = "wput" /\ ~Full
    /\ Wakeup(p, "rsleep", "idle")
    /\ Leave(p)
    /\ UNCHANGED <<ring, ends, killed, ch>>

WriteWoken(p) ==
    /\ pc[p] = "wwoken"
    /\ Acquire(p)
    /\ Goto(p, "write")
    /\ UNCHANGED <<ring, ends, killed, i, n, ch>>
-----------------------------------------------------------------------------
(***************************************************************************)
(* piperead(): wait for data or for the end of the stream, then copy.      *)
(***************************************************************************)
ReadCall(p, len) == p \in rends /\ Enter(p, len, "rwait")

MustWait == Empty /\ writeopen

ReadAbort(p) ==
    /\ pc[p] = "rwait" /\ MustWait /\ killed[p]
    /\ Leave(p)
    /\ Goto(p, "idle")
    /\ UNCHANGED <<ring, ends, killed, ch>>

ReadTested(p) ==
    /\ pc[p] = "rwait" /\ MustWait /\ ~killed[p]
    /\ Goto(p, "rempty")
    /\ UNCHANGED <<ring, ends, lock, killed, i, n, ch>>

ReadSleep(p) ==
    /\ pc[p] = "rempty"
    /\ Goto(p, "rsleep")
    /\ Release
    /\ UNCHANGED <<ring, ends, killed, i, n, ch>>

\* Mutant: the condition is tested with if instead of while.
ReadWoken_NoRetest(p) ==
    /\ pc[p] = "rwoken"
    /\ Acquire(p)
    /\ Goto(p, "rcopy")
    /\ UNCHANGED <<ring, ends, killed, i, n, ch>>

ReadWoken(p) ==
    /\ pc[p] = "rwoken"
    /\ Acquire(p)
    /\ Goto(p, "rwait")
    /\ UNCHANGED <<ring, ends, killed, i, n, ch>>

ReadReady(p) ==
    /\ pc[p] = "rwait" /\ ~MustWait
    /\ Goto(p, "rcopy")
    /\ UNCHANGED <<ring, ends, lock, killed, i, n, ch>>

\* One byte leaves the ring; copyout() may fail, which ends the loop.
ReadByte(p) ==
    /\ pc[p] = "rcopy" /\ i[p] < n[p] /\ ~Empty
    /\ ch' = data[nread % PIPESIZE]
    /\ nread' = (nread + 1) % UintMax1
    /\ \/ i' = [i EXCEPT ![p] = @ + 1] /\ UNCHANGED n
       \/ n' = [n EXCEPT ![p] = i[p]] /\ UNCHANGED i
    /\ UNCHANGED <<data, nwrite, ends, lock, killed, pc>>

\* Mutant: writers are not woken when the last byte asked for was read.
ReadDone_NoWakeup(p) ==
    /\ pc[p] = "rcopy" /\ (i[p] = n[p] \/ Empty)
    /\ Goto(p, "idle")
    /\ Leave(p)
    /\ UNCHANGED <<ring, ends, killed, ch>>

ReadDone(p) ==
    /\ pc[p] = "rcopy" /\ (i[p] = n[p] \/ Empty)
    /\ Wakeup(p, "wsleep", "idle")
    /\ Leave(p)
    /\ UNCHANGED <<ring, ends, killed, ch>>
-----------------------------------------------------------------------------
(***************************************************************************)
(* fileclose(), and pipeclose() when it was the last descriptor of an end; *)
(* the page is freed with the second end.                                  *)
(***************************************************************************)
\* Mutant: the page goes with the first end.
BothClosed_Either(r, ww) == ~r \/ ~ww

BothClosed(r, ww) == ~r /\ ~ww

CloseWrite(p) ==
    /\ pc[p] = "idle" /\ p \in wends
    /\ wends' = wends \ {p}
    /\ IF wends' = {}
       THEN /\ lock = NoProc
            /\ writeopen' = FALSE
            /\ Wakeup(p, "rsleep", "idle")
            /\ freed' = BothClosed(readopen, FALSE)
       ELSE UNCHANGED <<writeopen, freed, pc>>
    /\ UNCHANGED <<ring, readopen, lock, rends, killed, i, n, ch>>

CloseRead(p) ==
    /\ pc[p] = "idle" /\ p \in rends
    /\ rends' = rends \ {p}
    /\ IF rends' = {}
       THEN /\ lock = NoProc
            /\ readopen' = FALSE
            /\ Wakeup(p, "wsleep", "idle")
            /\ freed' = BothClosed(FALSE, writeopen)
       ELSE UNCHANGED <<readopen, freed, pc>>
    /\ UNCHANGED <<ring, writeopen, lock, wends, killed, i, n, ch>>

\* kill(): a sleeping process becomes runnable.
Kill(p) ==
    /\ p \in Killable /\ ~killed[p]
    /\ killed' = [killed EXCEPT ![p] = TRUE]
    /\ Goto(p, CASE pc[p] = "wsleep" -> "wwoken"
                 [] pc[p] = "rsleep" -> "rwoken"
                 [] OTHER            -> pc[p])
    /\ UNCHANGED <<ring, ends, lock, i, n, ch>>
-----------------------------------------------------------------------------
\* The steps of a call under way.
InCall(p) ==
    \/ WriteAbort(p) \/ WriteTested(p) \/ WriteFull(p) \/ WriteDone(p)
    \/ \E b \in Byte : WriteByte(p, b)
    \/ ReadAbort(p) \/ ReadTested(p) \/ ReadSleep(p) \/ ReadReady(p)
    \/ ReadByte(p) \/ ReadDone(p)

Woken(p) == WriteWoken(p) \/ ReadWoken(p)

Next ==
    \E p \in Proc :
        \/ \E len \in 0 .. MaxLen : WriteCall(p, len) \/ ReadCall(p, len)
        \/ InCall(p) \/ Woken(p)
        \/ CloseWrite(p) \/ CloseRead(p) \/ Kill(p)

Spec == Init /\ [][Next]_vars

(***************************************************************************)
(* A call that holds the lock goes on; a process that was woken gets the   *)
(* lock if it is free again and again.  These two are the scheduler's.     *)
(* The others are the programs': a reader keeps reading, and a process     *)
(* that was killed exits, which closes its descriptors.                    *)
(***************************************************************************)
Fairness ==
    \A p \in Proc :
        /\ WF_vars(InCall(p)) /\ SF_vars(Woken(p))
        /\ SF_vars(~killed[p] /\ \E len \in 1 .. MaxLen : ReadCall(p, len))
        /\ SF_vars(killed[p] /\ (CloseWrite(p) \/ CloseRead(p)))

FairSpec == Spec /\ Fairness
-----------------------------------------------------------------------------
TypeOK ==
    /\ data \in [0 .. PIPESIZE - 1 -> Byte]
    /\ nread \in 0 .. UintMax1 - 1 /\ nwrite \in 0 .. UintMax1 - 1
    /\ readopen \in BOOLEAN /\ writeopen \in BOOLEAN /\ freed \in BOOLEAN
    /\ lock \in Proc \cup {NoProc}
    /\ wends \subseteq Proc /\ rends \subseteq Proc
    /\ killed \in [Proc -> BOOLEAN]
    /\ pc \in [Proc -> PC]
    /\ i \in [Proc -> Nat] /\ n \in [Proc -> Nat]
    /\ ch \in Byte

\* A reader that sleeps has a reason to: when nobody is inside the pipe, the
\* pipe is empty and its write end is open (the condition of piperead()'s
\* loop, which has no other wakeup than those of writers and of pipeclose()).
SleepingReaderHasReason ==
    lock = NoProc /\ (\E p \in Proc : pc[p] = "rsleep") => Empty /\ writeopen

\* A writer that sleeps has a reason to: the pipe is full and its read end is
\* open, also when readers are killed or fail to copy.
SleepingWriterHasReason ==
    lock = NoProc /\ (\E p \in Proc : pc[p] = "wsleep") => Full /\ readopen

\* The page of the pipe is freed only when nobody can use it any more.
FreedUnused ==
    freed => lock = NoProc /\ \A p \in Proc : pc[p] = "idle" /\ p \notin wends \cup rends

\* A read() of at least one byte into memory the process has returns 0, the
\* end of the stream, only once the write end is closed, also when another
\* reader was faster to the data.  (piperead() also returns 0 when its first
\* copyout() fails: that is the step that sets n to i.)
EndOfFileIsTrue ==
    [][\A p \in Proc :
         pc[p] = "rcopy" /\ pc'[p] = "idle" /\ i[p] = 0 /\ n[p] > 0 => ~writeopen]_vars

\* A write() returns while the readers keep reading, or once they close, with
\* one writer at a time.  (With two, nothing in pipewrite() keeps one of them
\* from filling the ring again before the other one gets pi->lock.)
WriteReturns == \A p \in Proc : pc[p] = "write" ~> pc[p] = "idle"

Used == (nwrite + UintMax1 - nread) % UintMax1

S == INSTANCE ByteStream WITH
        Capacity <- PIPESIZE,
        stream   <- [k \in 1 .. Used |-> data[(nread + k - 1) % PIPESIZE]],
        got      <- ch

\* The ring is a first-in first-out stream that never holds more than
\* PIPESIZE bytes, also when nread and nwrite have wrapped around.
ImplementsByteStream == S!StreamSpec
=============================================================================
