------------------------------ MODULE Console -------------------------------
(***************************************************************************)
(* kernel/console.c on top of the uart: the input ring with its read,      *)
(* write and edit indices, consoleintr() with its echo, and the processes  *)
(* that read() and write() the console.  A slot of the ring is emptied     *)
(* when its character leaves it, so that a second read would be seen.      *)
(***************************************************************************)
EXTENDS Uart

CONSTANTS
    Writers, Readers,   \* who writes to the console, who reads from it
    INPUT_BUF_SIZE,
    UintMax1,           \* one more than the largest uint
    MaxLen,             \* bound: the largest n of a read()
    Bounded             \* bound: whether keys and output wait as said below

ASSUME ConsoleAssumption ==
    /\ INPUT_BUF_SIZE \in Nat \ {0} /\ UintMax1 \in Nat /\ MaxLen \in Nat
    /\ UintMax1 % INPUT_BUF_SIZE = 0 /\ UintMax1 > INPUT_BUF_SIZE
    /\ Writers \subseteq Proc /\ Readers \subseteq Proc
    /\ Key \subseteq {"x", "cr", "eof", "bs", "kill", "dump"}
    /\ Bounded \in BOOLEAN

VARIABLES
    buf, r, w, e,        \* struct cons
    conslock,            \* cons.lock: a process, "intr" or None
    key, echo,           \* consoleintr(): its argument, the echo still to send
    n, target,           \* consoleread(): its variables
    killed,
    pressed              \* bound: a key was pressed since output began

inVars   == <<buf, r, w, e>>
readVars == <<n, target, killed, pressed>>
vars     == <<uartVars, inVars, conslock, key, echo, readVars>>

Init ==
    /\ UartInit
    /\ buf = [k \in 0 .. INPUT_BUF_SIZE - 1 |-> "none"] /\ r = 0 /\ w = 0 /\ e = 0
    /\ conslock = None /\ key = "none" /\ echo = 0
    /\ n = [p \in Proc |-> 0] /\ target = [p \in Proc |-> 0]
    /\ killed = [p \in Proc |-> FALSE] /\ pressed = FALSE

Minus(a, b) == (a + UintMax1 - b) % UintMax1

Plus1(a) == (a + 1) % UintMax1
At(a) == buf[a % INPUT_BUF_SIZE]

\* The characters of the ring from index a up to b.
Chars(a, b) == [k \in 1 .. Minus(b, a) |-> At((a + k - 1) % UintMax1)]

\* The ring after the characters from index a up to b have left it.
Emptied(a, b) ==
    [k \in DOMAIN buf |-> IF \E j \in 1 .. Minus(b, a) : k = (a + j - 1) % INPUT_BUF_SIZE
                         THEN "none" ELSE buf[k]]

Goto(p, to) == pc' = [pc EXCEPT ![p] = to]
-----------------------------------------------------------------------------
(***************************************************************************)
(* If Bounded, output begins only while no input is waiting, and one key   *)
(* may be pressed until it ends; at most one key waits in the 16550.  The  *)
(* indices of the two rings do not depend on each other: output begins     *)
(* with r = 0, and typing without output with uart_tx_w = 0.               *)
(***************************************************************************)
InputQuiet == r = 0 /\ e = 0 /\ rx = <<>> /\ hpc = "out"
Printing   == ~TxEmpty \/ \E p \in Proc : pc[p] \in {"put", "tsleep", "start"}

Press(c) ==
    /\ Bounded => rx = <<>> /\ IF Printing THEN ~pressed ELSE uart_tx_w = 0
    /\ rx' = Append(rx, c) /\ pressed' = Printing
    /\ UNCHANGED <<pc, txVars, hpc, fifo, thre, inVars, conslock, key, echo, n, target, killed>>

\* consolewrite() calls uartputc() for one character after the other.
WriteCall(p) ==
    /\ p \in Writers /\ pc[p] = "idle" /\ (Bounded => InputQuiet \/ Printing)
    /\ Goto(p, "put")
    /\ pressed' = (Printing /\ pressed)
    /\ UNCHANGED <<txVars, hpc, fifo, thre, rx, inVars, conslock, key, echo, n, target, killed>>
-----------------------------------------------------------------------------
(***************************************************************************)
(* consoleintr().  cons.lock is held through the echo, so when the ring    *)
(* changes within that time does not matter: it does at the end.           *)
(***************************************************************************)
\* Mutant: the room is measured from the write index.
HasRoom_FromW == Minus(e, w) < INPUT_BUF_SIZE

HasRoom == Minus(e, r) < INPUT_BUF_SIZE

CanErase == e # w

\* Where ^U's loop stops: at w, or after the last '\n'.
KillTo ==
    CHOOSE a \in 0 .. UintMax1 - 1 :
        /\ Minus(a, w) <= Minus(e, w)
        /\ a = w \/ At((a + UintMax1 - 1) % UintMax1) = "nl"
        /\ \A k \in 1 .. Minus(e, a) : At((a + k - 1) % UintMax1) # "nl"

\* The characters consputc() sends for a key: three for each one erased.
EchoLength(c) ==
    CASE c = "kill" -> 3 * Minus(e, KillTo)
      [] c = "bs"   -> IF CanErase THEN 3 ELSE 0
      [] c = "dump" -> 1
      [] OTHER      -> IF HasRoom THEN 1 ELSE 0

KeyTaken ==
    /\ hpc = "rx" /\ rx # <<>> /\ conslock = None
    /\ conslock' = "intr"
    /\ key' = Head(rx) /\ rx' = Tail(rx)
    /\ echo' = EchoLength(key')
    /\ hpc' = "echo"
    /\ UNCHANGED <<pc, txVars, fifo, thre, inVars, readVars>>

\* Mutant: the echo does not wait for the transmitter.
EchoReady_Always == TRUE

EchoReady == TxIdle

\* uartputc_sync(): the test of LSR and the write of THR.
EchoTest ==
    /\ hpc = "echo" /\ echo > 0 /\ EchoReady
    /\ hpc' = "esend"
    /\ UNCHANGED <<pc, txVars, fifo, thre, rx, inVars, conslock, key, echo, readVars>>

EchoSend ==
    /\ hpc = "esend"
    /\ WriteTHR
    /\ echo' = echo - 1
    /\ hpc' = "echo"
    /\ UNCHANGED <<pc, txVars, rx, inVars, conslock, key, readVars>>

\* Mutant: a full buffer does not end the line.
LineEnds_NotWhenFull(c) == c \in {"nl", "eof"}

\* e has been increased: is w moved up to it?
LineEnds(c) == c \in {"nl", "eof"} \/ Minus(Plus1(e), r) = INPUT_BUF_SIZE

ReaderWakes == [q \in Proc |-> IF pc[q] = "rsleep" THEN "rlock" ELSE pc[q]]

Store(c) ==
    /\ buf' = [buf EXCEPT ![e % INPUT_BUF_SIZE] = c]
    /\ e' = Plus1(e)
    /\ IF LineEnds(c) THEN w' = e' /\ pc' = ReaderWakes ELSE UNCHANGED <<w, pc>>

KeyDone ==
    /\ hpc = "echo" /\ echo = 0
    /\ CASE key = "kill" -> e' = KillTo /\ buf' = Emptied(KillTo, e) /\ UNCHANGED <<w, pc>>
         [] key = "bs"   -> /\ e' = IF CanErase THEN (e + UintMax1 - 1) % UintMax1 ELSE e
                            /\ UNCHANGED <<buf, w, pc>>
         [] key = "dump" -> UNCHANGED <<buf, w, e, pc>>
         [] OTHER        -> IF HasRoom THEN Store(IF key = "cr" THEN "nl" ELSE key)
                            ELSE UNCHANGED <<buf, w, e, pc>>
    /\ conslock' = None /\ key' = "none" /\ hpc' = "rx"
    /\ UNCHANGED <<txVars, fifo, thre, rx, r, echo, readVars>>
-----------------------------------------------------------------------------
(***************************************************************************)
(* consoleread(); "rtop" is the head of its inner loop.                    *)
(***************************************************************************)
ReadCall(p, len) ==
    /\ p \in Readers /\ pc[p] = "idle"
    /\ n' = [n EXCEPT ![p] = len] /\ target' = [target EXCEPT ![p] = len]
    /\ Goto(p, "rlock")
    /\ UNCHANGED <<txVars, hpc, fifo, thre, rx, inVars, conslock, key, echo, killed, pressed>>

ReadLock(p) ==
    /\ pc[p] = "rlock" /\ conslock = None
    /\ conslock' = p
    /\ Goto(p, "rtop")
    /\ UNCHANGED <<txVars, hpc, fifo, thre, rx, inVars, key, echo, readVars>>

\* The call returns: the lock is released, locals are forgotten.  A killed
\* process exits, and another takes its place.
ReadReturns(p) ==
    /\ killed' = [killed EXCEPT ![p] = FALSE]
    /\ conslock' = None
    /\ Goto(p, "idle")
    /\ n' = [n EXCEPT ![p] = 0] /\ target' = [target EXCEPT ![p] = 0]

\* n bytes were read, or the process was killed before there was input.
ReadEnd(p) ==
    /\ pc[p] = "rtop" /\ (n[p] = 0 \/ (r = w /\ killed[p]))
    /\ ReadReturns(p)
    /\ UNCHANGED <<txVars, hpc, fifo, thre, rx, inVars, key, echo, pressed>>

ReadTest(p) ==
    /\ pc[p] = "rtop" /\ n[p] > 0 /\ r = w /\ ~killed[p]
    /\ Goto(p, "rtest")
    /\ UNCHANGED <<txVars, hpc, fifo, thre, rx, inVars, conslock, key, echo, readVars>>

ReadSleep(p) ==
    /\ pc[p] = "rtest"
    /\ conslock' = None
    /\ Goto(p, "rsleep")
    /\ UNCHANGED <<txVars, hpc, fifo, thre, rx, inVars, key, echo, readVars>>

\* Mutant: ^D is not saved for the next read().
KeepEof_Never(p) == FALSE

\* ^D after other characters is put back, so that the next read() gets none.
KeepEof(p) == n[p] < target[p]

ReadEof(p) ==
    /\ pc[p] = "rtop" /\ n[p] > 0 /\ r # w /\ At(r) = "eof"
    /\ r' = IF KeepEof(p) THEN r ELSE Plus1(r)
    /\ buf' = Emptied(r, r')
    /\ ReadReturns(p)
    /\ UNCHANGED <<txVars, hpc, fifo, thre, rx, w, e, key, echo, pressed>>

\* A character is copied out, and the call returns after '\n'; or copyout
\* fails, and the call returns without that character.
ReadChar(p) ==
    /\ pc[p] = "rtop" /\ n[p] > 0 /\ r # w /\ At(r) # "eof"
    /\ r' = Plus1(r)
    /\ buf' = Emptied(r, r')
    /\ \/ ReadReturns(p)
       \/ /\ At(r) # "nl"
          /\ n' = [n EXCEPT ![p] = @ - 1]
          /\ UNCHANGED <<pc, conslock, target, killed>>
    /\ UNCHANGED <<txVars, hpc, fifo, thre, rx, w, e, key, echo, pressed>>

\* kill() of a process that reads.
Kill(p) ==
    /\ ~killed[p] /\ pc[p] \in {"rlock", "rtop", "rtest", "rsleep"}
    /\ killed' = [killed EXCEPT ![p] = TRUE]
    /\ Goto(p, IF pc[p] = "rsleep" THEN "rlock" ELSE pc[p])
    /\ UNCHANGED <<txVars, hpc, fifo, thre, rx, inVars, conslock, key, echo, n, target, pressed>>
-----------------------------------------------------------------------------
InRead(p) == ReadEnd(p) \/ ReadTest(p) \/ ReadSleep(p) \/ ReadEof(p) \/ ReadChar(p)

UartOnly == UNCHANGED <<inVars, conslock, key, echo, readVars>>

Handler ==
    \/ IntrEnter /\ UartOnly
    \/ KeyTaken \/ EchoTest \/ EchoSend \/ KeyDone
    \/ IntrStart /\ UartOnly

Next ==
    \/ \E c \in Key : Press(c)
    \/ Handler
    \/ (StartStep \/ Drain) /\ UartOnly
    \/ \E p \in Proc :
         \/ WriteCall(p)
         \/ (PutFull(p) \/ PutChar(p)) /\ UartOnly
         \/ \E len \in 0 .. MaxLen : ReadCall(p, len)
         \/ ReadLock(p) \/ InRead(p) \/ Kill(p)

Spec == Init /\ [][Next]_vars

(***************************************************************************)
(* The 16550 sends what it has; interrupts are taken; who holds a lock     *)
(* goes on.  The handler gets a lock, and finds the transmitter idle, if   *)
(* that is so again and again.                                             *)
(***************************************************************************)
Fairness ==
    /\ WF_vars(Drain /\ UartOnly) /\ WF_vars(StartStep /\ UartOnly)
    /\ SF_vars(Handler)
    /\ \A p \in Proc : WF_vars(InRead(p))

FairSpec == Spec /\ Fairness
-----------------------------------------------------------------------------
TypeOK ==
    /\ pc \in [Proc -> {"idle", "put", "tsleep", "start", "rlock", "rtop", "rtest", "rsleep"}]
    /\ uart_tx_w \in 0 .. TxMax1 - 1 /\ uart_tx_r \in 0 .. TxMax1 - 1
    /\ r \in 0 .. UintMax1 - 1 /\ w \in 0 .. UintMax1 - 1 /\ e \in 0 .. UintMax1 - 1
    /\ buf \in [0 .. INPUT_BUF_SIZE - 1 -> {"none", "x", "nl", "eof"}]
    /\ hpc \in {"out", "rx", "echo", "esend", "tx"} /\ start \in {"no", "test", "send"}
    /\ echo \in Nat /\ fifo \in Nat /\ thre \in BOOLEAN

\* The 16550's transmitter is never given more than it can hold, although
\* the echo and uartstart() test LSR and write THR without a common lock.
TransmitterNotOverrun == fifo <= FIFOSIZE

\* A writer that sleeps has a reason to: nobody works on the transmit ring,
\* and it is full.
SleepingWriterHasReason ==
    txlock = None /\ (\E p \in Proc : pc[p] = "tsleep") => TxFull

\* A writer that sleeps for room in the ring is woken: the interrupt that
\* starts the transmitter again is not lost.
SleepingWriterWakes == \A p \in Proc : pc[p] = "tsleep" ~> pc[p] # "tsleep"

\* A reader sleeps only while no line is complete.
SleepingReaderHasReason ==
    conslock = None /\ (\E p \in Proc : pc[p] = "rsleep") => r = w

\* The input ring never gets stuck: when there is no room for the end of the
\* line being typed, there is something to read.
FullBufferIsReadable == Minus(e, r) = INPUT_BUF_SIZE => w = e

\* The console never gets stuck: consoleread() and uartputc() sleep only for what
\* is not there, and a full input ring has a line for the reader.
ConsoleInv ==
    TypeOK /\ SleepingWriterHasReason /\ SleepingReaderHasReason /\ FullBufferIsReadable

\* ^D is used up only by a read() that returns nothing: after a read() that
\* ^D ended early, the next one says end of file.
EofGivesEmptyRead ==
    [][\A p \in Proc :
         pc[p] = "rtop" /\ r' # r /\ At(r) = "eof" => n[p] = target[p]]_vars

L == INSTANCE LineEditor WITH
        Char <- {"x", "nl", "eof"}, Ends <- {"nl", "eof"}, Capacity <- INPUT_BUF_SIZE,
        pending <- Chars(r, w), line <- Chars(w, e)

\* The ring implements the line editor: editing never reaches an ended line,
\* nothing is lost or handed out twice, also when the indices wrap around.
ImplementsLineEditor == L!EditorSpec
=============================================================================
