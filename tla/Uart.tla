-------------------------------- MODULE Uart --------------------------------
(***************************************************************************)
(* kernel/uart.c: the transmit ring between write() and the 16550 (which   *)
(* is external), and the two ways characters get to it: uartstart(), under *)
(* uart_tx_lock, and uartputc_sync(), under no lock of the uart's own.     *)
(* The characters themselves are left out.                                 *)
(***************************************************************************)
EXTENDS Naturals, Sequences, FiniteSets

CONSTANTS
    Proc, None,
    Key,               \* what can be typed
    UART_TX_BUF_SIZE,
    TxMax1,            \* one more than the largest uart_tx_w
    FIFOSIZE           \* of the 16550's transmitter

ASSUME UartAssumption ==
    /\ UART_TX_BUF_SIZE \in Nat \ {0} /\ TxMax1 \in Nat
    /\ TxMax1 % UART_TX_BUF_SIZE = 0 /\ TxMax1 > UART_TX_BUF_SIZE
    /\ None \notin Proc /\ "intr" \notin Proc \cup {None}
    \* uartinit() enables the FIFO, which holds 16 characters.
    /\ FIFOSIZE \in Nat /\ FIFOSIZE >= 2

VARIABLES
    pc,                     \* of each process
    uart_tx_w, uart_tx_r,
    txlock,                 \* uart_tx_lock: a process, "intr" or None
    start,                  \* uartstart(): "no", "test" or "send"
    hpc,                    \* uartintr()
    fifo, thre, rx          \* the 16550: characters in its transmitter, its
                            \* "transmitter empty" interrupt, what it received

txVars   == <<uart_tx_w, uart_tx_r, txlock, start>>
uartVars == <<pc, txVars, hpc, fifo, thre, rx>>

UartInit ==
    /\ pc = [p \in Proc |-> "idle"]
    /\ uart_tx_w = 0 /\ uart_tx_r = 0 /\ txlock = None /\ start = "no"
    /\ hpc = "out"
    /\ fifo = 0 /\ thre = FALSE /\ rx = <<>>

TxFull  == uart_tx_w = (uart_tx_r + UART_TX_BUF_SIZE) % TxMax1
TxEmpty == uart_tx_w = uart_tx_r

\* LSR_TX_IDLE: the transmitter takes another character.
TxIdle == fifo = 0

\* A character is written to THR, which also withdraws the interrupt.
WriteTHR == fifo' = fifo + 1 /\ thre' = FALSE
-----------------------------------------------------------------------------
(***************************************************************************)
(* uartputc(): sleep while the ring is full, else store and uartstart().   *)
(***************************************************************************)
PutFull(p) ==
    /\ pc[p] = "put" /\ txlock = None /\ TxFull
    /\ pc' = [pc EXCEPT ![p] = "tsleep"]
    /\ UNCHANGED <<txVars, hpc, fifo, thre, rx>>

PutChar(p) ==
    /\ pc[p] = "put" /\ txlock = None /\ ~TxFull
    /\ uart_tx_w' = (uart_tx_w + 1) % TxMax1
    /\ txlock' = p /\ start' = "test"
    /\ pc' = [pc EXCEPT ![p] = "start"]
    /\ UNCHANGED <<uart_tx_r, hpc, fifo, thre, rx>>

(***************************************************************************)
(* uartstart(), for the holder of uart_tx_lock.                            *)
(***************************************************************************)
\* It returns, and its caller releases the lock: the ring is empty (it then
\* reads ISR, which withdraws the interrupt), or the transmitter is busy.
StartReturn ==
    /\ start = "test" /\ (TxEmpty \/ ~TxIdle)
    /\ thre' = IF TxEmpty THEN FALSE ELSE thre
    /\ start' = "no" /\ txlock' = None
    /\ IF txlock = "intr"
       THEN hpc' = "out" /\ UNCHANGED pc
       ELSE pc' = [pc EXCEPT ![txlock] = "idle"] /\ UNCHANGED hpc
    /\ UNCHANGED <<uart_tx_w, uart_tx_r, fifo, rx>>

TxSleepers == [q \in Proc |-> IF pc[q] = "tsleep" THEN "put" ELSE pc[q]]

StartTake ==
    /\ start = "test" /\ ~TxEmpty /\ TxIdle
    /\ uart_tx_r' = (uart_tx_r + 1) % TxMax1
    /\ pc' = TxSleepers
    /\ start' = "send"
    /\ UNCHANGED <<uart_tx_w, txlock, hpc, fifo, thre, rx>>

StartSend ==
    /\ start = "send"
    /\ WriteTHR
    /\ start' = "test"
    /\ UNCHANGED <<pc, uart_tx_w, uart_tx_r, txlock, hpc, rx>>

StartStep == StartReturn \/ StartTake \/ StartSend
-----------------------------------------------------------------------------
(***************************************************************************)
(* uartintr(): the received characters go to consoleintr() one by one (see *)
(* Console), then uartstart().                                             *)
(***************************************************************************)
IntrEnter ==
    /\ hpc = "out" /\ (thre \/ rx # <<>>)
    /\ hpc' = "rx"
    /\ UNCHANGED <<pc, txVars, fifo, thre, rx>>

\* Mutant: the handler does not look at the transmit ring.
IntrTx_Skip == hpc' = "out" /\ UNCHANGED <<txlock, start>>

IntrTx == txlock = None /\ txlock' = "intr" /\ start' = "test" /\ hpc' = "tx"

IntrStart ==
    /\ hpc = "rx" /\ rx = <<>>
    /\ IntrTx
    /\ UNCHANGED <<pc, uart_tx_w, uart_tx_r, fifo, thre, rx>>

\* The 16550 sends a character; it interrupts when it has no more.
Drain ==
    /\ fifo > 0
    /\ fifo' = fifo - 1
    /\ thre' = (fifo = 1 \/ thre)
    /\ UNCHANGED <<pc, txVars, hpc, rx>>
=============================================================================
