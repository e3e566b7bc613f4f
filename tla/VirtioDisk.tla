----------------------------- MODULE VirtioDisk -----------------------------
(***************************************************************************)
(* kernel/virtio_disk.c: requests for one block each, made of three        *)
(* descriptors; the device (external), which finishes them in any order;   *)
(* and the interrupt handler.                                              *)
(*                                                                         *)
(* vdisk_lock is held from one sleep() to the next, so those stretches are *)
(* single steps; the handler takes several, because the device goes on     *)
(* while it runs.  A ring slot is emptied when it is consumed, so that a   *)
(* second read of it would be seen.                                        *)
(***************************************************************************)
EXTENDS Naturals, FiniteSets, FiniteSetsExt

CONSTANTS Proc, Buf, Block, Val,
          NUM,         \* descriptors, and slots of each ring
          IdxMax1,     \* one more than the largest ring index (uint16)
          None

ASSUME DiskAssumption ==
    /\ NUM \in Nat \ {0, 1, 2} /\ IdxMax1 \in Nat \ {0}
    /\ NUM < 3 * IdxMax1                        \* more indices than requests
    /\ IdxMax1 % NUM = 0 \/ NUM % IdxMax1 = 0   \* the slot survives the wrap
    /\ IsFiniteSet(Proc) /\ IsFiniteSet(Buf) /\ Val # {}
    /\ None \notin Nat /\ None \notin Proc \cup Buf \cup Block \cup Val

VARIABLES
    pc, mybuf, wr,              \* of each process: its buffer, and whether it writes it
    idx0,                       \* ... and the head of its chain
    data, blockno, busy,        \* struct buf: data, blockno, disk
    free, next, op, status,     \* descriptors, requests, info[].status
    availRing, availIdx, usedRing, usedIdx, used_idx,
    seen, inflight, irq, platter,   \* the device
    intr                        \* the handler holds vdisk_lock

bufVars    == <<data, blockno>>
descVars   == <<free, next, op, idx0>>
deviceVars == <<seen, inflight, platter, usedRing, usedIdx, irq>>
diskVars   == <<pc, mybuf, wr, bufVars, busy, descVars, status, availRing, availIdx,
                used_idx, deviceVars, intr>>

Desc == 0 .. NUM - 1
NoOp == [b |-> None, sector |-> None, write |-> FALSE]

DiskInit ==
    /\ pc = [p \in Proc |-> "idle"]
    /\ wr = [p \in Proc |-> FALSE]
    /\ idx0 = [p \in Proc |-> None]
    /\ platter = [k \in Block |-> CHOOSE v \in Val : TRUE]
    /\ data = [b \in Buf |-> CHOOSE v \in Val : TRUE]
    /\ blockno = [b \in Buf |-> None] /\ busy = [b \in Buf |-> FALSE]
    /\ free = Desc /\ next = [d \in Desc |-> None]
    /\ op = [d \in Desc |-> NoOp] /\ status = [d \in Desc |-> 0]
    /\ availRing = [k \in Desc |-> None] /\ availIdx = 0 /\ seen = 0
    /\ usedRing = [k \in Desc |-> None] /\ usedIdx = 0 /\ used_idx = 0
    /\ inflight = {} /\ irq = FALSE /\ intr = FALSE

\* wakeup(): those who sleep at "from" on that channel go on at "to".
Woken(from, to, S) ==
    [q \in Proc |-> IF pc[q] = from /\ q \in S THEN to ELSE pc[q]]

WakeDescSleepers == Woken("dsleep", "rw", Proc)

\* alloc_desc() takes the lowest free descriptor; alloc3_desc() three of them.
Lowest(n) == CHOOSE S \in SUBSET free :
    Cardinality(S) = n /\ \A d \in S, e \in free \ S : d < e
-----------------------------------------------------------------------------
\* virtio_disk_rw() up to its first sleep(): the request is handed over ...
Submit(p) ==
    /\ pc[p] = "rw" /\ ~intr /\ Cardinality(free) >= 3
    /\ LET idx == Lowest(3)
           i0  == Min(idx)
           i2  == Max(idx)
           i1  == CHOOSE d \in idx : d \notin {i0, i2}
           b   == mybuf[p]
       IN /\ free' = free \ idx
          /\ next' = [next EXCEPT ![i0] = i1, ![i1] = i2, ![i2] = None]
          /\ op' = [op EXCEPT ![i0] = [b |-> b, sector |-> blockno[b], write |-> wr[p]]]
          /\ status' = [status EXCEPT ![i0] = 255]
          /\ idx0' = [idx0 EXCEPT ![p] = i0]
          /\ busy' = [busy EXCEPT ![b] = TRUE]
          /\ availRing' = [availRing EXCEPT ![availIdx % NUM] = i0]
    /\ availIdx' = (availIdx + 1) % IdxMax1
    /\ pc' = [pc EXCEPT ![p] = "iosleep"]
    /\ UNCHANGED <<mybuf, wr, bufVars, used_idx, deviceVars, intr>>

\* ... or there are too few descriptors: the ones taken are given back, which
\* wakes the others that wait, and the process sleeps.
NoDescriptors(p) ==
    /\ pc[p] = "rw" /\ ~intr /\ Cardinality(free) < 3
    /\ pc' = [(IF free = {} THEN pc ELSE WakeDescSleepers) EXCEPT ![p] = "dsleep"]
    /\ UNCHANGED <<mybuf, wr, bufVars, busy, descVars, status, availRing, availIdx,
                   used_idx, deviceVars, intr>>

\* The loop around sleep(b): not finished yet, ...
IoAgain(p) ==
    /\ pc[p] = "io" /\ ~intr /\ busy[mybuf[p]]
    /\ pc' = [pc EXCEPT ![p] = "iosleep"]
    /\ UNCHANGED <<mybuf, wr, bufVars, busy, descVars, status, availRing, availIdx,
                   used_idx, deviceVars, intr>>

\* Mutant: free_desc() without its wakeup().
FreeChainWakes_Never == pc

FreeChainWakes == WakeDescSleepers

\* free_chain() follows the links that Submit made.
Chain(h) == {h, next[h], next[next[h]]}

\* ... or finished: the chain is freed and virtio_disk_rw() returns.
IoReturn(p) ==
    /\ pc[p] = "io" /\ ~intr /\ ~busy[mybuf[p]]
    /\ LET chain == Chain(idx0[p])
       IN /\ free' = free \cup chain
          /\ next' = [d \in Desc |-> IF d \in chain THEN None ELSE next[d]]
    /\ op' = [op EXCEPT ![idx0[p]] = NoOp]
    /\ idx0' = [idx0 EXCEPT ![p] = None]
    /\ pc' = [FreeChainWakes EXCEPT ![p] = "held"]
    /\ UNCHANGED <<mybuf, wr, bufVars, busy, status, availRing, availIdx, used_idx,
                   deviceVars, intr>>

\* kill() makes a sleeping process runnable; both loops test again.
Kill(p) ==
    /\ \/ pc[p] = "dsleep" /\ pc' = [pc EXCEPT ![p] = "rw"]
       \/ pc[p] = "iosleep" /\ pc' = [pc EXCEPT ![p] = "io"]
    /\ UNCHANGED <<mybuf, wr, bufVars, busy, descVars, status, availRing, availIdx,
                   used_idx, deviceVars, intr>>
-----------------------------------------------------------------------------
(***************************************************************************)
(* The device: it takes requests from the avail ring in order, and         *)
(* finishes them in any order, without errors (an error is a panic).       *)
(***************************************************************************)
DeviceFetch ==
    /\ seen # availIdx
    /\ inflight' = inflight \cup {availRing[seen % NUM]}
    /\ availRing' = [availRing EXCEPT ![seen % NUM] = None]
    /\ seen' = (seen + 1) % IdxMax1
    /\ UNCHANGED <<pc, mybuf, wr, bufVars, busy, descVars, status, availIdx, usedRing,
                   usedIdx, used_idx, irq, platter, intr>>

DeviceDone(h) ==
    /\ h \in inflight
    /\ IF op[h].write
       THEN /\ platter' = [platter EXCEPT ![op[h].sector] = data[op[h].b]]
            /\ UNCHANGED data
       ELSE /\ data' = [data EXCEPT ![op[h].b] = platter[op[h].sector]]
            /\ UNCHANGED platter
    /\ inflight' = inflight \ {h}
    /\ status' = [status EXCEPT ![h] = 0]
    /\ usedRing' = [usedRing EXCEPT ![usedIdx % NUM] = h]
    /\ usedIdx' = (usedIdx + 1) % IdxMax1
    /\ irq' = TRUE
    /\ UNCHANGED <<pc, mybuf, wr, blockno, busy, descVars, availRing, availIdx, seen,
                   used_idx, intr>>
-----------------------------------------------------------------------------
\* virtio_disk_intr(): acknowledge, then one turn of its loop at a time.
IntrEnter ==
    /\ irq /\ ~intr
    /\ irq' = FALSE /\ intr' = TRUE
    /\ UNCHANGED <<pc, mybuf, wr, bufVars, busy, descVars, status, availRing, availIdx,
                   used_idx, seen, inflight, platter, usedRing, usedIdx>>

UsedSlot == used_idx % NUM

\* Mutant: the handler takes one entry, and sets used_idx to the device's index.
IntrEntry_SkipsOthers ==
    /\ intr /\ used_idx # usedIdx
    /\ LET b == op[usedRing[UsedSlot]].b
       IN /\ busy' = [busy EXCEPT ![b] = FALSE]
          /\ pc' = Woken("iosleep", "io", {q \in Proc : mybuf[q] = b})
    /\ usedRing' = [usedRing EXCEPT ![UsedSlot] = None]
    /\ used_idx' = usedIdx
    /\ UNCHANGED <<mybuf, wr, bufVars, descVars, status, availRing, availIdx,
                   seen, inflight, platter, usedIdx, irq, intr>>

IntrEntry ==
    /\ intr /\ used_idx # usedIdx
    /\ LET b == op[usedRing[UsedSlot]].b
       IN /\ busy' = [busy EXCEPT ![b] = FALSE]
          /\ pc' = Woken("iosleep", "io", {q \in Proc : mybuf[q] = b})
    /\ usedRing' = [usedRing EXCEPT ![UsedSlot] = None]
    /\ used_idx' = (used_idx + 1) % IdxMax1
    /\ UNCHANGED <<mybuf, wr, bufVars, descVars, status, availRing, availIdx,
                   seen, inflight, platter, usedIdx, irq, intr>>

IntrExit ==
    /\ intr /\ used_idx = usedIdx
    /\ intr' = FALSE
    /\ UNCHANGED <<pc, mybuf, wr, bufVars, busy, descVars, status, availRing, availIdx,
                   used_idx, deviceVars>>

Device == DeviceFetch \/ \E h \in Desc : DeviceDone(h)
Intr   == IntrEnter \/ IntrEntry \/ IntrExit
-----------------------------------------------------------------------------
(***************************************************************************)
(* The driver by itself.  Its callers, bread() and bwrite(), pass a buffer *)
(* whose sleep lock they hold.                                             *)
(***************************************************************************)
Call(p, k) ==
    /\ pc[p] = "idle"
    /\ blockno' = [blockno EXCEPT ![mybuf[p]] = k]
    /\ \E w \in BOOLEAN : wr' = [wr EXCEPT ![p] = w]
    /\ pc' = [pc EXCEPT ![p] = "rw"]
    /\ UNCHANGED <<mybuf, data, busy, descVars, status, availRing, availIdx, used_idx,
                   deviceVars, intr>>

Return(p) ==
    /\ pc[p] = "held"
    /\ pc' = [pc EXCEPT ![p] = "idle"]
    /\ wr' = [wr EXCEPT ![p] = FALSE]
    /\ UNCHANGED <<mybuf, bufVars, busy, descVars, status, availRing, availIdx, used_idx,
                   deviceVars, intr>>

RwStep(p) == Submit(p) \/ NoDescriptors(p) \/ IoAgain(p) \/ IoReturn(p)

DiskNext ==
    \/ Device \/ Intr
    \/ \E p \in Proc :
         \/ \E k \in Block : Call(p, k)
         \/ RwStep(p) \/ Return(p) \/ Kill(p)

(***************************************************************************)
(* The device finishes what it was given, interrupts are taken, and a      *)
(* process gets vdisk_lock, which the handler gives back after a few       *)
(* instructions.                                                           *)
(***************************************************************************)
DiskFairness ==
    /\ WF_diskVars(DeviceFetch)
    /\ \A h \in Desc : WF_diskVars(DeviceDone(h))
    /\ WF_diskVars(Intr)
    /\ \A p \in Proc : SF_diskVars(RwStep(p))

\* Every caller has a buffer of its own.
CallersInit ==
    DiskInit /\ mybuf = CHOOSE f \in [Proc -> Buf] : \A p, q \in Proc : p # q => f[p] # f[q]

DiskSpec == CallersInit /\ [][DiskNext]_diskVars /\ DiskFairness

\* No descriptor is lost or freed twice ("free_desc 2"): each is free or in
\* the chain of exactly one request.
DescriptorsConserved ==
    LET users == {p \in Proc : idx0[p] # None}
    IN /\ free \cup UNION {Chain(idx0[p]) : p \in users} = Desc
       /\ \A p \in users : Chain(idx0[p]) \cap free = {}
       /\ \A p, q \in users : p # q => Chain(idx0[p]) \cap Chain(idx0[q]) = {}

\* The handler only meets entries of the used ring that the device has
\* written and nobody has consumed, for requests whose status is 0 and whose
\* buffer is recorded, also when the ring indices wrap around.
InterruptIsForARequest ==
    intr /\ used_idx # usedIdx =>
        LET h == usedRing[UsedSlot]
        IN h # None /\ status[h] = 0 /\ op[h].b # None /\ busy[op[h].b]

\* A process that sleeps for descriptors has too few of them: whoever frees a
\* chain, or gives back a part of one, wakes the others.
DescSleepersHaveReason ==
    \A p \in Proc : pc[p] = "dsleep" => Cardinality(free) < 3

\* The driver's rings and descriptors: none is lost, nobody sleeps for one that
\* is there, and the handler of virtio_disk_intr() finds only real completions.
DriverInv == DescriptorsConserved /\ DescSleepersHaveReason /\ InterruptIsForARequest

\* A request that was handed to the device returns, whatever order the device
\* finishes requests in and whenever interrupts and kills come.
RequestReturns == \A p \in Proc : pc[p] = "iosleep" ~> pc[p] = "held"
=============================================================================
