---------------------------- MODULE BufferCache -----------------------------
(***************************************************************************)
(* kernel/bio.c and kernel/sleeplock.c on top of the disk driver.          *)
(*                                                                         *)
(* A process reads a block, changes it or not, and lets go of it.  It      *)
(* changes a block the way the code does: through log_write(), which pins  *)
(* the buffer, or by bwrite() at once; a pinned buffer is written and      *)
(* unpinned later, as install_trans() does.  bcache.lock and the lock      *)
(* inside a sleep lock are held for single steps.                          *)
(***************************************************************************)
EXTENDS VirtioDisk, SequencesExt

VARIABLES
    valid, refcnt, pinned,    \* struct buf; pinned: bpin() and not yet bunpin()
    lru,                      \* bcache.head's list, most recently used first
    owner,                    \* the sleep lock of a buffer: its holder's pid
    latest                    \* history: what was last put into each block

cacheVars == <<valid, refcnt, pinned, lru, owner, latest>>
vars      == <<diskVars, cacheVars>>

Init ==
    /\ DiskInit /\ mybuf = [p \in Proc |-> None]
    /\ valid = [b \in Buf |-> FALSE] /\ refcnt = [b \in Buf |-> 0] /\ pinned = {}
    /\ lru = SetToSeq(Buf)
    /\ owner = [b \in Buf |-> None]
    /\ latest = platter

\* The buffers that bget() finds for block k.
Cached(k) == {b \in Buf : blockno[b] = k}
Goto(p, to) == pc' = [pc EXCEPT ![p] = to]

\* The last unused buffer of the list.
Unused == {j \in DOMAIN lru : refcnt[lru[j]] = 0}
Victim == lru[Max(Unused)]

\* Only pc, buffer fields and locks change in the cache's own steps.
DriverUnchanged ==
    UNCHANGED <<busy, descVars, status, availRing, availIdx, used_idx, deviceVars, intr>>
-----------------------------------------------------------------------------
\* bget() under bcache.lock, when the block is cached ...
BgetHit(p, k) ==
    /\ pc[p] = "idle"
    /\ \E b \in Cached(k) :
         /\ refcnt' = [refcnt EXCEPT ![b] = @ + 1]
         /\ mybuf' = [mybuf EXCEPT ![p] = b]
    /\ wr' = [wr EXCEPT ![p] = FALSE]
    /\ Goto(p, "lock")
    /\ DriverUnchanged /\ UNCHANGED <<bufVars, valid, pinned, lru, owner, latest>>

\* Mutant: the recycled buffer keeps its valid flag.
Recycled_StillValid(b) == valid

Recycled(b) == [valid EXCEPT ![b] = FALSE]

\* ... and when it is not.
BgetMiss(p, k) ==
    /\ pc[p] = "idle" /\ Cached(k) = {} /\ Unused # {}
    /\ blockno' = [blockno EXCEPT ![Victim] = k]
    /\ valid'   = Recycled(Victim)
    /\ refcnt'  = [refcnt EXCEPT ![Victim] = 1]
    /\ mybuf'   = [mybuf EXCEPT ![p] = Victim]
    /\ wr' = [wr EXCEPT ![p] = FALSE]
    /\ Goto(p, "lock")
    /\ DriverUnchanged /\ UNCHANGED <<data, pinned, lru, owner, latest>>

LockTaken(p) == owner[mybuf[p]] # None

\* acquiresleep(): one turn of its loop.
LockSleep(p) ==
    /\ pc[p] = "lock" /\ LockTaken(p)
    /\ Goto(p, "lksleep")
    /\ DriverUnchanged /\ UNCHANGED <<mybuf, wr, bufVars, cacheVars>>

\* The lock is free; bread() goes to the disk if the buffer is not valid.
LockGet(p) ==
    /\ pc[p] = "lock" /\ ~LockTaken(p)
    /\ owner' = [owner EXCEPT ![mybuf[p]] = p]
    /\ Goto(p, IF valid[mybuf[p]] THEN "held" ELSE "rw")
    /\ DriverUnchanged /\ UNCHANGED <<mybuf, wr, bufVars, valid, refcnt, pinned, lru, latest>>

\* virtio_disk_rw() returns to bread() or to bwrite().
DiskReturn(p) ==
    /\ IoReturn(p)
    /\ valid' = [valid EXCEPT ![mybuf[p]] = TRUE]
    /\ UNCHANGED <<refcnt, pinned, lru, owner, latest>>

\* The holder changes the data.
Change(p, v) ==
    /\ pc[p] = "held"
    /\ data'   = [data EXCEPT ![mybuf[p]] = v]
    /\ latest' = [latest EXCEPT ![blockno[mybuf[p]]] = v]

Pins(b) == b \notin pinned

\* ... and calls log_write(), which pins the buffer once.
ChangeAndLog(p, v) ==
    /\ Change(p, v)
    /\ wr' = [wr EXCEPT ![p] = FALSE]
    /\ LET b == mybuf[p]
       IN IF Pins(b)
          THEN pinned' = pinned \cup {b} /\ refcnt' = [refcnt EXCEPT ![b] = @ + 1]
          ELSE UNCHANGED <<pinned, refcnt>>
    /\ DriverUnchanged /\ UNCHANGED <<pc, mybuf, blockno, valid, lru, owner>>

\* ... or calls bwrite().
ChangeAndWrite(p, v) ==
    /\ Change(p, v)
    /\ wr' = [wr EXCEPT ![p] = TRUE]
    /\ Goto(p, "rw")
    /\ DriverUnchanged /\ UNCHANGED <<mybuf, blockno, valid, refcnt, pinned, lru, owner>>

\* install_trans() writes a pinned buffer ...
Install(p) ==
    /\ pc[p] = "held" /\ mybuf[p] \in pinned /\ ~wr[p]
    /\ wr' = [wr EXCEPT ![p] = TRUE]
    /\ Goto(p, "rw")
    /\ DriverUnchanged /\ UNCHANGED <<mybuf, bufVars, cacheVars>>

\* ... and unpins it: bunpin().
Bunpin(p) ==
    /\ pc[p] = "held" /\ mybuf[p] \in pinned /\ wr[p]
    /\ pinned' = pinned \ {mybuf[p]}
    /\ refcnt' = [refcnt EXCEPT ![mybuf[p]] = @ - 1]
    /\ DriverUnchanged /\ UNCHANGED <<pc, mybuf, wr, bufVars, valid, lru, owner, latest>>

\* Mutant: releasesleep() wakes nobody.
LockWaiters_None(b) == pc

LockWaiters(b) == Woken("lksleep", "lock", {q \in Proc : mybuf[q] = b})

\* brelse(): the sleep lock first, ...
Releasesleep(p) ==
    /\ pc[p] = "held"
    /\ owner' = [owner EXCEPT ![mybuf[p]] = None]
    /\ pc' = [LockWaiters(mybuf[p]) EXCEPT ![p] = "rel"]
    /\ DriverUnchanged /\ UNCHANGED <<mybuf, wr, bufVars, valid, refcnt, pinned, lru, latest>>

Dropped(b) == refcnt[b] - 1

\* brelse() unlinks the buffer and puts it behind bcache.head.
MovedToFront(b) == <<b>> \o RemoveAt(lru, CHOOSE j \in DOMAIN lru : lru[j] = b)

\* ... then the reference; an unused buffer goes to the front of the list.
Brelse(p) ==
    /\ pc[p] = "rel"
    /\ LET b == mybuf[p]
       IN /\ refcnt' = [refcnt EXCEPT ![b] = Dropped(b)]
          /\ lru' = IF refcnt'[b] = 0 THEN MovedToFront(b) ELSE lru
    /\ mybuf' = [mybuf EXCEPT ![p] = None]
    /\ wr' = [wr EXCEPT ![p] = FALSE]
    /\ Goto(p, "idle")
    /\ DriverUnchanged /\ UNCHANGED <<bufVars, valid, pinned, owner, latest>>

KillLockSleeper(p) ==
    /\ pc[p] = "lksleep" /\ Goto(p, "lock")
    /\ DriverUnchanged /\ UNCHANGED <<mybuf, wr, bufVars, cacheVars>>
-----------------------------------------------------------------------------
DriverStep(p) ==
    \/ (Submit(p) \/ NoDescriptors(p) \/ IoAgain(p)) /\ UNCHANGED cacheVars
    \/ DiskReturn(p)

Next ==
    \/ (Device \/ Intr) /\ UNCHANGED cacheVars
    \/ \E p \in Proc :
         \/ DriverStep(p) \/ LockSleep(p) \/ LockGet(p)
         \/ \E k \in Block : BgetHit(p, k) \/ BgetMiss(p, k)
         \/ \E v \in Val : ChangeAndLog(p, v) \/ ChangeAndWrite(p, v)
         \/ Install(p) \/ Bunpin(p) \/ Releasesleep(p) \/ Brelse(p)
         \/ Kill(p) /\ UNCHANGED cacheVars
         \/ KillLockSleeper(p)

Spec == Init /\ [][Next]_vars

-----------------------------------------------------------------------------
TypeOK ==
    /\ pc \in [Proc -> {"idle", "lock", "lksleep", "rw", "dsleep", "iosleep", "io",
                        "held", "rel"}]
    /\ mybuf \in [Proc -> Buf \cup {None}] /\ wr \in [Proc -> BOOLEAN]
    /\ data \in [Buf -> Val] /\ blockno \in [Buf -> Block \cup {None}]
    /\ busy \in [Buf -> BOOLEAN] /\ valid \in [Buf -> BOOLEAN]
    /\ refcnt \in [Buf -> Nat] /\ pinned \subseteq Buf /\ owner \in [Buf -> Proc \cup {None}]
    /\ free \subseteq Desc /\ inflight \subseteq Desc
    /\ ToSet(lru) = Buf /\ Len(lru) = Cardinality(Buf)

\* No two buffers cache the same block: bget() looks and recycles under one
\* lock, and nothing else changes a buffer's block.
OneBufferPerBlock ==
    \A b, c \in Buf : b # c => blockno[b] = None \/ blockno[b] # blockno[c]

\* A buffer's refcnt counts exactly the processes between bget() and brelse(),
\* and one for its pin; the lock's holder is one of them.
RefcntExact ==
    \A b \in Buf :
        /\ refcnt[b] = Cardinality({p \in Proc : mybuf[p] = b})
                         + Cardinality(pinned \cap {b})
        /\ owner[b] # None => mybuf[owner[b]] = b

\* A process that waits for a buffer's sleep lock finds it taken: brelse()
\* wakes every waiter, and each tests again.
LockSleepersHaveReason ==
    \A p \in Proc : pc[p] = "lksleep" => owner[mybuf[p]] # None

\* The cache is consistent whoever runs between bget(), acquiresleep() and
\* brelse(): one buffer for a block, exact counts, no forgotten waiter.
CacheInv == TypeOK /\ OneBufferPerBlock /\ RefcntExact /\ LockSleepersHaveReason

\* A process has the block between bread() and brelse().
Holds(p) == pc[p] = "held" \/ (wr[p] /\ pc[p] \in {"rw", "dsleep", "io", "iosleep"})

HeldBlock == [p \in Proc |-> IF Holds(p) THEN blockno[mybuf[p]] ELSE None]
HeldData  == [p \in Proc |-> IF Holds(p) THEN data[mybuf[p]] ELSE None]

B == INSTANCE BlockStore WITH
        store <- latest,
        held  <- HeldBlock,
        view  <- HeldData

\* The cache implements the block store: exclusive access, and always the
\* contents written last, however blocks are evicted and read again.
ImplementsBlockStore == B!StoreSpec
=============================================================================
