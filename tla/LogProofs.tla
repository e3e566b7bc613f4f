----------------------------- MODULE LogProofs -----------------------------
(***************************************************************************)
(* Proofs about Log, for any number of processes and blocks and any sizes  *)
(* of the log: its book-keeping, the space begin_op() reserves, and that   *)
(* the log implements AtomicDisk.                                          *)
(***************************************************************************)
EXTENDS Log, FiniteSetTheorems, TLAPS

\* A call writes fewer blocks than begin_op() reserves: the header takes one
\* of the LOGSIZE blocks of the log.
CallsFit == OpBlocks < MAXOPBLOCKS

Committer == {"writelog", "install", "finish"}

\* The calls that log.outstanding counts; a panic leaves the count alone.
Ops == {p \in Proc : pc[p] \in {"op", "panic"}}

At(l) == \E p \in Proc : pc[p] = l

\* Memory after a crash, until initlog() has erased the header.
BootInv ==
    IF boot = "up" THEN \A p \in Proc : pc[p] # "down"
    ELSE /\ \A p \in Proc : pc[p] = "down" /\ wrote[p] = {}
         /\ \A b \in Block : pin[b] = 0
         /\ outstanding = 0 /\ ~committing
         /\ boot = "head" => lh = <<>>
         /\ boot = "install" => lh = head

\* log.committing is set while one process commits, with no call in progress.
CommitInv ==
    /\ committing <=> \E p \in Proc : pc[p] \in Committer
    /\ \A p, q \in Proc : pc[p] \in Committer /\ pc[q] \in Committer => p = q
    /\ committing => outstanding = 0

\* log.outstanding counts the calls in progress.
CountInv ==
    /\ IsFiniteSet(Ops) /\ outstanding = Cardinality(Ops)
    /\ \A p \in Proc : wrote[p] # {} => p \in Ops

\* The log, in memory and on disk, lists no block twice and fits the disk.
Listing(s) ==
    /\ Len(s) <= NLog - 1
    /\ \A i, j \in DOMAIN s : s[i] = s[j] => i = j

\* The header on disk lists a transaction from its commit to its end.
HeadInv ==
    boot = "up" => head = IF At("install") THEN lh ELSE <<>>

\* The log is empty between transactions.
EmptyInv ==
    boot = "up" /\ outstanding = 0 /\ ~At("writelog") /\ ~At("install")
        => lh = <<>>

\* The loops over the log's blocks.
TailInv ==
    boot = "install" \/ At("writelog") \/ At("install")
        => tail \in 1 .. Len(lh) + 1

\* A block is pinned once, from its first log_write() to its installation.
PinInv ==
    boot = "up" => \A b \in Block :
        pin[b] = IF \E i \in DOMAIN lh : lh[i] = b /\ (At("install") => i >= tail)
                 THEN 1 ELSE 0

\* The inductive invariant of the book-keeping.
BookInv ==
    /\ TypeOK /\ BootInv /\ CommitInv /\ CountInv
    /\ Listing(lh) /\ Listing(head) /\ HeadInv /\ EmptyInv /\ TailInv /\ PinInv
    /\ SleeperHasWaker

\* The blocks that calls in progress may still add to the log.
Room == {x \in Ops \X (1 .. OpBlocks) : x[2] > Cardinality(wrote[x[1]])}

\* With them, the transaction fits the log.
SpaceInv ==
    /\ \A p \in Proc : IsFiniteSet(wrote[p])
    /\ boot = "up" => \A p \in Proc : wrote[p] \subseteq {lh[i] : i \in DOMAIN lh}
    /\ Len(lh) + Cardinality(Room) <= LOGSIZE - 2 \/ boot # "up"

\* A buffer that is not pinned agrees with its home block; a pinned one stays.
CleanInv == \A b \in Block : pin[b] = 0 => cache[b] \in {Absent, disk[b]}
DirtyInv == \A b \in Block : pin[b] > 0 => cache[b] # Absent

\* write_log() has copied the blocks below tail.
LoggedInv == At("writelog") => \A i \in DOMAIN lh : i < tail => logblk[i] = cache[lh[i]]

\* install_trans() has copied the blocks below tail; the others wait, pinned.
InstalledInv ==
    boot = "install" \/ At("install") =>
        \A i \in DOMAIN lh : i < tail => disk[lh[i]] = logblk[i]
WaitingInv ==
    At("install") => \A i \in DOMAIN lh : i >= tail => logblk[i] = cache[lh[i]]

\* The cache, the log and the home blocks agree as far as each has been
\* written.
DataInv == CleanInv /\ DirtyInv /\ LoggedInv /\ InstalledInv /\ WaitingInv
-----------------------------------------------------------------------------
\* What the provers need to know of a sequence.
LEMMA SeqFacts ==
    ASSUME NEW S, NEW s \in Seq(S)
    PROVE  /\ Len(s) \in Nat /\ DOMAIN s = 1 .. Len(s)
           /\ \A i \in 1 .. Len(s) : s[i] \in S
           /\ s = <<>> <=> Len(s) = 0
           /\ \A e \in S : /\ Append(s, e) \in Seq(S)
                           /\ Len(Append(s, e)) = Len(s) + 1
                           /\ DOMAIN Append(s, e) = 1 .. Len(s) + 1
                           /\ \A i \in 1 .. Len(s) : Append(s, e)[i] = s[i]
                           /\ Append(s, e)[Len(s) + 1] = e
  OBVIOUS

\* A loop index inside the log is the number of a log block.
LEMMA LogTypes ==
    ASSUME BookInv
    PROVE  /\ Len(lh) \in Nat /\ DOMAIN lh = 1 .. Len(lh)
           /\ \A i \in 1 .. Len(lh) : lh[i] \in Block /\ logblk[i] \in Val
           /\ lh = <<>> <=> Len(lh) = 0
           /\ Len(head) \in Nat /\ DOMAIN head = 1 .. Len(head)
           /\ \A i \in 1 .. Len(head) : head[i] \in Block /\ logblk[i] \in Val
           /\ head = <<>> <=> Len(head) = 0
           /\ <<>> \in Seq(Block) /\ Len(<<>>) = 0 /\ DOMAIN <<>> = {}
  BY LogAssumption, SeqFacts DEF BookInv, TypeOK, Listing

\* While a process is in a call, nobody commits.
LEMMA InCall ==
    ASSUME BookInv, NEW p \in Proc, pc[p] = "op"
    PROVE  /\ boot = "up" /\ outstanding \in Nat /\ outstanding > 0 /\ ~committing
           /\ \A l \in Committer : ~At(l)
<1>1. boot = "up"
  BY DEF BookInv, BootInv
<1>2. Ops # {} /\ IsFiniteSet(Ops) /\ outstanding = Cardinality(Ops)
  BY DEF BookInv, CountInv, Ops
<1>3. outstanding \in Nat /\ outstanding > 0
  BY <1>2, FS_EmptySet, FS_CardinalityType
<1> QED BY <1>1, <1>3 DEF BookInv, CommitInv, At

\* While a process commits, nobody is in a call and nobody else commits.
LEMMA InCommit ==
    ASSUME BookInv, NEW p \in Proc, pc[p] \in Committer
    PROVE  /\ boot = "up" /\ outstanding = 0 /\ committing /\ Ops = {}
           /\ \A l \in Committer : At(l) <=> pc[p] = l
<1>1. boot = "up"
  BY DEF BookInv, BootInv, Committer
<1>2. committing /\ outstanding = 0 /\ \A l \in Committer : At(l) <=> pc[p] = l
  BY DEF BookInv, CommitInv, At
<1>3. Ops = {}
  BY <1>2, FS_EmptySet DEF BookInv, CountInv
<1> QED BY <1>1, <1>2, <1>3

\* RecoverHead preserves the book-keeping.
LEMMA RecoverHeadBook ==
    ASSUME BookInv, RecoverHead
    PROVE  BookInv'
<1>1. TypeOK'
  BY LogAssumption, LogTypes DEF BookInv, TypeOK, PC, ondisk, RecoverHead
<1>2. BootInv'
  BY LogAssumption, LogTypes DEF BookInv, TypeOK, BootInv, PC, ondisk,
     RecoverHead
<1>3. CommitInv'
  BY LogAssumption, LogTypes DEF BookInv, TypeOK, CommitInv, Committer, ondisk,
     RecoverHead
<1>4. CountInv'
  BY LogAssumption, LogTypes DEF BookInv, TypeOK, CountInv, Ops, ondisk,
     RecoverHead
<1>5. Listing(lh)'
  BY LogAssumption, LogTypes DEF BookInv, TypeOK, Listing, ondisk, RecoverHead
<1>6. Listing(head)'
  BY LogAssumption, LogTypes DEF BookInv, TypeOK, Listing, ondisk, RecoverHead
<1>7. HeadInv'
  BY LogAssumption, LogTypes DEF BookInv, TypeOK, HeadInv, At, ondisk,
     RecoverHead
<1>8. EmptyInv'
  BY LogAssumption, LogTypes DEF BookInv, TypeOK, EmptyInv, At, ondisk,
     RecoverHead
<1>9. TailInv'
  BY LogAssumption, LogTypes DEF BookInv, TypeOK, TailInv, At, ondisk,
     RecoverHead
<1>10. PinInv'
  BY LogAssumption, LogTypes DEF BookInv, TypeOK, PinInv, At, ondisk,
     RecoverHead
<1>11. SleeperHasWaker'
  BY LogAssumption, LogTypes DEF BookInv, TypeOK, SleeperHasWaker, ondisk,
     RecoverHead
<1> QED BY <1>1, <1>2, <1>3, <1>4, <1>5, <1>6, <1>7, <1>8, <1>9, <1>10, <1>11
   DEF BookInv

\* RecoverInstall preserves the book-keeping.
LEMMA RecoverInstallBook ==
    ASSUME BookInv, RecoverInstall
    PROVE  BookInv'
<1>1. TypeOK'
  BY LogAssumption, LogTypes DEF BookInv, TypeOK, PC, TailInv, Listing, ondisk,
     RecoverInstall
<1>2. BootInv'
  BY LogAssumption, LogTypes DEF BookInv, TypeOK, BootInv, PC, ondisk,
     RecoverInstall
<1>3. CommitInv'
  BY LogAssumption, LogTypes DEF BookInv, TypeOK, CommitInv, Committer, ondisk,
     RecoverInstall
<1>4. CountInv'
  BY LogAssumption, LogTypes DEF BookInv, TypeOK, CountInv, Ops, ondisk,
     RecoverInstall
<1>5. Listing(lh)'
  BY LogAssumption, LogTypes DEF BookInv, TypeOK, Listing, ondisk,
     RecoverInstall
<1>6. Listing(head)'
  BY LogAssumption, LogTypes DEF BookInv, TypeOK, Listing, ondisk,
     RecoverInstall
<1>7. HeadInv'
  BY LogAssumption, LogTypes DEF BookInv, TypeOK, HeadInv, At, ondisk,
     RecoverInstall
<1>8. EmptyInv'
  BY LogAssumption, LogTypes DEF BookInv, TypeOK, EmptyInv, At, ondisk,
     RecoverInstall
<1>9. TailInv'
  BY LogAssumption, LogTypes DEF BookInv, TypeOK, TailInv, At, ondisk,
     RecoverInstall
<1>10. PinInv'
  BY LogAssumption, LogTypes DEF BookInv, TypeOK, PinInv, At, ondisk,
     RecoverInstall
<1>11. SleeperHasWaker'
  BY LogAssumption, LogTypes DEF BookInv, TypeOK, SleeperHasWaker, ondisk,
     RecoverInstall
<1> QED BY <1>1, <1>2, <1>3, <1>4, <1>5, <1>6, <1>7, <1>8, <1>9, <1>10, <1>11
   DEF BookInv

\* RecoverClear preserves the book-keeping.
LEMMA RecoverClearBook ==
    ASSUME BookInv, RecoverClear
    PROVE  BookInv'
<1>1. TypeOK'
  BY LogAssumption, LogTypes DEF BookInv, TypeOK, PC, ondisk, RecoverClear
<1>2. BootInv'
  BY LogAssumption, LogTypes DEF BookInv, TypeOK, BootInv, PC, ondisk,
     RecoverClear
<1>3. CommitInv'
  BY LogAssumption, LogTypes DEF BookInv, TypeOK, CommitInv, Committer,
     BootInv, ondisk, RecoverClear
<1>4. CountInv'
  <2>1. Ops = {} /\ Ops' = {}
    BY DEF BookInv, TypeOK, BootInv, Ops, RecoverClear
  <2> QED BY <2>1 DEF BookInv, BootInv, CountInv, RecoverClear
<1>5. Listing(lh)'
  BY LogAssumption, LogTypes DEF BookInv, TypeOK, Listing, ondisk, RecoverClear
<1>6. Listing(head)'
  BY LogAssumption, LogTypes DEF BookInv, TypeOK, Listing, ondisk, RecoverClear
<1>7. HeadInv'
  BY LogAssumption, LogTypes DEF BookInv, TypeOK, HeadInv, At, ondisk,
     RecoverClear
<1>8. EmptyInv'
  BY LogAssumption, LogTypes DEF BookInv, TypeOK, EmptyInv, At, ondisk,
     RecoverClear
<1>9. TailInv'
  BY LogAssumption, LogTypes DEF BookInv, TypeOK, TailInv, At, ondisk,
     RecoverClear
<1>10. PinInv'
  BY LogAssumption, LogTypes DEF BookInv, TypeOK, PinInv, At, BootInv, ondisk,
     RecoverClear
<1>11. SleeperHasWaker'
  BY LogAssumption, LogTypes DEF BookInv, TypeOK, SleeperHasWaker, ondisk,
     RecoverClear
<1> QED BY <1>1, <1>2, <1>3, <1>4, <1>5, <1>6, <1>7, <1>8, <1>9, <1>10, <1>11
   DEF BookInv

\* BeginOpSleep preserves the book-keeping.
LEMMA BeginOpSleepBook ==
    ASSUME BookInv, NEW p \in Proc, BeginOpSleep(p)
    PROVE  BookInv'
<1>1. TypeOK'
  BY LogAssumption, LogTypes DEF BookInv, TypeOK, PC, ondisk, BeginOpSleep,
     MustWait, Goto
<1>2. BootInv'
  BY LogAssumption, LogTypes DEF BookInv, TypeOK, BootInv, PC, ondisk,
     BeginOpSleep, MustWait, Goto
<1>3. CommitInv'
  BY LogAssumption, LogTypes DEF BookInv, TypeOK, CommitInv, Committer, ondisk,
     BeginOpSleep, MustWait, Goto
<1>4. CountInv'
  BY LogAssumption, LogTypes DEF BookInv, TypeOK, CountInv, Ops, ondisk,
     BeginOpSleep, MustWait, Goto
<1>5. Listing(lh)'
  BY LogAssumption, LogTypes DEF BookInv, TypeOK, Listing, ondisk,
     BeginOpSleep, MustWait, Goto
<1>6. Listing(head)'
  BY LogAssumption, LogTypes DEF BookInv, TypeOK, Listing, ondisk,
     BeginOpSleep, MustWait, Goto
<1>7. HeadInv'
  BY LogAssumption, LogTypes DEF BookInv, TypeOK, HeadInv, At, ondisk,
     BeginOpSleep, MustWait, Goto
<1>8. EmptyInv'
  BY LogAssumption, LogTypes DEF BookInv, TypeOK, EmptyInv, At, ondisk,
     BeginOpSleep, MustWait, Goto
<1>9. TailInv'
  BY LogAssumption, LogTypes DEF BookInv, TypeOK, TailInv, At, ondisk,
     BeginOpSleep, MustWait, Goto
<1>10. PinInv'
  BY LogAssumption, LogTypes DEF BookInv, TypeOK, PinInv, At, ondisk,
     BeginOpSleep, MustWait, Goto
<1>11. SleeperHasWaker'
  BY LogAssumption, LogTypes DEF BookInv, TypeOK, SleeperHasWaker, BootInv,
     CommitInv, EmptyInv, At, Committer, ondisk, BeginOpSleep, MustWait, Goto
<1> QED BY <1>1, <1>2, <1>3, <1>4, <1>5, <1>6, <1>7, <1>8, <1>9, <1>10, <1>11
   DEF BookInv

\* BeginOp preserves the book-keeping.
LEMMA BeginOpBook ==
    ASSUME BookInv, NEW p \in Proc, BeginOp(p)
    PROVE  BookInv'
<1>1. TypeOK'
  BY LogAssumption, LogTypes DEF BookInv, TypeOK, PC, ondisk, BeginOp,
     MustWait, Goto
<1>2. BootInv'
  BY LogAssumption, LogTypes DEF BookInv, TypeOK, BootInv, PC, ondisk, BeginOp,
     MustWait, Goto
<1>3. CommitInv'
  BY LogAssumption, LogTypes DEF BookInv, TypeOK, CommitInv, Committer, ondisk,
     BeginOp, MustWait, Goto
<1>4. CountInv'
  <2>1. p \notin Ops /\ Ops' = Ops \cup {p}
    BY DEF BookInv, TypeOK, Ops, BeginOp, Goto
  <2> QED BY <2>1, FS_AddElement DEF BookInv, CountInv, BeginOp, ondisk
<1>5. Listing(lh)'
  BY LogAssumption, LogTypes DEF BookInv, TypeOK, Listing, ondisk, BeginOp,
     MustWait, Goto
<1>6. Listing(head)'
  BY LogAssumption, LogTypes DEF BookInv, TypeOK, Listing, ondisk, BeginOp,
     MustWait, Goto
<1>7. HeadInv'
  BY LogAssumption, LogTypes DEF BookInv, TypeOK, HeadInv, At, ondisk, BeginOp,
     MustWait, Goto
<1>8. EmptyInv'
  BY LogAssumption, LogTypes DEF BookInv, TypeOK, EmptyInv, At, ondisk,
     BeginOp, MustWait, Goto
<1>9. TailInv'
  BY LogAssumption, LogTypes DEF BookInv, TypeOK, TailInv, At, ondisk, BeginOp,
     MustWait, Goto
<1>10. PinInv'
  BY LogAssumption, LogTypes DEF BookInv, TypeOK, PinInv, At, ondisk, BeginOp,
     MustWait, Goto
<1>11. SleeperHasWaker'
  BY LogAssumption, LogTypes DEF BookInv, TypeOK, SleeperHasWaker, ondisk,
     BeginOp, MustWait, Goto
<1> QED BY <1>1, <1>2, <1>3, <1>4, <1>5, <1>6, <1>7, <1>8, <1>9, <1>10, <1>11
   DEF BookInv

\* log_write preserves the book-keeping.
LEMMA log_writeBook ==
    ASSUME BookInv, NEW p \in Proc, NEW b \in Block, NEW v \in Val, log_write(p, b, v)
    PROVE  BookInv'
<1>a. /\ outstanding \in Nat /\ outstanding > 0 /\ ~committing
      /\ ~At("install") /\ ~At("writelog")
  BY InCall DEF log_write, Committer
<1>b. ~At("install")'
  BY <1>a DEF BookInv, TypeOK, At, log_write, Goto
<1>c. \/ lh' = lh /\ pin' = pin
      \/ /\ lh' = Append(lh, b) /\ pin' = [pin EXCEPT ![b] = @ + 1]
         /\ \A i \in DOMAIN lh : lh[i] # b
         /\ Len(lh) < NLog - 1
  BY LogTypes, LogAssumption DEF log_write, LogFull, InLog
<1>d. /\ Append(lh, b) \in Seq(Block) /\ Len(Append(lh, b)) = Len(lh) + 1
      /\ DOMAIN Append(lh, b) = 1 .. Len(lh) + 1
      /\ \A i \in 1 .. Len(lh) : Append(lh, b)[i] = lh[i]
      /\ Append(lh, b)[Len(lh) + 1] = b
  BY SeqFacts DEF BookInv, TypeOK
<1>1. TypeOK'
  <2>1. lh' \in Seq(Block)
    BY <1>c, <1>d DEF BookInv, TypeOK
  <2>3. pin' \in [Block -> Nat]
    BY <1>c DEF BookInv, TypeOK
  <2>2. pc' \in [Proc -> PC]
    BY DEF BookInv, TypeOK, PC, log_write, Goto
  <2>4. wrote' \in [Proc -> SUBSET Block]
    <3>1. wrote' = wrote \/ wrote' = [wrote EXCEPT ![p] = wrote[p] \cup {b}]
      BY DEF log_write
    <3>2. wrote \in [Proc -> SUBSET Block] /\ wrote[p] \cup {b} \in SUBSET Block
      BY DEF BookInv, TypeOK
    <3> QED BY <3>1, <3>2
  <2>5. cache' \in [Block -> Val \cup {Absent}]
    BY DEF BookInv, TypeOK, log_write
  <2> QED BY <2>1, <2>2, <2>3, <2>4, <2>5 DEF BookInv, TypeOK, ondisk, log_write
<1>2. BootInv'
  BY LogAssumption, LogTypes, InCall DEF BookInv, TypeOK, BootInv, PC,
     Committer, ondisk, log_write, LogFull, InLog, Goto
<1>3. CommitInv'
  BY LogAssumption, LogTypes, InCall DEF BookInv, TypeOK, CommitInv, Committer,
     ondisk, log_write, LogFull, InLog, Goto
<1>4. CountInv'
  BY LogAssumption, LogTypes, InCall DEF BookInv, TypeOK, CountInv, Ops,
     Committer, ondisk, log_write, LogFull, InLog, Goto
<1>5. Listing(lh)'
  <2>1. CASE lh' = lh
    BY <2>1, LogAssumption DEF BookInv, Listing
  <2>2. CASE /\ lh' = Append(lh, b) /\ \A i \in DOMAIN lh : lh[i] # b
             /\ Len(lh) < NLog - 1
    BY <2>2, <1>d, LogAssumption, LogTypes DEF BookInv, Listing
  <2> QED BY <1>c, <2>1, <2>2
<1>6. Listing(head)'
  BY LogAssumption, LogTypes, InCall DEF BookInv, TypeOK, Listing, Committer,
     ondisk, log_write, LogFull, InLog, Goto
<1>7. HeadInv'
  BY LogAssumption, LogTypes, InCall DEF BookInv, TypeOK, HeadInv, At,
     Committer, ondisk, log_write, LogFull, InLog, Goto
<1>8. EmptyInv'
  BY LogAssumption, LogTypes, InCall DEF BookInv, TypeOK, EmptyInv, At,
     Committer, ondisk, log_write, LogFull, InLog, Goto
<1>9. TailInv'
  BY LogAssumption, LogTypes, InCall DEF BookInv, TypeOK, TailInv, At,
     Committer, ondisk, log_write, LogFull, InLog, Goto
<1>10. PinInv'
  <2>1. CASE lh' = lh /\ pin' = pin
    BY <2>1, <1>a, <1>b DEF BookInv, PinInv, log_write
  <2>2. CASE /\ lh' = Append(lh, b) /\ pin' = [pin EXCEPT ![b] = @ + 1]
             /\ \A i \in DOMAIN lh : lh[i] # b
    <3>1. ASSUME NEW c \in Block
          PROVE  (\E i \in DOMAIN lh' : lh'[i] = c)
                     <=> c = b \/ \E i \in DOMAIN lh : lh[i] = c
      BY <2>2, <1>d, LogTypes
    <3>2. boot = "up" /\ boot' = "up"
      BY InCall DEF log_write
    <3>3. \A c \in Block : pin'[c] = IF c = b THEN pin[c] + 1 ELSE pin[c]
      BY <2>2 DEF BookInv, TypeOK
    <3>4. pin[b] = 0
      BY <3>2, <2>2, <1>a DEF BookInv, PinInv
    <3> QED BY <3>1, <3>2, <3>3, <3>4, <2>2, <1>a, <1>b DEF BookInv, PinInv
  <2> QED BY <1>c, <2>1, <2>2
<1>11. SleeperHasWaker'
  BY LogAssumption, LogTypes, InCall DEF BookInv, TypeOK, SleeperHasWaker,
     Committer, ondisk, log_write, LogFull, InLog, Goto
<1> QED BY <1>1, <1>2, <1>3, <1>4, <1>5, <1>6, <1>7, <1>8, <1>9, <1>10, <1>11
   DEF BookInv

\* EndOp preserves the book-keeping.
LEMMA EndOpBook ==
    ASSUME BookInv, NEW p \in Proc, EndOp(p)
    PROVE  BookInv'
<1>a. /\ outstanding \in Nat /\ outstanding > 0 /\ ~committing /\ boot = "up"
      /\ ~At("install") /\ ~At("writelog") /\ ~At("finish")
  BY InCall DEF EndOp, Committer
<1>b. \/ /\ outstanding = 1 /\ committing' = TRUE /\ tail' = 1
         /\ Goto(p, IF lh = <<>> THEN "finish" ELSE "writelog")
      \/ outstanding > 1 /\ WakeupLog(p, "idle") /\ UNCHANGED <<committing, tail>>
  BY <1>a DEF EndOp
<1>c. ~At("install")'
  BY <1>a, <1>b DEF BookInv, TypeOK, At, Goto, WakeupLog
<1>1. TypeOK'
  <2>1. pc' \in [Proc -> PC] /\ committing' \in BOOLEAN /\ tail' \in Nat
    BY <1>b DEF BookInv, TypeOK, PC, Goto, WakeupLog
  <2>2. outstanding' \in Nat /\ wrote' \in [Proc -> SUBSET Block]
    BY <1>a DEF BookInv, TypeOK, EndOp
  <2> QED BY <2>1, <2>2 DEF BookInv, TypeOK, EndOp, ondisk
<1>2. BootInv'
  BY LogAssumption, LogTypes, InCall DEF BookInv, TypeOK, BootInv, PC,
     Committer, ondisk, EndOp, Goto, WakeupLog
<1>3. CommitInv'
  BY LogAssumption, LogTypes, InCall DEF BookInv, TypeOK, CommitInv, Committer,
     ondisk, EndOp, Goto, WakeupLog
<1>4. CountInv'
  <2>1. p \in Ops /\ Ops' = Ops \ {p}
    BY InCall DEF BookInv, TypeOK, Ops, EndOp, Goto, WakeupLog
  <2> QED BY <2>1, FS_RemoveElement DEF BookInv, TypeOK, CountInv, EndOp
<1>5. Listing(lh)'
  BY LogAssumption, LogTypes, InCall DEF BookInv, TypeOK, Listing, Committer,
     ondisk, EndOp, Goto, WakeupLog
<1>6. Listing(head)'
  BY LogAssumption, LogTypes, InCall DEF BookInv, TypeOK, Listing, Committer,
     ondisk, EndOp, Goto, WakeupLog
<1>7. HeadInv'
  BY LogAssumption, LogTypes, InCall DEF BookInv, TypeOK, HeadInv, At,
     Committer, ondisk, EndOp, Goto, WakeupLog
<1>8. EmptyInv'
  BY LogAssumption, LogTypes, InCall DEF BookInv, TypeOK, EmptyInv, At,
     Committer, ondisk, EndOp, Goto, WakeupLog
<1>9. TailInv'
  <2>1. At("writelog")' => tail' = 1
    BY <1>a, <1>b DEF BookInv, TypeOK, At, Goto, WakeupLog
  <2> QED BY <2>1, <1>a, <1>c, LogTypes DEF TailInv, EndOp
<1>10. PinInv'
  BY <1>a, <1>c DEF BookInv, PinInv, EndOp
<1>11. SleeperHasWaker'
  BY LogAssumption, LogTypes, InCall DEF BookInv, TypeOK, SleeperHasWaker,
     Committer, ondisk, EndOp, Goto, WakeupLog
<1> QED BY <1>1, <1>2, <1>3, <1>4, <1>5, <1>6, <1>7, <1>8, <1>9, <1>10, <1>11
   DEF BookInv

\* WriteLog preserves the book-keeping.
LEMMA WriteLogBook ==
    ASSUME BookInv, NEW p \in Proc, WriteLog(p)
    PROVE  BookInv'
<1>a. tail \in 1 .. Len(lh) /\ lh[tail] \in Block /\ bread(lh[tail]) \in Val
  BY LogTypes DEF BookInv, TypeOK, WriteLog, TailInv, At, bread
<1>1. TypeOK'
  <2>1. cache' \in [Block -> Val \cup {Absent}] /\ logblk' \in [1 .. NLog - 1 -> Val]
    BY <1>a DEF BookInv, TypeOK, WriteLog
  <2> QED BY <1>a, <2>1 DEF BookInv, TypeOK, WriteLog
<1>2. BootInv'
  BY LogAssumption, LogTypes, InCommit DEF BookInv, TypeOK, BootInv, PC,
     Committer, ondisk, WriteLog, bread
<1>3. CommitInv'
  BY LogAssumption, LogTypes, InCommit DEF BookInv, TypeOK, CommitInv,
     Committer, ondisk, WriteLog, bread
<1>4. CountInv'
  BY LogAssumption, LogTypes, InCommit DEF BookInv, TypeOK, CountInv, Ops,
     Committer, ondisk, WriteLog, bread
<1>5. Listing(lh)'
  BY LogAssumption, LogTypes, InCommit DEF BookInv, TypeOK, Listing, Committer,
     ondisk, WriteLog, bread
<1>6. Listing(head)'
  BY LogAssumption, LogTypes, InCommit DEF BookInv, TypeOK, Listing, Committer,
     ondisk, WriteLog, bread
<1>7. HeadInv'
  BY LogAssumption, LogTypes, InCommit DEF BookInv, TypeOK, HeadInv, At,
     Committer, ondisk, WriteLog, bread
<1>8. EmptyInv'
  BY LogAssumption, LogTypes, InCommit DEF BookInv, TypeOK, EmptyInv, At,
     Committer, ondisk, WriteLog, bread
<1>9. TailInv'
  BY LogAssumption, LogTypes, InCommit DEF BookInv, TypeOK, TailInv, At,
     Committer, ondisk, WriteLog, bread
<1>10. PinInv'
  BY LogAssumption, LogTypes, InCommit DEF BookInv, TypeOK, PinInv, At,
     Committer, ondisk, WriteLog, bread
<1>11. SleeperHasWaker'
  BY LogAssumption, LogTypes, InCommit DEF BookInv, TypeOK, SleeperHasWaker,
     Committer, ondisk, WriteLog, bread
<1> QED BY <1>1, <1>2, <1>3, <1>4, <1>5, <1>6, <1>7, <1>8, <1>9, <1>10, <1>11
   DEF BookInv

\* WriteHead preserves the book-keeping.
LEMMA WriteHeadBook ==
    ASSUME BookInv, NEW p \in Proc, WriteHead(p)
    PROVE  BookInv'
<1>a. ~At("install")
  BY InCommit DEF WriteHead, Committer
<1>1. TypeOK'
  BY LogAssumption, LogTypes, InCommit DEF BookInv, TypeOK, PC, Committer,
     ondisk, WriteHead, Goto
<1>2. BootInv'
  BY LogAssumption, LogTypes, InCommit DEF BookInv, TypeOK, BootInv, PC,
     Committer, ondisk, WriteHead, Goto
<1>3. CommitInv'
  BY LogAssumption, LogTypes, InCommit DEF BookInv, TypeOK, CommitInv,
     Committer, ondisk, WriteHead, Goto
<1>4. CountInv'
  BY LogAssumption, LogTypes, InCommit DEF BookInv, TypeOK, CountInv, Ops,
     Committer, ondisk, WriteHead, Goto
<1>5. Listing(lh)'
  BY LogAssumption, LogTypes, InCommit DEF BookInv, TypeOK, Listing, Committer,
     ondisk, WriteHead, Goto
<1>6. Listing(head)'
  BY LogAssumption, LogTypes, InCommit DEF BookInv, TypeOK, Listing, Committer,
     ondisk, WriteHead, Goto
<1>7. HeadInv'
  BY LogAssumption, LogTypes, InCommit DEF BookInv, TypeOK, HeadInv, At,
     Committer, ondisk, WriteHead, Goto
<1>8. EmptyInv'
  BY LogAssumption, LogTypes, InCommit DEF BookInv, TypeOK, EmptyInv, At,
     Committer, ondisk, WriteHead, Goto
<1>9. TailInv'
  BY LogAssumption, LogTypes, InCommit DEF BookInv, TypeOK, TailInv, At,
     Committer, ondisk, WriteHead, Goto
<1>10. PinInv'
  BY <1>a, LogTypes DEF BookInv, PinInv, WriteHead
<1>11. SleeperHasWaker'
  BY LogAssumption, LogTypes, InCommit DEF BookInv, TypeOK, SleeperHasWaker,
     Committer, ondisk, WriteHead, Goto
<1> QED BY <1>1, <1>2, <1>3, <1>4, <1>5, <1>6, <1>7, <1>8, <1>9, <1>10, <1>11
   DEF BookInv

\* Install preserves the book-keeping.
LEMMA InstallBook ==
    ASSUME BookInv, NEW p \in Proc, Install(p)
    PROVE  BookInv'
<1>a. At("install") /\ At("install")' /\ boot = "up"
  BY InCommit DEF Install, Committer, At
<1>b. tail \in 1 .. Len(lh) /\ lh[tail] \in Block /\ logblk[tail] \in Val
  BY <1>a, LogTypes DEF BookInv, TypeOK, Install, TailInv
<1>c. pin[lh[tail]] = 1
  BY <1>a, <1>b, LogTypes DEF BookInv, TypeOK, PinInv
<1>1. TypeOK'
  BY <1>b, <1>c DEF BookInv, TypeOK, Install
<1>2. BootInv'
  BY LogAssumption, LogTypes, InCommit DEF BookInv, TypeOK, BootInv, PC,
     Committer, ondisk, Install
<1>3. CommitInv'
  BY LogAssumption, LogTypes, InCommit DEF BookInv, TypeOK, CommitInv,
     Committer, ondisk, Install
<1>4. CountInv'
  BY LogAssumption, LogTypes, InCommit DEF BookInv, TypeOK, CountInv, Ops,
     Committer, ondisk, Install
<1>5. Listing(lh)'
  BY LogAssumption, LogTypes, InCommit DEF BookInv, TypeOK, Listing, Committer,
     ondisk, Install
<1>6. Listing(head)'
  BY LogAssumption, LogTypes, InCommit DEF BookInv, TypeOK, Listing, Committer,
     ondisk, Install
<1>7. HeadInv'
  BY LogAssumption, LogTypes, InCommit DEF BookInv, TypeOK, HeadInv, At,
     Committer, ondisk, Install
<1>8. EmptyInv'
  BY LogAssumption, LogTypes, InCommit DEF BookInv, TypeOK, EmptyInv, At,
     Committer, ondisk, Install
<1>9. TailInv'
  BY LogAssumption, LogTypes, InCommit DEF BookInv, TypeOK, TailInv, At,
     Committer, ondisk, Install
<1>10. PinInv'
  <2>1. ASSUME NEW b \in Block
        PROVE  (\E i \in DOMAIN lh : lh[i] = b /\ i >= tail + 1)
                  <=> b # lh[tail] /\ \E i \in DOMAIN lh : lh[i] = b /\ i >= tail
    BY <1>b, LogTypes DEF BookInv, Listing
  <2> QED BY <2>1, <1>a, <1>b, <1>c DEF BookInv, TypeOK, PinInv, Install
<1>11. SleeperHasWaker'
  BY LogAssumption, LogTypes, InCommit DEF BookInv, TypeOK, SleeperHasWaker,
     Committer, ondisk, Install
<1> QED BY <1>1, <1>2, <1>3, <1>4, <1>5, <1>6, <1>7, <1>8, <1>9, <1>10, <1>11
   DEF BookInv

\* ClearHead preserves the book-keeping.
LEMMA ClearHeadBook ==
    ASSUME BookInv, NEW p \in Proc, ClearHead(p)
    PROVE  BookInv'
<1>1. TypeOK'
  BY LogAssumption, LogTypes, InCommit DEF BookInv, TypeOK, PC, Committer,
     ondisk, ClearHead, Goto
<1>2. BootInv'
  BY LogAssumption, LogTypes, InCommit DEF BookInv, TypeOK, BootInv, PC,
     Committer, ondisk, ClearHead, Goto
<1>3. CommitInv'
  BY LogAssumption, LogTypes, InCommit DEF BookInv, TypeOK, CommitInv,
     Committer, ondisk, ClearHead, Goto
<1>4. CountInv'
  BY LogAssumption, LogTypes, InCommit DEF BookInv, TypeOK, CountInv, Ops,
     Committer, ondisk, ClearHead, Goto
<1>5. Listing(lh)'
  BY LogAssumption, LogTypes, InCommit DEF BookInv, TypeOK, Listing, Committer,
     ondisk, ClearHead, Goto
<1>6. Listing(head)'
  BY LogAssumption, LogTypes, InCommit DEF BookInv, TypeOK, Listing, Committer,
     ondisk, ClearHead, Goto
<1>7. HeadInv'
  BY LogAssumption, LogTypes, InCommit DEF BookInv, TypeOK, HeadInv, At,
     Committer, ondisk, ClearHead, Goto
<1>8. EmptyInv'
  BY LogAssumption, LogTypes, InCommit DEF BookInv, TypeOK, EmptyInv, At,
     Committer, ondisk, ClearHead, Goto
<1>9. TailInv'
  BY LogAssumption, LogTypes, InCommit DEF BookInv, TypeOK, TailInv, At,
     Committer, ondisk, ClearHead, Goto
<1>10. PinInv'
  BY LogAssumption, LogTypes, InCommit DEF BookInv, TypeOK, PinInv, At,
     Committer, ondisk, ClearHead, Goto
<1>11. SleeperHasWaker'
  BY LogAssumption, LogTypes, InCommit DEF BookInv, TypeOK, SleeperHasWaker,
     Committer, ondisk, ClearHead, Goto
<1> QED BY <1>1, <1>2, <1>3, <1>4, <1>5, <1>6, <1>7, <1>8, <1>9, <1>10, <1>11
   DEF BookInv

\* CommitDone preserves the book-keeping.
LEMMA CommitDoneBook ==
    ASSUME BookInv, NEW p \in Proc, CommitDone(p)
    PROVE  BookInv'
<1>1. TypeOK'
  BY LogAssumption, LogTypes, InCommit DEF BookInv, TypeOK, PC, Committer,
     ondisk, CommitDone, WakeupLog
<1>2. BootInv'
  BY LogAssumption, LogTypes, InCommit DEF BookInv, TypeOK, BootInv, PC,
     Committer, ondisk, CommitDone, WakeupLog
<1>3. CommitInv'
  BY LogAssumption, LogTypes, InCommit DEF BookInv, TypeOK, CommitInv,
     Committer, ondisk, CommitDone, WakeupLog
<1>4. CountInv'
  BY LogAssumption, LogTypes, InCommit DEF BookInv, TypeOK, CountInv, Ops,
     Committer, ondisk, CommitDone, WakeupLog
<1>5. Listing(lh)'
  BY LogAssumption, LogTypes, InCommit DEF BookInv, TypeOK, Listing, Committer,
     ondisk, CommitDone, WakeupLog
<1>6. Listing(head)'
  BY LogAssumption, LogTypes, InCommit DEF BookInv, TypeOK, Listing, Committer,
     ondisk, CommitDone, WakeupLog
<1>7. HeadInv'
  BY LogAssumption, LogTypes, InCommit DEF BookInv, TypeOK, HeadInv, At,
     Committer, ondisk, CommitDone, WakeupLog
<1>8. EmptyInv'
  BY LogAssumption, LogTypes, InCommit DEF BookInv, TypeOK, EmptyInv, At,
     Committer, ondisk, CommitDone, WakeupLog
<1>9. TailInv'
  BY LogAssumption, LogTypes, InCommit DEF BookInv, TypeOK, TailInv, At,
     Committer, ondisk, CommitDone, WakeupLog
<1>10. PinInv'
  BY LogAssumption, LogTypes, InCommit DEF BookInv, TypeOK, PinInv, At,
     Committer, ondisk, CommitDone, WakeupLog
<1>11. SleeperHasWaker'
  BY LogAssumption, LogTypes, InCommit DEF BookInv, TypeOK, SleeperHasWaker,
     Committer, ondisk, CommitDone, WakeupLog
<1> QED BY <1>1, <1>2, <1>3, <1>4, <1>5, <1>6, <1>7, <1>8, <1>9, <1>10, <1>11
   DEF BookInv

\* Load preserves the book-keeping.
LEMMA LoadBook ==
    ASSUME BookInv, NEW b \in Block, Load(b)
    PROVE  BookInv'
<1>1. TypeOK'
  BY LogAssumption, LogTypes DEF BookInv, TypeOK, PC, ondisk, Load
<1>2. BootInv'
  BY LogAssumption, LogTypes DEF BookInv, TypeOK, BootInv, PC, ondisk, Load
<1>3. CommitInv'
  BY LogAssumption, LogTypes DEF BookInv, TypeOK, CommitInv, Committer, ondisk,
     Load
<1>4. CountInv'
  BY LogAssumption, LogTypes DEF BookInv, TypeOK, CountInv, Ops, ondisk, Load
<1>5. Listing(lh)'
  BY LogAssumption, LogTypes DEF BookInv, TypeOK, Listing, ondisk, Load
<1>6. Listing(head)'
  BY LogAssumption, LogTypes DEF BookInv, TypeOK, Listing, ondisk, Load
<1>7. HeadInv'
  BY LogAssumption, LogTypes DEF BookInv, TypeOK, HeadInv, At, ondisk, Load
<1>8. EmptyInv'
  BY LogAssumption, LogTypes DEF BookInv, TypeOK, EmptyInv, At, ondisk, Load
<1>9. TailInv'
  BY LogAssumption, LogTypes DEF BookInv, TypeOK, TailInv, At, ondisk, Load
<1>10. PinInv'
  BY LogAssumption, LogTypes DEF BookInv, TypeOK, PinInv, At, ondisk, Load
<1>11. SleeperHasWaker'
  BY LogAssumption, LogTypes DEF BookInv, TypeOK, SleeperHasWaker, ondisk, Load
<1> QED BY <1>1, <1>2, <1>3, <1>4, <1>5, <1>6, <1>7, <1>8, <1>9, <1>10, <1>11
   DEF BookInv

\* Evict preserves the book-keeping.
LEMMA EvictBook ==
    ASSUME BookInv, NEW b \in Block, Evict(b)
    PROVE  BookInv'
<1>1. TypeOK'
  BY LogAssumption, LogTypes DEF BookInv, TypeOK, PC, ondisk, Evict
<1>2. BootInv'
  BY LogAssumption, LogTypes DEF BookInv, TypeOK, BootInv, PC, ondisk, Evict
<1>3. CommitInv'
  BY LogAssumption, LogTypes DEF BookInv, TypeOK, CommitInv, Committer, ondisk,
     Evict
<1>4. CountInv'
  BY LogAssumption, LogTypes DEF BookInv, TypeOK, CountInv, Ops, ondisk, Evict
<1>5. Listing(lh)'
  BY LogAssumption, LogTypes DEF BookInv, TypeOK, Listing, ondisk, Evict
<1>6. Listing(head)'
  BY LogAssumption, LogTypes DEF BookInv, TypeOK, Listing, ondisk, Evict
<1>7. HeadInv'
  BY LogAssumption, LogTypes DEF BookInv, TypeOK, HeadInv, At, ondisk, Evict
<1>8. EmptyInv'
  BY LogAssumption, LogTypes DEF BookInv, TypeOK, EmptyInv, At, ondisk, Evict
<1>9. TailInv'
  BY LogAssumption, LogTypes DEF BookInv, TypeOK, TailInv, At, ondisk, Evict
<1>10. PinInv'
  BY LogAssumption, LogTypes DEF BookInv, TypeOK, PinInv, At, ondisk, Evict
<1>11. SleeperHasWaker'
  BY LogAssumption, LogTypes DEF BookInv, TypeOK, SleeperHasWaker, ondisk,
     Evict
<1> QED BY <1>1, <1>2, <1>3, <1>4, <1>5, <1>6, <1>7, <1>8, <1>9, <1>10, <1>11
   DEF BookInv

\* Crash preserves the book-keeping.
LEMMA CrashBook ==
    ASSUME BookInv, Crash
    PROVE  BookInv'
<1>1. TypeOK'
  BY LogAssumption, LogTypes DEF BookInv, TypeOK, PC, ondisk, Crash, Volatile
<1>2. BootInv'
  BY LogAssumption, LogTypes DEF BookInv, TypeOK, BootInv, PC, ondisk, Crash,
     Volatile
<1>3. CommitInv'
  BY LogAssumption, LogTypes DEF BookInv, TypeOK, CommitInv, Committer, ondisk,
     Crash, Volatile
<1>4. CountInv'
  <2>1. Ops' = {}
    BY DEF Ops, Crash, Volatile
  <2> QED BY <2>1, FS_EmptySet DEF CountInv, Crash, Volatile
<1>5. Listing(lh)'
  BY LogAssumption, LogTypes DEF BookInv, TypeOK, Listing, ondisk, Crash,
     Volatile
<1>6. Listing(head)'
  BY LogAssumption, LogTypes DEF BookInv, TypeOK, Listing, ondisk, Crash,
     Volatile
<1>7. HeadInv'
  BY LogAssumption, LogTypes DEF BookInv, TypeOK, HeadInv, At, ondisk, Crash,
     Volatile
<1>8. EmptyInv'
  BY LogAssumption, LogTypes DEF BookInv, TypeOK, EmptyInv, At, ondisk, Crash,
     Volatile
<1>9. TailInv'
  BY LogAssumption, LogTypes DEF BookInv, TypeOK, TailInv, At, ondisk, Crash,
     Volatile
<1>10. PinInv'
  BY LogAssumption, LogTypes DEF BookInv, TypeOK, PinInv, At, ondisk, Crash,
     Volatile
<1>11. SleeperHasWaker'
  BY LogAssumption, LogTypes DEF BookInv, TypeOK, SleeperHasWaker, ondisk,
     Crash, Volatile
<1> QED BY <1>1, <1>2, <1>3, <1>4, <1>5, <1>6, <1>7, <1>8, <1>9, <1>10, <1>11
   DEF BookInv

\* The book-keeping is in order before the first boot.
LEMMA InitBook == Init => BookInv
<1> SUFFICES ASSUME Init PROVE BookInv
  OBVIOUS
<1>1. TypeOK
  <2>1. (CHOOSE v \in Val : TRUE) \in Val
    BY LogAssumption
  <2>2. logblk \in [1 .. NLog - 1 -> Val]
    BY <2>1 DEF Init
  <2>3. cache \in [Block -> Val \cup {Absent}] /\ pin \in [Block -> Nat]
    BY DEF Init
  <2>4. pc \in [Proc -> PC] /\ wrote \in [Proc -> SUBSET Block]
    BY DEF Init, PC
  <2>5. head \in Seq(Block) /\ lh \in Seq(Block)
    BY DEF Init
  <2> QED BY <2>2, <2>3, <2>4, <2>5 DEF Init, TypeOK
<1>2. Ops = {}
  BY DEF Init, Ops
<1>3. CountInv
  BY <1>2, FS_EmptySet DEF Init, CountInv
<1>4. Listing(lh) /\ Listing(head)
  BY LogAssumption DEF Init, Listing
<1>5. BootInv /\ CommitInv /\ SleeperHasWaker
  BY DEF Init, BootInv, CommitInv, Committer, SleeperHasWaker
<1>6. HeadInv /\ EmptyInv /\ TailInv /\ PinInv
  BY DEF Init, HeadInv, EmptyInv, TailInv, PinInv, At
<1> QED BY <1>1, <1>3, <1>4, <1>5, <1>6 DEF BookInv

\* Every step preserves the book-keeping.
LEMMA NextBook == BookInv /\ [Next]_vars => BookInv'
<1> SUFFICES ASSUME BookInv, [Next]_vars PROVE BookInv'
  OBVIOUS
<1>1. CASE Recover
  BY <1>1, RecoverHeadBook, RecoverInstallBook, RecoverClearBook DEF Recover
<1>2. ASSUME NEW p \in Proc, Call(p) PROVE BookInv'
  BY <1>2, BeginOpSleepBook, BeginOpBook, log_writeBook, EndOpBook DEF Call
<1>3. ASSUME NEW p \in Proc, Commit(p) PROVE BookInv'
  BY <1>3, WriteLogBook, WriteHeadBook, InstallBook, ClearHeadBook, CommitDoneBook
     DEF Commit
<1>4. ASSUME NEW b \in Block, Load(b) \/ Evict(b) PROVE BookInv'
  BY <1>4, LoadBook, EvictBook
<1>5. CASE Crash
  BY <1>5, CrashBook
<1>6. CASE UNCHANGED vars
  BY <1>6 DEF vars, BookInv, TypeOK, BootInv, CommitInv, CountInv, Ops, Listing,
     HeadInv, EmptyInv, TailInv, PinInv, SleeperHasWaker, At
<1> QED BY <1>1, <1>2, <1>3, <1>4, <1>5, <1>6 DEF Next

\* The book-keeping is in order always.
LEMMA BookAlways == Spec => []BookInv
  BY InitBook, NextBook, PTL DEF Spec

\* Whatever the crashes and whatever the calls write, also when they write
\* more than begin_op() reserves for them: who sleeps in begin_op() has
\* somebody to wake it, and bpin() is undone by install_trans() exactly once
\* for every block of a transaction.
THEOREM LogInvariant == Spec => []LogInv
<1>1. BookInv => LogInv
  <2> SUFFICES ASSUME BookInv PROVE PinsReleased
    BY DEF BookInv, LogInv
  <2> QED BY LogTypes DEF BookInv, PinInv, PinsReleased
<1> QED BY <1>1, BookAlways, PTL
-----------------------------------------------------------------------------
\* The room of the calls o is at most what is reserved for them.
LEMMA RoomOf ==
    ASSUME NEW o, IsFiniteSet(o), NEW w, NEW R,
           R = {x \in o \X (1 .. OpBlocks) : x[2] > Cardinality(w[x[1]])}
    PROVE  /\ IsFiniteSet(R) /\ Cardinality(R) \in Nat
           /\ Cardinality(R) <= Cardinality(o) * OpBlocks
<1>1. IsFiniteSet(1 .. OpBlocks) /\ Cardinality(1 .. OpBlocks) = OpBlocks
  BY FS_Interval, LogAssumption
<1>2. /\ IsFiniteSet(o \X (1 .. OpBlocks))
      /\ Cardinality(o \X (1 .. OpBlocks)) = Cardinality(o) * OpBlocks
  BY <1>1, FS_Product
<1>3. R \subseteq o \X (1 .. OpBlocks)
  OBVIOUS
<1>4. IsFiniteSet(R) /\ Cardinality(R) <= Cardinality(o) * OpBlocks
  BY <1>2, <1>3, FS_Subset
<1> QED BY <1>4, FS_CardinalityType

\* The room is finite.
LEMMA RoomBound ==
    ASSUME BookInv
    PROVE  IsFiniteSet(Room) /\ Cardinality(Room) \in Nat
  BY RoomOf DEF BookInv, CountInv, Room

\* A step that leaves the calls as they are, and the log too or empties it,
\* keeps the room.
LEMMA QuietSpace ==
    ASSUME BookInv, SpaceInv, boot' = "up" => boot = "up",
           Ops' = Ops, wrote' = wrote, lh' = lh \/ (lh' = <<>> /\ Ops = {})
    PROVE  SpaceInv'
<1>1. Room' = Room
  BY DEF Room
<1>2. Len(lh') \in Nat /\ Len(lh') <= Len(lh)
  BY LogTypes
<1>3. boot' = "up" => Len(lh') + Cardinality(Room') <= LOGSIZE - 2
  BY <1>1, <1>2, RoomBound, LogTypes, LogAssumption DEF SpaceInv
<1>4. boot' = "up" => \A p \in Proc : wrote'[p] \subseteq {lh'[i] : i \in DOMAIN lh'}
  BY DEF SpaceInv, BookInv, CountInv
<1> QED BY <1>3, <1>4 DEF SpaceInv

\* begin_op() lets a call in only if there is room for it.
LEMMA BeginOpSpace ==
    ASSUME CallsFit, BookInv, SpaceInv, NEW p \in Proc, BeginOp(p)
    PROVE  SpaceInv'
<1> DEFINE n == outstanding
<1>1. n \in Nat /\ n' = n + 1 /\ lh' = lh /\ wrote' = wrote
  BY DEF BookInv, TypeOK, BeginOp
<1>2. boot = "up" /\ ~committing /\ Len(lh) + (n + 1) * MAXOPBLOCKS <= LOGSIZE
  BY LogTypes, LogAssumption, <1>1 DEF BookInv, BootInv, BeginOp, MustWait
<1>3. Cardinality(Room') \in Nat /\ Cardinality(Room') <= (n + 1) * OpBlocks
  <2>1. IsFiniteSet(Ops') /\ Cardinality(Ops') = n + 1
    BY <1>1, BeginOpBook DEF BookInv, CountInv
  <2>2. Room' = {x \in Ops' \X (1 .. OpBlocks) : x[2] > Cardinality(wrote'[x[1]])}
    BY DEF Room
  <2> QED BY <2>1, <2>2, RoomOf
<1>4. Len(lh) + Cardinality(Room') <= LOGSIZE - 2
  <2>1. CASE n = 0
    <3>1. Len(lh) = 0
      BY <2>1, <1>2, LogTypes DEF BookInv, CommitInv, Committer, EmptyInv, At
    <3> QED BY <3>1, <2>1, <1>3, LogAssumption DEF CallsFit
  <2>2. CASE n # 0
    <3>1. (n + 1) * OpBlocks + (n + 1) <= (n + 1) * MAXOPBLOCKS
      <4>1. \A a, x, y \in Nat : x < y => a * x + a <= a * y
        OBVIOUS
      <4> QED BY <4>1, <1>1, LogAssumption DEF CallsFit
    <3> QED BY <3>1, <2>2, <1>1, <1>2, <1>3, LogTypes, LogAssumption
  <2> QED BY <2>1, <2>2
<1> QED BY <1>1, <1>2, <1>4 DEF SpaceInv, BeginOp

\* log_write() finds room.
LEMMA log_writeFits ==
    ASSUME CallsFit, BookInv, SpaceInv,
           NEW p \in Proc, NEW b \in Block, NEW v \in Val, log_write(p, b, v)
    PROVE  /\ wrote' = [wrote EXCEPT ![p] = @ \cup {b}] /\ pc' = pc
           /\ lh' = IF InLog(lh, b) THEN lh ELSE Append(lh, b)
           /\ pin' = IF InLog(lh, b) THEN pin ELSE [pin EXCEPT ![b] = @ + 1]
<1>1. boot = "up" /\ outstanding \in Nat /\ outstanding > 0
  BY InCall DEF log_write
<1>2. Len(lh) + Cardinality(Room) <= LOGSIZE - 2 /\ Cardinality(Room) \in Nat
  BY <1>1, RoomBound DEF SpaceInv
<1>3. ~LogFull
  BY <1>2, LogTypes, LogAssumption DEF LogFull
<1> QED BY <1>1, <1>3 DEF log_write

\* log_write() takes from the room of its call.
LEMMA log_writeSpace ==
    ASSUME CallsFit, BookInv, SpaceInv, NoPanic,
           NEW p \in Proc, NEW b \in Block, NEW v \in Val, log_write(p, b, v)
    PROVE  SpaceInv' /\ NoPanic'
<1>1. boot = "up"
  BY InCall DEF log_write
<1>2. Len(lh) + Cardinality(Room) <= LOGSIZE - 2 /\ Cardinality(Room) \in Nat
  BY <1>1, RoomBound DEF SpaceInv
<1>4. /\ wrote' = [wrote EXCEPT ![p] = @ \cup {b}] /\ pc' = pc
      /\ lh' = IF InLog(lh, b) THEN lh ELSE Append(lh, b)
  BY log_writeFits
<1>5. NoPanic' /\ Ops' = Ops /\ p \in Ops
  BY <1>4 DEF NoPanic, Ops, log_write
<1>6. CASE b \in wrote[p]
  <2>1. InLog(lh, b)
    BY <1>1, <1>6 DEF SpaceInv, InLog
  <2>2. wrote' = wrote
    BY <1>4, <1>6 DEF BookInv, TypeOK
  <2> QED BY <1>4, <1>5, <2>1, <2>2, QuietSpace DEF log_write
<1>7. CASE b \notin wrote[p]
  <2> DEFINE c == Cardinality(wrote[p])
             x == <<p, c + 1>>
  <2>1. IsFiniteSet(wrote[p]) /\ c \in Nat /\ c < OpBlocks
    BY <1>7, FS_CardinalityType DEF SpaceInv, log_write
  <2>2. wrote'[p] = wrote[p] \cup {b} /\ \A q \in Proc : q # p => wrote'[q] = wrote[q]
    BY <1>4 DEF BookInv, TypeOK
  <2>3. IsFiniteSet(wrote'[p]) /\ Cardinality(wrote'[p]) = c + 1
    <3>1. /\ IsFiniteSet(wrote[p] \cup {b})
          /\ Cardinality(wrote[p] \cup {b}) = Cardinality(wrote[p]) + 1
      BY <1>7, <2>1, FS_AddElement
    <3> QED BY <3>1, <2>2
  <2>4. x \in Room
    BY <1>5, <2>1, LogAssumption DEF Room
  <2>5. Room' = Room \ {x}
    <3>1. Room' = {y \in Ops \X (1 .. OpBlocks) : y[2] > Cardinality(wrote'[y[1]])}
      BY <1>5 DEF Room
    <3>2. ASSUME NEW q \in Ops, NEW k \in 1 .. OpBlocks
          PROVE  k > Cardinality(wrote'[q])
                    <=> k > Cardinality(wrote[q]) /\ <<q, k>> # x
      <4>1. q \in Proc /\ k \in Nat
        BY LogAssumption DEF Ops
      <4>2. CASE q # p
        BY <4>1, <4>2, <2>2
      <4>3. CASE q = p
        BY <4>1, <4>3, <2>1, <2>3
      <4> QED BY <4>2, <4>3
    <3> HIDE DEF x
    <3> QED BY <3>1, <3>2 DEF Room
  <2>6. Cardinality(Room') = Cardinality(Room) - 1
    BY <2>4, <2>5, RoomBound, FS_RemoveElement
  <2>7. Len(lh') \in Nat /\ Len(lh') <= Len(lh) + 1
    BY <1>4, SeqFacts DEF BookInv, TypeOK
  <2>8. Len(lh') + Cardinality(Room') <= LOGSIZE - 2
    BY <2>6, <2>7, <1>2, LogTypes, LogAssumption
  <2>9. \A i \in DOMAIN lh : i \in DOMAIN lh' /\ lh'[i] = lh[i]
    BY <1>4, SeqFacts DEF BookInv, TypeOK
  <2>10. \E i \in DOMAIN lh' : lh'[i] = b
    <3>1. CASE InLog(lh, b)
      BY <3>1, <1>4 DEF InLog
    <3>2. CASE ~InLog(lh, b)
      <4>1. lh' = Append(lh, b) /\ lh \in Seq(Block)
        BY <3>2, <1>4 DEF BookInv, TypeOK
      <4>2. Len(lh) + 1 \in DOMAIN lh' /\ lh'[Len(lh) + 1] = b
        BY <4>1, SeqFacts
      <4> QED BY <4>2
    <3> QED BY <3>1, <3>2
  <2>11. \A q \in Proc : wrote'[q] \subseteq {lh'[i] : i \in DOMAIN lh'}
    BY <1>1, <2>2, <2>9, <2>10 DEF SpaceInv
  <2>12. \A q \in Proc : IsFiniteSet(wrote'[q])
    BY <2>2, <2>3 DEF SpaceInv
  <2> QED BY <1>5, <2>8, <2>11, <2>12 DEF SpaceInv
<1> QED BY <1>6, <1>7

\* end_op() gives the room of its call back.
LEMMA EndOpSpace ==
    ASSUME BookInv, SpaceInv, NoPanic, NEW p \in Proc, EndOp(p)
    PROVE  SpaceInv' /\ NoPanic'
<1>1. ~committing /\ boot = "up"
  BY InCall DEF EndOp
<1>2. NoPanic' /\ Ops' = Ops \ {p}
  BY <1>1 DEF BookInv, TypeOK, NoPanic, Ops, EndOp, Goto, WakeupLog
<1>3. \A q \in Proc : wrote'[q] = IF q = p THEN {} ELSE wrote[q]
  BY DEF BookInv, TypeOK, EndOp
<1>4. Room' \subseteq Room
  <2>1. Room' = {y \in (Ops \ {p}) \X (1 .. OpBlocks) :
                    y[2] > Cardinality(wrote'[y[1]])}
    BY <1>2 DEF Room
  <2>2. \A q \in Ops \ {p} : wrote'[q] = wrote[q]
    BY <1>3 DEF Ops
  <2> QED BY <2>1, <2>2 DEF Room
<1>5. Cardinality(Room') \in Nat /\ Cardinality(Room') <= Cardinality(Room)
  BY <1>4, RoomBound, FS_Subset, FS_CardinalityType
<1>6. Len(lh') + Cardinality(Room') <= LOGSIZE - 2
  BY <1>1, <1>5, RoomBound, LogTypes, LogAssumption DEF SpaceInv, EndOp
<1>7. \A q \in Proc : /\ IsFiniteSet(wrote'[q])
                      /\ wrote'[q] \subseteq {lh'[i] : i \in DOMAIN lh'}
  BY <1>1, <1>3, FS_EmptySet DEF SpaceInv, EndOp
<1> QED BY <1>2, <1>6, <1>7 DEF SpaceInv

\* Every step preserves the room, and with it no panic() is reached.
LEMMA NextSpace ==
    ASSUME CallsFit, BookInv, SpaceInv, NoPanic, [Next]_vars
    PROVE  SpaceInv' /\ NoPanic'
<1>1. CASE RecoverHead \/ RecoverInstall
  <2>1. boot' # "up" /\ pc' = pc /\ wrote' = wrote
    BY <1>1 DEF RecoverHead, RecoverInstall
  <2> QED BY <2>1 DEF SpaceInv, NoPanic
<1>2. CASE RecoverClear
  <2>1. Ops' = {} /\ lh' = <<>> /\ NoPanic' /\ wrote' = wrote
    BY <1>2 DEF RecoverClear, Ops, NoPanic
  <2>2. Room' = {}
    BY <2>1 DEF Room
  <2>3. Len(lh') + Cardinality(Room') <= LOGSIZE - 2
    BY <2>1, <2>2, FS_EmptySet, LogAssumption
  <2>4. \A p \in Proc : wrote'[p] = {}
    BY <1>2, <2>1 DEF BookInv, BootInv, RecoverClear
  <2> QED BY <2>1, <2>3, <2>4, FS_EmptySet DEF SpaceInv
<1>3. ASSUME NEW p \in Proc, BeginOpSleep(p) PROVE SpaceInv' /\ NoPanic'
  <2>1. Ops' = Ops /\ lh' = lh /\ wrote' = wrote /\ boot' = boot /\ NoPanic'
    BY <1>3 DEF BookInv, TypeOK, BeginOpSleep, Goto, Ops, NoPanic
  <2> QED BY <2>1, QuietSpace
<1>4. ASSUME NEW p \in Proc, BeginOp(p) PROVE SpaceInv' /\ NoPanic'
  <2>1. NoPanic'
    BY <1>4 DEF BookInv, TypeOK, BeginOp, Goto, NoPanic
  <2> QED BY <1>4, <2>1, BeginOpSpace
<1>5. ASSUME NEW p \in Proc, Commit(p) PROVE SpaceInv' /\ NoPanic'
  <2>1. pc[p] \in Committer
    BY <1>5 DEF Commit, WriteLog, WriteHead, Install, ClearHead, CommitDone, Committer
  <2>2. Ops = {} /\ boot = "up"
    BY <2>1, InCommit
  <2>3. wrote' = wrote /\ boot' = boot /\ (lh' = lh \/ lh' = <<>>)
    BY <1>5 DEF Commit, WriteLog, WriteHead, Install, ClearHead, CommitDone
  <2>4. Ops' = Ops /\ NoPanic'
    BY <1>5, <2>1, <2>2 DEF BookInv, TypeOK, Commit, WriteLog, WriteHead, Install,
       ClearHead, CommitDone, Goto, WakeupLog, Ops, NoPanic
  <2> QED BY <2>2, <2>3, <2>4, QuietSpace
<1>6. ASSUME NEW b \in Block, Load(b) \/ Evict(b) PROVE SpaceInv' /\ NoPanic'
  <2>1. Ops' = Ops /\ lh' = lh /\ wrote' = wrote /\ boot' = boot /\ NoPanic'
    BY <1>6 DEF Load, Evict, Ops, NoPanic
  <2> QED BY <2>1, QuietSpace
<1>7. CASE Crash
  BY <1>7, FS_EmptySet DEF Crash, Volatile, SpaceInv, NoPanic
<1>8. CASE UNCHANGED vars
  <2>1. Ops' = Ops /\ lh' = lh /\ wrote' = wrote /\ boot' = boot /\ NoPanic'
    BY <1>8 DEF vars, Ops, NoPanic
  <2> QED BY <2>1, QuietSpace
<1> QED BY <1>1, <1>2, <1>3, <1>4, <1>5, <1>6, <1>7, <1>8, log_writeSpace, EndOpSpace
        DEF Next, Recover, Call

\* If calls write fewer blocks than begin_op() reserves for them, no panic() of
\* log.c is reached: the transaction never outgrows the log, although header
\* and data share its LOGSIZE blocks and the calls of a transaction write in
\* any order; and end_op() never finds a commit under way.
THEOREM LogNoPanic == ASSUME CallsFit PROVE Spec => []NoPanic
<1>1. Init => SpaceInv /\ NoPanic
  BY FS_EmptySet DEF Init, SpaceInv, NoPanic
<1>2. BookInv /\ SpaceInv /\ NoPanic /\ [Next]_vars => SpaceInv' /\ NoPanic'
  BY NextSpace
<1> QED BY <1>1, <1>2, BookAlways, PTL DEF Spec
-----------------------------------------------------------------------------
\* The blocks that a commit has still to write to the log or to install are
\* pinned, and so in the cache.
LEMMA Pinned ==
    ASSUME BookInv, DirtyInv, NEW i \in DOMAIN lh,
           At("writelog") \/ (At("install") /\ i >= tail)
    PROVE  pin[lh[i]] = 1 /\ lh[i] \in Block /\ cache[lh[i]] # Absent
<1>1. PICK p \in Proc : pc[p] = "writelog" \/ (pc[p] = "install" /\ i >= tail)
  BY DEF At
<1>2. boot = "up" /\ (At("install") => i >= tail)
  BY <1>1, InCommit DEF Committer
<1>3. lh[i] \in Block /\ pin[lh[i]] = 1
  BY <1>2, LogTypes DEF BookInv, PinInv
<1> QED BY <1>3 DEF DirtyInv

\* RecoverHead keeps cache, log and disk in agreement.
LEMMA RecoverHeadData ==
    ASSUME BookInv, DataInv, RecoverHead
    PROVE  DataInv'
<1>1. CleanInv'
  BY LogTypes DEF BookInv, DataInv, TypeOK, CleanInv, BootInv, ondisk,
     RecoverHead
<1>2. DirtyInv'
  BY LogTypes DEF BookInv, DataInv, TypeOK, DirtyInv, BootInv, ondisk,
     RecoverHead
<1>3. LoggedInv'
  BY LogTypes DEF BookInv, DataInv, TypeOK, LoggedInv, At, BootInv, ondisk,
     RecoverHead
<1>4. InstalledInv'
  BY LogTypes DEF BookInv, DataInv, TypeOK, InstalledInv, At, BootInv, ondisk,
     RecoverHead
<1>5. WaitingInv'
  BY LogTypes DEF BookInv, DataInv, TypeOK, WaitingInv, At, BootInv, ondisk,
     RecoverHead
<1> QED BY <1>1, <1>2, <1>3, <1>4, <1>5 DEF DataInv

\* RecoverInstall keeps cache, log and disk in agreement.
LEMMA RecoverInstallData ==
    ASSUME BookInv, DataInv, RecoverInstall
    PROVE  DataInv'
<1>1. CleanInv'
  BY LogTypes DEF BookInv, DataInv, TypeOK, CleanInv, TailInv, Listing,
     BootInv, ondisk, RecoverInstall
<1>2. DirtyInv'
  BY LogTypes DEF BookInv, DataInv, TypeOK, DirtyInv, TailInv, Listing,
     BootInv, ondisk, RecoverInstall
<1>3. LoggedInv'
  BY LogTypes DEF BookInv, DataInv, TypeOK, LoggedInv, At, TailInv, Listing,
     BootInv, ondisk, RecoverInstall
<1>4. InstalledInv'
  BY LogTypes DEF BookInv, DataInv, TypeOK, InstalledInv, At, TailInv, Listing,
     BootInv, ondisk, RecoverInstall
<1>5. WaitingInv'
  BY LogTypes DEF BookInv, DataInv, TypeOK, WaitingInv, At, TailInv, Listing,
     BootInv, ondisk, RecoverInstall
<1> QED BY <1>1, <1>2, <1>3, <1>4, <1>5 DEF DataInv

\* RecoverClear keeps cache, log and disk in agreement.
LEMMA RecoverClearData ==
    ASSUME BookInv, DataInv, RecoverClear
    PROVE  DataInv'
<1>1. CleanInv'
  BY LogTypes DEF BookInv, DataInv, TypeOK, CleanInv, BootInv, ondisk,
     RecoverClear
<1>2. DirtyInv'
  BY LogTypes DEF BookInv, DataInv, TypeOK, DirtyInv, BootInv, ondisk,
     RecoverClear
<1>3. LoggedInv'
  BY LogTypes DEF BookInv, DataInv, TypeOK, LoggedInv, At, BootInv, ondisk,
     RecoverClear
<1>4. InstalledInv'
  BY LogTypes DEF BookInv, DataInv, TypeOK, InstalledInv, At, BootInv, ondisk,
     RecoverClear
<1>5. WaitingInv'
  BY LogTypes DEF BookInv, DataInv, TypeOK, WaitingInv, At, BootInv, ondisk,
     RecoverClear
<1> QED BY <1>1, <1>2, <1>3, <1>4, <1>5 DEF DataInv

\* BeginOpSleep keeps cache, log and disk in agreement.
LEMMA BeginOpSleepData ==
    ASSUME BookInv, DataInv, NEW p \in Proc, BeginOpSleep(p)
    PROVE  DataInv'
<1>1. CleanInv'
  BY LogTypes DEF BookInv, DataInv, TypeOK, CleanInv, ondisk, BeginOpSleep,
     MustWait, Goto
<1>2. DirtyInv'
  BY LogTypes DEF BookInv, DataInv, TypeOK, DirtyInv, ondisk, BeginOpSleep,
     MustWait, Goto
<1>3. LoggedInv'
  BY LogTypes DEF BookInv, DataInv, TypeOK, LoggedInv, At, ondisk,
     BeginOpSleep, MustWait, Goto
<1>4. InstalledInv'
  BY LogTypes DEF BookInv, DataInv, TypeOK, InstalledInv, At, ondisk,
     BeginOpSleep, MustWait, Goto
<1>5. WaitingInv'
  BY LogTypes DEF BookInv, DataInv, TypeOK, WaitingInv, At, ondisk,
     BeginOpSleep, MustWait, Goto
<1> QED BY <1>1, <1>2, <1>3, <1>4, <1>5 DEF DataInv

\* BeginOp keeps cache, log and disk in agreement.
LEMMA BeginOpData ==
    ASSUME BookInv, DataInv, NEW p \in Proc, BeginOp(p)
    PROVE  DataInv'
<1>1. CleanInv'
  BY LogTypes DEF BookInv, DataInv, TypeOK, CleanInv, ondisk, BeginOp,
     MustWait, Goto
<1>2. DirtyInv'
  BY LogTypes DEF BookInv, DataInv, TypeOK, DirtyInv, ondisk, BeginOp,
     MustWait, Goto
<1>3. LoggedInv'
  BY LogTypes DEF BookInv, DataInv, TypeOK, LoggedInv, At, ondisk, BeginOp,
     MustWait, Goto
<1>4. InstalledInv'
  BY LogTypes DEF BookInv, DataInv, TypeOK, InstalledInv, At, ondisk, BeginOp,
     MustWait, Goto
<1>5. WaitingInv'
  BY LogTypes DEF BookInv, DataInv, TypeOK, WaitingInv, At, ondisk, BeginOp,
     MustWait, Goto
<1> QED BY <1>1, <1>2, <1>3, <1>4, <1>5 DEF DataInv

\* log_write keeps cache, log and disk in agreement.
LEMMA log_writeData ==
    ASSUME CallsFit, BookInv, SpaceInv, DataInv,
           NEW p \in Proc, NEW b \in Block, NEW v \in Val, log_write(p, b, v)
    PROVE  DataInv'
<1>1. boot = "up" /\ ~At("writelog") /\ ~At("install")
  BY InCall DEF log_write, Committer
<1>2. /\ pc' = pc /\ boot' = boot /\ disk' = disk
      /\ \A c \in Block : cache'[c] = IF c = b THEN v ELSE cache[c]
  BY log_writeFits DEF BookInv, TypeOK, log_write, ondisk
<1>3. pin'[b] > 0 /\ \A c \in Block : c # b => pin'[c] = pin[c]
  <2>1. CASE InLog(lh, b)
    <3>1. pin[b] = 1
      BY <2>1, <1>1 DEF BookInv, PinInv, InLog
    <3> QED BY <3>1, <2>1, log_writeFits
  <2>2. CASE ~InLog(lh, b)
    BY <2>2, log_writeFits DEF BookInv, TypeOK
  <2> QED BY <2>1, <2>2
<1>4. CleanInv' /\ DirtyInv'
  BY <1>2, <1>3, LogAssumption DEF DataInv, CleanInv, DirtyInv
<1> QED BY <1>1, <1>2, <1>4 DEF DataInv, LoggedInv, InstalledInv, WaitingInv, At

\* EndOp keeps cache, log and disk in agreement.
LEMMA EndOpData ==
    ASSUME BookInv, DataInv, NEW p \in Proc, EndOp(p)
    PROVE  DataInv'
<1>1. CleanInv'
  BY LogTypes, InCall DEF BookInv, DataInv, TypeOK, CleanInv, Committer,
     ondisk, EndOp, Goto, WakeupLog
<1>2. DirtyInv'
  BY LogTypes, InCall DEF BookInv, DataInv, TypeOK, DirtyInv, Committer,
     ondisk, EndOp, Goto, WakeupLog
<1>3. LoggedInv'
  BY LogTypes, InCall DEF BookInv, DataInv, TypeOK, LoggedInv, At, Committer,
     ondisk, EndOp, Goto, WakeupLog
<1>4. InstalledInv'
  BY LogTypes, InCall DEF BookInv, DataInv, TypeOK, InstalledInv, At,
     Committer, ondisk, EndOp, Goto, WakeupLog
<1>5. WaitingInv'
  BY LogTypes, InCall DEF BookInv, DataInv, TypeOK, WaitingInv, At, Committer,
     ondisk, EndOp, Goto, WakeupLog
<1> QED BY <1>1, <1>2, <1>3, <1>4, <1>5 DEF DataInv

\* WriteLog keeps cache, log and disk in agreement.
LEMMA WriteLogData ==
    ASSUME BookInv, DataInv, NEW p \in Proc, WriteLog(p)
    PROVE  DataInv'
<1>a. At("writelog") /\ tail \in DOMAIN lh
  BY LogTypes DEF BookInv, TypeOK, WriteLog, TailInv, At
<1>b. bread(lh[tail]) = cache[lh[tail]] /\ lh[tail] \in Block
  BY <1>a, Pinned DEF DataInv, bread
<1>c. cache' = cache
  BY <1>b DEF BookInv, TypeOK, WriteLog
<1>d. \A i \in DOMAIN lh : i < tail' => i = tail \/ i < tail
  BY LogTypes DEF BookInv, TypeOK, WriteLog
<1>1. CleanInv'
  BY LogTypes, InCommit DEF BookInv, DataInv, TypeOK, CleanInv, Committer,
     TailInv, At, Listing, PinInv, ondisk, WriteLog, bread
<1>2. DirtyInv'
  BY LogTypes, InCommit DEF BookInv, DataInv, TypeOK, DirtyInv, Committer,
     TailInv, At, Listing, PinInv, ondisk, WriteLog, bread
<1>3. LoggedInv'
  <2>1. \A i \in DOMAIN lh : i < tail' =>
            logblk'[i] = IF i = tail THEN cache[lh[tail]] ELSE logblk[i]
    BY <1>a, <1>b, LogTypes, LogAssumption DEF BookInv, TypeOK, Listing, WriteLog
  <2> QED BY <1>a, <1>c, <1>d, <2>1 DEF DataInv, LoggedInv, WriteLog
<1>4. InstalledInv'
  BY LogTypes, InCommit DEF BookInv, DataInv, TypeOK, InstalledInv, At,
     Committer, TailInv, Listing, PinInv, ondisk, WriteLog, bread
<1>5. WaitingInv'
  BY LogTypes, InCommit DEF BookInv, DataInv, TypeOK, WaitingInv, At,
     Committer, TailInv, Listing, PinInv, ondisk, WriteLog, bread
<1> QED BY <1>1, <1>2, <1>3, <1>4, <1>5 DEF DataInv

\* WriteHead keeps cache, log and disk in agreement.
LEMMA WriteHeadData ==
    ASSUME BookInv, DataInv, NEW p \in Proc, WriteHead(p)
    PROVE  DataInv'
<1>1. CleanInv'
  BY LogTypes, InCommit DEF BookInv, DataInv, TypeOK, CleanInv, Committer,
     ondisk, WriteHead, Goto
<1>2. DirtyInv'
  BY LogTypes, InCommit DEF BookInv, DataInv, TypeOK, DirtyInv, Committer,
     ondisk, WriteHead, Goto
<1>3. LoggedInv'
  BY LogTypes, InCommit DEF BookInv, DataInv, TypeOK, LoggedInv, At, Committer,
     ondisk, WriteHead, Goto
<1>4. InstalledInv'
  BY LogTypes, InCommit DEF BookInv, DataInv, TypeOK, InstalledInv, At,
     Committer, ondisk, WriteHead, Goto
<1>5. WaitingInv'
  <2>1. At("writelog") /\ \A i \in DOMAIN lh : i < tail
    BY LogTypes DEF BookInv, TypeOK, At, WriteHead
  <2>2. \A i \in DOMAIN lh : logblk[i] = cache[lh[i]]
    BY <2>1 DEF DataInv, LoggedInv
  <2> QED BY <2>2 DEF WaitingInv, WriteHead
<1> QED BY <1>1, <1>2, <1>3, <1>4, <1>5 DEF DataInv

\* Install keeps cache, log and disk in agreement.
LEMMA InstallData ==
    ASSUME BookInv, DataInv, NEW p \in Proc, Install(p)
    PROVE  DataInv'
<1>a. At("install") /\ ~At("writelog") /\ At("install")' /\ ~At("writelog")'
  BY InCommit DEF Install, Committer, At
<1>b. tail \in DOMAIN lh /\ lh[tail] \in Block /\ logblk[tail] # Absent
  BY <1>a, LogTypes, LogAssumption DEF BookInv, TypeOK, Install, TailInv
<1>c. pin[lh[tail]] = 1 /\ cache[lh[tail]] = logblk[tail]
  BY <1>a, <1>b, Pinned DEF DataInv, WaitingInv, BookInv, TypeOK
<1>d. cache' = cache
  BY <1>b, <1>c DEF BookInv, TypeOK, Install
<1>e. \A i \in DOMAIN lh : i # tail => lh[i] # lh[tail] /\ lh[i] \in Block
  BY <1>b, LogTypes DEF BookInv, Listing
<1>1. CleanInv'
  BY LogTypes, InCommit DEF BookInv, DataInv, TypeOK, CleanInv, Committer,
     TailInv, At, Listing, PinInv, ondisk, Install
<1>2. DirtyInv'
  BY <1>b, <1>c, <1>d DEF BookInv, TypeOK, DataInv, DirtyInv, Install
<1>3. LoggedInv'
  BY LogTypes, InCommit DEF BookInv, DataInv, TypeOK, LoggedInv, At, Committer,
     TailInv, Listing, PinInv, ondisk, Install
<1>4. InstalledInv'
  <2>1. \A i \in DOMAIN lh : i < tail' => i = tail \/ i < tail
    BY LogTypes DEF BookInv, TypeOK, Install
  <2>2. \A i \in DOMAIN lh : disk'[lh[i]] = IF i = tail THEN logblk[i] ELSE disk[lh[i]]
    BY <1>b, <1>e DEF BookInv, TypeOK, Install
  <2> QED BY <1>a, <2>1, <2>2 DEF DataInv, InstalledInv, Install
<1>5. WaitingInv'
  BY <1>a, <1>b, <1>d, LogTypes DEF BookInv, TypeOK, DataInv, WaitingInv, Install
<1> QED BY <1>1, <1>2, <1>3, <1>4, <1>5 DEF DataInv

\* ClearHead keeps cache, log and disk in agreement.
LEMMA ClearHeadData ==
    ASSUME BookInv, DataInv, NEW p \in Proc, ClearHead(p)
    PROVE  DataInv'
<1>1. CleanInv'
  BY LogTypes, InCommit DEF BookInv, DataInv, TypeOK, CleanInv, Committer,
     ondisk, ClearHead, Goto
<1>2. DirtyInv'
  BY LogTypes, InCommit DEF BookInv, DataInv, TypeOK, DirtyInv, Committer,
     ondisk, ClearHead, Goto
<1>3. LoggedInv'
  BY LogTypes, InCommit DEF BookInv, DataInv, TypeOK, LoggedInv, At, Committer,
     ondisk, ClearHead, Goto
<1>4. InstalledInv'
  BY LogTypes, InCommit DEF BookInv, DataInv, TypeOK, InstalledInv, At,
     Committer, ondisk, ClearHead, Goto
<1>5. WaitingInv'
  BY LogTypes, InCommit DEF BookInv, DataInv, TypeOK, WaitingInv, At,
     Committer, ondisk, ClearHead, Goto
<1> QED BY <1>1, <1>2, <1>3, <1>4, <1>5 DEF DataInv

\* CommitDone keeps cache, log and disk in agreement.
LEMMA CommitDoneData ==
    ASSUME BookInv, DataInv, NEW p \in Proc, CommitDone(p)
    PROVE  DataInv'
<1>1. CleanInv'
  BY LogTypes, InCommit DEF BookInv, DataInv, TypeOK, CleanInv, Committer,
     ondisk, CommitDone, WakeupLog
<1>2. DirtyInv'
  BY LogTypes, InCommit DEF BookInv, DataInv, TypeOK, DirtyInv, Committer,
     ondisk, CommitDone, WakeupLog
<1>3. LoggedInv'
  BY LogTypes, InCommit DEF BookInv, DataInv, TypeOK, LoggedInv, At, Committer,
     ondisk, CommitDone, WakeupLog
<1>4. InstalledInv'
  BY LogTypes, InCommit DEF BookInv, DataInv, TypeOK, InstalledInv, At,
     Committer, ondisk, CommitDone, WakeupLog
<1>5. WaitingInv'
  BY LogTypes, InCommit DEF BookInv, DataInv, TypeOK, WaitingInv, At,
     Committer, ondisk, CommitDone, WakeupLog
<1> QED BY <1>1, <1>2, <1>3, <1>4, <1>5 DEF DataInv

\* Load keeps cache, log and disk in agreement.
LEMMA LoadData ==
    ASSUME BookInv, DataInv, NEW b \in Block, Load(b)
    PROVE  DataInv'
<1>a. \A i \in DOMAIN lh : /\ At("writelog") => lh[i] # b
                           /\ At("install") /\ i >= tail => lh[i] # b
  BY Pinned DEF DataInv, Load
<1>b. \A i \in DOMAIN lh : lh[i] # b => cache'[lh[i]] = cache[lh[i]]
  BY LogTypes DEF BookInv, TypeOK, Load
<1>c. UNCHANGED <<logblk, lh, tail, pc>>
  BY DEF Load, ondisk
<1>d. (At("writelog")' <=> At("writelog")) /\ (At("install")' <=> At("install"))
  BY <1>c DEF At
<1>1. CleanInv'
  BY LogTypes DEF BookInv, DataInv, TypeOK, CleanInv, ondisk, Load
<1>2. DirtyInv'
  BY LogTypes DEF BookInv, DataInv, TypeOK, DirtyInv, ondisk, Load
<1>3. LoggedInv'
  BY <1>a, <1>b, <1>c, <1>d DEF DataInv, LoggedInv
<1>4. InstalledInv'
  BY LogTypes DEF BookInv, DataInv, TypeOK, InstalledInv, At, ondisk, Load
<1>5. WaitingInv'
  BY <1>a, <1>b, <1>c, <1>d DEF DataInv, WaitingInv
<1> QED BY <1>1, <1>2, <1>3, <1>4, <1>5 DEF DataInv

\* Evict keeps cache, log and disk in agreement.
LEMMA EvictData ==
    ASSUME BookInv, DataInv, NEW b \in Block, Evict(b)
    PROVE  DataInv'
<1>a. \A i \in DOMAIN lh : /\ At("writelog") => lh[i] # b
                           /\ At("install") /\ i >= tail => lh[i] # b
  BY Pinned DEF DataInv, Evict
<1>b. \A i \in DOMAIN lh : lh[i] # b => cache'[lh[i]] = cache[lh[i]]
  BY LogTypes DEF BookInv, TypeOK, Evict
<1>c. UNCHANGED <<logblk, lh, tail, pc>>
  BY DEF Evict, ondisk
<1>d. (At("writelog")' <=> At("writelog")) /\ (At("install")' <=> At("install"))
  BY <1>c DEF At
<1>1. CleanInv'
  BY LogTypes DEF BookInv, DataInv, TypeOK, CleanInv, ondisk, Evict
<1>2. DirtyInv'
  BY LogTypes DEF BookInv, DataInv, TypeOK, DirtyInv, ondisk, Evict
<1>3. LoggedInv'
  BY <1>a, <1>b, <1>c, <1>d DEF DataInv, LoggedInv
<1>4. InstalledInv'
  BY LogTypes DEF BookInv, DataInv, TypeOK, InstalledInv, At, ondisk, Evict
<1>5. WaitingInv'
  BY <1>a, <1>b, <1>c, <1>d DEF DataInv, WaitingInv
<1> QED BY <1>1, <1>2, <1>3, <1>4, <1>5 DEF DataInv

\* Crash keeps cache, log and disk in agreement.
LEMMA CrashData ==
    ASSUME BookInv, DataInv, Crash
    PROVE  DataInv'
<1>1. CleanInv'
  BY LogTypes DEF BookInv, DataInv, TypeOK, CleanInv, ondisk, Crash, Volatile
<1>2. DirtyInv'
  BY LogTypes DEF BookInv, DataInv, TypeOK, DirtyInv, ondisk, Crash, Volatile
<1>3. LoggedInv'
  BY LogTypes DEF BookInv, DataInv, TypeOK, LoggedInv, At, ondisk, Crash,
     Volatile
<1>4. InstalledInv'
  BY LogTypes DEF BookInv, DataInv, TypeOK, InstalledInv, At, ondisk, Crash,
     Volatile
<1>5. WaitingInv'
  BY LogTypes DEF BookInv, DataInv, TypeOK, WaitingInv, At, ondisk, Crash,
     Volatile
<1> QED BY <1>1, <1>2, <1>3, <1>4, <1>5 DEF DataInv
\* Every step keeps cache, log and disk in agreement.
LEMMA NextData ==
    ASSUME CallsFit, BookInv, SpaceInv, DataInv, [Next]_vars
    PROVE  DataInv'
<1>1. CASE Recover
  BY <1>1, RecoverHeadData, RecoverInstallData, RecoverClearData DEF Recover
<1>2. ASSUME NEW p \in Proc, Call(p) PROVE DataInv'
  BY <1>2, BeginOpSleepData, BeginOpData, log_writeData, EndOpData DEF Call
<1>3. ASSUME NEW p \in Proc, Commit(p) PROVE DataInv'
  BY <1>3, WriteLogData, WriteHeadData, InstallData, ClearHeadData, CommitDoneData
     DEF Commit
<1>4. ASSUME NEW b \in Block, Load(b) \/ Evict(b) PROVE DataInv'
  BY <1>4, LoadData, EvictData
<1>5. CASE Crash
  BY <1>5, CrashData
<1>6. CASE UNCHANGED vars
  BY <1>6 DEF vars, DataInv, CleanInv, DirtyInv, LoggedInv, InstalledInv, WaitingInv,
     At
<1> QED BY <1>1, <1>2, <1>3, <1>4, <1>5, <1>6 DEF Next
-----------------------------------------------------------------------------
\* The block of a listing at i is found there.
LEMMA ChooseIndex ==
    ASSUME NEW h, \A i, j \in DOMAIN h : h[i] = h[j] => i = j, NEW k \in DOMAIN h
    PROVE  (CHOOSE i \in DOMAIN h : h[i] = h[k]) = k
  OBVIOUS

\* What recovery makes of a block.
LEMMA RecoveredIs ==
    ASSUME BookInv, NEW b \in Block
    PROVE  /\ \A i \in DOMAIN head : head[i] = b => Recovered(b) = logblk[i]
           /\ ~InLog(head, b) => Recovered(b) = disk[b]
           /\ Recovered(b) \in Val
<1>1. ASSUME NEW i \in DOMAIN head, head[i] = b PROVE Recovered(b) = logblk[i]
  BY <1>1, ChooseIndex DEF BookInv, Listing, Recovered, InLog
<1>2. ~InLog(head, b) => Recovered(b) = disk[b]
  BY DEF Recovered
<1> QED BY <1>1, <1>2, LogTypes DEF BookInv, TypeOK, InLog

\* A block that is not pinned is in memory as it is on disk.
LEMMA CleanRead ==
    ASSUME BookInv, DataInv, NEW b \in Block, pin[b] = 0
    PROVE  bread(b) = disk[b]
  BY DEF DataInv, CleanInv, bread

\* Steps that change neither the disk nor what calls read stutter.
LEMMA QuietRefines ==
    ASSUME disk' = disk, logblk' = logblk, head' = head, boot' = boot, Active' = Active,
           \A b \in Block : boot = "up" => bread(b)' = bread(b)
    PROVE  UNCHANGED A!atomicvars
<1>1. \A b \in Block : Recovered(b)' = Recovered(b)
  BY DEF Recovered, InLog
<1> QED BY <1>1 DEF A!atomicvars, Memory, Stable

\* The steps of recovery change nothing that a crash would not bring back.
LEMMA RecoverRefines ==
    ASSUME BookInv, DataInv, Recover
    PROVE  UNCHANGED A!atomicvars
<1>1. boot # "up" /\ Active = {}
  BY DEF Recover, RecoverHead, RecoverInstall, RecoverClear, BookInv, BootInv, Active
<1>2. CASE RecoverHead
  <2>1. Active' = Active /\ \A b \in Block : Recovered(b)' = Recovered(b)
    BY <1>2 DEF RecoverHead, Active, Recovered, InLog, ondisk
  <2> QED BY <2>1, <1>1, <1>2 DEF RecoverHead, A!atomicvars, Memory, Stable
<1>3. CASE RecoverInstall
  <2>1. Active' = Active /\ boot' = boot
    BY <1>3 DEF RecoverInstall, Active
  <2>2. lh = head /\ tail \in DOMAIN head /\ head[tail] \in Block
    BY <1>3, LogTypes DEF RecoverInstall, BookInv, TypeOK, BootInv, TailInv
  <2>3. \A b \in Block : Recovered(b)' = Recovered(b)
    BY <1>3, <2>2 DEF RecoverInstall, Recovered, InLog, BookInv, TypeOK
  <2> QED BY <2>1, <2>3, <1>1 DEF A!atomicvars, Memory, Stable
<1>4. CASE RecoverClear
  <2>1. Active' = {} /\ boot' = "up"
    BY <1>4 DEF RecoverClear, Active
  <2>2. \A i \in DOMAIN head : disk[head[i]] = logblk[i]
    BY <1>4, LogTypes DEF RecoverClear, BookInv, TypeOK, BootInv, DataInv, InstalledInv
  <2>3. \A b \in Block : Recovered(b) = disk[b]
    BY <2>2, RecoveredIs DEF InLog
  <2>4. \A b \in Block : Recovered(b)' = disk[b] /\ bread(b)' = disk[b]
    <3>1. head' = <<>> /\ disk' = disk /\ cache' = cache
      BY <1>4 DEF RecoverClear
    <3>2. \A b \in Block : bread(b) = disk[b]
      BY <1>1, CleanRead DEF BookInv, BootInv
    <3> QED BY <3>1, <3>2 DEF Recovered, InLog, bread
  <2> QED BY <2>1, <2>3, <2>4, <1>1 DEF A!atomicvars, Memory, Stable
<1> QED BY <1>2, <1>3, <1>4 DEF Recover

\* The steps of a call begin it, write a block, or end it.
LEMMA CallRefines ==
    ASSUME CallsFit, BookInv, SpaceInv, NoPanic, NoPanic', NEW p \in Proc, Call(p)
    PROVE  [A!AtomicNext]_A!atomicvars
<1>1. CASE BeginOpSleep(p)
  <2>1. Active' = Active
    BY <1>1 DEF BeginOpSleep, Goto, Active, BookInv, TypeOK
  <2> QED BY <1>1, <2>1, QuietRefines DEF BeginOpSleep, ondisk, bread
<1>2. CASE BeginOp(p)
  <2>1. p \notin Active /\ Active' = Active \cup {p}
    BY <1>2 DEF BeginOp, Goto, Active, BookInv, TypeOK
  <2>2. Memory' = Memory /\ Stable' = Stable
    BY <1>2 DEF BeginOp, ondisk, Memory, Stable, bread, Recovered, InLog
  <2> QED BY <2>1, <2>2 DEF A!AtomicNext, A!Begin
<1>3. ASSUME NEW b \in Block, NEW v \in Val, log_write(p, b, v) PROVE A!AtomicNext
  <2>1. boot = "up" /\ pc' = pc /\ p \in Active
    BY <1>3, log_writeFits, InCall DEF log_write, Active
  <2>2. Stable' = Stable /\ Active' = Active
    BY <1>3, <2>1 DEF log_write, ondisk, Active, Stable, Recovered, InLog
  <2>3. Memory' = [Memory EXCEPT ![b] = v]
    <3>1. \A c \in Block : bread(c)' = IF c = b THEN v ELSE bread(c)
      BY <1>3, LogAssumption DEF log_write, ondisk, bread, BookInv, TypeOK
    <3>2. boot' = "up"
      BY <1>3, <2>1 DEF log_write
    <3> QED BY <2>1, <3>1, <3>2 DEF Memory
  <2> QED BY <2>1, <2>2, <2>3 DEF A!AtomicNext, A!Write
<1>4. CASE EndOp(p)
  <2>1. p \in Active /\ Active' = Active \ {p}
    BY <1>4, InCall DEF EndOp, Goto, WakeupLog, Active, BookInv, TypeOK
  <2>2. Memory' = Memory /\ Stable' = Stable
    BY <1>4 DEF EndOp, ondisk, Memory, Stable, bread, Recovered, InLog
  <2> QED BY <2>1, <2>2 DEF A!AtomicNext, A!End
<1> QED BY <1>1, <1>2, <1>3, <1>4 DEF Call

\* Of the steps of a commit, the one that writes the header makes the changes
\* stable.
LEMMA CommitRefines ==
    ASSUME BookInv, DataInv, NEW p \in Proc, Commit(p)
    PROVE  [A!AtomicNext]_A!atomicvars
<1>1. pc[p] \in Committer
  BY DEF Commit, WriteLog, WriteHead, Install, ClearHead, CommitDone, Committer
<1>2. /\ boot = "up" /\ Ops = {} /\ Active = {}
      /\ \A l \in Committer : At(l) <=> pc[p] = l
  BY <1>1, InCommit DEF Ops, Active
<1>3. Active' = {}
  BY <1>1, <1>2 DEF Commit, WriteLog, WriteHead, Install, ClearHead, CommitDone, Goto,
     WakeupLog, Active, BookInv, TypeOK
<1>4. CASE WriteLog(p)
  <2>1. head = <<>>
    BY <1>2, <1>4 DEF WriteLog, Committer, BookInv, HeadInv
  <2>2. \A b \in Block : Recovered(b) = disk[b] /\ Recovered(b)' = disk[b]
    BY <1>4, <2>1 DEF WriteLog, Recovered, InLog
  <2>3. tail \in DOMAIN lh /\ lh[tail] \in Block
    BY <1>4, LogTypes DEF WriteLog, BookInv, TypeOK, TailInv, At
  <2>4. \A b \in Block : bread(b)' = bread(b)
    BY <1>4, <2>3 DEF WriteLog, bread, BookInv, TypeOK
  <2> QED BY <1>2, <1>3, <1>4, <2>2, <2>4 DEF WriteLog, A!atomicvars, Memory, Stable
<1>5. CASE WriteHead(p)
  <2>1. At("writelog") /\ ~At("install") /\ \A i \in DOMAIN lh : i < tail
    BY <1>2, <1>5, LogTypes DEF WriteHead, Committer, BookInv, TypeOK
  <2>2. \A i \in DOMAIN lh : logblk[i] = bread(lh[i])
    BY <2>1, Pinned DEF DataInv, LoggedInv, bread
  <2>3. \A b \in Block : ~InLog(lh, b) => bread(b) = disk[b]
    BY <1>2, CleanRead DEF BookInv, PinInv, InLog
  <2>4. head' = lh /\ disk' = disk /\ logblk' = logblk /\ cache' = cache /\ boot' = boot
    BY <1>5 DEF WriteHead
  <2>5. \A b \in Block : Recovered(b)' = bread(b)
    BY <2>2, <2>3, <2>4 DEF Recovered, InLog
  <2>6. Memory' = Memory /\ Stable' = Memory
    BY <1>2, <2>4, <2>5 DEF Memory, Stable, bread
  <2> QED BY <1>2, <1>3, <2>6 DEF A!AtomicNext, A!Commit
<1>6. CASE Install(p)
  <2>1. At("install") /\ lh = head /\ tail \in DOMAIN lh /\ lh[tail] \in Block
    BY <1>2, <1>6, LogTypes DEF Install, Committer, BookInv, TypeOK, HeadInv, TailInv
  <2>2. cache[lh[tail]] = logblk[tail] /\ cache[lh[tail]] # Absent
    BY <2>1, Pinned DEF DataInv, WaitingInv, BookInv, TypeOK
  <2>3. \A b \in Block : bread(b)' = bread(b)
    BY <1>6, <2>1, <2>2 DEF Install, bread, BookInv, TypeOK
  <2>4. \A b \in Block : Recovered(b)' = Recovered(b)
    BY <1>6, <2>1 DEF Install, Recovered, InLog, BookInv, TypeOK
  <2> QED BY <1>2, <1>3, <1>6, <2>3, <2>4 DEF Install, A!atomicvars, Memory, Stable
<1>7. CASE ClearHead(p)
  <2>1. At("install") /\ lh = head
    BY <1>2, <1>7 DEF ClearHead, Committer, BookInv, HeadInv
  <2>2. \A i \in DOMAIN head : disk[head[i]] = logblk[i]
    BY <1>7, <2>1, LogTypes DEF ClearHead, BookInv, TypeOK, DataInv, InstalledInv
  <2>3. \A b \in Block : Recovered(b) = disk[b]
    BY <2>2, RecoveredIs DEF InLog
  <2>4. \A b \in Block : Recovered(b)' = disk[b] /\ bread(b)' = bread(b)
    BY <1>7 DEF ClearHead, Recovered, InLog, bread
  <2> QED BY <1>2, <1>3, <1>7, <2>3, <2>4 DEF ClearHead, A!atomicvars, Memory, Stable
<1>8. CASE CommitDone(p)
  BY <1>2, <1>3, <1>8, QuietRefines DEF CommitDone, ondisk, bread
<1> QED BY <1>4, <1>5, <1>6, <1>7, <1>8 DEF Commit

\* Every step of the log is a step of AtomicDisk, or changes nothing of it.
LEMMA StepRefines ==
    ASSUME CallsFit, BookInv, SpaceInv, NoPanic, NoPanic', DataInv, [Next]_vars
    PROVE  [A!AtomicNext]_A!atomicvars
<1>1. ASSUME NEW b \in Block, Load(b) \/ Evict(b) PROVE UNCHANGED A!atomicvars
  <2>1. \A c \in Block : bread(c)' = bread(c)
    BY <1>1, CleanRead DEF Load, Evict, bread, ondisk, BookInv, TypeOK
  <2> QED BY <1>1, <2>1, QuietRefines DEF Load, Evict, ondisk, Active
<1>2. CASE Crash
  <2>1. Active' = {} /\ boot' = "head"
    BY <1>2 DEF Crash, Volatile, Active
  <2>2. Stable' = Stable /\ Memory' = Stable
    BY <1>2, <2>1 DEF Crash, ondisk, Stable, Memory, Recovered, InLog
  <2> QED BY <2>1, <2>2 DEF A!AtomicNext, A!Crash
<1>3. CASE UNCHANGED vars
  BY <1>3 DEF vars, A!atomicvars, Memory, Stable, Active, bread, Recovered, InLog
<1> QED BY <1>1, <1>2, <1>3, RecoverRefines, CallRefines, CommitRefines DEF Next

\* The disk that mkfs made is one that AtomicDisk may start with.
LEMMA InitRefines == Init => A!AtomicInit
<1> SUFFICES ASSUME Init PROVE A!AtomicInit
  OBVIOUS
<1>1. \A b \in Block : Recovered(b) = disk[b]
  BY DEF Init, Recovered, InLog
<1>2. Active = {} /\ boot = "head" /\ disk \in [Block -> Val]
  BY DEF Init, Active
<1> QED BY <1>1, <1>2 DEF A!AtomicInit, Memory, Stable

\* If calls write fewer blocks than begin_op() reserves for them, the log
\* implements AtomicDisk, with a crash between any two disk writes and while
\* recovering: the disk comes back with all changes of the transactions whose
\* header was written and with nothing of the one whose header was not, and
\* what calls read is always what was written last.
THEOREM LogAtomic == ASSUME CallsFit PROVE Spec => ImplementsAtomicDisk
<1>1. Init => SpaceInv /\ NoPanic /\ DataInv
  BY FS_EmptySet DEF Init, SpaceInv, NoPanic, DataInv, CleanInv, DirtyInv, LoggedInv,
     InstalledInv, WaitingInv, At
<1>2. BookInv /\ SpaceInv /\ NoPanic /\ DataInv /\ [Next]_vars
          => SpaceInv' /\ NoPanic' /\ DataInv'
  BY NextSpace, NextData
<1>3. BookInv /\ SpaceInv /\ NoPanic /\ NoPanic' /\ DataInv /\ [Next]_vars
          => [A!AtomicNext]_A!atomicvars
  BY StepRefines
<1> QED BY <1>1, <1>2, <1>3, BookAlways, InitRefines, PTL
        DEF Spec, ImplementsAtomicDisk, A!AtomicSpec
=============================================================================
