---------------------------- MODULE BlockIOProofs ----------------------------
(***************************************************************************)
(* Proofs about VirtioDisk, alone and under BufferCache, for any number of *)
(* processes, buffers, blocks and descriptors.                             *)
(***************************************************************************)
EXTENDS BufferCache, FiniteSetTheorems, SequenceTheorems, WellFoundedInduction, TLAPS

\* Where a process is in virtio_disk_rw(), and where its request is under way.
InRw == {"rw", "dsleep", "iosleep", "io"}
InIo == {"iosleep", "io"}

PCs == {"idle", "lock", "lksleep", "rw", "dsleep", "iosleep", "io", "held", "rel"}

\* The ring indices, how far j is ahead of i, and the indices from i up to j.
Index       == 0 .. IdxMax1 - 1
Ahead(i, j) == IF i <= j THEN j - i ELSE j + IdxMax1 - i
Window(i, j) == {x \in Index : Ahead(i, x) < Ahead(i, j)}

\* The processes whose request is under way, and the heads of their chains.
Users     == {p \in Proc : idx0[p] # None}
BusyUsers == {p \in Users : busy[mybuf[p]]}
Heads     == {idx0[p] : p \in Users}

\* The requests in the avail ring and in the used ring.
AvailHeads == {availRing[x % NUM] : x \in Window(seen, availIdx)}
UsedHeads  == {usedRing[x % NUM] : x \in Window(used_idx, usedIdx)}

Request == [b : Buf \cup {None}, sector : Block \cup {None}, write : BOOLEAN]

DriverTypes ==
    /\ pc \in [Proc -> PCs] /\ mybuf \in [Proc -> Buf \cup {None}]
    /\ wr \in [Proc -> BOOLEAN] /\ idx0 \in [Proc -> Desc \cup {None}]
    /\ data \in [Buf -> Val] /\ blockno \in [Buf -> Block \cup {None}]
    /\ busy \in [Buf -> BOOLEAN]
    /\ free \subseteq Desc /\ next \in [Desc -> Desc \cup {None}]
    /\ op \in [Desc -> Request] /\ status \in [Desc -> Nat]
    /\ availRing \in [Desc -> Desc \cup {None}] /\ usedRing \in [Desc -> Desc \cup {None}]
    /\ availIdx \in Index /\ seen \in Index /\ usedIdx \in Index /\ used_idx \in Index
    /\ inflight \subseteq Desc /\ irq \in BOOLEAN /\ intr \in BOOLEAN
    /\ platter \in [Block -> Val]

\* The callers have a buffer each, and a request says what its caller asked for.
CallerInv ==
    /\ \A p \in Proc :
          /\ idx0[p] # None <=> pc[p] \in InIo
          /\ pc[p] \in InRw => mybuf[p] \in Buf /\ blockno[mybuf[p]] \in Block
          /\ pc[p] \in InIo =>
                op[idx0[p]] = [b |-> mybuf[p], sector |-> blockno[mybuf[p]], write |-> wr[p]]
    /\ \A p, q \in Proc :
          pc[p] \in InRw /\ pc[q] \in InRw /\ mybuf[p] = mybuf[q] => p = q

\* Chains have three descriptors, and none is lost.
ChainInv ==
    /\ \A p \in Users :
          LET h == idx0[p] IN
            /\ h \in Desc /\ next[h] \in Desc /\ next[next[h]] \in Desc
            /\ h # next[h] /\ h # next[next[h]] /\ next[h] # next[next[h]]
    /\ DescriptorsConserved
    /\ Cardinality(free) + 3 * Cardinality(Users) = NUM

\* A ring has a different request at each index of its window.
RingInv ==
    /\ \A x \in Window(seen, availIdx) : availRing[x % NUM] \in Heads
    /\ \A x \in Window(used_idx, usedIdx) : usedRing[x % NUM] \in Heads
    /\ \A x, y \in Window(seen, availIdx) :
          availRing[x % NUM] = availRing[y % NUM] => x = y
    /\ \A x, y \in Window(used_idx, usedIdx) :
          usedRing[x % NUM] = usedRing[y % NUM] => x = y

\* A request that is busy is in one of three places.
PlaceInv ==
    /\ inflight \subseteq Heads
    /\ AvailHeads \cap inflight = {} /\ AvailHeads \cap UsedHeads = {}
    /\ inflight \cap UsedHeads = {}
    /\ \A p \in Users : busy[mybuf[p]] <=> idx0[p] \in AvailHeads \cup inflight \cup UsedHeads
    /\ \A h \in UsedHeads : status[h] = 0

\* The rings have room: they hold no more requests than are busy.
RoomInv ==
    Ahead(seen, availIdx) + Cardinality(inflight) + Ahead(used_idx, usedIdx)
        <= Cardinality(BusyUsers)

\* The inductive invariant of the driver.
RequestInv ==
    /\ DriverTypes /\ CallerInv /\ ChainInv /\ RingInv /\ PlaceInv /\ RoomInv
    /\ DescSleepersHaveReason

\* Where a process holds a buffer's sleep lock.
Locked == InRw \cup {"held"}

\* Who has which buffer, and who has its lock.
OwnerInv ==
    /\ \A p \in Proc : /\ mybuf[p] = None <=> pc[p] = "idle"
                       /\ mybuf[p] # None => blockno[mybuf[p]] \in Block
                       /\ pc[p] \in {"idle", "lock", "lksleep"} => ~wr[p]
    /\ \A p \in Proc : pc[p] \in Locked => owner[mybuf[p]] = p
    /\ \A b \in Buf : owner[b] # None => mybuf[owner[b]] = b /\ pc[owner[b]] \in Locked

\* A buffer is valid when somebody reads or changes its data.
ValidInv ==
    /\ \A p \in Proc : /\ pc[p] = "held" => valid[mybuf[p]]
                       /\ pc[p] \in InRw => (valid[mybuf[p]] <=> wr[p])
    /\ \A b \in Buf : valid[b] => blockno[b] \in Block

\* The processes between bget() and brelse(), for each buffer.
Refs(b) == {p \in Proc : mybuf[p] = b}

CountInv ==
    \A b \in Buf : refcnt[b] = Cardinality(Refs(b)) + Cardinality(pinned \cap {b})

\* Every buffer is in the list.
LruInv ==
    lru \in Seq(Buf) /\ Len(lru) = Cardinality(Buf) /\ ToSet(lru) = Buf

BufTypes ==
    /\ valid \in [Buf -> BOOLEAN] /\ refcnt \in [Buf -> Nat] /\ pinned \subseteq Buf
    /\ owner \in [Buf -> Proc \cup {None}] /\ latest \in [Block -> Val]

\* The inductive invariant of the cache.
BufferInv ==
    /\ BufTypes /\ OwnerInv /\ ValidInv /\ CountInv /\ LruInv
    /\ OneBufferPerBlock /\ LockSleepersHaveReason

\* The device has carried out the request of p, or has not yet.
Done(p) == pc[p] \in InIo /\ status[idx0[p]] = 0
ToDo(p) == pc[p] \in InRw /\ ~Done(p)

\* The handler only lets requests go on that the device has carried out.
StatusInv == \A p \in Proc : pc[p] \in InIo /\ ~busy[mybuf[p]] => Done(p)

\* A valid buffer has what was last put into its block, and so has one that was
\* read; what was written is on the disk; what is not is pinned or being written.
ContentInv ==
    /\ \A b \in Buf : valid[b] => data[b] = latest[blockno[b]]
    /\ \A p \in Proc : Done(p) => data[mybuf[p]] = latest[blockno[mybuf[p]]]
    /\ \A p \in Proc : (pc[p] = "held" \/ Done(p)) /\ wr[p] =>
                          platter[blockno[mybuf[p]]] = latest[blockno[mybuf[p]]]
    /\ \A k \in Block : platter[k] # latest[k] =>
          \E b \in Buf : /\ blockno[b] = k /\ valid[b]
                         /\ b \in pinned \/ \E p \in Proc : mybuf[p] = b /\ ToDo(p)
-----------------------------------------------------------------------------
(***************************************************************************)
(* The ring indices.                                                       *)
(***************************************************************************)
Succ(i) == (i + 1) % IdxMax1

\* A number below the modulus is its own remainder.
LEMMA ModSmall ==
    ASSUME NEW n \in Nat \ {0}, NEW a \in Nat, a < n
    PROVE  a % n = a
  OBVIOUS

\* Two numbers with one remainder differ by a multiple.
LEMMA ModDiff ==
    ASSUME NEW n \in Nat \ {0}, NEW a \in Nat, NEW b \in Nat, a % n = b % n
    PROVE  \E q \in Int : a - b = n * q
<1>1. \A x \in Nat : x = n * (x \div n) + (x % n)
  OBVIOUS
<1>2. a \div n \in Int /\ b \div n \in Int /\ a % n \in Nat
  OBVIOUS
<1> DEFINE q == (a \div n) - (b \div n)
<1>3. a - b = n * (a \div n) - n * (b \div n)
  BY <1>1, <1>2
<1>4. a - b = n * q /\ q \in Int
  BY <1>2, <1>3
<1> HIDE DEF q
<1> QED BY <1>4

\* A multiple that is smaller than the modulus is 0.
LEMMA SmallMultiple ==
    ASSUME NEW n \in Nat \ {0}, NEW q \in Int, n * q < n, -n < n * q
    PROVE  q = 0
<1>1. CASE q >= 1
  <2>1. n * q >= n
    BY <1>1
  <2> QED BY <2>1
<1>2. CASE q <= -1
  <2>1. n * q <= -n
    BY <1>2
  <2> QED BY <2>1
<1> QED BY <1>1, <1>2

\* The next index of a ring, with the wrap at the end.
LEMMA SuccIs ==
    \A i \in Index : /\ Succ(i) = IF i + 1 = IdxMax1 THEN 0 ELSE i + 1
                     /\ Succ(i) \in Index
<1> SUFFICES ASSUME NEW i \in Index
             PROVE  /\ Succ(i) = IF i + 1 = IdxMax1 THEN 0 ELSE i + 1
                    /\ Succ(i) \in Index
  OBVIOUS
<1>1. IdxMax1 \in Nat \ {0} /\ i \in Nat /\ i < IdxMax1
  BY DiskAssumption DEF Index
<1>2. CASE i + 1 = IdxMax1
  <2>1. IdxMax1 % IdxMax1 = 0
    BY <1>1
  <2> QED BY <1>1, <1>2, <2>1 DEF Succ, Index
<1>3. CASE i + 1 # IdxMax1
  <2>1. i + 1 < IdxMax1
    BY <1>1, <1>3
  <2>2. (i + 1) % IdxMax1 = i + 1
    BY <1>1, <2>1, ModSmall
  <2> QED BY <1>1, <2>1, <2>2 DEF Succ, Index
<1> QED BY <1>2, <1>3

\* An index names a slot of the ring.
LEMMA SlotIs == \A i \in Index : i % NUM \in Desc
  BY DiskAssumption DEF Index, Desc

\* Indices that are close to each other have slots of their own, also where
\* the uint16 wraps around.
LEMMA SlotsDiffer ==
    ASSUME NEW i \in Index, NEW x \in Index, NEW y \in Index,
           Ahead(i, x) < NUM, Ahead(i, y) < NUM, x % NUM = y % NUM
    PROVE  x = y
<1>1. /\ NUM \in Nat \ {0} /\ IdxMax1 \in Nat \ {0}
      /\ i \in Nat /\ x \in Nat /\ y \in Nat
      /\ i < IdxMax1 /\ x < IdxMax1 /\ y < IdxMax1
  BY DiskAssumption DEF Index
<1>2. CASE NUM % IdxMax1 = 0
  <2>1. IdxMax1 <= NUM
    <3> SUFFICES ASSUME NUM < IdxMax1 PROVE FALSE
      BY <1>1
    <3>1. NUM % IdxMax1 = NUM
      BY <1>1, ModSmall
    <3> QED BY <1>1, <1>2, <3>1
  <2>2. x % NUM = x /\ y % NUM = y
    BY <1>1, <2>1, ModSmall
  <2> QED BY <2>2
<1>3. CASE IdxMax1 % NUM = 0
  <2>1. PICK q \in Int : x - y = NUM * q
    BY <1>1, ModDiff
  <2>2. PICK c \in Int : IdxMax1 = NUM * c
    <3>1. 0 % NUM = 0
      BY <1>1
    <3>2. \E c \in Int : IdxMax1 - 0 = NUM * c
      BY ONLY <1>1, <1>3, <3>1, 0 \in Nat, IdxMax1 \in Nat, ModDiff
    <3> QED BY <3>2, <1>1
  <2>3. \/ -NUM < x - y /\ x - y < NUM
        \/ -NUM < x - y - IdxMax1 /\ x - y - IdxMax1 < NUM /\ y < i /\ i <= x
        \/ -NUM < x - y + IdxMax1 /\ x - y + IdxMax1 < NUM /\ x < i /\ i <= y
    BY <1>1 DEF Ahead
  <2>4. CASE -NUM < x - y /\ x - y < NUM
    <3>1. NUM * q < NUM /\ -NUM < NUM * q
      BY <2>1, <2>4
    <3>2. q = 0
      BY <1>1, <3>1, SmallMultiple
    <3> QED BY <1>1, <2>1, <3>2
  <2>5. CASE -NUM < x - y - IdxMax1 /\ x - y - IdxMax1 < NUM /\ y < i /\ i <= x
    <3>1. x - y - IdxMax1 = NUM * (q - c)
      BY <1>1, <2>1, <2>2
    <3>2. NUM * (q - c) < NUM /\ -NUM < NUM * (q - c) /\ q - c \in Int
      BY <2>5, <3>1
    <3>3. q - c = 0
      BY ONLY <1>1, <3>2, SmallMultiple
    <3>4. x - y - IdxMax1 = 0
      BY <1>1, <3>1, <3>3
    <3> QED BY <1>1, <3>4
  <2>6. CASE -NUM < x - y + IdxMax1 /\ x - y + IdxMax1 < NUM /\ x < i /\ i <= y
    <3>1. x - y + IdxMax1 = NUM * (q + c)
      BY <1>1, <2>1, <2>2
    <3>2. NUM * (q + c) < NUM /\ -NUM < NUM * (q + c) /\ q + c \in Int
      BY <2>6, <3>1
    <3>3. q + c = 0
      BY ONLY <1>1, <3>2, SmallMultiple
    <3>4. x - y + IdxMax1 = 0
      BY <1>1, <3>1, <3>3
    <3> QED BY <1>1, <3>4
  <2> QED BY <2>3, <2>4, <2>5, <2>6
<1> QED BY <1>2, <1>3, DiskAssumption

\* The distance between two indices is less than a whole turn, 0 only to itself.
LEMMA AheadIs ==
    \A i, j \in Index : /\ Ahead(i, j) \in Nat /\ Ahead(i, j) < IdxMax1
                        /\ Ahead(i, j) = 0 <=> i = j
  BY DiskAssumption DEF Index, Ahead

\* The producer of a ring takes one step.
LEMMA WindowGrows ==
    ASSUME NEW i \in Index, NEW j \in Index, Ahead(i, j) + 1 < IdxMax1
    PROVE  /\ Ahead(i, Succ(j)) = Ahead(i, j) + 1
           /\ Window(i, Succ(j)) = Window(i, j) \cup {j}
           /\ j \notin Window(i, j)
<1>1. /\ IdxMax1 \in Nat \ {0} /\ i \in Nat /\ j \in Nat
      /\ i < IdxMax1 /\ j < IdxMax1
  BY DiskAssumption DEF Index
<1>2. Succ(j) = IF j + 1 = IdxMax1 THEN 0 ELSE j + 1
  BY SuccIs
<1>3. Ahead(i, Succ(j)) = Ahead(i, j) + 1
  BY <1>1, <1>2 DEF Ahead
<1>4. \A x \in Index : Ahead(i, x) \in Nat /\ (Ahead(i, x) = Ahead(i, j) => x = j)
  BY <1>1 DEF Index, Ahead
<1>5. \A x \in Index : Ahead(i, x) < Ahead(i, j) + 1 <=> Ahead(i, x) < Ahead(i, j) \/ x = j
  BY <1>4
<1> QED BY <1>3, <1>4, <1>5 DEF Window

\* The consumer of a ring takes one step.
LEMMA WindowShrinks ==
    ASSUME NEW i \in Index, NEW j \in Index, i # j
    PROVE  /\ Ahead(Succ(i), j) = Ahead(i, j) - 1
           /\ Window(Succ(i), j) = Window(i, j) \ {i}
           /\ i \in Window(i, j)
<1>1. /\ IdxMax1 \in Nat \ {0} /\ i \in Nat /\ j \in Nat
      /\ i < IdxMax1 /\ j < IdxMax1
  BY DiskAssumption DEF Index
<1>2. Succ(i) = IF i + 1 = IdxMax1 THEN 0 ELSE i + 1
  BY SuccIs
<1>3. \A x \in Index : x # i => Ahead(Succ(i), x) = Ahead(i, x) - 1
  BY <1>1, <1>2 DEF Index, Ahead
<1>4. Ahead(Succ(i), i) = IdxMax1 - 1 /\ Ahead(i, i) = 0
  BY <1>1, <1>2 DEF Ahead
<1>5. \A x \in Index : Ahead(i, x) \in Nat /\ Ahead(i, x) < IdxMax1
  BY AheadIs
<1>6. Ahead(i, j) # 0
  BY AheadIs
<1>7. \A x \in Index : Ahead(Succ(i), x) < Ahead(Succ(i), j) <=> Ahead(i, x) < Ahead(i, j) /\ x # i
  BY <1>1, <1>3, <1>4, <1>5, <1>6
<1> QED BY <1>3, <1>4, <1>5, <1>6, <1>7 DEF Window

\* Nothing is in an empty window.
LEMMA WindowEmpty == \A i \in Index : Ahead(i, i) = 0 /\ Window(i, i) = {}
<1>1. \A i \in Index : Ahead(i, i) = 0
  BY AheadIs
<1>2. \A i, x \in Index : ~(Ahead(i, x) < 0)
  BY AheadIs
<1> QED BY <1>1, <1>2 DEF Window

-----------------------------------------------------------------------------
(***************************************************************************)
(* The driver.                                                             *)
(***************************************************************************)

\* A set of numbers has a least element.
LEMMA LeastIs ==
    ASSUME NEW S, S \subseteq Nat, S # {}
    PROVE  \E m \in S : \A y \in S : m <= y
<1> DEFINE R == OpToRel(<, Nat)
<1>1. IsWellFoundedOn(R, Nat)
  BY NatLessThanWellFounded
<1>2. \A x, y \in Nat : <<x, y>> \in R <=> x < y
  BY DEF OpToRel
<1> HIDE DEF R
<1>3. PICK m \in S : \A y \in S : ~(<<y, m>> \in R)
  BY <1>1, WFMin
<1>4. \A y \in S : m \in Nat /\ y \in Nat /\ ~(y < m)
  BY <1>2, <1>3
<1>5. \A y \in S : m <= y
  BY <1>4
<1> QED BY <1>5

\* There are NUM descriptors.
LEMMA DescIs == IsFiniteSet(Desc) /\ Cardinality(Desc) = NUM /\ Desc \subseteq Nat /\ None \notin Desc
<1>1. 0 \in Int /\ NUM - 1 \in Int /\ ~(0 > NUM - 1)
  BY DiskAssumption
<1>2. IsFiniteSet(0 .. NUM - 1) /\ Cardinality(0 .. NUM - 1) = (NUM - 1) - 0 + 1
  BY <1>1, FS_Interval
<1> QED BY <1>2, DiskAssumption DEF Desc

\* A set of three elements.
LEMMA ThreeElements ==
    ASSUME NEW S, IsFiniteSet(S), Cardinality(S) = 3
    PROVE  \E x, y, z : S = {x, y, z} /\ x # y /\ x # z /\ y # z
<1>1. S # {}
  BY FS_EmptySet
<1>2. PICK x : x \in S
  BY <1>1
<1>3. IsFiniteSet(S \ {x}) /\ Cardinality(S \ {x}) = 2
  BY <1>2, FS_RemoveElement
<1>4. S \ {x} # {}
  BY <1>3, FS_EmptySet
<1>5. PICK y : y \in S \ {x}
  BY <1>4
<1>6. IsFiniteSet((S \ {x}) \ {y}) /\ Cardinality((S \ {x}) \ {y}) = 1
  BY <1>3, <1>5, FS_RemoveElement
<1>7. PICK z : (S \ {x}) \ {y} = {z}
  BY <1>6, FS_Singleton
<1> QED BY <1>2, <1>5, <1>7

\* A set of three different elements has three.
LEMMA CardThree ==
    ASSUME NEW x, NEW y, NEW z, x # y, x # z, y # z
    PROVE  IsFiniteSet({x, y, z}) /\ Cardinality({x, y, z}) = 3
<1>1. IsFiniteSet({x}) /\ Cardinality({x}) = 1
  BY FS_Singleton
<1>2. IsFiniteSet({x} \cup {y}) /\ Cardinality({x} \cup {y}) = 2
  BY <1>1, FS_AddElement
<1>3. z \notin {x} \cup {y}
  OBVIOUS
<1>4. IsFiniteSet(({x} \cup {y}) \cup {z}) /\ Cardinality(({x} \cup {y}) \cup {z}) = 3
  BY <1>2, <1>3, FS_AddElement
<1>5. ({x} \cup {y}) \cup {z} = {x, y, z}
  OBVIOUS
<1> QED BY <1>4, <1>5

\* alloc3_desc() finds three descriptors when there are three.
LEMMA LowestIs ==
    ASSUME free \subseteq Desc, Cardinality(free) >= 3
    PROVE  \E i0, i1, i2 \in free :
              /\ i0 # i1 /\ i0 # i2 /\ i1 # i2
              /\ Lowest(3) = {i0, i1, i2}
              /\ Min(Lowest(3)) = i0 /\ Max(Lowest(3)) = i2
              /\ (CHOOSE d \in Lowest(3) : d \notin {i0, i2}) = i1
<1>1. IsFiniteSet(free) /\ free \subseteq Nat /\ Cardinality(free) \in Nat
  BY DescIs, FS_Subset, FS_CardinalityType
<1>2. \E S \in SUBSET free : Cardinality(S) = 3 /\ \A d \in S, e \in free \ S : d < e
  <2>1. free # {}
    BY FS_EmptySet
  <2>2. PICK a \in free : \A y \in free : a <= y
    BY <1>1, <2>1, LeastIs
  <2>3. IsFiniteSet(free \ {a}) /\ Cardinality(free \ {a}) = Cardinality(free) - 1
    BY <1>1, FS_RemoveElement
  <2>4. free \ {a} # {} /\ free \ {a} \subseteq Nat
    BY <1>1, <2>3, FS_EmptySet
  <2>5. PICK b \in free \ {a} : \A y \in free \ {a} : b <= y
    BY <2>4, LeastIs
  <2>6. /\ IsFiniteSet((free \ {a}) \ {b})
        /\ Cardinality((free \ {a}) \ {b}) = Cardinality(free \ {a}) - 1
    BY <2>3, FS_RemoveElement
  <2>7. Cardinality((free \ {a}) \ {b}) >= 1
    BY <1>1, <2>3, <2>6
  <2>8. (free \ {a}) \ {b} # {} /\ (free \ {a}) \ {b} \subseteq Nat
    BY <1>1, <2>7, FS_EmptySet
  <2>9. PICK c \in (free \ {a}) \ {b} : \A y \in (free \ {a}) \ {b} : c <= y
    BY <2>8, LeastIs
  <2>10. Cardinality({a, b, c}) = 3
    BY <2>5, <2>9, CardThree
  <2>11. a \in Nat /\ b \in Nat /\ c \in Nat /\ a <= b /\ b <= c
    BY <1>1, <2>2, <2>5, <2>9
  <2>12. ASSUME NEW e \in free \ {a, b, c} PROVE a < e /\ b < e /\ c < e
    <3>1. e \in Nat /\ e # c /\ c <= e
      BY <1>1, <2>9, <2>12
    <3> QED BY <2>11, <3>1
  <2>13. {a, b, c} \in SUBSET free
    BY <2>5, <2>9
  <2>14. \A d \in {a, b, c}, e \in free \ {a, b, c} : d < e
    BY <2>12
  <2> QED BY <2>10, <2>13, <2>14
<1>3. Lowest(3) \subseteq free /\ Cardinality(Lowest(3)) = 3
  BY <1>2 DEF Lowest
<1> DEFINE T == Lowest(3)
<1>4. T \subseteq free /\ Cardinality(T) = 3 /\ IsFiniteSet(T) /\ T \subseteq Nat
  BY <1>1, <1>3, FS_Subset
<1> HIDE DEF T
<1>5. PICK x, y, z : T = {x, y, z} /\ x # y /\ x # z /\ y # z
  BY <1>4, ThreeElements
<1>6. x \in Nat /\ y \in Nat /\ z \in Nat
  BY <1>4, <1>5
<1>7. \E i0, i1, i2 \in T : T = {i0, i1, i2} /\ i0 < i1 /\ i1 < i2
  <2>1. \/ (x < y /\ y < z) \/ (x < z /\ z < y) \/ (y < x /\ x < z)
        \/ (y < z /\ z < x) \/ (z < x /\ x < y) \/ (z < y /\ y < x)
    BY <1>5, <1>6
  <2>2. ASSUME NEW i \in T, NEW j \in T, NEW k \in T, i < j, j < k, T = {i, j, k}
        PROVE  \E i0, i1, i2 \in T : T = {i0, i1, i2} /\ i0 < i1 /\ i1 < i2
    BY <2>2
  <2>3. /\ T = {x, z, y} /\ T = {y, x, z} /\ T = {y, z, x}
        /\ T = {z, x, y} /\ T = {z, y, x} /\ T = {x, y, z}
        /\ x \in T /\ y \in T /\ z \in T
    BY <1>5
  <2> QED BY <2>1, <2>2, <2>3
<1>8. PICK i0, i1, i2 \in T : T = {i0, i1, i2} /\ i0 < i1 /\ i1 < i2
  BY <1>7
<1>9. i0 \in Nat /\ i1 \in Nat /\ i2 \in Nat
  BY <1>4
<1>10. i0 # i1 /\ i0 # i2 /\ i1 # i2 /\ i0 < i2
  BY <1>8, <1>9
<1>11. Min(T) = i0
  <2>1. i0 \in T /\ \A y1 \in T : i0 <= y1
    BY <1>8, <1>9, <1>10
  <2>2. \A x1 \in T : (\A y1 \in T : x1 <= y1) => x1 = i0
    BY <1>8, <1>9, <1>10
  <2> QED BY <2>1, <2>2 DEF Min
<1>12. Max(T) = i2
  <2>1. i2 \in T /\ \A y1 \in T : i2 >= y1
    BY <1>8, <1>9, <1>10
  <2>2. \A x1 \in T : (\A y1 \in T : x1 >= y1) => x1 = i2
    BY <1>8, <1>9, <1>10
  <2> QED BY <2>1, <2>2 DEF Max
<1>13. (CHOOSE d \in T : d \notin {i0, i2}) = i1
  BY <1>8, <1>10
<1>14. i0 \in free /\ i1 \in free /\ i2 \in free
  BY <1>4
<1> QED BY <1>8, <1>10, <1>11, <1>12, <1>13, <1>14 DEF T

\* There are fewer requests than ring indices and ring slots.
LEMMA Sizes ==
    ASSUME RequestInv
    PROVE  /\ IsFiniteSet(Users) /\ IsFiniteSet(BusyUsers) /\ IsFiniteSet(inflight)
           /\ IsFiniteSet(free)
           /\ Cardinality(Users) \in Nat /\ Cardinality(BusyUsers) \in Nat
           /\ Cardinality(inflight) \in Nat /\ Cardinality(free) \in Nat
           /\ Cardinality(BusyUsers) <= Cardinality(Users)
           /\ Ahead(seen, availIdx) \in Nat /\ Ahead(used_idx, usedIdx) \in Nat
           /\ Ahead(seen, availIdx) + Cardinality(inflight) + Ahead(used_idx, usedIdx)
                <= Cardinality(Users)
           /\ Cardinality(free) + 3 * Cardinality(Users) = NUM
<1>1. Users \in SUBSET Proc /\ BusyUsers \in SUBSET Users
  BY DEF Users, BusyUsers
<1>2. IsFiniteSet(Users) /\ IsFiniteSet(BusyUsers)
  BY <1>1, FS_Subset, DiskAssumption
<1>3. IsFiniteSet(inflight) /\ IsFiniteSet(free)
  BY DescIs, FS_Subset DEF RequestInv, DriverTypes
<1>4. /\ Cardinality(Users) \in Nat /\ Cardinality(BusyUsers) \in Nat
      /\ Cardinality(inflight) \in Nat /\ Cardinality(free) \in Nat
  BY <1>2, <1>3, FS_CardinalityType
<1>5. Cardinality(BusyUsers) <= Cardinality(Users)
  BY <1>1, <1>2, FS_Subset
<1>6. Ahead(seen, availIdx) \in Nat /\ Ahead(used_idx, usedIdx) \in Nat
  BY AheadIs DEF RequestInv, DriverTypes
<1> QED BY <1>2, <1>3, <1>4, <1>5, <1>6 DEF RequestInv, RoomInv, ChainInv

\* The users' chains: their heads are descriptors of their own.
LEMMA HeadsAre ==
    ASSUME RequestInv
    PROVE  /\ \A p \in Users : idx0[p] \in Desc /\ idx0[p] \notin free /\ pc[p] \in InIo
           /\ \A p, q \in Users : idx0[p] = idx0[q] => p = q
           /\ \A p \in Users : mybuf[p] \in Buf
           /\ \A p, q \in Users : mybuf[p] = mybuf[q] => p = q
<1>1. \A p \in Users : idx0[p] \in Chain(idx0[p])
  BY DEF Chain
<1>2. \A p \in Users : pc[p] \in InIo /\ pc[p] \in InRw /\ p \in Proc
  BY DEF RequestInv, CallerInv, Users, InIo, InRw
<1> QED BY <1>1, <1>2 DEF RequestInv, ChainInv, DescriptorsConserved, CallerInv, Users

\* A step of the callers, or of the driver where only places change.
Calm ==
    /\ UNCHANGED <<busy, descVars, status, availRing, availIdx, used_idx>>
    /\ UNCHANGED <<seen, inflight, platter, usedRing, usedIdx>>
    /\ irq' \in BOOLEAN /\ intr' \in BOOLEAN
    /\ pc' \in [Proc -> PCs] /\ mybuf' \in [Proc -> Buf \cup {None}]
    /\ wr' \in [Proc -> BOOLEAN] /\ data' \in [Buf -> Val]
    /\ blockno' \in [Buf -> Block \cup {None}]
    /\ \A q \in Proc :
          /\ pc'[q] \in InIo <=> pc[q] \in InIo
          /\ pc[q] \in InIo => /\ mybuf'[q] = mybuf[q] /\ wr'[q] = wr[q]
                               /\ blockno'[mybuf[q]] = blockno[mybuf[q]]
          /\ pc'[q] \in InRw => mybuf'[q] \in Buf /\ blockno'[mybuf'[q]] \in Block
          /\ pc'[q] = "dsleep" => pc[q] = "dsleep" \/ Cardinality(free) < 3
    /\ \A q, r \in Proc :
          pc'[q] \in InRw /\ pc'[r] \in InRw /\ mybuf'[q] = mybuf'[r] => q = r

\* A step that leaves requests, rings and descriptors alone keeps the request invariant.
LEMMA CalmRequest ==
    ASSUME RequestInv, Calm
    PROVE  RequestInv'
<1>1. DriverTypes'
  BY DEF RequestInv, DriverTypes, Calm, descVars
<1>2. CallerInv'
  <2>1. \A p \in Proc : idx0'[p] # None <=> pc'[p] \in InIo
    BY DEF RequestInv, CallerInv, Calm, descVars
  <2>2. \A p \in Proc : pc'[p] \in InRw => mybuf'[p] \in Buf /\ blockno'[mybuf'[p]] \in Block
    BY DEF Calm
  <2>3. \A p \in Proc : pc'[p] \in InIo =>
           op'[idx0'[p]] = [b |-> mybuf'[p], sector |-> blockno'[mybuf'[p]], write |-> wr'[p]]
    BY DEF RequestInv, CallerInv, Calm, descVars
  <2>4. \A p, q \in Proc :
           pc'[p] \in InRw /\ pc'[q] \in InRw /\ mybuf'[p] = mybuf'[q] => p = q
    BY DEF Calm
  <2> QED BY <2>1, <2>2, <2>3, <2>4 DEF CallerInv
<1>3. Users' = Users /\ \A p \in Users : mybuf'[p] = mybuf[p] /\ p \in Proc
  BY HeadsAre DEF Users, Calm, descVars
<1>4. ChainInv'
  BY <1>3 DEF RequestInv, ChainInv, DescriptorsConserved, Chain, Calm, descVars
<1>5. BusyUsers' = BusyUsers
  BY <1>3 DEF BusyUsers, Calm
<1>6. Heads' = Heads /\ AvailHeads' = AvailHeads /\ UsedHeads' = UsedHeads
  BY <1>3 DEF Heads, AvailHeads, UsedHeads, Calm, descVars
<1>7. RingInv'
  BY <1>6 DEF RequestInv, RingInv, Calm
<1>8. PlaceInv'
  BY <1>3, <1>6 DEF RequestInv, PlaceInv, Calm, descVars
<1>9. RoomInv'
  BY <1>5 DEF RequestInv, RoomInv, Calm
<1>10. DescSleepersHaveReason'
  BY DEF RequestInv, DescSleepersHaveReason, Calm, descVars
<1> QED BY <1>1, <1>2, <1>4, <1>7, <1>8, <1>9, <1>10 DEF RequestInv


\* What is in a ring or at the device is the head of a request.
LEMMA PlacesAreHeads ==
    ASSUME RequestInv
    PROVE  /\ AvailHeads \subseteq Heads /\ UsedHeads \subseteq Heads /\ inflight \subseteq Heads
           /\ Heads \cap free = {} /\ Heads \subseteq Desc
<1>1. AvailHeads \subseteq Heads /\ UsedHeads \subseteq Heads /\ inflight \subseteq Heads
  BY DEF RequestInv, RingInv, PlaceInv, AvailHeads, UsedHeads
<1>2. Heads \cap free = {} /\ Heads \subseteq Desc
  BY HeadsAre DEF Heads
<1> QED BY <1>1, <1>2

\* The slots of a window, and the next one, are different.
LEMMA RingSlots ==
    ASSUME RequestInv
    PROVE  /\ \A x, y \in Window(seen, availIdx) : x % NUM = y % NUM => x = y
           /\ \A x, y \in Window(used_idx, usedIdx) : x % NUM = y % NUM => x = y
           /\ Cardinality(Users) < NUM =>
                \A x \in Window(seen, availIdx) : x % NUM # availIdx % NUM
           /\ Ahead(used_idx, usedIdx) < NUM =>
                \A x \in Window(used_idx, usedIdx) : x % NUM # usedIdx % NUM
<1>1. /\ availIdx \in Index /\ seen \in Index /\ usedIdx \in Index /\ used_idx \in Index
      /\ NUM \in Nat
  BY DiskAssumption DEF RequestInv, DriverTypes
<1>2. /\ Ahead(seen, availIdx) \in Nat /\ Ahead(used_idx, usedIdx) \in Nat
      /\ Ahead(seen, availIdx) <= Cardinality(Users) /\ Ahead(used_idx, usedIdx) <= Cardinality(Users)
      /\ Cardinality(Users) \in Nat /\ Cardinality(Users) <= NUM
  BY Sizes, <1>1
<1>3. \A x \in Window(seen, availIdx) :
         x \in Index /\ Ahead(seen, x) \in Nat /\ Ahead(seen, x) < Ahead(seen, availIdx)
  BY <1>1, AheadIs DEF Window
<1>4. \A x \in Window(used_idx, usedIdx) :
         x \in Index /\ Ahead(used_idx, x) \in Nat /\ Ahead(used_idx, x) < Ahead(used_idx, usedIdx)
  BY <1>1, AheadIs DEF Window
<1>5. \A x \in Window(seen, availIdx) : Ahead(seen, x) < NUM
  BY <1>1, <1>2, <1>3
<1>6. \A x \in Window(used_idx, usedIdx) : Ahead(used_idx, x) < NUM
  BY <1>1, <1>2, <1>4
<1>7. \A x, y \in Window(seen, availIdx) : x % NUM = y % NUM => x = y
  BY <1>1, <1>3, <1>5, SlotsDiffer
<1>8. \A x, y \in Window(used_idx, usedIdx) : x % NUM = y % NUM => x = y
  BY <1>1, <1>4, <1>6, SlotsDiffer
<1>9. ASSUME Cardinality(Users) < NUM, NEW x \in Window(seen, availIdx)
      PROVE  x % NUM # availIdx % NUM
  <2>1. Ahead(seen, availIdx) < NUM
    BY <1>1, <1>2, <1>9
  <2>2. x # availIdx
    BY <1>3
  <2> QED BY <1>1, <1>3, <1>5, <2>1, <2>2, SlotsDiffer
<1>10. ASSUME Ahead(used_idx, usedIdx) < NUM, NEW x \in Window(used_idx, usedIdx)
       PROVE  x % NUM # usedIdx % NUM
  <2>2. x # usedIdx
    BY <1>4
  <2> QED BY <1>1, <1>4, <1>6, <1>10, <2>2, SlotsDiffer
<1> QED BY <1>7, <1>8, <1>9, <1>10

\* A request is handed over: it takes three free descriptors and a free slot.
LEMMA SubmitRequest ==
    ASSUME RequestInv, NEW p \in Proc, Submit(p)
    PROVE  RequestInv'
<1> DEFINE b == mybuf[p]
           req == [b |-> b, sector |-> blockno[b], write |-> wr[p]]
<1>1. free \subseteq Desc /\ Cardinality(free) >= 3
  BY DEF Submit, RequestInv, DriverTypes
<1>2. PICK i0, i1, i2 \in free :
              /\ i0 # i1 /\ i0 # i2 /\ i1 # i2
              /\ Lowest(3) = {i0, i1, i2}
              /\ Min(Lowest(3)) = i0 /\ Max(Lowest(3)) = i2
              /\ (CHOOSE d \in Lowest(3) : d \notin {i0, i2}) = i1
  BY <1>1, LowestIs
<1>3. /\ free' = free \ {i0, i1, i2}
      /\ next' = [next EXCEPT ![i0] = i1, ![i1] = i2, ![i2] = None]
      /\ op' = [op EXCEPT ![i0] = req]
      /\ status' = [status EXCEPT ![i0] = 255]
      /\ idx0' = [idx0 EXCEPT ![p] = i0]
      /\ busy' = [busy EXCEPT ![b] = TRUE]
      /\ availRing' = [availRing EXCEPT ![availIdx % NUM] = i0]
  BY <1>2 DEF Submit
<1>4. /\ availIdx' = Succ(availIdx)
      /\ pc' = [pc EXCEPT ![p] = "iosleep"]
      /\ UNCHANGED <<mybuf, wr, data, blockno, used_idx, seen, inflight, platter>>
      /\ UNCHANGED <<usedRing, usedIdx, irq, intr>>
  BY DEF Submit, bufVars, deviceVars, Succ
<1>5. /\ i0 \in Desc /\ i1 \in Desc /\ i2 \in Desc /\ None \notin Desc
      /\ i0 # i1 /\ i0 # i2 /\ i1 # i2
  BY <1>1, <1>2, DescIs
<1>6. pc[p] = "rw" /\ pc[p] \in InRw /\ pc[p] \notin InIo
  BY DEF Submit, InRw, InIo
<1>7. /\ b \in Buf /\ blockno[b] \in Block /\ idx0[p] = None
      /\ \A q \in Proc : pc[q] \in InRw /\ mybuf[q] = b => q = p
  BY <1>6 DEF RequestInv, CallerInv
<1>8. DriverTypes
  BY DEF RequestInv
<1>9. /\ availIdx \in Index /\ seen \in Index /\ usedIdx \in Index /\ used_idx \in Index
      /\ availIdx % NUM \in Desc /\ Succ(availIdx) \in Index
  BY <1>8, SlotIs, SuccIs DEF DriverTypes
<1>10. DriverTypes'
  <2>1. /\ pc' \in [Proc -> PCs] /\ idx0' \in [Proc -> Desc \cup {None}]
        /\ free' \subseteq Desc /\ next' \in [Desc -> Desc \cup {None}]
    BY <1>3, <1>4, <1>5, <1>8 DEF DriverTypes, PCs
  <2>2. op' \in [Desc -> Request]
    <3>1. req \in Request
      BY <1>7, <1>8 DEF DriverTypes, Request
    <3> QED BY <3>1, <1>3, <1>8 DEF DriverTypes
  <2>3. /\ busy' \in [Buf -> BOOLEAN] /\ availIdx' \in Index
        /\ availRing' \in [Desc -> Desc \cup {None}]
    BY <1>3, <1>4, <1>5, <1>8, <1>9 DEF DriverTypes
  <2>4. status' \in [Desc -> Nat]
    <3>1. 255 \in Nat
      OBVIOUS
    <3> QED BY <3>1, <1>3, <1>8 DEF DriverTypes
  <2> QED BY <2>1, <2>2, <2>3, <2>4, <1>4, <1>8 DEF DriverTypes
<1>11. /\ Users' = Users \cup {p} /\ p \notin Users
       /\ \A q \in Users : idx0'[q] = idx0[q] /\ q # p /\ q \in Proc
       /\ idx0'[p] = i0 /\ idx0 \in [Proc -> Desc \cup {None}]
  BY <1>3, <1>5, <1>7, <1>8 DEF Users, DriverTypes
<1>12. \A q \in Users : pc[q] \in InRw /\ mybuf[q] # b /\ mybuf[q] \in Buf
  <2>1. \A q \in Users : pc[q] \in InRw
    BY HeadsAre DEF InIo, InRw
  <2> QED BY <2>1, <1>7, <1>11, HeadsAre
<1>13. \A q \in Users : busy'[mybuf'[q]] = busy[mybuf[q]]
  BY <1>3, <1>4, <1>8, <1>12 DEF DriverTypes
<1>14. busy'[mybuf'[p]] = TRUE
  BY <1>3, <1>4, <1>7, <1>8 DEF DriverTypes
<1>15. BusyUsers' = BusyUsers \cup {p} /\ p \notin BusyUsers
  BY <1>11, <1>13, <1>14 DEF BusyUsers
<1>16. Heads' = Heads \cup {i0}
  BY <1>11 DEF Heads
<1>17. i0 \notin Heads
  BY <1>2, PlacesAreHeads
<1>18. \A q \in Users :
          LET h == idx0[q] IN
            /\ h \in Desc /\ next[h] \in Desc /\ next[next[h]] \in Desc
            /\ h \notin {i0, i1, i2} /\ next[h] \notin {i0, i1, i2}
            /\ next[next[h]] \notin {i0, i1, i2}
  BY <1>2, HeadsAre DEF RequestInv, ChainInv, DescriptorsConserved, Chain, Users
<1>19. \A q \in Users :
          /\ next'[idx0[q]] = next[idx0[q]]
          /\ next'[next[idx0[q]]] = next[next[idx0[q]]]
  BY <1>3, <1>8, <1>18 DEF DriverTypes
<1>20. next'[i0] = i1 /\ next'[i1] = i2
  BY <1>3, <1>5, <1>8 DEF DriverTypes
<1>21. \A q \in Users : Chain(idx0[q])' = Chain(idx0[q])
  BY <1>11, <1>19 DEF Chain
<1>22. Chain(idx0[p])' = {i0, i1, i2}
  BY <1>11, <1>20 DEF Chain
<1>23. CallerInv'
  <2>1. \A q \in Proc : q # p => idx0'[q] = idx0[q] /\ pc'[q] = pc[q]
    BY <1>3, <1>4, <1>8 DEF DriverTypes
  <2>2. pc'[p] = "iosleep" /\ idx0'[p] = i0 /\ pc'[p] \in InIo /\ pc'[p] \in InRw
    BY <1>3, <1>4, <1>8 DEF DriverTypes, InIo, InRw
  <2>3. \A q \in Proc : pc'[q] \in InRw <=> pc[q] \in InRw
    BY <2>1, <2>2, <1>6
  <2>4. \A q \in Proc : idx0'[q] # None <=> pc'[q] \in InIo
    BY <2>1, <2>2, <1>5 DEF RequestInv, CallerInv
  <2>5. \A q \in Proc : pc'[q] \in InRw => mybuf'[q] \in Buf /\ blockno'[mybuf'[q]] \in Block
    BY <2>3, <1>4 DEF RequestInv, CallerInv
  <2>6. ASSUME NEW q \in Proc, pc'[q] \in InIo
        PROVE  op'[idx0'[q]] = [b |-> mybuf'[q], sector |-> blockno'[mybuf'[q]], write |-> wr'[q]]
    <3>1. CASE q = p
      <4>1. op'[i0] = req
        BY <1>3, <1>5, <1>8 DEF DriverTypes
      <4> QED BY <3>1, <4>1, <2>2, <1>4
    <3>2. CASE q # p
      <4>1. q \in Users /\ pc[q] \in InIo /\ idx0'[q] = idx0[q]
        BY <3>2, <2>1, <2>6 DEF RequestInv, CallerInv, Users
      <4>2. op'[idx0[q]] = op[idx0[q]]
        BY <4>1, <1>3, <1>8, <1>18 DEF DriverTypes
      <4> QED BY <4>1, <4>2, <1>4 DEF RequestInv, CallerInv
    <3> QED BY <3>1, <3>2
  <2>7. \A q, r \in Proc :
           pc'[q] \in InRw /\ pc'[r] \in InRw /\ mybuf'[q] = mybuf'[r] => q = r
    BY <2>3, <1>4 DEF RequestInv, CallerInv
  <2> QED BY <2>4, <2>5, <2>6, <2>7 DEF CallerInv
<1>24. ChainInv'
  <2>1. \A q \in Users' :
          LET h == idx0'[q] IN
            /\ h \in Desc /\ next'[h] \in Desc /\ next'[next'[h]] \in Desc
            /\ h # next'[h] /\ h # next'[next'[h]] /\ next'[h] # next'[next'[h]]
    BY <1>5, <1>11, <1>18, <1>19, <1>20 DEF RequestInv, ChainInv
  <2>2. DescriptorsConserved'
    <3> DEFINE C == UNION {Chain(idx0[q]) : q \in Users}
    <3>1. /\ free \cup C = Desc
          /\ \A q \in Users : Chain(idx0[q]) \cap free = {}
          /\ \A q, r \in Users : q # r => Chain(idx0[q]) \cap Chain(idx0[r]) = {}
      BY DEF RequestInv, ChainInv, DescriptorsConserved, Users
    <3>2. (UNION {Chain(idx0[q]) : q \in Users})' = C \cup {i0, i1, i2}
      BY <1>11, <1>21, <1>22
    <3>3. (free \cup UNION {Chain(idx0[q]) : q \in Users} = Desc)'
      <4>1. {i0, i1, i2} \subseteq free
        BY <1>2
      <4>2. free' \cup (C \cup {i0, i1, i2}) = Desc
        BY <3>1, <4>1, <1>3
      <4> QED BY <4>2, <3>2
    <3>4. (\A q \in Users : Chain(idx0[q]) \cap free = {})'
      BY <3>1, <1>3, <1>11, <1>21, <1>22
    <3>5. (\A q, r \in Users : q # r => Chain(idx0[q]) \cap Chain(idx0[r]) = {})'
      BY <3>1, <1>2, <1>11, <1>21, <1>22
    <3> QED BY <3>3, <3>4, <3>5 DEF DescriptorsConserved, Users
  <2>3. (Cardinality(free) + 3 * Cardinality(Users) = NUM)'
    <3>1. Cardinality(Users') = Cardinality(Users) + 1
      BY <1>11, Sizes, FS_AddElement
    <3>2. Cardinality(free') = Cardinality(free) - 3
      <4>1. /\ IsFiniteSet(free \ {i0}) /\ Cardinality(free \ {i0}) = Cardinality(free) - 1
        BY Sizes, FS_RemoveElement
      <4>2. /\ IsFiniteSet((free \ {i0}) \ {i1})
            /\ Cardinality((free \ {i0}) \ {i1}) = Cardinality(free \ {i0}) - 1
        <5>1. i1 \in free \ {i0}
          BY <1>2
        <5> QED BY <4>1, <5>1, FS_RemoveElement
      <4>3. Cardinality(((free \ {i0}) \ {i1}) \ {i2}) = Cardinality((free \ {i0}) \ {i1}) - 1
        <5>1. i2 \in (free \ {i0}) \ {i1}
          BY <1>2
        <5> QED BY <4>2, <5>1, FS_RemoveElement
      <4>4. free' = ((free \ {i0}) \ {i1}) \ {i2}
        BY <1>3
      <4> QED BY <4>1, <4>2, <4>3, <4>4, Sizes
    <3> QED BY <3>1, <3>2, Sizes
  <2> QED BY <2>1, <2>2, <2>3 DEF ChainInv
<1>25. Ahead(seen, availIdx) + 1 < IdxMax1 /\ Cardinality(Users) < NUM
  BY <1>1, Sizes, DiskAssumption
<1>26. /\ Ahead(seen, availIdx)' = Ahead(seen, availIdx) + 1
       /\ Window(seen, availIdx)' = Window(seen, availIdx) \cup {availIdx}
       /\ Ahead(used_idx, usedIdx)' = Ahead(used_idx, usedIdx)
       /\ Window(used_idx, usedIdx)' = Window(used_idx, usedIdx)
  BY <1>4, <1>9, <1>25, WindowGrows
<1>27. \A x \in Window(seen, availIdx) : availRing'[x % NUM] = availRing[x % NUM]
  <2>1. \A x \in Window(seen, availIdx) : x % NUM \in Desc /\ x % NUM # availIdx % NUM
    BY <1>25, SlotIs, RingSlots DEF Window
  <2> QED BY <2>1, <1>3, <1>8 DEF DriverTypes
<1>28. availRing'[availIdx % NUM] = i0
  BY <1>3, <1>8, <1>9 DEF DriverTypes
<1>29. AvailHeads' = AvailHeads \cup {i0} /\ UsedHeads' = UsedHeads
  BY <1>4, <1>26, <1>27, <1>28 DEF AvailHeads, UsedHeads
<1>30. RingInv'
  <2>1. \A x \in Window(seen, availIdx) : availRing[x % NUM] \in Heads
    BY DEF RequestInv, RingInv
  <2>2. (\A x \in Window(seen, availIdx) : availRing[x % NUM] \in Heads)'
    BY <2>1, <1>16, <1>26, <1>27, <1>28
  <2>3. (\A x \in Window(used_idx, usedIdx) : usedRing[x % NUM] \in Heads)'
    BY <1>4, <1>16, <1>26 DEF RequestInv, RingInv
  <2>4. (\A x, y \in Window(seen, availIdx) : availRing[x % NUM] = availRing[y % NUM] => x = y)'
    BY <2>1, <1>17, <1>26, <1>27, <1>28 DEF RequestInv, RingInv
  <2>5. (\A x, y \in Window(used_idx, usedIdx) : usedRing[x % NUM] = usedRing[y % NUM] => x = y)'
    BY <1>4, <1>26 DEF RequestInv, RingInv
  <2> QED BY <2>2, <2>3, <2>4, <2>5 DEF RingInv
<1>31. PlaceInv'
  <2>1. /\ inflight' \subseteq Heads'
        /\ AvailHeads' \cap inflight' = {} /\ AvailHeads' \cap UsedHeads' = {}
        /\ inflight' \cap UsedHeads' = {}
    BY <1>4, <1>16, <1>17, <1>29, PlacesAreHeads DEF RequestInv, PlaceInv
  <2>2. \A q \in Users' : busy'[mybuf'[q]] <=> idx0'[q] \in AvailHeads' \cup inflight' \cup UsedHeads'
    <3>1. \A q \in Users : idx0[q] # i0
      BY <1>18
    <3> QED BY <3>1, <1>4, <1>11, <1>13, <1>14, <1>29 DEF RequestInv, PlaceInv
  <2>3. \A h \in UsedHeads' : status'[h] = 0
    <3>1. \A h \in UsedHeads : h # i0 /\ h \in Desc
      BY <1>17, PlacesAreHeads
    <3> QED BY <3>1, <1>3, <1>8, <1>29 DEF RequestInv, PlaceInv, DriverTypes
  <2> QED BY <2>1, <2>2, <2>3 DEF PlaceInv
<1>32. RoomInv'
  <2>1. Cardinality(BusyUsers') = Cardinality(BusyUsers) + 1
    BY <1>15, Sizes, FS_AddElement
  <2> QED BY <2>1, <1>4, <1>26, Sizes DEF RequestInv, RoomInv
<1>33. DescSleepersHaveReason'
  <2>1. \A q \in Proc : pc[q] # "dsleep"
    BY <1>1, Sizes DEF RequestInv, DescSleepersHaveReason
  <2> QED BY <2>1, <1>4, <1>8 DEF DescSleepersHaveReason, DriverTypes
<1> QED BY <1>10, <1>23, <1>24, <1>30, <1>31, <1>32, <1>33 DEF RequestInv


\* What a request says.
LEMMA RequestIs ==
    ASSUME RequestInv, NEW p \in Users
    PROVE  /\ op[idx0[p]].b = mybuf[p] /\ op[idx0[p]].sector = blockno[mybuf[p]]
           /\ op[idx0[p]].write = wr[p]
           /\ mybuf[p] \in Buf /\ blockno[mybuf[p]] \in Block
<1>1. p \in Proc /\ pc[p] \in InIo /\ pc[p] \in InRw
  BY HeadsAre DEF Users, InIo, InRw
<1>2. op[idx0[p]] = [b |-> mybuf[p], sector |-> blockno[mybuf[p]], write |-> wr[p]]
  BY <1>1 DEF RequestInv, CallerInv
<1>3. mybuf[p] \in Buf /\ blockno[mybuf[p]] \in Block
  BY <1>1 DEF RequestInv, CallerInv
<1> QED BY <1>2, <1>3

\* The device takes a request from the avail ring.
LEMMA FetchRequest ==
    ASSUME RequestInv, DeviceFetch
    PROVE  RequestInv'
<1> DEFINE h == availRing[seen % NUM]
<1>1. /\ seen # availIdx /\ inflight' = inflight \cup {h}
      /\ availRing' = [availRing EXCEPT ![seen % NUM] = None] /\ seen' = Succ(seen)
  BY DEF DeviceFetch, Succ
<1>2. /\ UNCHANGED <<pc, mybuf, wr, data, blockno, busy, free, next, op, idx0, status>>
      /\ UNCHANGED <<availIdx, usedRing, usedIdx, used_idx, irq, platter, intr>>
  BY DEF DeviceFetch, bufVars, descVars
<1>3. DriverTypes
  BY DEF RequestInv
<1>4. /\ availIdx \in Index /\ seen \in Index /\ usedIdx \in Index /\ used_idx \in Index
      /\ seen % NUM \in Desc /\ Succ(seen) \in Index
  BY <1>3, SlotIs, SuccIs DEF DriverTypes
<1>5. /\ Ahead(seen, availIdx)' = Ahead(seen, availIdx) - 1
      /\ Window(seen, availIdx)' = Window(seen, availIdx) \ {seen}
      /\ seen \in Window(seen, availIdx)
      /\ Ahead(used_idx, usedIdx)' = Ahead(used_idx, usedIdx)
      /\ Window(used_idx, usedIdx)' = Window(used_idx, usedIdx)
  BY <1>1, <1>2, <1>4, WindowShrinks
<1>6. h \in AvailHeads /\ h \in Heads /\ h \in Desc
  BY <1>5, PlacesAreHeads DEF AvailHeads
<1>7. Users' = Users /\ BusyUsers' = BusyUsers /\ Heads' = Heads
  BY <1>2 DEF Users, BusyUsers, Heads
<1>8. \A x \in Window(seen, availIdx) : x # seen => availRing'[x % NUM] = availRing[x % NUM]
  <2>1. \A x \in Window(seen, availIdx) : x % NUM \in Desc /\ (x # seen => x % NUM # seen % NUM)
    BY <1>5, SlotIs, RingSlots DEF Window
  <2> QED BY <2>1, <1>1, <1>3 DEF DriverTypes
<1>9. \A x, y \in Window(seen, availIdx) : availRing[x % NUM] = availRing[y % NUM] => x = y
  BY DEF RequestInv, RingInv
<1>10. AvailHeads' = AvailHeads \ {h} /\ UsedHeads' = UsedHeads
  <2>1. AvailHeads' = {availRing[x % NUM] : x \in Window(seen, availIdx) \ {seen}}
    BY <1>5, <1>8 DEF AvailHeads
  <2>2. {availRing[x % NUM] : x \in Window(seen, availIdx) \ {seen}} = AvailHeads \ {h}
    BY <1>5, <1>9 DEF AvailHeads
  <2> QED BY <2>1, <2>2, <1>2, <1>5 DEF UsedHeads
<1>11. DriverTypes'
  BY <1>1, <1>2, <1>3, <1>4, <1>6 DEF DriverTypes
<1>12. CallerInv' /\ ChainInv' /\ DescSleepersHaveReason'
  <2>1. CallerInv'
    BY <1>2 DEF RequestInv, CallerInv
  <2>2. ChainInv'
    BY <1>2, <1>7 DEF RequestInv, ChainInv, DescriptorsConserved, Chain
  <2> QED BY <2>1, <2>2, <1>2 DEF RequestInv, DescSleepersHaveReason
<1>13. RingInv'
  BY <1>2, <1>5, <1>7, <1>8 DEF RequestInv, RingInv
<1>14. PlaceInv'
  <2>1. /\ inflight' \subseteq Heads'
        /\ AvailHeads' \cap inflight' = {} /\ AvailHeads' \cap UsedHeads' = {}
        /\ inflight' \cap UsedHeads' = {}
    BY <1>1, <1>6, <1>7, <1>10 DEF RequestInv, PlaceInv
  <2>2. AvailHeads' \cup inflight' \cup UsedHeads' = AvailHeads \cup inflight \cup UsedHeads
    BY <1>1, <1>6, <1>10
  <2>3. \A q \in Users' : busy'[mybuf'[q]] <=> idx0'[q] \in AvailHeads' \cup inflight' \cup UsedHeads'
    BY <2>2, <1>2, <1>7 DEF RequestInv, PlaceInv
  <2>4. \A d \in UsedHeads' : status'[d] = 0
    BY <1>2, <1>10 DEF RequestInv, PlaceInv
  <2> QED BY <2>1, <2>3, <2>4 DEF PlaceInv
<1>15. RoomInv'
  <2>1. h \notin inflight
    BY <1>6 DEF RequestInv, PlaceInv
  <2>2. Cardinality(inflight') = Cardinality(inflight) + 1
    BY <2>1, <1>1, Sizes, FS_AddElement
  <2> QED BY <2>2, <1>5, <1>7, Sizes DEF RequestInv, RoomInv
<1> QED BY <1>11, <1>12, <1>13, <1>14, <1>15 DEF RequestInv

\* The device finishes a request and puts it into the used ring.
LEMMA DoneRequest ==
    ASSUME RequestInv, NEW h \in Desc, DeviceDone(h)
    PROVE  RequestInv'
<1>1. /\ h \in inflight /\ inflight' = inflight \ {h}
      /\ status' = [status EXCEPT ![h] = 0]
      /\ usedRing' = [usedRing EXCEPT ![usedIdx % NUM] = h]
      /\ usedIdx' = Succ(usedIdx) /\ irq' = TRUE
  BY DEF DeviceDone, Succ
<1>2. /\ UNCHANGED <<pc, mybuf, wr, blockno, busy, free, next, op, idx0>>
      /\ UNCHANGED <<availRing, availIdx, seen, used_idx, intr>>
  BY DEF DeviceDone, descVars
<1>3. DriverTypes
  BY DEF RequestInv
<1>4. /\ availIdx \in Index /\ seen \in Index /\ usedIdx \in Index /\ used_idx \in Index
      /\ usedIdx % NUM \in Desc /\ Succ(usedIdx) \in Index
  BY <1>3, SlotIs, SuccIs DEF DriverTypes
<1>5. PICK p \in Users : idx0[p] = h
  BY <1>1, PlacesAreHeads DEF Heads
<1>6. op[h].b \in Buf /\ op[h].sector \in Block
  BY <1>5, RequestIs
<1>7. DriverTypes'
  <2>1. data' \in [Buf -> Val] /\ platter' \in [Block -> Val]
    BY <1>3, <1>6 DEF DeviceDone, DriverTypes
  <2>2. status' \in [Desc -> Nat]
    <3>1. 0 \in Nat
      OBVIOUS
    <3> QED BY <3>1, <1>1, <1>3 DEF DriverTypes
  <2>3. usedRing' \in [Desc -> Desc \cup {None}] /\ inflight' \subseteq Desc
    BY <1>1, <1>3 DEF DriverTypes
  <2> QED BY <2>1, <2>2, <2>3, <1>1, <1>2, <1>3, <1>4 DEF DriverTypes
<1>8. Cardinality(inflight') = Cardinality(inflight) - 1 /\ Cardinality(inflight) >= 1
  <2>1. Cardinality(inflight') = Cardinality(inflight) - 1 /\ IsFiniteSet(inflight')
    BY <1>1, Sizes, FS_RemoveElement
  <2>2. Cardinality(inflight') \in Nat
    BY <2>1, FS_CardinalityType
  <2> QED BY <2>1, <2>2, Sizes
<1>9. Ahead(used_idx, usedIdx) + 1 < IdxMax1 /\ Ahead(used_idx, usedIdx) < NUM
  <2>1. Ahead(used_idx, usedIdx) + 1 <= Cardinality(Users)
    BY <1>8, Sizes
  <2>2. 3 * Cardinality(Users) < 3 * IdxMax1 /\ 3 * Cardinality(Users) <= NUM
    BY Sizes, DiskAssumption
  <2> QED BY <2>1, <2>2, Sizes, DiskAssumption
<1>10. /\ Ahead(used_idx, usedIdx)' = Ahead(used_idx, usedIdx) + 1
       /\ Window(used_idx, usedIdx)' = Window(used_idx, usedIdx) \cup {usedIdx}
       /\ Ahead(seen, availIdx)' = Ahead(seen, availIdx)
       /\ Window(seen, availIdx)' = Window(seen, availIdx)
  BY <1>1, <1>2, <1>4, <1>9, WindowGrows
<1>11. Users' = Users /\ BusyUsers' = BusyUsers /\ Heads' = Heads
  BY <1>2 DEF Users, BusyUsers, Heads
<1>12. \A x \in Window(used_idx, usedIdx) : usedRing'[x % NUM] = usedRing[x % NUM]
  <2>1. \A x \in Window(used_idx, usedIdx) : x % NUM \in Desc /\ x % NUM # usedIdx % NUM
    BY <1>9, SlotIs, RingSlots DEF Window
  <2> QED BY <2>1, <1>1, <1>3 DEF DriverTypes
<1>13. usedRing'[usedIdx % NUM] = h
  BY <1>1, <1>3, <1>4 DEF DriverTypes
<1>14. UsedHeads' = UsedHeads \cup {h} /\ AvailHeads' = AvailHeads
  BY <1>2, <1>10, <1>12, <1>13 DEF AvailHeads, UsedHeads
<1>15. h \in Heads /\ h \notin UsedHeads /\ h \notin AvailHeads
  BY <1>1, PlacesAreHeads DEF RequestInv, PlaceInv
<1>16. CallerInv' /\ ChainInv' /\ DescSleepersHaveReason'
  <2>1. CallerInv'
    BY <1>2 DEF RequestInv, CallerInv
  <2>2. ChainInv'
    BY <1>2, <1>11 DEF RequestInv, ChainInv, DescriptorsConserved, Chain
  <2> QED BY <2>1, <2>2, <1>2 DEF RequestInv, DescSleepersHaveReason
<1>17. RingInv'
  <2>1. \A x \in Window(used_idx, usedIdx) : usedRing[x % NUM] \in Heads /\ usedRing[x % NUM] # h
    BY <1>15 DEF RequestInv, RingInv, UsedHeads
  <2>2. (\A x \in Window(used_idx, usedIdx) : usedRing[x % NUM] \in Heads)'
    BY <2>1, <1>10, <1>11, <1>12, <1>13, <1>15
  <2>3. (\A x, y \in Window(used_idx, usedIdx) : usedRing[x % NUM] = usedRing[y % NUM] => x = y)'
    BY <2>1, <1>10, <1>12, <1>13 DEF RequestInv, RingInv
  <2> QED BY <2>2, <2>3, <1>2, <1>10, <1>11 DEF RequestInv, RingInv
<1>18. PlaceInv'
  <2>1. /\ inflight' \subseteq Heads'
        /\ AvailHeads' \cap inflight' = {} /\ AvailHeads' \cap UsedHeads' = {}
        /\ inflight' \cap UsedHeads' = {}
    BY <1>1, <1>11, <1>14, <1>15 DEF RequestInv, PlaceInv
  <2>2. AvailHeads' \cup inflight' \cup UsedHeads' = AvailHeads \cup inflight \cup UsedHeads
    BY <1>1, <1>14
  <2>3. \A q \in Users' : busy'[mybuf'[q]] <=> idx0'[q] \in AvailHeads' \cup inflight' \cup UsedHeads'
    BY <2>2, <1>2, <1>11 DEF RequestInv, PlaceInv
  <2>4. \A d \in UsedHeads' : status'[d] = 0
    <3>1. \A d \in UsedHeads : d \in Desc /\ status[d] = 0
      BY PlacesAreHeads DEF RequestInv, PlaceInv
    <3> QED BY <3>1, <1>1, <1>3, <1>14 DEF DriverTypes
  <2> QED BY <2>1, <2>3, <2>4 DEF PlaceInv
<1>19. RoomInv'
  BY <1>8, <1>10, <1>11, Sizes DEF RequestInv, RoomInv
<1> QED BY <1>7, <1>16, <1>17, <1>18, <1>19 DEF RequestInv

\* Whose request the handler meets: one that is busy, and in the used ring.
LEMMA EntryIs ==
    ASSUME RequestInv, used_idx # usedIdx
    PROVE  /\ used_idx \in Window(used_idx, usedIdx)
           /\ usedRing[UsedSlot] \in UsedHeads
           /\ \E p \in Users : /\ usedRing[UsedSlot] = idx0[p]
                               /\ op[usedRing[UsedSlot]].b = mybuf[p]
                               /\ busy[mybuf[p]] /\ mybuf[p] \in Buf
<1>1. used_idx \in Window(used_idx, usedIdx)
  BY WindowShrinks DEF RequestInv, DriverTypes
<1>2. usedRing[UsedSlot] \in UsedHeads
  BY <1>1 DEF UsedHeads, UsedSlot
<1>3. PICK p \in Users : usedRing[UsedSlot] = idx0[p]
  BY <1>2, PlacesAreHeads DEF Heads
<1>5. op[idx0[p]].b = mybuf[p] /\ mybuf[p] \in Buf
  BY RequestIs
<1>6. busy[mybuf[p]]
  BY <1>2, <1>3 DEF RequestInv, PlaceInv
<1> QED BY <1>1, <1>2, <1>3, <1>5, <1>6

\* The handler consumes an entry of the used ring.
LEMMA EntryRequest ==
    ASSUME RequestInv, IntrEntry
    PROVE  RequestInv'
<1> DEFINE h == usedRing[UsedSlot]
<1>1. used_idx # usedIdx
  BY DEF IntrEntry
<1>2. PICK p \in Users : h = idx0[p] /\ op[h].b = mybuf[p] /\ busy[mybuf[p]] /\ mybuf[p] \in Buf
  BY <1>1, EntryIs
<1>3. h \in UsedHeads /\ used_idx \in Window(used_idx, usedIdx)
  BY <1>1, EntryIs
<1>4. /\ busy' = [busy EXCEPT ![mybuf[p]] = FALSE]
      /\ pc' = Woken("iosleep", "io", {q \in Proc : mybuf[q] = mybuf[p]})
      /\ usedRing' = [usedRing EXCEPT ![UsedSlot] = None] /\ used_idx' = Succ(used_idx)
  BY <1>2 DEF IntrEntry, Succ
<1>5. /\ UNCHANGED <<mybuf, wr, data, blockno, free, next, op, idx0, status>>
      /\ UNCHANGED <<availRing, availIdx, seen, inflight, platter, usedIdx, irq, intr>>
  BY DEF IntrEntry, bufVars, descVars
<1>6. DriverTypes
  BY DEF RequestInv
<1>7. /\ availIdx \in Index /\ seen \in Index /\ usedIdx \in Index /\ used_idx \in Index
      /\ UsedSlot \in Desc /\ Succ(used_idx) \in Index
  BY <1>6, SlotIs, SuccIs DEF DriverTypes, UsedSlot
<1>8. \A q \in Proc : /\ pc'[q] \in PCs /\ (pc'[q] = "dsleep" <=> pc[q] = "dsleep")
                      /\ pc'[q] \in InIo <=> pc[q] \in InIo
                      /\ pc'[q] \in InRw <=> pc[q] \in InRw
  BY <1>4, <1>6 DEF Woken, DriverTypes, PCs, InIo, InRw
<1>9. /\ Ahead(used_idx, usedIdx)' = Ahead(used_idx, usedIdx) - 1
      /\ Window(used_idx, usedIdx)' = Window(used_idx, usedIdx) \ {used_idx}
      /\ Ahead(seen, availIdx)' = Ahead(seen, availIdx)
      /\ Window(seen, availIdx)' = Window(seen, availIdx)
  BY <1>1, <1>4, <1>5, <1>7, WindowShrinks
<1>10. DriverTypes'
  <2>1. pc' \in [Proc -> PCs]
    BY <1>4, <1>8 DEF Woken
  <2>2. busy' \in [Buf -> BOOLEAN] /\ usedRing' \in [Desc -> Desc \cup {None}]
    BY <1>4, <1>6 DEF DriverTypes
  <2> QED BY <2>1, <2>2, <1>4, <1>5, <1>6, <1>7 DEF DriverTypes
<1>11. Users' = Users /\ Heads' = Heads
  BY <1>5 DEF Users, Heads
<1>12. \A q \in Users : busy'[mybuf'[q]] <=> busy[mybuf[q]] /\ q # p
  BY <1>2, <1>4, <1>5, <1>6, HeadsAre DEF DriverTypes
<1>13. BusyUsers' = BusyUsers \ {p} /\ p \in BusyUsers
  BY <1>2, <1>11, <1>12 DEF BusyUsers
<1>14. \A x \in Window(used_idx, usedIdx) : x # used_idx => usedRing'[x % NUM] = usedRing[x % NUM]
  <2>1. \A x \in Window(used_idx, usedIdx) :
           x % NUM \in Desc /\ (x # used_idx => x % NUM # used_idx % NUM)
    BY <1>3, SlotIs, RingSlots DEF Window
  <2> QED BY <2>1, <1>4, <1>6 DEF DriverTypes, UsedSlot
<1>15. \A x, y \in Window(used_idx, usedIdx) : usedRing[x % NUM] = usedRing[y % NUM] => x = y
  BY DEF RequestInv, RingInv
<1>16. UsedHeads' = UsedHeads \ {h} /\ AvailHeads' = AvailHeads
  <2>1. UsedHeads' = {usedRing[x % NUM] : x \in Window(used_idx, usedIdx) \ {used_idx}}
    BY <1>9, <1>14 DEF UsedHeads
  <2>2. {usedRing[x % NUM] : x \in Window(used_idx, usedIdx) \ {used_idx}} = UsedHeads \ {h}
    BY <1>3, <1>15 DEF UsedHeads, UsedSlot
  <2> QED BY <2>1, <2>2, <1>5, <1>9 DEF AvailHeads
<1>17. CallerInv'
  <2>1. \A q \in Proc : idx0'[q] # None <=> pc'[q] \in InIo
    BY <1>5, <1>8 DEF RequestInv, CallerInv
  <2>2. \A q \in Proc : pc'[q] \in InRw => mybuf'[q] \in Buf /\ blockno'[mybuf'[q]] \in Block
    BY <1>5, <1>8 DEF RequestInv, CallerInv
  <2>3. \A q \in Proc : pc'[q] \in InIo =>
           op'[idx0'[q]] = [b |-> mybuf'[q], sector |-> blockno'[mybuf'[q]], write |-> wr'[q]]
    BY <1>5, <1>8 DEF RequestInv, CallerInv
  <2>4. \A q, r \in Proc :
           pc'[q] \in InRw /\ pc'[r] \in InRw /\ mybuf'[q] = mybuf'[r] => q = r
    BY <1>5, <1>8 DEF RequestInv, CallerInv
  <2> QED BY <2>1, <2>2, <2>3, <2>4 DEF CallerInv
<1>18. ChainInv'
  BY <1>5, <1>11 DEF RequestInv, ChainInv, DescriptorsConserved, Chain
<1>19. DescSleepersHaveReason'
  BY <1>5, <1>8 DEF RequestInv, DescSleepersHaveReason
<1>20. RingInv'
  BY <1>5, <1>9, <1>11, <1>14 DEF RequestInv, RingInv
<1>21. PlaceInv'
  <2>1. /\ inflight' \subseteq Heads'
        /\ AvailHeads' \cap inflight' = {} /\ AvailHeads' \cap UsedHeads' = {}
        /\ inflight' \cap UsedHeads' = {}
    BY <1>5, <1>11, <1>16 DEF RequestInv, PlaceInv
  <2>2. \A q \in Users : idx0[q] = h <=> q = p
    BY <1>2, HeadsAre
  <2>3. h \notin AvailHeads /\ h \notin inflight
    BY <1>3 DEF RequestInv, PlaceInv
  <2>4. \A q \in Users' : busy'[mybuf'[q]] <=> idx0'[q] \in AvailHeads' \cup inflight' \cup UsedHeads'
    BY <2>2, <2>3, <1>5, <1>11, <1>12, <1>16 DEF RequestInv, PlaceInv
  <2>5. \A d \in UsedHeads' : status'[d] = 0
    BY <1>5, <1>16 DEF RequestInv, PlaceInv
  <2> QED BY <2>1, <2>4, <2>5 DEF PlaceInv
<1>22. RoomInv'
  <2>1. Cardinality(BusyUsers') = Cardinality(BusyUsers) - 1
    BY <1>13, Sizes, FS_RemoveElement
  <2> QED BY <2>1, <1>5, <1>9, Sizes DEF RequestInv, RoomInv
<1> QED BY <1>10, <1>17, <1>18, <1>19, <1>20, <1>21, <1>22 DEF RequestInv


\* A request returns: its chain is freed, and who waits for descriptors woken.
LEMMA ReturnRequest ==
    ASSUME RequestInv, NEW p \in Proc, IoReturn(p)
    PROVE  RequestInv'
<1> DEFINE h  == idx0[p]
           d1 == next[h]
           d2 == next[d1]
<1>1. p \in Users /\ pc[p] = "io" /\ ~busy[mybuf[p]]
  BY DEF IoReturn, RequestInv, CallerInv, Users, InIo
<1>2. /\ free' = free \cup {h, d1, d2}
      /\ next' = [d \in Desc |-> IF d \in {h, d1, d2} THEN None ELSE next[d]]
      /\ op' = [op EXCEPT ![h] = NoOp] /\ idx0' = [idx0 EXCEPT ![p] = None]
      /\ pc' = [Woken("dsleep", "rw", Proc) EXCEPT ![p] = "held"]
  BY DEF IoReturn, Chain, FreeChainWakes, WakeDescSleepers
<1>3. /\ UNCHANGED <<mybuf, wr, data, blockno, busy, status, availRing, availIdx, used_idx>>
      /\ UNCHANGED <<seen, inflight, platter, usedRing, usedIdx, irq, intr>>
  BY DEF IoReturn, bufVars, deviceVars
<1>4. DriverTypes
  BY DEF RequestInv
<1>5. /\ h \in Desc /\ d1 \in Desc /\ d2 \in Desc /\ h # d1 /\ h # d2 /\ d1 # d2
      /\ h \notin free /\ d1 \notin free /\ d2 \notin free /\ Chain(h) = {h, d1, d2}
  BY <1>1 DEF RequestInv, ChainInv, DescriptorsConserved, Chain, Users
<1>6. \A q \in Proc : /\ q = p => pc'[q] = "held"
                      /\ q # p => pc'[q] = IF pc[q] = "dsleep" THEN "rw" ELSE pc[q]
  BY <1>2 DEF Woken
<1>7. DriverTypes'
  <2>1. pc' \in [Proc -> PCs]
    BY <1>2, <1>4 DEF Woken, DriverTypes, PCs
  <2>2. op' \in [Desc -> Request]
    <3>1. NoOp \in Request
      BY DEF NoOp, Request
    <3> QED BY <3>1, <1>2, <1>4 DEF DriverTypes
  <2>3. next' \in [Desc -> Desc \cup {None}] /\ free' \subseteq Desc
    BY <1>2, <1>4, <1>5 DEF DriverTypes
  <2>4. idx0' \in [Proc -> Desc \cup {None}]
    BY <1>2, <1>4 DEF DriverTypes
  <2> QED BY <2>1, <2>2, <2>3, <2>4, <1>3, <1>4 DEF DriverTypes
<1>8. /\ Users' = Users \ {p}
      /\ \A q \in Users \ {p} : idx0'[q] = idx0[q] /\ q \in Proc
      /\ \A q \in Proc : q # p => idx0'[q] = idx0[q]
      /\ idx0'[p] = None
  BY <1>2, <1>4 DEF Users, DriverTypes
<1>9. BusyUsers' = BusyUsers
  BY <1>1, <1>3, <1>8 DEF BusyUsers
<1>10. Heads' = Heads \ {h}
  <2>1. Heads' = {idx0[q] : q \in Users \ {p}}
    BY <1>8 DEF Heads
  <2>2. \A q \in Users \ {p} : idx0[q] # h
    BY <1>1, HeadsAre
  <2> QED BY <2>1, <2>2, <1>1 DEF Heads
<1>11. /\ AvailHeads' = AvailHeads /\ UsedHeads' = UsedHeads
       /\ Ahead(seen, availIdx)' = Ahead(seen, availIdx)
       /\ Ahead(used_idx, usedIdx)' = Ahead(used_idx, usedIdx)
  BY <1>3 DEF AvailHeads, UsedHeads
<1>12. h \notin AvailHeads /\ h \notin inflight /\ h \notin UsedHeads
  BY <1>1 DEF RequestInv, PlaceInv
<1>13. \A q \in Users \ {p} :
          LET c == idx0[q] IN
            /\ c \in Desc /\ next[c] \in Desc /\ next[next[c]] \in Desc
            /\ c \notin {h, d1, d2} /\ next[c] \notin {h, d1, d2}
            /\ next[next[c]] \notin {h, d1, d2}
  <2>1. \A q \in Users \ {p} : Chain(idx0[q]) \cap {h, d1, d2} = {}
    BY <1>1, <1>5 DEF RequestInv, ChainInv, DescriptorsConserved, Users
  <2> QED BY <2>1 DEF RequestInv, ChainInv, Chain
<1>14. \A q \in Users \ {p} :
          /\ next'[idx0[q]] = next[idx0[q]]
          /\ next'[next[idx0[q]]] = next[next[idx0[q]]]
  BY <1>2, <1>13
<1>15. \A q \in Users \ {p} : Chain(idx0[q])' = Chain(idx0[q])
  BY <1>8, <1>14 DEF Chain
<1>16. CallerInv'
  <2>1. \A q \in Proc : pc'[q] \in InIo <=> pc[q] \in InIo /\ q # p
    BY <1>6 DEF InIo
  <2>2. \A q \in Proc : pc'[q] \in InRw <=> pc[q] \in InRw /\ q # p
    BY <1>6 DEF InRw
  <2>3. \A q \in Proc : idx0'[q] # None <=> pc'[q] \in InIo
    BY <2>1, <1>8 DEF RequestInv, CallerInv
  <2>4. \A q \in Proc : pc'[q] \in InRw => mybuf'[q] \in Buf /\ blockno'[mybuf'[q]] \in Block
    BY <2>2, <1>3 DEF RequestInv, CallerInv
  <2>5. ASSUME NEW q \in Proc, pc'[q] \in InIo
        PROVE  op'[idx0'[q]] = [b |-> mybuf'[q], sector |-> blockno'[mybuf'[q]], write |-> wr'[q]]
    <3>1. q \in Users \ {p} /\ pc[q] \in InIo
      BY <2>1, <2>5 DEF RequestInv, CallerInv, Users
    <3>2. op'[idx0'[q]] = op[idx0[q]]
      BY <3>1, <1>2, <1>4, <1>8, <1>13 DEF DriverTypes
    <3> QED BY <3>1, <3>2, <1>3 DEF RequestInv, CallerInv
  <2>6. \A q, r \in Proc :
           pc'[q] \in InRw /\ pc'[r] \in InRw /\ mybuf'[q] = mybuf'[r] => q = r
    BY <2>2, <1>3 DEF RequestInv, CallerInv
  <2> QED BY <2>3, <2>4, <2>5, <2>6 DEF CallerInv
<1>17. ChainInv'
  <2>1. \A q \in Users' :
          LET c == idx0'[q] IN
            /\ c \in Desc /\ next'[c] \in Desc /\ next'[next'[c]] \in Desc
            /\ c # next'[c] /\ c # next'[next'[c]] /\ next'[c] # next'[next'[c]]
    BY <1>8, <1>13, <1>14 DEF RequestInv, ChainInv
  <2>2. DescriptorsConserved'
    <3>1. /\ free \cup UNION {Chain(idx0[q]) : q \in Users} = Desc
          /\ \A q \in Users : Chain(idx0[q]) \cap free = {}
          /\ \A q, r \in Users : q # r => Chain(idx0[q]) \cap Chain(idx0[r]) = {}
      BY DEF RequestInv, ChainInv, DescriptorsConserved, Users
    <3>2. (UNION {Chain(idx0[q]) : q \in Users})' = UNION {Chain(idx0[q]) : q \in Users \ {p}}
      BY <1>8, <1>15
    <3>3. (free \cup UNION {Chain(idx0[q]) : q \in Users} = Desc)'
      <4> DEFINE U == UNION {Chain(idx0[q]) : q \in Users}
                 V == UNION {Chain(idx0[q]) : q \in Users \ {p}}
                 T == {h, d1, d2}
      <4>1. \A q : q \in Users <=> q \in Users \ {p} \/ q = p
        BY <1>1
      <4>2. Chain(idx0[p]) = T
        BY <1>5
      <4>3. \A d : d \in U <=> d \in V \/ d \in Chain(idx0[p])
        BY <4>1
      <4>4. free \cup U = Desc /\ free' = free \cup T /\ U' = V
        BY <3>1, <3>2, <1>2
      <4> HIDE DEF U, V, T
      <4>5. free' \cup V = Desc
        BY <4>2, <4>3, <4>4
      <4>6. (free \cup U = Desc)'
        BY <4>4, <4>5
      <4> QED BY <4>6 DEF U
    <3>5. (\A q \in Users : Chain(idx0[q]) \cap free = {})'
      <4>1. \A q \in Users \ {p} : Chain(idx0[q]) \cap {h, d1, d2} = {}
        BY <3>1, <1>1, <1>5
      <4> HIDE DEF h, d1, d2
      <4>2. \A q \in Users \ {p} : Chain(idx0[q]) \cap free' = {}
        BY <3>1, <4>1, <1>2
      <4> QED BY <4>2, <1>8, <1>15
    <3>6. (\A q, r \in Users : q # r => Chain(idx0[q]) \cap Chain(idx0[r]) = {})'
      BY <3>1, <1>8, <1>15
    <3> QED BY <3>3, <3>5, <3>6 DEF DescriptorsConserved, Users
  <2>3. (Cardinality(free) + 3 * Cardinality(Users) = NUM)'
    <3>1. Cardinality(Users') = Cardinality(Users) - 1
      BY <1>1, <1>8, Sizes, FS_RemoveElement
    <3>2. Cardinality(free') = Cardinality(free) + 3
      <4>1. IsFiniteSet(free \cup {h}) /\ Cardinality(free \cup {h}) = Cardinality(free) + 1
        BY <1>5, Sizes, FS_AddElement
      <4>2. /\ IsFiniteSet((free \cup {h}) \cup {d1})
            /\ Cardinality((free \cup {h}) \cup {d1}) = Cardinality(free \cup {h}) + 1
        <5>1. d1 \notin free \cup {h}
          BY <1>5
        <5> QED BY <4>1, <5>1, FS_AddElement
      <4>3. /\ Cardinality(((free \cup {h}) \cup {d1}) \cup {d2})
                 = Cardinality((free \cup {h}) \cup {d1}) + 1
        <5>1. d2 \notin (free \cup {h}) \cup {d1}
          BY <1>5
        <5> QED BY <4>2, <5>1, FS_AddElement
      <4>4. free' = ((free \cup {h}) \cup {d1}) \cup {d2}
        BY <1>2
      <4> QED BY <4>1, <4>2, <4>3, <4>4, Sizes
    <3> QED BY <3>1, <3>2, Sizes
  <2> QED BY <2>1, <2>2, <2>3 DEF ChainInv
<1>18. RingInv'
  <2>1. \A x \in Window(seen, availIdx) : availRing[x % NUM] \in Heads \ {h}
    BY <1>12 DEF RequestInv, RingInv, AvailHeads
  <2>2. \A x \in Window(used_idx, usedIdx) : usedRing[x % NUM] \in Heads \ {h}
    BY <1>12 DEF RequestInv, RingInv, UsedHeads
  <2> QED BY <2>1, <2>2, <1>3, <1>10 DEF RequestInv, RingInv
<1>19. PlaceInv'
  <2>1. /\ inflight' \subseteq Heads'
        /\ AvailHeads' \cap inflight' = {} /\ AvailHeads' \cap UsedHeads' = {}
        /\ inflight' \cap UsedHeads' = {}
    BY <1>3, <1>10, <1>11, <1>12 DEF RequestInv, PlaceInv
  <2>2. \A q \in Users' : busy'[mybuf'[q]] <=> idx0'[q] \in AvailHeads' \cup inflight' \cup UsedHeads'
    BY <1>3, <1>8, <1>11 DEF RequestInv, PlaceInv
  <2>3. \A d \in UsedHeads' : status'[d] = 0
    BY <1>3, <1>11 DEF RequestInv, PlaceInv
  <2> QED BY <2>1, <2>2, <2>3 DEF PlaceInv
<1>20. RoomInv'
  BY <1>3, <1>9, <1>11 DEF RequestInv, RoomInv
<1>21. DescSleepersHaveReason'
  BY <1>6 DEF DescSleepersHaveReason
<1> QED BY <1>7, <1>16, <1>17, <1>18, <1>19, <1>20, <1>21 DEF RequestInv

\* The steps of virtio_disk_rw() that only move a process.
LEMMA WaitRequest ==
    ASSUME RequestInv, NEW p \in Proc, NoDescriptors(p) \/ IoAgain(p) \/ Kill(p)
    PROVE  RequestInv'
<1>1. /\ UNCHANGED <<busy, descVars, status, availRing, availIdx, used_idx>>
      /\ UNCHANGED <<seen, inflight, platter, usedRing, usedIdx, irq, intr>>
      /\ UNCHANGED <<mybuf, wr, data, blockno>>
  BY DEF NoDescriptors, IoAgain, Kill, deviceVars, bufVars
<1>2. \A q \in Proc : /\ pc'[q] \in PCs
                      /\ pc'[q] \in InIo <=> pc[q] \in InIo
                      /\ pc'[q] \in InRw <=> pc[q] \in InRw
                      /\ pc'[q] = "dsleep" => pc[q] = "dsleep" \/ Cardinality(free) < 3
  BY DEF NoDescriptors, IoAgain, Kill, WakeDescSleepers, Woken, InIo, InRw, PCs,
         RequestInv, DriverTypes
<1>3. pc' \in [Proc -> PCs]
  BY DEF NoDescriptors, IoAgain, Kill, WakeDescSleepers, Woken, PCs, RequestInv, DriverTypes
<1>4. Calm
  BY <1>1, <1>2, <1>3 DEF Calm, RequestInv, DriverTypes, CallerInv
<1> QED BY <1>4, CalmRequest

\* Taking and ending an interrupt.
LEMMA IntrRequest ==
    ASSUME RequestInv, IntrEnter \/ IntrExit
    PROVE  RequestInv'
<1>1. /\ UNCHANGED <<busy, descVars, status, availRing, availIdx, used_idx>>
      /\ UNCHANGED <<seen, inflight, platter, usedRing, usedIdx>>
      /\ UNCHANGED <<pc, mybuf, wr, data, blockno>>
      /\ irq' \in BOOLEAN /\ intr' \in BOOLEAN
  BY DEF IntrEnter, IntrExit, deviceVars, bufVars, RequestInv, DriverTypes
<1>2. Calm
  BY <1>1 DEF Calm, RequestInv, DriverTypes, CallerInv, DescSleepersHaveReason
<1> QED BY <1>2, CalmRequest

\* What the driver promises follows.
LEMMA RequestDriver == RequestInv => DriverInv
<1> SUFFICES ASSUME RequestInv PROVE DriverInv
  OBVIOUS
<1>1. InterruptIsForARequest
  <2> SUFFICES ASSUME used_idx # usedIdx
               PROVE  LET h == usedRing[UsedSlot]
                      IN h # None /\ status[h] = 0 /\ op[h].b # None /\ busy[op[h].b]
    BY DEF InterruptIsForARequest
  <2>1. usedRing[UsedSlot] \in UsedHeads
    BY EntryIs
  <2>2. usedRing[UsedSlot] # None
    BY <2>1, PlacesAreHeads, DescIs
  <2>3. PICK p \in Users : /\ op[usedRing[UsedSlot]].b = mybuf[p]
                           /\ busy[mybuf[p]] /\ mybuf[p] \in Buf
    BY EntryIs
  <2>4. op[usedRing[UsedSlot]].b # None
    BY <2>3, DiskAssumption
  <2>5. status[usedRing[UsedSlot]] = 0
    BY <2>1 DEF RequestInv, PlaceInv
  <2> QED BY <2>2, <2>3, <2>4, <2>5
<1> QED BY <1>1 DEF DriverInv, RequestInv, ChainInv


\* The request invariant holds of the initial driver.
LEMMA DiskStarts ==
    ASSUME DiskInit, mybuf \in [Proc -> Buf \cup {None}]
    PROVE  RequestInv
<1>1. Users = {} /\ BusyUsers = {} /\ Heads = {}
  BY DEF DiskInit, Users, BusyUsers, Heads
<1>2. 0 \in Index /\ seen = 0 /\ availIdx = 0 /\ usedIdx = 0 /\ used_idx = 0
  BY DiskAssumption DEF DiskInit, Index
<1>3. /\ Window(seen, availIdx) = {} /\ Window(used_idx, usedIdx) = {}
      /\ Ahead(seen, availIdx) = 0 /\ Ahead(used_idx, usedIdx) = 0
  BY <1>2, WindowEmpty
<1>4. AvailHeads = {} /\ UsedHeads = {} /\ inflight = {}
  BY <1>3 DEF AvailHeads, UsedHeads, DiskInit
<1>5. DriverTypes
  <2>1. (CHOOSE v \in Val : TRUE) \in Val
    BY DiskAssumption
  <2>2. data \in [Buf -> Val] /\ platter \in [Block -> Val]
    BY <2>1 DEF DiskInit
  <2>3. op \in [Desc -> Request] /\ status \in [Desc -> Nat]
    <3>1. NoOp \in Request /\ 0 \in Nat
      BY DEF NoOp, Request
    <3> QED BY <3>1 DEF DiskInit
  <2>4. pc \in [Proc -> PCs] /\ wr \in [Proc -> BOOLEAN] /\ idx0 \in [Proc -> Desc \cup {None}]
    BY DEF DiskInit, PCs
  <2>5. /\ blockno \in [Buf -> Block \cup {None}] /\ busy \in [Buf -> BOOLEAN]
        /\ free \subseteq Desc /\ next \in [Desc -> Desc \cup {None}]
        /\ availRing \in [Desc -> Desc \cup {None}] /\ usedRing \in [Desc -> Desc \cup {None}]
        /\ irq \in BOOLEAN /\ intr \in BOOLEAN
    BY DEF DiskInit
  <2> QED BY <2>2, <2>3, <2>4, <2>5, <1>2, <1>4 DEF DriverTypes
<1>6. CallerInv
  BY DEF DiskInit, CallerInv, InIo, InRw
<1>7. ChainInv
  <2>1. DescriptorsConserved
    BY DEF DescriptorsConserved, DiskInit
  <2>2. Cardinality(free) + 3 * Cardinality(Users) = NUM
    <3>1. Cardinality(free) = NUM
      BY DescIs DEF DiskInit
    <3>2. Cardinality(Users) = 0
      BY <1>1, FS_EmptySet
    <3> QED BY <3>1, <3>2, DiskAssumption
  <2> QED BY <2>1, <2>2, <1>1 DEF ChainInv
<1>8. RingInv /\ PlaceInv
  BY <1>1, <1>3, <1>4 DEF RingInv, PlaceInv
<1>9. RoomInv
  BY <1>1, <1>3, <1>4, FS_EmptySet DEF RoomInv
<1>10. DescSleepersHaveReason
  BY DEF DiskInit, DescSleepersHaveReason
<1> QED BY <1>5, <1>6, <1>7, <1>8, <1>9, <1>10 DEF RequestInv

\* The driver by itself: its callers never change buffers.
SoloInv ==
    /\ RequestInv
    /\ mybuf \in [Proc -> Buf] /\ \A p, q \in Proc : p # q => mybuf[p] # mybuf[q]

\* There is a buffer for each caller: bget() gives out no buffer twice.
CallersFit == \E f \in [Proc -> Buf] : \A p, q \in Proc : p # q => f[p] # f[q]

\* The invariant of the driver by itself holds initially.
LEMMA SoloStarts ==
    ASSUME CallersFit, CallersInit
    PROVE  SoloInv
<1>1. mybuf \in [Proc -> Buf] /\ \A p, q \in Proc : p # q => mybuf[p] # mybuf[q]
  BY DEF CallersFit, CallersInit
<1>2. mybuf \in [Proc -> Buf \cup {None}] /\ DiskInit
  BY <1>1 DEF CallersInit
<1> QED BY <1>1, <1>2, DiskStarts DEF SoloInv

\* bread() or bwrite() calls the driver, or goes on when it returned.
LEMMA CallerRequest ==
    ASSUME SoloInv, NEW p \in Proc, (\E k \in Block : Call(p, k)) \/ Return(p)
    PROVE  SoloInv'
<1>1. /\ UNCHANGED <<busy, descVars, status, availRing, availIdx, used_idx>>
      /\ UNCHANGED <<seen, inflight, platter, usedRing, usedIdx, irq, intr>>
      /\ UNCHANGED <<mybuf, data>>
  BY DEF Call, Return, deviceVars, bufVars
<1>2. \A q \in Proc : mybuf[q] \in Buf
  BY DEF SoloInv
<1>3. DriverTypes /\ CallerInv
  BY DEF SoloInv, RequestInv
<1>4. CASE \E k \in Block : Call(p, k)
  <2>1. PICK k \in Block : Call(p, k)
    BY <1>4
  <2>2. /\ pc[p] = "idle" /\ pc' = [pc EXCEPT ![p] = "rw"]
        /\ blockno' = [blockno EXCEPT ![mybuf[p]] = k]
        /\ \E w \in BOOLEAN : wr' = [wr EXCEPT ![p] = w]
    BY <2>1 DEF Call
  <2>3. /\ pc' \in [Proc -> PCs] /\ wr' \in [Proc -> BOOLEAN]
        /\ blockno' \in [Buf -> Block \cup {None}]
    BY <2>2, <1>3 DEF DriverTypes, PCs
  <2>4. \A q \in Proc : /\ pc'[q] \in InIo <=> pc[q] \in InIo
                        /\ pc[q] \in InIo => q # p
                        /\ pc'[q] = "dsleep" => pc[q] = "dsleep"
                        /\ q # p => wr'[q] = wr[q] /\ pc'[q] = pc[q]
    BY <2>2, <1>3 DEF DriverTypes, InIo
  <2>5. \A q \in Proc : blockno'[mybuf[q]] = IF q = p THEN k ELSE blockno[mybuf[q]]
    BY <2>2, <1>2, <1>3 DEF DriverTypes, SoloInv
  <2>6. \A q \in Proc : pc'[q] \in InRw => mybuf'[q] \in Buf /\ blockno'[mybuf'[q]] \in Block
    BY <2>4, <2>5, <1>1, <1>2, <1>3 DEF CallerInv
  <2>7. \A q, r \in Proc : mybuf'[q] = mybuf'[r] => q = r
    BY <1>1 DEF SoloInv
  <2>8. Calm
    BY <2>3, <2>4, <2>5, <2>6, <2>7, <1>1, <1>3 DEF Calm, DriverTypes
  <2> QED BY <2>8, <1>1, CalmRequest DEF SoloInv
<1>5. CASE Return(p)
  <2>2. /\ pc[p] = "held" /\ pc' = [pc EXCEPT ![p] = "idle"] /\ UNCHANGED blockno
        /\ wr' = [wr EXCEPT ![p] = FALSE]
    BY <1>5 DEF Return, bufVars
  <2>3. pc' \in [Proc -> PCs] /\ wr' \in [Proc -> BOOLEAN]
    BY <2>2, <1>3 DEF DriverTypes, PCs
  <2>4. \A q \in Proc : /\ pc'[q] \in InIo <=> pc[q] \in InIo
                        /\ pc[q] \in InIo => wr'[q] = wr[q]
                        /\ pc'[q] = "dsleep" => pc[q] = "dsleep"
                        /\ pc'[q] \in InRw => pc[q] \in InRw
    BY <2>2, <1>3 DEF DriverTypes, InIo, InRw
  <2>5. \A q \in Proc : pc'[q] \in InRw => mybuf'[q] \in Buf /\ blockno'[mybuf'[q]] \in Block
    BY <2>2, <2>4, <1>1, <1>3 DEF CallerInv
  <2>6. \A q, r \in Proc : mybuf'[q] = mybuf'[r] => q = r
    BY <1>1 DEF SoloInv
  <2>7. Calm
    BY <2>2, <2>3, <2>4, <2>5, <2>6, <1>1, <1>3 DEF Calm, DriverTypes
  <2> QED BY <2>7, <1>1, CalmRequest DEF SoloInv
<1> QED BY <1>4, <1>5

\* A step of the driver, whoever calls it, keeps its invariant.
LEMMA DriverRequest ==
    ASSUME RequestInv,
           \/ Device \/ Intr
           \/ \E p \in Proc : RwStep(p) \/ Kill(p)
    PROVE  RequestInv'
<1>1. CASE DeviceFetch
  BY <1>1, FetchRequest
<1>2. CASE \E h \in Desc : DeviceDone(h)
  BY <1>2, DoneRequest
<1>3. CASE IntrEntry
  BY <1>3, EntryRequest
<1>4. CASE IntrEnter \/ IntrExit
  BY <1>4, IntrRequest
<1>5. ASSUME NEW p \in Proc, Submit(p) PROVE RequestInv'
  BY <1>5, SubmitRequest
<1>6. ASSUME NEW p \in Proc, IoReturn(p) PROVE RequestInv'
  BY <1>6, ReturnRequest
<1>7. ASSUME NEW p \in Proc, NoDescriptors(p) \/ IoAgain(p) \/ Kill(p) PROVE RequestInv'
  BY <1>7, WaitRequest
<1> QED BY <1>1, <1>2, <1>3, <1>4, <1>5, <1>6, <1>7 DEF Device, Intr, RwStep

\* Every step of the driver by itself keeps its invariant.
LEMMA SoloStep ==
    ASSUME SoloInv, [DiskNext]_diskVars
    PROVE  SoloInv'
<1>1. CASE UNCHANGED diskVars
  <2>1. /\ UNCHANGED <<busy, descVars, status, availRing, availIdx, used_idx>>
        /\ UNCHANGED <<seen, inflight, platter, usedRing, usedIdx, irq, intr>>
        /\ UNCHANGED <<pc, mybuf, wr, data, blockno>>
    BY <1>1 DEF diskVars, bufVars, deviceVars
  <2>2. Calm
    BY <2>1 DEF SoloInv, RequestInv, DriverTypes, CallerInv, Calm
  <2> QED BY <2>1, <2>2, CalmRequest DEF SoloInv
<1>2. CASE \E p \in Proc : (\E k \in Block : Call(p, k)) \/ Return(p)
  BY <1>2, CallerRequest
<1>3. CASE Device \/ Intr \/ \E p \in Proc : RwStep(p) \/ Kill(p)
  <2>1. UNCHANGED mybuf
    BY <1>3 DEF Device, Intr, RwStep, DeviceFetch, DeviceDone, IntrEnter, IntrEntry, IntrExit,
                Submit, NoDescriptors, IoAgain, IoReturn, Kill
  <2>2. RequestInv'
    BY <1>3, DriverRequest DEF SoloInv
  <2> QED BY <2>1, <2>2 DEF SoloInv
<1> QED BY <1>1, <1>2, <1>3 DEF DiskNext

(***************************************************************************)
(* virtio_disk.c by itself: whatever order the device finishes requests    *)
(* in, and however often the ring indices have wrapped around, no          *)
(* descriptor is lost or freed twice, nobody sleeps for descriptors that   *)
(* are there, and the handler meets only real completions.                 *)
(***************************************************************************)
THEOREM DriverAlways == ASSUME CallersFit PROVE DiskSpec => []DriverInv
<1>1. CallersInit => SoloInv
  BY SoloStarts
<1>2. SoloInv /\ [DiskNext]_diskVars => SoloInv'
  BY SoloStep
<1>3. SoloInv => DriverInv
  BY RequestDriver DEF SoloInv
<1> QED BY <1>1, <1>2, <1>3, PTL DEF DiskSpec

-----------------------------------------------------------------------------
(***************************************************************************)
(* The buffer cache.                                                       *)
(***************************************************************************)

\* The list with one entry moved to its front.
Moved(s, j) == <<s[j]>> \o RemoveAt(s, j)

\* MovedToFront() permutes the list: brelse() loses no buffer and doubles none.
LEMMA MovedIs ==
    ASSUME NEW S, NEW s \in Seq(S), NEW j \in 1 .. Len(s)
    PROVE  /\ Moved(s, j) \in Seq(S) /\ Len(Moved(s, j)) = Len(s)
           /\ ToSet(s) \subseteq ToSet(Moved(s, j)) /\ ToSet(Moved(s, j)) \subseteq S
<1> DEFINE u == SubSeq(s, 1, j - 1)
           v == SubSeq(s, j + 1, Len(s))
           w == u \o v
           b == s[j]
           t == <<b>> \o w
<1>1. Len(s) \in Nat /\ j \in Nat /\ 1 <= j /\ j <= Len(s) /\ b \in S
  BY LenProperties, ElementOfSeq
<1> HIDE DEF b
<1>2. /\ u \in Seq(S) /\ Len(u) = j - 1
      /\ \A i \in 1 .. j - 1 : u[i] = s[i]
  <2>1. \A i \in 1 .. j - 1 : s[i] \in S
    BY <1>1, ElementOfSeq
  <2>2. /\ SubSeq(s, 1, j - 1) \in Seq(S)
        /\ Len(SubSeq(s, 1, j - 1)) = IF 1 <= j - 1 THEN (j - 1) - 1 + 1 ELSE 0
        /\ \A i \in 1 .. (j - 1) - 1 + 1 : SubSeq(s, 1, j - 1)[i] = s[1 + i - 1]
    BY <1>1, <2>1, SubSeqProperties
  <2> QED BY <1>1, <2>2
<1>3. /\ v \in Seq(S) /\ Len(v) = Len(s) - j
      /\ \A i \in 1 .. Len(s) - j : v[i] = s[j + i]
  <2>1. \A i \in j + 1 .. Len(s) : s[i] \in S
    BY <1>1, ElementOfSeq
  <2>2. /\ SubSeq(s, j + 1, Len(s)) \in Seq(S)
        /\ Len(SubSeq(s, j + 1, Len(s))) = IF j + 1 <= Len(s) THEN Len(s) - (j + 1) + 1 ELSE 0
        /\ \A i \in 1 .. Len(s) - (j + 1) + 1 : SubSeq(s, j + 1, Len(s))[i] = s[(j + 1) + i - 1]
    BY <1>1, <2>1, SubSeqProperties
  <2> QED BY <1>1, <2>2
<1> HIDE DEF u, v
<1>4. /\ w \in Seq(S) /\ Len(w) = Len(s) - 1
      /\ \A i \in 1 .. Len(s) - 1 : w[i] = IF i <= j - 1 THEN u[i] ELSE v[i - (j - 1)]
  <2>1. Len(u) + Len(v) = Len(s) - 1
    BY <1>1, <1>2, <1>3
  <2>2. /\ u \o v \in Seq(S) /\ Len(u \o v) = Len(u) + Len(v)
        /\ \A i \in 1 .. Len(u) + Len(v) :
              (u \o v)[i] = IF i <= Len(u) THEN u[i] ELSE v[i - Len(u)]
    BY <1>2, <1>3, ConcatProperties
  <2> QED BY <1>2, <2>1, <2>2
<1>5. <<b>> \in Seq(S) /\ Len(<<b>>) = 1 /\ <<b>>[1] = b
  BY <1>1
<1> HIDE DEF w
<1>6. /\ t \in Seq(S) /\ Len(t) = Len(s)
      /\ \A i \in 1 .. Len(s) : t[i] = IF i <= 1 THEN b ELSE w[i - 1]
  <2>1. 1 + Len(w) = Len(s)
    BY <1>1, <1>4
  <2>2. /\ <<b>> \o w \in Seq(S) /\ Len(<<b>> \o w) = Len(<<b>>) + Len(w)
        /\ \A i \in 1 .. Len(<<b>>) + Len(w) :
              (<<b>> \o w)[i] = IF i <= Len(<<b>>) THEN <<b>>[i] ELSE w[i - Len(<<b>>)]
    BY <1>4, <1>5, ConcatProperties
  <2>3. \A i \in 1 .. Len(s) : (<<b>> \o w)[i] = IF i <= 1 THEN <<b>>[i] ELSE w[i - 1]
    BY <2>1, <2>2, <1>5
  <2>4. \A i \in 1 .. Len(s) : i <= 1 => i = 1
    BY <1>1
  <2> QED BY <2>1, <2>2, <2>3, <2>4, <1>5
<1> HIDE DEF t
<1>7. t[1] = b
  BY <1>1, <1>6
<1>8. ASSUME NEW i \in 1 .. Len(s), i # j PROVE \E k \in 1 .. Len(s) : t[k] = s[i]
  <2>1. CASE i < j
    <3>1. i + 1 \in 1 .. Len(s) /\ ~(i + 1 <= 1) /\ (i + 1) - 1 = i /\ i \in 1 .. Len(s) - 1
          /\ i <= j - 1 /\ i \in 1 .. j - 1
      BY <2>1, <1>1
    <3>2. t[i + 1] = w[i]
      BY <3>1, <1>6
    <3>3. w[i] = s[i]
      BY <3>1, <1>2, <1>4
    <3> QED BY <3>1, <3>2, <3>3
  <2>2. CASE i > j
    <3>1. /\ ~(i <= 1) /\ i - 1 \in 1 .. Len(s) - 1 /\ ~(i - 1 <= j - 1)
          /\ (i - 1) - (j - 1) = i - j /\ i - j \in 1 .. Len(s) - j /\ j + (i - j) = i
      BY <2>2, <1>1
    <3>2. t[i] = w[i - 1]
      BY <3>1, <1>6
    <3>3. w[i - 1] = v[i - j]
      BY <3>1, <1>4
    <3>4. v[i - j] = s[i]
      BY <3>1, <1>3
    <3> QED BY <3>2, <3>3, <3>4
  <2> QED BY <2>1, <2>2, <1>1, <1>8
<1>9. RemoveAt(s, j) = w
  BY DEF RemoveAt, w, u, v
<1>10. Moved(s, j) = t
  BY <1>9 DEF t, Moved, b
<1>11. DOMAIN s = 1 .. Len(s) /\ DOMAIN t = 1 .. Len(s)
  BY <1>6, LenProperties
<1>12. \A i \in 1 .. Len(s) : \E k \in 1 .. Len(s) : t[k] = s[i]
  <2>1. 1 \in 1 .. Len(s)
    BY <1>1
  <2> QED BY <2>1, <1>7, <1>8 DEF b
<1>13. ToSet(s) \subseteq ToSet(t)
  BY <1>11, <1>12 DEF ToSet
<1>14. ToSet(t) \subseteq S
  BY <1>6, <1>11, ElementOfSeq DEF ToSet
<1> QED BY <1>6, <1>10, <1>13, <1>14

\* binit() puts every buffer into the list.
LEMMA SetToSeqIs ==
    LET s == SetToSeq(Buf)
    IN s \in Seq(Buf) /\ Len(s) = Cardinality(Buf) /\ ToSet(s) = Buf
<1> DEFINE n == Cardinality(Buf)
           s == SetToSeq(Buf)
<1>1. IsFiniteSet(Buf) /\ n \in Nat /\ ExistsBijection(1 .. n, Buf)
  BY DiskAssumption, FS_CardinalityType
<1>2. \E f \in [1 .. n -> Buf] : IsInjective(f)
  BY <1>1 DEF ExistsBijection, Bijection, Injection
<1>3. s \in [1 .. n -> Buf] /\ IsInjective(s)
  BY <1>2 DEF SetToSeq
<1> HIDE DEF s
<1>4. s \in Injection(1 .. n, Buf)
  BY <1>3 DEF Injection
<1>5. Cardinality(1 .. n) = n
  <2>1. Cardinality(1 .. n) = IF 1 > n THEN 0 ELSE n - 1 + 1
    BY <1>1, FS_Interval
  <2> QED BY <2>1, <1>1
<1>6. s \in Surjection(1 .. n, Buf)
  BY <1>1, <1>4, <1>5, FS_Injection
<1>7. \A b \in Buf : \E i \in 1 .. n : s[i] = b
  BY <1>6 DEF Surjection
<1>8. s \in Seq(Buf) /\ Len(s) = n
  BY <1>1, <1>3
<1>9. ToSet(s) = Buf
  <2>1. DOMAIN s = 1 .. n
    BY <1>3
  <2> QED BY <2>1, <1>3, <1>7 DEF ToSet
<1> QED BY <1>8, <1>9 DEF s

\* bget() recycles a buffer that nobody uses.
LEMMA VictimIs ==
    ASSUME LruInv, refcnt \in [Buf -> Nat], Unused # {}
    PROVE  Victim \in Buf /\ refcnt[Victim] = 0
<1>1. Len(lru) \in Nat /\ DOMAIN lru = 1 .. Len(lru)
  BY LenProperties DEF LruInv
<1> DEFINE D == {Len(lru) - j : j \in Unused}
<1>2. Unused \subseteq 1 .. Len(lru)
  BY <1>1 DEF Unused
<1>3. D \subseteq Nat /\ D # {}
  <2>1. \A j \in 1 .. Len(lru) : Len(lru) - j \in Nat
    BY <1>1
  <2>2. \A j \in Unused : Len(lru) - j \in Nat
    BY <2>1, <1>2
  <2>3. D \subseteq Nat
    BY <2>2
  <2> QED BY <2>3
<1>4. PICK d \in D : \A e \in D : d <= e
  BY <1>3, LeastIs
<1>5. PICK m \in Unused : d = Len(lru) - m
  BY <1>4
<1>6. \A j \in Unused : m >= j
  <2> SUFFICES ASSUME NEW j \in Unused PROVE m >= j
    OBVIOUS
  <2>1. Len(lru) - m <= Len(lru) - j
    BY <1>4, <1>5
  <2>2. m \in Nat /\ j \in Nat
    BY <1>1, <1>2
  <2> QED BY <2>1, <2>2, <1>1
<1>7. \E x \in Unused : \A y \in Unused : x >= y
  BY <1>6
<1>8. Max(Unused) \in Unused
  BY <1>7 DEF Max
<1>9. \A j \in Unused : lru[j] \in Buf /\ refcnt[lru[j]] = 0
  BY <1>2, ElementOfSeq DEF Unused, LruInv
<1> QED BY <1>8, <1>9 DEF Victim

\* An unused buffer has no process and no pin.
LEMMA UnusedIs ==
    ASSUME CountInv, NEW b \in Buf
    PROVE  /\ IsFiniteSet(Refs(b)) /\ Cardinality(Refs(b)) \in Nat
           /\ b \in pinned => Cardinality(pinned \cap {b}) = 1
           /\ b \notin pinned => Cardinality(pinned \cap {b}) = 0
           /\ refcnt[b] = 0 => b \notin pinned /\ \A p \in Proc : mybuf[p] # b
<1>1. IsFiniteSet(Refs(b)) /\ Cardinality(Refs(b)) \in Nat
  <2>1. Refs(b) \in SUBSET Proc
    BY DEF Refs
  <2>2. IsFiniteSet(Refs(b))
    BY <2>1, DiskAssumption, FS_Subset
  <2> QED BY <2>2, FS_CardinalityType
<1>2. ASSUME b \in pinned PROVE Cardinality(pinned \cap {b}) = 1
  <2>1. pinned \cap {b} = {b}
    BY <1>2
  <2> QED BY <2>1, FS_Singleton
<1>3. ASSUME b \notin pinned PROVE Cardinality(pinned \cap {b}) = 0
  <2>1. pinned \cap {b} = {}
    BY <1>3
  <2> QED BY <2>1, FS_EmptySet
<1>4. ASSUME refcnt[b] = 0 PROVE b \notin pinned /\ \A p \in Proc : mybuf[p] # b
  <2>1. refcnt[b] = Cardinality(Refs(b)) + Cardinality(pinned \cap {b})
    BY DEF CountInv
  <2>2. Cardinality(Refs(b)) = 0 /\ b \notin pinned
    BY <2>1, <1>1, <1>2, <1>3, <1>4
  <2>3. Refs(b) = {}
    BY <2>2, <1>1, FS_EmptySet
  <2> QED BY <2>2, <2>3 DEF Refs
<1> QED BY <1>1, <1>2, <1>3, <1>4


\* A step that leaves the cache alone, and keeps who is in the driver.
LEMMA QuietBuffer ==
    ASSUME BufferInv, UNCHANGED <<mybuf, wr, blockno, cacheVars>>,
           \A q \in Proc : /\ pc'[q] \in InRw <=> pc[q] \in InRw
                           /\ pc[q] \notin InRw => pc'[q] = pc[q]
    PROVE  BufferInv'
<1>1. UNCHANGED <<valid, refcnt, pinned, lru, owner, latest, mybuf, wr, blockno>>
  BY DEF cacheVars
<1>2. BufTypes' /\ CountInv' /\ LruInv' /\ OneBufferPerBlock'
  BY <1>1 DEF BufferInv, BufTypes, CountInv, Refs, LruInv, OneBufferPerBlock
<1>3. \A q \in Proc : /\ pc'[q] \in Locked <=> pc[q] \in Locked
                      /\ \A c \in {"idle", "lock", "lksleep", "held"} : pc'[q] = c <=> pc[q] = c
  BY DEF Locked, InRw
<1>4. OwnerInv'
  <2>1. \A q \in Proc : /\ mybuf'[q] = None <=> pc'[q] = "idle"
                        /\ mybuf'[q] # None => blockno'[mybuf'[q]] \in Block
                        /\ pc'[q] \in {"idle", "lock", "lksleep"} => ~wr'[q]
    BY <1>1, <1>3 DEF BufferInv, OwnerInv
  <2>2. \A q \in Proc : pc'[q] \in Locked => owner'[mybuf'[q]] = q
    BY <1>1, <1>3 DEF BufferInv, OwnerInv
  <2>3. \A b \in Buf : owner'[b] # None => mybuf'[owner'[b]] = b /\ pc'[owner'[b]] \in Locked
    BY <1>1, <1>3 DEF BufferInv, OwnerInv, BufTypes
  <2> QED BY <2>1, <2>2, <2>3 DEF OwnerInv
<1>5. ValidInv'
  BY <1>1, <1>3 DEF BufferInv, ValidInv
<1>6. LockSleepersHaveReason'
  BY <1>1, <1>3 DEF BufferInv, LockSleepersHaveReason
<1> QED BY <1>2, <1>4, <1>5, <1>6 DEF BufferInv

\* The driver's steps, but for the one that returns.
LEMMA DriverBuffer ==
    ASSUME RequestInv, BufferInv, UNCHANGED cacheVars,
           \/ Device \/ Intr
           \/ \E p \in Proc : Submit(p) \/ NoDescriptors(p) \/ IoAgain(p) \/ Kill(p)
    PROVE  BufferInv'
<1>1. UNCHANGED <<mybuf, wr, blockno>>
  BY DEF Device, Intr, DeviceFetch, DeviceDone, IntrEnter, IntrEntry, IntrExit,
         Submit, NoDescriptors, IoAgain, Kill, bufVars
<1>2. pc \in [Proc -> PCs]
  BY DEF RequestInv, DriverTypes
<1>3. \A q \in Proc : /\ pc'[q] \in InRw <=> pc[q] \in InRw
                      /\ pc[q] \notin InRw => pc'[q] = pc[q]
  <2>1. CASE Device \/ IntrEnter \/ IntrExit
    BY <2>1 DEF Device, DeviceFetch, DeviceDone, IntrEnter, IntrExit
  <2>2. CASE IntrEntry
    BY <2>2 DEF IntrEntry, Woken, InRw
  <2>3. CASE \E p \in Proc : Submit(p) \/ NoDescriptors(p) \/ IoAgain(p) \/ Kill(p)
    BY <2>3, <1>2 DEF Submit, NoDescriptors, IoAgain, Kill, WakeDescSleepers, Woken, InRw
  <2> QED BY <2>1, <2>2, <2>3 DEF Intr
<1> QED BY <1>1, <1>3, QuietBuffer

\* The parts of the invariants that the cache's steps use.
LEMMA Parts ==
    ASSUME RequestInv, BufferInv
    PROVE  /\ pc \in [Proc -> PCs] /\ mybuf \in [Proc -> Buf \cup {None}]
           /\ wr \in [Proc -> BOOLEAN] /\ data \in [Buf -> Val]
           /\ blockno \in [Buf -> Block \cup {None}]
           /\ BufTypes /\ OwnerInv /\ ValidInv /\ CountInv /\ LruInv
           /\ OneBufferPerBlock /\ LockSleepersHaveReason
           /\ None \notin Proc /\ None \notin Buf /\ None \notin Block /\ None \notin Val
           /\ \A q \in Proc : pc[q] # "idle" => mybuf[q] \in Buf /\ blockno[mybuf[q]] \in Block
           /\ \A q, r \in Proc :
                 pc[q] \in Locked /\ pc[r] \in Locked /\ mybuf[q] = mybuf[r] => q = r
<1>1. /\ pc \in [Proc -> PCs] /\ mybuf \in [Proc -> Buf \cup {None}]
      /\ wr \in [Proc -> BOOLEAN] /\ data \in [Buf -> Val]
      /\ blockno \in [Buf -> Block \cup {None}]
  BY DEF RequestInv, DriverTypes
<1>2. /\ BufTypes /\ OwnerInv /\ ValidInv /\ CountInv /\ LruInv
      /\ OneBufferPerBlock /\ LockSleepersHaveReason
  BY DEF BufferInv
<1>3. None \notin Proc /\ None \notin Buf /\ None \notin Block /\ None \notin Val
  BY DiskAssumption
<1>4. \A q \in Proc : pc[q] # "idle" => mybuf[q] \in Buf /\ blockno[mybuf[q]] \in Block
  BY <1>1, <1>2 DEF OwnerInv
<1>5. \A q, r \in Proc :
         pc[q] \in Locked /\ pc[r] \in Locked /\ mybuf[q] = mybuf[r] => q = r
  BY <1>2 DEF OwnerInv
<1> QED BY <1>1, <1>2, <1>3, <1>4, <1>5

\* A step of one process in the cache is calm for the driver.
LEMMA CacheCalm ==
    ASSUME RequestInv, BufferInv, BufferInv', DriverUnchanged, NEW p \in Proc,
           pc[p] \notin InIo, pc'[p] \notin InIo \cup {"dsleep"},
           pc' \in [Proc -> PCs], mybuf' \in [Proc -> Buf \cup {None}],
           wr' \in [Proc -> BOOLEAN], data' \in [Buf -> Val],
           blockno' \in [Buf -> Block \cup {None}],
           \A q \in Proc : q # p => /\ mybuf'[q] = mybuf[q] /\ wr'[q] = wr[q]
                                    /\ pc[q] \in InRw => pc'[q] = pc[q]
                                    /\ pc[q] \notin InRw => pc'[q] \notin InRw
                                    /\ pc[q] \in InIo =>
                                          blockno'[mybuf[q]] = blockno[mybuf[q]]
    PROVE  RequestInv'
<1>1. /\ UNCHANGED <<busy, descVars, status, availRing, availIdx, used_idx>>
      /\ UNCHANGED <<seen, inflight, platter, usedRing, usedIdx, irq, intr>>
  BY DEF DriverUnchanged, deviceVars
<1>2. irq' \in BOOLEAN /\ intr' \in BOOLEAN
  BY <1>1 DEF RequestInv, DriverTypes
<1>3. OwnerInv'
  BY DEF BufferInv
<1>4. \A q \in Proc : pc'[q] \in InRw => mybuf'[q] \in Buf /\ blockno'[mybuf'[q]] \in Block
  BY <1>3 DEF OwnerInv, InRw
<1>5. \A q, r \in Proc :
         pc'[q] \in InRw /\ pc'[r] \in InRw /\ mybuf'[q] = mybuf'[r] => q = r
  BY <1>3 DEF OwnerInv, Locked
<1>6. \A q \in Proc : /\ pc'[q] \in InIo <=> pc[q] \in InIo
                      /\ pc'[q] = "dsleep" => pc[q] = "dsleep"
  BY DEF InRw, InIo
<1>7. \A q \in Proc :
          pc[q] \in InIo => /\ mybuf'[q] = mybuf[q] /\ wr'[q] = wr[q]
                            /\ blockno'[mybuf[q]] = blockno[mybuf[q]]
  OBVIOUS
<1>8. Calm
  BY <1>1, <1>2, <1>4, <1>5, <1>6, <1>7 DEF Calm
<1> QED BY <1>8, CalmRequest


\* One turn of acquiresleep()'s loop, when the lock is taken; and a kill.
LEMMA WaitBuffer ==
    ASSUME RequestInv, BufferInv, NEW p \in Proc, LockSleep(p) \/ KillLockSleeper(p)
    PROVE  RequestInv' /\ BufferInv'
<1>1. /\ pc \in [Proc -> PCs] /\ mybuf \in [Proc -> Buf \cup {None}]
      /\ wr \in [Proc -> BOOLEAN] /\ data \in [Buf -> Val]
      /\ blockno \in [Buf -> Block \cup {None}]
      /\ BufTypes /\ OwnerInv /\ ValidInv /\ CountInv /\ LruInv
      /\ OneBufferPerBlock /\ LockSleepersHaveReason
  BY Parts
<1>2. /\ None \notin Proc /\ None \notin Buf /\ None \notin Block /\ None \notin Val
      /\ \A q \in Proc : pc[q] # "idle" => mybuf[q] \in Buf /\ blockno[mybuf[q]] \in Block
      /\ \A q, r \in Proc :
            pc[q] \in Locked /\ pc[r] \in Locked /\ mybuf[q] = mybuf[r] => q = r
  BY Parts
<1>3. /\ pc[p] \in {"lock", "lksleep"} /\ pc'[p] \in {"lock", "lksleep"}
      /\ pc'[p] = "lksleep" => owner[mybuf[p]] # None
      /\ \A q \in Proc : q # p => pc'[q] = pc[q]
      /\ pc' \in [Proc -> PCs] /\ DriverUnchanged
  BY <1>1 DEF LockSleep, KillLockSleeper, LockTaken, Goto, PCs
<1>4. UNCHANGED <<mybuf, wr, data, blockno, valid, refcnt, pinned, lru, owner, latest>>
  BY DEF LockSleep, KillLockSleeper, bufVars, cacheVars
<1>5. pc[p] \notin InIo /\ pc'[p] \notin InIo \cup {"dsleep"} /\ pc[p] \notin InRw /\ pc'[p] \notin InRw
  BY <1>3 DEF InIo, InRw
<1>6. BufTypes'
  BY <1>1, <1>2, <1>3, <1>4 DEF BufTypes
<1>7. OwnerInv'
  <2>1. \A q \in Proc : /\ mybuf'[q] = None <=> pc'[q] = "idle"
                        /\ mybuf'[q] # None => blockno'[mybuf'[q]] \in Block
                        /\ pc'[q] \in {"idle", "lock", "lksleep"} => ~wr'[q]
    BY <1>1, <1>2, <1>3, <1>4 DEF OwnerInv
  <2>2. \A q \in Proc : pc'[q] \in Locked => owner'[mybuf'[q]] = q
    BY <1>1, <1>2, <1>3, <1>4 DEF OwnerInv, Locked, InRw
  <2>3. \A c \in Buf : owner'[c] # None => mybuf'[owner'[c]] = c /\ pc'[owner'[c]] \in Locked
    BY <1>1, <1>2, <1>3, <1>4 DEF OwnerInv, Locked, InRw, BufTypes
  <2> QED BY <2>1, <2>2, <2>3 DEF OwnerInv
<1>8. ValidInv'
  <2>1. \A q \in Proc : pc'[q] = "held" => valid'[mybuf'[q]]
    BY <1>1, <1>2, <1>3, <1>4 DEF ValidInv, OwnerInv, Locked, BufTypes
  <2>2. \A q \in Proc : pc'[q] \in InRw => (valid'[mybuf'[q]] <=> wr'[q])
    BY <1>1, <1>2, <1>3, <1>4 DEF ValidInv, OwnerInv, Locked, InRw, BufTypes
  <2>3. \A c \in Buf : valid'[c] => blockno'[c] \in Block
    BY <1>1, <1>2, <1>3, <1>4 DEF ValidInv, BufTypes
  <2> QED BY <2>1, <2>2, <2>3 DEF ValidInv
<1>9. CountInv'
  BY <1>1, <1>2, <1>3, <1>4 DEF CountInv, Refs
<1>10. LruInv'
  BY <1>1, <1>2, <1>3, <1>4 DEF LruInv
<1>11. OneBufferPerBlock'
  BY <1>1, <1>2, <1>3, <1>4 DEF OneBufferPerBlock
<1>12. LockSleepersHaveReason'
  BY <1>1, <1>2, <1>3, <1>4 DEF LockSleepersHaveReason, OwnerInv
<1>13. BufferInv'
  BY <1>6, <1>7, <1>8, <1>9, <1>10, <1>11, <1>12 DEF BufferInv
<1>14. RequestInv'
  BY <1>13, <1>1, <1>3, <1>4, <1>5, CacheCalm
<1> QED BY <1>13, <1>14

\* install_trans() writes a pinned buffer.
LEMMA InstallBuffer ==
    ASSUME RequestInv, BufferInv, NEW p \in Proc, Install(p)
    PROVE  RequestInv' /\ BufferInv'
<1>1. /\ pc \in [Proc -> PCs] /\ mybuf \in [Proc -> Buf \cup {None}]
      /\ wr \in [Proc -> BOOLEAN] /\ data \in [Buf -> Val]
      /\ blockno \in [Buf -> Block \cup {None}]
      /\ BufTypes /\ OwnerInv /\ ValidInv /\ CountInv /\ LruInv
      /\ OneBufferPerBlock /\ LockSleepersHaveReason
  BY Parts
<1>2. /\ None \notin Proc /\ None \notin Buf /\ None \notin Block /\ None \notin Val
      /\ \A q \in Proc : pc[q] # "idle" => mybuf[q] \in Buf /\ blockno[mybuf[q]] \in Block
      /\ \A q, r \in Proc :
            pc[q] \in Locked /\ pc[r] \in Locked /\ mybuf[q] = mybuf[r] => q = r
  BY Parts
<1>3. /\ pc[p] = "held" /\ pc'[p] = "rw" /\ wr'[p] = TRUE
      /\ \A q \in Proc : q # p => pc'[q] = pc[q] /\ wr'[q] = wr[q]
      /\ pc' \in [Proc -> PCs] /\ wr' \in [Proc -> BOOLEAN] /\ DriverUnchanged
  BY <1>1 DEF Install, Goto, PCs
<1>4. UNCHANGED <<mybuf, data, blockno, valid, refcnt, pinned, lru, owner, latest>>
  BY DEF Install, bufVars, cacheVars
<1>5. pc[p] \notin InIo /\ pc'[p] \notin InIo \cup {"dsleep"}
  BY <1>3 DEF InIo
<1>6. BufTypes'
  BY <1>1, <1>2, <1>3, <1>4 DEF BufTypes
<1>7. OwnerInv'
  <2>1. \A q \in Proc : /\ mybuf'[q] = None <=> pc'[q] = "idle"
                        /\ mybuf'[q] # None => blockno'[mybuf'[q]] \in Block
                        /\ pc'[q] \in {"idle", "lock", "lksleep"} => ~wr'[q]
    BY <1>1, <1>2, <1>3, <1>4 DEF OwnerInv
  <2>2. \A q \in Proc : pc'[q] \in Locked => owner'[mybuf'[q]] = q
    BY <1>1, <1>2, <1>3, <1>4 DEF OwnerInv, Locked, InRw
  <2>3. \A c \in Buf : owner'[c] # None => mybuf'[owner'[c]] = c /\ pc'[owner'[c]] \in Locked
    BY <1>1, <1>2, <1>3, <1>4 DEF OwnerInv, Locked, InRw, BufTypes
  <2> QED BY <2>1, <2>2, <2>3 DEF OwnerInv
<1>8. ValidInv'
  <2>1. \A q \in Proc : pc'[q] = "held" => valid'[mybuf'[q]]
    BY <1>1, <1>2, <1>3, <1>4 DEF ValidInv, OwnerInv, Locked, BufTypes
  <2>2. \A q \in Proc : pc'[q] \in InRw => (valid'[mybuf'[q]] <=> wr'[q])
    BY <1>1, <1>2, <1>3, <1>4 DEF ValidInv, OwnerInv, Locked, InRw, BufTypes
  <2>3. \A c \in Buf : valid'[c] => blockno'[c] \in Block
    BY <1>1, <1>2, <1>3, <1>4 DEF ValidInv, BufTypes
  <2> QED BY <2>1, <2>2, <2>3 DEF ValidInv
<1>9. CountInv'
  BY <1>1, <1>2, <1>3, <1>4 DEF CountInv, Refs
<1>10. LruInv'
  BY <1>1, <1>2, <1>3, <1>4 DEF LruInv
<1>11. OneBufferPerBlock'
  BY <1>1, <1>2, <1>3, <1>4 DEF OneBufferPerBlock
<1>12. LockSleepersHaveReason'
  BY <1>1, <1>2, <1>3, <1>4 DEF LockSleepersHaveReason, OwnerInv
<1>13. BufferInv'
  BY <1>6, <1>7, <1>8, <1>9, <1>10, <1>11, <1>12 DEF BufferInv
<1>14. RequestInv'
  BY <1>13, <1>1, <1>3, <1>4, <1>5, CacheCalm
<1> QED BY <1>13, <1>14

\* acquiresleep() gets the lock.
LEMMA LockBuffer ==
    ASSUME RequestInv, BufferInv, NEW p \in Proc, LockGet(p)
    PROVE  RequestInv' /\ BufferInv'
<1>1. /\ pc \in [Proc -> PCs] /\ mybuf \in [Proc -> Buf \cup {None}]
      /\ wr \in [Proc -> BOOLEAN] /\ data \in [Buf -> Val]
      /\ blockno \in [Buf -> Block \cup {None}]
      /\ BufTypes /\ OwnerInv /\ ValidInv /\ CountInv /\ LruInv
      /\ OneBufferPerBlock /\ LockSleepersHaveReason
  BY Parts
<1>2. /\ None \notin Proc /\ None \notin Buf /\ None \notin Block /\ None \notin Val
      /\ \A q \in Proc : pc[q] # "idle" => mybuf[q] \in Buf /\ blockno[mybuf[q]] \in Block
      /\ \A q, r \in Proc :
            pc[q] \in Locked /\ pc[r] \in Locked /\ mybuf[q] = mybuf[r] => q = r
  BY Parts
<1>3. /\ pc[p] = "lock" /\ mybuf[p] \in Buf /\ owner[mybuf[p]] = None
      /\ pc'[p] = IF valid[mybuf[p]] THEN "held" ELSE "rw"
      /\ \A q \in Proc : q # p => pc'[q] = pc[q]
      /\ pc' \in [Proc -> PCs] /\ DriverUnchanged
  BY <1>1, <1>2 DEF LockGet, LockTaken, Goto, PCs
<1>4. UNCHANGED <<mybuf, wr, data, blockno, valid, refcnt, pinned, lru, latest>>
  BY DEF LockGet, bufVars
<1>5. \A b \in Buf : owner'[b] = IF b = mybuf[p] THEN p ELSE owner[b]
  BY <1>1 DEF LockGet, BufTypes
<1>6. owner' \in [Buf -> Proc \cup {None}]
  BY <1>1 DEF LockGet, BufTypes
<1>7. pc[p] \notin InIo /\ pc'[p] \notin InIo \cup {"dsleep"}
  BY <1>3 DEF InIo
<1>8. BufTypes'
  BY <1>1, <1>2, <1>3, <1>4, <1>5, <1>6 DEF BufTypes
<1>9. OwnerInv'
  <2>1. \A q \in Proc : /\ mybuf'[q] = None <=> pc'[q] = "idle"
                        /\ mybuf'[q] # None => blockno'[mybuf'[q]] \in Block
                        /\ pc'[q] \in {"idle", "lock", "lksleep"} => ~wr'[q]
    BY <1>1, <1>2, <1>3, <1>4, <1>5, <1>6 DEF OwnerInv
  <2>2. \A q \in Proc : pc'[q] \in Locked => owner'[mybuf'[q]] = q
    BY <1>1, <1>2, <1>3, <1>4, <1>5, <1>6 DEF OwnerInv, Locked, InRw
  <2>3. \A c \in Buf : owner'[c] # None => mybuf'[owner'[c]] = c /\ pc'[owner'[c]] \in Locked
    BY <1>1, <1>2, <1>3, <1>4, <1>5, <1>6 DEF OwnerInv, Locked, InRw, BufTypes
  <2> QED BY <2>1, <2>2, <2>3 DEF OwnerInv
<1>10. ValidInv'
  <2>1. \A q \in Proc : pc'[q] = "held" => valid'[mybuf'[q]]
    BY <1>1, <1>2, <1>3, <1>4, <1>5, <1>6 DEF ValidInv, OwnerInv, Locked, BufTypes
  <2>2. \A q \in Proc : pc'[q] \in InRw => (valid'[mybuf'[q]] <=> wr'[q])
    BY <1>1, <1>2, <1>3, <1>4, <1>5, <1>6 DEF ValidInv, OwnerInv, Locked, InRw, BufTypes
  <2>3. \A c \in Buf : valid'[c] => blockno'[c] \in Block
    BY <1>1, <1>2, <1>3, <1>4, <1>5, <1>6 DEF ValidInv, BufTypes
  <2> QED BY <2>1, <2>2, <2>3 DEF ValidInv
<1>11. CountInv'
  BY <1>1, <1>2, <1>3, <1>4, <1>5, <1>6 DEF CountInv, Refs
<1>12. LruInv'
  BY <1>1, <1>2, <1>3, <1>4, <1>5, <1>6 DEF LruInv
<1>13. OneBufferPerBlock'
  BY <1>1, <1>2, <1>3, <1>4, <1>5, <1>6 DEF OneBufferPerBlock
<1>14. LockSleepersHaveReason'
  BY <1>1, <1>2, <1>3, <1>4, <1>5, <1>6 DEF LockSleepersHaveReason, OwnerInv
<1>15. BufferInv'
  BY <1>8, <1>9, <1>10, <1>11, <1>12, <1>13, <1>14 DEF BufferInv
<1>16. RequestInv'
  BY <1>15, <1>1, <1>3, <1>4, <1>7, CacheCalm
<1> QED BY <1>15, <1>16

\* The holder changes the data and calls bwrite().
LEMMA WriteBuffer ==
    ASSUME RequestInv, BufferInv, NEW p \in Proc, NEW v \in Val, ChangeAndWrite(p, v)
    PROVE  RequestInv' /\ BufferInv'
<1>1. /\ pc \in [Proc -> PCs] /\ mybuf \in [Proc -> Buf \cup {None}]
      /\ wr \in [Proc -> BOOLEAN] /\ data \in [Buf -> Val]
      /\ blockno \in [Buf -> Block \cup {None}]
      /\ BufTypes /\ OwnerInv /\ ValidInv /\ CountInv /\ LruInv
      /\ OneBufferPerBlock /\ LockSleepersHaveReason
  BY Parts
<1>2. /\ None \notin Proc /\ None \notin Buf /\ None \notin Block /\ None \notin Val
      /\ \A q \in Proc : pc[q] # "idle" => mybuf[q] \in Buf /\ blockno[mybuf[q]] \in Block
      /\ \A q, r \in Proc :
            pc[q] \in Locked /\ pc[r] \in Locked /\ mybuf[q] = mybuf[r] => q = r
  BY Parts
<1>3. /\ pc[p] = "held" /\ pc'[p] = "rw" /\ wr'[p] = TRUE
      /\ \A q \in Proc : q # p => pc'[q] = pc[q] /\ wr'[q] = wr[q]
      /\ pc' \in [Proc -> PCs] /\ wr' \in [Proc -> BOOLEAN] /\ DriverUnchanged
  BY <1>1 DEF ChangeAndWrite, Change, Goto, PCs
<1>4. UNCHANGED <<mybuf, blockno, valid, refcnt, pinned, lru, owner>>
  BY DEF ChangeAndWrite
<1>5. data' \in [Buf -> Val] /\ latest' \in [Block -> Val]
  BY <1>1, <1>2 DEF ChangeAndWrite, Change, BufTypes
<1>6. pc[p] \notin InIo /\ pc'[p] \notin InIo \cup {"dsleep"}
  BY <1>3 DEF InIo
<1>7. BufTypes'
  BY <1>1, <1>2, <1>3, <1>4, <1>5 DEF BufTypes
<1>8. OwnerInv'
  <2>1. \A q \in Proc : /\ mybuf'[q] = None <=> pc'[q] = "idle"
                        /\ mybuf'[q] # None => blockno'[mybuf'[q]] \in Block
                        /\ pc'[q] \in {"idle", "lock", "lksleep"} => ~wr'[q]
    BY <1>1, <1>2, <1>3, <1>4, <1>5 DEF OwnerInv
  <2>2. \A q \in Proc : pc'[q] \in Locked => owner'[mybuf'[q]] = q
    BY <1>1, <1>2, <1>3, <1>4, <1>5 DEF OwnerInv, Locked, InRw
  <2>3. \A c \in Buf : owner'[c] # None => mybuf'[owner'[c]] = c /\ pc'[owner'[c]] \in Locked
    BY <1>1, <1>2, <1>3, <1>4, <1>5 DEF OwnerInv, Locked, InRw, BufTypes
  <2> QED BY <2>1, <2>2, <2>3 DEF OwnerInv
<1>9. ValidInv'
  <2>1. \A q \in Proc : pc'[q] = "held" => valid'[mybuf'[q]]
    BY <1>1, <1>2, <1>3, <1>4, <1>5 DEF ValidInv, OwnerInv, Locked, BufTypes
  <2>2. \A q \in Proc : pc'[q] \in InRw => (valid'[mybuf'[q]] <=> wr'[q])
    BY <1>1, <1>2, <1>3, <1>4, <1>5 DEF ValidInv, OwnerInv, Locked, InRw, BufTypes
  <2>3. \A c \in Buf : valid'[c] => blockno'[c] \in Block
    BY <1>1, <1>2, <1>3, <1>4, <1>5 DEF ValidInv, BufTypes
  <2> QED BY <2>1, <2>2, <2>3 DEF ValidInv
<1>10. CountInv'
  BY <1>1, <1>2, <1>3, <1>4, <1>5 DEF CountInv, Refs
<1>11. LruInv'
  BY <1>1, <1>2, <1>3, <1>4, <1>5 DEF LruInv
<1>12. OneBufferPerBlock'
  BY <1>1, <1>2, <1>3, <1>4, <1>5 DEF OneBufferPerBlock
<1>13. LockSleepersHaveReason'
  BY <1>1, <1>2, <1>3, <1>4, <1>5 DEF LockSleepersHaveReason, OwnerInv
<1>14. BufferInv'
  BY <1>7, <1>8, <1>9, <1>10, <1>11, <1>12, <1>13 DEF BufferInv
<1>15. RequestInv'
  BY <1>14, <1>1, <1>3, <1>4, <1>5, <1>6, CacheCalm
<1> QED BY <1>14, <1>15

\* The holder changes the data and calls log_write().
LEMMA LogBuffer ==
    ASSUME RequestInv, BufferInv, NEW p \in Proc, NEW v \in Val, ChangeAndLog(p, v)
    PROVE  RequestInv' /\ BufferInv'
<1>1. /\ pc \in [Proc -> PCs] /\ mybuf \in [Proc -> Buf \cup {None}]
      /\ wr \in [Proc -> BOOLEAN] /\ data \in [Buf -> Val]
      /\ blockno \in [Buf -> Block \cup {None}]
      /\ BufTypes /\ OwnerInv /\ ValidInv /\ CountInv /\ LruInv
      /\ OneBufferPerBlock /\ LockSleepersHaveReason
  BY Parts
<1>2. /\ None \notin Proc /\ None \notin Buf /\ None \notin Block /\ None \notin Val
      /\ \A q \in Proc : pc[q] # "idle" => mybuf[q] \in Buf /\ blockno[mybuf[q]] \in Block
      /\ \A q, r \in Proc :
            pc[q] \in Locked /\ pc[r] \in Locked /\ mybuf[q] = mybuf[r] => q = r
  BY Parts
<1>3. /\ pc[p] = "held" /\ mybuf[p] \in Buf /\ wr'[p] = FALSE
      /\ \A q \in Proc : q # p => wr'[q] = wr[q]
      /\ wr' \in [Proc -> BOOLEAN] /\ DriverUnchanged
  BY <1>1, <1>2 DEF ChangeAndLog, Change
<1>4. UNCHANGED <<pc, mybuf, blockno, valid, lru, owner>>
  BY DEF ChangeAndLog
<1>5. /\ pinned' = pinned \cup {mybuf[p]} /\ refcnt' \in [Buf -> Nat]
      /\ \A b \in Buf : refcnt'[b] = IF b = mybuf[p] /\ b \notin pinned
                                      THEN refcnt[b] + 1 ELSE refcnt[b]
  <2>1. refcnt \in [Buf -> Nat] /\ \A b \in Buf : refcnt[b] + 1 \in Nat
    BY <1>1 DEF BufTypes
  <2> QED BY <2>1, <1>3 DEF ChangeAndLog, Pins
<1>6. data' \in [Buf -> Val] /\ latest' \in [Block -> Val]
  BY <1>1, <1>2 DEF ChangeAndLog, Change, BufTypes
<1>7. pc[p] \notin InIo /\ pc'[p] \notin InIo \cup {"dsleep"}
  BY <1>3, <1>4 DEF InIo
<1>8. BufTypes'
  BY <1>1, <1>2, <1>3, <1>4, <1>5, <1>6 DEF BufTypes
<1>9. OwnerInv'
  <2>1. \A q \in Proc : /\ mybuf'[q] = None <=> pc'[q] = "idle"
                        /\ mybuf'[q] # None => blockno'[mybuf'[q]] \in Block
                        /\ pc'[q] \in {"idle", "lock", "lksleep"} => ~wr'[q]
    BY <1>1, <1>2, <1>3, <1>4, <1>5, <1>6 DEF OwnerInv
  <2>2. \A q \in Proc : pc'[q] \in Locked => owner'[mybuf'[q]] = q
    BY <1>1, <1>2, <1>3, <1>4, <1>5, <1>6 DEF OwnerInv, Locked, InRw
  <2>3. \A c \in Buf : owner'[c] # None => mybuf'[owner'[c]] = c /\ pc'[owner'[c]] \in Locked
    BY <1>1, <1>2, <1>3, <1>4, <1>5, <1>6 DEF OwnerInv, Locked, InRw, BufTypes
  <2> QED BY <2>1, <2>2, <2>3 DEF OwnerInv
<1>10. ValidInv'
  <2>1. \A q \in Proc : pc'[q] = "held" => valid'[mybuf'[q]]
    BY <1>1, <1>2, <1>3, <1>4, <1>5, <1>6 DEF ValidInv, OwnerInv, Locked, BufTypes
  <2>2. \A q \in Proc : pc'[q] \in InRw => (valid'[mybuf'[q]] <=> wr'[q])
    BY <1>1, <1>2, <1>3, <1>4, <1>5, <1>6 DEF ValidInv, OwnerInv, Locked, InRw, BufTypes
  <2>3. \A c \in Buf : valid'[c] => blockno'[c] \in Block
    BY <1>1, <1>2, <1>3, <1>4, <1>5, <1>6 DEF ValidInv, BufTypes
  <2> QED BY <2>1, <2>2, <2>3 DEF ValidInv
<1>11. CountInv'
  <2>1. mybuf[p] \in Buf
    BY <1>2, <1>3
  <2>2. \A b \in Buf : Refs(b)' = Refs(b)
    BY <1>4 DEF Refs
  <2>3. ASSUME NEW b \in Buf
        PROVE  refcnt'[b] = Cardinality(Refs(b)') + Cardinality(pinned' \cap {b})
    <3>1. refcnt[b] = Cardinality(Refs(b)) + Cardinality(pinned \cap {b})
      BY <1>1 DEF CountInv
    <3>2. CASE b = mybuf[p] /\ b \notin pinned
      <4>1. pinned' \cap {b} = {b} /\ refcnt'[b] = refcnt[b] + 1
        BY <3>2, <1>5
      <4>2. Cardinality({b}) = 1
        BY FS_Singleton, FS_EmptySet
      <4>3. Cardinality(Refs(b)) \in Nat /\ Cardinality(pinned \cap {b}) = 0
        BY <3>2, <1>1, UnusedIs
      <4>4. refcnt'[b] = Cardinality(Refs(b)) + 1
        BY <3>1, <4>1, <4>3
      <4>5. Cardinality(pinned' \cap {b}) = 1
        BY <4>1, <4>2
      <4> QED BY <4>4, <4>5, <2>2
    <3>3. CASE ~(b = mybuf[p] /\ b \notin pinned)
      <4>1. pinned' \cap {b} = pinned \cap {b} /\ refcnt'[b] = refcnt[b]
        BY <3>3, <1>5
      <4> QED BY <3>1, <4>1, <2>2
    <3> QED BY <3>2, <3>3
  <2> QED BY <2>3 DEF CountInv
<1>12. LruInv'
  BY <1>1, <1>2, <1>3, <1>4, <1>5, <1>6 DEF LruInv
<1>13. OneBufferPerBlock'
  BY <1>1, <1>2, <1>3, <1>4, <1>5, <1>6 DEF OneBufferPerBlock
<1>14. LockSleepersHaveReason'
  BY <1>1, <1>2, <1>3, <1>4, <1>5, <1>6 DEF LockSleepersHaveReason, OwnerInv
<1>15. BufferInv'
  BY <1>8, <1>9, <1>10, <1>11, <1>12, <1>13, <1>14 DEF BufferInv
<1>16. RequestInv'
  BY <1>15, <1>1, <1>3, <1>4, <1>6, <1>7, CacheCalm
<1> QED BY <1>15, <1>16

\* bunpin() after install_trans() has written the buffer.
LEMMA UnpinBuffer ==
    ASSUME RequestInv, BufferInv, NEW p \in Proc, Bunpin(p)
    PROVE  RequestInv' /\ BufferInv'
<1>1. /\ pc \in [Proc -> PCs] /\ mybuf \in [Proc -> Buf \cup {None}]
      /\ wr \in [Proc -> BOOLEAN] /\ data \in [Buf -> Val]
      /\ blockno \in [Buf -> Block \cup {None}]
      /\ BufTypes /\ OwnerInv /\ ValidInv /\ CountInv /\ LruInv
      /\ OneBufferPerBlock /\ LockSleepersHaveReason
  BY Parts
<1>2. /\ None \notin Proc /\ None \notin Buf /\ None \notin Block /\ None \notin Val
      /\ \A q \in Proc : pc[q] # "idle" => mybuf[q] \in Buf /\ blockno[mybuf[q]] \in Block
      /\ \A q, r \in Proc :
            pc[q] \in Locked /\ pc[r] \in Locked /\ mybuf[q] = mybuf[r] => q = r
  BY Parts
<1>3. /\ pc[p] = "held" /\ mybuf[p] \in Buf /\ mybuf[p] \in pinned /\ DriverUnchanged
  BY <1>1, <1>2 DEF Bunpin
<1>4. UNCHANGED <<pc, mybuf, wr, data, blockno, valid, lru, owner, latest>>
  BY DEF Bunpin, bufVars
<1>5. /\ pinned' = pinned \ {mybuf[p]} /\ refcnt' \in [Buf -> Nat]
      /\ \A b \in Buf : refcnt'[b] = IF b = mybuf[p] /\ b \in pinned
                                      THEN refcnt[b] - 1 ELSE refcnt[b]
  <2>1. refcnt \in [Buf -> Nat]
    BY <1>1 DEF BufTypes
  <2>2. refcnt[mybuf[p]] = Cardinality(Refs(mybuf[p])) + 1 /\ Cardinality(Refs(mybuf[p])) \in Nat
    BY <1>1, <1>3, UnusedIs DEF CountInv
  <2>3. refcnt[mybuf[p]] - 1 \in Nat
    BY <2>2
  <2> QED BY <2>1, <2>3, <1>3 DEF Bunpin
<1>6. pc[p] \notin InIo /\ pc'[p] \notin InIo \cup {"dsleep"}
  BY <1>3, <1>4 DEF InIo
<1>7. BufTypes'
  BY <1>1, <1>2, <1>3, <1>4, <1>5 DEF BufTypes
<1>8. OwnerInv'
  <2>1. \A q \in Proc : /\ mybuf'[q] = None <=> pc'[q] = "idle"
                        /\ mybuf'[q] # None => blockno'[mybuf'[q]] \in Block
                        /\ pc'[q] \in {"idle", "lock", "lksleep"} => ~wr'[q]
    BY <1>1, <1>2, <1>3, <1>4, <1>5 DEF OwnerInv
  <2>2. \A q \in Proc : pc'[q] \in Locked => owner'[mybuf'[q]] = q
    BY <1>1, <1>2, <1>3, <1>4, <1>5 DEF OwnerInv, Locked, InRw
  <2>3. \A c \in Buf : owner'[c] # None => mybuf'[owner'[c]] = c /\ pc'[owner'[c]] \in Locked
    BY <1>1, <1>2, <1>3, <1>4, <1>5 DEF OwnerInv, Locked, InRw, BufTypes
  <2> QED BY <2>1, <2>2, <2>3 DEF OwnerInv
<1>9. ValidInv'
  <2>1. \A q \in Proc : pc'[q] = "held" => valid'[mybuf'[q]]
    BY <1>1, <1>2, <1>3, <1>4, <1>5 DEF ValidInv, OwnerInv, Locked, BufTypes
  <2>2. \A q \in Proc : pc'[q] \in InRw => (valid'[mybuf'[q]] <=> wr'[q])
    BY <1>1, <1>2, <1>3, <1>4, <1>5 DEF ValidInv, OwnerInv, Locked, InRw, BufTypes
  <2>3. \A c \in Buf : valid'[c] => blockno'[c] \in Block
    BY <1>1, <1>2, <1>3, <1>4, <1>5 DEF ValidInv, BufTypes
  <2> QED BY <2>1, <2>2, <2>3 DEF ValidInv
<1>10. CountInv'
  <2>1. mybuf[p] \in Buf
    BY <1>2, <1>3
  <2>2. \A b \in Buf : Refs(b)' = Refs(b)
    BY <1>4 DEF Refs
  <2>3. ASSUME NEW b \in Buf
        PROVE  refcnt'[b] = Cardinality(Refs(b)') + Cardinality(pinned' \cap {b})
    <3>1. refcnt[b] = Cardinality(Refs(b)) + Cardinality(pinned \cap {b})
      BY <1>1 DEF CountInv
    <3>2. CASE b = mybuf[p] /\ b \in pinned
      <4>1. pinned' \cap {b} = {} /\ refcnt'[b] = refcnt[b] - 1
        BY <3>2, <1>5
      <4>2. Cardinality({}) = 0
        BY FS_Singleton, FS_EmptySet
      <4>3. Cardinality(Refs(b)) \in Nat /\ Cardinality(pinned \cap {b}) = 1
        BY <3>2, <1>1, UnusedIs
      <4>4. refcnt'[b] = Cardinality(Refs(b)) + 0
        BY <3>1, <4>1, <4>3
      <4>5. Cardinality(pinned' \cap {b}) = 0
        BY <4>1, <4>2
      <4> QED BY <4>4, <4>5, <2>2
    <3>3. CASE ~(b = mybuf[p] /\ b \in pinned)
      <4>1. pinned' \cap {b} = pinned \cap {b} /\ refcnt'[b] = refcnt[b]
        BY <3>3, <1>5
      <4> QED BY <3>1, <4>1, <2>2
    <3> QED BY <3>2, <3>3
  <2> QED BY <2>3 DEF CountInv
<1>11. LruInv'
  BY <1>1, <1>2, <1>3, <1>4, <1>5 DEF LruInv
<1>12. OneBufferPerBlock'
  BY <1>1, <1>2, <1>3, <1>4, <1>5 DEF OneBufferPerBlock
<1>13. LockSleepersHaveReason'
  BY <1>1, <1>2, <1>3, <1>4, <1>5 DEF LockSleepersHaveReason, OwnerInv
<1>14. BufferInv'
  BY <1>7, <1>8, <1>9, <1>10, <1>11, <1>12, <1>13 DEF BufferInv
<1>15. RequestInv'
  BY <1>14, <1>1, <1>3, <1>4, <1>6, CacheCalm
<1> QED BY <1>14, <1>15

\* releasesleep() gives the lock back and wakes who waits for it.
LEMMA UnlockBuffer ==
    ASSUME RequestInv, BufferInv, NEW p \in Proc, Releasesleep(p)
    PROVE  RequestInv' /\ BufferInv'
<1>1. /\ pc \in [Proc -> PCs] /\ mybuf \in [Proc -> Buf \cup {None}]
      /\ wr \in [Proc -> BOOLEAN] /\ data \in [Buf -> Val]
      /\ blockno \in [Buf -> Block \cup {None}]
      /\ BufTypes /\ OwnerInv /\ ValidInv /\ CountInv /\ LruInv
      /\ OneBufferPerBlock /\ LockSleepersHaveReason
  BY Parts
<1>2. /\ None \notin Proc /\ None \notin Buf /\ None \notin Block /\ None \notin Val
      /\ \A q \in Proc : pc[q] # "idle" => mybuf[q] \in Buf /\ blockno[mybuf[q]] \in Block
      /\ \A q, r \in Proc :
            pc[q] \in Locked /\ pc[r] \in Locked /\ mybuf[q] = mybuf[r] => q = r
  BY Parts
<1>3. /\ pc[p] = "held" /\ mybuf[p] \in Buf /\ pc'[p] = "rel" /\ DriverUnchanged
      /\ \A q \in Proc : q # p => pc'[q] = IF pc[q] = "lksleep" /\ mybuf[q] = mybuf[p]
                                            THEN "lock" ELSE pc[q]
      /\ pc' \in [Proc -> PCs]
  BY <1>1, <1>2 DEF Releasesleep, LockWaiters, Woken, PCs
<1>4. UNCHANGED <<mybuf, wr, data, blockno, valid, refcnt, pinned, lru, latest>>
  BY DEF Releasesleep, bufVars
<1>5. /\ owner' \in [Buf -> Proc \cup {None}]
      /\ \A b \in Buf : owner'[b] = IF b = mybuf[p] THEN None ELSE owner[b]
  BY <1>1 DEF Releasesleep, BufTypes
<1>6. pc[p] \notin InIo /\ pc'[p] \notin InIo \cup {"dsleep"}
  BY <1>3 DEF InIo
<1>7. \A q \in Proc : pc[q] \in InRw => pc'[q] = pc[q] \/ q = p
  BY <1>3 DEF InRw
<1>8. \A q \in Proc : q # p /\ pc[q] \notin InRw => pc'[q] \notin InRw
  BY <1>3 DEF InRw
<1>9. BufTypes'
  BY <1>1, <1>2, <1>3, <1>4, <1>5 DEF BufTypes
<1>10. OwnerInv'
  <2>1. \A q \in Proc : /\ mybuf'[q] = None <=> pc'[q] = "idle"
                        /\ mybuf'[q] # None => blockno'[mybuf'[q]] \in Block
                        /\ pc'[q] \in {"idle", "lock", "lksleep"} => ~wr'[q]
    BY <1>1, <1>2, <1>3, <1>4, <1>5 DEF OwnerInv
  <2>2. \A q \in Proc : pc'[q] \in Locked => owner'[mybuf'[q]] = q
    BY <1>1, <1>2, <1>3, <1>4, <1>5 DEF OwnerInv, Locked, InRw
  <2>3. \A c \in Buf : owner'[c] # None => mybuf'[owner'[c]] = c /\ pc'[owner'[c]] \in Locked
    BY <1>1, <1>2, <1>3, <1>4, <1>5 DEF OwnerInv, Locked, InRw, BufTypes
  <2> QED BY <2>1, <2>2, <2>3 DEF OwnerInv
<1>11. ValidInv'
  <2>1. \A q \in Proc : pc'[q] = "held" => valid'[mybuf'[q]]
    BY <1>1, <1>2, <1>3, <1>4, <1>5 DEF ValidInv, OwnerInv, Locked, BufTypes
  <2>2. \A q \in Proc : pc'[q] \in InRw => (valid'[mybuf'[q]] <=> wr'[q])
    BY <1>1, <1>2, <1>3, <1>4, <1>5 DEF ValidInv, OwnerInv, Locked, InRw, BufTypes
  <2>3. \A c \in Buf : valid'[c] => blockno'[c] \in Block
    BY <1>1, <1>2, <1>3, <1>4, <1>5 DEF ValidInv, BufTypes
  <2> QED BY <2>1, <2>2, <2>3 DEF ValidInv
<1>12. CountInv'
  BY <1>1, <1>2, <1>3, <1>4, <1>5 DEF CountInv, Refs
<1>13. LruInv'
  BY <1>1, <1>2, <1>3, <1>4, <1>5 DEF LruInv
<1>14. OneBufferPerBlock'
  BY <1>1, <1>2, <1>3, <1>4, <1>5 DEF OneBufferPerBlock
<1>15. LockSleepersHaveReason'
  BY <1>1, <1>2, <1>3, <1>4, <1>5 DEF LockSleepersHaveReason, OwnerInv
<1>16. BufferInv'
  BY <1>9, <1>10, <1>11, <1>12, <1>13, <1>14, <1>15 DEF BufferInv
<1>17. RequestInv'
  BY <1>16, <1>1, <1>3, <1>4, <1>6, <1>7, <1>8, CacheCalm
<1> QED BY <1>16, <1>17

\* brelse() drops the reference.
LEMMA DropBuffer ==
    ASSUME RequestInv, BufferInv, NEW p \in Proc, Brelse(p)
    PROVE  RequestInv' /\ BufferInv'
<1>1. /\ pc \in [Proc -> PCs] /\ mybuf \in [Proc -> Buf \cup {None}]
      /\ wr \in [Proc -> BOOLEAN] /\ data \in [Buf -> Val]
      /\ blockno \in [Buf -> Block \cup {None}]
      /\ BufTypes /\ OwnerInv /\ ValidInv /\ CountInv /\ LruInv
      /\ OneBufferPerBlock /\ LockSleepersHaveReason
  BY Parts
<1>2. /\ None \notin Proc /\ None \notin Buf /\ None \notin Block /\ None \notin Val
      /\ \A q \in Proc : pc[q] # "idle" => mybuf[q] \in Buf /\ blockno[mybuf[q]] \in Block
      /\ \A q, r \in Proc :
            pc[q] \in Locked /\ pc[r] \in Locked /\ mybuf[q] = mybuf[r] => q = r
  BY Parts
<1>3. PICK b \in Buf :
      /\ b = mybuf[p] /\ pc[p] = "rel" /\ pc'[p] = "idle" /\ mybuf'[p] = None /\ wr'[p] = FALSE
      /\ \A q \in Proc : q # p => pc'[q] = pc[q] /\ mybuf'[q] = mybuf[q] /\ wr'[q] = wr[q]
      /\ pc' \in [Proc -> PCs] /\ mybuf' \in [Proc -> Buf \cup {None}] /\ wr' \in [Proc -> BOOLEAN]
      /\ DriverUnchanged
  BY <1>1, <1>2 DEF Brelse, Goto, PCs
<1>4. UNCHANGED <<data, blockno, valid, pinned, owner, latest>>
  BY DEF Brelse, bufVars
<1>5. \A c \in Buf : Refs(c)' = IF c = b THEN Refs(c) \ {p} ELSE Refs(c)
  BY <1>2, <1>3 DEF Refs
<1>6. p \in Refs(b) /\ Cardinality(Refs(b)') = Cardinality(Refs(b)) - 1 /\ Cardinality(Refs(b)') \in Nat
  <2>1. p \in Refs(b)
    BY <1>3 DEF Refs
  <2>2. IsFiniteSet(Refs(b))
    BY <1>1, <1>3, UnusedIs
  <2>3. IsFiniteSet(Refs(b)') /\ Cardinality(Refs(b)') = Cardinality(Refs(b)) - 1
    BY <2>1, <2>2, <1>3, <1>5, FS_RemoveElement
  <2> QED BY <2>1, <2>3, FS_CardinalityType
<1>7. /\ refcnt' \in [Buf -> Nat]
      /\ \A c \in Buf : refcnt'[c] = IF c = b THEN refcnt[c] - 1 ELSE refcnt[c]
  <2>1. refcnt \in [Buf -> Nat] /\ refcnt' = [refcnt EXCEPT ![b] = refcnt[b] - 1]
    BY <1>1, <1>3 DEF BufTypes, Brelse, Dropped
  <2>2. /\ refcnt[b] = Cardinality(Refs(b)) + Cardinality(pinned \cap {b})
        /\ Cardinality(Refs(b)) \in Nat /\ Cardinality(pinned \cap {b}) \in {0, 1}
    BY <1>1, <1>3, UnusedIs DEF CountInv
  <2>3. refcnt[b] - 1 \in Nat
    BY <2>2, <1>6
  <2> QED BY <2>1, <2>3, <1>3
<1>8. pc[p] \notin InIo /\ pc'[p] \notin InIo \cup {"dsleep"} /\ pc[p] \notin InRw
  BY <1>3 DEF InIo, InRw
<1>9. BufTypes'
  BY <1>1, <1>2, <1>3, <1>4, <1>7 DEF BufTypes
<1>10. OwnerInv'
  <2>1. \A q \in Proc : /\ mybuf'[q] = None <=> pc'[q] = "idle"
                        /\ mybuf'[q] # None => blockno'[mybuf'[q]] \in Block
                        /\ pc'[q] \in {"idle", "lock", "lksleep"} => ~wr'[q]
    BY <1>1, <1>2, <1>3, <1>4, <1>7 DEF OwnerInv
  <2>2. \A q \in Proc : pc'[q] \in Locked => owner'[mybuf'[q]] = q
    BY <1>1, <1>2, <1>3, <1>4, <1>7 DEF OwnerInv, Locked, InRw
  <2>3. \A c \in Buf : owner'[c] # None => mybuf'[owner'[c]] = c /\ pc'[owner'[c]] \in Locked
    BY <1>1, <1>2, <1>3, <1>4, <1>7 DEF OwnerInv, Locked, InRw, BufTypes
  <2> QED BY <2>1, <2>2, <2>3 DEF OwnerInv
<1>11. ValidInv'
  <2>1. \A q \in Proc : pc'[q] = "held" => valid'[mybuf'[q]]
    BY <1>1, <1>2, <1>3, <1>4, <1>7 DEF ValidInv, OwnerInv, Locked, BufTypes
  <2>2. \A q \in Proc : pc'[q] \in InRw => (valid'[mybuf'[q]] <=> wr'[q])
    BY <1>1, <1>2, <1>3, <1>4, <1>7 DEF ValidInv, OwnerInv, Locked, InRw, BufTypes
  <2>3. \A c \in Buf : valid'[c] => blockno'[c] \in Block
    BY <1>1, <1>2, <1>3, <1>4, <1>7 DEF ValidInv, BufTypes
  <2> QED BY <2>1, <2>2, <2>3 DEF ValidInv
<1>12. CountInv'
  <2>1. ASSUME NEW c \in Buf
        PROVE  refcnt'[c] = Cardinality(Refs(c)') + Cardinality(pinned' \cap {c})
    <3>1. /\ refcnt[c] = Cardinality(Refs(c)) + Cardinality(pinned \cap {c})
          /\ Cardinality(Refs(c)) \in Nat /\ Cardinality(pinned \cap {c}) \in {0, 1}
      BY <1>1, UnusedIs DEF CountInv
    <3>2. CASE c = b
      BY <3>1, <3>2, <1>4, <1>6, <1>7
    <3>3. CASE c # b
      BY <3>1, <3>3, <1>4, <1>5, <1>7
    <3> QED BY <3>2, <3>3
  <2> QED BY <2>1 DEF CountInv
<1>13. LruInv'
  <2>1. CASE refcnt'[b] # 0
    <3>1. UNCHANGED lru
      BY <2>1, <1>3 DEF Brelse
    <3> QED BY <3>1, <1>1 DEF LruInv
  <2>2. CASE refcnt'[b] = 0
    <3>1. lru' = MovedToFront(b)
      BY <2>2, <1>3 DEF Brelse
    <3> DEFINE j == CHOOSE i \in DOMAIN lru : lru[i] = b
    <3>2. lru \in Seq(Buf) /\ DOMAIN lru = 1 .. Len(lru)
      BY <1>1, LenProperties DEF LruInv
    <3>3. j \in 1 .. Len(lru) /\ lru[j] = b
      BY <3>2, <1>1, <1>3 DEF LruInv, ToSet
    <3> HIDE DEF j
    <3>4. lru' = Moved(lru, j)
      BY <3>1, <3>3 DEF MovedToFront, Moved, j
    <3>5. /\ lru' \in Seq(Buf) /\ Len(lru') = Len(lru)
          /\ ToSet(lru) \subseteq ToSet(lru') /\ ToSet(lru') \subseteq Buf
      BY <3>2, <3>3, <3>4, MovedIs
    <3> QED BY <3>5, <1>1 DEF LruInv
  <2> QED BY <2>1, <2>2
<1>14. OneBufferPerBlock'
  BY <1>1, <1>2, <1>3, <1>4, <1>7 DEF OneBufferPerBlock
<1>15. LockSleepersHaveReason'
  BY <1>1, <1>2, <1>3, <1>4, <1>7 DEF LockSleepersHaveReason, OwnerInv
<1>16. BufferInv'
  BY <1>9, <1>10, <1>11, <1>12, <1>13, <1>14, <1>15 DEF BufferInv
<1>17. RequestInv'
  BY <1>16, <1>1, <1>3, <1>4, <1>8, CacheCalm
<1> QED BY <1>16, <1>17

\* bget() finds the block in the cache.
LEMMA HitBuffer ==
    ASSUME RequestInv, BufferInv, NEW p \in Proc, NEW k \in Block, BgetHit(p, k)
    PROVE  RequestInv' /\ BufferInv'
<1>1. /\ pc \in [Proc -> PCs] /\ mybuf \in [Proc -> Buf \cup {None}]
      /\ wr \in [Proc -> BOOLEAN] /\ data \in [Buf -> Val]
      /\ blockno \in [Buf -> Block \cup {None}]
      /\ BufTypes /\ OwnerInv /\ ValidInv /\ CountInv /\ LruInv
      /\ OneBufferPerBlock /\ LockSleepersHaveReason
  BY Parts
<1>2. /\ None \notin Proc /\ None \notin Buf /\ None \notin Block /\ None \notin Val
      /\ \A q \in Proc : pc[q] # "idle" => mybuf[q] \in Buf /\ blockno[mybuf[q]] \in Block
      /\ \A q, r \in Proc :
            pc[q] \in Locked /\ pc[r] \in Locked /\ mybuf[q] = mybuf[r] => q = r
  BY Parts
<1>3. PICK b \in Cached(k) : refcnt' = [refcnt EXCEPT ![b] = @ + 1] /\ mybuf' = [mybuf EXCEPT ![p] = b]
  BY DEF BgetHit
<1>4. /\ b \in Buf /\ blockno[b] = k
      /\ pc[p] = "idle" /\ pc'[p] = "lock" /\ mybuf[p] = None /\ mybuf'[p] = b /\ wr'[p] = FALSE
      /\ \A q \in Proc : q # p => pc'[q] = pc[q] /\ mybuf'[q] = mybuf[q] /\ wr'[q] = wr[q]
      /\ pc' \in [Proc -> PCs] /\ mybuf' \in [Proc -> Buf \cup {None}] /\ wr' \in [Proc -> BOOLEAN]
      /\ DriverUnchanged
  BY <1>1, <1>3 DEF BgetHit, Cached, Goto, PCs, OwnerInv
<1>5. UNCHANGED <<data, blockno, valid, pinned, lru, owner, latest>>
  BY DEF BgetHit, bufVars
<1>6. \A c \in Buf : Refs(c)' = IF c = b THEN Refs(c) \cup {p} ELSE Refs(c)
  BY <1>2, <1>3, <1>4 DEF Refs
<1>7. Cardinality(Refs(b)') = Cardinality(Refs(b)) + 1
  <2>1. p \notin Refs(b)
    BY <1>2, <1>3, <1>4 DEF Refs
  <2>2. IsFiniteSet(Refs(b))
    BY <1>1, <1>4, UnusedIs
  <2> QED BY <2>1, <2>2, <1>4, <1>6, FS_AddElement
<1>8. /\ refcnt' \in [Buf -> Nat]
      /\ \A c \in Buf : refcnt'[c] = IF c = b THEN refcnt[c] + 1 ELSE refcnt[c]
  <2>1. refcnt \in [Buf -> Nat] /\ \A c \in Buf : refcnt[c] + 1 \in Nat
    BY <1>1 DEF BufTypes
  <2> QED BY <2>1, <1>3, <1>4
<1>9. pc[p] \notin InIo /\ pc'[p] \notin InIo \cup {"dsleep"} /\ pc[p] \notin InRw
  BY <1>4 DEF InIo, InRw
<1>10. BufTypes'
  BY <1>1, <1>2, <1>4, <1>5, <1>8 DEF BufTypes
<1>11. OwnerInv'
  <2>1. \A q \in Proc : /\ mybuf'[q] = None <=> pc'[q] = "idle"
                        /\ mybuf'[q] # None => blockno'[mybuf'[q]] \in Block
                        /\ pc'[q] \in {"idle", "lock", "lksleep"} => ~wr'[q]
    BY <1>1, <1>2, <1>4, <1>5, <1>8 DEF OwnerInv
  <2>2. \A q \in Proc : pc'[q] \in Locked => owner'[mybuf'[q]] = q
    BY <1>1, <1>2, <1>4, <1>5, <1>8 DEF OwnerInv, Locked, InRw
  <2>3. \A c \in Buf : owner'[c] # None => mybuf'[owner'[c]] = c /\ pc'[owner'[c]] \in Locked
    BY <1>1, <1>2, <1>4, <1>5, <1>8 DEF OwnerInv, Locked, InRw, BufTypes
  <2> QED BY <2>1, <2>2, <2>3 DEF OwnerInv
<1>12. ValidInv'
  <2>1. \A q \in Proc : pc'[q] = "held" => valid'[mybuf'[q]]
    BY <1>1, <1>2, <1>4, <1>5, <1>8 DEF ValidInv, OwnerInv, Locked, BufTypes
  <2>2. \A q \in Proc : pc'[q] \in InRw => (valid'[mybuf'[q]] <=> wr'[q])
    BY <1>1, <1>2, <1>4, <1>5, <1>8 DEF ValidInv, OwnerInv, Locked, InRw, BufTypes
  <2>3. \A c \in Buf : valid'[c] => blockno'[c] \in Block
    BY <1>1, <1>2, <1>4, <1>5, <1>8 DEF ValidInv, BufTypes
  <2> QED BY <2>1, <2>2, <2>3 DEF ValidInv
<1>13. CountInv'
  <2>1. ASSUME NEW c \in Buf
        PROVE  refcnt'[c] = Cardinality(Refs(c)') + Cardinality(pinned' \cap {c})
    <3>1. /\ refcnt[c] = Cardinality(Refs(c)) + Cardinality(pinned \cap {c})
          /\ Cardinality(Refs(c)) \in Nat /\ Cardinality(pinned \cap {c}) \in {0, 1}
      BY <1>1, UnusedIs DEF CountInv
    <3>2. CASE c = b
      BY <3>1, <3>2, <1>5, <1>7, <1>8
    <3>3. CASE c # b
      BY <3>1, <3>3, <1>5, <1>6, <1>8
    <3> QED BY <3>2, <3>3
  <2> QED BY <2>1 DEF CountInv
<1>14. LruInv'
  BY <1>1, <1>2, <1>4, <1>5, <1>8 DEF LruInv
<1>15. OneBufferPerBlock'
  BY <1>1, <1>2, <1>4, <1>5, <1>8 DEF OneBufferPerBlock
<1>16. LockSleepersHaveReason'
  BY <1>1, <1>2, <1>4, <1>5, <1>8 DEF LockSleepersHaveReason, OwnerInv
<1>17. BufferInv'
  BY <1>10, <1>11, <1>12, <1>13, <1>14, <1>15, <1>16 DEF BufferInv
<1>18. RequestInv'
  BY <1>17, <1>1, <1>4, <1>5, <1>9, CacheCalm
<1> QED BY <1>17, <1>18

\* bget() recycles an unused buffer.
LEMMA MissBuffer ==
    ASSUME RequestInv, BufferInv, NEW p \in Proc, NEW k \in Block, BgetMiss(p, k)
    PROVE  RequestInv' /\ BufferInv'
<1>1. /\ pc \in [Proc -> PCs] /\ mybuf \in [Proc -> Buf \cup {None}]
      /\ wr \in [Proc -> BOOLEAN] /\ data \in [Buf -> Val]
      /\ blockno \in [Buf -> Block \cup {None}]
      /\ BufTypes /\ OwnerInv /\ ValidInv /\ CountInv /\ LruInv
      /\ OneBufferPerBlock /\ LockSleepersHaveReason
  BY Parts
<1>2. /\ None \notin Proc /\ None \notin Buf /\ None \notin Block /\ None \notin Val
      /\ \A q \in Proc : pc[q] # "idle" => mybuf[q] \in Buf /\ blockno[mybuf[q]] \in Block
      /\ \A q, r \in Proc :
            pc[q] \in Locked /\ pc[r] \in Locked /\ mybuf[q] = mybuf[r] => q = r
  BY Parts
<1>3. PICK b \in Buf : b = Victim /\ refcnt[b] = 0 /\ b \notin pinned /\ \A q \in Proc : mybuf[q] # b
  <2>1. Victim \in Buf /\ refcnt[Victim] = 0
    BY <1>1, VictimIs DEF BgetMiss, BufTypes
  <2>2. PICK b \in Buf : b = Victim /\ refcnt[b] = 0
    BY <2>1
  <2> QED BY <2>2, <1>1, UnusedIs
<1>4. /\ pc[p] = "idle" /\ pc'[p] = "lock" /\ mybuf[p] = None /\ mybuf'[p] = b /\ wr'[p] = FALSE
      /\ \A q \in Proc : q # p => pc'[q] = pc[q] /\ mybuf'[q] = mybuf[q] /\ wr'[q] = wr[q]
      /\ pc' \in [Proc -> PCs] /\ mybuf' \in [Proc -> Buf \cup {None}] /\ wr' \in [Proc -> BOOLEAN]
      /\ DriverUnchanged
  BY <1>1, <1>3 DEF BgetMiss, Goto, PCs, OwnerInv
<1>5. UNCHANGED <<data, pinned, lru, owner, latest>>
  BY DEF BgetMiss
<1>6. \A c \in Buf : Refs(c)' = IF c = b THEN Refs(c) \cup {p} ELSE Refs(c)
  BY <1>2, <1>3, <1>4 DEF Refs
<1>7. Cardinality(Refs(b)') = Cardinality(Refs(b)) + 1
  <2>1. p \notin Refs(b)
    BY <1>2, <1>3, <1>4 DEF Refs
  <2>2. IsFiniteSet(Refs(b))
    BY <1>1, <1>3, UnusedIs
  <2> QED BY <2>1, <2>2, <1>3, <1>6, FS_AddElement
<1>8. /\ refcnt' \in [Buf -> Nat]
      /\ \A c \in Buf : refcnt'[c] = IF c = b THEN refcnt[c] + 1 ELSE refcnt[c]
  <2>1. refcnt \in [Buf -> Nat] /\ refcnt' = [refcnt EXCEPT ![b] = 1] /\ 1 \in Nat
    BY <1>1, <1>3 DEF BufTypes, BgetMiss
  <2> QED BY <2>1, <1>3
<1>9. pc[p] \notin InIo /\ pc'[p] \notin InIo \cup {"dsleep"} /\ pc[p] \notin InRw
  BY <1>4 DEF InIo, InRw
<1>10. /\ blockno'[b] = k /\ ~valid'[b]
       /\ \A c \in Buf : c # b => blockno'[c] = blockno[c] /\ valid'[c] = valid[c]
       /\ blockno' \in [Buf -> Block \cup {None}] /\ valid' \in [Buf -> BOOLEAN]
       /\ \A c \in Buf : blockno[c] # k
       /\ \A q \in Proc : q # p /\ mybuf[q] # None => blockno'[mybuf[q]] = blockno[mybuf[q]]
  <2>1. /\ blockno' = [blockno EXCEPT ![b] = k] /\ valid' = [valid EXCEPT ![b] = FALSE]
        /\ Cached(k) = {}
    BY <1>3 DEF BgetMiss, Recycled
  <2>2. \A c \in Buf : blockno'[c] = IF c = b THEN k ELSE blockno[c]
    BY <2>1, <1>1, <1>3
  <2>3. \A q \in Proc : q # p /\ mybuf[q] # None => mybuf[q] \in Buf /\ mybuf[q] # b
    BY <1>1, <1>3
  <2> QED BY <2>1, <2>2, <2>3, <1>1, <1>3 DEF Cached, BufTypes
<1>11. BufTypes'
  BY <1>1, <1>2, <1>3, <1>4, <1>5, <1>8, <1>10 DEF BufTypes
<1>12. OwnerInv'
  <2>1. \A q \in Proc : /\ mybuf'[q] = None <=> pc'[q] = "idle"
                        /\ mybuf'[q] # None => blockno'[mybuf'[q]] \in Block
                        /\ pc'[q] \in {"idle", "lock", "lksleep"} => ~wr'[q]
    BY <1>1, <1>2, <1>3, <1>4, <1>5, <1>8, <1>10 DEF OwnerInv
  <2>2. \A q \in Proc : pc'[q] \in Locked => owner'[mybuf'[q]] = q
    BY <1>1, <1>2, <1>3, <1>4, <1>5, <1>8, <1>10 DEF OwnerInv, Locked, InRw
  <2>3. \A c \in Buf : owner'[c] # None => mybuf'[owner'[c]] = c /\ pc'[owner'[c]] \in Locked
    BY <1>1, <1>2, <1>3, <1>4, <1>5, <1>8, <1>10 DEF OwnerInv, Locked, InRw, BufTypes
  <2> QED BY <2>1, <2>2, <2>3 DEF OwnerInv
<1>13. ValidInv'
  <2>1. \A q \in Proc : pc'[q] = "held" => valid'[mybuf'[q]]
    BY <1>1, <1>2, <1>3, <1>4, <1>5, <1>8, <1>10 DEF ValidInv, OwnerInv, Locked, BufTypes
  <2>2. \A q \in Proc : pc'[q] \in InRw => (valid'[mybuf'[q]] <=> wr'[q])
    BY <1>1, <1>2, <1>3, <1>4, <1>5, <1>8, <1>10 DEF ValidInv, OwnerInv, Locked, InRw, BufTypes
  <2>3. \A c \in Buf : valid'[c] => blockno'[c] \in Block
    BY <1>1, <1>2, <1>3, <1>4, <1>5, <1>8, <1>10 DEF ValidInv, BufTypes
  <2> QED BY <2>1, <2>2, <2>3 DEF ValidInv
<1>14. CountInv'
  <2>1. ASSUME NEW c \in Buf
        PROVE  refcnt'[c] = Cardinality(Refs(c)') + Cardinality(pinned' \cap {c})
    <3>1. /\ refcnt[c] = Cardinality(Refs(c)) + Cardinality(pinned \cap {c})
          /\ Cardinality(Refs(c)) \in Nat /\ Cardinality(pinned \cap {c}) \in {0, 1}
      BY <1>1, UnusedIs DEF CountInv
    <3>2. CASE c = b
      BY <3>1, <3>2, <1>5, <1>7, <1>8
    <3>3. CASE c # b
      BY <3>1, <3>3, <1>5, <1>6, <1>8
    <3> QED BY <3>2, <3>3
  <2> QED BY <2>1 DEF CountInv
<1>15. LruInv'
  BY <1>1, <1>2, <1>3, <1>4, <1>5, <1>8, <1>10 DEF LruInv
<1>16. OneBufferPerBlock'
  BY <1>1, <1>2, <1>3, <1>10 DEF OneBufferPerBlock
<1>17. LockSleepersHaveReason'
  BY <1>1, <1>2, <1>3, <1>4, <1>5, <1>8, <1>10 DEF LockSleepersHaveReason, OwnerInv
<1>18. BufferInv'
  BY <1>11, <1>12, <1>13, <1>14, <1>15, <1>16, <1>17 DEF BufferInv
<1>19. RequestInv'
  BY <1>18, <1>1, <1>2, <1>3, <1>4, <1>5, <1>9, <1>10, CacheCalm
<1> QED BY <1>18, <1>19


\* virtio_disk_rw() returns, and the buffer is valid.
LEMMA ReturnBuffer ==
    ASSUME RequestInv, BufferInv, NEW p \in Proc, DiskReturn(p)
    PROVE  BufferInv'
<1>1. /\ pc \in [Proc -> PCs] /\ mybuf \in [Proc -> Buf \cup {None}]
      /\ BufTypes /\ OwnerInv /\ ValidInv /\ CountInv /\ LruInv
      /\ OneBufferPerBlock /\ LockSleepersHaveReason
  BY Parts
<1>2. /\ \A q \in Proc : pc[q] # "idle" => mybuf[q] \in Buf /\ blockno[mybuf[q]] \in Block
      /\ \A q, r \in Proc :
            pc[q] \in Locked /\ pc[r] \in Locked /\ mybuf[q] = mybuf[r] => q = r
  BY Parts
<1>3. /\ pc[p] = "io" /\ pc'[p] = "held" /\ mybuf[p] \in Buf
      /\ \A q \in Proc : q # p => pc'[q] = IF pc[q] = "dsleep" THEN "rw" ELSE pc[q]
  BY <1>1, <1>2 DEF DiskReturn, IoReturn, FreeChainWakes, WakeDescSleepers, Woken
<1>4. UNCHANGED <<mybuf, wr, data, blockno, refcnt, pinned, lru, owner, latest>>
  BY DEF DiskReturn, IoReturn, bufVars
<1>5. /\ valid' \in [Buf -> BOOLEAN] /\ valid'[mybuf[p]]
      /\ \A b \in Buf : b # mybuf[p] => valid'[b] = valid[b]
  BY <1>1, <1>3 DEF DiskReturn, BufTypes
<1>6. pc[p] \in Locked /\ \A q \in Proc : /\ pc'[q] \in Locked <=> pc[q] \in Locked
                                          /\ pc'[q] = "idle" <=> pc[q] = "idle"
                                          /\ pc'[q] = "lock" <=> pc[q] = "lock"
                                          /\ pc'[q] = "lksleep" <=> pc[q] = "lksleep"
                                          /\ q # p => (pc'[q] = "held" <=> pc[q] = "held")
                                          /\ pc'[q] \in InRw <=> pc[q] \in InRw /\ q # p
  BY <1>3 DEF Locked, InRw
<1>7. OwnerInv'
  <2>1. \A q \in Proc : /\ mybuf'[q] = None <=> pc'[q] = "idle"
                        /\ mybuf'[q] # None => blockno'[mybuf'[q]] \in Block
                        /\ pc'[q] \in {"idle", "lock", "lksleep"} => ~wr'[q]
    BY <1>1, <1>4, <1>6 DEF OwnerInv
  <2>2. \A q \in Proc : pc'[q] \in Locked => owner'[mybuf'[q]] = q
    BY <1>1, <1>4, <1>6 DEF OwnerInv
  <2>3. \A c \in Buf : owner'[c] # None => mybuf'[owner'[c]] = c /\ pc'[owner'[c]] \in Locked
    BY <1>1, <1>4, <1>6 DEF OwnerInv, BufTypes
  <2> QED BY <2>1, <2>2, <2>3 DEF OwnerInv
<1>8. ValidInv'
  <2>1. \A q \in Proc : pc'[q] \in Locked /\ q # p => mybuf[q] \in Buf /\ mybuf[q] # mybuf[p]
    BY <1>2, <1>3, <1>6 DEF Locked, InRw
  <2>2. \A q \in Proc : pc'[q] = "held" => valid'[mybuf'[q]]
    BY <2>1, <1>1, <1>4, <1>5, <1>6 DEF ValidInv, Locked
  <2>3. \A q \in Proc : pc'[q] \in InRw => (valid'[mybuf'[q]] <=> wr'[q])
    BY <2>1, <1>1, <1>4, <1>5, <1>6 DEF ValidInv, Locked
  <2>4. \A c \in Buf : valid'[c] => blockno'[c] \in Block
    BY <1>1, <1>2, <1>3, <1>4, <1>5 DEF ValidInv
  <2> QED BY <2>2, <2>3, <2>4 DEF ValidInv
<1>9. BufTypes' /\ CountInv' /\ LruInv' /\ OneBufferPerBlock'
  BY <1>1, <1>4, <1>5 DEF BufTypes, CountInv, Refs, LruInv, OneBufferPerBlock
<1>10. LockSleepersHaveReason'
  BY <1>1, <1>4, <1>6 DEF LockSleepersHaveReason
<1> QED BY <1>7, <1>8, <1>9, <1>10 DEF BufferInv

\* The cache starts with the requests, the buffers and the list in order.
LEMMA CacheStarts ==
    ASSUME Init
    PROVE  RequestInv /\ BufferInv
<1>1. RequestInv
  <2>1. mybuf \in [Proc -> Buf \cup {None}] /\ DiskInit
    BY DEF Init
  <2> QED BY <2>1, DiskStarts
<1>2. latest \in [Block -> Val]
  BY <1>1 DEF RequestInv, DriverTypes, Init
<1>3. BufTypes
  <2>1. refcnt \in [Buf -> Nat]
    BY DEF Init
  <2> QED BY <1>2, <2>1 DEF Init, BufTypes
<1>4. OwnerInv /\ ValidInv /\ OneBufferPerBlock /\ LockSleepersHaveReason
  BY DEF Init, DiskInit, OwnerInv, ValidInv, OneBufferPerBlock, LockSleepersHaveReason,
         Locked, InRw
<1>5. CountInv
  <2>1. \A b \in Buf : b # None
    BY DiskAssumption
  <2>2. \A b \in Buf : Refs(b) = {} /\ pinned \cap {b} = {}
    BY <2>1 DEF Init, Refs
  <2>3. \A b \in Buf : refcnt[b] = 0 + 0
    BY DEF Init
  <2> QED BY <2>2, <2>3, FS_EmptySet DEF CountInv
<1>6. LruInv
  BY SetToSeqIs DEF Init, LruInv
<1> QED BY <1>1, <1>3, <1>4, <1>5, <1>6 DEF BufferInv

\* Every step of the cache and of the driver under it keeps both invariants.
LEMMA CacheStep ==
    ASSUME RequestInv, BufferInv, Next
    PROVE  RequestInv' /\ BufferInv'
<1>1. CASE (Device \/ Intr) /\ UNCHANGED cacheVars
  BY <1>1, DriverRequest, DriverBuffer
<1>2. ASSUME NEW p \in Proc,
             Submit(p) \/ NoDescriptors(p) \/ IoAgain(p) \/ Kill(p), UNCHANGED cacheVars
      PROVE  RequestInv' /\ BufferInv'
  BY <1>2, DriverRequest, DriverBuffer DEF RwStep
<1>3. ASSUME NEW p \in Proc, DiskReturn(p) PROVE RequestInv' /\ BufferInv'
  BY <1>3, ReturnRequest, ReturnBuffer DEF DiskReturn
<1>4. ASSUME NEW p \in Proc, LockSleep(p) \/ KillLockSleeper(p) PROVE RequestInv' /\ BufferInv'
  BY <1>4, WaitBuffer
<1>5. ASSUME NEW p \in Proc, LockGet(p) PROVE RequestInv' /\ BufferInv'
  BY <1>5, LockBuffer
<1>6. ASSUME NEW p \in Proc, NEW k \in Block, BgetHit(p, k) PROVE RequestInv' /\ BufferInv'
  BY <1>6, HitBuffer
<1>7. ASSUME NEW p \in Proc, NEW k \in Block, BgetMiss(p, k) PROVE RequestInv' /\ BufferInv'
  BY <1>7, MissBuffer
<1>8. ASSUME NEW p \in Proc, NEW v \in Val, ChangeAndLog(p, v) PROVE RequestInv' /\ BufferInv'
  BY <1>8, LogBuffer
<1>9. ASSUME NEW p \in Proc, NEW v \in Val, ChangeAndWrite(p, v) PROVE RequestInv' /\ BufferInv'
  BY <1>9, WriteBuffer
<1>10. ASSUME NEW p \in Proc, Install(p) PROVE RequestInv' /\ BufferInv'
  BY <1>10, InstallBuffer
<1>11. ASSUME NEW p \in Proc, Bunpin(p) PROVE RequestInv' /\ BufferInv'
  BY <1>11, UnpinBuffer
<1>12. ASSUME NEW p \in Proc, Releasesleep(p) PROVE RequestInv' /\ BufferInv'
  BY <1>12, UnlockBuffer
<1>13. ASSUME NEW p \in Proc, Brelse(p) PROVE RequestInv' /\ BufferInv'
  BY <1>13, DropBuffer
<1> QED BY <1>1, <1>2, <1>3, <1>4, <1>5, <1>6, <1>7, <1>8, <1>9, <1>10, <1>11, <1>12, <1>13
        DEF Next, DriverStep

\* A stuttering step keeps both invariants.
LEMMA CacheStutter ==
    ASSUME RequestInv, BufferInv, UNCHANGED vars
    PROVE  RequestInv' /\ BufferInv'
<1>1. /\ UNCHANGED <<busy, descVars, status, availRing, availIdx, used_idx>>
      /\ UNCHANGED <<seen, inflight, platter, usedRing, usedIdx, irq, intr>>
      /\ UNCHANGED <<pc, mybuf, wr, data, blockno, cacheVars>>
  BY DEF vars, diskVars, bufVars, deviceVars
<1>2. Calm
  BY <1>1 DEF RequestInv, DriverTypes, CallerInv, Calm
<1> QED BY <1>1, <1>2, CalmRequest, QuietBuffer

\* The inductive invariants imply what the run checks.
LEMMA BufferCacheInv == RequestInv /\ BufferInv => CacheInv
<1> SUFFICES ASSUME RequestInv, BufferInv PROVE CacheInv
  OBVIOUS
<1>1. TypeOK
  BY DEF RequestInv, BufferInv, DriverTypes, BufTypes, LruInv, TypeOK, PCs
<1>2. RefcntExact
  BY DEF BufferInv, CountInv, Refs, OwnerInv, RefcntExact
<1> QED BY <1>1, <1>2 DEF BufferInv, CacheInv

\* They hold in every behaviour of the cache.
LEMMA CacheAlways == Spec => [](RequestInv /\ BufferInv)
<1>1. Init => RequestInv /\ BufferInv
  BY CacheStarts
<1>2. RequestInv /\ BufferInv /\ [Next]_vars => (RequestInv /\ BufferInv)'
  BY CacheStep, CacheStutter
<1> QED BY <1>1, <1>2, PTL DEF Spec

(***************************************************************************)
(* bio.c and sleeplock.c over virtio_disk.c: one buffer for a block, exact *)
(* reference counts, no forgotten waiter, whoever runs between bget(),     *)
(* acquiresleep() and brelse().                                            *)
(***************************************************************************)
THEOREM BufferCacheAlways == Spec => []CacheInv
<1> QED BY CacheAlways, BufferCacheInv, PTL

\* The driver under the buffer cache.
THEOREM DriverUnderCache == Spec => []DriverInv
<1> QED BY CacheAlways, RequestDriver, PTL

-----------------------------------------------------------------------------
(***************************************************************************)
(* What is in the buffers and on the disk.                                 *)
(***************************************************************************)

\* The heads of requests are not given out again while they are under way.
LEMMA SubmitStatus ==
    ASSUME RequestInv, NEW p \in Proc, Submit(p)
    PROVE  /\ status'[idx0'[p]] = 255 /\ pc'[p] = "iosleep" /\ busy'[mybuf[p]]
           /\ \A q \in Users : /\ q # p /\ idx0'[q] = idx0[q] /\ status'[idx0[q]] = status[idx0[q]]
                               /\ busy'[mybuf[q]] = busy[mybuf[q]]
           /\ \A q \in Proc : q # p => pc'[q] = pc[q]
<1>1. free \subseteq Desc /\ Cardinality(free) >= 3 /\ DriverTypes
  BY DEF Submit, RequestInv, DriverTypes
<1>2. PICK i0 \in free : i0 = Min(Lowest(3))
  BY <1>1, LowestIs
<1>3. /\ status' = [status EXCEPT ![i0] = 255] /\ idx0' = [idx0 EXCEPT ![p] = i0]
      /\ busy' = [busy EXCEPT ![mybuf[p]] = TRUE] /\ pc[p] = "rw"
      /\ pc' = [pc EXCEPT ![p] = "iosleep"]
  BY <1>2 DEF Submit
<1>4. pc[p] \in InRw /\ pc[p] \notin InIo
  BY <1>3 DEF InRw, InIo
<1>5. mybuf[p] \in Buf
  BY <1>4 DEF RequestInv, CallerInv
<1>6. \A q \in Users : /\ q \in Proc /\ q # p /\ idx0[q] \in Desc /\ idx0[q] # i0
                       /\ mybuf[q] \in Buf /\ mybuf[q] # mybuf[p]
  <2>1. \A q \in Users : pc[q] \in InIo /\ pc[q] \in InRw /\ q \in Proc
    BY HeadsAre DEF InIo, InRw, Users
  <2>2. \A q \in Users : mybuf[q] # mybuf[p]
    BY <2>1, <1>4 DEF RequestInv, CallerInv
  <2> QED BY <2>1, <2>2, <1>2, <1>4, HeadsAre
<1>7. idx0'[p] = i0 /\ status'[i0] = 255 /\ pc'[p] = "iosleep" /\ busy'[mybuf[p]]
  BY <1>1, <1>2, <1>3, <1>5 DEF DriverTypes
<1>8. \A q \in Users : /\ idx0'[q] = idx0[q] /\ status'[idx0[q]] = status[idx0[q]]
                       /\ busy'[mybuf[q]] = busy[mybuf[q]]
  BY <1>1, <1>3, <1>6 DEF DriverTypes
<1>9. \A q \in Proc : q # p => pc'[q] = pc[q]
  BY <1>1, <1>3 DEF DriverTypes
<1> QED BY <1>6, <1>7, <1>8, <1>9

\* A request is done once its status is 0; only the device makes it so.
LEMMA DoneIs == ASSUME RequestInv PROVE \A q \in Proc : pc[q] \in InIo <=> q \in Users
  BY DEF RequestInv, CallerInv, Users

\* A step that changes neither contents nor blocks.
LEMMA QuietContent ==
    ASSUME ContentInv, UNCHANGED <<data, latest, platter, valid, blockno>>,
           pinned \subseteq pinned',
           \A q \in Proc :
              /\ Done(q)' => Done(q) /\ mybuf'[q] = mybuf[q] /\ wr'[q] = wr[q]
              /\ pc'[q] = "held" /\ wr'[q] => pc[q] = "held" /\ mybuf'[q] = mybuf[q] /\ wr[q]
              /\ ToDo(q) => ToDo(q)' /\ mybuf'[q] = mybuf[q]
    PROVE  ContentInv'
<1>1. \A b \in Buf : valid'[b] => data'[b] = latest'[blockno'[b]]
  BY DEF ContentInv
<1>2. \A q \in Proc : Done(q)' => data'[mybuf'[q]] = latest'[blockno'[mybuf'[q]]]
  BY DEF ContentInv
<1>3. \A q \in Proc : (pc'[q] = "held" \/ Done(q)') /\ wr'[q] =>
                          platter'[blockno'[mybuf'[q]]] = latest'[blockno'[mybuf'[q]]]
  BY DEF ContentInv
<1>4. ASSUME NEW k \in Block, platter'[k] # latest'[k]
      PROVE  \E b \in Buf : /\ blockno'[b] = k /\ valid'[b]
                            /\ b \in pinned' \/ \E q \in Proc : mybuf'[q] = b /\ ToDo(q)'
  <2>1. PICK b \in Buf : /\ blockno[b] = k /\ valid[b]
                         /\ b \in pinned \/ \E q \in Proc : mybuf[q] = b /\ ToDo(q)
    BY <1>4 DEF ContentInv
  <2>2. b \in pinned' \/ \E q \in Proc : mybuf'[q] = b /\ ToDo(q)'
    BY <2>1
  <2> QED BY <2>1, <2>2
<1> QED BY <1>1, <1>2, <1>3, <1>4 DEF ContentInv

\* The driver's steps that move no data.
LEMMA MoveContent ==
    ASSUME RequestInv, RequestInv', StatusInv, ContentInv, UNCHANGED cacheVars,
           \/ DeviceFetch \/ Intr
           \/ \E p \in Proc : Submit(p) \/ NoDescriptors(p) \/ IoAgain(p) \/ Kill(p)
    PROVE  StatusInv' /\ ContentInv'
<1>1. UNCHANGED <<data, platter, blockno, mybuf, wr, latest, valid, pinned>>
  BY DEF Intr, DeviceFetch, IntrEnter, IntrEntry, IntrExit, cacheVars,
         Submit, NoDescriptors, IoAgain, Kill, bufVars, deviceVars
<1>2. pc \in [Proc -> PCs] /\ busy \in [Buf -> BOOLEAN]
  BY DEF RequestInv, DriverTypes
<1>3. \A q \in Proc : /\ pc'[q] \in InRw <=> pc[q] \in InRw
                      /\ Done(q)' <=> Done(q)
                      /\ pc'[q] = "held" <=> pc[q] = "held"
                      /\ pc'[q] \in InIo /\ ~busy'[mybuf[q]] => Done(q)'
  <2>1. CASE DeviceFetch \/ IntrEnter \/ IntrExit
    BY <2>1 DEF DeviceFetch, IntrEnter, IntrExit, descVars, Done, StatusInv
  <2>2. CASE IntrEntry
    <3>1. PICK p \in Users : /\ usedRing[UsedSlot] = idx0[p] /\ mybuf[p] \in Buf
                             /\ op[usedRing[UsedSlot]].b = mybuf[p]
      BY <2>2, EntryIs DEF IntrEntry
    <3>2. status[idx0[p]] = 0
      BY <2>2, <3>1, EntryIs DEF IntrEntry, RequestInv, PlaceInv
    <3>3. /\ busy' = [busy EXCEPT ![mybuf[p]] = FALSE] /\ UNCHANGED <<idx0, status>>
          /\ pc' = Woken("iosleep", "io", {q \in Proc : mybuf[q] = mybuf[p]})
      BY <2>2, <3>1 DEF IntrEntry, descVars
    <3>4. \A q \in Proc : /\ pc'[q] \in InIo <=> pc[q] \in InIo
                          /\ pc'[q] \in InRw <=> pc[q] \in InRw
                          /\ pc'[q] = "held" <=> pc[q] = "held"
      BY <3>3 DEF Woken, InIo, InRw
    <3>5. \A q \in Proc : Done(q)' <=> Done(q)
      BY <3>3, <3>4 DEF Done
    <3>6. \A q \in Users : mybuf[q] \in Buf /\ (mybuf[q] = mybuf[p] => q = p)
      BY HeadsAre
    <3>7. ASSUME NEW q \in Proc, pc'[q] \in InIo, ~busy'[mybuf[q]] PROVE Done(q)'
      <4>1. q \in Users /\ pc[q] \in InIo
        BY <3>4, <3>7, DoneIs
      <4>2. CASE q = p
        BY <4>1, <4>2, <3>2, <3>5 DEF Done
      <4>3. CASE q # p
        <5>1. busy'[mybuf[q]] = busy[mybuf[q]]
          BY <4>1, <4>3, <3>3, <3>6, <1>2
        <5> QED BY <4>1, <5>1, <3>5, <3>7 DEF StatusInv
      <4> QED BY <4>2, <4>3
    <3> QED BY <3>4, <3>5, <3>7
  <2>3. ASSUME NEW p \in Proc, Submit(p)
        PROVE  \A q \in Proc : /\ pc'[q] \in InRw <=> pc[q] \in InRw
                               /\ Done(q)' <=> Done(q)
                               /\ pc'[q] = "held" <=> pc[q] = "held"
                               /\ pc'[q] \in InIo /\ ~busy'[mybuf[q]] => Done(q)'
    <3>1. pc[p] = "rw" /\ pc'[p] = "iosleep" /\ \A q \in Proc : q # p => pc'[q] = pc[q]
      BY <2>3, SubmitStatus DEF Submit
    <3>2. pc[p] \in InRw /\ pc'[p] \in InRw /\ pc[p] \notin InIo /\ pc'[p] \in InIo
      BY <3>1 DEF InRw, InIo
    <3>3. ~Done(p) /\ ~Done(p)' /\ busy'[mybuf[p]]
      <4>1. 255 # 0
        OBVIOUS
      <4> QED BY <2>3, <3>2, <4>1, SubmitStatus DEF Done
    <3>4. \A q \in Proc : q # p /\ pc[q] \in InIo =>
             /\ idx0'[q] = idx0[q] /\ status'[idx0[q]] = status[idx0[q]]
             /\ busy'[mybuf[q]] = busy[mybuf[q]]
      BY <2>3, DoneIs, SubmitStatus
    <3>5. \A q \in Proc : q # p => (Done(q)' <=> Done(q))
      BY <3>1, <3>4 DEF Done
    <3>6. \A q \in Proc : pc'[q] \in InIo /\ ~busy'[mybuf[q]] => Done(q)'
      BY <3>1, <3>3, <3>4, <3>5 DEF StatusInv
    <3> QED BY <3>1, <3>2, <3>3, <3>5, <3>6
  <2>4. ASSUME NEW p \in Proc, NoDescriptors(p) \/ IoAgain(p) \/ Kill(p)
        PROVE  \A q \in Proc : /\ pc'[q] \in InRw <=> pc[q] \in InRw
                               /\ Done(q)' <=> Done(q)
                               /\ pc'[q] = "held" <=> pc[q] = "held"
                               /\ pc'[q] \in InIo /\ ~busy'[mybuf[q]] => Done(q)'
    <3>1. UNCHANGED <<idx0, status, busy>>
      BY <2>4 DEF NoDescriptors, IoAgain, Kill, descVars
    <3>2. \A q \in Proc : /\ pc'[q] \in InIo <=> pc[q] \in InIo
                          /\ pc'[q] \in InRw <=> pc[q] \in InRw
                          /\ pc'[q] = "held" <=> pc[q] = "held"
      BY <2>4, <1>2 DEF NoDescriptors, IoAgain, Kill, WakeDescSleepers, Woken, InRw, InIo
    <3> QED BY <3>1, <3>2 DEF Done, StatusInv
  <2> QED BY <2>1, <2>2, <2>3, <2>4 DEF Intr
<1>4. StatusInv'
  BY <1>1, <1>3 DEF StatusInv
<1>5. \A q \in Proc : ToDo(q)' <=> ToDo(q)
  BY <1>3 DEF ToDo
<1>6. ContentInv'
  BY <1>1, <1>3, <1>5, QuietContent
<1> QED BY <1>4, <1>6

\* The device carries out a request.
LEMMA DoneContent ==
    ASSUME RequestInv, RequestInv', BufferInv, StatusInv, ContentInv, UNCHANGED cacheVars,
           NEW h \in Desc, DeviceDone(h)
    PROVE  StatusInv' /\ ContentInv'
<1>1. /\ UNCHANGED <<pc, mybuf, wr, blockno, busy, idx0, valid, pinned, latest>>
      /\ status' = [status EXCEPT ![h] = 0] /\ h \in inflight
  BY DEF DeviceDone, descVars, cacheVars
<1>2. PICK p \in Users : idx0[p] = h
  BY <1>1, PlacesAreHeads DEF Heads
<1> DEFINE b == mybuf[p]
           k == blockno[b]
<1>3. /\ op[h].b = b /\ op[h].sector = k /\ op[h].write = wr[p] /\ b \in Buf /\ k \in Block
      /\ p \in Proc /\ pc[p] \in InIo /\ pc[p] \in InRw
  BY <1>2, RequestIs, HeadsAre DEF Users, InIo, InRw
<1>4. /\ DriverTypes /\ OneBufferPerBlock /\ ValidInv /\ BufTypes
      /\ \A q \in Users : q \in Proc /\ idx0[q] \in Desc /\ (idx0[q] = h => q = p)
      /\ \A q \in Users : mybuf[q] \in Buf /\ (mybuf[q] = b => q = p)
  BY <1>2, HeadsAre DEF RequestInv, BufferInv, Users
<1>5. \A q \in Proc : Done(q)' <=> Done(q) \/ q = p
  <2>1. \A q \in Users : status'[idx0[q]] = 0 <=> status[idx0[q]] = 0 \/ q = p
    BY <1>1, <1>2, <1>4 DEF DriverTypes
  <2>2. \A q \in Proc : pc[q] \in InIo <=> q \in Users
    BY DoneIs
  <2> QED BY <2>1, <2>2, <1>1, <1>2 DEF Done
<1>6. \A q \in Proc : ToDo(q)' <=> ToDo(q) /\ q # p
  BY <1>1, <1>5 DEF ToDo
<1>7. StatusInv'
  BY <1>1, <1>5 DEF StatusInv
<1>8. \A q \in Proc : Done(q) /\ q # p => mybuf[q] \in Buf /\ mybuf[q] # b /\ blockno[mybuf[q]] # k
                                             /\ blockno[mybuf[q]] \in Block
  <2>1. \A q \in Proc : Done(q) => q \in Users
    BY DoneIs DEF Done
  <2>2. \A q \in Users : blockno[mybuf[q]] \in Block
    BY RequestIs
  <2>3. None \notin Block
    BY DiskAssumption
  <2> QED BY <2>1, <2>2, <2>3, <1>3, <1>4 DEF OneBufferPerBlock
<1>9. \A q \in Proc : pc[q] = "held" => mybuf[q] \in Buf /\ blockno[mybuf[q]] # k
                                          /\ blockno[mybuf[q]] \in Block
  <2>1. \A q \in Proc : pc[q] = "held" =>
           q # p /\ mybuf[q] \in Buf /\ mybuf[q] # b /\ blockno[mybuf[q]] \in Block
    BY <1>3, Parts DEF Locked, InRw
  <2>2. None \notin Block
    BY DiskAssumption
  <2> QED BY <2>1, <2>2, <1>3, <1>4 DEF OneBufferPerBlock
<1>10. CASE wr[p]
  <2>1. platter' = [platter EXCEPT ![k] = data[b]] /\ UNCHANGED data
    BY <1>3, <1>10 DEF DeviceDone
  <2>2. valid[b] /\ data[b] = latest[k]
    BY <1>3, <1>4, <1>10 DEF ValidInv, ContentInv
  <2>3. platter'[k] = latest[k] /\ \A j \in Block : j # k => platter'[j] = platter[j]
    BY <2>1, <2>2, <1>3, <1>4 DEF DriverTypes
  <2>4. \A c \in Buf : valid'[c] => data'[c] = latest'[blockno'[c]]
    BY <2>1, <1>1 DEF ContentInv
  <2>5. \A q \in Proc : Done(q)' => data'[mybuf'[q]] = latest'[blockno'[mybuf'[q]]]
    BY <2>1, <2>2, <1>1, <1>5 DEF ContentInv
  <2>6. \A q \in Proc : (pc'[q] = "held" \/ Done(q)') /\ wr'[q] =>
                          platter'[blockno'[mybuf'[q]]] = latest'[blockno'[mybuf'[q]]]
    BY <2>3, <1>1, <1>5, <1>8, <1>9 DEF ContentInv
  <2>7. ASSUME NEW j \in Block, platter'[j] # latest'[j]
        PROVE  \E c \in Buf : /\ blockno'[c] = j /\ valid'[c]
                              /\ c \in pinned' \/ \E q \in Proc : mybuf'[q] = c /\ ToDo(q)'
    <3>1. j # k /\ platter[j] # latest[j]
      BY <2>3, <2>7, <1>1
    <3>2. PICK c \in Buf : /\ blockno[c] = j /\ valid[c]
                           /\ c \in pinned \/ \E q \in Proc : mybuf[q] = c /\ ToDo(q)
      BY <3>1 DEF ContentInv
    <3>3. c # b
      BY <3>1, <3>2
    <3>4. c \in pinned' \/ \E q \in Proc : mybuf'[q] = c /\ ToDo(q)'
      BY <3>2, <3>3, <1>1, <1>6
    <3> QED BY <3>2, <3>4, <1>1
  <2> QED BY <2>4, <2>5, <2>6, <2>7, <1>7 DEF ContentInv
<1>11. CASE ~wr[p]
  <2>1. data' = [data EXCEPT ![b] = platter[k]] /\ UNCHANGED platter
    BY <1>3, <1>11 DEF DeviceDone
  <2>2. ~valid[b]
    BY <1>3, <1>4, <1>11 DEF ValidInv
  <2>3. platter[k] = latest[k]
    <3> SUFFICES ASSUME platter[k] # latest[k] PROVE FALSE
      OBVIOUS
    <3>1. PICK c \in Buf : blockno[c] = k /\ valid[c]
      BY <1>3 DEF ContentInv
    <3>2. c # b
      BY <2>2, <3>1
    <3>3. k # None
      BY <1>3, DiskAssumption
    <3> QED BY <3>1, <3>2, <3>3, <1>3, <1>4 DEF OneBufferPerBlock
  <2>4. data'[b] = latest[k] /\ \A c \in Buf : c # b => data'[c] = data[c]
    BY <2>1, <2>3, <1>3, <1>4 DEF DriverTypes
  <2>5. \A c \in Buf : valid'[c] => data'[c] = latest'[blockno'[c]]
    BY <2>2, <2>4, <1>1 DEF ContentInv
  <2>6. \A q \in Proc : Done(q)' => data'[mybuf'[q]] = latest'[blockno'[mybuf'[q]]]
    BY <2>4, <1>1, <1>5, <1>8 DEF ContentInv
  <2>7. \A q \in Proc : (pc'[q] = "held" \/ Done(q)') /\ wr'[q] =>
                          platter'[blockno'[mybuf'[q]]] = latest'[blockno'[mybuf'[q]]]
    BY <2>1, <1>1, <1>5, <1>11 DEF ContentInv
  <2>8. ASSUME NEW j \in Block, platter'[j] # latest'[j]
        PROVE  \E c \in Buf : /\ blockno'[c] = j /\ valid'[c]
                              /\ c \in pinned' \/ \E q \in Proc : mybuf'[q] = c /\ ToDo(q)'
    <3>1. platter[j] # latest[j]
      BY <2>1, <2>8, <1>1
    <3>2. PICK c \in Buf : /\ blockno[c] = j /\ valid[c]
                           /\ c \in pinned \/ \E q \in Proc : mybuf[q] = c /\ ToDo(q)
      BY <3>1 DEF ContentInv
    <3>3. c # b
      BY <2>2, <3>2
    <3>4. c \in pinned' \/ \E q \in Proc : mybuf'[q] = c /\ ToDo(q)'
      BY <3>2, <3>3, <1>1, <1>6
    <3> QED BY <3>2, <3>4, <1>1
  <2> QED BY <2>5, <2>6, <2>7, <2>8, <1>7 DEF ContentInv
<1> QED BY <1>10, <1>11


\* A buffer that was read or written by the device is valid, and clean.
LEMMA ReturnContent ==
    ASSUME RequestInv, RequestInv', BufferInv, StatusInv, ContentInv,
           NEW p \in Proc, DiskReturn(p)
    PROVE  StatusInv' /\ ContentInv'
<1>1. /\ pc[p] = "io" /\ pc'[p] = "held" /\ ~busy[mybuf[p]]
      /\ \A q \in Proc : q # p => pc'[q] = IF pc[q] = "dsleep" THEN "rw" ELSE pc[q]
  BY Parts DEF DiskReturn, IoReturn, FreeChainWakes, WakeDescSleepers, Woken
<1>2. /\ UNCHANGED <<mybuf, wr, data, blockno, pinned, latest, platter, status, busy>>
      /\ idx0' = [idx0 EXCEPT ![p] = None]
  BY DEF DiskReturn, IoReturn, bufVars, deviceVars
<1>3. /\ idx0 \in [Proc -> Desc \cup {None}] /\ mybuf[p] \in Buf /\ blockno[mybuf[p]] \in Block
      /\ BufTypes /\ OneBufferPerBlock
  BY <1>1, Parts DEF RequestInv, DriverTypes
<1>4. Done(p)
  BY <1>1 DEF StatusInv, InIo
<1>5. ~Done(p)' /\ \A q \in Proc : q # p => (Done(q)' <=> Done(q))
  <2>1. \A q \in Proc : q # p => idx0'[q] = idx0[q] /\ (pc'[q] \in InIo <=> pc[q] \in InIo)
    BY <1>1, <1>2, <1>3 DEF InIo
  <2>2. pc'[p] \notin InIo
    BY <1>1 DEF InIo
  <2> QED BY <2>1, <2>2, <1>2 DEF Done
<1>6. \A q \in Proc : ToDo(q)' <=> ToDo(q)
  <2>1. \A q \in Proc : pc'[q] \in InRw <=> pc[q] \in InRw /\ q # p
    BY <1>1 DEF InRw
  <2> QED BY <2>1, <1>4, <1>5 DEF ToDo
<1>7. StatusInv'
  <2>1. \A q \in Proc : pc'[q] \in InIo => pc[q] \in InIo /\ q # p
    BY <1>1 DEF InIo
  <2> QED BY <2>1, <1>2, <1>5 DEF StatusInv
<1>8. valid'[mybuf[p]] /\ \A b \in Buf : b # mybuf[p] => valid'[b] = valid[b]
  BY <1>3 DEF DiskReturn, BufTypes
<1>9. \A b \in Buf : valid'[b] => data'[b] = latest'[blockno'[b]]
  BY <1>2, <1>4, <1>8 DEF ContentInv
<1>10. \A q \in Proc : Done(q)' => data'[mybuf'[q]] = latest'[blockno'[mybuf'[q]]]
  BY <1>2, <1>5 DEF ContentInv
<1>11. \A q \in Proc : (pc'[q] = "held" \/ Done(q)') /\ wr'[q] =>
                          platter'[blockno'[mybuf'[q]]] = latest'[blockno'[mybuf'[q]]]
  <2>1. \A q \in Proc : q # p /\ pc'[q] = "held" => pc[q] = "held"
    BY <1>1
  <2> QED BY <2>1, <1>2, <1>4, <1>5 DEF ContentInv
<1>12. ASSUME NEW j \in Block, platter'[j] # latest'[j]
       PROVE  \E c \in Buf : /\ blockno'[c] = j /\ valid'[c]
                             /\ c \in pinned' \/ \E q \in Proc : mybuf'[q] = c /\ ToDo(q)'
  <2>1. PICK c \in Buf : /\ blockno[c] = j /\ valid[c]
                         /\ c \in pinned \/ \E q \in Proc : mybuf[q] = c /\ ToDo(q)
    BY <1>2, <1>12 DEF ContentInv
  <2>2. c \in pinned' \/ \E q \in Proc : mybuf'[q] = c /\ ToDo(q)'
    BY <2>1, <1>2, <1>6
  <2> QED BY <2>1, <2>2, <1>2, <1>8
<1> QED BY <1>7, <1>9, <1>10, <1>11, <1>12 DEF ContentInv

\* A step of one process in the cache leaves the requests as they are.
LEMMA CacheStatus ==
    ASSUME RequestInv, StatusInv, DriverUnchanged, NEW p \in Proc, pc'[p] \notin InIo,
           \A q \in Proc : q # p => /\ mybuf'[q] = mybuf[q]
                                    /\ pc'[q] \in InIo <=> pc[q] \in InIo
                                    /\ pc'[q] \in InRw <=> pc[q] \in InRw
    PROVE  /\ StatusInv' /\ UNCHANGED platter /\ ~Done(p)'
           /\ \A q \in Proc : q # p => (Done(q)' <=> Done(q)) /\ (ToDo(q)' <=> ToDo(q))
           /\ ToDo(p)' <=> pc'[p] \in InRw
<1>1. UNCHANGED <<busy, idx0, status, platter>>
  BY DEF DriverUnchanged, descVars, deviceVars
<1>2. ~Done(p)' /\ (ToDo(p)' <=> pc'[p] \in InRw)
  BY DEF Done, ToDo
<1>3. \A q \in Proc : q # p => (Done(q)' <=> Done(q)) /\ (ToDo(q)' <=> ToDo(q))
  BY <1>1 DEF Done, ToDo
<1>4. StatusInv'
  BY <1>1, <1>3 DEF StatusInv
<1> QED BY <1>1, <1>2, <1>3, <1>4

\* The steps of the cache that change neither contents nor blocks.
LEMMA CalmContent ==
    ASSUME RequestInv, BufferInv, StatusInv, ContentInv, NEW p \in Proc,
           \/ LockSleep(p) \/ KillLockSleeper(p) \/ LockGet(p)
           \/ \E k \in Block : BgetHit(p, k)
           \/ Install(p) \/ Releasesleep(p) \/ Brelse(p)
    PROVE  StatusInv' /\ ContentInv'
<1>1. /\ DriverUnchanged /\ UNCHANGED <<data, latest, valid, blockno, pinned>>
  BY DEF LockSleep, KillLockSleeper, LockGet, BgetHit, Install, Releasesleep, Brelse,
         bufVars, cacheVars
<1>2. /\ pc \in [Proc -> PCs] /\ mybuf \in [Proc -> Buf \cup {None}] /\ wr \in [Proc -> BOOLEAN]
      /\ \A q \in Proc : pc[q] \in {"idle", "lock", "lksleep"} => ~wr[q]
  BY Parts DEF OwnerInv
<1>3. \A q \in Proc : q # p => /\ mybuf'[q] = mybuf[q] /\ wr'[q] = wr[q]
                               /\ pc'[q] \in InIo <=> pc[q] \in InIo
                               /\ pc'[q] \in InRw <=> pc[q] \in InRw
                               /\ pc'[q] = "held" <=> pc[q] = "held"
  BY <1>2 DEF LockSleep, KillLockSleeper, LockGet, BgetHit, Install, Releasesleep, Brelse,
         Goto, LockWaiters, Woken, InIo, InRw
<1>4. /\ pc[p] \notin InRw /\ pc'[p] \notin InIo
      /\ pc'[p] = "held" => pc[p] = "lock" /\ wr'[p] = wr[p]
  BY <1>2 DEF LockSleep, KillLockSleeper, LockGet, BgetHit, Install, Releasesleep, Brelse,
         Goto, LockWaiters, Woken, InIo, InRw
<1>5. /\ StatusInv' /\ UNCHANGED platter /\ ~Done(p)'
      /\ \A q \in Proc : q # p => (Done(q)' <=> Done(q)) /\ (ToDo(q)' <=> ToDo(q))
  BY <1>1, <1>3, <1>4, CacheStatus
<1>6. ~ToDo(p) /\ ~(pc'[p] = "held" /\ wr'[p])
  BY <1>2, <1>4 DEF ToDo
<1>7. ContentInv'
  BY <1>1, <1>3, <1>5, <1>6, QuietContent
<1> QED BY <1>5, <1>7

\* bget() recycles a buffer: it was clean.
LEMMA MissContent ==
    ASSUME RequestInv, BufferInv, StatusInv, ContentInv, NEW p \in Proc, NEW k \in Block,
           BgetMiss(p, k)
    PROVE  StatusInv' /\ ContentInv'
<1>1. PICK b \in Buf : b = Victim /\ refcnt[b] = 0
  BY Parts, VictimIs DEF BgetMiss, BufTypes
<1>2. b \notin pinned /\ \A q \in Proc : mybuf[q] # b
  BY <1>1, Parts, UnusedIs
<1>3. /\ pc \in [Proc -> PCs] /\ mybuf \in [Proc -> Buf \cup {None}] /\ wr \in [Proc -> BOOLEAN]
      /\ blockno \in [Buf -> Block \cup {None}] /\ valid \in [Buf -> BOOLEAN]
      /\ \A q \in Proc : pc[q] # "idle" => mybuf[q] \in Buf /\ blockno[mybuf[q]] \in Block
  BY Parts DEF BufTypes
<1>4. /\ DriverUnchanged /\ UNCHANGED <<data, latest, pinned>>
      /\ pc[p] = "idle" /\ pc'[p] = "lock"
      /\ \A q \in Proc : q # p => mybuf'[q] = mybuf[q] /\ wr'[q] = wr[q] /\ pc'[q] = pc[q]
  BY <1>3 DEF BgetMiss, Goto
<1>5. /\ blockno'[b] = k /\ ~valid'[b]
      /\ \A c \in Buf : c # b => blockno'[c] = blockno[c] /\ valid'[c] = valid[c]
  BY <1>1, <1>3 DEF BgetMiss, Recycled
<1>6. pc[p] \notin InRw /\ pc'[p] \notin InRw /\ pc'[p] \notin InIo /\ ~ToDo(p)
  BY <1>4 DEF InIo, InRw, ToDo
<1>7. /\ StatusInv' /\ UNCHANGED platter /\ ~Done(p)'
      /\ \A q \in Proc : q # p => (Done(q)' <=> Done(q)) /\ (ToDo(q)' <=> ToDo(q))
  BY <1>4, <1>6, CacheStatus
<1>8. \A q \in Proc : pc[q] # "idle" /\ q # p =>
         mybuf[q] \in Buf /\ mybuf[q] # b /\ blockno'[mybuf'[q]] = blockno[mybuf[q]]
  BY <1>2, <1>3, <1>4, <1>5
<1>9. \A q \in Proc : Done(q) => pc[q] # "idle"
  BY DEF Done, InIo
<1>10. \A c \in Buf : valid'[c] => data'[c] = latest'[blockno'[c]]
  BY <1>4, <1>5 DEF ContentInv
<1>11. \A q \in Proc : Done(q)' => data'[mybuf'[q]] = latest'[blockno'[mybuf'[q]]]
  BY <1>4, <1>7, <1>8, <1>9 DEF ContentInv
<1>12. \A q \in Proc : (pc'[q] = "held" \/ Done(q)') /\ wr'[q] =>
                          platter'[blockno'[mybuf'[q]]] = latest'[blockno'[mybuf'[q]]]
  BY <1>4, <1>7, <1>8, <1>9 DEF ContentInv
<1>13. ASSUME NEW j \in Block, platter'[j] # latest'[j]
       PROVE  \E c \in Buf : /\ blockno'[c] = j /\ valid'[c]
                             /\ c \in pinned' \/ \E q \in Proc : mybuf'[q] = c /\ ToDo(q)'
  <2>1. PICK c \in Buf : /\ blockno[c] = j /\ valid[c]
                         /\ c \in pinned \/ \E q \in Proc : mybuf[q] = c /\ ToDo(q)
    BY <1>4, <1>7, <1>13 DEF ContentInv
  <2>2. c # b
    BY <2>1, <1>2
  <2>3. c \in pinned' \/ \E q \in Proc : mybuf'[q] = c /\ ToDo(q)'
    BY <2>1, <1>4, <1>6, <1>7
  <2> QED BY <2>1, <2>2, <2>3, <1>5
<1> QED BY <1>7, <1>10, <1>11, <1>12, <1>13 DEF ContentInv

\* The holder changes the data: it is pinned, or will be written.
LEMMA ChangeContent ==
    ASSUME RequestInv, BufferInv, StatusInv, ContentInv, NEW p \in Proc, NEW v \in Val,
           ChangeAndLog(p, v) \/ ChangeAndWrite(p, v)
    PROVE  StatusInv' /\ ContentInv'
<1>1. /\ pc \in [Proc -> PCs] /\ wr \in [Proc -> BOOLEAN] /\ data \in [Buf -> Val]
      /\ latest \in [Block -> Val] /\ None \notin Block /\ OneBufferPerBlock
      /\ \A q \in Proc : pc[q] # "idle" => mybuf[q] \in Buf /\ blockno[mybuf[q]] \in Block
  BY Parts DEF BufTypes
<1>2. /\ DriverUnchanged /\ UNCHANGED <<mybuf, blockno, valid>> /\ pc[p] = "held"
      /\ \A q \in Proc : q # p => wr'[q] = wr[q] /\ pc'[q] = pc[q]
      /\ pinned \subseteq pinned'
      /\ pc'[p] = "held" => ~wr'[p] /\ mybuf[p] \in pinned'
      /\ pc'[p] \in {"held", "rw"}
  BY <1>1 DEF ChangeAndLog, ChangeAndWrite, Change, Goto, Pins
<1> DEFINE b == mybuf[p]
           k == blockno[b]
<1>3. b \in Buf /\ k \in Block /\ valid[b]
  BY <1>1, <1>2, Parts DEF ValidInv
<1>4. /\ data'[b] = v /\ latest'[k] = v
      /\ \A c \in Buf : c # b => data'[c] = data[c]
      /\ \A j \in Block : j # k => latest'[j] = latest[j]
  BY <1>1, <1>3 DEF ChangeAndLog, ChangeAndWrite, Change
<1>5. pc[p] \notin InRw /\ pc'[p] \notin InIo /\ (pc'[p] = "held" \/ pc'[p] \in InRw)
  BY <1>2 DEF InIo, InRw
<1>6. /\ StatusInv' /\ UNCHANGED platter /\ ~Done(p)'
      /\ \A q \in Proc : q # p => (Done(q)' <=> Done(q)) /\ (ToDo(q)' <=> ToDo(q))
      /\ ToDo(p)' <=> pc'[p] \in InRw
  BY <1>2, <1>5, CacheStatus
<1>7. \A c \in Buf : c # b => blockno[c] # k
  BY <1>1, <1>3 DEF OneBufferPerBlock
<1>8. \A q \in Proc : pc[q] \in Locked /\ q # p =>
         /\ mybuf[q] \in Buf /\ mybuf[q] # b /\ blockno[mybuf[q]] \in Block
         /\ blockno[mybuf[q]] # k
  <2>1. \A q \in Proc : pc[q] \in Locked /\ q # p => mybuf[q] # b
    BY <1>2, Parts DEF Locked
  <2> QED BY <2>1, <1>1, <1>7 DEF Locked, InRw
<1>9. \A q \in Proc : Done(q) \/ pc[q] = "held" => pc[q] \in Locked
  BY DEF Done, InIo, InRw, Locked
<1>10. \A c \in Buf : valid'[c] => data'[c] = latest'[blockno'[c]]
  <2>1. \A c \in Buf : valid[c] => blockno[c] \in Block
    BY Parts DEF ValidInv
  <2> QED BY <2>1, <1>2, <1>4, <1>7 DEF ContentInv
<1>11. \A q \in Proc : Done(q)' => data'[mybuf'[q]] = latest'[blockno'[mybuf'[q]]]
  BY <1>2, <1>4, <1>6, <1>8, <1>9 DEF ContentInv
<1>12. \A q \in Proc : (pc'[q] = "held" \/ Done(q)') /\ wr'[q] =>
                          platter'[blockno'[mybuf'[q]]] = latest'[blockno'[mybuf'[q]]]
  BY <1>2, <1>4, <1>6, <1>8, <1>9 DEF ContentInv
<1>13. ASSUME NEW j \in Block, platter'[j] # latest'[j]
       PROVE  \E c \in Buf : /\ blockno'[c] = j /\ valid'[c]
                             /\ c \in pinned' \/ \E q \in Proc : mybuf'[q] = c /\ ToDo(q)'
  <2>1. CASE j = k
    <3>1. b \in pinned' \/ ToDo(p)'
      BY <1>2, <1>5, <1>6
    <3> QED BY <2>1, <3>1, <1>2, <1>3
  <2>2. CASE j # k
    <3>1. PICK c \in Buf : /\ blockno[c] = j /\ valid[c]
                           /\ c \in pinned \/ \E q \in Proc : mybuf[q] = c /\ ToDo(q)
      BY <2>2, <1>4, <1>6, <1>13 DEF ContentInv
    <3>2. ~ToDo(p)
      BY <1>5 DEF ToDo
    <3>3. c \in pinned' \/ \E q \in Proc : mybuf'[q] = c /\ ToDo(q)'
      BY <3>1, <3>2, <1>2, <1>6
    <3> QED BY <3>1, <3>3, <1>2
  <2> QED BY <2>1, <2>2
<1> QED BY <1>6, <1>10, <1>11, <1>12, <1>13 DEF ContentInv

\* bunpin(): the buffer has just been written.
LEMMA UnpinContent ==
    ASSUME RequestInv, BufferInv, StatusInv, ContentInv, NEW p \in Proc, Bunpin(p)
    PROVE  StatusInv' /\ ContentInv'
<1>1. /\ DriverUnchanged /\ UNCHANGED <<pc, mybuf, wr, data, blockno, valid, latest>>
      /\ pc[p] = "held" /\ wr[p] /\ pinned' = pinned \ {mybuf[p]}
  BY DEF Bunpin, bufVars
<1>2. pc[p] \notin InRw /\ pc[p] \notin InIo
  BY <1>1 DEF InRw, InIo
<1>3. /\ StatusInv' /\ UNCHANGED platter /\ ~Done(p)'
      /\ \A q \in Proc : q # p => (Done(q)' <=> Done(q)) /\ (ToDo(q)' <=> ToDo(q))
  BY <1>1, <1>2, CacheStatus
<1>4. ~Done(p) /\ ~ToDo(p)
  BY <1>2 DEF Done, ToDo
<1>5. platter[blockno[mybuf[p]]] = latest[blockno[mybuf[p]]]
  BY <1>1 DEF ContentInv
<1>6. ASSUME NEW j \in Block, platter'[j] # latest'[j]
      PROVE  \E c \in Buf : /\ blockno'[c] = j /\ valid'[c]
                            /\ c \in pinned' \/ \E q \in Proc : mybuf'[q] = c /\ ToDo(q)'
  <2>1. PICK c \in Buf : /\ blockno[c] = j /\ valid[c]
                         /\ c \in pinned \/ \E q \in Proc : mybuf[q] = c /\ ToDo(q)
    BY <1>1, <1>3, <1>6 DEF ContentInv
  <2>2. c # mybuf[p]
    BY <2>1, <1>1, <1>3, <1>5, <1>6
  <2>3. c \in pinned' \/ \E q \in Proc : mybuf'[q] = c /\ ToDo(q)'
    BY <2>1, <2>2, <1>1, <1>3, <1>4
  <2> QED BY <2>1, <2>3, <1>1
<1>7. /\ \A c \in Buf : valid'[c] => data'[c] = latest'[blockno'[c]]
      /\ \A q \in Proc : Done(q)' => data'[mybuf'[q]] = latest'[blockno'[mybuf'[q]]]
      /\ \A q \in Proc : (pc'[q] = "held" \/ Done(q)') /\ wr'[q] =>
                          platter'[blockno'[mybuf'[q]]] = latest'[blockno'[mybuf'[q]]]
  BY <1>1, <1>3, <1>4 DEF ContentInv
<1> QED BY <1>3, <1>6, <1>7 DEF ContentInv


\* The invariants together.
BlockInv == RequestInv /\ BufferInv /\ StatusInv /\ ContentInv

\* All invariants hold initially: no buffer is valid, and the disk is up to date.
LEMMA BlockStarts == Init => BlockInv
<1> SUFFICES ASSUME Init PROVE BlockInv
  OBVIOUS
<1>1. RequestInv /\ BufferInv
  BY CacheStarts
<1>2. \A p \in Proc : pc[p] = "idle" /\ ~Done(p)
  BY DEF Init, DiskInit, Done, InIo
<1>3. StatusInv
  BY <1>2 DEF StatusInv, InIo
<1>4. ContentInv
  BY <1>2 DEF Init, ContentInv
<1> QED BY <1>1, <1>3, <1>4 DEF BlockInv

\* Every step keeps all of them, one case for each group of actions.
LEMMA BlockStep == BlockInv /\ [Next]_vars => BlockInv'
<1> SUFFICES ASSUME BlockInv, [Next]_vars PROVE BlockInv'
  OBVIOUS
<1>1. RequestInv /\ BufferInv /\ StatusInv /\ ContentInv
  BY DEF BlockInv
<1>2. RequestInv' /\ BufferInv'
  BY <1>1, CacheStep, CacheStutter
<1>3. CASE UNCHANGED vars
  <2>1. /\ UNCHANGED <<pc, mybuf, wr, data, blockno, busy, idx0, status, platter>>
        /\ UNCHANGED <<valid, pinned, latest>>
    BY <1>3 DEF vars, diskVars, bufVars, descVars, deviceVars, cacheVars
  <2>2. \A q \in Proc : (Done(q)' <=> Done(q)) /\ (ToDo(q)' <=> ToDo(q))
    BY <2>1 DEF Done, ToDo
  <2>3. StatusInv'
    BY <2>1, <2>2, <1>1 DEF StatusInv
  <2>4. ContentInv'
    BY <2>1, <2>2, <1>1, QuietContent
  <2> QED BY <1>2, <2>3, <2>4 DEF BlockInv
<1>4. CASE (Device \/ Intr) /\ UNCHANGED cacheVars
  <2>1. CASE DeviceFetch \/ Intr
    BY <2>1, <1>1, <1>2, <1>4, MoveContent DEF BlockInv
  <2>2. CASE \E h \in Desc : DeviceDone(h)
    BY <2>2, <1>1, <1>2, <1>4, DoneContent DEF BlockInv
  <2> QED BY <2>1, <2>2, <1>4 DEF Device
<1>5. ASSUME NEW p \in Proc,
             Submit(p) \/ NoDescriptors(p) \/ IoAgain(p) \/ Kill(p), UNCHANGED cacheVars
      PROVE  BlockInv'
  BY <1>1, <1>2, <1>5, MoveContent DEF BlockInv
<1>6. ASSUME NEW p \in Proc, DiskReturn(p) PROVE BlockInv'
  BY <1>1, <1>2, <1>6, ReturnContent DEF BlockInv
<1>7. ASSUME NEW p \in Proc,
             \/ LockSleep(p) \/ KillLockSleeper(p) \/ LockGet(p)
             \/ \E k \in Block : BgetHit(p, k)
             \/ Install(p) \/ Releasesleep(p) \/ Brelse(p)
      PROVE  BlockInv'
  BY <1>1, <1>2, <1>7, CalmContent DEF BlockInv
<1>8. ASSUME NEW p \in Proc, NEW k \in Block, BgetMiss(p, k) PROVE BlockInv'
  BY <1>1, <1>2, <1>8, MissContent DEF BlockInv
<1>9. ASSUME NEW p \in Proc, NEW v \in Val, ChangeAndLog(p, v) \/ ChangeAndWrite(p, v)
      PROVE  BlockInv'
  BY <1>1, <1>2, <1>9, ChangeContent DEF BlockInv
<1>10. ASSUME NEW p \in Proc, Bunpin(p) PROVE BlockInv'
  BY <1>1, <1>2, <1>10, UnpinContent DEF BlockInv
<1> QED BY <1>3, <1>4, <1>5, <1>6, <1>7, <1>8, <1>9, <1>10 DEF Next, DriverStep

\* They hold in every behaviour of the cache.
LEMMA BlockAlways == Spec => []BlockInv
<1> QED BY BlockStarts, BlockStep, PTL DEF Spec
-----------------------------------------------------------------------------
(***************************************************************************)
(* The block store.                                                        *)
(***************************************************************************)

\* Whoever has a block has its buffer's lock, and the buffer is valid.
LEMMA HoldsIs ==
    ASSUME BlockInv
    PROVE  /\ \A q \in Proc : Holds(q) <=> pc[q] = "held" \/ (pc[q] \in InRw /\ wr[q])
           /\ \A q \in Proc : Holds(q) =>
                /\ pc[q] \in Locked /\ mybuf[q] \in Buf /\ blockno[mybuf[q]] \in Block
                /\ data[mybuf[q]] = latest[blockno[mybuf[q]]] /\ owner[mybuf[q]] = q
           /\ \A q, r \in Proc : Holds(q) /\ Holds(r) /\ q # r =>
                mybuf[q] # mybuf[r] /\ blockno[mybuf[q]] # blockno[mybuf[r]]
<1>1. \A q \in Proc : Holds(q) <=> pc[q] = "held" \/ (pc[q] \in InRw /\ wr[q])
  BY DEF Holds, InRw
<1>2. \A q \in Proc : Holds(q) => /\ pc[q] \in Locked /\ mybuf[q] \in Buf
                                  /\ blockno[mybuf[q]] \in Block
  BY <1>1, Parts DEF BlockInv, Locked, InRw
<1>3. \A q \in Proc : Holds(q) => valid[mybuf[q]] /\ owner[mybuf[q]] = q
  BY <1>1, <1>2, Parts DEF BlockInv, ValidInv, OwnerInv
<1>4. \A q \in Proc : Holds(q) => data[mybuf[q]] = latest[blockno[mybuf[q]]]
  BY <1>2, <1>3 DEF BlockInv, ContentInv
<1>5. \A q, r \in Proc : Holds(q) /\ Holds(r) /\ q # r => mybuf[q] # mybuf[r]
  BY <1>3
<1>6. \A q, r \in Proc : Holds(q) /\ Holds(r) /\ q # r => blockno[mybuf[q]] # blockno[mybuf[r]]
  BY <1>2, <1>5, Parts DEF BlockInv, OneBufferPerBlock
<1> QED BY <1>1, <1>2, <1>3, <1>4, <1>5, <1>6

\* A step that the store does not see.
LEMMA QuietStore ==
    ASSUME UNCHANGED latest,
           \A q \in Proc : /\ Holds(q)' <=> Holds(q)
                           /\ Holds(q) => /\ blockno'[mybuf'[q]] = blockno[mybuf[q]]
                                          /\ data'[mybuf'[q]] = data[mybuf[q]]
    PROVE  UNCHANGED <<latest, HeldBlock, HeldData>>
<1>1. HeldBlock' = HeldBlock
  BY DEF HeldBlock
<1>2. HeldData' = HeldData
  BY DEF HeldData
<1> QED BY <1>1, <1>2

\* A process gets a block, and finds in it what was put there last.
LEMMA OpenStore ==
    ASSUME BlockInv, NEW p \in Proc, ~Holds(p), Holds(p)',
           UNCHANGED <<latest, mybuf, blockno, data>>,
           mybuf[p] \in Buf, blockno[mybuf[p]] \in Block,
           data[mybuf[p]] = latest[blockno[mybuf[p]]],
           \A q \in Proc : q # p => /\ Holds(q)' <=> Holds(q)
                                    /\ Holds(q) => mybuf[q] # mybuf[p]
    PROVE  B!StoreNext
<1> DEFINE k == blockno[mybuf[p]]
<1>1. HeldBlock[p] = None /\ \A q \in Proc : HeldBlock[q] # k
  <2>1. \A q \in Proc : Holds(q) => q # p /\ blockno[mybuf[q]] # k
    BY HoldsIs, Parts DEF BlockInv, OneBufferPerBlock
  <2>2. k # None
    BY DiskAssumption
  <2> QED BY <2>1, <2>2 DEF HeldBlock
<1>2. HeldBlock' = [HeldBlock EXCEPT ![p] = k]
  BY DEF HeldBlock
<1>3. HeldData' = [HeldData EXCEPT ![p] = latest[k]]
  BY DEF HeldData
<1>4. B!Open(p, k)
  BY <1>1, <1>2, <1>3 DEF B!Open
<1> QED BY <1>4 DEF B!StoreNext

\* Each step of the cache is a step of the store, or none.
LEMMA StoreStep ==
    ASSUME BlockInv, BlockInv', Next
    PROVE  B!StoreNext \/ UNCHANGED <<latest, HeldBlock, HeldData>>
<1>1. /\ pc \in [Proc -> PCs] /\ mybuf \in [Proc -> Buf \cup {None}]
      /\ wr \in [Proc -> BOOLEAN] /\ data \in [Buf -> Val]
      /\ blockno \in [Buf -> Block \cup {None}]
      /\ BufTypes /\ OwnerInv /\ ValidInv /\ CountInv /\ LruInv /\ OneBufferPerBlock
      /\ None \notin Block
      /\ \A q \in Proc : pc[q] # "idle" => mybuf[q] \in Buf /\ blockno[mybuf[q]] \in Block
  BY Parts DEF BlockInv
<1>2. \A q \in Proc : Holds(q) <=> pc[q] = "held" \/ (pc[q] \in InRw /\ wr[q])
  BY HoldsIs
<1>3. \A q \in Proc : Holds(q)' <=> pc'[q] = "held" \/ (pc'[q] \in InRw /\ wr'[q])
  BY DEF Holds, InRw
<1>4. ASSUME UNCHANGED cacheVars,
             \/ DeviceFetch \/ Intr
             \/ \E p \in Proc : Submit(p) \/ NoDescriptors(p) \/ IoAgain(p) \/ Kill(p)
      PROVE  UNCHANGED <<latest, HeldBlock, HeldData>>
  <2>1. UNCHANGED <<data, blockno, mybuf, wr, latest>>
    BY <1>4 DEF Intr, DeviceFetch, IntrEnter, IntrEntry, IntrExit, cacheVars,
                Submit, NoDescriptors, IoAgain, Kill, bufVars
  <2>2. \A q \in Proc : /\ pc'[q] \in InRw <=> pc[q] \in InRw
                        /\ pc'[q] = "held" <=> pc[q] = "held"
    <3>1. CASE DeviceFetch \/ IntrEnter \/ IntrExit
      BY <3>1 DEF DeviceFetch, IntrEnter, IntrExit
    <3>2. CASE IntrEntry
      BY <3>2 DEF IntrEntry, Woken, InRw
    <3>3. CASE \E p \in Proc : Submit(p) \/ NoDescriptors(p) \/ IoAgain(p) \/ Kill(p)
      <4>1. PICK p \in Proc : Submit(p) \/ NoDescriptors(p) \/ IoAgain(p) \/ Kill(p)
        BY <3>3
      <4>2. CASE Submit(p)
        <5>1. pc[p] = "rw" /\ pc' = [pc EXCEPT ![p] = "iosleep"]
          BY <4>2 DEF Submit
        <5> QED BY <5>1, <1>1 DEF InRw
      <4>3. CASE NoDescriptors(p)
        BY <4>3, <1>1 DEF NoDescriptors, WakeDescSleepers, Woken, InRw
      <4>4. CASE IoAgain(p)
        BY <4>4, <1>1 DEF IoAgain, InRw
      <4>5. CASE Kill(p)
        BY <4>5, <1>1 DEF Kill, InRw
      <4> QED BY <4>1, <4>2, <4>3, <4>4, <4>5
    <3> QED BY <3>1, <3>2, <3>3, <1>4 DEF Intr
  <2> QED BY <2>1, <2>2, <1>2, <1>3, QuietStore
<1>5. ASSUME NEW h \in Desc, DeviceDone(h), UNCHANGED cacheVars
      PROVE  UNCHANGED <<latest, HeldBlock, HeldData>>
  <2>1. UNCHANGED <<pc, mybuf, wr, blockno, latest>> /\ h \in inflight
    BY <1>5 DEF DeviceDone, cacheVars
  <2>2. PICK p \in Users : idx0[p] = h
    BY <2>1, PlacesAreHeads DEF Heads, BlockInv
  <2>3. /\ p \in Proc /\ pc[p] \in InIo /\ pc[p] \in InRw /\ pc[p] \in Locked
        /\ op[h].b = mybuf[p] /\ op[h].write = wr[p] /\ mybuf[p] \in Buf
    BY <2>2, HeadsAre, RequestIs DEF BlockInv, Users, InIo, InRw, Locked
  <2>4. CASE wr[p]
    <3>1. UNCHANGED data
      BY <2>3, <2>4, <1>5 DEF DeviceDone
    <3> QED BY <2>1, <3>1, <1>2, <1>3, QuietStore
  <2>5. CASE ~wr[p]
    <3>1. \A c \in Buf : c # mybuf[p] => data'[c] = data[c]
      BY <2>3, <2>5, <1>1, <1>5 DEF DeviceDone
    <3>2. \A q \in Proc : Holds(q) => q # p
      BY <2>3, <2>5, <1>2 DEF InIo
    <3>3. \A q \in Proc : Holds(q) => mybuf[q] \in Buf /\ mybuf[q] # mybuf[p]
      BY <2>3, <3>2, HoldsIs, Parts DEF BlockInv
    <3> QED BY <2>1, <3>1, <3>3, <1>2, <1>3, QuietStore
  <2> QED BY <2>4, <2>5
<1>6. ASSUME NEW p \in Proc, DiskReturn(p)
      PROVE  B!StoreNext \/ UNCHANGED <<latest, HeldBlock, HeldData>>
  <2>1. /\ pc[p] = "io" /\ pc'[p] = "held"
        /\ \A q \in Proc : q # p => pc'[q] = IF pc[q] = "dsleep" THEN "rw" ELSE pc[q]
        /\ UNCHANGED <<mybuf, wr, data, blockno, latest>>
    BY <1>1, <1>6 DEF DiskReturn, IoReturn, FreeChainWakes, WakeDescSleepers, Woken, bufVars
  <2>2. \A q \in Proc : q # p => (Holds(q)' <=> Holds(q))
    BY <2>1, <1>2, <1>3 DEF InRw
  <2>3. Holds(p)' /\ (Holds(p) <=> wr[p]) /\ pc[p] \in Locked
    BY <2>1, <1>2, <1>3 DEF InRw, Locked
  <2>4. CASE wr[p]
    BY <2>1, <2>2, <2>3, <2>4, QuietStore
  <2>5. CASE ~wr[p]
    <3>1. \A q \in Proc : q # p /\ Holds(q) => mybuf[q] # mybuf[p]
      BY <2>3, HoldsIs, Parts DEF BlockInv
    <3>2. mybuf[p] \in Buf /\ blockno[mybuf[p]] \in Block
      BY <2>1, <1>1
    <3>3. data[mybuf[p]] = latest[blockno[mybuf[p]]]
      <4>1. Done(p)
        BY <2>1, <1>6 DEF BlockInv, StatusInv, Done, InIo, DiskReturn, IoReturn
      <4> QED BY <4>1, <2>5 DEF BlockInv, ContentInv
    <3> QED BY <2>1, <2>2, <2>3, <2>5, <3>1, <3>2, <3>3, OpenStore
  <2> QED BY <2>4, <2>5
<1>7. ASSUME NEW p \in Proc, LockGet(p)
      PROVE  B!StoreNext \/ UNCHANGED <<latest, HeldBlock, HeldData>>
  <2>1. /\ pc[p] = "lock" /\ owner[mybuf[p]] = None
        /\ pc'[p] = IF valid[mybuf[p]] THEN "held" ELSE "rw"
        /\ \A q \in Proc : q # p => pc'[q] = pc[q]
        /\ UNCHANGED <<mybuf, wr, data, blockno, latest>>
    BY <1>1, <1>7 DEF LockGet, LockTaken, Goto, bufVars
  <2>2. \A q \in Proc : q # p => (Holds(q)' <=> Holds(q))
    BY <2>1, <1>2, <1>3
  <2>3. ~wr[p] /\ ~Holds(p)
    BY <2>1, <1>1, <1>2 DEF OwnerInv, InRw
  <2>4. CASE ~valid[mybuf[p]]
    <3>1. ~Holds(p)'
      BY <2>1, <2>3, <2>4, <1>3
    <3> QED BY <2>1, <2>2, <2>3, <3>1, QuietStore
  <2>5. CASE valid[mybuf[p]]
    <3>1. Holds(p)'
      BY <2>1, <2>5, <1>3
    <3>2. mybuf[p] \in Buf /\ blockno[mybuf[p]] \in Block
      BY <2>1, <1>1
    <3>3. data[mybuf[p]] = latest[blockno[mybuf[p]]]
      BY <2>5, <3>2 DEF BlockInv, ContentInv
    <3>4. \A q \in Proc : q # p /\ Holds(q) => mybuf[q] # mybuf[p]
      BY <2>1, HoldsIs, DiskAssumption
    <3> QED BY <2>1, <2>2, <2>3, <3>1, <3>2, <3>3, <3>4, OpenStore
  <2> QED BY <2>4, <2>5
<1>8. ASSUME NEW p \in Proc, NEW v \in Val, ChangeAndLog(p, v) \/ ChangeAndWrite(p, v)
      PROVE  B!StoreNext
  <2> DEFINE b == mybuf[p]
             k == blockno[b]
  <2>1. /\ pc[p] = "held" /\ (pc'[p] = "held" \/ (pc'[p] = "rw" /\ wr'[p]))
        /\ \A q \in Proc : q # p => pc'[q] = pc[q] /\ wr'[q] = wr[q]
        /\ UNCHANGED <<mybuf, blockno>>
        /\ data' = [data EXCEPT ![b] = v] /\ latest' = [latest EXCEPT ![k] = v]
    BY <1>1, <1>8 DEF ChangeAndLog, ChangeAndWrite, Change, Goto
  <2>2. Holds(p) /\ Holds(p)' /\ \A q \in Proc : q # p => (Holds(q)' <=> Holds(q))
    BY <2>1, <1>2, <1>3 DEF InRw
  <2>3. HeldBlock[p] = k /\ k \in Block /\ b \in Buf
    BY <2>1, <2>2, <1>1 DEF HeldBlock
  <2>4. HeldBlock' = HeldBlock
    BY <2>1, <2>2 DEF HeldBlock
  <2>5. \A q \in Proc : q # p /\ Holds(q) => data'[mybuf[q]] = data[mybuf[q]]
    BY <2>1, <2>2, <1>1, HoldsIs
  <2>6. data'[b] = v
    BY <2>1, <2>3, <1>1
  <2>7. HeldData' = [HeldData EXCEPT ![p] = v]
    BY <2>1, <2>2, <2>5, <2>6 DEF HeldData
  <2>8. B!Change(p, v)
    BY <2>1, <2>3, <2>4, <2>7, <1>1 DEF B!Change
  <2> QED BY <2>8 DEF B!StoreNext
<1>9. ASSUME NEW p \in Proc, Releasesleep(p)
      PROVE  B!StoreNext
  <2>1. /\ pc[p] = "held" /\ pc'[p] = "rel"
        /\ \A q \in Proc : q # p => pc'[q] = IF pc[q] = "lksleep" /\ mybuf[q] = mybuf[p]
                                             THEN "lock" ELSE pc[q]
        /\ UNCHANGED <<mybuf, wr, data, blockno, latest>>
    BY <1>1, <1>9 DEF Releasesleep, LockWaiters, Woken, bufVars
  <2>2. Holds(p) /\ ~Holds(p)' /\ \A q \in Proc : q # p => (Holds(q)' <=> Holds(q))
    BY <2>1, <1>2, <1>3 DEF InRw
  <2>3. HeldBlock[p] # None
    BY <2>1, <2>2, <1>1 DEF HeldBlock
  <2>4. HeldBlock' = [HeldBlock EXCEPT ![p] = None] /\ HeldData' = [HeldData EXCEPT ![p] = None]
    BY <2>1, <2>2 DEF HeldBlock, HeldData
  <2>5. B!Close(p)
    BY <2>1, <2>3, <2>4 DEF B!Close
  <2> QED BY <2>5 DEF B!StoreNext
<1>10. ASSUME NEW p \in Proc,
              LockSleep(p) \/ KillLockSleeper(p) \/ Install(p) \/ Bunpin(p)
       PROVE  UNCHANGED <<latest, HeldBlock, HeldData>>
  <2>1. /\ UNCHANGED <<mybuf, data, blockno, latest>>
        /\ \A q \in Proc : q # p => pc'[q] = pc[q] /\ wr'[q] = wr[q]
    BY <1>1, <1>10 DEF LockSleep, KillLockSleeper, Install, Bunpin, Goto, bufVars, cacheVars
  <2>2. Holds(p)' <=> Holds(p)
    BY <1>1, <1>2, <1>3, <1>10 DEF LockSleep, KillLockSleeper, Install, Bunpin, Goto, InRw
  <2> QED BY <2>1, <2>2, <1>2, <1>3, QuietStore
<1>11. ASSUME NEW p \in Proc, Brelse(p) \/ \E k \in Block : BgetHit(p, k)
       PROVE  UNCHANGED <<latest, HeldBlock, HeldData>>
  <2>1. /\ UNCHANGED <<data, blockno, latest>>
        /\ \A q \in Proc : q # p => pc'[q] = pc[q] /\ wr'[q] = wr[q] /\ mybuf'[q] = mybuf[q]
        /\ pc[p] \in {"rel", "idle"} /\ pc'[p] \in {"lock", "idle"}
    BY <1>1, <1>11 DEF Brelse, BgetHit, Goto, bufVars
  <2>2. ~Holds(p)' /\ ~Holds(p)
    BY <2>1, <1>2, <1>3 DEF InRw
  <2> QED BY <2>1, <2>2, <1>2, <1>3, QuietStore
<1>12. ASSUME NEW p \in Proc, NEW k \in Block, BgetMiss(p, k)
       PROVE  UNCHANGED <<latest, HeldBlock, HeldData>>
  <2>1. PICK b \in Buf : b = Victim /\ refcnt[b] = 0
    BY <1>1, <1>12, VictimIs DEF BgetMiss, BufTypes
  <2>2. \A q \in Proc : mybuf[q] # b
    BY <2>1, <1>1, UnusedIs
  <2>3. /\ UNCHANGED <<data, latest>>
        /\ \A q \in Proc : q # p => pc'[q] = pc[q] /\ wr'[q] = wr[q] /\ mybuf'[q] = mybuf[q]
        /\ pc[p] = "idle" /\ pc'[p] = "lock"
        /\ blockno' = [blockno EXCEPT ![b] = k]
    BY <2>1, <1>1, <1>12 DEF BgetMiss, Goto
  <2>4. ~Holds(p)' /\ ~Holds(p)
    BY <2>3, <1>2, <1>3 DEF InRw
  <2>5. \A q \in Proc : Holds(q) => mybuf[q] \in Buf /\ mybuf[q] # b
    BY <2>2, HoldsIs
  <2>6. \A c \in Buf : c # b => blockno'[c] = blockno[c]
    BY <2>3, <1>1
  <2> QED BY <2>3, <2>4, <2>5, <2>6, <1>2, <1>3, QuietStore
<1> QED BY <1>4, <1>5, <1>6, <1>7, <1>8, <1>9, <1>10, <1>11, <1>12
        DEF Next, DriverStep, Device

(***************************************************************************)
(* The cache implements the block store: a block is in the hands of one    *)
(* process at a time, which finds in it what was put there last, however   *)
(* buffers are recycled, pinned, written back and read again.              *)
(***************************************************************************)
THEOREM CacheIsBlockStore == Spec => ImplementsBlockStore
<1>1. Init => B!StoreInit
  <2> SUFFICES ASSUME Init PROVE B!StoreInit
    OBVIOUS
  <2>1. latest \in [Block -> Val]
    BY CacheStarts DEF BufferInv, BufTypes
  <2>2. \A q \in Proc : ~Holds(q)
    BY DEF Init, DiskInit, Holds
  <2>3. HeldBlock = [p \in Proc |-> None] /\ HeldData = [p \in Proc |-> None]
    BY <2>2 DEF HeldBlock, HeldData
  <2> QED BY <2>1, <2>3 DEF B!StoreInit
<1>2. BlockInv /\ BlockInv' /\ [Next]_vars => [B!StoreNext]_<<latest, HeldBlock, HeldData>>
  <2> SUFFICES ASSUME BlockInv, BlockInv', [Next]_vars
               PROVE  B!StoreNext \/ UNCHANGED <<latest, HeldBlock, HeldData>>
    OBVIOUS
  <2>1. CASE Next
    BY <2>1, StoreStep
  <2>2. CASE UNCHANGED vars
    <3>1. UNCHANGED <<pc, mybuf, wr, data, blockno, latest>>
      BY <2>2 DEF vars, diskVars, bufVars, cacheVars
    <3>2. \A q \in Proc : Holds(q)' <=> Holds(q)
      BY <3>1 DEF Holds
    <3> QED BY <3>1, <3>2, QuietStore
  <2> QED BY <2>1, <2>2
<1> QED BY <1>1, <1>2, BlockAlways, PTL DEF Spec, ImplementsBlockStore, B!StoreSpec
=============================================================================
