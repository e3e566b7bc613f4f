---------------------------- MODULE ConsoleProofs ----------------------------
(***************************************************************************)
(* Proofs about Console, for any processes, any sizes of the two rings and *)
(* any width of their indices.                                             *)
(***************************************************************************)
EXTENDS Console, SequenceTheorems, TLAPS

Index == 0 .. UintMax1 - 1
Char  == {"x", "nl", "eof"}
PCs   == {"idle", "put", "tsleep", "start", "rlock", "rtop", "rtest", "rsleep"}

\* The types, those that TypeOK leaves out included.
Types ==
    /\ TypeOK
    /\ rx \in Seq(Key) /\ key \in Key \cup {"none"}
    /\ hpc \in {"echo", "esend"} => key \in Key
    /\ hpc = "esend" => echo > 0
    /\ n \in [Proc -> Nat] /\ target \in [Proc -> Nat]
    /\ killed \in [Proc -> BOOLEAN]

\* Who holds uart_tx_lock and who holds cons.lock, and where it is.
Locks ==
    /\ txlock = None <=> start = "no"
    /\ txlock = "intr" <=> hpc = "tx"
    /\ txlock \in Proc \cup {"intr", None}
    /\ conslock = "intr" <=> hpc \in {"echo", "esend"}
    /\ \A p \in Proc : /\ txlock = p <=> pc[p] = "start"
                       /\ conslock = p <=> pc[p] \in {"rtop", "rtest"}

\* Two may have found the transmitter idle, and not more: the holder of
\* uart_tx_lock and the one handler that echoes.
Sending(b) == IF b THEN 1 ELSE 0
FifoInv == fifo + Sending(start = "send") + Sending(hpc = "esend") <= 2

\* Who sleeps has a reason to, whoever holds the lock; and who is about to.
WriterInv == \A p \in Proc : pc[p] = "tsleep" => TxFull
ReaderInv == \A p \in Proc : pc[p] \in {"rtest", "rsleep"} => r = w

\* consoleread() never gives more than it was asked for.
CountInv == \A p \in Proc : n[p] <= target[p]

\* r, w and e follow each other around the ring, which is never overfull;
\* and nothing after w ends a line.
RingInv ==
    /\ Minus(w, r) + Minus(e, w) = Minus(e, r)
    /\ Minus(e, r) <= INPUT_BUF_SIZE
    /\ FullBufferIsReadable
    /\ \A k \in 1 .. Minus(e, w) : At((w + k - 1) % UintMax1) = "x"

\* The inductive invariant.
IInv == Types /\ Locks /\ FifoInv /\ WriterInv /\ ReaderInv /\ CountInv /\ RingInv
-----------------------------------------------------------------------------
(***************************************************************************)
(* Arithmetic with a modulus.                                              *)
(***************************************************************************)
\* A number below the modulus is its own remainder.
LEMMA ModSmall ==
    ASSUME NEW m \in Nat \ {0}, NEW a \in Nat, a < m
    PROVE  a % m = a
  OBVIOUS

\* A number between the modulus and its double.
LEMMA ModOnce ==
    ASSUME NEW m \in Nat \ {0}, NEW a \in Nat, m <= a, a < 2 * m
    PROVE  a % m = a - m
<1>1. a = m * (a \div m) + (a % m) /\ a \div m \in Int /\ a % m \in Nat /\ a % m < m
  OBVIOUS
<1>2. PICK d \in Int, t \in Nat : a = m * d + t /\ t < m /\ t = a % m
  BY <1>1
<1>3. d = 1
  <2>1. CASE d <= 0
    <3>1. m * d <= 0
      BY <2>1
    <3> QED BY <1>2, <3>1
  <2>2. CASE d >= 2
    <3>1. m * d >= 2 * m
      BY <2>2
    <3> QED BY <1>2, <3>1
  <2> QED BY <2>1, <2>2
<1> QED BY <1>2, <1>3

\* A multiple that is smaller than the modulus is 0.
LEMMA SmallMultiple ==
    ASSUME NEW m \in Nat \ {0}, NEW q \in Int, m * q < m, -m < m * q
    PROVE  q = 0
<1>1. CASE q >= 1
  <2>1. m * q >= m
    BY <1>1
  <2> QED BY <2>1
<1>2. CASE q <= -1
  <2>1. m * q <= -m
    BY <1>2
  <2> QED BY <2>1
<1> QED BY <1>1, <1>2

\* A number is a multiple of the modulus and its remainder.
LEMMA ModParts ==
    ASSUME NEW m \in Nat \ {0}, NEW a \in Nat
    PROVE  \E q \in Int : a = m * q + (a % m)
<1>1. a = m * (a \div m) + (a % m) /\ a \div m \in Int
  OBVIOUS
<1> QED BY <1>1

\* Numbers that differ by a multiple have one remainder.
LEMMA ModSame ==
    ASSUME NEW m \in Nat \ {0}, NEW a \in Nat, NEW b \in Nat, NEW q \in Int,
           a - b = m * q
    PROVE  a % m = b % m
<1>1. PICK i \in Int : a = m * i + (a % m)
  BY ModParts
<1>2. PICK j \in Int : b = m * j + (b % m)
  BY ModParts
<1>3. a % m \in Nat /\ a % m < m /\ b % m \in Nat /\ b % m < m
  OBVIOUS
<1>4. PICK x \in Nat, y \in Nat : x = a % m /\ y = b % m
  BY <1>3
<1>5. a - b = m * i - m * j + (x - y)
  <2>1. PICK u \in Int, v \in Int : u = m * i /\ v = m * j
    OBVIOUS
  <2>2. a = u + x /\ b = v + y
    BY <1>1, <1>2, <1>4, <2>1
  <2>3. a - b = u - v + (x - y)
    BY <2>2
  <2> QED BY <2>1, <2>3
<1>6. m * (q - i + j) = m * q - m * i + m * j /\ q - i + j \in Int
  OBVIOUS
<1>7. x - y = m * (q - i + j)
  BY <1>5, <1>6
<1>8. -m < x - y /\ x - y < m
  BY <1>3, <1>4
<1>9. PICK d \in Int : d = q - i + j
  OBVIOUS
<1>10. x - y = m * d /\ m * d < m /\ -m < m * d
  BY <1>7, <1>8, <1>9
<1>11. d = 0
  BY <1>10, SmallMultiple
<1>12. m * d = 0
  BY <1>11
<1> QED BY <1>4, <1>10, <1>12

\* Numbers that are close to each other have different remainders.
LEMMA ModDiffers ==
    ASSUME NEW m \in Nat \ {0}, NEW a \in Nat, NEW b \in Nat, a < b, b < a + m
    PROVE  a % m # b % m
<1> SUFFICES ASSUME a % m = b % m PROVE FALSE
  OBVIOUS
<1>1. PICK i \in Int : a = m * i + (a % m)
  BY ModParts
<1>2. PICK j \in Int : b = m * j + (b % m)
  BY ModParts
<1>3. PICK x \in Nat : x = a % m /\ x = b % m
  OBVIOUS
<1>4. b - a = m * j - m * i
  BY <1>1, <1>2, <1>3
<1>5. m * (j - i) = m * j - m * i
  OBVIOUS
<1>6. PICK d \in Int : d = j - i
  OBVIOUS
<1>7. b - a = m * d /\ m * d < m /\ -m < m * d
  BY <1>4, <1>5, <1>6
<1>8. d = 0
  BY <1>7, SmallMultiple
<1>9. m * d = 0
  BY <1>8
<1> QED BY <1>7, <1>9
-----------------------------------------------------------------------------
(***************************************************************************)
(* The indices of the input ring, which wrap around as a uint does.        *)
(***************************************************************************)
\* The ring and the uint have a size.
LEMMA Sizes ==
    /\ INPUT_BUF_SIZE \in Nat \ {0} /\ UintMax1 \in Nat \ {0}
    /\ INPUT_BUF_SIZE < UintMax1
  BY ConsoleAssumption

\* The next index, with the wrap at the end.
LEMMA Plus1Is ==
    \A a \in Index : /\ Plus1(a) = IF a + 1 = UintMax1 THEN 0 ELSE a + 1
                     /\ Plus1(a) \in Index
<1> SUFFICES ASSUME NEW a \in Index
             PROVE  /\ Plus1(a) = IF a + 1 = UintMax1 THEN 0 ELSE a + 1
                    /\ Plus1(a) \in Index
  OBVIOUS
<1>1. a \in Nat /\ a < UintMax1
  BY Sizes DEF Index
<1>2. CASE a + 1 = UintMax1
  <2>1. UintMax1 % UintMax1 = 0
    BY Sizes
  <2> QED BY Sizes, <1>1, <1>2, <2>1 DEF Plus1, Index
<1>3. CASE a + 1 # UintMax1
  <2>1. a + 1 < UintMax1
    BY Sizes, <1>1, <1>3
  <2>2. (a + 1) % UintMax1 = a + 1
    BY Sizes, <1>1, <2>1, ModSmall
  <2> QED BY Sizes, <1>1, <2>1, <2>2 DEF Plus1, Index
<1> QED BY <1>2, <1>3

\* The distance of two indices.
LEMMA MinusIs ==
    \A a, b \in Index : /\ Minus(a, b) = IF b <= a THEN a - b ELSE a + UintMax1 - b
                        /\ Minus(a, b) \in Nat /\ Minus(a, b) < UintMax1
<1> SUFFICES ASSUME NEW a \in Index, NEW b \in Index
             PROVE  /\ Minus(a, b) = IF b <= a THEN a - b ELSE a + UintMax1 - b
                    /\ Minus(a, b) \in Nat /\ Minus(a, b) < UintMax1
  OBVIOUS
<1>1. a \in Nat /\ a < UintMax1 /\ b \in Nat /\ b < UintMax1
  BY Sizes DEF Index
<1>2. PICK d \in Nat : d = a + UintMax1 - b
  BY Sizes, <1>1
<1>3. CASE b <= a
  <2>1. UintMax1 <= d /\ d < 2 * UintMax1
    BY Sizes, <1>1, <1>2, <1>3
  <2>2. d % UintMax1 = d - UintMax1
    BY Sizes, <2>1, ModOnce
  <2> QED BY Sizes, <1>1, <1>2, <1>3, <2>2 DEF Minus
<1>4. CASE a < b
  <2>1. d % UintMax1 = d
    BY Sizes, <1>1, <1>2, <1>4, ModSmall
  <2> QED BY Sizes, <1>1, <1>2, <1>4, <2>1 DEF Minus
<1> QED BY <1>1, <1>3, <1>4

\* The index before another one, as "e--" computes it.
LEMMA Less1Is ==
    \A a \in Index :
        /\ (a + UintMax1 - 1) % UintMax1 \in Index
        /\ (a + UintMax1 - 1) % UintMax1 = IF a = 0 THEN UintMax1 - 1 ELSE a - 1
<1> SUFFICES ASSUME NEW a \in Index
             PROVE  /\ (a + UintMax1 - 1) % UintMax1 \in Index
                    /\ (a + UintMax1 - 1) % UintMax1 = IF a = 0 THEN UintMax1 - 1 ELSE a - 1
  OBVIOUS
<1>1. 1 \in Index /\ a \in Nat /\ a < UintMax1
  BY Sizes DEF Index
<1>2. Minus(a, 1) = (a + UintMax1 - 1) % UintMax1
  BY DEF Minus
<1>3. Minus(a, 1) = IF 1 <= a THEN a - 1 ELSE a + UintMax1 - 1
  BY <1>1, MinusIs
<1> QED BY Sizes, <1>1, <1>2, <1>3 DEF Index

\* An index that lies a distance further, and its slot: the size of the ring
\* divides that of the uint.
LEMMA SlotIs ==
    ASSUME NEW a \in Nat
    PROVE  /\ a % UintMax1 \in Index
           /\ (a % UintMax1) % INPUT_BUF_SIZE = a % INPUT_BUF_SIZE
           /\ a % INPUT_BUF_SIZE \in 0 .. INPUT_BUF_SIZE - 1
           /\ \A k \in Nat : ((a % UintMax1) + k) % INPUT_BUF_SIZE = (a + k) % INPUT_BUF_SIZE
<1>1. a % UintMax1 \in Nat /\ a % UintMax1 \in Index
  BY Sizes DEF Index
<1>2. PICK q \in Int : a = UintMax1 * q + (a % UintMax1)
  BY Sizes, ModParts
<1>3. PICK c \in Int : UintMax1 = INPUT_BUF_SIZE * c
  <2>1. \E c \in Int : UintMax1 = INPUT_BUF_SIZE * c + (UintMax1 % INPUT_BUF_SIZE)
    BY Sizes, ModParts
  <2>2. UintMax1 % INPUT_BUF_SIZE = 0
    BY ConsoleAssumption
  <2> QED BY Sizes, <2>1, <2>2
<1>4. UintMax1 * q = INPUT_BUF_SIZE * (c * q) /\ c * q \in Int
  BY Sizes, <1>3
<1>5. PICK x \in Nat : x = a % UintMax1
  BY <1>1
<1>6. PICK d \in Int : d = c * q /\ a - x = INPUT_BUF_SIZE * d
  <2>1. PICK d \in Int : d = c * q
    BY <1>4
  <2>2. UintMax1 * q = INPUT_BUF_SIZE * d
    BY <1>4, <2>1
  <2>3. PICK t \in Int : t = UintMax1 * q
    BY Sizes
  <2>4. a = t + x /\ t = INPUT_BUF_SIZE * d
    BY <1>2, <1>5, <2>2, <2>3
  <2> QED BY <2>1, <2>4
<1>7. \A k \in Nat : (x + k) % INPUT_BUF_SIZE = (a + k) % INPUT_BUF_SIZE
  <2> SUFFICES ASSUME NEW k \in Nat
               PROVE  (a + k) % INPUT_BUF_SIZE = (x + k) % INPUT_BUF_SIZE
    OBVIOUS
  <2>1. (a + k) - (x + k) = INPUT_BUF_SIZE * d /\ a + k \in Nat /\ x + k \in Nat
    BY <1>6
  <2> QED BY Sizes, <2>1, ModSame
<1>8. x % INPUT_BUF_SIZE = a % INPUT_BUF_SIZE
  BY Sizes, <1>6, ModSame
<1>9. a % INPUT_BUF_SIZE \in 0 .. INPUT_BUF_SIZE - 1
  BY Sizes
<1> QED BY <1>1, <1>5, <1>7, <1>8, <1>9

\* Going the distance leads from one index to the other.
LEMMA MinusGoes ==
    ASSUME NEW a \in Index, NEW b \in Index
    PROVE  b = (a + Minus(b, a)) % UintMax1
<1>1. a \in Nat /\ a < UintMax1 /\ b \in Nat /\ b < UintMax1
  BY Sizes DEF Index
<1>2. Minus(b, a) = IF a <= b THEN b - a ELSE b + UintMax1 - a
  BY MinusIs
<1>3. CASE a <= b
  <2>1. a + Minus(b, a) = b
    BY <1>1, <1>2, <1>3
  <2> QED BY Sizes, <1>1, <2>1, ModSmall
<1>4. CASE b < a
  <2>1. PICK t \in Nat : t = b + UintMax1 /\ a + Minus(b, a) = t
    BY Sizes, <1>1, <1>2, <1>4
  <2>2. t % UintMax1 = t - UintMax1
    BY Sizes, <1>1, <2>1, ModOnce
  <2> QED BY Sizes, <1>1, <2>1, <2>2
<1> QED BY <1>1, <1>3, <1>4
-----------------------------------------------------------------------------
(***************************************************************************)
(* What is in the ring f from position a on, m characters long.            *)
(***************************************************************************)
Cell(f, x) == f[x % INPUT_BUF_SIZE]

Window(f, a, m) == [k \in 1 .. m |-> Cell(f, a + k - 1)]

Slots == 0 .. INPUT_BUF_SIZE - 1
Rings == [Slots -> {"none", "x", "nl", "eof"}]

\* A window is a sequence.
LEMMA WindowIsSeq ==
    ASSUME NEW f \in Rings, NEW a \in Nat, NEW m \in Nat
    PROVE  /\ Window(f, a, m) \in Seq({"none", "x", "nl", "eof"})
           /\ Len(Window(f, a, m)) = m
           /\ \A k \in 1 .. m : Window(f, a, m)[k] = Cell(f, a + k - 1)
<1>1. \A k \in 1 .. m : Cell(f, a + k - 1) \in {"none", "x", "nl", "eof"}
  <2> SUFFICES ASSUME NEW k \in 1 .. m
               PROVE  Cell(f, a + k - 1) \in {"none", "x", "nl", "eof"}
    OBVIOUS
  <2>1. PICK t \in Nat : t = a + k - 1
    OBVIOUS
  <2>2. t % INPUT_BUF_SIZE \in Slots
    BY SlotIs DEF Slots
  <2> QED BY <2>1, <2>2 DEF Rings, Cell
<1>2. Window(f, a, m) \in Seq({"none", "x", "nl", "eof"})
  BY <1>1, IsASeq DEF Window
<1> QED BY <1>2 DEF Window

\* An index stands for its slot, whatever multiple was taken off.
LEMMA WindowWraps ==
    ASSUME NEW f, NEW a \in Nat, NEW m \in Nat
    PROVE  Window(f, a % UintMax1, m) = Window(f, a, m)
<1>1. a % UintMax1 \in Nat
  BY Sizes
<1>2. ASSUME NEW k \in 1 .. m
      PROVE  Cell(f, (a % UintMax1) + k - 1) = Cell(f, a + k - 1)
  <2>1. PICK j \in Nat : j = k - 1
    OBVIOUS
  <2>2. ((a % UintMax1) + j) % INPUT_BUF_SIZE = (a + j) % INPUT_BUF_SIZE
    BY SlotIs
  <2>3. (a % UintMax1) + k - 1 = (a % UintMax1) + j /\ a + k - 1 = a + j
    BY <1>1, <2>1
  <2> QED BY <2>2, <2>3 DEF Cell
<1> QED BY <1>2 DEF Window

\* The empty window.
LEMMA WindowEmpty ==
    ASSUME NEW f \in Rings, NEW a \in Nat
    PROVE  Window(f, a, 0) = << >>
<1>1. Window(f, a, 0) \in Seq({"none", "x", "nl", "eof"}) /\ Len(Window(f, a, 0)) = 0
  BY WindowIsSeq
<1> QED BY <1>1, EmptySeq

\* A window is the part in front of a position and the part behind it.
LEMMA WindowSplits ==
    ASSUME NEW f \in Rings, NEW a \in Nat, NEW m \in Nat, NEW l \in Nat
    PROVE  Window(f, a, m + l) = Window(f, a, m) \o Window(f, a + m, l)
<1> DEFINE C == {"none", "x", "nl", "eof"}
           s == Window(f, a, m)
           t == Window(f, a + m, l)
           u == Window(f, a, m + l)
<1>1. s \in Seq(C) /\ Len(s) = m /\ \A k \in 1 .. m : s[k] = Cell(f, a + k - 1)
  BY WindowIsSeq
<1>2. t \in Seq(C) /\ Len(t) = l
      /\ \A k \in 1 .. l : t[k] = Cell(f, a + m + k - 1)
  BY WindowIsSeq, a + m \in Nat
<1>3. u \in Seq(C) /\ Len(u) = m + l
      /\ \A k \in 1 .. m + l : u[k] = Cell(f, a + k - 1)
  BY WindowIsSeq, m + l \in Nat
<1> HIDE DEF s, t, u, C
<1>4. /\ s \o t \in Seq(C) /\ Len(s \o t) = m + l
      /\ \A k \in 1 .. m + l : (s \o t)[k] = IF k <= m THEN s[k] ELSE t[k - m]
  BY <1>1, <1>2, ConcatProperties
<1>5. ASSUME NEW k \in 1 .. m + l
      PROVE  u[k] = (s \o t)[k]
  <2>1. CASE k <= m
    <3>1. k \in 1 .. m
      BY <2>1
    <3>2. s[k] = Cell(f, a + k - 1) /\ u[k] = Cell(f, a + k - 1)
      BY <1>1, <1>3, <3>1
    <3> QED BY <1>4, <2>1, <3>2
  <2>2. CASE k > m
    <3>1. k - m \in 1 .. l /\ a + m + (k - m) - 1 = a + k - 1
      BY <2>2
    <3>2. t[k - m] = Cell(f, a + k - 1)
      BY <1>2, <3>1
    <3>3. (s \o t)[k] = t[k - m]
      BY <1>4, <2>2
    <3> QED BY <1>3, <3>2, <3>3
  <2>3. k <= m \/ k > m
    OBVIOUS
  <2> QED BY <2>1, <2>2, <2>3
<1>6. u = s \o t
  BY <1>3, <1>4, <1>5, SeqEqual
<1> QED BY <1>6 DEF s, t, u

\* The slot s is the one behind a window that does not fill the ring.
Behind(s, a, m) == m < INPUT_BUF_SIZE /\ s = (a + m) % INPUT_BUF_SIZE
Put(f, s, c) == [f EXCEPT ![s] = c]

\* A character is put behind a window that does not fill the ring.
LEMMA WindowGrows ==
    ASSUME NEW f \in Rings, NEW a \in Nat, NEW m \in Nat,
           NEW c \in Char, NEW s \in Slots, Behind(s, a, m)
    PROVE  /\ Put(f, s, c) \in Rings
           /\ Window(Put(f, s, c), a, m + 1) = Append(Window(f, a, m), c)
           /\ \A l \in 0 .. m : Window(Put(f, s, c), a, l) = Window(f, a, l)
<1> DEFINE C == {"none", "x", "nl", "eof"}
<1> DEFINE g == Put(f, s, c)
<1>0. m < INPUT_BUF_SIZE /\ s = (a + m) % INPUT_BUF_SIZE /\ g = [f EXCEPT ![s] = c]
  BY DEF Behind, Put
<1> HIDE DEF g
<1>1. g \in Rings
  BY <1>0 DEF Rings, Char
<1>2. g[s] = c /\ \A i \in Slots : i # s => g[i] = f[i]
  BY <1>0 DEF Rings
<1>3. ASSUME NEW k \in 1 .. m
      PROVE  Cell(g, a + k - 1) = Cell(f, a + k - 1)
  <2>1. PICK x \in Nat : x = a + k - 1
    OBVIOUS
  <2>2. x < a + m /\ a + m < x + INPUT_BUF_SIZE
    BY Sizes, <1>0, <2>1
  <2>3. x % INPUT_BUF_SIZE # (a + m) % INPUT_BUF_SIZE
    BY Sizes, <2>2, ModDiffers, a + m \in Nat
  <2>4. x % INPUT_BUF_SIZE \in Slots
    BY SlotIs DEF Slots
  <2> QED BY <1>0, <1>2, <2>1, <2>3, <2>4 DEF Cell
<1>4. Window(f, a, m) \in Seq(C) /\ Len(Window(f, a, m)) = m
      /\ \A k \in 1 .. m : Window(f, a, m)[k] = Cell(f, a + k - 1)
  BY WindowIsSeq
<1>5. Window(g, a, m + 1) \in Seq(C) /\ Len(Window(g, a, m + 1)) = m + 1
      /\ \A k \in 1 .. m + 1 : Window(g, a, m + 1)[k] = Cell(g, a + k - 1)
  BY <1>1, WindowIsSeq, m + 1 \in Nat
<1>6. c \in C
  BY DEF Char
<1> HIDE DEF C
<1>7. PICK t : t = Window(f, a, m)
  OBVIOUS
<1>8. PICK u : u = Window(g, a, m + 1)
  OBVIOUS
<1>9. /\ Append(t, c) \in Seq(C) /\ Len(Append(t, c)) = m + 1
      /\ \A k \in 1 .. m : Append(t, c)[k] = t[k]
      /\ Append(t, c)[m + 1] = c
  BY <1>4, <1>6, <1>7, AppendProperties
<1>10. ASSUME NEW k \in 1 .. m + 1
       PROVE  u[k] = Append(t, c)[k]
  <2>1. CASE k \in 1 .. m
    BY <1>3, <1>4, <1>5, <1>7, <1>8, <1>9, <2>1
  <2>2. CASE k = m + 1
    <3>1. a + (m + 1) - 1 = a + m
      OBVIOUS
    <3>2. Cell(g, a + m) = c
      BY <1>0, <1>2 DEF Cell
    <3> QED BY <1>5, <1>8, <1>9, <2>2, <3>1, <3>2
  <2>3. k \in 1 .. m \/ k = m + 1
    OBVIOUS
  <2> QED BY <2>1, <2>2, <2>3
<1>11. u = Append(t, c)
  BY <1>5, <1>8, <1>9, <1>10, SeqEqual
<1>12. ASSUME NEW l \in 0 .. m
       PROVE  Window(g, a, l) = Window(f, a, l)
  <2>1. \A k \in 1 .. l : Cell(g, a + k - 1) = Cell(f, a + k - 1)
    <3>1. l \in Nat /\ \A k \in 1 .. l : k \in 1 .. m
      OBVIOUS
    <3> QED BY <1>3, <3>1
  <2> QED BY <2>1 DEF Window
<1> QED BY <1>1, <1>7, <1>8, <1>11, <1>12 DEF g

\* The last character is taken off a window.
LEMMA WindowShrinks ==
    ASSUME NEW f \in Rings, NEW a \in Nat, NEW m \in Nat
    PROVE  Window(f, a, m) = SubSeq(Window(f, a, m + 1), 1, m)
<1> DEFINE C == {"none", "x", "nl", "eof"}
           s == Window(f, a, m)
           u == Window(f, a, m + 1)
<1>1. s \in Seq(C) /\ Len(s) = m /\ \A k \in 1 .. m : s[k] = Cell(f, a + k - 1)
  BY WindowIsSeq
<1>2. u \in Seq(C) /\ Len(u) = m + 1
      /\ \A k \in 1 .. m + 1 : u[k] = Cell(f, a + k - 1)
  BY WindowIsSeq, m + 1 \in Nat
<1> HIDE DEF s, u, C
<1>3. \A k \in 1 .. m : u[k] \in C
  BY <1>2, ElementOfSeq
<1>4. /\ SubSeq(u, 1, m) \in Seq(C) /\ Len(SubSeq(u, 1, m)) = IF 1 <= m THEN m - 1 + 1 ELSE 0
      /\ \A k \in 1 .. m - 1 + 1 : SubSeq(u, 1, m)[k] = u[1 + k - 1]
  BY <1>3, SubSeqProperties
<1>5. Len(SubSeq(u, 1, m)) = m /\ \A k \in 1 .. m : SubSeq(u, 1, m)[k] = s[k]
  <2>1. Len(SubSeq(u, 1, m)) = m
    BY <1>4
  <2>2. ASSUME NEW k \in 1 .. m
        PROVE  SubSeq(u, 1, m)[k] = s[k]
    <3>1. k \in 1 .. m - 1 + 1 /\ 1 + k - 1 = k /\ k \in 1 .. m + 1
      OBVIOUS
    <3>2. SubSeq(u, 1, m)[k] = u[k]
      BY <1>4, <3>1
    <3> QED BY <1>1, <1>2, <3>1, <3>2
  <2> QED BY <2>1, <2>2
<1>6. s = SubSeq(u, 1, m)
  BY <1>1, <1>4, <1>5, SeqEqual
<1> QED BY <1>6 DEF s, u

\* The first character is taken off a window, and its slot is emptied.
LEMMA WindowTail ==
    ASSUME NEW f \in Rings, NEW g \in Rings, NEW a \in Nat, NEW m \in Nat,
           m < INPUT_BUF_SIZE,
           \A i \in Slots : i # a % INPUT_BUF_SIZE => g[i] = f[i]
    PROVE  /\ Window(f, a, m + 1) # << >>
           /\ Window(g, a + 1, m) = Tail(Window(f, a, m + 1))
<1> DEFINE C == {"none", "x", "nl", "eof"}
           s == Window(g, a + 1, m)
           u == Window(f, a, m + 1)
<1>1. s \in Seq(C) /\ Len(s) = m
      /\ \A k \in 1 .. m : s[k] = Cell(g, a + 1 + k - 1)
  BY WindowIsSeq, a + 1 \in Nat
<1>2. u \in Seq(C) /\ Len(u) = m + 1
      /\ \A k \in 1 .. m + 1 : u[k] = Cell(f, a + k - 1)
  BY WindowIsSeq, m + 1 \in Nat
<1> HIDE DEF s, u, C
<1>3. u # << >>
  BY <1>2
<1>4. /\ Tail(u) \in Seq(C) /\ Len(Tail(u)) = m
      /\ \A k \in 1 .. m : Tail(u)[k] = u[k + 1]
  BY <1>2, <1>3, HeadTailProperties
<1>5. ASSUME NEW k \in 1 .. m
      PROVE  s[k] = Tail(u)[k]
  <2>1. PICK x \in Nat : x = a + k
    OBVIOUS
  <2>2. a < x /\ x < a + INPUT_BUF_SIZE
    BY Sizes, <2>1
  <2>3. x % INPUT_BUF_SIZE # a % INPUT_BUF_SIZE /\ x % INPUT_BUF_SIZE \in Slots
    BY Sizes, <2>2, ModDiffers, SlotIs DEF Slots
  <2>4. a + 1 + k - 1 = x /\ a + (k + 1) - 1 = x /\ k + 1 \in 1 .. m + 1
    BY <2>1
  <2>5. s[k] = Cell(g, x)
    BY <1>1, <2>4
  <2>6. u[k + 1] = Cell(f, x)
    BY <1>2, <2>4
  <2>7. Cell(g, x) = Cell(f, x)
    BY <2>3 DEF Cell
  <2> QED BY <1>4, <2>5, <2>6, <2>7
<1>6. s = Tail(u)
  BY <1>1, <1>4, <1>5, SeqEqual
<1> QED BY <1>3, <1>6 DEF s, u
-----------------------------------------------------------------------------
(***************************************************************************)
(* The ring f with its indices a, b and c, which stand for r, w and e.     *)
(***************************************************************************)
RingAt(f, a, b, c) ==
    /\ f \in Rings /\ a \in Index /\ b \in Index /\ c \in Index
    /\ Minus(b, a) + Minus(c, b) = Minus(c, a)
    /\ Minus(c, a) <= INPUT_BUF_SIZE
    /\ Minus(c, a) = INPUT_BUF_SIZE => b = c
    /\ \A k \in 1 .. Minus(c, b) : Cell(f, b + k - 1) = "x"

\* The characters from one index up to another.
Text(f, a, b) == Window(f, a, Minus(b, a))

\* The distances when one of the indices moves on.
LEMMA Distances ==
    ASSUME NEW a \in Index, NEW b \in Index
    PROVE  /\ Minus(a, a) = 0
           /\ Minus(b, a) = 0 <=> a = b
           /\ Minus(b, a) + 1 < UintMax1 => Minus(Plus1(b), a) = Minus(b, a) + 1
           /\ a # b => Minus(b, Plus1(a)) = Minus(b, a) - 1
<1>1. a \in Nat /\ a < UintMax1 /\ b \in Nat /\ b < UintMax1
  BY Sizes DEF Index
<1>2. /\ Plus1(a) \in Index /\ Plus1(b) \in Index
      /\ Plus1(a) = IF a + 1 = UintMax1 THEN 0 ELSE a + 1
      /\ Plus1(b) = IF b + 1 = UintMax1 THEN 0 ELSE b + 1
  BY Plus1Is
<1>3. /\ Minus(a, a) = IF a <= a THEN a - a ELSE a + UintMax1 - a
      /\ Minus(b, a) = IF a <= b THEN b - a ELSE b + UintMax1 - a
  BY MinusIs
<1>4. /\ Minus(Plus1(b), a) =
            IF a <= Plus1(b) THEN Plus1(b) - a ELSE Plus1(b) + UintMax1 - a
      /\ Minus(b, Plus1(a)) =
            IF Plus1(a) <= b THEN b - Plus1(a) ELSE b + UintMax1 - Plus1(a)
  BY <1>2, MinusIs
<1>5. Minus(a, a) = 0 /\ (Minus(b, a) = 0 <=> a = b)
  BY Sizes, <1>1, <1>3
<1>6. Minus(b, a) + 1 < UintMax1 => Minus(Plus1(b), a) = Minus(b, a) + 1
  BY Sizes, <1>1, <1>2, <1>3, <1>4
<1>7. a # b => Minus(b, Plus1(a)) = Minus(b, a) - 1
  BY Sizes, <1>1, <1>2, <1>3, <1>4
<1> QED BY <1>5, <1>6, <1>7

\* The slot of an index, reached from another one.
LEMMA SlotFrom ==
    ASSUME NEW a \in Index, NEW b \in Index
    PROVE  /\ b % INPUT_BUF_SIZE = (a + Minus(b, a)) % INPUT_BUF_SIZE
           /\ b % INPUT_BUF_SIZE \in Slots
           /\ \A f, m : m \in Nat => Window(f, a + Minus(b, a), m) = Window(f, b, m)
<1>1. a \in Nat /\ b \in Nat /\ Minus(b, a) \in Nat
  BY Sizes, MinusIs DEF Index
<1>2. PICK t \in Nat : t = a + Minus(b, a)
  BY <1>1
<1>3. b = t % UintMax1
  BY <1>2, MinusGoes
<1>4. (t % UintMax1) % INPUT_BUF_SIZE = t % INPUT_BUF_SIZE
  BY SlotIs
<1>5. b % INPUT_BUF_SIZE \in Slots
  BY <1>1, SlotIs DEF Slots
<1>6. ASSUME NEW f, NEW m \in Nat
      PROVE  Window(f, t, m) = Window(f, b, m)
  BY <1>3, WindowWraps
<1> QED BY <1>2, <1>3, <1>4, <1>5, <1>6

\* What the distances of a ring are.
LEMMA RingSizes ==
    ASSUME NEW f, NEW a, NEW b, NEW c, RingAt(f, a, b, c)
    PROVE  /\ f \in Rings /\ a \in Index /\ b \in Index /\ c \in Index
           /\ a \in Nat /\ b \in Nat /\ c \in Nat
           /\ Minus(b, a) \in Nat /\ Minus(c, b) \in Nat /\ Minus(c, a) \in Nat
           /\ Minus(b, a) + Minus(c, b) = Minus(c, a)
           /\ Minus(c, a) <= INPUT_BUF_SIZE /\ Minus(c, a) < UintMax1
           /\ Len(Text(f, a, b)) = Minus(b, a) /\ Len(Text(f, b, c)) = Minus(c, b)
<1>1. /\ f \in Rings /\ a \in Index /\ b \in Index /\ c \in Index
      /\ Minus(b, a) + Minus(c, b) = Minus(c, a) /\ Minus(c, a) <= INPUT_BUF_SIZE
  BY DEF RingAt
<1>2. a \in Nat /\ b \in Nat /\ c \in Nat
  BY <1>1, Sizes DEF Index
<1>3. /\ Minus(b, a) \in Nat /\ Minus(c, b) \in Nat /\ Minus(c, a) \in Nat
      /\ Minus(c, a) < UintMax1
  BY <1>1, MinusIs
<1>4. Len(Text(f, a, b)) = Minus(b, a) /\ Len(Text(f, b, c)) = Minus(c, b)
  BY <1>1, <1>2, <1>3, WindowIsSeq DEF Text
<1> QED BY <1>1, <1>2, <1>3, <1>4

\* A character is stored at c: it is put behind the line.
LEMMA RingStore ==
    ASSUME NEW f, NEW a, NEW b, NEW c, RingAt(f, a, b, c),
           Minus(c, a) < INPUT_BUF_SIZE, NEW ch \in Char,
           NEW g, g = Put(f, c % INPUT_BUF_SIZE, ch)
    PROVE  /\ Plus1(c) \in Index /\ Minus(Plus1(c), a) = Minus(c, a) + 1
           /\ g \in Rings
           /\ Text(g, a, b) = Text(f, a, b)
           /\ Text(g, b, Plus1(c)) = Append(Text(f, b, c), ch)
           /\ Text(g, a, Plus1(c)) = Text(f, a, b) \o Append(Text(f, b, c), ch)
           /\ Text(g, Plus1(c), Plus1(c)) = << >>
           /\ RingAt(g, a, Plus1(c), Plus1(c))
           /\ ch = "x" /\ Minus(Plus1(c), a) # INPUT_BUF_SIZE => RingAt(g, a, b, Plus1(c))
<1> USE Sizes
<1>1. /\ f \in Rings /\ a \in Index /\ b \in Index /\ c \in Index
      /\ a \in Nat /\ b \in Nat /\ c \in Nat
      /\ Minus(b, a) \in Nat /\ Minus(c, b) \in Nat /\ Minus(c, a) \in Nat
      /\ Minus(b, a) + Minus(c, b) = Minus(c, a)
  BY RingSizes
<1>2. PICK d \in Nat, l \in Nat, s \in Slots :
        /\ d = Minus(b, a) /\ l = Minus(c, b) /\ d + l = Minus(c, a)
        /\ s = c % INPUT_BUF_SIZE
  BY <1>1, SlotFrom
<1>3. s = (a + (d + l)) % INPUT_BUF_SIZE /\ s = (b + l) % INPUT_BUF_SIZE
  BY <1>1, <1>2, SlotFrom
<1>4. g = [f EXCEPT ![s] = ch]
  BY <1>2 DEF Put
<1>5. /\ Plus1(c) \in Index /\ Minus(Plus1(c), a) = d + l + 1
      /\ Minus(Plus1(c), b) = l + 1 /\ Minus(Plus1(c), Plus1(c)) = 0
  BY <1>1, <1>2, Plus1Is, Distances
<1>6. /\ d + l \in Nat /\ d + l < INPUT_BUF_SIZE /\ l < INPUT_BUF_SIZE
      /\ d \in 0 .. d + l /\ l \in 0 .. l
  BY <1>2
<1>7. /\ g \in Rings
      /\ Window(g, a, d) = Window(f, a, d)
  <2>1. PICK m \in Nat : m = d + l
    OBVIOUS
  <2>2. Behind(s, a, m) /\ d \in 0 .. m /\ g = Put(f, s, ch)
    BY <1>3, <1>4, <1>6, <2>1 DEF Behind, Put
  <2>3. f \in Rings /\ a \in Nat /\ m \in Nat /\ s \in Slots /\ ch \in Char
    BY <1>1
  <2>4. /\ Put(f, s, ch) \in Rings
        /\ \A i \in 0 .. m : Window(Put(f, s, ch), a, i) = Window(f, a, i)
    BY ONLY <2>2, <2>3, WindowGrows
  <2> QED BY <2>2, <2>4
<1>8. /\ Window(g, b, l + 1) = Append(Window(f, b, l), ch)
      /\ Window(g, b, l) = Window(f, b, l)
  <2>1. f \in Rings /\ b \in Nat /\ l \in Nat /\ s \in Slots /\ ch \in Char
    BY <1>1
  <2>2. Behind(s, b, l) /\ l \in 0 .. l /\ g = Put(f, s, ch)
    BY <1>3, <1>4, <1>6 DEF Behind, Put
  <2>3. /\ Window(Put(f, s, ch), b, l + 1) = Append(Window(f, b, l), ch)
        /\ \A i \in 0 .. l : Window(Put(f, s, ch), b, i) = Window(f, b, i)
    BY ONLY <2>1, <2>2, WindowGrows
  <2> QED BY <2>2, <2>3
<1>9. Text(g, a, b) = Text(f, a, b)
  BY <1>2, <1>6, <1>7 DEF Text
<1>10. Text(g, b, Plus1(c)) = Append(Text(f, b, c), ch)
  BY <1>2, <1>5, <1>8 DEF Text
<1>11. Text(g, a, Plus1(c)) = Text(f, a, b) \o Append(Text(f, b, c), ch)
  <2>1. Window(g, a, d + (l + 1)) = Window(g, a, d) \o Window(g, a + d, l + 1)
    <3>1. PICK m \in Nat : m = l + 1
      BY <1>2
    <3>2. Window(g, a, d + m) = Window(g, a, d) \o Window(g, a + d, m)
      <4>1. g \in Rings /\ a \in Nat /\ d \in Nat /\ m \in Nat
        BY <1>1, <1>7
      <4> QED BY ONLY <4>1, WindowSplits, Zenon
    <3> QED BY <3>1, <3>2
  <2>2. Window(g, a + d, l + 1) = Window(g, b, l + 1)
    BY <1>1, <1>2, SlotFrom
  <2>3. d + l + 1 = d + (l + 1)
    OBVIOUS
  <2> QED BY <1>2, <1>5, <1>8, <1>9, <2>1, <2>2, <2>3 DEF Text
<1>12. Text(g, Plus1(c), Plus1(c)) = << >>
  <2>1. Plus1(c) \in Nat
    BY <1>5 DEF Index
  <2> QED BY <1>5, <1>7, <2>1, WindowEmpty DEF Text
<1>13. RingAt(g, a, Plus1(c), Plus1(c))
  BY <1>1, <1>5, <1>6, <1>7 DEF RingAt
<1>14. ASSUME ch = "x", Minus(Plus1(c), a) # INPUT_BUF_SIZE
       PROVE  RingAt(g, a, b, Plus1(c))
  <2>1. ASSUME NEW k \in 1 .. l + 1
        PROVE  Cell(g, b + k - 1) = "x"
    <3>1. CASE k \in 1 .. l
      <4>1. Window(g, b, l)[k] = Cell(g, b + k - 1) /\ Window(f, b, l)[k] = Cell(f, b + k - 1)
        BY ONLY Sizes, <1>1, <1>2, <1>7, <3>1, WindowIsSeq
      <4>2. Cell(f, b + k - 1) = "x"
        BY <1>2, <3>1 DEF RingAt
      <4> QED BY <1>8, <4>1, <4>2
    <3>2. CASE k = l + 1
      <4>1. b + k - 1 = b + l
        BY <1>1, <3>2
      <4>2. Cell(g, b + l) = ch
        BY <1>1, <1>3, <1>4 DEF Cell, Rings
      <4> QED BY <1>14, <4>1, <4>2
    <3> QED BY <3>1, <3>2
  <2>2. d + (l + 1) = d + l + 1 /\ d + l + 1 <= INPUT_BUF_SIZE
    BY <1>6
  <2> QED BY <1>1, <1>2, <1>5, <1>7, <1>14, <2>1, <2>2 DEF RingAt
<1> QED BY <1>2, <1>5, <1>7, <1>9, <1>10, <1>11, <1>12, <1>13, <1>14

\* The distance when an index moves back.
LEMMA StepBack ==
    ASSUME NEW a \in Index, NEW c \in Index, a # c,
           NEW d, d = (c + UintMax1 - 1) % UintMax1
    PROVE  Minus(d, a) = Minus(c, a) - 1
<1>1. d \in Index /\ d = IF c = 0 THEN UintMax1 - 1 ELSE c - 1
  BY Less1Is
<1>2. /\ a \in Nat /\ a < UintMax1 /\ c \in Nat /\ c < UintMax1
      /\ d \in Nat /\ d < UintMax1
  BY <1>1, Sizes DEF Index
<1>3. /\ Minus(d, a) = IF a <= d THEN d - a ELSE d + UintMax1 - a
      /\ Minus(c, a) = IF a <= c THEN c - a ELSE c + UintMax1 - a
  BY <1>1, MinusIs
<1>4. CASE c = 0
  <2>1. d = UintMax1 - 1 /\ a <= d /\ ~(a <= c)
    BY Sizes, <1>1, <1>2, <1>4
  <2> QED BY Sizes, <1>2, <1>3, <1>4, <2>1
<1>5. CASE c # 0
  <2>1. d = c - 1
    BY <1>1, <1>5
  <2>2. CASE a <= c
    <3>1. a <= d
      BY <1>2, <2>1, <2>2
    <3>2. Minus(d, a) = d - a /\ Minus(c, a) = c - a
      BY <1>3, <2>2, <3>1
    <3> QED BY <1>2, <2>1, <3>2
  <2>3. CASE ~(a <= c)
    <3>1. ~(a <= d)
      BY <1>2, <2>1, <2>3
    <3>2. Minus(d, a) = d + UintMax1 - a /\ Minus(c, a) = c + UintMax1 - a
      BY <1>3, <2>3, <3>1
    <3> QED BY Sizes, <1>2, <2>1, <3>2
  <2> QED BY <2>2, <2>3
<1> QED BY <1>4, <1>5

\* The last character of the line is erased.
LEMMA RingErase ==
    ASSUME NEW f, NEW a, NEW b, NEW c, RingAt(f, a, b, c), b # c,
           NEW c2, c2 = (c + UintMax1 - 1) % UintMax1
    PROVE  /\ RingAt(f, a, b, c2)
           /\ Text(f, b, c) # << >>
           /\ Text(f, b, c2) = SubSeq(Text(f, b, c), 1, Len(Text(f, b, c)) - 1)
<1> USE Sizes
<1>1. /\ f \in Rings /\ a \in Index /\ b \in Index /\ c \in Index
      /\ a \in Nat /\ b \in Nat /\ c \in Nat
      /\ Minus(b, a) \in Nat /\ Minus(c, b) \in Nat /\ Minus(c, a) \in Nat
      /\ Minus(b, a) + Minus(c, b) = Minus(c, a) /\ Minus(c, a) < UintMax1
      /\ Minus(c, a) <= INPUT_BUF_SIZE /\ Len(Text(f, b, c)) = Minus(c, b)
  BY RingSizes
<1>2. c2 \in Index
  BY <1>1, Less1Is
<1>3. Minus(c, b) # 0 /\ Minus(c, a) # 0
  BY <1>1, Distances
<1>4. a # c
  BY <1>1, <1>3, Distances
<1>5. Minus(c2, b) = Minus(c, b) - 1 /\ Minus(c2, a) = Minus(c, a) - 1
  BY <1>1, <1>2, <1>4, StepBack
<1>6. PICK m \in Nat : m = Minus(c2, b) /\ m + 1 = Minus(c, b) /\ Minus(c, b) - 1 = m
  BY <1>1, <1>3, <1>5
<1>7. Window(f, b, m) = SubSeq(Window(f, b, m + 1), 1, m)
  BY <1>1, WindowShrinks
<1>8. Text(f, b, c) # << >>
  BY <1>1, <1>3
<1>9. \A k \in 1 .. Minus(c2, b) : Cell(f, b + k - 1) = "x"
  <2>1. \A k \in 1 .. m : k \in 1 .. m + 1
    OBVIOUS
  <2> QED BY <1>6, <2>1 DEF RingAt
<1>10. /\ Minus(b, a) + Minus(c2, b) = Minus(c2, a) /\ Minus(c2, a) <= INPUT_BUF_SIZE
       /\ Minus(c2, a) # INPUT_BUF_SIZE
  BY <1>1, <1>3, <1>5
<1> QED BY <1>1, <1>2, <1>6, <1>7, <1>8, <1>9, <1>10 DEF RingAt, Text

\* The line is given up: its slots may be emptied, and no other.
LEMMA RingKill ==
    ASSUME NEW f, NEW a, NEW b, NEW c, RingAt(f, a, b, c), NEW g \in Rings,
           \A i \in Slots : (\A j \in 1 .. Minus(c, b) : i # (b + j - 1) % INPUT_BUF_SIZE)
                               => g[i] = f[i]
    PROVE  /\ RingAt(g, a, b, b)
           /\ Text(g, a, b) = Text(f, a, b)
           /\ Text(g, b, b) = << >>
<1> USE Sizes
<1>1. /\ f \in Rings /\ a \in Index /\ b \in Index /\ c \in Index
      /\ a \in Nat /\ b \in Nat /\ c \in Nat
      /\ Minus(b, a) \in Nat /\ Minus(c, b) \in Nat /\ Minus(c, a) \in Nat
      /\ Minus(b, a) + Minus(c, b) = Minus(c, a) /\ Minus(c, a) < UintMax1
      /\ Minus(c, a) <= INPUT_BUF_SIZE
  BY RingSizes
<1>2. Minus(b, b) = 0
  BY <1>1, Distances
<1>3. PICK d \in Nat, l \in Nat : d = Minus(b, a) /\ l = Minus(c, b) /\ d + l <= INPUT_BUF_SIZE
  BY <1>1
<1>4. ASSUME NEW k \in 1 .. d
      PROVE  Cell(g, a + k - 1) = Cell(f, a + k - 1)
  <2>1. PICK x \in Nat : x = a + k - 1
    BY <1>1
  <2>2. x % INPUT_BUF_SIZE \in Slots
    BY SlotIs DEF Slots
  <2>3. ASSUME NEW j \in 1 .. l
        PROVE  x % INPUT_BUF_SIZE # (b + j - 1) % INPUT_BUF_SIZE
    <3>1. PICK y \in Nat, i \in Nat : i = j - 1 /\ y = a + d + i
      BY <1>1
    <3>2. x < y /\ y < x + INPUT_BUF_SIZE
      BY <1>1, <1>3, <2>1, <3>1
    <3>3. x % INPUT_BUF_SIZE # y % INPUT_BUF_SIZE
      BY <3>2, ModDiffers
    <3>4. PICK t \in Nat : t = a + d
      BY <1>1
    <3>5. b = t % UintMax1
      BY <1>1, <1>3, <3>4, MinusGoes
    <3>6. ((t % UintMax1) + i) % INPUT_BUF_SIZE = (t + i) % INPUT_BUF_SIZE
      BY SlotIs
    <3>7. b + j - 1 = b + i /\ y = t + i
      BY <1>1, <3>1, <3>4
    <3> QED BY <3>3, <3>5, <3>6, <3>7
  <2>4. g[x % INPUT_BUF_SIZE] = f[x % INPUT_BUF_SIZE]
    BY <1>3, <2>2, <2>3
  <2> QED BY <2>1, <2>4 DEF Cell
<1>5. Text(g, a, b) = Text(f, a, b)
  BY <1>3, <1>4 DEF Text, Window
<1>6. Text(g, b, b) = << >>
  BY <1>1, <1>2, WindowEmpty DEF Text
<1>7. RingAt(g, a, b, b)
  BY <1>1, <1>2, <1>3 DEF RingAt
<1> QED BY <1>5, <1>6, <1>7

\* The first character is read, and its slot is emptied.
LEMMA RingRead ==
    ASSUME NEW f, NEW a, NEW b, NEW c, RingAt(f, a, b, c), a # b, NEW g \in Rings,
           \A i \in Slots : i # a % INPUT_BUF_SIZE => g[i] = f[i]
    PROVE  /\ RingAt(g, Plus1(a), b, c)
           /\ Text(f, a, b) # << >>
           /\ Text(g, Plus1(a), b) = Tail(Text(f, a, b))
           /\ Text(g, b, c) = Text(f, b, c)
<1> USE Sizes
<1>1. /\ f \in Rings /\ a \in Index /\ b \in Index /\ c \in Index
      /\ a \in Nat /\ b \in Nat /\ c \in Nat
      /\ Minus(b, a) \in Nat /\ Minus(c, b) \in Nat /\ Minus(c, a) \in Nat
      /\ Minus(b, a) + Minus(c, b) = Minus(c, a) /\ Minus(c, a) < UintMax1
      /\ Minus(c, a) <= INPUT_BUF_SIZE
  BY RingSizes
<1>2. Minus(b, a) # 0
  BY <1>1, Distances
<1>3. a # c
  BY <1>1, <1>2, Distances
<1>4. /\ Plus1(a) \in Index
      /\ Minus(b, Plus1(a)) = Minus(b, a) - 1 /\ Minus(c, Plus1(a)) = Minus(c, a) - 1
  BY <1>1, <1>3, Plus1Is, Distances
<1>5. PICK m \in Nat, l \in Nat :
        /\ m = Minus(b, Plus1(a)) /\ m + 1 = Minus(b, a) /\ l = Minus(c, b)
        /\ m + 1 + l <= INPUT_BUF_SIZE
  BY <1>1, <1>2, <1>4
<1>6. /\ Window(f, a, m + 1) # << >>
      /\ Window(g, a + 1, m) = Tail(Window(f, a, m + 1))
  <2>1. m < INPUT_BUF_SIZE
    BY <1>1, <1>5
  <2>2. \A i \in Slots : i # a % INPUT_BUF_SIZE => g[i] = f[i]
    OBVIOUS
  <2>3. f \in Rings /\ g \in Rings /\ a \in Nat /\ m \in Nat
    BY <1>1
  <2> QED BY ONLY <2>1, <2>2, <2>3, WindowTail, Zenon
<1>7. Window(g, Plus1(a), m) = Window(g, a + 1, m)
  <2>1. Plus1(a) = (a + 1) % UintMax1 /\ a + 1 \in Nat
    BY <1>1 DEF Plus1
  <2> QED BY <2>1, WindowWraps
<1>8. ASSUME NEW k \in 1 .. l
      PROVE  Cell(g, b + k - 1) = Cell(f, b + k - 1)
  <2>1. PICK i \in Nat, t \in Nat, x \in Nat : i = k - 1 /\ t = a + (m + 1) /\ x = t + i
    BY <1>1
  <2>2. b = t % UintMax1
    BY <1>1, <1>5, <2>1, MinusGoes
  <2>3. ((t % UintMax1) + i) % INPUT_BUF_SIZE = (t + i) % INPUT_BUF_SIZE
    BY SlotIs
  <2>4. a < x /\ x < a + INPUT_BUF_SIZE
    BY <1>1, <1>5, <2>1
  <2>5. a % INPUT_BUF_SIZE # x % INPUT_BUF_SIZE /\ x % INPUT_BUF_SIZE \in Slots
    BY <1>1, <2>4, ModDiffers, SlotIs DEF Slots
  <2>6. b + k - 1 = b + i
    BY <1>1, <2>1
  <2>7. (b + k - 1) % INPUT_BUF_SIZE = x % INPUT_BUF_SIZE
    BY <2>1, <2>2, <2>3, <2>6
  <2>8. g[x % INPUT_BUF_SIZE] = f[x % INPUT_BUF_SIZE]
    BY <2>5
  <2> QED BY <2>7, <2>8 DEF Cell
<1>9. Text(g, b, c) = Text(f, b, c)
  BY <1>5, <1>8 DEF Text, Window
<1>10. Text(f, a, b) # << >> /\ Text(g, Plus1(a), b) = Tail(Text(f, a, b))
  BY <1>5, <1>6, <1>7 DEF Text
<1>11. RingAt(g, Plus1(a), b, c)
  <2>1. \A k \in 1 .. Minus(c, b) : Cell(g, b + k - 1) = "x"
    BY <1>5, <1>8 DEF RingAt
  <2>2. /\ Minus(b, Plus1(a)) + Minus(c, b) = Minus(c, Plus1(a))
        /\ Minus(c, Plus1(a)) <= INPUT_BUF_SIZE /\ Minus(c, Plus1(a)) # INPUT_BUF_SIZE
    BY <1>1, <1>2, <1>4
  <2> QED BY <1>1, <1>4, <2>1, <2>2 DEF RingAt
<1> QED BY <1>9, <1>10, <1>11
-----------------------------------------------------------------------------
(***************************************************************************)
(* The steps of the input ring.                                            *)
(***************************************************************************)
\* The character at an index.
LEMMA CellAt ==
    ASSUME NEW f, NEW a \in Index, NEW k \in Nat \ {0}
    PROVE  f[((a + k - 1) % UintMax1) % INPUT_BUF_SIZE] = Cell(f, a + k - 1)
<1>1. a \in Nat
  BY Sizes DEF Index
<1>2. PICK t \in Nat : t = a + k - 1
  BY <1>1
<1>3. (t % UintMax1) % INPUT_BUF_SIZE = t % INPUT_BUF_SIZE
  BY SlotIs
<1> QED BY <1>2, <1>3 DEF Cell

\* The characters between two indices.
LEMMA TextIs ==
    ASSUME NEW f, NEW a \in Index, NEW b \in Index
    PROVE  [k \in 1 .. Minus(b, a) |-> f[((a + k - 1) % UintMax1) % INPUT_BUF_SIZE]]
             = Text(f, a, b)
<1>1. Minus(b, a) \in Nat
  BY MinusIs
<1>2. ASSUME NEW k \in 1 .. Minus(b, a)
      PROVE  f[((a + k - 1) % UintMax1) % INPUT_BUF_SIZE] = Cell(f, a + k - 1)
  <2>1. k \in Nat \ {0}
    BY <1>1
  <2> QED BY <2>1, CellAt
<1> QED BY <1>2 DEF Text, Window

\* Nothing after w ends a line, said of the cells.
LEMMA LineIsPlain ==
    ASSUME NEW f, NEW b \in Index, NEW c \in Index
    PROVE  (\A k \in 1 .. Minus(c, b) :
              f[((b + k - 1) % UintMax1) % INPUT_BUF_SIZE] = "x")
           <=> \A k \in 1 .. Minus(c, b) : Cell(f, b + k - 1) = "x"
<1>1. Minus(c, b) \in Nat
  BY MinusIs
<1>2. ASSUME NEW k \in 1 .. Minus(c, b)
      PROVE  f[((b + k - 1) % UintMax1) % INPUT_BUF_SIZE] = Cell(f, b + k - 1)
  <2>1. k \in Nat \ {0}
    BY <1>1
  <2> QED BY <2>1, CellAt
<1> QED BY <1>2

\* The ring of a state that satisfies the invariant.
LEMMA RingNow ==
    ASSUME TypeOK, RingInv
    PROVE  RingAt(buf, r, w, e)
<1>1. buf \in Rings /\ r \in Index /\ w \in Index /\ e \in Index
  BY DEF TypeOK, Rings, Slots, Index
<1>2. \A k \in 1 .. Minus(e, w) : buf[((w + k - 1) % UintMax1) % INPUT_BUF_SIZE] = "x"
  BY DEF RingInv, At
<1>3. \A k \in 1 .. Minus(e, w) : Cell(buf, w + k - 1) = "x"
  BY <1>1, <1>2, LineIsPlain
<1> QED BY <1>1, <1>3 DEF RingInv, RingAt, FullBufferIsReadable

\* And of the next state.
LEMMA RingNext ==
    ASSUME RingAt(buf', r', w', e')
    PROVE  /\ RingInv'
           /\ buf' \in [0 .. INPUT_BUF_SIZE - 1 -> {"none", "x", "nl", "eof"}]
           /\ r' \in Index /\ w' \in Index /\ e' \in Index
<1>1. buf' \in Rings /\ r' \in Index /\ w' \in Index /\ e' \in Index
  BY DEF RingAt
<1>2. \A k \in 1 .. Minus(e', w') : Cell(buf', w' + k - 1) = "x"
  BY DEF RingAt
<1>3. \A k \in 1 .. Minus(e', w') :
        buf'[((w' + k - 1) % UintMax1) % INPUT_BUF_SIZE] = "x"
  BY <1>1, <1>2, LineIsPlain
<1>4. RingInv'
  BY <1>3 DEF RingInv, RingAt, FullBufferIsReadable, At, Minus
<1> QED BY <1>1, <1>4 DEF Rings, Slots

\* What the editor sees of the ring.
LEMMA TextNow ==
    ASSUME TypeOK
    PROVE  Chars(r, w) = Text(buf, r, w) /\ Chars(w, e) = Text(buf, w, e)
<1>1. r \in Index /\ w \in Index /\ e \in Index
  BY DEF TypeOK, Index
<1> QED BY <1>1, TextIs DEF Chars, At

\* And in the next state.
LEMMA TextNext ==
    ASSUME r' \in Index, w' \in Index, e' \in Index
    PROVE  Chars(r, w)' = Text(buf', r', w') /\ Chars(w, e)' = Text(buf', w', e')
<1>1. Chars(r, w)' = [k \in 1 .. Minus(w', r') |->
                        buf'[((r' + k - 1) % UintMax1) % INPUT_BUF_SIZE]]
  BY DEF Chars, At, Minus
<1>2. Chars(w, e)' = [k \in 1 .. Minus(e', w') |->
                        buf'[((w' + k - 1) % UintMax1) % INPUT_BUF_SIZE]]
  BY DEF Chars, At, Minus
<1> QED BY <1>1, <1>2, TextIs

\* A part of the ring is emptied, and nothing else of it changes.
LEMMA EmptiedIs ==
    ASSUME TypeOK, NEW a, NEW b
    PROVE  /\ Emptied(a, b) \in Rings
           /\ \A i \in Slots :
                 (\A j \in 1 .. Minus(b, a) : i # (a + j - 1) % INPUT_BUF_SIZE)
                    => Emptied(a, b)[i] = buf[i]
<1>1. buf \in [Slots -> {"none", "x", "nl", "eof"}]
  BY DEF TypeOK, Slots
<1> QED BY <1>1 DEF Emptied, Rings

\* The line has no '\n', and ^U erases all of it.
LEMMA KillToIs ==
    ASSUME TypeOK, RingInv
    PROVE  KillTo = w
<1> DEFINE Stop(a) ==
             /\ Minus(a, w) <= Minus(e, w)
             /\ a = w \/ At((a + UintMax1 - 1) % UintMax1) = "nl"
             /\ \A k \in 1 .. Minus(e, a) : At((a + k - 1) % UintMax1) # "nl"
<1>1. w \in Index /\ e \in Index /\ w \in Nat /\ w < UintMax1
  BY Sizes DEF TypeOK, Index
<1>2. Minus(w, w) = 0 /\ Minus(e, w) \in Nat
  BY <1>1, Distances, MinusIs
<1>3. Stop(w)
  BY <1>1, <1>2 DEF RingInv
<1>4. ASSUME NEW a \in Index, Stop(a)
      PROVE  a = w
  <2> SUFFICES ASSUME a # w PROVE FALSE
    OBVIOUS
  <2>1. At((a + UintMax1 - 1) % UintMax1) = "nl" /\ Minus(a, w) <= Minus(e, w)
    BY <1>4
  <2>2. Minus(a, w) \in Nat /\ Minus(a, w) # 0
    BY <1>1, MinusIs, Distances
  <2>3. PICK k \in 1 .. Minus(e, w) : k = Minus(a, w)
    BY <1>2, <2>1, <2>2
  <2>4. (w + k - 1) % UintMax1 = (a + UintMax1 - 1) % UintMax1
    <3>1. a \in Nat /\ a < UintMax1
      BY Sizes DEF Index
    <3>2. k = IF w <= a THEN a - w ELSE a + UintMax1 - w
      BY <1>1, <2>3, MinusIs
    <3>3. (a + UintMax1 - 1) % UintMax1 = IF a = 0 THEN UintMax1 - 1 ELSE a - 1
      BY Less1Is
    <3>4. PICK t \in Nat : t = w + k - 1
      BY <1>1, <2>2, <2>3
    <3>5. CASE w <= a
      <4>1. t = a - 1 /\ t < UintMax1 /\ a # 0
        <5>1. k = a - w /\ k \in Nat /\ k # 0
          BY <2>2, <2>3, <3>2, <3>5
        <5> QED BY Sizes, <1>1, <3>1, <3>4, <5>1
      <4>2. t % UintMax1 = t
        BY Sizes, <4>1, ModSmall
      <4> QED BY <3>3, <3>4, <4>1, <4>2
    <3>6. CASE a < w
      <4>1. t = a + UintMax1 - 1
        BY Sizes, <1>1, <3>1, <3>2, <3>4, <3>6
      <4> QED BY <3>4, <4>1
    <3> QED BY <1>1, <3>1, <3>5, <3>6
  <2>5. At((w + k - 1) % UintMax1) = "x"
    BY <2>3 DEF RingInv
  <2> QED BY <2>1, <2>4, <2>5
<1>5. KillTo = CHOOSE a \in Index : Stop(a)
  BY DEF KillTo, Index
<1> HIDE DEF Stop
<1> QED BY <1>1, <1>3, <1>4, <1>5

\* What a step of the console is to the line editor: a step or none.
EditStep ==
    \/ L!EditorNext
    \/ Chars(r, w)' = Chars(r, w) /\ Chars(w, e)' = Chars(w, e)

RingStep == RingAt(buf', r', w', e') /\ EditStep

\* The ring is left alone.
LEMMA RingQuiet ==
    ASSUME TypeOK, RingInv, UNCHANGED inVars
    PROVE  RingStep
<1>1. buf' = buf /\ r' = r /\ w' = w /\ e' = e
  BY DEF inVars
<1>2. RingAt(buf', r', w', e')
  BY <1>1, RingNow
<1>3. Chars(r, w)' = Chars(r, w) /\ Chars(w, e)' = Chars(w, e)
  BY <1>1 DEF Chars, At, Minus
<1> QED BY <1>2, <1>3 DEF RingStep, EditStep

\* consoleintr() stores a character.
LEMMA StoreRing ==
    ASSUME TypeOK, RingInv, HasRoom, NEW c \in Char, Store(c), r' = r
    PROVE  RingStep
<1>1. RingAt(buf, r, w, e)
  BY RingNow
<1>2. /\ buf' = Put(buf, e % INPUT_BUF_SIZE, c)
      /\ e' = Plus1(e)
      /\ Minus(e, r) < INPUT_BUF_SIZE
  BY DEF Store, HasRoom, Put
<1>3. /\ Minus(Plus1(e), r) = Minus(e, r) + 1 /\ Plus1(e) \in Index
      /\ Text(buf', r, w) = Text(buf, r, w)
      /\ Text(buf', w, Plus1(e)) = Append(Text(buf, w, e), c)
      /\ Text(buf', r, Plus1(e)) = Text(buf, r, w) \o Append(Text(buf, w, e), c)
      /\ Text(buf', Plus1(e), Plus1(e)) = << >>
      /\ RingAt(buf', r, Plus1(e), Plus1(e))
      /\ c = "x" /\ Minus(Plus1(e), r) # INPUT_BUF_SIZE => RingAt(buf', r, w, Plus1(e))
  BY ONLY <1>1, <1>2, c \in Char, RingStore
<1>4. /\ Len(Text(buf, r, w)) = Minus(w, r) /\ Len(Text(buf, w, e)) = Minus(e, w)
      /\ Minus(w, r) + Minus(e, w) = Minus(e, r)
  BY <1>1, RingSizes
<1>5. Chars(r, w) = Text(buf, r, w) /\ Chars(w, e) = Text(buf, w, e)
  BY TextNow
<1>6. CASE LineEnds(c)
  <2>1. w' = Plus1(e)
    BY <1>2, <1>6 DEF Store
  <2>2. RingAt(buf', r', w', e')
    BY <1>2, <1>3, <2>1
  <2>3. r' \in Index /\ w' \in Index /\ e' \in Index
    BY <2>2 DEF RingAt
  <2>4. Chars(r, w)' = Chars(r, w) \o Append(Chars(w, e), c) /\ Chars(w, e)' = << >>
    BY <1>2, <1>3, <1>5, <2>1, <2>3, TextNext
  <2>5. c \in {"nl", "eof"} \/ Len(Chars(r, w)) + Len(Chars(w, e)) + 1 = INPUT_BUF_SIZE
    BY <1>3, <1>4, <1>5, <1>6 DEF LineEnds
  <2>6. Len(Chars(r, w)) + Len(Chars(w, e)) < INPUT_BUF_SIZE
    BY <1>2, <1>4, <1>5
  <2>7. L!Type(c)
    BY <2>4, <2>5, <2>6 DEF L!Type
  <2> QED BY <2>2, <2>7 DEF RingStep, EditStep, L!EditorNext, Char
<1>7. CASE ~LineEnds(c)
  <2>1. w' = w /\ c = "x" /\ c \notin {"nl", "eof"} /\ Minus(Plus1(e), r) # INPUT_BUF_SIZE
    BY <1>7 DEF Store, LineEnds, Char
  <2>2. RingAt(buf', r', w', e')
    BY <1>2, <1>3, <2>1
  <2>3. r' \in Index /\ w' \in Index /\ e' \in Index
    BY <2>2 DEF RingAt
  <2>4. Chars(w, e)' = Append(Chars(w, e), c) /\ Chars(r, w)' = Chars(r, w)
    BY <1>2, <1>3, <1>5, <2>1, <2>3, TextNext
  <2>5. ~(c \in {"nl", "eof"} \/ Len(Chars(r, w)) + Len(Chars(w, e)) + 1 = INPUT_BUF_SIZE)
    BY <1>3, <1>4, <1>5, <2>1
  <2>6. Len(Chars(r, w)) + Len(Chars(w, e)) < INPUT_BUF_SIZE
    BY <1>2, <1>4, <1>5
  <2>7. L!Type(c)
    BY <2>4, <2>5, <2>6 DEF L!Type
  <2> QED BY <2>2, <2>7 DEF RingStep, EditStep, L!EditorNext, Char
<1> QED BY <1>6, <1>7

\* consoleintr() changes the ring as the key says.
LEMMA KeyRing ==
    ASSUME TypeOK, RingInv, key \in Key, KeyDone
    PROVE  RingStep
<1>1. RingAt(buf, r, w, e)
  BY RingNow
<1>2. r' = r /\ r \in Index /\ w \in Index /\ e \in Index /\ buf \in Rings
  BY <1>1 DEF KeyDone, RingAt
<1>3. Chars(r, w) = Text(buf, r, w) /\ Chars(w, e) = Text(buf, w, e)
  BY TextNow
<1>4. CASE key = "kill"
  <2>1. e' = w /\ buf' = Emptied(w, e) /\ w' = w
    BY <1>4, KillToIs DEF KeyDone
  <2>2. /\ buf' \in Rings
        /\ \A i \in Slots : (\A j \in 1 .. Minus(e, w) : i # (w + j - 1) % INPUT_BUF_SIZE)
                               => buf'[i] = buf[i]
    BY <2>1, EmptiedIs
  <2>3. /\ RingAt(buf', r, w, w)
        /\ Text(buf', r, w) = Text(buf, r, w)
        /\ Text(buf', w, w) = << >>
    BY <1>1, <2>2, RingKill
  <2>4. Chars(r, w)' = Chars(r, w) /\ Chars(w, e)' = << >>
    BY <1>2, <1>3, <2>1, <2>3, TextNext
  <2>5. L!KillLine
    BY <2>4 DEF L!KillLine
  <2> QED BY <1>2, <2>1, <2>3, <2>5 DEF RingStep, EditStep, L!EditorNext
<1>5. CASE key = "bs" /\ CanErase
  <2>1. e' = (e + UintMax1 - 1) % UintMax1 /\ buf' = buf /\ w' = w /\ w # e
    BY <1>5 DEF KeyDone, CanErase
  <2>2. /\ RingAt(buf, r, w, e')
        /\ Text(buf, w, e) # << >>
        /\ Text(buf, w, e') = SubSeq(Text(buf, w, e), 1, Len(Text(buf, w, e)) - 1)
    BY <1>1, <2>1, RingErase
  <2>3. e' \in Index
    BY <2>2 DEF RingAt
  <2>4. Chars(r, w)' = Chars(r, w) /\ Chars(w, e)' = Text(buf, w, e')
    BY <1>2, <1>3, <2>1, <2>3, TextNext
  <2>5. L!Rubout
    BY <1>3, <2>2, <2>4 DEF L!Rubout
  <2> QED BY <1>2, <2>1, <2>2, <2>5 DEF RingStep, EditStep, L!EditorNext
<1>6. CASE (key = "bs" /\ ~CanErase) \/ key = "dump"
  <2>1. UNCHANGED inVars
    BY <1>2, <1>6 DEF KeyDone, inVars
  <2> QED BY <2>1, RingQuiet
<1>7. CASE key \notin {"kill", "bs", "dump"} /\ ~HasRoom
  <2>1. UNCHANGED inVars
    BY <1>2, <1>7 DEF KeyDone, inVars
  <2> QED BY <2>1, RingQuiet
<1>8. CASE key \notin {"kill", "bs", "dump"} /\ HasRoom
  <2>1. Store(IF key = "cr" THEN "nl" ELSE key)
    BY <1>8 DEF KeyDone
  <2>2. PICK c \in Char : c = IF key = "cr" THEN "nl" ELSE key
    BY <1>8, ConsoleAssumption DEF Char
  <2>3. Store(c)
    BY <2>1, <2>2
  <2> QED BY <1>2, <1>8, <2>3, StoreRing
<1> QED BY <1>4, <1>5, <1>6, <1>7, <1>8

\* consoleread() takes a character, or puts ^D back.
LEMMA ReadRing ==
    ASSUME TypeOK, RingInv, r # w, w' = w, e' = e, buf' = Emptied(r, r'),
           r' = r \/ r' = Plus1(r)
    PROVE  RingStep
<1>1. RingAt(buf, r, w, e)
  BY RingNow
<1>2. r \in Index /\ w \in Index /\ e \in Index /\ buf \in Rings /\ r \in Nat
  BY <1>1, Sizes DEF RingAt, Index
<1>3. Chars(r, w) = Text(buf, r, w) /\ Chars(w, e) = Text(buf, w, e)
  BY TextNow
<1>4. /\ buf' \in Rings
      /\ \A i \in Slots : (\A j \in 1 .. Minus(r', r) : i # (r + j - 1) % INPUT_BUF_SIZE)
                             => buf'[i] = buf[i]
  BY EmptiedIs
<1>5. CASE r' = r
  <2>1. Minus(r', r) = 0
    BY <1>2, <1>5, Distances
  <2>2. \A i \in Slots : buf'[i] = buf[i]
    BY <1>4, <2>1
  <2>3. buf' = buf
    BY <1>2, <1>4, <2>2 DEF Rings
  <2>4. UNCHANGED inVars
    BY <1>5, <2>3 DEF inVars
  <2> QED BY <2>4, RingQuiet
<1>6. CASE r' = Plus1(r)
  <2>1. Minus(r', r) = 1
    <3>1. Minus(r, r) = 0 /\ 0 + 1 < UintMax1
      BY <1>2, Distances, Sizes
    <3> QED BY <1>2, <1>6, <3>1, Distances
  <2>2. \A i \in Slots : i # r % INPUT_BUF_SIZE => buf'[i] = buf[i]
    <3> SUFFICES ASSUME NEW i \in Slots, i # r % INPUT_BUF_SIZE
                 PROVE  buf'[i] = buf[i]
      OBVIOUS
    <3>1. \A j \in 1 .. Minus(r', r) : r + j - 1 = r
      BY <1>2, <2>1
    <3> QED BY <1>4, <3>1
  <2>3. /\ RingAt(buf', Plus1(r), w, e)
        /\ Text(buf, r, w) # << >>
        /\ Text(buf', Plus1(r), w) = Tail(Text(buf, r, w))
        /\ Text(buf', w, e) = Text(buf, w, e)
    BY <1>1, <1>4, <2>2, RingRead
  <2>4. r' \in Index
    BY <1>6, <2>3 DEF RingAt
  <2>5. Chars(r, w)' = Tail(Chars(r, w)) /\ Chars(w, e)' = Chars(w, e)
    BY <1>2, <1>3, <1>6, <2>3, <2>4, TextNext
  <2>6. L!Take
    BY <1>3, <2>3, <2>5 DEF L!Take
  <2> QED BY <1>6, <2>3, <2>6 DEF RingStep, EditStep, L!EditorNext
<1> QED BY <1>5, <1>6
-----------------------------------------------------------------------------
(***************************************************************************)
(* Every step preserves the invariant and is a step of the line editor.    *)
(***************************************************************************)
\* The types of the input ring, of the uart, of consoleintr() and of
\* consoleread().
InTypes ==
    /\ r \in 0 .. UintMax1 - 1 /\ w \in 0 .. UintMax1 - 1 /\ e \in 0 .. UintMax1 - 1
    /\ buf \in [0 .. INPUT_BUF_SIZE - 1 -> {"none", "x", "nl", "eof"}]

UartTypes ==
    /\ pc \in [Proc -> PCs]
    /\ uart_tx_w \in 0 .. TxMax1 - 1 /\ uart_tx_r \in 0 .. TxMax1 - 1
    /\ hpc \in {"out", "rx", "echo", "esend", "tx"} /\ start \in {"no", "test", "send"}
    /\ echo \in Nat /\ fifo \in Nat

KeyTypes ==
    /\ rx \in Seq(Key) /\ key \in Key \cup {"none"}
    /\ hpc \in {"echo", "esend"} => key \in Key
    /\ hpc = "esend" => echo > 0

CountTypes == n \in [Proc -> Nat] /\ target \in [Proc -> Nat]

\* The indices of the transmit ring wrap around.
LEMMA TxNextIs ==
    \A a \in 0 .. TxMax1 - 1 : (a + 1) % TxMax1 \in 0 .. TxMax1 - 1
  BY UartAssumption

\* The echo has a length.
LEMMA EchoIs ==
    ASSUME TypeOK, RingInv, NEW c
    PROVE  EchoLength(c) \in Nat
<1>1. Minus(e, w) \in Nat
  BY RingNow, RingSizes
<1>2. 3 * Minus(e, w) \in Nat
  BY <1>1
<1> QED BY <1>2, KillToIs DEF EchoLength

\* uartputc() goes to sleep on a full ring.
LEMMA PutFullStep ==
    ASSUME IInv, NEW p \in Proc, PutFull(p), UartOnly
    PROVE  IInv' /\ EditStep
<1>1. Types /\ TypeOK /\ Locks /\ FifoInv /\ WriterInv /\ ReaderInv /\ CountInv /\ RingInv
  BY DEF IInv, Types
<1>2. RingStep
  <2>1. UNCHANGED inVars
    BY DEF PutFull, UartOnly, inVars
  <2> QED BY <1>1, <2>1, RingQuiet
<1>3. RingInv' /\ InTypes'
  BY <1>2, RingNext DEF RingStep, InTypes, Index
<1>4. UNCHANGED <<start, hpc, fifo, thre, rx, key, echo, n, target, killed>>
  BY DEF PutFull, UartOnly, txVars, inVars, readVars
<1>5. thre' \in BOOLEAN /\ KeyTypes' /\ CountTypes' /\ killed' \in [Proc -> BOOLEAN]
      /\ FifoInv' /\ CountInv'
  BY <1>1, <1>4 DEF Types, TypeOK, KeyTypes, CountTypes, FifoInv, CountInv
<1>6. UartTypes'
  BY <1>1 DEF Types, TypeOK, UartTypes, PCs, PutFull, UartOnly, txVars, inVars, readVars
<1>7. Locks'
  BY <1>1, UartAssumption DEF Types, TypeOK, Locks, PutFull, UartOnly, txVars, inVars,
       readVars
<1>8. WriterInv'
  BY <1>1 DEF Types, TypeOK, WriterInv, TxFull, PutFull, UartOnly, txVars, inVars,
       readVars
<1>9. ReaderInv'
  BY <1>1 DEF Types, TypeOK, ReaderInv, PutFull, UartOnly, txVars, inVars, readVars
<1>10. Types'
  BY <1>3, <1>5, <1>6 DEF Types, TypeOK, InTypes, UartTypes, PCs, KeyTypes, CountTypes
<1> QED BY <1>2, <1>3, <1>5, <1>7, <1>8, <1>9, <1>10 DEF IInv, RingStep

\* uartputc() stores a character.
LEMMA PutCharStep ==
    ASSUME IInv, NEW p \in Proc, PutChar(p), UartOnly
    PROVE  IInv' /\ EditStep
<1>1. Types /\ TypeOK /\ Locks /\ FifoInv /\ WriterInv /\ ReaderInv /\ CountInv /\ RingInv
  BY DEF IInv, Types
<1>2. RingStep
  <2>1. UNCHANGED inVars
    BY DEF PutChar, UartOnly, inVars
  <2> QED BY <1>1, <2>1, RingQuiet
<1>3. RingInv' /\ InTypes'
  BY <1>2, RingNext DEF RingStep, InTypes, Index
<1>4. UNCHANGED <<hpc, thre, rx, key, echo, n, target, killed>>
  BY DEF PutChar, UartOnly, inVars, readVars
<1>5. thre' \in BOOLEAN /\ KeyTypes' /\ CountTypes' /\ killed' \in [Proc -> BOOLEAN]
      /\ CountInv'
  BY <1>1, <1>4 DEF Types, TypeOK, KeyTypes, CountTypes, CountInv
<1>6. UartTypes'
  BY <1>1, TxNextIs DEF Types, TypeOK, UartTypes, PCs, PutChar, UartOnly, inVars, readVars
<1>7. Locks'
  BY <1>1, UartAssumption DEF Types, TypeOK, Locks, PutChar, UartOnly, inVars, readVars
<1>8. FifoInv'
  BY <1>1 DEF Types, TypeOK, FifoInv, Sending, PutChar, UartOnly, inVars, readVars
<1>9. WriterInv'
  BY <1>1 DEF Types, TypeOK, WriterInv, TxFull, PutChar, UartOnly, inVars, readVars
<1>10. ReaderInv'
  BY <1>1 DEF Types, TypeOK, ReaderInv, PutChar, UartOnly, inVars, readVars
<1>11. Types'
  BY <1>3, <1>5, <1>6 DEF Types, TypeOK, InTypes, UartTypes, PCs, KeyTypes, CountTypes
<1> QED BY <1>2, <1>3, <1>5, <1>7, <1>8, <1>9, <1>10, <1>11 DEF IInv, RingStep

\* uartstart() returns.
LEMMA StartReturnStep ==
    ASSUME IInv, StartReturn, UartOnly
    PROVE  IInv' /\ EditStep
<1>1. Types /\ TypeOK /\ Locks /\ FifoInv /\ WriterInv /\ ReaderInv /\ CountInv /\ RingInv
  BY DEF IInv, Types
<1>2. RingStep
  <2>1. UNCHANGED inVars
    BY DEF StartReturn, UartOnly, inVars
  <2> QED BY <1>1, <2>1, RingQuiet
<1>3. RingInv' /\ InTypes'
  BY <1>2, RingNext DEF RingStep, InTypes, Index
<1>4. UNCHANGED <<n, target, killed>>
  BY DEF StartReturn, UartOnly, inVars, readVars
<1>5. CountTypes' /\ killed' \in [Proc -> BOOLEAN] /\ CountInv'
  BY <1>1, <1>4 DEF Types, CountTypes, CountInv
<1>6. UartTypes'
  BY <1>1 DEF Types, TypeOK, UartTypes, PCs, StartReturn, UartOnly, inVars, readVars
<1>7. thre' \in BOOLEAN
  BY <1>1, Zenon DEF TypeOK, StartReturn, UartOnly, inVars, readVars
<1>8. KeyTypes'
  BY <1>1 DEF Types, TypeOK, KeyTypes, StartReturn, UartOnly, inVars, readVars
<1>9. Locks'
  BY <1>1, UartAssumption DEF Types, TypeOK, Locks, StartReturn, UartOnly, inVars,
       readVars
<1>10. FifoInv'
  BY <1>1 DEF Types, TypeOK, FifoInv, Sending, StartReturn, UartOnly, inVars, readVars
<1>11. WriterInv'
  BY <1>1 DEF Types, TypeOK, WriterInv, TxFull, StartReturn, UartOnly, inVars, readVars
<1>12. ReaderInv'
  BY <1>1 DEF Types, TypeOK, ReaderInv, StartReturn, UartOnly, inVars, readVars
<1>13. Types'
  BY <1>3, <1>5, <1>6, <1>7, <1>8 DEF Types, TypeOK, InTypes, UartTypes, PCs, KeyTypes,
       CountTypes
<1> QED BY <1>2, <1>3, <1>5, <1>9, <1>10, <1>11, <1>12, <1>13 DEF IInv, RingStep

\* uartstart() takes a character and wakes the writers.
LEMMA StartTakeStep ==
    ASSUME IInv, StartTake, UartOnly
    PROVE  IInv' /\ EditStep
<1>1. Types /\ TypeOK /\ Locks /\ FifoInv /\ WriterInv /\ ReaderInv /\ CountInv /\ RingInv
  BY DEF IInv, Types
<1>2. RingStep
  <2>1. UNCHANGED inVars
    BY DEF StartTake, UartOnly, inVars
  <2> QED BY <1>1, <2>1, RingQuiet
<1>3. RingInv' /\ InTypes'
  BY <1>2, RingNext DEF RingStep, InTypes, Index
<1>4. UNCHANGED <<hpc, thre, rx, key, echo, n, target, killed>>
  BY DEF StartTake, UartOnly, TxSleepers, inVars, readVars
<1>5. thre' \in BOOLEAN /\ KeyTypes' /\ CountTypes' /\ killed' \in [Proc -> BOOLEAN]
      /\ CountInv'
  BY <1>1, <1>4 DEF Types, TypeOK, KeyTypes, CountTypes, CountInv
<1>6. UartTypes'
  BY <1>1, TxNextIs DEF Types, TypeOK, UartTypes, PCs, StartTake, UartOnly, TxSleepers,
       inVars, readVars
<1>7. Locks'
  BY <1>1, UartAssumption DEF Types, TypeOK, Locks, StartTake, UartOnly, TxSleepers,
       inVars, readVars
<1>8. FifoInv'
  BY <1>1 DEF Types, TypeOK, FifoInv, Sending, TxIdle, StartTake, UartOnly, TxSleepers,
       inVars, readVars
<1>9. WriterInv'
  BY <1>1 DEF Types, TypeOK, WriterInv, TxFull, StartTake, UartOnly, TxSleepers, inVars,
       readVars
<1>10. ReaderInv'
  BY <1>1 DEF Types, TypeOK, ReaderInv, StartTake, UartOnly, TxSleepers, inVars, readVars
<1>11. Types'
  BY <1>3, <1>5, <1>6 DEF Types, TypeOK, InTypes, UartTypes, PCs, KeyTypes, CountTypes
<1> QED BY <1>2, <1>3, <1>5, <1>7, <1>8, <1>9, <1>10, <1>11 DEF IInv, RingStep

\* uartstart() gives the character to the transmitter.
LEMMA StartSendStep ==
    ASSUME IInv, StartSend, UartOnly
    PROVE  IInv' /\ EditStep
<1>1. Types /\ TypeOK /\ Locks /\ FifoInv /\ WriterInv /\ ReaderInv /\ CountInv /\ RingInv
  BY DEF IInv, Types
<1>2. RingStep
  <2>1. UNCHANGED inVars
    BY DEF StartSend, UartOnly, inVars
  <2> QED BY <1>1, <2>1, RingQuiet
<1>3. RingInv' /\ InTypes'
  BY <1>2, RingNext DEF RingStep, InTypes, Index
<1>4. UNCHANGED <<pc, uart_tx_w, uart_tx_r, hpc, rx, r, w, key, echo, n, target, killed>>
  BY DEF StartSend, UartOnly, WriteTHR, inVars, readVars
<1>5. KeyTypes' /\ CountTypes' /\ killed' \in [Proc -> BOOLEAN] /\ WriterInv'
      /\ ReaderInv' /\ CountInv'
  BY <1>1, <1>4 DEF Types, KeyTypes, CountTypes, WriterInv, TxFull, ReaderInv, CountInv
<1>6. UartTypes'
  BY <1>1 DEF Types, TypeOK, UartTypes, PCs, StartSend, UartOnly, WriteTHR, inVars,
       readVars
<1>7. thre' \in BOOLEAN
  BY <1>1, Zenon DEF TypeOK, StartSend, UartOnly, WriteTHR, inVars, readVars
<1>8. Locks'
  BY <1>1, UartAssumption DEF Types, TypeOK, Locks, StartSend, UartOnly, WriteTHR,
       inVars, readVars
<1>9. FifoInv'
  BY <1>1 DEF Types, TypeOK, FifoInv, Sending, StartSend, UartOnly, WriteTHR, inVars,
       readVars
<1>10. Types'
  BY <1>3, <1>5, <1>6, <1>7 DEF Types, TypeOK, InTypes, UartTypes, PCs, KeyTypes,
       CountTypes
<1> QED BY <1>2, <1>3, <1>5, <1>8, <1>9, <1>10 DEF IInv, RingStep

\* uartintr() begins.
LEMMA IntrEnterStep ==
    ASSUME IInv, IntrEnter, UartOnly
    PROVE  IInv' /\ EditStep
<1>1. Types /\ TypeOK /\ Locks /\ FifoInv /\ WriterInv /\ ReaderInv /\ CountInv /\ RingInv
  BY DEF IInv, Types
<1>2. RingStep
  <2>1. UNCHANGED inVars
    BY DEF IntrEnter, UartOnly, inVars
  <2> QED BY <1>1, <2>1, RingQuiet
<1>3. RingInv' /\ InTypes'
  BY <1>2, RingNext DEF RingStep, InTypes, Index
<1>4. UNCHANGED <<pc, uart_tx_w, uart_tx_r, thre, r, w, n, target, killed>>
  BY DEF IntrEnter, UartOnly, txVars, inVars, readVars
<1>5. thre' \in BOOLEAN /\ CountTypes' /\ killed' \in [Proc -> BOOLEAN] /\ WriterInv'
      /\ ReaderInv' /\ CountInv'
  BY <1>1, <1>4 DEF Types, TypeOK, CountTypes, WriterInv, TxFull, ReaderInv, CountInv
<1>6. UartTypes'
  BY <1>1 DEF Types, TypeOK, UartTypes, PCs, IntrEnter, UartOnly, txVars, inVars, readVars
<1>7. KeyTypes'
  BY <1>1 DEF Types, TypeOK, KeyTypes, IntrEnter, UartOnly, txVars, inVars, readVars
<1>8. Locks'
  BY <1>1, UartAssumption DEF Types, TypeOK, Locks, IntrEnter, UartOnly, txVars, inVars,
       readVars
<1>9. FifoInv'
  BY <1>1 DEF Types, TypeOK, FifoInv, Sending, IntrEnter, UartOnly, txVars, inVars,
       readVars
<1>10. Types'
  BY <1>3, <1>5, <1>6, <1>7 DEF Types, TypeOK, InTypes, UartTypes, PCs, KeyTypes,
       CountTypes
<1> QED BY <1>2, <1>3, <1>5, <1>8, <1>9, <1>10 DEF IInv, RingStep

\* uartintr() calls uartstart().
LEMMA IntrStartStep ==
    ASSUME IInv, IntrStart, UartOnly
    PROVE  IInv' /\ EditStep
<1>1. Types /\ TypeOK /\ Locks /\ FifoInv /\ WriterInv /\ ReaderInv /\ CountInv /\ RingInv
  BY DEF IInv, Types
<1>2. RingStep
  <2>1. UNCHANGED inVars
    BY DEF IntrStart, UartOnly, inVars
  <2> QED BY <1>1, <2>1, RingQuiet
<1>3. RingInv' /\ InTypes'
  BY <1>2, RingNext DEF RingStep, InTypes, Index
<1>4. UNCHANGED <<pc, uart_tx_w, uart_tx_r, thre, r, w, n, target, killed>>
  BY DEF IntrStart, UartOnly, IntrTx, inVars, readVars
<1>5. thre' \in BOOLEAN /\ CountTypes' /\ killed' \in [Proc -> BOOLEAN] /\ WriterInv'
      /\ ReaderInv' /\ CountInv'
  BY <1>1, <1>4 DEF Types, TypeOK, CountTypes, WriterInv, TxFull, ReaderInv, CountInv
<1>6. UartTypes'
  BY <1>1 DEF Types, TypeOK, UartTypes, PCs, IntrStart, UartOnly, IntrTx, inVars, readVars
<1>7. KeyTypes'
  BY <1>1 DEF Types, TypeOK, KeyTypes, IntrStart, UartOnly, IntrTx, inVars, readVars
<1>8. Locks'
  BY <1>1, UartAssumption DEF Types, TypeOK, Locks, IntrStart, UartOnly, IntrTx, inVars,
       readVars
<1>9. FifoInv'
  BY <1>1 DEF Types, TypeOK, FifoInv, Sending, IntrStart, UartOnly, IntrTx, inVars,
       readVars
<1>10. Types'
  BY <1>3, <1>5, <1>6, <1>7 DEF Types, TypeOK, InTypes, UartTypes, PCs, KeyTypes,
       CountTypes
<1> QED BY <1>2, <1>3, <1>5, <1>8, <1>9, <1>10 DEF IInv, RingStep

\* The transmitter sends a character.
LEMMA DrainStep ==
    ASSUME IInv, Drain, UartOnly
    PROVE  IInv' /\ EditStep
<1>1. Types /\ TypeOK /\ Locks /\ FifoInv /\ WriterInv /\ ReaderInv /\ CountInv /\ RingInv
  BY DEF IInv, Types
<1>2. RingStep
  <2>1. UNCHANGED inVars
    BY DEF Drain, UartOnly, inVars
  <2> QED BY <1>1, <2>1, RingQuiet
<1>3. RingInv' /\ InTypes'
  BY <1>2, RingNext DEF RingStep, InTypes, Index
<1>4. UNCHANGED <<pc, uart_tx_w, uart_tx_r, txlock, start, hpc, rx, r, w, conslock, key,
                  echo, n, target, killed>>
  BY DEF Drain, UartOnly, txVars, inVars, readVars
<1>5. KeyTypes' /\ CountTypes' /\ killed' \in [Proc -> BOOLEAN] /\ Locks'
      /\ WriterInv' /\ ReaderInv' /\ CountInv'
  BY <1>1, <1>4 DEF Types, KeyTypes, CountTypes, Locks, WriterInv, TxFull, ReaderInv,
       CountInv
<1>6. UartTypes'
  BY <1>1 DEF Types, TypeOK, UartTypes, PCs, Drain, UartOnly, txVars, inVars, readVars
<1>7. thre' \in BOOLEAN
  BY <1>1, Zenon DEF TypeOK, Drain, UartOnly, txVars, inVars, readVars
<1>8. FifoInv'
  BY <1>1 DEF Types, TypeOK, FifoInv, Sending, Drain, UartOnly, txVars, inVars, readVars
<1>9. Types'
  BY <1>3, <1>5, <1>6, <1>7 DEF Types, TypeOK, InTypes, UartTypes, PCs, KeyTypes,
       CountTypes
<1> QED BY <1>2, <1>3, <1>5, <1>8, <1>9 DEF IInv, RingStep

\* A key is pressed.
LEMMA PressStep ==
    ASSUME IInv, NEW c \in Key, Press(c)
    PROVE  IInv' /\ EditStep
<1>1. Types /\ TypeOK /\ Locks /\ FifoInv /\ WriterInv /\ ReaderInv /\ CountInv /\ RingInv
  BY DEF IInv, Types
<1>2. RingStep
  <2>1. UNCHANGED inVars
    BY DEF Press, inVars
  <2> QED BY <1>1, <2>1, RingQuiet
<1>3. RingInv' /\ InTypes'
  BY <1>2, RingNext DEF RingStep, InTypes, Index
<1>4. UNCHANGED <<pc, uart_tx_w, uart_tx_r, txlock, start, hpc, fifo, thre, r, w,
                  conslock, echo, n, target, killed>>
  BY DEF Press, txVars, inVars
<1>5. UartTypes' /\ thre' \in BOOLEAN /\ CountTypes' /\ killed' \in [Proc -> BOOLEAN]
      /\ Locks' /\ FifoInv' /\ WriterInv' /\ ReaderInv' /\ CountInv'
  BY <1>1, <1>4 DEF Types, TypeOK, UartTypes, PCs, CountTypes, Locks, FifoInv, WriterInv,
       TxFull, ReaderInv, CountInv
<1>6. KeyTypes'
  BY <1>1 DEF Types, TypeOK, KeyTypes, Press, txVars, inVars
<1>7. Types'
  BY <1>3, <1>5, <1>6 DEF Types, TypeOK, InTypes, UartTypes, PCs, KeyTypes, CountTypes
<1> QED BY <1>2, <1>3, <1>5, <1>7 DEF IInv, RingStep

\* consolewrite() is called.
LEMMA WriteCallStep ==
    ASSUME IInv, NEW p \in Proc, WriteCall(p)
    PROVE  IInv' /\ EditStep
<1>1. Types /\ TypeOK /\ Locks /\ FifoInv /\ WriterInv /\ ReaderInv /\ CountInv /\ RingInv
  BY DEF IInv, Types
<1>2. RingStep
  <2>1. UNCHANGED inVars
    BY DEF WriteCall, inVars
  <2> QED BY <1>1, <2>1, RingQuiet
<1>3. RingInv' /\ InTypes'
  BY <1>2, RingNext DEF RingStep, InTypes, Index
<1>4. UNCHANGED <<start, hpc, fifo, thre, rx, key, echo, n, target, killed>>
  BY DEF WriteCall, Goto, txVars, inVars
<1>5. thre' \in BOOLEAN /\ KeyTypes' /\ CountTypes' /\ killed' \in [Proc -> BOOLEAN]
      /\ FifoInv' /\ CountInv'
  BY <1>1, <1>4 DEF Types, TypeOK, KeyTypes, CountTypes, FifoInv, CountInv
<1>6. UartTypes'
  BY <1>1 DEF Types, TypeOK, UartTypes, PCs, WriteCall, Goto, txVars, inVars
<1>7. Locks'
  BY <1>1, UartAssumption DEF Types, TypeOK, Locks, WriteCall, Goto, txVars, inVars
<1>8. WriterInv'
  BY <1>1 DEF Types, TypeOK, WriterInv, TxFull, WriteCall, Goto, txVars, inVars
<1>9. ReaderInv'
  BY <1>1 DEF Types, TypeOK, ReaderInv, WriteCall, Goto, txVars, inVars
<1>10. Types'
  BY <1>3, <1>5, <1>6 DEF Types, TypeOK, InTypes, UartTypes, PCs, KeyTypes, CountTypes
<1> QED BY <1>2, <1>3, <1>5, <1>7, <1>8, <1>9, <1>10 DEF IInv, RingStep

\* consoleintr() begins.
LEMMA KeyTakenStep ==
    ASSUME IInv, KeyTaken
    PROVE  IInv' /\ EditStep
<1>1. Types /\ TypeOK /\ Locks /\ FifoInv /\ WriterInv /\ ReaderInv /\ CountInv /\ RingInv
  BY DEF IInv, Types
<1>2. RingStep
  <2>1. UNCHANGED inVars
    BY DEF KeyTaken, inVars
  <2> QED BY <1>1, <2>1, RingQuiet
<1>3. RingInv' /\ InTypes'
  BY <1>2, RingNext DEF RingStep, InTypes, Index
<1>4. UNCHANGED <<pc, uart_tx_w, uart_tx_r, thre, r, w, n, target, killed>>
  BY DEF KeyTaken, txVars, inVars, readVars
<1>5. thre' \in BOOLEAN /\ CountTypes' /\ killed' \in [Proc -> BOOLEAN] /\ WriterInv'
      /\ ReaderInv' /\ CountInv'
  BY <1>1, <1>4 DEF Types, TypeOK, CountTypes, WriterInv, TxFull, ReaderInv, CountInv
<1>6. UartTypes'
  BY <1>1, EchoIs DEF Types, TypeOK, UartTypes, PCs, KeyTaken, txVars, inVars, readVars
<1>7. KeyTypes'
  BY <1>1 DEF Types, TypeOK, KeyTypes, KeyTaken, txVars, inVars, readVars
<1>8. Locks'
  BY <1>1, UartAssumption DEF Types, TypeOK, Locks, KeyTaken, txVars, inVars, readVars
<1>9. FifoInv'
  BY <1>1 DEF Types, TypeOK, FifoInv, Sending, KeyTaken, txVars, inVars, readVars
<1>10. Types'
  BY <1>3, <1>5, <1>6, <1>7 DEF Types, TypeOK, InTypes, UartTypes, PCs, KeyTypes,
       CountTypes
<1> QED BY <1>2, <1>3, <1>5, <1>8, <1>9, <1>10 DEF IInv, RingStep

\* The echo finds the transmitter idle.
LEMMA EchoTestStep ==
    ASSUME IInv, EchoTest
    PROVE  IInv' /\ EditStep
<1>1. Types /\ TypeOK /\ Locks /\ FifoInv /\ WriterInv /\ ReaderInv /\ CountInv /\ RingInv
  BY DEF IInv, Types
<1>2. RingStep
  <2>1. UNCHANGED inVars
    BY DEF EchoTest, inVars
  <2> QED BY <1>1, <2>1, RingQuiet
<1>3. RingInv' /\ InTypes'
  BY <1>2, RingNext DEF RingStep, InTypes, Index
<1>4. UNCHANGED <<pc, uart_tx_w, uart_tx_r, thre, r, w, n, target, killed>>
  BY DEF EchoTest, EchoReady, TxIdle, txVars, inVars, readVars
<1>5. thre' \in BOOLEAN /\ CountTypes' /\ killed' \in [Proc -> BOOLEAN] /\ WriterInv'
      /\ ReaderInv' /\ CountInv'
  BY <1>1, <1>4 DEF Types, TypeOK, CountTypes, WriterInv, TxFull, ReaderInv, CountInv
<1>6. UartTypes'
  BY <1>1 DEF Types, TypeOK, UartTypes, PCs, EchoTest, EchoReady, TxIdle, txVars, inVars,
       readVars
<1>7. KeyTypes'
  BY <1>1 DEF Types, TypeOK, KeyTypes, EchoTest, EchoReady, TxIdle, txVars, inVars,
       readVars
<1>8. Locks'
  BY <1>1, UartAssumption DEF Types, TypeOK, Locks, EchoTest, EchoReady, TxIdle, txVars,
       inVars, readVars
<1>9. FifoInv'
  BY <1>1 DEF Types, TypeOK, FifoInv, Sending, EchoTest, EchoReady, TxIdle, txVars,
       inVars, readVars
<1>10. Types'
  BY <1>3, <1>5, <1>6, <1>7 DEF Types, TypeOK, InTypes, UartTypes, PCs, KeyTypes,
       CountTypes
<1> QED BY <1>2, <1>3, <1>5, <1>8, <1>9, <1>10 DEF IInv, RingStep

\* The echo gives a character to the transmitter.
LEMMA EchoSendStep ==
    ASSUME IInv, EchoSend
    PROVE  IInv' /\ EditStep
<1>1. Types /\ TypeOK /\ Locks /\ FifoInv /\ WriterInv /\ ReaderInv /\ CountInv /\ RingInv
  BY DEF IInv, Types
<1>2. RingStep
  <2>1. UNCHANGED inVars
    BY DEF EchoSend, inVars
  <2> QED BY <1>1, <2>1, RingQuiet
<1>3. RingInv' /\ InTypes'
  BY <1>2, RingNext DEF RingStep, InTypes, Index
<1>4. UNCHANGED <<pc, uart_tx_w, uart_tx_r, r, w, n, target, killed>>
  BY DEF EchoSend, WriteTHR, txVars, inVars, readVars
<1>5. CountTypes' /\ killed' \in [Proc -> BOOLEAN] /\ WriterInv' /\ ReaderInv'
      /\ CountInv'
  BY <1>1, <1>4 DEF Types, CountTypes, WriterInv, TxFull, ReaderInv, CountInv
<1>6. UartTypes'
  BY <1>1 DEF Types, TypeOK, UartTypes, PCs, EchoSend, WriteTHR, txVars, inVars, readVars
<1>7. thre' \in BOOLEAN
  BY <1>1, Zenon DEF TypeOK, EchoSend, WriteTHR, txVars, inVars, readVars
<1>8. KeyTypes'
  BY <1>1 DEF Types, TypeOK, KeyTypes, EchoSend, WriteTHR, txVars, inVars, readVars
<1>9. Locks'
  BY <1>1, UartAssumption DEF Types, TypeOK, Locks, EchoSend, WriteTHR, txVars, inVars,
       readVars
<1>10. FifoInv'
  BY <1>1 DEF Types, TypeOK, FifoInv, Sending, EchoSend, WriteTHR, txVars, inVars,
       readVars
<1>11. Types'
  BY <1>3, <1>5, <1>6, <1>7, <1>8 DEF Types, TypeOK, InTypes, UartTypes, PCs, KeyTypes,
       CountTypes
<1> QED BY <1>2, <1>3, <1>5, <1>9, <1>10, <1>11 DEF IInv, RingStep

\* consoleintr() ends.
LEMMA KeyDoneStep ==
    ASSUME IInv, KeyDone
    PROVE  IInv' /\ EditStep
<1>1. Types /\ TypeOK /\ Locks /\ FifoInv /\ WriterInv /\ ReaderInv /\ CountInv /\ RingInv
  BY DEF IInv, Types
<1>2. RingStep
  <2>1. key \in Key
    BY <1>1 DEF Types, KeyDone
  <2> QED BY <1>1, <2>1, KeyRing
<1>3. \/ pc' = pc /\ w' = w
      \/ pc' = ReaderWakes
  BY DEF KeyDone, Store
<1>4. RingInv' /\ InTypes'
  BY <1>2, RingNext DEF RingStep, InTypes, Index
<1>5. UNCHANGED <<thre, n, target, killed>>
  BY DEF KeyDone, Store, ReaderWakes, txVars, readVars
<1>6. thre' \in BOOLEAN /\ CountTypes' /\ killed' \in [Proc -> BOOLEAN] /\ CountInv'
  BY <1>1, <1>5 DEF Types, TypeOK, CountTypes, CountInv
<1>7. UartTypes'
  BY <1>1 DEF Types, TypeOK, UartTypes, PCs, KeyDone, Store, ReaderWakes, txVars, readVars
<1>8. KeyTypes'
  BY <1>1 DEF Types, TypeOK, KeyTypes, KeyDone, Store, ReaderWakes, txVars, readVars
<1>9. Locks'
  <2>1. /\ hpc = "echo" /\ hpc' = "rx" /\ conslock' = None
        /\ txlock' = txlock /\ start' = start
    BY DEF KeyDone, txVars
  <2>2. \A q \in Proc : /\ pc'[q] = "start" <=> pc[q] = "start"
                        /\ pc'[q] \in {"rtop", "rtest"} <=> pc[q] \in {"rtop", "rtest"}
    BY <1>3 DEF ReaderWakes
  <2>3. conslock = "intr" /\ \A q \in Proc : q # "intr" /\ q # None
    BY <1>1, <2>1, UartAssumption DEF Locks
  <2>4. "intr" # None
    BY UartAssumption
  <2> QED BY <1>1, <2>1, <2>2, <2>3, <2>4 DEF Locks
<1>10. FifoInv'
  BY <1>1 DEF Types, TypeOK, FifoInv, Sending, KeyDone, Store, ReaderWakes, txVars,
       readVars
<1>11. WriterInv'
  BY <1>1 DEF Types, TypeOK, WriterInv, TxFull, KeyDone, Store, ReaderWakes, txVars,
       readVars
<1>12. ReaderInv'
  <2>1. r' = r
    BY DEF KeyDone
  <2>2. CASE pc' = pc /\ w' = w
    BY <1>1, <2>1, <2>2 DEF ReaderInv
  <2>3. CASE pc' = ReaderWakes
    <3>1. \A q \in Proc : pc[q] # "rtest"
      BY <1>1, UartAssumption DEF Locks, KeyDone
    <3> QED BY <2>3, <3>1 DEF ReaderInv, ReaderWakes
  <2> QED BY <1>3, <2>2, <2>3
<1>13. Types'
  BY <1>4, <1>6, <1>7, <1>8 DEF Types, TypeOK, InTypes, UartTypes, PCs, KeyTypes,
       CountTypes
<1> QED BY <1>2, <1>4, <1>6, <1>9, <1>10, <1>11, <1>12, <1>13 DEF IInv, RingStep

\* consoleread() is called.
LEMMA ReadCallStep ==
    ASSUME IInv, NEW p \in Proc, NEW len \in 0 .. MaxLen, ReadCall(p, len)
    PROVE  IInv' /\ EditStep
<1>1. Types /\ TypeOK /\ Locks /\ FifoInv /\ WriterInv /\ ReaderInv /\ CountInv /\ RingInv
  BY DEF IInv, Types
<1>2. RingStep
  <2>1. UNCHANGED inVars
    BY DEF ReadCall, inVars
  <2> QED BY <1>1, <2>1, RingQuiet
<1>3. RingInv' /\ InTypes'
  BY <1>2, RingNext DEF RingStep, InTypes, Index
<1>4. UNCHANGED <<start, hpc, fifo, thre, rx, key, echo, killed>>
  BY DEF ReadCall, Goto, txVars, inVars
<1>5. thre' \in BOOLEAN /\ KeyTypes' /\ killed' \in [Proc -> BOOLEAN] /\ FifoInv'
  BY <1>1, <1>4 DEF Types, TypeOK, KeyTypes, FifoInv
<1>6. UartTypes'
  BY <1>1 DEF Types, TypeOK, UartTypes, PCs, ReadCall, Goto, txVars, inVars
<1>7. CountTypes'
  BY <1>1 DEF Types, CountTypes, ReadCall, Goto, txVars, inVars
<1>8. Locks'
  BY <1>1, UartAssumption DEF Types, TypeOK, Locks, ReadCall, Goto, txVars, inVars
<1>9. WriterInv'
  BY <1>1 DEF Types, TypeOK, WriterInv, TxFull, ReadCall, Goto, txVars, inVars
<1>10. ReaderInv'
  BY <1>1 DEF Types, TypeOK, ReaderInv, ReadCall, Goto, txVars, inVars
<1>11. CountInv'
  BY <1>1 DEF Types, CountInv, ReadCall, Goto, txVars, inVars
<1>12. Types'
  BY <1>3, <1>5, <1>6, <1>7 DEF Types, TypeOK, InTypes, UartTypes, PCs, KeyTypes,
       CountTypes
<1> QED BY <1>2, <1>3, <1>5, <1>8, <1>9, <1>10, <1>11, <1>12 DEF IInv, RingStep

\* consoleread() gets cons.lock.
LEMMA ReadLockStep ==
    ASSUME IInv, NEW p \in Proc, ReadLock(p)
    PROVE  IInv' /\ EditStep
<1>1. Types /\ TypeOK /\ Locks /\ FifoInv /\ WriterInv /\ ReaderInv /\ CountInv /\ RingInv
  BY DEF IInv, Types
<1>2. RingStep
  <2>1. UNCHANGED inVars
    BY DEF ReadLock, inVars
  <2> QED BY <1>1, <2>1, RingQuiet
<1>3. RingInv' /\ InTypes'
  BY <1>2, RingNext DEF RingStep, InTypes, Index
<1>4. UNCHANGED <<start, hpc, fifo, thre, rx, key, echo, n, target, killed>>
  BY DEF ReadLock, Goto, txVars, inVars, readVars
<1>5. thre' \in BOOLEAN /\ KeyTypes' /\ CountTypes' /\ killed' \in [Proc -> BOOLEAN]
      /\ FifoInv' /\ CountInv'
  BY <1>1, <1>4 DEF Types, TypeOK, KeyTypes, CountTypes, FifoInv, CountInv
<1>6. UartTypes'
  BY <1>1 DEF Types, TypeOK, UartTypes, PCs, ReadLock, Goto, txVars, inVars, readVars
<1>7. Locks'
  BY <1>1, UartAssumption DEF Types, TypeOK, Locks, ReadLock, Goto, txVars, inVars,
       readVars
<1>8. WriterInv'
  BY <1>1 DEF Types, TypeOK, WriterInv, TxFull, ReadLock, Goto, txVars, inVars, readVars
<1>9. ReaderInv'
  BY <1>1 DEF Types, TypeOK, ReaderInv, ReadLock, Goto, txVars, inVars, readVars
<1>10. Types'
  BY <1>3, <1>5, <1>6 DEF Types, TypeOK, InTypes, UartTypes, PCs, KeyTypes, CountTypes
<1> QED BY <1>2, <1>3, <1>5, <1>7, <1>8, <1>9, <1>10 DEF IInv, RingStep

\* consoleread() returns.
LEMMA ReadEndStep ==
    ASSUME IInv, NEW p \in Proc, ReadEnd(p)
    PROVE  IInv' /\ EditStep
<1>1. Types /\ TypeOK /\ Locks /\ FifoInv /\ WriterInv /\ ReaderInv /\ CountInv /\ RingInv
  BY DEF IInv, Types
<1>2. RingStep
  <2>1. UNCHANGED inVars
    BY DEF ReadEnd, inVars
  <2> QED BY <1>1, <2>1, RingQuiet
<1>3. RingInv' /\ InTypes'
  BY <1>2, RingNext DEF RingStep, InTypes, Index
<1>4. UNCHANGED <<start, hpc, fifo, thre, rx, key, echo>>
  BY DEF ReadEnd, ReadReturns, Goto, txVars, inVars
<1>5. thre' \in BOOLEAN /\ KeyTypes' /\ FifoInv'
  BY <1>1, <1>4 DEF Types, TypeOK, KeyTypes, FifoInv
<1>6. UartTypes'
  BY <1>1 DEF Types, TypeOK, UartTypes, PCs, ReadEnd, ReadReturns, Goto, txVars, inVars
<1>7. CountTypes'
  BY <1>1 DEF Types, CountTypes, ReadEnd, ReadReturns, Goto, txVars, inVars
<1>8. killed' \in [Proc -> BOOLEAN]
  BY <1>1, Zenon DEF Types, ReadEnd, ReadReturns, Goto, txVars, inVars
<1>9. Locks'
  BY <1>1, UartAssumption DEF Types, TypeOK, Locks, ReadEnd, ReadReturns, Goto, txVars,
       inVars
<1>10. WriterInv'
  BY <1>1 DEF Types, TypeOK, WriterInv, TxFull, ReadEnd, ReadReturns, Goto, txVars, inVars
<1>11. ReaderInv'
  BY <1>1 DEF Types, TypeOK, ReaderInv, ReadEnd, ReadReturns, Goto, txVars, inVars
<1>12. CountInv'
  BY <1>1 DEF Types, CountInv, ReadEnd, ReadReturns, Goto, txVars, inVars
<1>13. Types'
  BY <1>3, <1>5, <1>6, <1>7, <1>8 DEF Types, TypeOK, InTypes, UartTypes, PCs, KeyTypes,
       CountTypes
<1> QED BY <1>2, <1>3, <1>5, <1>9, <1>10, <1>11, <1>12, <1>13 DEF IInv, RingStep

\* consoleread() finds no line.
LEMMA ReadTestStep ==
    ASSUME IInv, NEW p \in Proc, ReadTest(p)
    PROVE  IInv' /\ EditStep
<1>1. Types /\ TypeOK /\ Locks /\ FifoInv /\ WriterInv /\ ReaderInv /\ CountInv /\ RingInv
  BY DEF IInv, Types
<1>2. RingStep
  <2>1. UNCHANGED inVars
    BY DEF ReadTest, inVars
  <2> QED BY <1>1, <2>1, RingQuiet
<1>3. RingInv' /\ InTypes'
  BY <1>2, RingNext DEF RingStep, InTypes, Index
<1>4. UNCHANGED <<start, hpc, fifo, thre, rx, key, echo, n, target, killed>>
  BY DEF ReadTest, Goto, txVars, inVars, readVars
<1>5. thre' \in BOOLEAN /\ KeyTypes' /\ CountTypes' /\ killed' \in [Proc -> BOOLEAN]
      /\ FifoInv' /\ CountInv'
  BY <1>1, <1>4 DEF Types, TypeOK, KeyTypes, CountTypes, FifoInv, CountInv
<1>6. UartTypes'
  BY <1>1 DEF Types, TypeOK, UartTypes, PCs, ReadTest, Goto, txVars, inVars, readVars
<1>7. Locks'
  BY <1>1, UartAssumption DEF Types, TypeOK, Locks, ReadTest, Goto, txVars, inVars,
       readVars
<1>8. WriterInv'
  BY <1>1 DEF Types, TypeOK, WriterInv, TxFull, ReadTest, Goto, txVars, inVars, readVars
<1>9. ReaderInv'
  BY <1>1 DEF Types, TypeOK, ReaderInv, ReadTest, Goto, txVars, inVars, readVars
<1>10. Types'
  BY <1>3, <1>5, <1>6 DEF Types, TypeOK, InTypes, UartTypes, PCs, KeyTypes, CountTypes
<1> QED BY <1>2, <1>3, <1>5, <1>7, <1>8, <1>9, <1>10 DEF IInv, RingStep

\* consoleread() goes to sleep.
LEMMA ReadSleepStep ==
    ASSUME IInv, NEW p \in Proc, ReadSleep(p)
    PROVE  IInv' /\ EditStep
<1>1. Types /\ TypeOK /\ Locks /\ FifoInv /\ WriterInv /\ ReaderInv /\ CountInv /\ RingInv
  BY DEF IInv, Types
<1>2. RingStep
  <2>1. UNCHANGED inVars
    BY DEF ReadSleep, inVars
  <2> QED BY <1>1, <2>1, RingQuiet
<1>3. RingInv' /\ InTypes'
  BY <1>2, RingNext DEF RingStep, InTypes, Index
<1>4. UNCHANGED <<start, hpc, fifo, thre, rx, key, echo, n, target, killed>>
  BY DEF ReadSleep, Goto, txVars, inVars, readVars
<1>5. thre' \in BOOLEAN /\ KeyTypes' /\ CountTypes' /\ killed' \in [Proc -> BOOLEAN]
      /\ FifoInv' /\ CountInv'
  BY <1>1, <1>4 DEF Types, TypeOK, KeyTypes, CountTypes, FifoInv, CountInv
<1>6. UartTypes'
  BY <1>1 DEF Types, TypeOK, UartTypes, PCs, ReadSleep, Goto, txVars, inVars, readVars
<1>7. Locks'
  BY <1>1, UartAssumption DEF Types, TypeOK, Locks, ReadSleep, Goto, txVars, inVars,
       readVars
<1>8. WriterInv'
  BY <1>1 DEF Types, TypeOK, WriterInv, TxFull, ReadSleep, Goto, txVars, inVars, readVars
<1>9. ReaderInv'
  BY <1>1 DEF Types, TypeOK, ReaderInv, ReadSleep, Goto, txVars, inVars, readVars
<1>10. Types'
  BY <1>3, <1>5, <1>6 DEF Types, TypeOK, InTypes, UartTypes, PCs, KeyTypes, CountTypes
<1> QED BY <1>2, <1>3, <1>5, <1>7, <1>8, <1>9, <1>10 DEF IInv, RingStep

\* consoleread() meets ^D.
LEMMA ReadEofStep ==
    ASSUME IInv, NEW p \in Proc, ReadEof(p)
    PROVE  IInv' /\ EditStep
<1>1. Types /\ TypeOK /\ Locks /\ FifoInv /\ WriterInv /\ ReaderInv /\ CountInv /\ RingInv
  BY DEF IInv, Types
<1>2. RingStep
  <2>1. /\ r # w /\ w' = w /\ e' = e /\ buf' = Emptied(r, r')
        /\ r' = r \/ r' = Plus1(r)
    BY DEF ReadEof
  <2> QED BY <1>1, <2>1, ReadRing
<1>3. RingInv' /\ InTypes'
  BY <1>2, RingNext DEF RingStep, InTypes, Index
<1>4. UNCHANGED <<start, hpc, fifo, thre, rx, key, echo>>
  BY DEF ReadEof, ReadReturns, Goto, txVars
<1>5. thre' \in BOOLEAN /\ KeyTypes' /\ FifoInv'
  BY <1>1, <1>4 DEF Types, TypeOK, KeyTypes, FifoInv
<1>6. UartTypes'
  BY <1>1 DEF Types, TypeOK, UartTypes, PCs, ReadEof, ReadReturns, Goto, txVars
<1>7. CountTypes'
  BY <1>1 DEF Types, CountTypes, ReadEof, ReadReturns, Goto, txVars
<1>8. killed' \in [Proc -> BOOLEAN]
  BY <1>1, Zenon DEF Types, ReadEof, ReadReturns, Goto, txVars
<1>9. Locks'
  BY <1>1, UartAssumption DEF Types, TypeOK, Locks, ReadEof, ReadReturns, Goto, txVars
<1>10. WriterInv'
  BY <1>1 DEF Types, TypeOK, WriterInv, TxFull, ReadEof, ReadReturns, Goto, txVars
<1>11. ReaderInv'
  BY <1>1 DEF Types, TypeOK, ReaderInv, ReadEof, ReadReturns, Goto, txVars
<1>12. CountInv'
  BY <1>1 DEF Types, CountInv, ReadEof, ReadReturns, Goto, txVars
<1>13. Types'
  BY <1>3, <1>5, <1>6, <1>7, <1>8 DEF Types, TypeOK, InTypes, UartTypes, PCs, KeyTypes,
       CountTypes
<1> QED BY <1>2, <1>3, <1>5, <1>9, <1>10, <1>11, <1>12, <1>13 DEF IInv, RingStep

\* consoleread() takes a character.
LEMMA ReadCharStep ==
    ASSUME IInv, NEW p \in Proc, ReadChar(p)
    PROVE  IInv' /\ EditStep
<1>1. Types /\ TypeOK /\ Locks /\ FifoInv /\ WriterInv /\ ReaderInv /\ CountInv /\ RingInv
  BY DEF IInv, Types
<1>2. RingStep
  <2>1. /\ r # w /\ w' = w /\ e' = e /\ buf' = Emptied(r, r')
        /\ r' = r \/ r' = Plus1(r)
    BY DEF ReadChar
  <2> QED BY <1>1, <2>1, ReadRing
<1>3. \/ ReadReturns(p)
      \/ n' = [n EXCEPT ![p] = n[p] - 1] /\ UNCHANGED <<pc, conslock, target, killed>>
  BY DEF ReadChar
<1>4. n \in [Proc -> Nat] /\ target \in [Proc -> Nat] /\ n[p] > 0
  BY <1>1 DEF Types, ReadChar
<1>5. RingInv' /\ InTypes'
  BY <1>2, RingNext DEF RingStep, InTypes, Index
<1>6. UNCHANGED <<start, hpc, fifo, thre, rx, key, echo>>
  BY DEF ReadChar, ReadReturns, Goto, txVars
<1>7. thre' \in BOOLEAN /\ KeyTypes' /\ FifoInv'
  BY <1>1, <1>6 DEF Types, TypeOK, KeyTypes, FifoInv
<1>8. UartTypes'
  BY <1>1 DEF Types, TypeOK, UartTypes, PCs, ReadChar, ReadReturns, Goto, txVars
<1>9. CountTypes'
  <2>1. n[p] - 1 \in Nat
    BY <1>4
  <2> QED BY <1>3, <1>4, <2>1 DEF CountTypes, ReadReturns
<1>10. killed' \in [Proc -> BOOLEAN]
  BY <1>1, Zenon DEF Types, ReadChar, ReadReturns, Goto, txVars
<1>11. Locks'
  <2>1. /\ pc[p] = "rtop" /\ conslock = p
        /\ txlock' = txlock /\ start' = start /\ hpc' = hpc
    BY <1>1 DEF ReadChar, Locks, txVars
  <2>2. CASE ReadReturns(p)
    BY <1>1, <2>1, <2>2, UartAssumption DEF Types, TypeOK, Locks, ReadReturns, Goto
  <2>3. CASE UNCHANGED <<pc, conslock, target, killed>>
    BY <1>1, <2>1, <2>3 DEF Locks
  <2> QED BY <1>3, <2>2, <2>3
<1>12. WriterInv'
  BY <1>1 DEF Types, TypeOK, WriterInv, TxFull, ReadChar, ReadReturns, Goto, txVars
<1>13. ReaderInv'
  BY <1>1 DEF Types, TypeOK, ReaderInv, ReadChar, ReadReturns, Goto, txVars
<1>14. CountInv'
  <2>1. CASE ReadReturns(p)
    BY <1>1, <1>4, <2>1 DEF CountInv, ReadReturns
  <2>2. CASE n' = [n EXCEPT ![p] = n[p] - 1] /\ target' = target
    BY <1>1, <1>4, <2>2 DEF CountInv
  <2> QED BY <1>3, <2>1, <2>2
<1>15. Types'
  BY <1>5, <1>7, <1>8, <1>9, <1>10 DEF Types, TypeOK, InTypes, UartTypes, PCs, KeyTypes,
       CountTypes
<1> QED BY <1>2, <1>5, <1>7, <1>11, <1>12, <1>13, <1>14, <1>15 DEF IInv, RingStep

\* A reader is killed.
LEMMA KillStep ==
    ASSUME IInv, NEW p \in Proc, Kill(p)
    PROVE  IInv' /\ EditStep
<1>1. Types /\ TypeOK /\ Locks /\ FifoInv /\ WriterInv /\ ReaderInv /\ CountInv /\ RingInv
  BY DEF IInv, Types
<1>2. RingStep
  <2>1. UNCHANGED inVars
    BY DEF Kill, inVars
  <2> QED BY <1>1, <2>1, RingQuiet
<1>3. RingInv' /\ InTypes'
  BY <1>2, RingNext DEF RingStep, InTypes, Index
<1>4. UNCHANGED <<start, hpc, fifo, thre, rx, key, echo, n, target>>
  BY DEF Kill, Goto, txVars, inVars
<1>5. thre' \in BOOLEAN /\ KeyTypes' /\ CountTypes' /\ FifoInv' /\ CountInv'
  BY <1>1, <1>4 DEF Types, TypeOK, KeyTypes, CountTypes, FifoInv, CountInv
<1>6. UartTypes'
  BY <1>1 DEF Types, TypeOK, UartTypes, PCs, Kill, Goto, txVars, inVars
<1>7. killed' \in [Proc -> BOOLEAN]
  BY <1>1, Zenon DEF Types, Kill, Goto, txVars, inVars
<1>8. Locks'
  BY <1>1, UartAssumption DEF Types, TypeOK, Locks, Kill, Goto, txVars, inVars
<1>9. WriterInv'
  BY <1>1 DEF Types, TypeOK, WriterInv, TxFull, Kill, Goto, txVars, inVars
<1>10. ReaderInv'
  BY <1>1 DEF Types, TypeOK, ReaderInv, Kill, Goto, txVars, inVars
<1>11. Types'
  BY <1>3, <1>5, <1>6, <1>7 DEF Types, TypeOK, InTypes, UartTypes, PCs, KeyTypes,
       CountTypes
<1> QED BY <1>2, <1>3, <1>5, <1>8, <1>9, <1>10, <1>11 DEF IInv, RingStep

-----------------------------------------------------------------------------
(***************************************************************************)
(* The theorems.                                                           *)
(***************************************************************************)
\* The console begins as the invariant and as the line editor say.
LEMMA InitHolds ==
    ASSUME Init
    PROVE  IInv /\ L!EditorInit
<1> USE Sizes
<1>1. r = 0 /\ w = 0 /\ e = 0 /\ 0 \in Index
  BY DEF Init, Index
<1>2. Minus(w, r) = 0 /\ Minus(e, w) = 0 /\ Minus(e, r) = 0
  BY <1>1, Distances
<1>3. TypeOK
  <2>1. InTypes
    BY <1>1 DEF Init, InTypes, Index
  <2>2. UartTypes
    BY UartAssumption DEF Init, UartInit, UartTypes, PCs
  <2>3. thre \in BOOLEAN
    BY Zenon DEF Init, UartInit
  <2> QED BY <2>1, <2>2, <2>3 DEF TypeOK, InTypes, UartTypes, PCs
<1>4. Types
  <2>1. KeyTypes /\ CountTypes
    BY DEF Init, UartInit, KeyTypes, CountTypes
  <2>2. killed \in [Proc -> BOOLEAN]
    BY Zenon DEF Init
  <2> QED BY <1>3, <2>1, <2>2 DEF Types, KeyTypes, CountTypes
<1>5. Locks
  BY UartAssumption DEF Init, UartInit, Locks
<1>6. FifoInv /\ WriterInv /\ ReaderInv /\ CountInv
  BY DEF Init, UartInit, FifoInv, Sending, WriterInv, ReaderInv, CountInv
<1>7. RingInv
  BY <1>2 DEF RingInv, FullBufferIsReadable
<1>8. Chars(r, w) = << >> /\ Chars(w, e) = << >>
  <2>1. buf \in Rings /\ 0 \in Nat
    BY <1>3 DEF TypeOK, Rings, Slots
  <2>2. Chars(r, w) = Text(buf, r, w) /\ Chars(w, e) = Text(buf, w, e)
    BY <1>3, TextNow
  <2>3. Window(buf, 0, 0) = << >>
    BY <2>1, WindowEmpty
  <2> QED BY <1>1, <1>2, <2>2, <2>3 DEF Text
<1> QED BY <1>4, <1>5, <1>6, <1>7, <1>8 DEF IInv, L!EditorInit

\* Every step preserves the invariant and is a step of the line editor.
LEMMA NextHolds ==
    ASSUME IInv, [Next]_vars
    PROVE  IInv' /\ EditStep
<1>1. CASE \E c \in Key : Press(c)
  BY <1>1, PressStep
<1>2. CASE Handler
  BY <1>2, IntrEnterStep, KeyTakenStep, EchoTestStep, EchoSendStep, KeyDoneStep,
     IntrStartStep DEF Handler
<1>3. CASE (StartStep \/ Drain) /\ UartOnly
  BY <1>3, StartReturnStep, StartTakeStep, StartSendStep, DrainStep DEF StartStep
<1>4. ASSUME NEW p \in Proc,
             \/ WriteCall(p)
             \/ (PutFull(p) \/ PutChar(p)) /\ UartOnly
             \/ \E len \in 0 .. MaxLen : ReadCall(p, len)
             \/ ReadLock(p) \/ InRead(p) \/ Kill(p)
      PROVE  IInv' /\ EditStep
  BY <1>4, WriteCallStep, PutFullStep, PutCharStep, ReadCallStep, ReadLockStep,
     ReadEndStep, ReadTestStep, ReadSleepStep, ReadEofStep, ReadCharStep, KillStep
     DEF InRead
<1>5. CASE UNCHANGED vars
  <2>1. IInv'
    BY <1>5 DEF vars, uartVars, txVars, inVars, readVars, IInv, Types, TypeOK, Locks,
       FifoInv, WriterInv, TxFull, ReaderInv, CountInv, RingInv, FullBufferIsReadable,
       At, Minus
  <2>2. EditStep
    BY <1>5 DEF vars, inVars, EditStep, Chars, At, Minus
  <2> QED BY <2>1, <2>2
<1> QED BY <1>1, <1>2, <1>3, <1>4, <1>5 DEF Next

\* The inductive invariant: the places of the holders of the two locks, the
\* reasons of those who sleep, and the order of the input ring's indices.
THEOREM ConsoleInvariant == Spec => []IInv
<1>1. Init => IInv
  BY InitHolds
<1>2. IInv /\ [Next]_vars => IInv'
  BY NextHolds
<1> QED BY <1>1, <1>2, PTL DEF Spec

\* The console never gets stuck: uartputc() sleeps only on a full transmit ring,
\* consoleread() only while no line is complete, and a full input ring has a
\* line for the reader.
THEOREM ConsoleNeverStuck == Spec => []ConsoleInv
<1>1. IInv => ConsoleInv
  BY DEF IInv, Types, WriterInv, ReaderInv, RingInv, ConsoleInv,
     SleepingWriterHasReason, SleepingReaderHasReason
<1> QED BY <1>1, ConsoleInvariant, PTL

\* The echo of consoleintr() and uartstart() test LSR and write THR without a
\* common lock, and yet never give the 16550 more than it holds: no more than
\* two can have found it idle.
THEOREM TransmitterNeverOverrun == Spec => []TransmitterNotOverrun
<1>1. IInv => TransmitterNotOverrun
  BY UartAssumption DEF IInv, Types, TypeOK, FifoInv, Sending, TransmitterNotOverrun
<1> QED BY <1>1, ConsoleInvariant, PTL

\* ^D is used up only by a consoleread() that returns nothing.
THEOREM EofSeenOnce == Spec => EofGivesEmptyRead
<1> DEFINE A == \A p \in Proc :
                  pc[p] = "rtop" /\ r' # r /\ At(r) = "eof" => n[p] = target[p]
<1>1. ASSUME IInv, [Next]_vars
      PROVE  A
  <2> SUFFICES ASSUME NEW p \in Proc, pc[p] = "rtop", r' # r, At(r) = "eof"
               PROVE  n[p] = target[p]
    OBVIOUS
  <2>1. PICK q \in Proc : ReadEof(q) /\ ~KeepEof(q)
    <3>1. \E q \in Proc : ReadEof(q) \/ ReadChar(q)
      BY <1>1 DEF Next, Press, Handler, IntrEnter, KeyTaken, EchoTest, EchoSend, KeyDone,
         IntrStart, StartStep, StartReturn, StartTake, StartSend, Drain, UartOnly,
         WriteCall, PutFull, PutChar, ReadCall, ReadLock, InRead, ReadEnd, ReadTest,
         ReadSleep, Kill, vars, inVars
    <3> QED BY <3>1 DEF ReadEof, ReadChar
  <2>2. q = p
    BY <1>1, <2>1 DEF IInv, Locks, ReadEof
  <2>3. n[p] \in Nat /\ target[p] \in Nat /\ n[p] <= target[p]
    BY <1>1 DEF IInv, Types, CountInv
  <2> QED BY <2>1, <2>2, <2>3 DEF KeepEof
<1>2. IInv /\ [Next]_vars => [A]_vars
  BY <1>1
<1> QED BY <1>2, ConsoleInvariant, PTL DEF Spec, EofGivesEmptyRead

\* The input ring implements the line editor: consoleintr() never edits an
\* ended line, and consoleread() hands out the ended lines in order, each
\* character once, also when the indices wrap around.
THEOREM ConsoleIsLineEditor == Spec => ImplementsLineEditor
<1>1. Init => L!EditorInit
  BY InitHolds
<1>2. IInv /\ [Next]_vars => [L!EditorNext]_<<Chars(r, w), Chars(w, e)>>
  BY NextHolds DEF EditStep
<1> QED BY <1>1, <1>2, ConsoleInvariant, PTL DEF Spec, ImplementsLineEditor, L!EditorSpec
=============================================================================
