---------------------------- MODULE ItcQueueProofs ----------------------------
(***************************************************************************)
(* Theorems about the queue of an inbox: its types, that the block index   *)
(* finds the block of an element, that a claim succeeds, that a block has  *)
(* one owner and that none is lost, for any number of producers, elements  *)
(* and blocks.                                                             *)
(***************************************************************************)
EXTENDS ItcQueue, SequenceTheorems, FiniteSetTheorems, TLAPS

-----------------------------------------------------------------------------
(* Arithmetic                                                              *)

LEMMA Times ==
    ASSUME NEW n \in Nat \ {0}, NEW a \in Int, NEW b \in Int
    PROVE  /\ a * n \in Int /\ (a + b) * n = a * n + b * n /\ (a - b) * n = a * n - b * n
           /\ a < b => a * n + n <= b * n
           /\ 0 * n = 0 /\ 1 * n = n
<1>1. a * n \in Int /\ (a + b) * n = a * n + b * n /\ (a - b) * n = a * n - b * n  OBVIOUS
<1>2. ASSUME a < b PROVE a * n + n <= b * n
  <2> PICK d \in Nat : b = a + 1 + d  BY <1>2
  <2>1. b * n = a * n + n + d * n  OBVIOUS
  <2>2. d * n >= 0  OBVIOUS
  <2> QED  BY <2>1, <2>2
<1> QED  BY <1>1, <1>2

LEMMA Remainder ==
    ASSUME NEW n \in Nat \ {0}, NEW x \in Int
    PROVE  /\ x \div n \in Int /\ x % n \in 0 .. n - 1
           /\ x = (x \div n) * n + (x % n)
OBVIOUS

LEMMA RemainderIs ==
    ASSUME NEW n \in Nat \ {0}, NEW q \in Int, NEW r \in 0 .. n - 1
    PROVE  (q * n + r) % n = r /\ (q * n + r) \div n = q
<1>1. q * n \in Int  BY Times
<1> PICK x \in Int : x = q * n + r  BY <1>1
<1> PICK s : s = x \div n  OBVIOUS
<1> PICK t : t = x % n  OBVIOUS
<1>2. s \in Int /\ t \in 0 .. n - 1 /\ x = s * n + t  BY Remainder
<1>3. ~(q < s)
  <2> SUFFICES ASSUME q < s PROVE FALSE  OBVIOUS
  <2>1. q * n + n <= s * n /\ s * n \in Int  BY <1>2, Times
  <2> QED  BY <1>1, <1>2, <2>1
<1>4. ~(s < q)
  <2> SUFFICES ASSUME s < q PROVE FALSE  OBVIOUS
  <2>1. s * n + n <= q * n /\ s * n \in Int  BY <1>2, Times
  <2> QED  BY <1>1, <1>2, <2>1
<1>5. s = q  BY <1>2, <1>3, <1>4
<1> QED  BY <1>1, <1>2, <1>5

(* Remainders of sums and differences.                                     *)
LEMMA Congruent ==
    ASSUME NEW n \in Nat \ {0}, NEW x \in Int, NEW y \in Int, NEW a \in Int, y = x + a * n
    PROVE  y % n = x % n
<1> PICK q \in Int : q = x \div n  BY Remainder
<1> PICK r \in 0 .. n - 1 : r = x % n  BY Remainder
<1>1. x = q * n + r  BY Remainder
<1>2. (q + a) * n = q * n + a * n /\ q * n \in Int /\ a * n \in Int  BY Times
<1> PICK z \in Int : z = q + a  OBVIOUS
<1>3. y = z * n + r  BY <1>1, <1>2
<1>4. (z * n + r) % n = r  BY RemainderIs, Zenon
<1> QED  BY <1>3, <1>4

LEMMA Differ ==
    ASSUME NEW n \in Nat \ {0}, NEW x \in Int, NEW y \in Int
    PROVE  /\ ((x % n) + y) % n = (x + y) % n
           /\ ((x % n) - y) % n = (x - y) % n
           /\ (y - (x % n)) % n = (y - x) % n
<1> PICK q \in Int : q = x \div n  BY Remainder
<1> PICK r \in 0 .. n - 1 : r = x % n  BY Remainder
<1>1. x = q * n + r  BY Remainder
<1> PICK p \in Int : p = 0 - q  OBVIOUS
<1>2. q * n \in Int /\ p * n = 0 - q * n
  <2>1. 0 * n = 0 /\ q * n \in Int /\ (0 - q) * n = 0 * n - q * n  BY Times
  <2> QED  BY <2>1
<1>3. x + y = (r + y) + q * n /\ x - y = (r - y) + q * n /\ y - x = (y - r) + p * n
  BY <1>1, <1>2
<1>4. x + y \in Int /\ x - y \in Int /\ y - x \in Int
      /\ r + y \in Int /\ r - y \in Int /\ y - r \in Int
  OBVIOUS
<1>5. (x + y) % n = (r + y) % n  BY ONLY <1>3, <1>4, q \in Int, n \in Nat \ {0}, Congruent, ZenonT(30)
<1>6. (x - y) % n = (r - y) % n  BY ONLY <1>3, <1>4, q \in Int, n \in Nat \ {0}, Congruent, ZenonT(30)
<1>7. (y - x) % n = (y - r) % n  BY ONLY <1>3, <1>4, p \in Int, n \in Nat \ {0}, Congruent, ZenonT(30)
<1> QED  BY <1>5, <1>6, <1>7, Zenon

LEMMA Small ==
    ASSUME NEW n \in Nat \ {0}, NEW x \in Int
    PROVE  /\ x \in 0 .. n - 1 => x % n = x
           /\ -n <= x /\ x < 0 => x % n = x + n
<1>1. ASSUME x \in 0 .. n - 1 PROVE x % n = x
  <2>1. 0 * n + x = x  BY Times
  <2> QED  BY <1>1, <2>1, RemainderIs
<1>2. ASSUME -n <= x, x < 0 PROVE x % n = x + n
  <2>1. 1 * n = n  BY Times
  <2>2. x + n \in 0 .. n - 1 /\ x + n = x + 1 * n  BY <1>2, <2>1
  <2>3. (x + n) % n = x % n
    <3>1. x + n \in Int /\ 1 \in Int  OBVIOUS
    <3> QED  BY ONLY <2>2, <3>1, x \in Int, n \in Nat \ {0}, Congruent, ZenonT(30)
  <2>4. 0 * n + (x + n) = x + n  BY Times
  <2>5. (x + n) % n = x + n  BY <2>2, <2>4, RemainderIs
  <2> QED  BY <2>3, <2>5
<1> QED  BY <1>1, <1>2

-----------------------------------------------------------------------------
(* Indices that do not wrap around, and the index a number is stored as.   *)

Wrap(x) == x % IndexRange
Base(m) == m * BLOCK_SIZE      \* the first index of block m of a producer
Half == IndexRange - (IndexRange \div 2)

LEMMA Sizes ==
    /\ IndexRange \in Nat \ {0} /\ BLOCK_SIZE \in Nat \ {0, 1} /\ 2 * BLOCK_SIZE <= IndexRange
    /\ IndexRange \div 2 \in Nat /\ Half \in Nat \ {0}
    /\ Half = IndexRange - (IndexRange \div 2)
    /\ IndexRange \div 2 <= Half /\ Half <= (IndexRange \div 2) + 1
    /\ InitialPool \in Nat /\ Heap \in Nat
    /\ BLOCK_SIZE * (InitialPool + Heap) <= IndexRange \div 2
<1>1. /\ IndexRange \in Nat \ {0} /\ BLOCK_SIZE \in Nat \ {0, 1}
      /\ InitialPool \in Nat /\ Heap \in Nat /\ InitialPool + Heap > 0
      /\ 2 * BLOCK_SIZE * (InitialPool + Heap) <= IndexRange
  BY QueueAssumption
<1> PICK p \in Nat : p = InitialPool + Heap  BY <1>1
<1> PICK b \in Nat : b = BLOCK_SIZE  BY <1>1
<1>2. b * p \in Nat /\ 2 * BLOCK_SIZE * (InitialPool + Heap) = 2 * (b * p)  OBVIOUS
<1>3. b <= b * p
  <2> PICK d \in Nat : p = 1 + d  BY <1>1
  <2>1. b * p = b + b * d /\ b * d >= 0 /\ b * d \in Int  OBVIOUS
  <2> QED  BY <2>1
<1>4. BLOCK_SIZE * (InitialPool + Heap) = b * p  OBVIOUS
<1> PICK x \in Nat : x = b * p  BY <1>2
<1> PICK r \in Nat \ {0} : r = IndexRange  BY <1>1
<1>5. 2 * x <= r /\ b <= x  BY <1>1, <1>2, <1>3
<1>6. r \div 2 \in Nat /\ r - (r \div 2) \in Nat \ {0} /\ x <= r \div 2
      /\ r \div 2 <= r - (r \div 2) /\ r - (r \div 2) <= (r \div 2) + 1
  BY <1>5
<1> QED  BY <1>1, <1>4, <1>5, <1>6 DEF Half

LEMMA Bases ==
    /\ Base(0) = 0
    /\ \A m \in Nat : Base(m) \in Nat /\ Base(m + 1) = Base(m) + BLOCK_SIZE
    /\ \A m, k \in Nat : m < k => Base(m) + BLOCK_SIZE <= Base(k)
    /\ \A m, k \in Nat : m <= k => Base(m) <= Base(k) /\ Base(k) - Base(m) = Base(k - m)
<1>1. BLOCK_SIZE \in Nat \ {0}  BY Sizes
<1>2. Base(0) = 0  BY <1>1, Times DEF Base
<1>3. ASSUME NEW m \in Nat PROVE Base(m) \in Nat /\ Base(m + 1) = Base(m) + BLOCK_SIZE
  <2>1. m * BLOCK_SIZE \in Nat  BY <1>1
  <2>2. (m + 1) * BLOCK_SIZE = m * BLOCK_SIZE + 1 * BLOCK_SIZE /\ 1 * BLOCK_SIZE = BLOCK_SIZE
    BY <1>1, Times
  <2> QED  BY <2>1, <2>2 DEF Base
<1>4. ASSUME NEW m \in Nat, NEW k \in Nat, m < k PROVE Base(m) + BLOCK_SIZE <= Base(k)
  BY <1>1, <1>4, Times DEF Base
<1>5. ASSUME NEW m \in Nat, NEW k \in Nat, m <= k
      PROVE  Base(m) <= Base(k) /\ Base(k) - Base(m) = Base(k - m)
  <2>1. Base(m) <= Base(k)
    <3>1. CASE m = k  BY <1>3, <3>1
    <3>2. CASE m < k  BY <1>1, <1>3, <1>4, <3>2
    <3> QED  BY <1>5, <3>1, <3>2
  <2>2. (k - m) * BLOCK_SIZE = k * BLOCK_SIZE - m * BLOCK_SIZE  BY <1>1, Times
  <2> QED  BY <2>1, <2>2 DEF Base
<1> QED  BY <1>2, <1>3, <1>4, <1>5

LEMMA Wrapped ==
    ASSUME NEW x \in Nat
    PROVE  /\ Wrap(x) \in Index
           /\ \A y \in Nat : Plus(Wrap(x), y) = Wrap(x + y)
<1>1. x % IndexRange \in 0 .. IndexRange - 1  BY Sizes, Remainder
<1>2. ASSUME NEW y \in Nat PROVE Plus(Wrap(x), y) = Wrap(x + y)
  <2>1. IndexRange \in Nat \ {0} /\ x \in Int /\ y \in Int  BY Sizes
  <2>2. ((x % IndexRange) + y) % IndexRange = (x + y) % IndexRange
    BY ONLY <2>1, Differ, Zenon
  <2> QED  BY <2>2, Zenon DEF Plus, Wrap
<1> QED  BY <1>1, <1>2 DEF Wrap, Index

LEMMA MinusIs ==
    ASSUME NEW x \in Nat, NEW y \in Nat
    PROVE  /\ x - y \in 0 .. IndexRange - 1 => Minus(Wrap(x), Wrap(y)) = x - y
           /\ -IndexRange <= x - y /\ x - y < 0 =>
                 Minus(Wrap(x), Wrap(y)) = (x - y) + IndexRange
<1>0. IndexRange \in Nat \ {0} /\ x \in Int /\ y \in Int  BY Sizes
<1>1. y % IndexRange \in Int
  <2>1. y % IndexRange \in 0 .. IndexRange - 1  BY <1>0, Remainder
  <2> QED  BY <1>0, <2>1
<1>2. ((x % IndexRange) - (y % IndexRange)) % IndexRange = (x - (y % IndexRange)) % IndexRange
  BY ONLY <1>0, <1>1, Differ, Zenon
<1>3. (x - (y % IndexRange)) % IndexRange = (x - y) % IndexRange
  BY ONLY <1>0, Differ, Zenon
<1>4. Minus(Wrap(x), Wrap(y)) = (x - y) % IndexRange  BY <1>2, <1>3, Zenon DEF Minus, Wrap
<1>5. x - y \in Int  BY <1>0
<1> PICK z \in Int : z = x - y  BY <1>5
<1>6. /\ z \in 0 .. IndexRange - 1 => z % IndexRange = z
      /\ -IndexRange <= z /\ z < 0 => z % IndexRange = z + IndexRange
  BY <1>0, Small
<1>7. Minus(Wrap(x), Wrap(y)) = z % IndexRange  BY <1>4
<1> QED  BY <1>6, <1>7

LEMMA SameWrap ==
    ASSUME NEW x \in Nat, NEW y \in Nat, x - y < IndexRange, y - x < IndexRange,
           Wrap(x) = Wrap(y)
    PROVE  x = y
<1>0. IndexRange \in Nat \ {0}  BY Sizes
<1>1. Minus(Wrap(x), Wrap(y)) = Minus(Wrap(x), Wrap(x))  OBVIOUS
<1>2. Minus(Wrap(x), Wrap(x)) = 0
  <2>1. x - x = 0 /\ 0 \in 0 .. IndexRange - 1  BY <1>0
  <2> QED  BY <2>1, MinusIs
<1>3. ~(x - y > 0)
  <2> SUFFICES ASSUME x - y > 0 PROVE FALSE  OBVIOUS
  <2>1. x - y \in 0 .. IndexRange - 1  BY <1>0
  <2> QED  BY <1>1, <1>2, <2>1, MinusIs
<1>4. ~(x - y < 0)
  <2> SUFFICES ASSUME x - y < 0 PROVE FALSE  OBVIOUS
  <2>1. -IndexRange <= x - y /\ (x - y) + IndexRange > 0  BY <1>0
  <2> QED  BY <1>0, <1>1, <1>2, <2>1, MinusIs
<1> QED  BY <1>3, <1>4

(* An index in block m.                                                    *)
LEMMA InBlock ==
    ASSUME NEW m \in Nat, NEW i \in 0 .. BLOCK_SIZE - 1, NEW x, x = Base(m) + i
    PROVE  /\ Wrap(x) % BLOCK_SIZE = i
           /\ BlockStart(Wrap(x)) = Wrap(Base(m))
<1>0. /\ IndexRange \in Nat \ {0} /\ BLOCK_SIZE \in Nat \ {0} /\ BLOCK_SIZE \in Int
      /\ IndexRange \in Int
  BY Sizes
<1> PICK n \in Nat : n = Base(m)  BY Bases
<1>1. x = n + i /\ x \in Nat /\ x \in Int /\ i \in Int /\ n \in Int /\ m \in Int  BY <1>0
<1> PICK s \in Int : s = IndexRange \div BLOCK_SIZE  BY <1>0, Remainder
<1>2. IndexRange = s * BLOCK_SIZE
  <2>1. IndexRange = s * BLOCK_SIZE + (IndexRange % BLOCK_SIZE)
    BY ONLY <1>0, s = IndexRange \div BLOCK_SIZE, Remainder
  <2>2. IndexRange % BLOCK_SIZE = 0  BY QueueAssumption
  <2>3. s * BLOCK_SIZE \in Int  BY <1>0, Times
  <2> QED  BY <2>1, <2>2, <2>3
<1> PICK q \in Int : q = x \div IndexRange  BY <1>0, <1>1, Remainder
<1> PICK w : w = Wrap(x)  OBVIOUS
<1>3. w \in 0 .. IndexRange - 1 /\ x = q * IndexRange + w
  BY <1>0, <1>1, Remainder DEF Wrap
<1>4. q * IndexRange = (q * s) * BLOCK_SIZE /\ q * IndexRange \in Int /\ q * s \in Int
      /\ w \in Int
  <2>1. w \in Int  BY <1>0, <1>3
  <2>2. q * (s * BLOCK_SIZE) = (q * s) * BLOCK_SIZE  BY <1>0
  <2>3. q * s \in Int  OBVIOUS
  <2>4. (q * s) * BLOCK_SIZE \in Int  BY <1>0, <2>3, Times
  <2> QED  BY <1>2, <2>1, <2>2, <2>3, <2>4
<1>5. w % BLOCK_SIZE = i
  <2> PICK a \in Int : a = q * s  BY <1>4
  <2> PICK y \in Int : y = a * BLOCK_SIZE  BY <1>0, Times
  <2>1. x = w + a * BLOCK_SIZE  BY <1>3, <1>4
  <2>2. x % BLOCK_SIZE = w % BLOCK_SIZE
    BY ONLY <1>0, <1>1, <1>4, <2>1, a \in Int, Congruent, Zenon
  <2>3. x = m * BLOCK_SIZE + i  BY <1>1 DEF Base
  <2>4. (m * BLOCK_SIZE + i) % BLOCK_SIZE = i
    BY ONLY <1>0, <1>1, i \in 0 .. BLOCK_SIZE - 1, RemainderIs, Zenon
  <2> QED  BY <2>2, <2>3, <2>4, Zenon
<1>6. w - i = Wrap(n)
  <2>1. i <= w
    <3>1. w \in Nat /\ w = (w \div BLOCK_SIZE) * BLOCK_SIZE + i /\ w \div BLOCK_SIZE \in Int
      <4>1. /\ w \div BLOCK_SIZE \in Int
            /\ w = (w \div BLOCK_SIZE) * BLOCK_SIZE + (w % BLOCK_SIZE)
        BY ONLY <1>0, <1>4, Remainder
      <4>2. w \in Nat  BY <1>0, <1>3
      <4> QED  BY <1>5, <4>1, <4>2, Zenon
    <3>2. ~(w \div BLOCK_SIZE < 0)
      <4> PICK d \in Int : d = w \div BLOCK_SIZE  BY <3>1
      <4> SUFFICES ASSUME d < 0 PROVE FALSE  OBVIOUS
      <4>1. d * BLOCK_SIZE + BLOCK_SIZE <= 0 * BLOCK_SIZE /\ 0 * BLOCK_SIZE = 0
            /\ d * BLOCK_SIZE \in Int
        BY <1>0, Times
      <4> QED  BY <1>0, <3>1, <4>1
    <3> PICK d \in Nat : d = w \div BLOCK_SIZE  BY <3>1, <3>2
    <3>3. d * BLOCK_SIZE \in Nat  BY <1>0
    <3> QED  BY <3>1, <3>3
  <2>2. w - i \in 0 .. IndexRange - 1  BY <1>0, <1>3, <2>1
  <2>3. n = q * IndexRange + (w - i)  BY <1>1, <1>3, <1>4
  <2>4. (q * IndexRange + (w - i)) % IndexRange = w - i
    BY ONLY <1>0, <2>2, q \in Int, RemainderIs, Zenon
  <2> QED  BY <2>3, <2>4, Zenon DEF Wrap
<1> QED  BY <1>5, <1>6 DEF BlockStart

LEMMA KeyValid == \A m \in Nat : Wrap(Base(m)) \in Index /\ Wrap(Base(m)) # INVALID_BLOCK_BASE
<1> SUFFICES ASSUME NEW m \in Nat
             PROVE  Wrap(Base(m)) \in Index /\ Wrap(Base(m)) # INVALID_BLOCK_BASE
  OBVIOUS
<1>0. BLOCK_SIZE \in Nat \ {0, 1}  BY Sizes
<1>1. Base(m) \in Nat /\ 0 \in 0 .. BLOCK_SIZE - 1 /\ Base(m) = Base(m) + 0
  <2>1. Base(m) \in Nat  BY Bases
  <2> QED  BY <1>0, <2>1
<1>2. Wrap(Base(m)) % BLOCK_SIZE = 0  BY <1>1, InBlock
<1>3. 1 % BLOCK_SIZE = 1  BY <1>0, Small
<1> QED  BY <1>1, <1>2, <1>3, Wrapped DEF INVALID_BLOCK_BASE

(* Comparing indices: a window of less than Half.                         *)
LEMMA Before ==
    ASSUME NEW x \in Nat, NEW y \in Nat, x <= y, y - x <= IndexRange
    PROVE  circular_less_than(Wrap(x), Wrap(y)) <=> x < y /\ y - x < Half
<1>0. /\ IndexRange \in Nat \ {0} /\ IndexRange \div 2 \in Nat
      /\ Half = IndexRange - (IndexRange \div 2)
  BY Sizes
<1>1. CASE x = y
  <2>1. x - y \in 0 .. IndexRange - 1 /\ x - y = 0  BY <1>0, <1>1
  <2>2. Minus(Wrap(x), Wrap(y)) = 0  BY <2>1, MinusIs
  <2> QED  BY <1>0, <1>1, <2>2 DEF circular_less_than
<1>2. CASE x < y
  <2>1. -IndexRange <= x - y /\ x - y < 0  BY <1>0, <1>2
  <2>2. Minus(Wrap(x), Wrap(y)) = (x - y) + IndexRange  BY <2>1, MinusIs
  <2> QED  BY <1>0, <1>2, <2>2 DEF circular_less_than
<1> QED  BY <1>1, <1>2

(* How many blocks the block of base m is behind the one of base k.        *)
LEMMA BlocksBehind ==
    ASSUME NEW m \in Nat, NEW k \in Nat, m <= k, Base(k) - Base(m) <= IndexRange \div 2
    PROVE  Signed(Minus(Wrap(Base(m)), Wrap(Base(k)))) \div BLOCK_SIZE = m - k
<1>0. /\ IndexRange \in Nat \ {0} /\ IndexRange \div 2 \in Nat \ {0}
      /\ BLOCK_SIZE \in Nat \ {0}
      /\ IndexRange - (IndexRange \div 2) >= IndexRange \div 2
  BY Sizes
<1> PICK x \in Nat : x = Base(m)  BY Bases
<1> PICK y \in Nat : y = Base(k)  BY Bases
<1> PICK r \in Nat \ {0} : r = IndexRange  BY <1>0
<1> PICK h \in Nat \ {0} : h = IndexRange \div 2  BY <1>0
<1>1. x <= y /\ y - x <= h /\ r - h >= h  BY <1>0, Bases
<1>2. Signed(Minus(Wrap(x), Wrap(y))) = x - y
  <2>1. CASE x = y
    <3>1. x - y \in 0 .. r - 1 /\ x - y = 0  BY <2>1
    <3>2. Minus(Wrap(x), Wrap(y)) = 0  BY <3>1, MinusIs
    <3> QED  BY <3>1, <3>2 DEF Signed
  <2>2. CASE x < y
    <3>1. -r <= x - y /\ x - y < 0  BY <1>1, <2>2
    <3>2. Minus(Wrap(x), Wrap(y)) = (x - y) + r  BY <3>1, MinusIs
    <3>3. ~((x - y) + r < h) /\ ((x - y) + r) - r = x - y  BY <1>1, <2>2
    <3> QED  BY <3>2, <3>3 DEF Signed
  <2> QED  BY <1>1, <2>1, <2>2
<1>3. x - y = (m - k) * BLOCK_SIZE + 0
  <2>1. (m - k) * BLOCK_SIZE = m * BLOCK_SIZE - k * BLOCK_SIZE  BY <1>0, Times
  <2>2. x = m * BLOCK_SIZE /\ y = k * BLOCK_SIZE  BY DEF Base
  <2>3. x - y \in Int  OBVIOUS
  <2> QED  BY <2>1, <2>2, <2>3
<1>4. m - k \in Int /\ 0 \in 0 .. BLOCK_SIZE - 1  BY <1>0
<1>5. ((m - k) * BLOCK_SIZE + 0) \div BLOCK_SIZE = m - k
  BY ONLY <1>0, <1>4, RemainderIs, Zenon
<1> QED  BY <1>2, <1>3, <1>5

-----------------------------------------------------------------------------
(* The invariant.  For every producer there are numbers that do not wrap   *)
(* around: how many elements it has pushed (T), how many were claimed (H), *)
(* moved out (F) and counted in their blocks (S), and how many blocks it   *)
(* has put in the block index (C), the first L of which are gone; E[m] is  *)
(* the entry of block m and N[j] the number of blocks when the tail of     *)
(* block index j moved last.                                               *)

Header == [capacity : Nat \ {0}, tail : Nat, index : Seq(Nat \ {0})]
Entry  == [key : Index, value : BlockOrNull]
Doing  == {"idle", "slot", "grow", "insert", "block", "construct", "commit"}
Work   == {"index", "tail", "find", "take", "count", "remove", "free"}
Calls  == [pc : {"idle", "score", "bulk"} \union Work, todo : Seq(Producer),
           best : Producer \union {null}, bestSize : Nat, nonEmptyCount : Nat,
           max : Nat, count : Nat, index : Index, end : Index, start : Index,
           localBlockIndex : Nat, tail : Nat, indexIndex : Nat, block : BlockOrNull,
           item : Index \union {null}, outcome : {"none", "empty", "found"},
           scanned : SUBSET Producer]

Types ==
  /\ producers \in Seq(Producer)
  /\ tailIndex \in [Producer -> Index] /\ headIndex \in [Producer -> Index]
  /\ dequeueOptimisticCount \in [Producer -> Index] /\ dequeueOvercommit \in [Producer -> Index]
  /\ tailBlock \in [Producer -> BlockOrNull] /\ idxEntry \in [Producer -> Nat]
  /\ headers \in [Producer -> Seq(Header)] /\ entries \in [Producer -> Seq(Entry)]
  /\ elements \in [Block -> [0 .. BLOCK_SIZE - 1 -> Index \union {null}]]
  /\ elementsCompletelyDequeued \in [Block -> 0 .. BLOCK_SIZE]
  /\ initialBlockPoolIndex \in 0 .. InitialPool
  /\ hands \in [1 .. InitialPool -> 0 .. 1]
  /\ heap \subseteq InitialPool + 1 .. InitialPool + Heap
  /\ pc \in [Producer -> Doing]
  /\ consumer \in Calls
  /\ limit \in Limits

\* q is what the producer does next, hs its headers, es its entries.
Indices(tail, head, claimed, over, T, H) ==
  tail = Wrap(T) /\ head = Wrap(H) /\ claimed = head /\ over = 0

Order(q, T, H, F, S, L, C) ==
  /\ L <= C /\ Base(L) <= S /\ S <= F /\ F <= H /\ H <= T
  /\ T <= Base(C) /\ Base(C) <= T + BLOCK_SIZE
  /\ Base(C) - H < Half /\ H - S < Half
  /\ q \in {"construct", "commit"} => T < Base(C)
  /\ q = "block" => Base(C) = T + BLOCK_SIZE
  /\ q \in {"slot", "grow", "insert"} => T = Base(C) /\ Base(C) + BLOCK_SIZE - H < Half
  /\ q = "idle" => Base(C) < T + BLOCK_SIZE

\* The entries of the blocks from L on.  The last one may wait for its block.
Chain(es, q, L, C, E) ==
  /\ \A m \in L .. C - 1 :
       /\ E[m] \in DOMAIN es /\ es[E[m]].key = Wrap(Base(m))
       /\ es[E[m]].value = null <=> q = "block" /\ m = C - 1
  /\ \A m, n \in L .. C - 1 : E[m] = E[n] => m = n
  /\ \A e \in DOMAIN es : es[e].value # null => \E m \in L .. C - 1 : E[m] = e

\* The position k before the tail of block index h, and the entry there.
Position(h, k) == (h.tail - k) % h.capacity
EntryBefore(h, k) == h.index[Position(h, k) + 1]

\* What the producer knows of its entry and its block.
Hand(hs, es, q, idx, block, T, C, E) ==
  /\ hs = <<>> => C = 0 /\ q \in {"idle", "slot"}
  /\ q = "insert" => /\ idx = AfterTail(Last(hs)) /\ idx \in DOMAIN es
                     /\ es[idx].value = null
  /\ q = "block" => idx = E[C - 1]
  /\ q # "block" /\ T < Base(C) => block = es[E[C - 1]].value

Ring(h, es, L, n, E) ==
  /\ h.tail \in 0 .. h.capacity - 1
  /\ h.index \in [1 .. h.capacity -> DOMAIN es]
  /\ n - L <= h.capacity
  /\ \A m \in L .. n - 1 : EntryBefore(h, (n - 1) - m) = E[m]

Rings(hs, es, q, L, C, E, N) ==
  \A j \in 1 .. Len(hs) :
    /\ Ring(hs[j], es, L, N[j], E)
    /\ IF j = Len(hs) THEN N[j] = C
       ELSE N[j] <= C /\ (q = "block" => N[j] < C)

\* The tail that the consumer c has read is that of block k; its entry may
\* have been withdrawn since.
TailRead(c, h, last, es, q, T, n, k) ==
  LET e == EntryBefore(h, (n - 1) - k)
  IN /\ c.tail = Position(h, (n - 1) - k)
     /\ k <= n
     /\ k = n => /\ last /\ T = Base(k) /\ q \in {"idle", "slot", "insert"}
                 /\ es[e].key = Wrap(Base(k)) /\ es[e].value = null

\* The consumer c works on this producer.
Working(c, hs, es, q, T, H, F, S, L, E, N) ==
  LET j == c.localBlockIndex
      h == hs[j]
  IN /\ c.index = Wrap(F) /\ c.end = Wrap(H)
     /\ c.pc \in {"index", "tail", "find"} => S = F /\ F < H
     /\ c.pc = "take" => F < H /\ F < Base(L) + BLOCK_SIZE
     /\ c.pc = "count" => /\ S < F /\ F <= Base(L) + BLOCK_SIZE
                          /\ F = H \/ F = Base(L) + BLOCK_SIZE
     /\ c.pc \in {"index", "tail", "find", "take", "count"} => c.start = Wrap(S)
     /\ c.pc = "remove" => S = F /\ F = Base(L) + BLOCK_SIZE
     /\ c.pc = "free" => S = F /\ F = Base(L)
     /\ c.pc # "remove" => S < Base(L) + BLOCK_SIZE
     /\ c.pc # "index" => j \in 1 .. Len(hs) /\ H <= Base(N[j])
     /\ c.pc = "find" => \E k \in Nat : L <= k /\ TailRead(c, h, j = Len(hs), es, q, T, N[j], k)
     /\ c.pc \in {"take", "count", "remove"} =>
          c.indexIndex = Position(h, (N[j] - 1) - L) /\ c.block = es[E[L]].value
     /\ c.pc = "free" => c.indexIndex = Position(h, N[j] - L)

Consuming(c, p, hs, es, q, T, H, F, S, L, E, N) ==
  IF c.pc \in Work /\ c.best = p
  THEN Working(c, hs, es, q, T, H, F, S, L, E, N)
  ELSE S = F /\ F = H /\ S < Base(L) + BLOCK_SIZE

Emptied(es, counts, S, L, C, E) ==
  \A m \in L .. C - 1 : es[E[m]].value # null =>
    counts[es[E[m]].value] = IF m = L THEN S - Base(L) ELSE 0

QueueIs(p, T, H, F, S, L, C, E, N) ==
  /\ Indices(tailIndex[p], headIndex[p], dequeueOptimisticCount[p], dequeueOvercommit[p], T, H)
  /\ Order(pc[p], T, H, F, S, L, C)
  /\ Chain(entries[p], pc[p], L, C, E)
  /\ Hand(headers[p], entries[p], pc[p], idxEntry[p], tailBlock[p], T, C, E)
  /\ Rings(headers[p], entries[p], pc[p], L, C, E, N)
  /\ Consuming(consumer, p, headers[p], entries[p], pc[p], T, H, F, S, L, E, N)
  /\ Emptied(entries[p], elementsCompletelyDequeued, S, L, C, E)

Queue(p) == \E T, H, F, S, L, C \in Nat : \E E, N \in [Nat -> Nat] :
              QueueIs(p, T, H, F, S, L, C, E, N)

Fresh == \A p \in Producer : p \notin ToSet(producers) =>
           headers[p] = <<>> /\ entries[p] = <<>> /\ pc[p] = "idle"

\* A block is in one entry of one producer, unused, or about to be given back.
HasBlock(es, e, b) == e \in DOMAIN es /\ es[e].value = b
Holds(p, e, b) == HasBlock(entries[p], e, b)
Owners ==
  /\ \A b \in Block : \A p, q \in Producer : \A e, f \in Nat :
       Holds(p, e, b) /\ Holds(q, f, b) => p = q /\ e = f
  /\ \A b \in Block : \A p \in Producer : \A e \in Nat : Holds(p, e, b) =>
       b \notin Unused /\ ~(consumer.pc = "free" /\ consumer.block = b)
  /\ consumer.pc = "free" => consumer.block \in Block \ Unused
  /\ \A b \in Block : \/ b \in Unused \/ (consumer.pc = "free" /\ consumer.block = b)
                      \/ \E p \in Producer : \E e \in Nat : Holds(p, e, b)
  /\ \A b \in 1 .. InitialPool : initialBlockPoolIndex < b => hands[b] = 1

\* What the consumer has seen and what it still wants.
Wanted ==
  LET c == consumer
  IN /\ c.pc = "score" =>
          /\ c.max = 0
          /\ c.nonEmptyCount = 0 => c.best = null /\ c.bestSize = 0
          /\ c.nonEmptyCount > 0 => c.best \in Producer /\ headIndex[c.best] # tailIndex[c.best]
     /\ c.pc = "bulk" => c.count < c.max
     /\ c.pc \in Work =>
          /\ c.best \in Producer
          /\ c.max # 0 => c.todo # <<>> /\ c.count + Minus(c.end, c.index) <= c.max

Inv == /\ Types /\ Fresh /\ Owners /\ Wanted
       /\ \A p \in Producer : Queue(p)

-----------------------------------------------------------------------------
(* The numbers of a producer                                               *)

\* The number of blocks with elements still to come, and of those before.
LEMMA OrderIs ==
    ASSUME NEW q, NEW T \in Nat, NEW H \in Nat, NEW F \in Nat, NEW S \in Nat,
           NEW L \in Nat, NEW C \in Nat, Order(q, T, H, F, S, L, C)
    PROVE  /\ Base(L) \in Nat /\ Base(C) \in Nat /\ L <= C
           /\ Base(L) <= S /\ S <= F /\ F <= H /\ H <= T /\ T <= Base(C)
           /\ T - H < Half /\ H - S < Half /\ T - H < IndexRange /\ H - S < IndexRange
           /\ S < Base(C) => L < C
           /\ S < Base(C) => /\ C - 1 \in Nat /\ Base(C - 1) \in Nat
                             /\ Base(C) = Base(C - 1) + BLOCK_SIZE
                             /\ Base(C - 1) <= T /\ L <= C - 1
<1>0. /\ IndexRange \in Nat \ {0} /\ BLOCK_SIZE \in Nat \ {0} /\ Half \in Nat \ {0}
      /\ IndexRange \div 2 \in Nat /\ Half = IndexRange - (IndexRange \div 2)
  BY Sizes
<1>1. Base(L) \in Nat /\ Base(C) \in Nat  BY Bases
<1>2. /\ L <= C /\ Base(L) <= S /\ S <= F /\ F <= H /\ H <= T /\ T <= Base(C)
      /\ Base(C) - H < Half /\ H - S < Half /\ Base(C) <= T + BLOCK_SIZE
  BY DEF Order
<1>3. ASSUME S < Base(C) PROVE L < C
  <2> SUFFICES ASSUME L = C PROVE FALSE  BY <1>2
  <2> QED  BY <1>1, <1>2, <1>3
<1>4. ASSUME S < Base(C)
      PROVE  /\ C - 1 \in Nat /\ Base(C - 1) \in Nat
             /\ Base(C) = Base(C - 1) + BLOCK_SIZE
             /\ Base(C - 1) <= T /\ L <= C - 1
  <2>1. L < C  BY <1>3, <1>4
  <2> PICK n \in Nat : n = C - 1  BY <2>1
  <2>2. C = n + 1  OBVIOUS
  <2>3. Base(n) \in Nat /\ Base(n + 1) = Base(n) + BLOCK_SIZE  BY Bases
  <2>4. Base(C) = Base(n) + BLOCK_SIZE  BY <2>2, <2>3
  <2> QED  BY <1>0, <1>2, <2>1, <2>3, <2>4
<1>5. T - H < Half /\ T - H < IndexRange /\ H - S < IndexRange  BY <1>0, <1>1, <1>2
<1> QED  BY <1>1, <1>2, <1>3, <1>4, <1>5

\* Which of the numbers a wrapped index tells apart.
LEMMA TailOffset ==
    ASSUME NEW T \in Nat, NEW C \in Nat, T <= Base(C), Base(C) < T + BLOCK_SIZE
    PROVE  /\ Wrap(T) % BLOCK_SIZE = 0 <=> T = Base(C)
           /\ T < Base(C) => /\ C > 0
                             /\ BlockStart(Wrap(T)) = Wrap(Base(C - 1))
                             /\ T - Base(C - 1) \in 1 .. BLOCK_SIZE - 1
           /\ T = Base(C) => BlockStart(Wrap(T)) = Wrap(Base(C))
<1>0. BLOCK_SIZE \in Nat \ {0} /\ Base(C) \in Nat /\ Base(0) = 0  BY Sizes, Bases
<1>1. ASSUME T < Base(C)
      PROVE  /\ C > 0 /\ BlockStart(Wrap(T)) = Wrap(Base(C - 1))
             /\ T - Base(C - 1) \in 1 .. BLOCK_SIZE - 1 /\ Wrap(T) % BLOCK_SIZE # 0
  <2>1. C > 0  BY <1>0, <1>1
  <2> PICK n \in Nat : C = n + 1  BY <2>1
  <2>2. Base(n) \in Nat /\ Base(n + 1) = Base(n) + BLOCK_SIZE  BY Bases
  <2> PICK i \in Int : i = T - Base(n)  BY <2>2
  <2>3. i \in 1 .. BLOCK_SIZE - 1 /\ T = Base(n) + i /\ i \in 0 .. BLOCK_SIZE - 1
    BY <1>0, <1>1, <2>2
  <2>4. Wrap(T) % BLOCK_SIZE = i /\ BlockStart(Wrap(T)) = Wrap(Base(n))  BY <2>3, InBlock
  <2>5. C - 1 = n  OBVIOUS
  <2> QED  BY <2>1, <2>3, <2>4, <2>5
<1>2. ASSUME T = Base(C)
      PROVE  Wrap(T) % BLOCK_SIZE = 0 /\ BlockStart(Wrap(T)) = Wrap(Base(C))
  <2>1. T = Base(C) + 0 /\ 0 \in 0 .. BLOCK_SIZE - 1  BY <1>0, <1>2
  <2> QED  BY <2>1, InBlock
<1> QED  BY <1>0, <1>1, <1>2

\* What the producer and the consumer find out by comparing indices.
LEMMA SizeIs ==
    ASSUME NEW T \in Nat, NEW H \in Nat, H <= T, T - H < Half
    PROVE  /\ Minus(Wrap(T), Wrap(H)) = T - H
           /\ circular_less_than(Wrap(H), Wrap(T)) <=> H < T
           /\ Minus(Wrap(H), 0) = Wrap(H)
           /\ circular_less_than(0, T - H) <=> H < T
           /\ Wrap(T) = Wrap(H) <=> T = H
<1>0. /\ IndexRange \in Nat \ {0} /\ Half \in Nat \ {0} /\ IndexRange \div 2 \in Nat
      /\ Half = IndexRange - (IndexRange \div 2)
  BY Sizes
<1>1. T - H \in 0 .. IndexRange - 1 /\ T - H < IndexRange /\ H - T < IndexRange  BY <1>0
<1>2. Minus(Wrap(T), Wrap(H)) = T - H  BY <1>1, MinusIs
<1>3. circular_less_than(Wrap(H), Wrap(T)) <=> H < T  BY <1>0, <1>1, Before
<1>4. 0 \in 0 .. IndexRange - 1 /\ 0 \in Nat /\ Wrap(0) = 0  BY <1>0, Small DEF Wrap
<1>5. Minus(Wrap(H), 0) = Wrap(H)
  <2> PICK x : x = Wrap(H)  OBVIOUS
  <2>1. x \in 0 .. IndexRange - 1 /\ x \in Nat /\ x - 0 = x  BY <1>0, Wrapped DEF Index
  <2>2. x % IndexRange = x  BY <1>0, <2>1, Small
  <2> QED  BY <2>1, <2>2 DEF Minus
<1>6. circular_less_than(0, T - H) <=> H < T
  <2> PICK d \in Nat : d = T - H  BY <1>1
  <2>1. 0 <= d /\ d - 0 <= IndexRange /\ d - 0 < Half  BY <1>0, <1>1
  <2>2. circular_less_than(Wrap(0), Wrap(d)) <=> 0 < d  BY <2>1, Before
  <2>3. Wrap(d) = d
    <3>1. d \in 0 .. IndexRange - 1 /\ d \in Int  BY <1>1
    <3> QED  BY <1>0, <3>1, Small, Zenon DEF Wrap
  <2>4. circular_less_than(0, d) <=> 0 < d  BY <1>4, <2>2, <2>3
  <2> QED  BY <2>4
<1>7. Wrap(T) = Wrap(H) <=> T = H  BY <1>1, SameWrap
<1> QED  BY <1>2, <1>3, <1>5, <1>6, <1>7

-----------------------------------------------------------------------------
(* The ring of a block index                                               *)

LEMMA Turn ==
    ASSUME NEW cap \in Nat \ {0}, NEW t \in Int, NEW k \in Int
    PROVE  /\ (((t + 1) % cap) - (k + 1)) % cap = (t - k) % cap
           /\ (((t + (-1)) % cap) - k) % cap = (t - (k + 1)) % cap
<1>1. t + 1 \in Int /\ k + 1 \in Int /\ t + (-1) \in Int  OBVIOUS
<1>2. (((t + 1) % cap) - (k + 1)) % cap = ((t + 1) - (k + 1)) % cap
  BY ONLY <1>1, cap \in Nat \ {0}, Differ, Zenon
<1>3. (((t + (-1)) % cap) - k) % cap = ((t + (-1)) - k) % cap
  BY ONLY <1>1, cap \in Nat \ {0}, k \in Int, Differ, Zenon
<1>4. (t + 1) - (k + 1) = t - k /\ (t + (-1)) - k = t - (k + 1)  OBVIOUS
<1> QED  BY <1>2, <1>3, <1>4, Zenon

LEMMA Positions ==
    ASSUME NEW h \in Header, NEW k \in Int
    PROVE  Position(h, k) \in 0 .. h.capacity - 1 /\ Position(h, k) \in Nat
<1>1. h.capacity \in Nat \ {0} /\ h.tail - k \in Int  BY DEF Header
<1> PICK x \in Int : x = h.tail - k  BY <1>1
<1> PICK n \in Nat \ {0} : n = h.capacity  BY <1>1
<1>2. x % n \in 0 .. n - 1  BY Remainder
<1> QED  BY <1>2 DEF Position

LEMMA RingKept ==
    ASSUME NEW h, NEW es, NEW es2, NEW L \in Nat, NEW L2 \in Nat, L <= L2,
           NEW n \in Nat, NEW E, NEW E2, Ring(h, es, L, n, E), h.capacity \in Nat,
           DOMAIN es \subseteq DOMAIN es2, \A m \in L2 .. n - 1 : E2[m] = E[m]
    PROVE  Ring(h, es2, L2, n, E2)
<1>1. h.index \in [1 .. h.capacity -> DOMAIN es2]  BY DEF Ring
<1>2. n - L2 <= h.capacity  BY DEF Ring
<1>3. ASSUME NEW m \in L2 .. n - 1 PROVE EntryBefore(h, (n - 1) - m) = E2[m]
  <2>1. m \in L .. n - 1  OBVIOUS
  <2> QED  BY <2>1 DEF Ring
<1> QED  BY <1>1, <1>2, <1>3 DEF Ring

\* Block index h2 is h with its tail at block n2 - 1 instead of n - 1.
TailAt(h2, h, es, L, n, n2, E2) ==
  /\ h2 \in Header /\ h2.capacity = h.capacity /\ h2.index = h.index
  /\ \A k \in Int : Position(h2, (n2 - 1) - k) = Position(h, (n - 1) - k)
  /\ \A k \in Int : EntryBefore(h2, (n2 - 1) - k) = EntryBefore(h, (n - 1) - k)
  /\ Ring(h2, es, L, n2, E2)

\* The tail of block index h moves to the next entry, which is that of block n.
LEMMA RingForward ==
    ASSUME NEW h \in Header, NEW es, NEW L \in Nat, NEW n \in Nat, NEW E \in [Nat -> Nat],
           Ring(h, es, L, n, E), NEW i \in Nat, i = AfterTail(h), (n + 1) - L <= h.capacity,
           NEW h2, h2 = [h EXCEPT !.tail = (h.tail + 1) % h.capacity],
           NEW E2, E2 = [E EXCEPT ![n] = i]
    PROVE  TailAt(h2, h, es, L, n, n + 1, E2)
<1>1. h.capacity \in Nat \ {0} /\ h.tail \in Nat  BY DEF Header
<1>2. (h.tail + 1) % h.capacity \in 0 .. h.capacity - 1  BY <1>1, Remainder
<1>t. PICK t \in Nat : t = (h.tail + 1) % h.capacity  BY <1>1, <1>2
<1>3. /\ h2 \in Header /\ h2.capacity = h.capacity /\ h2.index = h.index
      /\ h2.tail = (h.tail + 1) % h.capacity
  <2>1. h2 = [h EXCEPT !.tail = t]  BY <1>t
  <2>2. h2 \in Header /\ h2.capacity = h.capacity /\ h2.index = h.index /\ h2.tail = t
    BY <2>1 DEF Header
  <2> QED  BY <1>t, <2>2
<1>4. ASSUME NEW k \in Int PROVE Position(h2, (n - k)) = Position(h, (n - 1) - k)
  <2> PICK x \in Int : x = (n - 1) - k  OBVIOUS
  <2>1. n - k = x + 1  OBVIOUS
  <2>2. (((h.tail + 1) % h.capacity) - (x + 1)) % h.capacity = (h.tail - x) % h.capacity
    <3>1. h.tail \in Int  BY <1>1
    <3> QED  BY ONLY <1>1, <3>1, x \in Int, Turn, Zenon
  <2> QED  BY <1>3, <2>1, <2>2, Zenon DEF Position
<1>5. ASSUME NEW k \in Int
      PROVE  /\ Position(h2, ((n + 1) - 1) - k) = Position(h, (n - 1) - k)
             /\ EntryBefore(h2, ((n + 1) - 1) - k) = EntryBefore(h, (n - 1) - k)
  <2>1. ((n + 1) - 1) - k = n - k  OBVIOUS
  <2> QED  BY <1>3, <1>4, <2>1, Zenon DEF EntryBefore
<1>6. ASSUME NEW m \in L .. (n + 1) - 1 PROVE EntryBefore(h2, ((n + 1) - 1) - m) = E2[m]
  <2>1. CASE m = n
    <3>1. (n - 1) - n = -1 /\ h.tail - (-1) = h.tail + 1  BY <1>1
    <3>2. EntryBefore(h, (n - 1) - n) = AfterTail(h)
      BY <3>1, Zenon DEF EntryBefore, Position, AfterTail
    <3>3. m \in Int /\ E2[n] = i  OBVIOUS
    <3> QED  BY <1>5, <2>1, <3>2, <3>3
  <2>2. CASE m # n
    <3>1. m \in L .. n - 1 /\ m \in Int /\ m \in Nat  BY <2>2
    <3>2. E2[m] = E[m]  BY <2>2, <3>1
    <3> QED  BY <1>5, <3>1, <3>2 DEF Ring
  <2> QED  BY <2>1, <2>2
<1>7. Ring(h2, es, L, n + 1, E2)  BY <1>2, <1>3, <1>6 DEF Ring
<1> QED  BY <1>3, <1>5, <1>7, Zenon DEF TailAt

\* The tail of block index h moves back by one block.
LEMMA RingBack ==
    ASSUME NEW h \in Header, NEW es, NEW L \in Nat, NEW n \in Nat, n > 0, NEW E,
           Ring(h, es, L, n, E),
           NEW h2, h2 = [h EXCEPT !.tail = (h.tail + (-1)) % h.capacity]
    PROVE  TailAt(h2, h, es, L, n, n - 1, E)
<1>1. h.capacity \in Nat \ {0} /\ h.tail \in Nat /\ h.tail \in Int /\ h.tail + (-1) \in Int
  BY DEF Header
<1>2. (h.tail + (-1)) % h.capacity \in 0 .. h.capacity - 1  BY <1>1, Remainder
<1>t. PICK t \in Nat : t = (h.tail + (-1)) % h.capacity  BY <1>1, <1>2
<1>3. /\ h2 \in Header /\ h2.capacity = h.capacity /\ h2.index = h.index
      /\ h2.tail = (h.tail + (-1)) % h.capacity
  <2>1. h2 = [h EXCEPT !.tail = t]  BY <1>t
  <2>2. h2 \in Header /\ h2.capacity = h.capacity /\ h2.index = h.index /\ h2.tail = t
    BY <2>1 DEF Header
  <2> QED  BY <1>t, <2>2
<1>4. ASSUME NEW k \in Int
      PROVE  /\ Position(h2, ((n - 1) - 1) - k) = Position(h, (n - 1) - k)
             /\ EntryBefore(h2, ((n - 1) - 1) - k) = EntryBefore(h, (n - 1) - k)
  <2> PICK x \in Int : x = ((n - 1) - 1) - k  OBVIOUS
  <2>1. (n - 1) - k = x + 1  OBVIOUS
  <2>2. (((h.tail + (-1)) % h.capacity) - x) % h.capacity = (h.tail - (x + 1)) % h.capacity
    BY ONLY <1>1, x \in Int, Turn, Zenon
  <2>3. Position(h2, x) = Position(h, x + 1)  BY <1>3, <2>2, Zenon DEF Position
  <2>4. EntryBefore(h2, x) = EntryBefore(h, x + 1)  BY <1>3, <2>3, Zenon DEF EntryBefore
  <2> QED  BY <2>1, <2>3, <2>4, Zenon
<1>5. ASSUME NEW m \in L .. (n - 1) - 1 PROVE EntryBefore(h2, ((n - 1) - 1) - m) = E[m]
  <2>1. m \in L .. n - 1 /\ m \in Int  OBVIOUS
  <2> QED  BY <1>4, <2>1 DEF Ring
<1>6. h2.tail \in 0 .. h.capacity - 1  BY <1>2, <1>3, Zenon
<1>7. h.index \in [1 .. h.capacity -> DOMAIN es] /\ n - L <= h.capacity  BY DEF Ring
<1>8. (n - 1) - L <= h.capacity
  <2>1. n \in Int /\ L \in Int /\ h.capacity \in Int  BY ONLY <1>1, n \in Nat, L \in Nat
  <2> QED  BY ONLY <1>7, <2>1
<1>9. Ring(h2, es, L, n - 1, E)  BY <1>3, <1>5, <1>6, <1>7, <1>8, Zenon DEF Ring
<1> QED  BY <1>3, <1>4, <1>9, Zenon DEF TailAt

IsJoined(s, a, b, n, D) ==
  /\ s \in Seq(D) /\ s \in [1 .. 2 * n -> D] /\ Len(s) = 2 * n
  /\ \A i \in 1 .. n : s[i] = a[i]
  /\ s[n + 1] = b[1]

LEMMA Joined ==
    ASSUME NEW n \in Nat \ {0}, NEW D, NEW a \in [1 .. n -> D], NEW b \in [1 .. n -> D]
    PROVE  IsJoined(a \o b, a, b, n, D)
<1>1. a \in Seq(D) /\ b \in Seq(D)
  <2>1. n \in Nat  OBVIOUS
  <2> QED  BY <2>1, SeqDef, Zenon
<1>2. ASSUME NEW s \in Seq(D), DOMAIN s = 1 .. n PROVE Len(s) = n
  <2> PICK m \in Nat : m = Len(s)  BY LenProperties
  <2>1. 1 .. m = 1 .. n  BY <1>2, LenProperties
  <2>2. n \in 1 .. m  BY <2>1
  <2>3. m \in 1 .. n  BY <2>1, <2>2
  <2> QED  BY <2>2, <2>3
<1>m. Len(a) = n /\ Len(b) = n
  <2>1. DOMAIN a = 1 .. n /\ DOMAIN b = 1 .. n  BY Zenon
  <2> QED  BY <1>1, <1>2, <2>1, Zenon
<1>3. a \o b \in Seq(D) /\ Len(a \o b) = n + n  BY <1>1, <1>m
<1>4. \A i \in 1 .. n + n : (a \o b)[i] = IF i <= n THEN a[i] ELSE b[i - n]
  BY <1>1, <1>m
<1>5. (n + 1) - n = 1 /\ n + 1 \in 1 .. n + n /\ ~(n + 1 <= n) /\ n + n = 2 * n  OBVIOUS
<1>6. (a \o b)[n + 1] = b[1]  BY <1>4, <1>5
<1>7. \A i \in 1 .. n : (a \o b)[i] = a[i]  BY <1>4
<1>8. a \o b \in [1 .. n + n -> D]  BY <1>3, LenProperties, Zenon
<1> QED  BY <1>3, <1>5, <1>6, <1>7, <1>8 DEF IsJoined

\* A block index of twice the size: the entries of h, the latest one last,
\* and as many new ones.
Doubled(h, es, h2) ==
  h2 = [capacity |-> 2 * h.capacity, tail |-> (h.capacity - 1) % (2 * h.capacity),
        index |-> [i \in 1 .. h.capacity |-> h.index[((h.tail + i) % h.capacity) + 1]]
                    \o [i \in 1 .. h.capacity |-> Len(es) + i]]

LEMMA RingDoubled ==
    ASSUME NEW h \in Header, NEW es \in Seq(Entry), NEW L \in Nat, NEW n \in Nat, NEW E,
           Ring(h, es, L, n, E), NEW es2, DOMAIN es2 = 1 .. Len(es) + h.capacity,
           NEW h2, Doubled(h, es, h2)
    PROVE  h2 \in Header /\ Ring(h2, es2, L, n, E) /\ AfterTail(h2) = Len(es) + 1
<1> PICK cap \in Nat \ {0} : cap = h.capacity  BY DEF Header
<1>1. h.tail \in Nat /\ h.tail \in Int /\ Len(es) \in Nat /\ DOMAIN es = 1 .. Len(es)
  BY DEF Header
<1>2. h.index \in [1 .. cap -> DOMAIN es] /\ n - L <= cap  BY DEF Ring
<1>3. ASSUME NEW i \in Int
      PROVE  /\ (h.tail + i) % cap \in 0 .. cap - 1
             /\ h.index[((h.tail + i) % cap) + 1] \in 1 .. Len(es)
  <2> PICK x \in Int : x = h.tail + i  BY <1>1
  <2>1. x % cap \in 0 .. cap - 1  BY Remainder
  <2>2. (x % cap) + 1 \in 1 .. cap  BY <2>1
  <2>3. h.index[(x % cap) + 1] \in DOMAIN es  BY <1>2, <2>2
  <2> QED  BY <1>1, <2>1, <2>3, Zenon
<1> DEFINE prev == [i \in 1 .. cap |-> h.index[((h.tail + i) % cap) + 1]]
           new == [i \in 1 .. cap |-> Len(es) + i]
           ix == prev \o new
<1>0. h2 = [capacity |-> 2 * cap, tail |-> (cap - 1) % (2 * cap), index |-> ix]
  BY Zenon DEF Doubled
<1>4. /\ prev \in [1 .. cap -> 1 .. Len(es) + cap]
      /\ \A i \in 1 .. cap : prev[i] = h.index[((h.tail + i) % cap) + 1]
  <2>1. \A i \in 1 .. cap : h.index[((h.tail + i) % cap) + 1] \in 1 .. Len(es) + cap
    <3> SUFFICES ASSUME NEW i \in 1 .. cap
                 PROVE  h.index[((h.tail + i) % cap) + 1] \in 1 .. Len(es) + cap
      BY Zenon
    <3>1. i \in Int  OBVIOUS
    <3>2. h.index[((h.tail + i) % cap) + 1] \in 1 .. Len(es)  BY <1>3, <3>1, Zenon
    <3>3. 1 .. Len(es) \subseteq 1 .. Len(es) + cap  BY <1>1
    <3> QED  BY <3>2, <3>3, Zenon
  <2> QED  BY <2>1, Zenon
<1>5. new \in [1 .. cap -> 1 .. Len(es) + cap] /\ new[1] = Len(es) + 1
  BY <1>1
<1> HIDE DEF prev, new
<1>7. /\ ix \in Seq(1 .. Len(es) + cap) /\ Len(ix) = 2 * cap
      /\ ix \in [1 .. 2 * cap -> 1 .. Len(es) + cap]
      /\ \A i \in 1 .. cap : ix[i] = prev[i]
      /\ ix[cap + 1] = new[1]
  <2>1. IsJoined(prev \o new, prev, new, cap, 1 .. Len(es) + cap)
    BY <1>4, <1>5, Joined, Zenon
  <2> QED  BY <2>1, Zenon DEF IsJoined
<1> HIDE DEF ix
<1>8. (cap - 1) % (2 * cap) = cap - 1  BY Small
<1>9. h2.capacity = 2 * cap /\ h2.tail = cap - 1 /\ h2.index = ix /\ h2 \in Header
  <2>1. h2 = [capacity |-> 2 * cap, tail |-> cap - 1, index |-> ix]  BY <1>0, <1>8, Zenon
  <2>2. 2 * cap \in Nat \ {0} /\ cap - 1 \in Nat  OBVIOUS
  <2>3. ix \in Seq(Nat \ {0})
    <3>1. 1 .. Len(es) + cap \subseteq Nat \ {0}  BY <1>1
    <3> QED  BY <1>7, <3>1, SeqMonotonic, Zenon
  <2> QED  BY <2>1, <2>2, <2>3 DEF Header
<1>10. h2.tail \in 0 .. h2.capacity - 1 /\ n - L <= h2.capacity  BY <1>2, <1>9
<1>11. h2.index \in [1 .. h2.capacity -> DOMAIN es2]
  <2>1. 1 .. Len(es) + cap = DOMAIN es2  BY Zenon
  <2> QED  BY <1>7, <1>9, <2>1, Zenon
<1>12. ASSUME NEW m \in L .. n - 1 PROVE EntryBefore(h2, (n - 1) - m) = E[m]
  <2> PICK k \in Int : k = (n - 1) - m  OBVIOUS
  <2>1. k \in 0 .. cap - 1  BY <1>2
  <2>2. Position(h2, k) = (cap - 1) - k
    <3>1. /\ (cap - 1) - k \in 0 .. (2 * cap) - 1 /\ (cap - 1) - k \in Int
          /\ 2 * cap \in Nat \ {0}
      BY <2>1
    <3>2. ((cap - 1) - k) % (2 * cap) = (cap - 1) - k  BY <3>1, Small
    <3> QED  BY <1>9, <3>2 DEF Position
  <2>3. EntryBefore(h2, k) = ix[cap - k]
    <3>1. ((cap - 1) - k) + 1 = cap - k  OBVIOUS
    <3> QED  BY <1>9, <2>2, <3>1, Zenon DEF EntryBefore
  <2>4. ix[cap - k] = h.index[((h.tail + (cap - k)) % cap) + 1]
    <3>1. cap - k \in 1 .. cap  BY <2>1
    <3> QED  BY <1>4, <1>7, <3>1, Zenon
  <2>5. (h.tail + (cap - k)) % cap = (h.tail - k) % cap
    <3>1. 1 * cap = cap  BY Times
    <3>2. h.tail + (cap - k) = (h.tail - k) + 1 * cap  BY <1>1, <3>1
    <3>3. h.tail - k \in Int /\ h.tail + (cap - k) \in Int /\ 1 \in Int  BY <1>1
    <3> QED  BY ONLY <3>2, <3>3, cap \in Nat \ {0}, Congruent, ZenonT(30)
  <2>6. EntryBefore(h, k) = h.index[((h.tail - k) % cap) + 1]  BY Zenon DEF EntryBefore, Position
  <2>7. EntryBefore(h, (n - 1) - m) = E[m]  BY Zenon DEF Ring
  <2> QED  BY <2>3, <2>4, <2>5, <2>6, <2>7, Zenon
<1>13. AfterTail(h2) = Len(es) + 1
  <2>1. (cap - 1) + 1 = cap  OBVIOUS
  <2>2. cap % (2 * cap) = cap
    <3>1. cap \in 0 .. (2 * cap) - 1 /\ 2 * cap \in Nat \ {0} /\ cap \in Int  OBVIOUS
    <3> QED  BY <3>1, Small
  <2> QED  BY <1>5, <1>7, <1>9, <2>1, <2>2, Zenon DEF AfterTail
<1> QED  BY <1>9, <1>10, <1>11, <1>12, <1>13 DEF Ring

-----------------------------------------------------------------------------
(* What a consumer knows of a producer stays true when the producer moves. *)

\* Block indexes hs2 show the same blocks at the same positions as hs.
Turned(hs, N, hs2, N2) ==
  /\ Len(hs) <= Len(hs2)
  /\ \A j \in 1 .. Len(hs) : \A k \in Int :
       Position(hs2[j], (N2[j] - 1) - k) = Position(hs[j], (N[j] - 1) - k)

\* The block after the head is still in every block index that it was in.
StillAhead(hs, H, N, N2) == \A j \in 1 .. Len(hs) : H <= Base(N[j]) => H <= Base(N2[j])

\* The tail that a consumer has read can still be told from the positions.
StillRead(c, L, hs, es, q, T, N, hs2, es2, q2, T2, N2) ==
  c.pc = "find" => \A j \in 1 .. Len(hs) : \A k \in Nat :
    L <= k /\ TailRead(c, hs[j], j = Len(hs), es, q, T, N[j], k)
      => TailRead(c, hs2[j], j = Len(hs2), es2, q2, T2, N2[j], k)

LEMMA WorkingKept ==
    ASSUME NEW c, NEW hs, NEW es, NEW q, NEW T, NEW H, NEW F, NEW S, NEW L \in Nat, NEW E,
           NEW N \in [Nat -> Nat], Working(c, hs, es, q, T, H, F, S, L, E, N),
           NEW hs2, NEW es2, NEW q2, NEW T2, NEW E2, NEW N2 \in [Nat -> Nat],
           Len(hs) \in Nat, Len(hs2) \in Nat, Turned(hs, N, hs2, N2),
           StillAhead(hs, H, N, N2),
           c.pc \in {"take", "count", "remove"} => es2[E2[L]].value = es[E[L]].value,
           StillRead(c, L, hs, es, q, T, N, hs2, es2, q2, T2, N2)
    PROVE  Working(c, hs2, es2, q2, T2, H, F, S, L, E2, N2)
<1> DEFINE j == c.localBlockIndex
<1>1. /\ c.index = Wrap(F) /\ c.end = Wrap(H)
      /\ c.pc \in {"index", "tail", "find"} => S = F /\ F < H
      /\ c.pc = "take" => F < H /\ F < Base(L) + BLOCK_SIZE
      /\ c.pc = "count" => /\ S < F /\ F <= Base(L) + BLOCK_SIZE
                           /\ F = H \/ F = Base(L) + BLOCK_SIZE
      /\ c.pc \in {"index", "tail", "find", "take", "count"} => c.start = Wrap(S)
      /\ c.pc = "remove" => S = F /\ F = Base(L) + BLOCK_SIZE
      /\ c.pc = "free" => S = F /\ F = Base(L)
      /\ c.pc # "remove" => S < Base(L) + BLOCK_SIZE
  BY Zenon DEF Working
<1>2. c.pc # "index" => /\ j \in 1 .. Len(hs) /\ H <= Base(N[j]) /\ j \in 1 .. Len(hs2)
                        /\ H <= Base(N2[j])
  <2> SUFFICES ASSUME c.pc # "index"
               PROVE  /\ j \in 1 .. Len(hs) /\ H <= Base(N[j]) /\ j \in 1 .. Len(hs2)
                      /\ H <= Base(N2[j])
    BY Zenon
  <2>1. j \in 1 .. Len(hs) /\ H <= Base(N[j])  BY Zenon DEF Working
  <2>2. 1 .. Len(hs) \subseteq 1 .. Len(hs2)
    <3>1. Len(hs) <= Len(hs2)  BY DEF Turned
    <3> QED  BY <3>1
  <2> QED  BY <2>1, <2>2, Zenon DEF StillAhead
<1>3. ASSUME c.pc = "find"
      PROVE  \E k \in Nat : L <= k /\ TailRead(c, hs2[j], j = Len(hs2), es2, q2, T2, N2[j], k)
  <2>1. PICK k \in Nat : L <= k /\ TailRead(c, hs[j], j = Len(hs), es, q, T, N[j], k)
    BY <1>3, Zenon DEF Working
  <2>2. j \in 1 .. Len(hs)  BY <1>2, <1>3, Zenon
  <2> QED  BY <1>3, <2>1, <2>2, Zenon DEF StillRead
<1>4. ASSUME c.pc \in {"take", "count", "remove"}
      PROVE  c.indexIndex = Position(hs2[j], (N2[j] - 1) - L) /\ c.block = es2[E2[L]].value
  <2>1. c.indexIndex = Position(hs[j], (N[j] - 1) - L) /\ c.block = es[E[L]].value
    BY <1>4, Zenon DEF Working
  <2>2. c.pc # "index"  BY <1>4
  <2>3. j \in 1 .. Len(hs)  BY <1>2, <2>2, Zenon
  <2>4. L \in Int  BY ONLY L \in Nat
  <2> QED  BY <1>4, <2>1, <2>3, <2>4, Zenon DEF Turned
<1>5. ASSUME c.pc = "free" PROVE c.indexIndex = Position(hs2[j], N2[j] - L)
  <2>1. c.indexIndex = Position(hs[j], N[j] - L)  BY <1>5, Zenon DEF Working
  <2>2. j \in 1 .. Len(hs) /\ L - 1 \in Int
    <3>1. c.pc # "index"  BY <1>5
    <3>2. L - 1 \in Int  BY ONLY L \in Nat
    <3> QED  BY <1>2, <3>1, <3>2, Zenon
  <2>3. Position(hs2[j], (N2[j] - 1) - (L - 1)) = Position(hs[j], (N[j] - 1) - (L - 1))
    BY <2>2, Zenon DEF Turned
  <2>4. N[j] \in Nat /\ N2[j] \in Nat
    <3>1. 1 .. Len(hs) \subseteq Nat  BY ONLY Len(hs) \in Nat
    <3> QED  BY <2>2, <3>1, Zenon
  <2>5. (N2[j] - 1) - (L - 1) = N2[j] - L /\ (N[j] - 1) - (L - 1) = N[j] - L
    BY ONLY <2>4, L \in Nat
  <2> QED  BY <2>1, <2>3, <2>5, Zenon
<1> QED  BY <1>1, <1>2, <1>3, <1>4, <1>5, Zenon DEF Working

\* The queue of a producer that neither side works on.
LEMMA OtherQueue ==
    ASSUME NEW p \in Producer, Queue(p),
           tailIndex'[p] = tailIndex[p], headIndex'[p] = headIndex[p],
           dequeueOptimisticCount'[p] = dequeueOptimisticCount[p],
           dequeueOvercommit'[p] = dequeueOvercommit[p],
           tailBlock'[p] = tailBlock[p], headers'[p] = headers[p], entries'[p] = entries[p],
           pc'[p] = pc[p], idxEntry'[p] = idxEntry[p],
           \/ consumer' = consumer
           \/ ~(consumer.pc \in Work /\ consumer.best = p)
              /\ ~(consumer'.pc \in Work /\ consumer'.best = p),
           \A e \in DOMAIN entries[p] : entries[p][e].value # null =>
             elementsCompletelyDequeued'[entries[p][e].value]
               = elementsCompletelyDequeued[entries[p][e].value]
    PROVE  Queue(p)'
<1>1. PICK T, H, F, S, L, C \in Nat, E, N \in [Nat -> Nat] : QueueIs(p, T, H, F, S, L, C, E, N)
  BY Zenon DEF Queue
<1>2. /\ Indices(tailIndex[p], headIndex[p], dequeueOptimisticCount[p], dequeueOvercommit[p], T, H)
      /\ Order(pc[p], T, H, F, S, L, C)
      /\ Chain(entries[p], pc[p], L, C, E)
      /\ Hand(headers[p], entries[p], pc[p], idxEntry[p], tailBlock[p], T, C, E)
      /\ Rings(headers[p], entries[p], pc[p], L, C, E, N)
      /\ Consuming(consumer, p, headers[p], entries[p], pc[p], T, H, F, S, L, E, N)
      /\ Emptied(entries[p], elementsCompletelyDequeued, S, L, C, E)
  BY <1>1, Zenon DEF QueueIs
<1>3. Consuming(consumer', p, headers[p], entries[p], pc[p], T, H, F, S, L, E, N)
  BY <1>2, Zenon DEF Consuming
<1>4. Emptied(entries[p], elementsCompletelyDequeued', S, L, C, E)
  <2>1. \A m \in L .. C - 1 : E[m] \in DOMAIN entries[p]  BY <1>2, Zenon DEF Chain
  <2> QED  BY <1>2, <2>1, Zenon DEF Emptied
<1>5. QueueIs(p, T, H, F, S, L, C, E, N)'
  BY <1>2, <1>3, <1>4, Zenon DEF QueueIs
<1> QED  BY <1>1, <1>5, Zenon DEF Queue

LEMMA Values == null \notin Nat /\ Block \subseteq Nat \ {0} /\ null \notin Block /\ null \notin Index
<1>1. Block \subseteq Nat \ {0}  BY Sizes DEF Block
<1>2. Index \subseteq Nat  BY Sizes DEF Index
<1> QED  BY <1>1, <1>2, QueueAssumption

LEMMA Beyond ==
    ASSUME NEW l \in Nat
    PROVE  /\ 1 .. l \subseteq Nat /\ l + 1 \in Nat /\ l <= l + 1 /\ l + 1 \notin 1 .. l
           /\ \A n \in Nat \ {0} : l + 1 \in 1 .. l + n
OBVIOUS

LEMMA HeadersAre ==
    ASSUME NEW hs \in Seq(Header)
    PROVE  /\ Len(hs) \in Nat /\ (hs = <<>> <=> Len(hs) = 0)
           /\ DOMAIN hs = 1 .. Len(hs) /\ \A j \in 1 .. Len(hs) : hs[j] \in Header
           /\ hs # <<>> => Last(hs) = hs[Len(hs)] /\ Len(hs) \in 1 .. Len(hs)
<1>1. Len(hs) \in Nat /\ DOMAIN hs = 1 .. Len(hs) /\ \A j \in 1 .. Len(hs) : hs[j] \in Header
  BY LenProperties, ElementOfSeq, Zenon
<1>2. hs = <<>> <=> Len(hs) = 0  BY EmptySeq
<1>3. hs # <<>> => Len(hs) \in 1 .. Len(hs)  BY <1>1, <1>2
<1> QED  BY <1>1, <1>2, <1>3, Zenon DEF Last

LEMMA NotTurned ==
    ASSUME NEW hs \in Seq(Header), NEW H, NEW N
    PROVE  Turned(hs, N, hs, N) /\ StillAhead(hs, H, N, N)
<1>1. Len(hs) <= Len(hs)  BY LenProperties
<1> QED  BY <1>1, Zenon DEF Turned, StillAhead

\* The block that the consumer is at has been filled up to the index it wants.
LEMMA AtFirst ==
    ASSUME NEW T \in Nat, NEW H \in Nat, NEW F \in Nat, NEW S \in Nat, NEW L \in Nat,
           NEW C \in Nat, NEW q, NEW c, NEW hs, NEW es, NEW E, NEW N,
           Order(q, T, H, F, S, L, C), Working(c, hs, es, q, T, H, F, S, L, E, N),
           c.pc \in {"take", "count", "remove"}
    PROVE  L < C /\ Base(L) < T /\ (q = "block" => L < C - 1)
<1>0. BLOCK_SIZE \in Nat \ {0} /\ Base(L) \in Nat /\ Base(C) \in Nat  BY Sizes, Bases
<1>1. /\ L <= C /\ Base(L) <= S /\ S <= F /\ F <= H /\ H <= T /\ T <= Base(C)
      /\ q = "block" => Base(C) = T + BLOCK_SIZE
  BY DEF Order
<1>2. F < H \/ S < F \/ S = Base(L) + BLOCK_SIZE
  <2>1. /\ c.pc = "take" => F < H
        /\ c.pc = "count" => S < F
        /\ c.pc = "remove" => S = F /\ F = Base(L) + BLOCK_SIZE
    BY Zenon DEF Working
  <2> QED  BY <2>1
<1>3. Base(L) < T  BY ONLY <1>0, <1>1, <1>2, T \in Nat, H \in Nat, F \in Nat, S \in Nat
<1>4. ASSUME NEW m \in Nat, T <= Base(m) PROVE L < m
  <2> SUFFICES ASSUME m <= L PROVE FALSE  OBVIOUS
  <2>1. Base(m) <= Base(L) /\ Base(m) \in Nat  BY Bases
  <2> QED  BY ONLY <1>0, <1>3, <1>4, <2>1, T \in Nat
<1>5. L < C  BY <1>1, <1>4
<1>6. ASSUME q = "block" PROVE L < C - 1
  <2> PICK n \in Nat : C = n + 1  BY ONLY <1>5, L \in Nat, C \in Nat
  <2>1. Base(n) \in Nat /\ Base(n + 1) = Base(n) + BLOCK_SIZE  BY Bases
  <2>2. T = Base(n)  BY ONLY <1>0, <1>1, <1>6, <2>1, C = n + 1, T \in Nat
  <2>3. L < n  BY <1>4, <2>1, <2>2
  <2> QED  BY <2>3
<1> QED  BY <1>3, <1>5, <1>6

LEMMA ConsumingKept ==
    ASSUME NEW p, NEW c, NEW hs \in Seq(Header), NEW es, NEW q, NEW T \in Nat, NEW H \in Nat,
           NEW F \in Nat, NEW S \in Nat, NEW L \in Nat, NEW C \in Nat, NEW E,
           NEW N \in [Nat -> Nat], Order(q, T, H, F, S, L, C),
           Consuming(c, p, hs, es, q, T, H, F, S, L, E, N),
           NEW hs2 \in Seq(Header), NEW es2, NEW q2, NEW T2, NEW E2, NEW N2 \in [Nat -> Nat],
           Turned(hs, N, hs2, N2), StillAhead(hs, H, N, N2),
           L < C /\ (q = "block" => L < C - 1) => es2[E2[L]].value = es[E[L]].value,
           StillRead(c, L, hs, es, q, T, N, hs2, es2, q2, T2, N2)
    PROVE  Consuming(c, p, hs2, es2, q2, T2, H, F, S, L, E2, N2)
<1>1. CASE c.pc \in Work /\ c.best = p
  <2>1. Working(c, hs, es, q, T, H, F, S, L, E, N)  BY <1>1, Zenon DEF Consuming
  <2>2. c.pc \in {"take", "count", "remove"} => es2[E2[L]].value = es[E[L]].value
    BY <2>1, AtFirst, Zenon
  <2>3. Len(hs) \in Nat /\ Len(hs2) \in Nat  BY LenProperties, Zenon
  <2>4. Working(c, hs2, es2, q2, T2, H, F, S, L, E2, N2)
    BY <2>1, <2>2, <2>3, WorkingKept, Zenon
  <2> QED  BY <1>1, <2>4, Zenon DEF Consuming
<1>2. CASE ~(c.pc \in Work /\ c.best = p)  BY <1>2, Zenon DEF Consuming
<1> QED  BY <1>1, <1>2, Zenon

-----------------------------------------------------------------------------
(* The queue of a producer that takes a step                               *)

LEMMA Parts ==
    ASSUME NEW p \in Producer, NEW T, NEW H, NEW F, NEW S, NEW L, NEW C, NEW E, NEW N
    PROVE  QueueIs(p, T, H, F, S, L, C, E, N) <=>
      /\ Indices(tailIndex[p], headIndex[p], dequeueOptimisticCount[p], dequeueOvercommit[p],
                 T, H)
      /\ Order(pc[p], T, H, F, S, L, C)
      /\ Chain(entries[p], pc[p], L, C, E)
      /\ Hand(headers[p], entries[p], pc[p], idxEntry[p], tailBlock[p], T, C, E)
      /\ Rings(headers[p], entries[p], pc[p], L, C, E, N)
      /\ Consuming(consumer, p, headers[p], entries[p], pc[p], T, H, F, S, L, E, N)
      /\ Emptied(entries[p], elementsCompletelyDequeued, S, L, C, E)
BY Zenon DEF QueueIs

\* What enqueue finds out before it asks for a block.
LEMMA Begins ==
    ASSUME NEW p \in Producer, pc \in [Producer -> Doing], Enqueue(p),
           NEW T \in Nat, NEW H \in Nat, NEW F \in Nat, NEW S \in Nat, NEW L \in Nat,
           NEW C \in Nat, tailIndex[p] = Wrap(T), headIndex[p] = Wrap(H),
           Order(pc[p], T, H, F, S, L, C)
    PROVE  /\ pc[p] = "idle" /\ pc'[p] \in {"idle", "slot", "construct"}
           /\ T = Base(C) => pc'[p] # "construct"
           /\ pc'[p] = "construct" => T < Base(C)
           /\ Order(pc'[p], T, H, F, S, L, C)
<1>0. /\ IndexRange \in Nat \ {0} /\ BLOCK_SIZE \in Nat \ {0} /\ Base(C) \in Nat
      /\ 2 * BLOCK_SIZE <= IndexRange /\ IndexRange \div 2 \in Nat /\ Half \in Nat
      /\ Half = IndexRange - (IndexRange \div 2) /\ Half <= (IndexRange \div 2) + 1
  BY Sizes, Bases
<1>1. /\ pc[p] = "idle"
      /\ pc'[p] = IF tailIndex[p] % BLOCK_SIZE # 0 THEN "construct"
                  ELSE IF Room(p) THEN "slot" ELSE "idle"
  BY Zenon DEF Enqueue, Transition
<1>2. /\ L <= C /\ Base(L) <= S /\ S <= F /\ F <= H /\ H <= T
      /\ T <= Base(C) /\ Base(C) <= T + BLOCK_SIZE
      /\ Base(C) - H < Half /\ H - S < Half /\ Base(C) < T + BLOCK_SIZE
  BY <1>1 DEF Order
<1>3. tailIndex[p] % BLOCK_SIZE = 0 <=> T = Base(C)
  BY <1>2, TailOffset, Zenon
<1>4. ASSUME T = Base(C), Room(p) PROVE Base(C) + BLOCK_SIZE - H < Half
  <2>1. Plus(tailIndex[p], BLOCK_SIZE) = Wrap(T + BLOCK_SIZE)  BY <1>0, Wrapped
  <2>2. circular_less_than(Wrap(H), Wrap(T + BLOCK_SIZE))  BY <1>4, <2>1, Zenon DEF Room
  <2> PICK y \in Nat : y = T + BLOCK_SIZE  BY <1>0
  <2>3. BLOCK_SIZE <= IndexRange \div 2  BY ONLY <1>0
  <2>4. H <= y /\ y - H <= IndexRange
    BY ONLY <1>0, <1>2, <1>4, <2>3, y = T + BLOCK_SIZE, T \in Nat, H \in Nat, y \in Nat
  <2>5. y - H < Half  BY <2>2, <2>4, Before
  <2> QED  BY ONLY <1>0, <1>4, <2>5, y = T + BLOCK_SIZE, T \in Nat, H \in Nat, y \in Nat
<1>5. ASSUME T = Base(C), Room(p) PROVE Order("slot", T, H, F, S, L, C)
  BY <1>2, <1>4, <1>5 DEF Order
<1>6. ASSUME T # Base(C) PROVE Order("construct", T, H, F, S, L, C)
  <2>1. T < Base(C)  BY <1>0, <1>2, <1>6
  <2> QED  BY <1>2, <2>1 DEF Order
<1>7. T # Base(C) => T < Base(C)  BY <1>0, <1>2
<1>8. CASE T # Base(C)
  <2>1. pc'[p] = "construct"  BY <1>1, <1>3, <1>8, Zenon
  <2> QED  BY <1>1, <1>6, <1>7, <1>8, <2>1
<1>9. CASE T = Base(C) /\ Room(p)
  <2>1. pc'[p] = "slot"  BY <1>1, <1>3, <1>9, Zenon
  <2> QED  BY <1>1, <1>5, <1>9, <2>1
<1>10. CASE T = Base(C) /\ ~Room(p)
  <2>1. pc'[p] = "idle"  BY <1>1, <1>3, <1>10, Zenon
  <2> QED  BY <1>1, <1>10, <2>1
<1> QED  BY <1>8, <1>9, <1>10, Zenon

LEMMA TypesOf ==
    ASSUME Types, NEW p \in Producer
    PROVE  /\ headers[p] \in Seq(Header) /\ entries[p] \in Seq(Entry) /\ idxEntry[p] \in Nat
           /\ tailBlock[p] \in BlockOrNull /\ pc \in [Producer -> Doing] /\ consumer \in Calls
           /\ tailIndex[p] \in Index /\ headIndex[p] \in Index
BY Zenon DEF Types

LEMMA EnqueueQueue ==
    ASSUME Types, NEW p \in Producer, Queue(p), Enqueue(p), headers'[p] = headers[p],
           entries'[p] = entries[p]
    PROVE  Queue(p)'
<1>1. PICK T, H, F, S, L, C \in Nat, E, N \in [Nat -> Nat] : QueueIs(p, T, H, F, S, L, C, E, N)
  BY Zenon DEF Queue
<1> DEFINE hs == headers[p]
           es == entries[p]
           q == pc[p]
           q2 == pc'[p]
<1>2. /\ Indices(tailIndex[p], headIndex[p], dequeueOptimisticCount[p], dequeueOvercommit[p], T, H)
      /\ Order(q, T, H, F, S, L, C)
      /\ Chain(es, q, L, C, E)
      /\ Hand(hs, es, q, idxEntry[p], tailBlock[p], T, C, E)
      /\ Rings(hs, es, q, L, C, E, N)
      /\ Consuming(consumer, p, hs, es, q, T, H, F, S, L, E, N)
      /\ Emptied(es, elementsCompletelyDequeued, S, L, C, E)
  BY <1>1, Parts, Zenon
<1>3. /\ tailIndex' = tailIndex /\ tailBlock' = tailBlock /\ headIndex' = headIndex
      /\ dequeueOptimisticCount' = dequeueOptimisticCount
      /\ dequeueOvercommit' = dequeueOvercommit
      /\ elementsCompletelyDequeued' = elementsCompletelyDequeued
      /\ idxEntry' = idxEntry /\ consumer' = consumer
  BY Zenon DEF Enqueue, dequeued, blocks
<1>4. hs \in Seq(Header) /\ es \in Seq(Entry) /\ pc \in [Producer -> Doing]
  BY TypesOf, Zenon
<1>5. /\ q = "idle" /\ q2 \in {"idle", "slot", "construct"}
      /\ T = Base(C) => q2 # "construct"
      /\ q2 = "construct" => T < Base(C)
      /\ Order(q2, T, H, F, S, L, C)
  <2>1. tailIndex[p] = Wrap(T) /\ headIndex[p] = Wrap(H)  BY <1>2, Zenon DEF Indices
  <2> QED  BY <1>2, <1>4, <2>1, Begins, Zenon
<1>6. q # "block" /\ q2 # "block"  BY <1>5
<1>7. Chain(es, q2, L, C, E)  BY <1>2, <1>6, Zenon DEF Chain
<1>8. Hand(hs, es, q2, idxEntry[p], tailBlock[p], T, C, E)
  <2>1. ASSUME hs = <<>> PROVE C = 0 /\ q2 \in {"idle", "slot"}
    <3>1. C = 0  BY <1>2, <2>1, Zenon DEF Hand
    <3>2. T <= Base(C) /\ Base(C) = 0  BY <1>2, <3>1, Bases DEF Order
    <3>3. T = Base(C)  BY <3>2
    <3> QED  BY <1>5, <3>1, <3>3
  <2>2. q2 # "insert" /\ q2 # "block"  BY <1>5
  <2>3. T < Base(C) => tailBlock[p] = es[E[C - 1]].value  BY <1>2, <1>6, Zenon DEF Hand
  <2> QED  BY <2>1, <2>2, <2>3, Zenon DEF Hand
<1>9. Rings(hs, es, q2, L, C, E, N)  BY <1>2, <1>6, Zenon DEF Rings
<1>10. StillRead(consumer, L, hs, es, q, T, N, hs, es, q2, T, N)
  <2> SUFFICES ASSUME NEW j \in 1 .. Len(hs), NEW k \in Nat,
                      TailRead(consumer, hs[j], j = Len(hs), es, q, T, N[j], k)
               PROVE  TailRead(consumer, hs[j], j = Len(hs), es, q2, T, N[j], k)
    BY Zenon DEF StillRead
  <2>1. k = N[j] => q2 \in {"idle", "slot", "insert"}
    <3> SUFFICES ASSUME k = N[j] PROVE q2 \in {"idle", "slot", "insert"}  OBVIOUS
    <3>1. j = Len(hs) /\ T = Base(k)  BY Zenon DEF TailRead
    <3>2. N[j] = C  BY <1>2, <3>1, Zenon DEF Rings
    <3>3. T = Base(C)  BY <3>1, <3>2, Zenon
    <3> QED  BY <1>5, <3>3, Zenon
  <2> QED  BY <2>1, Zenon DEF TailRead
<1>11. Consuming(consumer, p, hs, es, q2, T, H, F, S, L, E, N)
  BY <1>2, <1>4, <1>10, NotTurned, ConsumingKept, Zenon
<1>12. QueueIs(p, T, H, F, S, L, C, E, N)'
  BY <1>2, <1>3, <1>5, <1>7, <1>8, <1>9, <1>11, Zenon DEF QueueIs
<1> QED  BY <1>12, Zenon DEF Queue

-----------------------------------------------------------------------------
(* new_block_index                                                         *)

NoEntry == [key |-> INVALID_BLOCK_BASE, value |-> null]

LEMMA SequenceOf ==
    ASSUME NEW n \in Nat, NEW D, NEW s \in [1 .. n -> D]
    PROVE  s \in Seq(D) /\ Len(s) = n
<1>1. s \in Seq(D)  BY SeqDef, Zenon
<1> PICK m \in Nat : m = Len(s)  BY <1>1, LenProperties
<1>2. DOMAIN s = 1 .. n /\ DOMAIN s = 1 .. m
  <2>1. DOMAIN s = 1 .. n  BY Zenon
  <2>2. DOMAIN s = 1 .. m  BY <1>1, LenProperties, Zenon
  <2> QED  BY <2>1, <2>2
<1>3. 1 .. m = 1 .. n  BY <1>2, Zenon
<1>4. m = n
  <2>1. m > 0 => m \in 1 .. n  BY ONLY <1>3, m \in Nat, n \in Nat
  <2>2. n > 0 => n \in 1 .. m  BY ONLY <1>3, m \in Nat, n \in Nat
  <2> QED  BY ONLY <2>1, <2>2, m \in Nat, n \in Nat
<1> QED  BY <1>1, <1>4

\* es2 has n more entries than es, which were never used.
Extended(es2, es, n) ==
  /\ es2 \in Seq(Entry) /\ DOMAIN es2 = 1 .. Len(es) + n
  /\ DOMAIN es \subseteq DOMAIN es2
  /\ \A e \in DOMAIN es : es2[e] = es[e]
  /\ \A e \in DOMAIN es2 : e \in DOMAIN es \/ es2[e] = NoEntry

LEMMA EmptyEntries ==
    ASSUME NEW es \in Seq(Entry), NEW n \in Nat
    PROVE  Extended(es \o [i \in 1 .. n |-> NoEntry], es, n)
<1> DEFINE es2 == es \o [i \in 1 .. n |-> NoEntry]
<1>0. Len(es) \in Nat /\ DOMAIN es = 1 .. Len(es)  BY LenProperties
<1>1. NoEntry \in Entry
  <2>1. INVALID_BLOCK_BASE \in Index
    <3>1. IndexRange \in Nat /\ BLOCK_SIZE \in Nat \ {0, 1} /\ 2 * BLOCK_SIZE <= IndexRange
      BY Sizes
    <3> QED  BY <3>1 DEF Index, INVALID_BLOCK_BASE
  <2> QED  BY <2>1 DEF NoEntry, Entry, BlockOrNull
<1> DEFINE new == [i \in 1 .. n |-> NoEntry]
<1>2. new \in [1 .. n -> Entry] /\ \A i \in 1 .. n : new[i] = NoEntry  BY <1>1, Zenon
<1> HIDE DEF new
<1>3. new \in Seq(Entry) /\ Len(new) = n  BY <1>2, SequenceOf, Zenon
<1>4. /\ es2 \in Seq(Entry) /\ Len(es2) = Len(es) + n
      /\ \A i \in 1 .. Len(es) + n :
           es2[i] = IF i <= Len(es) THEN es[i] ELSE new[i - Len(es)]
  <2>1. es2 = es \o new  BY Zenon DEF new
  <2> HIDE DEF es2
  <2>2. /\ es2 \in Seq(Entry) /\ Len(es2) = Len(es) + Len(new)
        /\ \A i \in 1 .. Len(es) + Len(new) :
             es2[i] = IF i <= Len(es) THEN es[i] ELSE new[i - Len(es)]
    BY <1>3, <2>1, ConcatProperties, Zenon
  <2> QED  BY <1>3, <2>2, Zenon
<1> HIDE DEF es2
<1>5. DOMAIN es2 = 1 .. Len(es) + n  BY <1>4, LenProperties, Zenon
<1>6. DOMAIN es \subseteq DOMAIN es2  BY <1>0, <1>5
<1>7. ASSUME NEW e \in DOMAIN es PROVE es2[e] = es[e]
  <2>1. e \in 1 .. Len(es) + n /\ e <= Len(es)  BY <1>0
  <2> QED  BY <1>4, <2>1, Zenon
<1>8. ASSUME NEW e \in DOMAIN es2, e \notin DOMAIN es PROVE es2[e] = NoEntry
  <2>1. e \in 1 .. Len(es) + n /\ ~(e <= Len(es)) /\ e - Len(es) \in 1 .. n
    BY <1>0, <1>5, <1>8
  <2>2. es2[e] = new[e - Len(es)]  BY <1>4, <2>1, Zenon
  <2> QED  BY <1>2, <2>1, <2>2, Zenon
<1>9. Extended(es2, es, n)  BY <1>4, <1>5, <1>6, <1>7, <1>8, Zenon DEF Extended
<1> QED  BY <1>9, Zenon DEF es2

\* The first block index of a producer.
LEMMA FirstIndex ==
    ASSUME Types, NEW p \in Producer, headers[p] = <<>>, entries[p] = <<>>, new_block_index(p)
    PROVE  \E h \in Header : \E es2 \in Seq(Entry) :
             /\ headers' = [headers EXCEPT ![p] = <<h>>]
             /\ entries' = [entries EXCEPT ![p] = es2]
             /\ \A e \in DOMAIN es2 : es2[e].value = null
             /\ \A E : Ring(h, es2, 0, 0, E)
<1> PICK n \in Nat \ {0} : n = IMPLICIT_INITIAL_INDEX_SIZE  BY QueueAssumption
<1> DEFINE new == [i \in 1 .. n |-> 0 + i]
<1>1. NextBlockIndexCapacity(p) = n /\ PreviousEntries(p) = <<>>
  BY Zenon DEF NextBlockIndexCapacity, PreviousEntries
<1>2. FreshEntries(p) = new
  <2>1. Len(entries[p]) = 0  BY EmptySeq
  <2> QED  BY <1>1, <2>1 DEF FreshEntries
<1>3. new \in [1 .. n -> 1 .. n] /\ DOMAIN new = 1 .. n  OBVIOUS
<1>4. (0 - 1) % n = n - 1 /\ n - 1 \in 0 .. n - 1
  <2>1. -n <= 0 - 1 /\ 0 - 1 < 0 /\ 0 - 1 \in Int /\ (0 - 1) + n = n - 1 /\ n - 1 \in 0 .. n - 1
    OBVIOUS
  <2>2. (0 - 1) % n = (0 - 1) + n  BY <2>1, Small
  <2> QED  BY <2>1, <2>2
<1> HIDE DEF new
<1>5. new \in Seq(1 .. n) /\ Len(new) = n
  <2>1. n \in Nat  OBVIOUS
  <2> QED  BY <1>3, <2>1, SequenceOf, Zenon
<1>6. <<>> \o new = new  BY <1>5, ConcatEmptySeq, Zenon
<1> PICK h : h = [capacity |-> n, tail |-> n - 1, index |-> new]  OBVIOUS
<1>7. h \in Header
  <2>1. new \in Seq(Nat \ {0})
    <3>1. 1 .. n \subseteq Nat \ {0}  OBVIOUS
    <3> QED  BY <1>5, <3>1, SeqMonotonic, Zenon
  <2>2. n - 1 \in Nat  OBVIOUS
  <2> QED  BY <2>1, <2>2 DEF Header
<1> DEFINE es2 == <<>> \o [i \in 1 .. n |-> NoEntry]
<1>8. headers' = [headers EXCEPT ![p] = <<h>>]
  <2>1. h = [capacity |-> n, tail |-> (Len(PreviousEntries(p)) - 1) % n,
             index |-> PreviousEntries(p) \o FreshEntries(p)]
    <3>1. Len(PreviousEntries(p)) = 0  BY <1>1, EmptySeq
    <3> QED  BY <1>1, <1>2, <1>4, <1>6, <3>1, Zenon
  <2>2. Append(headers[p], h) = <<h>>  OBVIOUS
  <2>3. headers' = [headers EXCEPT ![p] = Append(headers[p], h)]
    BY <1>1, <2>1, Zenon DEF new_block_index
  <2> QED  BY <2>2, <2>3, Zenon
<1>9. entries' = [entries EXCEPT ![p] = es2]
  BY <1>2, <1>3, Zenon DEF new_block_index, NoEntry
<1>10. /\ es2 \in Seq(Entry) /\ DOMAIN es2 = 1 .. 0 + n
       /\ \A e \in DOMAIN es2 : e \in DOMAIN <<>> \/ es2[e] = NoEntry
  <2>1. <<>> \in Seq(Entry) /\ Len(<<>>) = 0 /\ n \in Nat  BY EmptySeq
  <2>2. /\ es2 \in Seq(Entry) /\ DOMAIN es2 = 1 .. Len(<<>>) + n
        /\ \A e \in DOMAIN es2 : e \in DOMAIN <<>> \/ es2[e] = NoEntry
    <3>1. Extended(es2, <<>>, n)  BY <2>1, EmptyEntries, Zenon
    <3> QED  BY <3>1, Zenon DEF Extended
  <2> HIDE DEF es2
  <2> QED  BY <2>1, <2>2, Zenon
<1> HIDE DEF es2
<1>11. \A e \in DOMAIN es2 : es2[e].value = null
  <2>1. NoEntry.value = null /\ DOMAIN <<>> = {}  BY DEF NoEntry
  <2> QED  BY <1>10, <2>1, Zenon
<1>12. ASSUME NEW E PROVE Ring(h, es2, 0, 0, E)
  <2>1. h.tail \in 0 .. h.capacity - 1 /\ 0 - 0 <= h.capacity  BY <1>4
  <2>2. h.index \in [1 .. h.capacity -> DOMAIN es2]
    <3>1. 0 + n = n  OBVIOUS
    <3> QED  BY <1>3, <1>10, <3>1, Zenon
  <2>3. 0 .. 0 - 1 = {}  OBVIOUS
  <2> QED  BY <2>1, <2>2, <2>3, Zenon DEF Ring
<1> QED  BY <1>7, <1>8, <1>9, <1>10, <1>11, <1>12, Zenon

\* The block index that replaces one that is full.
LEMMA NextIndex ==
    ASSUME Types, NEW p \in Producer, headers[p] # <<>>, new_block_index(p)
    PROVE  /\ Current(p) \in Header
           /\ \E h : \E es2 :
                /\ headers' = [headers EXCEPT ![p] = Append(headers[p], h)]
                /\ entries' = [entries EXCEPT ![p] = es2]
                /\ Doubled(Current(p), entries[p], h)
                /\ Extended(es2, entries[p], Current(p).capacity)
<1>1. Current(p) \in Header
  <2>1. headers[p] \in Seq(Header)  BY TypesOf, Zenon
  <2> QED  BY <2>1, HeadersAre, Zenon DEF Current
<1>2. PICK n \in Nat \ {0} : n = Current(p).capacity  BY <1>1 DEF Header
<1> DEFINE old == [i \in 1 .. n |-> Current(p).index[((Current(p).tail + i) % n) + 1]]
           new == [i \in 1 .. n |-> Len(entries[p]) + i]
<1>3. PreviousEntries(p) = old  BY <1>2, Zenon DEF PreviousEntries
<1>4. NextBlockIndexCapacity(p) = 2 * n  BY <1>2, Zenon DEF NextBlockIndexCapacity
<1>5. Len(old) = n /\ old # <<>>
  <2>1. old \in [1 .. n -> {old[i] : i \in 1 .. n}]  BY Zenon
  <2> HIDE DEF old
  <2>2. n \in Nat  OBVIOUS
  <2>3. Len(old) = n  BY <2>1, <2>2, SequenceOf, Zenon
  <2>4. Len(<<>>) = 0 /\ n # 0  OBVIOUS
  <2> QED  BY <2>3, <2>4, Zenon
<1>6. FreshEntries(p) = new
  <2> HIDE DEF old
  <2> QED  BY <1>3, <1>5, Zenon DEF FreshEntries
<1>7. DOMAIN new = 1 .. n  BY Zenon
<1> DEFINE h == [capacity |-> 2 * n, tail |-> (n - 1) % (2 * n), index |-> old \o new]
           es2 == entries[p] \o [i \in 1 .. n |-> NoEntry]
<1>8. headers' = [headers EXCEPT ![p] = Append(headers[p], h)]
  <2> HIDE DEF old, new
  <2> QED  BY <1>3, <1>4, <1>5, <1>6, Zenon DEF new_block_index
<1>9. entries' = [entries EXCEPT ![p] = es2]
  <2> HIDE DEF new
  <2> QED  BY <1>6, <1>7, Zenon DEF new_block_index, NoEntry
<1>10. Doubled(Current(p), entries[p], h)  BY <1>2, Zenon DEF Doubled
<1>11. Extended(es2, entries[p], n)
  <2>1. entries[p] \in Seq(Entry) /\ n \in Nat  BY TypesOf
  <2> QED  BY <2>1, EmptyEntries, Zenon
<1> HIDE DEF h, es2
<1> QED  BY <1>1, <1>2, <1>8, <1>9, <1>10, <1>11, Zenon

\* The first enqueue of a producer.
LEMMA CreateQueue ==
    ASSUME Types, NEW p \in Producer, Queue(p), Enqueue(p), headers[p] = <<>>,
           entries[p] = <<>>, new_block_index(p)
    PROVE  Queue(p)'
<1>1. PICK T, H, F, S, L, C \in Nat, E, N \in [Nat -> Nat] : QueueIs(p, T, H, F, S, L, C, E, N)
  BY Zenon DEF Queue
<1> DEFINE hs == headers[p]
           es == entries[p]
           q == pc[p]
           q2 == pc'[p]
<1>2. /\ Indices(tailIndex[p], headIndex[p], dequeueOptimisticCount[p], dequeueOvercommit[p], T, H)
      /\ Order(q, T, H, F, S, L, C)
      /\ Chain(es, q, L, C, E)
      /\ Hand(hs, es, q, idxEntry[p], tailBlock[p], T, C, E)
      /\ Rings(hs, es, q, L, C, E, N)
      /\ Consuming(consumer, p, hs, es, q, T, H, F, S, L, E, N)
      /\ Emptied(es, elementsCompletelyDequeued, S, L, C, E)
  BY <1>1, Parts, Zenon
<1>3. /\ tailIndex' = tailIndex /\ tailBlock' = tailBlock /\ headIndex' = headIndex
      /\ dequeueOptimisticCount' = dequeueOptimisticCount
      /\ dequeueOvercommit' = dequeueOvercommit
      /\ elementsCompletelyDequeued' = elementsCompletelyDequeued
      /\ idxEntry' = idxEntry /\ consumer' = consumer
  BY Zenon DEF Enqueue, dequeued, blocks
<1>4. hs \in Seq(Header) /\ es \in Seq(Entry) /\ pc \in [Producer -> Doing]
  BY TypesOf, Zenon
<1>5. /\ q = "idle" /\ q2 \in {"idle", "slot", "construct"}
      /\ T = Base(C) => q2 # "construct"
      /\ Order(q2, T, H, F, S, L, C)
  <2>1. tailIndex[p] = Wrap(T) /\ headIndex[p] = Wrap(H)  BY <1>2, Zenon DEF Indices
  <2> QED  BY <1>2, <1>4, <2>1, Begins, Zenon
<1>6. C = 0 /\ L = 0 /\ T = 0 /\ H = 0 /\ F = 0 /\ S = 0 /\ Base(0) = 0
  <2>1. C = 0  BY <1>2, Zenon DEF Hand
  <2>2. Base(0) = 0 /\ BLOCK_SIZE \in Nat  BY Bases, Sizes
  <2>3. L <= C /\ S <= F /\ F <= H /\ H <= T /\ T <= Base(C)  BY <1>2 DEF Order
  <2> QED  BY ONLY <2>1, <2>2, <2>3, T \in Nat, H \in Nat, F \in Nat, S \in Nat, L \in Nat
<1>7. PICK h \in Header, es2 \in Seq(Entry) :
        /\ headers' = [headers EXCEPT ![p] = <<h>>]
        /\ entries' = [entries EXCEPT ![p] = es2]
        /\ \A e \in DOMAIN es2 : es2[e].value = null
        /\ \A D : Ring(h, es2, 0, 0, D)
  BY FirstIndex, Zenon
<1>8. headers'[p] = <<h>> /\ entries'[p] = es2
  <2>1. headers \in [Producer -> Seq(Header)] /\ entries \in [Producer -> Seq(Entry)]
    BY Zenon DEF Types
  <2> QED  BY <1>7, <2>1, Zenon
<1>9. q2 \in {"idle", "slot"}  BY <1>5, <1>6
<1>10. PICK N2 \in [Nat -> Nat] : N2 = [j \in Nat |-> 0]  OBVIOUS
<1>11. 0 .. 0 - 1 = {}  OBVIOUS
<1>12. Chain(es2, q2, 0, 0, E)
  <2>1. \A e \in DOMAIN es2 : es2[e].value = null  BY <1>7, Zenon
  <2> HIDE DEF q2
  <2> QED  BY ONLY <1>11, <2>1 DEF Chain
<1>13. Hand(<<h>>, es2, q2, idxEntry[p], tailBlock[p], 0, 0, E)
  <2>1. ~(0 < 0) /\ q2 # "insert" /\ q2 # "block"
    <3>1. ~(0 < 0)  OBVIOUS
    <3>2. q2 # "insert" /\ q2 # "block"  BY ONLY <1>9
    <3> QED  BY <3>1, <3>2
  <2>2. <<h>> # <<>>
    <3>1. Len(<<h>>) = 1 /\ Len(<<>>) = 0  OBVIOUS
    <3> QED  BY <3>1
  <2> QED  BY <1>6, <2>1, <2>2, Zenon DEF Hand
<1>14. Rings(<<h>>, es2, q2, 0, 0, E, N2)
  <2>1. Len(<<h>>) = 1 /\ <<h>>[1] = h /\ 1 .. 1 = {1} /\ N2[1] = 0  BY <1>10
  <2> QED  BY <1>7, <2>1, Zenon DEF Rings
<1>15. Consuming(consumer, p, <<h>>, es2, q2, 0, 0, 0, 0, 0, E, N2)
  <2>1. ~(consumer.pc \in Work /\ consumer.best = p)
    <3> SUFFICES ASSUME consumer.pc \in Work, consumer.best = p PROVE FALSE  BY Zenon
    <3>1. Working(consumer, hs, es, q, T, H, F, S, L, E, N)  BY <1>2, Zenon DEF Consuming
    <3>2. consumer.pc = "index"
      <4>1. Len(hs) = 0  BY <1>4, HeadersAre, Zenon
      <4>2. consumer.pc # "index" => consumer.localBlockIndex \in 1 .. Len(hs)
        BY <3>1, Zenon DEF Working
      <4>3. 1 .. 0 = {}  OBVIOUS
      <4> QED  BY <4>1, <4>2, <4>3, Zenon
    <3>3. F < H  BY <3>1, <3>2 DEF Working
    <3> QED  BY <1>6, <3>3
  <2>2. 0 < Base(0) + BLOCK_SIZE  BY <1>6, Sizes
  <2> QED  BY <2>1, <2>2, Zenon DEF Consuming
<1>16. Emptied(es2, elementsCompletelyDequeued, 0, 0, 0, E)  BY <1>11, Zenon DEF Emptied
<1>17. QueueIs(p, 0, 0, 0, 0, 0, 0, E, N2)'
  BY <1>2, <1>3, <1>5, <1>6, <1>8, <1>12, <1>13, <1>14, <1>15, <1>16, Zenon DEF QueueIs
<1>18. 0 \in Nat  OBVIOUS
<1> QED  BY <1>10, <1>17, <1>18, Zenon DEF Queue

-----------------------------------------------------------------------------
(* A new block                                                             *)

LEMMA AfterTailIs ==
    ASSUME NEW h \in Header, NEW es, NEW L, NEW n \in Nat, NEW E, Ring(h, es, L, n, E)
    PROVE  AfterTail(h) \in DOMAIN es /\ EntryBefore(h, (n - 1) - n) = AfterTail(h)
<1>1. h.capacity \in Nat \ {0} /\ h.tail \in Nat  BY DEF Header
<1>2. (n - 1) - n = -1 /\ h.tail - (-1) = h.tail + 1  BY <1>1
<1>3. EntryBefore(h, (n - 1) - n) = AfterTail(h)
  BY <1>2, Zenon DEF EntryBefore, Position, AfterTail
<1>4. AfterTail(h) \in DOMAIN es
  <2> PICK x \in Int : x = h.tail + 1  BY <1>1
  <2> PICK cap \in Nat \ {0} : cap = h.capacity  BY <1>1
  <2>1. x % cap \in 0 .. cap - 1  BY Remainder
  <2>2. (x % cap) + 1 \in 1 .. cap  BY <2>1
  <2>3. h.index \in [1 .. cap -> DOMAIN es]  BY Zenon DEF Ring
  <2>4. h.index[(x % cap) + 1] \in DOMAIN es  BY <2>2, <2>3, Zenon
  <2> QED  BY <2>4, Zenon DEF AfterTail
<1> QED  BY <1>3, <1>4

\* The entry of a block has its key; the block is missing while it is fetched.
LEMMA ChainIs ==
    ASSUME NEW es, NEW q, NEW L \in Nat, NEW C \in Nat, NEW E, Chain(es, q, L, C, E)
    PROVE  /\ \A e \in DOMAIN es : es[e].value # null =>
                \E m \in L .. C - 1 : /\ E[m] = e /\ es[e].key = Wrap(Base(m)) /\ m \in Nat
                                      /\ es[e].key # INVALID_BLOCK_BASE
           /\ \A e \in DOMAIN es : Vacant(es[e]) <=> es[e].value = null
<1>1. ASSUME NEW e \in DOMAIN es, es[e].value # null
      PROVE  \E m \in L .. C - 1 : /\ E[m] = e /\ es[e].key = Wrap(Base(m)) /\ m \in Nat
                                   /\ es[e].key # INVALID_BLOCK_BASE
  <2>1. PICK m \in L .. C - 1 : E[m] = e  BY <1>1, Zenon DEF Chain
  <2>2. m \in Nat  OBVIOUS
  <2>3. es[e].key = Wrap(Base(m))  BY <2>1, Zenon DEF Chain
  <2>4. es[e].key # INVALID_BLOCK_BASE  BY <2>2, <2>3, KeyValid, Zenon
  <2> QED  BY <2>1, <2>2, <2>3, <2>4, Zenon
<1> QED  BY <1>1, Zenon DEF Vacant

LEMMA FindSlotQueue ==
    ASSUME Types, NEW p \in Producer, Queue(p), FindSlot(p)
    PROVE  Queue(p)' /\ idxEntry'[p] \in Nat
<1>1. PICK T, H, F, S, L, C \in Nat, E, N \in [Nat -> Nat] : QueueIs(p, T, H, F, S, L, C, E, N)
  BY Zenon DEF Queue
<1> DEFINE hs == headers[p]
           es == entries[p]
           q == pc[p]
           q2 == pc'[p]
<1>2. /\ Indices(tailIndex[p], headIndex[p], dequeueOptimisticCount[p], dequeueOvercommit[p], T, H)
      /\ Order(q, T, H, F, S, L, C)
      /\ Chain(es, q, L, C, E)
      /\ Hand(hs, es, q, idxEntry[p], tailBlock[p], T, C, E)
      /\ Rings(hs, es, q, L, C, E, N)
      /\ Consuming(consumer, p, hs, es, q, T, H, F, S, L, E, N)
      /\ Emptied(es, elementsCompletelyDequeued, S, L, C, E)
  BY <1>1, Parts, Zenon
<1>3. /\ tailIndex' = tailIndex /\ tailBlock' = tailBlock /\ headIndex' = headIndex
      /\ dequeueOptimisticCount' = dequeueOptimisticCount
      /\ dequeueOvercommit' = dequeueOvercommit /\ headers' = headers /\ entries' = entries
      /\ elementsCompletelyDequeued' = elementsCompletelyDequeued
      /\ consumer' = consumer
  BY Zenon DEF FindSlot, queues, dequeued, blocks
<1>4. hs \in Seq(Header) /\ es \in Seq(Entry) /\ pc \in [Producer -> Doing]
      /\ idxEntry \in [Producer -> Nat]
  BY TypesOf, Zenon DEF Types
<1>5. /\ q = "slot"
      /\ \/ hs = <<>> /\ q2 = "idle" /\ idxEntry'[p] = idxEntry[p]
         \/ /\ hs # <<>> /\ Vacant(es[AfterTail(Last(hs))])
            /\ q2 = "insert" /\ idxEntry'[p] = AfterTail(Last(hs))
         \/ /\ hs # <<>> /\ ~Vacant(es[AfterTail(Last(hs))])
            /\ q2 = "grow" /\ idxEntry'[p] = idxEntry[p]
  <2>1. hs # <<>> => Current(p) = Last(hs)  BY <1>4, HeadersAre, Zenon DEF Current
  <2> QED  BY <1>4, <2>1, Zenon DEF FindSlot
<1>6. q # "block" /\ q2 # "block" /\ q2 # "construct" /\ q2 # "commit"  BY ONLY <1>5
<1>7. hs # <<>> => AfterTail(Last(hs)) \in DOMAIN es
  <2> SUFFICES ASSUME hs # <<>> PROVE AfterTail(Last(hs)) \in DOMAIN es  BY Zenon
  <2>1. /\ Len(hs) \in 1 .. Len(hs) /\ Last(hs) = hs[Len(hs)] /\ hs[Len(hs)] \in Header
        /\ Len(hs) \in Nat
    BY <1>4, HeadersAre, Zenon
  <2>2. Ring(Last(hs), es, L, N[Len(hs)], E) /\ N[Len(hs)] \in Nat
    BY <1>2, <2>1, Zenon DEF Rings
  <2> QED  BY <2>1, <2>2, AfterTailIs, Zenon
<1>8. T = Base(C) /\ BLOCK_SIZE \in Nat \ {0} /\ Order(q2, T, H, F, S, L, C)
  <2>1. /\ L <= C /\ Base(L) <= S /\ S <= F /\ F <= H /\ H <= T
        /\ T <= Base(C) /\ Base(C) <= T + BLOCK_SIZE
        /\ Base(C) - H < Half /\ H - S < Half
        /\ T = Base(C) /\ Base(C) + BLOCK_SIZE - H < Half
    BY <1>2, <1>5 DEF Order
  <2>2. BLOCK_SIZE \in Nat \ {0}  BY Sizes
  <2>3. Base(C) < T + BLOCK_SIZE  BY ONLY <2>1, <2>2, T \in Nat
  <2> HIDE DEF q2
  <2> QED  BY <1>6, <2>1, <2>2, <2>3 DEF Order
<1>9. Chain(es, q2, L, C, E)  BY <1>2, <1>6, Zenon DEF Chain
<1>10. Hand(hs, es, q2, idxEntry'[p], tailBlock[p], T, C, E)
  <2>1. hs = <<>> => C = 0 /\ q2 \in {"idle", "slot"}
    <3>1. hs = <<>> => C = 0  BY <1>2, Zenon DEF Hand
    <3>2. hs = <<>> => q2 = "idle"  BY <1>5, Zenon
    <3> QED  BY <3>1, <3>2, Zenon
  <2>2. ~(T < Base(C))  BY <1>8, Bases
  <2>3. ASSUME q2 = "insert"
        PROVE  idxEntry'[p] = AfterTail(Last(hs)) /\ es[idxEntry'[p]].value = null
               /\ idxEntry'[p] \in DOMAIN es
    <3>1. hs # <<>> /\ Vacant(es[AfterTail(Last(hs))]) /\ idxEntry'[p] = AfterTail(Last(hs))
      BY <1>5, <2>3
    <3>2. es[AfterTail(Last(hs))].value = null  BY <1>2, <1>7, <3>1, ChainIs, Zenon
    <3> QED  BY <1>7, <3>1, <3>2, Zenon
  <2> QED  BY <1>6, <2>1, <2>2, <2>3, Zenon DEF Hand
<1>11. Rings(hs, es, q2, L, C, E, N)  BY <1>2, <1>6, Zenon DEF Rings
<1>12. StillRead(consumer, L, hs, es, q, T, N, hs, es, q2, T, N)
  <2> SUFFICES ASSUME NEW j \in 1 .. Len(hs), NEW k \in Nat,
                      TailRead(consumer, hs[j], j = Len(hs), es, q, T, N[j], k)
               PROVE  TailRead(consumer, hs[j], j = Len(hs), es, q2, T, N[j], k)
    BY Zenon DEF StillRead
  <2>1. k = N[j] => q2 \in {"idle", "slot", "insert"}
    <3> SUFFICES ASSUME k = N[j] PROVE q2 \in {"idle", "slot", "insert"}  OBVIOUS
    <3>1. j = Len(hs) /\ es[EntryBefore(hs[j], (k - 1) - k)].value = null
      BY Zenon DEF TailRead
    <3>2. hs # <<>> => Last(hs) = hs[j] /\ hs[j] \in Header  BY <1>4, <3>1, HeadersAre, Zenon
    <3>3. Ring(hs[j], es, L, k, E)  BY <1>2, Zenon DEF Rings
    <3>4. hs # <<>> => es[AfterTail(Last(hs))].value = null
      BY <3>1, <3>2, <3>3, AfterTailIs, ZenonT(30)
    <3>5. hs # <<>> => Vacant(es[AfterTail(Last(hs))])  BY <3>4, Zenon DEF Vacant
    <3> QED  BY <1>5, <3>5, Zenon
  <2> QED  BY <2>1, Zenon DEF TailRead
<1>13. Consuming(consumer, p, hs, es, q2, T, H, F, S, L, E, N)
  BY <1>2, <1>4, <1>12, NotTurned, ConsumingKept, Zenon
<1>14. QueueIs(p, T, H, F, S, L, C, E, N)'
  BY <1>2, <1>3, <1>8, <1>9, <1>10, <1>11, <1>13, Zenon DEF QueueIs
<1>15. Queue(p)'  BY <1>14, Zenon DEF Queue
<1>16. idxEntry'[p] \in Nat
  <2>1. DOMAIN es \subseteq Nat
    <3>1. DOMAIN es = 1 .. Len(es) /\ Len(es) \in Nat  BY <1>4, LenProperties, Zenon
    <3> QED  BY <3>1, Beyond, Zenon
  <2>2. idxEntry[p] \in Nat  BY <1>4, Zenon
  <2> QED  BY <1>5, <1>7, <2>1, <2>2, Zenon
<1> QED  BY <1>15, <1>16, Zenon

Appended(hs2, hs, h) ==
  /\ hs2 \in Seq(Header) /\ hs2 # <<>> /\ Len(hs2) = Len(hs) + 1 /\ Len(hs) \in Nat
  /\ \A j \in 1 .. Len(hs) : hs2[j] = hs[j]
  /\ hs2[Len(hs2)] = h /\ Last(hs2) = h
  /\ 1 .. Len(hs2) = (1 .. Len(hs)) \union {Len(hs2)}
  /\ Len(hs2) \notin 1 .. Len(hs)

LEMMA AppendIs ==
    ASSUME NEW hs \in Seq(Header), NEW h \in Header, NEW hs2, hs2 = Append(hs, h)
    PROVE  Appended(hs2, hs, h)
<1>1. /\ hs2 \in Seq(Header) /\ Len(hs2) = Len(hs) + 1 /\ Len(hs) \in Nat
      /\ \A j \in 1 .. Len(hs) : hs2[j] = hs[j]
      /\ hs2[Len(hs) + 1] = h
  BY AppendProperties
<1>2. hs2 # <<>>
  <2>1. Len(hs2) # 0 /\ Len(<<>>) = 0  BY <1>1
  <2> QED  BY <2>1, Zenon
<1>3. hs2[Len(hs2)] = h  BY <1>1, Zenon
<1>4. Last(hs2) = h  BY <1>3, Zenon DEF Last
<1>5. 1 .. Len(hs2) = (1 .. Len(hs)) \union {Len(hs2)} /\ Len(hs2) \notin 1 .. Len(hs)
  BY ONLY <1>1
<1> QED  BY <1>1, <1>2, <1>3, <1>4, <1>5, Zenon DEF Appended

LEMMA GrowFails ==
    ASSUME Types, NEW p \in Producer, Queue(p), Grow(p), UNCHANGED <<headers, entries, idxEntry>>,
           pc' = [pc EXCEPT ![p] = "idle"]
    PROVE  Queue(p)'
<1>1. PICK T, H, F, S, L, C \in Nat, E, N \in [Nat -> Nat] : QueueIs(p, T, H, F, S, L, C, E, N)
  BY Zenon DEF Queue
<1> DEFINE hs == headers[p]
           es == entries[p]
           q == pc[p]
           q2 == pc'[p]
<1>2. /\ Indices(tailIndex[p], headIndex[p], dequeueOptimisticCount[p], dequeueOvercommit[p], T, H)
      /\ Order(q, T, H, F, S, L, C)
      /\ Chain(es, q, L, C, E)
      /\ Hand(hs, es, q, idxEntry[p], tailBlock[p], T, C, E)
      /\ Rings(hs, es, q, L, C, E, N)
      /\ Consuming(consumer, p, hs, es, q, T, H, F, S, L, E, N)
      /\ Emptied(es, elementsCompletelyDequeued, S, L, C, E)
  BY <1>1, Parts, Zenon
<1>3. /\ tailIndex' = tailIndex /\ tailBlock' = tailBlock /\ headIndex' = headIndex
      /\ dequeueOptimisticCount' = dequeueOptimisticCount
      /\ dequeueOvercommit' = dequeueOvercommit /\ headers' = headers /\ entries' = entries
      /\ elementsCompletelyDequeued' = elementsCompletelyDequeued
      /\ consumer' = consumer /\ idxEntry' = idxEntry
  BY Zenon DEF Grow, dequeued, blocks
<1>4. hs \in Seq(Header) /\ es \in Seq(Entry) /\ pc \in [Producer -> Doing]
  BY TypesOf, Zenon
<1>5. q = "grow" /\ q2 = "idle"  BY <1>4, Zenon DEF Grow
<1>6. q # "block" /\ q2 # "block" /\ q2 # "insert"  BY ONLY <1>5
<1>8. T = Base(C) /\ BLOCK_SIZE \in Nat \ {0} /\ Order(q2, T, H, F, S, L, C)
  <2>1. /\ L <= C /\ Base(L) <= S /\ S <= F /\ F <= H /\ H <= T
        /\ T <= Base(C) /\ Base(C) <= T + BLOCK_SIZE
        /\ Base(C) - H < Half /\ H - S < Half
        /\ T = Base(C)
    BY <1>2, <1>5 DEF Order
  <2>2. BLOCK_SIZE \in Nat \ {0}  BY Sizes
  <2>3. Base(C) < T + BLOCK_SIZE  BY ONLY <2>1, <2>2, T \in Nat
  <2> HIDE DEF q2
  <2> QED  BY <1>5, <2>1, <2>2, <2>3 DEF Order
<1>9. Chain(es, q2, L, C, E)  BY <1>2, <1>6, Zenon DEF Chain
<1>10. Hand(hs, es, q2, idxEntry[p], tailBlock[p], T, C, E)
  <2>1. hs = <<>> => C = 0  BY <1>2, Zenon DEF Hand
  <2>2. ~(T < Base(C))  BY <1>8, Bases
  <2> QED  BY <1>5, <1>6, <2>1, <2>2, Zenon DEF Hand
<1>11. Rings(hs, es, q2, L, C, E, N)  BY <1>2, <1>6, Zenon DEF Rings
<1>12. StillRead(consumer, L, hs, es, q, T, N, hs, es, q2, T, N)
  <2>1. q2 \in {"idle", "slot", "insert"}  BY ONLY <1>5
  <2> QED  BY <2>1, Zenon DEF StillRead, TailRead
<1>13. Consuming(consumer, p, hs, es, q2, T, H, F, S, L, E, N)
  BY <1>2, <1>4, <1>12, NotTurned, ConsumingKept, Zenon
<1>14. QueueIs(p, T, H, F, S, L, C, E, N)'
  BY <1>2, <1>3, <1>8, <1>9, <1>10, <1>11, <1>13, Zenon DEF QueueIs
<1> QED  BY <1>14, Zenon DEF Queue

LEMMA GrowQueue ==
    ASSUME Types, NEW p \in Producer, Queue(p), Grow(p), new_block_index(p),
           idxEntry' = [idxEntry EXCEPT ![p] = AfterTail(Last(headers'[p]))],
           pc' = [pc EXCEPT ![p] = "insert"]
    PROVE  Queue(p)' /\ entries'[p] \in Seq(Entry) /\ headers'[p] \in Seq(Header)
           /\ idxEntry'[p] \in Nat /\ headers[p] # <<>>
           /\ Extended(entries'[p], entries[p], Current(p).capacity)
<1>1. PICK T, H, F, S, L, C \in Nat, E, N \in [Nat -> Nat] : QueueIs(p, T, H, F, S, L, C, E, N)
  BY Zenon DEF Queue
<1> DEFINE hs == headers[p]
           es == entries[p]
           q == pc[p]
           q2 == pc'[p]
           hs2 == headers'[p]
           es2 == entries'[p]
<1>2. /\ Indices(tailIndex[p], headIndex[p], dequeueOptimisticCount[p], dequeueOvercommit[p], T, H)
      /\ Order(q, T, H, F, S, L, C)
      /\ Chain(es, q, L, C, E)
      /\ Hand(hs, es, q, idxEntry[p], tailBlock[p], T, C, E)
      /\ Rings(hs, es, q, L, C, E, N)
      /\ Consuming(consumer, p, hs, es, q, T, H, F, S, L, E, N)
      /\ Emptied(es, elementsCompletelyDequeued, S, L, C, E)
  BY <1>1, Parts, Zenon
<1>3. /\ tailIndex' = tailIndex /\ tailBlock' = tailBlock /\ headIndex' = headIndex
      /\ dequeueOptimisticCount' = dequeueOptimisticCount
      /\ dequeueOvercommit' = dequeueOvercommit
      /\ elementsCompletelyDequeued' = elementsCompletelyDequeued
      /\ consumer' = consumer
  BY Zenon DEF Grow, dequeued, blocks
<1>4. hs \in Seq(Header) /\ es \in Seq(Entry) /\ pc \in [Producer -> Doing]
      /\ headers \in [Producer -> Seq(Header)] /\ entries \in [Producer -> Seq(Entry)]
      /\ idxEntry \in [Producer -> Nat]
  BY TypesOf, Zenon DEF Types
<1>5. q = "grow" /\ q2 = "insert"  BY <1>4, Zenon DEF Grow
<1>6. q # "block" /\ q2 # "block"  BY ONLY <1>5
<1>7. hs # <<>>
  <2>1. hs = <<>> => q \in {"idle", "slot"}  BY <1>2, Zenon DEF Hand
  <2>2. ~(q \in {"idle", "slot"})  BY ONLY <1>5
  <2> QED  BY <2>1, <2>2, Zenon
<1>8. PICK h, x : /\ headers' = [headers EXCEPT ![p] = Append(headers[p], h)]
                  /\ entries' = [entries EXCEPT ![p] = x]
                  /\ Doubled(Current(p), entries[p], h)
                  /\ Extended(x, entries[p], Current(p).capacity)
  BY <1>7, NextIndex, Zenon
<1>9. hs2 = Append(hs, h) /\ es2 = x  BY <1>4, <1>8, Zenon
<1>10. Extended(es2, es, Current(p).capacity)  BY <1>8, <1>9, Zenon
<1>11. /\ es2 \in Seq(Entry) /\ DOMAIN es2 = 1 .. Len(es) + Current(p).capacity
       /\ DOMAIN es \subseteq DOMAIN es2
       /\ \A e \in DOMAIN es : es2[e] = es[e]
       /\ \A e \in DOMAIN es2 : e \in DOMAIN es \/ es2[e] = NoEntry
  BY <1>10, Zenon DEF Extended
<1>12. /\ Len(hs) \in 1 .. Len(hs) /\ Current(p) = hs[Len(hs)] /\ Current(p) \in Header
       /\ Len(hs) \in Nat
  BY <1>4, <1>7, HeadersAre, Zenon DEF Current
<1>13. Ring(Current(p), es, L, C, E) /\ N[Len(hs)] = C  BY <1>2, <1>12, Zenon DEF Rings
<1>14. h \in Header /\ Ring(h, es2, L, C, E) /\ AfterTail(h) = Len(es) + 1
  <2>1. /\ Current(p) \in Header /\ es \in Seq(Entry) /\ Ring(Current(p), es, L, C, E)
        /\ DOMAIN es2 = 1 .. Len(es) + Current(p).capacity /\ Doubled(Current(p), es, h)
    BY <1>4, <1>8, <1>11, <1>12, <1>13, Zenon
  <2> QED  BY ONLY <2>1, L \in Nat, C \in Nat, RingDoubled, Zenon
<1>15. /\ hs2 \in Seq(Header) /\ hs2 # <<>> /\ Len(hs2) = Len(hs) + 1
       /\ \A j \in 1 .. Len(hs) : hs2[j] = hs[j]
       /\ hs2[Len(hs2)] = h /\ Last(hs2) = h
       /\ 1 .. Len(hs2) = (1 .. Len(hs)) \union {Len(hs2)}
       /\ Len(hs2) \notin 1 .. Len(hs)
  <2>1. hs \in Seq(Header) /\ h \in Header /\ hs2 = Append(hs, h)  BY <1>4, <1>9, <1>14, Zenon
  <2>2. Appended(hs2, hs, h)  BY ONLY <2>1, AppendIs, Zenon
  <2> QED  BY <2>2, Zenon DEF Appended
<1>16. idxEntry'[p] = Len(es) + 1  BY <1>4, <1>14, <1>15, Zenon
<1>17. /\ Len(es) \in Nat /\ Len(es) + 1 \in Nat /\ Len(es) + 1 \in DOMAIN es2
       /\ Len(es) + 1 \notin DOMAIN es
  <2>1. Len(es) \in Nat /\ DOMAIN es = 1 .. Len(es)  BY <1>4, LenProperties, Zenon
  <2>2. Current(p).capacity \in Nat \ {0}  BY <1>12 DEF Header
  <2>3. Len(es) + 1 \in 1 .. Len(es) + Current(p).capacity /\ Len(es) + 1 \notin 1 .. Len(es)
        /\ Len(es) + 1 \in Nat
    <3>1. Len(es) \in Nat  BY <2>1, Zenon
    <3> QED  BY <2>2, <3>1, Beyond, Zenon
  <2> QED  BY <1>11, <2>1, <2>3, Zenon
<1>18. PICK N2 \in [Nat -> Nat] : N2 = [N EXCEPT ![Len(hs2)] = C]  OBVIOUS
<1>19. N2[Len(hs2)] = C /\ \A j \in 1 .. Len(hs) : N2[j] = N[j] /\ N[j] \in Nat
  <2>1. 1 .. Len(hs) \subseteq Nat /\ Len(hs2) \in Nat
    <3>1. Len(hs) \in Nat /\ Len(hs2) = Len(hs) + 1  BY <1>12, <1>15, Zenon
    <3> QED  BY <3>1, Beyond, ZenonT(30)
  <2> QED  BY <1>15, <1>18, <2>1, Zenon
<1>20. T = Base(C) /\ Order(q2, T, H, F, S, L, C)
  <2>1. /\ L <= C /\ Base(L) <= S /\ S <= F /\ F <= H /\ H <= T
        /\ T <= Base(C) /\ Base(C) <= T + BLOCK_SIZE
        /\ Base(C) - H < Half /\ H - S < Half
        /\ T = Base(C) /\ Base(C) + BLOCK_SIZE - H < Half
    BY <1>2, <1>5 DEF Order
  <2> HIDE DEF q2
  <2> QED  BY <1>5, <2>1 DEF Order
<1>21. \A m \in L .. C - 1 : E[m] \in DOMAIN es  BY <1>2, Zenon DEF Chain
<1>22. Chain(es2, q2, L, C, E)
  <2>1. \A m \in L .. C - 1 :
          /\ E[m] \in DOMAIN es2 /\ es2[E[m]].key = Wrap(Base(m))
          /\ es2[E[m]].value = null <=> q2 = "block" /\ m = C - 1
    BY <1>2, <1>6, <1>11, <1>21, Zenon DEF Chain
  <2>2. \A m, n \in L .. C - 1 : E[m] = E[n] => m = n  BY <1>2, Zenon DEF Chain
  <2>3. ASSUME NEW e \in DOMAIN es2, es2[e].value # null PROVE \E m \in L .. C - 1 : E[m] = e
    <3>1. NoEntry.value = null  BY DEF NoEntry
    <3>2. e \in DOMAIN es /\ es[e].value # null  BY <1>11, <2>3, <3>1, Zenon
    <3> QED  BY <1>2, <3>2, Zenon DEF Chain
  <2> QED  BY <2>1, <2>2, <2>3, Zenon DEF Chain
<1>23. Hand(hs2, es2, q2, idxEntry'[p], tailBlock[p], T, C, E)
  <2>1. idxEntry'[p] = AfterTail(Last(hs2)) /\ idxEntry'[p] \in DOMAIN es2
    BY <1>14, <1>15, <1>16, <1>17, Zenon
  <2>2. es2[idxEntry'[p]].value = null
    <3>1. NoEntry.value = null  BY DEF NoEntry
    <3> QED  BY <1>11, <1>16, <1>17, <3>1, Zenon
  <2>3. ~(T < Base(C))  BY <1>20, Bases
  <2> QED  BY <1>6, <1>15, <2>1, <2>2, <2>3, Zenon DEF Hand
<1>24. Rings(hs2, es2, q2, L, C, E, N2)
  <2> SUFFICES ASSUME NEW j \in 1 .. Len(hs2)
               PROVE  /\ Ring(hs2[j], es2, L, N2[j], E)
                      /\ IF j = Len(hs2) THEN N2[j] = C
                         ELSE N2[j] <= C /\ (q2 = "block" => N2[j] < C)
    BY Zenon DEF Rings
  <2>1. CASE j = Len(hs2)  BY <1>14, <1>15, <1>19, <2>1, Zenon
  <2>2. CASE j \in 1 .. Len(hs)
    <3>1. Ring(hs[j], es, L, N[j], E) /\ N[j] \in Nat  BY <1>2, <1>19, <2>2, Zenon DEF Rings
    <3>2. N[j] <= C
      <4>1. N[j] = C \/ N[j] <= C  BY <1>2, <2>2, Zenon DEF Rings
      <4> QED  BY ONLY <3>1, <4>1, C \in Nat
    <3>3. hs[j] \in Header /\ hs[j].capacity \in Nat
      <4>1. hs[j] \in Header  BY <1>4, <2>2, HeadersAre, Zenon
      <4> QED  BY <4>1 DEF Header
    <3>4. L <= L  BY ONLY L \in Nat
    <3>5. Ring(hs[j], es2, L, N[j], E)
      BY <1>11, <3>1, <3>3, <3>4, RingKept, Zenon
    <3> QED  BY <1>6, <1>15, <1>19, <2>2, <3>2, <3>5, Zenon
  <2> QED  BY <1>15, <2>1, <2>2, Zenon
<1>25. Turned(hs, N, hs2, N2) /\ StillAhead(hs, H, N, N2)
  <2>1. Len(hs) <= Len(hs2)
    <3>1. Len(hs) \in Nat /\ Len(hs2) = Len(hs) + 1  BY <1>12, <1>15, Zenon
    <3> QED  BY <3>1, Beyond, Zenon
  <2> QED  BY <1>15, <1>19, <2>1, Zenon DEF Turned, StillAhead
<1>26. StillRead(consumer, L, hs, es, q, T, N, hs2, es2, q2, T, N2)
  <2> SUFFICES ASSUME NEW j \in 1 .. Len(hs), NEW k \in Nat,
                      TailRead(consumer, hs[j], j = Len(hs), es, q, T, N[j], k)
               PROVE  TailRead(consumer, hs2[j], j = Len(hs2), es2, q2, T, N2[j], k)
    BY Zenon DEF StillRead
  <2>1. k # N[j]
    <3>1. k = N[j] => q \in {"idle", "slot", "insert"}  BY Zenon DEF TailRead
    <3>2. ~(q \in {"idle", "slot", "insert"})  BY ONLY <1>5
    <3> QED  BY <3>1, <3>2, Zenon
  <2> QED  BY <1>15, <1>19, <2>1, Zenon DEF TailRead
<1>27. L < C => es2[E[L]].value = es[E[L]].value
  <2>1. L < C => L \in L .. C - 1  BY ONLY L \in Nat, C \in Nat
  <2> QED  BY <1>11, <1>21, <2>1, Zenon
<1>28. Consuming(consumer, p, hs2, es2, q2, T, H, F, S, L, E, N2)
  BY <1>2, <1>4, <1>15, <1>25, <1>26, <1>27, ConsumingKept, Zenon
<1>29. Emptied(es2, elementsCompletelyDequeued, S, L, C, E)
  BY <1>2, <1>11, <1>21, Zenon DEF Emptied
<1>30. QueueIs(p, T, H, F, S, L, C, E, N2)'
  BY <1>2, <1>3, <1>20, <1>22, <1>23, <1>24, <1>28, <1>29, Zenon DEF QueueIs
<1>31. Queue(p)'  BY <1>30, Zenon DEF Queue
<1> QED  BY <1>7, <1>10, <1>11, <1>15, <1>16, <1>17, <1>31, Zenon

\* es2 is es with x at i.
Replaced(es2, es, i, x) ==
  /\ es2 \in Seq(Entry) /\ DOMAIN es2 = DOMAIN es
  /\ i \in DOMAIN es => es2[i] = x
  /\ \A e \in DOMAIN es : e # i => es2[e] = es[e]

LEMMA ReplacedIs ==
    ASSUME NEW es \in Seq(Entry), NEW i, NEW x \in Entry, NEW es2, es2 = [es EXCEPT ![i] = x]
    PROVE  Replaced(es2, es, i, x)
<1>1. DOMAIN [es EXCEPT ![i] = x] = DOMAIN es  BY Zenon
<1>2. /\ i \in DOMAIN es => [es EXCEPT ![i] = x][i] = x
      /\ \A e \in DOMAIN es : e # i => [es EXCEPT ![i] = x][e] = es[e]
  BY Zenon
<1>3. [es EXCEPT ![i] = x] \in Seq(Entry)
  <2>1. CASE i \in DOMAIN es
    <3>1. i \in 1 .. Len(es)  BY <2>1, LenProperties, Zenon
    <3> QED  BY <3>1, ExceptSeq, Zenon
  <2>2. CASE i \notin DOMAIN es
    <3>1. \A e \in DOMAIN es : [es EXCEPT ![i] = x][e] = es[e]  BY <2>2, Zenon
    <3>2. DOMAIN es = 1 .. Len(es) /\ es \in [1 .. Len(es) -> Entry] /\ Len(es) \in Nat
      BY LenProperties, Zenon
    <3>3. [es EXCEPT ![i] = x] \in [1 .. Len(es) -> Entry]
      <4>1. [es EXCEPT ![i] = x] = [e \in 1 .. Len(es) |-> [es EXCEPT ![i] = x][e]]
        BY <1>1, <3>2, Zenon
      <4>2. \A e \in 1 .. Len(es) : [es EXCEPT ![i] = x][e] \in Entry  BY <3>1, <3>2, Zenon
      <4> QED  BY <4>1, <4>2, Zenon
    <3> QED  BY <3>2, <3>3, SequenceOf, Zenon
  <2> QED  BY <2>1, <2>2, Zenon
<1> QED  BY <1>1, <1>2, <1>3, Zenon DEF Replaced

\* Only the current block index changes, to h.
Moved(hs2, hs, h) ==
  /\ hs2 \in Seq(Header) /\ Len(hs2) = Len(hs) /\ hs2 # <<>>
  /\ Len(hs) \in 1 .. Len(hs) /\ hs2[Len(hs)] = h /\ Last(hs2) = h
  /\ \A j \in 1 .. Len(hs) : j # Len(hs) => hs2[j] = hs[j]

LEMMA MovedIs ==
    ASSUME NEW hs \in Seq(Header), hs # <<>>, NEW h \in Header
    PROVE  Moved([hs EXCEPT ![Len(hs)] = h], hs, h)
<1> DEFINE hs2 == [hs EXCEPT ![Len(hs)] = h]
<1>1. Len(hs) \in 1 .. Len(hs)  BY HeadersAre, Zenon
<1>2. /\ hs2 \in Seq(Header) /\ Len(hs2) = Len(hs)
      /\ \A j \in 1 .. Len(hs) : hs2[j] = IF j = Len(hs) THEN h ELSE hs[j]
  <2>1. hs2 \in Seq(Header)  BY <1>1, ExceptSeq, Zenon
  <2>2. Len(hs2) = Len(hs)  BY <1>1, ExceptSeq
  <2>3. DOMAIN hs = 1 .. Len(hs)  BY LenProperties
  <2>4. \A j \in 1 .. Len(hs) : hs2[j] = IF j = Len(hs) THEN h ELSE hs[j]
    BY <2>3, Zenon
  <2> QED  BY <2>1, <2>2, <2>4
<1> HIDE DEF hs2
<1>3. hs2 # <<>>  BY <1>2, HeadersAre, Zenon
<1>4. hs2[Len(hs)] = h /\ Last(hs2) = h  BY <1>1, <1>2, Zenon DEF Last
<1>5. Moved(hs2, hs, h)  BY <1>1, <1>2, <1>3, <1>4, Zenon DEF Moved
<1> QED  BY <1>5, Zenon DEF hs2

LEMMA TailMoves ==
    ASSUME Types, NEW p \in Producer, headers[p] # <<>>, NEW n \in Int, MoveTail(p, n),
           NEW h, h = [Current(p) EXCEPT !.tail = (Current(p).tail + n) % Current(p).capacity],
           h \in Header
    PROVE  Moved(headers'[p], headers[p], h) /\ \A q \in Producer : q # p => headers'[q] = headers[q]
<1>1. headers \in [Producer -> Seq(Header)]  BY Zenon DEF Types
<1> PICK t : t = (Current(p).tail + n) % Current(p).capacity  OBVIOUS
<1>2. headers' = [headers EXCEPT ![p][Len(headers[p])].tail = t]  BY Zenon DEF MoveTail
<1>3. headers'[p] = [headers[p] EXCEPT ![Len(headers[p])].tail = t]
  BY <1>1, <1>2, Zenon
<1>4. headers'[p] = [headers[p] EXCEPT ![Len(headers[p])] = h]
  <2>1. h = [headers[p][Len(headers[p])] EXCEPT !.tail = t]  BY Zenon DEF Current
  <2> QED  BY <1>3, <2>1, Zenon
<1>5. headers[p] \in Seq(Header)  BY <1>1, Zenon
<1>6. Moved(headers'[p], headers[p], h)  BY <1>4, <1>5, MovedIs, Zenon
<1>7. \A q \in Producer : q # p => headers'[q] = headers[q]  BY <1>1, <1>2, Zenon
<1> QED  BY <1>6, <1>7

\* A ring with no vacant entry has the first block behind its tail.
LEMMA RingFull ==
    ASSUME NEW h \in Header, NEW es, NEW L \in Nat, NEW n \in Nat, NEW E,
           Ring(h, es, L, n, E), ~((n + 1) - L <= h.capacity)
    PROVE  AfterTail(h) = E[L] /\ L < n
<1>1. h.capacity \in Nat \ {0} /\ h.tail \in Nat  BY DEF Header
<1> PICK cap \in Nat \ {0} : cap = h.capacity  BY <1>1
<1> PICK t \in Int : t = h.tail  BY <1>1
<1>2. n - L <= cap /\ ~((n + 1) - L <= cap)  BY DEF Ring
<1>3. n - L = cap /\ L < n /\ L \in L .. n - 1 /\ (n - 1) - L = cap - 1
  BY ONLY <1>2, n \in Nat, L \in Nat, cap \in Nat \ {0}
<1>4. EntryBefore(h, (n - 1) - L) = E[L]  BY <1>3, Zenon DEF Ring
<1>5. (t - (cap - 1)) % cap = (t + 1) % cap
  <2>1. 1 * cap = cap  BY Times
  <2>2. t + 1 = (t - (cap - 1)) + 1 * cap  BY ONLY <2>1, t \in Int, cap \in Nat \ {0}
  <2>3. t + 1 \in Int /\ t - (cap - 1) \in Int /\ 1 \in Int  OBVIOUS
  <2> QED  BY ONLY <2>2, <2>3, cap \in Nat \ {0}, Congruent, ZenonT(30)
<1>6. EntryBefore(h, cap - 1) = AfterTail(h)
  BY <1>5, Zenon DEF EntryBefore, Position, AfterTail
<1> QED  BY <1>3, <1>4, <1>6, Zenon

LEMMA InsertQueue ==
    ASSUME Types, NEW p \in Producer, Queue(p), Insert(p)
    PROVE  /\ Queue(p)' /\ headers'[p] \in Seq(Header) /\ entries'[p] \in Seq(Entry)
           /\ \A r \in Producer : r # p => headers'[r] = headers[r]
           /\ DOMAIN entries'[p] = DOMAIN entries[p]
           /\ \A e \in DOMAIN entries[p] : entries'[p][e].value = entries[p][e].value
<1>1. PICK T, H, F, S, L, C \in Nat, E, N \in [Nat -> Nat] : QueueIs(p, T, H, F, S, L, C, E, N)
  BY Zenon DEF Queue
<1> DEFINE hs == headers[p]
           es == entries[p]
           q == pc[p]
           q2 == pc'[p]
           hs2 == headers'[p]
           es2 == entries'[p]
           i == idxEntry[p]
           h == Current(p)
<1>2. /\ Indices(tailIndex[p], headIndex[p], dequeueOptimisticCount[p], dequeueOvercommit[p], T, H)
      /\ Order(q, T, H, F, S, L, C)
      /\ Chain(es, q, L, C, E)
      /\ Hand(hs, es, q, idxEntry[p], tailBlock[p], T, C, E)
      /\ Rings(hs, es, q, L, C, E, N)
      /\ Consuming(consumer, p, hs, es, q, T, H, F, S, L, E, N)
      /\ Emptied(es, elementsCompletelyDequeued, S, L, C, E)
  BY <1>1, Parts, Zenon
<1>3. /\ tailIndex' = tailIndex /\ tailBlock' = tailBlock /\ headIndex' = headIndex
      /\ dequeueOptimisticCount' = dequeueOptimisticCount
      /\ dequeueOvercommit' = dequeueOvercommit
      /\ elementsCompletelyDequeued' = elementsCompletelyDequeued
      /\ consumer' = consumer /\ idxEntry' = idxEntry
  BY Zenon DEF Insert, dequeued, blocks
<1>4. hs \in Seq(Header) /\ es \in Seq(Entry) /\ pc \in [Producer -> Doing]
      /\ entries \in [Producer -> Seq(Entry)] /\ tailIndex[p] \in Index
  BY TypesOf, Zenon DEF Types
<1>5. q = "insert" /\ q2 = "block" /\ MoveTail(p, 1)  BY <1>4, Zenon DEF Insert, Transition
<1>6. q # "block"  BY ONLY <1>5
<1>7. hs # <<>>
  <2>1. hs = <<>> => q \in {"idle", "slot"}  BY <1>2, Zenon DEF Hand
  <2>2. ~(q \in {"idle", "slot"})  BY ONLY <1>5
  <2> QED  BY <2>1, <2>2, Zenon
<1>8. /\ Len(hs) \in 1 .. Len(hs) /\ h = hs[Len(hs)] /\ h = Last(hs) /\ h \in Header
      /\ Len(hs) \in Nat
  BY <1>4, <1>7, HeadersAre, Zenon DEF Current
<1>9. Ring(h, es, L, C, E) /\ N[Len(hs)] = C  BY <1>2, <1>8, Zenon DEF Rings
<1>10. i = AfterTail(h) /\ i \in DOMAIN es /\ es[i].value = null /\ i \in Nat
  <2>1. i = AfterTail(h) /\ i \in DOMAIN es /\ es[i].value = null
    BY <1>2, <1>5, <1>8, Zenon DEF Hand
  <2>2. i \in Nat  BY TypesOf, Zenon
  <2> QED  BY <2>1, <2>2, Zenon
<1>11. /\ L <= C /\ Base(L) <= S /\ S <= F /\ F <= H /\ H <= T
       /\ T <= Base(C) /\ Base(C) <= T + BLOCK_SIZE
       /\ Base(C) - H < Half /\ H - S < Half
       /\ T = Base(C) /\ Base(C) + BLOCK_SIZE - H < Half
  BY <1>2, <1>5 DEF Order
<1>12. /\ BLOCK_SIZE \in Nat \ {0} /\ Base(C) \in Nat /\ Base(C + 1) = Base(C) + BLOCK_SIZE
       /\ C + 1 \in Nat /\ C - 1 \in Int /\ (C + 1) - 1 = C /\ Half \in Nat
  <2>1. Base(C) \in Nat /\ Base(C + 1) = Base(C) + BLOCK_SIZE  BY Bases, Zenon
  <2>2. C + 1 \in Nat /\ C - 1 \in Int /\ (C + 1) - 1 = C  BY ONLY C \in Nat
  <2>3. BLOCK_SIZE \in Nat \ {0} /\ Half \in Nat  BY ONLY Sizes
  <2> QED  BY <2>1, <2>2, <2>3, Zenon
<1>13. Order(q2, T, H, F, S, L, C + 1)
  <2>1. /\ L <= C + 1 /\ T <= Base(C + 1) /\ Base(C + 1) = T + BLOCK_SIZE
        /\ Base(C + 1) <= T + BLOCK_SIZE /\ Base(C + 1) - H < Half
    BY ONLY <1>11, <1>12, L \in Nat, C \in Nat, T \in Nat, H \in Nat
  <2> HIDE DEF q2
  <2> QED  BY <1>5, <1>11, <2>1 DEF Order
<1>x. PICK x \in Entry : x = [es[i] EXCEPT !.key = tailIndex[p]]
  <2>1. es[i] \in Entry  BY <1>4, <1>10, ElementOfSeq, LenProperties, Zenon
  <2>2. [es[i] EXCEPT !.key = tailIndex[p]] \in Entry  BY <1>4, <2>1 DEF Entry
  <2> QED  BY <2>2, Zenon
<1>14. x.key = Wrap(Base(C)) /\ x.value = null
  <2>1. es[i] \in Entry  BY <1>4, <1>10, ElementOfSeq, LenProperties, Zenon
  <2>2. x.key = tailIndex[p] /\ x.value = es[i].value
    <3>1. DOMAIN es[i] = {"key", "value"}  BY <2>1, Zenon DEF Entry
    <3> QED  BY <1>x, <3>1, Zenon
  <2>3. tailIndex[p] = Wrap(T)  BY <1>2, Zenon DEF Indices
  <2> QED  BY <1>10, <1>11, <2>2, <2>3, Zenon
<1>15. Replaced(es2, es, i, x)
  <2>1. entries' = [entries EXCEPT ![p][i].key = tailIndex[p]]  BY Zenon DEF Insert
  <2>2. es2 = [es EXCEPT ![i] = x]  BY <1>4, <1>x, <2>1, Zenon
  <2> QED  BY <1>4, <2>2, ReplacedIs, Zenon
<1>16. /\ es2 \in Seq(Entry) /\ DOMAIN es2 = DOMAIN es /\ es2[i] = x
       /\ \A e \in DOMAIN es : e # i => es2[e] = es[e]
       /\ \A e \in DOMAIN es : es2[e].value = es[e].value
  <2>1. /\ es2 \in Seq(Entry) /\ DOMAIN es2 = DOMAIN es /\ es2[i] = x
        /\ \A e \in DOMAIN es : e # i => es2[e] = es[e]
    BY <1>10, <1>15, Zenon DEF Replaced
  <2> QED  BY <1>10, <1>14, <2>1, Zenon
<1>e. PICK E2 \in [Nat -> Nat] : E2 = [E EXCEPT ![C] = i]
  <2>1. [E EXCEPT ![C] = i] \in [Nat -> Nat]  BY <1>10, Zenon
  <2> QED  BY <2>1, Zenon
<1>17. E2[C] = i /\ \A m \in L .. C - 1 : E2[m] = E[m] /\ m \in Nat /\ m \in Int /\ m # C
  <2>1. \A m \in L .. C - 1 : m \in Nat /\ m \in Int /\ m # C  OBVIOUS
  <2> QED  BY <1>e, <2>1, Zenon
<1>18. \A m \in L .. C - 1 : /\ E[m] \in DOMAIN es /\ es[E[m]].key = Wrap(Base(m))
                             /\ es[E[m]].value # null /\ E[m] # i
  <2>1. \A m \in L .. C - 1 : /\ E[m] \in DOMAIN es /\ es[E[m]].key = Wrap(Base(m))
                              /\ es[E[m]].value # null
    BY <1>2, <1>6, Zenon DEF Chain
  <2> QED  BY <1>10, <2>1, Zenon
<1>19. (C + 1) - L <= h.capacity
  <2> SUFFICES ASSUME ~((C + 1) - L <= h.capacity) PROVE FALSE  BY Zenon
  <2>1. AfterTail(h) = E[L] /\ L < C
    <3> HIDE DEF h
    <3>1. h \in Header /\ Ring(h, es, L, C, E)  BY ONLY <1>8, <1>9
    <3> QED  BY ONLY <3>1, L \in Nat, C \in Nat, ~((C + 1) - L <= h.capacity),
                RingFull, ZenonT(30)
  <2>2. L \in L .. C - 1  BY <2>1
  <2>3. E[L] # i  BY <1>18, <2>2, Zenon
  <2> QED  BY <1>10, <2>1, <2>3, Zenon
<1>20. L .. (C + 1) - 1 = (L .. C - 1) \union {C}
  <2>1. L <= C  BY <1>11, Zenon
  <2> QED  BY ONLY <2>1, L \in Nat, C \in Nat
<1>21. Chain(es2, q2, L, C + 1, E2)
  <2>1. ASSUME NEW m \in L .. (C + 1) - 1
        PROVE  /\ E2[m] \in DOMAIN es2 /\ es2[E2[m]].key = Wrap(Base(m))
               /\ es2[E2[m]].value = null <=> q2 = "block" /\ m = (C + 1) - 1
    <3>1. CASE m = C
      <4>1. E2[m] = i  BY <1>17, <3>1, Zenon
      <4> QED  BY <1>5, <1>10, <1>12, <1>14, <1>16, <3>1, <4>1, Zenon
    <3>2. CASE m \in L .. C - 1
      <4>1. es2[E2[m]] = es[E[m]] /\ E2[m] = E[m]  BY <1>16, <1>17, <1>18, <3>2, Zenon
      <4>2. m # (C + 1) - 1  BY <1>12, <1>17, <3>2, Zenon
      <4> QED  BY <1>16, <1>18, <3>2, <4>1, <4>2, Zenon
    <3> QED  BY <1>20, <3>1, <3>2, Zenon
  <2>2. ASSUME NEW m \in L .. (C + 1) - 1, NEW n \in L .. (C + 1) - 1, E2[m] = E2[n]
        PROVE  m = n
    <3>1. CASE m = C /\ n \in L .. C - 1  BY <1>17, <1>18, <2>2, <3>1, Zenon
    <3>2. CASE m \in L .. C - 1 /\ n = C  BY <1>17, <1>18, <2>2, <3>2, Zenon
    <3>3. CASE m \in L .. C - 1 /\ n \in L .. C - 1
      <4>1. E[m] = E[n]  BY <1>17, <2>2, <3>3, Zenon
      <4> QED  BY <1>2, <3>3, <4>1, Zenon DEF Chain
    <3>4. CASE m = C /\ n = C  BY <3>4, Zenon
    <3> QED  BY <1>20, <3>1, <3>2, <3>3, <3>4, Zenon
  <2>3. ASSUME NEW e \in DOMAIN es2, es2[e].value # null
        PROVE  \E m \in L .. (C + 1) - 1 : E2[m] = e
    <3>1. e \in DOMAIN es /\ es[e].value # null  BY <1>16, <2>3, Zenon
    <3>2. PICK m \in L .. C - 1 : E[m] = e  BY <1>2, <3>1, Zenon DEF Chain
    <3> QED  BY <1>17, <1>20, <3>2, Zenon
  <2> QED  BY <2>1, <2>2, <2>3, Zenon DEF Chain
<1>h. PICK h2 : h2 = [h EXCEPT !.tail = (h.tail + 1) % h.capacity]  OBVIOUS
<1>22. /\ h2 \in Header
       /\ \A k \in Int : Position(h2, ((C + 1) - 1) - k) = Position(h, (C - 1) - k)
       /\ \A k \in Int : EntryBefore(h2, ((C + 1) - 1) - k) = EntryBefore(h, (C - 1) - k)
       /\ Ring(h2, es, L, C + 1, E2)
  <2>1. i \in Nat /\ i = AfterTail(h) /\ h \in Header /\ Ring(h, es, L, C, E)
    BY <1>8, <1>9, <1>10, Zenon
  <2> HIDE DEF h, i
  <2>2. TailAt(h2, h, es, L, C, C + 1, E2)
    BY ONLY <2>1, <1>19, L \in Nat, C \in Nat, E \in [Nat -> Nat],
            <1>h, <1>e, RingForward, Zenon
  <2> QED  BY <2>2, Zenon DEF TailAt
<1>23. /\ Moved(hs2, hs, h2) /\ \A r \in Producer : r # p => headers'[r] = headers[r]
  <2>1. 1 \in Int  OBVIOUS
  <2> QED  BY <1>5, <1>7, <1>22, <1>h, <2>1, TailMoves, Zenon
<1>24. /\ hs2 \in Seq(Header) /\ Len(hs2) = Len(hs) /\ hs2 # <<>>
       /\ Len(hs) \in 1 .. Len(hs) /\ hs2[Len(hs)] = h2
       /\ \A j \in 1 .. Len(hs) : j # Len(hs) => hs2[j] = hs[j]
  BY <1>23, Zenon DEF Moved
<1>n. PICK N2 \in [Nat -> Nat] : N2 = [N EXCEPT ![Len(hs)] = C + 1]
  <2>1. [N EXCEPT ![Len(hs)] = C + 1] \in [Nat -> Nat]  BY <1>12, Zenon
  <2> QED  BY <2>1, Zenon
<1>25. N2[Len(hs)] = C + 1 /\ \A j \in 1 .. Len(hs) : j # Len(hs) => N2[j] = N[j]
  <2>1. Len(hs) \in Nat /\ 1 .. Len(hs) \subseteq Nat  BY <1>8, Beyond, Zenon
  <2> QED  BY <1>n, <2>1, Zenon
<1>26. \A j \in 1 .. Len(hs) : N[j] \in Nat
  <2>1. 1 .. Len(hs) \subseteq Nat  BY <1>8, Beyond, Zenon
  <2> QED  BY <2>1, Zenon
<1>27. Hand(hs2, es2, q2, i, tailBlock[p], T, C + 1, E2)
  <2>1. q2 # "insert"  BY ONLY <1>5
  <2>2. i = E2[(C + 1) - 1]  BY <1>12, <1>17, Zenon
  <2> QED  BY <1>5, <1>24, <2>1, <2>2, Zenon DEF Hand
<1>28. Rings(hs2, es2, q2, L, C + 1, E2, N2)
  <2> SUFFICES ASSUME NEW j \in 1 .. Len(hs)
               PROVE  /\ Ring(hs2[j], es2, L, N2[j], E2)
                      /\ IF j = Len(hs2) THEN N2[j] = C + 1
                         ELSE N2[j] <= C + 1 /\ (q2 = "block" => N2[j] < C + 1)
    BY <1>24, Zenon DEF Rings
  <2>0. L <= L  BY ONLY L \in Nat
  <2>1. CASE j = Len(hs)
    <3>1. h2.capacity \in Nat  BY <1>22 DEF Header
    <3>2. Ring(h2, es2, L, C + 1, E2)
      BY <1>12, <1>16, <1>22, <2>0, <3>1, RingKept, Zenon
    <3> QED  BY <1>24, <1>25, <2>1, <3>2, Zenon
  <2>2. CASE j # Len(hs)
    <3>1. Ring(hs[j], es, L, N[j], E)  BY <1>2, Zenon DEF Rings
    <3>2. N[j] <= C  BY <1>2, <2>2, Zenon DEF Rings
    <3>3. N[j] <= C + 1 /\ N[j] < C + 1 /\ L .. N[j] - 1 \subseteq L .. C - 1
      <4> PICK k \in Nat : k = N[j]  BY <1>26, Zenon
      <4>1. k <= C  BY <3>2, Zenon
      <4>2. k <= C + 1 /\ k < C + 1 /\ L .. k - 1 \subseteq L .. C - 1
        BY ONLY <4>1, C \in Nat, L \in Nat, k \in Nat
      <4> QED  BY <4>2, Zenon
    <3>4. \A m \in L .. N[j] - 1 : E2[m] = E[m]  BY <1>17, <3>3, Zenon
    <3>5. hs[j].capacity \in Nat
      <4>1. hs[j] \in Header  BY <1>4, HeadersAre, Zenon
      <4> QED  BY <4>1 DEF Header
    <3>6. Ring(hs[j], es2, L, N[j], E2)
      <4>1. N[j] \in Nat /\ DOMAIN es \subseteq DOMAIN es2  BY <1>16, <1>26, Zenon
      <4> HIDE DEF hs, es, es2
      <4> QED  BY ONLY <2>0, <3>1, <3>4, <3>5, <4>1, L \in Nat, RingKept, Zenon
    <3> QED  BY <1>24, <1>25, <2>2, <3>3, <3>6, Zenon
  <2> QED  BY <2>1, <2>2, Zenon
<1>29. Turned(hs, N, hs2, N2) /\ StillAhead(hs, H, N, N2)
  <2>1. Len(hs) <= Len(hs2)  BY ONLY <1>8, <1>24
  <2>2. ASSUME NEW j \in 1 .. Len(hs), NEW k \in Int
        PROVE  Position(hs2[j], (N2[j] - 1) - k) = Position(hs[j], (N[j] - 1) - k)
    <3>1. CASE j = Len(hs)
      <4>1. hs2[j] = h2 /\ hs[j] = h /\ N2[j] = C + 1 /\ N[j] = C
        BY <1>8, <1>9, <1>24, <1>25, <3>1, Zenon
      <4> HIDE DEF h, hs, hs2
      <4> QED  BY <1>22, <4>1, Zenon
    <3>2. CASE j # Len(hs)  BY <1>24, <1>25, <3>2, Zenon
    <3> QED  BY <3>1, <3>2, Zenon
  <2>3. ASSUME NEW j \in 1 .. Len(hs), H <= Base(N[j]) PROVE H <= Base(N2[j])
    <3>1. CASE j = Len(hs)
      <4>1. H <= Base(C + 1)  BY ONLY <1>11, <1>12, H \in Nat, T \in Nat
      <4> QED  BY <1>25, <3>1, <4>1, Zenon
    <3>2. CASE j # Len(hs)  BY <1>25, <2>3, <3>2, Zenon
    <3> QED  BY <3>1, <3>2, Zenon
  <2> QED  BY <2>1, <2>2, <2>3, Zenon DEF Turned, StillAhead
<1>30. StillRead(consumer, L, hs, es, q, T, N, hs2, es2, q2, T, N2)
  <2> SUFFICES ASSUME NEW j \in 1 .. Len(hs), NEW k \in Nat,
                      TailRead(consumer, hs[j], j = Len(hs), es, q, T, N[j], k)
               PROVE  TailRead(consumer, hs2[j], j = Len(hs2), es2, q2, T, N2[j], k)
    BY Zenon DEF StillRead
  <2>1. /\ consumer.tail = Position(hs[j], (N[j] - 1) - k) /\ k <= N[j]
        /\ k = N[j] => j = Len(hs)
    BY Zenon DEF TailRead
  <2>2. consumer.tail = Position(hs2[j], (N2[j] - 1) - k)
    <3>1. k \in Int  OBVIOUS
    <3> QED  BY <1>29, <2>1, <3>1, Zenon DEF Turned
  <2>3. k <= N2[j] /\ k # N2[j]
    <3>1. CASE j = Len(hs)
      <4>1. k <= C /\ N2[j] = C + 1  BY <1>9, <1>25, <2>1, <3>1, Zenon
      <4> QED  BY ONLY <4>1, k \in Nat, C \in Nat
    <3>2. CASE j # Len(hs)  BY <1>25, <2>1, <3>2, Zenon
    <3> QED  BY <3>1, <3>2, Zenon
  <2> QED  BY <2>2, <2>3, Zenon DEF TailRead
<1>31. L < C => es2[E2[L]].value = es[E[L]].value
  <2>1. L < C => L \in L .. C - 1  BY ONLY L \in Nat, C \in Nat
  <2> QED  BY <1>16, <1>17, <1>18, <2>1, Zenon
<1>32. Consuming(consumer, p, hs2, es2, q2, T, H, F, S, L, E2, N2)
  BY <1>2, <1>4, <1>24, <1>29, <1>30, <1>31, ConsumingKept, Zenon
<1>33. Emptied(es2, elementsCompletelyDequeued, S, L, C + 1, E2)
  <2> SUFFICES ASSUME NEW m \in L .. (C + 1) - 1, es2[E2[m]].value # null
               PROVE  elementsCompletelyDequeued[es2[E2[m]].value]
                        = IF m = L THEN S - Base(L) ELSE 0
    BY Zenon DEF Emptied
  <2>1. m # C  BY <1>14, <1>16, <1>17, Zenon
  <2>2. m \in L .. C - 1  BY <1>20, <2>1, Zenon
  <2>3. es2[E2[m]].value = es[E[m]].value  BY <1>16, <1>17, <1>18, <2>2, Zenon
  <2> QED  BY <1>2, <2>2, <2>3, Zenon DEF Emptied
<1>34. QueueIs(p, T, H, F, S, L, C + 1, E2, N2)'
  BY <1>2, <1>3, <1>13, <1>21, <1>27, <1>28, <1>32, <1>33, Zenon DEF QueueIs
<1>35. Queue(p)'  BY <1>12, <1>34, Zenon DEF Queue
<1> QED  BY <1>16, <1>23, <1>24, <1>35, Zenon

\* The entry of p's newest block gets block b, which p has no entry for.
LEMMA TakeBlockQueue ==
    ASSUME Types, NEW p \in Producer, Queue(p), NEW b \in Block,
           Transition(p, "block", "construct"), SetEntry(p, b), reset_empty(b),
           tailBlock' = [tailBlock EXCEPT ![p] = b],
           UNCHANGED <<producers, tailIndex, headers, dequeued, elements, consumer>>,
           \A e \in DOMAIN entries[p] : entries[p][e].value # b
    PROVE  /\ Queue(p)' /\ idxEntry[p] \in DOMAIN entries[p]
           /\ entries[p][idxEntry[p]].value = null
           /\ \E x \in Entry : x.value = b /\ Replaced(entries'[p], entries[p], idxEntry[p], x)
<1>1. PICK T, H, F, S, L, C \in Nat, E, N \in [Nat -> Nat] : QueueIs(p, T, H, F, S, L, C, E, N)
  BY Zenon DEF Queue
<1> DEFINE hs == headers[p]
           es == entries[p]
           q == pc[p]
           q2 == pc'[p]
           es2 == entries'[p]
           i == idxEntry[p]
<1>2. /\ Indices(tailIndex[p], headIndex[p], dequeueOptimisticCount[p], dequeueOvercommit[p], T, H)
      /\ Order(q, T, H, F, S, L, C)
      /\ Chain(es, q, L, C, E)
      /\ Hand(hs, es, q, idxEntry[p], tailBlock[p], T, C, E)
      /\ Rings(hs, es, q, L, C, E, N)
      /\ Consuming(consumer, p, hs, es, q, T, H, F, S, L, E, N)
      /\ Emptied(es, elementsCompletelyDequeued, S, L, C, E)
  BY <1>1, Parts, Zenon
<1>3. /\ tailIndex' = tailIndex /\ headers' = headers /\ headIndex' = headIndex
      /\ dequeueOptimisticCount' = dequeueOptimisticCount
      /\ dequeueOvercommit' = dequeueOvercommit /\ consumer' = consumer
  BY Zenon DEF dequeued
<1>4. hs \in Seq(Header) /\ es \in Seq(Entry) /\ pc \in [Producer -> Doing]
      /\ entries \in [Producer -> Seq(Entry)] /\ tailBlock \in [Producer -> BlockOrNull]
      /\ elementsCompletelyDequeued \in [Block -> 0 .. BLOCK_SIZE]
  BY TypesOf, Zenon DEF Types
<1>5. q = "block" /\ q2 = "construct" /\ tailBlock'[p] = b  BY <1>4, Zenon DEF Transition
<1>6. q2 # "block" /\ q2 # "insert" /\ ~(q \in {"idle", "slot", "insert"})  BY ONLY <1>5
<1>7. hs # <<>>
  <2>1. hs = <<>> => q \in {"idle", "slot"}  BY <1>2, Zenon DEF Hand
  <2>2. ~(q \in {"idle", "slot"})  BY ONLY <1>5
  <2> QED  BY <2>1, <2>2, Zenon
<1>8. /\ L <= C /\ Base(L) <= S /\ S <= F /\ F <= H /\ H <= T
      /\ T <= Base(C) /\ Base(C) <= T + BLOCK_SIZE
      /\ Base(C) - H < Half /\ H - S < Half
      /\ Base(C) = T + BLOCK_SIZE
  BY <1>2, <1>5 DEF Order
<1>9. BLOCK_SIZE \in Nat \ {0} /\ Base(C) \in Nat /\ Base(L) \in Nat  BY Sizes, Bases, Zenon
<1>10. S < Base(C) /\ T < Base(C)
  BY ONLY <1>8, <1>9, S \in Nat, F \in Nat, H \in Nat, T \in Nat
<1>11. L < C /\ C - 1 \in Nat /\ Base(C - 1) \in Nat /\ Base(C) = Base(C - 1) + BLOCK_SIZE
  <2>1. Order(q, T, H, F, S, L, C) /\ S < Base(C)  BY <1>2, <1>10, Zenon
  <2> QED  BY ONLY <2>1, OrderIs, T \in Nat, H \in Nat, F \in Nat, S \in Nat, L \in Nat,
              C \in Nat
<1>12. C - 1 \in L .. C - 1 /\ L \in L .. C - 1
       /\ \A m \in L .. C - 1 : m # C - 1 => m \in L .. C - 1
  BY ONLY <1>11, L \in Nat, C \in Nat
<1>13. Order(q2, T, H, F, S, L, C)
  <2> HIDE DEF q2
  <2> QED  BY <1>5, <1>8, <1>10 DEF Order
<1>14. i = E[C - 1] /\ i \in DOMAIN es /\ es[i].value = null /\ es[i].key = Wrap(Base(C - 1))
  <2>1. i = E[C - 1]  BY <1>2, <1>5, Zenon DEF Hand
  <2>2. E[C - 1] \in DOMAIN es /\ es[E[C - 1]].key = Wrap(Base(C - 1))
        /\ es[E[C - 1]].value = null
    BY <1>2, <1>5, <1>12, Zenon DEF Chain
  <2> QED  BY <2>1, <2>2, Zenon
<1>15. es[i] \in Entry  BY <1>4, <1>14, ElementOfSeq, LenProperties, Zenon
<1>x. PICK x \in Entry : x = [es[i] EXCEPT !.value = b]
  <2>1. b \in BlockOrNull  BY Zenon DEF BlockOrNull
  <2>2. [es[i] EXCEPT !.value = b] \in Entry  BY <1>15, <2>1 DEF Entry
  <2> QED  BY <2>2, Zenon
<1>16. x.value = b /\ x.key = Wrap(Base(C - 1)) /\ b # null
  <2>1. DOMAIN es[i] = {"key", "value"}  BY <1>15, Zenon DEF Entry
  <2>2. x.key = es[i].key /\ x.value = b  BY <1>x, <2>1
  <2> QED  BY <1>14, <2>2, Values, Zenon
<1>17. Replaced(es2, es, i, x)
  <2>1. entries' = [entries EXCEPT ![p][i].value = b]  BY Zenon DEF SetEntry
  <2>2. es2 = [es EXCEPT ![i] = x]  BY <1>4, <1>x, <2>1, Zenon
  <2> QED  BY <1>4, <2>2, ReplacedIs, Zenon
<1>18. /\ es2 \in Seq(Entry) /\ DOMAIN es2 = DOMAIN es /\ es2[i] = x
       /\ \A e \in DOMAIN es : e # i => es2[e] = es[e]
  BY <1>14, <1>17, Zenon DEF Replaced
<1>19. \A m \in L .. C - 1 : /\ E[m] \in DOMAIN es /\ es[E[m]].key = Wrap(Base(m))
                             /\ m # C - 1 => E[m] # i /\ es[E[m]].value # null
                                             /\ es2[E[m]] = es[E[m]]
  <2>1. \A m \in L .. C - 1 : /\ E[m] \in DOMAIN es /\ es[E[m]].key = Wrap(Base(m))
                              /\ m # C - 1 => es[E[m]].value # null
    BY <1>2, Zenon DEF Chain
  <2>2. \A m \in L .. C - 1 : m # C - 1 => E[m] # i
    BY <1>2, <1>12, <1>14, Zenon DEF Chain
  <2> QED  BY <1>18, <2>1, <2>2, Zenon
<1>20. Chain(es2, q2, L, C, E)
  <2>1. ASSUME NEW m \in L .. C - 1
        PROVE  /\ E[m] \in DOMAIN es2 /\ es2[E[m]].key = Wrap(Base(m))
               /\ es2[E[m]].value = null <=> q2 = "block" /\ m = C - 1
    <3>1. CASE m = C - 1  BY <1>6, <1>14, <1>16, <1>18, <3>1, Zenon
    <3>2. CASE m # C - 1  BY <1>6, <1>18, <1>19, <3>2, Zenon
    <3> QED  BY <3>1, <3>2, Zenon
  <2>2. \A m, n \in L .. C - 1 : E[m] = E[n] => m = n  BY <1>2, Zenon DEF Chain
  <2>3. ASSUME NEW e \in DOMAIN es2, es2[e].value # null
        PROVE  \E m \in L .. C - 1 : E[m] = e
    <3>1. CASE e = i  BY <1>12, <1>14, <3>1, Zenon
    <3>2. CASE e # i
      <4>1. e \in DOMAIN es /\ es[e].value # null  BY <1>18, <2>3, <3>2, Zenon
      <4> QED  BY <1>2, <4>1, Zenon DEF Chain
    <3> QED  BY <3>1, <3>2, Zenon
  <2> QED  BY <2>1, <2>2, <2>3, Zenon DEF Chain
<1>21. Hand(hs, es2, q2, idxEntry'[p], tailBlock'[p], T, C, E)
  <2>1. tailBlock'[p] = es2[E[C - 1]].value  BY <1>5, <1>14, <1>16, <1>18, Zenon
  <2> QED  BY <1>6, <1>7, <2>1, Zenon DEF Hand
<1>22. Rings(hs, es2, q2, L, C, E, N)
  <2> SUFFICES ASSUME NEW j \in 1 .. Len(hs)
               PROVE  /\ Ring(hs[j], es2, L, N[j], E)
                      /\ IF j = Len(hs) THEN N[j] = C
                         ELSE N[j] <= C /\ (q2 = "block" => N[j] < C)
    BY Zenon DEF Rings
  <2>1. Ring(hs[j], es, L, N[j], E)  BY <1>2, Zenon DEF Rings
  <2>2. Ring(hs[j], es2, L, N[j], E)  BY <1>18, <2>1, Zenon DEF Ring
  <2> QED  BY <1>2, <1>6, <2>2, Zenon DEF Rings
<1>23. StillRead(consumer, L, hs, es, q, T, N, hs, es2, q2, T, N)
  BY <1>6, Zenon DEF StillRead, TailRead
<1>24. L < C /\ (q = "block" => L < C - 1) => es2[E[L]].value = es[E[L]].value
  <2>1. L < C - 1 => L # C - 1  BY ONLY <1>11, L \in Nat
  <2> QED  BY <1>5, <1>12, <1>19, <2>1, Zenon
<1>25. Consuming(consumer, p, hs, es2, q2, T, H, F, S, L, E, N)
  BY <1>2, <1>4, <1>23, <1>24, NotTurned, ConsumingKept, Zenon
<1>26. Emptied(es2, elementsCompletelyDequeued', S, L, C, E)
  <2> SUFFICES ASSUME NEW m \in L .. C - 1, es2[E[m]].value # null
               PROVE  elementsCompletelyDequeued'[es2[E[m]].value]
                        = IF m = L THEN S - Base(L) ELSE 0
    BY Zenon DEF Emptied
  <2>0. elementsCompletelyDequeued' = [elementsCompletelyDequeued EXCEPT ![b] = 0]
    BY Zenon DEF reset_empty
  <2>1. CASE m = C - 1
    <3>1. es2[E[m]].value = b  BY <1>14, <1>16, <1>18, <2>1, Zenon
    <3>2. elementsCompletelyDequeued'[b] = 0  BY <1>4, <2>0, Zenon
    <3>3. m = L => S - Base(L) = 0
      <4> SUFFICES ASSUME m = L PROVE S - Base(L) = 0  OBVIOUS
      <4>1. Base(C) = Base(L) + BLOCK_SIZE  BY <1>11, <2>1, Zenon
      <4> QED  BY ONLY <1>8, <1>9, <4>1, S \in Nat, F \in Nat, H \in Nat, T \in Nat
    <3> QED  BY <3>1, <3>2, <3>3, Zenon
  <2>2. CASE m # C - 1
    <3>1. es2[E[m]] = es[E[m]] /\ E[m] \in DOMAIN es  BY <1>19, <2>2, Zenon
    <3>2. es[E[m]].value # b  BY <3>1, Zenon
    <3>3. elementsCompletelyDequeued'[es[E[m]].value] = elementsCompletelyDequeued[es[E[m]].value]
      <4>1. es[E[m]].value \in Block
        <5>1. es[E[m]] \in Entry  BY <1>4, <3>1, ElementOfSeq, LenProperties, Zenon
        <5>2. es[E[m]].value \in BlockOrNull  BY <5>1 DEF Entry
        <5> QED  BY <3>1, <5>2, Zenon DEF BlockOrNull
      <4> QED  BY <1>4, <2>0, <3>2, <4>1, Zenon
    <3> QED  BY <1>2, <3>1, <3>3, Zenon DEF Emptied
  <2> QED  BY <2>1, <2>2, Zenon
<1>27. QueueIs(p, T, H, F, S, L, C, E, N)'
  BY <1>2, <1>3, <1>13, <1>20, <1>21, <1>22, <1>25, <1>26, Zenon DEF QueueIs
<1>28. Queue(p)'  BY <1>27, Zenon DEF Queue
<1> QED  BY <1>14, <1>16, <1>17, <1>28, Zenon

\* The entry of p's newest block, which waits for the block, is given up.
LEMMA RewindQueue ==
    ASSUME Types, NEW p \in Producer, Queue(p), Rewind(p)
    PROVE  /\ Queue(p)' /\ headers'[p] \in Seq(Header)
           /\ \A r \in Producer : r # p => headers'[r] = headers[r]
           /\ entries'[p] = entries[p]
<1>1. PICK T, H, F, S, L, C \in Nat, E, N \in [Nat -> Nat] : QueueIs(p, T, H, F, S, L, C, E, N)
  BY Zenon DEF Queue
<1> DEFINE hs == headers[p]
           es == entries[p]
           q == pc[p]
           q2 == pc'[p]
           hs2 == headers'[p]
           i == idxEntry[p]
           h == Current(p)
<1>2. /\ Indices(tailIndex[p], headIndex[p], dequeueOptimisticCount[p], dequeueOvercommit[p], T, H)
      /\ Order(q, T, H, F, S, L, C)
      /\ Chain(es, q, L, C, E)
      /\ Hand(hs, es, q, idxEntry[p], tailBlock[p], T, C, E)
      /\ Rings(hs, es, q, L, C, E, N)
      /\ Consuming(consumer, p, hs, es, q, T, H, F, S, L, E, N)
      /\ Emptied(es, elementsCompletelyDequeued, S, L, C, E)
  BY <1>1, Parts, Zenon
<1>3. /\ tailIndex' = tailIndex /\ tailBlock' = tailBlock /\ headIndex' = headIndex
      /\ dequeueOptimisticCount' = dequeueOptimisticCount
      /\ dequeueOvercommit' = dequeueOvercommit
      /\ elementsCompletelyDequeued' = elementsCompletelyDequeued /\ consumer' = consumer
  BY Zenon DEF Rewind, dequeued, blocks
<1>4. hs \in Seq(Header) /\ es \in Seq(Entry) /\ pc \in [Producer -> Doing]
      /\ entries \in [Producer -> Seq(Entry)]
  BY TypesOf, Zenon DEF Types
<1>5. q = "block" /\ q2 = "idle" /\ MoveTail(p, -1)
  BY <1>4, Zenon DEF Rewind, Transition
<1>6. /\ q2 # "block" /\ q2 # "insert" /\ ~(q \in {"idle", "slot", "insert"})
      /\ q2 \in {"idle", "slot", "insert"}
  BY ONLY <1>5
<1>7. hs # <<>>
  <2>1. hs = <<>> => q \in {"idle", "slot"}  BY <1>2, Zenon DEF Hand
  <2>2. ~(q \in {"idle", "slot"})  BY ONLY <1>5
  <2> QED  BY <2>1, <2>2, Zenon
<1>8. /\ L <= C /\ Base(L) <= S /\ S <= F /\ F <= H /\ H <= T
      /\ T <= Base(C) /\ Base(C) <= T + BLOCK_SIZE
      /\ Base(C) - H < Half /\ H - S < Half
      /\ Base(C) = T + BLOCK_SIZE
  BY <1>2, <1>5 DEF Order
<1>9. BLOCK_SIZE \in Nat \ {0} /\ Base(C) \in Nat /\ Base(L) \in Nat /\ Half \in Nat
  <2>1. BLOCK_SIZE \in Nat \ {0} /\ Half \in Nat  BY ONLY Sizes
  <2> QED  BY <2>1, Bases, Zenon
<1>10. S < Base(C) /\ T < Base(C)
  BY ONLY <1>8, <1>9, S \in Nat, F \in Nat, H \in Nat, T \in Nat
<1>11. /\ L < C /\ C - 1 \in Nat /\ Base(C - 1) \in Nat /\ Base(C) = Base(C - 1) + BLOCK_SIZE
       /\ C - 1 \in Int /\ C > 0
  <2>1. Order(q, T, H, F, S, L, C) /\ S < Base(C)  BY <1>2, <1>10, Zenon
  <2> QED  BY ONLY <2>1, OrderIs, T \in Nat, H \in Nat, F \in Nat, S \in Nat, L \in Nat,
              C \in Nat
<1>12. /\ C - 1 \in L .. C - 1
       /\ \A m \in L .. (C - 1) - 1 : m \in L .. C - 1 /\ m # C - 1
       /\ \A m \in L .. C - 1 : m # C - 1 => m \in L .. (C - 1) - 1
  BY ONLY <1>11, L \in Nat, C \in Nat
<1>13. T = Base(C - 1) /\ Base(C - 1) < T + BLOCK_SIZE /\ Base(C - 1) - H < Half
  BY ONLY <1>8, <1>9, <1>11, T \in Nat, H \in Nat
<1>14. Order(q2, T, H, F, S, L, C - 1)
  <2>1. L <= C - 1 /\ T <= Base(C - 1) /\ Base(C - 1) <= T + BLOCK_SIZE
    BY ONLY <1>9, <1>11, <1>13, L \in Nat, C \in Nat, T \in Nat
  <2> HIDE DEF q2
  <2> QED  BY <1>5, <1>8, <1>13, <2>1 DEF Order
<1>15. i = E[C - 1] /\ i \in DOMAIN es /\ es[i].value = null /\ es[i].key = Wrap(Base(C - 1))
  <2>1. i = E[C - 1]  BY <1>2, <1>5, Zenon DEF Hand
  <2>2. E[C - 1] \in DOMAIN es /\ es[E[C - 1]].key = Wrap(Base(C - 1))
        /\ es[E[C - 1]].value = null
    BY <1>2, <1>5, <1>12, Zenon DEF Chain
  <2> QED  BY <2>1, <2>2, Zenon
<1>16. entries'[p] = es
  <2>1. entries' = [entries EXCEPT ![p][i].value = null]  BY Zenon DEF Rewind, SetEntry
  <2>2. es[i] \in Entry  BY <1>4, <1>15, ElementOfSeq, LenProperties, Zenon
  <2>3. [es[i] EXCEPT !.value = null] = es[i]  BY <1>15, <2>2 DEF Entry
  <2>4. entries'[p] = [es EXCEPT ![i] = es[i]]  BY <1>4, <2>1, <2>3, Zenon
  <2>5. [es EXCEPT ![i] = es[i]] = es
    <3>1. es = [e \in DOMAIN es |-> es[e]]  BY <1>4, LenProperties, Zenon
    <3> QED  BY <3>1, Zenon
  <2> QED  BY <2>4, <2>5, Zenon
<1>17. Chain(es, q2, L, C - 1, E)
  <2>1. \A m \in L .. (C - 1) - 1 :
          /\ E[m] \in DOMAIN es /\ es[E[m]].key = Wrap(Base(m))
          /\ es[E[m]].value = null <=> q2 = "block" /\ m = (C - 1) - 1
    BY <1>2, <1>6, <1>12, Zenon DEF Chain
  <2>2. \A m, n \in L .. (C - 1) - 1 : E[m] = E[n] => m = n
    BY <1>2, <1>12, Zenon DEF Chain
  <2>3. ASSUME NEW e \in DOMAIN es, es[e].value # null
        PROVE  \E m \in L .. (C - 1) - 1 : E[m] = e
    <3>1. PICK m \in L .. C - 1 : E[m] = e  BY <1>2, <2>3, Zenon DEF Chain
    <3>2. m # C - 1  BY <1>15, <2>3, <3>1, Zenon
    <3> QED  BY <1>12, <3>1, <3>2, Zenon
  <2> QED  BY <2>1, <2>2, <2>3, Zenon DEF Chain
<1>18. /\ Len(hs) \in 1 .. Len(hs) /\ h = hs[Len(hs)] /\ h \in Header /\ Len(hs) \in Nat
  BY <1>4, <1>7, HeadersAre, Zenon DEF Current
<1>19. Ring(h, es, L, C, E) /\ N[Len(hs)] = C  BY <1>2, <1>18, Zenon DEF Rings
<1>h. PICK h2 : h2 = [h EXCEPT !.tail = (h.tail + (-1)) % h.capacity]  OBVIOUS
<1>20. /\ h2 \in Header
       /\ \A k \in Int : Position(h2, ((C - 1) - 1) - k) = Position(h, (C - 1) - k)
       /\ \A k \in Int : EntryBefore(h2, ((C - 1) - 1) - k) = EntryBefore(h, (C - 1) - k)
       /\ Ring(h2, es, L, C - 1, E)
  <2>1. h \in Header /\ Ring(h, es, L, C, E)  BY <1>18, <1>19, Zenon
  <2> HIDE DEF h
  <2>2. TailAt(h2, h, es, L, C, C - 1, E)
    BY ONLY <2>1, <1>11, <1>h, L \in Nat, C \in Nat, RingBack, Zenon
  <2> QED  BY <2>2, Zenon DEF TailAt
<1>21. /\ Moved(hs2, hs, h2) /\ \A r \in Producer : r # p => headers'[r] = headers[r]
  <2>1. -1 \in Int  OBVIOUS
  <2> QED  BY <1>5, <1>7, <1>20, <1>h, <2>1, TailMoves, Zenon
<1>22. /\ hs2 \in Seq(Header) /\ Len(hs2) = Len(hs) /\ hs2 # <<>>
       /\ Len(hs) \in 1 .. Len(hs) /\ hs2[Len(hs)] = h2
       /\ \A j \in 1 .. Len(hs) : j # Len(hs) => hs2[j] = hs[j]
  BY <1>21, Zenon DEF Moved
<1>n. PICK N2 \in [Nat -> Nat] : N2 = [N EXCEPT ![Len(hs)] = C - 1]
  <2>1. [N EXCEPT ![Len(hs)] = C - 1] \in [Nat -> Nat]  BY <1>11, Zenon
  <2> QED  BY <2>1, Zenon
<1>23. /\ N2[Len(hs)] = C - 1 /\ \A j \in 1 .. Len(hs) : N[j] \in Nat
       /\ \A j \in 1 .. Len(hs) : j # Len(hs) => N2[j] = N[j]
  <2>1. Len(hs) \in Nat /\ 1 .. Len(hs) \subseteq Nat  BY <1>18, Beyond, Zenon
  <2> QED  BY <1>n, <2>1, Zenon
<1>24. Hand(hs2, es, q2, idxEntry'[p], tailBlock[p], T, C - 1, E)
  <2>1. ~(T < Base(C - 1))  BY ONLY <1>13, <1>11
  <2> QED  BY <1>6, <1>22, <2>1, Zenon DEF Hand
<1>25. Rings(hs2, es, q2, L, C - 1, E, N2)
  <2> SUFFICES ASSUME NEW j \in 1 .. Len(hs)
               PROVE  /\ Ring(hs2[j], es, L, N2[j], E)
                      /\ IF j = Len(hs2) THEN N2[j] = C - 1
                         ELSE N2[j] <= C - 1 /\ (q2 = "block" => N2[j] < C - 1)
    BY <1>22, Zenon DEF Rings
  <2>1. CASE j = Len(hs)  BY <1>20, <1>22, <1>23, <2>1, Zenon
  <2>2. CASE j # Len(hs)
    <3>1. Ring(hs[j], es, L, N[j], E) /\ N[j] < C
      BY <1>2, <1>5, <2>2, Zenon DEF Rings
    <3>2. N[j] <= C - 1
      <4> PICK k \in Nat : k = N[j]  BY <1>23, Zenon
      <4>1. k < C  BY <3>1, Zenon
      <4>2. k <= C - 1  BY ONLY <4>1, k \in Nat, C \in Nat
      <4> QED  BY <4>2, Zenon
    <3> QED  BY <1>6, <1>22, <1>23, <2>2, <3>1, <3>2, Zenon
  <2> QED  BY <2>1, <2>2, Zenon
<1>26. Turned(hs, N, hs2, N2) /\ StillAhead(hs, H, N, N2)
  <2>1. Len(hs) <= Len(hs2)  BY ONLY <1>18, <1>22
  <2>2. ASSUME NEW j \in 1 .. Len(hs), NEW k \in Int
        PROVE  Position(hs2[j], (N2[j] - 1) - k) = Position(hs[j], (N[j] - 1) - k)
    <3>1. CASE j = Len(hs)
      <4>1. hs2[j] = h2 /\ hs[j] = h /\ N2[j] = C - 1 /\ N[j] = C
        BY <1>18, <1>19, <1>22, <1>23, <3>1, Zenon
      <4> HIDE DEF h, hs, hs2
      <4> QED  BY <1>20, <4>1, Zenon
    <3>2. CASE j # Len(hs)  BY <1>22, <1>23, <3>2, Zenon
    <3> QED  BY <3>1, <3>2, Zenon
  <2>3. ASSUME NEW j \in 1 .. Len(hs), H <= Base(N[j]) PROVE H <= Base(N2[j])
    <3>1. CASE j = Len(hs)
      <4>1. H <= Base(C - 1)  BY <1>8, <1>13, Zenon
      <4> QED  BY <1>23, <3>1, <4>1, Zenon
    <3>2. CASE j # Len(hs)  BY <1>23, <2>3, <3>2, Zenon
    <3> QED  BY <3>1, <3>2, Zenon
  <2> QED  BY <2>1, <2>2, <2>3, Zenon DEF Turned, StillAhead
<1>27. StillRead(consumer, L, hs, es, q, T, N, hs2, es, q2, T, N2)
  <2> SUFFICES ASSUME NEW j \in 1 .. Len(hs), NEW k \in Nat, L <= k,
                      TailRead(consumer, hs[j], j = Len(hs), es, q, T, N[j], k)
               PROVE  TailRead(consumer, hs2[j], j = Len(hs2), es, q2, T, N2[j], k)
    BY Zenon DEF StillRead
  <2>1. consumer.tail = Position(hs[j], (N[j] - 1) - k) /\ k <= N[j] /\ k # N[j]
    BY <1>6, Zenon DEF TailRead
  <2>2. consumer.tail = Position(hs2[j], (N2[j] - 1) - k)
    <3>1. k \in Int  OBVIOUS
    <3> QED  BY <1>26, <2>1, <3>1, Zenon DEF Turned
  <2>3. CASE j = Len(hs)
    <3>1. hs2[j] = h2 /\ hs[j] = h /\ N2[j] = C - 1 /\ N[j] = C
      BY <1>18, <1>19, <1>22, <1>23, <2>3, Zenon
    <3>2. k <= C - 1
      <4>1. k <= C /\ k # C  BY <2>1, <3>1, Zenon
      <4> QED  BY ONLY <4>1, k \in Nat, C \in Nat
    <3>3. ASSUME k = N2[j]
          PROVE  LET e == EntryBefore(h2, ((C - 1) - 1) - k)
                 IN es[e].key = Wrap(Base(k)) /\ es[e].value = null
      <4>1. k = C - 1  BY <3>1, <3>3, Zenon
      <4>2. EntryBefore(h2, ((C - 1) - 1) - k) = EntryBefore(h, (C - 1) - (C - 1))
        BY <1>11, <1>20, <4>1, Zenon
      <4>3. EntryBefore(h, (C - 1) - (C - 1)) = i
        BY <1>12, <1>15, <1>19, Zenon DEF Ring
      <4> QED  BY <1>15, <4>1, <4>2, <4>3, Zenon
    <3>4. k = N2[j] => T = Base(k)  BY <1>13, <3>1, Zenon
    <3> QED  BY <1>6, <1>22, <2>2, <2>3, <3>1, <3>2, <3>3, <3>4, Zenon DEF TailRead
  <2>4. CASE j # Len(hs)
    <3>1. k <= N2[j] /\ k # N2[j]  BY <1>23, <2>1, <2>4, Zenon
    <3> QED  BY <2>2, <3>1, Zenon DEF TailRead
  <2> QED  BY <2>3, <2>4, Zenon
<1>28. Consuming(consumer, p, hs2, es, q2, T, H, F, S, L, E, N2)
  BY <1>2, <1>4, <1>22, <1>26, <1>27, ConsumingKept, Zenon
<1>29. Emptied(es, elementsCompletelyDequeued, S, L, C - 1, E)
  BY <1>2, <1>12, Zenon DEF Emptied
<1>30. QueueIs(p, T, H, F, S, L, C - 1, E, N2)'
  BY <1>2, <1>3, <1>14, <1>16, <1>17, <1>24, <1>25, <1>28, <1>29, Zenon DEF QueueIs
<1>31. Queue(p)'  BY <1>11, <1>30, Zenon DEF Queue
<1> QED  BY <1>16, <1>21, <1>22, <1>31, Zenon

\* An element is constructed or announced.
LEMMA ElementQueue ==
    ASSUME Types, NEW p \in Producer, Queue(p), Construct(p) \/ Commit(p)
    PROVE  /\ Queue(p)' /\ tailIndex'[p] \in Index
           /\ headIndex[p] # tailIndex[p] => headIndex[p] # tailIndex'[p]
<1>1. PICK T, H, F, S, L, C \in Nat, E, N \in [Nat -> Nat] : QueueIs(p, T, H, F, S, L, C, E, N)
  BY Zenon DEF Queue
<1> DEFINE hs == headers[p]
           es == entries[p]
           q == pc[p]
           q2 == pc'[p]
<1>2. /\ Indices(tailIndex[p], headIndex[p], dequeueOptimisticCount[p], dequeueOvercommit[p], T, H)
      /\ Order(q, T, H, F, S, L, C)
      /\ Chain(es, q, L, C, E)
      /\ Hand(hs, es, q, idxEntry[p], tailBlock[p], T, C, E)
      /\ Rings(hs, es, q, L, C, E, N)
      /\ Consuming(consumer, p, hs, es, q, T, H, F, S, L, E, N)
      /\ Emptied(es, elementsCompletelyDequeued, S, L, C, E)
  BY <1>1, Parts, Zenon
<1>3. /\ tailBlock' = tailBlock /\ headIndex' = headIndex
      /\ dequeueOptimisticCount' = dequeueOptimisticCount
      /\ dequeueOvercommit' = dequeueOvercommit /\ headers' = headers /\ entries' = entries
      /\ elementsCompletelyDequeued' = elementsCompletelyDequeued
      /\ idxEntry' = idxEntry /\ consumer' = consumer
  BY Zenon DEF Construct, Commit, queues, dequeued, blocks
<1>4. hs \in Seq(Header) /\ es \in Seq(Entry) /\ pc \in [Producer -> Doing]
      /\ tailIndex \in [Producer -> Index]
  BY TypesOf, Zenon DEF Types
<1>5. \/ q = "construct" /\ q2 = "commit" /\ tailIndex'[p] = tailIndex[p]
      \/ q = "commit" /\ q2 = "idle" /\ tailIndex'[p] = Plus(tailIndex[p], 1)
  BY <1>4, Zenon DEF Construct, Commit, Transition, queues
<1>6. /\ q # "block" /\ q2 # "block" /\ q2 # "insert" /\ ~(q \in {"idle", "slot", "insert"})
      /\ ~(q \in {"idle", "slot"}) /\ q \in {"construct", "commit"}
  BY ONLY <1>5
<1>7. /\ L <= C /\ Base(L) <= S /\ S <= F /\ F <= H /\ H <= T
      /\ T <= Base(C) /\ Base(C) <= T + BLOCK_SIZE
      /\ Base(C) - H < Half /\ H - S < Half /\ T < Base(C)
  BY <1>2, <1>6 DEF Order
<1>8. PICK T2 \in Nat : /\ tailIndex'[p] = Wrap(T2) /\ T <= T2 /\ Order(q2, T2, H, F, S, L, C)
  <2>0. BLOCK_SIZE \in Nat \ {0} /\ Base(C) \in Nat  BY Sizes, Bases, Zenon
  <2>1. CASE q = "construct"
    <3>1. q2 = "commit" /\ tailIndex'[p] = Wrap(T)
      <4>1. q2 = "commit" /\ tailIndex'[p] = tailIndex[p]  BY <1>5, <2>1
      <4> QED  BY <1>2, <4>1, Zenon DEF Indices
    <3>2. Order(q2, T, H, F, S, L, C)
      <4> HIDE DEF q2
      <4> QED  BY <1>7, <3>1 DEF Order
    <3>3. T <= T  OBVIOUS
    <3> QED  BY <3>1, <3>2, <3>3, Zenon
  <2>2. CASE q = "commit"
    <3>1. q2 = "idle" /\ tailIndex'[p] = Wrap(T + 1)
      <4>1. q2 = "idle" /\ tailIndex'[p] = Plus(tailIndex[p], 1)  BY <1>5, <2>2
      <4>2. tailIndex[p] = Wrap(T) /\ 1 \in Nat  BY <1>2 DEF Indices
      <4> QED  BY <4>1, <4>2, Wrapped, Zenon
    <3> PICK t \in Nat : t = T + 1  OBVIOUS
    <3>2. H <= t /\ t <= Base(C) /\ Base(C) <= t + BLOCK_SIZE /\ Base(C) < t + BLOCK_SIZE /\ T <= t
      BY ONLY <1>7, <2>0, t = T + 1, T \in Nat, H \in Nat
    <3>3. Order(q2, t, H, F, S, L, C)
      <4> HIDE DEF q2
      <4> QED  BY <1>7, <3>1, <3>2 DEF Order
    <3> QED  BY <3>1, <3>2, <3>3, Zenon
  <2> QED  BY <1>5, <2>1, <2>2, Zenon
<1>9. Chain(es, q2, L, C, E)  BY <1>2, <1>6, Zenon DEF Chain
<1>10. Hand(hs, es, q2, idxEntry[p], tailBlock[p], T2, C, E)
  BY <1>2, <1>6, <1>7, Zenon DEF Hand
<1>11. Rings(hs, es, q2, L, C, E, N)  BY <1>2, <1>6, Zenon DEF Rings
<1>12. StillRead(consumer, L, hs, es, q, T, N, hs, es, q2, T2, N)
  BY <1>6, Zenon DEF StillRead, TailRead
<1>13. Consuming(consumer, p, hs, es, q2, T2, H, F, S, L, E, N)
  BY <1>2, <1>4, <1>12, NotTurned, ConsumingKept, Zenon
<1>14. Indices(tailIndex'[p], headIndex[p], dequeueOptimisticCount[p], dequeueOvercommit[p],
               T2, H)
  BY <1>2, <1>8, Zenon DEF Indices
<1>15. QueueIs(p, T2, H, F, S, L, C, E, N)'
  BY <1>2, <1>3, <1>8, <1>9, <1>10, <1>11, <1>13, <1>14, Zenon DEF QueueIs
<1>16. Queue(p)'  BY <1>15, Zenon DEF Queue
<1>17. headIndex[p] # tailIndex[p] => headIndex[p] # tailIndex'[p]
  <2>1. Order(q, T, H, F, S, L, C) /\ Order(q2, T2, H, F, S, L, C)  BY <1>2, <1>8, Zenon
  <2> HIDE DEF q, q2
  <2>2. /\ H <= T /\ T - H < Half /\ H <= T2 /\ T2 - H < Half
    BY ONLY <2>1, OrderIs, T \in Nat, T2 \in Nat, H \in Nat, F \in Nat, S \in Nat,
            L \in Nat, C \in Nat
  <2>3. (Wrap(T) = Wrap(H) <=> T = H) /\ (Wrap(T2) = Wrap(H) <=> T2 = H)
    BY ONLY <2>2, SizeIs, T \in Nat, T2 \in Nat, H \in Nat
  <2>4. T <= T2  BY <1>8, Zenon
  <2>5. T # H => T2 # H  BY ONLY <2>2, <2>4, T \in Nat, T2 \in Nat, H \in Nat
  <2>6. tailIndex[p] = Wrap(T) /\ headIndex[p] = Wrap(H)  BY <1>2, Zenon DEF Indices
  <2> QED  BY <1>8, <2>3, <2>5, <2>6, Zenon
<1>18. tailIndex'[p] \in Index  BY <1>8, Wrapped, Zenon
<1> QED  BY <1>16, <1>17, <1>18, Zenon

-----------------------------------------------------------------------------
(* The queue that the consumer works on                                    *)

\* What the code computes of the length of a queue.
LEMMA AvailableIs ==
    ASSUME Types, NEW p \in Producer, Queue(p)
    PROVE  /\ Minus(tailIndex[p], headIndex[p]) \in Nat
           /\ Minus(tailIndex[p], headIndex[p]) < Half
           /\ Available(p) = Minus(tailIndex[p], headIndex[p])
           /\ circular_less_than(0, Available(p)) <=> Available(p) > 0
           /\ Available(p) > 0 <=> headIndex[p] # tailIndex[p]
           /\ circular_less_than(Minus(dequeueOptimisticCount[p], dequeueOvercommit[p]),
                                 tailIndex[p])
                <=> headIndex[p] # tailIndex[p]
           /\ dequeueOvercommit[p] = 0
           /\ size_approx(p) = Available(p)
<1>1. PICK T, H, F, S, L, C \in Nat, E, N \in [Nat -> Nat] : QueueIs(p, T, H, F, S, L, C, E, N)
  BY Zenon DEF Queue
<1>2. /\ tailIndex[p] = Wrap(T) /\ headIndex[p] = Wrap(H)
      /\ dequeueOptimisticCount[p] = Wrap(H) /\ dequeueOvercommit[p] = 0
  BY <1>1, Zenon DEF QueueIs, Indices
<1>3. H <= T /\ T - H < Half
  <2>1. Order(pc[p], T, H, F, S, L, C)  BY <1>1, Parts, Zenon
  <2> QED  BY ONLY <2>1, OrderIs, T \in Nat, H \in Nat, F \in Nat, S \in Nat, L \in Nat, C \in Nat
<1>4. /\ Minus(Wrap(T), Wrap(H)) = T - H
      /\ circular_less_than(Wrap(H), Wrap(T)) <=> H < T
      /\ Minus(Wrap(H), 0) = Wrap(H)
      /\ circular_less_than(0, T - H) <=> H < T
      /\ Wrap(T) = Wrap(H) <=> T = H
  BY ONLY <1>3, SizeIs, T \in Nat, H \in Nat
<1>5. /\ Minus(tailIndex[p], headIndex[p]) = T - H /\ Available(p) = T - H
      /\ size_approx(p) = IF H < T THEN T - H ELSE 0
  BY <1>2, <1>4, Zenon DEF Available, size_approx
<1>6. /\ T - H \in Nat /\ (T - H > 0 <=> H < T)
      /\ (T = H <=> ~(H < T)) /\ (~(H < T) => T - H = 0)
  BY ONLY <1>3, T \in Nat, H \in Nat
<1>7. headIndex[p] # tailIndex[p] <=> H < T
  <2>1. Wrap(H) = Wrap(T) <=> T = H  BY <1>4, Zenon
  <2> QED  BY <1>2, <1>6, <2>1, Zenon
<1>8. circular_less_than(Minus(dequeueOptimisticCount[p], dequeueOvercommit[p]), tailIndex[p])
        <=> headIndex[p] # tailIndex[p]
  BY <1>2, <1>4, <1>7, Zenon
<1> QED  BY <1>2, <1>3, <1>4, <1>5, <1>6, <1>7, <1>8

\* n elements are claimed.
LEMMA ClaimQueue ==
    ASSUME Types, NEW p \in Producer, Queue(p), consumer.pc \notin Work,
           NEW n \in Nat \ {0}, n <= Available(p), Claim(p, n)
    PROVE  Queue(p)'
<1>1. PICK T, H, F, S, L, C \in Nat, E, N \in [Nat -> Nat] : QueueIs(p, T, H, F, S, L, C, E, N)
  BY Zenon DEF Queue
<1> DEFINE hs == headers[p]
           es == entries[p]
           q == pc[p]
<1>2. /\ Indices(tailIndex[p], headIndex[p], dequeueOptimisticCount[p], dequeueOvercommit[p], T, H)
      /\ Order(q, T, H, F, S, L, C)
      /\ Chain(es, q, L, C, E)
      /\ Hand(hs, es, q, idxEntry[p], tailBlock[p], T, C, E)
      /\ Rings(hs, es, q, L, C, E, N)
      /\ Consuming(consumer, p, hs, es, q, T, H, F, S, L, E, N)
      /\ Emptied(es, elementsCompletelyDequeued, S, L, C, E)
  BY <1>1, Parts, Zenon
<1>3. /\ tailIndex' = tailIndex /\ tailBlock' = tailBlock /\ headers' = headers
      /\ entries' = entries /\ pc' = pc /\ idxEntry' = idxEntry
      /\ dequeueOvercommit' = dequeueOvercommit
      /\ elementsCompletelyDequeued' = elementsCompletelyDequeued
  BY Zenon DEF Claim, Producing, queues, blocks
<1>4. S = F /\ F = H /\ S < Base(L) + BLOCK_SIZE  BY <1>2, Zenon DEF Consuming
<1>5. /\ L <= C /\ Base(L) <= S /\ S <= F /\ F <= H /\ H <= T
      /\ T <= Base(C) /\ Base(C) <= T + BLOCK_SIZE
      /\ Base(C) - H < Half /\ H - S < Half
  BY <1>2, Zenon DEF Order
<1>6. BLOCK_SIZE \in Nat \ {0} /\ Base(C) \in Nat /\ Base(L) \in Nat /\ Half \in Nat
  <2>1. BLOCK_SIZE \in Nat \ {0} /\ Half \in Nat  BY ONLY Sizes
  <2> QED  BY <2>1, Bases, Zenon
<1>7. tailIndex[p] = Wrap(T) /\ headIndex[p] = Wrap(H) /\ dequeueOptimisticCount[p] = Wrap(H)
      /\ dequeueOvercommit[p] = 0
  BY <1>2, Zenon DEF Indices
<1>8. n <= T - H /\ T - H < Half
  <2>1. H <= T /\ T - H < Half
    BY ONLY <1>5, <1>6, T \in Nat, H \in Nat
  <2>2. Minus(Wrap(T), Wrap(H)) = T - H  BY ONLY <2>1, SizeIs, T \in Nat, H \in Nat
  <2>3. Available(p) = T - H  BY <1>7, <2>2, AvailableIs, Zenon
  <2> QED  BY <2>1, <2>3, Zenon
<1>9. PICK H2 \in Nat : H2 = H + n  OBVIOUS
<1>10. H < H2 /\ H2 <= T /\ Base(C) - H2 < Half /\ H2 - S < Half
  BY ONLY <1>4, <1>5, <1>6, <1>8, <1>9, T \in Nat, H \in Nat, n \in Nat \ {0}, H2 \in Nat
<1>11. Order(q, T, H2, F, S, L, C)
  <2>1. q \in {"slot", "grow", "insert"} => T = Base(C) /\ Base(C) + BLOCK_SIZE - H2 < Half
    <3>1. q \in {"slot", "grow", "insert"} => T = Base(C) /\ Base(C) + BLOCK_SIZE - H < Half
      BY <1>2, Zenon DEF Order
    <3>2. Base(C) + BLOCK_SIZE - H < Half => Base(C) + BLOCK_SIZE - H2 < Half
      BY ONLY <1>6, <1>10, H \in Nat, H2 \in Nat
    <3> QED  BY <3>1, <3>2, Zenon
  <2>2. /\ q \in {"construct", "commit"} => T < Base(C)
        /\ q = "block" => Base(C) = T + BLOCK_SIZE
        /\ q = "idle" => Base(C) < T + BLOCK_SIZE
    BY <1>2, Zenon DEF Order
  <2>3. F <= H2  BY ONLY <1>4, <1>10, H \in Nat, H2 \in Nat
  <2> QED  BY <1>5, <1>10, <2>1, <2>2, <2>3, Zenon DEF Order
<1>12. headIndex'[p] = Wrap(H2) /\ dequeueOptimisticCount'[p] = Wrap(H2)
  <2>1. headIndex \in [Producer -> Index] /\ dequeueOptimisticCount \in [Producer -> Index]
    BY Zenon DEF Types
  <2>2. Plus(Wrap(H), n) = Wrap(H + n)
    <3>1. n \in Nat  OBVIOUS
    <3> QED  BY <3>1, Wrapped, Zenon
  <2>3. /\ headIndex' = [headIndex EXCEPT ![p] = Plus(@, n)]
        /\ dequeueOptimisticCount' = [dequeueOptimisticCount EXCEPT ![p] = Plus(@, n)]
    BY Zenon DEF Claim, CountClaims, MoveHead
  <2> QED  BY <1>7, <1>9, <2>1, <2>2, <2>3, Zenon
<1>13. /\ consumer'.pc = "index" /\ consumer'.best = p /\ consumer'.index = Wrap(F)
       /\ consumer'.start = Wrap(S) /\ consumer'.end = Wrap(H2)
  <2>1. consumer \in Calls  BY TypesOf, Zenon
  <2>2. /\ consumer'.pc = "index" /\ consumer'.best = p /\ consumer'.index = headIndex[p]
        /\ consumer'.start = headIndex[p] /\ consumer'.end = Plus(headIndex[p], n)
    BY <2>1 DEF Claim, Calls
  <2>3. Plus(Wrap(H), n) = Wrap(H + n)
    <3>1. n \in Nat  OBVIOUS
    <3> QED  BY <3>1, Wrapped, Zenon
  <2> QED  BY <1>4, <1>7, <1>9, <2>2, <2>3, Zenon
<1>14. Consuming(consumer', p, hs, es, q, T, H2, F, S, L, E, N)
  <2>1. F < H2  BY ONLY <1>4, <1>10
  <2>2. Working(consumer', hs, es, q, T, H2, F, S, L, E, N)
    <3> HIDE DEF hs, es, q
    <3>0. PICK c : c = consumer'  OBVIOUS
    <3>1. c.pc = "index" /\ c.index = Wrap(F) /\ c.start = Wrap(S) /\ c.end = Wrap(H2)
      BY <1>13, <3>0, Zenon
    <3>2. Working(c, hs, es, q, T, H2, F, S, L, E, N)
      BY ONLY <1>4, <2>1, <3>1 DEF Working
    <3> QED  BY <3>0, <3>2, Zenon
  <2>3. "index" \in Work  BY DEF Work
  <2> QED  BY <1>13, <2>2, <2>3, Zenon DEF Consuming
<1>15. QueueIs(p, T, H2, F, S, L, C, E, N)'
  <2>1. Indices(tailIndex[p], headIndex'[p], dequeueOptimisticCount'[p], dequeueOvercommit[p],
                T, H2)
    BY <1>7, <1>12, Zenon DEF Indices
  <2> QED  BY <1>2, <1>3, <1>11, <1>14, <2>1, Zenon DEF QueueIs
<1> QED  BY <1>15, Zenon DEF Queue

\* Two entries never have the same block.
Distinct(es) ==
  \A e, f \in DOMAIN es : es[e].value # null /\ es[e].value = es[f].value => e = f

\* There are no more blocks in a block index than there are blocks.
LEMMA LiveBlocks ==
    ASSUME NEW es \in Seq(Entry), NEW q, NEW L \in Nat, NEW C \in Nat, NEW E,
           Chain(es, q, L, C, E), Distinct(es),
           NEW k \in Nat, L <= k, k <= C, q = "block" => k < C
    PROVE  Base(k) - Base(L) <= IndexRange \div 2
<1> DEFINE f == [m \in L .. k - 1 |-> es[E[m]].value]
<1>1. \A m \in L .. k - 1 : m \in L .. C - 1 /\ (q = "block" => m # C - 1)
  BY ONLY L \in Nat, k \in Nat, C \in Nat, k <= C, q = "block" => k < C
<1>2. \A m \in L .. k - 1 : E[m] \in DOMAIN es /\ es[E[m]].value # null
  BY <1>1, Zenon DEF Chain
<1>3. \A m \in L .. k - 1 : es[E[m]].value \in Block
  <2> SUFFICES ASSUME NEW m \in L .. k - 1 PROVE es[E[m]].value \in Block  OBVIOUS
  <2>1. es[E[m]] \in Entry  BY <1>2, ElementOfSeq, LenProperties, Zenon
  <2>2. es[E[m]].value \in BlockOrNull  BY <2>1 DEF Entry
  <2> QED  BY <1>2, <2>2, Zenon DEF BlockOrNull
<1>4. f \in [L .. k - 1 -> Block]  BY <1>3, Zenon
<1>5. \A m, n \in L .. k - 1 : f[m] = f[n] => m = n
  <2> SUFFICES ASSUME NEW m \in L .. k - 1, NEW n \in L .. k - 1, f[m] = f[n] PROVE m = n
    BY Zenon
  <2>1. E[m] = E[n]  BY <1>2, Zenon DEF Distinct
  <2> QED  BY <1>1, <2>1, Zenon DEF Chain
<1>6. f \in Injection(L .. k - 1, Block)
  <2> HIDE DEF f
  <2> QED  BY <1>4, <1>5, Zenon DEF Injection, IsInjective
<1>7. IsFiniteSet(Block) /\ Cardinality(Block) = InitialPool + Heap
  <2>1. InitialPool + Heap \in Nat  BY Sizes
  <2>2. 1 \in Int /\ InitialPool + Heap \in Int  BY <2>1
  <2>3. /\ IsFiniteSet(1 .. InitialPool + Heap)
        /\ Cardinality(1 .. InitialPool + Heap)
             = IF 1 > InitialPool + Heap THEN 0 ELSE (InitialPool + Heap) - 1 + 1
    BY <2>2, FS_Interval, Zenon
  <2> QED  BY <2>1, <2>3 DEF Block
<1>8. Cardinality(L .. k - 1) = k - L
  <2>1. L \in Int /\ k - 1 \in Int  OBVIOUS
  <2>2. Cardinality(L .. k - 1) = IF L > k - 1 THEN 0 ELSE (k - 1) - L + 1
    BY <2>1, FS_Interval, Zenon
  <2> QED  BY ONLY <2>2, L \in Nat, k \in Nat, L <= k
<1>9. k - L <= InitialPool + Heap
  <2> HIDE DEF f
  <2>1. Cardinality(L .. k - 1) <= Cardinality(Block)  BY <1>6, <1>7, FS_Injection, Zenon
  <2> QED  BY <1>7, <1>8, <2>1, Zenon
<1>10. PICK d \in Nat : d = k - L  BY ONLY L \in Nat, k \in Nat, L <= k
<1>11. PICK n \in Nat : n = InitialPool + Heap  BY Sizes
<1>12. Base(k) - Base(L) = Base(d)  BY <1>10, Bases, Zenon
<1>13. Base(d) <= Base(n) /\ d <= n  BY <1>9, <1>10, <1>11, Bases, Zenon
<1>14. Base(n) <= IndexRange \div 2
  <2>1. BLOCK_SIZE * (InitialPool + Heap) <= IndexRange \div 2 /\ BLOCK_SIZE \in Nat
    BY ONLY Sizes
  <2>2. n * BLOCK_SIZE = BLOCK_SIZE * n  BY ONLY <2>1, n \in Nat
  <2> QED  BY <1>11, <2>1, <2>2, Zenon DEF Base
<1>15. Base(d) \in Nat /\ Base(n) \in Nat /\ IndexRange \div 2 \in Nat
  <2>1. IndexRange \div 2 \in Nat  BY ONLY Sizes
  <2> QED  BY <2>1, Bases, Zenon
<1>16. Base(d) <= IndexRange \div 2  BY ONLY <1>13, <1>14, <1>15
<1> QED  BY <1>12, <1>16, Zenon

\* A step that changes nothing but the consumer.
LEMMA OnlyConsumer ==
    ASSUME NEW p \in Producer, NEW T \in Nat, NEW H \in Nat, NEW F \in Nat, NEW S \in Nat,
           NEW L \in Nat, NEW C \in Nat, NEW E \in [Nat -> Nat], NEW N \in [Nat -> Nat],
           QueueIs(p, T, H, F, S, L, C, E, N),
           UNCHANGED <<Producing, dequeued, elementsCompletelyDequeued>>,
           Consuming(consumer', p, headers[p], entries[p], pc[p], T, H, F, S, L, E, N)
    PROVE  Queue(p)'
<1>1. /\ tailIndex' = tailIndex /\ tailBlock' = tailBlock /\ headers' = headers
      /\ entries' = entries /\ pc' = pc /\ idxEntry' = idxEntry /\ headIndex' = headIndex
      /\ dequeueOptimisticCount' = dequeueOptimisticCount
      /\ dequeueOvercommit' = dequeueOvercommit
      /\ elementsCompletelyDequeued' = elementsCompletelyDequeued
  BY Zenon DEF Producing, queues, dequeued
<1>2. QueueIs(p, T, H, F, S, L, C, E, N)'  BY <1>1, Zenon DEF QueueIs
<1> QED  BY <1>2, Zenon DEF Queue

\* The consumer at work and what it knows.
LEMMA AtWork ==
    ASSUME NEW p \in Producer, NEW T \in Nat, NEW H \in Nat, NEW F \in Nat, NEW S \in Nat,
           NEW L \in Nat, NEW C \in Nat, NEW E \in [Nat -> Nat], NEW N \in [Nat -> Nat],
           QueueIs(p, T, H, F, S, L, C, E, N), headers[p] \in Seq(Header),
           consumer.pc \in Work, consumer.best = p
    PROVE  /\ Working(consumer, headers[p], entries[p], pc[p], T, H, F, S, L, E, N)
           /\ Order(pc[p], T, H, F, S, L, C)
           /\ Chain(entries[p], pc[p], L, C, E)
           /\ Rings(headers[p], entries[p], pc[p], L, C, E, N)
           /\ \A j \in 1 .. Len(headers[p]) : N[j] \in Nat /\ N[j] <= C
           /\ \A j \in 1 .. Len(headers[p]) : headers[p][j] \in Header
<1>1. /\ Working(consumer, headers[p], entries[p], pc[p], T, H, F, S, L, E, N)
      /\ Order(pc[p], T, H, F, S, L, C) /\ Chain(entries[p], pc[p], L, C, E)
      /\ Rings(headers[p], entries[p], pc[p], L, C, E, N)
  BY Zenon DEF QueueIs, Consuming
<1>2. ASSUME NEW j \in 1 .. Len(headers[p]) PROVE N[j] \in Nat /\ N[j] <= C
  <2>1. Len(headers[p]) \in Nat  BY HeadersAre, Zenon
  <2>2. 1 .. Len(headers[p]) \subseteq Nat  BY <2>1, Beyond, Zenon
  <2>3. PICK k \in Nat : k = N[j]  BY <2>2, Zenon
  <2>4. k = C \/ k <= C  BY <1>1, <2>3, Zenon DEF Rings
  <2>5. k <= C  BY ONLY <2>4, k \in Nat, C \in Nat
  <2> QED  BY <2>3, <2>5, Zenon
<1>3. \A j \in 1 .. Len(headers[p]) : headers[p][j] \in Header  BY HeadersAre, Zenon
<1> QED  BY <1>1, <1>2, <1>3, Zenon

LEMMA EarlierBlock ==
    ASSUME NEW m \in Nat, NEW n \in Nat, Base(m) < Base(n)
    PROVE  m < n
<1>1. Base(m) \in Nat /\ Base(n) \in Nat  BY Bases, Zenon
<1>2. CASE n <= m
  <2>1. Base(n) <= Base(m)  BY <1>2, Bases, Zenon
  <2> QED  BY <1>1, <2>1
<1> QED  BY <1>2

LEMMA ReadIndexQueue ==
    ASSUME Types, NEW p \in Producer, Queue(p), consumer.best = p, ReadIndex
    PROVE  Queue(p)'
<1>1. PICK T, H, F, S, L, C \in Nat, E, N \in [Nat -> Nat] : QueueIs(p, T, H, F, S, L, C, E, N)
  BY Zenon DEF Queue
<1> DEFINE hs == headers[p]
           es == entries[p]
           q == pc[p]
<1>2. hs \in Seq(Header) /\ consumer \in Calls  BY TypesOf, Zenon
<1>3. consumer.pc = "index" /\ consumer.pc \in Work  BY DEF ReadIndex, At, Work
<1>4. /\ Working(consumer, hs, es, q, T, H, F, S, L, E, N)
      /\ Order(q, T, H, F, S, L, C) /\ Rings(hs, es, q, L, C, E, N)
  BY <1>1, <1>2, <1>3, AtWork, Zenon
<1>5. /\ consumer.index = Wrap(F) /\ consumer.end = Wrap(H) /\ consumer.start = Wrap(S)
      /\ S = F /\ F < H /\ S < Base(L) + BLOCK_SIZE
  <2> PICK c : c = consumer  OBVIOUS
  <2> HIDE DEF hs, es, q
  <2>1. Working(c, hs, es, q, T, H, F, S, L, E, N) /\ c.pc = "index"  BY <1>3, <1>4, Zenon
  <2>2. /\ c.index = Wrap(F) /\ c.end = Wrap(H) /\ c.start = Wrap(S)
        /\ S = F /\ F < H /\ S < Base(L) + BLOCK_SIZE
    BY ONLY <2>1 DEF Working
  <2> QED  BY <2>2, Zenon
<1>6. H <= Base(C) /\ C # 0
  <2>1. H <= T /\ T <= Base(C)  BY <1>4, Zenon DEF Order
  <2>2. Base(0) = 0 /\ Base(C) \in Nat  BY Bases, Zenon
  <2>3. H <= Base(C) /\ Base(C) # 0
    BY ONLY <1>5, <2>1, <2>2, T \in Nat, H \in Nat, F \in Nat
  <2> QED  BY <2>2, <2>3, Zenon
<1>7. Len(hs) \in 1 .. Len(hs) /\ N[Len(hs)] = C
  <2>1. hs # <<>>
    <3>1. hs = <<>> => C = 0  BY <1>1, Zenon DEF QueueIs, Hand
    <3> QED  BY <1>6, <3>1, Zenon
  <2>2. Len(hs) \in 1 .. Len(hs)  BY <1>2, <2>1, HeadersAre, Zenon
  <2> QED  BY <1>4, <2>2, Zenon DEF Rings
<1>8. /\ consumer'.pc = "tail" /\ consumer'.best = p /\ consumer'.localBlockIndex = Len(hs)
      /\ consumer'.index = Wrap(F) /\ consumer'.end = Wrap(H) /\ consumer'.start = Wrap(S)
  BY <1>2, <1>5 DEF ReadIndex, Calls
<1>9. Consuming(consumer', p, hs, es, q, T, H, F, S, L, E, N)
  <2> PICK c : c = consumer'  OBVIOUS
  <2> HIDE DEF hs, es, q
  <2>1. /\ c.pc = "tail" /\ c.localBlockIndex = Len(hs)
        /\ c.index = Wrap(F) /\ c.end = Wrap(H) /\ c.start = Wrap(S)
    BY <1>8, Zenon
  <2>2. H <= Base(N[Len(hs)])  BY <1>6, <1>7, Zenon
  <2>3. Working(c, hs, es, q, T, H, F, S, L, E, N)
    BY ONLY <1>5, <1>7, <2>1, <2>2 DEF Working
  <2>4. "tail" \in Work  BY DEF Work
  <2> QED  BY <1>8, <2>3, <2>4, Zenon DEF Consuming
<1>10. UNCHANGED <<Producing, dequeued, elementsCompletelyDequeued>>
  BY Zenon DEF ReadIndex, blocks
<1> QED  BY <1>1, <1>9, <1>10, OnlyConsumer, Zenon

LEMMA ReadTailQueue ==
    ASSUME Types, NEW p \in Producer, Queue(p), consumer.best = p, ReadTail
    PROVE  Queue(p)' /\ consumer.localBlockIndex \in 1 .. Len(headers[p])
<1>1. PICK T, H, F, S, L, C \in Nat, E, N \in [Nat -> Nat] : QueueIs(p, T, H, F, S, L, C, E, N)
  BY Zenon DEF Queue
<1> DEFINE hs == headers[p]
           es == entries[p]
           q == pc[p]
           j == consumer.localBlockIndex
<1>2. hs \in Seq(Header) /\ consumer \in Calls  BY TypesOf, Zenon
<1>3. consumer.pc = "tail" /\ consumer.pc \in Work  BY DEF ReadTail, At, Work
<1>4. /\ Working(consumer, hs, es, q, T, H, F, S, L, E, N)
      /\ Order(q, T, H, F, S, L, C) /\ Rings(hs, es, q, L, C, E, N)
      /\ \A i \in 1 .. Len(headers[p]) : N[i] \in Nat /\ N[i] <= C
      /\ \A i \in 1 .. Len(headers[p]) : headers[p][i] \in Header
  BY <1>1, <1>2, <1>3, AtWork, Zenon
<1>5. /\ consumer.index = Wrap(F) /\ consumer.end = Wrap(H) /\ consumer.start = Wrap(S)
      /\ S = F /\ F < H /\ S < Base(L) + BLOCK_SIZE
      /\ j \in 1 .. Len(hs) /\ H <= Base(N[j])
  <2> PICK c : c = consumer  OBVIOUS
  <2> HIDE DEF hs, es, q
  <2>1. Working(c, hs, es, q, T, H, F, S, L, E, N) /\ c.pc = "tail"  BY <1>3, <1>4, Zenon
  <2>2. /\ c.index = Wrap(F) /\ c.end = Wrap(H) /\ c.start = Wrap(S)
        /\ S = F /\ F < H /\ S < Base(L) + BLOCK_SIZE
        /\ c.localBlockIndex \in 1 .. Len(hs) /\ H <= Base(N[c.localBlockIndex])
    BY ONLY <2>1 DEF Working
  <2> QED  BY <2>2, Zenon
<1>6. PICK n \in Nat : n = N[j]  BY <1>4, <1>5, Zenon
<1>7. PICK k \in Nat : k = n - 1 /\ L <= k /\ k <= n /\ k # n /\ (n - 1) - k = 0
  <2>1. Base(L) <= S  BY <1>4, Zenon DEF Order
  <2>2. Base(L) \in Nat /\ Base(n) \in Nat  BY Bases, Zenon
  <2>3. Base(L) < Base(n)
    <3>1. H <= Base(n)  BY <1>5, <1>6, Zenon
    <3> QED  BY ONLY <1>5, <2>1, <2>2, <3>1, H \in Nat, F \in Nat, S \in Nat
  <2>4. L < n  BY ONLY <2>3, EarlierBlock, L \in Nat, n \in Nat
  <2>5. n - 1 \in Nat /\ L <= n - 1 /\ n - 1 <= n /\ n - 1 # n /\ (n - 1) - (n - 1) = 0
    BY ONLY <2>4, n \in Nat, L \in Nat
  <2> QED  BY <2>5, Zenon
<1>8. PICK h \in Header : h = hs[j]  BY <1>4, <1>5, Zenon
<1>9. h.tail = Position(h, 0) /\ h.tail \in Nat
  <2>1. Ring(h, es, L, n, E)  BY <1>4, <1>5, <1>6, <1>8, Zenon DEF Rings
  <2>2. h.tail \in 0 .. h.capacity - 1  BY <2>1, Zenon DEF Ring
  <2> PICK cap \in Nat \ {0} : cap = h.capacity  BY DEF Header
  <2> PICK t \in Nat : t = h.tail  BY DEF Header
  <2>3. t \in 0 .. cap - 1 /\ t - 0 = t /\ t \in Int
    <3>1. t \in 0 .. cap - 1  BY <2>2, Zenon
    <3>2. t - 0 = t /\ t \in Int  BY ONLY t \in Nat
    <3> QED  BY <3>1, <3>2
  <2>4. t % cap = t  BY ONLY <2>3, cap \in Nat \ {0}, Small
  <2>5. (t - 0) % cap = t  BY <2>3, <2>4, Zenon
  <2> QED  BY <2>5, Zenon DEF Position
<1>10. /\ consumer'.pc = "find" /\ consumer'.best = p /\ consumer'.localBlockIndex = j
       /\ consumer'.index = Wrap(F) /\ consumer'.end = Wrap(H) /\ consumer'.start = Wrap(S)
       /\ consumer'.tail = h.tail
  <2>1. consumer' = [consumer EXCEPT !.pc = "find", !.tail = h.tail]
    BY <1>8, Zenon DEF ReadTail
  <2> QED  BY <1>2, <1>5, <2>1 DEF Calls
<1>11. TailRead(consumer', h, j = Len(hs), es, q, T, n, k)
  <2>1. consumer'.tail = Position(h, (n - 1) - k)  BY <1>7, <1>9, <1>10, Zenon
  <2> QED  BY <1>7, <2>1, Zenon DEF TailRead
<1>12. Consuming(consumer', p, hs, es, q, T, H, F, S, L, E, N)
  <2> PICK c : c = consumer'  OBVIOUS
  <2> HIDE DEF hs, es, q
  <2>1. /\ c.pc = "find" /\ c.localBlockIndex = j
        /\ c.index = Wrap(F) /\ c.end = Wrap(H) /\ c.start = Wrap(S)
    BY <1>10, Zenon
  <2>2. L <= k /\ TailRead(c, hs[j], j = Len(hs), es, q, T, N[j], k)
    BY <1>6, <1>7, <1>8, <1>11, Zenon
  <2>3. \E x \in Nat : L <= x /\ TailRead(c, hs[j], j = Len(hs), es, q, T, N[j], x)
    BY <2>2, Zenon
  <2> HIDE DEF j
  <2>4. Working(c, hs, es, q, T, H, F, S, L, E, N)
    BY ONLY <1>5, <2>1, <2>3 DEF Working
  <2>5. "find" \in Work  BY DEF Work
  <2> QED  BY <1>10, <2>4, <2>5, Zenon DEF Consuming
<1>13. UNCHANGED <<Producing, dequeued, elementsCompletelyDequeued>>
  BY Zenon DEF ReadTail, blocks
<1>14. Queue(p)'  BY <1>1, <1>12, <1>13, OnlyConsumer, Zenon
<1> QED  BY <1>5, <1>14, Zenon

\* The ring is turned back from the tail by the number of blocks between.
IsTurned(h, n, t, k, d, L) ==
  t = Position(h, (n - 1) - k) => (t + d) % h.capacity = Position(h, (n - 1) - L)

LEMMA TurnedBack ==
    ASSUME NEW h \in Header, NEW t, NEW n \in Nat, NEW k \in Nat, NEW L \in Nat,
           NEW d, d = L - k
    PROVE  IsTurned(h, n, t, k, d, L)
<1>0. SUFFICES ASSUME t = Position(h, (n - 1) - k)
               PROVE  (t + d) % h.capacity = Position(h, (n - 1) - L)
  BY Zenon DEF IsTurned
<1>1. PICK cap \in Nat \ {0} : cap = h.capacity  BY DEF Header
<1>2. PICK z \in Int : z = h.tail  BY DEF Header
<1>3. PICK x \in Int : x = z - ((n - 1) - k)  OBVIOUS
<1>4. PICK y \in Int : y = L - k /\ y = d  BY ONLY L \in Nat, k \in Nat, d = L - k
<1>5. ((x % cap) + y) % cap = (x + y) % cap
  BY ONLY x \in Int, y \in Int, cap \in Nat \ {0}, Differ, Zenon
<1>6. x + y = z - ((n - 1) - L)
  BY ONLY <1>3, <1>4, z \in Int, n \in Nat, k \in Nat, L \in Nat
<1>7. t = x % cap  BY <1>0, <1>1, <1>2, <1>3, Zenon DEF Position
<1> QED  BY <1>1, <1>2, <1>4, <1>5, <1>6, <1>7, Zenon DEF Position

\* What the consumer finds in block index h, the first block that is left.
Found(p, h, n, L, E) ==
  /\ h \in Header /\ n \in Nat /\ L < n
  /\ entries[p][h.index[consumer.tail + 1]].key # INVALID_BLOCK_BASE
  /\ IndexIndex(consumer) = Position(h, (n - 1) - L)
  /\ EntryBefore(h, (n - 1) - L) = E[L]
  /\ E[L] \in DOMAIN entries[p]
  /\ entries[p][E[L]].key = BlockStart(consumer.index)
  /\ entries[p][E[L]].value # null

LEMMA FoundIs ==
    ASSUME Types, NEW p \in Producer, NEW T \in Nat, NEW H \in Nat, NEW F \in Nat,
           NEW S \in Nat, NEW L \in Nat, NEW C \in Nat, NEW E \in [Nat -> Nat],
           NEW N \in [Nat -> Nat], QueueIs(p, T, H, F, S, L, C, E, N),
           Distinct(entries[p]), consumer.pc = "find", consumer.best = p
    PROVE  Found(p, headers[p][consumer.localBlockIndex], N[consumer.localBlockIndex], L, E)
<1>h. PICK h : h = headers[p][consumer.localBlockIndex]  OBVIOUS
<1>n. PICK n : n = N[consumer.localBlockIndex]  OBVIOUS
<1> DEFINE hs == headers[p]
           es == entries[p]
           q == pc[p]
           j == consumer.localBlockIndex
<1>2. hs \in Seq(Header) /\ es \in Seq(Entry)  BY TypesOf, Zenon
<1>3. consumer.pc \in Work  BY DEF Work
<1>4. /\ Working(consumer, hs, es, q, T, H, F, S, L, E, N)
      /\ Order(q, T, H, F, S, L, C) /\ Chain(es, q, L, C, E) /\ Rings(hs, es, q, L, C, E, N)
      /\ \A i \in 1 .. Len(headers[p]) : N[i] \in Nat /\ N[i] <= C
      /\ \A i \in 1 .. Len(headers[p]) : headers[p][i] \in Header
  BY <1>2, <1>3, AtWork, Zenon
<1>5. /\ consumer.index = Wrap(F) /\ S = F /\ F < H /\ S < Base(L) + BLOCK_SIZE
      /\ j \in 1 .. Len(hs) /\ H <= Base(N[j])
  <2> PICK c : c = consumer  OBVIOUS
  <2> HIDE DEF hs, es, q
  <2>1. Working(c, hs, es, q, T, H, F, S, L, E, N) /\ c.pc = "find"  BY <1>4, Zenon
  <2>2. /\ c.index = Wrap(F) /\ S = F /\ F < H /\ S < Base(L) + BLOCK_SIZE
        /\ c.localBlockIndex \in 1 .. Len(hs) /\ H <= Base(N[c.localBlockIndex])
    BY ONLY <2>1 DEF Working
  <2> QED  BY <2>2, Zenon
<1>6. PICK k \in Nat : L <= k /\ TailRead(consumer, h, j = Len(hs), es, q, T, n, k)
  BY <1>4, <1>h, <1>n, Zenon DEF Working
<1>7. h \in Header /\ n \in Nat /\ n <= C  BY <1>4, <1>5, <1>h, <1>n, Zenon
<1>8. /\ L <= C /\ Base(L) <= S /\ S <= F /\ F <= H /\ H <= T /\ T <= Base(C)
      /\ q = "block" => Base(C) = T + BLOCK_SIZE
  BY <1>4, Zenon DEF Order
<1>0. S = F /\ F < H /\ S < Base(L) + BLOCK_SIZE /\ Base(L) <= S /\ H <= T
  BY <1>5, <1>8, Zenon
<1>9. Base(L) \in Nat /\ Base(n) \in Nat /\ Base(C) \in Nat /\ BLOCK_SIZE \in Nat \ {0}
  BY <1>7, Bases, Sizes, Zenon
<1>10. L < n
  <2>1. H <= Base(n)  BY <1>5, <1>n, Zenon
  <2>2. Base(L) < Base(n)
    BY ONLY <1>0, <1>9, <2>1, H \in Nat, F \in Nat, S \in Nat
  <2> QED  BY <1>7, <2>2, EarlierBlock, Zenon
<1>11. L \in L .. n - 1 /\ L \in L .. C - 1 /\ \A m \in L .. n - 1 : m \in L .. C - 1
  BY ONLY <1>7, <1>10, L \in Nat, C \in Nat
<1>12. Ring(h, es, L, n, E)  BY <1>4, <1>5, <1>h, <1>n, Zenon DEF Rings
<1>13. EntryBefore(h, (n - 1) - L) = E[L]  BY <1>11, <1>12, Zenon DEF Ring
<1>14. E[L] \in DOMAIN es /\ es[E[L]].key = Wrap(Base(L))  BY <1>4, <1>11, Zenon DEF Chain
<1>15. es[E[L]].value # null
  <2>1. ~(q = "block" /\ L = C - 1)
    <3> SUFFICES ASSUME q = "block", L = C - 1 PROVE FALSE  BY Zenon
    <3>1. C = L + 1  BY ONLY L = C - 1, C \in Nat
    <3>2. Base(C) = Base(L) + BLOCK_SIZE  BY <3>1, Bases, Zenon
    <3>3. Base(C) = T + BLOCK_SIZE  BY <1>8, Zenon
    <3> QED  BY ONLY <1>0, <1>9, <3>2, <3>3, T \in Nat, H \in Nat, F \in Nat, S \in Nat
  <2> QED  BY <1>4, <1>11, <2>1, Zenon DEF Chain
<1>16. BlockStart(consumer.index) = Wrap(Base(L))
  <2> PICK i \in Int : i = F - Base(L)  BY <1>9
  <2>1. i \in 0 .. BLOCK_SIZE - 1 /\ F = Base(L) + i
    BY ONLY <1>0, <1>9, i = F - Base(L), F \in Nat, S \in Nat
  <2>2. BlockStart(Wrap(F)) = Wrap(Base(L))  BY ONLY <2>1, InBlock, L \in Nat
  <2> QED  BY <1>5, <2>2, Zenon
<1>17. es[h.index[consumer.tail + 1]].key = Wrap(Base(k))
  <2>1. consumer.tail = Position(h, (n - 1) - k) /\ k <= n  BY <1>6, Zenon DEF TailRead
  <2>2. h.index[consumer.tail + 1] = EntryBefore(h, (n - 1) - k)
    BY <2>1, Zenon DEF EntryBefore
  <2>3. CASE k = n  BY <1>6, <2>2, <2>3, Zenon DEF TailRead
  <2>4. CASE k # n
    <3>1. k \in L .. n - 1
      <4>1. L <= k  BY <1>6, Zenon
      <4> QED  BY ONLY <1>7, <2>1, <2>4, <4>1, k \in Nat, L \in Nat
    <3>2. EntryBefore(h, (n - 1) - k) = E[k]  BY <1>12, <3>1, Zenon DEF Ring
    <3>3. es[E[k]].key = Wrap(Base(k))  BY <1>4, <1>11, <3>1, Zenon DEF Chain
    <3> QED  BY <2>2, <3>2, <3>3, Zenon
  <2> QED  BY <2>3, <2>4, Zenon
<1>18. L <= k /\ k <= C /\ (q = "block" => k < C)
  <2>1. L <= k /\ k <= n /\ (k = n => q \in {"idle", "slot", "insert"})
    BY <1>6, Zenon DEF TailRead
  <2>2. q = "block" => k # n  BY ONLY <2>1
  <2> QED  BY ONLY <1>7, <2>1, <2>2, k \in Nat, C \in Nat
<1>19. Base(k) - Base(L) <= IndexRange \div 2
  <2> HIDE DEF es, q
  <2>1. Distinct(es)  BY Zenon DEF es
  <2> QED  BY ONLY <1>2, <1>4, <1>18, <2>1, LiveBlocks, k \in Nat, L \in Nat, C \in Nat, Zenon
<1>20. IndexIndex(consumer) = (consumer.tail + (L - k)) % h.capacity
  <2>1. Signed(Minus(Wrap(Base(L)), Wrap(Base(k)))) \div BLOCK_SIZE = L - k
    BY ONLY <1>18, <1>19, BlocksBehind, k \in Nat, L \in Nat
  <2> QED  BY <1>16, <1>17, <1>h, <2>1, Zenon DEF IndexIndex
<1>21. IndexIndex(consumer) = Position(h, (n - 1) - L)
  <2>1. consumer.tail = Position(h, (n - 1) - k)  BY <1>6, Zenon DEF TailRead
  <2>2. (consumer.tail + (L - k)) % h.capacity = Position(h, (n - 1) - L)
    <3>1. PICK d : d = L - k  OBVIOUS
    <3>2. (consumer.tail + d) % h.capacity = Position(h, (n - 1) - L)
      <4>1. IsTurned(h, n, consumer.tail, k, d, L)  BY <1>7, <3>1, TurnedBack, Zenon
      <4> QED  BY <2>1, <4>1, Zenon DEF IsTurned
    <3> QED  BY <3>1, <3>2, Zenon
  <2> QED  BY <1>20, <2>2, Zenon
<1>22. es[h.index[consumer.tail + 1]].key # INVALID_BLOCK_BASE  BY <1>17, KeyValid, Zenon
<1>23. Found(p, h, n, L, E)
  BY <1>7, <1>10, <1>13, <1>14, <1>15, <1>16, <1>21, <1>22, Zenon DEF Found
<1> QED  BY <1>23, <1>h, <1>n, Zenon

LEMMA FindBlockQueue ==
    ASSUME Types, NEW p \in Producer, Queue(p), Distinct(entries[p]), consumer.best = p,
           FindBlock
    PROVE  /\ Queue(p)' /\ consumer'.indexIndex \in Nat /\ consumer'.block \in BlockOrNull
           /\ consumer'.pc = "take" /\ consumer'.best = p
<1>1. PICK T, H, F, S, L, C \in Nat, E, N \in [Nat -> Nat] : QueueIs(p, T, H, F, S, L, C, E, N)
  BY Zenon DEF Queue
<1> DEFINE hs == headers[p]
           es == entries[p]
           q == pc[p]
           j == consumer.localBlockIndex
<1>2. hs \in Seq(Header) /\ es \in Seq(Entry) /\ consumer \in Calls  BY TypesOf, Zenon
<1>3. consumer.pc = "find" /\ consumer.pc \in Work  BY DEF FindBlock, At, Work
<1>4. Working(consumer, hs, es, q, T, H, F, S, L, E, N)  BY <1>1, <1>2, <1>3, AtWork, Zenon
<1>5. /\ consumer.index = Wrap(F) /\ consumer.end = Wrap(H) /\ consumer.start = Wrap(S)
      /\ S = F /\ F < H /\ S < Base(L) + BLOCK_SIZE
      /\ j \in 1 .. Len(hs) /\ H <= Base(N[j])
  <2> PICK c : c = consumer  OBVIOUS
  <2> HIDE DEF hs, es, q
  <2>1. Working(c, hs, es, q, T, H, F, S, L, E, N) /\ c.pc = "find"  BY <1>3, <1>4, Zenon
  <2>2. /\ c.index = Wrap(F) /\ c.end = Wrap(H) /\ c.start = Wrap(S)
        /\ S = F /\ F < H /\ S < Base(L) + BLOCK_SIZE
        /\ c.localBlockIndex \in 1 .. Len(hs) /\ H <= Base(N[c.localBlockIndex])
    BY ONLY <2>1 DEF Working
  <2> QED  BY <2>2, Zenon
<1>6. PICK h, n : h = hs[j] /\ n = N[j]  BY Zenon
<1>7. /\ h \in Header /\ n \in Nat /\ IndexIndex(consumer) = Position(h, (n - 1) - L)
      /\ EntryBefore(h, (n - 1) - L) = E[L] /\ E[L] \in DOMAIN es
  <2>1. Found(p, hs[j], N[j], L, E)  BY <1>1, <1>3, FoundIs, Zenon
  <2> QED  BY <1>6, <2>1, Zenon DEF Found
<1>8. PICK i : i = Position(h, (n - 1) - L)  OBVIOUS
<1>9. i \in Nat /\ h.index[i + 1] = E[L]
  <2>1. (n - 1) - L \in Int  BY ONLY <1>7, L \in Nat
  <2> QED  BY <1>7, <1>8, <2>1, Positions, Zenon DEF EntryBefore
<1>10. PICK b : b = es[E[L]].value  OBVIOUS
<1>11. b \in BlockOrNull
  <2>1. es[E[L]] \in Entry  BY <1>2, <1>7, ElementOfSeq, LenProperties, Zenon
  <2> QED  BY <1>10, <2>1 DEF Entry
<1>12. /\ consumer'.pc = "take" /\ consumer'.best = p /\ consumer'.localBlockIndex = j
       /\ consumer'.index = Wrap(F) /\ consumer'.end = Wrap(H) /\ consumer'.start = Wrap(S)
       /\ consumer'.indexIndex = i /\ consumer'.block = b
  <2>1. PICK found : found = [consumer EXCEPT !.pc = "take", !.indexIndex = i, !.tail = 0]
    OBVIOUS
  <2>2. /\ found.best = p /\ found.localBlockIndex = j /\ found.indexIndex = i
    BY <1>2, <2>1 DEF Calls
  <2>3. EntryOf(found) = E[L]  BY <1>6, <1>9, <2>2, Zenon DEF EntryOf
  <2>4. consumer' = [found EXCEPT !.block = b]
    BY <1>7, <1>8, <1>10, <2>1, <2>3, Zenon DEF FindBlock
  <2> QED  BY <1>2, <1>5, <2>1, <2>4 DEF Calls
<1>13. Consuming(consumer', p, hs, es, q, T, H, F, S, L, E, N)
  <2> PICK c : c = consumer'  OBVIOUS
  <2> HIDE DEF hs, es, q, j
  <2>1. /\ c.pc = "take" /\ c.localBlockIndex = j
        /\ c.index = Wrap(F) /\ c.end = Wrap(H) /\ c.start = Wrap(S)
        /\ c.indexIndex = Position(hs[j], (N[j] - 1) - L) /\ c.block = es[E[L]].value
    BY <1>6, <1>8, <1>10, <1>12, Zenon
  <2>2. Working(c, hs, es, q, T, H, F, S, L, E, N)
    BY ONLY <1>5, <2>1 DEF Working
  <2>3. "take" \in Work  BY DEF Work
  <2> QED  BY <1>12, <2>2, <2>3, Zenon DEF Consuming
<1>14. UNCHANGED <<Producing, dequeued, elementsCompletelyDequeued>>
  BY Zenon DEF FindBlock, blocks
<1>15. Queue(p)'  BY <1>1, <1>13, <1>14, OnlyConsumer, Zenon
<1> QED  BY <1>9, <1>11, <1>12, <1>15, Zenon

\* When the next index is in another block.
LEMMA BlockEnds ==
    ASSUME NEW L \in Nat, NEW F \in Nat, Base(L) <= F, F < Base(L) + BLOCK_SIZE
    PROVE  (Wrap(F + 1) = BlockStart(Wrap(F + 1))) <=> F + 1 = Base(L + 1)
<1>0. /\ BLOCK_SIZE \in Nat \ {0} /\ Base(L) \in Nat /\ L + 1 \in Nat
      /\ Base(L + 1) = Base(L) + BLOCK_SIZE
  BY Sizes, Bases
<1>1. PICK x \in Nat : x = F + 1  OBVIOUS
<1>2. CASE x = Base(L + 1)
  <2>1. x = Base(L + 1) + 0 /\ 0 \in 0 .. BLOCK_SIZE - 1  BY ONLY <1>0, <1>2, x \in Nat
  <2>2. PICK m \in Nat : m = L + 1  BY <1>0
  <2>3. x = Base(m) + 0  BY <2>1, <2>2
  <2>4. BlockStart(Wrap(x)) = Wrap(Base(m))  BY ONLY <2>1, <2>3, m \in Nat, InBlock
  <2> QED  BY <1>1, <1>2, <2>2, <2>4, Zenon
<1>3. CASE x # Base(L + 1)
  <2>1. PICK i \in Int : i = x - Base(L)  BY <1>0
  <2>2. i \in 1 .. BLOCK_SIZE - 1 /\ i \in 0 .. BLOCK_SIZE - 1 /\ x = Base(L) + i
    BY ONLY <1>0, <1>1, <1>3, <2>1, Base(L) <= F, F < Base(L) + BLOCK_SIZE, F \in Nat, i \in Int
  <2>3. Wrap(x) % BLOCK_SIZE = i  BY ONLY <2>2, L \in Nat, InBlock
  <2>4. PICK w : w = Wrap(x)  OBVIOUS
  <2>5. w \in Nat  BY <1>0, <2>4, Wrapped, Sizes DEF Index
  <2>6. BlockStart(w) = w - i  BY <2>3, <2>4, Zenon DEF BlockStart
  <2>7. w - i # w  BY ONLY <2>2, <2>5
  <2> QED  BY <1>1, <1>3, <2>4, <2>6, <2>7, Zenon
<1> QED  BY <1>2, <1>3

\* The consumer at the first block that is left.
AtBlock(p, L, C, E) ==
  /\ L \in L .. C - 1 /\ E[L] \in DOMAIN entries[p]
  /\ entries[p][E[L]].value = consumer.block /\ consumer.block \in Block
  /\ EntryOf(consumer) = E[L]
  /\ pc[p] = "block" => L < C - 1
  /\ consumer.localBlockIndex \in 1 .. Len(headers[p])

LEMMA AtBlockIs ==
    ASSUME Types, NEW p \in Producer, NEW T \in Nat, NEW H \in Nat, NEW F \in Nat,
           NEW S \in Nat, NEW L \in Nat, NEW C \in Nat, NEW E \in [Nat -> Nat],
           NEW N \in [Nat -> Nat], QueueIs(p, T, H, F, S, L, C, E, N),
           consumer.pc \in {"take", "count", "remove"}, consumer.best = p
    PROVE  AtBlock(p, L, C, E)
<1> DEFINE hs == headers[p]
           es == entries[p]
           q == pc[p]
           j == consumer.localBlockIndex
<1>1. hs \in Seq(Header) /\ es \in Seq(Entry)  BY TypesOf, Zenon
<1>2. consumer.pc \in Work  BY DEF Work
<1>3. /\ Working(consumer, hs, es, q, T, H, F, S, L, E, N)
      /\ Order(q, T, H, F, S, L, C) /\ Chain(es, q, L, C, E) /\ Rings(hs, es, q, L, C, E, N)
      /\ \A i \in 1 .. Len(headers[p]) : N[i] \in Nat /\ N[i] <= C
  BY <1>1, <1>2, AtWork, Zenon
<1>4. L < C /\ (q = "block" => L < C - 1)  BY <1>3, AtFirst, Zenon
<1>5. /\ F < H \/ S < F \/ S = Base(L) + BLOCK_SIZE
      /\ j \in 1 .. Len(hs) /\ H <= Base(N[j])
      /\ consumer.indexIndex = Position(hs[j], (N[j] - 1) - L)
      /\ consumer.block = es[E[L]].value
  <2> PICK c : c = consumer  OBVIOUS
  <2> HIDE DEF hs, es, q
  <2>1. Working(c, hs, es, q, T, H, F, S, L, E, N) /\ c.pc \in {"take", "count", "remove"}
    BY <1>3, Zenon
  <2>2. /\ c.pc = "take" => F < H
        /\ c.pc = "count" => S < F
        /\ c.pc = "remove" => S = F /\ F = Base(L) + BLOCK_SIZE
        /\ c.localBlockIndex \in 1 .. Len(hs) /\ H <= Base(N[c.localBlockIndex])
        /\ c.indexIndex = Position(hs[c.localBlockIndex], (N[c.localBlockIndex] - 1) - L)
        /\ c.block = es[E[L]].value
    BY ONLY <2>1 DEF Working
  <2>3. F < H \/ S < F \/ S = Base(L) + BLOCK_SIZE  BY ONLY <2>1, <2>2
  <2> QED  BY <2>2, <2>3, Zenon
<1>6. PICK n \in Nat : n = N[j]  BY <1>3, <1>5, Zenon
<1>7. L < n
  <2>1. Base(L) <= S /\ S <= F /\ F <= H  BY <1>3, Zenon DEF Order
  <2>2. BLOCK_SIZE \in Nat \ {0}  BY ONLY Sizes
  <2>3. Base(L) \in Nat /\ Base(n) \in Nat  BY Bases, Zenon
  <2>4. F < H \/ S < F \/ S = Base(L) + BLOCK_SIZE  BY <1>5, Zenon
  <2>5. H <= Base(n)  BY <1>5, <1>6, Zenon
  <2>6. Base(L) < Base(n)
    BY ONLY <2>1, <2>2, <2>3, <2>4, <2>5, H \in Nat, F \in Nat, S \in Nat
  <2> QED  BY <2>6, EarlierBlock, Zenon
<1>8. L \in L .. n - 1 /\ L \in L .. C - 1
  BY ONLY <1>4, <1>7, L \in Nat, n \in Nat, C \in Nat
<1>9. E[L] \in DOMAIN es /\ es[E[L]].value # null
  <2>1. ~(q = "block" /\ L = C - 1)
    <3>1. L < C - 1 => L # C - 1  BY ONLY L \in Nat, C \in Nat
    <3> QED  BY <1>4, <3>1, Zenon
  <2> QED  BY <1>3, <1>8, <2>1, Zenon DEF Chain
<1>10. consumer.block \in Block
  <2>1. es[E[L]] \in Entry  BY <1>1, <1>9, ElementOfSeq, LenProperties, Zenon
  <2>2. es[E[L]].value \in BlockOrNull  BY <2>1 DEF Entry
  <2> QED  BY <1>5, <1>9, <2>2, Zenon DEF BlockOrNull
<1>11. EntryOf(consumer) = E[L]
  <2>1. Ring(hs[j], es, L, n, E)  BY <1>3, <1>5, <1>6, Zenon DEF Rings
  <2>2. EntryBefore(hs[j], (n - 1) - L) = E[L]  BY <1>8, <2>1, Zenon DEF Ring
  <2>3. consumer.indexIndex = Position(hs[j], (n - 1) - L)  BY <1>5, <1>6, Zenon
  <2> QED  BY <2>2, <2>3, Zenon DEF EntryOf, EntryBefore
<1> QED  BY <1>4, <1>5, <1>8, <1>9, <1>10, <1>11, Zenon DEF AtBlock

\* How many elements a call will have when its claim has been fulfilled.
Promised(c) == c.count + Minus(c.end, c.index)

LEMMA TakeElementQueue ==
    ASSUME Types, NEW p \in Producer, Queue(p), consumer.best = p, TakeElement
    PROVE  /\ Queue(p)' /\ consumer'.pc \in {"take", "count"} /\ consumer'.best = p
           /\ consumer.block \in Block /\ consumer'.block = consumer.block
           /\ consumer'.index \in Index /\ Promised(consumer') = Promised(consumer)
<1>1. PICK T, H, F, S, L, C \in Nat, E, N \in [Nat -> Nat] : QueueIs(p, T, H, F, S, L, C, E, N)
  BY Zenon DEF Queue
<1> DEFINE hs == headers[p]
           es == entries[p]
           q == pc[p]
           j == consumer.localBlockIndex
<1>2. hs \in Seq(Header) /\ consumer \in Calls  BY TypesOf, Zenon
<1>3. consumer.pc = "take" /\ consumer.pc \in Work /\ consumer.pc \in {"take", "count", "remove"}
  BY DEF TakeElement, At, Work
<1>4. Working(consumer, hs, es, q, T, H, F, S, L, E, N) /\ Order(q, T, H, F, S, L, C)
  BY <1>1, <1>2, <1>3, AtWork, Zenon
<1>5. /\ consumer.index = Wrap(F) /\ consumer.end = Wrap(H) /\ consumer.start = Wrap(S)
      /\ F < H /\ F < Base(L) + BLOCK_SIZE /\ S < Base(L) + BLOCK_SIZE
      /\ j \in 1 .. Len(hs) /\ H <= Base(N[j])
      /\ consumer.indexIndex = Position(hs[j], (N[j] - 1) - L)
      /\ consumer.block = es[E[L]].value
  <2> PICK c : c = consumer  OBVIOUS
  <2> HIDE DEF hs, es, q
  <2>1. Working(c, hs, es, q, T, H, F, S, L, E, N) /\ c.pc = "take"  BY <1>3, <1>4, Zenon
  <2>2. /\ c.index = Wrap(F) /\ c.end = Wrap(H) /\ c.start = Wrap(S)
        /\ F < H /\ F < Base(L) + BLOCK_SIZE /\ S < Base(L) + BLOCK_SIZE
        /\ c.localBlockIndex \in 1 .. Len(hs) /\ H <= Base(N[c.localBlockIndex])
        /\ c.indexIndex = Position(hs[c.localBlockIndex], (N[c.localBlockIndex] - 1) - L)
        /\ c.block = es[E[L]].value
    BY ONLY <2>1 DEF Working
  <2> QED  BY <2>2, Zenon
<1>6. /\ L <= C /\ Base(L) <= S /\ S <= F /\ F <= H /\ H <= T
      /\ T <= Base(C) /\ Base(C) <= T + BLOCK_SIZE
      /\ Base(C) - H < Half /\ H - S < Half
  BY <1>4, Zenon DEF Order
<1>7. PICK F2 \in Nat : F2 = F + 1  OBVIOUS
<1>8. /\ BLOCK_SIZE \in Nat \ {0} /\ Half \in Nat /\ Half <= IndexRange /\ IndexRange \in Nat
      /\ Base(L) \in Nat /\ Base(L + 1) = Base(L) + BLOCK_SIZE
  <2>1. BLOCK_SIZE \in Nat \ {0} /\ Half \in Nat /\ Half <= IndexRange /\ IndexRange \in Nat
    BY ONLY Sizes
  <2> QED  BY <2>1, Bases, Zenon
<1>9. S < F2 /\ F2 <= H /\ F2 <= Base(L) + BLOCK_SIZE /\ S <= F2
  <2>1. F < H /\ F < Base(L) + BLOCK_SIZE /\ S <= F  BY <1>5, <1>6, Zenon
  <2> QED  BY ONLY <1>7, <1>8, <2>1, F \in Nat, S \in Nat, H \in Nat, F2 \in Nat
<1>10. Order(q, T, H, F2, S, L, C)
  <2>1. /\ q \in {"construct", "commit"} => T < Base(C)
        /\ q = "block" => Base(C) = T + BLOCK_SIZE
        /\ q \in {"slot", "grow", "insert"} => T = Base(C) /\ Base(C) + BLOCK_SIZE - H < Half
        /\ q = "idle" => Base(C) < T + BLOCK_SIZE
    BY <1>4, Zenon DEF Order
  <2> QED  BY <1>6, <1>9, <2>1, Zenon DEF Order
<1>11. Plus(consumer.index, 1) = Wrap(F2)
  <2>1. Plus(Wrap(F), 1) = Wrap(F + 1)
    <3>1. 1 \in Nat  OBVIOUS
    <3> QED  BY <3>1, Wrapped, Zenon
  <2> QED  BY <1>5, <1>7, <2>1, Zenon
<1>12. Wrap(F2) = Wrap(H) <=> F2 = H
  <2>1. F2 - H < IndexRange /\ H - F2 < IndexRange
    BY ONLY <1>6, <1>8, <1>9, H \in Nat, S \in Nat, F2 \in Nat
  <2> QED  BY <2>1, SameWrap, Zenon
<1>13. Wrap(F2) = BlockStart(Wrap(F2)) <=> F2 = Base(L) + BLOCK_SIZE
  <2>1. Base(L) <= F
    BY ONLY <1>6, <1>8, F \in Nat, S \in Nat
  <2>2. (Wrap(F + 1) = BlockStart(Wrap(F + 1))) <=> F + 1 = Base(L + 1)
    BY <1>5, <2>1, BlockEnds, Zenon
  <2> QED  BY <1>7, <1>8, <2>2, Zenon
<1>14. /\ consumer'.best = p /\ consumer'.localBlockIndex = j
       /\ consumer'.index = Wrap(F2) /\ consumer'.end = Wrap(H) /\ consumer'.start = Wrap(S)
       /\ consumer'.indexIndex = consumer.indexIndex /\ consumer'.block = consumer.block
       /\ consumer'.count = consumer.count + 1
       /\ consumer'.pc = IF Wrap(F2) \in {Wrap(H), BlockStart(Wrap(F2))} THEN "count" ELSE "take"
  <2>1. PICK w : w = Wrap(F2)  OBVIOUS
  <2>2. PICK x : x = elements[consumer.block][consumer.index % BLOCK_SIZE]  OBVIOUS
  <2>3. PICK t : t = IF w \in {consumer.end, BlockStart(w)} THEN "count" ELSE "take"  OBVIOUS
  <2>4. consumer' = [consumer EXCEPT !.item = x, !.outcome = "found", !.index = w,
                                     !.count = @ + 1, !.pc = t]
    BY <1>11, <2>1, <2>2, <2>3, Zenon DEF TakeElement
  <2>5. /\ consumer'.best = p /\ consumer'.localBlockIndex = j
        /\ consumer'.index = w /\ consumer'.end = consumer.end /\ consumer'.start = consumer.start
        /\ consumer'.indexIndex = consumer.indexIndex /\ consumer'.block = consumer.block
        /\ consumer'.count = consumer.count + 1 /\ consumer'.pc = t
    BY ONLY <1>2, <2>4, consumer.best = p DEF Calls
  <2> QED  BY <1>5, <2>1, <2>3, <2>5, Zenon
<1>15. /\ consumer'.pc \in {"take", "count"}
       /\ consumer'.pc = "take" => F2 < H /\ F2 < Base(L) + BLOCK_SIZE
       /\ consumer'.pc = "count" => F2 = H \/ F2 = Base(L) + BLOCK_SIZE
  <2>1. consumer'.pc = IF F2 = H \/ F2 = Base(L) + BLOCK_SIZE THEN "count" ELSE "take"
    BY <1>12, <1>13, <1>14, Zenon
  <2>2. F2 = H \/ F2 = Base(L) + BLOCK_SIZE \/ (F2 < H /\ F2 < Base(L) + BLOCK_SIZE)
    BY ONLY <1>8, <1>9, F2 \in Nat, H \in Nat
  <2>3. "take" # "count"  OBVIOUS
  <2> QED  BY <2>1, <2>2, <2>3, Zenon
<1>16. Consuming(consumer', p, hs, es, q, T, H, F2, S, L, E, N)
  <2> PICK c : c = consumer'  OBVIOUS
  <2> HIDE DEF hs, es, q, j
  <2>1. /\ c.pc \in {"take", "count"} /\ c.localBlockIndex = j
        /\ c.index = Wrap(F2) /\ c.end = Wrap(H) /\ c.start = Wrap(S)
        /\ c.indexIndex = Position(hs[j], (N[j] - 1) - L) /\ c.block = es[E[L]].value
        /\ c.pc = "take" => F2 < H /\ F2 < Base(L) + BLOCK_SIZE
        /\ c.pc = "count" => F2 = H \/ F2 = Base(L) + BLOCK_SIZE
    BY <1>5, <1>14, <1>15, Zenon
  <2>2. S < Base(L) + BLOCK_SIZE /\ j \in 1 .. Len(hs) /\ H <= Base(N[j])  BY <1>5, Zenon
  <2>3. Working(c, hs, es, q, T, H, F2, S, L, E, N)
    BY ONLY <1>9, <2>1, <2>2 DEF Working
  <2>4. c.pc \in Work  BY <2>1 DEF Work
  <2> QED  BY <1>14, <2>3, <2>4, Zenon DEF Consuming
<1>17. /\ tailIndex' = tailIndex /\ tailBlock' = tailBlock /\ headers' = headers
       /\ entries' = entries /\ pc' = pc /\ idxEntry' = idxEntry /\ headIndex' = headIndex
       /\ dequeueOptimisticCount' = dequeueOptimisticCount
       /\ dequeueOvercommit' = dequeueOvercommit
       /\ elementsCompletelyDequeued' = elementsCompletelyDequeued
  BY Zenon DEF TakeElement, Producing, queues, dequeued
<1>18. QueueIs(p, T, H, F2, S, L, C, E, N)'
  <2>1. /\ Indices(tailIndex[p], headIndex[p], dequeueOptimisticCount[p], dequeueOvercommit[p],
                   T, H)
        /\ Chain(es, q, L, C, E)
        /\ Hand(hs, es, q, idxEntry[p], tailBlock[p], T, C, E)
        /\ Rings(hs, es, q, L, C, E, N)
        /\ Emptied(es, elementsCompletelyDequeued, S, L, C, E)
    BY <1>1, Parts, Zenon
  <2> QED  BY <1>10, <1>16, <1>17, <2>1, Zenon DEF QueueIs
<1>19. Queue(p)'  BY <1>18, Zenon DEF Queue
<1>20. consumer.block \in Block /\ consumer'.index \in Index
  <2>1. AtBlock(p, L, C, E)  BY <1>1, <1>3, AtBlockIs, Zenon
  <2> QED  BY <1>14, <2>1, Wrapped, Zenon DEF AtBlock
<1>21. Promised(consumer') = Promised(consumer)
  <2>1. Minus(Wrap(H), Wrap(F)) = H - F /\ Minus(Wrap(H), Wrap(F2)) = H - F2
    <3>1. H - F \in 0 .. IndexRange - 1 /\ H - F2 \in 0 .. IndexRange - 1
      BY ONLY <1>6, <1>7, <1>8, <1>9, H \in Nat, S \in Nat, F \in Nat, F2 \in Nat
    <3> QED  BY <3>1, MinusIs, Zenon
  <2>2. /\ Promised(consumer') = (consumer.count + 1) + (H - F2)
        /\ Promised(consumer) = consumer.count + (H - F)
    BY <1>5, <1>14, <2>1, Zenon DEF Promised
  <2>3. PICK k \in Nat : k = consumer.count  BY <1>2 DEF Calls
  <2>4. (k + 1) + (H - F2) = k + (H - F)  BY ONLY <1>7, k \in Nat, H \in Nat, F \in Nat
  <2> QED  BY <2>2, <2>3, <2>4, Zenon
<1> QED  BY <1>14, <1>15, <1>19, <1>20, <1>21, Zenon

\* The end of a call, and the end of what it claimed of one producer.
LEMMA ReturnedIs ==
    ASSUME NEW c \in Calls, NEW o \in {"none", "empty", "found"}
    PROVE  Returned(c, o) \in Calls /\ Returned(c, o).pc = "idle"
<1>1. 0 \in Index /\ 0 \in Nat  BY Sizes DEF Index
<1>2. Resting \in Calls
  <2>1. <<>> \in Seq(Producer)  OBVIOUS
  <2> QED  BY <1>1, <2>1 DEF Resting, Calls, BlockOrNull
<1> QED  BY <1>2 DEF Returned, Calls, Resting

LEMMA SameIndex == \A i \in Index : Minus(i, i) = 0
<1> SUFFICES ASSUME NEW i \in Index PROVE Minus(i, i) = 0  OBVIOUS
<1>1. IndexRange \in Nat \ {0}  BY ONLY Sizes
<1>2. i - i = 0 /\ 0 \in 0 .. IndexRange - 1 /\ 0 \in Int  BY <1>1 DEF Index
<1>3. 0 % IndexRange = 0  BY <1>1, <1>2, Small, Zenon
<1> QED  BY <1>2, <1>3, Zenon DEF Minus

LEMMA DoneIs ==
    ASSUME Types, Wanted, consumer.pc \in Work, consumer.index = consumer.end
    PROVE  /\ BlockDone(consumer) \in Calls
           /\ BlockDone(consumer).pc \in {"idle", "bulk"}
           /\ BlockDone(consumer).pc = "bulk" =>
                BlockDone(consumer).count < BlockDone(consumer).max
<1>1. PICK c \in Calls : c = consumer  BY DEF Types
<1>2. /\ c.index = c.end /\ c.index \in Index /\ c.count \in Nat /\ c.max \in Nat
      /\ c.todo \in Seq(Producer)
  BY <1>1 DEF Calls
<1>3. c.max # 0 => c.todo # <<>> /\ c.count <= c.max
  <2>1. c.max # 0 => c.todo # <<>> /\ c.count + Minus(c.end, c.index) <= c.max
    BY <1>1, Zenon DEF Wanted
  <2>2. Minus(c.end, c.index) = 0  BY <1>2, SameIndex, Zenon
  <2>3. c.count + 0 = c.count  BY ONLY <1>2
  <2> QED  BY <2>1, <2>2, <2>3, Zenon
<1>4. PICK r \in Calls : r = Returned(c, "found") /\ r.pc = "idle"  BY ReturnedIs
<1>5. PICK b : b = BlockDone(c)  OBVIOUS
<1>6. CASE c.max = c.count \/ c.max = 0
  <2>1. b = r  BY <1>2, <1>4, <1>5, <1>6, Zenon DEF BlockDone
  <2>2. r.pc \in {"idle", "bulk"} /\ r.pc # "bulk"  BY ONLY <1>4
  <2> QED  BY <1>1, <1>5, <2>1, <2>2, Zenon
<1>7. CASE ~(c.max = c.count \/ c.max = 0)
  <2>1. b = [r EXCEPT !.pc = "bulk", !.todo = Tail(c.todo), !.max = c.max, !.count = c.count]
    BY <1>2, <1>4, <1>5, <1>7, Zenon DEF BlockDone
  <2>2. Tail(c.todo) \in Seq(Producer)  BY <1>2, <1>3, <1>7
  <2>3. b \in Calls /\ b.pc = "bulk" /\ b.count = c.count /\ b.max = c.max
    BY ONLY <1>2, <2>1, <2>2, r \in Calls DEF Calls
  <2>4. c.count < c.max  BY ONLY <1>2, <1>3, <1>7
  <2>5. b.pc \in {"idle", "bulk"}  BY ONLY <2>3
  <2> QED  BY <1>1, <1>5, <2>3, <2>4, <2>5, Zenon
<1> QED  BY <1>6, <1>7, Zenon

LEMMA CountEmptyQueue ==
    ASSUME Types, Wanted, NEW p \in Producer, Queue(p), Distinct(entries[p]),
           consumer.best = p, CountEmpty
    PROVE  /\ Queue(p)' /\ consumer.block \in Block
           /\ elementsCompletelyDequeued'[consumer.block] \in 0 .. BLOCK_SIZE
           /\ \/ consumer' = [consumer EXCEPT !.pc = "remove"]
              \/ consumer.index = consumer.end /\ consumer' = BlockDone(consumer)
<1>1. PICK T, H, F, S, L, C \in Nat, E, N \in [Nat -> Nat] : QueueIs(p, T, H, F, S, L, C, E, N)
  BY Zenon DEF Queue
<1> DEFINE hs == headers[p]
           es == entries[p]
           q == pc[p]
           j == consumer.localBlockIndex
           counts == elementsCompletelyDequeued
           b == consumer.block
<1>2. /\ hs \in Seq(Header) /\ consumer \in Calls
      /\ counts \in [Block -> 0 .. BLOCK_SIZE]
  BY TypesOf, Zenon DEF Types
<1>3. consumer.pc = "count" /\ consumer.pc \in Work /\ consumer.pc \in {"take", "count", "remove"}
  BY DEF CountEmpty, At, Work
<1>4. Working(consumer, hs, es, q, T, H, F, S, L, E, N) /\ Order(q, T, H, F, S, L, C)
      /\ Chain(es, q, L, C, E)
  BY <1>1, <1>2, <1>3, AtWork, Zenon
<1>5. /\ consumer.index = Wrap(F) /\ consumer.end = Wrap(H) /\ consumer.start = Wrap(S)
      /\ S < F /\ F <= Base(L) + BLOCK_SIZE /\ (F = H \/ F = Base(L) + BLOCK_SIZE)
      /\ j \in 1 .. Len(hs) /\ H <= Base(N[j])
      /\ consumer.indexIndex = Position(hs[j], (N[j] - 1) - L)
      /\ b = es[E[L]].value
  <2> PICK c : c = consumer  OBVIOUS
  <2> HIDE DEF hs, es, q
  <2>1. Working(c, hs, es, q, T, H, F, S, L, E, N) /\ c.pc = "count"  BY <1>3, <1>4, Zenon
  <2>2. /\ c.index = Wrap(F) /\ c.end = Wrap(H) /\ c.start = Wrap(S)
        /\ S < F /\ F <= Base(L) + BLOCK_SIZE /\ (F = H \/ F = Base(L) + BLOCK_SIZE)
        /\ c.localBlockIndex \in 1 .. Len(hs) /\ H <= Base(N[c.localBlockIndex])
        /\ c.indexIndex = Position(hs[c.localBlockIndex], (N[c.localBlockIndex] - 1) - L)
        /\ c.block = es[E[L]].value
    BY ONLY <2>1 DEF Working
  <2> QED  BY <2>2, Zenon
<1>6. /\ L <= C /\ Base(L) <= S /\ S <= F /\ F <= H /\ H <= T
      /\ T <= Base(C) /\ Base(C) <= T + BLOCK_SIZE
      /\ Base(C) - H < Half /\ H - S < Half
  BY <1>4, Zenon DEF Order
<1>7. /\ L \in L .. C - 1 /\ E[L] \in DOMAIN es /\ b \in Block
  <2>1. AtBlock(p, L, C, E)  BY <1>1, <1>3, AtBlockIs, Zenon
  <2> QED  BY <2>1, Zenon DEF AtBlock
<1>8. /\ BLOCK_SIZE \in Nat \ {0} /\ Half \in Nat /\ Half <= IndexRange /\ IndexRange \in Nat
      /\ Base(L) \in Nat
  <2>1. BLOCK_SIZE \in Nat \ {0} /\ Half \in Nat /\ Half <= IndexRange /\ IndexRange \in Nat
    BY ONLY Sizes
  <2> QED  BY <2>1, Bases, Zenon
<1>9. PICK n : n = counts[b] + Minus(consumer.index, consumer.start)  OBVIOUS
<1>10. n = F - Base(L)
  <2>1. Minus(consumer.index, consumer.start) = F - S
    <3>1. F - S \in 0 .. IndexRange - 1
      <4>1. S < F /\ F <= H /\ H - S < Half  BY <1>5, <1>6, Zenon
      <4> QED  BY ONLY <1>8, <4>1, F \in Nat, S \in Nat, H \in Nat
    <3> QED  BY <1>5, <3>1, MinusIs, Zenon
  <2>2. counts[b] = S - Base(L)
    <3>1. Emptied(es, counts, S, L, C, E)  BY <1>1, Parts, Zenon
    <3>2. es[E[L]].value # null  BY <1>5, <1>7, Values, Zenon
    <3> QED  BY <1>5, <1>7, <3>1, <3>2, Zenon DEF Emptied
  <2>3. (S - Base(L)) + (F - S) = F - Base(L)
    BY ONLY <1>8, F \in Nat, S \in Nat
  <2> QED  BY <1>9, <2>1, <2>2, <2>3, Zenon
<1>11. n \in 0 .. BLOCK_SIZE /\ (n = BLOCK_SIZE <=> F = Base(L) + BLOCK_SIZE)
  <2>1. S < F /\ Base(L) <= S /\ F <= Base(L) + BLOCK_SIZE  BY <1>5, <1>6, Zenon
  <2> QED  BY ONLY <1>8, <1>10, <2>1, F \in Nat, S \in Nat
<1>12. /\ counts' = [counts EXCEPT ![b] = n]
       /\ consumer' = IF n = BLOCK_SIZE THEN [consumer EXCEPT !.pc = "remove"]
                      ELSE BlockDone(consumer)
  BY <1>9, Zenon DEF CountEmpty
<1>13. counts'[b] = n /\ \A x \in Block : x # b => counts'[x] = counts[x]
  BY <1>2, <1>7, <1>12, Zenon
<1>14. Order(q, T, H, F, F, L, C)
  <2>1. /\ q \in {"construct", "commit"} => T < Base(C)
        /\ q = "block" => Base(C) = T + BLOCK_SIZE
        /\ q \in {"slot", "grow", "insert"} => T = Base(C) /\ Base(C) + BLOCK_SIZE - H < Half
        /\ q = "idle" => Base(C) < T + BLOCK_SIZE
    BY <1>4, Zenon DEF Order
  <2>2. Base(L) <= F /\ F <= F /\ H - F < Half
    <3>1. Base(L) <= S /\ S <= F /\ H - S < Half  BY <1>6, Zenon
    <3> QED  BY ONLY <1>8, <3>1, F \in Nat, S \in Nat, H \in Nat
  <2> QED  BY <1>6, <2>1, <2>2, Zenon DEF Order
<1>15. Emptied(es, counts', F, L, C, E)
  <2> SUFFICES ASSUME NEW m \in L .. C - 1, es[E[m]].value # null
               PROVE  counts'[es[E[m]].value] = IF m = L THEN F - Base(L) ELSE 0
    BY Zenon DEF Emptied
  <2>1. CASE m = L  BY <1>5, <1>10, <1>13, <2>1, Zenon
  <2>2. CASE m # L
    <3>1. E[m] \in DOMAIN es  BY <1>4, Zenon DEF Chain
    <3>2. es[E[m]].value # b
      <4> SUFFICES ASSUME es[E[m]].value = b PROVE FALSE  BY Zenon
      <4>1. es[E[m]].value = es[E[L]].value  BY <1>5, Zenon
      <4>2. E[m] = E[L]  BY <1>7, <3>1, <4>1, Zenon DEF Distinct
      <4> QED  BY <1>4, <1>7, <2>2, <4>2, Zenon DEF Chain
    <3>3. es[E[m]].value \in Block
      <4>1. es[E[m]] \in Entry  BY <3>1, TypesOf, ElementOfSeq, LenProperties, Zenon
      <4>2. es[E[m]].value \in BlockOrNull  BY <4>1 DEF Entry
      <4> QED  BY <4>2, Zenon DEF BlockOrNull
    <3>4. counts[es[E[m]].value] = 0
      <4>1. Emptied(es, counts, S, L, C, E)  BY <1>1, Parts, Zenon
      <4> QED  BY <2>2, <4>1, Zenon DEF Emptied
    <3> QED  BY <1>13, <2>2, <3>2, <3>3, <3>4, Zenon
  <2> QED  BY <2>1, <2>2, Zenon
<1>16. \/ n = BLOCK_SIZE /\ consumer' = [consumer EXCEPT !.pc = "remove"]
       \/ n # BLOCK_SIZE /\ F = H /\ consumer.index = consumer.end
          /\ consumer' = BlockDone(consumer)
  BY <1>5, <1>11, <1>12, Zenon
<1>17. Consuming(consumer', p, hs, es, q, T, H, F, F, L, E, N)
  <2>1. CASE n = BLOCK_SIZE
    <3>1. consumer' = [consumer EXCEPT !.pc = "remove"]  BY <1>16, <2>1, Zenon
    <3>2. /\ consumer'.pc = "remove" /\ consumer'.best = p /\ consumer'.localBlockIndex = j
          /\ consumer'.index = consumer.index /\ consumer'.end = consumer.end
          /\ consumer'.indexIndex = consumer.indexIndex /\ consumer'.block = b
      BY ONLY <1>2, <3>1, consumer.best = p DEF Calls
    <3> PICK c : c = consumer'  OBVIOUS
    <3> HIDE DEF hs, es, q, j
    <3>3. /\ c.pc = "remove" /\ c.localBlockIndex = j /\ c.index = Wrap(F) /\ c.end = Wrap(H)
          /\ c.indexIndex = Position(hs[j], (N[j] - 1) - L) /\ c.block = es[E[L]].value
      BY <1>5, <3>2, Zenon
    <3>4. F = Base(L) + BLOCK_SIZE /\ j \in 1 .. Len(hs) /\ H <= Base(N[j])
      BY <1>5, <1>11, <2>1, Zenon
    <3>5. Working(c, hs, es, q, T, H, F, F, L, E, N)  BY ONLY <3>3, <3>4 DEF Working
    <3>6. c.pc \in Work  BY <3>3 DEF Work
    <3> QED  BY <3>2, <3>5, <3>6, Zenon DEF Consuming
  <2>2. CASE n # BLOCK_SIZE
    <3>1. consumer.index = consumer.end /\ consumer' = BlockDone(consumer) /\ F = H
      BY <1>16, <2>2, Zenon
    <3>2. consumer'.pc \in {"idle", "bulk"}  BY <1>3, <3>1, DoneIs, Zenon
    <3>3. consumer'.pc \notin Work  BY <3>2 DEF Work
    <3>4. F < Base(L) + BLOCK_SIZE
      <4>1. F <= Base(L) + BLOCK_SIZE /\ F # Base(L) + BLOCK_SIZE  BY <1>5, <1>11, <2>2, Zenon
      <4> QED  BY ONLY <1>8, <4>1, F \in Nat
    <3> QED  BY <3>1, <3>3, <3>4, Zenon DEF Consuming
  <2> QED  BY <2>1, <2>2, Zenon
<1>18. /\ tailIndex' = tailIndex /\ tailBlock' = tailBlock /\ headers' = headers
       /\ entries' = entries /\ pc' = pc /\ idxEntry' = idxEntry /\ headIndex' = headIndex
       /\ dequeueOptimisticCount' = dequeueOptimisticCount
       /\ dequeueOvercommit' = dequeueOvercommit
  BY Zenon DEF CountEmpty, Producing, queues, dequeued
<1>19. QueueIs(p, T, H, F, F, L, C, E, N)'
  <2>1. /\ Indices(tailIndex[p], headIndex[p], dequeueOptimisticCount[p], dequeueOvercommit[p],
                   T, H)
        /\ Chain(es, q, L, C, E)
        /\ Hand(hs, es, q, idxEntry[p], tailBlock[p], T, C, E)
        /\ Rings(hs, es, q, L, C, E, N)
    BY <1>1, Parts, Zenon
  <2> QED  BY <1>14, <1>15, <1>17, <1>18, <2>1, Zenon DEF QueueIs
<1>20. Queue(p)'  BY <1>19, Zenon DEF Queue
<1> QED  BY <1>7, <1>11, <1>13, <1>16, <1>20, Zenon

LEMMA RemoveBlockQueue ==
    ASSUME Types, NEW p \in Producer, Queue(p), consumer.best = p, RemoveBlock
    PROVE  /\ Queue(p)' /\ consumer.block \in Block
           /\ consumer' = [consumer EXCEPT !.pc = "free"]
           /\ \E e \in DOMAIN entries[p] : \E x \in Entry :
                /\ entries[p][e].value = consumer.block /\ x.value = null
                /\ Replaced(entries'[p], entries[p], e, x)
                /\ entries' = [entries EXCEPT ![p] = entries'[p]]
<1>1. PICK T, H, F, S, L, C \in Nat, E, N \in [Nat -> Nat] : QueueIs(p, T, H, F, S, L, C, E, N)
  BY Zenon DEF Queue
<1> DEFINE hs == headers[p]
           es == entries[p]
           es2 == entries'[p]
           q == pc[p]
           j == consumer.localBlockIndex
           b == consumer.block
<1>2. /\ hs \in Seq(Header) /\ es \in Seq(Entry) /\ consumer \in Calls
      /\ entries \in [Producer -> Seq(Entry)]
  BY TypesOf, Zenon DEF Types
<1>3. consumer.pc = "remove" /\ consumer.pc \in Work /\ consumer.pc \in {"take", "count", "remove"}
  BY DEF RemoveBlock, At, Work
<1>4. Working(consumer, hs, es, q, T, H, F, S, L, E, N) /\ Order(q, T, H, F, S, L, C)
      /\ Chain(es, q, L, C, E) /\ Rings(hs, es, q, L, C, E, N)
  BY <1>1, <1>2, <1>3, AtWork, Zenon
<1>5. /\ consumer.index = Wrap(F) /\ consumer.end = Wrap(H)
      /\ S = F /\ F = Base(L) + BLOCK_SIZE
      /\ j \in 1 .. Len(hs) /\ H <= Base(N[j])
      /\ consumer.indexIndex = Position(hs[j], (N[j] - 1) - L)
  <2> PICK c : c = consumer  OBVIOUS
  <2> HIDE DEF hs, es, q
  <2>1. Working(c, hs, es, q, T, H, F, S, L, E, N) /\ c.pc = "remove"  BY <1>3, <1>4, Zenon
  <2>2. /\ c.index = Wrap(F) /\ c.end = Wrap(H)
        /\ S = F /\ F = Base(L) + BLOCK_SIZE
        /\ c.localBlockIndex \in 1 .. Len(hs) /\ H <= Base(N[c.localBlockIndex])
        /\ c.indexIndex = Position(hs[c.localBlockIndex], (N[c.localBlockIndex] - 1) - L)
    BY ONLY <2>1 DEF Working
  <2> QED  BY <2>2, Zenon
<1>6. /\ L <= C /\ Base(L) <= S /\ S <= F /\ F <= H /\ H <= T
      /\ T <= Base(C) /\ Base(C) <= T + BLOCK_SIZE
      /\ Base(C) - H < Half /\ H - S < Half
  BY <1>4, Zenon DEF Order
<1>7. /\ L \in L .. C - 1 /\ E[L] \in DOMAIN es /\ b \in Block /\ es[E[L]].value = b
      /\ EntryOf(consumer) = E[L] /\ (q = "block" => L < C - 1)
  <2>1. AtBlock(p, L, C, E)  BY <1>1, <1>3, AtBlockIs, Zenon
  <2> QED  BY <2>1, Zenon DEF AtBlock
<1>8. PICK L2 \in Nat : L2 = L + 1  OBVIOUS
<1>9. /\ BLOCK_SIZE \in Nat \ {0} /\ Base(L2) \in Nat /\ Base(L2) = Base(L) + BLOCK_SIZE
      /\ L < L2 /\ L <= L2 /\ L2 <= C
      /\ \A m \in L2 .. C - 1 : m \in L .. C - 1 /\ m # L
      /\ \A m \in L .. C - 1 : m # L => m \in L2 .. C - 1
  <2>1. BLOCK_SIZE \in Nat \ {0}  BY ONLY Sizes
  <2>2. L \in L .. C - 1  BY <1>7, Zenon
  <2>3. /\ L < L2 /\ L <= L2 /\ L2 <= C
        /\ \A m \in L2 .. C - 1 : m \in L .. C - 1 /\ m # L
        /\ \A m \in L .. C - 1 : m # L => m \in L2 .. C - 1
    BY ONLY <1>8, <2>2, L \in Nat, C \in Nat
  <2> QED  BY <1>8, <2>1, <2>3, Bases, Zenon
<1>10. F = Base(L2) /\ S = F  BY <1>5, <1>9, Zenon
<1>11. PICK x \in Entry : x = [es[E[L]] EXCEPT !.value = null]
  <2>1. es[E[L]] \in Entry  BY <1>2, <1>7, ElementOfSeq, LenProperties, Zenon
  <2> QED  BY <2>1 DEF Entry, BlockOrNull
<1>12. x.value = null
  <2>1. es[E[L]] \in Entry  BY <1>2, <1>7, ElementOfSeq, LenProperties, Zenon
  <2> QED  BY <1>11, <2>1 DEF Entry
<1>13. /\ es2 = [es EXCEPT ![E[L]] = x] /\ entries' = [entries EXCEPT ![p] = es2]
  <2>1. entries' = [entries EXCEPT ![p][E[L]].value = null]
    BY <1>7, Zenon DEF RemoveBlock, ForgetBlock
  <2>2. entries' = [entries EXCEPT ![p] = [es EXCEPT ![E[L]] = x]]
    BY <1>11, <2>1, Zenon
  <2>3. es2 = [es EXCEPT ![E[L]] = x]  BY <1>2, <2>2, Zenon
  <2> QED  BY <2>2, <2>3, Zenon
<1>14. Replaced(es2, es, E[L], x)
  <2> HIDE DEF es2
  <2> QED  BY <1>2, <1>13, ReplacedIs, Zenon
<1>15. /\ DOMAIN es2 = DOMAIN es /\ es2[E[L]].value = null
       /\ \A e \in DOMAIN es : e # E[L] => es2[e] = es[e]
  BY <1>7, <1>12, <1>14, Zenon DEF Replaced
<1>16. \A m \in L2 .. C - 1 : E[m] \in DOMAIN es /\ E[m] # E[L] /\ es2[E[m]] = es[E[m]]
  BY <1>4, <1>7, <1>9, <1>15, Zenon DEF Chain
<1>17. Order(q, T, H, F, S, L2, C)
  <2>1. /\ q \in {"construct", "commit"} => T < Base(C)
        /\ q = "block" => Base(C) = T + BLOCK_SIZE
        /\ q \in {"slot", "grow", "insert"} => T = Base(C) /\ Base(C) + BLOCK_SIZE - H < Half
        /\ q = "idle" => Base(C) < T + BLOCK_SIZE
    BY <1>4, Zenon DEF Order
  <2>2. Base(L2) <= S  BY ONLY <1>9, <1>10
  <2> QED  BY <1>6, <1>9, <2>1, <2>2, Zenon DEF Order
<1>18. Chain(es2, q, L2, C, E)
  <2>1. ASSUME NEW m \in L2 .. C - 1
        PROVE  /\ E[m] \in DOMAIN es2 /\ es2[E[m]].key = Wrap(Base(m))
               /\ es2[E[m]].value = null <=> q = "block" /\ m = C - 1
    <3>1. E[m] \in DOMAIN es2 /\ es2[E[m]] = es[E[m]] /\ m \in L .. C - 1
      BY <1>9, <1>15, <1>16, Zenon
    <3>2. /\ es[E[m]].key = Wrap(Base(m))
          /\ es[E[m]].value = null <=> q = "block" /\ m = C - 1
      BY <1>4, <3>1, Zenon DEF Chain
    <3> QED  BY <3>1, <3>2, Zenon
  <2>2. \A m, n \in L2 .. C - 1 : E[m] = E[n] => m = n  BY <1>4, <1>9, Zenon DEF Chain
  <2>3. ASSUME NEW e \in DOMAIN es2, es2[e].value # null PROVE \E m \in L2 .. C - 1 : E[m] = e
    <3>1. e # E[L]  BY <1>15, <2>3, Zenon
    <3>2. e \in DOMAIN es /\ es[e].value # null  BY <1>15, <2>3, <3>1, Zenon
    <3>3. PICK m \in L .. C - 1 : E[m] = e  BY <1>4, <3>2, Zenon DEF Chain
    <3>4. m # L  BY <3>1, <3>3, Zenon
    <3> QED  BY <1>9, <3>3, <3>4, Zenon
  <2> QED  BY <2>1, <2>2, <2>3, Zenon DEF Chain
<1>19. Hand(hs, es2, q, idxEntry[p], tailBlock[p], T, C, E)
  <2>1. Hand(hs, es, q, idxEntry[p], tailBlock[p], T, C, E)  BY <1>1, Parts, Zenon
  <2>2. q = "insert" => /\ idxEntry[p] = AfterTail(Last(hs)) /\ idxEntry[p] \in DOMAIN es2
                        /\ es2[idxEntry[p]].value = null
    BY <1>15, <2>1, Zenon DEF Hand
  <2>3. ASSUME q # "block", T < Base(C) PROVE tailBlock[p] = es2[E[C - 1]].value
    <3>1. tailBlock[p] = es[E[C - 1]].value  BY <2>1, <2>3, Zenon DEF Hand
    <3>2. L2 # C
      <4> SUFFICES ASSUME L2 = C PROVE FALSE  OBVIOUS
      <4>1. F = Base(C) /\ F <= H /\ H <= T /\ Base(C) \in Nat  BY <1>6, <1>9, <1>10, Zenon
      <4> QED  BY ONLY <2>3, <4>1, H \in Nat, T \in Nat
    <3>3. C - 1 \in L2 .. C - 1
      <4>1. L2 <= C  BY <1>9, Zenon
      <4> QED  BY ONLY <3>2, <4>1, L2 \in Nat, C \in Nat
    <3> QED  BY <1>16, <3>1, <3>3, Zenon
  <2> QED  BY <2>1, <2>2, <2>3, Zenon DEF Hand
<1>20. Rings(hs, es2, q, L2, C, E, N)
  <2> SUFFICES ASSUME NEW i \in 1 .. Len(hs) PROVE Ring(hs[i], es2, L2, N[i], E)
    BY <1>4, Zenon DEF Rings
  <2>1. Ring(hs[i], es, L, N[i], E)  BY <1>4, Zenon DEF Rings
  <2>2. hs[i] \in Header /\ N[i] \in Nat  BY <1>1, <1>2, <1>3, AtWork, Zenon
  <2>3. DOMAIN es \subseteq DOMAIN es2  BY <1>15, Zenon
  <2>4. hs[i].capacity \in Nat  BY <2>2 DEF Header
  <2>5. /\ N[i] - L2 <= hs[i].capacity
        /\ \A m \in L2 .. N[i] - 1 : m \in L .. N[i] - 1
    <3>1. N[i] - L <= hs[i].capacity  BY <2>1, Zenon DEF Ring
    <3>2. PICK n \in Nat : n = N[i]  BY <2>2
    <3>3. PICK cap \in Nat : cap = hs[i].capacity  BY <2>4
    <3>4. n - L <= cap  BY <3>1, <3>2, <3>3, Zenon
    <3>5. n - L2 <= cap /\ \A m \in L2 .. n - 1 : m \in L .. n - 1
      BY ONLY <1>8, <3>4, n \in Nat, L \in Nat, L2 \in Nat, cap \in Nat
    <3> QED  BY <3>2, <3>3, <3>5, Zenon
  <2>6. hs[i].index \in [1 .. hs[i].capacity -> DOMAIN es2]  BY <1>15, <2>1, Zenon DEF Ring
  <2> QED  BY <2>1, <2>5, <2>6, Zenon DEF Ring
<1>21. /\ consumer' = [consumer EXCEPT !.pc = "free"]
       /\ elementsCompletelyDequeued' = elementsCompletelyDequeued
       /\ tailIndex' = tailIndex /\ tailBlock' = tailBlock /\ headers' = headers
       /\ pc' = pc /\ idxEntry' = idxEntry /\ headIndex' = headIndex
       /\ dequeueOptimisticCount' = dequeueOptimisticCount
       /\ dequeueOvercommit' = dequeueOvercommit
  BY Zenon DEF RemoveBlock, dequeued, blocks
<1>22. Consuming(consumer', p, hs, es2, q, T, H, F, S, L2, E, N)
  <2>1. /\ consumer'.pc = "free" /\ consumer'.best = p /\ consumer'.localBlockIndex = j
        /\ consumer'.index = consumer.index /\ consumer'.end = consumer.end
        /\ consumer'.indexIndex = consumer.indexIndex
    BY ONLY <1>2, <1>21, consumer.best = p DEF Calls
  <2>2. Position(hs[j], (N[j] - 1) - L) = Position(hs[j], N[j] - L2)
    <3>1. PICK n \in Nat : n = N[j]  BY <1>1, <1>2, <1>3, <1>5, AtWork, Zenon
    <3>2. (n - 1) - L = n - L2  BY ONLY <1>8, n \in Nat, L \in Nat
    <3> QED  BY <3>1, <3>2, Zenon
  <2> PICK c : c = consumer'  OBVIOUS
  <2> HIDE DEF hs, es2, q, j
  <2>3. /\ c.pc = "free" /\ c.localBlockIndex = j /\ c.index = Wrap(F) /\ c.end = Wrap(H)
        /\ c.indexIndex = Position(hs[j], N[j] - L2)
    BY <1>5, <2>1, <2>2, Zenon
  <2>4. S < Base(L2) + BLOCK_SIZE  BY ONLY <1>9, <1>10, S \in Nat
  <2>5. j \in 1 .. Len(hs) /\ H <= Base(N[j])  BY <1>5, Zenon
  <2>6. Working(c, hs, es2, q, T, H, F, S, L2, E, N)
    BY ONLY <1>10, <2>3, <2>4, <2>5 DEF Working
  <2>7. c.pc \in Work  BY <2>3 DEF Work
  <2> QED  BY <2>1, <2>6, <2>7, Zenon DEF Consuming
<1>23. Emptied(es2, elementsCompletelyDequeued, S, L2, C, E)
  <2> SUFFICES ASSUME NEW m \in L2 .. C - 1, es2[E[m]].value # null
               PROVE  elementsCompletelyDequeued[es2[E[m]].value]
                        = IF m = L2 THEN S - Base(L2) ELSE 0
    BY Zenon DEF Emptied
  <2>1. Emptied(es, elementsCompletelyDequeued, S, L, C, E)  BY <1>1, Parts, Zenon
  <2>2. es2[E[m]] = es[E[m]] /\ m \in L .. C - 1 /\ m # L  BY <1>9, <1>16, Zenon
  <2>3. elementsCompletelyDequeued[es[E[m]].value] = 0  BY <2>1, <2>2, Zenon DEF Emptied
  <2>4. S - Base(L2) = 0  BY ONLY <1>9, <1>10
  <2> QED  BY <2>2, <2>3, <2>4, Zenon
<1>24. QueueIs(p, T, H, F, S, L2, C, E, N)'
  <2>1. Indices(tailIndex[p], headIndex[p], dequeueOptimisticCount[p], dequeueOvercommit[p], T, H)
    BY <1>1, Parts, Zenon
  <2> QED  BY <1>17, <1>18, <1>19, <1>20, <1>21, <1>22, <1>23, <2>1, Zenon DEF QueueIs
<1>25. Queue(p)'  BY <1>24, Zenon DEF Queue
<1> QED  BY <1>7, <1>12, <1>13, <1>14, <1>21, <1>25, Zenon

LEMMA FreeBlockQueue ==
    ASSUME Types, Wanted, NEW p \in Producer, Queue(p), consumer.best = p, FreeBlock
    PROVE  /\ Queue(p)'
           /\ \/ consumer.index = consumer.end /\ consumer' = BlockDone(consumer)
              \/ /\ consumer' \in Calls /\ consumer'.pc = "take" /\ consumer'.best = p
                 /\ consumer'.index = consumer.index /\ consumer'.end = consumer.end
                 /\ consumer'.count = consumer.count /\ consumer'.max = consumer.max
                 /\ consumer'.todo = consumer.todo
<1>1. PICK T, H, F, S, L, C \in Nat, E, N \in [Nat -> Nat] : QueueIs(p, T, H, F, S, L, C, E, N)
  BY Zenon DEF Queue
<1> DEFINE hs == headers[p]
           es == entries[p]
           q == pc[p]
           j == consumer.localBlockIndex
<1>2. /\ hs \in Seq(Header) /\ es \in Seq(Entry) /\ consumer \in Calls
  BY TypesOf, Zenon
<1>3. consumer.pc = "free" /\ consumer.pc \in Work  BY DEF FreeBlock, At, Work
<1>4. /\ Working(consumer, hs, es, q, T, H, F, S, L, E, N) /\ Order(q, T, H, F, S, L, C)
      /\ Chain(es, q, L, C, E) /\ Rings(hs, es, q, L, C, E, N)
      /\ \A i \in 1 .. Len(headers[p]) : N[i] \in Nat /\ N[i] <= C
      /\ \A i \in 1 .. Len(headers[p]) : headers[p][i] \in Header
  BY <1>1, <1>2, <1>3, AtWork, Zenon
<1>5. /\ consumer.index = Wrap(F) /\ consumer.end = Wrap(H)
      /\ S = F /\ F = Base(L) /\ S < Base(L) + BLOCK_SIZE
      /\ j \in 1 .. Len(hs) /\ H <= Base(N[j])
      /\ consumer.indexIndex = Position(hs[j], N[j] - L)
  <2> PICK c : c = consumer  OBVIOUS
  <2> HIDE DEF hs, es, q
  <2>1. Working(c, hs, es, q, T, H, F, S, L, E, N) /\ c.pc = "free"  BY <1>3, <1>4, Zenon
  <2>2. /\ c.index = Wrap(F) /\ c.end = Wrap(H)
        /\ S = F /\ F = Base(L) /\ S < Base(L) + BLOCK_SIZE
        /\ c.localBlockIndex \in 1 .. Len(hs) /\ H <= Base(N[c.localBlockIndex])
        /\ c.indexIndex = Position(hs[c.localBlockIndex], N[c.localBlockIndex] - L)
    BY ONLY <2>1 DEF Working
  <2> QED  BY <2>2, Zenon
<1>6. F <= H /\ H - S < Half  BY <1>4, Zenon DEF Order
<1>7. consumer.index = consumer.end <=> F = H
  <2>1. Half <= IndexRange /\ Half \in Nat /\ IndexRange \in Nat  BY ONLY Sizes
  <2>2. S = F  BY <1>5, Zenon
  <2>3. F - H < IndexRange /\ H - F < IndexRange
    BY ONLY <1>6, <2>1, <2>2, F \in Nat, H \in Nat
  <2> QED  BY <1>5, <2>3, SameWrap, Zenon
<1>8. /\ consumer' = BlockDone(consumer)
      /\ UNCHANGED <<Producing, dequeued, elementsCompletelyDequeued>>
  BY Zenon DEF FreeBlock, blocks
<1>9. CASE consumer.index = consumer.end
  <2>1. consumer'.pc \in {"idle", "bulk"}  BY <1>3, <1>8, <1>9, DoneIs, Zenon
  <2>2. consumer'.pc \notin Work  BY <2>1 DEF Work
  <2>3. Consuming(consumer', p, hs, es, q, T, H, F, S, L, E, N)
    BY <1>5, <1>7, <1>9, <2>2, Zenon DEF Consuming
  <2>4. Queue(p)'  BY <1>1, <1>8, <2>3, OnlyConsumer, Zenon
  <2> QED  BY <1>8, <1>9, <2>4, Zenon
<1>10. CASE consumer.index # consumer.end
  <2>1. PICK h \in Header : h = hs[j]  BY <1>4, <1>5, Zenon
  <2>2. PICK n \in Nat : n = N[j]  BY <1>4, <1>5, Zenon
  <2>3. F < H /\ L < n /\ L \in L .. n - 1
    <3>1. F # H  BY <1>7, <1>10, Zenon
    <3>2. F < H  BY ONLY <1>6, <3>1, F \in Nat, H \in Nat
    <3>3. H <= Base(n) /\ F = Base(L)  BY <1>5, <2>2, Zenon
    <3>4. Base(n) \in Nat  BY Bases, Zenon
    <3>5. Base(L) < Base(n)  BY ONLY <3>2, <3>3, <3>4, F \in Nat, H \in Nat
    <3>6. L < n  BY <3>5, EarlierBlock, Zenon
    <3>7. L \in L .. n - 1  BY ONLY <3>6, L \in Nat, n \in Nat
    <3> QED  BY <3>2, <3>6, <3>7, Zenon
  <2>4. PICK i : i = Position(h, (n - 1) - L)  OBVIOUS
  <2>5. i \in Nat /\ (consumer.indexIndex + 1) % h.capacity = i
    <3>1. (n - 1) - L \in Int  BY ONLY n \in Nat, L \in Nat
    <3>2. i \in Nat  BY <2>4, <3>1, Positions, Zenon
    <3>3. PICK cap \in Nat \ {0} : cap = h.capacity  BY DEF Header
    <3>4. PICK z \in Int : z = h.tail  BY DEF Header
    <3>5. PICK x \in Int : x = z - (n - L)  OBVIOUS
    <3>6. 1 \in Int /\ x + 1 = z - ((n - 1) - L)
      BY ONLY <3>5, z \in Int, n \in Nat, L \in Nat
    <3>7. ((x % cap) + 1) % cap = (x + 1) % cap
      BY ONLY <3>6, x \in Int, cap \in Nat \ {0}, Differ, Zenon
    <3>8. consumer.indexIndex = x % cap
      BY <1>5, <2>1, <2>2, <3>3, <3>4, <3>5, Zenon DEF Position
    <3>9. i = (x + 1) % cap  BY <2>4, <3>3, <3>4, <3>6, Zenon DEF Position
    <3> QED  BY <3>2, <3>3, <3>7, <3>8, <3>9, Zenon
  <2>6. h.index[i + 1] = E[L]
    <3>1. Ring(h, es, L, n, E)  BY <1>4, <1>5, <2>1, <2>2, Zenon DEF Rings
    <3> QED  BY <2>3, <2>4, <3>1, Zenon DEF Ring, EntryBefore
  <2>7. PICK b : b = es[E[L]].value  OBVIOUS
  <2>8. b \in BlockOrNull
    <3>1. n <= C  BY <1>4, <1>5, <2>2, Zenon
    <3>2. L \in L .. C - 1  BY ONLY <2>3, <3>1, L \in Nat, n \in Nat, C \in Nat
    <3>3. E[L] \in DOMAIN es  BY <1>4, <3>2, Zenon DEF Chain
    <3>4. es[E[L]] \in Entry  BY <1>2, <3>3, ElementOfSeq, LenProperties, Zenon
    <3> QED  BY <2>7, <3>4 DEF Entry
  <2>9. consumer' = [consumer EXCEPT !.pc = "take", !.start = consumer.index, !.indexIndex = i,
                                     !.block = b]
    <3>1. consumer' = NextBlock(consumer)  BY <1>8, <1>10, Zenon DEF BlockDone
    <3>2. PICK d : d = [consumer EXCEPT !.pc = "take", !.start = consumer.index,
                                        !.indexIndex = i]
      OBVIOUS
    <3>3. d.best = p /\ d.localBlockIndex = j /\ d.indexIndex = i
      BY ONLY <1>2, <3>2, consumer.best = p DEF Calls
    <3>4. d = [consumer EXCEPT !.pc = "take", !.start = consumer.index,
                 !.indexIndex = (@ + 1) % headers[consumer.best][consumer.localBlockIndex].capacity]
      BY <2>1, <2>5, <3>2, Zenon
    <3>5. EntryOf(d) = E[L]  BY <2>1, <2>6, <3>3, Zenon DEF EntryOf
    <3>6. consumer' = [d EXCEPT !.block = b]
      BY <2>7, <3>1, <3>3, <3>4, <3>5, Zenon DEF NextBlock
    <3> QED  BY ONLY <1>2, <3>2, <3>6 DEF Calls
  <2>10. /\ consumer' \in Calls /\ consumer'.pc = "take" /\ consumer'.best = p
         /\ consumer'.index = consumer.index /\ consumer'.end = consumer.end
         /\ consumer'.count = consumer.count /\ consumer'.max = consumer.max
         /\ consumer'.todo = consumer.todo /\ consumer'.localBlockIndex = j
         /\ consumer'.start = consumer.index /\ consumer'.indexIndex = i
         /\ consumer'.block = b
    BY ONLY <1>2, <2>5, <2>8, <2>9, consumer.best = p DEF Calls, Work
  <2>11. Consuming(consumer', p, hs, es, q, T, H, F, S, L, E, N)
    <3> PICK c : c = consumer'  OBVIOUS
    <3> HIDE DEF hs, es, q, j
    <3>1. /\ c.pc = "take" /\ c.localBlockIndex = j /\ c.index = Wrap(F) /\ c.end = Wrap(H)
          /\ c.start = Wrap(S) /\ c.indexIndex = Position(hs[j], (N[j] - 1) - L)
          /\ c.block = es[E[L]].value
      BY <1>5, <2>1, <2>2, <2>4, <2>7, <2>10, Zenon
    <3>2. /\ F < H /\ F < Base(L) + BLOCK_SIZE /\ S < Base(L) + BLOCK_SIZE
          /\ j \in 1 .. Len(hs) /\ H <= Base(N[j])
      BY <1>5, <2>3, Zenon
    <3>3. Working(c, hs, es, q, T, H, F, S, L, E, N)  BY ONLY <3>1, <3>2 DEF Working
    <3>4. c.pc \in Work  BY <3>1 DEF Work
    <3> QED  BY <2>10, <3>3, <3>4, Zenon DEF Consuming
  <2>12. Queue(p)'  BY <1>1, <1>8, <2>11, OnlyConsumer, Zenon
  <2> QED  BY <2>10, <2>12, Zenon
<1> QED  BY <1>9, <1>10, Zenon

-----------------------------------------------------------------------------
(* A step of producer p and the rest of the queue                           *)

\* What a step of producer p leaves alone.
Aside(p) ==
  /\ headIndex' = headIndex /\ dequeueOptimisticCount' = dequeueOptimisticCount
  /\ dequeueOvercommit' = dequeueOvercommit /\ consumer' = consumer
  /\ \A r \in Producer : r # p =>
       /\ tailIndex'[r] = tailIndex[r] /\ tailBlock'[r] = tailBlock[r]
       /\ headers'[r] = headers[r] /\ entries'[r] = entries[r]
       /\ pc'[r] = pc[r] /\ idxEntry'[r] = idxEntry[r]

LEMMA PushAside ==
    ASSUME Types, NEW p \in Producer, Push(p)
    PROVE  Aside(p)
<1>1. /\ DOMAIN tailIndex = Producer /\ DOMAIN tailBlock = Producer /\ DOMAIN headers = Producer
      /\ DOMAIN entries = Producer /\ DOMAIN pc = Producer /\ DOMAIN idxEntry = Producer
  BY Zenon DEF Types
<1>2. CASE Enqueue(p)
  <2>1. /\ headIndex' = headIndex /\ dequeueOptimisticCount' = dequeueOptimisticCount
        /\ dequeueOvercommit' = dequeueOvercommit /\ consumer' = consumer
        /\ tailIndex' = tailIndex /\ tailBlock' = tailBlock /\ idxEntry' = idxEntry
    BY <1>2, Zenon DEF Enqueue, dequeued
  <2>2. ASSUME NEW r \in Producer, r # p
        PROVE  headers'[r] = headers[r] /\ entries'[r] = entries[r] /\ pc'[r] = pc[r]
    <3>1. pc'[r] = pc[r]
      <4>1. PICK q : q = pc'[p]  OBVIOUS
      <4>2. \E x : pc' = [pc EXCEPT ![p] = x]  BY <1>2, Zenon DEF Enqueue, Transition
      <4> QED  BY <1>1, <2>2, <4>2, Zenon
    <3>2. \/ headers' = headers /\ entries' = entries
          \/ new_block_index(p)
      BY <1>2, Zenon DEF Enqueue, CreateProducer
    <3>3. /\ \E x : headers' = headers \/ headers' = [headers EXCEPT ![p] = x]
          /\ \E x : entries' = entries \/ entries' = [entries EXCEPT ![p] = x]
      BY <3>2, Zenon DEF new_block_index
    <3> QED  BY <1>1, <2>2, <3>1, <3>3, Zenon
  <2> QED  BY <2>1, <2>2, Zenon DEF Aside
<1>3. CASE FindSlot(p)
  <2>1. /\ headIndex' = headIndex /\ dequeueOptimisticCount' = dequeueOptimisticCount
        /\ dequeueOvercommit' = dequeueOvercommit /\ consumer' = consumer
        /\ tailIndex' = tailIndex /\ tailBlock' = tailBlock
        /\ headers' = headers /\ entries' = entries
    BY <1>3, Zenon DEF FindSlot, dequeued, queues
  <2>2. /\ \E x : pc' = [pc EXCEPT ![p] = x]
        /\ \E x : idxEntry' = idxEntry \/ idxEntry' = [idxEntry EXCEPT ![p] = x]
    BY <1>3, Zenon DEF FindSlot
  <2> QED  BY <1>1, <2>1, <2>2, Zenon DEF Aside
<1>4. CASE Grow(p)
  <2>1. /\ headIndex' = headIndex /\ dequeueOptimisticCount' = dequeueOptimisticCount
        /\ dequeueOvercommit' = dequeueOvercommit /\ consumer' = consumer
        /\ tailIndex' = tailIndex /\ tailBlock' = tailBlock
    BY <1>4, Zenon DEF Grow, dequeued
  <2>2. /\ \E x : pc' = [pc EXCEPT ![p] = x]
        /\ \E x : idxEntry' = idxEntry \/ idxEntry' = [idxEntry EXCEPT ![p] = x]
        /\ \E x : headers' = headers \/ headers' = [headers EXCEPT ![p] = x]
        /\ \E x : entries' = entries \/ entries' = [entries EXCEPT ![p] = x]
    BY <1>4, Zenon DEF Grow, new_block_index
  <2> QED  BY <1>1, <2>1, <2>2, Zenon DEF Aside
<1>5. CASE Insert(p)
  <2>1. /\ headIndex' = headIndex /\ dequeueOptimisticCount' = dequeueOptimisticCount
        /\ dequeueOvercommit' = dequeueOvercommit /\ consumer' = consumer
        /\ tailIndex' = tailIndex /\ tailBlock' = tailBlock /\ idxEntry' = idxEntry
    BY <1>5, Zenon DEF Insert, dequeued
  <2>2. /\ \E x : pc' = [pc EXCEPT ![p] = x]
        /\ \E x : headers' = [headers EXCEPT ![p] = x]
        /\ \E x : entries' = [entries EXCEPT ![p] = x]
    BY <1>5, Zenon DEF Insert, Transition, MoveTail
  <2> QED  BY <1>1, <2>1, <2>2, Zenon DEF Aside
<1>6. CASE TakeBlock(p)
  <2>1. /\ headIndex' = headIndex /\ dequeueOptimisticCount' = dequeueOptimisticCount
        /\ dequeueOvercommit' = dequeueOvercommit /\ consumer' = consumer
        /\ tailIndex' = tailIndex /\ headers' = headers
    BY <1>6, Zenon DEF TakeBlock, dequeued
  <2>2. /\ \E x : pc' = [pc EXCEPT ![p] = x]
        /\ \E x : idxEntry' = [idxEntry EXCEPT ![p] = x]
        /\ \E x : tailBlock' = [tailBlock EXCEPT ![p] = x]
        /\ \E x : entries' = [entries EXCEPT ![p] = x]
    BY <1>6, Zenon DEF TakeBlock, Transition, SetEntry
  <2> QED  BY <1>1, <2>1, <2>2, Zenon DEF Aside
<1>7. CASE Rewind(p)
  <2>1. /\ headIndex' = headIndex /\ dequeueOptimisticCount' = dequeueOptimisticCount
        /\ dequeueOvercommit' = dequeueOvercommit /\ consumer' = consumer
        /\ tailIndex' = tailIndex /\ tailBlock' = tailBlock
    BY <1>7, Zenon DEF Rewind, dequeued
  <2>2. /\ \E x : pc' = [pc EXCEPT ![p] = x]
        /\ \E x : idxEntry' = [idxEntry EXCEPT ![p] = x]
        /\ \E x : headers' = [headers EXCEPT ![p] = x]
        /\ \E x : entries' = [entries EXCEPT ![p] = x]
    BY <1>7, Zenon DEF Rewind, Transition, MoveTail, SetEntry
  <2> QED  BY <1>1, <2>1, <2>2, Zenon DEF Aside
<1>8. CASE Construct(p) \/ Commit(p)
  <2>1. /\ headIndex' = headIndex /\ dequeueOptimisticCount' = dequeueOptimisticCount
        /\ dequeueOvercommit' = dequeueOvercommit /\ consumer' = consumer
        /\ tailBlock' = tailBlock /\ idxEntry' = idxEntry
        /\ headers' = headers /\ entries' = entries
    BY <1>8, Zenon DEF Construct, Commit, dequeued, queues
  <2>2. /\ \E x : pc' = [pc EXCEPT ![p] = x]
        /\ \E x : tailIndex' = tailIndex \/ tailIndex' = [tailIndex EXCEPT ![p] = x]
    BY <1>8, Zenon DEF Construct, Commit, Transition, queues
  <2> QED  BY <1>1, <2>1, <2>2, Zenon DEF Aside
<1> QED  BY <1>2, <1>3, <1>4, <1>5, <1>6, <1>7, <1>8, Zenon DEF Push

LEMMA OtherProducers ==
    ASSUME NEW p \in Producer, Aside(p), \A r \in Producer : Queue(r), Queue(p)',
           \A r \in Producer : r # p =>
             \A e \in DOMAIN entries[r] : entries[r][e].value # null =>
               elementsCompletelyDequeued'[entries[r][e].value]
                 = elementsCompletelyDequeued[entries[r][e].value]
    PROVE  (\A r \in Producer : Queue(r))'
<1>1. ASSUME NEW r \in Producer, r # p PROVE Queue(r)'
  <2>1. /\ tailIndex'[r] = tailIndex[r] /\ headIndex'[r] = headIndex[r]
        /\ dequeueOptimisticCount'[r] = dequeueOptimisticCount[r]
        /\ dequeueOvercommit'[r] = dequeueOvercommit[r]
        /\ tailBlock'[r] = tailBlock[r] /\ headers'[r] = headers[r] /\ entries'[r] = entries[r]
        /\ pc'[r] = pc[r] /\ idxEntry'[r] = idxEntry[r]
        /\ consumer' = consumer
    BY <1>1, Zenon DEF Aside
  <2>2. Queue(r)  BY Zenon
  <2>3. \A e \in DOMAIN entries[r] : entries[r][e].value # null =>
          elementsCompletelyDequeued'[entries[r][e].value]
            = elementsCompletelyDequeued[entries[r][e].value]
    BY <1>1, Zenon
  <2> QED  BY <2>1, <2>2, <2>3, OtherQueue, Zenon
<1> QED  BY <1>1, Zenon

LEMMA FreshKept ==
    ASSUME Fresh, NEW p \in Producer, Aside(p), producers' = producers, pc[p] # "idle"
    PROVE  Fresh'
BY Zenon DEF Fresh, Aside

LEMMA WantedKept ==
    ASSUME Wanted, NEW p \in Producer, Aside(p),
           headIndex[p] # tailIndex[p] => headIndex[p] # tailIndex'[p]
    PROVE  Wanted'
<1>1. consumer' = consumer /\ headIndex' = headIndex  BY Zenon DEF Aside
<1>2. \A r \in Producer : headIndex[r] # tailIndex[r] => headIndex'[r] # tailIndex'[r]
  BY <1>1, Zenon DEF Aside
<1> QED  BY <1>1, <1>2, Zenon DEF Wanted

\* The blocks of p's entries stay the same.
SameBlocks(p) == \A e \in Nat : \A b \in Block :
                   HasBlock(entries'[p], e, b) <=> HasBlock(entries[p], e, b)

LEMMA OwnersKept ==
    ASSUME Owners, UNCHANGED store, \A r \in Producer : SameBlocks(r),
           consumer' = consumer \/ (consumer.pc # "free" /\ consumer'.pc # "free")
    PROVE  Owners'
<1>1. Unused' = Unused /\ initialBlockPoolIndex' = initialBlockPoolIndex /\ hands' = hands
  BY Zenon DEF store, Unused
<1>2. \A b \in Block : \A r \in Producer : \A e \in Nat :
        HasBlock(entries'[r], e, b) <=> HasBlock(entries[r], e, b)
  BY Zenon DEF SameBlocks
<1>3. \A b : (consumer'.pc = "free" /\ consumer'.block = b)
               <=> (consumer.pc = "free" /\ consumer.block = b)
  BY Zenon
<1>4. (\A b \in Block : \A p, q \in Producer : \A e, f \in Nat :
         Holds(p, e, b) /\ Holds(q, f, b) => p = q /\ e = f)'
  <2>1. ASSUME NEW b \in Block, NEW p \in Producer, NEW q \in Producer, NEW e \in Nat,
               NEW f \in Nat, HasBlock(entries'[p], e, b), HasBlock(entries'[q], f, b)
        PROVE  p = q /\ e = f
    <3>1. HasBlock(entries[p], e, b) /\ HasBlock(entries[q], f, b)  BY <1>2, <2>1, Zenon
    <3> QED  BY <3>1, Zenon DEF Owners, Holds
  <2> QED  BY <2>1, Zenon DEF Holds
<1>5. (\A b \in Block : \A p \in Producer : \A e \in Nat : Holds(p, e, b) =>
         b \notin Unused /\ ~(consumer.pc = "free" /\ consumer.block = b))'
  BY <1>1, <1>2, <1>3, Zenon DEF Owners, Holds
<1>6. (consumer.pc = "free" => consumer.block \in Block \ Unused)'
  BY <1>1, <1>3, Zenon DEF Owners
<1>7. (\A b \in Block : \/ b \in Unused \/ (consumer.pc = "free" /\ consumer.block = b)
                        \/ \E p \in Producer : \E e \in Nat : Holds(p, e, b))'
  BY <1>1, <1>2, <1>3, Zenon DEF Owners, Holds
<1>8. (\A b \in 1 .. InitialPool : initialBlockPoolIndex < b => hands[b] = 1)'
  BY <1>1, Zenon DEF Owners
<1> QED  BY <1>4, <1>5, <1>6, <1>7, <1>8, Zenon DEF Owners

LEMMA BlocksAside ==
    ASSUME NEW p \in Producer, Aside(p), SameBlocks(p)
    PROVE  \A r \in Producer : SameBlocks(r)
BY Zenon DEF Aside, SameBlocks

LEMMA StepOfProducer ==
    ASSUME Inv, NEW p \in Producer, Aside(p), Queue(p)', Types', Fresh', SameBlocks(p),
           UNCHANGED <<elementsCompletelyDequeued, store>>,
           headIndex[p] # tailIndex[p] => headIndex[p] # tailIndex'[p]
    PROVE  Inv'
<1>1. Wanted'  BY WantedKept, Zenon DEF Inv
<1>2. Owners'
  <2>1. consumer' = consumer  BY Zenon DEF Aside
  <2>2. \A r \in Producer : SameBlocks(r)  BY BlocksAside, Zenon
  <2> QED  BY <2>1, <2>2, OwnersKept, Zenon DEF Inv
<1>3. (\A r \in Producer : Queue(r))'
  <2>1. \A r \in Producer : Queue(r)  BY Zenon DEF Inv
  <2>2. elementsCompletelyDequeued' = elementsCompletelyDequeued  OBVIOUS
  <2> QED  BY <2>1, <2>2, OtherProducers, Zenon
<1> QED  BY <1>1, <1>2, <1>3, Zenon DEF Inv

LEMMA Updated ==
    ASSUME NEW A, NEW X, NEW f \in [A -> X], NEW a, NEW v \in X, NEW g, g = [f EXCEPT ![a] = v]
    PROVE  g \in [A -> X] /\ (a \in A => g[a] = v)
<1>1. DOMAIN g = A /\ \A x \in A : g[x] = IF x = a THEN v ELSE f[x]  BY Zenon
<1>2. g = [x \in A |-> g[x]]  BY <1>1, Zenon
<1>3. \A x \in A : g[x] \in X  BY <1>1, Zenon
<1> QED  BY <1>1, <1>2, <1>3, Zenon

LEMMA FirstProducer ==
    ASSUME NEW p \in Producer, producers \in Seq(Producer), producers' = <<p>> \o producers
    PROVE  /\ producers' \in Seq(Producer)
           /\ p \in ToSet(producers') /\ ToSet(producers) \subseteq ToSet(producers')
<1>1. PICK s \in Seq(Producer) : s = producers  OBVIOUS
<1>2. PICK t : t = <<p>> \o s  OBVIOUS
<1>3. t \in Seq(Producer)  BY <1>2
<1>4. p \in ToSet(t)
  <2>1. 1 \in DOMAIN t /\ t[1] = p  BY <1>2
  <2> QED  BY <2>1, Zenon DEF ToSet
<1>5. ASSUME NEW r \in ToSet(s) PROVE r \in ToSet(t)
  <2>1. PICK i \in DOMAIN s : r = s[i]  BY Zenon DEF ToSet
  <2>2. i + 1 \in DOMAIN t /\ t[i + 1] = r  BY <1>2, <2>1
  <2> QED  BY <2>2, Zenon DEF ToSet
<1> QED  BY <1>1, <1>2, <1>3, <1>4, <1>5, Zenon

LEMMA EnqueueKeeps ==
    ASSUME Inv, NEW p \in Producer, Enqueue(p), UNCHANGED limit
    PROVE  Inv'
<1>1. Types /\ Fresh /\ Queue(p) /\ Aside(p)
  <2>1. Types  BY Zenon DEF Inv
  <2>2. Push(p)  BY Zenon DEF Push
  <2> QED  BY <2>1, <2>2, PushAside, Zenon DEF Inv
<1>2. /\ tailIndex' = tailIndex /\ tailBlock' = tailBlock /\ idxEntry' = idxEntry
      /\ headIndex' = headIndex /\ dequeueOptimisticCount' = dequeueOptimisticCount
      /\ dequeueOvercommit' = dequeueOvercommit /\ consumer' = consumer
      /\ elements' = elements /\ elementsCompletelyDequeued' = elementsCompletelyDequeued
      /\ initialBlockPoolIndex' = initialBlockPoolIndex /\ hands' = hands /\ heap' = heap
      /\ UNCHANGED store
  BY Zenon DEF Enqueue, dequeued, blocks, store
<1>3. pc' \in [Producer -> Doing]
  <2>1. PICK x : /\ x = IF tailIndex[p] % BLOCK_SIZE # 0 THEN "construct"
                        ELSE IF Room(p) THEN "slot" ELSE "idle"
                 /\ pc' = [pc EXCEPT ![p] = x]
    BY Zenon DEF Enqueue, Transition
  <2>2. x \in Doing  BY <2>1 DEF Doing
  <2>3. pc \in [Producer -> Doing]  BY <1>1, TypesOf, Zenon
  <2> QED  BY <2>1, <2>2, <2>3, Updated, Zenon
<1>4. \/ p \in ToSet(producers) /\ UNCHANGED <<producers, headers, entries>>
      \/ /\ p \notin ToSet(producers) /\ producers' = <<p>> \o producers
         /\ UNCHANGED <<headers, entries>>
      \/ /\ p \notin ToSet(producers) /\ producers' = <<p>> \o producers
         /\ new_block_index(p)
  BY Zenon DEF Enqueue, CreateProducer
<1>5. /\ producers' \in Seq(Producer) /\ p \in ToSet(producers')
      /\ ToSet(producers) \subseteq ToSet(producers')
  <2>1. producers \in Seq(Producer)  BY <1>1, Zenon DEF Types
  <2> QED  BY <1>4, <2>1, FirstProducer, Zenon
<1>6. /\ Queue(p)' /\ headers' \in [Producer -> Seq(Header)]
      /\ entries' \in [Producer -> Seq(Entry)] /\ SameBlocks(p)
  <2>1. CASE UNCHANGED <<headers, entries>>
    <3>1. Queue(p)'  BY <1>1, <2>1, EnqueueQueue, Zenon
    <3>2. SameBlocks(p)  BY <2>1, Zenon DEF SameBlocks
    <3>3. headers \in [Producer -> Seq(Header)] /\ entries \in [Producer -> Seq(Entry)]
      BY <1>1, Zenon DEF Types
    <3> QED  BY <2>1, <3>1, <3>2, <3>3, Zenon
  <2>2. CASE p \notin ToSet(producers) /\ new_block_index(p)
    <3>1. headers[p] = <<>> /\ entries[p] = <<>>  BY <1>1, <2>2, Zenon DEF Fresh
    <3>2. Queue(p)'  BY <1>1, <2>2, <3>1, CreateQueue, Zenon
    <3>3. PICK h \in Header, es2 \in Seq(Entry) :
             /\ headers' = [headers EXCEPT ![p] = <<h>>]
             /\ entries' = [entries EXCEPT ![p] = es2]
             /\ \A e \in DOMAIN es2 : es2[e].value = null
      BY <1>1, <2>2, <3>1, FirstIndex, Zenon
    <3>4. headers \in [Producer -> Seq(Header)] /\ entries \in [Producer -> Seq(Entry)]
      BY <1>1, Zenon DEF Types
    <3>5. <<h>> \in Seq(Header)  OBVIOUS
    <3>6. headers' \in [Producer -> Seq(Header)]  BY <3>3, <3>4, <3>5, Updated, Zenon
    <3>7. entries' \in [Producer -> Seq(Entry)] /\ entries'[p] = es2
      BY <3>3, <3>4, Updated, Zenon
    <3>8. SameBlocks(p)
      <4>1. DOMAIN entries[p] = {}  BY <3>1
      <4>2. null \notin Block  BY Values, Zenon
      <4>3. ASSUME NEW e, NEW b \in Block PROVE ~HasBlock(es2, e, b) /\ ~HasBlock(entries[p], e, b)
        <5>1. e \in DOMAIN es2 => es2[e].value # b  BY <3>3, <4>2, Zenon
        <5> QED  BY <4>1, <5>1, Zenon DEF HasBlock
      <4> QED  BY <3>7, <4>3, Zenon DEF SameBlocks
    <3> QED  BY <3>2, <3>6, <3>7, <3>8, Zenon
  <2> QED  BY <1>4, <2>1, <2>2, Zenon
<1>7. Types'  BY <1>1, <1>2, <1>3, <1>5, <1>6, Zenon DEF Types
<1>8. Fresh'  BY <1>1, <1>5, Zenon DEF Fresh, Aside
<1>9. UNCHANGED <<elementsCompletelyDequeued, store>>  BY <1>2, Zenon
<1> QED  BY <1>1, <1>2, <1>6, <1>7, <1>8, <1>9, StepOfProducer, Zenon

LEMMA FindSlotKeeps ==
    ASSUME Inv, NEW p \in Producer, FindSlot(p), UNCHANGED limit
    PROVE  Inv'
<1>1. Types /\ Fresh /\ Queue(p) /\ Aside(p)
  <2>1. Types  BY Zenon DEF Inv
  <2>2. Push(p)  BY Zenon DEF Push
  <2> QED  BY <2>1, <2>2, PushAside, Zenon DEF Inv
<1>2. /\ UNCHANGED <<queues, dequeued, blocks, store, consumer>>
      /\ pc[p] = "slot"
      /\ \E x \in {"idle", "insert", "grow"} : pc' = [pc EXCEPT ![p] = x]
      /\ idxEntry' = idxEntry \/ \E e : idxEntry' = [idxEntry EXCEPT ![p] = e]
  BY Zenon DEF FindSlot
<1>3. Queue(p)' /\ idxEntry'[p] \in Nat  BY <1>1, FindSlotQueue, Zenon
<1>4. pc' \in [Producer -> Doing]
  <2>1. PICK x \in {"idle", "insert", "grow"} : pc' = [pc EXCEPT ![p] = x]  BY <1>2, Zenon
  <2>2. x \in Doing  BY DEF Doing
  <2>3. pc \in [Producer -> Doing]  BY <1>1, TypesOf, Zenon
  <2> QED  BY <2>1, <2>2, <2>3, Updated, Zenon
<1>5. idxEntry' \in [Producer -> Nat]
  <2>1. idxEntry \in [Producer -> Nat]  BY <1>1, Zenon DEF Types
  <2>2. CASE idxEntry' = idxEntry  BY <2>1, <2>2, Zenon
  <2>3. CASE \E e : idxEntry' = [idxEntry EXCEPT ![p] = e]
    <3>1. PICK e : idxEntry' = [idxEntry EXCEPT ![p] = e]  BY <2>3, Zenon
    <3>2. e \in Nat  BY <1>3, <2>1, <3>1, Zenon
    <3> QED  BY <2>1, <3>1, <3>2, Updated, Zenon
  <2> QED  BY <1>2, <2>2, <2>3, Zenon
<1>6. Types'  BY <1>1, <1>2, <1>4, <1>5, Zenon DEF Types, queues, dequeued, blocks, store
<1>7. Fresh'
  <2>1. pc[p] # "idle"  BY ONLY <1>2
  <2>2. producers' = producers  BY <1>2, Zenon DEF queues
  <2> QED  BY <1>1, <2>1, <2>2, FreshKept, Zenon
<1>8. SameBlocks(p)
  <2>1. entries' = entries  BY <1>2, Zenon DEF queues
  <2> QED  BY <2>1, Zenon DEF SameBlocks
<1>9. UNCHANGED <<elementsCompletelyDequeued, store, tailIndex>>
  BY <1>2, Zenon DEF queues, blocks
<1> QED  BY <1>1, <1>3, <1>6, <1>7, <1>8, <1>9, StepOfProducer, Zenon

LEMMA GrowKeeps ==
    ASSUME Inv, NEW p \in Producer, Grow(p), UNCHANGED limit
    PROVE  Inv'
<1>1. Types /\ Fresh /\ Queue(p) /\ Aside(p)
  <2>1. Types  BY Zenon DEF Inv
  <2>2. Push(p)  BY Zenon DEF Push
  <2> QED  BY <2>1, <2>2, PushAside, Zenon DEF Inv
<1>2. /\ UNCHANGED <<producers, tailIndex, tailBlock, dequeued, blocks, store, consumer>>
      /\ pc[p] = "grow"
      /\ \/ /\ new_block_index(p) /\ pc' = [pc EXCEPT ![p] = "insert"]
            /\ idxEntry' = [idxEntry EXCEPT ![p] = AfterTail(Last(headers'[p]))]
         \/ UNCHANGED <<headers, entries, idxEntry>> /\ pc' = [pc EXCEPT ![p] = "idle"]
  BY Zenon DEF Grow
<1>3. /\ headers \in [Producer -> Seq(Header)] /\ entries \in [Producer -> Seq(Entry)]
      /\ idxEntry \in [Producer -> Nat] /\ pc \in [Producer -> Doing]
  BY <1>1, Zenon DEF Types
<1>4. /\ Queue(p)' /\ headers' \in [Producer -> Seq(Header)] /\ pc' \in [Producer -> Doing]
      /\ entries' \in [Producer -> Seq(Entry)] /\ idxEntry' \in [Producer -> Nat]
      /\ SameBlocks(p)
  <2>1. CASE UNCHANGED <<headers, entries, idxEntry>> /\ pc' = [pc EXCEPT ![p] = "idle"]
    <3>1. Queue(p)'  BY <1>1, <2>1, GrowFails, Zenon
    <3>2. SameBlocks(p)  BY <2>1, Zenon DEF SameBlocks
    <3>3. "idle" \in Doing  BY DEF Doing
    <3>4. pc' \in [Producer -> Doing]  BY <1>3, <2>1, <3>3, Updated, Zenon
    <3> QED  BY <1>3, <2>1, <3>1, <3>2, <3>4, Zenon
  <2>2. CASE /\ new_block_index(p) /\ pc' = [pc EXCEPT ![p] = "insert"]
             /\ idxEntry' = [idxEntry EXCEPT ![p] = AfterTail(Last(headers'[p]))]
    <3>1. /\ Queue(p)' /\ entries'[p] \in Seq(Entry) /\ headers'[p] \in Seq(Header)
          /\ idxEntry'[p] \in Nat /\ headers[p] # <<>>
          /\ Extended(entries'[p], entries[p], Current(p).capacity)
      BY <1>1, <2>2, GrowQueue, Zenon
    <3>2. "insert" \in Doing  BY DEF Doing
    <3>3. pc' \in [Producer -> Doing]  BY <1>3, <2>2, <3>2, Updated, Zenon
    <3>4. headers' \in [Producer -> Seq(Header)]
      <4>1. PICK x : headers' = [headers EXCEPT ![p] = x]  BY <2>2, Zenon DEF new_block_index
      <4>2. x \in Seq(Header)  BY <1>3, <3>1, <4>1, Zenon
      <4> QED  BY <1>3, <4>1, <4>2, Updated, Zenon
    <3>5. entries' \in [Producer -> Seq(Entry)]
      <4>1. PICK x : entries' = [entries EXCEPT ![p] = x]  BY <2>2, Zenon DEF new_block_index
      <4>2. x \in Seq(Entry)  BY <1>3, <3>1, <4>1, Zenon
      <4> QED  BY <1>3, <4>1, <4>2, Updated, Zenon
    <3>6. idxEntry' \in [Producer -> Nat]
      <4>1. PICK x : idxEntry' = [idxEntry EXCEPT ![p] = x]  BY <2>2, Zenon
      <4>2. x \in Nat  BY <1>3, <3>1, <4>1, Zenon
      <4> QED  BY <1>3, <4>1, <4>2, Updated, Zenon
    <3>7. SameBlocks(p)
      <4>1. NoEntry.value = null /\ null \notin Block
        <5>1. NoEntry.value = null  BY DEF NoEntry
        <5> QED  BY <5>1, Values, Zenon
      <4>2. ASSUME NEW e \in Nat, NEW b \in Block, HasBlock(entries'[p], e, b)
            PROVE  HasBlock(entries[p], e, b)
        <5>1. e \in DOMAIN entries'[p] /\ entries'[p][e].value = b
          BY <4>2, Zenon DEF HasBlock
        <5>2. entries'[p][e] # NoEntry  BY <4>1, <5>1, Zenon
        <5>3. e \in DOMAIN entries[p]  BY <3>1, <5>1, <5>2, Zenon DEF Extended
        <5> QED  BY <3>1, <5>1, <5>3, Zenon DEF HasBlock, Extended
      <4>3. ASSUME NEW e \in Nat, NEW b \in Block, HasBlock(entries[p], e, b)
            PROVE  HasBlock(entries'[p], e, b)
        BY <3>1, <4>3, Zenon DEF HasBlock, Extended
      <4> QED  BY <4>2, <4>3, Zenon DEF SameBlocks
    <3> QED  BY <3>1, <3>3, <3>4, <3>5, <3>6, <3>7, Zenon
  <2> QED  BY <1>2, <2>1, <2>2, Zenon
<1>5. Types'  BY <1>1, <1>2, <1>4, Zenon DEF Types, dequeued, blocks, store
<1>6. Fresh'
  <2>1. pc[p] # "idle"  BY ONLY <1>2
  <2>2. producers' = producers  BY <1>2, Zenon
  <2> QED  BY <1>1, <2>1, <2>2, FreshKept, Zenon
<1>7. UNCHANGED <<elementsCompletelyDequeued, store, tailIndex>>  BY <1>2, Zenon DEF blocks
<1> QED  BY <1>1, <1>4, <1>5, <1>6, <1>7, StepOfProducer, Zenon

LEMMA InsertKeeps ==
    ASSUME Inv, NEW p \in Producer, Insert(p), UNCHANGED limit
    PROVE  Inv'
<1>1. Types /\ Fresh /\ Queue(p) /\ Aside(p)
  <2>1. Types  BY Zenon DEF Inv
  <2>2. Push(p)  BY Zenon DEF Push
  <2> QED  BY <2>1, <2>2, PushAside, Zenon DEF Inv
<1>2. /\ UNCHANGED <<producers, tailIndex, tailBlock, dequeued, blocks, store, idxEntry, consumer>>
      /\ pc[p] = "insert" /\ pc' = [pc EXCEPT ![p] = "block"]
      /\ \E x : headers' = [headers EXCEPT ![p] = x]
      /\ \E x : entries' = [entries EXCEPT ![p] = x]
  BY Zenon DEF Insert, Transition, MoveTail
<1>3. /\ headers \in [Producer -> Seq(Header)] /\ entries \in [Producer -> Seq(Entry)]
      /\ pc \in [Producer -> Doing]
  BY <1>1, Zenon DEF Types
<1>4. /\ Queue(p)' /\ headers'[p] \in Seq(Header) /\ entries'[p] \in Seq(Entry)
      /\ DOMAIN entries'[p] = DOMAIN entries[p]
      /\ \A e \in DOMAIN entries[p] : entries'[p][e].value = entries[p][e].value
  BY <1>1, InsertQueue, Zenon
<1>5. headers' \in [Producer -> Seq(Header)]
  <2>1. PICK x : headers' = [headers EXCEPT ![p] = x]  BY <1>2, Zenon
  <2>2. x \in Seq(Header)  BY <1>3, <1>4, <2>1, Zenon
  <2> QED  BY <1>3, <2>1, <2>2, Updated, Zenon
<1>6. entries' \in [Producer -> Seq(Entry)]
  <2>1. PICK x : entries' = [entries EXCEPT ![p] = x]  BY <1>2, Zenon
  <2>2. x \in Seq(Entry)  BY <1>3, <1>4, <2>1, Zenon
  <2> QED  BY <1>3, <2>1, <2>2, Updated, Zenon
<1>7. pc' \in [Producer -> Doing]
  <2>1. "block" \in Doing  BY DEF Doing
  <2> QED  BY <1>2, <1>3, <2>1, Updated, Zenon
<1>8. SameBlocks(p)  BY <1>4, Zenon DEF SameBlocks, HasBlock
<1>9. Types'  BY <1>1, <1>2, <1>5, <1>6, <1>7, Zenon DEF Types, dequeued, blocks, store
<1>10. Fresh'
  <2>1. pc[p] # "idle"  BY ONLY <1>2
  <2>2. producers' = producers  BY <1>2, Zenon
  <2> QED  BY <1>1, <2>1, <2>2, FreshKept, Zenon
<1>11. UNCHANGED <<elementsCompletelyDequeued, store, tailIndex>>  BY <1>2, Zenon DEF blocks
<1> QED  BY <1>1, <1>4, <1>8, <1>9, <1>10, <1>11, StepOfProducer, Zenon

LEMMA RewindKeeps ==
    ASSUME Inv, NEW p \in Producer, Rewind(p), UNCHANGED limit
    PROVE  Inv'
<1>1. Types /\ Fresh /\ Queue(p) /\ Aside(p)
  <2>1. Types  BY Zenon DEF Inv
  <2>2. Push(p)  BY Zenon DEF Push
  <2> QED  BY <2>1, <2>2, PushAside, Zenon DEF Inv
<1>2. /\ UNCHANGED <<producers, tailIndex, tailBlock, dequeued, blocks, store, consumer>>
      /\ pc[p] = "block" /\ pc' = [pc EXCEPT ![p] = "idle"]
      /\ \E x : headers' = [headers EXCEPT ![p] = x]
      /\ \E x : entries' = [entries EXCEPT ![p] = x]
      /\ idxEntry' = [idxEntry EXCEPT ![p] = 0]
  BY Zenon DEF Rewind, Transition, MoveTail, SetEntry
<1>3. /\ headers \in [Producer -> Seq(Header)] /\ entries \in [Producer -> Seq(Entry)]
      /\ pc \in [Producer -> Doing] /\ idxEntry \in [Producer -> Nat]
  BY <1>1, Zenon DEF Types
<1>4. Queue(p)' /\ headers'[p] \in Seq(Header) /\ entries'[p] = entries[p]
  BY <1>1, RewindQueue, Zenon
<1>5. headers' \in [Producer -> Seq(Header)]
  <2>1. PICK x : headers' = [headers EXCEPT ![p] = x]  BY <1>2, Zenon
  <2>2. x \in Seq(Header)  BY <1>3, <1>4, <2>1, Zenon
  <2> QED  BY <1>3, <2>1, <2>2, Updated, Zenon
<1>6. entries' \in [Producer -> Seq(Entry)]
  <2>1. PICK x : entries' = [entries EXCEPT ![p] = x]  BY <1>2, Zenon
  <2>2. x \in Seq(Entry)  BY <1>3, <1>4, <2>1, Zenon
  <2> QED  BY <1>3, <2>1, <2>2, Updated, Zenon
<1>7. pc' \in [Producer -> Doing] /\ idxEntry' \in [Producer -> Nat]
  <2>1. "idle" \in Doing /\ 0 \in Nat  BY DEF Doing
  <2> QED  BY <1>2, <1>3, <2>1, Updated, Zenon
<1>8. SameBlocks(p)  BY <1>4, Zenon DEF SameBlocks
<1>9. Types'  BY <1>1, <1>2, <1>5, <1>6, <1>7, Zenon DEF Types, dequeued, blocks, store
<1>10. Fresh'
  <2>1. pc[p] # "idle"  BY ONLY <1>2
  <2>2. producers' = producers  BY <1>2, Zenon
  <2> QED  BY <1>1, <2>1, <2>2, FreshKept, Zenon
<1>11. UNCHANGED <<elementsCompletelyDequeued, store, tailIndex>>  BY <1>2, Zenon DEF blocks
<1> QED  BY <1>1, <1>4, <1>8, <1>9, <1>10, <1>11, StepOfProducer, Zenon

LEMMA ElementsAre ==
    ASSUME elements \in [Block -> [0 .. BLOCK_SIZE - 1 -> Index \union {null}]],
           NEW b, NEW i, NEW v \in Index \union {null},
           elements' = [elements EXCEPT ![b][i] = v]
    PROVE  elements' \in [Block -> [0 .. BLOCK_SIZE - 1 -> Index \union {null}]]
<1>1. PICK g : g = [elements[b] EXCEPT ![i] = v]  OBVIOUS
<1>2. elements' = [elements EXCEPT ![b] = g]  BY <1>1, Zenon
<1>3. CASE b \in Block
  <2>1. elements[b] \in [0 .. BLOCK_SIZE - 1 -> Index \union {null}]  BY <1>3, Zenon
  <2>2. g \in [0 .. BLOCK_SIZE - 1 -> Index \union {null}]  BY <1>1, <2>1, Updated, Zenon
  <2>3. PICK X : X = [0 .. BLOCK_SIZE - 1 -> Index \union {null}]  OBVIOUS
  <2>4. elements \in [Block -> X] /\ g \in X  BY <2>2, <2>3, Zenon
  <2>5. elements' \in [Block -> X]  BY ONLY <1>2, <2>4, Updated, Zenon
  <2> QED  BY <2>3, <2>5, Zenon
<1>4. CASE b \notin Block
  <2>1. elements' = elements
    <3>1. DOMAIN elements = Block /\ elements = [x \in Block |-> elements[x]]  BY Zenon
    <3>2. elements' = [x \in Block |-> elements[x]]  BY <1>2, <1>4, <3>1, Zenon
    <3> QED  BY <3>1, <3>2, Zenon
  <2> QED  BY <2>1, Zenon
<1> QED  BY <1>3, <1>4, Zenon

LEMMA ElementKeeps ==
    ASSUME Inv, NEW p \in Producer, Construct(p) \/ Commit(p), UNCHANGED limit
    PROVE  Inv'
<1>1. Types /\ Fresh /\ Queue(p) /\ Aside(p)
  <2>1. Types  BY Zenon DEF Inv
  <2>2. Push(p)  BY Zenon DEF Push
  <2> QED  BY <2>1, <2>2, PushAside, Zenon DEF Inv
<1>2. /\ UNCHANGED <<producers, tailBlock, headers, entries, dequeued,
                     elementsCompletelyDequeued, store, idxEntry, consumer>>
      /\ \/ /\ pc[p] = "construct" /\ pc' = [pc EXCEPT ![p] = "commit"]
            /\ tailIndex' = tailIndex
            /\ elements' = [elements EXCEPT ![tailBlock[p]][tailIndex[p] % BLOCK_SIZE]
                                                = tailIndex[p]]
         \/ /\ pc[p] = "commit" /\ pc' = [pc EXCEPT ![p] = "idle"]
            /\ \E t : tailIndex' = [tailIndex EXCEPT ![p] = t]
            /\ elements' = elements
  <2>1. CASE Construct(p)
    <3>1. /\ UNCHANGED <<producers, tailBlock, headers, entries, dequeued,
                         elementsCompletelyDequeued, store, idxEntry, consumer>>
          /\ tailIndex' = tailIndex
      BY <2>1, Zenon DEF Construct, queues
    <3> QED  BY <2>1, <3>1, Zenon DEF Construct, Transition
  <2>2. CASE Commit(p)
    <3>1. /\ UNCHANGED <<producers, tailBlock, headers, entries, dequeued,
                         elementsCompletelyDequeued, store, idxEntry, consumer>>
          /\ elements' = elements /\ \E t : tailIndex' = [tailIndex EXCEPT ![p] = t]
      BY <2>2, Zenon DEF Commit, blocks
    <3>2. pc[p] = "commit" /\ pc' = [pc EXCEPT ![p] = "idle"]
      BY <2>2, Zenon DEF Commit, Transition
    <3> QED  BY <3>1, <3>2, Zenon
  <2> QED  BY <2>1, <2>2, Zenon
<1>3. /\ tailIndex \in [Producer -> Index] /\ pc \in [Producer -> Doing]
      /\ elements \in [Block -> [0 .. BLOCK_SIZE - 1 -> Index \union {null}]]
  BY <1>1, Zenon DEF Types
<1>4. /\ Queue(p)' /\ tailIndex'[p] \in Index
      /\ headIndex[p] # tailIndex[p] => headIndex[p] # tailIndex'[p]
  BY <1>1, ElementQueue, Zenon
<1>5. pc' \in [Producer -> Doing]
  <2>1. \E x \in {"idle", "commit"} : pc' = [pc EXCEPT ![p] = x]  BY <1>2, Zenon
  <2>2. PICK x \in {"idle", "commit"} : pc' = [pc EXCEPT ![p] = x]  BY <2>1, Zenon
  <2>3. x \in Doing  BY DEF Doing
  <2> QED  BY <1>3, <2>2, <2>3, Updated, Zenon
<1>6. tailIndex' \in [Producer -> Index]
  <2>1. CASE tailIndex' = tailIndex  BY <1>3, <2>1, Zenon
  <2>2. CASE \E t : tailIndex' = [tailIndex EXCEPT ![p] = t]
    <3>1. PICK t : tailIndex' = [tailIndex EXCEPT ![p] = t]  BY <2>2, Zenon
    <3>2. t \in Index  BY <1>3, <1>4, <3>1, Zenon
    <3> QED  BY <1>3, <3>1, <3>2, Updated, Zenon
  <2> QED  BY <1>2, <2>1, <2>2, Zenon
<1>7. elements' \in [Block -> [0 .. BLOCK_SIZE - 1 -> Index \union {null}]]
  <2>1. tailIndex[p] \in Index \union {null}  BY <1>3, Zenon
  <2>2. PICK i : i = tailIndex[p] % BLOCK_SIZE  OBVIOUS
  <2> QED  BY <1>2, <1>3, <2>1, ElementsAre, Zenon
<1>8. SameBlocks(p)
  <2>1. entries' = entries  BY <1>2, Zenon
  <2> QED  BY <2>1, Zenon DEF SameBlocks
<1>9. Types'  BY <1>1, <1>2, <1>5, <1>6, <1>7, Zenon DEF Types, dequeued, store
<1>10. Fresh'
  <2>1. pc[p] # "idle"  BY ONLY <1>2
  <2>2. producers' = producers  BY <1>2, Zenon
  <2> QED  BY <1>1, <2>1, <2>2, FreshKept, Zenon
<1>11. UNCHANGED <<elementsCompletelyDequeued, store>>  BY <1>2, Zenon
<1> QED  BY <1>1, <1>4, <1>8, <1>9, <1>10, <1>11, StepOfProducer, Zenon

\* The block that a producer is given was unused, and is no longer.
LEMMA Requisitioned ==
    ASSUME Types, Owners, NEW b \in Block, requisition_block(b)
    PROVE  /\ b \in Unused /\ Unused' = Unused \ {b}
           /\ initialBlockPoolIndex' \in 0 .. InitialPool
           /\ hands' \in [1 .. InitialPool -> 0 .. 1]
           /\ heap' \subseteq InitialPool + 1 .. InitialPool + Heap
           /\ \A x \in 1 .. InitialPool : initialBlockPoolIndex' < x => hands'[x] = 1
<1>1. /\ InitialPool \in Nat /\ Heap \in Nat /\ initialBlockPoolIndex \in 0 .. InitialPool
      /\ hands \in [1 .. InitialPool -> 0 .. 1]
      /\ heap \subseteq InitialPool + 1 .. InitialPool + Heap
      /\ \A x \in 1 .. InitialPool : initialBlockPoolIndex < x => hands[x] = 1
      /\ b \in 1 .. InitialPool + Heap
  BY Sizes DEF Types, Owners, Block
<1>2. CASE /\ b = initialBlockPoolIndex + 1 /\ b <= InitialPool
           /\ initialBlockPoolIndex' = b
           /\ UNCHANGED <<hands, heap>>
  <2>1. hands[b] = 1 /\ b \in 1 .. InitialPool  BY <1>1, <1>2
  <2>2. b \in Unused  BY <1>1, <1>2 DEF Unused
  <2>3. initialBlockPoolIndex' \in 0 .. InitialPool
        /\ \A x \in 1 .. InitialPool : initialBlockPoolIndex' < x => hands'[x] = 1
    BY <1>1, <1>2
  <2>4. Unused' = Unused \ {b}
    BY <1>1, <1>2, <2>1 DEF Unused
  <2> QED  BY <1>1, <1>2, <2>2, <2>3, <2>4, Zenon
<1>3. CASE /\ initialBlockPoolIndex = InitialPool
           /\ b <= InitialPool /\ FreeBlocks!Take(b)
           /\ UNCHANGED <<initialBlockPoolIndex, heap>>
  <2>1. b \in 1 .. InitialPool  BY <1>1, <1>3
  <2>2. hands[b] = 0 /\ hands' = [hands EXCEPT ![b] = 1]  BY <1>3, Zenon DEF FreeBlocks!Take
  <2>3. b \in Unused  BY <2>1, <2>2, Zenon DEF Unused
  <2>4. hands' \in [1 .. InitialPool -> 0 .. 1]
    <3>1. 1 \in 0 .. 1  OBVIOUS
    <3> QED  BY <1>1, <2>2, <3>1, Updated, Zenon
  <2>5. \A x \in 1 .. InitialPool : hands'[x] = IF x = b THEN 1 ELSE hands[x]
    BY <1>1, <2>2, Zenon
  <2>6. \A x \in 1 .. InitialPool : initialBlockPoolIndex' < x => hands'[x] = 1
    BY <1>1, <1>3, <2>5
  <2>7. Unused' = Unused \ {b}
    BY <1>1, <1>3, <2>1, <2>5 DEF Unused
  <2> QED  BY <1>1, <1>3, <2>3, <2>4, <2>6, <2>7, Zenon
<1>4. CASE /\ initialBlockPoolIndex = InitialPool
           /\ b > InitialPool /\ b \notin heap
           /\ heap' = heap \union {b}
           /\ UNCHANGED <<initialBlockPoolIndex, hands>>
  <2>1. b \in InitialPool + 1 .. InitialPool + Heap  BY <1>1, <1>4
  <2>2. b \in Unused  BY <1>4, <2>1, Zenon DEF Unused
  <2>3. Unused' = Unused \ {b}
    BY <1>1, <1>4, <2>1 DEF Unused
  <2>4. heap' \subseteq InitialPool + 1 .. InitialPool + Heap  BY <1>1, <1>4, <2>1, Zenon
  <2> QED  BY <1>1, <1>4, <2>2, <2>3, <2>4, Zenon
<1> QED  BY <1>2, <1>3, <1>4, Zenon DEF requisition_block

\* The blocks of the initial pool that were never taken.
Untouched == \A x \in 1 .. InitialPool : initialBlockPoolIndex < x => hands[x] = 1

\* The entries have the same blocks, but for block b in entry i of producer p.
Given(p, i, b) ==
  \A r \in Producer : \A e \in Nat : \A x \in Block :
    HasBlock(entries'[r], e, x) <=> HasBlock(entries[r], e, x) \/ (r = p /\ e = i /\ x = b)
Taken(p, i) ==
  \A r \in Producer : \A e \in Nat : \A x \in Block :
    HasBlock(entries'[r], e, x) <=> HasBlock(entries[r], e, x) /\ ~(r = p /\ e = i)

\* Block b goes from the unused ones to entry i of producer p.
LEMMA OwnersTake ==
    ASSUME Owners, NEW p \in Producer, NEW i \in Nat, NEW b \in Block,
           b \in Unused, Unused' = Unused \ {b}, consumer' = consumer,
           Untouched', Given(p, i, b)
    PROVE  Owners'
<1> USE DEF Given
<1>1. /\ \A x \in Block : \A r, q \in Producer : \A e, f \in Nat :
           HasBlock(entries[r], e, x) /\ HasBlock(entries[q], f, x) => r = q /\ e = f
      /\ \A x \in Block : \A r \in Producer : \A e \in Nat : HasBlock(entries[r], e, x) =>
           x \notin Unused /\ ~(consumer.pc = "free" /\ consumer.block = x)
      /\ consumer.pc = "free" => consumer.block \in Block \ Unused
      /\ \A x \in Block : \/ x \in Unused \/ (consumer.pc = "free" /\ consumer.block = x)
                          \/ \E r \in Producer : \E e \in Nat : HasBlock(entries[r], e, x)
  BY Zenon DEF Owners, Holds
<1>2. \A r \in Producer : \A e \in Nat : ~HasBlock(entries[r], e, b)  BY <1>1, Zenon
<1>3. (\A x \in Block : \A r, q \in Producer : \A e, f \in Nat :
         Holds(r, e, x) /\ Holds(q, f, x) => r = q /\ e = f)'
  <2>1. ASSUME NEW x \in Block, NEW r \in Producer, NEW q \in Producer, NEW e \in Nat,
               NEW f \in Nat, HasBlock(entries'[r], e, x), HasBlock(entries'[q], f, x)
        PROVE  r = q /\ e = f
    <3>1. CASE x = b  BY <1>2, <2>1, <3>1, Zenon
    <3>2. CASE x # b
      <4>1. HasBlock(entries[r], e, x) /\ HasBlock(entries[q], f, x)  BY <2>1, <3>2, Zenon
      <4> QED  BY <1>1, <4>1, Zenon
    <3> QED  BY <3>1, <3>2, Zenon
  <2> QED  BY <2>1, Zenon DEF Holds
<1>4. (\A x \in Block : \A r \in Producer : \A e \in Nat : Holds(r, e, x) =>
         x \notin Unused /\ ~(consumer.pc = "free" /\ consumer.block = x))'
  <2>1. ASSUME NEW x \in Block, NEW r \in Producer, NEW e \in Nat, HasBlock(entries'[r], e, x)
        PROVE  x \notin Unused' /\ ~(consumer.pc = "free" /\ consumer.block = x)
    <3>1. CASE x = b  BY <1>1, <3>1, Zenon
    <3>2. CASE x # b
      <4>1. HasBlock(entries[r], e, x)  BY <2>1, <3>2, Zenon
      <4> QED  BY <1>1, <4>1, Zenon
    <3> QED  BY <3>1, <3>2, Zenon
  <2> QED  BY <2>1, Zenon DEF Holds
<1>5. (consumer.pc = "free" => consumer.block \in Block \ Unused)'  BY <1>1, Zenon
<1>6. (\A x \in Block : \/ x \in Unused \/ (consumer.pc = "free" /\ consumer.block = x)
                        \/ \E r \in Producer : \E e \in Nat : Holds(r, e, x))'
  <2>1. ASSUME NEW x \in Block
        PROVE  \/ x \in Unused' \/ (consumer.pc = "free" /\ consumer.block = x)
               \/ \E r \in Producer : \E e \in Nat : HasBlock(entries'[r], e, x)
    BY <1>1, Zenon
  <2> QED  BY <2>1, Zenon DEF Holds
<1>7. (\A x \in 1 .. InitialPool : initialBlockPoolIndex < x => hands[x] = 1)'
  BY Zenon DEF Untouched
<1> QED  BY <1>3, <1>4, <1>5, <1>6, <1>7, Zenon DEF Owners

\* Block b goes from entry i of producer p to the consumer.
LEMMA OwnersRemove ==
    ASSUME Owners, NEW p \in Producer, NEW i \in Nat, NEW b \in Block,
           HasBlock(entries[p], i, b), UNCHANGED store,
           consumer.pc = "remove", consumer'.pc = "free", consumer'.block = b, Taken(p, i)
    PROVE  Owners'
<1> USE DEF Taken
<1>1. /\ \A x \in Block : \A r, q \in Producer : \A e, f \in Nat :
           HasBlock(entries[r], e, x) /\ HasBlock(entries[q], f, x) => r = q /\ e = f
      /\ \A x \in Block : \A r \in Producer : \A e \in Nat : HasBlock(entries[r], e, x) =>
           x \notin Unused
      /\ \A x \in Block : \/ x \in Unused
                          \/ \E r \in Producer : \E e \in Nat : HasBlock(entries[r], e, x)
  <2>1. consumer.pc # "free"  OBVIOUS
  <2> QED  BY <2>1, Zenon DEF Owners, Holds
<1>2. Unused' = Unused /\ initialBlockPoolIndex' = initialBlockPoolIndex /\ hands' = hands
  BY Zenon DEF store, Unused
<1>3. (\A x \in Block : \A r, q \in Producer : \A e, f \in Nat :
         Holds(r, e, x) /\ Holds(q, f, x) => r = q /\ e = f)'
  <2>1. ASSUME NEW x \in Block, NEW r \in Producer, NEW q \in Producer, NEW e \in Nat,
               NEW f \in Nat, HasBlock(entries'[r], e, x), HasBlock(entries'[q], f, x)
        PROVE  r = q /\ e = f
    <3>1. HasBlock(entries[r], e, x) /\ HasBlock(entries[q], f, x)  BY <2>1, Zenon
    <3> QED  BY <1>1, <3>1, Zenon
  <2> QED  BY <2>1, Zenon DEF Holds
<1>4. (\A x \in Block : \A r \in Producer : \A e \in Nat : Holds(r, e, x) =>
         x \notin Unused /\ ~(consumer.pc = "free" /\ consumer.block = x))'
  <2>1. ASSUME NEW x \in Block, NEW r \in Producer, NEW e \in Nat, HasBlock(entries'[r], e, x)
        PROVE  x \notin Unused' /\ x # b
    <3>1. HasBlock(entries[r], e, x) /\ ~(r = p /\ e = i)  BY <2>1, Zenon
    <3>2. x \notin Unused  BY <1>1, <3>1, Zenon
    <3>3. x # b
      <4>1. SUFFICES ASSUME x = b PROVE FALSE  OBVIOUS
      <4>2. HasBlock(entries[p], i, x)  BY <4>1, Zenon
      <4>3. r = p /\ e = i  BY <1>1, <3>1, <4>2, Zenon
      <4> QED  BY <3>1, <4>3, Zenon
    <3> QED  BY <1>2, <3>2, <3>3, Zenon
  <2> QED  BY <2>1, Zenon DEF Holds
<1>5. (consumer.pc = "free" => consumer.block \in Block \ Unused)'
  <2>1. b \in Block /\ b \notin Unused'
    <3>1. b \notin Unused  BY <1>1, Zenon
    <3> QED  BY <1>2, <3>1, Zenon
  <2>2. consumer'.block = b  OBVIOUS
  <2> QED  BY ONLY <2>1, <2>2
<1>6. (\A x \in Block : \/ x \in Unused \/ (consumer.pc = "free" /\ consumer.block = x)
                        \/ \E r \in Producer : \E e \in Nat : Holds(r, e, x))'
  <2>1. ASSUME NEW x \in Block
        PROVE  \/ x \in Unused \/ x = b
               \/ \E r \in Producer : \E e \in Nat : HasBlock(entries'[r], e, x)
    <3>1. CASE x \in Unused  BY <3>1, Zenon
    <3>2. CASE \E r \in Producer : \E e \in Nat : HasBlock(entries[r], e, x)
      <4>1. PICK r \in Producer, e \in Nat : HasBlock(entries[r], e, x)  BY <3>2, Zenon
      <4>2. CASE r = p /\ e = i
        <5>1. x = b  BY <4>1, <4>2, Zenon DEF HasBlock
        <5> QED  BY <5>1, Zenon
      <4>3. CASE ~(r = p /\ e = i)
        <5>1. HasBlock(entries'[r], e, x)  BY <4>1, <4>3, Zenon
        <5> QED  BY <5>1, Zenon
      <4> QED  BY <4>2, <4>3, Zenon
    <3> QED  BY <1>1, <3>1, <3>2, Zenon
  <2> QED  BY <1>2, <2>1, Zenon DEF Holds
<1>7. (\A x \in 1 .. InitialPool : initialBlockPoolIndex < x => hands[x] = 1)'
  BY <1>2, Zenon DEF Owners
<1> QED  BY <1>3, <1>4, <1>5, <1>6, <1>7, Zenon DEF Owners

\* The block that the consumer gives back is unused.
LEMMA OwnersFree ==
    ASSUME Owners, Unused' = Unused \union {consumer.block}, consumer.pc = "free",
           consumer'.pc # "free", entries' = entries, Untouched'
    PROVE  Owners'
<1>1. /\ \A x \in Block : \A r, q \in Producer : \A e, f \in Nat :
           HasBlock(entries[r], e, x) /\ HasBlock(entries[q], f, x) => r = q /\ e = f
      /\ \A x \in Block : \A r \in Producer : \A e \in Nat : HasBlock(entries[r], e, x) =>
           x \notin Unused /\ consumer.block # x
      /\ \A x \in Block : \/ x \in Unused \/ consumer.block = x
                          \/ \E r \in Producer : \E e \in Nat : HasBlock(entries[r], e, x)
  BY Zenon DEF Owners, Holds
<1>2. (\A x \in Block : \A r, q \in Producer : \A e, f \in Nat :
         Holds(r, e, x) /\ Holds(q, f, x) => r = q /\ e = f)'
  BY <1>1, Zenon DEF Holds
<1>3. (\A x \in Block : \A r \in Producer : \A e \in Nat : Holds(r, e, x) =>
         x \notin Unused /\ ~(consumer.pc = "free" /\ consumer.block = x))'
  <2>1. ASSUME NEW x \in Block, NEW r \in Producer, NEW e \in Nat, HasBlock(entries[r], e, x)
        PROVE  x \notin Unused'
    <3>1. x \notin Unused /\ consumer.block # x  BY <1>1, <2>1, Zenon
    <3> QED  BY <3>1, Zenon
  <2> QED  BY <2>1, Zenon DEF Holds
<1>4. (consumer.pc = "free" => consumer.block \in Block \ Unused)'  BY Zenon
<1>5. (\A x \in Block : \/ x \in Unused \/ (consumer.pc = "free" /\ consumer.block = x)
                        \/ \E r \in Producer : \E e \in Nat : Holds(r, e, x))'
  BY <1>1, Zenon DEF Holds
<1>6. (\A x \in 1 .. InitialPool : initialBlockPoolIndex < x => hands[x] = 1)'
  BY Zenon DEF Untouched
<1> QED  BY <1>2, <1>3, <1>4, <1>5, <1>6, Zenon DEF Owners

LEMMA TakeBlockKeeps ==
    ASSUME Inv, NEW p \in Producer, TakeBlock(p), UNCHANGED limit
    PROVE  Inv'
<1>1. Types /\ Fresh /\ Owners /\ Wanted /\ Queue(p) /\ (\A r \in Producer : Queue(r)) /\ Aside(p)
  <2>1. Types  BY Zenon DEF Inv
  <2>2. Push(p)  BY Zenon DEF Push
  <2> QED  BY <2>1, <2>2, PushAside, Zenon DEF Inv
<1>2. /\ Transition(p, "block", "construct")
      /\ UNCHANGED <<producers, tailIndex, headers, dequeued, elements, consumer>>
  BY Zenon DEF TakeBlock
<1>3. PICK b \in Block : /\ requisition_block(b) /\ reset_empty(b) /\ SetEntry(p, b)
                         /\ tailBlock' = [tailBlock EXCEPT ![p] = b]
  BY Zenon DEF TakeBlock
<1>4. /\ b \in Unused /\ Unused' = Unused \ {b}
      /\ initialBlockPoolIndex' \in 0 .. InitialPool
      /\ hands' \in [1 .. InitialPool -> 0 .. 1]
      /\ heap' \subseteq InitialPool + 1 .. InitialPool + Heap
      /\ \A x \in 1 .. InitialPool : initialBlockPoolIndex' < x => hands'[x] = 1
  BY <1>1, <1>3, Requisitioned, Zenon
<1>5. \A r \in Producer : entries[r] \in Seq(Entry) /\ DOMAIN entries[r] \subseteq Nat
  <2>1. ASSUME NEW s \in Seq(Entry) PROVE DOMAIN s \subseteq Nat  OBVIOUS
  <2> QED  BY <1>1, <2>1, TypesOf, Zenon
<1>6. \A r \in Producer : \A e \in DOMAIN entries[r] : entries[r][e].value # b
  <2>1. ASSUME NEW r \in Producer, NEW e \in DOMAIN entries[r], entries[r][e].value = b
        PROVE  FALSE
    <3>1. e \in Nat  BY <1>5, <2>1, Zenon
    <3>2. Holds(r, e, b)  BY <2>1, Zenon DEF Holds, HasBlock
    <3> QED  BY <1>1, <1>4, <3>1, <3>2, Zenon DEF Owners
  <2> QED  BY <2>1, Zenon
<1>7. /\ Queue(p)' /\ idxEntry[p] \in DOMAIN entries[p]
      /\ entries[p][idxEntry[p]].value = null
      /\ \E x \in Entry : x.value = b /\ Replaced(entries'[p], entries[p], idxEntry[p], x)
  <2>1. \A e \in DOMAIN entries[p] : entries[p][e].value # b  BY <1>6, Zenon
  <2> QED  BY <1>1, <1>2, <1>3, <2>1, TakeBlockQueue, Zenon
<1>8. PICK x \in Entry : x.value = b /\ Replaced(entries'[p], entries[p], idxEntry[p], x)
  BY <1>7, Zenon
<1>9. (\A r \in Producer : Queue(r))'
  <2>1. ASSUME NEW r \in Producer, NEW e \in DOMAIN entries[r], entries[r][e].value # null
        PROVE  elementsCompletelyDequeued'[entries[r][e].value]
                 = elementsCompletelyDequeued[entries[r][e].value]
    <3>1. PICK y : y = entries[r][e].value  OBVIOUS
    <3>2. y # b  BY <1>6, <2>1, <3>1, Zenon
    <3>3. elementsCompletelyDequeued' = [elementsCompletelyDequeued EXCEPT ![b] = 0]
      BY <1>3, Zenon DEF reset_empty
    <3>4. y \in Block
      <4>1. ASSUME NEW s \in Seq(Entry), NEW n \in DOMAIN s PROVE s[n].value \in BlockOrNull
        <5>1. s[n] \in Entry  OBVIOUS
        <5> QED  BY <5>1, Zenon DEF Entry
      <4>2. y \in BlockOrNull  BY <1>5, <2>1, <3>1, <4>1, Zenon
      <4> QED  BY <2>1, <3>1, <4>2, Zenon DEF BlockOrNull
    <3>5. elementsCompletelyDequeued \in [Block -> 0 .. BLOCK_SIZE]  BY <1>1, Zenon DEF Types
    <3>6. elementsCompletelyDequeued'[y] = elementsCompletelyDequeued[y]
      BY ONLY <3>2, <3>3, <3>4, <3>5, Zenon
    <3> QED  BY <3>1, <3>6, Zenon
  <2> QED  BY <1>1, <1>7, <2>1, OtherProducers, Zenon
<1>10. Types'
  <2>1. elementsCompletelyDequeued' \in [Block -> 0 .. BLOCK_SIZE]
    <3>1. 0 \in 0 .. BLOCK_SIZE  BY ONLY Sizes
    <3>2. elementsCompletelyDequeued' = [elementsCompletelyDequeued EXCEPT ![b] = 0]
      BY <1>3, Zenon DEF reset_empty
    <3>3. elementsCompletelyDequeued \in [Block -> 0 .. BLOCK_SIZE]  BY <1>1, Zenon DEF Types
    <3>4. PICK X : X = 0 .. BLOCK_SIZE  OBVIOUS
    <3>5. elementsCompletelyDequeued \in [Block -> X] /\ 0 \in X  BY <3>1, <3>3, <3>4, Zenon
    <3>6. elementsCompletelyDequeued' \in [Block -> X]  BY ONLY <3>2, <3>5, Updated, Zenon
    <3> QED  BY <3>4, <3>6, Zenon
  <2>2. tailBlock' \in [Producer -> BlockOrNull]
    <3>1. b \in BlockOrNull /\ tailBlock \in [Producer -> BlockOrNull]
      BY <1>1, Zenon DEF Types, BlockOrNull
    <3>2. tailBlock' = [tailBlock EXCEPT ![p] = b]  BY <1>3, Zenon
    <3> QED  BY ONLY <3>1, <3>2, Updated, Zenon
  <2>3. entries' \in [Producer -> Seq(Entry)]
    <3>1. PICK s : entries' = [entries EXCEPT ![p] = s]  BY <1>3, Zenon DEF SetEntry
    <3>2. entries \in [Producer -> Seq(Entry)]  BY <1>1, Zenon DEF Types
    <3>3. s \in Seq(Entry)  BY <1>8, <3>1, <3>2, Zenon DEF Replaced
    <3> QED  BY ONLY <3>1, <3>2, <3>3, Updated, Zenon
  <2>4. idxEntry' \in [Producer -> Nat]
    <3>1. idxEntry' = [idxEntry EXCEPT ![p] = 0] /\ 0 \in Nat  BY <1>3, Zenon DEF SetEntry
    <3>2. idxEntry \in [Producer -> Nat]  BY <1>1, Zenon DEF Types
    <3> QED  BY ONLY <3>1, <3>2, Updated, Zenon
  <2>5. pc' \in [Producer -> Doing]
    <3>1. pc' = [pc EXCEPT ![p] = "construct"]  BY <1>2, Zenon DEF Transition
    <3>2. pc \in [Producer -> Doing] /\ "construct" \in Doing  BY <1>1 DEF Types, Doing
    <3> QED  BY ONLY <3>1, <3>2, Updated, Zenon
  <2> QED  BY <1>1, <1>2, <1>4, <2>1, <2>2, <2>3, <2>4, <2>5, Zenon DEF Types, dequeued
<1>11. Fresh'
  <2>1. pc[p] # "idle"  BY ONLY <1>2 DEF Transition
  <2>2. producers' = producers  BY <1>2, Zenon
  <2> QED  BY <1>1, <2>1, <2>2, FreshKept, Zenon
<1>12. Wanted'
  <2>1. tailIndex' = tailIndex  BY <1>2, Zenon
  <2> QED  BY <1>1, <2>1, WantedKept, Zenon
<1>13. Owners'
  <2>1. idxEntry[p] \in Nat  BY <1>5, <1>7, Zenon
  <2>2. ASSUME NEW r \in Producer, NEW e \in Nat, NEW y \in Block
        PROVE  HasBlock(entries'[r], e, y) <=>
                 HasBlock(entries[r], e, y) \/ (r = p /\ e = idxEntry[p] /\ y = b)
    <3>1. CASE r # p
      <4>1. entries'[r] = entries[r]  BY <1>1, <3>1, Zenon DEF Aside
      <4> QED  BY <3>1, <4>1, Zenon
    <3>2. CASE r = p
      <4>1. DOMAIN entries'[p] = DOMAIN entries[p]  BY <1>8, Zenon DEF Replaced
      <4>2. CASE e = idxEntry[p]
        <5>1. entries'[p][e].value = b /\ e \in DOMAIN entries[p]
          BY <1>7, <1>8, <4>2, Zenon DEF Replaced
        <5>2. ~HasBlock(entries[p], e, y)
          <6>1. entries[p][e].value = null  BY <1>7, <4>2, Zenon
          <6>2. y # null  BY Values, Zenon
          <6> QED  BY <6>1, <6>2, Zenon DEF HasBlock
        <5>3. HasBlock(entries'[p], e, y) <=> y = b  BY <4>1, <5>1, Zenon DEF HasBlock
        <5> QED  BY <3>2, <4>2, <5>2, <5>3, Zenon
      <4>3. CASE e # idxEntry[p]
        <5>1. e \in DOMAIN entries[p] => entries'[p][e] = entries[p][e]
          BY <1>8, <4>3, Zenon DEF Replaced
        <5>2. HasBlock(entries'[p], e, y) <=> HasBlock(entries[p], e, y)
          BY <4>1, <5>1, Zenon DEF HasBlock
        <5> QED  BY <3>2, <4>3, <5>2, Zenon
      <4> QED  BY <4>2, <4>3, Zenon
    <3> QED  BY <3>1, <3>2, Zenon
  <2>3. consumer' = consumer  BY <1>2, Zenon
  <2>4. PICK i : i = idxEntry[p]  OBVIOUS
  <2>5. i \in Nat /\ Given(p, i, b)  BY <2>1, <2>2, <2>4, Zenon DEF Given
  <2>6. Untouched'  BY <1>4, Zenon DEF Untouched
  <2> QED  BY <1>1, <1>4, <2>3, <2>5, <2>6, OwnersTake, Zenon
<1> QED  BY <1>9, <1>10, <1>11, <1>12, <1>13, Zenon DEF Inv

LEMMA PushKeeps ==
    ASSUME Inv, NEW p \in Producer, Push(p), UNCHANGED limit
    PROVE  Inv'
BY EnqueueKeeps, FindSlotKeeps, GrowKeeps, InsertKeeps, TakeBlockKeeps, RewindKeeps, ElementKeeps,
   Zenon DEF Push

-----------------------------------------------------------------------------
(* A step of the consumer and the rest of the queue                        *)

LEMMA DistinctOf ==
    ASSUME Types, Owners, NEW p \in Producer
    PROVE  Distinct(entries[p])
<1>1. entries[p] \in Seq(Entry)  BY TypesOf, Zenon
<1>2. ASSUME NEW s \in Seq(Entry), NEW n \in DOMAIN s
      PROVE  n \in Nat /\ s[n].value \in BlockOrNull
  <2>1. s[n] \in Entry /\ n \in Nat  OBVIOUS
  <2> QED  BY <2>1, Zenon DEF Entry
<1>3. ASSUME NEW e \in DOMAIN entries[p], NEW f \in DOMAIN entries[p],
             entries[p][e].value # null, entries[p][e].value = entries[p][f].value
      PROVE  e = f
  <2>1. PICK b : b = entries[p][e].value  OBVIOUS
  <2>2. e \in Nat /\ f \in Nat /\ b \in Block  BY <1>1, <1>2, <1>3, <2>1, Zenon DEF BlockOrNull
  <2>3. Holds(p, e, b) /\ Holds(p, f, b)  BY <1>3, <2>1, Zenon DEF Holds, HasBlock
  <2> QED  BY <2>2, <2>3, Zenon DEF Owners
<1> QED  BY <1>3, Zenon DEF Distinct

\* What a step of the consumer in the queue of producer p leaves alone.
Beside(p) ==
  /\ UNCHANGED <<producers, tailIndex, tailBlock, headers, pc, idxEntry, dequeueOvercommit, limit>>
  /\ \A r \in Producer : r # p =>
       /\ headIndex'[r] = headIndex[r]
       /\ dequeueOptimisticCount'[r] = dequeueOptimisticCount[r]
       /\ entries'[r] = entries[r]
       /\ \A e \in DOMAIN entries[r] : entries[r][e].value # null =>
            elementsCompletelyDequeued'[entries[r][e].value]
              = elementsCompletelyDequeued[entries[r][e].value]

LEMMA OtherQueues ==
    ASSUME \A r \in Producer : Queue(r), NEW p \in Producer, Queue(p)', Beside(p),
           consumer.pc \in Work => consumer.best = p,
           consumer'.pc \in Work => consumer'.best = p
    PROVE  (\A r \in Producer : Queue(r))'
<1>1. ASSUME NEW r \in Producer, r # p PROVE Queue(r)'
  <2>1. /\ tailIndex'[r] = tailIndex[r] /\ headIndex'[r] = headIndex[r]
        /\ dequeueOptimisticCount'[r] = dequeueOptimisticCount[r]
        /\ dequeueOvercommit'[r] = dequeueOvercommit[r]
        /\ tailBlock'[r] = tailBlock[r] /\ headers'[r] = headers[r] /\ entries'[r] = entries[r]
        /\ pc'[r] = pc[r] /\ idxEntry'[r] = idxEntry[r]
    BY <1>1, Zenon DEF Beside
  <2>2. Queue(r)  BY Zenon
  <2>3. \A e \in DOMAIN entries[r] : entries[r][e].value # null =>
          elementsCompletelyDequeued'[entries[r][e].value]
            = elementsCompletelyDequeued[entries[r][e].value]
    BY <1>1, Zenon DEF Beside
  <2>4. /\ ~(consumer.pc \in Work /\ consumer.best = r)
        /\ ~(consumer'.pc \in Work /\ consumer'.best = r)
    BY <1>1, Zenon
  <2> QED  BY <2>1, <2>2, <2>3, <2>4, OtherQueue, Zenon
<1> QED  BY <1>1, Zenon

\* The consumer walks on and nothing else changes.
LEMMA WalkKeeps ==
    ASSUME Inv, UNCHANGED <<Producing, dequeued, blocks, store, limit>>, consumer.pc \notin Work,
           consumer' \in Calls, consumer'.pc \notin Work, Wanted'
    PROVE  Inv'
<1>1. Types /\ Fresh /\ Owners /\ \A r \in Producer : Queue(r)  BY Zenon DEF Inv
<1>2. /\ UNCHANGED <<producers, tailIndex, tailBlock, headers, entries, pc, idxEntry>>
      /\ UNCHANGED <<headIndex, dequeueOptimisticCount, dequeueOvercommit>>
      /\ UNCHANGED <<elements, elementsCompletelyDequeued, store, limit>>
      /\ UNCHANGED <<initialBlockPoolIndex, hands, heap>>
  BY Zenon DEF Producing, queues, dequeued, blocks, store
<1>3. Types'  BY <1>1, <1>2, Zenon DEF Types
<1>4. Fresh'  BY <1>1, <1>2, Zenon DEF Fresh
<1>5. Owners'
  <2>1. "free" \in Work  BY DEF Work
  <2>2. consumer.pc # "free" /\ consumer'.pc # "free"  BY <2>1, Zenon
  <2>3. \A r \in Producer : SameBlocks(r)  BY <1>2, Zenon DEF SameBlocks
  <2> QED  BY <1>1, <1>2, <2>2, <2>3, OwnersKept, Zenon
<1>6. ASSUME NEW r \in Producer PROVE Queue(r)'
  BY <1>1, <1>2, OtherQueue, Zenon
<1> QED  BY <1>3, <1>4, <1>5, <1>6, Zenon DEF Inv

LEMMA RestingIs == Resting \in Calls
<1>1. 0 \in Index  BY Sizes DEF Index
<1>2. <<>> \in Seq(Producer)  OBVIOUS
<1> QED  BY <1>1, <1>2 DEF Resting, Calls, BlockOrNull

LEMMA CallKeeps ==
    ASSUME Inv, NEW max \in {0} \union BulkSizes, Call(max), UNCHANGED limit
    PROVE  Inv'
<1>1. Types  BY Zenon DEF Inv
<1>2. max \in Nat /\ producers \in Seq(Producer) /\ Resting \in Calls
  BY <1>1, RestingIs, QueueAssumption DEF Types
<1>3. PICK s : s = Producer \ ToSet(producers)  OBVIOUS
<1>4. /\ consumer.pc = "idle" /\ UNCHANGED <<Producing, dequeued, blocks, store>>
      /\ consumer' = [Resting EXCEPT !.pc = IF max = 0 THEN "score" ELSE "bulk",
                        !.max = max, !.todo = producers, !.scanned = s]
  BY <1>3, Zenon DEF Call
<1>5. s \in SUBSET Producer  BY <1>3, Zenon
<1>6. /\ consumer' \in Calls /\ consumer'.pc = IF max = 0 THEN "score" ELSE "bulk"
      /\ consumer'.max = max
  BY ONLY <1>2, <1>4, <1>5 DEF Calls
<1>7. consumer'.best = null /\ consumer'.bestSize = 0 /\ consumer'.nonEmptyCount = 0
      /\ consumer'.count = 0
  BY ONLY <1>2, <1>4, <1>5 DEF Calls, Resting
<1>8. consumer.pc \notin Work /\ consumer'.pc \notin Work  BY ONLY <1>4, <1>6 DEF Work
<1>9. Wanted'
  <2>1. PICK c : c = consumer'  OBVIOUS
  <2>2. /\ c.pc = "score" => c.max = 0 /\ c.best = null /\ c.bestSize = 0 /\ c.nonEmptyCount = 0
        /\ c.pc = "bulk" => c.count < c.max
    BY ONLY <1>2, <1>6, <1>7, <2>1
  <2>3. ~(c.nonEmptyCount > 0) \/ c.nonEmptyCount # 0  BY ONLY TRUE
  <2> QED  BY <1>8, <2>1, <2>2, <2>3 DEF Wanted
<1> QED  BY <1>4, <1>6, <1>8, <1>9, WalkKeeps, Zenon

LEMMA FirstOf ==
    ASSUME NEW s \in Seq(Producer), s # <<>>
    PROVE  Head(s) \in Producer /\ Tail(s) \in Seq(Producer)
OBVIOUS

LEMMA ScoreKeeps ==
    ASSUME Inv, Score, UNCHANGED limit
    PROVE  Inv'
<1> DEFINE c == consumer
           p == Head(c.todo)
           size == size_approx(p)
<1>1. Types /\ Wanted /\ c \in Calls /\ \A r \in Producer : Queue(r)
  BY Zenon DEF Inv, Types
<1>2. /\ c.pc = "score" /\ c.todo # <<>> /\ UNCHANGED <<Producing, dequeued, blocks, store>>
      /\ consumer' = IF size = 0
                     THEN [c EXCEPT !.todo = Tail(@), !.scanned = @ \union {p}]
                     ELSE [c EXCEPT !.todo = Tail(@), !.nonEmptyCount = @ + 1,
                                    !.best = IF size > c.bestSize THEN p ELSE @,
                                    !.bestSize = IF size > @ THEN size ELSE @]
  BY Zenon DEF Score
<1>3. c.todo \in Seq(Producer) /\ c.nonEmptyCount \in Nat /\ c.bestSize \in Nat
      /\ c.best \in Producer \union {null} /\ c.scanned \in SUBSET Producer
  BY ONLY <1>1 DEF Calls
<1>4. p \in Producer /\ Tail(c.todo) \in Seq(Producer)  BY <1>2, <1>3, FirstOf, Zenon
<1>5. /\ size \in Nat
      /\ size > 0 => headIndex[p] # tailIndex[p]
  BY <1>1, <1>4, AvailableIs, Zenon
<1>6. /\ c.max = 0
      /\ c.nonEmptyCount = 0 => c.best = null /\ c.bestSize = 0
      /\ c.nonEmptyCount > 0 => c.best \in Producer /\ headIndex[c.best] # tailIndex[c.best]
  BY <1>1, <1>2, Zenon DEF Wanted
<1>7. /\ headIndex' = headIndex /\ tailIndex' = tailIndex
  BY <1>2, Zenon DEF dequeued, Producing, queues
<1>8. /\ consumer' \in Calls /\ consumer'.pc = "score" /\ consumer'.max = 0
      /\ consumer'.nonEmptyCount = 0 => consumer'.best = null /\ consumer'.bestSize = 0
      /\ consumer'.nonEmptyCount > 0 =>
           consumer'.best \in Producer /\ headIndex[consumer'.best] # tailIndex[consumer'.best]
  <2> HIDE DEF p, size
  <2>1. CASE size = 0
    <3>1. PICK t : t = Tail(c.todo)  OBVIOUS
    <3>2. PICK s : s = c.scanned \union {p}  OBVIOUS
    <3>3. s \in SUBSET Producer /\ t \in Seq(Producer)  BY <1>3, <1>4, <3>1, <3>2, Zenon
    <3>4. consumer' = [c EXCEPT !.todo = t, !.scanned = s]  BY <1>2, <2>1, <3>1, <3>2, Zenon
    <3>5. consumer' \in Calls /\ consumer'.pc = c.pc /\ consumer'.max = c.max
          /\ consumer'.nonEmptyCount = c.nonEmptyCount /\ consumer'.best = c.best
          /\ consumer'.bestSize = c.bestSize
      BY ONLY <1>1, <3>3, <3>4 DEF Calls
    <3> QED  BY <1>2, <1>6, <3>5, Zenon
  <2>2. CASE size # 0
    <3>1. PICK t : t = Tail(c.todo)  OBVIOUS
    <3>2. PICK b : b = IF size > c.bestSize THEN p ELSE c.best  OBVIOUS
    <3>3. PICK n : n = IF size > c.bestSize THEN size ELSE c.bestSize  OBVIOUS
    <3>4. n \in Nat /\ t \in Seq(Producer) /\ c.nonEmptyCount + 1 \in Nat
          /\ c.nonEmptyCount + 1 # 0
      BY ONLY <1>3, <1>4, <1>5, <3>1, <3>3
    <3>5. consumer' = [c EXCEPT !.todo = t, !.nonEmptyCount = c.nonEmptyCount + 1,
                                !.best = b, !.bestSize = n]
      BY <1>2, <2>2, <3>1, <3>2, <3>3, Zenon
    <3>6. b \in Producer /\ headIndex[b] # tailIndex[b]
      <4>1. CASE size > c.bestSize
        <5>1. size > 0  BY ONLY <1>3, <1>5, <4>1
        <5> QED  BY <1>4, <1>5, <3>2, <4>1, <5>1, Zenon
      <4>2. CASE ~(size > c.bestSize)
        <5>1. c.bestSize # 0  BY ONLY <1>3, <1>5, <2>2, <4>2
        <5>2. c.nonEmptyCount > 0  BY ONLY <1>3, <1>6, <5>1
        <5> QED  BY <1>6, <3>2, <4>2, <5>2, Zenon
      <4> QED  BY <4>1, <4>2, Zenon
    <3>7. consumer' \in Calls /\ consumer'.pc = c.pc /\ consumer'.max = c.max
          /\ consumer'.nonEmptyCount = c.nonEmptyCount + 1 /\ consumer'.best = b
      <4>1. b \in Producer \union {null}  BY <3>6, Zenon
      <4> QED  BY ONLY <1>1, <3>4, <3>5, <4>1 DEF Calls
    <3> QED  BY <1>2, <1>6, <3>4, <3>6, <3>7, Zenon
  <2> QED  BY <2>1, <2>2, Zenon
<1>9. consumer.pc \notin Work /\ consumer'.pc \notin Work  BY ONLY <1>2, <1>8 DEF Work
<1>10. Wanted'
  <2>1. consumer'.pc # "bulk"  BY ONLY <1>8
  <2> QED  BY <1>7, <1>8, <1>9, <2>1, Zenon DEF Wanted
<1> QED  BY <1>2, <1>8, <1>9, <1>10, WalkKeeps, Zenon

LEMMA WantsNothing ==
    ASSUME consumer'.pc = "idle"
    PROVE  Wanted' /\ consumer'.pc \notin Work
<1>1. consumer'.pc \notin Work  BY DEF Work
<1>2. consumer'.pc # "score" /\ consumer'.pc # "bulk"  OBVIOUS
<1> QED  BY <1>1, <1>2, Zenon DEF Wanted

LEMMA EndKeeps ==
    ASSUME Inv, SayEmpty \/ EndBulk, UNCHANGED limit
    PROVE  Inv'
<1>1. consumer \in Calls  BY Zenon DEF Inv, Types
<1>2. /\ consumer.pc \in {"score", "bulk"} /\ UNCHANGED <<Producing, dequeued, blocks, store>>
      /\ \E o \in {"none", "empty", "found"} : consumer' = Returned(consumer, o)
  BY DEF SayEmpty, EndBulk
<1>3. consumer' \in Calls /\ consumer'.pc = "idle"
  <2>1. PICK o \in {"none", "empty", "found"} : consumer' = Returned(consumer, o)
    BY <1>2, Zenon
  <2>2. Returned(consumer, o) \in Calls /\ Returned(consumer, o).pc = "idle"
    BY <1>1, ReturnedIs, Zenon
  <2> QED  BY <2>1, <2>2, Zenon
<1>4. consumer.pc \notin Work  BY ONLY <1>2 DEF Work
<1> QED  BY <1>2, <1>3, <1>4, WantsNothing, WalkKeeps, Zenon

LEMMA PassOverKeeps ==
    ASSUME Inv, PassOver, UNCHANGED limit
    PROVE  Inv'
<1>1. consumer \in Calls /\ Wanted  BY Zenon DEF Inv, Types
<1>2. PICK t, s : t = Tail(consumer.todo) /\ s = consumer.scanned \union {Head(consumer.todo)}
  OBVIOUS
<1>3. /\ consumer.pc = "bulk" /\ consumer.todo # <<>>
      /\ UNCHANGED <<Producing, dequeued, blocks, store>>
      /\ consumer' = [consumer EXCEPT !.todo = t, !.scanned = s]
  BY <1>2, Zenon DEF PassOver
<1>4. consumer.todo \in Seq(Producer) /\ consumer.scanned \in SUBSET Producer
  BY ONLY <1>1 DEF Calls
<1>5. t \in Seq(Producer) /\ s \in SUBSET Producer  BY <1>2, <1>3, <1>4, FirstOf, Zenon
<1>6. /\ consumer' \in Calls /\ consumer'.pc = "bulk"
      /\ consumer'.count = consumer.count /\ consumer'.max = consumer.max
  BY ONLY <1>1, <1>3, <1>5 DEF Calls
<1>7. consumer.pc \notin Work /\ consumer'.pc \notin Work  BY ONLY <1>3, <1>6 DEF Work
<1>8. Wanted'
  <2>1. consumer'.pc # "score"  BY ONLY <1>6
  <2>2. consumer'.count < consumer'.max  BY <1>1, <1>3, <1>6, Zenon DEF Wanted
  <2> QED  BY <1>7, <2>1, <2>2, Zenon DEF Wanted
<1> QED  BY <1>3, <1>6, <1>7, <1>8, WalkKeeps, Zenon

LEMMA PlusIs ==
    ASSUME NEW i \in Index, NEW n \in Nat, n < IndexRange
    PROVE  Plus(i, n) \in Index /\ Minus(Plus(i, n), i) = n
<1>1. IndexRange \in Nat \ {0} /\ i \in Nat  BY Sizes DEF Index
<1>2. Plus(i, n) \in Index  BY <1>1 DEF Plus, Index
<1>3. PICK x, y : x = i + n /\ y = x % IndexRange  OBVIOUS
<1>4. (y - i) % IndexRange = n
  <2>1. x \in Int /\ i \in Int /\ x - i = n /\ n \in 0 .. IndexRange - 1  BY <1>1, <1>3
  <2>2. ((x % IndexRange) - i) % IndexRange = (x - i) % IndexRange
    BY <1>1, <2>1, Differ, Zenon
  <2>3. n % IndexRange = n  BY <1>1, <2>1, Small
  <2> QED  BY <1>3, <2>1, <2>2, <2>3, Zenon
<1>5. Plus(i, n) = y  BY <1>3, Zenon DEF Plus
<1> QED  BY <1>2, <1>4, <1>5, Zenon DEF Minus

LEMMA ClaimKeeps ==
    ASSUME Inv, NEW p \in Producer, consumer.pc \notin Work,
           NEW n \in Nat \ {0}, n <= Available(p), Claim(p, n), UNCHANGED limit,
           consumer.max # 0 => consumer.todo # <<>> /\ consumer.count + n <= consumer.max
    PROVE  Inv'
<1>1. Types /\ Fresh /\ Owners /\ Queue(p) /\ (\A r \in Producer : Queue(r))
  BY Zenon DEF Inv
<1>2. Queue(p)'  BY <1>1, ClaimQueue, Zenon
<1>3. n < IndexRange
  <2>1. Available(p) \in Nat /\ Available(p) < Half  BY <1>1, AvailableIs, Zenon
  <2>2. Half = IndexRange - (IndexRange \div 2) /\ IndexRange \in Nat /\ IndexRange \div 2 \in Nat
    BY ONLY Sizes
  <2> QED  BY <2>1, <2>2
<1>4. PICK i, j, k : i = headIndex[p] /\ j = Plus(i, n) /\ k = Plus(dequeueOptimisticCount[p], n)
  OBVIOUS
<1>5. /\ headIndex \in [Producer -> Index] /\ dequeueOptimisticCount \in [Producer -> Index]
      /\ consumer \in Calls /\ i \in Index
  BY <1>1, <1>4, Zenon DEF Types
<1>6. j \in Index /\ Minus(j, i) = n /\ k \in Index
  <2>1. n \in Nat  OBVIOUS
  <2>2. dequeueOptimisticCount[p] \in Index  BY <1>5, Zenon
  <2> QED  BY <1>3, <1>4, <1>5, <2>1, <2>2, PlusIs, Zenon
<1>7. /\ dequeueOptimisticCount' = [dequeueOptimisticCount EXCEPT ![p] = k]
      /\ headIndex' = [headIndex EXCEPT ![p] = j]
      /\ consumer' = [consumer EXCEPT !.pc = "index", !.best = p, !.index = i, !.start = i,
                        !.end = j, !.bestSize = 0, !.nonEmptyCount = 0]
      /\ UNCHANGED <<Producing, dequeueOvercommit, blocks, store>>
  BY <1>4, Zenon DEF Claim, CountClaims, MoveHead
<1>8. /\ UNCHANGED <<producers, tailIndex, tailBlock, headers, entries, pc, idxEntry>>
      /\ UNCHANGED <<dequeueOvercommit, elements, elementsCompletelyDequeued, store, limit>>
      /\ UNCHANGED <<initialBlockPoolIndex, hands, heap>>
  BY <1>7, Zenon DEF Producing, queues, blocks, store
<1>9. /\ consumer' \in Calls /\ consumer'.pc = "index" /\ consumer'.best = p
      /\ consumer'.max = consumer.max /\ consumer'.count = consumer.count
      /\ consumer'.todo = consumer.todo /\ consumer'.index = i /\ consumer'.end = j
  BY ONLY <1>5, <1>6, <1>7 DEF Calls, Work
<1>10. Types'
  <2>1. headIndex' \in [Producer -> Index]  BY <1>5, <1>6, <1>7, Updated, Zenon
  <2>2. dequeueOptimisticCount' \in [Producer -> Index]  BY <1>5, <1>6, <1>7, Updated, Zenon
  <2> QED  BY <1>1, <1>8, <1>9, <2>1, <2>2, Zenon DEF Types
<1>11. Fresh'  BY <1>1, <1>8, Zenon DEF Fresh
<1>12. Owners'
  <2>1. consumer.pc # "free" /\ consumer'.pc # "free"  BY <1>9 DEF Work
  <2>2. \A r \in Producer : SameBlocks(r)  BY <1>8, Zenon DEF SameBlocks
  <2> QED  BY <1>1, <1>8, <2>1, <2>2, OwnersKept, Zenon
<1>13. Wanted'
  <2>1. consumer'.pc # "score" /\ consumer'.pc # "bulk"  BY ONLY <1>9
  <2>2. consumer'.max # 0 => /\ consumer'.todo # <<>>
                             /\ consumer'.count + Minus(consumer'.end, consumer'.index)
                                  <= consumer'.max
    BY <1>6, <1>9, Zenon
  <2> QED  BY <1>9, <2>1, <2>2, Zenon DEF Wanted
<1>14. (\A r \in Producer : Queue(r))'
  <2>1. Beside(p)
    <3>1. \A r \in Producer : r # p =>
            headIndex'[r] = headIndex[r] /\ dequeueOptimisticCount'[r] = dequeueOptimisticCount[r]
      BY <1>5, <1>7, Zenon
    <3> QED  BY <1>8, <3>1, Zenon DEF Beside
  <2> QED  BY <1>1, <1>2, <1>9, <2>1, OtherQueues, Zenon
<1> QED  BY <1>10, <1>11, <1>12, <1>13, <1>14, Zenon DEF Inv

LEMMA DequeueKeeps ==
    ASSUME Inv, DequeueBest \/ DequeueBulk, UNCHANGED limit
    PROVE  Inv'
<1>1. Types /\ Wanted /\ consumer \in Calls /\ \A r \in Producer : Queue(r)
  BY Zenon DEF Inv, Types
<1>2. CASE DequeueBest
  <2>1. PICK p : p = consumer.best  OBVIOUS
  <2>2. consumer.pc = "score" /\ consumer.nonEmptyCount > 0 /\ Claim(p, 1)
    BY <1>2, <2>1, Zenon DEF DequeueBest
  <2>3. p \in Producer /\ headIndex[p] # tailIndex[p] /\ consumer.max = 0
    BY <1>1, <2>1, <2>2, Zenon DEF Wanted
  <2>4. Available(p) > 0 /\ Available(p) \in Nat  BY <1>1, <2>3, AvailableIs, Zenon
  <2>5. 1 <= Available(p) /\ 1 \in Nat \ {0}  BY ONLY <2>4
  <2>6. consumer.pc \notin Work  BY ONLY <2>2 DEF Work
  <2> QED  BY <2>2, <2>3, <2>5, <2>6, ClaimKeeps, Zenon
<1>3. CASE DequeueBulk
  <2>1. PICK p, w, n : /\ p = Head(consumer.todo) /\ w = consumer.max - consumer.count
                       /\ n = AtOnce(p, w)
    OBVIOUS
  <2>2. /\ consumer.pc = "bulk" /\ consumer.todo # <<>> /\ circular_less_than(0, Available(p))
        /\ Claim(p, n)
    BY <1>3, <2>1, Zenon DEF DequeueBulk
  <2>3. consumer.todo \in Seq(Producer) /\ consumer.max \in Nat /\ consumer.count \in Nat
    BY ONLY <1>1 DEF Calls
  <2>4. p \in Producer  BY <2>1, <2>2, <2>3, FirstOf, Zenon
  <2>5. Available(p) > 0 /\ Available(p) \in Nat  BY <1>1, <2>2, <2>4, AvailableIs, Zenon
  <2>6. consumer.count < consumer.max  BY <1>1, <2>2, Zenon DEF Wanted
  <2>7. PICK a : a = Available(p)  OBVIOUS
  <2>8. n = IF a < w THEN a ELSE w  BY <2>1, <2>7, Zenon DEF AtOnce
  <2>9. n \in Nat \ {0} /\ n <= a /\ consumer.count + n <= consumer.max
    BY ONLY <2>1, <2>3, <2>5, <2>6, <2>7, <2>8
  <2>10. consumer.pc \notin Work  BY ONLY <2>2 DEF Work
  <2> QED  BY <2>2, <2>4, <2>7, <2>9, <2>10, ClaimKeeps, Zenon
<1> QED  BY <1>2, <1>3, Zenon

\* The consumer works on and leaves the blocks in their places.
LEMMA WorkKeeps ==
    ASSUME Inv, NEW p \in Producer, Queue(p)', consumer.best = p, consumer.pc \in Work \ {"free"},
           UNCHANGED <<Producing, dequeued, elementsCompletelyDequeued, store, limit>>,
           elements' \in [Block -> [0 .. BLOCK_SIZE - 1 -> Index \union {null}]],
           consumer' \in Calls, consumer'.pc \in Work \ {"free"}, consumer'.best = p,
           consumer'.max = consumer.max, consumer'.todo = consumer.todo,
           Promised(consumer') = Promised(consumer)
    PROVE  Inv'
<1>1. Types /\ Fresh /\ Owners /\ Wanted /\ \A r \in Producer : Queue(r)  BY Zenon DEF Inv
<1>2. /\ UNCHANGED <<producers, tailIndex, tailBlock, headers, entries, pc, idxEntry>>
      /\ UNCHANGED <<headIndex, dequeueOptimisticCount, dequeueOvercommit>>
      /\ UNCHANGED <<elementsCompletelyDequeued, store, limit>>
      /\ UNCHANGED <<initialBlockPoolIndex, hands, heap>>
  BY Zenon DEF Producing, queues, dequeued, store
<1>3. Types'  BY <1>1, <1>2, Zenon DEF Types
<1>4. Fresh'  BY <1>1, <1>2, Zenon DEF Fresh
<1>5. Owners'
  <2>1. consumer.pc # "free" /\ consumer'.pc # "free"  OBVIOUS
  <2>2. \A r \in Producer : SameBlocks(r)  BY <1>2, Zenon DEF SameBlocks
  <2> QED  BY <1>1, <1>2, <2>1, <2>2, OwnersKept, Zenon
<1>6. Wanted'
  <2>1. consumer'.pc # "score" /\ consumer'.pc # "bulk"  BY DEF Work
  <2>2. consumer'.max # 0 => consumer'.todo # <<>> /\ Promised(consumer') <= consumer'.max
    BY <1>1, Zenon DEF Wanted, Promised
  <2>3. consumer'.best \in Producer  OBVIOUS
  <2> QED  BY <2>1, <2>2, <2>3, Zenon DEF Wanted, Promised
<1>7. (\A r \in Producer : Queue(r))'
  <2>1. Beside(p)  BY <1>2, Zenon DEF Beside
  <2> QED  BY <1>1, <2>1, OtherQueues, Zenon
<1> QED  BY <1>3, <1>4, <1>5, <1>6, <1>7, Zenon DEF Inv

\* The producer that the consumer works on.
LEMMA Best ==
    ASSUME Inv, consumer.pc \in Work
    PROVE  /\ Types /\ Wanted /\ Owners /\ consumer \in Calls
           /\ consumer.best \in Producer /\ Queue(consumer.best) /\ Distinct(entries[consumer.best])
<1>1. /\ Types /\ Wanted /\ Owners /\ consumer \in Calls /\ consumer.best \in Producer
      /\ \A r \in Producer : Queue(r)
  BY Zenon DEF Inv, Types, Wanted
<1> QED  BY <1>1, DistinctOf, Zenon

LEMMA FindKeeps ==
    ASSUME Inv, ReadIndex \/ ReadTail \/ FindBlock, UNCHANGED limit
    PROVE  Inv'
<1>1. /\ consumer.pc \in {"index", "tail", "find"}
      /\ UNCHANGED <<Producing, dequeued, blocks, store>>
  BY DEF ReadIndex, ReadTail, FindBlock, At
<1>2. consumer.pc \in Work \ {"free"}  BY ONLY <1>1 DEF Work
<1>3. PICK p : p = consumer.best  OBVIOUS
<1>4. Types /\ Wanted /\ consumer \in Calls /\ p \in Producer /\ Queue(p) /\ Distinct(entries[p])
  BY <1>2, <1>3, Best, Zenon
<1>5. headers[p] \in Seq(Header)  BY <1>4, TypesOf, Zenon
<1>6. /\ Queue(p)' /\ consumer' \in Calls /\ consumer'.pc \in Work \ {"free"} /\ consumer'.best = p
      /\ consumer'.max = consumer.max /\ consumer'.todo = consumer.todo
      /\ consumer'.count = consumer.count /\ consumer'.end = consumer.end
      /\ consumer'.index = consumer.index
  <2>1. CASE ReadIndex
    <3>1. PICK j : j = Len(headers[p])  OBVIOUS
    <3>2. j \in Nat /\ consumer' = [consumer EXCEPT !.pc = "tail", !.localBlockIndex = j]
      BY <1>3, <1>5, <2>1, <3>1, HeadersAre, Zenon DEF ReadIndex
    <3>3. Queue(p)'  BY <1>3, <1>4, <2>1, ReadIndexQueue, Zenon
    <3> QED  BY ONLY <1>3, <1>4, <3>2, <3>3 DEF Calls, Work
  <2>2. CASE ReadTail
    <3>1. Queue(p)' /\ consumer.localBlockIndex \in 1 .. Len(headers[p])
      BY <1>3, <1>4, <2>2, ReadTailQueue, Zenon
    <3>2. PICK t : t = headers[p][consumer.localBlockIndex].tail  OBVIOUS
    <3>3. t \in Nat
      <4>1. headers[p][consumer.localBlockIndex] \in Header
        BY <1>5, <3>1, HeadersAre, Zenon
      <4> QED  BY <3>2, <4>1, Zenon DEF Header
    <3>4. consumer' = [consumer EXCEPT !.pc = "find", !.tail = t]
      BY <1>3, <2>2, <3>2, Zenon DEF ReadTail
    <3> QED  BY ONLY <1>3, <1>4, <3>1, <3>3, <3>4 DEF Calls, Work
  <2>3. CASE FindBlock
    <3>1. /\ Queue(p)' /\ consumer'.indexIndex \in Nat /\ consumer'.block \in BlockOrNull
      BY <1>3, <1>4, <2>3, FindBlockQueue, Zenon
    <3>2. \E i, b : consumer' = [[consumer EXCEPT !.pc = "take", !.indexIndex = i, !.tail = 0]
                                   EXCEPT !.block = b]
      BY <2>3, Zenon DEF FindBlock
    <3>3. PICK i, b : consumer' = [[consumer EXCEPT !.pc = "take", !.indexIndex = i, !.tail = 0]
                                   EXCEPT !.block = b]
      BY <3>2, Zenon
    <3>4. i \in Nat /\ b \in BlockOrNull
      BY ONLY <1>4, <3>1, <3>3 DEF Calls
    <3> QED  BY ONLY <1>3, <1>4, <3>1, <3>3, <3>4 DEF Calls, Work
  <2> QED  BY <2>1, <2>2, <2>3, Zenon
<1>7. Promised(consumer') = Promised(consumer)  BY <1>6, Zenon DEF Promised
<1>8. /\ elements' \in [Block -> [0 .. BLOCK_SIZE - 1 -> Index \union {null}]]
      /\ UNCHANGED elementsCompletelyDequeued
  <2>1. UNCHANGED <<elements, elementsCompletelyDequeued>>  BY <1>1, Zenon DEF blocks
  <2> QED  BY <1>4, <2>1, Zenon DEF Types
<1> QED  BY <1>1, <1>2, <1>3, <1>4, <1>6, <1>7, <1>8, WorkKeeps, Zenon

LEMMA TakeElementKeeps ==
    ASSUME Inv, TakeElement, UNCHANGED limit
    PROVE  Inv'
<1>1. /\ consumer.pc = "take"
      /\ UNCHANGED <<Producing, dequeued, elementsCompletelyDequeued, store>>
  BY Zenon DEF TakeElement, At
<1>2. consumer.pc \in Work \ {"free"}  BY ONLY <1>1 DEF Work
<1>3. PICK p : p = consumer.best  OBVIOUS
<1>4. Types /\ Wanted /\ consumer \in Calls /\ p \in Producer /\ Queue(p)
  BY <1>2, <1>3, Best, Zenon
<1>5. /\ Queue(p)' /\ consumer'.pc \in {"take", "count"} /\ consumer'.best = p
      /\ consumer.block \in Block /\ consumer'.index \in Index
      /\ Promised(consumer') = Promised(consumer)
  BY <1>3, <1>4, TakeElementQueue, Zenon
<1>6. PICK i : i = consumer.index % BLOCK_SIZE  OBVIOUS
<1>7. /\ elements' = [elements EXCEPT ![consumer.block][i] = null]
      /\ \E x, s, n : /\ n = consumer.count + 1
                      /\ x = elements[consumer.block][i]
                      /\ consumer' = [consumer EXCEPT !.item = x, !.outcome = "found",
                                        !.index = s, !.count = n, !.pc = consumer'.pc]
  <2>1. PICK x, s, n, q : /\ n = consumer.count + 1 /\ s = Plus(consumer.index, 1)
                          /\ x = elements[consumer.block][i]
                          /\ q = IF Plus(consumer.index, 1)
                                      \in {consumer.end, BlockStart(Plus(consumer.index, 1))}
                                 THEN "count" ELSE "take"
    OBVIOUS
  <2>2. /\ elements' = [elements EXCEPT ![consumer.block][i] = null]
        /\ consumer' = [consumer EXCEPT !.item = x, !.outcome = "found", !.index = s, !.count = n,
                          !.pc = q]
    BY <1>6, <2>1, Zenon DEF TakeElement
  <2>3. consumer'.pc = q  BY ONLY <1>4, <2>2 DEF Calls
  <2> QED  BY <2>1, <2>2, <2>3, Zenon
<1>8. /\ elements \in [Block -> [0 .. BLOCK_SIZE - 1 -> Index \union {null}]]
      /\ elements' \in [Block -> [0 .. BLOCK_SIZE - 1 -> Index \union {null}]]
  <2>1. elements \in [Block -> [0 .. BLOCK_SIZE - 1 -> Index \union {null}]]
    BY <1>4, Zenon DEF Types
  <2>2. null \in Index \union {null}  BY Zenon
  <2> QED  BY <1>7, <2>1, <2>2, ElementsAre, Zenon
<1>9. /\ consumer' \in Calls /\ consumer'.max = consumer.max /\ consumer'.todo = consumer.todo
  <2>1. PICK x, s, n : /\ n = consumer.count + 1 /\ x = elements[consumer.block][i]
                       /\ consumer' = [consumer EXCEPT !.item = x, !.outcome = "found",
                                         !.index = s, !.count = n, !.pc = consumer'.pc]
    BY <1>7, Zenon
  <2>2. i \in 0 .. BLOCK_SIZE - 1
    <3>1. BLOCK_SIZE \in Nat \ {0} /\ consumer.index \in Int
      BY <1>4, Sizes DEF Calls, Index
    <3> QED  BY <1>6, <3>1, Remainder, Zenon
  <2>3. x \in Index \union {null}
    <3>1. PICK b, f : b = consumer.block /\ f = elements[b]  OBVIOUS
    <3>2. f \in [0 .. BLOCK_SIZE - 1 -> Index \union {null}]  BY <1>5, <1>8, <3>1, Zenon
    <3>3. x = f[i]  BY <2>1, <3>1, Zenon
    <3> QED  BY ONLY <2>2, <3>2, <3>3, Zenon
  <2>4. consumer.count \in Nat  BY ONLY <1>4 DEF Calls
  <2>5. n \in Nat  BY ONLY <2>1, <2>4
  <2>6. s \in Index  BY ONLY <1>4, <1>5, <2>1 DEF Calls
  <2>7. PICK q : q = consumer'.pc  OBVIOUS
  <2>8. q \in Work  BY ONLY <1>5, <2>7 DEF Work
  <2>9. consumer' = [consumer EXCEPT !.item = x, !.outcome = "found", !.index = s, !.count = n,
                       !.pc = q]
    BY <2>1, <2>7, Zenon
  <2> QED  BY ONLY <1>4, <2>3, <2>5, <2>6, <2>8, <2>9 DEF Calls
<1>10. consumer'.pc \in Work \ {"free"}  BY ONLY <1>5 DEF Work
<1> QED  BY <1>1, <1>2, <1>3, <1>4, <1>5, <1>8, <1>9, <1>10, WorkKeeps, Zenon

\* The claim is fulfilled; or the consumer still works on it.
LEMMA WantedDone ==
    ASSUME Types, Wanted, consumer.pc \in Work, consumer.index = consumer.end,
           consumer' = BlockDone(consumer)
    PROVE  Wanted' /\ consumer' \in Calls /\ consumer'.pc \notin Work
<1>1. /\ consumer' \in Calls /\ consumer'.pc \in {"idle", "bulk"}
      /\ consumer'.pc = "bulk" => consumer'.count < consumer'.max
  BY DoneIs, Zenon
<1>2. consumer'.pc \notin Work /\ consumer'.pc # "score"  BY ONLY <1>1 DEF Work
<1> QED  BY <1>1, <1>2, Zenon DEF Wanted

LEMMA WantedWork ==
    ASSUME Wanted, consumer.pc \in Work, consumer'.pc \in Work, consumer'.best = consumer.best,
           consumer'.max = consumer.max, consumer'.todo = consumer.todo,
           consumer'.count = consumer.count, consumer'.index = consumer.index,
           consumer'.end = consumer.end
    PROVE  Wanted'
<1>1. consumer'.pc # "score" /\ consumer'.pc # "bulk"  BY DEF Work
<1> QED  BY <1>1, Zenon DEF Wanted

LEMMA CountEmptyKeeps ==
    ASSUME Inv, CountEmpty, UNCHANGED limit
    PROVE  Inv'
<1>1. /\ consumer.pc = "count"
      /\ UNCHANGED <<Producing, dequeued, elements, store>>
      /\ \E n : elementsCompletelyDequeued'
                  = [elementsCompletelyDequeued EXCEPT ![consumer.block] = n]
  BY Zenon DEF CountEmpty, At
<1>2. consumer.pc \in Work /\ consumer.pc # "free"  BY ONLY <1>1 DEF Work
<1>3. PICK p : p = consumer.best  OBVIOUS
<1>4. PICK b : b = consumer.block  OBVIOUS
<1>5. /\ Types /\ Wanted /\ Owners /\ consumer \in Calls /\ p \in Producer /\ Queue(p)
      /\ Distinct(entries[p]) /\ Fresh /\ \A r \in Producer : Queue(r)
  <2>1. Fresh /\ \A r \in Producer : Queue(r)  BY Zenon DEF Inv
  <2> QED  BY <1>2, <1>3, <2>1, Best, Zenon
<1>6. /\ Queue(p)' /\ b \in Block /\ elementsCompletelyDequeued'[b] \in 0 .. BLOCK_SIZE
      /\ \/ consumer' = [consumer EXCEPT !.pc = "remove"]
         \/ consumer.index = consumer.end /\ consumer' = BlockDone(consumer)
  BY <1>3, <1>4, <1>5, CountEmptyQueue, Zenon
<1>7. PICK n : elementsCompletelyDequeued' = [elementsCompletelyDequeued EXCEPT ![b] = n]
  BY <1>1, <1>4, Zenon
<1>8. /\ UNCHANGED <<producers, tailIndex, tailBlock, headers, entries, pc, idxEntry>>
      /\ UNCHANGED <<headIndex, dequeueOptimisticCount, dequeueOvercommit, elements>>
      /\ UNCHANGED <<store, limit>>
      /\ UNCHANGED <<initialBlockPoolIndex, hands, heap>>
  BY <1>1, Zenon DEF Producing, queues, dequeued, store
<1>9. PICK e \in Nat : HasBlock(entries[p], e, b)
  <2>1. PICK T, H, F, S, L, C \in Nat, E, N \in [Nat -> Nat] : QueueIs(p, T, H, F, S, L, C, E, N)
    BY <1>5, Zenon DEF Queue
  <2>2. consumer.pc \in {"take", "count", "remove"}  BY ONLY <1>1
  <2>3. AtBlock(p, L, C, E)  BY <1>3, <1>5, <2>1, <2>2, AtBlockIs, Zenon
  <2>4. PICK e : e = E[L]  OBVIOUS
  <2>5. e \in DOMAIN entries[p] /\ entries[p][e].value = b  BY <1>4, <2>3, <2>4, Zenon DEF AtBlock
  <2>6. e \in Nat  BY <2>1, <2>4, Zenon
  <2>7. HasBlock(entries[p], e, b)  BY <2>5, Zenon DEF HasBlock
  <2> QED  BY <2>6, <2>7, Zenon
<1>10. /\ consumer' \in Calls /\ Wanted' /\ consumer'.pc # "free"
       /\ consumer'.pc \in Work => consumer'.best = p
  <2>1. CASE consumer' = [consumer EXCEPT !.pc = "remove"]
    <3>1. /\ consumer' \in Calls /\ consumer'.pc \in Work /\ consumer'.best = consumer.best
          /\ consumer'.max = consumer.max /\ consumer'.todo = consumer.todo
          /\ consumer'.count = consumer.count /\ consumer'.index = consumer.index
          /\ consumer'.end = consumer.end /\ consumer'.pc # "free"
      BY ONLY <1>5, <2>1 DEF Calls, Work
    <3> QED  BY <1>2, <1>3, <1>5, <3>1, WantedWork, Zenon
  <2>2. CASE consumer.index = consumer.end /\ consumer' = BlockDone(consumer)
    <3>1. Wanted' /\ consumer' \in Calls /\ consumer'.pc \notin Work
      BY <1>2, <1>5, <2>2, WantedDone, Zenon
    <3>2. consumer'.pc # "free"  BY ONLY <3>1 DEF Work
    <3> QED  BY <3>1, <3>2, Zenon
  <2> QED  BY <1>6, <2>1, <2>2, Zenon
<1>11. Types'
  <2>1. elementsCompletelyDequeued' \in [Block -> 0 .. BLOCK_SIZE]
    <3>1. PICK X : X = 0 .. BLOCK_SIZE  OBVIOUS
    <3>2. elementsCompletelyDequeued \in [Block -> X]  BY <1>5, <3>1, Zenon DEF Types
    <3>3. n \in X
      <4>1. elementsCompletelyDequeued'[b] = n  BY ONLY <1>6, <1>7, <3>2, Zenon
      <4> QED  BY <1>6, <3>1, <4>1, Zenon
    <3>4. elementsCompletelyDequeued' \in [Block -> X]  BY ONLY <1>7, <3>2, <3>3, Updated, Zenon
    <3> QED  BY <3>1, <3>4, Zenon
  <2> QED  BY <1>5, <1>8, <1>10, <2>1, Zenon DEF Types
<1>12. Fresh'  BY <1>5, <1>8, Zenon DEF Fresh
<1>13. Owners'
  <2>1. \A r \in Producer : SameBlocks(r)  BY <1>8, Zenon DEF SameBlocks
  <2> QED  BY <1>2, <1>5, <1>8, <1>10, <2>1, OwnersKept, Zenon
<1>14. Beside(p)
  <2>1. ASSUME NEW r \in Producer, r # p, NEW f \in DOMAIN entries[r], entries[r][f].value # null
        PROVE  elementsCompletelyDequeued'[entries[r][f].value]
                 = elementsCompletelyDequeued[entries[r][f].value]
    <3>1. PICK y : y = entries[r][f].value  OBVIOUS
    <3>2. f \in Nat /\ y \in Block
      <4>1. entries[r] \in Seq(Entry)  BY <1>5, TypesOf, Zenon
      <4>2. ASSUME NEW s \in Seq(Entry), NEW k \in DOMAIN s
            PROVE  k \in Nat /\ s[k].value \in BlockOrNull
        <5>1. s[k] \in Entry /\ k \in Nat  OBVIOUS
        <5> QED  BY <5>1, Zenon DEF Entry
      <4> QED  BY <2>1, <3>1, <4>1, <4>2, Zenon DEF BlockOrNull
    <3>3. y # b
      <4>1. SUFFICES ASSUME y = b PROVE FALSE  OBVIOUS
      <4>2. Holds(r, f, b) /\ Holds(p, e, b)  BY <1>9, <2>1, <3>1, <4>1, Zenon DEF Holds, HasBlock
      <4> QED  BY <1>5, <1>6, <1>9, <2>1, <3>2, <4>2, Zenon DEF Owners
    <3>4. elementsCompletelyDequeued \in [Block -> 0 .. BLOCK_SIZE]  BY <1>5, Zenon DEF Types
    <3>5. elementsCompletelyDequeued'[y] = elementsCompletelyDequeued[y]
      BY ONLY <1>7, <3>2, <3>3, <3>4, Zenon
    <3> QED  BY <3>1, <3>5, Zenon
  <2> QED  BY <1>8, <2>1, Zenon DEF Beside
<1>15. (\A r \in Producer : Queue(r))'
  BY <1>3, <1>5, <1>6, <1>10, <1>14, OtherQueues, Zenon
<1> QED  BY <1>10, <1>11, <1>12, <1>13, <1>15, Zenon DEF Inv

LEMMA RemoveBlockKeeps ==
    ASSUME Inv, RemoveBlock, UNCHANGED limit
    PROVE  Inv'
<1>1. /\ consumer.pc = "remove"
      /\ UNCHANGED <<producers, tailIndex, tailBlock, headers, pc, idxEntry, dequeued, blocks, store>>
  BY Zenon DEF RemoveBlock, At
<1>2. consumer.pc \in Work  BY ONLY <1>1 DEF Work
<1>3. PICK p : p = consumer.best  OBVIOUS
<1>4. PICK b : b = consumer.block  OBVIOUS
<1>5. /\ Types /\ Wanted /\ Owners /\ consumer \in Calls /\ p \in Producer /\ Queue(p)
      /\ Fresh /\ \A r \in Producer : Queue(r)
  <2>1. Fresh /\ \A r \in Producer : Queue(r)  BY Zenon DEF Inv
  <2> QED  BY <1>2, <1>3, <2>1, Best, Zenon
<1>6. /\ Queue(p)' /\ b \in Block /\ consumer' = [consumer EXCEPT !.pc = "free"]
      /\ \E e \in DOMAIN entries[p] : \E x \in Entry :
           /\ entries[p][e].value = b /\ x.value = null
           /\ Replaced(entries'[p], entries[p], e, x)
           /\ entries' = [entries EXCEPT ![p] = entries'[p]]
  BY <1>3, <1>4, <1>5, RemoveBlockQueue, Zenon
<1>7. PICK e \in DOMAIN entries[p], x \in Entry :
           /\ entries[p][e].value = b /\ x.value = null
           /\ Replaced(entries'[p], entries[p], e, x)
           /\ entries' = [entries EXCEPT ![p] = entries'[p]]
  BY <1>6, Zenon
<1>8. e \in Nat
  <2>1. entries[p] \in Seq(Entry)  BY <1>5, TypesOf, Zenon
  <2>2. ASSUME NEW s \in Seq(Entry), NEW k \in DOMAIN s PROVE k \in Nat  OBVIOUS
  <2> QED  BY <2>1, <2>2, Zenon
<1>9. PICK s : s = entries'[p]  OBVIOUS
<1>10. /\ s \in Seq(Entry) /\ entries' = [entries EXCEPT ![p] = s]
       /\ entries \in [Producer -> Seq(Entry)]
  BY <1>5, <1>7, <1>9, Zenon DEF Replaced, Types
<1>11. /\ UNCHANGED <<producers, tailIndex, tailBlock, headers, pc, idxEntry>>
       /\ UNCHANGED <<headIndex, dequeueOptimisticCount, dequeueOvercommit, elements>>
       /\ UNCHANGED <<elementsCompletelyDequeued, store, limit>>
       /\ UNCHANGED <<initialBlockPoolIndex, hands, heap>>
  BY <1>1, Zenon DEF dequeued, blocks, store
<1>12. /\ consumer' \in Calls /\ consumer'.pc = "free" /\ consumer'.best = consumer.best
       /\ consumer'.max = consumer.max /\ consumer'.todo = consumer.todo
       /\ consumer'.count = consumer.count /\ consumer'.index = consumer.index
       /\ consumer'.end = consumer.end /\ consumer'.block = b /\ consumer'.pc \in Work
  BY ONLY <1>4, <1>5, <1>6 DEF Calls, Work
<1>13. Wanted'  BY <1>2, <1>5, <1>12, WantedWork, Zenon
<1>14. Types'
  <2>1. entries' \in [Producer -> Seq(Entry)]  BY <1>5, <1>10, Updated, Zenon
  <2> QED  BY <1>5, <1>11, <1>12, <2>1, Zenon DEF Types
<1>15. Fresh'
  <2>1. p \in ToSet(producers)
    <3>1. SUFFICES ASSUME p \notin ToSet(producers) PROVE FALSE  OBVIOUS
    <3>2. entries[p] = <<>>  BY <1>5, <3>1, Zenon DEF Fresh
    <3> QED  BY <3>2
  <2>2. \A r \in Producer : r # p => entries'[r] = entries[r]  BY <1>10, Zenon
  <2> QED  BY <1>5, <1>11, <2>1, <2>2, Zenon DEF Fresh
<1>16. Owners'
  <2>1. HasBlock(entries[p], e, b)  BY <1>7, Zenon DEF HasBlock
  <2>2. ASSUME NEW r \in Producer, NEW f \in Nat, NEW y \in Block
        PROVE  HasBlock(entries'[r], f, y) <=> HasBlock(entries[r], f, y) /\ ~(r = p /\ f = e)
    <3>1. CASE r # p
      <4>1. entries'[r] = entries[r]  BY <1>10, <3>1, Zenon
      <4> QED  BY <3>1, <4>1, Zenon
    <3>2. CASE r = p
      <4>1. DOMAIN entries'[p] = DOMAIN entries[p]  BY <1>7, Zenon DEF Replaced
      <4>2. CASE f = e
        <5>1. entries'[p][f].value = null  BY <1>7, <4>2, Zenon DEF Replaced
        <5>2. y # null  BY Values, Zenon
        <5>3. ~HasBlock(entries'[p], f, y)  BY <5>1, <5>2, Zenon DEF HasBlock
        <5> QED  BY <3>2, <4>2, <5>3, Zenon
      <4>3. CASE f # e
        <5>1. f \in DOMAIN entries[p] => entries'[p][f] = entries[p][f]
          BY <1>7, <4>3, Zenon DEF Replaced
        <5>2. HasBlock(entries'[p], f, y) <=> HasBlock(entries[p], f, y)
          BY <4>1, <5>1, Zenon DEF HasBlock
        <5> QED  BY <3>2, <4>3, <5>2, Zenon
      <4> QED  BY <4>2, <4>3, Zenon
    <3> QED  BY <3>1, <3>2, Zenon
  <2>3. Taken(p, e)  BY <2>2, Zenon DEF Taken
  <2> QED  BY <1>1, <1>5, <1>6, <1>8, <1>11, <1>12, <2>1, <2>3, OwnersRemove, Zenon
<1>17. (\A r \in Producer : Queue(r))'
  <2>1. \A r \in Producer : r # p => entries'[r] = entries[r]  BY <1>10, Zenon
  <2>2. Beside(p)  BY <1>11, <2>1, Zenon DEF Beside
  <2> QED  BY <1>3, <1>5, <1>6, <1>12, <2>2, OtherQueues, Zenon
<1> QED  BY <1>13, <1>14, <1>15, <1>16, <1>17, Zenon DEF Inv

\* The block that the consumer gives back was in use, and is no longer.
LEMMA GivenBack ==
    ASSUME Types, Owners, FreeBlock, consumer.pc = "free"
    PROVE  /\ Unused' = Unused \union {consumer.block} /\ Untouched'
           /\ hands' \in [1 .. InitialPool -> 0 .. 1]
           /\ heap' \subseteq InitialPool + 1 .. InitialPool + Heap
           /\ UNCHANGED initialBlockPoolIndex
<1>1. PICK b : b = consumer.block  OBVIOUS
<1>2. b \in Block /\ b \notin Unused  BY <1>1, Zenon DEF Owners
<1>3. /\ InitialPool \in Nat /\ Heap \in Nat /\ initialBlockPoolIndex \in 0 .. InitialPool
      /\ hands \in [1 .. InitialPool -> 0 .. 1]
      /\ heap \subseteq InitialPool + 1 .. InitialPool + Heap
      /\ \A x \in 1 .. InitialPool : initialBlockPoolIndex < x => hands[x] = 1
      /\ b \in 1 .. InitialPool + Heap
  BY <1>2, Sizes DEF Types, Owners, Block
<1>4. UNCHANGED initialBlockPoolIndex  BY Zenon DEF FreeBlock
<1>5. CASE b > InitialPool
  <2>1. heap' = heap \ {b} /\ hands' = hands  BY <1>1, <1>5, Zenon DEF FreeBlock
  <2>2. b \in InitialPool + 1 .. InitialPool + Heap  BY <1>3, <1>5
  <2>3. Unused' = Unused \union {b}  BY <1>3, <1>4, <2>1, <2>2 DEF Unused
  <2>4. Untouched'  BY <1>3, <1>4, <2>1, Zenon DEF Untouched
  <2>5. heap' \subseteq InitialPool + 1 .. InitialPool + Heap  BY <1>3, <2>1, Zenon
  <2> QED  BY <1>1, <1>3, <1>4, <2>1, <2>3, <2>4, <2>5, Zenon
<1>6. CASE ~(b > InitialPool)
  <2>1. FreeBlocks!Give(b) /\ heap' = heap  BY <1>1, <1>6, Zenon DEF FreeBlock
  <2>2. b \in 1 .. InitialPool  BY <1>3, <1>6
  <2>3. hands' = [hands EXCEPT ![b] = 0]  BY <2>1, Zenon DEF FreeBlocks!Give
  <2>4. hands' \in [1 .. InitialPool -> 0 .. 1]
    <3>1. 0 \in 0 .. 1  OBVIOUS
    <3> QED  BY <1>3, <2>3, <3>1, Updated, Zenon
  <2>5. \A x \in 1 .. InitialPool : hands'[x] = IF x = b THEN 0 ELSE hands[x]
    BY <1>3, <2>3, Zenon
  <2>6. b <= initialBlockPoolIndex
    <3>1. b \notin initialBlockPoolIndex + 1 .. InitialPool  BY <1>2, Zenon DEF Unused
    <3> QED  BY <1>3, <2>2, <3>1
  <2>7. Unused' = Unused \union {b}  BY <1>3, <1>4, <2>1, <2>2, <2>5 DEF Unused
  <2>8. Untouched'
    <3>1. ASSUME NEW x \in 1 .. InitialPool, initialBlockPoolIndex < x PROVE hands'[x] = 1
      <4>1. x # b  BY <1>3, <2>6, <3>1
      <4> QED  BY <1>3, <2>5, <3>1, <4>1, Zenon
    <3> QED  BY <1>4, <3>1, Zenon DEF Untouched
  <2> QED  BY <1>1, <1>3, <1>4, <2>1, <2>4, <2>7, <2>8, Zenon
<1> QED  BY <1>5, <1>6, Zenon

LEMMA FreeBlockKeeps ==
    ASSUME Inv, FreeBlock, UNCHANGED limit
    PROVE  Inv'
<1>1. consumer.pc = "free" /\ UNCHANGED <<Producing, dequeued, blocks>>
  BY Zenon DEF FreeBlock, At
<1>2. consumer.pc \in Work  BY ONLY <1>1 DEF Work
<1>3. PICK p : p = consumer.best  OBVIOUS
<1>4. /\ Types /\ Wanted /\ Owners /\ consumer \in Calls /\ p \in Producer /\ Queue(p)
      /\ Fresh /\ \A r \in Producer : Queue(r)
  <2>1. Fresh /\ \A r \in Producer : Queue(r)  BY Zenon DEF Inv
  <2> QED  BY <1>2, <1>3, <2>1, Best, Zenon
<1>5. /\ UNCHANGED <<producers, tailIndex, tailBlock, headers, entries, pc, idxEntry>>
      /\ UNCHANGED <<headIndex, dequeueOptimisticCount, dequeueOvercommit, elements>>
      /\ UNCHANGED <<elementsCompletelyDequeued, limit>>
  BY <1>1, Zenon DEF Producing, queues, dequeued, blocks
<1>6. /\ Queue(p)'
      /\ \/ consumer.index = consumer.end /\ consumer' = BlockDone(consumer)
         \/ /\ consumer' \in Calls /\ consumer'.pc = "take" /\ consumer'.best = p
            /\ consumer'.index = consumer.index /\ consumer'.end = consumer.end
            /\ consumer'.count = consumer.count /\ consumer'.max = consumer.max
            /\ consumer'.todo = consumer.todo
  BY <1>3, <1>4, FreeBlockQueue, Zenon
<1>7. /\ consumer' \in Calls /\ Wanted' /\ consumer'.pc # "free"
      /\ consumer'.pc \in Work => consumer'.best = p
  <2>1. CASE /\ consumer' \in Calls /\ consumer'.pc = "take" /\ consumer'.best = p
             /\ consumer'.index = consumer.index /\ consumer'.end = consumer.end
             /\ consumer'.count = consumer.count /\ consumer'.max = consumer.max
             /\ consumer'.todo = consumer.todo
    <3>1. consumer'.pc \in Work /\ consumer'.pc # "free"  BY ONLY <2>1 DEF Work
    <3> QED  BY <1>2, <1>3, <1>4, <2>1, <3>1, WantedWork, Zenon
  <2>2. CASE consumer.index = consumer.end /\ consumer' = BlockDone(consumer)
    <3>1. Wanted' /\ consumer' \in Calls /\ consumer'.pc \notin Work
      BY <1>2, <1>4, <2>2, WantedDone, Zenon
    <3>2. consumer'.pc # "free"  BY ONLY <3>1 DEF Work
    <3> QED  BY <3>1, <3>2, Zenon
  <2> QED  BY <1>6, <2>1, <2>2, Zenon
<1>8. /\ Unused' = Unused \union {consumer.block} /\ Untouched'
      /\ hands' \in [1 .. InitialPool -> 0 .. 1]
      /\ heap' \subseteq InitialPool + 1 .. InitialPool + Heap
      /\ UNCHANGED initialBlockPoolIndex
  BY <1>1, <1>4, GivenBack, Zenon
<1>9. Types'  BY <1>4, <1>5, <1>7, <1>8, Zenon DEF Types
<1>10. Fresh'  BY <1>4, <1>5, Zenon DEF Fresh
<1>11. Owners'  BY <1>1, <1>4, <1>5, <1>7, <1>8, OwnersFree, Zenon
<1>12. (\A r \in Producer : Queue(r))'
  <2>1. Beside(p)  BY <1>5, Zenon DEF Beside
  <2> QED  BY <1>3, <1>4, <1>6, <1>7, <2>1, OtherQueues, Zenon
<1> QED  BY <1>7, <1>9, <1>10, <1>11, <1>12, Zenon DEF Inv

LEMMA PopKeeps ==
    ASSUME Inv, Pop, UNCHANGED limit
    PROVE  Inv'
BY CallKeeps, ScoreKeeps, EndKeeps, DequeueKeeps, PassOverKeeps, FindKeeps, TakeElementKeeps,
   CountEmptyKeeps, RemoveBlockKeeps, FreeBlockKeeps, Zenon DEF Pop

-----------------------------------------------------------------------------
(* The invariant holds                                                     *)

LEMMA Stutters ==
    ASSUME Inv, UNCHANGED vars
    PROVE  Inv'
<1>1. /\ UNCHANGED <<producers, tailIndex, tailBlock, headers, entries, pc, idxEntry>>
      /\ UNCHANGED <<headIndex, dequeueOptimisticCount, dequeueOvercommit, elements>>
      /\ UNCHANGED <<elementsCompletelyDequeued, store, limit, consumer>>
      /\ UNCHANGED <<initialBlockPoolIndex, hands, heap>>
  BY Zenon DEF vars, queues, dequeued, blocks, store, threads
<1>2. Types'  BY <1>1, Zenon DEF Inv, Types
<1>3. Fresh'  BY <1>1, Zenon DEF Inv, Fresh
<1>4. Wanted'  BY <1>1, Zenon DEF Inv, Wanted
<1>5. Owners'
  <2>1. \A r \in Producer : SameBlocks(r)  BY <1>1, Zenon DEF SameBlocks
  <2> QED  BY <1>1, <2>1, OwnersKept, Zenon DEF Inv
<1>6. ASSUME NEW r \in Producer PROVE Queue(r)'
  <2>1. Queue(r)  BY Zenon DEF Inv
  <2> QED  BY <1>1, <2>1, OtherQueue, Zenon
<1> QED  BY <1>2, <1>3, <1>4, <1>5, <1>6, Zenon DEF Inv

LEMMA NextKeeps ==
    ASSUME Inv, [Next]_vars
    PROVE  Inv'
BY PopKeeps, PushKeeps, Stutters, Zenon DEF Next

LEMMA InitQueue ==
    ASSUME Init, NEW p \in Producer
    PROVE  Queue(p)
<1>1. /\ tailIndex[p] = 0 /\ headIndex[p] = 0 /\ dequeueOptimisticCount[p] = 0
      /\ dequeueOvercommit[p] = 0 /\ headers[p] = <<>> /\ entries[p] = <<>> /\ pc[p] = "idle"
      /\ consumer = Resting
  BY Zenon DEF Init
<1>2. consumer.pc = "idle"  BY ONLY <1>1 DEF Resting
<1>3. PICK E : E = [n \in Nat |-> 0]  OBVIOUS
<1>4. E \in [Nat -> Nat] /\ 0 \in Nat  BY <1>3
<1>5. Indices(0, 0, 0, 0, 0, 0)
  <2>1. IndexRange \in Nat \ {0}  BY ONLY Sizes
  <2>2. 0 % IndexRange = 0  BY <2>1, Small
  <2> QED  BY <2>2 DEF Indices, Wrap
<1>6. Order("idle", 0, 0, 0, 0, 0, 0)
  <2>1. Base(0) = 0  BY Bases, Zenon
  <2>2. Half \in Nat \ {0} /\ BLOCK_SIZE \in Nat \ {0}  BY ONLY Sizes
  <2> QED  BY ONLY <2>1, <2>2 DEF Order
<1>7. \A m \in 0 .. 0 - 1 : FALSE  OBVIOUS
<1>8. Chain(<<>>, "idle", 0, 0, E)
  <2>1. \A e \in DOMAIN <<>> : FALSE  OBVIOUS
  <2> QED  BY ONLY <1>7, <2>1, Zenon DEF Chain
<1>9. Hand(<<>>, <<>>, "idle", idxEntry[p], tailBlock[p], 0, 0, E)
  <2>1. ~(0 < Base(0))  BY Bases
  <2> QED  BY ONLY <2>1 DEF Hand
<1>10. Rings(<<>>, <<>>, "idle", 0, 0, E, E)
  <2>1. \A j \in 1 .. Len(<<>>) : FALSE  OBVIOUS
  <2> QED  BY ONLY <2>1, Zenon DEF Rings
<1>11. Consuming(consumer, p, <<>>, <<>>, "idle", 0, 0, 0, 0, 0, E, E)
  <2>1. 0 < Base(0) + BLOCK_SIZE  BY Bases, Sizes
  <2>2. consumer.pc \notin Work  BY ONLY <1>2 DEF Work
  <2> QED  BY <2>1, <2>2, Zenon DEF Consuming
<1>12. Emptied(<<>>, elementsCompletelyDequeued, 0, 0, 0, E)  BY ONLY <1>7, Zenon DEF Emptied
<1>13. QueueIs(p, 0, 0, 0, 0, 0, 0, E, E)
  BY <1>1, <1>5, <1>6, <1>8, <1>9, <1>10, <1>11, <1>12, Zenon DEF QueueIs
<1> QED  BY <1>4, <1>13, Zenon DEF Queue

LEMMA InitTypes ==
    ASSUME Init
    PROVE  Types
<1>1. 0 \in Index /\ 0 \in 0 .. BLOCK_SIZE /\ 0 \in 0 .. InitialPool /\ 0 \in Nat /\ 1 \in 0 .. 1
  <2>1. IndexRange \in Nat \ {0} /\ BLOCK_SIZE \in Nat /\ InitialPool \in Nat  BY ONLY Sizes
  <2> QED  BY ONLY <2>1 DEF Index
<1>2. <<>> \in Seq(Producer) /\ <<>> \in Seq(Header) /\ <<>> \in Seq(Entry)  OBVIOUS
<1>3. Resting \in Calls /\ null \in BlockOrNull /\ "idle" \in Doing
  BY RestingIs DEF BlockOrNull, Doing
<1>4. elements \in [Block -> [0 .. BLOCK_SIZE - 1 -> Index \union {null}]]
  <2>1. null \in Index \union {null}  BY Zenon
  <2> QED  BY <2>1, Zenon DEF Init
<1>5. hands \in [1 .. InitialPool -> 0 .. 1]  BY <1>1, Zenon DEF Init, FreeBlocks!Init
<1>6. heap \subseteq InitialPool + 1 .. InitialPool + Heap  BY Zenon DEF Init
<1>7. /\ tailIndex \in [Producer -> Index] /\ headIndex \in [Producer -> Index]
      /\ dequeueOptimisticCount \in [Producer -> Index]
      /\ dequeueOvercommit \in [Producer -> Index]
      /\ tailBlock \in [Producer -> BlockOrNull] /\ idxEntry \in [Producer -> Nat]
      /\ headers \in [Producer -> Seq(Header)] /\ entries \in [Producer -> Seq(Entry)]
  BY <1>1, <1>2, <1>3, Zenon DEF Init
<1>8. /\ elementsCompletelyDequeued \in [Block -> 0 .. BLOCK_SIZE]
      /\ initialBlockPoolIndex \in 0 .. InitialPool
      /\ pc \in [Producer -> Doing] /\ consumer \in Calls /\ limit \in Limits
      /\ producers \in Seq(Producer)
  BY <1>1, <1>2, <1>3, Zenon DEF Init
<1> QED  BY <1>4, <1>5, <1>6, <1>7, <1>8, Zenon DEF Types

LEMMA InitOwners ==
    ASSUME Init
    PROVE  Owners
<1>1. /\ InitialPool \in Nat /\ Heap \in Nat  BY ONLY Sizes
<1>2. /\ initialBlockPoolIndex = 0 /\ heap = {} /\ consumer = Resting
      /\ \A p \in Producer : entries[p] = <<>>
      /\ \A b \in 1 .. InitialPool : hands[b] = 1
  BY Zenon DEF Init, FreeBlocks!Init
<1>3. consumer.pc # "free"  BY ONLY <1>2 DEF Resting
<1>4. \A b \in Block : b \in Unused  BY <1>1, <1>2 DEF Block, Unused
<1>5. \A b, e : \A p \in Producer : ~Holds(p, e, b)
  <2>1. \A e : e \notin DOMAIN <<>>  OBVIOUS
  <2> QED  BY <1>2, <2>1, Zenon DEF Holds, HasBlock
<1> QED  BY <1>2, <1>3, <1>4, <1>5, Zenon DEF Owners

LEMMA InitInv ==
    ASSUME Init
    PROVE  Inv
<1>1. Fresh  BY Zenon DEF Init, Fresh
<1>2. Wanted
  <2>1. consumer = Resting  BY Zenon DEF Init
  <2>2. consumer.pc = "idle"  BY ONLY <2>1 DEF Resting
  <2>3. consumer.pc # "score" /\ consumer.pc # "bulk" /\ consumer.pc \notin Work
    BY ONLY <2>2 DEF Work
  <2> QED  BY <2>3, Zenon DEF Wanted
<1> QED  BY <1>1, <1>2, InitQueue, InitTypes, InitOwners, Zenon DEF Inv

\* The invariant, for any number of producers, indices and blocks.
THEOREM Invariance == Spec => []Inv
<1>1. Init => Inv  BY InitInv
<1>2. Inv /\ [Next]_vars => Inv'  BY NextKeeps
<1> QED  BY <1>1, <1>2, PTL DEF Spec

-----------------------------------------------------------------------------
(* What follows from the invariant                                         *)

LEMMA InvTypeOK ==
    ASSUME Inv
    PROVE  TypeOK
<1>1. Types  BY Zenon DEF Inv
<1>2. ASSUME NEW p \in Producer, NEW h \in ToSet(headers[p])
      PROVE  /\ h.tail \in 0 .. h.capacity - 1
             /\ h.index \in [1 .. h.capacity -> DOMAIN entries[p]]
  <2>1. Queue(p)  BY Zenon DEF Inv
  <2>2. PICK T, H, F, S, L, C \in Nat, E, N \in [Nat -> Nat] : QueueIs(p, T, H, F, S, L, C, E, N)
    BY <2>1, Zenon DEF Queue
  <2>3. Rings(headers[p], entries[p], pc[p], L, C, E, N)  BY <2>2, Zenon DEF QueueIs
  <2>4. PICK j \in 1 .. Len(headers[p]) : h = headers[p][j]
    <3>1. DOMAIN headers[p] = 1 .. Len(headers[p])
      BY <1>1, TypesOf, HeadersAre, Zenon
    <3> QED  BY <1>2, <3>1, Zenon DEF ToSet
  <2>5. Ring(h, entries[p], L, N[j], E)  BY <2>3, <2>4, Zenon DEF Rings
  <2> QED  BY <2>5, Zenon DEF Ring
<1>3. ASSUME NEW p \in Producer PROVE entries[p] \in Seq([key : Index, value : BlockOrNull])
  BY <1>1, Zenon DEF Types, Entry
<1>4. {tailIndex, headIndex, dequeueOptimisticCount, dequeueOvercommit} \subseteq [Producer -> Index]
  BY <1>1, Zenon DEF Types
<1>5. consumer.pc \in {"idle", "score", "bulk", "index", "tail", "find", "take", "count",
                      "remove", "free"}
  <2>1. consumer \in Calls  BY <1>1, Zenon DEF Types
  <2>2. consumer.pc \in {"idle", "score", "bulk"} \union Work  BY ONLY <2>1 DEF Calls
  <2> QED  BY ONLY <2>2 DEF Work
<1>6. pc \in [Producer -> {"idle", "slot", "grow", "insert", "block", "construct", "commit"}]
  BY <1>1, Zenon DEF Types, Doing
<1>7. /\ producers \in Seq(Producer) /\ tailBlock \in [Producer -> BlockOrNull]
      /\ elements \in [Block -> [0 .. BLOCK_SIZE - 1 -> Index \union {null}]]
      /\ elementsCompletelyDequeued \in [Block -> 0 .. BLOCK_SIZE]
      /\ initialBlockPoolIndex \in 0 .. InitialPool
      /\ hands \in [1 .. InitialPool -> 0 .. 1]
      /\ heap \subseteq InitialPool + 1 .. InitialPool + Heap
      /\ limit \in Limits
  BY <1>1, Zenon DEF Types
<1> QED  BY <1>2, <1>3, <1>4, <1>5, <1>6, <1>7, Zenon DEF TypeOK

LEMMA InvFindsBlock ==
    ASSUME Inv
    PROVE  IndexFindsBlock
<1>1. SUFFICES ASSUME At("find") PROVE IndexFindsBlock  BY Zenon DEF IndexFindsBlock
<1>2. consumer.pc = "find"  BY <1>1, Zenon DEF At
<1>3. consumer.pc \in Work  BY ONLY <1>2 DEF Work
<1>4. PICK p : p = consumer.best  OBVIOUS
<1>5. /\ Types /\ p \in Producer /\ Queue(p) /\ Distinct(entries[p])  BY <1>3, <1>4, Best, Zenon
<1>6. PICK T, H, F, S, L, C \in Nat, E, N \in [Nat -> Nat] : QueueIs(p, T, H, F, S, L, C, E, N)
  BY <1>5, Zenon DEF Queue
<1>7. PICK h, n : h = headers[p][consumer.localBlockIndex] /\ n = N[consumer.localBlockIndex]
  OBVIOUS
<1>8. Found(p, h, n, L, E)  BY <1>2, <1>4, <1>5, <1>6, <1>7, FoundIs, Zenon
<1>9. /\ entries[p][h.index[consumer.tail + 1]].key # INVALID_BLOCK_BASE
      /\ entries[p][h.index[IndexIndex(consumer) + 1]].key = BlockStart(consumer.index)
      /\ entries[p][h.index[IndexIndex(consumer) + 1]].value # null
  <2>1. h.index[IndexIndex(consumer) + 1] = E[L]  BY <1>8, Zenon DEF Found, EntryBefore
  <2> QED  BY <1>8, <2>1, Zenon DEF Found
<1> QED  BY <1>4, <1>7, <1>9, Zenon DEF IndexFindsBlock

LEMMA InvClaim ==
    ASSUME Inv
    PROVE  ClaimSucceeds
<1>1. SUFFICES ASSUME At("score"), consumer.best # null
               PROVE  circular_less_than(Minus(dequeueOptimisticCount[consumer.best],
                                               dequeueOvercommit[consumer.best]),
                                         tailIndex[consumer.best])
  BY Zenon DEF ClaimSucceeds
<1>2. PICK p : p = consumer.best  OBVIOUS
<1>3. Types /\ consumer \in Calls /\ \A r \in Producer : Queue(r)  BY Zenon DEF Inv, Types
<1>4. /\ consumer.nonEmptyCount = 0 => p = null
      /\ consumer.nonEmptyCount > 0 => p \in Producer /\ headIndex[p] # tailIndex[p]
  BY <1>1, <1>2, Zenon DEF Inv, Wanted, At
<1>5. consumer.nonEmptyCount \in Nat  BY ONLY <1>3 DEF Calls
<1>6. consumer.nonEmptyCount > 0
  <2>1. consumer.nonEmptyCount # 0  BY <1>1, <1>2, <1>4, Zenon
  <2> QED  BY ONLY <1>5, <2>1
<1>7. p \in Producer /\ headIndex[p] # tailIndex[p]  BY <1>4, <1>6, Zenon
<1>8. circular_less_than(Minus(dequeueOptimisticCount[p], dequeueOvercommit[p]), tailIndex[p])
  BY <1>3, <1>7, AvailableIs, Zenon
<1> QED  BY <1>2, <1>8, Zenon

\* The pairs of producer and entry that have a block.
LEMMA HoldingsAre ==
    ASSUME Types
    PROVE  /\ \A x \in Holdings : /\ x[1] \in Producer /\ x[2] \in Nat /\ x = <<x[1], x[2]>>
                                  /\ BlockOf(x) \in Block /\ Holds(x[1], x[2], BlockOf(x))
           /\ \A p \in Producer : \A e \in Nat : \A b \in Block :
                Holds(p, e, b) => <<p, e>> \in Holdings /\ BlockOf(<<p, e>>) = b
<1>1. ASSUME NEW p \in Producer, NEW e \in DOMAIN entries[p]
      PROVE  e \in Nat /\ entries[p][e].value \in BlockOrNull
  <2>1. entries[p] \in Seq(Entry)  BY TypesOf, Zenon
  <2>2. ASSUME NEW s \in Seq(Entry), NEW k \in DOMAIN s
        PROVE  k \in Nat /\ s[k].value \in BlockOrNull
    <3>1. s[k] \in Entry /\ k \in Nat  OBVIOUS
    <3> QED  BY <3>1, Zenon DEF Entry
  <2> QED  BY <1>1, <2>1, <2>2, Zenon
<1>2. ASSUME NEW x \in Holdings
      PROVE  /\ x[1] \in Producer /\ x[2] \in Nat /\ x = <<x[1], x[2]>>
             /\ BlockOf(x) \in Block /\ Holds(x[1], x[2], BlockOf(x))
  <2>1. PICK p \in Producer :
          \E e : e \in DOMAIN entries[p] /\ x = <<p, e>> /\ entries[p][e].value # null
    BY <1>2, Zenon DEF Holdings
  <2>2. PICK e : e \in DOMAIN entries[p] /\ x = <<p, e>> /\ entries[p][e].value # null
    BY <2>1, Zenon
  <2>3. x[1] = p /\ x[2] = e  BY ONLY <2>2
  <2>4. BlockOf(x) = entries[p][e].value  BY <2>3, Zenon DEF BlockOf
  <2>5. e \in Nat /\ BlockOf(x) \in Block  BY <1>1, <2>1, <2>2, <2>4, Zenon DEF BlockOrNull
  <2>6. Holds(p, e, BlockOf(x))  BY <2>2, <2>4, Zenon DEF Holds, HasBlock
  <2> QED  BY <2>1, <2>2, <2>3, <2>5, <2>6, Zenon
<1>3. ASSUME NEW p \in Producer, NEW e \in Nat, NEW b \in Block, Holds(p, e, b)
      PROVE  <<p, e>> \in Holdings /\ BlockOf(<<p, e>>) = b
  <2>1. e \in DOMAIN entries[p] /\ entries[p][e].value = b  BY <1>3, Zenon DEF Holds, HasBlock
  <2>2. b # null  BY Values, Zenon
  <2>3. <<p, e>> \in Holdings
    <3>1. e \in {k \in DOMAIN entries[p] : entries[p][k].value # null}  BY <2>1, <2>2, Zenon
    <3>2. <<p, e>> \in {<<p, n>> : n \in {k \in DOMAIN entries[p] : entries[p][k].value # null}}
      BY <3>1, Zenon
    <3> QED  BY <3>2, Zenon DEF Holdings
  <2>4. PICK x : x = <<p, e>>  OBVIOUS
  <2>5. x[1] = p /\ x[2] = e  BY ONLY <2>4
  <2>6. BlockOf(x) = b  BY <2>1, <2>5, Zenon DEF BlockOf
  <2> QED  BY <2>3, <2>4, <2>6, Zenon
<1> QED  BY <1>2, <1>3, Zenon

\* The block that a producer constructs its element in is that of its newest entry.
LEMMA ConstructsIn ==
    ASSUME Types, NEW p \in Producer, Queue(p), pc[p] = "construct"
    PROVE  \E e \in Nat : HasBlock(entries[p], e, tailBlock[p]) /\ tailBlock[p] \in Block
<1>1. PICK T, H, F, S, L, C \in Nat, E, N \in [Nat -> Nat] : QueueIs(p, T, H, F, S, L, C, E, N)
  BY Zenon DEF Queue
<1>2. PICK q : q = pc[p]  OBVIOUS
<1>3. /\ Order(q, T, H, F, S, L, C) /\ Chain(entries[p], q, L, C, E)
      /\ Hand(headers[p], entries[p], q, idxEntry[p], tailBlock[p], T, C, E)
  BY <1>1, <1>2, Zenon DEF QueueIs
<1>4. q = "construct" /\ q # "block"  BY <1>2
<1>5. T < Base(C)  BY <1>3, <1>4, Zenon DEF Order
<1>6. Base(C) \in Nat /\ S <= F /\ F <= H /\ H <= T
  <2>1. Order(q, T, H, F, S, L, C)  BY <1>3, Zenon
  <2> QED  BY ONLY <2>1, OrderIs, T \in Nat, H \in Nat, F \in Nat, S \in Nat, L \in Nat, C \in Nat
<1>7. S < Base(C)  BY ONLY <1>1, <1>5, <1>6
<1>8. C - 1 \in Nat /\ C - 1 \in L .. C - 1
  <2>1. C - 1 \in Nat /\ L <= C - 1
    <3>1. Order(q, T, H, F, S, L, C) /\ S < Base(C)  BY <1>3, <1>7, Zenon
    <3> QED  BY ONLY <3>1, OrderIs, T \in Nat, H \in Nat, F \in Nat, S \in Nat, L \in Nat, C \in Nat
  <2> QED  BY ONLY <1>1, <2>1
<1>9. PICK e : e = E[C - 1]  OBVIOUS
<1>10. e \in Nat /\ e \in DOMAIN entries[p] /\ entries[p][e].value # null
       /\ tailBlock[p] = entries[p][e].value
  <2>1. e \in Nat  BY <1>1, <1>8, <1>9, Zenon
  <2>2. e \in DOMAIN entries[p] /\ entries[p][e].value # null
    BY <1>3, <1>4, <1>8, <1>9, Zenon DEF Chain
  <2>3. tailBlock[p] = entries[p][e].value  BY <1>3, <1>4, <1>5, <1>9, Zenon DEF Hand
  <2> QED  BY <2>1, <2>2, <2>3, Zenon
<1>11. tailBlock[p] \in Block
  <2>1. tailBlock[p] \in BlockOrNull  BY TypesOf, Zenon
  <2> QED  BY <1>10, <2>1, Zenon DEF BlockOrNull
<1>12. HasBlock(entries[p], e, tailBlock[p])  BY <1>10, Zenon DEF HasBlock
<1> QED  BY <1>10, <1>11, <1>12, Zenon

LEMMA InvOwner ==
    ASSUME Inv
    PROVE  OneOwnerPerBlock
<1>1. Types /\ Owners /\ \A r \in Producer : Queue(r)  BY Zenon DEF Inv
<1>2. ASSUME NEW x \in Holdings, NEW y \in Holdings, BlockOf(x) = BlockOf(y) PROVE x = y
  <2>1. /\ x[1] \in Producer /\ x[2] \in Nat /\ x = <<x[1], x[2]>>
        /\ BlockOf(x) \in Block /\ Holds(x[1], x[2], BlockOf(x))
    BY <1>1, HoldingsAre, Zenon
  <2>2. /\ y[1] \in Producer /\ y[2] \in Nat /\ y = <<y[1], y[2]>> /\ Holds(y[1], y[2], BlockOf(x))
    BY <1>1, <1>2, HoldingsAre, Zenon
  <2>3. x[1] = y[1] /\ x[2] = y[2]
    <3>1. PICK p, q, e, f, b : p = x[1] /\ q = y[1] /\ e = x[2] /\ f = y[2] /\ b = BlockOf(x)
      OBVIOUS
    <3>2. p \in Producer /\ q \in Producer /\ e \in Nat /\ f \in Nat /\ b \in Block
      BY <2>1, <2>2, <3>1, Zenon
    <3>3. Holds(p, e, b) /\ Holds(q, f, b)  BY <2>1, <2>2, <3>1, Zenon
    <3>4. p = q /\ e = f  BY <1>1, <3>2, <3>3, Zenon DEF Owners
    <3> QED  BY <3>1, <3>4, Zenon
  <2> QED  BY <2>1, <2>2, <2>3, Zenon
<1>3. ASSUME NEW x \in Holdings PROVE BlockOf(x) \notin Unused
  <2>1. x[1] \in Producer /\ x[2] \in Nat /\ BlockOf(x) \in Block /\ Holds(x[1], x[2], BlockOf(x))
    BY <1>1, HoldingsAre, Zenon
  <2> QED  BY <1>1, <2>1, Zenon DEF Owners
<1>4. ASSUME NEW p \in Producer, pc[p] = "construct" PROVE tailBlock[p] \notin Unused
  <2>1. PICK e \in Nat : HasBlock(entries[p], e, tailBlock[p]) /\ tailBlock[p] \in Block
    BY <1>1, <1>4, ConstructsIn, Zenon
  <2>2. Holds(p, e, tailBlock[p])  BY <2>1, Zenon DEF Holds
  <2> QED  BY <1>1, <2>1, <2>2, Zenon DEF Owners
<1>5. ASSUME consumer.pc \in {"take", "count", "remove", "free"}
      PROVE  consumer.block \notin Unused
  <2>1. CASE consumer.pc = "free"  BY <1>1, <2>1, Zenon DEF Owners
  <2>2. CASE consumer.pc \in {"take", "count", "remove"}
    <3>1. consumer.pc \in Work  BY ONLY <2>2 DEF Work
    <3>2. PICK p : p = consumer.best  OBVIOUS
    <3>3. p \in Producer /\ Queue(p)  BY <3>1, <3>2, Best, Zenon
    <3>4. PICK T, H, F, S, L, C \in Nat, E, N \in [Nat -> Nat] :
            QueueIs(p, T, H, F, S, L, C, E, N)
      BY <3>3, Zenon DEF Queue
    <3>5. AtBlock(p, L, C, E)  BY <1>1, <2>2, <3>2, <3>3, <3>4, AtBlockIs, Zenon
    <3>6. PICK e : e = E[L]  OBVIOUS
    <3>7. e \in Nat  BY <3>4, <3>6, Zenon
    <3>8. Holds(p, e, consumer.block) /\ consumer.block \in Block
      BY <3>5, <3>6, Zenon DEF AtBlock, Holds, HasBlock
    <3> QED  BY <1>1, <3>3, <3>7, <3>8, Zenon DEF Owners
  <2> QED  BY <1>5, <2>1, <2>2
<1> QED  BY <1>2, <1>3, <1>4, <1>5, Zenon DEF OneOwnerPerBlock

\* Every block is in one entry or unused, unless the consumer has it.
LEMMA BlocksCount ==
    ASSUME Types, Owners, consumer.pc # "free"
    PROVE  Cardinality(Holdings) + Cardinality(Unused) = Cardinality(Block)
<1>1. IsFiniteSet(Block)
  <2>1. 1 \in Int /\ InitialPool + Heap \in Int  BY Sizes
  <2> QED  BY <2>1, FS_Interval, Zenon DEF Block
<1>2. Unused \subseteq Block
  <2>1. /\ InitialPool \in Nat /\ Heap \in Nat /\ initialBlockPoolIndex \in 0 .. InitialPool
    BY Sizes DEF Types
  <2> QED  BY <2>1 DEF Unused, Block
<1>3. PICK U : U = Block \ Unused  OBVIOUS
<1>4. PICK f : f = [x \in Holdings |-> BlockOf(x)]  OBVIOUS
<1>5. /\ DOMAIN f = Holdings
      /\ \A x \in Holdings : f[x] = BlockOf(x)
      /\ f = [x \in Holdings |-> f[x]]
  BY <1>4, Zenon
<1>6. \A x \in Holdings : f[x] \in U
  <2>1. ASSUME NEW x \in Holdings PROVE f[x] \in U
    <3>1. x[1] \in Producer /\ x[2] \in Nat /\ BlockOf(x) \in Block /\ Holds(x[1], x[2], BlockOf(x))
      BY HoldingsAre, Zenon
    <3>2. BlockOf(x) \notin Unused  BY <3>1, Zenon DEF Owners
    <3> QED  BY <1>3, <1>5, <3>1, <3>2, Zenon
  <2> QED  BY <2>1, Zenon
<1>7. f \in [Holdings -> U]  BY <1>5, <1>6, Zenon
<1>8. ASSUME NEW x \in Holdings, NEW y \in Holdings, f[x] = f[y] PROVE x = y
  <2>1. PICK p, q, e, g, b : p = x[1] /\ q = y[1] /\ e = x[2] /\ g = y[2] /\ b = BlockOf(x)
    OBVIOUS
  <2>2. p \in Producer /\ e \in Nat /\ x = <<p, e>> /\ b \in Block /\ Holds(p, e, b)
    BY <2>1, HoldingsAre, Zenon
  <2>3. BlockOf(y) = b  BY <1>5, <1>8, <2>1, Zenon
  <2>4. q \in Producer /\ g \in Nat /\ y = <<q, g>> /\ Holds(q, g, b)
    BY <2>1, <2>3, HoldingsAre, Zenon
  <2>5. p = q /\ e = g  BY <2>2, <2>4, Zenon DEF Owners
  <2> QED  BY <2>2, <2>4, <2>5, Zenon
<1>9. f \in Injection(Holdings, U)  BY <1>7, <1>8, Zenon DEF Injection, IsInjective
<1>10. f \in Surjection(Holdings, U)
  <2>1. ASSUME NEW b \in U PROVE \E x \in Holdings : f[x] = b
    <3>1. b \in Block /\ b \notin Unused  BY <1>3, <2>1, Zenon
    <3>2. PICK p \in Producer : \E e \in Nat : Holds(p, e, b)  BY <3>1, Zenon DEF Owners
    <3>3. PICK e \in Nat : Holds(p, e, b)  BY <3>2, Zenon
    <3>4. <<p, e>> \in Holdings /\ BlockOf(<<p, e>>) = b  BY <3>1, <3>3, HoldingsAre, Zenon
    <3>5. PICK x : x = <<p, e>>  OBVIOUS
    <3>6. x \in Holdings /\ f[x] = b  BY <1>5, <3>4, <3>5, Zenon
    <3> QED  BY <3>6, Zenon
  <2> QED  BY <1>7, <2>1, Zenon DEF Surjection
<1>11. IsFiniteSet(U) /\ IsFiniteSet(Unused)  BY <1>1, <1>2, <1>3, FS_Subset, Zenon
<1>12. Cardinality(Holdings) = Cardinality(U)  BY <1>9, <1>10, <1>11, FS_Injection, Zenon
<1>13. Cardinality(U) + Cardinality(Unused) = Cardinality(Block)
  <2>1. U \union Unused = Block /\ U \intersect Unused = {}  BY <1>2, <1>3, Zenon
  <2>2. Cardinality(U \union Unused)
          = Cardinality(U) + Cardinality(Unused) - Cardinality(U \intersect Unused)
    BY <1>11, FS_Union, Zenon
  <2>3. Cardinality({}) = 0  BY FS_EmptySet, Zenon
  <2>4. Cardinality(U) \in Nat /\ Cardinality(Unused) \in Nat  BY <1>11, FS_CardinalityType, Zenon
  <2>5. Cardinality(Block) = Cardinality(U) + Cardinality(Unused) - 0
    BY <2>1, <2>2, <2>3, Zenon
  <2> QED  BY ONLY <2>4, <2>5
<1> QED  BY <1>12, <1>13, Zenon

\* The next index is in the newest block, or begins the block after it.
AtNewest(T, C) ==
  \E K \in Nat : K <= C /\ C - 1 <= K /\ BlockStart(Wrap(T)) = Wrap(Base(K))

\* Where the first index and the next one are, when nobody works on the queue.
LEMMA AtRest ==
    ASSUME NEW T \in Nat, NEW H \in Nat, NEW L \in Nat, NEW C \in Nat, Base(L) <= H,
           H < Base(L) + BLOCK_SIZE, T <= Base(C), Base(C) < T + BLOCK_SIZE
    PROVE  /\ BlockStart(Wrap(H)) = Wrap(Base(L))
           /\ AtNewest(T, C)
<1>1. /\ BLOCK_SIZE \in Nat /\ Base(L) \in Nat /\ Base(C) \in Nat  BY Sizes, Bases, Zenon
<1>2. Base(L) <= H /\ T <= Base(C) /\ Base(C) < T + BLOCK_SIZE  OBVIOUS
<1>3. PICK i : i = H - Base(L)  OBVIOUS
<1>4. i \in 0 .. BLOCK_SIZE - 1 /\ H = Base(L) + i
  BY ONLY <1>1, <1>2, <1>3, H \in Nat, H < Base(L) + BLOCK_SIZE
<1>5. BlockStart(Wrap(H)) = Wrap(Base(L))  BY <1>4, InBlock, Zenon
<1>6. \E K \in Nat : K <= C /\ C - 1 <= K /\ BlockStart(Wrap(T)) = Wrap(Base(K))
  <2>1. CASE T < Base(C)
    <3>1. C > 0 /\ BlockStart(Wrap(T)) = Wrap(Base(C - 1))  BY <1>2, <2>1, TailOffset, Zenon
    <3>2. PICK K : K = C - 1  OBVIOUS
    <3>3. K \in Nat /\ K <= C /\ C - 1 <= K  BY ONLY <3>1, <3>2, C \in Nat
    <3> QED  BY <3>1, <3>2, <3>3, Zenon
  <2>2. CASE T = Base(C)
    <3>1. BlockStart(Wrap(T)) = Wrap(Base(C))  BY <1>2, <2>2, TailOffset, Zenon
    <3>2. C <= C /\ C - 1 <= C  BY ONLY C \in Nat
    <3> QED  BY <3>1, <3>2, Zenon
  <2>3. T < Base(C) \/ T = Base(C)  BY ONLY <1>1, <1>2, T \in Nat
  <2> QED  BY <2>1, <2>2, <2>3, Zenon
<1> QED  BY <1>5, <1>6, Zenon DEF AtNewest

LEMMA InvNotLost ==
    ASSUME Inv
    PROVE  NoBlockLost
<1>1. SUFFICES ASSUME At("idle"), \A p \in Producer : pc[p] = "idle" PROVE NoBlockLost
  BY Zenon DEF NoBlockLost
<1>2. Types /\ Owners /\ \A r \in Producer : Queue(r)  BY Zenon DEF Inv
<1>3. consumer.pc = "idle"  BY <1>1, Zenon DEF At
<1>4. consumer.pc # "free" /\ consumer.pc \notin Work  BY ONLY <1>3 DEF Work
<1>5. ASSUME NEW p \in Producer, NEW e \in DOMAIN entries[p], entries[p][e].value # null
      PROVE  Minus(BlockStart(tailIndex[p]), entries[p][e].key)
               <= Minus(BlockStart(tailIndex[p]), BlockStart(headIndex[p]))
  <2>1. pc[p] = "idle" /\ Queue(p) /\ entries[p] \in Seq(Entry) /\ Distinct(entries[p])
    BY <1>1, <1>2, TypesOf, DistinctOf, Zenon
  <2>2. PICK T, H, F, S, L, C \in Nat, E, N \in [Nat -> Nat] : QueueIs(p, T, H, F, S, L, C, E, N)
    BY <2>1, Zenon DEF Queue
  <2>3. /\ Order("idle", T, H, F, S, L, C) /\ Chain(entries[p], "idle", L, C, E)
        /\ tailIndex[p] = Wrap(T) /\ headIndex[p] = Wrap(H)
    BY <2>1, <2>2, Zenon DEF QueueIs, Indices
  <2>4. /\ Base(L) <= H /\ H < Base(L) + BLOCK_SIZE
        /\ T <= Base(C) /\ Base(C) < T + BLOCK_SIZE
    <3>1. Consuming(consumer, p, headers[p], entries[p], pc[p], T, H, F, S, L, E, N)
      BY <2>2, Zenon DEF QueueIs
    <3>2. S = F /\ F = H /\ S < Base(L) + BLOCK_SIZE  BY <1>4, <3>1, Zenon DEF Consuming
    <3>3. /\ Base(L) <= S /\ T <= Base(C) /\ Base(C) < T + BLOCK_SIZE
      BY ONLY <2>3 DEF Order
    <3> QED  BY <3>2, <3>3, Zenon
  <2>5. BlockStart(Wrap(H)) = Wrap(Base(L))  BY <2>2, <2>4, AtRest, Zenon
  <2>6. PICK K \in Nat : K <= C /\ C - 1 <= K /\ BlockStart(Wrap(T)) = Wrap(Base(K))
    <3>1. AtNewest(T, C)  BY <2>2, <2>4, AtRest, Zenon
    <3> QED  BY <3>1, Zenon DEF AtNewest
  <2>7. PICK m \in L .. C - 1 : E[m] = e  BY <1>5, <2>3, Zenon DEF Chain
  <2>8. entries[p][e].key = Wrap(Base(m))  BY <2>3, <2>7, Zenon DEF Chain
  <2>9. m \in Nat /\ L <= m /\ m <= K /\ L <= K /\ L <= C
    BY ONLY <2>6, m \in L .. C - 1, L \in Nat, C \in Nat, K \in Nat
  <2>10. Base(C) - Base(L) <= IndexRange \div 2
    <3>1. C <= C /\ "idle" # "block"  BY ONLY C \in Nat
    <3> QED  BY <2>1, <2>2, <2>3, <2>9, <3>1, LiveBlocks, Zenon
  <2>11. /\ Base(L) \in Nat /\ Base(m) \in Nat /\ Base(K) \in Nat /\ Base(C) \in Nat
         /\ Base(L) <= Base(m) /\ Base(m) <= Base(K) /\ Base(K) <= Base(C)
    BY <2>2, <2>6, <2>9, Bases, Zenon
  <2>12. /\ Base(K) - Base(m) \in 0 .. IndexRange - 1 /\ Base(K) - Base(L) \in 0 .. IndexRange - 1
         /\ Base(K) - Base(m) <= Base(K) - Base(L)
    <3>1. IndexRange \in Nat \ {0} /\ IndexRange \div 2 < IndexRange
      <4>1. /\ IndexRange \in Nat \ {0} /\ IndexRange \div 2 \in Nat /\ Half \in Nat \ {0}
            /\ Half = IndexRange - (IndexRange \div 2)
        BY ONLY Sizes
      <4> QED  BY ONLY <4>1
    <3>2. IndexRange \div 2 \in Nat  BY ONLY Sizes
    <3> QED  BY ONLY <2>10, <2>11, <3>1, <3>2
  <2>13. Minus(Wrap(Base(K)), Wrap(Base(m))) = Base(K) - Base(m)
    BY <2>11, <2>12, MinusIs, Zenon
  <2>14. Minus(Wrap(Base(K)), Wrap(Base(L))) = Base(K) - Base(L)
    BY <2>11, <2>12, MinusIs, Zenon
  <2> QED  BY <2>3, <2>5, <2>6, <2>8, <2>12, <2>13, <2>14, Zenon
<1>6. Cardinality(Holdings) + Cardinality(Unused) = Cardinality(Block)
  BY <1>2, <1>4, BlocksCount, Zenon
<1> QED  BY <1>5, <1>6, Zenon DEF NoBlockLost

-----------------------------------------------------------------------------
(* Theorems                                                                *)

\* The queues, the blocks and the threads have their types in every state, for
\* any number of producers, blocks and indices (concurrentqueue.h, the members
\* of ImplicitProducer, Block and the locals of enqueue and dequeue).
THEOREM TypeCorrect == Spec => []TypeOK
<1>1. Inv => TypeOK  BY InvTypeOK
<1> QED  BY <1>1, Invariance, PTL

\* What get_block_index_index_for_index asserts: the block index that dequeue
\* reads has the block of the element, at the position it computes from a tail
\* that may be out of date, in a ring that may have been replaced.
THEOREM BlockIsFound == Spec => []IndexFindsBlock
<1>1. Inv => IndexFindsBlock  BY InvFindsBlock
<1> QED  BY <1>1, Invariance, PTL

\* An element that try_dequeue has seen is there when it is claimed: the code
\* for a claim that came too late is never reached with one consumer.
THEOREM ClaimIsKept == Spec => []ClaimSucceeds
<1>1. Inv => ClaimSucceeds  BY InvClaim
<1> QED  BY <1>1, Invariance, PTL

\* A block is in one entry of one producer or unused: no two producers
\* construct elements in it, and nobody touches it after it was given back.
THEOREM BlockHasOneOwner == Spec => []OneOwnerPerBlock
<1>1. Inv => OneOwnerPerBlock  BY InvOwner
<1> QED  BY <1>1, Invariance, PTL

\* Between calls every block is unused, or it has an element or takes the next
\* one: whatever enqueue and dequeue did, no block is lost.
THEOREM BlocksAreKept == Spec => []NoBlockLost
<1>1. Inv => NoBlockLost  BY InvNotLost
<1> QED  BY <1>1, Invariance, PTL
=============================================================================
