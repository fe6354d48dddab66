----------------------------- MODULE InboxProofs -----------------------------
(***************************************************************************)
(* ItcQueue implements Inbox.  The invariant of ItcQueueProofs says where  *)
(* the elements of a queue are; here it is shown that every step either    *)
(* leaves what the consumer would find there alone, or adds the element    *)
(* that is announced, or takes the first one.                              *)
(***************************************************************************)
EXTENDS ItcQueueProofs
-----------------------------------------------------------------------------
(* The inbox                                                               *)

\* What the consumer remembers: whom it has seen empty, what it has found.
Recalls(c) ==
  /\ c.pc \in {"idle", "bulk"} => c.best = null
  /\ c.pc = "score" => c.outcome = "none"
  /\ c.pc = "score" /\ c.nonEmptyCount = 0 => Producer \subseteq c.scanned \union ToSet(c.todo)
  /\ c.pc = "bulk" => IF c.count = 0
                      THEN /\ c.outcome = "none"
                           /\ Producer \subseteq c.scanned \union ToSet(c.todo)
                      ELSE c.outcome = "found"
  /\ c.pc \in {"count", "remove", "free"} => c.outcome = "found" /\ c.count > 0
Recalled == Recalls(consumer)

\* An element that is constructed stays so until it is announced.
Committed == \A p \in Producer : pc[p] = "commit" =>
               elements[tailBlock[p]][tailIndex[p] % BLOCK_SIZE] = tailIndex[p]

\* The entry of the element at index i, the ones that are left of p's queue,
\* and what the consumer would find there.
Keyed(es, e, i) == e \in DOMAIN es /\ es[e].key = BlockStart(i) /\ es[e].value # null
Length(p) == Minus(tailIndex[p], First(p))
Left(p, i) == i \in Index /\ Minus(i, First(p)) < Length(p)
Element(p, i) == elements[EntryAt(p, i).value][i % BLOCK_SIZE]

\* The element at index i of p's queue is in block b.
Place(p, i, b) == \E e \in Nat : Keyed(entries[p], e, i) /\ entries[p][e].value = b

\* What the consumer works on, when it works on p's queue.
Reads(p) ==
  /\ consumer.pc = "take" => /\ Place(p, consumer.index, consumer.block)
                             /\ consumer.block \in Block /\ Length(p) > 0
  /\ consumer.pc = "remove" => \A i : Left(p, i) => ~Keyed(entries[p], EntryOf(consumer), i)
  /\ consumer.pc \in Work => consumer.end = headIndex[p] /\ consumer.index \in Index

Legible(p) ==
  /\ First(p) \in Index /\ Length(p) \in Nat /\ Length(p) + 1 < IndexRange
  /\ \A e, f : \A i \in Index : Keyed(entries[p], e, i) /\ Keyed(entries[p], f, i) => e = f
  /\ \A i : Left(p, i) => \E b \in Block : Place(p, i, b)
  /\ pc[p] \in {"construct", "commit"} => Place(p, tailIndex[p], tailBlock[p]) /\ tailBlock[p] \in Block
  /\ pc[p] \in {"insert", "block"} => entries[p][idxEntry[p]].value = null
  /\ p \notin ToSet(producers) => Length(p) = 0
  /\ consumer.best = p => Reads(p)

\* The elements that are left are those from F to T; x is in a block.
Numbered(p, F, T) == \A i : Left(p, i) => \E x \in Nat : F <= x /\ x < T /\ i = Wrap(x)
Stored(es, L, C, E, x) ==
  \E m \in L .. C - 1 : /\ m \in Nat /\ Base(m) <= x /\ x < Base(m) + BLOCK_SIZE
                        /\ Keyed(es, E[m], Wrap(x)) /\ E[m] \in Nat
                        /\ es[E[m]].value \in Block

Core == Inv /\ Recalled /\ Committed
Facts == Core /\ \A p \in Producer : Legible(p)

LEMMA Spans ==
    ASSUME Types, Owners, NEW p \in Producer, NEW T \in Nat, NEW H \in Nat, NEW F \in Nat,
           NEW S \in Nat, NEW L \in Nat, NEW C \in Nat, NEW E \in [Nat -> Nat],
           NEW N \in [Nat -> Nat], QueueIs(p, T, H, F, S, L, C, E, N)
    PROVE  /\ Base(L) <= F /\ F <= T /\ T <= Base(C) /\ Base(C) <= T + BLOCK_SIZE
           /\ T - Base(L) <= IndexRange \div 2 /\ (T - F) + 1 < IndexRange
           /\ pc[p] = "block" => Base(C) = T + BLOCK_SIZE
           /\ pc[p] \in {"construct", "commit"} => T < Base(C)
<1> PICK q : q = pc[p]  OBVIOUS
<1> PICK es : es = entries[p]  OBVIOUS
<1>1. es \in Seq(Entry) /\ Distinct(es)  BY TypesOf, DistinctOf, Zenon
<1>2. Order(q, T, H, F, S, L, C) /\ Chain(es, q, L, C, E)  BY Zenon DEF QueueIs
<1>3. /\ Base(L) \in Nat /\ Base(C) \in Nat /\ L <= C
      /\ Base(L) <= S /\ S <= F /\ F <= H /\ H <= T /\ T <= Base(C)
  BY ONLY <1>2, OrderIs, T \in Nat, H \in Nat, F \in Nat, S \in Nat, L \in Nat, C \in Nat
<1>4. /\ Base(C) <= T + BLOCK_SIZE
      /\ q = "block" => Base(C) = T + BLOCK_SIZE
      /\ q \in {"construct", "commit"} => T < Base(C)
  BY <1>2, Zenon DEF Order
<1>5. /\ IndexRange \in Nat \ {0} /\ IndexRange \div 2 \in Nat /\ BLOCK_SIZE \in Nat \ {0, 1}
      /\ Half \in Nat \ {0} /\ Half = IndexRange - (IndexRange \div 2)
      /\ IndexRange \div 2 <= Half /\ 2 * BLOCK_SIZE <= IndexRange
      /\ Half <= (IndexRange \div 2) + 1
  BY ONLY Sizes
<1>6. \E k \in Nat : L <= k /\ k <= C /\ (q = "block" => k < C) /\ T <= Base(k)
  <2>1. CASE q = "block"
    <3>1. L # C  BY ONLY <1>3, <1>4, <1>5, <2>1, T \in Nat, H \in Nat, F \in Nat, S \in Nat
    <3> PICK k \in Nat : C = k + 1  BY ONLY <1>3, <3>1, L \in Nat, C \in Nat
    <3>2. Base(k) \in Nat /\ Base(k + 1) = Base(k) + BLOCK_SIZE  BY Bases, Zenon
    <3>3. T <= Base(k)  BY ONLY <1>4, <1>5, <2>1, <3>2, C = k + 1, T \in Nat
    <3>4. L <= k /\ k <= C /\ k < C  BY ONLY <1>3, <3>1, C = k + 1, L \in Nat, k \in Nat
    <3> QED  BY <3>3, <3>4, Zenon
  <2>2. CASE q # "block"
    <3>1. C <= C  OBVIOUS
    <3> QED  BY <1>3, <2>2, <3>1, Zenon
  <2> QED  BY <2>1, <2>2, Zenon
<1> PICK k \in Nat : L <= k /\ k <= C /\ (q = "block" => k < C) /\ T <= Base(k)  BY <1>6, Zenon
<1>7. Base(k) - Base(L) <= IndexRange \div 2
  <2>1. L <= k  OBVIOUS
  <2>2. k <= C  OBVIOUS
  <2>3. q = "block" => k < C  OBVIOUS
  <2>4. Chain(es, q, L, C, E) /\ es \in Seq(Entry) /\ Distinct(es)  BY <1>1, <1>2, Zenon
  <2> QED  BY ONLY <2>1, <2>2, <2>3, <2>4, LiveBlocks, k \in Nat, L \in Nat, C \in Nat, Zenon
<1>8. Base(k) \in Nat  BY Bases, Zenon
<1>9. T - Base(L) <= IndexRange \div 2 /\ (T - F) + 1 < IndexRange
  <2>1. T <= Base(k)  OBVIOUS
  <2> QED  BY ONLY <1>3, <1>5, <1>7, <1>8, <2>1, T \in Nat, H \in Nat, F \in Nat, S \in Nat
<1>10. F <= T /\ Base(L) <= F
  BY ONLY <1>3, T \in Nat, H \in Nat, F \in Nat, S \in Nat
<1> QED  BY <1>3, <1>4, <1>9, <1>10, Zenon

\* The block of an element that is left.
LEMMA BlockOfElement ==
    ASSUME NEW L \in Nat, NEW C \in Nat, NEW x \in Nat, Base(L) <= x, x < Base(C)
    PROVE  \E m \in L .. C - 1 : /\ m \in Nat /\ Base(m) \in Nat
                                 /\ Base(m) <= x /\ x < Base(m) + BLOCK_SIZE
                                 /\ BlockStart(Wrap(x)) = Wrap(Base(m))
<1>1. BLOCK_SIZE \in Nat \ {0}  BY ONLY Sizes
<1>0. /\ x \div BLOCK_SIZE \in Int /\ x % BLOCK_SIZE \in 0 .. BLOCK_SIZE - 1
      /\ x = (x \div BLOCK_SIZE) * BLOCK_SIZE + (x % BLOCK_SIZE)
  <2>1. x \in Int  OBVIOUS
  <2> QED  BY <1>1, <2>1, Remainder, Zenon
<1> PICK m \in Int : m = x \div BLOCK_SIZE  BY <1>0, Zenon
<1> PICK i : i = x % BLOCK_SIZE  OBVIOUS
<1>2. i \in 0 .. BLOCK_SIZE - 1 /\ x = m * BLOCK_SIZE + i  BY <1>0, Zenon
<1>3. m \in Nat
  <2> SUFFICES ASSUME m < 0 PROVE FALSE  OBVIOUS
  <2>1. m * BLOCK_SIZE + BLOCK_SIZE <= 0 * BLOCK_SIZE /\ 0 * BLOCK_SIZE = 0
        /\ m * BLOCK_SIZE \in Int
    BY <1>1, Times
  <2>2. PICK y \in Int : y = m * BLOCK_SIZE  BY <2>1, Zenon
  <2> QED  BY ONLY <1>1, <1>2, <2>1, <2>2, x \in Nat
<1>4. x = Base(m) + i /\ Base(m) \in Nat /\ Base(m + 1) = Base(m) + BLOCK_SIZE
  <2>1. x = Base(m) + i  BY <1>2, Zenon DEF Base
  <2> QED  BY <1>3, <2>1, Bases, Zenon
<1>5. Base(m) <= x /\ x < Base(m) + BLOCK_SIZE  BY ONLY <1>1, <1>2, <1>4
<1>6. L < m + 1 /\ m < C
  <2>0. m + 1 \in Nat  BY ONLY <1>3
  <2>1. Base(L) \in Nat /\ Base(C) \in Nat /\ m + 1 \in Nat  BY <2>0, Bases, Zenon
  <2>2. Base(L) < Base(m + 1) /\ Base(m) < Base(C)
    <3>1. Base(L) <= x /\ x < Base(C)  OBVIOUS
    <3> QED  BY ONLY <1>1, <1>4, <1>5, <2>1, <3>1, x \in Nat
  <2> QED  BY <1>3, <2>1, <2>2, EarlierBlock, Zenon
<1>7. m \in L .. C - 1  BY <1>3, <1>6
<1>8. BlockStart(Wrap(x)) = Wrap(Base(m))
  <2>1. x = Base(m) + i  BY <1>4, Zenon
  <2> QED  BY <1>2, <1>3, <2>1, InBlock, Zenon
<1> QED  BY <1>3, <1>4, <1>5, <1>7, <1>8, Zenon

\* Indices as differences.
LEMMA PlusMinus ==
    ASSUME NEW i \in Index, NEW a \in Index
    PROVE  /\ Minus(i, a) \in Nat /\ Minus(i, a) < IndexRange
           /\ Plus(a, Minus(i, a)) = i
<1>1. IndexRange \in Nat \ {0} /\ i \in 0 .. IndexRange - 1 /\ a \in 0 .. IndexRange - 1
  BY Sizes DEF Index
<1>2. CASE a <= i
  <2>1. (i - a) % IndexRange = i - a  BY ONLY <1>1, <1>2, Small
  <2>2. (a + (i - a)) % IndexRange = i
    <3>1. a + (i - a) = i  BY ONLY <1>1
    <3>2. i % IndexRange = i  BY ONLY <1>1, Small
    <3> QED  BY <3>1, <3>2, Zenon
  <2> QED  BY ONLY <1>1, <1>2, <2>1, <2>2 DEF Plus, Minus
<1>3. CASE i < a
  <2> PICK d \in 0 .. IndexRange - 1 : d = (i - a) + IndexRange  BY ONLY <1>1, <1>3
  <2>1. d % IndexRange = d  BY ONLY <1>1, d \in 0 .. IndexRange - 1, Small
  <2>2. i - a \in Int /\ d = (i - a) + 1 * IndexRange  BY ONLY <1>1, d = (i - a) + IndexRange
  <2>3. d % IndexRange = (i - a) % IndexRange
    <3>1. d \in Int /\ 1 \in Int  BY ONLY <1>1, d \in 0 .. IndexRange - 1
    <3> QED  BY ONLY <1>1, <2>2, <3>1, Congruent, Zenon
  <2>4. (i - a) % IndexRange = d  BY <2>1, <2>3, Zenon
  <2>5. a + d = i + 1 * IndexRange /\ a + d \in Int /\ i \in Int /\ 1 \in Int
    BY ONLY <1>1, d = (i - a) + IndexRange, d \in 0 .. IndexRange - 1
  <2>6. (a + d) % IndexRange = i % IndexRange
    BY ONLY <1>1, <2>5, Congruent, Zenon
  <2>7. i % IndexRange = i  BY ONLY <1>1, Small
  <2>8. Minus(i, a) = d /\ Plus(a, d) = i  BY <2>4, <2>6, <2>7, Zenon DEF Minus, Plus
  <2>9. d \in Nat /\ d < IndexRange  BY ONLY <1>1, d \in 0 .. IndexRange - 1
  <2> QED  BY <2>8, <2>9, Zenon
<1> QED  BY ONLY <1>1, <1>2, <1>3

\* The elements that are left of a queue are those from F on.
LEMMA FirstIs ==
    ASSUME Types, Owners, Recalled, NEW p \in Producer, NEW T \in Nat, NEW H \in Nat, NEW F \in Nat,
           NEW S \in Nat, NEW L \in Nat, NEW C \in Nat, NEW E \in [Nat -> Nat],
           NEW N \in [Nat -> Nat], QueueIs(p, T, H, F, S, L, C, E, N)
    PROVE  /\ First(p) = Wrap(F) /\ Length(p) = T - F /\ First(p) \in Index
           /\ Length(p) \in Nat /\ Length(p) + 1 < IndexRange
           /\ Numbered(p, F, T)
           /\ tailIndex[p] = Wrap(T) /\ headIndex[p] = Wrap(H)
<1>1. /\ F <= T /\ (T - F) + 1 < IndexRange  BY Spans, Zenon
<1>2. IndexRange \in Nat \ {0}  BY ONLY Sizes
<1>3. tailIndex[p] = Wrap(T) /\ headIndex[p] = Wrap(H)  BY Zenon DEF QueueIs, Indices
<1>4. Consuming(consumer, p, headers[p], entries[p], pc[p], T, H, F, S, L, E, N)
  BY Zenon DEF QueueIs
<1>5. First(p) = Wrap(F)
  <2>1. CASE consumer.pc \in Work /\ consumer.best = p
    <3>1. consumer.index = Wrap(F)  BY <1>4, <2>1, Zenon DEF Consuming, Working
    <3>2. consumer.pc # "score"  BY ONLY <2>1 DEF Work
    <3> QED  BY <2>1, <3>1, <3>2, Zenon DEF First
  <2>2. CASE ~(consumer.pc \in Work /\ consumer.best = p)
    <3>1. F = H  BY <1>4, <2>2, Zenon DEF Consuming
    <3>2. consumer \in Calls  BY Zenon DEF Types
    <3>3. consumer.pc \in Work \/ consumer.pc \in {"idle", "bulk"} \/ consumer.pc = "score"
      BY ONLY <3>2 DEF Calls
    <3>4. consumer.best = p => consumer.pc = "score"
      <4>1. consumer.pc \in {"idle", "bulk"} => consumer.best = null  BY Zenon DEF Recalled, Recalls
      <4>2. p # null  BY QueueAssumption
      <4> QED  BY <2>2, <3>3, <4>1, <4>2, Zenon
    <3> QED  BY <1>3, <3>1, <3>4, Zenon DEF First
  <2> QED  BY <2>1, <2>2, Zenon
<1>6. Length(p) = T - F
  <2>1. T - F \in 0 .. IndexRange - 1  BY ONLY <1>1, <1>2, T \in Nat, F \in Nat
  <2>2. Minus(Wrap(T), Wrap(F)) = T - F  BY <2>1, MinusIs, Zenon
  <2> QED  BY <1>3, <1>5, <2>2, Zenon DEF Length
<1>7. T - F \in Nat  BY ONLY <1>1, T \in Nat, F \in Nat
<1>8. Wrap(F) \in Index  BY Wrapped, Zenon
<1>9. ASSUME NEW i, Left(p, i) PROVE \E x \in Nat : F <= x /\ x < T /\ i = Wrap(x)
  <2>1. i \in Index /\ Minus(i, Wrap(F)) < T - F  BY <1>5, <1>6, <1>9, Zenon DEF Left
  <2> PICK d : d = Minus(i, Wrap(F))  OBVIOUS
  <2>2. d \in Nat /\ Plus(Wrap(F), d) = i  BY <1>8, <2>1, PlusMinus, Zenon
  <2>3. Wrap(F + d) = i  BY <2>2, Wrapped, Zenon
  <2>4. F + d \in Nat /\ F <= F + d /\ F + d < T
    <3>1. d < T - F  BY <2>1, Zenon
    <3> QED  BY ONLY <1>1, <2>2, <3>1, T \in Nat, F \in Nat
  <2> QED  BY <2>3, <2>4, Zenon
<1>10. Numbered(p, F, T)  BY <1>9, Zenon DEF Numbered
<1> QED  BY <1>1, <1>3, <1>5, <1>6, <1>7, <1>8, <1>10, Zenon

\* Two entries with blocks have different keys.
LEMMA KeysDiffer ==
    ASSUME Types, Owners, NEW p \in Producer, Queue(p), NEW e, NEW f, NEW i \in Index,
           Keyed(entries[p], e, i), Keyed(entries[p], f, i)
    PROVE  e = f
<1>1. PICK T, H, F, S, L, C \in Nat, E, N \in [Nat -> Nat] : QueueIs(p, T, H, F, S, L, C, E, N)
  BY Zenon DEF Queue
<1> PICK es : es = entries[p]  OBVIOUS
<1> PICK q : q = pc[p]  OBVIOUS
<1>2. Chain(es, q, L, C, E)  BY <1>1, Zenon DEF QueueIs
<1>12. \A g \in DOMAIN es : es[g].value # null =>
          \E m \in L .. C - 1 : E[m] = g /\ es[g].key = Wrap(Base(m)) /\ m \in Nat
  BY ONLY <1>2, ChainIs, L \in Nat, C \in Nat
<1>13. /\ e \in DOMAIN es /\ es[e].key = BlockStart(i) /\ es[e].value # null
       /\ f \in DOMAIN es /\ es[f].key = BlockStart(i) /\ es[f].value # null
  BY Zenon DEF Keyed
<1>3. PICK m \in L .. C - 1 : E[m] = e /\ es[e].key = Wrap(Base(m)) /\ m \in Nat
  BY <1>12, <1>13, Zenon
<1>4. PICK n \in L .. C - 1 : E[n] = f /\ es[f].key = Wrap(Base(n)) /\ n \in Nat
  BY <1>12, <1>13, Zenon
<1>5. Wrap(Base(m)) = Wrap(Base(n))  BY <1>3, <1>4, <1>13, Zenon
<1>6. /\ Base(L) <= F /\ F <= T /\ T <= Base(C) /\ Base(C) <= T + BLOCK_SIZE
      /\ T - Base(L) <= IndexRange \div 2
  BY <1>1, Spans, Zenon
<1>7. /\ Base(m) \in Nat /\ Base(n) \in Nat /\ Base(L) \in Nat /\ Base(C) \in Nat
      /\ Base(L) <= Base(m) /\ Base(L) <= Base(n)
      /\ Base(m) + BLOCK_SIZE <= Base(C) /\ Base(n) + BLOCK_SIZE <= Base(C)
  <2>1. L <= m /\ L <= n /\ m < C /\ n < C
    BY ONLY <1>1, <1>3, <1>4, m \in L .. C - 1, n \in L .. C - 1
  <2> QED  BY <1>1, <1>3, <1>4, <2>1, Bases, Zenon
<1>8. /\ IndexRange \in Nat \ {0} /\ IndexRange \div 2 \in Nat /\ BLOCK_SIZE \in Nat \ {0, 1}
      /\ IndexRange \div 2 < IndexRange
  <2>1. /\ IndexRange \in Nat \ {0} /\ IndexRange \div 2 \in Nat /\ Half \in Nat \ {0}
        /\ BLOCK_SIZE \in Nat \ {0, 1} /\ Half = IndexRange - (IndexRange \div 2)
    BY ONLY Sizes
  <2> QED  BY ONLY <2>1
<1>9. Base(m) - Base(n) < IndexRange /\ Base(n) - Base(m) < IndexRange
  BY ONLY <1>1, <1>6, <1>7, <1>8
<1>10. Base(m) = Base(n)  BY <1>5, <1>7, <1>9, SameWrap, Zenon
<1>11. m = n
  <2>1. ~(Base(m) < Base(n)) /\ ~(Base(n) < Base(m))  BY ONLY <1>7, <1>10
  <2>2. m < n \/ n < m \/ m = n  BY ONLY <1>3, <1>4
  <2>3. m < n => Base(m) + BLOCK_SIZE <= Base(n)  BY <1>3, <1>4, Bases, Zenon
  <2>4. n < m => Base(n) + BLOCK_SIZE <= Base(m)  BY <1>3, <1>4, Bases, Zenon
  <2> QED  BY ONLY <1>7, <1>8, <1>10, <2>2, <2>3, <2>4
<1> QED  BY <1>3, <1>4, <1>11, Zenon

\* An element that was pushed and not moved out is in a block of the index.
LEMMA ElementHasBlock ==
    ASSUME Types, Owners, NEW p \in Producer, NEW T \in Nat, NEW H \in Nat, NEW F \in Nat,
           NEW S \in Nat, NEW L \in Nat, NEW C \in Nat, NEW E \in [Nat -> Nat],
           NEW N \in [Nat -> Nat], QueueIs(p, T, H, F, S, L, C, E, N),
           NEW x \in Nat, F <= x, x < T
    PROVE  Stored(entries[p], L, C, E, x)
<1> PICK es : es = entries[p]  OBVIOUS
<1> PICK q : q = pc[p]  OBVIOUS
<1>1. es \in Seq(Entry)  BY TypesOf, Zenon
<1>2. Chain(es, q, L, C, E)  BY Zenon DEF QueueIs
<1>3. /\ Base(L) <= F /\ F <= T /\ T <= Base(C)
      /\ q = "block" => Base(C) = T + BLOCK_SIZE
  BY Spans, Zenon
<1>4. Base(L) \in Nat /\ Base(C) \in Nat  BY Bases, Zenon
<1>5. Base(L) <= x /\ x < Base(C)
  <2>1. F <= x /\ x < T  OBVIOUS
  <2> QED  BY ONLY <1>3, <1>4, <2>1, T \in Nat, F \in Nat, x \in Nat
<1>6. PICK m \in L .. C - 1 : /\ m \in Nat /\ Base(m) \in Nat
                             /\ Base(m) <= x /\ x < Base(m) + BLOCK_SIZE
                             /\ BlockStart(Wrap(x)) = Wrap(Base(m))
  BY ONLY <1>5, BlockOfElement, L \in Nat, C \in Nat, x \in Nat
<1>7. ~(q = "block" /\ m = C - 1)
  <2> SUFFICES ASSUME q = "block", m = C - 1 PROVE FALSE  BY Zenon
  <2>1. C = m + 1  BY ONLY <1>6, m = C - 1, C \in Nat
  <2>2. Base(C) = Base(m) + BLOCK_SIZE  BY <1>6, <2>1, Bases, Zenon
  <2>3. Base(C) = T + BLOCK_SIZE /\ x < T  BY <1>3, Zenon
  <2>4. BLOCK_SIZE \in Nat \ {0, 1}  BY ONLY Sizes
  <2> QED  BY ONLY <1>6, <2>2, <2>3, <2>4, T \in Nat, x \in Nat
<1>8. E[m] \in DOMAIN es /\ es[E[m]].key = Wrap(Base(m)) /\ es[E[m]].value # null
  BY <1>2, <1>7, Zenon DEF Chain
<1>9. es[E[m]].value \in Block
  <2>1. es[E[m]] \in Entry  BY <1>1, <1>8, ElementOfSeq, LenProperties, Zenon
  <2>2. es[E[m]].value \in BlockOrNull  BY <2>1 DEF Entry
  <2> QED  BY <1>8, <2>2, Zenon DEF BlockOrNull
<1>10. E[m] \in Nat  BY <1>6, Zenon
<1>11. Keyed(es, E[m], Wrap(x))  BY <1>6, <1>8, Zenon DEF Keyed
<1> QED  BY <1>6, <1>9, <1>10, <1>11, Zenon DEF Stored

\* The numbers of p's queue, with all that is known of them.
LEMMA LegibleProducer ==
    ASSUME Types, Owners, Fresh, NEW p \in Producer, NEW T \in Nat, NEW H \in Nat, NEW F \in Nat,
           NEW S \in Nat, NEW L \in Nat, NEW C \in Nat, NEW E \in [Nat -> Nat],
           NEW N \in [Nat -> Nat], QueueIs(p, T, H, F, S, L, C, E, N), tailIndex[p] = Wrap(T)
    PROVE  /\ pc[p] \in {"construct", "commit"} =>
                Place(p, tailIndex[p], tailBlock[p]) /\ tailBlock[p] \in Block
           /\ pc[p] \in {"insert", "block"} => entries[p][idxEntry[p]].value = null
           /\ p \notin ToSet(producers) => T = F
<1> PICK es : es = entries[p]  OBVIOUS
<1> PICK q : q = pc[p]  OBVIOUS
<1>1. es \in Seq(Entry)  BY TypesOf, Zenon
<1>2. /\ Chain(es, q, L, C, E) /\ Order(q, T, H, F, S, L, C)
      /\ Hand(headers[p], es, q, idxEntry[p], tailBlock[p], T, C, E)
  BY Zenon DEF QueueIs
<1>3. /\ Base(L) <= F /\ F <= T /\ T <= Base(C) /\ Base(C) <= T + BLOCK_SIZE
      /\ q = "block" => Base(C) = T + BLOCK_SIZE
      /\ q \in {"construct", "commit"} => T < Base(C)
  BY Spans, Zenon
<1>4. Base(L) \in Nat /\ Base(C) \in Nat /\ Base(0) = 0  BY Bases, Zenon
<1>5. BLOCK_SIZE \in Nat \ {0, 1}  BY ONLY Sizes
<1>6. ASSUME T < Base(C) \/ q = "block"
      PROVE  /\ C - 1 \in L .. C - 1 /\ C - 1 \in Nat
             /\ Base(C) = Base(C - 1) + BLOCK_SIZE /\ Base(C - 1) \in Nat
  <2>1. Base(L) < Base(C)
    <3>1. CASE T < Base(C)  BY ONLY <1>3, <1>4, <3>1, T \in Nat, F \in Nat
    <3>2. CASE q = "block"
      BY ONLY <1>3, <1>4, <1>5, <3>2, T \in Nat, F \in Nat
    <3> QED  BY <1>6, <3>1, <3>2, Zenon
  <2>2. L < C  BY <2>1, EarlierBlock, Zenon
  <2> PICK n \in Nat : C = n + 1  BY ONLY <2>2, L \in Nat, C \in Nat
  <2>3. Base(n) \in Nat /\ Base(n + 1) = Base(n) + BLOCK_SIZE  BY Bases, Zenon
  <2>4. C - 1 = n /\ n \in L .. C - 1  BY ONLY <2>2, C = n + 1, n \in Nat, L \in Nat
  <2> QED  BY <2>3, <2>4, Zenon
<1>7. ASSUME q \in {"construct", "commit"}
      PROVE  Place(p, tailIndex[p], tailBlock[p]) /\ tailBlock[p] \in Block
  <2>1. T < Base(C) /\ q # "block"  BY <1>3, <1>7
  <2>2. /\ C - 1 \in L .. C - 1 /\ C - 1 \in Nat
        /\ Base(C) = Base(C - 1) + BLOCK_SIZE /\ Base(C - 1) \in Nat
    BY <1>6, <2>1, Zenon
  <2> PICK n \in Nat : n = C - 1  BY <2>2, Zenon
  <2> PICK e : e = E[n]  OBVIOUS
  <2>3. /\ e \in DOMAIN es /\ es[e].key = Wrap(Base(n)) /\ es[e].value # null
        /\ tailBlock[p] = es[e].value
    <3>1. n \in L .. C - 1  BY <2>2, Zenon
    <3>2. e \in DOMAIN es /\ es[e].key = Wrap(Base(n)) /\ es[e].value # null
      BY <1>2, <2>1, <3>1, Zenon DEF Chain
    <3>3. tailBlock[p] = es[e].value  BY <1>2, <2>1, Zenon DEF Hand
    <3> QED  BY <3>2, <3>3, Zenon
  <2>4. BlockStart(Wrap(T)) = Wrap(Base(n))
    <3> PICK i \in Int : i = T - Base(n)  BY <2>2
    <3>1. i \in 0 .. BLOCK_SIZE - 1 /\ T = Base(n) + i
      <4>1. Base(n) \in Nat /\ Base(C) = Base(n) + BLOCK_SIZE  BY <2>2, Zenon
      <4> QED  BY ONLY <1>3, <1>5, <2>1, <4>1, i = T - Base(n), T \in Nat
    <3> QED  BY <3>1, InBlock, Zenon
  <2>5. Keyed(entries[p], e, tailIndex[p]) /\ entries[p][e].value = tailBlock[p]
    BY <2>3, <2>4, Zenon DEF Keyed
  <2>6. e \in Nat  BY Zenon
  <2>7. tailBlock[p] \in Block
    <3>1. tailBlock[p] \in BlockOrNull  BY TypesOf, Zenon
    <3> QED  BY <2>3, <3>1, Zenon DEF BlockOrNull
  <2> QED  BY <2>5, <2>6, <2>7, Zenon DEF Place
<1>8. ASSUME q \in {"insert", "block"} PROVE es[idxEntry[p]].value = null
  <2>1. CASE q = "insert"  BY <1>2, <2>1, Zenon DEF Hand
  <2>2. CASE q = "block"
    <3>1. C - 1 \in L .. C - 1  BY <1>6, <2>2, Zenon
    <3>2. idxEntry[p] = E[C - 1]  BY <1>2, <2>2, Zenon DEF Hand
    <3> PICK n : n = C - 1  OBVIOUS
    <3>3. es[E[n]].value = null  BY <1>2, <2>2, <3>1, Zenon DEF Chain
    <3> QED  BY <3>2, <3>3, Zenon
  <2> QED  BY <1>8, <2>1, <2>2
<1>9. ASSUME p \notin ToSet(producers) PROVE T = F
  <2>1. headers[p] = <<>>  BY <1>9, Zenon DEF Fresh
  <2>2. C = 0  BY <1>2, <2>1, Zenon DEF Hand
  <2>3. Base(C) = 0  BY <1>4, <2>2, Zenon
  <2> QED  BY ONLY <1>3, <1>4, <2>3, T \in Nat, F \in Nat
<1> QED  BY <1>7, <1>8, <1>9, Zenon

LEMMA LegibleConsumer ==
    ASSUME Types, Owners, NEW p \in Producer, NEW T \in Nat, NEW H \in Nat, NEW F \in Nat,
           NEW S \in Nat, NEW L \in Nat, NEW C \in Nat, NEW E \in [Nat -> Nat],
           NEW N \in [Nat -> Nat], QueueIs(p, T, H, F, S, L, C, E, N), consumer.best = p,
           Queue(p), Numbered(p, F, T), F < T => Length(p) > 0, headIndex[p] = Wrap(H)
    PROVE  Reads(p)
<1> PICK es : es = entries[p]  OBVIOUS
<1> PICK q : q = pc[p]  OBVIOUS
<1>1. es \in Seq(Entry) /\ headers[p] \in Seq(Header) /\ consumer \in Calls
  BY TypesOf, Zenon
<1>2. /\ Chain(es, q, L, C, E) /\ Order(q, T, H, F, S, L, C)
  BY Zenon DEF QueueIs
<1>3. consumer.pc \in Work => Working(consumer, headers[p], es, q, T, H, F, S, L, E, N)
  BY Zenon DEF QueueIs, Consuming
<1>4. consumer.pc \in {"take", "remove"} => AtBlock(p, L, C, E)
  <2>1. consumer.pc \in {"take", "remove"} => consumer.pc \in {"take", "count", "remove"}
    OBVIOUS
  <2> QED  BY <2>1, AtBlockIs, Zenon
<1>5. /\ Base(L) \in Nat /\ Base(C) \in Nat /\ L <= C
      /\ Base(L) <= S /\ S <= F /\ F <= H /\ H <= T /\ T <= Base(C)
  BY ONLY <1>2, OrderIs, T \in Nat, H \in Nat, F \in Nat, S \in Nat, L \in Nat, C \in Nat
<1>6. BLOCK_SIZE \in Nat \ {0, 1}  BY ONLY Sizes
<1>7. ASSUME consumer.pc = "take"
      PROVE  Place(p, consumer.index, consumer.block) /\ consumer.block \in Block /\ F < T
  <2>1. consumer.pc \in Work /\ consumer.pc \in {"take", "remove"}  BY <1>7 DEF Work
  <2>2. F < H /\ F < Base(L) + BLOCK_SIZE /\ consumer.index = Wrap(F)
    BY <1>3, <1>7, <2>1, Zenon DEF Working
  <2>3. F < T  BY ONLY <1>5, <2>2, T \in Nat, H \in Nat, F \in Nat
  <2>4. /\ L \in L .. C - 1 /\ E[L] \in DOMAIN es /\ es[E[L]].value = consumer.block
        /\ consumer.block \in Block /\ E[L] \in Nat
    BY <1>4, <2>1, Zenon DEF AtBlock
  <2>5. es[E[L]].key = Wrap(Base(L))  BY <1>2, <2>4, Zenon DEF Chain
  <2>6. BlockStart(Wrap(F)) = Wrap(Base(L))
    <3> PICK i \in Int : i = F - Base(L)  BY <1>5
    <3>1. i \in 0 .. BLOCK_SIZE - 1 /\ F = Base(L) + i
      BY ONLY <1>5, <1>6, <2>2, i = F - Base(L), F \in Nat, S \in Nat
    <3> QED  BY <3>1, InBlock, Zenon
  <2>7. es[E[L]].value # null
    <3>1. null \notin Block  BY Values, Zenon
    <3> QED  BY <2>4, <3>1, Zenon
  <2>8. Keyed(entries[p], E[L], consumer.index)
    BY <2>2, <2>4, <2>5, <2>6, <2>7, Zenon DEF Keyed
  <2> QED  BY <2>3, <2>4, <2>8, Zenon DEF Place
<1>8. ASSUME consumer.pc = "remove", NEW i, Left(p, i), Keyed(entries[p], EntryOf(consumer), i)
      PROVE  FALSE
  <2>1. consumer.pc \in Work /\ consumer.pc \in {"take", "remove"}  BY <1>8 DEF Work
  <2>2. F = Base(L) + BLOCK_SIZE  BY <1>3, <1>8, <2>1, Zenon DEF Working
  <2>3. EntryOf(consumer) = E[L] /\ L \in L .. C - 1  BY <1>4, <2>1, Zenon DEF AtBlock
  <2>4. PICK x \in Nat : F <= x /\ x < T /\ i = Wrap(x)  BY <1>8, Zenon DEF Numbered
  <2>9. Stored(entries[p], L, C, E, x)  BY <2>4, ElementHasBlock, Zenon
  <2>5. PICK m \in L .. C - 1 :
          /\ m \in Nat /\ Base(m) <= x /\ x < Base(m) + BLOCK_SIZE
          /\ Keyed(entries[p], E[m], Wrap(x))
    BY <2>9, Zenon DEF Stored
  <2>6. E[m] = E[L]
    <3>1. i \in Index  BY <1>8, Zenon DEF Left
    <3> QED  BY <1>8, <2>3, <2>4, <2>5, <3>1, KeysDiffer, Zenon
  <2>7. m = L  BY <1>2, <2>3, <2>5, <2>6, Zenon DEF Chain
  <2>8. x < Base(L) + BLOCK_SIZE  BY <2>5, <2>7, Zenon
  <2> QED  BY ONLY <1>5, <1>6, <2>2, <2>4, <2>8, F \in Nat
<1>9. ASSUME consumer.pc \in Work PROVE consumer.end = Wrap(H) /\ consumer.index \in Index
  <2>1. consumer.end = Wrap(H)  BY <1>3, <1>9, Zenon DEF Working
  <2>2. consumer.index \in Index  BY ONLY <1>1 DEF Calls
  <2> QED  BY <2>1, <2>2, Zenon
<1> QED  BY <1>7, <1>8, <1>9, Zenon DEF Reads

LEMMA InvLegible ==
    ASSUME Inv, Recalled, NEW p \in Producer
    PROVE  Legible(p)
<1>1. Types /\ Owners /\ Fresh /\ Queue(p)  BY Zenon DEF Inv
<1>2. PICK T, H, F, S, L, C \in Nat, E, N \in [Nat -> Nat] : QueueIs(p, T, H, F, S, L, C, E, N)
  BY <1>1, Zenon DEF Queue
<1>3. /\ Length(p) = T - F /\ First(p) \in Index
      /\ Length(p) \in Nat /\ Length(p) + 1 < IndexRange
      /\ Numbered(p, F, T)
      /\ tailIndex[p] = Wrap(T) /\ headIndex[p] = Wrap(H)
  BY <1>1, <1>2, FirstIs, Zenon
<1>4. \A e, f : \A i \in Index : Keyed(entries[p], e, i) /\ Keyed(entries[p], f, i) => e = f
  BY <1>1, KeysDiffer, Zenon
<1>5. ASSUME NEW i, Left(p, i) PROVE \E b \in Block : Place(p, i, b)
  <2>1. PICK x \in Nat : F <= x /\ x < T /\ i = Wrap(x)  BY <1>3, <1>5, Zenon DEF Numbered
  <2>2. Stored(entries[p], L, C, E, x)  BY <1>1, <1>2, <2>1, ElementHasBlock, Zenon
  <2>3. PICK m \in L .. C - 1 : /\ Keyed(entries[p], E[m], Wrap(x)) /\ E[m] \in Nat
                                /\ entries[p][E[m]].value \in Block
    BY <2>2, Zenon DEF Stored
  <2> QED  BY <2>1, <2>3, Zenon DEF Place
<1>6. /\ pc[p] \in {"construct", "commit"} =>
           Place(p, tailIndex[p], tailBlock[p]) /\ tailBlock[p] \in Block
      /\ pc[p] \in {"insert", "block"} => entries[p][idxEntry[p]].value = null
      /\ p \notin ToSet(producers) => T = F
  BY <1>1, <1>2, <1>3, LegibleProducer, Zenon
<1>7. (T = F => T - F = 0) /\ (F < T => T - F > 0)  BY ONLY T \in Nat, F \in Nat
<1>8. (p \notin ToSet(producers) => Length(p) = 0) /\ (F < T => Length(p) > 0)
  BY <1>3, <1>6, <1>7, Zenon
<1>9. consumer.best = p => Reads(p)  BY <1>1, <1>2, <1>3, <1>8, LegibleConsumer, Zenon
<1> QED  BY <1>3, <1>4, <1>5, <1>6, <1>8, <1>9, Zenon DEF Legible

-----------------------------------------------------------------------------
(* What the consumer would find                                            *)

\* No two elements share a place in a block.
LEMMA SlotsDiffer ==
    ASSUME Types, Owners, NEW p \in Producer, NEW q \in Producer, NEW i \in Index, NEW j \in Index,
           NEW b \in Block, Place(p, i, b), Place(q, j, b), i % BLOCK_SIZE = j % BLOCK_SIZE
    PROVE  p = q /\ i = j
<1>1. PICK e \in Nat : Keyed(entries[p], e, i) /\ entries[p][e].value = b  BY Zenon DEF Place
<1>2. PICK f \in Nat : Keyed(entries[q], f, j) /\ entries[q][f].value = b  BY Zenon DEF Place
<1>3. Holds(p, e, b) /\ Holds(q, f, b)  BY <1>1, <1>2, Zenon DEF Keyed, Holds, HasBlock
<1>4. p = q /\ e = f  BY <1>3, Zenon DEF Owners
<1>5. BlockStart(i) = BlockStart(j)  BY <1>1, <1>2, <1>4, Zenon DEF Keyed
<1>6. i = j
  <2>1. i \in Int /\ j \in Int /\ BLOCK_SIZE \in Nat \ {0}  BY Sizes DEF Index
  <2> PICK r : r = i % BLOCK_SIZE  OBVIOUS
  <2>2. r \in 0 .. BLOCK_SIZE - 1 /\ r = j % BLOCK_SIZE  BY <2>1, Remainder, Zenon
  <2>3. i - r = j - r  BY <1>5, <2>2, Zenon DEF BlockStart
  <2> QED  BY ONLY <2>1, <2>2, <2>3
<1> QED  BY <1>4, <1>6, Zenon

Sought(es, i) == CHOOSE e \in ToSet(es) : e.key = BlockStart(i) /\ e.value # null

LEMMA EntryIs ==
    ASSUME NEW es, NEW e, NEW i, Keyed(es, e, i), \A f : Keyed(es, f, i) => e = f
    PROVE  Sought(es, i) = es[e]
<1>1. es[e] \in ToSet(es) /\ es[e].key = BlockStart(i) /\ es[e].value # null
  BY Zenon DEF Keyed, ToSet
<1>2. ASSUME NEW r \in ToSet(es), r.key = BlockStart(i) /\ r.value # null PROVE r = es[e]
  <2>1. PICK f \in DOMAIN es : r = es[f]  BY Zenon DEF ToSet
  <2>2. Keyed(es, f, i)  BY <1>2, <2>1, Zenon DEF Keyed
  <2> QED  BY <2>1, <2>2, Zenon
<1> QED  BY <1>1, <1>2, Zenon DEF Sought

LEMMA ElementIs ==
    ASSUME NEW p \in Producer, Legible(p), NEW i \in Index, NEW b, Place(p, i, b)
    PROVE  Element(p, i) = elements[b][i % BLOCK_SIZE]
<1>1. PICK e \in Nat : Keyed(entries[p], e, i) /\ entries[p][e].value = b  BY Zenon DEF Place
<1>0. \A c, f : \A j \in Index : Keyed(entries[p], c, j) /\ Keyed(entries[p], f, j) => c = f
  BY Zenon DEF Legible
<1>2. \A f : Keyed(entries[p], f, i) => e = f  BY <1>0, <1>1, Zenon
<1>3. Sought(entries[p], i) = entries[p][e]  BY <1>1, <1>2, EntryIs, Zenon
<1>4. EntryAt(p, i) = entries[p][e]  BY <1>3 DEF EntryAt, Sought
<1> QED  BY <1>1, <1>4, Zenon DEF Element

LEMMA ElementIsThen ==
    ASSUME NEW p \in Producer, Legible(p)', NEW i \in Index, NEW b, Place(p, i, b)'
    PROVE  Element(p, i)' = elements'[b][i % BLOCK_SIZE]
<1>1. PICK e \in Nat : Keyed(entries'[p], e, i) /\ entries'[p][e].value = b  BY Zenon DEF Place
<1>0. \A c, f : \A j \in Index : Keyed(entries'[p], c, j) /\ Keyed(entries'[p], f, j) => c = f
  BY Zenon DEF Legible, Keyed
<1>2. \A f : Keyed(entries'[p], f, i) => e = f  BY <1>0, <1>1, Zenon
<1>3. Sought(entries'[p], i) = entries'[p][e]  BY <1>1, <1>2, EntryIs, Zenon
<1>4. EntryAt(p, i)' = entries'[p][e]  BY <1>3 DEF EntryAt, Sought
<1> QED  BY <1>1, <1>4, Zenon DEF Element

\* A step leaves the entries and the elements alone that are left of p's queue.
EntriesStay(p) == \A i, e : Left(p, i) /\ Keyed(entries[p], e, i) =>
                    e \in DOMAIN entries'[p] /\ entries'[p][e] = entries[p][e]
ElementsStay(p) == \A i : \A b \in Block : Left(p, i) /\ Place(p, i, b) =>
                     elements'[b][i % BLOCK_SIZE] = elements[b][i % BLOCK_SIZE]

LEMMA ElementStays ==
    ASSUME NEW p \in Producer, Legible(p), Legible(p)', EntriesStay(p), ElementsStay(p),
           NEW i, Left(p, i)
    PROVE  Element(p, i)' = Element(p, i) /\ i \in Index
           /\ \E b \in Block : Place(p, i, b) /\ Place(p, i, b)'
<1>1. i \in Index  BY Zenon DEF Left
<1>2. PICK b \in Block : Place(p, i, b)  BY Zenon DEF Legible
<1>3. PICK e \in Nat : Keyed(entries[p], e, i) /\ entries[p][e].value = b  BY <1>2, Zenon DEF Place
<1>4. e \in DOMAIN entries'[p] /\ entries'[p][e] = entries[p][e]
  BY <1>3, Zenon DEF EntriesStay
<1>5. Keyed(entries'[p], e, i) /\ entries'[p][e].value = b  BY <1>3, <1>4, Zenon DEF Keyed
<1>6. Place(p, i, b)'  BY <1>5, Zenon DEF Place
<1>7. Element(p, i)' = elements'[b][i % BLOCK_SIZE]  BY <1>1, <1>6, ElementIsThen, Zenon
<1>8. Element(p, i) = elements[b][i % BLOCK_SIZE]  BY <1>1, <1>2, ElementIs, Zenon
<1>9. elements'[b][i % BLOCK_SIZE] = elements[b][i % BLOCK_SIZE]
  BY <1>2, Zenon DEF ElementsStay
<1> QED  BY <1>1, <1>2, <1>6, <1>7, <1>8, <1>9, Zenon

\* The n-th element that is left.
LEMMA Nth ==
    ASSUME NEW p \in Producer, Legible(p), NEW n \in 1 .. Length(p)
    PROVE  Left(p, Plus(First(p), n - 1)) /\ Minus(Plus(First(p), n - 1), First(p)) = n - 1
<1>1. First(p) \in Index /\ Length(p) \in Nat /\ Length(p) + 1 < IndexRange  BY Zenon DEF Legible
<1>2. IndexRange \in Nat \ {0}  BY ONLY Sizes
<1> PICK k \in Nat : k = n - 1  BY <1>1
<1>3. k < IndexRange /\ k < Length(p)  BY <1>1, <1>2
<1>4. Plus(First(p), k) \in Index /\ Minus(Plus(First(p), k), First(p)) = k
  BY <1>1, <1>3, PlusIs, Zenon
<1> QED  BY <1>3, <1>4, Zenon DEF Left

LEMMA ContentsAre ==
    ASSUME NEW p
    PROVE  Contents(p) = [n \in 1 .. Length(p) |-> Element(p, Plus(First(p), n - 1))]
BY DEF Contents, Length, Element

LEMMA SameContents ==
    ASSUME NEW p \in Producer, Legible(p), Legible(p)', First(p)' = First(p),
           tailIndex'[p] = tailIndex[p], EntriesStay(p), ElementsStay(p)
    PROVE  Contents(p)' = Contents(p)
<1>1. Length(p)' = Length(p)  BY Zenon DEF Length
<1>2. ASSUME NEW n \in 1 .. Length(p)
      PROVE  Element(p, Plus(First(p), n - 1))' = Element(p, Plus(First(p), n - 1))
  <2> PICK i : i = Plus(First(p), n - 1)  OBVIOUS
  <2>1. Left(p, i)  BY Nth, Zenon
  <2>2. Element(p, i)' = Element(p, i)  BY <2>1, ElementStays, Zenon
  <2> QED  BY <2>2, Zenon DEF Element, EntryAt
<1>3. Contents(p)' = [n \in 1 .. Length(p) |-> Element(p, Plus(First(p), n - 1))']
  BY <1>1 DEF Contents, Length, Element
<1> QED  BY <1>2, <1>3, ContentsAre, Zenon

\* A step of a producer that leaves the entries with a block and the elements
\* alone that are left of its queue.
Stays(p) == tailIndex'[p] = tailIndex[p] /\ EntriesStay(p) /\ ElementsStay(p)

LEMMA UnchangedStays ==
    ASSUME NEW p
    PROVE  /\ entries'[p] = entries[p] => EntriesStay(p)
           /\ elements' = elements => ElementsStay(p)
<1>1. ASSUME entries'[p] = entries[p] PROVE EntriesStay(p)
  BY <1>1, Zenon DEF EntriesStay, Keyed
<1>2. ASSUME elements' = elements PROVE ElementsStay(p)
  BY <1>2, Zenon DEF ElementsStay
<1> QED  BY <1>1, <1>2, Zenon

\* The entries that have a block stay.
LEMMA OthersStay ==
    ASSUME NEW es \in Seq(Entry), NEW i, es[i].value = null, NEW x, NEW es2,
           es2 = [es EXCEPT ![i] = x]
    PROVE  \A e : e \in DOMAIN es /\ es[e].value # null => e \in DOMAIN es2 /\ es2[e] = es[e]
<1>1. DOMAIN es2 = DOMAIN es /\ \A e \in DOMAIN es : e # i => es2[e] = es[e]  BY Zenon
<1> QED  BY <1>1, Zenon

LEMMA EntryStays ==
    ASSUME Types, NEW p \in Producer, entries[p][idxEntry[p]].value = null,
           NEW x, entries' = [entries EXCEPT ![p] = [entries[p] EXCEPT ![idxEntry[p]] = x]]
    PROVE  EntriesStay(p)
<1>1. entries \in [Producer -> Seq(Entry)]  BY Zenon DEF Types
<1> PICK es, i : es = entries[p] /\ i = idxEntry[p]  OBVIOUS
<1>2. es \in Seq(Entry) /\ es[i].value = null  BY <1>1, Zenon
<1> PICK es2 : es2 = [es EXCEPT ![i] = x]  OBVIOUS
<1>3. entries'[p] = es2  BY <1>1, Zenon
<1>4. \A e : e \in DOMAIN es /\ es[e].value # null => e \in DOMAIN es2 /\ es2[e] = es[e]
  BY <1>2, OthersStay, Zenon
<1> QED  BY <1>3, <1>4, Zenon DEF EntriesStay, Keyed

LEMMA OtherSlots ==
    ASSUME elements \in [Block -> [0 .. BLOCK_SIZE - 1 -> Index \union {null}]],
           NEW a \in Block, NEW k \in 0 .. BLOCK_SIZE - 1, NEW v,
           elements' = [elements EXCEPT ![a][k] = v],
           NEW b \in Block, NEW j \in 0 .. BLOCK_SIZE - 1
    PROVE  elements'[b][j] = IF b = a /\ j = k THEN v ELSE elements[b][j]
<1>1. PICK g : g = [elements[a] EXCEPT ![k] = v]  OBVIOUS
<1>2. elements' = [elements EXCEPT ![a] = g]  BY <1>1, Zenon
<1>3. elements'[b] = IF b = a THEN g ELSE elements[b]  BY <1>2, Zenon
<1>4. elements[a] \in [0 .. BLOCK_SIZE - 1 -> Index \union {null}]  BY Zenon
<1>5. g[j] = IF j = k THEN v ELSE elements[a][j]  BY <1>1, <1>4, Zenon
<1> QED  BY <1>3, <1>5, Zenon

LEMMA OffsetIs ==
    ASSUME NEW i \in Index
    PROVE  i % BLOCK_SIZE \in 0 .. BLOCK_SIZE - 1
<1>1. BLOCK_SIZE \in Nat \ {0} /\ i \in Int  BY Sizes DEF Index
<1> QED  BY <1>1, Remainder, Zenon

\* A step writes the slot of the element at index i in block b, or leaves it.
Written(b, i, v) == elements' = [elements EXCEPT ![b][i % BLOCK_SIZE] = v]
SlotStill(b, i) == elements'[b][i % BLOCK_SIZE] = elements[b][i % BLOCK_SIZE]

\* Writing the slot of one element leaves the others alone.
LEMMA SlotAside ==
    ASSUME Types, Owners, NEW p \in Producer, NEW q \in Producer, NEW k \in Index,
           NEW a \in Block, Place(q, k, a),
           NEW v, Written(a, k, v),
           NEW i \in Index, NEW b \in Block, Place(p, i, b), ~(p = q /\ i = k)
    PROVE  SlotStill(b, i)
<1>1. elements \in [Block -> [0 .. BLOCK_SIZE - 1 -> Index \union {null}]]  BY Zenon DEF Types
<1> PICK j, m : j = i % BLOCK_SIZE /\ m = k % BLOCK_SIZE  OBVIOUS
<1>2. j \in 0 .. BLOCK_SIZE - 1 /\ m \in 0 .. BLOCK_SIZE - 1  BY OffsetIs, Zenon
<1>3. ~(b = a /\ j = m)
  <2> SUFFICES ASSUME b = a, j = m PROVE FALSE  BY Zenon
  <2>1. i % BLOCK_SIZE = k % BLOCK_SIZE /\ Place(p, i, a)  BY Zenon
  <2>2. p = q /\ i = k  BY <2>1, SlotsDiffer, Zenon
  <2> QED  BY <2>2, Zenon
<1>4. elements' = [elements EXCEPT ![a][m] = v]
  BY ONLY m = k % BLOCK_SIZE, Written(a, k, v), Zenon DEF Written
<1>5. elements'[b][j] = elements[b][j]
  BY ONLY <1>1, <1>2, <1>3, <1>4, a \in Block, b \in Block, OtherSlots
<1> QED  BY <1>5, Zenon DEF SlotStill

\* A slot that is not that of an element that is left may be written.
LEMMA SlotStays ==
    ASSUME Types, Owners, NEW p \in Producer, NEW q \in Producer, NEW k \in Index,
           NEW a \in Block, Place(q, k, a), p = q => ~Left(q, k),
           NEW v, Written(a, k, v)
    PROVE  ElementsStay(p)
<1>1. ASSUME NEW i, NEW b \in Block, Left(p, i), Place(p, i, b)
      PROVE  SlotStill(b, i)
  <2>1. i \in Index  BY <1>1, Zenon DEF Left
  <2>2. ~(p = q /\ i = k)  BY <1>1, Zenon
  <2> QED  BY <1>1, <2>1, <2>2, SlotAside, Zenon
<1> QED  BY <1>1, Zenon DEF ElementsStay, SlotStill

\* The index of the next element is not yet that of one that is left.
LEMMA NextNotLeft ==
    ASSUME NEW p \in Producer, Legible(p)
    PROVE  ~Left(p, tailIndex[p])
<1>1. Length(p) \in Nat  BY Zenon DEF Legible
<1>2. ~(Length(p) < Length(p))  BY <1>1
<1> QED  BY <1>2, Zenon DEF Left, Length

LEMMA SilentStays ==
    ASSUME NEW p \in Producer, Aside(p), tailIndex' = tailIndex, elements' = elements,
           EntriesStay(p)
    PROVE  \A r \in Producer : Stays(r)
<1> SUFFICES ASSUME NEW r \in Producer PROVE Stays(r)  OBVIOUS
<1>1. EntriesStay(r)
  <2>1. CASE r = p  BY <2>1, Zenon
  <2>2. CASE r # p
    <3>1. entries'[r] = entries[r]  BY <2>2, Zenon DEF Aside
    <3> QED  BY <3>1, UnchangedStays, Zenon
  <2> QED  BY <2>1, <2>2, Zenon
<1>2. ElementsStay(r)  BY UnchangedStays, Zenon
<1> QED  BY <1>1, <1>2, Zenon DEF Stays

\* The steps of an enqueue before the last leave no trace.
LEMMA PushStays ==
    ASSUME Facts, NEW p \in Producer,
           \/ Enqueue(p) \/ FindSlot(p) \/ Grow(p) \/ Insert(p) \/ TakeBlock(p) \/ Rewind(p)
           \/ Construct(p)
    PROVE  \A r \in Producer : Stays(r)
<1>1. Types /\ Owners /\ Fresh /\ Queue(p) /\ \A r \in Producer : Legible(r)
  BY Zenon DEF Facts, Core, Inv
<1>2. Aside(p)
  <2>1. Push(p)  BY Zenon DEF Push
  <2> QED  BY <1>1, <2>1, PushAside, Zenon
<1>3. entries'[p] = entries[p] => EntriesStay(p)  BY UnchangedStays, Zenon
<1>4. CASE Enqueue(p)
  <2>1. tailIndex' = tailIndex /\ elements' = elements  BY <1>4, Zenon DEF Enqueue, blocks
  <2>2. \/ UNCHANGED entries
        \/ p \notin ToSet(producers) /\ new_block_index(p)
    BY <1>4, Zenon DEF Enqueue, CreateProducer
  <2>3. CASE UNCHANGED entries  BY <1>2, <1>3, <2>1, <2>3, SilentStays, Zenon
  <2>4. CASE p \notin ToSet(producers)
    <3>1. entries[p] = <<>>  BY <1>1, <2>4, Zenon DEF Fresh
    <3>2. DOMAIN entries[p] = {}  BY <3>1
    <3>3. EntriesStay(p)  BY <3>2, Zenon DEF EntriesStay, Keyed
    <3> QED  BY <1>2, <2>1, <3>3, SilentStays, Zenon
  <2> QED  BY <2>2, <2>3, <2>4, Zenon
<1>5. CASE FindSlot(p)
  <2>1. tailIndex' = tailIndex /\ elements' = elements /\ entries' = entries
    BY <1>5, Zenon DEF FindSlot, blocks, queues
  <2> QED  BY <1>2, <1>3, <2>1, SilentStays, Zenon
<1>6. CASE Grow(p)
  <2>1. /\ tailIndex' = tailIndex /\ elements' = elements
        /\ \/ UNCHANGED entries
           \/ /\ new_block_index(p) /\ pc' = [pc EXCEPT ![p] = "insert"]
              /\ idxEntry' = [idxEntry EXCEPT ![p] = AfterTail(Last(headers'[p]))]
    BY <1>6, Zenon DEF Grow, blocks
  <2>2. CASE UNCHANGED entries  BY <1>2, <1>3, <2>1, <2>2, SilentStays, Zenon
  <2>3. CASE /\ new_block_index(p) /\ pc' = [pc EXCEPT ![p] = "insert"]
             /\ idxEntry' = [idxEntry EXCEPT ![p] = AfterTail(Last(headers'[p]))]
    <3>1. Extended(entries'[p], entries[p], Current(p).capacity)
      BY <1>1, <1>6, <2>3, GrowQueue, Zenon
    <3>2. EntriesStay(p)  BY <3>1, Zenon DEF EntriesStay, Keyed, Extended
    <3> QED  BY <1>2, <2>1, <3>2, SilentStays, Zenon
  <2> QED  BY <2>1, <2>2, <2>3, Zenon
<1>7. CASE Insert(p)
  <2>1. tailIndex' = tailIndex /\ elements' = elements /\ pc[p] = "insert"
    BY <1>7, Zenon DEF Insert, blocks, Transition
  <2>2. \E x : entries' = [entries EXCEPT ![p] = [entries[p] EXCEPT ![idxEntry[p]] = x]]
    BY <1>7 DEF Insert
  <2>3. entries[p][idxEntry[p]].value = null
    <3>1. pc[p] \in {"insert", "block"}  BY <2>1
    <3> QED  BY <1>1, <3>1, Zenon DEF Legible
  <2>4. EntriesStay(p)  BY <1>1, <2>2, <2>3, EntryStays, Zenon
  <2> QED  BY <1>2, <2>1, <2>4, SilentStays, Zenon
<1>8. CASE TakeBlock(p) \/ Rewind(p)
  <2>1. tailIndex' = tailIndex /\ elements' = elements /\ pc[p] = "block"
    BY <1>8, Zenon DEF TakeBlock, Rewind, reset_empty, blocks, Transition
  <2>2. \E x : entries' = [entries EXCEPT ![p] = [entries[p] EXCEPT ![idxEntry[p]] = x]]
    BY <1>8 DEF TakeBlock, Rewind, SetEntry
  <2>3. entries[p][idxEntry[p]].value = null
    <3>1. pc[p] \in {"insert", "block"}  BY <2>1
    <3> QED  BY <1>1, <3>1, Zenon DEF Legible
  <2>4. EntriesStay(p)  BY <1>1, <2>2, <2>3, EntryStays, Zenon
  <2> QED  BY <1>2, <2>1, <2>4, SilentStays, Zenon
<1>9. CASE Construct(p)
  <2>1. /\ tailIndex' = tailIndex /\ entries' = entries /\ pc[p] = "construct"
        /\ Written(tailBlock[p], tailIndex[p], tailIndex[p])
    BY <1>9, Zenon DEF Construct, queues, Transition, Written
  <2>2. Place(p, tailIndex[p], tailBlock[p]) /\ tailBlock[p] \in Block
    <3>1. pc[p] \in {"construct", "commit"}  BY <2>1
    <3> QED  BY <1>1, <3>1, Zenon DEF Legible
  <2>3. tailIndex[p] \in Index /\ ~Left(p, tailIndex[p])
    BY <1>1, TypesOf, NextNotLeft, Zenon
  <2>4. ASSUME NEW r \in Producer PROVE Stays(r)
    <3>1. ElementsStay(r)  BY <1>1, <2>1, <2>2, <2>3, SlotStays, Zenon
    <3>2. EntriesStay(r)  BY <2>1, UnchangedStays, Zenon
    <3> QED  BY <2>1, <3>1, <3>2, Zenon DEF Stays
  <2> QED  BY <2>4, Zenon
<1> QED  BY <1>4, <1>5, <1>6, <1>7, <1>8, <1>9, Zenon

-----------------------------------------------------------------------------
(* What else the inbox needs is kept                                       *)

LEMMA SlotWritten ==
    ASSUME Types, NEW a \in Block, NEW k \in Index, NEW v,
           Written(a, k, v)
    PROVE  elements'[a][k % BLOCK_SIZE] = v
<1>1. elements \in [Block -> [0 .. BLOCK_SIZE - 1 -> Index \union {null}]]  BY Zenon DEF Types
<1> PICK m : m = k % BLOCK_SIZE  OBVIOUS
<1>2. m \in 0 .. BLOCK_SIZE - 1  BY OffsetIs, Zenon
<1>3. elements' = [elements EXCEPT ![a][m] = v]
  BY ONLY m = k % BLOCK_SIZE, Written(a, k, v), Zenon DEF Written
<1>4. elements'[a][m] = v  BY ONLY <1>1, <1>2, <1>3, a \in Block, OtherSlots
<1> QED  BY <1>4, Zenon

\* The element that r has constructed stays when another slot is written.
LEMMA CommittedAside ==
    ASSUME Facts, NEW r \in Producer, pc[r] = "commit", NEW q \in Producer, NEW k \in Index,
           NEW a \in Block, Place(q, k, a), ~(r = q /\ tailIndex[r] = k),
           NEW v, Written(a, k, v)
    PROVE  elements'[tailBlock[r]][tailIndex[r] % BLOCK_SIZE] = tailIndex[r]
<1>1. Types /\ Owners /\ Legible(r) /\ tailIndex[r] \in Index
  <2>1. Types /\ Owners /\ Legible(r)  BY Zenon DEF Facts, Core, Inv
  <2> QED  BY <2>1, TypesOf, Zenon
<1>2. Place(r, tailIndex[r], tailBlock[r]) /\ tailBlock[r] \in Block
  <2>1. pc[r] \in {"construct", "commit"}  OBVIOUS
  <2> QED  BY <1>1, <2>1, Zenon DEF Legible
<1>3. elements[tailBlock[r]][tailIndex[r] % BLOCK_SIZE] = tailIndex[r]
  BY Zenon DEF Facts, Core, Committed
<1>4. SlotStill(tailBlock[r], tailIndex[r])  BY <1>1, <1>2, SlotAside, Zenon
<1> QED  BY <1>3, <1>4, Zenon DEF SlotStill

LEMMA CommittedStays ==
    ASSUME Committed, elements' = elements,
           \A r \in Producer : pc'[r] = "commit" =>
             pc[r] = "commit" /\ tailBlock'[r] = tailBlock[r] /\ tailIndex'[r] = tailIndex[r]
    PROVE  Committed'
BY Zenon DEF Committed

LEMMA PushCommits ==
    ASSUME Facts, NEW p \in Producer, Push(p)
    PROVE  Committed'
<1>1. Types /\ Committed /\ \A r \in Producer : Legible(r)
  BY Zenon DEF Facts, Core, Inv
<1>2. Aside(p) /\ pc \in [Producer -> Doing]
  BY <1>1, PushAside, TypesOf, Zenon
<1>3. CASE Construct(p)
  <2>1. /\ tailIndex' = tailIndex /\ tailBlock' = tailBlock /\ pc[p] = "construct"
        /\ Written(tailBlock[p], tailIndex[p], tailIndex[p])
    BY <1>3, Zenon DEF Construct, queues, Transition, Written
  <2>2. Place(p, tailIndex[p], tailBlock[p]) /\ tailBlock[p] \in Block
    <3>1. pc[p] \in {"construct", "commit"}  BY <2>1
    <3> QED  BY <1>1, <3>1, Zenon DEF Legible
  <2>3. tailIndex[p] \in Index  BY <1>1, TypesOf, Zenon
  <2>4. elements'[tailBlock[p]][tailIndex[p] % BLOCK_SIZE] = tailIndex[p]
    BY <1>1, <2>1, <2>2, <2>3, SlotWritten, Zenon
  <2>5. ASSUME NEW r \in Producer, pc'[r] = "commit", r # p
        PROVE  elements'[tailBlock[r]][tailIndex[r] % BLOCK_SIZE] = tailIndex[r]
    <3>1. pc[r] = "commit"  BY <1>2, <2>5, Zenon DEF Aside
    <3> QED  BY <2>1, <2>2, <2>3, <2>5, <3>1, CommittedAside, Zenon
  <2> QED  BY <2>1, <2>4, <2>5, Zenon DEF Committed
<1>4. CASE ~Construct(p)
  <2>1. elements' = elements
    BY <1>4, Zenon DEF Push, Enqueue, FindSlot, Grow, Insert, TakeBlock, Rewind, Commit, blocks
  <2>2. pc'[p] # "commit"
    <3>1. \E x \in {"idle", "slot", "grow", "insert", "block", "construct"} :
            pc' = [pc EXCEPT ![p] = x]
      BY <1>4, SMT DEF Push, Enqueue, FindSlot, Grow, Insert, TakeBlock, Rewind, Commit, Transition
    <3>2. PICK x : x # "commit" /\ pc' = [pc EXCEPT ![p] = x]  BY <3>1
    <3> QED  BY <1>2, <3>2, Zenon
  <2>3. \A r \in Producer : pc'[r] = "commit" =>
          pc[r] = "commit" /\ tailBlock'[r] = tailBlock[r] /\ tailIndex'[r] = tailIndex[r]
    BY <1>2, <2>2, Zenon DEF Aside
  <2> QED  BY <1>1, <2>1, <2>3, CommittedStays, Zenon
<1> QED  BY <1>3, <1>4, Zenon

LEMMA PopCommits ==
    ASSUME Facts, Pop
    PROVE  Committed'
<1>1. Inv /\ Types /\ Committed /\ \A r \in Producer : Legible(r)
  BY Zenon DEF Facts, Core, Inv
<1>2. pc' = pc /\ tailBlock' = tailBlock /\ tailIndex' = tailIndex
  BY Zenon DEF Pop, Call, Score, SayEmpty, DequeueBest, DequeueBulk, Claim, PassOver, EndBulk,
     ReadIndex, ReadTail, FindBlock, TakeElement, CountEmpty, RemoveBlock, FreeBlock,
     Producing, queues
<1>3. CASE TakeElement
  <2>1. /\ consumer.pc = "take"
        /\ Written(consumer.block, consumer.index, null)
    BY <1>3, Zenon DEF TakeElement, At, Written
  <2>2. consumer.pc \in Work  BY <2>1 DEF Work
  <2>3. consumer \in Calls /\ consumer.best \in Producer  BY <1>1, <2>2, Best, Zenon
  <2> PICK p : p = consumer.best  OBVIOUS
  <2>4. /\ Place(p, consumer.index, consumer.block) /\ consumer.block \in Block
        /\ Length(p) > 0 /\ consumer.index \in Index
    <3>1. Legible(p) /\ consumer.best = p /\ p \in Producer  BY <1>1, <2>3, Zenon
    <3> QED  BY <2>1, <2>2, <3>1, Zenon DEF Legible, Reads
  <2>5. ASSUME NEW r \in Producer, pc[r] = "commit"
        PROVE  elements'[tailBlock[r]][tailIndex[r] % BLOCK_SIZE] = tailIndex[r]
    <3>1. ~(r = p /\ tailIndex[r] = consumer.index)
      <4> SUFFICES ASSUME r = p, tailIndex[r] = consumer.index PROVE FALSE  BY Zenon
      <4>1. consumer.pc # "score"  BY <2>1
      <4>2. First(p) = consumer.index  BY <4>1, Zenon DEF First
      <4>3. Length(p) = 0  BY <2>4, <4>2, SameIndex, Zenon DEF Length
      <4>4. ~(0 > 0)  OBVIOUS
      <4> QED  BY <2>4, <4>3, <4>4, Zenon
    <3> QED  BY <2>1, <2>3, <2>4, <2>5, <3>1, CommittedAside, Zenon
  <2> QED  BY <1>2, <2>5, Zenon DEF Committed
<1>4. CASE ~TakeElement
  <2>1. elements' = elements
    BY <1>4, Zenon DEF Pop, Call, Score, SayEmpty, DequeueBest, DequeueBulk, Claim, PassOver,
       EndBulk, ReadIndex, ReadTail, FindBlock, CountEmpty, RemoveBlock, FreeBlock, blocks
  <2> QED  BY <1>1, <1>2, <2>1, CommittedStays, Zenon
<1> QED  BY <1>3, <1>4, Zenon

\* What the inbox shows of the consumer stays.
Says(c, d) == d.item = c.item /\ d.outcome = c.outcome /\ d.scanned = c.scanned

\* The consumer says that all queues are empty, having seen all of them.
Denies(c, d) ==
  /\ c.outcome = "none" /\ d.outcome = "empty" /\ c.scanned = Producer
  /\ d.item = c.item /\ d.scanned = c.scanned

LEMMA Covers ==
    ASSUME NEW s \in Seq(Producer), s # <<>>, NEW A, Producer \subseteq A \union ToSet(s)
    PROVE  Producer \subseteq (A \union {Head(s)}) \union ToSet(Tail(s))
<1>1. ASSUME NEW x \in ToSet(s) PROVE x \in {Head(s)} \union ToSet(Tail(s))
  <2>1. PICK i \in DOMAIN s : x = s[i]  BY Zenon DEF ToSet
  <2>2. CASE i = 1  BY <2>1, <2>2
  <2>3. CASE i # 1
    <3>1. i - 1 \in DOMAIN Tail(s) /\ Tail(s)[i - 1] = x  BY <2>1, <2>3
    <3> QED  BY <3>1, Zenon DEF ToSet
  <2> QED  BY <2>2, <2>3, Zenon
<1> QED  BY <1>1, Zenon

LEMMA CallIs ==
    ASSUME Facts, NEW max \in {0} \union BulkSizes, Call(max)
    PROVE  /\ Recalls(consumer') /\ consumer.pc = "idle" /\ consumer'.pc \in {"score", "bulk"}
           /\ consumer'.item = null /\ consumer'.outcome = "none"
           /\ consumer'.scanned = Producer \ ToSet(producers)
<1>1. Types  BY Zenon DEF Facts, Core, Inv
<1>2. max \in Nat /\ producers \in Seq(Producer) /\ Resting \in Calls
  BY <1>1, RestingIs, QueueAssumption DEF Types
<1>3. PICK s : s = Producer \ ToSet(producers)  OBVIOUS
<1>4. /\ consumer.pc = "idle"
      /\ consumer' = [Resting EXCEPT !.pc = IF max = 0 THEN "score" ELSE "bulk",
                        !.max = max, !.todo = producers, !.scanned = s]
  BY <1>3, Zenon DEF Call
<1>5. PICK d : d = consumer'  OBVIOUS
<1>6. /\ d.pc = IF max = 0 THEN "score" ELSE "bulk"
      /\ d.best = null /\ d.count = 0 /\ d.outcome = "none" /\ d.item = null
      /\ d.scanned = s /\ d.todo = producers
  BY ONLY <1>2, <1>4, <1>5 DEF Calls, Resting
<1>7. Producer \subseteq d.scanned \union ToSet(d.todo)  BY <1>3, <1>6, Zenon
<1>8. d.pc \in {"score", "bulk"} /\ d.pc # "idle" /\ d.pc \notin {"count", "remove", "free"}
  BY ONLY <1>6
<1>9. Recalls(d)  BY <1>6, <1>7, <1>8 DEF Recalls
<1> QED  BY <1>3, <1>4, <1>5, <1>6, <1>8, <1>9, Zenon

LEMMA ScoreIs ==
    ASSUME Facts, Score
    PROVE  /\ Recalls(consumer') /\ consumer.pc = "score" /\ consumer'.pc = "score"
           /\ consumer'.item = consumer.item /\ consumer'.outcome = consumer.outcome
           /\ \/ consumer'.scanned = consumer.scanned
              \/ \E p \in Producer : /\ tailIndex[p] = headIndex[p]
                                     /\ consumer'.scanned = consumer.scanned \union {p}
<1> PICK c : c = consumer  OBVIOUS
<1> PICK d : d = consumer'  OBVIOUS
<1> PICK p : p = Head(c.todo)  OBVIOUS
<1> PICK size : size = size_approx(p)  OBVIOUS
<1>1. c \in Calls /\ Types /\ Recalls(c) /\ \A r \in Producer : Queue(r)
  BY Zenon DEF Facts, Core, Inv, Types, Recalled
<1>2. /\ c.pc = "score" /\ c.todo # <<>>
      /\ d = IF size = 0
             THEN [c EXCEPT !.todo = Tail(@), !.scanned = @ \union {p}]
             ELSE [c EXCEPT !.todo = Tail(@), !.nonEmptyCount = @ + 1,
                            !.best = IF size > c.bestSize THEN p ELSE @,
                            !.bestSize = IF size > @ THEN size ELSE @]
  BY Zenon DEF Score
<1>3. c.todo \in Seq(Producer) /\ c.nonEmptyCount \in Nat  BY ONLY <1>1 DEF Calls
<1>4. p \in Producer  BY <1>2, <1>3, FirstOf, Zenon
<1>5. size = Available(p) /\ (Available(p) > 0 <=> headIndex[p] # tailIndex[p])
  BY <1>1, <1>4, AvailableIs, Zenon
<1>6. c.outcome = "none"
      /\ (c.nonEmptyCount = 0 => Producer \subseteq c.scanned \union ToSet(c.todo))
  BY <1>1, <1>2, Zenon DEF Recalls
<1>7. CASE size = 0
  <2>1. PICK t, s : t = Tail(c.todo) /\ s = c.scanned \union {p}  OBVIOUS
  <2>2. d = [c EXCEPT !.todo = t, !.scanned = s]  BY <1>2, <1>7, <2>1, Zenon
  <2>3. /\ d.pc = "score" /\ d.outcome = c.outcome /\ d.item = c.item
        /\ d.nonEmptyCount = c.nonEmptyCount /\ d.scanned = s /\ d.todo = t
    BY ONLY <1>1, <1>2, <2>2 DEF Calls
  <2>4. d.nonEmptyCount = 0 => Producer \subseteq d.scanned \union ToSet(d.todo)
    BY <1>2, <1>3, <1>6, <2>1, <2>3, Covers, Zenon
  <2>5. Recalls(d)  BY <1>6, <2>3, <2>4 DEF Recalls
  <2>6. tailIndex[p] = headIndex[p]
    <3>1. ~(0 > 0)  OBVIOUS
    <3> QED  BY <1>5, <1>7, <3>1, Zenon
  <2> QED  BY <1>2, <1>4, <2>1, <2>3, <2>5, <2>6, Zenon
<1>8. CASE size # 0
  <2>1. PICK t, b, n : /\ t = Tail(c.todo) /\ b = IF size > c.bestSize THEN p ELSE c.best
                       /\ n = IF size > c.bestSize THEN size ELSE c.bestSize
    OBVIOUS
  <2>2. d = [c EXCEPT !.todo = t, !.nonEmptyCount = c.nonEmptyCount + 1, !.best = b,
                      !.bestSize = n]
    BY <1>2, <1>8, <2>1, Zenon
  <2>3. /\ d.pc = "score" /\ d.outcome = c.outcome /\ d.item = c.item
        /\ d.nonEmptyCount # 0 /\ d.scanned = c.scanned
    <3>1. c \in Calls /\ c.pc = "score"  BY <1>1, <1>2, Zenon
    <3>2. c.nonEmptyCount + 1 # 0  BY ONLY <1>3
    <3> QED  BY ONLY <2>2, <3>1, <3>2 DEF Calls
  <2>4. Recalls(d)  BY <1>6, <2>3 DEF Recalls
  <2> QED  BY <1>2, <2>3, <2>4, Zenon
<1> QED  BY <1>7, <1>8, Zenon

LEMMA PassOverIs ==
    ASSUME Facts, PassOver
    PROVE  /\ Recalls(consumer') /\ consumer.pc = "bulk" /\ consumer'.pc = "bulk"
           /\ consumer'.item = consumer.item /\ consumer'.outcome = consumer.outcome
           /\ \E p \in Producer : /\ tailIndex[p] = headIndex[p]
                                  /\ consumer'.scanned = consumer.scanned \union {p}
<1> PICK c : c = consumer  OBVIOUS
<1> PICK d : d = consumer'  OBVIOUS
<1> PICK p : p = Head(c.todo)  OBVIOUS
<1>1. c \in Calls /\ Types /\ Recalls(c) /\ \A r \in Producer : Queue(r)
  BY Zenon DEF Facts, Core, Inv, Types, Recalled
<1>2. PICK t, s : t = Tail(c.todo) /\ s = c.scanned \union {p}  OBVIOUS
<1>3. /\ c.pc = "bulk" /\ c.todo # <<>> /\ ~circular_less_than(0, Available(p))
      /\ d = [c EXCEPT !.todo = t, !.scanned = s]
  BY <1>2, Zenon DEF PassOver
<1>4. c.todo \in Seq(Producer)  BY ONLY <1>1 DEF Calls
<1>5. p \in Producer  BY <1>3, <1>4, FirstOf, Zenon
<1>6. headIndex[p] = tailIndex[p]  BY <1>1, <1>3, <1>5, AvailableIs, Zenon
<1>7. /\ d.pc = "bulk" /\ d.outcome = c.outcome /\ d.item = c.item /\ d.best = c.best
      /\ d.count = c.count /\ d.scanned = s /\ d.todo = t
  BY ONLY <1>1, <1>3 DEF Calls
<1>8. /\ c.best = null
      /\ IF c.count = 0
         THEN c.outcome = "none" /\ Producer \subseteq c.scanned \union ToSet(c.todo)
         ELSE c.outcome = "found"
  BY <1>1, <1>3 DEF Recalls
<1>9. c.count = 0 => Producer \subseteq d.scanned \union ToSet(d.todo)
  BY <1>2, <1>3, <1>4, <1>7, <1>8, Covers, Zenon
<1>10. Recalls(d)  BY <1>7, <1>8, <1>9 DEF Recalls
<1> QED  BY <1>2, <1>3, <1>5, <1>6, <1>7, <1>10, Zenon

LEMMA EndIs ==
    ASSUME Facts, SayEmpty \/ EndBulk
    PROVE  /\ Recalls(consumer') /\ consumer.pc \in {"score", "bulk"} /\ consumer'.pc = "idle"
           /\ Denies(consumer, consumer') \/ Says(consumer, consumer')
<1> PICK c : c = consumer  OBVIOUS
<1> PICK d : d = consumer'  OBVIOUS
<1>1. c \in Calls /\ Recalls(c)  BY Zenon DEF Facts, Core, Inv, Types, Recalled
<1>2. /\ c.todo = <<>>
      /\ \/ c.pc = "score" /\ c.nonEmptyCount = 0 /\ d = Returned(c, "empty")
         \/ c.pc = "bulk" /\ d = Returned(c, IF c.count = 0 THEN "empty" ELSE "found")
  BY Zenon DEF SayEmpty, EndBulk
<1>3. \A o : /\ Returned(c, o).pc = "idle" /\ Returned(c, o).best = null
             /\ Returned(c, o).item = c.item /\ Returned(c, o).outcome = o
             /\ Returned(c, o).scanned = c.scanned
  BY DEF Returned, Resting
<1>4. \E o : d = Returned(c, o)  BY <1>2, Zenon
<1>5. d.pc = "idle" /\ d.best = null /\ d.item = c.item /\ d.scanned = c.scanned
  BY <1>3, <1>4, Zenon
<1>6. Recalls(d)  BY ONLY <1>5 DEF Recalls
<1>7. c.scanned \subseteq Producer /\ ToSet(c.todo) = {}
  <2>1. c.scanned \subseteq Producer  BY ONLY <1>1 DEF Calls
  <2>2. DOMAIN c.todo = {}  BY ONLY <1>2
  <2> QED  BY <2>1, <2>2, Zenon DEF ToSet
<1>8. ASSUME Producer \subseteq c.scanned \union ToSet(c.todo) PROVE c.scanned = Producer
  BY <1>7, <1>8, Zenon
<1>9. c.pc \in {"score", "bulk"}  BY ONLY <1>2
<1>10. Denies(c, d) \/ Says(c, d)
  <2>1. CASE c.pc = "score" /\ c.nonEmptyCount = 0 /\ d = Returned(c, "empty")
    <3>1. c.outcome = "none" /\ c.scanned = Producer  BY <1>1, <1>8, <2>1, Zenon DEF Recalls
    <3>2. d.outcome = "empty"  BY <1>3, <2>1, Zenon
    <3> QED  BY <1>5, <3>1, <3>2, Zenon DEF Denies
  <2>2. CASE c.pc = "bulk" /\ d = Returned(c, IF c.count = 0 THEN "empty" ELSE "found")
    <3>1. IF c.count = 0 THEN c.outcome = "none" /\ c.scanned = Producer
                         ELSE c.outcome = "found"
      BY <1>1, <1>8, <2>2, Zenon DEF Recalls
    <3>2. d.outcome = IF c.count = 0 THEN "empty" ELSE "found"  BY <1>3, <2>2, Zenon
    <3> QED  BY <1>5, <3>1, <3>2, Zenon DEF Denies, Says
  <2> QED  BY <1>2, <2>1, <2>2, Zenon
<1> QED  BY <1>5, <1>6, <1>9, <1>10, Zenon

LEMMA ClaimIs ==
    ASSUME Facts, NEW p, NEW n, Claim(p, n)
    PROVE  /\ Recalls(consumer') /\ Says(consumer, consumer')
           /\ consumer'.pc = "index" /\ consumer'.best = p /\ consumer'.index = headIndex[p]
<1> PICK c : c = consumer  OBVIOUS
<1> PICK d : d = consumer'  OBVIOUS
<1>1. c \in Calls  BY Zenon DEF Facts, Core, Inv, Types
<1>2. \E i, j : /\ i = headIndex[p]
                /\ d = [c EXCEPT !.pc = "index", !.best = p, !.index = i, !.start = i, !.end = j,
                          !.bestSize = 0, !.nonEmptyCount = 0]
  BY Zenon DEF Claim
<1>3. PICK i, j : /\ i = headIndex[p]
                  /\ d = [c EXCEPT !.pc = "index", !.best = p, !.index = i, !.start = i, !.end = j,
                            !.bestSize = 0, !.nonEmptyCount = 0]
  BY <1>2, Zenon
<1>4. /\ d.pc = "index" /\ d.best = p /\ d.index = i
      /\ d.item = c.item /\ d.outcome = c.outcome /\ d.scanned = c.scanned
  BY ONLY <1>1, <1>3 DEF Calls
<1>5. Recalls(d)  BY ONLY <1>4 DEF Recalls
<1> QED  BY <1>3, <1>4, <1>5, Zenon DEF Says

\* The consumer works on at the same element.
Onward(c, d) == d.pc \in Work /\ d.best = c.best /\ d.index = c.index

LEMMA FindIs ==
    ASSUME Facts, ReadIndex \/ ReadTail \/ FindBlock
    PROVE  /\ Recalls(consumer') /\ Says(consumer, consumer') /\ consumer.pc \in Work
           /\ Onward(consumer, consumer')
<1> PICK c : c = consumer  OBVIOUS
<1> PICK d : d = consumer'  OBVIOUS
<1>1. c \in Calls  BY Zenon DEF Facts, Core, Inv, Types
<1>2. /\ c.pc \in {"index", "tail", "find"}
      /\ \E a, b : \/ d = [c EXCEPT !.pc = "tail", !.localBlockIndex = a]
                   \/ d = [c EXCEPT !.pc = "find", !.tail = a]
                   \/ d = [[c EXCEPT !.pc = "take", !.indexIndex = a, !.tail = 0] EXCEPT !.block = b]
  BY Zenon DEF ReadIndex, ReadTail, FindBlock, At
<1>3. /\ d.pc \in {"tail", "find", "take"} /\ d.best = c.best /\ d.index = c.index
      /\ d.item = c.item /\ d.outcome = c.outcome /\ d.scanned = c.scanned
  BY ONLY <1>1, <1>2 DEF Calls
<1>4. Recalls(d)  BY ONLY <1>3 DEF Recalls
<1>5. c.pc \in Work /\ d.pc \in Work  BY ONLY <1>2, <1>3 DEF Work
<1> QED  BY <1>3, <1>4, <1>5, Zenon DEF Says, Onward

\* After a block the consumer is at the same element, or at rest.
LEMMA BlockDoneIs ==
    ASSUME NEW c \in Calls, Recalls(c), c.pc \in {"count", "free"}, NEW d, d = BlockDone(c)
    PROVE  /\ Recalls(d) /\ Says(c, d)
           /\ Onward(c, d) \/ (c.index = c.end /\ d.pc \in {"idle", "bulk"})
<1>1. c.outcome = "found" /\ c.count \in Nat /\ c.count > 0
  BY DEF Recalls, Calls
<1>2. CASE c.index # c.end
  <2>1. d = NextBlock(c)  BY <1>2, Zenon DEF BlockDone
  <2> PICK i : i = (c.indexIndex + 1) % headers[c.best][c.localBlockIndex].capacity  OBVIOUS
  <2> PICK x : x = [c EXCEPT !.pc = "take", !.start = c.index, !.indexIndex = i]  BY Zenon
  <2> PICK b : b = entries[x.best][EntryOf(x)].value  BY Zenon
  <2>2. d = [x EXCEPT !.block = b]  BY <2>1, Zenon DEF NextBlock
  <2>3. /\ d.pc = "take" /\ d.best = c.best /\ d.index = c.index
        /\ d.item = c.item /\ d.outcome = c.outcome /\ d.scanned = c.scanned
    BY ONLY <2>2, c \in Calls,
            x = [c EXCEPT !.pc = "take", !.start = c.index, !.indexIndex = i] DEF Calls
  <2>4. Recalls(d) /\ d.pc \in Work  BY ONLY <2>3 DEF Recalls, Work
  <2> QED  BY <2>3, <2>4, Zenon DEF Says, Onward
<1>3. CASE c.index = c.end
  <2> PICK r : r = Returned(c, "found")  OBVIOUS
  <2>1. \/ d = r
        \/ d = [r EXCEPT !.pc = "bulk", !.todo = Tail(c.todo), !.max = c.max, !.count = c.count]
    BY <1>3 DEF BlockDone
  <2>2. \/ d = r
        \/ \E t : d = [r EXCEPT !.pc = "bulk", !.todo = t, !.max = c.max, !.count = c.count]
    BY <2>1, Zenon
  <2>3. /\ d.best = null /\ d.item = c.item /\ d.outcome = "found" /\ d.scanned = c.scanned
        /\ d.pc = "idle" \/ (d.pc = "bulk" /\ d.count = c.count)
    BY ONLY <2>2, r = Returned(c, "found") DEF Returned, Resting
  <2>4. c.count # 0  BY ONLY <1>1
  <2>5. Recalls(d)  BY ONLY <2>3, <2>4 DEF Recalls
  <2>6. d.pc \in {"idle", "bulk"}  BY ONLY <2>3
  <2> QED  BY <1>1, <1>3, <2>3, <2>5, <2>6, Zenon DEF Says
<1> QED  BY <1>2, <1>3, Zenon

LEMMA CountIs ==
    ASSUME Facts, CountEmpty
    PROVE  /\ Recalls(consumer') /\ Says(consumer, consumer') /\ consumer.pc \in Work
           /\ \/ Onward(consumer, consumer')
              \/ consumer.index = consumer.end /\ consumer'.pc \in {"idle", "bulk"}
<1> PICK c : c = consumer  OBVIOUS
<1> PICK d : d = consumer'  OBVIOUS
<1>1. c \in Calls /\ Recalls(c)  BY Zenon DEF Facts, Core, Inv, Types, Recalled
<1>2. c.pc = "count" /\ (d = [c EXCEPT !.pc = "remove"] \/ d = BlockDone(c))
  BY Zenon DEF CountEmpty, At
<1>3. c.pc \in Work  BY ONLY <1>2 DEF Work
<1>4. CASE d = [c EXCEPT !.pc = "remove"]
  <2>1. /\ d.pc = "remove" /\ d.best = c.best /\ d.index = c.index /\ d.count = c.count
        /\ d.item = c.item /\ d.outcome = c.outcome /\ d.scanned = c.scanned
    BY ONLY <1>1, <1>4 DEF Calls
  <2>2. c.outcome = "found" /\ c.count > 0  BY <1>1, <1>2 DEF Recalls
  <2>3. Recalls(d) /\ d.pc \in Work  BY ONLY <2>1, <2>2 DEF Recalls, Work
  <2> QED  BY <1>3, <2>1, <2>3, Zenon DEF Says, Onward
<1>5. CASE d = BlockDone(c)
  <2>1. c.pc \in {"count", "free"}  BY ONLY <1>2
  <2> QED  BY <1>1, <1>3, <1>5, <2>1, BlockDoneIs, Zenon
<1> QED  BY <1>2, <1>4, <1>5, Zenon

LEMMA RemoveIs ==
    ASSUME Facts, RemoveBlock
    PROVE  /\ Recalls(consumer') /\ Says(consumer, consumer') /\ consumer.pc = "remove"
           /\ consumer.pc \in Work /\ Onward(consumer, consumer')
<1> PICK c : c = consumer  OBVIOUS
<1> PICK d : d = consumer'  OBVIOUS
<1>1. c \in Calls /\ Recalls(c)  BY Zenon DEF Facts, Core, Inv, Types, Recalled
<1>2. c.pc = "remove" /\ d = [c EXCEPT !.pc = "free"]  BY Zenon DEF RemoveBlock, At
<1>3. c.outcome = "found" /\ c.count > 0  BY <1>1, <1>2 DEF Recalls
<1>4. /\ d.pc = "free" /\ d.best = c.best /\ d.index = c.index /\ d.count = c.count
      /\ d.item = c.item /\ d.outcome = c.outcome /\ d.scanned = c.scanned
  BY ONLY <1>1, <1>2 DEF Calls
<1>5. Recalls(d) /\ d.pc \in Work /\ c.pc \in Work
  BY ONLY <1>2, <1>3, <1>4 DEF Recalls, Work
<1> QED  BY <1>2, <1>4, <1>5, Zenon DEF Says, Onward

LEMMA FreeIs ==
    ASSUME Facts, FreeBlock
    PROVE  /\ Recalls(consumer') /\ Says(consumer, consumer') /\ consumer.pc \in Work
           /\ \/ Onward(consumer, consumer')
              \/ consumer.index = consumer.end /\ consumer'.pc \in {"idle", "bulk"}
<1> PICK c : c = consumer  OBVIOUS
<1> PICK d : d = consumer'  OBVIOUS
<1>1. c \in Calls /\ Recalls(c)  BY Zenon DEF Facts, Core, Inv, Types, Recalled
<1>2. c.pc = "free" /\ d = BlockDone(c)  BY Zenon DEF FreeBlock, At
<1>3. c.pc \in {"count", "free"} /\ c.pc \in Work  BY ONLY <1>2 DEF Work
<1> QED  BY <1>1, <1>2, <1>3, BlockDoneIs, Zenon

LEMMA TakeIs ==
    ASSUME Facts, TakeElement
    PROVE  /\ Recalls(consumer') /\ consumer.pc = "take" /\ consumer.pc \in Work
           /\ consumer'.pc \in Work
           /\ consumer'.best = consumer.best /\ consumer'.index = Plus(consumer.index, 1)
           /\ consumer'.item = elements[consumer.block][consumer.index % BLOCK_SIZE]
           /\ consumer'.outcome = "found" /\ consumer'.scanned = consumer.scanned
<1> PICK c : c = consumer  OBVIOUS
<1> PICK d : d = consumer'  OBVIOUS
<1>1. c \in Calls  BY Zenon DEF Facts, Core, Inv, Types
<1> PICK x : x = elements[c.block][c.index % BLOCK_SIZE]  BY Zenon
<1> PICK s : s = Plus(c.index, 1)  BY Zenon
<1> PICK q : q = IF s \in {c.end, BlockStart(s)} THEN "count" ELSE "take"  BY Zenon
<1>2. /\ c.pc = "take"
      /\ d = [c EXCEPT !.item = x, !.outcome = "found", !.index = s, !.count = c.count + 1, !.pc = q]
  BY Zenon DEF TakeElement, At
<1>3. c.count \in Nat  BY ONLY <1>1 DEF Calls
<1>4. q \in {"count", "take"} /\ c.count + 1 > 0  BY <1>3
<1>5. /\ d.pc = q /\ d.best = c.best /\ d.index = s /\ d.count = c.count + 1 /\ d.item = x
      /\ d.outcome = "found" /\ d.scanned = c.scanned
  BY ONLY <1>1, <1>2 DEF Calls
<1>6. Recalls(d) /\ c.pc \in Work /\ d.pc \in Work
  BY ONLY <1>2, <1>4, <1>5 DEF Recalls, Work
<1> QED  BY <1>2, <1>5, <1>6, Zenon

LEMMA PopRecalls ==
    ASSUME Facts, Pop
    PROVE  Recalled'
<1>1. ASSUME DequeueBest \/ DequeueBulk PROVE Recalls(consumer')
  <2>1. \E p, n : Claim(p, n)  BY <1>1, Zenon DEF DequeueBest, DequeueBulk
  <2> QED  BY <2>1, ClaimIs, Zenon
<1>2. Recalls(consumer')
  BY <1>1, CallIs, ScoreIs, EndIs, PassOverIs, FindIs, TakeIs, CountIs, RemoveIs, FreeIs,
     Zenon DEF Pop
<1> QED  BY <1>2, Zenon DEF Recalled

LEMMA CoreKept ==
    ASSUME Facts, [Next]_vars
    PROVE  Core'
<1>1. Inv'  BY NextKeeps, Zenon DEF Facts, Core
<1>2. Recalled' /\ Committed'
  <2>1. CASE Pop  BY <2>1, PopRecalls, PopCommits, Zenon
  <2>2. CASE \E p \in Producer : Push(p)
    <3>1. PICK p \in Producer : Push(p)  BY <2>2, Zenon
    <3>2. Types  BY Zenon DEF Facts, Core, Inv
    <3>3. consumer' = consumer  BY <3>1, <3>2, PushAside, Zenon DEF Aside
    <3>4. Recalled'  BY <3>3, Zenon DEF Facts, Core, Recalled
    <3> QED  BY <3>1, <3>4, PushCommits, Zenon
  <2>3. CASE UNCHANGED vars
    <3>1. consumer' = consumer /\ elements' = elements /\ pc' = pc /\ tailBlock' = tailBlock
          /\ tailIndex' = tailIndex
      BY <2>3, Zenon DEF vars, queues, blocks, threads
    <3>2. Recalled'  BY <3>1, Zenon DEF Facts, Core, Recalled
    <3>3. Committed'  BY <3>1, CommittedStays, Zenon DEF Facts, Core
    <3> QED  BY <3>2, <3>3, Zenon
  <2> QED  BY <2>1, <2>2, <2>3, Zenon DEF Next
<1> QED  BY <1>1, <1>2, Zenon DEF Core

LEMMA InitCore ==
    ASSUME Init
    PROVE  Core
<1>1. Inv  BY InitInv, Zenon
<1>2. consumer = Resting /\ pc = [p \in Producer |-> "idle"]  BY Zenon DEF Init
<1>3. Recalled
  <2>1. consumer.pc = "idle" /\ consumer.best = null  BY ONLY <1>2 DEF Resting
  <2> QED  BY ONLY <2>1 DEF Recalled, Recalls
<1>4. Committed
  <2>1. \A p \in Producer : pc[p] # "commit"  BY ONLY <1>2
  <2> QED  BY <2>1, Zenon DEF Committed
<1> QED  BY <1>1, <1>3, <1>4, Zenon DEF Core

\* The facts hold always.
LEMMA FactsAlways == Spec => []Facts
<1>1. Core => Facts  BY InvLegible, Zenon DEF Core, Facts
<1>2. Init => Core  BY InitCore, Zenon
<1>3. Facts /\ [Next]_vars => Core'  BY CoreKept, Zenon
<1> QED  BY <1>1, <1>2, <1>3, PTL DEF Spec

-----------------------------------------------------------------------------
(* The steps of the inbox                                                  *)

InboxStep == [AbstractInbox!Next]_(AbstractInbox!vars)
Kept == \A p \in Producer : Contents(p)' = Contents(p)

LEMMA Silent ==
    ASSUME Kept, Says(consumer, consumer')
    PROVE  InboxStep
<1>1. [p \in Producer |-> Contents(p)]' = [p \in Producer |-> Contents(p)]
  <2>1. [p \in Producer |-> Contents(p)]' = [p \in Producer |-> Contents(p)']  OBVIOUS
  <2> QED  BY <2>1, Zenon DEF Kept
<1>2. UNCHANGED AbstractInbox!vars  BY <1>1, Zenon DEF Says, AbstractInbox!vars
<1> QED  BY <1>2, Zenon DEF InboxStep

LEMMA StaysKept ==
    ASSUME Facts, Facts', \A r \in Producer : Stays(r) /\ First(r)' = First(r)
    PROVE  Kept
<1> SUFFICES ASSUME NEW r \in Producer PROVE Contents(r)' = Contents(r)  BY Zenon DEF Kept
<1>1. Legible(r) /\ Legible(r)'  BY Zenon DEF Facts
<1>2. Stays(r) /\ First(r)' = First(r)  BY Zenon
<1> QED  BY <1>1, <1>2, SameContents DEF Stays

LEMMA PlusPlus ==
    ASSUME NEW i \in Index, NEW n \in Nat, NEW m \in Nat
    PROVE  Plus(Plus(i, n), m) = Plus(i, n + m)
<1>1. i \in Nat /\ i + n \in Nat /\ (i + n) + m = i + (n + m) /\ n + m \in Nat
  BY Sizes DEF Index
<1>2. i = Wrap(i)
  <2>1. IndexRange \in Nat \ {0} /\ i \in 0 .. IndexRange - 1 /\ i \in Int  BY Sizes DEF Index
  <2> QED  BY <2>1, Small, Zenon DEF Wrap
<1>3. Plus(Wrap(i), n) = Wrap(i + n) /\ Plus(Wrap(i), n + m) = Wrap(i + (n + m))
      /\ Plus(Wrap(i + n), m) = Wrap((i + n) + m)
  BY <1>1, Wrapped, Zenon
<1> QED  BY <1>1, <1>2, <1>3, Zenon

Until(s, N) == s = [n \in 1 .. N |-> s[n]]

\* A sequence and the one that is longer by its last element.
LEMMA Longer ==
    ASSUME NEW N \in Nat, NEW s, NEW t, Until(s, N), Until(t, N + 1),
           \A n \in 1 .. N : t[n] = s[n]
    PROVE  t = Append(s, t[N + 1])
<1> PICK X : X = {t[n] : n \in 1 .. N + 1}  OBVIOUS
<1>1. \A n \in 1 .. N : n \in 1 .. N + 1  OBVIOUS
<1>2. N + 1 \in Nat /\ N + 1 \in 1 .. N + 1  OBVIOUS
<1>3. t \in [1 .. N + 1 -> X] /\ s \in [1 .. N -> X] /\ t[N + 1] \in X
  BY <1>1, <1>2, Zenon DEF Until
<1>4. t \in Seq(X) /\ Len(t) = N + 1 /\ s \in Seq(X) /\ Len(s) = N
  BY ONLY <1>2, <1>3, N \in Nat, SequenceOf, Zenon
<1> QED  BY ONLY <1>3, <1>4, N \in Nat, \A n \in 1 .. N : t[n] = s[n]

LEMMA Shorter ==
    ASSUME NEW N \in Nat \ {0}, NEW s, NEW t, Until(s, N), Until(t, N - 1),
           \A n \in 1 .. N - 1 : t[n] = s[n + 1]
    PROVE  t = Tail(s) /\ Head(s) = s[1] /\ s # <<>>
<1> PICK X : X = {s[n] : n \in 1 .. N}  OBVIOUS
<1>1. N - 1 \in Nat /\ N \in Nat /\ \A n \in 1 .. N - 1 : n + 1 \in 1 .. N  OBVIOUS
<1>2. t \in [1 .. N - 1 -> X] /\ s \in [1 .. N -> X]  BY <1>1, Zenon DEF Until
<1>3. t \in Seq(X) /\ Len(t) = N - 1 /\ s \in Seq(X) /\ Len(s) = N
  BY <1>1, <1>2, SequenceOf, Zenon
<1> QED  BY ONLY <1>3, N \in Nat \ {0}, \A n \in 1 .. N - 1 : t[n] = s[n + 1]

LEMMA AllGone ==
    ASSUME NEW p, Length(p) = 0
    PROVE  Contents(p) = <<>>
BY ContentsAre, 1 .. 0 = {}

LEMMA CommitMaps ==
    ASSUME Facts, Facts', NEW p \in Producer, Commit(p)
    PROVE  InboxStep
<1>1. Types /\ Committed /\ Legible(p) /\ Legible(p)'  BY Zenon DEF Facts, Core, Inv
<1>2. /\ pc[p] = "commit" /\ consumer' = consumer /\ headIndex' = headIndex
      /\ entries' = entries /\ elements' = elements
      /\ tailIndex' = [tailIndex EXCEPT ![p] = Plus(@, 1)]
  BY Zenon DEF Commit, Transition, dequeued, blocks
<1>3. tailIndex \in [Producer -> Index]  BY <1>1, Zenon DEF Types
<1>4. \A r \in Producer : First(r)' = First(r)  BY <1>2, Zenon DEF First
<1>5. ASSUME NEW r \in Producer, r # p PROVE Contents(r)' = Contents(r)
  <2>1. tailIndex'[r] = tailIndex[r]  BY <1>2, <1>3, <1>5, Zenon
  <2>2. EntriesStay(r) /\ ElementsStay(r)  BY <1>2, UnchangedStays, Zenon
  <2>3. Legible(r) /\ Legible(r)'  BY Zenon DEF Facts
  <2> QED  BY <1>4, <2>1, <2>2, <2>3, SameContents
<1> PICK F, T, N : F = First(p) /\ T = tailIndex[p] /\ N = Length(p)  BY Zenon
<1>6. /\ F \in Index /\ T \in Index /\ N \in Nat /\ N + 1 < IndexRange /\ N = Minus(T, F)
      /\ tailIndex'[p] = Plus(T, 1)
  BY <1>1, <1>2, <1>3, Zenon DEF Legible, Length
<1>7. Plus(F, N) = T  BY <1>6, PlusMinus, Zenon
<1>8. Length(p)' = N + 1
  <2>1. Plus(T, 1) = Plus(F, N + 1)  BY <1>6, <1>7, PlusPlus, 1 \in Nat, Zenon
  <2>2. N + 1 \in Nat  BY <1>6
  <2>3. Minus(Plus(F, N + 1), F) = N + 1  BY <1>6, <2>2, PlusIs, Zenon
  <2>4. First(p)' = F  BY <1>4, Zenon
  <2>5. Length(p)' = Minus(tailIndex'[p], First(p)')  BY DEF Length
  <2> QED  BY <1>6, <2>1, <2>3, <2>4, <2>5, Zenon
<1>9. Element(p, T) = T
  <2>1. pc[p] \in {"construct", "commit"}  BY <1>2
  <2>2. Place(p, T, tailBlock[p])  BY <1>1, <2>1, Zenon DEF Legible
  <2>3. Element(p, T) = elements[tailBlock[p]][T % BLOCK_SIZE]  BY <1>1, <1>6, <2>2, ElementIs, Zenon
  <2> QED  BY <1>1, <1>2, <2>3, Zenon DEF Committed
<1> PICK s, t : s = Contents(p) /\ t = Contents(p)'  BY Zenon
<1>10. t = Append(s, T)
  <2>1. s = [n \in 1 .. N |-> Element(p, Plus(F, n - 1))]  BY ContentsAre, Zenon
  <2>2. t = [n \in 1 .. N + 1 |-> Element(p, Plus(F, n - 1))]
    <3>1. t = [n \in 1 .. Length(p)' |-> Element(p, Plus(First(p), n - 1))']
      BY Zenon DEF Contents, Length, Element
    <3>2. ASSUME NEW n PROVE Element(p, Plus(First(p), n - 1))' = Element(p, Plus(F, n - 1))
      BY <1>2, <1>4, Zenon DEF Element, EntryAt
    <3> QED  BY <1>8, <3>1, <3>2, Zenon
  <2>3. \A n \in 1 .. N : n \in 1 .. N + 1  BY <1>6
  <2>4. N + 1 \in 1 .. N + 1 /\ (N + 1) - 1 = N  BY <1>6
  <2>5. Until(s, N) /\ Until(t, N + 1) /\ (\A n \in 1 .. N : t[n] = s[n]) /\ t[N + 1] = T
    BY <1>7, <1>9, <2>1, <2>2, <2>3, <2>4, Zenon DEF Until
  <2> QED  BY <1>6, <2>5, Longer, Zenon
<1>11. AbstractInbox!Push(p)
  <2> PICK q, q2 : q = [r \in Producer |-> Contents(r)] /\ q2 = [r \in Producer |-> Contents(r)']
    OBVIOUS
  <2>1. q2[p] \in {Append(q[p], m) : m \in Index}  BY <1>6, <1>10, Zenon
  <2>2. \A o \in Producer \ {p} : q2[o] = q[o]  BY <1>5, Zenon
  <2>3. [r \in Producer |-> Contents(r)]' = q2  BY Zenon
  <2> QED  BY <1>2, <2>1, <2>2, <2>3, Zenon DEF AbstractInbox!Push
<1> QED  BY <1>11, Zenon DEF InboxStep, AbstractInbox!Next

LEMMA PushMaps ==
    ASSUME Facts, Facts', NEW p \in Producer, Push(p)
    PROVE  InboxStep
<1>1. Types  BY Zenon DEF Facts, Core, Inv
<1>2. consumer' = consumer /\ headIndex' = headIndex  BY <1>1, PushAside, Zenon DEF Aside
<1>3. CASE ~Commit(p)
  <2>1. \A r \in Producer : Stays(r)  BY <1>3, PushStays, Zenon DEF Push
  <2>2. \A r \in Producer : First(r)' = First(r)  BY <1>2, Zenon DEF First
  <2>3. Kept  BY <2>1, <2>2, StaysKept, Zenon
  <2>4. Says(consumer, consumer')  BY <1>2, Zenon DEF Says
  <2> QED  BY <2>3, <2>4, Silent, Zenon
<1> QED  BY <1>3, CommitMaps, Zenon

\* Between its calls and while it looks for a queue the consumer is nowhere.
LEMMA FirstAtRest ==
    ASSUME NEW c, Recalls(c), c.pc \in {"idle", "score", "bulk"}, NEW p \in Producer
    PROVE  ~(c.best = p /\ c.pc # "score")
<1>1. p # null  BY QueueAssumption
<1>2. c.pc # "score" => c.best = null  BY DEF Recalls
<1> QED  BY <1>1, <1>2, Zenon

LEMMA RestMaps ==
    ASSUME Facts, Facts', consumer.pc \in {"idle", "score", "bulk"},
           consumer'.pc \in {"idle", "score", "bulk"},
           UNCHANGED <<Producing, dequeued, blocks>>
    PROVE  Kept
<1>1. Recalls(consumer) /\ Recalls(consumer')  BY Zenon DEF Facts, Core, Recalled
<1>2. headIndex' = headIndex /\ tailIndex' = tailIndex /\ entries' = entries
      /\ elements' = elements
  BY Zenon DEF Producing, queues, dequeued, blocks
<1>3. \A r \in Producer : First(r) = headIndex[r] /\ First(r)' = headIndex'[r]
  BY <1>1, FirstAtRest, Zenon DEF First
<1>4. \A r \in Producer : Stays(r)  BY <1>2, UnchangedStays, Zenon DEF Stays
<1> QED  BY <1>2, <1>3, <1>4, StaysKept, Zenon

\* A queue whose head is its tail is empty.
LEMMA SeeMaps ==
    ASSUME Facts, Kept, consumer.pc \in {"idle", "score", "bulk"}, NEW p \in Producer,
           tailIndex[p] = headIndex[p], consumer'.scanned = consumer.scanned \union {p},
           consumer'.item = consumer.item, consumer'.outcome = consumer.outcome
    PROVE  InboxStep
<1>1. First(p) = headIndex[p]
  <2>1. Recalls(consumer)  BY Zenon DEF Facts, Core, Recalled
  <2> QED  BY <2>1, FirstAtRest, Zenon DEF First
<1>2. Legible(p)  BY Zenon DEF Facts
<1>3. Length(p) = 0  BY <1>1, <1>2, SameIndex, Zenon DEF Length, Legible
<1>4. Contents(p) = <<>>  BY <1>3, AllGone, Zenon
<1>5. CASE p \in consumer.scanned
  <2>1. consumer'.scanned = consumer.scanned  BY <1>5, Zenon
  <2> QED  BY <2>1, Silent, Zenon DEF Says
<1>6. CASE p \notin consumer.scanned
  <2>1. p \in AbstractInbox!Empty  BY <1>4, Zenon DEF AbstractInbox!Empty
  <2>2. [r \in Producer |-> Contents(r)]' = [r \in Producer |-> Contents(r)]
    BY Zenon DEF Kept
  <2>3. AbstractInbox!See(p)  BY <1>6, <2>1, <2>2, Zenon DEF AbstractInbox!See
  <2> QED  BY <2>3, Zenon DEF InboxStep, AbstractInbox!Next
<1> QED  BY <1>5, <1>6, Zenon

LEMMA CallMaps ==
    ASSUME Facts, Facts', NEW max \in {0} \union BulkSizes, Call(max)
    PROVE  InboxStep
<1>1. /\ consumer.pc = "idle" /\ consumer'.pc \in {"score", "bulk"}
      /\ consumer'.item = null /\ consumer'.outcome = "none"
      /\ consumer'.scanned = Producer \ ToSet(producers)
  BY CallIs, Zenon
<1>2. Kept
  <2>1. consumer.pc \in {"idle", "score", "bulk"} /\ consumer'.pc \in {"idle", "score", "bulk"}
    BY ONLY <1>1
  <2>2. UNCHANGED <<Producing, dequeued, blocks>>  BY Zenon DEF Call
  <2> QED  BY <2>1, <2>2, RestMaps, Zenon
<1>3. consumer'.scanned \subseteq AbstractInbox!Empty
  <2>1. ASSUME NEW p \in Producer, p \notin ToSet(producers) PROVE Contents(p) = <<>>
    <3>1. Legible(p)  BY Zenon DEF Facts
    <3>2. Length(p) = 0  BY <2>1, <3>1, Zenon DEF Legible
    <3> QED  BY <3>2, AllGone, Zenon
  <2> QED  BY <1>1, <2>1, Zenon DEF AbstractInbox!Empty
<1>4. [r \in Producer |-> Contents(r)]' = [r \in Producer |-> Contents(r)]
  BY <1>2, Zenon DEF Kept
<1>5. AbstractInbox!Call  BY <1>1, <1>3, <1>4, Zenon DEF AbstractInbox!Call
<1> QED  BY <1>5, Zenon DEF InboxStep, AbstractInbox!Next

LEMMA WalkMaps ==
    ASSUME Facts, Facts', Score \/ PassOver
    PROVE  InboxStep
<1>1. /\ consumer.pc \in {"score", "bulk"} /\ consumer'.pc \in {"score", "bulk"}
      /\ consumer'.item = consumer.item /\ consumer'.outcome = consumer.outcome
      /\ \/ consumer'.scanned = consumer.scanned
         \/ \E p \in Producer : /\ tailIndex[p] = headIndex[p]
                                /\ consumer'.scanned = consumer.scanned \union {p}
  BY ScoreIs, PassOverIs, Zenon
<1>2. consumer.pc \in {"idle", "score", "bulk"} /\ consumer'.pc \in {"idle", "score", "bulk"}
  BY ONLY <1>1
<1>3. Kept
  <2>1. UNCHANGED <<Producing, dequeued, blocks>>  BY Zenon DEF Score, PassOver
  <2> QED  BY <1>2, <2>1, RestMaps, Zenon
<1>4. CASE consumer'.scanned = consumer.scanned
  BY <1>1, <1>3, <1>4, Silent, Zenon DEF Says
<1> QED  BY <1>1, <1>2, <1>3, <1>4, SeeMaps, Zenon

LEMMA EndMaps ==
    ASSUME Facts, Facts', SayEmpty \/ EndBulk
    PROVE  InboxStep
<1>1. /\ consumer.pc \in {"score", "bulk"} /\ consumer'.pc = "idle"
      /\ Denies(consumer, consumer') \/ Says(consumer, consumer')
  BY EndIs, Zenon
<1>2. Kept
  <2>1. consumer.pc \in {"idle", "score", "bulk"} /\ consumer'.pc \in {"idle", "score", "bulk"}
    BY ONLY <1>1
  <2>2. UNCHANGED <<Producing, dequeued, blocks>>  BY Zenon DEF SayEmpty, EndBulk
  <2> QED  BY <2>1, <2>2, RestMaps, Zenon
<1>3. CASE Denies(consumer, consumer')
  <2>1. [r \in Producer |-> Contents(r)]' = [r \in Producer |-> Contents(r)]
    BY <1>2, Zenon DEF Kept
  <2>2. AbstractInbox!SayEmpty
    BY <1>3, <2>1, Zenon DEF Denies, AbstractInbox!SayEmpty
  <2> QED  BY <2>2, Zenon DEF InboxStep, AbstractInbox!Next
<1> QED  BY <1>1, <1>2, <1>3, Silent, Zenon

LEMMA ClaimMaps ==
    ASSUME Facts, Facts', DequeueBest \/ DequeueBulk
    PROVE  InboxStep
<1>1. consumer.pc \in {"idle", "score", "bulk"} /\ \E p, n : Claim(p, n)
  BY DEF DequeueBest, DequeueBulk
<1>2. PICK p, n : Claim(p, n)  BY <1>1, Zenon
<1>3. /\ tailIndex' = tailIndex /\ entries' = entries /\ elements' = elements
      /\ headIndex' = [headIndex EXCEPT ![p] = Plus(@, n)]
  BY <1>2, Zenon DEF Claim, MoveHead, Producing, queues, blocks
<1>4. /\ Says(consumer, consumer') /\ consumer'.pc # "score" /\ consumer'.best = p
      /\ consumer'.index = headIndex[p]
  <2>1. consumer'.pc = "index" => consumer'.pc # "score"  OBVIOUS
  <2> QED  BY <1>2, <2>1, ClaimIs, Zenon
<1>5. ASSUME NEW r \in Producer PROVE Stays(r) /\ First(r)' = First(r)
  <2>1. Stays(r)  BY <1>3, UnchangedStays, Zenon DEF Stays
  <2>2. First(r) = headIndex[r]
    <3>1. Recalls(consumer)  BY Zenon DEF Facts, Core, Recalled
    <3> QED  BY <1>1, <3>1, FirstAtRest, Zenon DEF First
  <2>3. headIndex \in [Producer -> Index]  BY Zenon DEF Facts, Core, Inv, Types
  <2>4. First(r)' = headIndex[r]
    <3>1. CASE r = p  BY <1>4, <3>1, Zenon DEF First
    <3>2. CASE r # p
      <4>1. headIndex'[r] = headIndex[r]  BY <1>3, <2>3, <3>2, Zenon
      <4> QED  BY <1>4, <3>2, <4>1, Zenon DEF First
    <3> QED  BY <3>1, <3>2, Zenon
  <2> QED  BY <2>1, <2>2, <2>4, Zenon
<1>6. Kept  BY <1>5, StaysKept, Zenon
<1> QED  BY <1>4, <1>6, Silent, Zenon

\* The consumer works on at the same element, or ends its claim at the head.
LEMMA FirstStays ==
    ASSUME Facts, Recalls(consumer'), consumer.pc \in Work, headIndex' = headIndex,
           \/ Onward(consumer, consumer')
           \/ consumer.index = consumer.end /\ consumer'.pc \in {"idle", "bulk"}
    PROVE  \A r \in Producer : First(r)' = First(r)
<1>1. consumer.pc # "score"  BY DEF Work
<1>2. CASE Onward(consumer, consumer')
  <2>1. consumer'.pc # "score"  BY <1>2 DEF Onward, Work
  <2> QED  BY <1>1, <1>2, <2>1, Zenon DEF Onward, First
<1>3. CASE consumer.index = consumer.end /\ consumer'.pc \in {"idle", "bulk"}
  <2> SUFFICES ASSUME NEW r \in Producer PROVE First(r)' = First(r)  OBVIOUS
  <2>1. consumer'.pc \in {"idle", "score", "bulk"}  BY ONLY <1>3
  <2>2. First(r)' = headIndex[r]  BY <2>1, FirstAtRest, Zenon DEF First
  <2>3. CASE consumer.best = r
    <3>1. Legible(r)  BY Zenon DEF Facts
    <3>2. consumer.end = headIndex[r]  BY <2>3, <3>1, Zenon DEF Legible, Reads
    <3> QED  BY <1>1, <1>3, <2>2, <2>3, <3>2, Zenon DEF First
  <2>4. CASE consumer.best # r  BY <2>2, <2>4, Zenon DEF First
  <2> QED  BY <2>3, <2>4, Zenon
<1> QED  BY <1>2, <1>3, Zenon

\* The entry of a block that goes back is that of no element that is left.
LEMMA RemoveStays ==
    ASSUME Facts, RemoveBlock
    PROVE  \A r \in Producer : EntriesStay(r)
<1> PICK p, f : p = consumer.best /\ f = EntryOf(consumer)  BY Zenon
<1>1. /\ consumer.pc = "remove"
      /\ entries' = [entries EXCEPT ![p][f].value = null]
  BY Zenon DEF RemoveBlock, At, ForgetBlock
<1>2. entries \in [Producer -> Seq(Entry)]  BY Zenon DEF Facts, Core, Inv, Types
<1> SUFFICES ASSUME NEW r \in Producer PROVE EntriesStay(r)  OBVIOUS
<1>3. CASE r # p
  <2>1. entries'[r] = entries[r]  BY <1>1, <1>2, <1>3, Zenon
  <2> QED  BY <2>1, UnchangedStays, Zenon
<1>4. CASE r = p
  <2>1. Legible(r)  BY Zenon DEF Facts
  <2>2. \A i : Left(r, i) => ~Keyed(entries[r], f, i)
    BY <1>1, <1>4, <2>1, Zenon DEF Legible, Reads
  <2> PICK es, x : es = entries[r] /\ x = [entries[r][f] EXCEPT !.value = null]  BY Zenon
  <2> PICK es2 : es2 = [es EXCEPT ![f] = x]  OBVIOUS
  <2>3. entries'[r] = es2  BY <1>1, <1>2, <1>4, Zenon
  <2>4. es \in Seq(Entry)  BY <1>2, Zenon
  <2>5. DOMAIN es2 = DOMAIN es /\ \A e \in DOMAIN es : e # f => es2[e] = es[e]  BY <2>4, Zenon
  <2>6. ASSUME NEW i, NEW e, Left(r, i), Keyed(es, e, i)
        PROVE  e \in DOMAIN es2 /\ es2[e] = es[e]
    <3>1. e # f  BY <2>2, <2>6, Zenon
    <3>2. e \in DOMAIN es  BY <2>6, Zenon DEF Keyed
    <3> QED  BY <2>5, <3>1, <3>2, Zenon
  <2> QED  BY <2>3, <2>6, Zenon DEF EntriesStay
<1> QED  BY <1>3, <1>4, Zenon

\* Looking for the block and giving it back are silent.
LEMMA WorkMaps ==
    ASSUME Facts, Facts',
           ReadIndex \/ ReadTail \/ FindBlock \/ CountEmpty \/ RemoveBlock \/ FreeBlock
    PROVE  InboxStep
<1>1. /\ Recalls(consumer') /\ Says(consumer, consumer') /\ consumer.pc \in Work
      /\ \/ Onward(consumer, consumer')
         \/ consumer.index = consumer.end /\ consumer'.pc \in {"idle", "bulk"}
  BY FindIs, CountIs, RemoveIs, FreeIs, Zenon
<1>2. headIndex' = headIndex /\ tailIndex' = tailIndex /\ elements' = elements
  BY Zenon DEF ReadIndex, ReadTail, FindBlock, CountEmpty, RemoveBlock, FreeBlock, Producing,
     queues, dequeued, blocks
<1>3. \A r \in Producer : First(r)' = First(r)  BY <1>1, <1>2, FirstStays, Zenon
<1>4. \A r \in Producer : EntriesStay(r)
  <2>1. CASE RemoveBlock  BY <2>1, RemoveStays, Zenon
  <2>2. CASE ~RemoveBlock
    <3>1. entries' = entries
      BY <2>2, Zenon DEF ReadIndex, ReadTail, FindBlock, CountEmpty, FreeBlock, Producing, queues
    <3> QED  BY <3>1, UnchangedStays, Zenon
  <2> QED  BY <2>1, <2>2, Zenon
<1>5. \A r \in Producer : Stays(r)  BY <1>2, <1>4, UnchangedStays, Zenon DEF Stays
<1>6. Kept  BY <1>3, <1>5, StaysKept, Zenon
<1> QED  BY <1>1, <1>6, Silent, Zenon

\* The consumer takes the oldest message of the queue it is at.
LEMMA TakeMaps ==
    ASSUME Facts, Facts', TakeElement
    PROVE  InboxStep
<1>1. Inv /\ Types /\ Owners /\ \A r \in Producer : Legible(r) /\ Legible(r)'
  BY Zenon DEF Facts, Core, Inv
<1>2. /\ consumer.pc = "take" /\ consumer.pc \in Work /\ consumer'.pc \in Work
      /\ consumer'.best = consumer.best /\ consumer'.index = Plus(consumer.index, 1)
      /\ consumer'.item = elements[consumer.block][consumer.index % BLOCK_SIZE]
      /\ consumer'.outcome = "found" /\ consumer'.scanned = consumer.scanned
  BY TakeIs, Zenon
<1>3. consumer.pc # "score" /\ consumer'.pc # "score"  BY ONLY <1>2 DEF Work
<1> PICK p, F, b : p = consumer.best /\ F = consumer.index /\ b = consumer.block  OBVIOUS
<1>4. p \in Producer  BY <1>1, <1>2, Best, Zenon
<1>5. /\ Place(p, F, b) /\ b \in Block /\ Length(p) > 0 /\ F \in Index
  <2>1. Legible(p) /\ consumer.best = p  BY <1>1, <1>4, Zenon
  <2> QED  BY <1>2, <2>1, Zenon DEF Legible, Reads
<1>6. /\ headIndex' = headIndex /\ tailIndex' = tailIndex /\ entries' = entries
      /\ Written(b, F, null)
  BY Zenon DEF TakeElement, Written, Producing, queues, dequeued
<1>7. First(p) = F /\ First(p)' = Plus(F, 1)  BY <1>2, <1>3, Zenon DEF First
<1>8. ASSUME NEW r \in Producer, r # p PROVE Contents(r)' = Contents(r)
  <2>1. First(r)' = First(r)  BY <1>2, <1>6, <1>8, Zenon DEF First
  <2>2. EntriesStay(r)  BY <1>6, UnchangedStays, Zenon
  <2>3. ElementsStay(r)  BY <1>1, <1>4, <1>5, <1>6, <1>8, SlotStays, Zenon
  <2> QED  BY <1>1, <1>6, <2>1, <2>2, <2>3, SameContents
<1> PICK N : N = Length(p)  OBVIOUS
<1>9. N \in Nat \ {0} /\ N - 1 \in Nat /\ N + 1 < IndexRange /\ N < IndexRange
      /\ N - 1 < IndexRange
  <2>1. N \in Nat /\ N + 1 < IndexRange /\ N > 0  BY <1>1, <1>4, <1>5, Zenon DEF Legible
  <2> QED  BY ONLY <2>1, Sizes
<1>10. Plus(F, 1) \in Index /\ Length(p)' = N - 1
  <2>1. tailIndex[p] \in Index  BY <1>1, <1>4, Zenon DEF Types
  <2>2. N = Minus(tailIndex[p], F)  BY <1>7, Zenon DEF Length
  <2>3. Plus(F, N) = tailIndex[p]  BY <1>5, <2>1, <2>2, PlusMinus, Zenon
  <2>4. 1 + (N - 1) = N /\ 1 \in Nat /\ 1 < IndexRange  BY ONLY <1>9, Sizes
  <2> PICK k : k = N - 1  OBVIOUS
  <2>5. Plus(Plus(F, 1), k) = Plus(F, N)
    <3>1. Plus(Plus(F, 1), k) = Plus(F, 1 + k)  BY <1>5, <1>9, <2>4, PlusPlus, Zenon
    <3> QED  BY <2>4, <3>1, Zenon
  <2>6. Plus(F, 1) \in Index  BY <1>5, <2>4, PlusIs, Zenon
  <2>7. Minus(tailIndex[p], Plus(F, 1)) = N - 1
    <3>1. Minus(Plus(Plus(F, 1), k), Plus(F, 1)) = k  BY <1>9, <2>6, PlusIs, Zenon
    <3> QED  BY <2>3, <2>5, <3>1, Zenon
  <2>8. Length(p)' = Minus(tailIndex'[p], First(p)')  BY DEF Length
  <2> QED  BY <1>6, <1>7, <2>6, <2>7, <2>8, Zenon
<1>11. Element(p, F) = consumer'.item
  BY <1>1, <1>2, <1>4, <1>5, ElementIs, Zenon
<1>12. ASSUME NEW n \in 1 .. N - 1
       PROVE  Element(p, Plus(Plus(F, 1), n - 1))' = Element(p, Plus(F, (n + 1) - 1))
  <2>1. /\ n \in Nat /\ n - 1 \in Nat /\ 1 + (n - 1) = n /\ (n + 1) - 1 = n /\ 1 \in Nat
        /\ n + 1 \in 1 .. N /\ n # 0
    BY ONLY <1>9, n \in 1 .. N - 1
  <2> PICK i : i = Plus(F, n)  BY Zenon
  <2>2. Plus(Plus(F, 1), n - 1) = i
    <3> PICK k : k = n - 1  OBVIOUS
    <3>1. Plus(Plus(F, 1), k) = Plus(F, 1 + k)  BY <1>5, <2>1, PlusPlus, Zenon
    <3> QED  BY <2>1, <3>1, Zenon
  <2>3. Left(p, i) /\ Minus(i, F) = n  BY <1>1, <1>4, <1>7, <2>1, Nth, Zenon
  <2>4. i # F  BY <1>5, <2>1, <2>3, SameIndex, Zenon
  <2>5. i \in Index  BY <2>3, Zenon DEF Left
  <2>6. PICK a \in Block : Place(p, i, a)  BY <1>1, <1>4, <2>3, Zenon DEF Legible
  <2>7. SlotStill(a, i)
    BY <1>1, <1>4, <1>5, <1>6, <2>4, <2>5, <2>6, SlotAside, Zenon
  <2>8. Element(p, i) = elements[a][i % BLOCK_SIZE]  BY <1>1, <1>4, <2>5, <2>6, ElementIs, Zenon
  <2>9. Place(p, i, a)'  BY <1>6, <2>6, Zenon DEF Place
  <2>10. Element(p, i)' = elements'[a][i % BLOCK_SIZE]
    BY <1>1, <1>4, <2>5, <2>9, ElementIsThen, Zenon
  <2>11. Element(p, i)' = Element(p, i)  BY <2>7, <2>8, <2>10, Zenon DEF SlotStill
  <2>12. Plus(F, (n + 1) - 1) = i  BY <2>1, Zenon
  <2> QED  BY <2>2, <2>11, <2>12, Zenon DEF Element, EntryAt
<1> PICK s, t : s = Contents(p) /\ t = Contents(p)'  BY Zenon
<1>13. t = Tail(s) /\ Head(s) = consumer'.item /\ s # <<>>
  <2>1. s = [n \in 1 .. N |-> Element(p, Plus(F, n - 1))]  BY <1>7, ContentsAre, Zenon
  <2>2. t = [n \in 1 .. N - 1 |-> Element(p, Plus(Plus(F, 1), n - 1))']
    <3>1. t = [n \in 1 .. Length(p)' |-> Element(p, Plus(First(p), n - 1))']
      BY Zenon DEF Contents, Length, Element
    <3>2. ASSUME NEW n
          PROVE  Element(p, Plus(First(p), n - 1))' = Element(p, Plus(Plus(F, 1), n - 1))'
      BY <1>7, Zenon DEF Element, EntryAt
    <3> QED  BY <1>10, <3>1, <3>2, Zenon
  <2>3. \A n \in 1 .. N - 1 : n + 1 \in 1 .. N  BY <1>9
  <2>4. Until(s, N) /\ Until(t, N - 1)  BY <2>1, <2>2, Zenon DEF Until
  <2>5. \A n \in 1 .. N - 1 : t[n] = s[n + 1]  BY <1>12, <2>1, <2>2, <2>3, Zenon
  <2>6. s[1] = consumer'.item
    <3>1. 1 \in 1 .. N /\ 1 - 1 = 0 /\ IndexRange \in Nat \ {0} /\ F \in 0 .. IndexRange - 1
          /\ F + 0 = F
      BY <1>5, <1>9, Sizes DEF Index
    <3>2. Plus(F, 1 - 1) = F
      <4>1. F % IndexRange = F  BY ONLY <3>1, Small
      <4> QED  BY <3>1, <4>1, Zenon DEF Plus
    <3> QED  BY <1>11, <2>1, <3>1, <3>2, Zenon
  <2> QED  BY <1>9, <2>4, <2>5, <2>6, Shorter, Zenon
<1>14. AbstractInbox!Pop(p)
  <2> PICK q, q2 : q = [r \in Producer |-> Contents(r)] /\ q2 = [r \in Producer |-> Contents(r)']
    OBVIOUS
  <2>1. q[p] = s /\ q2[p] = t /\ \A r \in Producer : r # p => q2[r] = q[r]
    BY <1>4, <1>8, Zenon
  <2>2. q2 = [q EXCEPT ![p] = Tail(@)]
    <3>1. q2 = [r \in Producer |-> q2[r]] /\ q = [r \in Producer |-> q[r]]  BY Zenon
    <3>2. q2[p] = Tail(q[p])  BY <1>13, <2>1, Zenon
    <3> QED  BY ONLY <1>4, <2>1, <3>1, <3>2
  <2>3. [r \in Producer |-> Contents(r)]' = q2  BY Zenon
  <2> QED  BY <1>2, <1>13, <2>1, <2>2, <2>3, Zenon DEF AbstractInbox!Pop
<1> QED  BY <1>4, <1>14, Zenon DEF InboxStep, AbstractInbox!Next

LEMMA PopMaps ==
    ASSUME Facts, Facts', Pop
    PROVE  InboxStep
BY CallMaps, WalkMaps, EndMaps, ClaimMaps, WorkMaps, TakeMaps, Zenon DEF Pop

LEMMA Maps ==
    ASSUME Facts, Facts', [Next]_vars
    PROVE  InboxStep
<1>1. CASE UNCHANGED vars
  <2>1. UNCHANGED <<tailIndex, headIndex, entries, elements, consumer>>
    BY <1>1, Zenon DEF vars, queues, dequeued, blocks, threads
  <2>2. \A r \in Producer : Contents(r)' = Contents(r)
    BY <2>1 DEF Contents, First, EntryAt
  <2>3. Kept /\ Says(consumer, consumer')  BY <2>1, <2>2, Zenon DEF Kept, Says
  <2> QED  BY <2>3, Silent, Zenon
<1> QED  BY <1>1, PopMaps, PushMaps, Zenon DEF Next

LEMMA InitMaps ==
    ASSUME Init
    PROVE  AbstractInbox!Init
<1>1. Core  BY InitCore, Zenon
<1>2. consumer = Resting /\ producers = <<>>  BY Zenon DEF Init
<1>3. consumer.item = null /\ consumer.outcome = "none" /\ consumer.scanned = {}
  BY ONLY <1>2 DEF Resting
<1>4. ASSUME NEW p \in Producer PROVE Contents(p) = <<>>
  <2>1. p \notin ToSet(producers)  BY <1>2 DEF ToSet
  <2>2. Legible(p)  BY <1>1, InvLegible, Zenon DEF Core
  <2>3. Length(p) = 0  BY <2>1, <2>2, Zenon DEF Legible
  <2> QED  BY <2>3, AllGone, Zenon
<1>5. [p \in Producer |-> Contents(p)] = [p \in Producer |-> <<>>]  BY <1>4, Zenon
<1> QED  BY <1>3, <1>5, Zenon DEF AbstractInbox!Init

\* The queue implements the inbox, for any number of producers, blocks and
\* indices and however malloc fails: what the pops deliver of a producer are its
\* messages, each once and in the order of its pushes; a push that fails leaves
\* no trace; a pop that says "empty" has seen every queue empty.
THEOREM ImplementsInbox == Spec => IsInbox
<1>1. Init => AbstractInbox!Init  BY InitMaps, Zenon
<1>2. Facts /\ Facts' /\ [Next]_vars => InboxStep  BY Maps, Zenon
<1> QED  BY <1>1, <1>2, FactsAlways, PTL DEF Spec, IsInbox, AbstractInbox!Spec, InboxStep
=============================================================================
