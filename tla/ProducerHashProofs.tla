-------------------------- MODULE ProducerHashProofs --------------------------
(***************************************************************************)
(* Proofs about ProducerHash, for any threads, any thread ids and any size *)
(* of the first table: no table is ever full, a thread has one producer,   *)
(* always the same, and the consumer finds it.                             *)
(***************************************************************************)
EXTENDS ProducerHash, FiniteSetTheorems, WellFoundedInduction, TLAPS

-----------------------------------------------------------------------------
\* Induction over the naturals, as facts about sets

LEMMA Least ==
  ASSUME NEW S \in SUBSET Nat, S # {}
  PROVE  \E x \in S : \A y \in S : x <= y
<1> DEFINE R == {ss \in Nat \X Nat : ss[1] < ss[2]}
<1>1. IsWellFoundedOn(R, Nat)  BY NatLessThanWellFounded DEF OpToRel
<1>2. PICK x \in S : \A y \in S : <<y, x>> \notin R
  <2> HIDE DEF R
  <2> QED  BY <1>1, WFMin
<1>3. ASSUME NEW y \in S PROVE x <= y
  <2>1. <<y, x>> \in Nat \X Nat /\ <<y, x>> \notin R  BY <1>2
  <2> QED  BY <2>1
<1> QED  BY <1>3

LEMMA Induction ==
  ASSUME NEW P \in SUBSET Nat, 0 \in P, \A n \in P : n + 1 \in P
  PROVE  P = Nat
<1> SUFFICES ASSUME Nat \ P # {} PROVE FALSE  OBVIOUS
<1>1. PICK x \in Nat \ P : \A y \in Nat \ P : x <= y  BY Least
<1>2. x - 1 \in Nat /\ x - 1 \notin Nat \ P  BY <1>1
<1> QED  BY <1>2

-----------------------------------------------------------------------------
\* The capacities that the loop of a resize goes through

\* Function f is what the loop computes in its first m rounds.
Rounds(f, m, n) ==
  f \in [0 .. m -> Nat] /\ \A i \in 0 .. m : f[i] = IF i = 0 THEN 2 * n ELSE 2 * f[i - 1]

LEMMA RoundsExist ==
  ASSUME NEW n \in Nat, NEW m \in Nat
  PROVE  \E f : Rounds(f, m, n)
<1> DEFINE P == {k \in Nat : \E f : Rounds(f, k, n)}
<1>1. 0 \in P
  <2>1. Rounds([i \in 0 .. 0 |-> 2 * n], 0, n)  BY DEF Rounds
  <2> QED  BY <2>1
<1>2. ASSUME NEW k \in P PROVE k + 1 \in P
  <2> PICK f : Rounds(f, k, n)  OBVIOUS
  <2> DEFINE g == [i \in 0 .. k + 1 |-> IF i = k + 1 THEN 2 * f[k] ELSE f[i]]
  <2>1. Rounds(g, k + 1, n)  BY DEF Rounds
  <2> QED  BY <2>1
<1> HIDE DEF P
<1>3. P = Nat  BY <1>1, <1>2, Induction DEF P
<1> QED  BY <1>3 DEF P

LEMMA RoundsAgree ==
  ASSUME NEW n \in Nat, NEW l \in Nat, NEW m \in Nat, NEW f, NEW g,
         Rounds(f, l, n), Rounds(g, m, n), NEW i \in 0 .. l, i <= m
  PROVE  f[i] = g[i]
<1> DEFINE S == {j \in Nat : j <= l /\ j <= m /\ f[j] # g[j]}
<1> SUFFICES ASSUME S # {} PROVE FALSE  OBVIOUS
<1>1. PICK x \in S : \A y \in S : x <= y  BY Least
<1>2. x # 0  BY <1>1 DEF Rounds
<1>3. x - 1 \in Nat /\ f[x - 1] = g[x - 1]  BY <1>1, <1>2
<1> QED  BY <1>1, <1>2, <1>3 DEF Rounds

LEMMA DoubledIs ==
  ASSUME NEW n \in Nat
  PROVE  \A i \in Nat : /\ Doubled(n)[i] \in Nat
                        /\ Doubled(n)[i] = IF i = 0 THEN 2 * n ELSE 2 * Doubled(n)[i - 1]
<1> DEFINE F(i) == CHOOSE f : Rounds(f, i, n)
           G == [i \in Nat |-> F(i)[i]]
           Is(c) == c = [i \in Nat |-> IF i = 0 THEN 2 * n ELSE 2 * c[i - 1]]
<1>1. \A i \in Nat : Rounds(F(i), i, n)  BY RoundsExist
<1>2. ASSUME NEW i \in Nat PROVE G[i] \in Nat /\ G[i] = IF i = 0 THEN 2 * n ELSE 2 * G[i - 1]
  <2>1. Rounds(F(i), i, n)  BY <1>1
  <2>2. F(i)[i] \in Nat /\ F(i)[i] = IF i = 0 THEN 2 * n ELSE 2 * F(i)[i - 1]
    <3> HIDE DEF F
    <3>1. i \in 0 .. i /\ (i # 0 => i - 1 \in 0 .. i)  OBVIOUS
    <3> QED  BY <2>1, <3>1 DEF Rounds
  <2>3. i # 0 => F(i)[i - 1] = F(i - 1)[i - 1]
    <3> HAVE i # 0
    <3>1. i - 1 \in Nat  OBVIOUS
    <3>2. Rounds(F(i - 1), i - 1, n)  BY <3>1, <1>1
    <3> HIDE DEF F
    <3> QED  BY <2>1, <3>1, <3>2, RoundsAgree
  <2> QED  BY <2>2, <2>3
<1>3. Is(G)
  <2> HIDE DEF F
  <2> QED  BY <1>2
<1>4. Doubled(n) = CHOOSE c : Is(c)  BY DEF Doubled
<1>5. Is(Doubled(n))
  <2> HIDE DEF Is, G
  <2> QED  BY <1>3, <1>4
<1> DEFINE D == Doubled(n)
<1>6. \A i \in Nat : D[i] = IF i = 0 THEN 2 * n ELSE 2 * D[i - 1]
  <2> HIDE DEF D
  <2> SUFFICES ASSUME Is(D) PROVE \A i \in Nat : D[i] = IF i = 0 THEN 2 * n ELSE 2 * D[i - 1]
    BY <1>5 DEF D
  <2> QED OBVIOUS
<1> DEFINE P == {i \in Nat : D[i] \in Nat}
<1>7. 0 \in P /\ \A i \in P : i + 1 \in P
  <2> HIDE DEF D
  <2> QED  BY <1>6
<1> HIDE DEF P
<1>8. P = Nat  BY <1>7, Induction DEF P
<1> QED  BY <1>6, <1>8 DEF P

LEMMA DoubledGrows ==
  ASSUME NEW n \in Nat \ {0}
  PROVE  \A i \in Nat : Doubled(n)[i] >= 2 * n + 2 * i
<1> DEFINE D == Doubled(n)
           P == {i \in Nat : D[i] >= 2 * n + 2 * i}
<1>1. \A i \in Nat : D[i] \in Nat /\ D[i] = IF i = 0 THEN 2 * n ELSE 2 * D[i - 1]  BY DoubledIs
<1>2. 0 \in P /\ \A i \in P : i + 1 \in P
  <2> HIDE DEF D
  <2>1. 0 \in P  BY <1>1
  <2>2. ASSUME NEW i \in P PROVE i + 1 \in P
    <3>1. D[i + 1] = 2 * D[i] /\ D[i] \in Nat  BY <1>1
    <3> QED  BY <3>1
  <2> QED  BY <2>1, <2>2
<1> HIDE DEF P
<1>3. P = Nat  BY <1>2, Induction DEF P
<1> QED  BY <1>3 DEF P

\* A new table is larger than the one before it.
LEMMA Larger ==
  ASSUME NEW t, newCount[t] \in Nat, NEW n \in Nat \ {0}
  PROVE  NewCapacity(t, n) \in Nat /\ NewCapacity(t, n) >= 2 * n
<1> DEFINE D == Doubled(n)
           c == newCount[t]
           S == {i \in 0 .. c : c < D[i] \div 2}
           stops(i) == c < D[i] \div 2 /\ \A j \in 0 .. i - 1 : ~(c < D[j] \div 2)
<1>1. \A i \in Nat : D[i] \in Nat /\ D[i] >= 2 * n + 2 * i  BY DoubledIs, DoubledGrows
<1>2. \E i \in 0 .. c : stops(i)
  <2> HIDE DEF D
  <2>1. c \in Nat /\ c \in 0 .. c /\ S \in SUBSET Nat  OBVIOUS
  <2>2. D[c] \in Nat /\ D[c] >= 2 * n + 2 * c  BY <1>1, <2>1
  <2>3. c \in S  BY <2>1, <2>2
  <2>4. PICK i \in S : \A y \in S : i <= y  BY <2>1, <2>3, Least
  <2> QED  BY <2>1, <2>4
<1>3. NewCapacity(t, n) = D[CHOOSE i \in 0 .. c : stops(i)]  BY DEF NewCapacity
<1>4. PICK i \in 0 .. c : NewCapacity(t, n) = D[i]
  <2> HIDE DEF D, stops
  <2> QED  BY <1>2, <1>3
<1>5. i \in Nat  OBVIOUS
<1> HIDE DEF D
<1> QED  BY <1>1, <1>4, <1>5
-----------------------------------------------------------------------------
\* What the state of a thread means

\* Threads that are counted and in no table yet.
Counting(t) == pc[t] \in {"loop", "resize", "unlock", "fit", "link", "insert"}
Known(t) == \E k \in DOMAIN hashes : t \in Keys(k)

\* Less than this is what newCount must be for a thread to add itself.
LimitOf(c) == c \div 2 + c \div 4
Limit(k) == LimitOf(Capacity(k))

\* How far slot i of a table of c slots is from slot h, where a search begins.
From(h, c, i) == IF i >= h THEN i - h ELSE i - h + c
Distance(t, k, i) == From(hash_thread_id[t] % Capacity(k), Capacity(k), i)

\* Producer p was linked into the list.
Linking(t, p) == pc[t] = "link" /\ producer[t] = p
Linked(p) == p \in DOMAIN producers /\ \A t \in Thread : ~Linking(t, p)

-----------------------------------------------------------------------------
\* The inductive invariant

Slot == [key : Thread \union {invalid}, value : Nat \union {invalid}]
Tables == UNION {[0 .. n - 1 -> Slot] : n \in Nat \ {0, 1}}

Types ==
  /\ hashes \in Seq(Tables) /\ hashes # <<>>
  /\ resizeInProgress \in BOOLEAN
  /\ producers \in Seq(Thread) /\ nextProducer \in Seq(Nat)
  /\ Len(nextProducer) = Len(producers)
  /\ producerListTail \in Nat
  /\ pc \in [Thread -> {"idle", "probe", "readd", "count", "loop", "resize", "giveup",
                        "unlock", "fit", "link", "insert"}]
  /\ mainHash \in [Thread -> Nat] /\ hash \in [Thread -> Nat] /\ index \in [Thread -> Nat]
  /\ newCount \in [Thread -> Nat] /\ producer \in [Thread -> Nat]
  /\ prevTail \in [Thread -> Nat] /\ result \in [Thread -> Nat]

\* The locals of a thread: it is in no table that it has searched, its new
\* producer is its own and will be in front of the one that it read.
LocalsAt(t) ==
  /\ mainHash[t] \in 0 .. Len(hashes) /\ hash[t] \in 0 .. mainHash[t]
  /\ pc[t] # "idle" => mainHash[t] # 0
  /\ pc[t] \in {"probe", "readd"} =>
       hash[t] # 0 /\ \A k \in DOMAIN hashes : k > hash[t] => t \notin Keys(k)
  /\ pc[t] = "readd" => t \in Keys(hash[t]) /\ hash[t] # mainHash[t]
  /\ pc[t] = "count" \/ Counting(t) => ~Known(t) /\ hash[t] = 0
  /\ pc[t] \in {"link", "insert"} =>
       /\ producer[t] \in DOMAIN producers /\ producers[producer[t]] = t
       /\ newCount[t] < Limit(mainHash[t])
  /\ pc[t] = "link" => nextProducer[producer[t]] = prevTail[t]
Locals == \A t \in Thread : LocalsAt(t)

\* A thread is in a table once, with a producer of its own, the same in each.
Owned == \A k \in DOMAIN hashes : \A i \in DOMAIN hashes[k] :
  \/ hashes[k][i] = [key |-> invalid, value |-> invalid]
  \/ /\ hashes[k][i].key \in Thread
     /\ hashes[k][i].value \in DOMAIN producers
     /\ producers[hashes[k][i].value] = hashes[k][i].key
Once == \A k \in DOMAIN hashes : \A i, j \in DOMAIN hashes[k] :
  hashes[k][i].key = hashes[k][j].key => i = j \/ hashes[k][i].key = invalid
Agreed == \A k, l \in DOMAIN hashes : \A i \in DOMAIN hashes[k], j \in DOMAIN hashes[l] :
  hashes[k][i].key = hashes[l][j].key => hashes[k][i].value = hashes[l][j].value

\* What a call returned is in a table.
Holds(t, p) == \E k \in DOMAIN hashes : \E i \in DOMAIN hashes[k] :
  hashes[k][i] = [key |-> t, value |-> p]
Results == \A t \in Thread : result[t] # 0 => Holds(t, result[t])

\* A search that comes to an empty slot has not missed anything.
Paths == \A k \in DOMAIN hashes : \A i, j \in DOMAIN hashes[k] :
  hashes[k][i].key # invalid /\ Distance(hashes[k][i].key, k, j) < Distance(hashes[k][i].key, k, i)
    => hashes[k][j].key # invalid

\* The slots of table k that t has passed over.
Scanned(t, k) == {j \in DOMAIN hashes[k] : Distance(t, k, j) < Distance(t, k, At(t, k))}
ScansAt(t) ==
  /\ pc[t] = "probe" => \A j \in Scanned(t, hash[t]) : hashes[hash[t]][j].key \notin {t, invalid}
  /\ pc[t] \in {"readd", "insert"} =>
       \A j \in Scanned(t, mainHash[t]) : hashes[mainHash[t]][j].key # invalid
Scans == \A t \in Thread : ScansAt(t)

\* The counter, and the tickets it gave out: there are never more than n
\* threads with one up to n.  That of a thread in a table was below its limit.
Counted == {t \in Thread : Known(t) \/ Counting(t)}
HasUpTo(t, n) == \/ Counting(t) /\ newCount[t] <= n
                 \/ \E k \in DOMAIN hashes : t \in Keys(k) /\ Limit(k) <= n + 1
UpTo(n) == {t \in Thread : HasUpTo(t, n)}
Tickets ==
  /\ count = Cardinality(Counted)
  /\ \A n \in Nat : Cardinality(UpTo(n)) <= n
Growing == \A k, l \in DOMAIN hashes : k <= l => Capacity(k) <= Capacity(l)

\* The list that the consumer walks.
Closed(S) ==
  /\ producerListTail \in S \union {0}
  /\ \A p \in S : Linked(p) => nextProducer[p] \in S \union {0}
List ==
  /\ producerListTail # 0 => Linked(producerListTail)
  /\ \A p \in DOMAIN producers : Linked(p) /\ nextProducer[p] # 0 => Linked(nextProducer[p])
  /\ \A S \in SUBSET DOMAIN producers : Closed(S) =>
       \A p \in DOMAIN producers : Linked(p) => p \in S

Inv ==
  /\ Types /\ Locals /\ Owned /\ Once /\ Agreed /\ Results
  /\ Paths /\ Scans /\ Tickets /\ Growing /\ List

-----------------------------------------------------------------------------
\* Slots and tables

\* Going once around a table, slot by slot.
LEMMA Around ==
  ASSUME NEW c \in Nat \ {0}, NEW h \in 0 .. c - 1, NEW i \in 0 .. c - 1
  PROVE  /\ From(h, c, i) \in 0 .. c - 1
         /\ From(h, c, h) = 0
         /\ \A j \in 0 .. c - 1 : From(h, c, i) = From(h, c, j) => i = j
         /\ (i + 1) % c \in 0 .. c - 1
         /\ From(h, c, (i + 1) % c) \in {0, From(h, c, i) + 1}
<1>1. (i + 1) % c = IF i + 1 = c THEN 0 ELSE i + 1
  <2>1. CASE i + 1 = c  BY <2>1
  <2>2. CASE i + 1 < c  BY <2>2
  <2> QED  BY <2>1, <2>2
<1> QED  BY <1>1 DEF From

LEMMA Remainder == ASSUME NEW c \in Nat \ {0}, NEW n \in Nat PROVE n % c \in 0 .. c - 1
  OBVIOUS

LEMMA Limits ==
  ASSUME NEW c \in Nat \ {0, 1}
  PROVE  /\ LimitOf(c) \in Nat \ {0} /\ LimitOf(c) <= c
         /\ \A d \in Nat : c <= d => LimitOf(d) \in Nat /\ LimitOf(c) <= LimitOf(d)
  BY DEF LimitOf

LEMMA TableIs ==
  ASSUME NEW T \in Tables
  PROVE  /\ Cardinality(DOMAIN T) \in Nat \ {0, 1}
         /\ DOMAIN T = 0 .. Cardinality(DOMAIN T) - 1
         /\ \A i \in DOMAIN T : T[i] \in Slot
<1> PICK n \in Nat \ {0, 1} : T \in [0 .. n - 1 -> Slot]  BY DEF Tables
<1>1. Cardinality(0 .. n - 1) = n  BY FS_Interval
<1> QED  BY <1>1

LEMMA EmptyIs ==
  ASSUME NEW n \in Nat \ {0, 1}
  PROVE  /\ EmptyTable(n) \in Tables
         /\ DOMAIN EmptyTable(n) = 0 .. n - 1 /\ Cardinality(DOMAIN EmptyTable(n)) = n
         /\ \A i \in DOMAIN EmptyTable(n) : EmptyTable(n)[i] = [key |-> invalid, value |-> invalid]
<1>1. Cardinality(0 .. n - 1) = n  BY FS_Interval
<1>2. [key |-> invalid, value |-> invalid] \in Slot  BY DEF Slot
<1>3. EmptyTable(n) \in [0 .. n - 1 -> Slot]  BY <1>2 DEF EmptyTable
<1>4. EmptyTable(n) \in Tables  BY <1>3 DEF Tables
<1> QED  BY <1>1, <1>4 DEF EmptyTable

\* Table k, its slots and where the search for t begins in it.
LEMMA HashIs ==
  ASSUME Types, NEW k \in DOMAIN hashes
  PROVE  /\ hashes[k] \in Tables
         /\ Capacity(k) \in Nat \ {0, 1} /\ DOMAIN hashes[k] = 0 .. Capacity(k) - 1
         /\ \A i \in DOMAIN hashes[k] : hashes[k][i] \in Slot
         /\ \A t \in Thread : /\ hash_thread_id[t] % Capacity(k) \in DOMAIN hashes[k]
                              /\ At(t, k) \in DOMAIN hashes[k]
<1>1. hashes[k] \in Tables  BY DEF Types
<1>2. /\ Capacity(k) \in Nat \ {0, 1} /\ DOMAIN hashes[k] = 0 .. Capacity(k) - 1
      /\ \A i \in DOMAIN hashes[k] : hashes[k][i] \in Slot
  BY <1>1, TableIs DEF Capacity
<1>3. ASSUME NEW t \in Thread
      PROVE  hash_thread_id[t] % Capacity(k) \in 0 .. Capacity(k) - 1 /\ At(t, k) \in 0 .. Capacity(k) - 1
  <2>1. hash_thread_id[t] \in Nat /\ index[t] \in Nat  BY HashAssumption DEF Types
  <2> QED  BY <1>2, <2>1, Remainder DEF At
<1> QED  BY <1>1, <1>2, <1>3

LEMMA DistanceIs ==
  ASSUME Types, NEW k \in DOMAIN hashes, NEW t \in Thread, NEW i \in DOMAIN hashes[k]
  PROVE  /\ Distance(t, k, i) \in Nat
         /\ \A j \in DOMAIN hashes[k] : Distance(t, k, i) = Distance(t, k, j) => i = j
         /\ (i + 1) % Capacity(k) \in DOMAIN hashes[k]
         /\ Distance(t, k, (i + 1) % Capacity(k)) \in {0, Distance(t, k, i) + 1}
         /\ i = hash_thread_id[t] % Capacity(k) => Distance(t, k, i) = 0
<1> DEFINE c == Capacity(k)
           h == hash_thread_id[t] % Capacity(k)
<1>1. c \in Nat \ {0} /\ h \in 0 .. c - 1 /\ DOMAIN hashes[k] = 0 .. c - 1  BY HashIs
<1> HIDE DEF c, h
<1>2. \A j : Distance(t, k, j) = From(h, c, j)  BY DEF Distance, c, h
<1>3. /\ From(h, c, i) \in 0 .. c - 1
      /\ From(h, c, h) = 0
      /\ \A j \in 0 .. c - 1 : From(h, c, i) = From(h, c, j) => i = j
      /\ (i + 1) % c \in 0 .. c - 1
      /\ From(h, c, (i + 1) % c) \in {0, From(h, c, i) + 1}
  BY <1>1, Around
<1>4. /\ Distance(t, k, i) \in Nat
      /\ \A j \in DOMAIN hashes[k] : Distance(t, k, i) = Distance(t, k, j) => i = j
      /\ (i + 1) % c \in DOMAIN hashes[k]
      /\ Distance(t, k, (i + 1) % c) \in {0, Distance(t, k, i) + 1}
      /\ i = h => Distance(t, k, i) = 0
  BY <1>1, <1>2, <1>3
<1> QED  BY <1>4, Zenon DEF c, h

-----------------------------------------------------------------------------
\* How the tables change: not, by one entry, by one more table

\* What is in a table stays where it is; t is in no other table than before.
Kept ==
  /\ DOMAIN hashes \subseteq DOMAIN hashes'
  /\ \A k \in DOMAIN hashes :
       /\ DOMAIN hashes'[k] = DOMAIN hashes[k]
       /\ \A i \in DOMAIN hashes[k] : hashes[k][i].key # invalid => hashes'[k][i] = hashes[k][i]
KeysStay(t) == \A k \in DOMAIN hashes' : t \in Keys(k)' <=> k \in DOMAIN hashes /\ t \in Keys(k)

\* The empty slot a of table m gets an entry.
Adds(m, a, entry) ==
  /\ m \in DOMAIN hashes /\ a \in DOMAIN hashes[m] /\ hashes[m][a].key = invalid
  /\ DOMAIN hashes' = DOMAIN hashes
  /\ \A k \in DOMAIN hashes :
       /\ DOMAIN hashes'[k] = DOMAIN hashes[k]
       /\ \A i \in DOMAIN hashes[k] :
            hashes'[k][i] = IF k = m /\ i = a THEN entry ELSE hashes[k][i]

Grows(n) ==
  /\ DOMAIN hashes' = DOMAIN hashes \union {Len(hashes) + 1}
  /\ \A k \in DOMAIN hashes : hashes'[k] = hashes[k]
  /\ Len(hashes) + 1 \notin DOMAIN hashes
  /\ hashes'[Len(hashes) + 1] = EmptyTable(n)

LEMMA TablesStay ==
  ASSUME UNCHANGED hashes
  PROVE  Kept /\ \A t : KeysStay(t)
  BY DEF Kept, KeysStay, Keys

LEMMA ClaimAdds ==
  ASSUME Types, NEW t \in Thread, mainHash[t] \in DOMAIN hashes, NEW p \in Nat, Claim(t, p)
  PROVE  /\ Adds(mainHash[t], At(t, mainHash[t]), [key |-> t, value |-> p])
         /\ hashes' \in Seq(Tables) /\ Len(hashes') = Len(hashes)
<1> DEFINE m == mainHash[t]
           a == At(t, m)
           e == [key |-> t, value |-> p]
<1>1. hashes[m] \in Tables /\ a \in DOMAIN hashes[m]  BY HashIs
<1>2. e \in Slot  BY DEF Slot
<1> HIDE DEF m, a, e
<1>3. hashes' = [hashes EXCEPT ![m] = [hashes[m] EXCEPT ![a] = e]]  BY DEF Claim, m, a, e
<1>4. [hashes[m] EXCEPT ![a] = e] \in Tables
  <2> PICK n \in Nat \ {0, 1} : hashes[m] \in [0 .. n - 1 -> Slot]  BY <1>1 DEF Tables
  <2>1. [hashes[m] EXCEPT ![a] = e] \in [0 .. n - 1 -> Slot]  BY <1>1, <1>2
  <2> QED  BY <2>1 DEF Tables
<1>5. hashes \in Seq(Tables) /\ m \in DOMAIN hashes  BY DEF Types, m
<1>6. hashes' \in Seq(Tables) /\ Len(hashes') = Len(hashes) /\ DOMAIN hashes' = DOMAIN hashes
  BY <1>3, <1>4, <1>5
<1>7. \A k \in DOMAIN hashes : \A i \in DOMAIN hashes[k] :
        hashes'[k][i] = IF k = m /\ i = a THEN e ELSE hashes[k][i]
  BY <1>1, <1>3, <1>5
<1>8. \A k \in DOMAIN hashes : DOMAIN hashes'[k] = DOMAIN hashes[k]  BY <1>3, <1>5
<1>9. hashes[m][a].key = invalid  BY DEF Claim, m, a
<1>10. Adds(m, a, e)  BY <1>1, <1>5, <1>6, <1>7, <1>8, <1>9 DEF Adds
<1> QED  BY <1>6, <1>10 DEF m, a, e

LEMMA AddsKeys ==
  ASSUME NEW t \in Thread, NEW p, NEW m, NEW a, Adds(m, a, [key |-> t, value |-> p])
  PROVE  /\ Kept
         /\ \A u \in Thread : u # t => KeysStay(u)
         /\ \A k \in DOMAIN hashes : t \in Keys(k)' <=> t \in Keys(k) \/ k = m
         /\ \A k \in DOMAIN hashes : Capacity(k)' = Capacity(k)
<1>1. Kept  BY DEF Adds, Kept
<1>2. ASSUME NEW u \in Thread, NEW k \in DOMAIN hashes
      PROVE  u \in Keys(k)' <=> u \in Keys(k) \/ (u = t /\ k = m)
  <2>1. u \in Keys(k) <=> \E i \in DOMAIN hashes[k] : hashes[k][i].key = u
    BY HashAssumption DEF Keys
  <2>2. u \in Keys(k)' <=> \E i \in DOMAIN hashes'[k] : hashes'[k][i].key = u
    BY HashAssumption DEF Keys
  <2>3. [key |-> t, value |-> p].key = t  OBVIOUS
  <2>4. hashes[m][a].key # u  BY HashAssumption DEF Adds
  <2> QED  BY <2>1, <2>2, <2>3, <2>4 DEF Adds
<1>3. \A k \in DOMAIN hashes : Capacity(k)' = Capacity(k)  BY DEF Adds, Capacity
<1> QED  BY <1>1, <1>2, <1>3 DEF KeysStay, Adds

LEMMA GrowsKeys ==
  ASSUME NEW n \in Nat \ {0, 1}, Grows(n), NEW l, l = Len(hashes) + 1
  PROVE  /\ Kept
         /\ \A u \in Thread : KeysStay(u)
         /\ \A k \in DOMAIN hashes : Capacity(k)' = Capacity(k)
         /\ Capacity(l)' = n
<1>1. Kept  BY DEF Grows, Kept
<1>2. hashes'[l] = EmptyTable(n) /\ DOMAIN hashes' = DOMAIN hashes \union {l} /\ l \notin DOMAIN hashes
  BY DEF Grows
<1>3. ASSUME NEW u \in Thread PROVE KeysStay(u)
  <2>1. ASSUME NEW k \in DOMAIN hashes PROVE u \in Keys(k)' <=> u \in Keys(k)
    <3>1. hashes'[k] = hashes[k]  BY DEF Grows
    <3> QED  BY <3>1 DEF Keys
  <2>2. u \notin Keys(l)'
    <3>1. \A i \in DOMAIN hashes'[l] : hashes'[l][i].key = invalid  BY <1>2, EmptyIs
    <3>2. Keys(l)' = {hashes'[l][i].key : i \in DOMAIN hashes'[l]} \ {invalid}  BY DEF Keys
    <3> QED  BY <3>1, <3>2
  <2> QED  BY <1>2, <2>1, <2>2 DEF KeysStay
<1>4. \A k \in DOMAIN hashes : Capacity(k)' = Capacity(k)  BY DEF Grows, Capacity
<1>5. Capacity(l)' = n
  <2>1. Cardinality(DOMAIN EmptyTable(n)) = n  BY EmptyIs
  <2> QED  BY <1>2, <2>1 DEF Capacity
<1> QED  BY <1>1, <1>3, <1>4, <1>5

\* Kept means that the capacities stay, too.
LEMMA KeptIs ==
  ASSUME Kept, NEW k \in DOMAIN hashes
  PROVE  /\ k \in DOMAIN hashes' /\ Capacity(k)' = Capacity(k) /\ Limit(k)' = Limit(k)
         /\ \A t, i : Distance(t, k, i)' = Distance(t, k, i)
  BY DEF Kept, Capacity, Limit, Distance

-----------------------------------------------------------------------------
\* What that does to each part of the invariant

ProducersKept == \A p \in DOMAIN producers : p \in DOMAIN producers' /\ producers'[p] = producers[p]

LEMMA Remembered ==
  ASSUME Kept, NEW t \in Thread, NEW p, Holds(t, p)
  PROVE  Holds(t, p)'
<1> PICK k \in DOMAIN hashes : \E i \in DOMAIN hashes[k] : hashes[k][i] = [key |-> t, value |-> p]
  BY DEF Holds
<1> PICK i \in DOMAIN hashes[k] : hashes[k][i] = [key |-> t, value |-> p]  OBVIOUS
<1>1. hashes[k][i].key # invalid  BY HashAssumption
<1>2. k \in DOMAIN hashes' /\ i \in DOMAIN hashes'[k] /\ hashes'[k][i] = [key |-> t, value |-> p]
  BY <1>1 DEF Kept
<1> QED  BY <1>2 DEF Holds

LEMMA StayTables ==
  ASSUME Owned, Once, Agreed, Paths, Growing, UNCHANGED hashes, ProducersKept
  PROVE  Owned' /\ Once' /\ Agreed' /\ Paths' /\ Growing'
<1>1. Owned'  BY DEF Owned, ProducersKept
<1>2. Once' /\ Agreed' /\ Growing'  BY DEF Once, Agreed, Growing, Capacity
<1>3. Paths'  BY DEF Paths, Distance, Capacity
<1> QED  BY <1>1, <1>2, <1>3

LEMMA GrowTables ==
  ASSUME Types, Owned, Once, Agreed, Paths, Growing, UNCHANGED producers,
         NEW n \in Nat \ {0, 1}, Grows(n), \A k \in DOMAIN hashes : Capacity(k) <= n
  PROVE  Owned' /\ Once' /\ Agreed' /\ Paths' /\ Growing'
<1> PICK l : l = Len(hashes) + 1  OBVIOUS
<1>1. /\ DOMAIN hashes' = DOMAIN hashes \union {l} /\ l \notin DOMAIN hashes
      /\ \A k \in DOMAIN hashes : hashes'[k] = hashes[k]
      /\ hashes'[l] = EmptyTable(n)
      /\ \A k \in DOMAIN hashes : k < l
  BY DEF Grows, Types
<1>2. \A i \in DOMAIN EmptyTable(n) : EmptyTable(n)[i] = [key |-> invalid, value |-> invalid]
  BY EmptyIs
<1>3. \A k \in DOMAIN hashes : Capacity(k)' = Capacity(k)  BY GrowsKeys
<1>4. Capacity(l)' = n  BY GrowsKeys
<1>5. \A i \in DOMAIN hashes'[l] : hashes'[l][i] = [key |-> invalid, value |-> invalid]  BY <1>1, <1>2
<1>6. Owned'  BY <1>1, <1>5 DEF Owned
<1>7. Once'
  <2> SUFFICES ASSUME NEW k \in DOMAIN hashes', NEW i \in DOMAIN hashes'[k], NEW j \in DOMAIN hashes'[k],
                      hashes'[k][i].key = hashes'[k][j].key, hashes'[k][i].key # invalid
               PROVE  i = j
    BY DEF Once
  <2>1. k # l  BY <1>5
  <2> QED  BY <1>1, <2>1 DEF Once
<1>8. Agreed'
  <2> SUFFICES ASSUME NEW k \in DOMAIN hashes', NEW m \in DOMAIN hashes',
                      NEW i \in DOMAIN hashes'[k], NEW j \in DOMAIN hashes'[m],
                      hashes'[k][i].key = hashes'[m][j].key
               PROVE  hashes'[k][i].value = hashes'[m][j].value
    BY DEF Agreed
  <2>1. CASE hashes'[k][i].key = invalid
    <3>1. ASSUME NEW x \in DOMAIN hashes', NEW y \in DOMAIN hashes'[x], hashes'[x][y].key = invalid
          PROVE  hashes'[x][y] = [key |-> invalid, value |-> invalid]
      <4>1. hashes'[x][y].key \notin Thread  BY <3>1, HashAssumption
      <4> QED  BY <1>6, <4>1 DEF Owned
    <3> QED  BY <2>1, <3>1
  <2>2. CASE hashes'[k][i].key # invalid
    <3>1. k # l /\ m # l  BY <1>5, <2>2
    <3> QED  BY <1>1, <3>1 DEF Agreed
  <2> QED  BY <2>1, <2>2
<1>9. Paths'
  <2> SUFFICES ASSUME NEW k \in DOMAIN hashes', NEW i \in DOMAIN hashes'[k], NEW j \in DOMAIN hashes'[k],
                      hashes'[k][i].key # invalid,
                      Distance(hashes[k][i].key, k, j)' < Distance(hashes[k][i].key, k, i)'
               PROVE  hashes'[k][j].key # invalid
    BY DEF Paths
  <2>1. k # l  BY <1>5
  <2>2. k \in DOMAIN hashes /\ hashes'[k] = hashes[k]  BY <1>1, <2>1
  <2>3. \A x, y : Distance(x, k, y)' = Distance(x, k, y)  BY <2>2, <1>3 DEF Distance
  <2> QED  BY <2>2, <2>3 DEF Paths
<1>10. Growing'
  <2> SUFFICES ASSUME NEW k \in DOMAIN hashes', NEW m \in DOMAIN hashes', k <= m
               PROVE  Capacity(k)' <= Capacity(m)'
    BY DEF Growing
  <2>1. l \in Nat /\ DOMAIN hashes \subseteq Nat  BY DEF Types
  <2>2. CASE m = l  BY <1>1, <1>3, <1>4, <2>2
  <2>3. CASE m # l  BY <1>1, <1>3, <2>1, <2>3 DEF Growing
  <2> QED  BY <2>2, <2>3
<1> QED  BY <1>6, <1>7, <1>8, <1>9, <1>10

LEMMA AddTables ==
  ASSUME Types, Owned, Once, Agreed, Paths, Growing, UNCHANGED producers,
         NEW t \in Thread, NEW p \in DOMAIN producers, producers[p] = t,
         NEW m, NEW a, Adds(m, a, [key |-> t, value |-> p]),
         t \notin Keys(m),
         \A k \in DOMAIN hashes : \A i \in DOMAIN hashes[k] :
           hashes[k][i].key = t => hashes[k][i].value = p,
         \A j \in DOMAIN hashes[m] :
           Distance(t, m, j) < Distance(t, m, a) => hashes[m][j].key # invalid
  PROVE  Owned' /\ Once' /\ Agreed' /\ Paths' /\ Growing'
<1> DEFINE e == [key |-> t, value |-> p]
<1>1. e.key = t /\ e.value = p /\ t # invalid  BY HashAssumption
<1>2. /\ DOMAIN hashes' = DOMAIN hashes
      /\ \A k \in DOMAIN hashes : DOMAIN hashes'[k] = DOMAIN hashes[k]
      /\ \A k \in DOMAIN hashes : \A i \in DOMAIN hashes[k] :
           hashes'[k][i] = IF k = m /\ i = a THEN e ELSE hashes[k][i]
      /\ m \in DOMAIN hashes /\ a \in DOMAIN hashes[m] /\ hashes[m][a].key = invalid
  BY DEF Adds
<1>3. \A i \in DOMAIN hashes[m] : hashes[m][i].key # t  BY <1>1 DEF Keys
<1>4. \A k \in DOMAIN hashes : Capacity(k)' = Capacity(k)  BY <1>2 DEF Capacity
<1> HIDE DEF e
<1>5. Owned'
  <2> SUFFICES ASSUME NEW k \in DOMAIN hashes, NEW i \in DOMAIN hashes[k]
               PROVE  \/ hashes'[k][i] = [key |-> invalid, value |-> invalid]
                      \/ /\ hashes'[k][i].key \in Thread
                         /\ hashes'[k][i].value \in DOMAIN producers
                         /\ producers[hashes'[k][i].value] = hashes'[k][i].key
    BY <1>2 DEF Owned
  <2> QED  BY <1>1, <1>2 DEF Owned
<1>6. Once'
  <2> SUFFICES ASSUME NEW k \in DOMAIN hashes, NEW i \in DOMAIN hashes[k], NEW j \in DOMAIN hashes[k],
                      hashes'[k][i].key = hashes'[k][j].key, hashes'[k][i].key # invalid
               PROVE  i = j
    BY <1>2 DEF Once
  <2> QED  BY <1>1, <1>2, <1>3 DEF Once
<1>7. Agreed'
  <2> SUFFICES ASSUME NEW k \in DOMAIN hashes, NEW l \in DOMAIN hashes,
                      NEW i \in DOMAIN hashes[k], NEW j \in DOMAIN hashes[l],
                      hashes'[k][i].key = hashes'[l][j].key
               PROVE  hashes'[k][i].value = hashes'[l][j].value
    BY <1>2 DEF Agreed
  <2> QED  BY <1>1, <1>2 DEF Agreed
<1>8. Paths'
  <2> SUFFICES ASSUME NEW k \in DOMAIN hashes, NEW i \in DOMAIN hashes[k], NEW j \in DOMAIN hashes[k],
                      hashes'[k][i].key # invalid,
                      Distance(hashes[k][i].key, k, j)' < Distance(hashes[k][i].key, k, i)'
               PROVE  hashes'[k][j].key # invalid
    BY <1>2 DEF Paths
  <2>1. \A x, y : Distance(x, k, y)' = Distance(x, k, y)  BY <1>4 DEF Distance
  <2>2. CASE k = m /\ i = a  BY <1>1, <1>2, <2>1, <2>2
  <2>3. CASE ~(k = m /\ i = a)
    <3>1. hashes'[k][i] = hashes[k][i]  BY <1>2, <2>3
    <3>2. hashes[k][j].key # invalid  BY <2>1, <3>1 DEF Paths
    <3> QED  BY <1>1, <1>2, <3>2
  <2> QED  BY <2>2, <2>3
<1>9. Growing'  BY <1>2, <1>4 DEF Growing
<1> QED  BY <1>5, <1>6, <1>7, <1>8, <1>9

\* A step of another thread.
Stays(u) ==
  /\ pc'[u] = pc[u] /\ mainHash'[u] = mainHash[u] /\ hash'[u] = hash[u] /\ index'[u] = index[u]
  /\ newCount'[u] = newCount[u] /\ producer'[u] = producer[u] /\ prevTail'[u] = prevTail[u]
  /\ result'[u] = result[u]

LEMMA KnownStays ==
  ASSUME Kept, NEW u \in Thread, KeysStay(u)
  PROVE  Known(u)' <=> Known(u)
  BY DEF Kept, KeysStay, Known

LEMMA OfTables ==
  ASSUME Types, NEW u \in Thread, LocalsAt(u)
  PROVE  /\ hash[u] # 0 => hash[u] \in DOMAIN hashes
         /\ pc[u] # "idle" => mainHash[u] \in DOMAIN hashes
         /\ Len(hashes) \in DOMAIN hashes
<1>1. hashes \in Seq(Tables) /\ hashes # <<>> /\ mainHash[u] \in Nat /\ hash[u] \in Nat
  BY DEF Types
<1>2. Len(hashes) \in Nat \ {0} /\ DOMAIN hashes = 1 .. Len(hashes)  BY <1>1
<1> QED  BY <1>1, <1>2 DEF LocalsAt

LEMMA StayLocals ==
  ASSUME Types, Types', NEW u \in Thread, LocalsAt(u), Stays(u), Kept, KeysStay(u),
         ProducersKept, pc[u] = "link" => nextProducer'[producer[u]] = nextProducer[producer[u]]
  PROVE  LocalsAt(u)'
<1>1. Len(hashes) <= Len(hashes') /\ Len(hashes) \in Nat /\ Len(hashes') \in Nat
  <2>1. Len(hashes) \in DOMAIN hashes'  BY OfTables DEF Kept
  <2> QED  BY <2>1, SMTT(25) DEF Types
<1>2. mainHash'[u] \in 0 .. Len(hashes') /\ hash'[u] \in 0 .. mainHash'[u]
  BY <1>1 DEF LocalsAt, Stays
<1>3. pc'[u] # "idle" => mainHash'[u] # 0  BY DEF LocalsAt, Stays
<1>4. pc'[u] \in {"probe", "readd"} =>
        hash'[u] # 0 /\ \A k \in DOMAIN hashes' : k > hash'[u] => u \notin Keys(k)'
  BY DEF LocalsAt, Stays, KeysStay
<1>5. pc'[u] = "readd" => u \in Keys(hash[u])' /\ hash'[u] # mainHash'[u]
  <2> SUFFICES ASSUME pc[u] = "readd" PROVE u \in Keys(hash[u])' /\ hash'[u] # mainHash'[u]
    BY DEF Stays
  <2> PICK k : k = hash[u]  OBVIOUS
  <2>1. hash'[u] = k  BY DEF Stays
  <2>2. k \in DOMAIN hashes  BY OfTables DEF LocalsAt
  <2>3. u \in Keys(k)'  BY <2>2 DEF LocalsAt, KeysStay, Kept
  <2> QED  BY <2>1, <2>3 DEF LocalsAt, Stays
<1>6. (pc[u] = "count" \/ Counting(u))' => ~Known(u)' /\ hash'[u] = 0
  BY KnownStays DEF LocalsAt, Stays, Counting
<1>7. pc'[u] \in {"link", "insert"} =>
        /\ producer'[u] \in DOMAIN producers' /\ producers'[producer'[u]] = u
        /\ newCount'[u] < Limit(mainHash[u])'
  <2> SUFFICES ASSUME pc[u] \in {"link", "insert"}
               PROVE  /\ producer[u] \in DOMAIN producers' /\ producers'[producer[u]] = u
                      /\ newCount[u] < Limit(mainHash[u])'
    BY DEF Stays
  <2> PICK k : k = mainHash[u]  OBVIOUS
  <2>1. mainHash'[u] = k  BY DEF Stays
  <2>2. k \in DOMAIN hashes  BY OfTables DEF LocalsAt
  <2>3. Limit(k)' = Limit(k)  BY <2>2, KeptIs
  <2> QED  BY <2>1, <2>3 DEF LocalsAt, ProducersKept
<1>8. pc'[u] = "link" => nextProducer'[producer'[u]] = prevTail'[u]  BY DEF LocalsAt, Stays
<1> QED  BY <1>2, <1>3, <1>4, <1>5, <1>6, <1>7, <1>8 DEF LocalsAt

\* What t has passed over in a table, as long as it does not move.
LEMMA StayScanned ==
  ASSUME Types, Kept, NEW u \in Thread, index'[u] = index[u], NEW k \in DOMAIN hashes
  PROVE  Scanned(u, k)' = Scanned(u, k)
<1>1. DOMAIN hashes'[k] = DOMAIN hashes[k]  BY DEF Kept
<1>2. Capacity(k)' = Capacity(k) /\ \A i : Distance(u, k, i)' = Distance(u, k, i)  BY KeptIs
<1>3. At(u, k)' = At(u, k)  BY <1>2 DEF At
<1>4. Distance(u, k, At(u, k))' = Distance(u, k, At(u, k))  BY <1>2, <1>3 DEF Distance
<1> QED  BY <1>1, <1>2, <1>4 DEF Scanned

LEMMA StayScans ==
  ASSUME Types, NEW u \in Thread, LocalsAt(u), ScansAt(u), Stays(u), Kept
  PROVE  ScansAt(u)'
<1>1. pc'[u] = "probe" => \A j \in Scanned(u, hash[u])' : hashes'[hash'[u]][j].key \notin {u, invalid}
  <2> SUFFICES ASSUME pc[u] = "probe"
               PROVE  \A j \in Scanned(u, hash[u])' : hashes'[hash'[u]][j].key \notin {u, invalid}
    BY DEF Stays
  <2> PICK k : k = hash[u]  OBVIOUS
  <2>1. hash'[u] = k  BY DEF Stays
  <2>2. k \in DOMAIN hashes  BY OfTables DEF LocalsAt
  <2>3. Scanned(u, k)' = Scanned(u, k)  BY <2>2, StayScanned DEF Stays
  <2>4. Scanned(u, k) \subseteq DOMAIN hashes[k]  BY DEF Scanned
  <2> QED  BY <2>1, <2>2, <2>3, <2>4 DEF ScansAt, Kept
<1>2. pc'[u] \in {"readd", "insert"} =>
        \A j \in Scanned(u, mainHash[u])' : hashes'[mainHash'[u]][j].key # invalid
  <2> SUFFICES ASSUME pc[u] \in {"readd", "insert"}
               PROVE  \A j \in Scanned(u, mainHash[u])' : hashes'[mainHash'[u]][j].key # invalid
    BY DEF Stays
  <2> PICK k : k = mainHash[u]  OBVIOUS
  <2>1. mainHash'[u] = k  BY DEF Stays
  <2>2. k \in DOMAIN hashes  BY OfTables DEF LocalsAt
  <2>3. Scanned(u, k)' = Scanned(u, k)  BY <2>2, StayScanned DEF Stays
  <2>4. Scanned(u, k) \subseteq DOMAIN hashes[k]  BY DEF Scanned
  <2> QED  BY <2>1, <2>2, <2>3, <2>4 DEF ScansAt, Kept
<1> QED  BY <1>1, <1>2 DEF ScansAt

\* Nobody passed over a slot who is where the search begins.
LEMMA Beginning ==
  ASSUME Types, NEW u \in Thread, NEW k \in DOMAIN hashes, index[u] = hash_thread_id[u]
  PROVE  Scanned(u, k) = {}
<1>1. At(u, k) \in DOMAIN hashes[k]  BY HashIs
<1>2. Distance(u, k, At(u, k)) = 0  BY <1>1, DistanceIs DEF At
<1>3. \A j \in DOMAIN hashes[k] : Distance(u, k, j) \in Nat  BY DistanceIs
<1> QED  BY <1>2, <1>3 DEF Scanned

-----------------------------------------------------------------------------
\* The counter

LEMMA FewerUpTo ==
  ASSUME Tickets, \A n \in Nat : \A u \in Thread : HasUpTo(u, n)' => HasUpTo(u, n)
  PROVE  \A n \in Nat : Cardinality(UpTo(n)') <= n
<1> SUFFICES ASSUME NEW n \in Nat PROVE Cardinality(UpTo(n)') <= n  OBVIOUS
<1>1. UpTo(n)' \subseteq UpTo(n) /\ IsFiniteSet(UpTo(n))
  BY HashAssumption, FS_Subset DEF UpTo
<1>2. Cardinality(UpTo(n)') <= Cardinality(UpTo(n)) /\ Cardinality(UpTo(n)) \in Nat
      /\ Cardinality(UpTo(n)') \in Nat
  BY <1>1, FS_Subset, FS_CardinalityType
<1> QED  BY <1>2 DEF Tickets

LEMMA StayUpTo ==
  ASSUME NEW u \in Thread, Kept, KeysStay(u),
         Counting(u)' => Counting(u) /\ newCount'[u] = newCount[u],
         NEW n \in Nat, HasUpTo(u, n)'
  PROVE  HasUpTo(u, n)
<1>1. CASE Counting(u)' /\ newCount'[u] <= n  BY <1>1 DEF HasUpTo
<1>2. ASSUME NEW k \in DOMAIN hashes', u \in Keys(k)', Limit(k)' <= n + 1 PROVE HasUpTo(u, n)
  <2>1. k \in DOMAIN hashes /\ u \in Keys(k)  BY <1>2 DEF KeysStay
  <2>2. Limit(k)' = Limit(k)  BY <2>1, KeptIs
  <2> QED  BY <1>2, <2>1, <2>2 DEF HasUpTo
<1> QED  BY <1>1, <1>2 DEF HasUpTo

LEMMA StayTickets ==
  ASSUME Tickets, count' = count, Kept, \A u \in Thread : KeysStay(u),
         \A u \in Thread : (Counting(u)' <=> Counting(u)) /\ (Counting(u) => newCount'[u] = newCount[u])
  PROVE  Tickets'
<1>1. Counted' = Counted  BY KnownStays DEF Counted
<1>2. \A n \in Nat : Cardinality(UpTo(n)') <= n  BY StayUpTo, FewerUpTo
<1> QED  BY <1>1, <1>2 DEF Tickets

-----------------------------------------------------------------------------
\* The list

LEMMA StayList ==
  ASSUME List, UNCHANGED <<producers, producerListTail>>,
         \A p \in DOMAIN producers : Linked(p)' <=> Linked(p),
         \A p \in DOMAIN producers : Linked(p) => nextProducer'[p] = nextProducer[p]
  PROVE  List'
<1>1. \A p : Linked(p)' <=> Linked(p)  BY DEF Linked
<1>2. \A S \in SUBSET DOMAIN producers : Closed(S)' <=> Closed(S)
  BY <1>1 DEF Closed
<1>3. producerListTail' # 0 => Linked(producerListTail)'  BY <1>1 DEF List, Linked
<1>4. \A p \in DOMAIN producers' : Linked(p)' /\ nextProducer'[p] # 0 => Linked(nextProducer[p])'
  <2> SUFFICES ASSUME NEW p \in DOMAIN producers, Linked(p), nextProducer[p] # 0
               PROVE  Linked(nextProducer[p])'
    BY <1>1
  <2> PICK q : q = nextProducer[p]  OBVIOUS
  <2>1. Linked(q)'  BY <1>1 DEF List
  <2>2. nextProducer'[p] = q  OBVIOUS
  <2> QED  BY <2>1, <2>2
<1> QED  BY <1>1, <1>2, <1>3, <1>4 DEF List

-----------------------------------------------------------------------------
\* The steps.  One thread moves, and what the others have stays.

LEMMA OthersStay ==
  ASSUME Types, NEW t \in Thread, Call(t) \/ Continue(t), NEW u \in Thread, u # t
  PROVE  Stays(u)
<1>1. ASSUME Go(t, "idle") /\ Forget(t) /\ (UNCHANGED result \/ \E v : result' = [result EXCEPT ![t] = v])
      PROVE  Stays(u)
  BY <1>1 DEF Go, Forget, Stays, Types
<1>2. CASE Call(t) \/ PassOver(t) \/ NotHere(t) \/ CountIn(t) \/ TestAndSet(t)
  BY <1>2 DEF Call, PassOver, NotHere, CountIn, TestAndSet, Transition, Go, locals, Stays, Types
<1>3. CASE Found(t)
  BY <1>1, <1>3 DEF Found, Return, Go, Stays, Types
<1>4. CASE ReAdd(t) \/ Insert(t)
  BY <1>1, <1>4 DEF ReAdd, Insert, Return, Taken, Stays, Types
<1>5. CASE Resize(t) \/ ResizeFails(t) \/ Wait(t)
  BY <1>5 DEF Resize, ResizeFails, Wait, Transition, Go, locals, Stays, Types
<1>6. CASE Unlock(t)
  BY <1>6 DEF Unlock, Transition, Forget, locals, Stays, Types
<1>7. CASE CreateProducer(t) \/ Link(t)
  BY <1>7 DEF CreateProducer, Link, Go, locals, Stays, Types
<1>8. CASE CreateFails(t)
  BY <1>1, <1>8 DEF CreateFails, Fail
<1> QED  BY <1>2, <1>3, <1>4, <1>5, <1>6, <1>7, <1>8 DEF Continue

\* An entry of t, and what t found in the table that it searched last.
LEMMA EntryIs ==
  ASSUME Types, Owned, NEW t \in Thread, NEW k \in DOMAIN hashes, NEW i \in DOMAIN hashes[k],
         hashes[k][i].key = t
  PROVE  /\ hashes[k][i] = [key |-> t, value |-> hashes[k][i].value]
         /\ hashes[k][i].value \in DOMAIN producers /\ producers[hashes[k][i].value] = t
         /\ hashes[k][i].value \in Nat \ {0}
         /\ Holds(t, hashes[k][i].value) /\ t \in Keys(k)
<1>1. hashes[k][i] \in Slot  BY HashIs
<1>2. hashes[k][i] = [key |-> t, value |-> hashes[k][i].value]  BY <1>1 DEF Slot
<1>3. hashes[k][i].value \in DOMAIN producers /\ producers[hashes[k][i].value] = t
  BY HashAssumption DEF Owned
<1>4. producers \in Seq(Thread)  BY DEF Types
<1> QED  BY <1>2, <1>3, <1>4, HashAssumption DEF Holds, Keys

LEMMA FoundIs ==
  ASSUME Inv, NEW t \in Thread, pc[t] = "readd"
  PROVE  /\ FoundValue(t) \in DOMAIN producers /\ producers[FoundValue(t)] = t
         /\ FoundValue(t) \in Nat
         /\ \A k \in DOMAIN hashes : \A i \in DOMAIN hashes[k] :
              hashes[k][i].key = t => hashes[k][i].value = FoundValue(t)
<1> PICK k : k = hash[t]  OBVIOUS
<1>1. k \in DOMAIN hashes /\ t \in Keys(k)  BY OfTables DEF Inv, Locals, LocalsAt
<1> DEFINE E == {hashes[k][i] : i \in DOMAIN hashes[k]}
<1>2. PICK s \in E : s = CHOOSE e \in E : e.key = t
  <2>1. \E e \in E : e.key = t  BY <1>1 DEF Keys
  <2> QED  BY <2>1
<1>3. s.key = t
  <2>1. \E e \in E : e.key = t  BY <1>1 DEF Keys
  <2> QED  BY <1>2, <2>1
<1>4. FoundValue(t) = s.value  BY <1>2 DEF FoundValue
<1>5. PICK i \in DOMAIN hashes[k] : s = hashes[k][i]  OBVIOUS
<1> QED  BY <1>1, <1>3, <1>4, <1>5, EntryIs DEF Inv, Agreed

\* All parts of the invariant together.
LEMMA Together ==
  ASSUME Inv, NEW t \in Thread, Call(t) \/ Continue(t), Types',
         Kept, \A u \in Thread : u # t => KeysStay(u), ProducersKept,
         \A u \in Thread : u # t /\ pc[u] = "link" =>
           nextProducer'[producer[u]] = nextProducer[producer[u]],
         LocalsAt(t)', ScansAt(t)',
         result'[t] \in {0, result[t]} \/ (\E p : p = result'[t] /\ Holds(t, p)'),
         Owned', Once', Agreed', Paths', Growing', Tickets', List'
  PROVE  Inv'
<1>1. ASSUME NEW u \in Thread, u # t PROVE LocalsAt(u)' /\ ScansAt(u)'
  <2>1. Stays(u)  BY <1>1, OthersStay DEF Inv
  <2> QED  BY <1>1, <2>1, StayLocals, StayScans DEF Inv, Locals, Scans
<1>2. Locals' /\ Scans'  BY <1>1 DEF Locals, Scans
<1>3. Results'
  <2> SUFFICES ASSUME NEW u \in Thread, result'[u] # 0 PROVE Holds(u, result[u])'
    BY DEF Results
  <2> PICK p : p = result'[u]  OBVIOUS
  <2>1. CASE p = result[u]
    <3>1. Holds(u, p)  BY <2>1 DEF Inv, Results
    <3> QED  BY <3>1, Remembered
  <2>2. CASE p # result[u]
    <3>1. u = t  BY <2>2, OthersStay DEF Stays, Inv
    <3> QED  BY <2>2, <3>1
  <2> QED  BY <2>1, <2>2
<1> QED  BY <1>2, <1>3 DEF Inv

\* A step that changes neither the tables nor the list.
LEMMA Quiet ==
  ASSUME Inv, NEW t \in Thread, Call(t) \/ Continue(t), Types', UNCHANGED <<hashes, list>>,
         pc[t] # "link", pc'[t] # "link", LocalsAt(t)', ScansAt(t)',
         result'[t] \in {0, result[t]} \/ Holds(t, result'[t]),
         Tickets'
  PROVE  Inv'
<1>1. Kept /\ \A u : KeysStay(u)  BY TablesStay
<1>2. UNCHANGED <<producers, nextProducer, producerListTail>> /\ ProducersKept
  BY DEF list, ProducersKept
<1>3. Owned' /\ Once' /\ Agreed' /\ Paths' /\ Growing'  BY <1>2, StayTables DEF Inv
<1>4. ASSUME NEW p \in DOMAIN producers PROVE Linked(p)' <=> Linked(p)
  <2>1. \A u \in Thread : Linking(u, p)' <=> Linking(u, p)
    BY OthersStay DEF Linking, Stays, Inv
  <2> QED  BY <1>2, <2>1 DEF Linked
<1>5. List'  BY <1>2, <1>4, StayList DEF Inv
<1>6. Holds(t, result'[t]) => \E p : p = result'[t] /\ Holds(t, p)'
  BY <1>1, Remembered
<1> QED  BY <1>1, <1>2, <1>3, <1>5, <1>6, Together

BeginningsAreEmpty == \A t \in Thread : \A k \in DOMAIN hashes :
  index[t] = hash_thread_id[t] => Scanned(t, k) = {}

LEMMA BeginningIs == Types => BeginningsAreEmpty
  BY Beginning DEF BeginningsAreEmpty

LEMMA BeginningNext ==
  ASSUME Types', NEW u \in Thread, NEW k \in DOMAIN hashes', index'[u] = hash_thread_id[u]
  PROVE  Scanned(u, k)' = {}
<1>1. (Types => BeginningsAreEmpty)'  BY BeginningIs, PTL
<1> QED  BY <1>1 DEF BeginningsAreEmpty

LEMMA Idle ==
  ASSUME Types', NEW t \in Thread, pc'[t] = "idle", mainHash'[t] = 0, hash'[t] = 0
  PROVE  LocalsAt(t)' /\ ScansAt(t)'
<1>1. Len(hashes') \in Nat  BY DEF Types
<1> QED  BY <1>1 DEF LocalsAt, ScansAt, Counting

LEMMA ReturnIs ==
  ASSUME Types, NEW t \in Thread, NEW v \in Nat, Return(t, v)
  PROVE  /\ pc'[t] = "idle" /\ mainHash'[t] = 0 /\ hash'[t] = 0 /\ result'[t] = v
         /\ pc' \in [Thread -> {"idle", "probe", "readd", "count", "loop", "resize", "giveup",
                                "unlock", "fit", "link", "insert"}]
         /\ mainHash' \in [Thread -> Nat] /\ hash' \in [Thread -> Nat] /\ index' \in [Thread -> Nat]
         /\ newCount' \in [Thread -> Nat] /\ producer' \in [Thread -> Nat]
         /\ prevTail' \in [Thread -> Nat] /\ result' \in [Thread -> Nat]
  BY DEF Return, Go, Forget, Types

\* The tickets stay when no thread begins or ends to count.
LEMMA QuietTickets ==
  ASSUME Inv, NEW t \in Thread, Call(t) \/ Continue(t), UNCHANGED <<hashes, count>>,
         Counting(t)' <=> Counting(t), Counting(t) => newCount'[t] = newCount[t]
  PROVE  Tickets'
<1>1. \A u \in Thread : (Counting(u)' <=> Counting(u)) /\ (Counting(u) => newCount'[u] = newCount[u])
  BY OthersStay DEF Counting, Stays, Inv
<1> QED  BY <1>1, TablesStay, StayTickets DEF Inv

LEMMA CallStep ==
  ASSUME Inv, NEW t \in Thread, Call(t)
  PROVE  Inv'
<1>1. /\ pc[t] = "idle" /\ pc'[t] = "probe" /\ UNCHANGED <<hashes, list, count, result>>
      /\ mainHash'[t] = Len(hashes) /\ hash'[t] = Len(hashes) /\ index'[t] = hash_thread_id[t]
  BY DEF Call, Transition, shared, Inv, Types
<1>2. Types'
  <2>1. hash_thread_id[t] \in Nat /\ Len(hashes) \in Nat  BY HashAssumption DEF Inv, Types
  <2> QED  BY <2>1 DEF Call, Transition, shared, list, Inv, Types
<1>3. LocalsAt(t)'
  <2>1. Len(hashes) \in Nat \ {0} /\ DOMAIN hashes = 1 .. Len(hashes)  BY DEF Inv, Types
  <2> QED  BY <1>1, <2>1 DEF LocalsAt, Counting
<1>4. ScansAt(t)'
  <2> PICK k : k = Len(hashes)  OBVIOUS
  <2>1. k \in DOMAIN hashes  BY OfTables DEF Inv, Locals
  <2>2. Scanned(t, k)' = {}  BY <1>1, <1>2, <2>1, BeginningNext
  <2>3. hash'[t] = k  BY <1>1
  <2> QED  BY <1>1, <2>2, <2>3 DEF ScansAt
<1>5. Tickets'  BY <1>1, QuietTickets DEF Counting
<1> QED  BY <1>1, <1>2, <1>3, <1>4, <1>5, Quiet

LEMMA FoundStep ==
  ASSUME Inv, NEW t \in Thread, Found(t)
  PROVE  Inv'
<1> PICK k : k = hash[t]  OBVIOUS
<1> PICK i : i = At(t, k)  OBVIOUS
<1>1. k \in DOMAIN hashes /\ k # 0 /\ k \in 0 .. mainHash[t] /\ mainHash[t] \in DOMAIN hashes
      /\ \A l \in DOMAIN hashes : l > k => t \notin Keys(l)
  BY OfTables DEF Found, Inv, Locals, LocalsAt
<1>2. i \in DOMAIN hashes[k]  BY <1>1, HashIs DEF Inv
<1>3. Probed(t) = hashes[k][i] /\ hashes[k][i].key = t  BY DEF Found, Probed
<1>4. /\ Probed(t).value \in Nat \ {0} /\ Holds(t, Probed(t).value) /\ t \in Keys(k)
  BY <1>1, <1>2, <1>3, EntryIs DEF Inv
<1>5. pc[t] = "probe" /\ UNCHANGED <<hashes, count, resizeInProgress, list>>  BY DEF Found, shared
<1>6. CASE hash[t] = mainHash[t]
  <2>1. Return(t, Probed(t).value)  BY <1>6 DEF Found
  <2>2. Types'  BY <1>4, <1>5, <2>1, ReturnIs DEF list, Inv, Types
  <2>3. pc'[t] = "idle" /\ result'[t] = Probed(t).value /\ mainHash'[t] = 0 /\ hash'[t] = 0
    BY <1>4, <2>1, ReturnIs DEF Inv
  <2>4. LocalsAt(t)' /\ ScansAt(t)'  BY <2>2, <2>3, Idle
  <2>5. Tickets'  BY <1>5, <2>3, QuietTickets DEF Counting, Continue
  <2> QED  BY <1>4, <1>5, <2>2, <2>3, <2>4, <2>5, Quiet DEF Continue
<1>7. CASE hash[t] # mainHash[t]
  <2>1. /\ pc'[t] = "readd" /\ index'[t] = hash_thread_id[t]
        /\ UNCHANGED <<mainHash, hash, newCount, producer, prevTail, result>>
    BY <1>5, <1>7 DEF Found, Go, Inv, Types
  <2>2. Types'
    <3>1. hash_thread_id[t] \in Nat  BY HashAssumption
    <3> QED  BY <1>5, <1>7, <3>1 DEF Found, Go, list, Inv, Types
  <2>3. LocalsAt(t)'
    <3>1. LocalsAt(t)  BY DEF Inv, Locals
    <3>2. t \in Keys(hash[t])'  BY <1>4, <1>5, <2>1 DEF Keys
    <3>3. \A l \in DOMAIN hashes : l > k => t \notin Keys(l)'  BY <1>1, <1>5 DEF Keys
    <3> QED  BY <1>1, <1>5, <1>7, <2>1, <3>1, <3>2, <3>3 DEF LocalsAt, Counting
  <2>4. ScansAt(t)'
    <3> PICK m : m = mainHash[t]  OBVIOUS
    <3>1. Scanned(t, m)' = {}  BY <1>1, <1>5, <2>1, <2>2, BeginningNext
    <3>2. mainHash'[t] = m  BY <2>1
    <3> QED  BY <2>1, <3>1, <3>2 DEF ScansAt
  <2>5. Tickets'  BY <1>5, <2>1, QuietTickets DEF Counting, Continue
  <2> QED  BY <1>5, <2>1, <2>2, <2>3, <2>4, <2>5, Quiet DEF Continue
<1> QED  BY <1>6, <1>7

\* One slot on, in the main table or in the one that is probed.
LEMMA Onward ==
  ASSUME Types, Types', UNCHANGED hashes, NEW t \in Thread, NEW k \in DOMAIN hashes,
         index'[t] = At(t, k) + 1, NEW j \in Scanned(t, k)'
  PROVE  j \in DOMAIN hashes[k] /\ (j \in Scanned(t, k) \/ j = At(t, k))
<1> PICK i : i = At(t, k)  OBVIOUS
<1>1. i \in DOMAIN hashes[k]  BY HashIs
<1>2. Capacity(k)' = Capacity(k) /\ \A x : Distance(t, k, x)' = Distance(t, k, x)
  BY DEF Capacity, Distance
<1>3. At(t, k)' = (i + 1) % Capacity(k)  BY <1>2 DEF At
<1>4. Distance(t, k, At(t, k))' = Distance(t, k, (i + 1) % Capacity(k))
  BY <1>2, <1>3 DEF Distance
<1>5. j \in DOMAIN hashes[k] /\ Distance(t, k, j) < Distance(t, k, (i + 1) % Capacity(k))
  BY <1>2, <1>4 DEF Scanned
<1>6. /\ Distance(t, k, (i + 1) % Capacity(k)) \in {0, Distance(t, k, i) + 1}
      /\ Distance(t, k, i) \in Nat /\ Distance(t, k, j) \in Nat
      /\ Distance(t, k, i) = Distance(t, k, j) => i = j
  BY <1>1, <1>5, DistanceIs
<1>7. Distance(t, k, j) < Distance(t, k, i) \/ Distance(t, k, i) = Distance(t, k, j)
  BY <1>5, <1>6
<1> QED  BY <1>5, <1>6, <1>7 DEF Scanned

LEMMA PassOverStep ==
  ASSUME Inv, NEW t \in Thread, PassOver(t)
  PROVE  Inv'
<1> PICK k : k = hash[t]  OBVIOUS
<1>1. k \in DOMAIN hashes  BY OfTables DEF PassOver, Inv, Locals, LocalsAt
<1>2. At(t, k) \in DOMAIN hashes[k] /\ At(t, k) \in Nat  BY <1>1, HashIs DEF Inv
<1>3. /\ pc[t] = "probe" /\ UNCHANGED <<hashes, count, resizeInProgress, list>>
      /\ UNCHANGED <<pc, mainHash, hash, newCount, producer, prevTail, result>>
      /\ index' = [index EXCEPT ![t] = At(t, k) + 1] /\ index'[t] = At(t, k) + 1
      /\ hashes[k][At(t, k)].key \notin {t, invalid}
  BY DEF PassOver, Probed, shared, Inv, Types
<1>4. Types'  BY <1>2, <1>3, SMTT(25) DEF list, Inv, Types
<1>5. LocalsAt(t)'
  <2>1. LocalsAt(t)  BY DEF Inv, Locals
  <2> QED  BY <1>3, <2>1 DEF LocalsAt, Counting, Keys
<1>6. ScansAt(t)'
  <2>1. \A j \in Scanned(t, k) : hashes[k][j].key \notin {t, invalid}
    BY <1>3 DEF Inv, Scans, ScansAt
  <2>2. \A j \in Scanned(t, k)' : hashes'[k][j].key \notin {t, invalid}
    BY <1>1, <1>3, <1>4, <2>1, Onward DEF Inv
  <2>3. hash'[t] = k  BY <1>3
  <2> QED  BY <1>3, <2>2, <2>3 DEF ScansAt
<1>7. Tickets'  BY <1>3, QuietTickets DEF Counting, Continue
<1> QED  BY <1>3, <1>4, <1>5, <1>6, <1>7, Quiet DEF Continue

LEMMA TakenStep ==
  ASSUME Inv, NEW t \in Thread, Taken(t, "readd") \/ Taken(t, "insert")
  PROVE  Inv'
<1> PICK k : k = mainHash[t]  OBVIOUS
<1>1. k \in DOMAIN hashes  BY OfTables DEF Taken, Inv, Locals
<1>2. At(t, k) \in DOMAIN hashes[k] /\ At(t, k) \in Nat  BY <1>1, HashIs DEF Inv
<1>3. /\ pc[t] \in {"readd", "insert"} /\ UNCHANGED <<hashes, count, resizeInProgress, list>>
      /\ UNCHANGED <<pc, mainHash, hash, newCount, producer, prevTail, result>>
      /\ index' = [index EXCEPT ![t] = At(t, k) + 1] /\ index'[t] = At(t, k) + 1
      /\ hashes[k][At(t, k)].key # invalid
  BY DEF Taken, shared, Inv, Types
<1>4. Types'  BY <1>2, <1>3 DEF list, Inv, Types
<1>5. LocalsAt(t)'
  <2>1. LocalsAt(t)  BY DEF Inv, Locals
  <2>2. Limit(mainHash[t])' = Limit(mainHash[t]) /\ Known(t)' = Known(t)
    BY <1>3 DEF Limit, Capacity, Known, Keys
  <2> QED  BY <1>3, <2>1, <2>2 DEF LocalsAt, Counting, Keys, list
<1>6. ScansAt(t)'
  <2>1. \A j \in Scanned(t, k) : hashes[k][j].key # invalid
    BY <1>3 DEF Inv, Scans, ScansAt
  <2>2. \A j \in Scanned(t, k)' : hashes'[k][j].key # invalid
    BY <1>1, <1>3, <1>4, <2>1, Onward DEF Inv
  <2>3. mainHash'[t] = k  BY <1>3
  <2> QED  BY <1>3, <2>2, <2>3 DEF ScansAt
<1>7. Continue(t)  BY DEF Continue, ReAdd, Insert
<1>8. Tickets'  BY <1>3, <1>7, QuietTickets DEF Counting
<1> QED  BY <1>3, <1>4, <1>5, <1>6, <1>7, <1>8, Quiet

LEMMA NotHereStep ==
  ASSUME Inv, NEW t \in Thread, NotHere(t)
  PROVE  Inv'
<1> PICK k : k = hash[t]  OBVIOUS
<1> PICK a : a = At(t, k)  OBVIOUS
<1>1. k \in DOMAIN hashes /\ k # 0 /\ k \in 0 .. mainHash[t] /\ mainHash[t] \in 0 .. Len(hashes)
      /\ \A l \in DOMAIN hashes : l > k => t \notin Keys(l)
  BY OfTables DEF NotHere, Inv, Locals, LocalsAt
<1>2. a \in DOMAIN hashes[k] /\ mainHash[t] \in Nat /\ Len(hashes) \in Nat /\ DOMAIN hashes = 1 .. Len(hashes)
  BY <1>1, HashIs, SMTT(25) DEF Inv, Types
<1>3. /\ pc[t] = "probe" /\ UNCHANGED <<hashes, count, resizeInProgress, list>>
      /\ UNCHANGED <<mainHash, newCount, producer, prevTail, result>>
      /\ hash' = [hash EXCEPT ![t] = k - 1] /\ hash'[t] = k - 1
      /\ index' = [index EXCEPT ![t] = hash_thread_id[t]] /\ index'[t] = hash_thread_id[t]
      /\ pc' = [pc EXCEPT ![t] = IF k = 1 THEN "count" ELSE "probe"]
      /\ pc'[t] = IF k = 1 THEN "count" ELSE "probe"
      /\ hashes[k][a].key = invalid
  BY DEF NotHere, Probed, Oldest, Go, shared, Inv, Types
<1>4. Types'
  <2>1. k - 1 \in Nat /\ hash_thread_id[t] \in Nat  BY <1>1, <1>2, HashAssumption
  <2> QED  BY <1>3, <2>1 DEF list, Inv, Types
<1>5. t \notin Keys(k)
  <2> SUFFICES ASSUME NEW i \in DOMAIN hashes[k], hashes[k][i].key = t PROVE FALSE
    BY DEF Keys
  <2>1. i \notin Scanned(t, k)  BY <1>3 DEF Inv, Scans, ScansAt
  <2>2. i # a  BY <1>3, HashAssumption
  <2>3. ~(Distance(t, k, a) < Distance(t, k, i))  BY <1>1, <1>2, <1>3, HashAssumption DEF Inv, Paths
  <2>4. ~(Distance(t, k, i) < Distance(t, k, a))  BY <2>1 DEF Scanned
  <2>5. Distance(t, k, i) \in Nat /\ Distance(t, k, a) \in Nat
        /\ (Distance(t, k, i) = Distance(t, k, a) => i = a)
    BY <1>1, <1>2, DistanceIs DEF Inv
  <2> QED  BY <2>2, <2>3, <2>4, <2>5
<1>6. LocalsAt(t)'
  <2>1. \A l \in DOMAIN hashes : l > k - 1 => t \notin Keys(l)'
    BY <1>1, <1>2, <1>3, <1>5 DEF Keys
  <2>2. k = 1 => ~Known(t)'  BY <1>2, <1>3, <2>1 DEF Known
  <2> QED  BY <1>1, <1>2, <1>3, <2>1, <2>2 DEF LocalsAt, Counting
<1>7. ScansAt(t)'
  <2> SUFFICES ASSUME k # 1 PROVE \A j \in Scanned(t, hash[t])' : FALSE
    BY <1>3 DEF ScansAt
  <2> PICK l : l = k - 1  OBVIOUS
  <2>1. l \in DOMAIN hashes'  BY <1>1, <1>2, <1>3
  <2>2. Scanned(t, l)' = {}  BY <1>3, <1>4, <2>1, BeginningNext
  <2>3. hash'[t] = l  BY <1>3
  <2> QED  BY <2>2, <2>3
<1>8. Tickets'  BY <1>3, QuietTickets DEF Counting, Continue
<1> QED  BY <1>3, <1>4, <1>6, <1>7, <1>8, Quiet DEF Continue

\* A thread that found itself in an older table, or has a new producer, claims
\* an empty slot.
LEMMA ClaimStep ==
  ASSUME Inv, NEW t \in Thread, Continue(t), pc[t] \in {"readd", "insert"},
         NEW p \in DOMAIN producers, p \in Nat, producers[p] = t,
         Claim(t, p), Return(t, p), UNCHANGED <<count, resizeInProgress, list>>,
         t \notin Keys(mainHash[t]),
         \A k \in DOMAIN hashes : \A i \in DOMAIN hashes[k] :
           hashes[k][i].key = t => hashes[k][i].value = p,
         \A n \in Nat : Limit(mainHash[t]) <= n + 1 => HasUpTo(t, n),
         t \in Counted
  PROVE  Inv'
<1> PICK m : m = mainHash[t]  OBVIOUS
<1> PICK a : a = At(t, m)  OBVIOUS
<1>1. m \in DOMAIN hashes  BY OfTables DEF Inv, Locals
<1>2. Adds(m, a, [key |-> t, value |-> p]) /\ hashes' \in Seq(Tables) /\ Len(hashes') = Len(hashes)
  BY <1>1, ClaimAdds DEF Inv
<1>3. /\ Kept
      /\ \A u \in Thread : u # t => KeysStay(u)
      /\ \A k \in DOMAIN hashes : t \in Keys(k)' <=> t \in Keys(k) \/ k = m
      /\ \A k \in DOMAIN hashes : Capacity(k)' = Capacity(k)
  BY <1>2, AddsKeys
<1>4. UNCHANGED <<producers, nextProducer, producerListTail>> /\ ProducersKept
  BY DEF list, ProducersKept
<1>5. \A j \in DOMAIN hashes[m] : Distance(t, m, j) < Distance(t, m, a) => hashes[m][j].key # invalid
  BY DEF Inv, Scans, ScansAt, Scanned
<1>6. Owned' /\ Once' /\ Agreed' /\ Paths' /\ Growing'  BY <1>2, <1>4, <1>5, AddTables DEF Inv
<1>7. pc'[t] = "idle" /\ mainHash'[t] = 0 /\ hash'[t] = 0 /\ result'[t] = p
  BY ReturnIs DEF Inv
<1>8. Types'
  <2>1. hashes' # <<>>  BY <1>2 DEF Inv, Types
  <2> QED  BY <1>2, <1>4, <2>1, ReturnIs DEF Inv, Types
<1>9. LocalsAt(t)' /\ ScansAt(t)'  BY <1>7, <1>8, Idle
<1>10. Holds(t, p)'
  <2>1. m \in DOMAIN hashes' /\ a \in DOMAIN hashes'[m] /\ hashes'[m][a] = [key |-> t, value |-> p]
    BY <1>2 DEF Adds
  <2> QED  BY <2>1 DEF Holds
<1>11. DOMAIN hashes' = DOMAIN hashes  BY <1>2 DEF Adds
<1>12. ASSUME NEW u \in Thread, u # t
       PROVE  (Counting(u)' <=> Counting(u)) /\ newCount'[u] = newCount[u] /\ KeysStay(u)
  BY <1>3, <1>12, OthersStay DEF Counting, Stays, Inv
<1>13. Tickets'
  <2>1. Known(t)'  BY <1>1, <1>3, <1>11 DEF Known
  <2>2. \A u \in Thread : u # t => (Known(u)' <=> Known(u))  BY <1>3, KnownStays
  <2>3. Counted' = Counted  BY <1>12, <2>1, <2>2 DEF Counted
  <2>4. ASSUME NEW n \in Nat, NEW u \in Thread, HasUpTo(u, n)' PROVE HasUpTo(u, n)
    <3>1. CASE u # t  BY <1>3, <1>12, <2>4, <3>1, StayUpTo
    <3>2. CASE u = t
      <4>1. ~Counting(t)'  BY <1>7 DEF Counting
      <4> PICK k \in DOMAIN hashes' : t \in Keys(k)' /\ Limit(k)' <= n + 1
        BY <2>4, <3>2, <4>1 DEF HasUpTo
      <4>2. k \in DOMAIN hashes /\ Limit(k)' = Limit(k)  BY <1>3, <1>11, KeptIs
      <4>3. CASE t \in Keys(k)  BY <3>2, <4>2, <4>3 DEF HasUpTo
      <4>4. CASE k = m  BY <3>2, <4>2, <4>4
      <4> QED  BY <1>3, <4>2, <4>3, <4>4
    <3> QED  BY <3>1, <3>2
  <2>5. \A n \in Nat : Cardinality(UpTo(n)') <= n  BY <2>4, FewerUpTo DEF Inv
  <2> QED  BY <2>3, <2>5 DEF Tickets, Inv
<1>14. ASSUME NEW q \in DOMAIN producers PROVE Linked(q)' <=> Linked(q)
  <2>1. ASSUME NEW u \in Thread PROVE Linking(u, q)' <=> Linking(u, q)
    <3>1. CASE u = t  BY <1>7, <3>1 DEF Linking
    <3>2. CASE u # t  BY <3>2, OthersStay DEF Linking, Stays, Inv
    <3> QED  BY <3>1, <3>2
  <2> QED  BY <1>4, <2>1 DEF Linked
<1>15. List'  BY <1>4, <1>14, StayList DEF Inv
<1>16. \A u \in Thread : pc[u] = "link" => nextProducer'[producer[u]] = nextProducer[producer[u]]
  BY <1>4
<1> QED  BY <1>3, <1>4, <1>6, <1>7, <1>8, <1>9, <1>10, <1>13, <1>15, <1>16, Together

LEMMA ReAddStep ==
  ASSUME Inv, NEW t \in Thread, ReAdd(t)
  PROVE  Inv'
<1>1. CASE Taken(t, "readd")  BY <1>1, TakenStep
<1>2. CASE /\ pc[t] = "readd" /\ Claim(t, FoundValue(t)) /\ Return(t, FoundValue(t))
           /\ UNCHANGED <<count, resizeInProgress, list>>
  <2> PICK k : k = hash[t]  OBVIOUS
  <2> PICK m : m = mainHash[t]  OBVIOUS
  <2> PICK p : p = FoundValue(t)  OBVIOUS
  <2>1. /\ k \in DOMAIN hashes /\ m \in DOMAIN hashes /\ k < m /\ k <= m /\ t \in Keys(k) /\ t \notin Keys(m)
    <3>1. LocalsAt(t) /\ mainHash[t] \in Nat  BY DEF Inv, Locals, Types
    <3>2. k \in DOMAIN hashes /\ m \in DOMAIN hashes  BY <1>2, <3>1, OfTables DEF Inv, LocalsAt
    <3> QED  BY <1>2, <3>1, <3>2 DEF LocalsAt
  <2>2. /\ p \in DOMAIN producers /\ producers[p] = t /\ p \in Nat
        /\ \A l \in DOMAIN hashes : \A i \in DOMAIN hashes[l] :
             hashes[l][i].key = t => hashes[l][i].value = p
    BY <1>2, FoundIs
  <2>3. ASSUME NEW n \in Nat, Limit(m) <= n + 1 PROVE HasUpTo(t, n)
    <3>1. /\ Capacity(k) \in Nat \ {0, 1} /\ Capacity(m) \in Nat \ {0, 1}
          /\ Capacity(k) <= Capacity(m)
      BY <2>1, HashIs DEF Inv, Growing
    <3>2. Limit(k) \in Nat /\ Limit(m) \in Nat /\ Limit(k) <= Limit(m)  BY <3>1, Limits DEF Limit
    <3>3. Limit(k) <= n + 1  BY <2>3, <3>2
    <3> QED  BY <2>1, <3>3 DEF HasUpTo
  <2>4. t \in Counted  BY <2>1 DEF Counted, Known
  <2>5. Continue(t)  BY DEF Continue
  <2> QED  BY <1>2, <2>1, <2>2, <2>3, <2>4, <2>5, ClaimStep
<1> QED  BY <1>1, <1>2 DEF ReAdd

LEMMA InsertStep ==
  ASSUME Inv, NEW t \in Thread, Insert(t)
  PROVE  Inv'
<1>1. CASE Taken(t, "insert")  BY <1>1, TakenStep
<1>2. CASE /\ pc[t] = "insert" /\ Claim(t, producer[t]) /\ Return(t, producer[t])
           /\ UNCHANGED <<count, resizeInProgress, list>>
  <2> PICK m : m = mainHash[t]  OBVIOUS
  <2> PICK p : p = producer[t]  OBVIOUS
  <2>1. LocalsAt(t) /\ producer[t] \in Nat /\ newCount[t] \in Nat  BY DEF Inv, Locals, Types
  <2>2. p \in DOMAIN producers /\ producers[p] = t /\ newCount[t] < Limit(m) /\ ~Known(t)
    BY <1>2, <2>1 DEF LocalsAt, Counting
  <2>3. m \in DOMAIN hashes  BY <1>2, <2>1, OfTables DEF Inv
  <2>4. \A l \in DOMAIN hashes : t \notin Keys(l)  BY <2>2 DEF Known
  <2>5. \A l \in DOMAIN hashes : \A i \in DOMAIN hashes[l] : hashes[l][i].key # t
    BY <2>4, HashAssumption DEF Keys
  <2>6. ASSUME NEW n \in Nat, Limit(m) <= n + 1 PROVE HasUpTo(t, n)
    <3>1. Limit(m) \in Nat  BY <2>3, HashIs, Limits DEF Limit, Inv
    <3>2. newCount[t] <= n  BY <2>1, <2>2, <2>6, <3>1
    <3> QED  BY <1>2, <3>2 DEF HasUpTo, Counting
  <2>7. t \in Counted  BY <1>2 DEF Counted, Counting
  <2>8. Continue(t)  BY DEF Continue
  <2> QED  BY <1>2, <2>1, <2>2, <2>3, <2>4, <2>5, <2>6, <2>7, <2>8, ClaimStep
<1> QED  BY <1>1, <1>2 DEF Insert

LEMMA CountInStep ==
  ASSUME Inv, NEW t \in Thread, CountIn(t)
  PROVE  Inv'
<1>1. /\ pc[t] = "count" /\ UNCHANGED <<hashes, resizeInProgress, list>>
      /\ UNCHANGED <<mainHash, hash, index, producer, prevTail, result>>
      /\ pc' = [pc EXCEPT ![t] = "loop"] /\ pc'[t] = "loop"
      /\ count' = count + 1
      /\ newCount' = [newCount EXCEPT ![t] = count + 1] /\ newCount'[t] = count + 1
  BY DEF CountIn, Transition, Inv, Types
<1>2. IsFiniteSet(Counted) /\ count = Cardinality(Counted) /\ count \in Nat
  <2>1. IsFiniteSet(Counted)  BY HashAssumption, FS_Subset DEF Counted
  <2> QED  BY <2>1, FS_CardinalityType DEF Inv, Tickets
<1>3. Types'  BY <1>1, <1>2, SMTT(25) DEF list, Inv, Types
<1>4. ~Known(t) /\ ~Known(t)'
  BY <1>1 DEF Inv, Locals, LocalsAt, Known, Keys
<1>5. LocalsAt(t)'
  <2>1. LocalsAt(t)  BY DEF Inv, Locals
  <2> QED  BY <1>1, <1>4, <2>1 DEF LocalsAt, Counting
<1>6. ScansAt(t)'  BY <1>1 DEF ScansAt
<1>7. \A u \in Thread : Known(u)' <=> Known(u)  BY <1>1 DEF Known, Keys
<1>8. ASSUME NEW u \in Thread, u # t
      PROVE  (Counting(u)' <=> Counting(u)) /\ newCount'[u] = newCount[u]
  BY <1>8, OthersStay DEF Counting, Stays, Inv, Continue
<1>9. ~Counting(t) /\ Counting(t)'  BY <1>1 DEF Counting
<1>10. Counted' = Counted \union {t} /\ t \notin Counted
  BY <1>4, <1>7, <1>8, <1>9 DEF Counted
<1>11. Cardinality(Counted') = count + 1 /\ IsFiniteSet(Counted')
  BY <1>2, <1>10, FS_AddElement
<1>12. ASSUME NEW n \in Nat PROVE Cardinality(UpTo(n)') <= n
  <2>1. ASSUME NEW u \in Thread, u # t, HasUpTo(u, n)' PROVE HasUpTo(u, n)
    BY <1>1, <1>8, <2>1, TablesStay, StayUpTo
  <2>2. CASE n < count + 1
    <3>1. ~HasUpTo(t, n)'
      <4>1. \A k \in DOMAIN hashes' : t \notin Keys(k)'  BY <1>4 DEF Known
      <4>2. ~(newCount'[t] <= n)  BY <1>1, <1>2, <2>2
      <4> QED  BY <4>1, <4>2 DEF HasUpTo
    <3>2. UpTo(n)' \subseteq UpTo(n) /\ IsFiniteSet(UpTo(n))
      BY <2>1, <3>1, HashAssumption, FS_Subset DEF UpTo
    <3>3. Cardinality(UpTo(n)') <= Cardinality(UpTo(n)) /\ Cardinality(UpTo(n)) \in Nat
          /\ Cardinality(UpTo(n)') \in Nat
      BY <3>2, FS_Subset, FS_CardinalityType
    <3> QED  BY <3>3 DEF Inv, Tickets
  <2>3. CASE count + 1 <= n
    <3>1. UpTo(n)' \subseteq Counted'
      BY DEF UpTo, HasUpTo, Counted, Known
    <3>2. Cardinality(UpTo(n)') <= count + 1 /\ Cardinality(UpTo(n)') \in Nat
      BY <1>11, <3>1, FS_Subset, FS_CardinalityType
    <3> QED  BY <1>2, <2>3, <3>2
  <2> QED  BY <1>2, <2>2, <2>3
<1>13. Tickets'  BY <1>1, <1>11, <1>12 DEF Tickets
<1> QED  BY <1>1, <1>3, <1>5, <1>6, <1>13, Quiet DEF Continue

\* A call that fails is counted out.
LEMMA CountOut ==
  ASSUME Inv, NEW t \in Thread, Continue(t), UNCHANGED hashes, count' = CountedOut,
         Counting(t), ~Counting(t)'
  PROVE  Tickets' /\ count \in Nat \ {0}
<1>1. IsFiniteSet(Counted) /\ count = Cardinality(Counted) /\ count \in Nat
  <2>1. IsFiniteSet(Counted)  BY HashAssumption, FS_Subset DEF Counted
  <2> QED  BY <2>1, FS_CardinalityType DEF Inv, Tickets
<1>2. \A u \in Thread : Known(u)' <=> Known(u)  BY DEF Known, Keys
<1>3. ~Known(t)  BY DEF Inv, Locals, LocalsAt
<1>4. ASSUME NEW u \in Thread, u # t
      PROVE  (Counting(u)' <=> Counting(u)) /\ newCount'[u] = newCount[u]
  BY <1>4, OthersStay DEF Counting, Stays, Inv
<1>5. Counted' = Counted \ {t} /\ t \in Counted
  BY <1>2, <1>3, <1>4 DEF Counted
<1>6. Cardinality(Counted') = count - 1 /\ count # 0
  BY <1>1, <1>5, FS_RemoveElement, FS_EmptySet
<1>7. \A n \in Nat : \A u \in Thread : HasUpTo(u, n)' => HasUpTo(u, n)
  BY <1>4, TablesStay, StayUpTo
<1>8. \A n \in Nat : Cardinality(UpTo(n)') <= n  BY <1>7, FewerUpTo DEF Inv
<1> QED  BY <1>1, <1>6, <1>8 DEF Tickets, CountedOut

LEMMA TestAndSetStep ==
  ASSUME Inv, NEW t \in Thread, TestAndSet(t)
  PROVE  Inv'
<1>1. /\ pc[t] = "loop" /\ UNCHANGED <<hashes, count, list>>
      /\ UNCHANGED <<mainHash, hash, index, newCount, producer, prevTail, result>>
      /\ pc'[t] \in {"resize", "fit"} /\ pc' = [pc EXCEPT ![t] = pc'[t]]
      /\ resizeInProgress' \in BOOLEAN
  BY DEF TestAndSet, Go, locals, Inv, Types
<1>2. Types'  BY <1>1 DEF list, Inv, Types
<1>3. LocalsAt(t)'
  <2>1. LocalsAt(t)  BY DEF Inv, Locals
  <2> QED  BY <1>1, <2>1 DEF LocalsAt, Counting, Known, Keys
<1>4. ScansAt(t)'  BY <1>1 DEF ScansAt
<1>5. Tickets'  BY <1>1, QuietTickets DEF Counting, Continue
<1> QED  BY <1>1, <1>2, <1>3, <1>4, <1>5, Quiet DEF Continue

LEMMA ResizeFailsStep ==
  ASSUME Inv, NEW t \in Thread, ResizeFails(t)
  PROVE  Inv'
<1>1. /\ pc[t] = "resize" /\ UNCHANGED <<hashes, resizeInProgress, list>>
      /\ UNCHANGED <<mainHash, hash, index, newCount, producer, prevTail, result>>
      /\ pc'[t] = "giveup" /\ pc' = [pc EXCEPT ![t] = "giveup"]
      /\ count' = CountedOut
  BY DEF ResizeFails, Go, locals, Inv, Types
<1>2. Types'  BY <1>1 DEF list, Inv, Types
<1>3. LocalsAt(t)'
  <2>1. LocalsAt(t)  BY DEF Inv, Locals
  <2> QED  BY <1>1, <2>1 DEF LocalsAt, Counting, Known, Keys
<1>4. ScansAt(t)'  BY <1>1 DEF ScansAt
<1>5. Tickets'  BY <1>1, CountOut DEF Counting, Continue
<1> QED  BY <1>1, <1>2, <1>3, <1>4, <1>5, Quiet DEF Continue

LEMMA CreateFailsStep ==
  ASSUME Inv, NEW t \in Thread, CreateFails(t)
  PROVE  Inv'
<1>1. /\ pc[t] = "fit" /\ UNCHANGED <<hashes, resizeInProgress, list, result>>
      /\ pc'[t] = "idle" /\ mainHash'[t] = 0 /\ hash'[t] = 0
      /\ count' = CountedOut
  BY DEF CreateFails, Fail, Go, Forget, Inv, Types
<1>2. Types'  BY DEF CreateFails, Fail, Go, Forget, list, Inv, Types
<1>3. LocalsAt(t)' /\ ScansAt(t)'  BY <1>1, <1>2, Idle
<1>4. Tickets'  BY <1>1, CountOut DEF Counting, Continue
<1> QED  BY <1>1, <1>2, <1>3, <1>4, Quiet DEF Continue

LEMMA UnlockStep ==
  ASSUME Inv, NEW t \in Thread, Unlock(t)
  PROVE  Inv'
<1>1. /\ UNCHANGED <<hashes, count, list, result>> /\ resizeInProgress' = FALSE
      /\ \/ /\ pc[t] = "unlock" /\ pc'[t] = "fit" /\ pc' = [pc EXCEPT ![t] = "fit"]
            /\ UNCHANGED <<mainHash, hash, index, newCount, producer, prevTail>>
         \/ pc[t] = "giveup" /\ pc'[t] = "idle" /\ mainHash'[t] = 0 /\ hash'[t] = 0
  BY DEF Unlock, Release, Transition, Forget, locals, Inv, Types
<1>2. Types'
  <2>1. CASE Transition(t, "unlock", "fit") /\ UNCHANGED locals
    BY <1>1, <2>1 DEF Transition, locals, list, Inv, Types
  <2>2. CASE Transition(t, "giveup", "idle") /\ Forget(t)
    BY <1>1, <2>2 DEF Transition, Forget, list, Inv, Types
  <2> QED  BY <2>1, <2>2 DEF Unlock
<1>3. LocalsAt(t)' /\ ScansAt(t)'
  <2>1. CASE pc[t] = "giveup"  BY <1>1, <1>2, <2>1, Idle
  <2>2. CASE pc[t] = "unlock"
    <3>1. LocalsAt(t)  BY DEF Inv, Locals
    <3>2. LocalsAt(t)'  BY <1>1, <2>2, <3>1 DEF LocalsAt, Counting, Known, Keys
    <3> QED  BY <1>1, <2>2, <3>2 DEF ScansAt
  <2> QED  BY <1>1, <2>1, <2>2
<1>4. Tickets'
  <2>1. Counting(t)' <=> Counting(t)  BY <1>1 DEF Counting
  <2>2. Counting(t) => newCount'[t] = newCount[t]  BY <1>1 DEF Counting
  <2> QED  BY <1>1, <2>1, <2>2, QuietTickets DEF Continue
<1> QED  BY <1>1, <1>2, <1>3, <1>4, Quiet DEF Continue

LEMMA WaitStep ==
  ASSUME Inv, NEW t \in Thread, Wait(t)
  PROVE  Inv'
<1>1. /\ pc[t] = "fit" /\ UNCHANGED <<hashes, resizeInProgress, count, list>>
      /\ UNCHANGED <<hash, index, newCount, producer, prevTail, result>>
      /\ pc'[t] = "loop" /\ pc' = [pc EXCEPT ![t] = "loop"]
      /\ mainHash' = [mainHash EXCEPT ![t] = Len(hashes)] /\ mainHash'[t] = Len(hashes)
  BY DEF Wait, Transition, shared, Inv, Types
<1>2. Len(hashes) \in Nat \ {0} /\ DOMAIN hashes = 1 .. Len(hashes)  BY DEF Inv, Types
<1>3. Types'  BY <1>1, <1>2 DEF list, Inv, Types
<1>4. LocalsAt(t)'
  <2>1. LocalsAt(t)  BY DEF Inv, Locals
  <2> QED  BY <1>1, <1>2, <2>1 DEF LocalsAt, Counting, Known, Keys
<1>5. ScansAt(t)'  BY <1>1 DEF ScansAt
<1>6. Tickets'  BY <1>1, QuietTickets DEF Counting, Continue
<1> QED  BY <1>1, <1>3, <1>4, <1>5, <1>6, Quiet DEF Continue

LEMMA ResizeStep ==
  ASSUME Inv, NEW t \in Thread, Resize(t)
  PROVE  Inv'
<1> PICK n : n = Len(hashes)  OBVIOUS
<1>1. /\ pc[t] = "resize" /\ UNCHANGED <<resizeInProgress, count, list>>
      /\ UNCHANGED <<hash, index, newCount, producer, prevTail, result>>
      /\ pc'[t] = "unlock" /\ pc' = [pc EXCEPT ![t] = "unlock"]
  BY DEF Resize, Transition, Inv, Types
<1>2. n \in Nat \ {0} /\ DOMAIN hashes = 1 .. n  BY DEF Inv, Types
<1>3. n \in DOMAIN hashes /\ newCount[t] \in Nat /\ Capacity(n) \in Nat \ {0, 1}
      /\ \A k \in DOMAIN hashes : Capacity(k) \in Nat /\ Capacity(k) <= Capacity(n)
  <2>1. n \in DOMAIN hashes /\ newCount[t] \in Nat  BY <1>2 DEF Inv, Types
  <2>2. \A k \in DOMAIN hashes : Capacity(k) \in Nat \ {0, 1}  BY HashIs DEF Inv
  <2>3. \A k \in DOMAIN hashes : k <= n  BY <1>2
  <2> QED  BY <2>1, <2>2, <2>3 DEF Inv, Growing
<1>4. LocalsAt(t)  BY DEF Inv, Locals
<1>5. Continue(t)  BY DEF Continue
<1>6. CASE HalfFull(t, n)
  <2> PICK c : c = NewCapacity(t, Capacity(n))  OBVIOUS
  <2>1. c \in Nat \ {0, 1} /\ \A k \in DOMAIN hashes : Capacity(k) <= c
    <3>1. c \in Nat /\ c >= 2 * Capacity(n)  BY <1>3, Larger
    <3> QED  BY <1>3, <3>1
  <2>2. /\ hashes' = Append(hashes, EmptyTable(c))
        /\ mainHash' = [mainHash EXCEPT ![t] = n + 1] /\ mainHash'[t] = n + 1
    BY <1>6 DEF Resize, Inv, Types
  <2>3. EmptyTable(c) \in Tables  BY <2>1, EmptyIs
  <2>4. /\ hashes' \in Seq(Tables) /\ Len(hashes') = n + 1 /\ DOMAIN hashes' = 1 .. n + 1
        /\ \A k \in DOMAIN hashes : hashes'[k] = hashes[k]
        /\ hashes'[n + 1] = EmptyTable(c)
    <3>1. hashes \in Seq(Tables)  BY DEF Inv, Types
    <3> QED  BY <1>2, <2>2, <2>3, <3>1
  <2>5. Grows(c)  BY <1>2, <2>4 DEF Grows
  <2>6. Kept /\ \A u \in Thread : KeysStay(u)  BY <2>1, <2>5, GrowsKeys
  <2>7. UNCHANGED <<producers, nextProducer, producerListTail>> /\ ProducersKept
    BY <1>1 DEF list, ProducersKept
  <2>8. Owned' /\ Once' /\ Agreed' /\ Paths' /\ Growing'
    BY <2>1, <2>5, <2>7, GrowTables DEF Inv
  <2>9. Types'
    <3>1. hashes' # <<>> /\ n + 1 \in Nat  BY <1>2, <2>4
    <3> QED  BY <1>1, <2>2, <2>4, <2>7, <3>1 DEF Inv, Types
  <2>10. LocalsAt(t)'
    <3>1. ~Known(t) /\ hash[t] = 0  BY <1>1, <1>4 DEF LocalsAt, Counting
    <3>2. ~Known(t)'  BY <2>6, <3>1, KnownStays
    <3> QED  BY <1>1, <1>2, <2>2, <2>4, <3>1, <3>2 DEF LocalsAt, Counting
  <2>11. ScansAt(t)'  BY <1>1 DEF ScansAt
  <2>12. \A u \in Thread : (Counting(u)' <=> Counting(u)) /\ newCount'[u] = newCount[u]
    BY <1>1 DEF Counting, Inv, Types
  <2>13. Tickets'  BY <1>1, <2>6, <2>12, StayTickets DEF Inv
  <2>14. ASSUME NEW p \in DOMAIN producers PROVE Linked(p)' <=> Linked(p)
    <3>1. \A u \in Thread : Linking(u, p)' <=> Linking(u, p)
      BY <1>1 DEF Linking, Inv, Types
    <3> QED  BY <2>7, <3>1 DEF Linked
  <2>15. List'  BY <2>7, <2>14, StayList DEF Inv
  <2>16. result'[t] = result[t]  BY <1>1
  <2>17. \A u \in Thread : pc[u] = "link" => nextProducer'[producer[u]] = nextProducer[producer[u]]
    BY <2>7
  <2> QED  BY <1>5, <2>6, <2>7, <2>8, <2>9, <2>10, <2>11, <2>13, <2>15, <2>16, <2>17, Together
<1>7. CASE ~HalfFull(t, n)
  <2>1. UNCHANGED hashes /\ mainHash' = [mainHash EXCEPT ![t] = n] /\ mainHash'[t] = n
    BY <1>7 DEF Resize, Inv, Types
  <2>2. Types'  BY <1>1, <1>2, <2>1 DEF list, Inv, Types
  <2>3. LocalsAt(t)'
    BY <1>1, <1>2, <1>4, <2>1 DEF LocalsAt, Counting, Known, Keys
  <2>4. ScansAt(t)'  BY <1>1 DEF ScansAt
  <2>5. Tickets'  BY <1>1, <1>5, <2>1, QuietTickets DEF Counting
  <2> QED  BY <1>1, <1>5, <2>1, <2>2, <2>3, <2>4, <2>5, Quiet
<1> QED  BY <1>6, <1>7

\* A new producer is not linked, whatever its link says.
LEMMA CreateProducerStep ==
  ASSUME Inv, NEW t \in Thread, CreateProducer(t)
  PROVE  Inv'
<1> PICK p : p = Len(producers) + 1  OBVIOUS
<1>1. /\ pc[t] = "fit" /\ UNCHANGED <<hashes, resizeInProgress, count>>
      /\ UNCHANGED <<mainHash, hash, index, newCount, result, producerListTail>>
      /\ pc'[t] = "link" /\ pc' = [pc EXCEPT ![t] = "link"]
      /\ prevTail'[t] = producerListTail /\ prevTail' = [prevTail EXCEPT ![t] = producerListTail]
      /\ producer'[t] = p /\ producer' = [producer EXCEPT ![t] = p]
      /\ newCount[t] < Limit(mainHash[t])
  BY DEF CreateProducer, Fits, Limit, LimitOf, Go, shared, Inv, Types
<1>2. /\ producers \in Seq(Thread) /\ nextProducer \in Seq(Nat) /\ Len(nextProducer) = Len(producers)
      /\ producerListTail \in Nat
  BY DEF Inv, Types
<1>3. /\ producers' = Append(producers, t) /\ nextProducer' = Append(nextProducer, producerListTail)
  BY DEF CreateProducer
<1>4. /\ producers' \in Seq(Thread) /\ nextProducer' \in Seq(Nat) /\ Len(nextProducer') = Len(producers')
      /\ DOMAIN producers' = DOMAIN producers \union {p} /\ p \notin DOMAIN producers
      /\ \A q \in DOMAIN producers : producers'[q] = producers[q] /\ nextProducer'[q] = nextProducer[q]
      /\ producers'[p] = t /\ nextProducer'[p] = producerListTail
      /\ p \in Nat \ {0}
  BY <1>2, <1>3
<1>5. Types'
  <2>1. pc' \in [Thread -> {"idle", "probe", "readd", "count", "loop", "resize", "giveup",
                          "unlock", "fit", "link", "insert"}]
    BY <1>1 DEF Inv, Types
  <2>2. prevTail' \in [Thread -> Nat] /\ producer' \in [Thread -> Nat]
    <3>1. prevTail \in [Thread -> Nat] /\ producer \in [Thread -> Nat]  BY DEF Inv, Types
    <3>2. p \in Nat /\ producerListTail \in Nat  BY <1>2, <1>4
    <3>3. /\ prevTail' = [prevTail EXCEPT ![t] = producerListTail]
          /\ producer' = [producer EXCEPT ![t] = p]
      BY <1>1
    <3> QED  BY <3>1, <3>2, <3>3
  <2>3. /\ UNCHANGED <<hashes, resizeInProgress, mainHash, hash, index, newCount, result>>
        /\ producerListTail' \in Nat
    BY <1>1, <1>2
  <2> QED  BY <1>4, <2>1, <2>2, <2>3 DEF Inv, Types
<1>6. ProducersKept  BY <1>4 DEF ProducersKept
<1>7. Kept /\ \A u : KeysStay(u)  BY <1>1, TablesStay
<1>8. Owned' /\ Once' /\ Agreed' /\ Paths' /\ Growing'  BY <1>1, <1>6, StayTables DEF Inv
<1>9. LocalsAt(t)'
  <2>1. LocalsAt(t)  BY DEF Inv, Locals
  <2>2. Limit(mainHash[t])' = Limit(mainHash[t]) /\ (Known(t)' <=> Known(t))
    BY <1>1 DEF Limit, Capacity, Known, Keys
  <2> QED  BY <1>1, <1>4, <2>1, <2>2 DEF LocalsAt, Counting
<1>10. ScansAt(t)'  BY <1>1 DEF ScansAt
<1>11. Continue(t)  BY DEF Continue
<1>12. Tickets'  BY <1>1, <1>11, QuietTickets DEF Counting
<1>13. ASSUME NEW q PROVE Linked(q)' <=> Linked(q)
  <2>1. CASE q = p
    <3>1. Linking(t, p)' /\ ~Linked(p)  BY <1>1, <1>4 DEF Linking, Linked
    <3> QED  BY <2>1, <3>1 DEF Linked
  <2>2. CASE q # p
    <3>1. ASSUME NEW u \in Thread PROVE Linking(u, q)' <=> Linking(u, q)
      BY <1>1, <2>2 DEF Linking, Inv, Types
    <3> QED  BY <1>4, <2>2, <3>1 DEF Linked
  <2> QED  BY <2>1, <2>2
<1>14. List'
  <2>1. producerListTail' # 0 => Linked(producerListTail)'  BY <1>1, <1>13 DEF Inv, List
  <2>2. ASSUME NEW q \in DOMAIN producers', Linked(q)', nextProducer'[q] # 0
        PROVE  Linked(nextProducer[q])'
    <3> PICK r : r = nextProducer'[q]  OBVIOUS
    <3>1. Linked(q) /\ q \in DOMAIN producers  BY <1>13, <2>2 DEF Linked
    <3>2. Linked(r)  BY <1>4, <2>2, <3>1 DEF Inv, List
    <3>3. Linked(r)'  BY <1>13, <3>2
    <3> QED  BY <3>3
  <2>3. ASSUME NEW S \in SUBSET DOMAIN producers', Closed(S)', NEW q \in DOMAIN producers', Linked(q)'
        PROVE  q \in S
    <3> DEFINE R == S \intersect DOMAIN producers
    <3>1. producerListTail \in R \union {0}
      BY <1>1, <2>3 DEF Closed, Inv, List, Linked
    <3>2. ASSUME NEW r \in R, Linked(r) PROVE nextProducer[r] \in R \union {0}
      <4>1. Linked(r)'  BY <1>13, <3>2
      <4>2. nextProducer[r] \in S \union {0}  BY <1>4, <2>3, <4>1 DEF Closed
      <4>3. nextProducer[r] # 0 => Linked(nextProducer[r])  BY <3>2 DEF Inv, List
      <4> QED  BY <4>2, <4>3 DEF Linked
    <3>3. Closed(R)  BY <3>1, <3>2 DEF Closed
    <3>4. Linked(q) /\ q \in DOMAIN producers  BY <1>13, <2>3 DEF Linked
    <3> QED  BY <3>3, <3>4 DEF Inv, List
  <2> QED  BY <2>1, <2>2, <2>3 DEF List
<1>15. ASSUME NEW u \in Thread, u # t, pc[u] = "link"
       PROVE  nextProducer'[producer[u]] = nextProducer[producer[u]]
  BY <1>4, <1>15 DEF Inv, Locals, LocalsAt
<1>16. result'[t] = result[t]  BY <1>1
<1> QED  BY <1>5, <1>6, <1>7, <1>8, <1>9, <1>10, <1>11, <1>12, <1>14, <1>15, <1>16, Together

LEMMA LinkStep ==
  ASSUME Inv, NEW t \in Thread, Link(t)
  PROVE  Inv'
<1> PICK p : p = producer[t]  OBVIOUS
<1>1. /\ pc[t] = "link" /\ UNCHANGED <<hashes, count, resizeInProgress, producers>>
      /\ UNCHANGED <<mainHash, hash, newCount, producer, result>>
  BY DEF Link, shared
<1>2. /\ p \in DOMAIN producers /\ producers[p] = t /\ newCount[t] < Limit(mainHash[t])
      /\ nextProducer[p] = prevTail[t] /\ ~Known(t) /\ hash[t] = 0
      /\ mainHash[t] # 0 /\ mainHash[t] \in 0 .. Len(hashes)
  BY <1>1 DEF Inv, Locals, LocalsAt, Counting
<1>3. /\ producers \in Seq(Thread) /\ nextProducer \in Seq(Nat) /\ Len(nextProducer) = Len(producers)
      /\ producerListTail \in Nat /\ DOMAIN nextProducer = DOMAIN producers /\ p \in Nat \ {0}
  <2>1. /\ producers \in Seq(Thread) /\ nextProducer \in Seq(Nat) /\ Len(nextProducer) = Len(producers)
        /\ producerListTail \in Nat
    BY DEF Inv, Types
  <2> QED  BY <1>2, <2>1
<1>4. Kept /\ (\A u : KeysStay(u)) /\ ProducersKept  BY <1>1, TablesStay DEF ProducersKept
<1>5. Owned' /\ Once' /\ Agreed' /\ Paths' /\ Growing'  BY <1>1, <1>4, StayTables DEF Inv
<1>6. ~Known(t)' /\ Limit(mainHash[t])' = Limit(mainHash[t])
  BY <1>1, <1>2 DEF Known, Keys, Limit, Capacity
<1>7. Continue(t)  BY DEF Continue
\* Nobody else is linking this producer.
<1>8. \A u \in Thread : pc[u] \in {"link", "insert"} /\ producer[u] = p => u = t
  BY <1>2 DEF Inv, Locals, LocalsAt
<1>9. CASE /\ producerListTail = prevTail[t] /\ producerListTail' = producer[t]
           /\ Go(t, "insert") /\ index' = [index EXCEPT ![t] = hash_thread_id[t]]
           /\ UNCHANGED <<nextProducer, prevTail>>
  <2>1. /\ pc' = [pc EXCEPT ![t] = "insert"] /\ pc'[t] = "insert" /\ index'[t] = hash_thread_id[t]
    BY <1>9 DEF Go, Inv, Types
  <2>2. Types'
    <3>1. hash_thread_id[t] \in Nat  BY HashAssumption
    <3> QED  BY <1>1, <1>3, <1>9, <2>1, <3>1 DEF Inv, Types
  <2>3. LocalsAt(t)'  BY <1>1, <1>2, <1>6, <1>9, <2>1 DEF LocalsAt, Counting
  <2>4. ScansAt(t)'
    <3> PICK m : m = mainHash[t]  OBVIOUS
    <3>1. m \in DOMAIN hashes'  BY <1>1, <1>2, OfTables DEF Inv, Locals
    <3>2. Scanned(t, m)' = {}  BY <2>1, <2>2, <3>1, BeginningNext
    <3>3. mainHash'[t] = m  BY <1>1
    <3> QED  BY <2>1, <3>2, <3>3 DEF ScansAt
  <2>5. Tickets'  BY <1>1, <1>7, <2>1, QuietTickets DEF Counting
  <2>6. \A q : Linked(q)' <=> Linked(q) \/ q = p
    <3>1. ASSUME NEW q, q # p PROVE Linked(q)' <=> Linked(q)
      <4>1. \A u \in Thread : Linking(u, q)' <=> Linking(u, q)
        BY <1>1, <2>1, <3>1 DEF Linking, Inv, Types
      <4> QED  BY <1>1, <4>1 DEF Linked
    <3>2. Linked(p)'
      <4>1. ASSUME NEW u \in Thread PROVE ~Linking(u, p)'
        BY <1>1, <1>8, <2>1 DEF Linking, Inv, Types
      <4> QED  BY <1>1, <1>2, <4>1 DEF Linked
    <3> QED  BY <3>1, <3>2
  <2>7. List'
    <3>1. Linked(producerListTail)'
      <4>1. producerListTail' = p  BY <1>9
      <4>2. Linked(p)'  BY <2>6
      <4> QED  BY <4>1, <4>2
    <3>2. ASSUME NEW q \in DOMAIN producers', Linked(q)', nextProducer'[q] # 0
          PROVE  Linked(nextProducer[q])'
      <4> PICK r : r = nextProducer'[q]  OBVIOUS
      <4>1. r = nextProducer[q]  BY <1>9
      <4>2. CASE q = p
        <5>1. r = producerListTail  BY <1>2, <1>9, <4>1, <4>2
        <5>2. Linked(r)  BY <3>2, <5>1 DEF Inv, List
        <5>3. Linked(r)'  BY <2>6, <5>2
        <5> QED  BY <5>3
      <4>3. CASE q # p
        <5>1. Linked(r)  BY <1>1, <2>6, <3>2, <4>1, <4>3 DEF Inv, List
        <5>2. Linked(r)'  BY <2>6, <5>1
        <5> QED  BY <5>2
      <4> QED  BY <4>2, <4>3
    <3>3. ASSUME NEW S \in SUBSET DOMAIN producers', Closed(S)', NEW q \in DOMAIN producers', Linked(q)'
          PROVE  q \in S
      <4>1. p \in S  BY <1>3, <1>9, <3>3 DEF Closed
      <4>2. nextProducer[p] \in S \union {0}  BY <1>9, <2>6, <3>3, <4>1 DEF Closed
      <4>3. producerListTail \in S \union {0}  BY <1>2, <1>9, <4>2
      <4>4. Closed(S)  BY <1>9, <2>6, <3>3, <4>3 DEF Closed
      <4>5. Linked(q) => q \in S  BY <1>1, <3>3, <4>4 DEF Inv, List
      <4> QED  BY <2>6, <3>3, <4>1, <4>5
    <3> QED  BY <3>1, <3>2, <3>3 DEF List
  <2>8. result'[t] = result[t]  BY <1>1
  <2>9. \A u \in Thread : u # t /\ pc[u] = "link" =>
          nextProducer'[producer[u]] = nextProducer[producer[u]]
    BY <1>9
  <2> QED  BY <1>4, <1>5, <1>7, <2>2, <2>3, <2>4, <2>5, <2>7, <2>8, <2>9, Together
<1>10. CASE /\ producerListTail # prevTail[t] /\ Relink(t)
            /\ prevTail' = [prevTail EXCEPT ![t] = producerListTail]
            /\ UNCHANGED <<producerListTail, pc, index>>
  <2>1. /\ nextProducer' = [nextProducer EXCEPT ![p] = producerListTail]
        /\ nextProducer'[p] = producerListTail /\ prevTail'[t] = producerListTail
        /\ \A q : q # p => nextProducer'[q] = nextProducer[q]
    BY <1>2, <1>3, <1>10 DEF Relink, Inv, Types
  <2>2. nextProducer' \in Seq(Nat) /\ Len(nextProducer') = Len(producers)
    BY <1>2, <1>3, <2>1
  <2>3. Types'
    <3>1. prevTail' \in [Thread -> Nat]  BY <1>3, <1>10 DEF Inv, Types
    <3> QED  BY <1>1, <1>10, <2>2, <3>1 DEF Inv, Types
  <2>4. LocalsAt(t)'  BY <1>1, <1>2, <1>6, <1>10, <2>1 DEF LocalsAt, Counting
  <2>5. ScansAt(t)'  BY <1>1, <1>10 DEF ScansAt
  <2>6. Tickets'  BY <1>1, <1>7, <1>10, QuietTickets DEF Counting
  <2>7. ~Linked(p)  BY <1>1 DEF Linked, Linking
  <2>8. \A q \in DOMAIN producers : Linked(q)' <=> Linked(q)
    BY <1>1, <1>10 DEF Linked, Linking
  <2>9. \A q \in DOMAIN producers : Linked(q) => nextProducer'[q] = nextProducer[q]
    BY <2>1, <2>7
  <2>10. List'  BY <1>1, <1>10, <2>8, <2>9, StayList DEF Inv
  <2>11. result'[t] = result[t]  BY <1>1
  <2>12. \A u \in Thread : u # t /\ pc[u] = "link" =>
           nextProducer'[producer[u]] = nextProducer[producer[u]]
    BY <1>8, <2>1
  <2> QED  BY <1>4, <1>5, <1>7, <2>3, <2>4, <2>5, <2>6, <2>10, <2>11, <2>12, Together
<1> QED  BY <1>9, <1>10 DEF Link

\* What is in a table stays in it.
LEMMA NextKept ==
  ASSUME Inv, [Next]_vars
  PROVE  Kept
<1>1. ASSUME UNCHANGED hashes PROVE Kept  BY <1>1, TablesStay
<1>2. ASSUME NEW t \in Thread, NEW p \in Nat, pc[t] # "idle", Claim(t, p) PROVE Kept
  <2>1. mainHash[t] \in DOMAIN hashes  BY <1>2, OfTables DEF Inv, Locals
  <2> QED  BY <1>2, <2>1, ClaimAdds, AddsKeys DEF Inv
<1>3. ASSUME NEW t \in Thread, ReAdd(t) PROVE Kept
  <2>1. CASE Taken(t, "readd")  BY <1>1, <2>1 DEF Taken, shared
  <2>2. CASE pc[t] = "readd" /\ Claim(t, FoundValue(t))
    <3>1. FoundValue(t) \in Nat  BY <2>2, FoundIs
    <3> QED  BY <1>2, <2>2, <3>1
  <2> QED  BY <1>3, <2>1, <2>2 DEF ReAdd
<1>4. ASSUME NEW t \in Thread, Insert(t) PROVE Kept
  <2>1. CASE Taken(t, "insert")  BY <1>1, <2>1 DEF Taken, shared
  <2>2. CASE pc[t] = "insert" /\ Claim(t, producer[t])
    <3>1. producer[t] \in Nat  BY DEF Inv, Types
    <3> QED  BY <1>2, <2>2, <3>1
  <2> QED  BY <1>4, <2>1, <2>2 DEF Insert
<1>5. ASSUME NEW t \in Thread, Resize(t) PROVE Kept
  <2> PICK T : hashes' = Append(hashes, T) \/ UNCHANGED hashes  BY <1>5 DEF Resize
  <2>1. CASE hashes' = Append(hashes, T)
    <3>1. hashes \in Seq(Tables)  BY DEF Inv, Types
    <3>2. DOMAIN hashes \subseteq DOMAIN hashes' /\ \A k \in DOMAIN hashes : hashes'[k] = hashes[k]
      BY <2>1, <3>1
    <3> QED  BY <3>2 DEF Kept
  <2> QED  BY <1>1, <2>1
<1>6. ASSUME NEW t \in Thread,
             \/ Call(t) \/ Found(t) \/ PassOver(t) \/ NotHere(t) \/ CountIn(t) \/ TestAndSet(t)
             \/ ResizeFails(t) \/ Unlock(t) \/ CreateProducer(t) \/ CreateFails(t) \/ Wait(t) \/ Link(t)
      PROVE  UNCHANGED hashes
  BY <1>6 DEF Call, Found, PassOver, NotHere, CountIn, TestAndSet, ResizeFails, Unlock,
     CreateProducer, CreateFails, Wait, Link, shared
<1>7. CASE UNCHANGED vars  BY <1>1, <1>7 DEF vars, shared
<1> QED  BY <1>1, <1>3, <1>4, <1>5, <1>6, <1>7 DEF Next, Continue

-----------------------------------------------------------------------------
\* The theorems

LEMMA InitInv == Init => Inv
<1> SUFFICES ASSUME Init PROVE Inv  OBVIOUS
<1> PICK c : c = INITIAL_IMPLICIT_PRODUCER_HASH_SIZE  OBVIOUS
<1>1. c \in Nat \ {0, 1}  BY HashAssumption
<1>2. hashes = <<EmptyTable(c)>> /\ EmptyTable(c) \in Tables  BY <1>1, EmptyIs DEF Init
<1>3. DOMAIN hashes = {1} /\ hashes[1] = EmptyTable(c) /\ hashes # <<>> /\ Len(hashes) = 1
  BY <1>2
<1>4. \A k \in DOMAIN hashes : \A i \in DOMAIN hashes[k] :
        hashes[k][i] = [key |-> invalid, value |-> invalid]
  BY <1>1, <1>3, EmptyIs
<1>5. \A t \in Thread : ~Known(t)
  <2>1. \A k \in DOMAIN hashes : \A i \in DOMAIN hashes[k] : hashes[k][i].key = invalid
    BY <1>4
  <2> QED  BY <2>1, HashAssumption DEF Known, Keys
<1>6. Types
  <2>1. hashes \in Seq(Tables)  BY <1>2
  <2>2. producers = <<>> /\ nextProducer = <<>>  BY DEF Init
  <2>3. producers \in Seq(Thread) /\ nextProducer \in Seq(Nat) /\ Len(nextProducer) = Len(producers)
    BY <2>2
  <2> QED  BY <1>3, <2>1, <2>3 DEF Init, Types
<1>7. Locals  BY <1>3 DEF Init, Locals, LocalsAt, Counting
<1>8. Owned /\ Once /\ Agreed /\ Paths  BY <1>4 DEF Owned, Once, Agreed, Paths
<1>9. Results /\ Scans  BY DEF Init, Results, Scans, ScansAt
<1>10. Tickets
  <2>1. Counted = {}  BY <1>5 DEF Init, Counted, Counting
  <2>2. \A n \in Nat : UpTo(n) = {}  BY <1>5 DEF Init, UpTo, HasUpTo, Counting, Known
  <2>3. Cardinality({}) = 0  BY FS_EmptySet
  <2>4. count = Cardinality(Counted)  BY <2>1, <2>3 DEF Init
  <2>5. \A n \in Nat : Cardinality(UpTo(n)) <= n  BY <2>2, <2>3
  <2> QED  BY <2>4, <2>5 DEF Tickets
<1>11. Growing
  <2>1. Capacity(1) \in Nat  BY <1>3, <1>6, HashIs
  <2> QED  BY <1>3, <2>1 DEF Growing
<1>12. List  BY DEF Init, List, Linked
<1> QED  BY <1>6, <1>7, <1>8, <1>9, <1>10, <1>11, <1>12 DEF Inv

LEMMA NextInv == Inv /\ [Next]_vars => Inv'
<1> SUFFICES ASSUME Inv, [Next]_vars PROVE Inv'  OBVIOUS
<1>1. ASSUME NEW t \in Thread, Call(t) \/ Continue(t) PROVE Inv'
  BY <1>1, CallStep, FoundStep, PassOverStep, NotHereStep, ReAddStep, CountInStep,
     TestAndSetStep, ResizeStep, ResizeFailsStep, UnlockStep, CreateProducerStep,
     CreateFailsStep, WaitStep, LinkStep, InsertStep DEF Continue
<1>2. CASE UNCHANGED vars
  <2>1. /\ UNCHANGED <<hashes, count, resizeInProgress, producers, nextProducer, producerListTail>>
        /\ UNCHANGED <<pc, mainHash, hash, index, newCount, producer, prevTail, result>>
    BY <1>2 DEF vars, shared, list, locals
  <2>2. \A k : Capacity(k)' = Capacity(k) /\ Keys(k)' = Keys(k)  BY <2>1 DEF Capacity, Keys
  <2>3. \A t : (Known(t)' <=> Known(t)) /\ (Counting(t)' <=> Counting(t))
    BY <2>1, <2>2 DEF Known, Counting
  <2>4. Types' /\ Owned' /\ Once' /\ Agreed'  BY <2>1 DEF Inv, Types, Owned, Once, Agreed
  <2>5. Locals'  BY <2>1, <2>2, <2>3 DEF Inv, Locals, LocalsAt, Limit
  <2>6. Results'  BY <2>1 DEF Inv, Results, Holds
  <2>7. Paths' /\ Scans'  BY <2>1, <2>2 DEF Inv, Paths, Scans, ScansAt, Scanned, Distance, At
  <2>8. Tickets'
    <3>1. \A u \in Thread : KeysStay(u)  BY <2>1, TablesStay
    <3> QED  BY <2>1, <2>3, <3>1, TablesStay, StayTickets DEF Inv
  <2>9. Growing'  BY <2>1, <2>2 DEF Inv, Growing
  <2>10. \A p : Linked(p)' <=> Linked(p)  BY <2>1 DEF Linked, Linking
  <2>11. List'  BY <2>1, <2>10, StayList DEF Inv
  <2> QED  BY <2>4, <2>5, <2>6, <2>7, <2>8, <2>9, <2>11 DEF Inv
<1> QED  BY <1>1, <1>2 DEF Next

LEMMA Invariant == Spec => []Inv
  BY InitInv, NextInv, PTL DEF Spec

\* The tables, the list and the locals of the calls are what they should be, and
\* implicitProducerHashCount is never more than the number of threads.
THEOREM TypesAreRight == Spec => []TypeOK
<1>1. Inv => TypeOK
  <2> SUFFICES ASSUME Inv PROVE TypeOK  OBVIOUS
  <2>1. \A k \in DOMAIN hashes : \A i \in DOMAIN hashes[k] :
          \/ hashes[k][i] = [key |-> invalid, value |-> invalid]
          \/ hashes[k][i].key \in Thread /\ hashes[k][i].value \in DOMAIN producers
    BY DEF Inv, Owned
  <2>2. count \in 0 .. Cardinality(Thread)
    <3>1. Counted \subseteq Thread  BY DEF Counted
    <3>2. IsFiniteSet(Counted) /\ Cardinality(Counted) <= Cardinality(Thread)
      BY <3>1, HashAssumption, FS_Subset
    <3>3. Cardinality(Counted) \in Nat /\ Cardinality(Thread) \in Nat
      BY <3>2, HashAssumption, FS_CardinalityType
    <3> QED  BY <3>2, <3>3 DEF Inv, Tickets
  <2>3. DOMAIN nextProducer = DOMAIN producers
    <3>1. producers \in Seq(Thread) /\ nextProducer \in Seq(Nat) /\ Len(nextProducer) = Len(producers)
      BY DEF Inv, Types
    <3> QED  BY <3>1
  <2>4. \A t \in Thread : mainHash[t] \in 0 .. Len(hashes) /\ hash[t] \in 0 .. mainHash[t]
    BY DEF Inv, Locals, LocalsAt
  <2> QED  BY <2>1, <2>2, <2>3, <2>4 DEF TypeOK, Inv, Types
<1> QED  BY <1>1, Invariant, PTL

\* However the calls overlap with the resizes, every table keeps an empty slot,
\* so that no search runs for ever, and every thread is counted once.
THEOREM NoTableIsFull == Spec => []NeverFull
<1>1. Inv => NeverFull
  <2> SUFFICES ASSUME Inv PROVE NeverFull  OBVIOUS
  <2>1. ASSUME NEW k \in DOMAIN hashes PROVE Cardinality(Occupied(k)) < Capacity(k)
    <3> DEFINE n == Limit(k) - 1
               f == [i \in Occupied(k) |-> hashes[k][i].key]
    <3>1. Capacity(k) \in Nat \ {0, 1}  BY HashIs DEF Inv
    <3>2. Limit(k) \in Nat \ {0} /\ Limit(k) <= Capacity(k)  BY <3>1, Limits DEF Limit
    <3>3. n \in Nat /\ Limit(k) <= n + 1 /\ n < Capacity(k)  BY <3>1, <3>2
    <3> HIDE DEF n
    <3>4. Keys(k) \subseteq Thread
      BY HashAssumption DEF Keys, Inv, Owned
    <3>5. Keys(k) \subseteq UpTo(n)  BY <3>3, <3>4 DEF UpTo, HasUpTo
    <3>6. IsFiniteSet(UpTo(n))  BY HashAssumption, FS_Subset DEF UpTo
    \* No two slots hold the same key, so a table has as many slots in use
    \* as keys.
    <3>7. \A i \in Occupied(k) : f[i] \in UpTo(n)
      <4> SUFFICES ASSUME NEW i \in Occupied(k) PROVE f[i] \in UpTo(n)  OBVIOUS
      <4>1. hashes[k][i].key \in Keys(k)  BY DEF Occupied, Keys
      <4> QED  BY <4>1, <3>5
    <3>8. \A i, j \in Occupied(k) : f[i] = f[j] => i = j
      BY DEF Occupied, Inv, Once
    <3>9. f \in Injection(Occupied(k), UpTo(n))
      BY <3>7, <3>8 DEF Injection, IsInjective
    <3> HIDE DEF f
    <3>10. IsFiniteSet(Occupied(k)) /\ Cardinality(Occupied(k)) <= Cardinality(UpTo(n))
      BY <3>6, <3>9, FS_Injection
    <3>11. Cardinality(UpTo(n)) \in Nat /\ Cardinality(Occupied(k)) \in Nat
      BY <3>6, <3>10, FS_CardinalityType
    <3>12. Cardinality(UpTo(n)) <= n  BY <3>3 DEF Inv, Tickets
    <3> QED  BY <3>1, <3>3, <3>10, <3>11, <3>12
  <2> DEFINE R == UNION {Keys(k) : k \in DOMAIN hashes}
             P == {t \in Thread : pc[t] \in {"loop", "resize", "unlock", "fit", "link", "insert"}}
             C == R \union P
  <2>2. Counted = C
    <3>1. \A k \in DOMAIN hashes : Keys(k) \subseteq Thread
      BY HashAssumption DEF Keys, Inv, Owned
    <3>2. \A t : t \in R <=> \E k \in DOMAIN hashes : t \in Keys(k)  OBVIOUS
    <3>3. \A t : t \in P <=> t \in Thread /\ Counting(t)  BY DEF Counting
    <3> HIDE DEF R, P
    <3>4. \A t : t \in R <=> t \in Thread /\ Known(t)  BY <3>1, <3>2 DEF Known
    <3> QED  BY <3>3, <3>4 DEF Counted
  <2> HIDE DEF C
  <2>3. count = Cardinality(C)  BY <2>2 DEF Inv, Tickets
  <2> QED  BY <2>1, <2>3 DEF NeverFull, C
<1> QED  BY <1>1, Invariant, PTL

\* A thread has one producer in all tables, and no other thread has it.
THEOREM OneProducerEach == Spec => []OneProducer
<1>1. Inv => OneProducer
  <2> SUFFICES ASSUME Inv PROVE OneProducer  OBVIOUS
  <2>1. ASSUME NEW t \in Thread, result[t] # 0
        PROVE  /\ producers[result[t]] = t
               /\ \A k \in DOMAIN hashes : \A i \in DOMAIN hashes[k] :
                    hashes[k][i].key = t => hashes[k][i].value = result[t]
    <3> PICK k \in DOMAIN hashes : \E i \in DOMAIN hashes[k] :
               hashes[k][i] = [key |-> t, value |-> result[t]]
      BY <2>1 DEF Inv, Results, Holds
    <3> PICK i \in DOMAIN hashes[k] : hashes[k][i] = [key |-> t, value |-> result[t]]
      OBVIOUS
    <3>1. hashes[k][i].key = t /\ hashes[k][i].value = result[t]  OBVIOUS
    <3>2. producers[result[t]] = t  BY <3>1, EntryIs DEF Inv
    <3> QED  BY <3>1, <3>2 DEF Inv, Agreed
  <2> QED  BY <2>1 DEF OneProducer, Inv, Once
<1> QED  BY <1>1, Invariant, PTL

\* A thread gets the producer that it got before, whoever replaced the table
\* in between.
THEOREM AlwaysTheSame == Spec => SameProducer
<1>1. ASSUME Inv, Inv', NEW t \in Thread, result[t] # 0, [Next]_vars
      PROVE  result'[t] = result[t]
  <2>1. result'[t] # 0
    <3>1. CASE UNCHANGED vars  BY <1>1, <3>1 DEF vars
    <3>2. ASSUME NEW u \in Thread, Call(u) \/ Continue(u), u # t PROVE result'[t] # 0
      BY <1>1, <3>2, OthersStay DEF Stays, Inv
    <3>3. ASSUME NEW v \in Nat \ {0}, Return(t, v) PROVE result'[t] # 0
      BY <1>1, <3>3, ReturnIs DEF Inv
    <3>4. CASE Found(t)
      <4>1. CASE hash[t] = mainHash[t]
        <5> PICK k : k = hash[t]  OBVIOUS
        <5>1. k \in DOMAIN hashes  BY <1>1, <3>4, OfTables DEF Found, Inv, Locals, LocalsAt
        <5>2. At(t, k) \in DOMAIN hashes[k]  BY <1>1, <5>1, HashIs DEF Inv
        <5>3. Probed(t) = hashes[k][At(t, k)] /\ Probed(t).key = t  BY <3>4 DEF Found, Probed
        <5>4. Probed(t).value \in Nat \ {0}  BY <1>1, <5>1, <5>2, <5>3, EntryIs DEF Inv
        <5> QED  BY <3>3, <3>4, <4>1, <5>4 DEF Found
      <4>2. CASE hash[t] # mainHash[t]  BY <1>1, <3>4, <4>2 DEF Found
      <4> QED  BY <4>1, <4>2
    <3>5. CASE ReAdd(t)
      <4>1. CASE Taken(t, "readd")  BY <1>1, <4>1 DEF Taken
      <4>2. CASE pc[t] = "readd" /\ Return(t, FoundValue(t))
        <5>1. FoundValue(t) \in DOMAIN producers /\ producers \in Seq(Thread)
          BY <1>1, <4>2, FoundIs DEF Inv, Types
        <5> QED  BY <3>3, <4>2, <5>1
      <4> QED  BY <3>5, <4>1, <4>2 DEF ReAdd
    <3>6. CASE Insert(t)
      <4>1. CASE Taken(t, "insert")  BY <1>1, <4>1 DEF Taken
      <4>2. CASE pc[t] = "insert" /\ Return(t, producer[t])
        <5>1. producer[t] \in DOMAIN producers /\ producers \in Seq(Thread)
          BY <1>1, <4>2 DEF Inv, Locals, LocalsAt, Types
        <5> QED  BY <3>3, <4>2, <5>1
      <4> QED  BY <3>6, <4>1, <4>2 DEF Insert
    <3>7. CASE \/ Call(t) \/ PassOver(t) \/ NotHere(t) \/ CountIn(t) \/ TestAndSet(t) \/ Resize(t)
               \/ ResizeFails(t) \/ Unlock(t) \/ CreateProducer(t) \/ CreateFails(t) \/ Wait(t) \/ Link(t)
      BY <1>1, <3>7 DEF Call, PassOver, NotHere, CountIn, TestAndSet, Resize, ResizeFails, Unlock,
         CreateProducer, CreateFails, Fail, Wait, Link
    <3> QED  BY <1>1, <3>1, <3>2, <3>4, <3>5, <3>6, <3>7 DEF Next, Continue
  <2> PICK p : p = result[t]  OBVIOUS
  <2> PICK q : q = result'[t]  OBVIOUS
  <2>2. Holds(t, q)'  BY <1>1, <2>1 DEF Inv, Results
  <2>3. Holds(t, p)'
    <3>1. Holds(t, p)  BY <1>1 DEF Inv, Results
    <3> QED  BY <1>1, <3>1, NextKept, Remembered
  <2> QED  BY <1>1, <2>2, <2>3 DEF Inv, Agreed, Holds
<1>2. Inv /\ Inv' /\ [Next]_vars => [\A t \in Thread : result[t] # 0 => result'[t] = result[t]]_result
  BY <1>1
<1> QED  BY <1>2, Invariant, PTL DEF Spec, SameProducer

\* The consumer can walk to every producer that a call has returned.
THEOREM AllOnTheList == Spec => []OnTheList
<1>1. Inv => OnTheList
  <2> SUFFICES ASSUME Inv, NEW t \in Thread, result[t] # 0, NEW S \in SUBSET DOMAIN producers,
                      producerListTail \in S \union {0},
                      \A p \in S : nextProducer[p] \in S \union {0}
               PROVE  result[t] \in S
    BY DEF OnTheList
  <2> PICK k \in DOMAIN hashes : \E i \in DOMAIN hashes[k] :
             hashes[k][i] = [key |-> t, value |-> result[t]]
    BY DEF Inv, Results, Holds
  <2> PICK i \in DOMAIN hashes[k] : hashes[k][i] = [key |-> t, value |-> result[t]]  OBVIOUS
  <2>1. hashes[k][i].key = t /\ hashes[k][i].value = result[t]  OBVIOUS
  <2>2. result[t] \in DOMAIN producers /\ producers[result[t]] = t /\ t \in Keys(k)
    BY <2>1, EntryIs DEF Inv
  <2>3. \A u \in Thread : ~Linking(u, result[t])
    BY <2>2 DEF Inv, Locals, LocalsAt, Linking, Counting, Known
  <2>4. Linked(result[t])  BY <2>2, <2>3 DEF Linked
  <2>5. Closed(S)  BY DEF Closed
  <2> QED  BY <2>2, <2>4, <2>5 DEF Inv, List
<1> QED  BY <1>1, Invariant, PTL
=============================================================================
