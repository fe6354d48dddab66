----------------------------- MODULE AofProofs -----------------------------
(***************************************************************************)
(* The append-only file keeps the order of the SETs and misses none of     *)
(* them, and what was flushed survives the first crash: for any number of  *)
(* SETs and any number of pieces a record can be cut into.                 *)
(***************************************************************************)
EXTENDS AofLog, TLAPS, SequenceTheorems, FiniteSetTheorems

-----------------------------------------------------------------------------
(* Arithmetic.  Nth(i) is the i-th piece of the encoding of all SETs.      *)
Nth(i) == [set |-> ((i - 1) \div Parts) + 1, part |-> ((i - 1) % Parts) + 1]

LEMMA EncodingNth == \A n : Encoding(n) = [i \in 1 .. n * Parts |-> Nth(i)]
BY DEF Encoding, Nth

LEMMA DivMod ==
    ASSUME NEW g \in Nat, NEW s \in Nat \ {0}
    PROVE  /\ g \div s \in Nat /\ g % s \in 0 .. s - 1
           /\ g = (g \div s) * s + (g % s)
OBVIOUS

LEMMA MulBelow ==
    ASSUME NEW a \in Int, NEW b \in Int, NEW s \in Nat \ {0}, a * s < b * s
    PROVE  a < b
<1>1. CASE a >= b
  <2>1. a - b >= 0 /\ a - b \in Int  BY <1>1
  <2>2. (a - b) * s >= 0  BY <2>1
  <2>3. (a - b) * s = a * s - b * s  OBVIOUS
  <2> QED  BY <2>2, <2>3
<1> QED  BY <1>1

LEMMA DivUnique ==
    ASSUME NEW a \in Nat, NEW s \in Nat \ {0}, NEW x \in 0 .. s - 1
    PROVE  (a * s + x) \div s = a /\ (a * s + x) % s = x
<1> DEFINE g == a * s + x
           q == g \div s
           y == g % s
<1>1. g \in Nat
  <2>1. a * s \in Nat  OBVIOUS
  <2> QED  BY <2>1
<1>2. q \in Nat /\ y \in 0 .. s - 1 /\ g = q * s + y  BY <1>1, DivMod
<1>3. g = a * s + x  OBVIOUS
<1> HIDE DEF g, q, y
<1>4. q * s \in Int /\ a * s \in Int  BY <1>2
<1>5. (a + 1) * s = a * s + s /\ (q + 1) * s = q * s + s  BY <1>2
<1>6. q * s < (a + 1) * s /\ a * s < (q + 1) * s  BY <1>2, <1>3, <1>4, <1>5
<1>7. q < a + 1 /\ a < q + 1  BY <1>2, <1>6, MulBelow
<1>8. q = a  BY <1>2, <1>7
<1>9. y = x  BY <1>2, <1>3, <1>4, <1>8
<1> QED  BY <1>8, <1>9 DEF g, q, y

LEMMA NthOfRecord ==
    ASSUME NEW n \in Nat, NEW p \in 1 .. Parts
    PROVE  /\ Nth(n * Parts + p) = [set |-> n + 1, part |-> p]
           /\ Record(n + 1)[p] = Nth(n * Parts + p)
<1>1. Parts \in Nat \ {0}  BY AofAssumption
<1>2. p - 1 \in 0 .. Parts - 1  BY <1>1
<1>3. /\ (n * Parts + (p - 1)) \div Parts = n
      /\ (n * Parts + (p - 1)) % Parts = p - 1
  BY <1>1, <1>2, DivUnique
<1>4. (n * Parts + p) - 1 = n * Parts + (p - 1)
  <2>1. n * Parts \in Nat  BY <1>1
  <2> QED  BY <1>1, <2>1
<1>5. (p - 1) + 1 = p  BY <1>1
<1>6. Nth(n * Parts + p) = [set |-> n + 1, part |-> p]  BY <1>3, <1>4, <1>5 DEF Nth
<1> QED  BY <1>6 DEF Record

(* Where the last piece of a record stands.                                *)
LEMMA LastPiece ==
    ASSUME NEW i \in Nat \ {0}, Nth(i).part = Parts
    PROVE  Nth(i).set \in Nat \ {0} /\ i = Nth(i).set * Parts
<1>1. Parts \in Nat \ {0} /\ i - 1 \in Nat  BY AofAssumption
<1> DEFINE q == (i - 1) \div Parts
<1>2. q \in Nat /\ (i - 1) % Parts \in 0 .. Parts - 1 /\ i - 1 = q * Parts + ((i - 1) % Parts)
  BY <1>1, DivMod
<1>3. ((i - 1) % Parts) + 1 = Parts /\ Nth(i).set = q + 1  BY DEF Nth
<1> HIDE DEF q
<1>4. (q + 1) * Parts = q * Parts + Parts /\ q * Parts \in Nat  BY <1>1, <1>2
<1>5. i = (q + 1) * Parts  BY <1>1, <1>2, <1>3, <1>4
<1> QED  BY <1>2, <1>3, <1>5

-----------------------------------------------------------------------------
(* What was set, in the file, on its way there, and still to be flushed.   *)
Log == file \o Unwritten \o aof_active

AofTypes ==
    /\ sets \in 0 .. MaxSets
    /\ aof_active \in Seq(Piece) /\ aof_flush \in Seq(Piece) /\ file \in Seq(Piece)
    /\ aof_in_flight \in BOOLEAN
    /\ res \in {None, Failed} \cup 0 .. Len(aof_flush)
    /\ ~aof_in_flight => res = None
    /\ crashes \in Nat
    /\ ~running => crashes > 0
    /\ res = Failed => troubles # {}

(* Without a missing sqe nothing is left behind in aof_flush.              *)
Settled == "sqe" \notin troubles => aof_in_flight \/ aof_flush = <<>>

LEMMA RecordType ==
    ASSUME NEW s \in 1 .. MaxSets
    PROVE  Record(s) \in Seq(Piece) /\ Len(Record(s)) = Parts
<1>1. Parts \in Nat \ {0}  BY AofAssumption
<1>2. Record(s) \in [1 .. Parts -> Piece]  BY DEF Record, Piece
<1>3. Record(s) \in Seq(Piece)  BY <1>1, <1>2, SeqDef
<1>4. DOMAIN Record(s) = 1 .. Parts  BY DEF Record
<1>5. DOMAIN Record(s) = 1 .. Len(Record(s)) /\ Len(Record(s)) \in Nat  BY <1>3, LenProperties
<1> QED  BY <1>1, <1>3, <1>4, <1>5

LEMMA CutType ==
    ASSUME NEW q \in Seq(Piece), NEW k \in 0 .. Len(q)
    PROVE  /\ SubSeq(q, 1, k) \in Seq(Piece) /\ Len(SubSeq(q, 1, k)) = k
           /\ \A i \in 1 .. k : SubSeq(q, 1, k)[i] = q[i]
           /\ Remainder(q, k) \in Seq(Piece) /\ Len(Remainder(q, k)) = Len(q) - k
           /\ \A i \in 1 .. Len(q) - k : Remainder(q, k)[i] = q[k + i]
           /\ SubSeq(q, 1, k) \o Remainder(q, k) = q
<1>1. Len(q) \in Nat /\ \A i \in 1 .. Len(q) : q[i] \in Piece  BY LenProperties, ElementOfSeq
<1>2. k \in Int /\ k + 1 \in Int /\ k <= Len(q)  BY <1>1
<1>3. /\ SubSeq(q, 1, k) \in Seq(Piece)
      /\ Len(SubSeq(q, 1, k)) = IF 1 <= k THEN k - 1 + 1 ELSE 0
      /\ \A i \in 1 .. k - 1 + 1 : SubSeq(q, 1, k)[i] = q[1 + i - 1]
  BY <1>1, <1>2, SubSeqProperties
<1>4. /\ SubSeq(q, k + 1, Len(q)) \in Seq(Piece)
      /\ Len(SubSeq(q, k + 1, Len(q))) = IF k + 1 <= Len(q) THEN Len(q) - (k + 1) + 1 ELSE 0
      /\ \A i \in 1 .. Len(q) - (k + 1) + 1 : SubSeq(q, k + 1, Len(q))[i] = q[k + 1 + i - 1]
  BY <1>1, <1>2, SubSeqProperties
<1>5. SubSeq(q, 1, k) \o SubSeq(q, k + 1, Len(q)) = SubSeq(q, 1, Len(q))
  <2>1. 1 \in 1 .. Len(q) + 1 /\ k \in 1 - 1 .. Len(q) /\ Len(q) \in k .. Len(q)  BY <1>1, <1>2
  <2> QED  BY <2>1, ConcatAdjacentSubSeq
<1>6. SubSeq(q, 1, Len(q)) = q  BY SubSeqFull
<1>7. Len(SubSeq(q, 1, k)) = k /\ \A i \in 1 .. k : SubSeq(q, 1, k)[i] = q[i]
  BY <1>2, <1>3
<1>8. /\ Len(SubSeq(q, k + 1, Len(q))) = Len(q) - k
      /\ \A i \in 1 .. Len(q) - k : SubSeq(q, k + 1, Len(q))[i] = q[k + i]
  BY <1>1, <1>2, <1>4
<1> QED  BY <1>3, <1>4, <1>5, <1>6, <1>7, <1>8 DEF Remainder

LEMMA UnwrittenType == AofTypes => Unwritten \in Seq(Piece)
<1> SUFFICES ASSUME AofTypes PROVE Unwritten \in Seq(Piece)  OBVIOUS
<1>1. CASE res \in {None, Failed}  BY <1>1 DEF Unwritten, AofTypes
<1>2. CASE res \notin {None, Failed}
  <2>1. res \in 0 .. Len(aof_flush) /\ aof_flush \in Seq(Piece)  BY <1>2 DEF AofTypes
  <2> QED  BY <1>2, <2>1, CutType DEF Unwritten
<1> QED  BY <1>1, <1>2

LEMMA InitTypes == Init => AofTypes /\ Settled
<1> SUFFICES ASSUME Init PROVE AofTypes /\ Settled  OBVIOUS
<1>1. <<>> \in Seq(Piece)  BY EmptySeq
<1>2. sets = 0 /\ 0 \in 0 .. MaxSets /\ crashes = 0 /\ running = TRUE /\ aof_in_flight = FALSE
      /\ res = None /\ res # Failed
  BY AofAssumption DEF Init, Failed
<1>3. aof_active = <<>> /\ aof_flush = <<>> /\ file = <<>>  BY DEF Init
<1>4. AofTypes  BY <1>1, <1>2, <1>3 DEF AofTypes
<1>5. Settled  BY <1>3 DEF Settled
<1> QED  BY <1>4, <1>5

LEMMA NextTypes == AofTypes /\ [Next]_vars => AofTypes'
<1> SUFFICES ASSUME AofTypes, [Next]_vars PROVE AofTypes'  OBVIOUS
<1>0. <<>> \in Seq(Piece) /\ Len(aof_flush) \in Nat /\ None \notin Int
      /\ Failed \in Int /\ Failed < 0
  BY EmptySeq, LenProperties, AofAssumption DEF AofTypes, Failed
<1>1. CASE Set
  <2>1. sets + 1 \in 1 .. MaxSets  BY <1>1, AofAssumption DEF Set, AofTypes
  <2>2. Record(sets + 1) \in Seq(Piece)  BY <2>1, RecordType
  <2>3. aof_active \o Record(sets + 1) \in Seq(Piece)  BY <2>2, ConcatProperties DEF AofTypes
  <2> QED  BY <1>1, <2>1, <2>3 DEF Set, AofTypes
<1>2. CASE Flush
  <2>1. res = None  BY <1>2 DEF Flush, MayFlush, AofTypes
  <2> QED  BY <1>2, <2>1 DEF Flush, AofTypes
<1>3. ASSUME NEW k \in 1 .. Len(aof_flush), KernelWrites(k) PROVE AofTypes'
  <2>1. k \in 0 .. Len(aof_flush)  BY <1>0
  <2>2. SubSeq(aof_flush, 1, k) \in Seq(Piece)  BY <2>1, CutType DEF AofTypes
  <2>3. file \o SubSeq(aof_flush, 1, k) \in Seq(Piece)  BY <2>2, ConcatProperties DEF AofTypes
  <2> QED  BY <1>0, <1>3, <2>1, <2>3 DEF KernelWrites, AofTypes
<1>4. CASE KernelFails
  <2>1. res' = Failed /\ aof_in_flight /\ troubles' # {}  BY <1>4 DEF KernelFails
  <2>2. UNCHANGED <<sets, aof_active, aof_flush, aof_in_flight, file, running, crashes>>
    BY <1>4 DEF KernelFails
  <2> QED  BY <2>1, <2>2 DEF AofTypes
<1>5. CASE HandleFailure  BY <1>0, <1>5 DEF HandleFailure, Completion, AofTypes
<1>6. CASE HandlePartial
  <2>1. res \in 0 .. Len(aof_flush)  BY <1>0, <1>6 DEF HandlePartial
  <2>2. Remainder(aof_flush, res) \in Seq(Piece)  BY <2>1, CutType DEF AofTypes
  <2> QED  BY <1>0, <1>6, <2>2 DEF HandlePartial, Completion, AofTypes
<1>7. CASE HandleComplete  BY <1>0, <1>7 DEF HandleComplete, Completion, AofTypes
<1>8. CASE Crash
  <2>1. /\ aof_active' = <<>> /\ aof_flush' = <<>> /\ aof_in_flight' = FALSE /\ res' = None
        /\ crashes' = crashes + 1 /\ UNCHANGED <<sets, file>>
    BY <1>8 DEF Crash
  <2>2. crashes + 1 \in Nat /\ crashes + 1 > 0  BY DEF AofTypes
  <2> QED  BY <1>0, <2>1, <2>2 DEF AofTypes
<1>9. CASE Restart  BY <1>9 DEF Restart, AofTypes
<1>10. CASE UNCHANGED vars  BY <1>10 DEF vars, AofTypes
<1> QED  BY <1>1, <1>2, <1>3, <1>4, <1>5, <1>6, <1>7, <1>8, <1>9, <1>10 DEF Next, Kernel, Handle

LEMMA NextSettles == AofTypes /\ Settled /\ [Next]_vars => Settled'
<1> SUFFICES ASSUME AofTypes, Settled, [Next]_vars PROVE Settled'  OBVIOUS
<1>1. CASE Set \/ Flush \/ KernelFails  BY <1>1 DEF Set, Flush, KernelFails, Settled, AofTypes
<1>2. CASE \E k \in 1 .. Len(aof_flush) : KernelWrites(k)  BY <1>2 DEF KernelWrites, Settled
<1>3. CASE HandleFailure  BY <1>3 DEF HandleFailure, Settled
<1>4. CASE HandlePartial  BY <1>4 DEF HandlePartial, Settled
<1>5. CASE HandleComplete  BY <1>5 DEF HandleComplete, Settled
<1>6. CASE Crash  BY <1>6 DEF Crash, Settled
<1>7. CASE Restart  BY <1>7 DEF Restart, Settled
<1>8. CASE UNCHANGED vars  BY <1>8 DEF vars, Settled
<1> QED  BY <1>1, <1>2, <1>3, <1>4, <1>5, <1>6, <1>7, <1>8 DEF Next, Kernel, Handle

-----------------------------------------------------------------------------
(* What a step makes of the log: nothing; one record more; or, when a      *)
(* write fails or the process dies, what was not written is dropped.       *)
Dropped(q, r) ==
    \E a, b, c \in Seq(Piece) : q = a \o b \o c /\ r \in {a, a \o c}

LogStep ==
    \/ Log' = Log /\ sets' = sets
    \/ Log' = Log \o Record(sets + 1) /\ sets' = sets + 1
    \/ Dropped(Log, Log') /\ sets' = sets /\ (crashes' # 0 \/ troubles' # {})

LEMMA Joined ==
    \A a, b, c \in Seq(Piece) : (a \o b) \o c = a \o (b \o c)
BY ConcatAssociative

LEMMA LogType == AofTypes => Log \in Seq(Piece)
<1> SUFFICES ASSUME AofTypes PROVE Log \in Seq(Piece)  OBVIOUS
<1>1. Unwritten \in Seq(Piece)  BY UnwrittenType
<1>2. file \o Unwritten \in Seq(Piece)  BY <1>1, ConcatProperties DEF AofTypes
<1> QED  BY <1>2, ConcatProperties DEF Log, AofTypes

LEMMA NextLog == AofTypes /\ Settled /\ "sqe" \notin troubles' /\ [Next]_vars => LogStep
<1> SUFFICES ASSUME AofTypes, Settled, "sqe" \notin troubles', [Next]_vars PROVE LogStep  OBVIOUS
<1>0. /\ aof_active \in Seq(Piece) /\ aof_flush \in Seq(Piece) /\ file \in Seq(Piece)
      /\ Unwritten \in Seq(Piece) /\ <<>> \in Seq(Piece)
      /\ Len(aof_flush) \in Nat /\ None \notin Int /\ Failed \in Int /\ Failed < 0
  BY UnwrittenType, EmptySeq, LenProperties, AofAssumption DEF AofTypes, Failed
<1>1. CASE Set
  <2>1. /\ aof_active' = aof_active \o Record(sets + 1) /\ sets' = sets + 1
        /\ UNCHANGED <<aof_flush, res, file>>
    BY <1>1 DEF Set
  <2>2. Unwritten' = Unwritten  BY <2>1 DEF Unwritten
  <2>3. sets + 1 \in 1 .. MaxSets  BY <1>1, AofAssumption DEF Set, AofTypes
  <2>4. Record(sets + 1) \in Seq(Piece)  BY <2>3, RecordType
  <2>5. file \o Unwritten \in Seq(Piece)  BY <1>0, ConcatProperties
  <2>6. (file \o Unwritten) \o (aof_active \o Record(sets + 1))
           = ((file \o Unwritten) \o aof_active) \o Record(sets + 1)
    BY <1>0, <2>4, <2>5, Joined
  <2> QED  BY <2>1, <2>2, <2>6 DEF LogStep, Log
<1>2. CASE Flush
  <2>1. ~aof_in_flight /\ aof_flush = <<>> /\ res = None
    BY <1>2 DEF Flush, MayFlush, Settled, AofTypes
  <2>2. /\ aof_active' = <<>> /\ aof_flush' = aof_active /\ UNCHANGED <<res, file, sets>>
    BY <1>2, <2>1 DEF Flush
  <2>3. Unwritten = <<>> /\ Unwritten' = aof_active  BY <2>1, <2>2 DEF Unwritten
  <2>4. file \o <<>> = file /\ (file \o aof_active) \in Seq(Piece)
    BY <1>0, ConcatEmptySeq, ConcatProperties
  <2>5. (file \o aof_active) \o <<>> = file \o aof_active  BY <2>4, ConcatEmptySeq
  <2> QED  BY <2>2, <2>3, <2>4, <2>5 DEF LogStep, Log
<1>3. ASSUME NEW k \in 1 .. Len(aof_flush), KernelWrites(k) PROVE LogStep
  <2>1. /\ res = None /\ res' = k /\ file' = file \o SubSeq(aof_flush, 1, k)
        /\ UNCHANGED <<aof_active, aof_flush, sets>>
    BY <1>3 DEF KernelWrites
  <2>2. k \in 0 .. Len(aof_flush) /\ k \notin {None, Failed}  BY <1>0
  <2>3. Unwritten = aof_flush /\ Unwritten' = Remainder(aof_flush, k)
    BY <2>1, <2>2 DEF Unwritten
  <2>4. /\ SubSeq(aof_flush, 1, k) \in Seq(Piece) /\ Remainder(aof_flush, k) \in Seq(Piece)
        /\ SubSeq(aof_flush, 1, k) \o Remainder(aof_flush, k) = aof_flush
    BY <1>0, <2>2, CutType
  <2>5. (file \o SubSeq(aof_flush, 1, k)) \o Remainder(aof_flush, k) = file \o aof_flush
    <3> PICK s : s = SubSeq(aof_flush, 1, k)  OBVIOUS
    <3> PICK u : u = Remainder(aof_flush, k)  OBVIOUS
    <3>1. s \in Seq(Piece) /\ u \in Seq(Piece) /\ s \o u = aof_flush  BY <2>4
    <3>2. (file \o s) \o u = file \o (s \o u)
      <4>1. file \in Seq(Piece)  BY <1>0
      <4> QED  BY <3>1, <4>1, ConcatAssociative
    <3> QED  BY <3>1, <3>2
  <2> QED  BY <2>1, <2>3, <2>5 DEF LogStep, Log
<1>4. CASE KernelFails
  <2>1. res = None /\ res' = Failed /\ UNCHANGED <<aof_active, aof_flush, file, sets>>
    BY <1>4 DEF KernelFails
  <2>2. Unwritten' = Unwritten  BY <2>1 DEF Unwritten
  <2> QED  BY <2>1, <2>2 DEF LogStep, Log
<1>5. CASE HandleFailure
  <2>1. /\ res = Failed /\ res' = None /\ aof_flush' = <<>>
        /\ UNCHANGED <<aof_active, file, sets>>
    BY <1>5 DEF HandleFailure, Completion
  <2>2. Unwritten' = <<>>  BY <2>1 DEF Unwritten
  <2>3. Log' = file \o aof_active  BY <1>0, <2>1, <2>2, ConcatEmptySeq DEF Log
  <2>4. Dropped(Log, Log')  BY <1>0, <2>3 DEF Dropped, Log
  <2>5. troubles' # {}
    BY <1>5 DEF HandleFailure, AofTypes
  <2> QED  BY <2>1, <2>4, <2>5 DEF LogStep
<1>6. CASE HandlePartial
  <2>1. /\ res \in 0 .. Len(aof_flush) - 1 /\ res' = None /\ aof_flush' = Remainder(aof_flush, res)
        /\ UNCHANGED <<aof_active, file, sets>>
    BY <1>6 DEF HandlePartial, Completion
  <2>2. res \notin {None, Failed}  BY <1>0, <2>1
  <2>3. Unwritten' = Unwritten  BY <2>1, <2>2 DEF Unwritten
  <2> QED  BY <2>1, <2>3 DEF LogStep, Log
<1>7. CASE HandleComplete
  <2>1. /\ res # None /\ res >= Len(aof_flush) /\ res' = None /\ aof_flush' = <<>>
        /\ UNCHANGED <<aof_active, file, sets>>
    BY <1>7 DEF HandleComplete, Completion
  <2>2. res = Len(aof_flush) /\ res \notin {None, Failed}
    BY <1>0, <2>1 DEF AofTypes
  <2>3. Unwritten = <<>> /\ Unwritten' = <<>>
    <3>1. Unwritten = SubSeq(aof_flush, Len(aof_flush) + 1, Len(aof_flush))
      BY <2>2 DEF Unwritten, Remainder
    <3>2. SubSeq(aof_flush, Len(aof_flush) + 1, Len(aof_flush)) = <<>>  BY <1>0, SubSeqEmpty
    <3> QED  BY <2>1, <3>1, <3>2 DEF Unwritten
  <2> QED  BY <2>1, <2>3 DEF LogStep, Log
<1>8. CASE Crash
  <2>1. /\ aof_active' = <<>> /\ aof_flush' = <<>> /\ res' = None
        /\ crashes' = crashes + 1 /\ UNCHANGED <<sets, file>>
    BY <1>8 DEF Crash
  <2>2. Unwritten' = <<>>  BY <2>1 DEF Unwritten
  <2>3. Log' = file  BY <1>0, <2>1, <2>2, ConcatEmptySeq DEF Log
  <2>4. Dropped(Log, Log')  BY <1>0, <2>3 DEF Dropped, Log
  <2>5. crashes' # 0  BY <2>1 DEF AofTypes
  <2> QED  BY <2>1, <2>4, <2>5 DEF LogStep
<1>9. CASE Restart \/ UNCHANGED vars
  <2>1. UNCHANGED <<aof_active, aof_flush, file, res, sets>>  BY <1>9 DEF Restart, vars
  <2>2. Unwritten' = Unwritten  BY <2>1 DEF Unwritten
  <2> QED  BY <2>1, <2>2 DEF LogStep, Log
<1> QED  BY <1>1, <1>2, <1>3, <1>4, <1>5, <1>6, <1>7, <1>8, <1>9 DEF Next, Kernel, Handle

-----------------------------------------------------------------------------
(* Sequences in order.                                                     *)
Ascending(q) == \A i, j \in DOMAIN q : i < j => Before(q[i], q[j])

AtMost(q, n) == \A i \in DOMAIN q : q[i].set <= n

LEMMA ConcatParts ==
    ASSUME NEW a \in Seq(Piece), NEW b \in Seq(Piece)
    PROVE  /\ a \o b \in Seq(Piece)
           /\ DOMAIN (a \o b) = 1 .. Len(a) + Len(b)
           /\ DOMAIN a = 1 .. Len(a) /\ DOMAIN b = 1 .. Len(b)
           /\ Len(a) \in Nat /\ Len(b) \in Nat
           /\ \A i \in 1 .. Len(a) : (a \o b)[i] = a[i]
           /\ \A i \in 1 .. Len(b) : (a \o b)[Len(a) + i] = b[i]
<1>1. /\ a \o b \in Seq(Piece) /\ Len(a \o b) = Len(a) + Len(b)
      /\ \A i \in 1 .. Len(a) + Len(b) :
            (a \o b)[i] = IF i <= Len(a) THEN a[i] ELSE b[i - Len(a)]
  BY ConcatProperties
<1>2. Len(a) \in Nat /\ Len(b) \in Nat /\ DOMAIN a = 1 .. Len(a) /\ DOMAIN b = 1 .. Len(b)
  BY LenProperties
<1>3. DOMAIN (a \o b) = 1 .. Len(a) + Len(b)  BY <1>1, LenProperties
<1>4. \A i \in 1 .. Len(a) : (a \o b)[i] = a[i]  BY <1>1, <1>2
<1>5. ASSUME NEW i \in 1 .. Len(b) PROVE (a \o b)[Len(a) + i] = b[i]
  <2>1. Len(a) + i \in 1 .. Len(a) + Len(b) /\ ~(Len(a) + i <= Len(a)) /\ Len(a) + i - Len(a) = i
    BY <1>2
  <2> QED  BY <1>1, <2>1
<1> QED  BY <1>1, <1>2, <1>3, <1>4, <1>5

(* An index of a concatenation is one of a part.                           *)
LEMMA ConcatSplit ==
    ASSUME NEW a \in Seq(Piece), NEW b \in Seq(Piece), NEW i \in DOMAIN (a \o b)
    PROVE  \/ i \in 1 .. Len(a) /\ (a \o b)[i] = a[i]
           \/ i - Len(a) \in 1 .. Len(b) /\ (a \o b)[i] = b[i - Len(a)]
<1>1. i \in 1 .. Len(a) + Len(b) /\ Len(a) \in Nat /\ Len(b) \in Nat  BY ConcatParts
<1>2. CASE i <= Len(a)  BY <1>1, <1>2, ConcatParts
<1>3. CASE ~(i <= Len(a))
  <2>1. i - Len(a) \in 1 .. Len(b) /\ Len(a) + (i - Len(a)) = i  BY <1>1, <1>3
  <2>2. (a \o b)[Len(a) + (i - Len(a))] = b[i - Len(a)]  BY <2>1, ConcatParts
  <2> QED  BY <2>1, <2>2
<1> QED  BY <1>2, <1>3

LEMMA AscendingParts ==
    ASSUME NEW a \in Seq(Piece), NEW b \in Seq(Piece)
    PROVE  Ascending(a \o b) <=>
             /\ Ascending(a) /\ Ascending(b)
             /\ \A i \in DOMAIN a, j \in DOMAIN b : Before(a[i], b[j])
<1>1. /\ DOMAIN (a \o b) = 1 .. Len(a) + Len(b)
      /\ DOMAIN a = 1 .. Len(a) /\ DOMAIN b = 1 .. Len(b)
      /\ Len(a) \in Nat /\ Len(b) \in Nat
      /\ \A i \in 1 .. Len(a) : (a \o b)[i] = a[i]
      /\ \A i \in 1 .. Len(b) : (a \o b)[Len(a) + i] = b[i]
  BY ConcatParts
<1>2. ASSUME Ascending(a \o b)
      PROVE  /\ Ascending(a) /\ Ascending(b)
             /\ \A i \in DOMAIN a, j \in DOMAIN b : Before(a[i], b[j])
  <2>1. Ascending(a)
    <3> SUFFICES ASSUME NEW i \in 1 .. Len(a), NEW j \in 1 .. Len(a), i < j
                 PROVE  Before(a[i], a[j])
      BY <1>1 DEF Ascending
    <3>1. i \in DOMAIN (a \o b) /\ j \in DOMAIN (a \o b)  BY <1>1
    <3> QED  BY <1>1, <1>2, <3>1 DEF Ascending
  <2>2. Ascending(b)
    <3> SUFFICES ASSUME NEW i \in 1 .. Len(b), NEW j \in 1 .. Len(b), i < j
                 PROVE  Before(b[i], b[j])
      BY <1>1 DEF Ascending
    <3>1. Len(a) + i \in DOMAIN (a \o b) /\ Len(a) + j \in DOMAIN (a \o b) /\ Len(a) + i < Len(a) + j
      BY <1>1
    <3> QED  BY <1>1, <1>2, <3>1 DEF Ascending
  <2>3. ASSUME NEW i \in 1 .. Len(a), NEW j \in 1 .. Len(b) PROVE Before(a[i], b[j])
    <3>1. i \in DOMAIN (a \o b) /\ Len(a) + j \in DOMAIN (a \o b) /\ i < Len(a) + j
      BY <1>1
    <3> QED  BY <1>1, <1>2, <3>1 DEF Ascending
  <2> QED  BY <1>1, <2>1, <2>2, <2>3
<1>3. ASSUME Ascending(a), Ascending(b),
             \A i \in DOMAIN a, j \in DOMAIN b : Before(a[i], b[j])
      PROVE  Ascending(a \o b)
  <2> SUFFICES ASSUME NEW i \in DOMAIN (a \o b), NEW j \in DOMAIN (a \o b), i < j
               PROVE  Before((a \o b)[i], (a \o b)[j])
    BY DEF Ascending
  <2>1. CASE i \in 1 .. Len(a) /\ (a \o b)[i] = a[i] /\ j \in 1 .. Len(a) /\ (a \o b)[j] = a[j]
    BY <1>1, <1>3, <2>1 DEF Ascending
  <2>2. CASE i \in 1 .. Len(a) /\ (a \o b)[i] = a[i]
             /\ j - Len(a) \in 1 .. Len(b) /\ (a \o b)[j] = b[j - Len(a)]
    BY <1>1, <1>3, <2>2
  <2>3. CASE i - Len(a) \in 1 .. Len(b) /\ (a \o b)[i] = b[i - Len(a)]
             /\ j - Len(a) \in 1 .. Len(b) /\ (a \o b)[j] = b[j - Len(a)]
    <3>1. i - Len(a) < j - Len(a)  BY <1>1
    <3> QED  BY <1>1, <1>3, <2>3, <3>1 DEF Ascending
  <2>4. CASE i - Len(a) \in 1 .. Len(b) /\ j \in 1 .. Len(a)
    BY <1>1, <2>4
  <2> QED  BY <2>1, <2>2, <2>3, <2>4, ConcatSplit
<1> QED  BY <1>2, <1>3

LEMMA AtMostParts ==
    ASSUME NEW a \in Seq(Piece), NEW b \in Seq(Piece), NEW n
    PROVE  AtMost(a \o b, n) <=> AtMost(a, n) /\ AtMost(b, n)
<1>1. /\ DOMAIN (a \o b) = 1 .. Len(a) + Len(b)
      /\ DOMAIN a = 1 .. Len(a) /\ DOMAIN b = 1 .. Len(b)
      /\ Len(a) \in Nat /\ Len(b) \in Nat
      /\ \A i \in 1 .. Len(a) : (a \o b)[i] = a[i]
      /\ \A i \in 1 .. Len(b) : (a \o b)[Len(a) + i] = b[i]
  BY ConcatParts
<1>2. ASSUME AtMost(a \o b, n) PROVE AtMost(a, n) /\ AtMost(b, n)
  <2>1. \A i \in 1 .. Len(a) : i \in DOMAIN (a \o b)  BY <1>1
  <2>2. \A i \in 1 .. Len(b) : Len(a) + i \in DOMAIN (a \o b)  BY <1>1
  <2> QED  BY <1>1, <1>2, <2>1, <2>2 DEF AtMost
<1>3. ASSUME AtMost(a, n), AtMost(b, n) PROVE AtMost(a \o b, n)
  BY <1>1, <1>3, ConcatSplit DEF AtMost
<1> QED  BY <1>2, <1>3

(* Dropping a part keeps the order.                                        *)
LEMMA DroppedKeeps ==
    ASSUME NEW q, NEW r, Dropped(q, r), NEW n
    PROVE  /\ Ascending(q) => Ascending(r)
           /\ AtMost(q, n) => AtMost(r, n)
<1> PICK a \in Seq(Piece), b \in Seq(Piece), c \in Seq(Piece) : q = a \o b \o c /\ r \in {a, a \o c}
  BY DEF Dropped
<1> PICK ab : ab = a \o b  OBVIOUS
<1>1. /\ ab \in Seq(Piece) /\ q = ab \o c /\ DOMAIN a \subseteq DOMAIN ab
      /\ \A i \in DOMAIN a : ab[i] = a[i]
  <2>1. /\ DOMAIN ab = 1 .. Len(a) + Len(b) /\ DOMAIN a = 1 .. Len(a)
        /\ Len(a) \in Nat /\ Len(b) \in Nat
        /\ \A i \in 1 .. Len(a) : ab[i] = a[i] /\ ab \in Seq(Piece)
    BY ConcatParts
  <2>2. ab \in Seq(Piece)  BY ConcatProperties
  <2> QED  BY <2>1, <2>2
<1>2. ASSUME Ascending(q) PROVE Ascending(r)
  <2>1. Ascending(ab) /\ Ascending(c) /\ \A i \in DOMAIN ab, j \in DOMAIN c : Before(ab[i], c[j])
    BY <1>1, <1>2, AscendingParts, ZenonT(30)
  <2>2. Ascending(a)  BY <2>1, AscendingParts
  <2>3. \A i \in DOMAIN a, j \in DOMAIN c : Before(a[i], c[j])  BY <1>1, <2>1
  <2>4. Ascending(a \o c)  BY <2>1, <2>2, <2>3, AscendingParts
  <2> QED  BY <2>2, <2>4
<1>3. ASSUME AtMost(q, n) PROVE AtMost(r, n)
  <2>0. ab \in Seq(Piece)  BY <1>1
  <2>1. AtMost(ab \o c, n)  BY <1>1, <1>3
  <2>2. AtMost(ab, n) /\ AtMost(c, n)
    <3>1. AtMost(ab \o c, n) <=> AtMost(ab, n) /\ AtMost(c, n)  BY <2>0, AtMostParts
    <3> QED  BY <2>1, <3>1
  <2>3. AtMost(a, n)
    <3>1. AtMost(a \o b, n) <=> AtMost(a, n) /\ AtMost(b, n)  BY AtMostParts
    <3> QED  BY <2>2, <3>1
  <2>4. AtMost(a \o c, n)
    <3>1. AtMost(a \o c, n) <=> AtMost(a, n) /\ AtMost(c, n)  BY AtMostParts
    <3> QED  BY <2>2, <2>3, <3>1
  <2> QED  BY <2>3, <2>4
<1> QED  BY <1>2, <1>3

(* So does a record of the next SET.                                       *)
LEMMA RecordNext ==
    ASSUME NEW q \in Seq(Piece), NEW n \in Nat, n + 1 \in 1 .. MaxSets,
           Ascending(q), AtMost(q, n)
    PROVE  Ascending(q \o Record(n + 1)) /\ AtMost(q \o Record(n + 1), n + 1)
<1> PICK s : s = Record(n + 1)  OBVIOUS
<1>1. /\ s \in Seq(Piece) /\ DOMAIN s = 1 .. Parts /\ Parts \in Nat
      /\ \A i \in 1 .. Parts : s[i].set = n + 1 /\ s[i].part = i
  BY RecordType, AofAssumption DEF Record
<1>2. Ascending(s)
  BY <1>1 DEF Ascending, Before
<1>3. \A i \in DOMAIN q : q[i].set \in Nat
  <2>1. DOMAIN q = 1 .. Len(q) /\ MaxSets \in Nat  BY LenProperties, AofAssumption
  <2>2. \A i \in 1 .. Len(q) : q[i] \in Piece  BY ElementOfSeq
  <2> QED  BY <2>1, <2>2 DEF Piece
<1>4. \A i \in DOMAIN q, j \in DOMAIN s : Before(q[i], s[j])
  BY <1>1, <1>3 DEF AtMost, Before
<1>5. Ascending(q \o s)  BY <1>1, <1>2, <1>4, AscendingParts
<1>6. AtMost(s, n + 1)  BY <1>1 DEF AtMost
<1>7. AtMost(q, n + 1)  BY <1>3 DEF AtMost
<1>8. AtMost(q \o s, n + 1)  BY <1>1, <1>6, <1>7, AtMostParts
<1> QED  BY <1>5, <1>8

LEMMA EncodingGrows ==
    ASSUME NEW n \in Nat, n + 1 \in 1 .. MaxSets, Encoding(n) \in Seq(Piece)
    PROVE  Encoding(n) \o Record(n + 1) = Encoding(n + 1)
<1> PICK e : e = Encoding(n)  OBVIOUS
<1> PICK s : s = Record(n + 1)  OBVIOUS
<1> PICK l : l = n * Parts  OBVIOUS
<1>1. Parts \in Nat \ {0} /\ l \in Nat /\ (n + 1) * Parts = l + Parts
  BY AofAssumption
<1>2. e = [i \in 1 .. l |-> Nth(i)] /\ Encoding(n + 1) = [i \in 1 .. l + Parts |-> Nth(i)]
  BY <1>1, EncodingNth
<1>3. s \in Seq(Piece) /\ Len(s) = Parts /\ \A p \in 1 .. Parts : s[p] = Nth(l + p)
  BY RecordType, NthOfRecord
<1>4. e \in Seq(Piece) /\ Len(e) = l
  <2>1. e \in Seq(Piece)  OBVIOUS
  <2>2. DOMAIN e = 1 .. Len(e) /\ Len(e) \in Nat  BY <2>1, LenProperties
  <2>3. DOMAIN e = 1 .. l  BY <1>2
  <2>4. \A i \in Int : 1 <= i /\ i <= Len(e) <=> 1 <= i /\ i <= l
    <3>1. 1 .. Len(e) = 1 .. l  BY <2>2, <2>3
    <3>2. \A i \in Int : (i \in 1 .. Len(e) <=> 1 <= i /\ i <= Len(e))
                       /\ (i \in 1 .. l <=> 1 <= i /\ i <= l)
      BY <1>1, <2>2
    <3> QED  BY <3>1, <3>2
  <2>5. Len(e) <= l /\ l <= Len(e)
    <3>1. Len(e) \in Int /\ l \in Int  BY <1>1, <2>2
    <3>2. CASE Len(e) = 0  BY <1>1, <2>4, <3>1, <3>2
    <3>3. CASE l = 0  BY <2>2, <2>4, <3>1, <3>3
    <3>4. CASE Len(e) # 0 /\ l # 0
      <4>1. 1 <= Len(e) /\ 1 <= l  BY <1>1, <2>2, <3>4
      <4>2. Len(e) <= l  BY <2>4, <3>1, <4>1
      <4>3. l <= Len(e)  BY <2>4, <3>1, <4>1
      <4> QED  BY <4>2, <4>3
    <3> QED  BY <3>2, <3>3, <3>4
  <2>6. l \in Nat  BY <1>1
  <2>7. Len(e) = l  BY <2>2, <2>5, <2>6
  <2> QED  BY <2>1, <2>7
<1>5. /\ DOMAIN (e \o s) = 1 .. l + Parts
      /\ e \o s \in Seq(Piece)
      /\ \A i \in 1 .. l : (e \o s)[i] = e[i]
      /\ \A i \in 1 .. Parts : (e \o s)[l + i] = s[i]
  BY <1>3, <1>4, ConcatParts, SMTT(25)
<1>6. \A i \in 1 .. l + Parts : (e \o s)[i] = Nth(i)
  <2> SUFFICES ASSUME NEW i \in 1 .. l + Parts PROVE (e \o s)[i] = Nth(i)  OBVIOUS
  <2>1. CASE i <= l
    <3>1. i \in 1 .. l  BY <1>1, <2>1
    <3> QED  BY <1>2, <1>5, <3>1
  <2>2. CASE ~(i <= l)
    <3>1. i - l \in 1 .. Parts /\ l + (i - l) = i  BY <1>1, <2>2
    <3>2. (e \o s)[l + (i - l)] = Nth(l + (i - l))  BY <1>3, <1>5, <3>1, ZenonT(30)
    <3> QED  BY <3>1, <3>2
  <2> QED  BY <2>1, <2>2
<1>7. e \o s = [i \in 1 .. l + Parts |-> (e \o s)[i]]
  <2>1. e \o s \in [1 .. Len(e \o s) -> Piece]  BY <1>5, LenProperties
  <2> QED  BY <1>5, <2>1
<1> QED  BY <1>2, <1>6, <1>7
-----------------------------------------------------------------------------
(* The inductive invariant: the types; the buffer that waits for no write  *)
(* is empty; the log is in order and holds no SET that was not executed;   *)
(* and it is the whole encoding of the SETs until something is dropped.    *)
OrderInv == "sqe" \notin troubles => Ascending(Log) /\ AtMost(Log, sets)

WholeInv == crashes = 0 /\ troubles = {} => Log = Encoding(sets)

AofInv == AofTypes /\ Settled /\ OrderInv /\ WholeInv

LEMMA InitLog == Init => OrderInv /\ WholeInv
<1> SUFFICES ASSUME Init PROVE OrderInv /\ WholeInv  OBVIOUS
<1>1. aof_active = <<>> /\ aof_flush = <<>> /\ file = <<>> /\ res = None /\ sets = 0
  BY DEF Init
<1>2. Unwritten = <<>>  BY <1>1 DEF Unwritten
<1>3. Log = <<>>
  <2>1. <<>> \in Seq(Piece)  BY EmptySeq
  <2>2. <<>> \o <<>> = <<>>  BY <2>1, ConcatEmptySeq
  <2>3. Log = (<<>> \o <<>>) \o <<>>  BY <1>1, <1>2 DEF Log
  <2> QED  BY <2>2, <2>3
<1>4. DOMAIN Log = {}  BY <1>3
<1>5. OrderInv  BY <1>4 DEF OrderInv, Ascending, AtMost
<1>6. Encoding(0) = <<>>
  <2>1. 0 * Parts = 0  BY AofAssumption
  <2>2. Encoding(0) = [i \in 1 .. 0 * Parts |-> Nth(i)]  BY EncodingNth
  <2>3. 1 .. 0 = {}  OBVIOUS
  <2> QED  BY <2>1, <2>2, <2>3
<1>7. WholeInv  BY <1>1, <1>3, <1>6 DEF WholeInv
<1> QED  BY <1>5, <1>7

(* What went wrong stays in the history.                                   *)
LEMMA Remembered ==
    AofTypes /\ [Next]_vars => troubles \subseteq troubles' /\ crashes <= crashes'
<1> SUFFICES ASSUME AofTypes, [Next]_vars
             PROVE  troubles \subseteq troubles' /\ crashes <= crashes'
  OBVIOUS
<1>0. crashes \in Nat  BY DEF AofTypes
<1>1. CASE Set \/ Flush  BY <1>0, <1>1 DEF Set, Flush
<1>2. CASE \E k \in 1 .. Len(aof_flush) : KernelWrites(k)  BY <1>0, <1>2 DEF KernelWrites
<1>3. CASE KernelFails  BY <1>0, <1>3 DEF KernelFails
<1>4. CASE HandleFailure  BY <1>0, <1>4 DEF HandleFailure, Completion
<1>5. CASE HandlePartial  BY <1>0, <1>5 DEF HandlePartial, Completion
<1>6. CASE HandleComplete  BY <1>0, <1>6 DEF HandleComplete, Completion
<1>7. CASE Crash  BY <1>0, <1>7 DEF Crash
<1>8. CASE Restart  BY <1>0, <1>8 DEF Restart
<1>9. CASE UNCHANGED vars  BY <1>0, <1>9 DEF vars
<1> QED  BY <1>1, <1>2, <1>3, <1>4, <1>5, <1>6, <1>7, <1>8, <1>9 DEF Next, Kernel, Handle

LEMMA NextOrder == AofInv /\ [Next]_vars => OrderInv'
<1> SUFFICES ASSUME AofInv, [Next]_vars, "sqe" \notin troubles'
             PROVE  Ascending(Log') /\ AtMost(Log', sets')
  BY DEF OrderInv, Ascending, AtMost
<1>1. AofTypes /\ Settled /\ AofTypes'  BY NextTypes DEF AofInv
<1>2. "sqe" \notin troubles  BY <1>1, Remembered
<1>3. Ascending(Log) /\ AtMost(Log, sets)  BY <1>2 DEF AofInv, OrderInv
<1>4. LogStep  BY <1>1, NextLog
<1>5. CASE Log' = Log /\ sets' = sets  BY <1>3, <1>5
<1>6. CASE Log' = Log \o Record(sets + 1) /\ sets' = sets + 1
  <2>1. Log \in Seq(Piece)  BY <1>1, LogType
  <2>2. sets \in Nat /\ sets + 1 \in 1 .. MaxSets
    <3>1. sets \in 0 .. MaxSets /\ sets' \in 0 .. MaxSets /\ MaxSets \in Nat
      BY <1>1, AofAssumption DEF AofTypes
    <3> QED  BY <1>6, <3>1
  <2>3. Ascending(Log \o Record(sets + 1)) /\ AtMost(Log \o Record(sets + 1), sets + 1)
    <3> PICK q : q = Log  OBVIOUS
    <3> PICK n : n = sets  OBVIOUS
    <3>1. q \in Seq(Piece) /\ n \in Nat /\ n + 1 \in 1 .. MaxSets  BY <2>1, <2>2
    <3>2. Ascending(q) /\ AtMost(q, n)  BY <1>3
    <3>3. Ascending(q \o Record(n + 1)) /\ AtMost(q \o Record(n + 1), n + 1)
      BY <3>1, <3>2, RecordNext
    <3> QED  BY <3>3
  <2> QED  BY <1>6, <2>3
<1>7. CASE Dropped(Log, Log') /\ sets' = sets
  <2> PICK q : q = Log  OBVIOUS
  <2> PICK r : r = Log'  OBVIOUS
  <2>1. Dropped(q, r)  BY <1>7
  <2>2. Ascending(q) /\ AtMost(q, sets)  BY <1>3
  <2>3. Ascending(q) => Ascending(r)  BY <2>1, DroppedKeeps
  <2>4. AtMost(q, sets) => AtMost(r, sets)  BY <2>1, DroppedKeeps
  <2> QED  BY <1>7, <2>2, <2>3, <2>4
<1> QED  BY <1>4, <1>5, <1>6, <1>7 DEF LogStep

LEMMA NextWhole == AofInv /\ [Next]_vars => WholeInv'
<1> SUFFICES ASSUME AofInv, [Next]_vars, crashes' = 0, troubles' = {}
             PROVE  Log' = Encoding(sets')
  BY DEF WholeInv, Encoding
<1>1. AofTypes /\ Settled /\ AofTypes'  BY NextTypes DEF AofInv
<1>2. crashes = 0 /\ troubles = {}
  <2>1. troubles \subseteq troubles' /\ crashes <= crashes' /\ crashes \in Nat
    BY <1>1, Remembered DEF AofTypes
  <2> QED  BY <2>1
<1>3. Log = Encoding(sets)  BY <1>2 DEF AofInv, WholeInv
<1>4. LogStep  BY <1>1, NextLog
<1>5. CASE Log' = Log /\ sets' = sets  BY <1>3, <1>5
<1>6. CASE Log' = Log \o Record(sets + 1) /\ sets' = sets + 1
  <2>1. Log \in Seq(Piece)  BY <1>1, LogType
  <2>2. sets \in Nat /\ sets + 1 \in 1 .. MaxSets
    <3>1. sets \in 0 .. MaxSets /\ sets' \in 0 .. MaxSets /\ MaxSets \in Nat
      BY <1>1, AofAssumption DEF AofTypes
    <3> QED  BY <1>6, <3>1
  <2>3. Encoding(sets) \o Record(sets + 1) = Encoding(sets + 1)
    BY <1>3, <2>1, <2>2, EncodingGrows
  <2> QED  BY <1>3, <1>6, <2>3
<1> QED  BY <1>4, <1>5, <1>6 DEF LogStep

LEMMA AofInvariant == Spec => []AofInv
<1>1. Init => AofInv  BY InitTypes, InitLog DEF AofInv
<1>2. AofInv /\ [Next]_vars => AofInv'
  BY NextTypes, NextSettles, NextOrder, NextWhole DEF AofInv
<1> QED  BY <1>1, <1>2, PTL DEF Spec

(* The file holds the SETs in the order they were executed, each piece at  *)
(* most once: no swap, partial write, failure or crash puts an older value *)
(* behind a newer one.                                                     *)
THEOREM FileIsInOrder == Spec => []PiecesInOrder
<1>1. AofInv => PiecesInOrder
  <2> SUFFICES ASSUME AofInv, "sqe" \notin troubles PROVE Ascending(file)
    BY DEF PiecesInOrder, Ascending
  <2>1. Ascending(Log) /\ AofTypes  BY DEF AofInv, OrderInv
  <2>2. Unwritten \in Seq(Piece) /\ file \in Seq(Piece) /\ aof_active \in Seq(Piece)
    BY <2>1, UnwrittenType DEF AofTypes
  <2> PICK u : u = Unwritten  OBVIOUS
  <2> PICK fu : fu = file \o u  OBVIOUS
  <2>3. fu \in Seq(Piece)  BY <2>2, ConcatProperties
  <2>4. Ascending(fu \o aof_active)  BY <2>1 DEF Log
  <2>5. Ascending(fu)  BY <2>2, <2>3, <2>4, AscendingParts
  <2>6. Ascending(file \o u)  BY <2>5
  <2> QED  BY <2>2, <2>6, AscendingParts
<1> QED  BY <1>1, AofInvariant, PTL

(* Until the first crash or trouble, the file, the rest of the write under *)
(* way and the active buffer are together the encoding of every SET.       *)
THEOREM NoSetIsMissing == Spec => []NothingMissing
<1>1. AofInv => NothingMissing  BY DEF AofInv, WholeInv, NothingMissing, Log
<1> QED  BY <1>1, AofInvariant, PTL
-----------------------------------------------------------------------------
(* A file that a first crash leaves is the beginning of the encoding of    *)
(* the SETs, cut anywhere.  What recovery makes of such a file.            *)
Regular(f) == \A i \in DOMAIN f : f[i] = Nth(i)

LEMMA MulNat == \A a, b \in Nat : a * b \in Nat
OBVIOUS

LEMMA MulMonotone ==
    ASSUME NEW a \in Nat, NEW b \in Nat, NEW s \in Nat, a <= b
    PROVE  a * s <= b * s
<1>1. b - a \in Nat  OBVIOUS
<1>2. (b - a) * s \in Nat  BY <1>1
<1>3. (b - a) * s = b * s - a * s  OBVIOUS
<1>4. a * s \in Int /\ b * s \in Int  OBVIOUS
<1> QED  BY <1>2, <1>3, <1>4

(* Every record that is there is intact.                                   *)
LEMMA RegularRecord ==
    ASSUME NEW f \in Seq(Piece), Regular(f), NEW j \in Nat \ {0}, j * Parts <= Len(f)
    PROVE  f[j * Parts] = [set |-> j, part |-> Parts] /\ IsRecord(f, j)
<1> PICK n : n = j - 1  OBVIOUS
<1> PICK m : m = n * Parts  OBVIOUS
<1>1. Parts \in Nat \ {0} /\ n \in Nat /\ n + 1 = j  BY AofAssumption
<1>2. m \in Nat /\ (n + 1) * Parts = m + Parts  BY <1>1
<1>3. j * Parts = m + Parts  BY <1>1, <1>2
<1>4. Len(f) \in Nat /\ DOMAIN f = 1 .. Len(f)  BY LenProperties
<1>5. \A p \in 1 .. Parts : m + p \in 1 .. Len(f)
  <2>1. m + Parts <= Len(f)  BY <1>3
  <2>2. Parts \in Nat /\ m \in Nat  BY <1>1, <1>2
  <2> QED  BY <1>4, <2>1, <2>2
<1>6. \A p \in 1 .. Parts :
        f[m + p] = [set |-> j, part |-> p] /\ Record(j)[p] = f[m + p]
  <2> SUFFICES ASSUME NEW p \in 1 .. Parts
               PROVE  f[m + p] = [set |-> j, part |-> p] /\ Record(j)[p] = f[m + p]
    OBVIOUS
  <2>1. Nth(n * Parts + p) = [set |-> n + 1, part |-> p]  BY <1>1, NthOfRecord
  <2>2. Record(n + 1)[p] = Nth(n * Parts + p)  BY <1>1, NthOfRecord
  <2>3. f[m + p] = Nth(m + p)  BY <1>4, <1>5 DEF Regular
  <2> QED  BY <1>1, <2>1, <2>2, <2>3
<1>7. f[m + Parts] = [set |-> j, part |-> Parts]
  <2>1. Parts \in 1 .. Parts  BY <1>1
  <2> QED  BY <1>6, <2>1
<1>8. SubSeq(f, m + 1, m + Parts) = Record(j)
  <2> PICK a : a = m + 1  OBVIOUS
  <2> PICK b : b = m + Parts  OBVIOUS
  <2> PICK s : s = SubSeq(f, a, b)  OBVIOUS
  <2>1. a \in Int /\ b \in Int  BY <1>1, <1>2
  <2>2. \A i \in a .. b : f[i] \in Piece
    <3>1. \A i \in 1 .. Len(f) : f[i] \in Piece  BY ElementOfSeq
    <3>2. \A i \in m + 1 .. m + Parts : i \in 1 .. Len(f)
      <4>1. m + Parts <= Len(f)  BY <1>3
      <4>2. Parts \in Nat /\ m \in Nat /\ Len(f) \in Nat  BY <1>1, <1>2, <1>4
      <4> QED  BY <4>1, <4>2, SMTT(25)
    <3> QED  BY <3>1, <3>2
  <2>3. /\ s \in Seq(Piece)
        /\ Len(s) = IF a <= b THEN b - a + 1 ELSE 0
        /\ \A i \in 1 .. b - a + 1 : s[i] = f[a + i - 1]
    BY <2>1, <2>2, SubSeqProperties, SMTT(25)
  <2>4. Parts \in Nat \ {0} /\ m \in Nat  BY <1>1, <1>2
  <2>5. Len(s) = Parts
    <3>1. a <= b /\ b - a + 1 = Parts  BY <2>4
    <3> QED  BY <2>3, <3>1
  <2>6. \A i \in 1 .. Parts : s[i] = f[m + i]
    <3> SUFFICES ASSUME NEW i \in 1 .. Parts PROVE s[i] = f[m + i]  OBVIOUS
    <3>1. i \in 1 .. b - a + 1 /\ a + i - 1 = m + i  BY <2>4
    <3> QED  BY <2>3, <3>1
  <2>7. s = [i \in 1 .. Parts |-> s[i]]
    <3>1. s \in [1 .. Len(s) -> Piece]  BY <2>3, LenProperties
    <3> QED  BY <2>5, <3>1
  <2>8. Record(j) = [i \in 1 .. Parts |-> Record(j)[i]]  BY DEF Record
  <2>9. \A i \in 1 .. Parts : s[i] = Record(j)[i]  BY <1>6, <2>6
  <2> QED  BY <2>7, <2>8, <2>9
<1>9. (j - 1) * Parts + 1 = m + 1  BY <1>1
<1>10. f[j * Parts] = [set |-> j, part |-> Parts]  BY <1>3, <1>7
<1>11. SubSeq(f, (j - 1) * Parts + 1, j * Parts) = Record(j)  BY <1>3, <1>8, <1>9
<1> QED  BY <1>10, <1>11 DEF IsRecord

(* How many records are whole.                                             *)
LEMMA WholeRecords ==
    ASSUME NEW f \in Seq(Piece)
    PROVE  /\ Len(f) \in Nat /\ Len(f) \div Parts \in Nat
           /\ \A j \in Nat \ {0} : j <= Len(f) \div Parts <=> j * Parts <= Len(f)
<1> PICK l : l = Len(f)  OBVIOUS
<1> PICK q : q = l \div Parts  OBVIOUS
<1> PICK y : y = l % Parts  OBVIOUS
<1>1. Parts \in Nat \ {0} /\ l \in Nat  BY AofAssumption, LenProperties
<1>2. q \in Nat /\ y \in 0 .. Parts - 1 /\ l = q * Parts + y  BY <1>1, DivMod
<1> PICK w : w = q * Parts  OBVIOUS
<1>3. w \in Nat /\ (q + 1) * Parts = w + Parts  BY <1>1, <1>2
<1>4. l = w + y /\ y >= 0 /\ y < Parts /\ y \in Int /\ Parts \in Int  BY <1>1, <1>2
<1>5. ASSUME NEW j \in Nat \ {0}, j <= q PROVE j * Parts <= l
  <2>1. j * Parts <= w  BY <1>1, <1>2, <1>5, MulMonotone
  <2>2. j * Parts \in Nat  BY <1>1
  <2> QED  BY <1>3, <1>4, <2>1, <2>2
<1>6. ASSUME NEW j \in Nat \ {0}, j * Parts <= l PROVE j <= q
  <2> PICK v : v = j * Parts  OBVIOUS
  <2>1. v \in Nat /\ v <= l  BY <1>1, <1>6
  <2>2. v < w + Parts  BY <1>3, <1>4, <2>1
  <2>3. j * Parts < (q + 1) * Parts  BY <1>3, <2>2
  <2>4. j \in Int /\ q + 1 \in Int  BY <1>2
  <2>5. j < q + 1  BY <1>1, <2>3, <2>4, MulBelow
  <2> QED  BY <1>2, <2>5
<1> QED  BY <1>1, <1>2, <1>5, <1>6

LEMMA RegularIntact ==
    ASSUME NEW f \in Seq(Piece), Regular(f)
    PROVE  Intact(f) = 1 .. Len(f) \div Parts
<1> PICK q : q = Len(f) \div Parts  OBVIOUS
<1>1. q \in Nat /\ \A j \in Nat \ {0} : j <= q => j * Parts <= Len(f)  BY WholeRecords
<1>2. \A j \in 1 .. q : IsRecord(f, j)
  <2> SUFFICES ASSUME NEW j \in 1 .. q PROVE IsRecord(f, j)  OBVIOUS
  <2>1. j \in Nat \ {0} /\ j <= q  BY <1>1
  <2>2. j * Parts <= Len(f)  BY <1>1, <2>1
  <2> QED  BY <2>1, <2>2, RegularRecord
<1>3. \A j \in 1 .. q : \A i \in 1 .. j : i \in 1 .. q  BY <1>1
<1> QED  BY <1>2, <1>3 DEF Intact

(* Nothing is recovered but SETs, and each of which the end is there.      *)
LEMMA RegularReplay ==
    ASSUME NEW f \in Seq(Piece), Regular(f)
    PROVE  Ended(f) \ Empties \subseteq Replayed(f) /\ 0 \notin Replayed(f)
<1> PICK q : q = Len(f) \div Parts  OBVIOUS
<1>1. q \in Nat /\ \A j \in Nat \ {0} : j <= q <=> j * Parts <= Len(f)  BY WholeRecords
<1>2. Replayed(f) = {f[j * Parts].set : j \in 1 .. q} \ Empties
  BY RegularIntact DEF Replayed
<1>3. \A j \in 1 .. q : f[j * Parts].set = j
  <2> SUFFICES ASSUME NEW j \in 1 .. q PROVE f[j * Parts].set = j  OBVIOUS
  <2>1. j \in Nat \ {0} /\ j <= q  BY <1>1
  <2>2. j * Parts <= Len(f)  BY <1>1, <2>1
  <2>3. f[j * Parts] = [set |-> j, part |-> Parts]  BY <2>1, <2>2, RegularRecord
  <2> QED  BY <2>3
<1>4. \A e \in Ended(f) : e \in 1 .. q
  <2> SUFFICES ASSUME NEW i \in DOMAIN f, f[i].part = Parts PROVE f[i].set \in 1 .. q
    BY DEF Ended
  <2>1. i \in Nat \ {0} /\ i <= Len(f)  BY LenProperties
  <2>2. f[i] = Nth(i)  BY DEF Regular
  <2>3. Nth(i).set \in Nat \ {0} /\ i = Nth(i).set * Parts  BY <2>1, <2>2, LastPiece
  <2> PICK e : e = Nth(i).set  OBVIOUS
  <2>4. e \in Nat \ {0} /\ e * Parts <= Len(f)  BY <2>1, <2>3
  <2>5. e <= q  BY <1>1, <2>4
  <2> QED  BY <1>1, <2>2, <2>4, <2>5
<1>5. 0 \notin 1 .. q  BY <1>1
<1> QED  BY <1>2, <1>3, <1>4, <1>5

(* The record that is cut is the last one.                                 *)
LEMMA RegularCut ==
    ASSUME NEW f \in Seq(Piece), Regular(f)
    PROVE  ~CutInside(f)
<1> PICK l : l = Len(f)  OBVIOUS
<1> PICK q : q = l \div Parts  OBVIOUS
<1> PICK y : y = l % Parts  OBVIOUS
<1>1. Parts \in Nat \ {0} /\ l \in Nat /\ DOMAIN f = 1 .. l  BY AofAssumption, LenProperties
<1>2. q \in Nat /\ y \in 0 .. Parts - 1 /\ l = q * Parts + y  BY <1>1, DivMod
<1> PICK w : w = q * Parts  OBVIOUS
<1>3. w \in Nat  BY <1>1, <1>2
<1>4. Cardinality(Intact(f)) = q
  <2>1. Intact(f) = 1 .. q  BY RegularIntact
  <2> PICK one : one = 1  OBVIOUS
  <2>0. one \in Int /\ q \in Int  BY <1>2
  <2>2. Cardinality(one .. q) = IF one > q THEN 0 ELSE q - one + 1  BY <2>0, FS_Interval
  <2>3. Cardinality(1 .. q) = q  BY <1>2, <2>2
  <2> QED  BY <2>1, <2>3
<1>5. ASSUME w + 1 <= l PROVE f[w + 1].set = f[l].set
  <2>1. 1 \in 1 .. Parts /\ y \in 1 .. Parts /\ w + 1 \in 1 .. l /\ l \in 1 .. l /\ l = w + y
    BY <1>1, <1>2, <1>3, <1>5
  <2>2. Nth(q * Parts + 1) = [set |-> q + 1, part |-> 1]  BY <1>2, <2>1, NthOfRecord
  <2>3. Nth(q * Parts + y) = [set |-> q + 1, part |-> y]  BY <1>2, <2>1, NthOfRecord
  <2>4. f[w + 1] = Nth(w + 1) /\ f[l] = Nth(w + y)  BY <1>1, <2>1 DEF Regular
  <2> QED  BY <2>2, <2>3, <2>4
<1> QED  BY <1>4, <1>5 DEF CutInside
-----------------------------------------------------------------------------
(* The SETs that end in a part of a sequence.                              *)
LEMMA EndedParts ==
    ASSUME NEW a \in Seq(Piece), NEW b \in Seq(Piece)
    PROVE  Ended(a \o b) = Ended(a) \cup Ended(b)
<1> PICK c : c = a \o b  OBVIOUS
<1>1. /\ DOMAIN c = 1 .. Len(a) + Len(b)
      /\ DOMAIN a = 1 .. Len(a) /\ DOMAIN b = 1 .. Len(b)
      /\ Len(a) \in Nat /\ Len(b) \in Nat
      /\ \A i \in 1 .. Len(a) : c[i] = a[i]
      /\ \A i \in 1 .. Len(b) : c[Len(a) + i] = b[i]
  BY ConcatParts
<1>2. \A i \in DOMAIN c : \/ i \in 1 .. Len(a) /\ c[i] = a[i]
                          \/ i - Len(a) \in 1 .. Len(b) /\ c[i] = b[i - Len(a)]
  BY ConcatSplit
<1>3. Ended(c) \subseteq Ended(a) \cup Ended(b)
  <2> SUFFICES ASSUME NEW i \in DOMAIN c, c[i].part = Parts
               PROVE  c[i].set \in Ended(a) \cup Ended(b)
    BY DEF Ended
  <2>1. CASE i \in DOMAIN a /\ c[i] = a[i]  BY <2>1 DEF Ended
  <2>2. CASE i - Len(a) \in DOMAIN b /\ c[i] = b[i - Len(a)]  BY <2>2 DEF Ended
  <2> QED  BY <1>1, <1>2, <2>1, <2>2
<1>4. Ended(a) \subseteq Ended(c)
  <2> SUFFICES ASSUME NEW i \in DOMAIN a, a[i].part = Parts PROVE a[i].set \in Ended(c)
    BY DEF Ended
  <2>1. i \in DOMAIN c /\ c[i] = a[i]  BY <1>1
  <2> QED  BY <2>1 DEF Ended
<1>5. Ended(b) \subseteq Ended(c)
  <2> SUFFICES ASSUME NEW i \in DOMAIN b, b[i].part = Parts PROVE b[i].set \in Ended(c)
    BY DEF Ended
  <2>1. Len(a) + i \in DOMAIN c /\ c[Len(a) + i] = b[i]  BY <1>1
  <2> QED  BY <2>1 DEF Ended
<1> QED  BY <1>3, <1>4, <1>5

LEMMA EndedCut ==
    ASSUME NEW q \in Seq(Piece), NEW k \in 0 .. Len(q)
    PROVE  Ended(q) = Ended(SubSeq(q, 1, k)) \cup Ended(Remainder(q, k))
<1> PICK a : a = SubSeq(q, 1, k)  OBVIOUS
<1> PICK b : b = Remainder(q, k)  OBVIOUS
<1>1. a \in Seq(Piece) /\ b \in Seq(Piece) /\ a \o b = q  BY CutType
<1> QED  BY <1>1, EndedParts

LEMMA EndedSmall ==
    /\ Ended(<<>>) = {}
    /\ \A s : Ended(Record(s)) \subseteq {s}
<1>1. DOMAIN <<>> = {}  OBVIOUS
<1>2. Ended(<<>>) = {}  BY <1>1 DEF Ended
<1>3. ASSUME NEW s PROVE Ended(Record(s)) \subseteq {s}
  <2>1. \A i \in DOMAIN Record(s) : Record(s)[i].set = s  BY DEF Record
  <2> QED  BY <2>1 DEF Ended
<1> QED  BY <1>2, <1>3

-----------------------------------------------------------------------------
(* What is needed for what survives: while the process runs, the engine    *)
(* holds what was flushed and what waits in the buffers; before the first  *)
(* crash, what was flushed, or will be when the completion is handled, is  *)
(* in the file; after it the file is the beginning of the encoding and    *)
(* nothing else is left.                                                   *)
Held == /\ Ended(aof_active) \cup Ended(aof_flush) \subseteq mem
        /\ flushed \ Empties \subseteq mem
        /\ 0 \notin mem

InFile == /\ flushed \subseteq Ended(file)
          /\ res \notin {None, Failed} => Ended(SubSeq(aof_flush, 1, res)) \subseteq Ended(file)

Left == /\ Regular(file) /\ flushed \subseteq Ended(file)
        /\ aof_flush = <<>> /\ aof_active = <<>> /\ ~aof_in_flight
        /\ mem = {}

SurviveInv == troubles = {} /\ crashes <= 1 =>
    /\ running => Held
    /\ crashes = 0 => running /\ InFile
    /\ ~running => Left

LEMMA InitSurvives == Init => SurviveInv
<1> SUFFICES ASSUME Init PROVE SurviveInv  OBVIOUS
<1>1. /\ mem = {} /\ aof_active = <<>> /\ aof_flush = <<>> /\ flushed = {}
      /\ res = None /\ running = TRUE
  BY DEF Init
<1>2. Held  BY <1>1, EndedSmall DEF Held
<1>3. InFile  BY <1>1 DEF InFile
<1> QED  BY <1>1, <1>2, <1>3 DEF SurviveInv

(* Before the first crash the file is the beginning of the encoding.       *)
LEMMA FileIsRegular ==
    ASSUME AofInv, crashes = 0, troubles = {}
    PROVE  Regular(file)
<1>1. Log = Encoding(sets) /\ AofTypes  BY DEF AofInv, WholeInv
<1> PICK u : u = Unwritten  OBVIOUS
<1> PICK fu : fu = file \o u  OBVIOUS
<1>2. u \in Seq(Piece) /\ file \in Seq(Piece) /\ aof_active \in Seq(Piece)
  BY <1>1, UnwrittenType DEF AofTypes
<1>3. fu \in Seq(Piece)  BY <1>2, ConcatProperties
<1>4. Log = fu \o aof_active  BY DEF Log
<1>5. /\ DOMAIN file = 1 .. Len(file) /\ Len(file) \in Nat /\ Len(u) \in Nat
      /\ DOMAIN (file \o u) = 1 .. Len(file) + Len(u)
      /\ \A i \in 1 .. Len(file) : (file \o u)[i] = file[i]
  BY <1>2, ConcatParts
<1>6. /\ DOMAIN fu = 1 .. Len(fu)
      /\ DOMAIN (fu \o aof_active) = 1 .. Len(fu) + Len(aof_active)
      /\ Len(fu) \in Nat /\ Len(aof_active) \in Nat
      /\ \A i \in 1 .. Len(fu) : (fu \o aof_active)[i] = fu[i]
  BY <1>2, <1>3, ConcatParts
<1>7. Encoding(sets) = [i \in 1 .. sets * Parts |-> Nth(i)]  BY EncodingNth
<1>8. ASSUME NEW i \in DOMAIN file PROVE file[i] = Nth(i)
  <2>1. i \in DOMAIN fu /\ fu[i] = file[i]  BY <1>5
  <2>2. i \in DOMAIN Log /\ Log[i] = fu[i]  BY <1>4, <1>6, <2>1
  <2> QED  BY <1>1, <1>7, <2>1, <2>2
<1> QED  BY <1>8 DEF Regular

LEMMA NextSurvives == AofInv /\ SurviveInv /\ [Next]_vars => SurviveInv'
<1> SUFFICES ASSUME AofInv, SurviveInv, [Next]_vars, troubles' = {}, crashes' <= 1
             PROVE  /\ running' => Held'
                    /\ crashes' = 0 => running' /\ InFile'
                    /\ ~running' => Left'
  BY DEF SurviveInv
<1>1. AofTypes /\ crashes \in Nat  BY DEF AofInv, AofTypes
<1>2. troubles = {} /\ crashes <= 1 /\ crashes <= crashes'
  <2>1. troubles \subseteq troubles' /\ crashes <= crashes'  BY <1>1, Remembered
  <2>2. crashes' \in Nat  BY <1>1, NextTypes DEF AofTypes
  <2> QED  BY <1>1, <2>1, <2>2
<1>3. /\ running => Held
      /\ crashes = 0 => running /\ InFile
      /\ ~running => Left
  BY <1>2 DEF SurviveInv
<1>4. /\ aof_active \in Seq(Piece) /\ aof_flush \in Seq(Piece) /\ file \in Seq(Piece)
      /\ Len(aof_flush) \in Nat /\ None \notin Int /\ Failed \in Int /\ Failed < 0
      /\ res # Failed /\ res \in {None, Failed} \cup 0 .. Len(aof_flush)
  BY <1>1, <1>2, LenProperties, AofAssumption DEF AofTypes, Failed
<1>5. CASE Set
  <2>1. /\ running /\ mem' = mem \cup {sets + 1} /\ aof_active' = aof_active \o Record(sets + 1)
        /\ UNCHANGED <<aof_flush, res, file, flushed, running, crashes>>
    BY <1>5 DEF Set
  <2>2. sets + 1 \in 1 .. MaxSets /\ sets + 1 # 0
    BY <1>1, <1>5, AofAssumption DEF Set, AofTypes
  <2>3. Record(sets + 1) \in Seq(Piece)  BY <2>2, RecordType
  <2>4. Ended(aof_active') \subseteq Ended(aof_active) \cup {sets + 1}
    <3>1. Ended(aof_active \o Record(sets + 1)) = Ended(aof_active) \cup Ended(Record(sets + 1))
      BY <1>4, <2>3, EndedParts
    <3>2. Ended(Record(sets + 1)) \subseteq {sets + 1}  BY EndedSmall
    <3> QED  BY <2>1, <3>1, <3>2
  <2>5. Ended(aof_flush') = Ended(aof_flush)  BY <2>1
  <2>6. Held'  BY <1>3, <2>1, <2>2, <2>4, <2>5 DEF Held
  <2>7. InFile' = InFile  BY <2>1 DEF InFile
  <2> QED  BY <1>3, <2>1, <2>6, <2>7
<1>6. CASE Flush
  <2>1. /\ running /\ ~aof_in_flight /\ aof_active' = aof_flush /\ aof_flush' = aof_active
        /\ UNCHANGED <<mem, res, file, flushed, running, crashes>>
    BY <1>6 DEF Flush, MayFlush
  <2>2. res = None  BY <1>1, <2>1 DEF AofTypes
  <2>3. Held'
    <3>1. Ended(aof_active') = Ended(aof_flush) /\ Ended(aof_flush') = Ended(aof_active)
      BY <2>1
    <3> QED  BY <1>3, <2>1, <3>1 DEF Held
  <2>4. InFile => InFile'  BY <2>1, <2>2 DEF InFile
  <2> QED  BY <1>3, <2>1, <2>3, <2>4
<1>7. ASSUME NEW k \in 1 .. Len(aof_flush), KernelWrites(k)
      PROVE  /\ running' => Held'
             /\ crashes' = 0 => running' /\ InFile'
             /\ ~running' => Left'
  <2>1. /\ aof_in_flight /\ res = None /\ res' = k /\ file' = file \o SubSeq(aof_flush, 1, k)
        /\ UNCHANGED <<mem, aof_active, aof_flush, flushed, running, crashes>>
    BY <1>7 DEF KernelWrites
  <2>2. running  BY <1>3, <2>1 DEF Left
  <2>3. Held' = Held  BY <2>1 DEF Held
  <2>4. k \in 0 .. Len(aof_flush)  BY <1>4
  <2> PICK s : s = SubSeq(aof_flush, 1, k)  OBVIOUS
  <2>5. s \in Seq(Piece)  BY <1>4, <2>4, CutType
  <2>6. Ended(file \o s) = Ended(file) \cup Ended(s)  BY <1>4, <2>5, EndedParts
  <2>7. Ended(file') = Ended(file) \cup Ended(s)  BY <2>1, <2>6
  <2>8. SubSeq(aof_flush', 1, res') = s  BY <2>1
  <2>9. InFile => InFile'  BY <2>1, <2>7, <2>8 DEF InFile
  <2> QED  BY <1>3, <2>1, <2>2, <2>3, <2>9
<1>8. CASE KernelFails
  <2>1. "write" \in troubles'  BY <1>8 DEF KernelFails
  <2> QED  BY <2>1
<1>9. CASE HandleFailure
  BY <1>4, <1>9 DEF HandleFailure
<1>10. CASE HandlePartial
  <2>1. /\ running /\ res \in 0 .. Len(aof_flush) - 1 /\ res' = None
        /\ aof_flush' = Remainder(aof_flush, res)
        /\ flushed' = flushed \cup Ended(SubSeq(aof_flush, 1, res))
        /\ UNCHANGED <<mem, aof_active, file, running, crashes>>
    BY <1>10 DEF HandlePartial, Completion
  <2>2. res \in 0 .. Len(aof_flush) /\ res \notin {None, Failed}  BY <1>4, <2>1
  <2>3. Ended(aof_flush) = Ended(SubSeq(aof_flush, 1, res)) \cup Ended(Remainder(aof_flush, res))
    BY <1>4, <2>2, EndedCut
  <2>4. Ended(aof_flush') = Ended(Remainder(aof_flush, res)) /\ Ended(aof_active') = Ended(aof_active)
    BY <2>1
  <2>5. Held'  BY <1>3, <2>1, <2>3, <2>4 DEF Held
  <2>6. InFile => InFile'
    <3>1. Ended(file') = Ended(file)  BY <2>1
    <3> QED  BY <2>1, <2>2, <3>1 DEF InFile
  <2> QED  BY <1>3, <2>1, <2>5, <2>6
<1>11. CASE HandleComplete
  <2>1. /\ running /\ res # None /\ res >= Len(aof_flush) /\ res' = None
        /\ aof_flush' = <<>> /\ flushed' = flushed \cup Ended(aof_flush)
        /\ UNCHANGED <<mem, aof_active, file, running, crashes>>
    BY <1>11 DEF HandleComplete, Completion
  <2>2. res = Len(aof_flush) /\ res \notin {None, Failed}  BY <1>4, <2>1
  <2>3. SubSeq(aof_flush, 1, res) = aof_flush  BY <1>4, <2>2, SubSeqFull
  <2>4. Ended(aof_flush') = {} /\ Ended(aof_active') = Ended(aof_active)  BY <2>1, EndedSmall
  <2>5. Held'  BY <1>3, <2>1, <2>4 DEF Held
  <2>6. InFile => InFile'
    <3>1. Ended(file') = Ended(file)  BY <2>1
    <3>2. InFile => Ended(aof_flush) \subseteq Ended(file)  BY <2>2, <2>3 DEF InFile
    <3> QED  BY <2>1, <3>1, <3>2 DEF InFile
  <2> QED  BY <1>3, <2>1, <2>5, <2>6
<1>12. CASE Crash
  <2>1. /\ crashes' = crashes + 1 /\ running' = FALSE /\ aof_active' = <<>> /\ aof_flush' = <<>>
        /\ aof_in_flight' = FALSE /\ mem' = {} /\ UNCHANGED <<file, flushed>>
    BY <1>12 DEF Crash
  <2>2. crashes = 0 /\ crashes' # 0  BY <1>1, <2>1
  <2>3. Regular(file)  BY <1>2, <2>2, FileIsRegular
  <2>4. Regular(file')  BY <2>1, <2>3
  <2>5. flushed' \subseteq Ended(file')  BY <1>3, <2>1, <2>2 DEF InFile
  <2>6. Left'  BY <2>1, <2>4, <2>5 DEF Left
  <2> QED  BY <2>1, <2>2, <2>6
<1>13. CASE Restart
  <2>1. /\ ~running /\ running' = TRUE
        /\ mem' \in {Replayed(file)} \cup
                      (IF CutInside(file) THEN {Replayed(file) \cup {0}} ELSE {})
        /\ UNCHANGED <<aof_active, aof_flush, file, flushed, crashes>>
    BY <1>13 DEF Restart
  <2>2. Left  BY <1>3, <2>1
  <2>3. Regular(file)  BY <2>2 DEF Left
  <2>4. ~CutInside(file)  BY <1>4, <2>3, RegularCut
  <2>5. mem' = Replayed(file)  BY <2>1, <2>4
  <2>6. Ended(file) \ Empties \subseteq Replayed(file) /\ 0 \notin Replayed(file)
    BY <1>4, <2>3, RegularReplay
  <2>7. Ended(aof_active') = {} /\ Ended(aof_flush') = {}  BY <2>1, <2>2, EndedSmall DEF Left
  <2>8. Held'  BY <2>1, <2>2, <2>5, <2>6, <2>7 DEF Held, Left
  <2>9. crashes' # 0  BY <1>3, <2>1
  <2> QED  BY <2>1, <2>8, <2>9
<1>14. CASE UNCHANGED vars
  <2>1. Held' = Held /\ InFile' = InFile /\ Left' = Left
    BY <1>14 DEF vars, Held, InFile, Left
  <2> QED  BY <1>3, <1>14, <2>1 DEF vars
<1> QED  BY <1>5, <1>6, <1>7, <1>8, <1>9, <1>10, <1>11, <1>12, <1>13, <1>14
         DEF Next, Kernel, Handle

LEMMA SurviveInvariant == Spec => []SurviveInv
<1>1. Init => SurviveInv  BY InitSurvives
<1>2. AofInv /\ SurviveInv /\ [Next]_vars => SurviveInv'  BY NextSurvives
<1> QED  BY <1>1, <1>2, AofInvariant, PTL DEF Spec

(* What was reported as written is in the engine again after the first     *)
(* crash, however its last write was cut: for any number of SETs and any   *)
(* number of places a record can be cut at.                                *)
THEOREM FlushedSurvivesCrash == Spec => []FlushedSurviveFirst
<1>1. SurviveInv => FlushedSurviveFirst
  BY DEF SurviveInv, FlushedSurviveFirst, FlushedSurvive, Held
<1> QED  BY <1>1, SurviveInvariant, PTL

(* And nothing is in the engine that was not set: no record that is cut is *)
(* completed with what comes behind it.                                    *)
THEOREM NothingMadeUp == Spec => []OnlyWhatWasSet
<1>1. AofInv /\ SurviveInv => OnlyWhatWasSet
  BY DEF SurviveInv, OnlyWhatWasSet, Held, Left
<1> QED  BY <1>1, AofInvariant, SurviveInvariant, PTL
-----------------------------------------------------------------------------
(* Type correctness.  What bounds res is how much there can be to write,   *)
(* and what bounds mem and flushed that no piece is of a later SET.        *)
Room == Len(aof_flush) + Len(aof_active) <= sets * Parts

NoLater == AtMost(file, sets) /\ AtMost(aof_flush, sets) /\ AtMost(aof_active, sets)

BoundInv == Room /\ NoLater /\ TypeOK

LEMMA AtMostLater ==
    ASSUME NEW q \in Seq(Piece), NEW n \in Nat, AtMost(q, n)
    PROVE  AtMost(q, n + 1)
<1>1. DOMAIN q = 1 .. Len(q) /\ MaxSets \in Nat  BY LenProperties, AofAssumption
<1>2. \A i \in 1 .. Len(q) : q[i] \in Piece  BY ElementOfSeq
<1>3. \A i \in DOMAIN q : q[i].set \in Nat  BY <1>1, <1>2 DEF Piece
<1> QED  BY <1>3 DEF AtMost

LEMMA AtMostEnded ==
    ASSUME NEW q \in Seq(Piece), NEW n \in Nat, AtMost(q, n)
    PROVE  Ended(q) \subseteq 1 .. n
<1>1. DOMAIN q = 1 .. Len(q) /\ MaxSets \in Nat  BY LenProperties, AofAssumption
<1>2. \A i \in 1 .. Len(q) : q[i] \in Piece  BY ElementOfSeq
<1>3. \A i \in DOMAIN q : q[i].set \in 1 .. MaxSets /\ q[i].set <= n
  BY <1>1, <1>2 DEF Piece, AtMost
<1>4. \A i \in DOMAIN q : q[i].set \in 1 .. n  BY <1>1, <1>3
<1> QED  BY <1>4 DEF Ended

LEMMA AtMostReplayed ==
    ASSUME NEW f \in Seq(Piece), NEW n \in Nat, AtMost(f, n)
    PROVE  Replayed(f) \subseteq 1 .. n
<1> PICK q : q = Len(f) \div Parts  OBVIOUS
<1>1. DOMAIN f = 1 .. Len(f) /\ MaxSets \in Nat /\ Parts \in Nat \ {0}
  BY LenProperties, AofAssumption
<1>2. \A i \in 1 .. Len(f) : f[i] \in Piece  BY ElementOfSeq
<1>3. \A i \in DOMAIN f : f[i].set \in 1 .. MaxSets /\ f[i].set <= n
  BY <1>1, <1>2 DEF Piece, AtMost
<1>4. /\ q \in Nat /\ Len(f) \in Nat
      /\ \A j \in Nat \ {0} : j <= q <=> j * Parts <= Len(f)
  BY WholeRecords
<1>5. ASSUME NEW j \in 1 .. q PROVE f[j * Parts].set \in 1 .. n
  <2>1. j \in Nat \ {0} /\ j <= q  BY <1>4
  <2>2. j * Parts <= Len(f)  BY <1>4, <2>1
  <2> PICK i : i = j * Parts  OBVIOUS
  <2>3. i \in Nat /\ i > 0  BY <1>1, <2>1
  <2>4. i \in DOMAIN f
    <3>1. i <= Len(f) /\ Len(f) \in Nat  BY <1>4, <2>2
    <3>2. i \in 1 .. Len(f)  BY <2>3, <3>1
    <3> QED  BY <1>1, <3>2
  <2>5. f[i].set \in 1 .. MaxSets /\ f[i].set <= n  BY <1>3, <2>4
  <2>6. f[i].set \in 1 .. n  BY <1>1, <2>5
  <2> QED  BY <2>6
<1>6. Intact(f) \subseteq 1 .. q  BY DEF Intact
<1> QED  BY <1>5, <1>6 DEF Replayed

LEMMA AtMostRemainder ==
    ASSUME NEW q \in Seq(Piece), NEW k \in 0 .. Len(q), NEW n, AtMost(q, n)
    PROVE  AtMost(SubSeq(q, 1, k), n) /\ AtMost(Remainder(q, k), n)
<1> PICK a : a = SubSeq(q, 1, k)  OBVIOUS
<1> PICK b : b = Remainder(q, k)  OBVIOUS
<1>1. a \in Seq(Piece) /\ b \in Seq(Piece) /\ a \o b = q  BY CutType
<1>2. AtMost(a \o b, n)  BY <1>1
<1>3. AtMost(a \o b, n) <=> AtMost(a, n) /\ AtMost(b, n)  BY <1>1, AtMostParts
<1> QED  BY <1>2, <1>3

LEMMA InitBounds == Init => BoundInv
<1> SUFFICES ASSUME Init PROVE BoundInv  OBVIOUS
<1>1. /\ sets = 0 /\ mem = {} /\ aof_active = <<>> /\ aof_flush = <<>> /\ aof_in_flight = FALSE
      /\ res = None /\ file = <<>> /\ flushed = {} /\ running = TRUE /\ crashes = 0 /\ troubles = {}
  BY DEF Init
<1>2. <<>> \in Seq(Piece) /\ Len(<<>>) = 0 /\ DOMAIN <<>> = {}  BY EmptySeq
<1>3. 0 * Parts = 0  BY AofAssumption
<1>4. Room  BY <1>1, <1>2, <1>3 DEF Room
<1>5. NoLater  BY <1>1, <1>2 DEF NoLater, AtMost
<1>6. 0 \in 0 .. MaxSets /\ 0 \in 0 .. MaxCrashes  BY AofAssumption
<1>7. TypeOK  BY <1>1, <1>2, <1>6 DEF TypeOK
<1> QED  BY <1>4, <1>5, <1>7 DEF BoundInv

LEMMA NextRoom ==
    ASSUME AofTypes, AofTypes', Room, [Next]_vars
    PROVE  Room'
<1>1. /\ aof_active \in Seq(Piece) /\ aof_flush \in Seq(Piece)
      /\ Len(aof_flush) \in Nat /\ Len(aof_active) \in Nat
      /\ Len(<<>>) = 0 /\ sets \in Nat /\ sets * Parts \in Nat
  BY LenProperties, AofAssumption DEF AofTypes
<1>2. CASE Set
  <2>1. aof_active' = aof_active \o Record(sets + 1) /\ aof_flush' = aof_flush /\ sets' = sets + 1
    BY <1>2 DEF Set
  <2>2. sets + 1 \in 1 .. MaxSets  BY <1>1, <1>2, AofAssumption DEF Set
  <2>3. Record(sets + 1) \in Seq(Piece) /\ Len(Record(sets + 1)) = Parts  BY <2>2, RecordType
  <2>4. Len(aof_active \o Record(sets + 1)) = Len(aof_active) + Len(Record(sets + 1))
    BY <1>1, <2>3, ConcatProperties
  <2>5. (sets + 1) * Parts = sets * Parts + Parts /\ Parts \in Nat  BY <1>1, AofAssumption
  <2> PICK w : w = sets * Parts  OBVIOUS
  <2>6. Len(aof_active') = Len(aof_active) + Parts /\ sets' * Parts = w + Parts
    BY <2>1, <2>3, <2>4, <2>5
  <2>7. Len(aof_flush) + Len(aof_active) <= w /\ w \in Nat  BY <1>1 DEF Room
  <2>8. Len(aof_flush) + (Len(aof_active) + Parts) <= w + Parts  BY <1>1, <2>5, <2>7
  <2> QED  BY <2>1, <2>6, <2>8 DEF Room
<1>3. CASE Flush
  <2>1. aof_active' = aof_flush /\ aof_flush' = aof_active /\ sets' = sets  BY <1>3 DEF Flush
  <2>2. Len(aof_active) + Len(aof_flush) = Len(aof_flush) + Len(aof_active)  BY <1>1
  <2> QED  BY <2>1, <2>2 DEF Room
<1>4. CASE HandleFailure \/ HandleComplete
  <2>1. aof_active' = aof_active /\ aof_flush' = <<>> /\ sets' = sets
    BY <1>4 DEF HandleFailure, HandleComplete, Completion
  <2>2. 0 + Len(aof_active) <= sets * Parts  BY <1>1 DEF Room
  <2>3. Len(aof_flush') = 0  BY <1>1, <2>1
  <2> QED  BY <2>1, <2>2, <2>3 DEF Room
<1>5. CASE HandlePartial
  <2>1. /\ aof_active' = aof_active /\ aof_flush' = Remainder(aof_flush, res) /\ sets' = sets
        /\ res \in 0 .. Len(aof_flush) - 1
    BY <1>5 DEF HandlePartial, Completion
  <2>2. res \in 0 .. Len(aof_flush)  BY <1>1, <2>1
  <2>3. Len(Remainder(aof_flush, res)) = Len(aof_flush) - res  BY <1>1, <2>2, CutType
  <2>4. (Len(aof_flush) - res) + Len(aof_active) <= sets * Parts  BY <1>1, <2>2 DEF Room
  <2>5. Len(aof_flush') = Len(aof_flush) - res  BY <2>1, <2>3
  <2> QED  BY <2>1, <2>4, <2>5 DEF Room
<1>6. CASE Crash
  <2>1. aof_active' = <<>> /\ aof_flush' = <<>> /\ sets' = sets  BY <1>6 DEF Crash
  <2>2. Len(aof_active') = 0 /\ Len(aof_flush') = 0 /\ sets' * Parts \in Nat  BY <1>1, <2>1
  <2> QED  BY <2>2 DEF Room
<1>7. CASE KernelFails \/ Restart \/ UNCHANGED vars
  BY <1>7 DEF KernelFails, Restart, vars, Room
<1>8. CASE \E k \in 1 .. Len(aof_flush) : KernelWrites(k)
  BY <1>8 DEF KernelWrites, Room
<1> QED  BY <1>2, <1>3, <1>4, <1>5, <1>6, <1>7, <1>8 DEF Next, Kernel, Handle

LEMMA NextNoLater ==
    ASSUME AofTypes, NoLater, [Next]_vars
    PROVE  NoLater'
<1>1. /\ aof_active \in Seq(Piece) /\ aof_flush \in Seq(Piece) /\ file \in Seq(Piece)
      /\ Len(aof_flush) \in Nat /\ sets \in Nat
      /\ AtMost(file, sets) /\ AtMost(aof_flush, sets) /\ AtMost(aof_active, sets)
  BY LenProperties DEF AofTypes, NoLater
<1>2. AtMost(<<>>, sets)
  <2>1. DOMAIN <<>> = {}  OBVIOUS
  <2> QED  BY <2>1 DEF AtMost
<1>3. CASE Set
  <2>1. /\ aof_active' = aof_active \o Record(sets + 1) /\ sets' = sets + 1
        /\ aof_flush' = aof_flush /\ file' = file
    BY <1>3 DEF Set
  <2>2. sets + 1 \in 1 .. MaxSets  BY <1>1, <1>3, AofAssumption DEF Set
  <2> PICK s : s = Record(sets + 1)  OBVIOUS
  <2>3. s \in Seq(Piece)  BY <2>2, RecordType
  <2>4. AtMost(s, sets + 1)
    <3>1. \A i \in DOMAIN s : s[i].set = sets + 1  BY DEF Record
    <3>2. sets + 1 <= sets + 1  BY <1>1
    <3> QED  BY <3>1, <3>2 DEF AtMost
  <2>5. AtMost(aof_active, sets + 1)  BY <1>1, AtMostLater
  <2>6. AtMost(aof_flush, sets + 1)  BY <1>1, AtMostLater
  <2>7. AtMost(file, sets + 1)  BY <1>1, AtMostLater
  <2>8. AtMost(aof_active \o s, sets + 1)
    <3>1. AtMost(aof_active \o s, sets + 1) <=> AtMost(aof_active, sets + 1) /\ AtMost(s, sets + 1)
      BY <1>1, <2>3, AtMostParts
    <3> QED  BY <2>4, <2>5, <3>1
  <2> QED  BY <2>1, <2>6, <2>7, <2>8 DEF NoLater
<1>4. CASE Flush
  <2>1. aof_active' = aof_flush /\ aof_flush' = aof_active /\ UNCHANGED <<sets, file>>
    BY <1>4 DEF Flush
  <2> QED  BY <1>1, <2>1 DEF NoLater
<1>5. ASSUME NEW k \in 1 .. Len(aof_flush), KernelWrites(k) PROVE NoLater'
  <2>1. file' = file \o SubSeq(aof_flush, 1, k) /\ UNCHANGED <<sets, aof_active, aof_flush>>
    BY <1>5 DEF KernelWrites
  <2>2. k \in 0 .. Len(aof_flush)  BY <1>1
  <2> PICK s : s = SubSeq(aof_flush, 1, k)  OBVIOUS
  <2>3. s \in Seq(Piece)  BY <1>1, <2>2, CutType
  <2>4. AtMost(s, sets)  BY <1>1, <2>2, AtMostRemainder
  <2>5. AtMost(file \o s, sets) <=> AtMost(file, sets) /\ AtMost(s, sets)
    BY <1>1, <2>3, AtMostParts
  <2> QED  BY <1>1, <2>1, <2>4, <2>5 DEF NoLater
<1>6. CASE HandlePartial
  <2>1. /\ aof_active' = aof_active /\ aof_flush' = Remainder(aof_flush, res)
        /\ res \in 0 .. Len(aof_flush) - 1 /\ UNCHANGED <<sets, file>>
    BY <1>6 DEF HandlePartial, Completion
  <2>2. res \in 0 .. Len(aof_flush)  BY <1>1, <2>1
  <2>3. AtMost(Remainder(aof_flush, res), sets)  BY <1>1, <2>2, AtMostRemainder
  <2> QED  BY <1>1, <2>1, <2>3 DEF NoLater
<1>7. CASE HandleFailure \/ HandleComplete
  <2>1. aof_active' = aof_active /\ aof_flush' = <<>> /\ UNCHANGED <<sets, file>>
    BY <1>7 DEF HandleFailure, HandleComplete, Completion
  <2> QED  BY <1>1, <1>2, <2>1 DEF NoLater
<1>8. CASE Crash
  <2>1. aof_active' = <<>> /\ aof_flush' = <<>> /\ UNCHANGED <<sets, file>>  BY <1>8 DEF Crash
  <2> QED  BY <1>1, <1>2, <2>1 DEF NoLater
<1>9. CASE KernelFails \/ Restart \/ UNCHANGED vars
  BY <1>9 DEF KernelFails, Restart, vars, NoLater
<1> QED  BY <1>3, <1>4, <1>5, <1>6, <1>7, <1>8, <1>9 DEF Next, Kernel, Handle

LEMMA NextTypeOK ==
    ASSUME AofTypes, AofTypes', BoundInv, NoLater', Room', [Next]_vars
    PROVE  TypeOK'
<1> DEFINE Small == /\ mem \subseteq 0 .. sets /\ flushed \subseteq 1 .. sets
                    /\ running \in BOOLEAN /\ crashes \in 0 .. MaxCrashes
                    /\ troubles \subseteq {"write", "sqe"}
<1>1. /\ Small /\ AtMost(file, sets) /\ AtMost(aof_flush, sets)
      /\ file \in Seq(Piece) /\ aof_flush \in Seq(Piece)
      /\ Len(aof_flush) \in Nat /\ sets \in Nat
      /\ None \notin Int /\ Failed \in Int /\ Failed < 0
  BY LenProperties, AofAssumption DEF BoundInv, NoLater, TypeOK, AofTypes, Failed
<1>2. Small'
  <2>1. CASE Set
    <3>1. /\ sets' = sets + 1 /\ mem' = mem \cup {sets + 1}
          /\ UNCHANGED <<flushed, running, crashes, troubles>>
      BY <2>1 DEF Set
    <3>2. 0 .. sets \subseteq 0 .. sets + 1 /\ 1 .. sets \subseteq 1 .. sets + 1
          /\ sets + 1 \in 0 .. sets + 1
      BY <1>1
    <3> QED  BY <1>1, <3>1, <3>2
  <2>2. CASE Flush \/ UNCHANGED vars  BY <1>1, <2>2 DEF Flush, vars
  <2>3. CASE \E k \in 1 .. Len(aof_flush) : KernelWrites(k)
    BY <1>1, <2>3 DEF KernelWrites
  <2>4. CASE KernelFails  BY <1>1, <2>4 DEF KernelFails
  <2>5. CASE HandleFailure  BY <1>1, <2>5 DEF HandleFailure, Completion
  <2>6. CASE HandlePartial
    <3>1. /\ flushed' = flushed \cup Ended(SubSeq(aof_flush, 1, res))
          /\ res \in 0 .. Len(aof_flush) - 1 /\ UNCHANGED <<sets, mem, running, crashes>>
          /\ troubles' \subseteq troubles \cup {"sqe"}
      BY <2>6 DEF HandlePartial, Completion
    <3>2. res \in 0 .. Len(aof_flush)  BY <1>1, <3>1
    <3> PICK s : s = SubSeq(aof_flush, 1, res)  OBVIOUS
    <3>3. s \in Seq(Piece)  BY <1>1, <3>2, CutType
    <3>4. AtMost(s, sets)  BY <1>1, <3>2, AtMostRemainder
    <3>5. Ended(s) \subseteq 1 .. sets  BY <1>1, <3>3, <3>4, AtMostEnded
    <3> QED  BY <1>1, <3>1, <3>5
  <2>7. CASE HandleComplete
    <3>1. /\ flushed' = flushed \cup Ended(aof_flush)
          /\ UNCHANGED <<sets, mem, running, crashes, troubles>>
      BY <2>7 DEF HandleComplete, Completion
    <3>2. Ended(aof_flush) \subseteq 1 .. sets  BY <1>1, AtMostEnded
    <3> QED  BY <1>1, <3>1, <3>2
  <2>8. CASE Crash
    <3>1. /\ crashes' = crashes + 1 /\ crashes < MaxCrashes /\ running' = FALSE /\ mem' = {}
          /\ UNCHANGED <<sets, flushed, troubles>>
      BY <2>8 DEF Crash
    <3>2. crashes + 1 \in 0 .. MaxCrashes  BY <1>1, <3>1, AofAssumption
    <3> QED  BY <1>1, <3>1, <3>2
  <2>9. CASE Restart
    <3>1. /\ running' = TRUE /\ mem' \in {Replayed(file), Replayed(file) \cup {0}}
          /\ UNCHANGED <<sets, flushed, crashes, troubles>>
      BY <2>9 DEF Restart
    <3>2. Replayed(file) \subseteq 1 .. sets  BY <1>1, AtMostReplayed
    <3>3. 1 .. sets \subseteq 0 .. sets /\ 0 \in 0 .. sets  BY <1>1
    <3> QED  BY <1>1, <3>1, <3>2, <3>3
  <2> QED  BY <2>1, <2>2, <2>3, <2>4, <2>5, <2>6, <2>7, <2>8, <2>9 DEF Next, Kernel, Handle
<1>3. res' \in 0 .. MaxSets * Parts \cup {None, Failed}
  <2> PICK m : m = MaxSets * Parts  OBVIOUS
  <2> PICK w : w = sets' * Parts  OBVIOUS
  <2> PICK l : l = Len(aof_flush')  OBVIOUS
  <2> PICK k : k = Len(aof_active')  OBVIOUS
  <2>1. l \in Nat /\ k \in Nat  BY LenProperties DEF AofTypes
  <2>2. sets' \in Nat /\ sets' <= MaxSets /\ MaxSets \in Nat /\ Parts \in Nat
    BY AofAssumption DEF AofTypes
  <2>3. w <= m /\ w \in Nat /\ m \in Nat
    <3> PICK n : n = sets'  OBVIOUS
    <3>1. n \in Nat /\ n <= MaxSets /\ MaxSets \in Nat /\ Parts \in Nat  BY <2>2
    <3>2. n * Parts <= MaxSets * Parts  BY <3>1, MulMonotone
    <3>3. w = n * Parts  OBVIOUS
    <3>4. n * Parts \in Nat  BY <3>1, MulNat
    <3>5. MaxSets * Parts \in Nat  BY <3>1, MulNat
    <3> QED  BY <3>2, <3>3, <3>4, <3>5
  <2>4. l + k <= w  BY DEF Room
  <2>5. l <= m  BY <2>1, <2>3, <2>4
  <2>6. 0 .. l \subseteq 0 .. m  BY <2>1, <2>3, <2>5
  <2>7. res' \in {None, Failed} \cup 0 .. l  BY DEF AofTypes
  <2> QED  BY <2>6, <2>7
<1> QED  BY <1>2, <1>3 DEF TypeOK, AofTypes

(* The buffers, the file, the completion, the engine's content and the     *)
(* histories are of their kind, and no larger than the SETs make them.     *)
THEOREM AofTypeCorrect == Spec => []TypeOK
<1>1. Init => BoundInv  BY InitBounds
<1>2. AofInv /\ BoundInv /\ [Next]_vars => BoundInv'
  <2> SUFFICES ASSUME AofInv, BoundInv, [Next]_vars PROVE BoundInv'  OBVIOUS
  <2>1. AofTypes /\ AofTypes'  BY NextTypes DEF AofInv
  <2>2. Room'  BY <2>1, NextRoom DEF BoundInv
  <2>3. NoLater'  BY <2>1, NextNoLater DEF BoundInv
  <2>4. TypeOK'  BY <2>1, <2>2, <2>3, NextTypeOK
  <2> QED  BY <2>2, <2>3, <2>4 DEF BoundInv
<1>3. BoundInv => TypeOK  BY DEF BoundInv
<1> QED  BY <1>1, <1>2, <1>3, AofInvariant, PTL DEF Spec
=============================================================================
