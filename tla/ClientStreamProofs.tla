-------------------------- MODULE ClientStreamProofs --------------------------
(***************************************************************************)
(* What the reactor makes of one client's bytes, for any commands, any     *)
(* number of them, any size of the buffer, and wherever the reads cut the  *)
(* stream.                                                                 *)
(***************************************************************************)
EXTENDS ClientStream, SequenceTheorems, FiniteSetTheorems, WellFoundedInduction, TLAPS

-----------------------------------------------------------------------------
\* Induction over the naturals, as facts about sets

LEMMA Least ==
  ASSUME NEW S \in SUBSET Nat, S # {}
  PROVE  \E x \in S : \A y \in S : x <= y
<1> DEFINE R == {ss \in Nat \X Nat : ss[1] < ss[2]}
<1>1. IsWellFoundedOn(R, Nat)  BY NatLessThanWellFounded DEF OpToRel
<1>2. PICK x \in S : \A y \in S : <<y, x>> \notin R
  <2> HIDE DEF R
  <2> QED  BY <1>1, WFMin
<1>3. ASSUME NEW y \in S PROVE x <= y
  <2>1. <<y, x>> \in Nat \X Nat /\ <<y, x>> \notin R  BY <1>2
  <2> QED  BY <2>1
<1> QED  BY <1>3

LEMMA Induction ==
  ASSUME NEW P \in SUBSET Nat, 0 \in P, \A n \in P : n + 1 \in P
  PROVE  P = Nat
<1> SUFFICES ASSUME Nat \ P # {} PROVE FALSE  OBVIOUS
<1>1. PICK x \in Nat \ P : \A y \in Nat \ P : x <= y  BY Least
<1>2. x - 1 \in Nat /\ x - 1 \notin Nat \ P  BY <1>1
<1> QED  BY <1>2

-----------------------------------------------------------------------------
\* Sequences of sequences

\* Function f holds what the concatenation of ss is after m of them.
Partly(f, m, ss, S) ==
  f \in [1 .. m -> Seq(S)] /\ \A i \in 1 .. m : f[i] = IF i = 1 THEN ss[i] ELSE f[i - 1] \o ss[i]

LEMMA PartlyExists ==
  ASSUME NEW S, NEW ss \in Seq(Seq(S))
  PROVE  \A m \in 0 .. Len(ss) : \E f : Partly(f, m, ss, S)
<1> DEFINE P == {m \in Nat : m <= Len(ss) => \E f : Partly(f, m, ss, S)}
<1>1. 0 \in P
  <2>1. Partly([i \in 1 .. 0 |-> <<>>], 0, ss, S)  BY DEF Partly
  <2> QED  BY <2>1
<1>2. ASSUME NEW m \in P PROVE m + 1 \in P
  <2> SUFFICES ASSUME m + 1 <= Len(ss) PROVE \E f : Partly(f, m + 1, ss, S)  OBVIOUS
  <2> PICK f : Partly(f, m, ss, S)  OBVIOUS
  <2> DEFINE g == [i \in 1 .. m + 1 |-> IF i <= m THEN f[i]
                                        ELSE IF i = 1 THEN ss[i] ELSE f[m] \o ss[i]]
  <2>1. \A i \in 1 .. m + 1 : ss[i] \in Seq(S)  OBVIOUS
  <2>2. \A i \in 1 .. m : f[i] \in Seq(S) /\ f[i] = IF i = 1 THEN ss[i] ELSE f[i - 1] \o ss[i]
    BY DEF Partly
  <2>3. ASSUME NEW i \in 1 .. m + 1
        PROVE  g[i] \in Seq(S) /\ g[i] = IF i = 1 THEN ss[i] ELSE g[i - 1] \o ss[i]
    <3>1. CASE i <= m
      <4>1. i \in 1 .. m /\ (i # 1 => i - 1 \in 1 .. m + 1 /\ i - 1 <= m)  BY <3>1
      <4> QED  BY <2>2, <4>1
    <3>2. CASE i = m + 1 /\ i = 1  BY <2>1, <3>2
    <3>3. CASE i = m + 1 /\ i # 1
      <4>1. m \in 1 .. m /\ m \in 1 .. m + 1 /\ i - 1 = m  BY <3>3
      <4>2. i \in 1 .. m + 1 /\ ~(i <= m) /\ m <= m  BY <3>3, <4>1
      <4>5. g[i] = f[m] \o ss[i]  BY <3>3, <4>2
      <4>6. g[m] = f[m]  BY <4>1, <4>2
      <4>3. f[m] \in Seq(S) /\ ss[i] \in Seq(S)  BY <2>1, <2>2, <4>1
      <4>4. f[m] \o ss[i] \in Seq(S)  BY <4>3, ConcatProperties
      <4> QED  BY <3>3, <4>1, <4>4, <4>5, <4>6
    <3> QED  BY <3>1, <3>2, <3>3
  <2>4. Partly(g, m + 1, ss, S)
    <3> HIDE DEF g
    <3>1. g \in [1 .. m + 1 -> Seq(S)]  BY <2>3 DEF g
    <3> QED  BY <2>3, <3>1 DEF Partly
  <2> QED  BY <2>4
<1> HIDE DEF P
<1>3. P = Nat  BY <1>1, <1>2, Induction DEF P
<1> QED  BY <1>3 DEF P

LEMMA FlattenIs ==
  ASSUME NEW S, NEW ss \in Seq(Seq(S)), Len(ss) # 0, NEW f, Partly(f, Len(ss), ss, S)
  PROVE  FlattenSeq(ss) = f[Len(ss)]
<1> DEFINE n == Len(ss)
           Is(c) == c = [i \in 1 .. n |-> IF i = 1 THEN ss[i] ELSE c[i - 1] \o ss[i]]
           c == CHOOSE c : Is(c)
<1>1. n \in Nat \ {0}  OBVIOUS
<1>2. Is(f)  BY DEF Partly
<1>3. Is(c)
  <2> HIDE DEF Is
  <2> QED  BY <1>2
<1>4. FlattenSeq(ss) = c[n]  BY <1>1 DEF FlattenSeq
<1>5. \A i \in 1 .. n : c[i] = IF i = 1 THEN ss[i] ELSE c[i - 1] \o ss[i]
  <2> HIDE DEF c
  <2> QED  BY <1>3
<1> HIDE DEF c, Is
<1>6. \A i \in 1 .. n : f[i] = IF i = 1 THEN ss[i] ELSE f[i - 1] \o ss[i]  BY DEF Partly
<1> DEFINE D == {i \in Nat : i \in 1 .. n /\ c[i] # f[i]}
<1>7. D = {}
  <2> SUFFICES ASSUME D # {} PROVE FALSE  OBVIOUS
  <2>1. PICK x \in D : \A y \in D : x <= y  BY Least
  <2>2. x # 1  BY <1>5, <1>6, <2>1
  <2>3. x - 1 \in 1 .. n /\ x - 1 \in Nat /\ x - 1 < x  BY <1>1, <2>1, <2>2
  <2>4. c[x - 1] = f[x - 1]  BY <2>1, <2>3
  <2> QED  BY <1>5, <1>6, <2>1, <2>2, <2>4
<1> QED  BY <1>1, <1>4, <1>7

LEMMA FlattenEmpty == FlattenSeq(<<>>) = <<>>
  BY DEF FlattenSeq

LEMMA FlattenAppend ==
  ASSUME NEW S, NEW ss \in Seq(Seq(S)), NEW x \in Seq(S), FlattenSeq(ss) \in Seq(S)
  PROVE  FlattenSeq(Append(ss, x)) = FlattenSeq(ss) \o x /\ FlattenSeq(ss) \o x \in Seq(S)
<1> DEFINE n == Len(ss)
           t == Append(ss, x)
<1>1. /\ n \in Nat /\ t \in Seq(Seq(S)) /\ Len(t) = n + 1 /\ t[n + 1] = x
      /\ \A i \in 1 .. n : t[i] = ss[i]
  OBVIOUS
<1> PICK f : Partly(f, n, ss, S)  BY <1>1, PartlyExists, SMTT(25)
<1> PICK g : Partly(g, n + 1, t, S)
  <2> HIDE DEF t
  <2>1. n + 1 \in 0 .. Len(t)  BY <1>1
  <2> QED  BY <1>1, <2>1, PartlyExists
<1> HIDE DEF n, t
<1>2. FlattenSeq(t) = g[n + 1]  BY <1>1, FlattenIs
<1>3. \A i \in 1 .. n + 1 : g[i] \in Seq(S) /\ g[i] = IF i = 1 THEN t[i] ELSE g[i - 1] \o t[i]
  BY DEF Partly
<1>4. CASE n = 0
  <2>1. g[1] = x /\ ss = <<>>  BY <1>1, <1>3, <1>4 DEF n
  <2>2. FlattenSeq(ss) = <<>>  BY <2>1, FlattenEmpty
  <2>3. <<>> \o x = x  BY ConcatEmptySeq
  <2> QED  BY <1>2, <1>4, <2>1, <2>2, <2>3 DEF t
<1>5. CASE n # 0
  <2>1. Partly([i \in 1 .. n |-> g[i]], n, ss, S)
    <3> DEFINE h == [i \in 1 .. n |-> g[i]]
    <3>1. h \in [1 .. n -> Seq(S)]  BY <1>1, <1>3
    <3>2. ASSUME NEW i \in 1 .. n PROVE h[i] = IF i = 1 THEN ss[i] ELSE h[i - 1] \o ss[i]
      <4>1. i \in 1 .. n + 1 /\ (i # 1 => i - 1 \in 1 .. n)  BY <1>1
      <4>2. h[i] = g[i] /\ (i # 1 => h[i - 1] = g[i - 1])  BY <4>1
      <4> QED  BY <1>1, <1>3, <4>1, <4>2
    <3> QED  BY <3>1, <3>2 DEF Partly
  <2>2. n \in 1 .. n /\ n + 1 \in 1 .. n + 1 /\ n + 1 # 1 /\ (n + 1) - 1 = n  BY <1>1, <1>5
  <2>3. FlattenSeq(ss) = g[n]  BY <1>5, <2>1, <2>2, FlattenIs DEF n
  <2>4. g[n + 1] = g[n] \o x  BY <1>1, <1>3, <2>2
  <2> QED  BY <1>2, <1>3, <2>2, <2>3, <2>4 DEF t
<1> QED  BY <1>4, <1>5

\* Induction over sequences, as a fact about sets.
LEMMA SeqInduction ==
  ASSUME NEW S, NEW P \in SUBSET Seq(S), <<>> \in P,
         \A s \in P : \A x \in S : Append(s, x) \in P
  PROVE  P = Seq(S)
<1> DEFINE N == {n \in Nat : \A s \in Seq(S) : Len(s) = n => s \in P}
<1>1. 0 \in N
  <2>1. \A s \in Seq(S) : Len(s) = 0 => s = <<>>  BY EmptySeq
  <2> QED  BY <2>1
<1>2. ASSUME NEW n \in N PROVE n + 1 \in N
  <2> SUFFICES ASSUME NEW s \in Seq(S), Len(s) = n + 1 PROVE s \in P  OBVIOUS
  <2>1. s # <<>>  OBVIOUS
  <2>2. PICK t \in Seq(S), x \in S : s = Append(t, x)  BY <2>1, SequenceEmptyOrAppend
  <2>3. Len(t) = n  BY <2>2, AppendProperties
  <2> QED  BY <2>2, <2>3
<1> HIDE DEF N
<1>3. N = Nat  BY <1>1, <1>2, Induction DEF N
<1>4. \A s \in Seq(S) : Len(s) \in Nat  BY LenProperties
<1> QED  BY <1>3, <1>4 DEF N

-----------------------------------------------------------------------------
\* Commands and their bytes

LEMMA Tuples ==
  ASSUME NEW a, NEW b, NEW x, NEW y, NEW z
  PROVE  /\ <<a, b, x>> \o <<>> = <<a, b, x>>
         /\ <<a, b, x>> \o <<y>> = <<a, b, x, y>>
         /\ <<a, b, x, y>> \o <<z>> = <<a, b, x, y, z>>
<1> DEFINE S == {a, b, x, y, z}
<1>1. /\ <<a, b, x>> \in Seq(S) /\ <<a, b, x, y>> \in Seq(S)
      /\ <<a, b, x, y, z>> \in Seq(S) /\ y \in S /\ z \in S
  OBVIOUS
<1>2. <<a, b, x>> \o <<>> = <<a, b, x>>  BY <1>1, ConcatEmptySeq
<1>3. Append(<<a, b, x>>, y) = <<a, b, x, y>>
  <2> DEFINE s == <<a, b, x>>
             t == <<a, b, x, y>>
             u == Append(s, y)
  <2>1. Len(s) = 3 /\ Len(t) = 4 /\ s[1] = a /\ s[2] = b /\ s[3] = x
        /\ t[1] = a /\ t[2] = b /\ t[3] = x /\ t[4] = y /\ s \in Seq(S) /\ t \in Seq(S)
    OBVIOUS
  <2> HIDE DEF s, t, S
  <2>2. u \in Seq(S) /\ Len(u) = Len(s) + 1 /\ u[Len(s) + 1] = y
        /\ \A i \in 1 .. Len(s) : u[i] = s[i]
    <3>1. s \in Seq(S) /\ y \in S  BY <1>1, <2>1
    <3> QED  BY <3>1, AppendProperties
  <2> HIDE DEF u
  <2>3. \A i \in 1 .. 4 : u[i] = t[i]  BY <2>1, <2>2
  <2>4. u = t  BY <2>1, <2>2, <2>3, SeqEqual
  <2> QED  BY <2>4 DEF s, t, u
<1>4. Append(<<a, b, x, y>>, z) = <<a, b, x, y, z>>
  <2> DEFINE s == <<a, b, x, y>>
             t == <<a, b, x, y, z>>
             u == Append(s, z)
  <2>1. Len(s) = 4 /\ Len(t) = 5 /\ s[1] = a /\ s[2] = b /\ s[3] = x /\ s[4] = y
        /\ t[1] = a /\ t[2] = b /\ t[3] = x /\ t[4] = y /\ t[5] = z
        /\ s \in Seq(S) /\ t \in Seq(S)
    OBVIOUS
  <2> HIDE DEF s, t, S
  <2>2. u \in Seq(S) /\ Len(u) = Len(s) + 1 /\ u[Len(s) + 1] = z
        /\ \A i \in 1 .. Len(s) : u[i] = s[i]
    <3>1. s \in Seq(S) /\ z \in S  BY <1>1, <2>1
    <3> QED  BY <3>1, AppendProperties
  <2> HIDE DEF u
  <2>3. \A i \in 1 .. 5 : u[i] = t[i]  BY <2>1, <2>2
  <2>4. u = t  BY <2>1, <2>2, <2>3, SeqEqual
  <2> QED  BY <2>4 DEF s, t, u
<1>5. <<a, b, x>> \o <<y>> = <<a, b, x, y>>  BY <1>1, <1>3, AppendIsConcat
<1>6. <<a, b, x, y>> \o <<z>> = <<a, b, x, y, z>>  BY <1>1, <1>4, AppendIsConcat
<1> QED  BY <1>2, <1>5, <1>6

LEMMA ArgsAre ==
  ASSUME NEW c \in Commands
  PROVE  \/ c.name = "PING" /\ Args(c) = <<"PING">>
         \/ c.name = "GET" /\ Args(c) = <<"GET", c.key>>
         \/ c.name = "EXPIRE" /\ Args(c) = <<"EXPIRE", c.key, c.ttl>>
         \/ c.name = "CONFIG" /\ Args(c) = <<"CONFIG", "GET", c.parameter>>
         \/ /\ c.name = "SET" /\ c.ttl = None
            /\ Args(c) = <<"SET", c.key, c.val>>
         \/ /\ c.name = "SET" /\ c.ttl \in DOMAIN Number /\ c.flag = None
            /\ Args(c) = <<"SET", c.key, c.val, c.ttl>>
         \/ /\ c.name = "SET" /\ c.ttl \in DOMAIN Number /\ c.flag \in {"EX", "ex", "PX", "px"}
            /\ Args(c) = <<"SET", c.key, c.val, c.flag, c.ttl>>
<1>1. c.name \in {"SET", "GET", "EXPIRE", "CONFIG", "PING"}  BY StreamAssumption
<1>2. CASE c.name = "PING"
  <2>1. Args(c) = <<"PING">>  BY <1>2 DEF Args
  <2> QED  BY <1>2, <2>1
<1>3. CASE c.name = "GET"
  <2>1. Args(c) = <<"GET", c.key>>  BY <1>3 DEF Args
  <2> QED  BY <1>3, <2>1
<1>4. CASE c.name = "SET"
  <2> DEFINE A == <<"SET", c.key, c.val>>
             F == IF c.flag = None THEN <<>> ELSE <<c.flag>>
             T == IF c.ttl = None THEN <<>> ELSE <<c.ttl>>
  <2>1. Args(c) = A \o F \o T  BY <1>4 DEF Args
  <2>2. \/ c.ttl = None /\ c.flag = None
        \/ c.ttl \in DOMAIN Number /\ c.flag = None
        \/ c.ttl \in DOMAIN Number /\ c.flag \in {"EX", "ex", "PX", "px"}
    BY <1>4, StreamAssumption
  <2>3. None \notin DOMAIN Number  BY StreamAssumption
  <2> HIDE DEF F, T
  <2>4. CASE c.ttl = None /\ c.flag = None
    <3>1. F = <<>> /\ T = <<>>  BY <2>4 DEF F, T
    <3>2. Args(c) = A  BY <2>1, <3>1, Tuples
    <3> QED  BY <1>4, <2>4, <3>2
  <2>5. CASE c.ttl \in DOMAIN Number /\ c.flag = None
    <3>1. F = <<>> /\ T = <<c.ttl>>  BY <2>3, <2>5 DEF F, T
    <3>2. Args(c) = <<"SET", c.key, c.val, c.ttl>>  BY <2>1, <3>1, Tuples
    <3> QED  BY <1>4, <2>5, <3>2
  <2>6. CASE c.ttl \in DOMAIN Number /\ c.flag \in {"EX", "ex", "PX", "px"}
    <3>1. c.flag # None  BY <2>6 DEF None
    <3>2. F = <<c.flag>> /\ T = <<c.ttl>>  BY <2>3, <2>6, <3>1 DEF F, T
    <3>3. A \o F = <<"SET", c.key, c.val, c.flag>>  BY <3>2, Tuples
    <3>4. Args(c) = <<"SET", c.key, c.val, c.flag, c.ttl>>  BY <2>1, <3>2, <3>3, Tuples
    <3> QED  BY <1>4, <2>6, <3>4
  <2> QED  BY <2>2, <2>4, <2>5, <2>6
<1>5. CASE c.name = "EXPIRE"
  <2>1. Args(c) = <<"EXPIRE", c.key, c.ttl>>  BY <1>5 DEF Args
  <2> QED  BY <1>5, <2>1
<1>6. CASE c.name = "CONFIG"
  <2>1. Args(c) = <<"CONFIG", "GET", c.parameter>>  BY <1>6 DEF Args
  <2> QED  BY <1>6, <2>1
<1> QED  BY <1>1, <1>2, <1>3, <1>4, <1>5, <1>6

LEMMA ArgsCount ==
  ASSUME NEW c \in Commands
  PROVE  /\ Len(Args(c)) \in 1 .. 5 /\ DOMAIN Args(c) = 1 .. Len(Args(c))
         /\ Args(c) = [i \in 1 .. Len(Args(c)) |-> Args(c)[i]]
<1>1. CASE Args(c) = <<"PING">>  BY <1>1
<1>2. CASE Args(c) = <<"GET", c.key>>  BY <1>2
<1>3. CASE Args(c) = <<"SET", c.key, c.val>>  BY <1>3
<1>4. CASE Args(c) = <<"SET", c.key, c.val, c.ttl>>  BY <1>4
<1>5. CASE Args(c) = <<"SET", c.key, c.val, c.flag, c.ttl>>  BY <1>5
<1>6. CASE Args(c) = <<"EXPIRE", c.key, c.ttl>>  BY <1>6
<1>7. CASE Args(c) = <<"CONFIG", "GET", c.parameter>>  BY <1>7
<1> QED  BY <1>1, <1>2, <1>3, <1>4, <1>5, <1>6, <1>7, ArgsAre

Size(c) == 1 + 2 * Len(Args(c))

\* The lines of the client.
Piece == [first : BOOLEAN, ended : {TRUE}, text : Texts]

\* Those and what reads make of them.
Row == [first : BOOLEAN, ended : BOOLEAN, text : Texts \cup DOMAIN Star \cup {Part}]

LEMMA PieceIsRow == Piece \subseteq Row /\ Seq(Piece) \subseteq Seq(Row)
<1>1. Piece \subseteq Row  BY DEF Piece, Row
<1>2. ASSUME NEW s \in Seq(Piece) PROVE s \in Seq(Row)
  <2>1. /\ Len(s) \in Nat /\ DOMAIN s = 1 .. Len(s) /\ s = [i \in 1 .. Len(s) |-> s[i]]
        /\ \A i \in 1 .. Len(s) : s[i] \in Piece
    BY LenProperties, ElementOfSeq
  <2>2. s \in [1 .. Len(s) -> Row]  BY <1>1, <2>1
  <2> QED  BY <2>1, <2>2, SeqDef
<1> QED  BY <1>1, <1>2

\* Only the first line of a command is a header.
LEMMA LinesAre ==
  ASSUME NEW c \in Commands
  PROVE  /\ Size(c) \in Nat /\ Size(c) > 0 /\ Len(Lines(c)) = Size(c) /\ Lines(c) \in Seq(Piece)
         /\ \A j \in 1 .. Size(c) :
              /\ Lines(c)[j] \in Piece
              /\ Lines(c)[j].first <=> j = 1
              /\ Lines(c)[j].text = IF j = 1 THEN Header[Len(Args(c))]
                                    ELSE IF j % 2 = 0 THEN Length ELSE Args(c)[j \div 2]
<1> DEFINE text(j) == IF j = 1 THEN Header[Len(Args(c))]
                      ELSE IF j % 2 = 0 THEN Length ELSE Args(c)[j \div 2]
<1>1. Size(c) \in Nat /\ Size(c) > 0 /\ Len(Args(c)) \in 1 .. 5  BY ArgsCount DEF Size
<1>2. Lines(c) = [j \in 1 .. Size(c) |-> [first |-> j = 1, ended |-> TRUE, text |-> text(j)]]
  BY DEF Lines, Size
<1>3. ASSUME NEW j \in 1 .. Size(c) PROVE text(j) \in Texts
  <2>1. CASE j = 1  BY <1>1, <2>1 DEF Texts
  <2>2. CASE j # 1 /\ j % 2 = 0  BY <2>2 DEF Texts
  <2>3. CASE j # 1 /\ j % 2 # 0
    <3>1. j \div 2 \in 1 .. Len(Args(c))  BY <1>1, <2>3 DEF Size
    <3>2. Args(c)[j \div 2] \in ToSet(Args(c))  BY <3>1, ArgsCount DEF ToSet
    <3> QED  BY <2>3, <3>2 DEF Texts
  <2> QED  BY <2>1, <2>2, <2>3
<1> HIDE DEF text
<1>4. ASSUME NEW j \in 1 .. Size(c)
      PROVE  Lines(c)[j] \in Piece /\ (Lines(c)[j].first <=> j = 1) /\ Lines(c)[j].text = text(j)
  <2>1. Lines(c)[j] = [first |-> j = 1, ended |-> TRUE, text |-> text(j)]  BY <1>2
  <2>2. Lines(c)[j] \in Piece  BY <1>3, <2>1 DEF Piece
  <2>3. Lines(c)[j].first = (j = 1)  BY <2>1
  <2>4. Lines(c)[j].text = text(j)  BY <2>1
  <2> QED  BY <2>2, <2>3, <2>4
<1>5. Lines(c) \in [1 .. Size(c) -> Piece]
  <2>1. Lines(c) = [j \in 1 .. Size(c) |-> Lines(c)[j]]  BY <1>2
  <2> QED  BY <1>4, <2>1
<1>6. Lines(c) \in Seq(Piece)  BY <1>1, <1>5, SeqDef
<1>7. Len(Lines(c)) = Size(c)  BY <1>1, <1>5, <1>6, LenProperties
<1> QED  BY <1>1, <1>4, <1>6, <1>7 DEF text

-----------------------------------------------------------------------------
\* Streams of commands

LEMMA ConcatParts ==
  ASSUME NEW S, NEW a \in Seq(S), NEW b \in Seq(S)
  PROVE  /\ a \o b \in Seq(S) /\ Len(a \o b) = Len(a) + Len(b)
         /\ Len(a) \in Nat /\ Len(b) \in Nat
         /\ \A i \in 1 .. Len(a) : (a \o b)[i] = a[i]
         /\ \A i \in 1 .. Len(b) : (a \o b)[Len(a) + i] = b[i]
<1>1. /\ a \o b \in Seq(S) /\ Len(a \o b) = Len(a) + Len(b)
      /\ \A i \in 1 .. Len(a) + Len(b) :
           (a \o b)[i] = IF i <= Len(a) THEN a[i] ELSE b[i - Len(a)]
  BY ConcatProperties
<1>2. Len(a) \in Nat /\ Len(b) \in Nat  BY LenProperties
<1>3. \A i \in 1 .. Len(a) : (a \o b)[i] = a[i]  BY <1>1, <1>2
<1>4. ASSUME NEW i \in 1 .. Len(b) PROVE (a \o b)[Len(a) + i] = b[i]
  <2>1. Len(a) + i \in 1 .. Len(a) + Len(b) /\ ~(Len(a) + i <= Len(a)) /\ Len(a) + i - Len(a) = i
    BY <1>2
  <2> QED  BY <1>1, <2>1
<1> QED  BY <1>1, <1>2, <1>3, <1>4

LEMMA Associative ==
  \A a, b, d \in Seq(Commands) : (a \o b) \o d = a \o (b \o d)
  BY ConcatAssociative

LEMMA StreamAppend ==
  ASSUME NEW cs \in Seq(Commands), NEW c \in Commands, Stream(cs) \in Seq(Piece)
  PROVE  Stream(Append(cs, c)) = Stream(cs) \o Lines(c) /\ Stream(cs) \o Lines(c) \in Seq(Piece)
<1> DEFINE n == Len(cs)
           ss == [i \in 1 .. n |-> Lines(cs[i])]
           t == Append(cs, c)
<1>1. n \in Nat /\ Lines(c) \in Seq(Piece)  BY LinesAre
<1>2. \A i \in 1 .. n : cs[i] \in Commands /\ Lines(cs[i]) \in Seq(Piece)  BY LinesAre
<1>3. ss \in Seq(Seq(Piece)) /\ Len(ss) = n
  <2>1. ss \in [1 .. n -> Seq(Piece)]  BY <1>2
  <2>2. ss \in Seq(Seq(Piece))  BY <1>1, <2>1, SeqDef
  <2> QED  BY <1>1, <2>1, <2>2, LenProperties
<1>4. /\ Len(t) = n + 1 /\ t[n + 1] = c
      /\ \A i \in 1 .. n : t[i] = cs[i]
  BY AppendProperties
<1>5. Append(ss, Lines(c)) = [i \in 1 .. n + 1 |-> Lines(t[i])]
  <2> DEFINE a == Append(ss, Lines(c))
             b == [i \in 1 .. n + 1 |-> Lines(t[i])]
  <2>1. a \in Seq(Seq(Piece)) /\ Len(a) = n + 1 /\ a[n + 1] = Lines(c)
        /\ \A i \in 1 .. n : a[i] = ss[i]
    BY <1>1, <1>3, AppendProperties
  <2>2. a \in [1 .. n + 1 -> Seq(Piece)]  BY <2>1, LenProperties
  <2>3. \A i \in 1 .. n : ss[i] = Lines(cs[i])  OBVIOUS
  <2> HIDE DEF a, ss, t
  <2>4. ASSUME NEW i \in 1 .. n + 1 PROVE a[i] = b[i]
    <3>1. CASE i \in 1 .. n  BY <1>4, <2>1, <2>3, <3>1
    <3>2. CASE i = n + 1  BY <1>4, <2>1, <3>2
    <3> QED  BY <1>1, <3>1, <3>2
  <2> QED  BY <2>2, <2>4 DEF a
<1>6. Stream(cs) = FlattenSeq(ss)  BY DEF Stream
<1>7. Stream(t) = FlattenSeq(Append(ss, Lines(c)))  BY <1>4, <1>5 DEF Stream
<1> HIDE DEF ss, t
<1>8. Stream(t) = Stream(cs) \o Lines(c) /\ Stream(cs) \o Lines(c) \in Seq(Piece)
  BY <1>1, <1>3, <1>6, <1>7, FlattenAppend
<1> QED  BY <1>8 DEF t

LEMMA StreamEmpty == Stream(<<>>) = <<>>
<1>1. [i \in 1 .. 0 |-> Lines(<<>>[i])] = <<>>  OBVIOUS
<1> QED  BY <1>1, FlattenEmpty DEF Stream

LEMMA StreamType ==
  ASSUME NEW cs \in Seq(Commands)
  PROVE  Stream(cs) \in Seq(Piece)
<1> DEFINE P == {s \in Seq(Commands) : Stream(s) \in Seq(Piece)}
<1>1. <<>> \in P  BY StreamEmpty, EmptySeq
<1>2. \A s \in P : \A c \in Commands : Append(s, c) \in P  BY StreamAppend, AppendProperties
<1>3. P \in SUBSET Seq(Commands)  OBVIOUS
<1> HIDE DEF P
<1>4. P = Seq(Commands)  BY <1>1, <1>2, <1>3, SeqInduction
<1> QED  BY <1>4 DEF P

LEMMA StreamOne ==
  ASSUME NEW c \in Commands
  PROVE  Stream(<<c>>) = Lines(c)
<1>1. <<>> \in Seq(Commands) /\ Append(<<>>, c) = <<c>>  OBVIOUS
<1>2. Stream(<<c>>) = <<>> \o Lines(c)  BY <1>1, StreamAppend, StreamEmpty, EmptySeq
<1> QED  BY <1>2, LinesAre, ConcatEmptySeq

LEMMA StreamConcat ==
  ASSUME NEW a \in Seq(Commands), NEW b \in Seq(Commands)
  PROVE  Stream(a \o b) = Stream(a) \o Stream(b)
<1> DEFINE P == {s \in Seq(Commands) : Stream(a \o s) = Stream(a) \o Stream(s)}
<1>1. <<>> \in P
  <2>1. a \o <<>> = a /\ Stream(a) \o <<>> = Stream(a)  BY ConcatEmptySeq, StreamType
  <2>2. <<>> \in Seq(Commands)  BY EmptySeq
  <2> QED  BY <2>1, <2>2, StreamEmpty
<1>2. ASSUME NEW s \in P, NEW c \in Commands PROVE Append(s, c) \in P
  <2>1. s \in Seq(Commands) /\ a \o s \in Seq(Commands) /\ Append(s, c) \in Seq(Commands)
    BY ConcatProperties, AppendProperties
  <2>2. a \o Append(s, c) = Append(a \o s, c)
    <3>1. <<c>> \in Seq(Commands)  OBVIOUS
    <3>2. Append(s, c) = s \o <<c>> /\ Append(a \o s, c) = (a \o s) \o <<c>>
      BY <2>1, AppendIsConcat
    <3> QED  BY <2>1, <3>1, <3>2, ConcatAssociative
  <2>3. Stream(a \o Append(s, c)) = (Stream(a) \o Stream(s)) \o Lines(c)
    BY <2>1, <2>2, StreamAppend, StreamType
  <2>4. Stream(a) \o Stream(Append(s, c)) = Stream(a) \o (Stream(s) \o Lines(c))
    BY <2>1, StreamAppend, StreamType
  <2>5. (Stream(a) \o Stream(s)) \o Lines(c) = Stream(a) \o (Stream(s) \o Lines(c))
    <3>1. Stream(a) \in Seq(Piece) /\ Stream(s) \in Seq(Piece) /\ Lines(c) \in Seq(Piece)
      BY <2>1, StreamType, LinesAre
    <3> QED  BY <3>1, ConcatAssociative
  <2> QED  BY <2>1, <2>3, <2>4, <2>5
<1>3. P \in SUBSET Seq(Commands)  OBVIOUS
<1> HIDE DEF P
<1>4. P = Seq(Commands)  BY <1>1, <1>2, <1>3, SeqInduction
<1> QED  BY <1>4 DEF P

LEMMA AppendedParts ==
  ASSUME NEW s \in Seq(Commands), NEW c \in Commands
  PROVE  /\ Len(Stream(Append(s, c))) = Len(Stream(s)) + Size(c)
         /\ \A i \in 1 .. Len(Stream(s)) : Stream(Append(s, c))[i] = Stream(s)[i]
         /\ \A i \in 1 .. Size(c) : Stream(Append(s, c))[Len(Stream(s)) + i] = Lines(c)[i]
<1> PICK u, v \in Seq(Piece) : u = Stream(s) /\ v = Lines(c)  BY StreamType, LinesAre
<1>1. Stream(Append(s, c)) = u \o v /\ Len(v) = Size(c)  BY StreamAppend, LinesAre
<1>2. /\ Len(u \o v) = Len(u) + Len(v)
      /\ \A i \in 1 .. Len(u) : (u \o v)[i] = u[i]
      /\ \A i \in 1 .. Len(v) : (u \o v)[Len(u) + i] = v[i]
  BY ConcatParts
<1> QED  BY <1>1, <1>2

LEMMA StreamNonempty ==
  ASSUME NEW cs \in Seq(Commands), cs # <<>>
  PROVE  Stream(cs) # <<>>
<1> PICK s \in Seq(Commands), c \in Commands : cs = Append(s, c)  BY SequenceEmptyOrAppend
<1>1. Stream(cs) = Stream(s) \o Lines(c)  BY StreamAppend, StreamType
<1>2. Len(Stream(cs)) = Len(Stream(s)) + Len(Lines(c))
  BY <1>1, StreamType, LinesAre, ConcatProperties
<1>3. Len(Stream(s)) \in Nat  BY StreamType, LenProperties
<1>4. Len(Stream(cs)) # 0  BY <1>2, <1>3, LinesAre
<1> QED  BY <1>4, EmptySeq

Boundary(s, k) == k = Len(s) \/ (k < Len(s) /\ s[k + 1].first)

\* A stream can be cut between two commands only.
LEMMA CutAt ==
  ASSUME NEW cs \in Seq(Commands), NEW k \in 0 .. Len(Stream(cs)), Boundary(Stream(cs), k)
  PROVE  \E a, b \in Seq(Commands) : cs = a \o b /\ k = Len(Stream(a))
<1> DEFINE Q(s) == \A p \in 0 .. Len(Stream(s)) : Boundary(Stream(s), p) =>
                     \E a, b \in Seq(Commands) : s = a \o b /\ p = Len(Stream(a))
           P == {s \in Seq(Commands) : Q(s)}
<1>1. <<>> \in P
  <2>1. ASSUME NEW p \in 0 .. Len(Stream(<<>>))
        PROVE  \E a, b \in Seq(Commands) : <<>> = a \o b /\ p = Len(Stream(a))
    <3>1. p = 0  BY StreamEmpty
    <3>2. <<>> \in Seq(Commands) /\ <<>> \o <<>> = <<>> /\ p = Len(Stream(<<>>))
      BY <3>1, StreamEmpty, EmptySeq, ConcatEmptySeq
    <3> QED  BY <3>2
  <2> QED  BY <2>1, EmptySeq
<1>2. ASSUME NEW s \in P, NEW c \in Commands PROVE Append(s, c) \in P
  <2> DEFINE t == Append(s, c)
             L == Len(Stream(s))
  <2>1. s \in Seq(Commands) /\ t \in Seq(Commands) /\ Q(s)  BY AppendProperties
  <2>2. /\ Stream(t) = Stream(s) \o Lines(c) /\ Stream(s) \in Seq(Piece)
        /\ Lines(c) \in Seq(Piece)
    BY <2>1, StreamAppend, StreamType, LinesAre
  <2>3. L \in Nat /\ Len(Lines(c)) = Size(c) /\ Size(c) \in Nat  BY <2>2, LinesAre, LenProperties
  <2>4. /\ Len(Stream(t)) = L + Size(c)
        /\ \A i \in 1 .. L : Stream(t)[i] = Stream(s)[i]
        /\ \A i \in 1 .. Size(c) : Stream(t)[L + i] = Lines(c)[i]
    BY <2>1, AppendedParts
  <2> HIDE DEF t, L, Q
  <2>5. ASSUME NEW p \in 0 .. Len(Stream(t)), Boundary(Stream(t), p)
        PROVE  \E a, b \in Seq(Commands) : t = a \o b /\ p = Len(Stream(a))
    <3>0. p \in Nat /\ p <= L + Size(c)  BY <2>3, <2>4, <2>5
    <3>1. CASE p < L
      <4>1. p + 1 \in 1 .. L /\ p # Len(Stream(t)) /\ p \in 0 .. L
        BY <2>3, <2>4, <3>1
      <4>2. Stream(t)[p + 1] = Stream(s)[p + 1]  BY <2>4, <4>1
      <4>3. Boundary(Stream(s), p)  BY <2>5, <3>1, <4>1, <4>2 DEF Boundary, L
      <4>4. PICK a, b \in Seq(Commands) : s = a \o b /\ p = Len(Stream(a))
        BY <2>1, <4>1, <4>3 DEF Q, L
      <4>5. t = a \o Append(b, c) /\ Append(b, c) \in Seq(Commands)
        <5>1. <<c>> \in Seq(Commands)  OBVIOUS
        <5>2. t = (a \o b) \o <<c>> /\ Append(b, c) = b \o <<c>>
          BY <2>1, <4>4, AppendIsConcat DEF t
        <5>3. (a \o b) \o <<c>> = a \o (b \o <<c>>)
          <6>1. a \in Seq(Commands) /\ b \in Seq(Commands)  BY <4>4
          <6> QED  BY ONLY <5>1, <6>1, Associative, Zenon
        <5> QED  BY <4>4, <5>2, <5>3, AppendProperties
      <4> QED  BY <4>4, <4>5
    <3>2. CASE p = L
      <4>1. <<c>> \in Seq(Commands)  OBVIOUS
      <4>2. t = s \o <<c>>  BY <2>1, AppendIsConcat DEF t
      <4> QED  BY <2>1, <3>2, <4>1, <4>2 DEF L
    <3>3. CASE p > L /\ p < L + Size(c)
      <4> PICK q \in 1 .. Size(c) : L + q = p + 1 /\ q # 1
        <5>1. p + 1 - L \in 1 .. Size(c) /\ L + (p + 1 - L) = p + 1 /\ p + 1 - L # 1
          BY <2>3, <3>0, <3>3
        <5> QED  BY <5>1
      <4>1. p # Len(Stream(t))  BY <2>3, <2>4, <3>0, <3>3
      <4>2. Stream(t)[p + 1] = Lines(c)[q]  BY <2>4
      <4>3. ~Stream(t)[p + 1].first  BY <4>2, LinesAre
      <4> QED  BY <2>5, <4>1, <4>3 DEF Boundary
    <3>4. CASE p = L + Size(c)
      <4>1. <<>> \in Seq(Commands) /\ t = t \o <<>>  BY <2>1, ConcatEmptySeq
      <4> QED  BY <2>1, <2>4, <3>4, <4>1
    <3>5. p < L \/ p = L \/ (p > L /\ p < L + Size(c)) \/ p = L + Size(c)  BY <2>3, <3>0
    <3> QED  BY <3>1, <3>2, <3>3, <3>4, <3>5, Zenon
  <2>6. t \in P  BY <2>1, <2>5 DEF Q
  <2> QED  BY <2>6 DEF t
<1>3. P \in SUBSET Seq(Commands)  OBVIOUS
<1> HIDE DEF P
<1>4. P = Seq(Commands)  BY <1>1, <1>2, <1>3, SeqInduction
<1> QED  BY <1>4 DEF P

-----------------------------------------------------------------------------
\* What parse makes of a buffer

\* Only the last line may be without its CRLF.
Trailing(b) == \A j \in 1 .. Len(b) : b[j].ended \/ j = Len(b)

LEMMA LinesCounted ==
  ASSUME NEW b \in Seq(Row), Trailing(b)
  PROVE  /\ LineCount(b) \in 0 .. Len(b) /\ Len(b) \in Nat
         /\ \A j \in 1 .. Len(b) : j <= LineCount(b) <=> b[j].ended
<1>1. Len(b) \in Nat /\ DOMAIN b = 1 .. Len(b)  BY LenProperties
<1> DEFINE E == {j \in DOMAIN b : b[j].ended}
<1>0. LineCount(b) = Cardinality(E)  BY DEF LineCount
<1> HIDE DEF E
<1>2. CASE Len(b) = 0
  <2>1. E = {}  BY <1>1, <1>2 DEF E
  <2>2. LineCount(b) = 0  BY <1>0, <2>1, FS_EmptySet
  <2> QED  BY <1>1, <1>2, <2>2
<1>3. CASE Len(b) # 0 /\ b[Len(b)].ended
  <2>1. \A j \in 1 .. Len(b) : b[j].ended  BY <1>3 DEF Trailing
  <2>2. E = 1 .. Len(b)  BY <1>1, <2>1 DEF E
  <2>3. LineCount(b) = Len(b)
    <3>1. Cardinality(1 .. Len(b)) = Len(b)  BY <1>1, <1>3, FS_Interval
    <3> QED  BY <1>0, <2>2, <3>1
  <2> QED  BY <1>1, <1>3, <2>1, <2>3
<1>4. CASE Len(b) # 0 /\ ~b[Len(b)].ended
  <2>1. \A j \in 1 .. Len(b) : j # Len(b) => b[j].ended  BY DEF Trailing
  <2>2. E = 1 .. Len(b) - 1
    <3>1. E = {j \in 1 .. Len(b) : j # Len(b)}  BY <1>1, <1>4, <2>1 DEF E
    <3>2. {j \in 1 .. Len(b) : j # Len(b)} = 1 .. Len(b) - 1
      <4> PICK n \in Nat : n = Len(b)  BY <1>1
      <4>1. {j \in 1 .. n : j # n} = 1 .. n - 1  OBVIOUS
      <4> QED  BY <4>1
    <3> QED  BY <3>1, <3>2
  <2>3. LineCount(b) = Len(b) - 1
    <3>1. Len(b) - 1 \in Int /\ 1 \in Int  BY <1>1
    <3>2. Cardinality(1 .. Len(b) - 1) = Len(b) - 1  BY <1>1, <1>4, <3>1, FS_Interval
    <3> QED  BY <1>0, <2>2, <3>2
  <2>4. ASSUME NEW j \in 1 .. Len(b) PROVE j <= LineCount(b) <=> b[j].ended
    <3>1. CASE j = Len(b)  BY <1>1, <1>4, <2>3, <3>1
    <3>2. CASE j # Len(b)
      <4>1. b[j].ended /\ b[j] \in Row  BY <2>1, <3>2, ElementOfSeq
      <4>2. b[j].ended = TRUE  BY <4>1, SMTT(30) DEF Row
      <4>3. j <= LineCount(b)
        <5>1. \A n \in Nat : \A k \in 1 .. n : k # n => k <= n - 1  OBVIOUS
        <5> QED  BY <1>1, <2>3, <3>2, <5>1
      <4>4. b[j].ended  BY <4>2
      <4> QED  BY <4>3, <4>4
    <3> QED  BY <3>1, <3>2
  <2> QED  BY <1>1, <1>4, <2>3, <2>4
<1> QED  BY <1>2, <1>3, <1>4

LEMMA HeadersAre ==
  ASSUME NEW n \in 1 .. 5
  PROVE  /\ Header[n] \in DOMAIN Star /\ Star[Header[n]] = n
         /\ Remainders(Header[n]) = {None}
  BY StreamAssumption DEF Remainders

\* What parses begins with a whole line that begins with '*'.
LEMMA ParseStarred ==
  ASSUME NEW b \in Seq(Row), Trailing(b), parse(b).consumed > 0
  PROVE  /\ b # <<>> /\ 1 \in 1 .. Len(b) /\ b[1].ended /\ LineCount(b) >= 1
         /\ b[1].text \in DOMAIN Star /\ NumArgs(b) \in Nat /\ NumArgs(b) = Star[b[1].text]
         /\ parse(b) = [consumed |-> Behind(b, 1 + 2 * NumArgs(b)),
                        args |-> [i \in 1 .. NumArgs(b) |-> Text(b, 1 + 2 * i)]]
         /\ parse(b).consumed \in 1 .. Len(b)
<1>1. StartsWithStar(b) /\ LineCount(b) # 0
  <2> SUFFICES ASSUME ~StartsWithStar(b) \/ LineCount(b) = 0 PROVE FALSE  OBVIOUS
  <2>1. parse(b) = [consumed |-> 0, args |-> <<>>]  BY DEF parse
  <2> QED  BY <2>1
<1>2. b # <<>> /\ b[1].text \in DOMAIN Star  BY <1>1 DEF StartsWithStar
<1>3. /\ LineCount(b) \in 1 .. Len(b) /\ Len(b) \in Nat /\ 1 \in 1 .. Len(b)
      /\ b[1].ended
  BY <1>1, LinesCounted
<1>4. NumArgs(b) \in Nat /\ NumArgs(b) = Star[b[1].text]
  BY <1>2, StreamAssumption DEF NumArgs
<1>5. parse(b) = [consumed |-> Behind(b, 1 + 2 * NumArgs(b)),
                  args |-> [i \in 1 .. NumArgs(b) |-> Text(b, 1 + 2 * i)]]
  BY <1>1 DEF parse
<1>6. Behind(b, 1 + 2 * NumArgs(b)) \in 1 .. Len(b)  BY <1>3, <1>4 DEF Behind
<1> QED  BY <1>2, <1>3, <1>4, <1>5, <1>6

\* A whole command is understood as the client wrote it.
LEMMA ParseWhole ==
  ASSUME NEW c \in Commands, NEW e \in Seq(Commands)
  PROVE  parse(Lines(c) \o Stream(e)) = [consumed |-> Size(c), args |-> Args(c)]
<1> PICK v \in Seq(Piece) : v = Lines(c)  BY LinesAre
<1> PICK u \in Seq(Piece) : u = Stream(e)  BY StreamType
<1> PICK b \in Seq(Piece) : b = v \o u  BY ConcatProperties
<1> DEFINE A == Len(Args(c))
<1>1. /\ Len(b) = Len(v) + Len(u) /\ Len(u) \in Nat /\ Len(b) \in Nat
      /\ \A j \in 1 .. Len(v) : b[j] = v[j]
  BY ConcatParts
<1>2. Len(v) = Size(c) /\ Size(c) \in Nat /\ Size(c) > 0 /\ A \in 1 .. 5 /\ Size(c) = 1 + 2 * A
  BY LinesAre, ArgsCount DEF Size
<1>3. \A j \in 1 .. Len(b) : b[j].ended
  <2>1. \A j \in 1 .. Len(b) : b[j] \in Piece  BY ElementOfSeq
  <2> QED  BY <2>1 DEF Piece
<1>4. LineCount(b) = Len(b)
  <2>1. b \in Seq(Row) /\ Trailing(b)  BY <1>3, PieceIsRow DEF Trailing
  <2>2. LineCount(b) \in 0 .. Len(b) /\ \A j \in 1 .. Len(b) : j <= LineCount(b) <=> b[j].ended
    BY <2>1, LinesCounted
  <2>3. Len(b) \in 1 .. Len(b)  BY <1>1, <1>2
  <2>4. b[Len(b)].ended  BY <1>3, <2>3
  <2>5. Len(b) <= LineCount(b)  BY <2>2, <2>3, <2>4
  <2> QED  BY <1>1, <2>2, <2>5
<1>5. StartsWithStar(b) /\ NumArgs(b) = A
  <2>1. 1 \in 1 .. Size(c) /\ b # <<>>  BY <1>1, <1>2, EmptySeq
  <2>2. v[1].text = Header[A]  BY <2>1, LinesAre
  <2>3. b[1].text = Header[A]  BY <1>1, <1>2, <2>1, <2>2
  <2> QED  BY <1>2, <2>1, <2>3, HeadersAre DEF StartsWithStar, NumArgs
<1>6. parse(b) = [consumed |-> Behind(b, 1 + 2 * A),
                  args |-> [i \in 1 .. A |-> Text(b, 1 + 2 * i)]]
  <2>1. LineCount(b) # 0  BY <1>1, <1>2, <1>4
  <2> QED  BY <1>5, <2>1 DEF parse
<1>7. Behind(b, 1 + 2 * A) = Size(c)
  <2>1. Behind(b, 1 + 2 * A) \in {Size(c), Len(b)}  BY <1>2, <1>4 DEF Behind
  <2>2. CASE Size(c) < Len(b)  BY <1>2, <1>4, <2>2 DEF Behind
  <2>3. CASE ~(Size(c) < Len(b))
    <3>1. Size(c) = Len(b)
      <4>1. \A k, l, m \in Nat : m = k + l /\ ~(k < m) => k = m  OBVIOUS
      <4> QED  BY <1>1, <1>2, <2>3, <4>1
    <3> QED  BY <2>1, <3>1
  <2> QED  BY <2>2, <2>3
<1>8. ASSUME NEW i \in 1 .. A PROVE Text(b, 1 + 2 * i) = Args(c)[i]
  <2> DEFINE n == 1 + 2 * i
  <2>1. n \in 1 .. Size(c) /\ n # 1 /\ n % 2 # 0 /\ n \div 2 = i /\ n <= LineCount(b)
    BY <1>1, <1>2, <1>4
  <2> HIDE DEF n
  <2>2. v[n].text = Args(c)[i]  BY <2>1, LinesAre
  <2>3. Text(b, n) = b[n].text  BY <2>1 DEF Text
  <2> QED  BY <1>1, <1>2, <2>1, <2>2, <2>3 DEF n
<1>9. [i \in 1 .. A |-> Text(b, 1 + 2 * i)] = [i \in 1 .. A |-> Args(c)[i]]  BY <1>8
<1>10. Args(c) = [i \in 1 .. A |-> Args(c)[i]]  BY ArgsCount
<1> HIDE DEF A
<1> QED  BY <1>6, <1>7, <1>9, <1>10

-----------------------------------------------------------------------------
\* What is executed

LEMMA ExecuteMeant ==
  ASSUME NEW c \in Commands
  PROVE  Execute(Args(c)) = Meaning(c)
<1> DEFINE A == Args(c)
<1>1. CASE c.name = "PING" /\ A = <<"PING">>
  <2>1. A # <<>> /\ A[1] = "PING" /\ Len(A) = 1  BY <1>1
  <2>2. Type(A) = "PING"  BY <2>1 DEF Type
  <2>3. Execute(A) = [did |-> "PING"]  BY <2>2 DEF Execute
  <2> QED  BY <1>1, <2>3 DEF Meaning
<1>2. CASE c.name = "GET" /\ A = <<"GET", c.key>>
  <2>1. A # <<>> /\ A[1] = "GET" /\ A[2] = c.key /\ Len(A) = 2  BY <1>2
  <2>2. Type(A) = "GET"  BY <2>1 DEF Type
  <2>3. Execute(A) = [did |-> "GET", key |-> c.key]  BY <2>1, <2>2 DEF Execute
  <2> QED  BY <1>2, <2>3 DEF Meaning
<1>3. ASSUME c.name = "SET", A # <<>>, A[1] = "SET", A[2] = c.key, A[3] = c.val, Len(A) \in 3 .. 5,
             parse_ttl(A) = Meaning(c).ttl
      PROVE  Execute(A) = Meaning(c)
  <2> HIDE DEF A
  <2>1. Type(A) = "SET"  BY <1>3 DEF Type
  <2>2. Execute(A) = [did |-> "SET", key |-> c.key, val |-> c.val, ttl |-> parse_ttl(A)]
    BY <1>3, <2>1 DEF Execute
  <2>3. Meaning(c) = [did |-> "SET", key |-> c.key, val |-> c.val, ttl |-> Meaning(c).ttl]
    BY <1>3 DEF Meaning
  <2> QED  BY <1>3, <2>2, <2>3
<1>4. CASE c.name = "SET" /\ c.ttl = None /\ A = <<"SET", c.key, c.val>>
  <2>1. A # <<>> /\ A[1] = "SET" /\ A[2] = c.key /\ A[3] = c.val /\ Len(A) = 3  BY <1>4
  <2> HIDE DEF A
  <2>2. parse_ttl(A) = 0  BY <2>1 DEF parse_ttl
  <2>3. Meaning(c).ttl = 0  BY <1>4 DEF Meaning
  <2> QED  BY <1>3, <1>4, <2>1, <2>2, <2>3 DEF A
<1>5. CASE /\ c.name = "SET" /\ c.ttl \in DOMAIN Number /\ c.flag = None
           /\ A = <<"SET", c.key, c.val, c.ttl>>
  <2>1. A # <<>> /\ A[1] = "SET" /\ A[2] = c.key /\ A[3] = c.val /\ Len(A) = 4 /\ A[4] = c.ttl
    BY <1>5
  <2> HIDE DEF A
  <2>2. parse_ttl(A) = Number[c.ttl]  BY <1>5, <2>1 DEF parse_ttl, FromChars
  <2>3. c.ttl # None  BY <1>5, StreamAssumption
  <2>4. Meaning(c).ttl = Number[c.ttl]  BY <1>5, <2>3 DEF Meaning, None
  <2> QED  BY <1>3, <1>5, <2>1, <2>2, <2>4 DEF A
<1>6. CASE /\ c.name = "SET" /\ c.ttl \in DOMAIN Number /\ c.flag \in {"EX", "ex", "PX", "px"}
           /\ A = <<"SET", c.key, c.val, c.flag, c.ttl>>
  <2>1. /\ A # <<>> /\ A[1] = "SET" /\ A[2] = c.key /\ A[3] = c.val /\ Len(A) = 5
        /\ A[4] = c.flag /\ A[5] = c.ttl
    BY <1>6
  <2> HIDE DEF A
  <2>2. c.ttl # None /\ FromChars(A[5]) = Number[c.ttl] /\ Number[c.ttl] \in Nat
    BY <1>6, <2>1, StreamAssumption DEF FromChars
  <2>3. CASE c.flag \in {"EX", "ex"}
    <3>1. parse_ttl(A) = (Number[c.ttl] * 1000) % TtlRange  BY <2>1, <2>2, <2>3 DEF parse_ttl
    <3>2. Meaning(c).ttl = 1000 * Number[c.ttl]  BY <1>6, <2>2, <2>3 DEF Meaning
    <3>3. Meaning(c).ttl < TtlRange /\ TtlRange \in Nat  BY <1>6, StreamAssumption
    <3>4. (Number[c.ttl] * 1000) % TtlRange = 1000 * Number[c.ttl]  BY <2>2, <3>2, <3>3
    <3> QED  BY <1>3, <1>6, <2>1, <3>1, <3>2, <3>4 DEF A
  <2>4. CASE c.flag \in {"PX", "px"}
    <3>1. c.flag \notin {"EX", "ex"}  BY <2>4
    <3>2. parse_ttl(A) = Number[c.ttl]  BY <2>1, <2>2, <2>4, <3>1 DEF parse_ttl
    <3>3. Meaning(c).ttl = Number[c.ttl]  BY <1>6, <2>2, <3>1 DEF Meaning
    <3> QED  BY <1>3, <1>6, <2>1, <3>2, <3>3 DEF A
  <2> QED  BY <1>6, <2>3, <2>4
<1>7. CASE c.name = "EXPIRE" /\ A = <<"EXPIRE", c.key, c.ttl>>
  <2>1. A # <<>> /\ A[1] = "EXPIRE" /\ Len(A) = 3  BY <1>7
  <2>2. Type(A) = "EXPIRE"  BY <2>1 DEF Type
  <2> HIDE DEF A
  <2>3. Execute(A) = [did |-> "EXPIRE"]  BY <2>1, <2>2 DEF Execute
  <2>4. Meaning(c) = [did |-> "EXPIRE"]  BY <1>7 DEF Meaning
  <2> QED  BY <2>3, <2>4 DEF A
<1>8. CASE c.name = "CONFIG" /\ A = <<"CONFIG", "GET", c.parameter>>
  <2>1. A # <<>> /\ A[1] = "CONFIG" /\ Len(A) = 3  BY <1>8
  <2>2. Type(A) = "CONFIG"  BY <2>1 DEF Type
  <2> HIDE DEF A
  <2>3. Execute(A) = [did |-> "CONFIG"]  BY <2>1, <2>2 DEF Execute
  <2>4. Meaning(c) = [did |-> "CONFIG"]  BY <1>8 DEF Meaning
  <2> QED  BY <2>3, <2>4 DEF A
<1> HIDE DEF A
<1>9. A = Args(c)  BY DEF A
<1> QED  BY <1>1, <1>2, <1>4, <1>5, <1>6, <1>7, <1>8, <1>9, ArgsAre DEF A

LEMMA TtlType ==
  ASSUME NEW args \in Seq(Texts)
  PROVE  parse_ttl(args) \in 0 .. TtlRange - 1
<1>1. TtlRange \in Nat \ {0}  BY StreamAssumption
<1>2. \A t : FromChars(t) \in 0 .. TtlRange - 1  BY <1>1, StreamAssumption DEF FromChars
<1>3. \A m \in Nat : (m * 1000) % TtlRange \in 0 .. TtlRange - 1
  <2> SUFFICES ASSUME NEW m \in Nat PROVE (m * 1000) % TtlRange \in 0 .. TtlRange - 1  OBVIOUS
  <2> DEFINE p == m * 1000
  <2>1. p \in Nat  OBVIOUS
  <2> HIDE DEF p
  <2>2. p % TtlRange \in 0 .. TtlRange - 1  BY <1>1, <2>1
  <2> QED  BY <2>2 DEF p
<1>4. (FromChars(args[5]) * 1000) % TtlRange \in 0 .. TtlRange - 1
  <2>1. FromChars(args[5]) \in Nat  BY <1>2
  <2> QED  BY <1>3, <2>1
<1>5. 0 \in 0 .. TtlRange - 1  BY <1>1
<1>6. parse_ttl(args) \in {FromChars(args[4]), (FromChars(args[5]) * 1000) % TtlRange,
                           FromChars(args[5]), 0}
  <2> DEFINE x == (FromChars(args[5]) * 1000) % TtlRange
             y == FromChars(args[4])
             z == FromChars(args[5])
  <2>1. parse_ttl(args) =
          CASE Len(args) = 4 -> y
            [] Len(args) >= 5 /\ args[4] \in {"EX", "ex"} -> x
            [] Len(args) >= 5 /\ args[4] \in {"PX", "px"} -> z
            [] OTHER -> 0
    BY DEF parse_ttl
  <2> HIDE DEF x, y, z
  <2>2. parse_ttl(args) \in {y, x, z, 0}  BY <2>1
  <2> QED  BY <2>2 DEF x, y, z
<1> QED  BY <1>2, <1>4, <1>5, <1>6

LEMMA ExecuteType ==
  ASSUME NEW args \in Seq(Texts)
  PROVE  Execute(args) \in Effect
<1>1. Len(args) \in Nat /\ \A i \in 1 .. Len(args) : args[i] \in Texts  BY LenProperties, ElementOfSeq
<1>2. CASE Type(args) = "SET" /\ Len(args) >= 3
  <2>1. args[2] \in Texts /\ args[3] \in Texts  BY <1>1, <1>2
  <2>2. Execute(args) = [did |-> "SET", key |-> args[2], val |-> args[3], ttl |-> parse_ttl(args)]
    BY <1>2 DEF Execute
  <2> QED  BY <2>1, <2>2, TtlType DEF Effect
<1>3. CASE Type(args) = "GET" /\ Len(args) >= 2
  <2>1. args[2] \in Texts  BY <1>1, <1>3
  <2>2. Execute(args) = [did |-> "GET", key |-> args[2]]  BY <1>3 DEF Execute
  <2> QED  BY <2>1, <2>2 DEF Effect
<1>4. CASE Type(args) = "CONFIG"
  <2>1. Execute(args) = [did |-> "CONFIG"]  BY <1>4 DEF Execute
  <2> QED  BY <2>1 DEF Effect
<1>5. CASE Type(args) = "EXPIRE" /\ Len(args) >= 3
  <2>1. Execute(args) = [did |-> "EXPIRE"]  BY <1>5 DEF Execute
  <2> QED  BY <2>1 DEF Effect
<1>6. CASE Type(args) = "PING"
  <2>1. Execute(args) = [did |-> "PING"]  BY <1>6 DEF Execute
  <2> QED  BY <2>1 DEF Effect
<1>7. CASE /\ ~(Type(args) = "SET" /\ Len(args) >= 3) /\ ~(Type(args) = "GET" /\ Len(args) >= 2)
           /\ Type(args) # "CONFIG" /\ ~(Type(args) = "EXPIRE" /\ Len(args) >= 3)
           /\ Type(args) # "PING"
  <2>1. Execute(args) = [did |-> "ERR_UNKNOWN"]  BY <1>7 DEF Execute
  <2> QED  BY <2>1 DEF Effect
<1> QED  BY <1>2, <1>3, <1>4, <1>5, <1>6, <1>7

LEMMA ExecuteNothing ==
  ASSUME NEW c \in Commands
  PROVE  Execute(<<>>) \in Effects(c)
<1> DEFINE B == Blanked(c, 0)
<1>1. Len(Args(c)) \in 1 .. 5 /\ DOMAIN Args(c) = 1 .. Len(Args(c))  BY ArgsCount
<1>2. B = [i \in 1 .. Len(Args(c)) |-> IF i <= 0 THEN Args(c)[i] ELSE None]  BY <1>1 DEF Blanked
<1>3. 1 \in 1 .. Len(Args(c)) /\ ~(1 <= 0)  BY <1>1
<1>4. B[1] = None  BY <1>2, <1>3
<1>5. Type(<<>>) = None /\ Type(B) = None  BY <1>4 DEF Type
<1>6. None \notin {"SET", "GET", "CONFIG", "EXPIRE", "PING"}  BY DEF None
<1> HIDE DEF B
<1>7. Execute(<<>>) = [did |-> "ERR_UNKNOWN"] /\ Execute(B) = [did |-> "ERR_UNKNOWN"]
  BY <1>5, <1>6 DEF Execute
<1>8. 0 \in 0 .. Len(Args(c))  BY <1>1
<1> QED  BY <1>7, <1>8 DEF B, Effects

-----------------------------------------------------------------------------
\* Parts of sequences

LEMMA SuffixParts ==
  ASSUME NEW S, NEW s \in Seq(S), NEW k \in 0 .. Len(s)
  PROVE  /\ SubSeq(s, k + 1, Len(s)) \in Seq(S) /\ Len(SubSeq(s, k + 1, Len(s))) = Len(s) - k
         /\ \A i \in 1 .. Len(s) - k : SubSeq(s, k + 1, Len(s))[i] = s[k + i]
<1>1. Len(s) \in Nat /\ k + 1 \in Int /\ Len(s) \in Int /\ \A i \in k + 1 .. Len(s) : s[i] \in S
  BY LenProperties
<1>2. /\ SubSeq(s, k + 1, Len(s)) \in Seq(S)
      /\ Len(SubSeq(s, k + 1, Len(s))) = IF k + 1 <= Len(s) THEN Len(s) - (k + 1) + 1 ELSE 0
      /\ \A i \in 1 .. Len(s) - (k + 1) + 1 : SubSeq(s, k + 1, Len(s))[i] = s[k + 1 + i - 1]
  BY <1>1, SubSeqProperties
<1>3. Len(SubSeq(s, k + 1, Len(s))) = Len(s) - k  BY <1>1, <1>2
<1>4. ASSUME NEW i \in 1 .. Len(s) - k PROVE SubSeq(s, k + 1, Len(s))[i] = s[k + i]
  <2>1. i \in 1 .. Len(s) - (k + 1) + 1 /\ k + 1 + i - 1 = k + i  BY <1>1
  <2> QED  BY <1>2, <2>1
<1> QED  BY <1>2, <1>3, <1>4

LEMMA PrefixParts ==
  ASSUME NEW S, NEW s \in Seq(S), NEW k \in 0 .. Len(s)
  PROVE  /\ SubSeq(s, 1, k) \in Seq(S) /\ Len(SubSeq(s, 1, k)) = k
         /\ \A i \in 1 .. k : SubSeq(s, 1, k)[i] = s[i]
<1>1. Len(s) \in Nat /\ 1 \in Int /\ k \in Int /\ \A i \in 1 .. k : s[i] \in S
  BY LenProperties
<1>2. /\ SubSeq(s, 1, k) \in Seq(S)
      /\ Len(SubSeq(s, 1, k)) = IF 1 <= k THEN k - 1 + 1 ELSE 0
      /\ \A i \in 1 .. k - 1 + 1 : SubSeq(s, 1, k)[i] = s[1 + i - 1]
  BY <1>1, SubSeqProperties
<1>3. Len(SubSeq(s, 1, k)) = k  BY <1>1, <1>2
<1>4. ASSUME NEW i \in 1 .. k PROVE SubSeq(s, 1, k)[i] = s[i]
  <2>1. i \in 1 .. k - 1 + 1 /\ 1 + i - 1 = i  BY <1>1
  <2> QED  BY <1>2, <2>1
<1> QED  BY <1>2, <1>3, <1>4

LEMMA SplitConcat ==
  ASSUME NEW S, NEW a \in Seq(S), NEW b \in Seq(S)
  PROVE  /\ SubSeq(a \o b, 1, Len(a)) = a
         /\ SubSeq(a \o b, Len(a) + 1, Len(a \o b)) = b
<1> PICK s \in Seq(S) : s = a \o b  BY ConcatProperties
<1>1. /\ Len(s) = Len(a) + Len(b) /\ Len(a) \in Nat /\ Len(b) \in Nat
      /\ \A i \in 1 .. Len(a) : s[i] = a[i]
      /\ \A i \in 1 .. Len(b) : s[Len(a) + i] = b[i]
  BY ConcatParts
<1>2. Len(a) \in 0 .. Len(s) /\ Len(s) - Len(a) = Len(b)  BY <1>1
<1>3. SubSeq(s, 1, Len(a)) = a
  <2> PICK t : t = SubSeq(s, 1, Len(a))  OBVIOUS
  <2>1. t \in Seq(S) /\ Len(t) = Len(a) /\ \A i \in 1 .. Len(a) : t[i] = s[i]  BY <1>2, PrefixParts
  <2> QED  BY <1>1, <2>1, SeqEqual
<1>4. SubSeq(s, Len(a) + 1, Len(s)) = b
  <2> PICK t : t = SubSeq(s, Len(a) + 1, Len(s))  OBVIOUS
  <2>1. t \in Seq(S) /\ Len(t) = Len(s) - Len(a) /\ \A i \in 1 .. Len(s) - Len(a) : t[i] = s[Len(a) + i]
    BY <1>2, SuffixParts
  <2>2. Len(t) = Len(b) /\ \A i \in 1 .. Len(b) : t[i] = b[i]  BY <1>1, <1>2, <2>1
  <2> QED  BY <2>1, <2>2, SeqEqual
<1> QED  BY <1>3, <1>4

-----------------------------------------------------------------------------
\* Where in the client's stream the lines stand that were read, or were not yet

\* The first line read may be the end of one.
Same(l, o, j) == l.text = o.text \/ (j = 1 /\ l.text \in Remainders(o.text))

\* What is left of stream s from line b + 1 on.
Left(q, s, b) ==
  /\ b + Len(q) = Len(s)
  /\ \A j \in 1 .. Len(q) : q[j].ended /\ Same(q[j], s[b + j], j)

\* What was read of it from line a + 1 on.
Held(q, s, a) ==
  /\ Trailing(q)
  /\ \A j \in 1 .. Len(q) : q[j].ended => a + j <= Len(s) /\ Same(q[j], s[a + j], j)

LEMMA CutLines ==
  ASSUME NEW l \in Row, NEW t \in Remainders(l.text)
  PROVE  /\ StartOf(l) \in Row /\ ~StartOf(l).ended
         /\ EndOf(t) \in Row /\ EndOf(t).ended /\ EndOf(t).text = t /\ ~EndOf(t).first
<1>1. t \in Texts \cup DOMAIN Star
  <2>1. None \in Texts  BY DEF Texts
  <2>2. l.text \in DOMAIN Rests => Rests[l.text] \subseteq DOMAIN Star  BY StreamAssumption
  <2> QED  BY <2>1, <2>2 DEF Remainders
<1>2. l.first \in BOOLEAN  BY DEF Row
<1>3. StartOf(l) \in Row /\ ~StartOf(l).ended  BY <1>2 DEF StartOf, Row
<1>4. EndOf(t) \in Row  BY <1>1 DEF EndOf, Row
<1>5. EndOf(t).ended /\ EndOf(t).text = t /\ ~EndOf(t).first  BY DEF EndOf
<1> QED  BY <1>3, <1>4, <1>5

LEMMA EndOfEnd ==
  ASSUME NEW o, NEW u, u = o \/ u \in Remainders(o), NEW t \in Remainders(u)
  PROVE  t \in Remainders(o)
<1>1. CASE u = o  BY <1>1
<1>2. CASE u = None
  <2>1. u \notin DOMAIN Rests  BY <1>2, StreamAssumption
  <2> QED  BY <2>1, <1>2 DEF Remainders
<1>3. CASE o \in DOMAIN Rests /\ u \in Rests[o]  BY <1>3, StreamAssumption
<1> QED  BY <1>1, <1>2, <1>3 DEF Remainders

LEMMA LeftExtends ==
  ASSUME NEW s \in Seq(Commands), NEW c \in Commands, NEW q \in Seq(Row), NEW b \in Nat,
         Left(q, Stream(s), b)
  PROVE  q \o Lines(c) \in Seq(Row) /\ Left(q \o Lines(c), Stream(Append(s, c)), b)
<1> PICK v \in Seq(Row) : v = Lines(c)  BY LinesAre, PieceIsRow
<1> PICK S \in Seq(Piece) : S = Stream(s)  BY StreamType
<1> PICK T : T = Stream(Append(s, c))  OBVIOUS
<1> PICK r \in Seq(Row) : r = q \o v  BY ConcatProperties
<1>1. /\ Len(r) = Len(q) + Len(v) /\ Len(q) \in Nat /\ Len(v) \in Nat /\ Len(v) = Size(c)
      /\ \A i \in 1 .. Len(q) : r[i] = q[i]
      /\ \A i \in 1 .. Len(v) : r[Len(q) + i] = v[i]
  BY ConcatParts, LinesAre
<1>2. /\ Len(T) = Len(S) + Len(v) /\ Len(S) \in Nat
      /\ \A i \in 1 .. Len(S) : T[i] = S[i]
      /\ \A i \in 1 .. Len(v) : T[Len(S) + i] = v[i]
  <2>1. Len(S) \in Nat  BY LenProperties
  <2>2. v = Lines(c) /\ Len(v) = Size(c)  BY <1>1
  <2> QED  BY <2>1, <2>2, AppendedParts
<1>0. Left(q, S, b)  OBVIOUS
<1>3. b + Len(q) = Len(S)  BY ONLY <1>0 DEF Left
<1>4. b + Len(r) = Len(T)
  <2>1. \A k, l, m \in Nat : b + k = m => b + (k + l) = m + l  OBVIOUS
  <2>2. Len(q) \in Nat /\ Len(v) \in Nat /\ Len(S) \in Nat  BY <1>1, <1>2
  <2>3. b + (Len(q) + Len(v)) = Len(S) + Len(v)  BY ONLY <1>3, <2>1, <2>2, Zenon
  <2>4. Len(r) = Len(q) + Len(v) /\ Len(T) = Len(S) + Len(v)  BY <1>1, <1>2
  <2> QED  BY <2>3, <2>4
<1>5. ASSUME NEW j \in 1 .. Len(r) PROVE r[j].ended /\ Same(r[j], T[b + j], j)
  <2>1. CASE j <= Len(q)
    <3>1. j \in 1 .. Len(q) /\ b + j \in 1 .. Len(S)  BY <1>1, <1>3, <2>1
    <3>2. r[j] = q[j] /\ T[b + j] = S[b + j]  BY <1>1, <1>2, <3>1
    <3> QED  BY <3>1, <3>2 DEF Left
  <2>2. CASE ~(j <= Len(q))
    <3> PICK i \in 1 .. Len(v) : j = Len(q) + i
      <4>1. j - Len(q) \in 1 .. Len(v) /\ j = Len(q) + (j - Len(q))  BY <1>1, <2>2
      <4> QED  BY <4>1
    <3>1. b + j = Len(S) + i
      <4>1. \A k, l, m \in Nat : b + k = m => b + (k + l) = m + l  OBVIOUS
      <4>2. i \in Nat  BY <1>1
      <4> QED  BY <1>1, <1>2, <1>3, <4>1, <4>2
    <3>2. r[j] = v[i] /\ T[b + j] = v[i]  BY <1>1, <1>2, <3>1
    <3>3. v[i] \in Piece  BY <1>1, LinesAre
    <3> QED  BY <3>2, <3>3 DEF Same, Piece
  <2> QED  BY <2>1, <2>2
<1> QED  BY <1>4, <1>5 DEF Left

LEMMA HeldExtends ==
  ASSUME NEW s \in Seq(Commands), NEW c \in Commands, NEW q, NEW a \in Nat,
         Len(q) \in Nat, Held(q, Stream(s), a)
  PROVE  Held(q, Stream(Append(s, c)), a)
<1> PICK S \in Seq(Piece) : S = Stream(s)  BY StreamType
<1> PICK T : T = Stream(Append(s, c))  OBVIOUS
<1>1. /\ Len(T) = Len(S) + Size(c) /\ Len(S) \in Nat /\ Size(c) \in Nat
      /\ \A i \in 1 .. Len(S) : T[i] = S[i]
  BY AppendedParts, LenProperties, LinesAre
<1>2. ASSUME NEW j \in 1 .. Len(q), q[j].ended
      PROVE  a + j <= Len(T) /\ Same(q[j], T[a + j], j)
  <2>1. a + j <= Len(S) /\ Same(q[j], S[a + j], j)  BY <1>2 DEF Held
  <2>2. a + j \in 1 .. Len(S) /\ a + j <= Len(T)  BY <1>1, <2>1
  <2> QED  BY <1>1, <2>1, <2>2
<1> QED  BY <1>2 DEF Held

LEMMA LeftPrefix ==
  ASSUME NEW s \in Seq(Piece), NEW q \in Seq(Row), NEW b \in Nat, Left(q, s, b),
         NEW k \in 0 .. Len(q)
  PROVE  /\ SubSeq(q, 1, k) \in Seq(Row) /\ Len(SubSeq(q, 1, k)) = k
         /\ Held(SubSeq(q, 1, k), s, b)
<1> PICK p : p = SubSeq(q, 1, k)  OBVIOUS
<1>1. p \in Seq(Row) /\ Len(p) = k /\ \A i \in 1 .. k : p[i] = q[i]  BY PrefixParts
<1>2. Len(q) \in Nat /\ k \in Nat /\ Len(s) \in Nat  BY LenProperties
<1>3. ASSUME NEW j \in 1 .. k PROVE p[j].ended /\ b + j <= Len(s) /\ Same(p[j], s[b + j], j)
  <2>1. j \in 1 .. Len(q)  BY <1>2
  <2>2. b + Len(q) = Len(s) /\ q[j].ended /\ Same(q[j], s[b + j], j)  BY <2>1 DEF Left
  <2> QED  BY <1>1, <1>2, <2>1, <2>2
<1> QED  BY <1>1, <1>3 DEF Held, Trailing

LEMMA LeftSuffix ==
  ASSUME NEW s \in Seq(Piece), NEW q \in Seq(Row), NEW b \in Nat, Left(q, s, b),
         NEW k \in 1 .. Len(q)
  PROVE  /\ SubSeq(q, k + 1, Len(q)) \in Seq(Row)
         /\ Left(SubSeq(q, k + 1, Len(q)), s, b + k)
<1> PICK p : p = SubSeq(q, k + 1, Len(q))  OBVIOUS
<1>1. Len(q) \in Nat /\ k \in 0 .. Len(q) /\ k >= 1  BY LenProperties
<1>2. /\ p \in Seq(Row) /\ Len(p) = Len(q) - k
      /\ \A i \in 1 .. Len(q) - k : p[i] = q[k + i]
  BY <1>1, SuffixParts
<1>3. b + Len(q) = Len(s)  BY DEF Left
<1>4. (b + k) + Len(p) = Len(s)  BY <1>1, <1>2, <1>3
<1>5. ASSUME NEW j \in 1 .. Len(p) PROVE p[j].ended /\ Same(p[j], s[(b + k) + j], j)
  <2>1. k + j \in 1 .. Len(q) /\ k + j # 1 /\ (b + k) + j = b + (k + j) /\ j \in 1 .. Len(q) - k
    BY <1>1, <1>2
  <2>2. q[k + j].ended /\ Same(q[k + j], s[b + (k + j)], k + j)  BY <2>1 DEF Left
  <2>3. p[j] = q[k + j]  BY <1>2, <2>1
  <2>4. q[k + j].text = s[b + (k + j)].text  BY <2>1, <2>2 DEF Same
  <2> QED  BY <2>1, <2>2, <2>3, <2>4 DEF Same
<1> QED  BY <1>2, <1>4, <1>5 DEF Left

LEMMA CutPrefix ==
  ASSUME NEW s \in Seq(Piece), NEW q \in Seq(Row), NEW b \in Nat, Left(q, s, b),
         NEW k \in 1 .. Len(q)
  PROVE  /\ Append(SubSeq(q, 1, k - 1), StartOf(q[k])) \in Seq(Row)
         /\ Len(Append(SubSeq(q, 1, k - 1), StartOf(q[k]))) = k
         /\ Held(Append(SubSeq(q, 1, k - 1), StartOf(q[k])), s, b)
<1> PICK p : p = SubSeq(q, 1, k - 1)  OBVIOUS
<1> PICK x : x = StartOf(q[k])  OBVIOUS
<1> PICK r : r = Append(p, x)  OBVIOUS
<1>1. Len(q) \in Nat /\ k - 1 \in 0 .. Len(q) /\ k \in Nat  BY LenProperties
<1>2. p \in Seq(Row) /\ Len(p) = k - 1 /\ Held(p, s, b)  BY <1>1, LeftPrefix
<1>3. \A i \in 1 .. k - 1 : p[i] = q[i]  BY <1>1, PrefixParts
<1>4. x \in Row /\ ~x.ended
  <2>1. q[k] \in Row  BY ElementOfSeq
  <2>2. None \in Remainders(q[k].text)  BY DEF Remainders
  <2> QED  BY <2>1, <2>2, CutLines
<1>5. r \in Seq(Row) /\ Len(r) = k /\ r[k] = x /\ \A i \in 1 .. k - 1 : r[i] = p[i]
  <2>1. r \in Seq(Row) /\ Len(r) = Len(p) + 1 /\ r[Len(p) + 1] = x
        /\ \A i \in 1 .. Len(p) : r[i] = p[i]
    BY <1>2, <1>4, AppendProperties
  <2>2. Len(p) + 1 = k  BY <1>1, <1>2
  <2> QED  BY <1>2, <2>1, <2>2
<1>6. ASSUME NEW j \in 1 .. k
      PROVE  /\ r[j].ended \/ j = k
             /\ r[j].ended => b + j <= Len(s) /\ Same(r[j], s[b + j], j)
  <2>1. CASE j = k  BY <1>4, <1>5, <2>1
  <2>2. CASE j # k
    <3>1. j \in 1 .. k - 1 /\ j \in 1 .. Len(p) /\ j \in 1 .. Len(q)  BY <1>1, <1>2, <2>2
    <3>2. r[j] = p[j] /\ p[j] = q[j] /\ q[j].ended  BY <1>3, <1>5, <3>1 DEF Left
    <3>3. b + j <= Len(s) /\ Same(p[j], s[b + j], j)  BY <1>2, <3>1, <3>2 DEF Held
    <3> QED  BY <3>2, <3>3
  <2> QED  BY <2>1, <2>2
<1> QED  BY <1>5, <1>6 DEF Held, Trailing

LEMMA CutSuffix ==
  ASSUME NEW s \in Seq(Piece), NEW q \in Seq(Row), NEW b \in Nat, Left(q, s, b),
         NEW k \in 1 .. Len(q), NEW t \in Remainders(q[k].text)
  PROVE  /\ <<EndOf(t)>> \o SubSeq(q, k + 1, Len(q)) \in Seq(Row)
         /\ (<<EndOf(t)>> \o SubSeq(q, k + 1, Len(q)))[1] = EndOf(t)
         /\ <<EndOf(t)>> \o SubSeq(q, k + 1, Len(q)) # <<>>
         /\ Left(<<EndOf(t)>> \o SubSeq(q, k + 1, Len(q)), s, b + (k - 1))
<1> PICK x : x = EndOf(t)  OBVIOUS
<1> PICK p : p = SubSeq(q, k + 1, Len(q))  OBVIOUS
<1>1. Len(q) \in Nat /\ k \in 0 .. Len(q) /\ k \in Nat /\ k >= 1 /\ q[k] \in Row
  BY LenProperties, ElementOfSeq
<1>2. x \in Row /\ x.ended /\ x.text = t  BY <1>1, CutLines
<1>3. p \in Seq(Row) /\ Left(p, s, b + k)  BY LeftSuffix
<1> PICK h : h = <<x>>  OBVIOUS
<1>8. h \in Seq(Row) /\ Len(h) = 1 /\ h[1] = x  BY <1>2
<1> PICK r : r = h \o p  OBVIOUS
<1>4. /\ r \in Seq(Row) /\ Len(r) = 1 + Len(p) /\ Len(p) \in Nat /\ r[1] = x
      /\ \A i \in 1 .. Len(p) : r[1 + i] = p[i]
  BY <1>3, <1>8, ConcatParts
<1>5. r # <<>>  BY <1>4, EmptySeq
<1>6. (b + k) + Len(p) = Len(s)  BY <1>3 DEF Left
<1>7. (b + (k - 1)) + Len(r) = Len(s)
  <2>1. \A m \in Nat : (b + (k - 1)) + (1 + m) = (b + k) + m  BY <1>1
  <2> QED  BY <1>4, <1>6, <2>1
<1>9. ASSUME NEW j \in 1 .. Len(r)
      PROVE  r[j].ended /\ Same(r[j], s[(b + (k - 1)) + j], j)
  <2>1. CASE j = 1
    <3>1. (b + (k - 1)) + 1 = b + k  BY <1>1
    <3>2. q[k].ended /\ Same(q[k], s[b + k], k)  BY DEF Left
    <3>3. t \in Remainders(s[b + k].text)  BY <3>2, EndOfEnd DEF Same
    <3>4. r[j] = x /\ (b + (k - 1)) + j = b + k  BY <1>4, <2>1, <3>1
    <3>5. Same(x, s[b + k], 1)  BY <1>2, <3>3 DEF Same
    <3> QED  BY <1>2, <2>1, <3>2, <3>4, <3>5
  <2>2. CASE j # 1
    <3> PICK i \in 1 .. Len(p) : j = 1 + i
      <4>1. j - 1 \in 1 .. Len(p) /\ j = 1 + (j - 1)  BY <1>4, <2>2
      <4> QED  BY <4>1
    <3>1. (b + (k - 1)) + j = b + (k + i) /\ k + i \in 1 .. Len(q) /\ k + i # 1
          /\ i \in 1 .. Len(q) - k
      <4>1. Len(p) = Len(q) - k  BY <1>1, SuffixParts
      <4>2. i \in 1 .. Len(q) - k  BY <4>1
      <4> QED  BY <1>1, <4>2
    <3>2. q[k + i].ended /\ Same(q[k + i], s[b + (k + i)], k + i)  BY <3>1 DEF Left
    <3>3. r[j] = p[i] /\ p[i] = q[k + i]  BY <1>1, <1>4, <3>1, SuffixParts
    <3>4. q[k + i].text = s[b + (k + i)].text  BY <3>1, <3>2 DEF Same
    <3> QED  BY <3>1, <3>2, <3>3, <3>4 DEF Same
  <2> QED  BY <2>1, <2>2
<1> QED  BY <1>4, <1>5, <1>7, <1>9 DEF Left

LEMMA HeldSuffix ==
  ASSUME NEW s \in Seq(Piece), NEW q \in Seq(Row), NEW a \in Nat, Held(q, s, a),
         NEW k \in 1 .. Len(q)
  PROVE  /\ SubSeq(q, k + 1, Len(q)) \in Seq(Row) /\ Len(SubSeq(q, k + 1, Len(q))) <= Len(q)
         /\ Held(SubSeq(q, k + 1, Len(q)), s, a + k)
<1> PICK p : p = SubSeq(q, k + 1, Len(q))  OBVIOUS
<1>1. Len(q) \in Nat /\ k \in 0 .. Len(q) /\ k >= 1  BY LenProperties
<1>2. /\ p \in Seq(Row) /\ Len(p) = Len(q) - k
      /\ \A i \in 1 .. Len(q) - k : p[i] = q[k + i]
  BY <1>1, SuffixParts
<1>3. ASSUME NEW j \in 1 .. Len(p)
      PROVE  /\ p[j].ended \/ j = Len(p)
             /\ p[j].ended => (a + k) + j <= Len(s) /\ Same(p[j], s[(a + k) + j], j)
  <2>1. k + j \in 1 .. Len(q) /\ k + j # 1 /\ (a + k) + j = a + (k + j) /\ j \in 1 .. Len(q) - k
        /\ (k + j = Len(q) => j = Len(p))
    BY <1>1, <1>2
  <2>2. q[k + j].ended \/ k + j = Len(q)  BY <2>1 DEF Held, Trailing
  <2>3. p[j] = q[k + j]  BY <1>2, <2>1
  <2>4. q[k + j].ended => a + (k + j) <= Len(s) /\ Same(q[k + j], s[a + (k + j)], k + j)
    BY <2>1 DEF Held
  <2>5. Same(q[k + j], s[a + (k + j)], k + j) => q[k + j].text = s[a + (k + j)].text
    BY <2>1 DEF Same
  <2> QED  BY <2>1, <2>2, <2>3, <2>4, <2>5 DEF Same
<1>4. Len(p) <= Len(q)  BY <1>1, <1>2
<1> QED  BY <1>2, <1>3, <1>4 DEF Held, Trailing

LEMMA ExcerptType ==
  ASSUME NEW s \in Seq(Piece), NEW h \in 1 .. Len(s), NEW n \in Nat, NEW m \in h .. Len(s)
  PROVE  Excerpt(s, h, n, m) \in Seq(Texts)
<1>1. ASSUME NEW i \in 1 .. n
      PROVE  (IF h + 2 * i <= m THEN s[h + 2 * i].text ELSE None) \in Texts
  <2>1. CASE h + 2 * i <= m
    <3>1. h + 2 * i \in 1 .. Len(s)  BY <2>1, LenProperties
    <3>2. s[h + 2 * i] \in Piece  BY <3>1, ElementOfSeq
    <3> QED  BY <2>1, <3>2 DEF Piece
  <2>2. CASE ~(h + 2 * i <= m)  BY <2>2 DEF Texts
  <2> QED  BY <2>1, <2>2
<1>2. Excerpt(s, h, n, m) \in [1 .. n -> Texts]  BY <1>1 DEF Excerpt
<1> QED  BY <1>2, SeqDef

LEMMA ExcerptExtends ==
  ASSUME NEW s \in Seq(Commands), NEW c \in Commands, NEW n \in Nat,
         NEW h \in 1 .. Len(Stream(s)), NEW m \in h .. Len(Stream(s))
  PROVE  /\ Excerpt(Stream(Append(s, c)), h, n, m) = Excerpt(Stream(s), h, n, m)
         /\ h \in 1 .. Len(Stream(Append(s, c))) /\ m \in h .. Len(Stream(Append(s, c)))
         /\ Stream(Append(s, c))[h] = Stream(s)[h]
<1> PICK S \in Seq(Piece) : S = Stream(s)  BY StreamType
<1> PICK T : T = Stream(Append(s, c))  OBVIOUS
<1>1. /\ Len(T) = Len(S) + Size(c) /\ Len(S) \in Nat /\ Size(c) \in Nat
      /\ \A i \in 1 .. Len(S) : T[i] = S[i]
  BY AppendedParts, LenProperties, LinesAre
<1>2. ASSUME NEW i \in 1 .. n
      PROVE  (IF h + 2 * i <= m THEN T[h + 2 * i].text ELSE None)
               = (IF h + 2 * i <= m THEN S[h + 2 * i].text ELSE None)
  <2>1. CASE h + 2 * i <= m
    <3>1. h + 2 * i \in 1 .. Len(S)  BY <1>1, <2>1
    <3> QED  BY <1>1, <3>1
  <2>2. CASE ~(h + 2 * i <= m)  BY <2>2
  <2> QED  BY <2>1, <2>2
<1>3. Excerpt(T, h, n, m) = Excerpt(S, h, n, m)  BY <1>2 DEF Excerpt
<1> QED  BY <1>1, <1>3

\* What parses is an excerpt of the stream.
LEMMA ParseExcerpt ==
  ASSUME NEW s \in Seq(Piece), NEW q \in Seq(Row), NEW a \in Nat, Held(q, s, a),
         parse(q).consumed > 0
  PROVE  \E h \in 1 .. Len(s) : \E m \in h .. Len(s) :
           \E t \in ({s[h].text} \cup Remainders(s[h].text)) \cap DOMAIN Star :
             parse(q).args = Excerpt(s, h, Star[t], m)
<1> PICK n : n = LineCount(q)  OBVIOUS
<1>1. Trailing(q)  BY DEF Held
<1>2. /\ 1 \in 1 .. Len(q) /\ q[1].ended /\ n >= 1 /\ q[1].text \in DOMAIN Star
      /\ NumArgs(q) \in Nat /\ NumArgs(q) = Star[q[1].text]
      /\ parse(q).args = [i \in 1 .. NumArgs(q) |-> Text(q, 1 + 2 * i)]
  BY <1>1, ParseStarred
<1>3. n \in 0 .. Len(q) /\ Len(q) \in Nat /\ \A j \in 1 .. Len(q) : j <= n <=> q[j].ended
  BY <1>1, LinesCounted
<1>4. Len(s) \in Nat /\ DOMAIN s = 1 .. Len(s)  BY LenProperties
<1>5. a + 1 \in 1 .. Len(s) /\ q[1].text \in {s[a + 1].text} \cup Remainders(s[a + 1].text)
  <2>1. a + 1 <= Len(s) /\ Same(q[1], s[a + 1], 1)  BY <1>2 DEF Held
  <2> QED  BY <1>4, <2>1 DEF Same
<1>6. a + n \in a + 1 .. Len(s)
  <2>1. n \in 1 .. Len(q) /\ q[n].ended  BY <1>2, <1>3
  <2>2. a + n <= Len(s)  BY <2>1 DEF Held
  <2> QED  BY <1>2, <1>3, <1>4, <2>2
<1>7. ASSUME NEW i \in 1 .. NumArgs(q)
      PROVE  Text(q, 1 + 2 * i)
               = IF (a + 1) + 2 * i <= a + n THEN s[(a + 1) + 2 * i].text ELSE None
  <2> DEFINE j == 1 + 2 * i
  <2>1. j \in Nat /\ j > 1 /\ (a + 1) + 2 * i = a + j /\ (a + j <= a + n <=> j <= n)
    BY <1>2, <1>3
  <2> HIDE DEF j
  <2>2. CASE j <= n
    <3>1. j \in 1 .. Len(q) /\ q[j].ended  BY <1>3, <2>1, <2>2
    <3>2. Same(q[j], s[a + j], j)  BY <3>1 DEF Held
    <3>3. q[j].text = s[a + j].text  BY <2>1, <3>2 DEF Same
    <3>4. Text(q, j) = q[j].text  BY <2>2 DEF Text
    <3> QED  BY <2>1, <2>2, <3>3, <3>4 DEF j
  <2>3. CASE ~(j <= n)
    <3>1. Text(q, j) = None  BY <2>3 DEF Text
    <3> QED  BY <2>1, <2>3, <3>1 DEF j
  <2> QED  BY <2>2, <2>3
<1>8. parse(q).args = Excerpt(s, a + 1, NumArgs(q), a + n)  BY <1>2, <1>7 DEF Excerpt
<1> QED  BY <1>2, <1>5, <1>6, <1>8

-----------------------------------------------------------------------------
\* What stands in a stream

LEMMA ToSetType ==
  ASSUME NEW S, NEW s \in Seq(S)
  PROVE  ToSet(s) \in SUBSET S
  BY LenProperties, ElementOfSeq DEF ToSet

LEMMA ToSetAppend ==
  ASSUME NEW S, NEW s \in Seq(S), NEW x \in S
  PROVE  ToSet(Append(s, x)) = ToSet(s) \cup {x} /\ ToSet(s) \in SUBSET S
<1> PICK t : t = Append(s, x)  OBVIOUS
<1>1. /\ t \in Seq(S) /\ Len(t) = Len(s) + 1 /\ t[Len(s) + 1] = x /\ Len(s) \in Nat
      /\ \A i \in 1 .. Len(s) : t[i] = s[i]
  BY AppendProperties, LenProperties
<1>2. DOMAIN t = 1 .. Len(s) + 1 /\ DOMAIN s = 1 .. Len(s)  BY <1>1, LenProperties
<1>3. ToSet(t) \subseteq ToSet(s) \cup {x}
  <2> SUFFICES ASSUME NEW i \in 1 .. Len(s) + 1 PROVE t[i] \in ToSet(s) \cup {x}
    BY <1>2 DEF ToSet
  <2>1. i \in 1 .. Len(s) \/ i = Len(s) + 1  BY <1>1
  <2> QED  BY <1>1, <1>2, <2>1 DEF ToSet
<1>4. ToSet(s) \cup {x} \subseteq ToSet(t)
  <2>1. ASSUME NEW i \in 1 .. Len(s) PROVE s[i] \in ToSet(t)
    <3>1. i \in DOMAIN t /\ t[i] = s[i]  BY <1>1, <1>2
    <3> QED  BY <3>1 DEF ToSet
  <2>2. Len(s) + 1 \in DOMAIN t  BY <1>1, <1>2
  <2>3. x \in ToSet(t)  BY <1>1, <2>2 DEF ToSet
  <2> QED  BY <1>2, <2>1, <2>3 DEF ToSet
<1>5. ToSet(s) \in SUBSET S  BY <1>2, ElementOfSeq, SMTT(25) DEF ToSet
<1> QED  BY <1>3, <1>4, <1>5

LEMMA HeadFirst ==
  ASSUME NEW b \in Seq(Commands), b # <<>>
  PROVE  \E c \in Commands, e \in Seq(Commands) : b = <<c>> \o e
<1>1. Len(b) \in Nat /\ Len(b) >= 1  BY EmptySeq, LenProperties
<1>2. 1 \in 1 .. Len(b) /\ Len(b) \in 1 .. Len(b)  BY <1>1
<1>3. SubSeq(b, 1, Len(b)) = <<b[1]>> \o SubSeq(b, 1 + 1, Len(b))  BY <1>2, SubSeqRecursiveFirst
<1>4. SubSeq(b, 1, Len(b)) = b  BY SubSeqFull
<1>5. SubSeq(b, 1 + 1, Len(b)) \in Seq(Commands)  BY <1>2, SuffixParts
<1>6. b[1] \in Commands  BY <1>2, ElementOfSeq
<1> QED  BY <1>3, <1>4, <1>5, <1>6

\* Every line of a stream is one of a command of the client, all of which is there.
Placed(s, h) == \E c \in ToSet(s) : \E p \in Nat :
  /\ p < h /\ h <= p + Size(c) /\ p + Size(c) <= Len(Stream(s))
  /\ \A i \in 1 .. Size(c) : Stream(s)[p + i] = Lines(c)[i]

LEMMA Places ==
  ASSUME NEW cs \in Seq(Commands), NEW h \in 1 .. Len(Stream(cs))
  PROVE  Placed(cs, h)
<1> DEFINE P == {s \in Seq(Commands) : \A g \in 1 .. Len(Stream(s)) : Placed(s, g)}
<1>1. <<>> \in P
  <2>1. Len(Stream(<<>>)) = 0  BY StreamEmpty
  <2> QED  BY <2>1, EmptySeq
<1>2. ASSUME NEW s \in P, NEW c \in Commands PROVE Append(s, c) \in P
  <2> PICK t : t = Append(s, c)  OBVIOUS
  <2> PICK L : L = Len(Stream(s))  OBVIOUS
  <2>1. s \in Seq(Commands) /\ t \in Seq(Commands) /\ ToSet(t) = ToSet(s) \cup {c}
    BY AppendProperties, ToSetAppend
  <2>2. /\ Len(Stream(t)) = L + Size(c) /\ L \in Nat /\ Size(c) \in Nat
        /\ \A i \in 1 .. L : Stream(t)[i] = Stream(s)[i]
        /\ \A i \in 1 .. Size(c) : Stream(t)[L + i] = Lines(c)[i]
    <3>1. Stream(s) \in Seq(Piece)  BY <2>1, StreamType
    <3>2. L \in Nat  BY <3>1, LenProperties
    <3>3. Size(c) \in Nat  BY LinesAre
    <3> QED  BY <2>1, <3>2, <3>3, AppendedParts
  <2>3. ASSUME NEW g \in 1 .. L + Size(c) PROVE Placed(t, g)
    <3>1. CASE g <= L
      <4>1. g \in 1 .. L  BY <2>2, <3>1
      <4>2. Placed(s, g)  BY <4>1
      <4>3. PICK e \in ToSet(s), p \in Nat :
              /\ p < g /\ g <= p + Size(e) /\ p + Size(e) <= L
              /\ \A i \in 1 .. Size(e) : Stream(s)[p + i] = Lines(e)[i]
        BY <4>2 DEF Placed
      <4>4. e \in Commands /\ e \in ToSet(t) /\ Size(e) \in Nat
        <5>1. e \in Commands  BY <2>1, ToSetType
        <5> QED  BY <2>1, <5>1, LinesAre
      <4>5. p + Size(e) <= Len(Stream(t))  BY <2>2, <4>3, <4>4
      <4>6. ASSUME NEW i \in 1 .. Size(e) PROVE Stream(t)[p + i] = Lines(e)[i]
        <5>1. p + i \in 1 .. L  BY <2>2, <4>3, <4>4
        <5> QED  BY <2>2, <4>3, <5>1
      <4> QED  BY <4>3, <4>4, <4>5, <4>6 DEF Placed
    <3>2. CASE ~(g <= L)
      <4>1. L < g /\ g <= L + Size(c) /\ L + Size(c) <= Len(Stream(t)) /\ c \in ToSet(t)
        BY <2>1, <2>2, <3>2
      <4> QED  BY <2>2, <4>1 DEF Placed
    <3> QED  BY <3>1, <3>2
  <2> QED  BY <2>1, <2>2, <2>3
<1>3. P \in SUBSET Seq(Commands)  OBVIOUS
<1> HIDE DEF P
<1>4. P = Seq(Commands)  BY <1>1, <1>2, <1>3, SeqInduction
<1> QED  BY <1>4 DEF P

LEMMA LineText ==
  ASSUME NEW c \in Commands, NEW j \in 1 .. Size(c)
  PROVE  /\ j = 1 => Lines(c)[j].text = Header[Len(Args(c))]
         /\ j # 1 /\ j % 2 = 0 => Lines(c)[j].text = Length
         /\ j # 1 /\ j % 2 # 0 => Lines(c)[j].text = Args(c)[j \div 2]
<1>1. Lines(c)[j].text = IF j = 1 THEN Header[Len(Args(c))]
                         ELSE IF j % 2 = 0 THEN Length ELSE Args(c)[j \div 2]
  BY LinesAre
<1> QED  BY <1>1

\* An excerpt of the stream behind a header is a command without its last arguments.
LEMMA ExcerptOfCommand ==
  ASSUME NEW c \in Commands, NEW s, NEW p \in Nat, NEW m \in Nat, p + 1 <= m,
         \A i \in 1 .. Size(c) : s[p + i] = Lines(c)[i]
  PROVE  \E n \in 0 .. Len(Args(c)) : Excerpt(s, p + 1, Len(Args(c)), m) = Blanked(c, n)
<1> PICK A : A = Len(Args(c))  OBVIOUS
<1>1. A \in 1 .. 5 /\ DOMAIN Args(c) = 1 .. A /\ Size(c) = 1 + 2 * A  BY ArgsCount DEF Size
<1>2. ASSUME NEW i \in 1 .. A PROVE s[(p + 1) + 2 * i].text = Args(c)[i]
  <2> PICK j : j = 1 + 2 * i  OBVIOUS
  <2>1. j \in 1 .. Size(c) /\ j # 1 /\ j % 2 # 0 /\ j \div 2 = i /\ (p + 1) + 2 * i = p + j
    BY <1>1
  <2>2. Lines(c)[j].text = Args(c)[i]  BY <2>1, LineText
  <2> QED  BY <2>1, <2>2
<1>3. PICK n \in 0 .. A : \A i \in 1 .. A : i <= n <=> (p + 1) + 2 * i <= m
  <2> PICK d \in Nat : m = (p + 1) + d
    <3>1. m - (p + 1) \in Nat /\ m = (p + 1) + (m - (p + 1))  OBVIOUS
    <3> QED  BY <3>1
  <2>1. CASE d >= 2 * A
    <3>1. A \in 0 .. A /\ \A i \in 1 .. A : i <= A <=> (p + 1) + 2 * i <= m  BY <1>1, <2>1
    <3> QED  BY <3>1
  <2>2. CASE d < 2 * A
    <3> PICK n : n = d \div 2  OBVIOUS
    <3>1. n \in 0 .. A /\ (d = 2 * n \/ d = 2 * n + 1)  BY <1>1, <2>2
    <3>2. \A i \in 1 .. A : i <= n <=> (p + 1) + 2 * i <= m  BY <1>1, <3>1
    <3> QED  BY <3>1, <3>2
  <2>3. d >= 2 * A \/ d < 2 * A  BY <1>1
  <2> QED  BY <2>1, <2>2, <2>3, Zenon
<1>4. \A i \in 1 .. A : (IF (p + 1) + 2 * i <= m THEN s[(p + 1) + 2 * i].text ELSE None)
                          = IF i <= n THEN Args(c)[i] ELSE None
  BY <1>2, <1>3
<1>5. Excerpt(s, p + 1, A, m) = Blanked(c, n)  BY <1>1, <1>4 DEF Excerpt, Blanked
<1> QED  BY <1>5

\* So cuts only blank, unless an argument looks like a header.
LEMMA ExcerptsBlank ==
  ASSUME sent \in Seq(Commands), Excerpts
  PROVE  OnlyBlanks
<1> SUFFICES ASSUME \A c \in ToSet(sent) : \A i \in DOMAIN Args(c) : ~Deceives(Args(c)[i]),
                    NEW x \in ToSet(executed)
             PROVE  \E c \in ToSet(sent) : x \in Effects(c)
  BY DEF OnlyBlanks
<1> PICK s \in Seq(Piece) : s = Stream(sent)  BY StreamType
<1>1. Len(s) \in Nat /\ DOMAIN s = 1 .. Len(s)  BY LenProperties
<1> PICK h \in 1 .. Len(s) : \E m \in h .. Len(s) :
       \E t \in ({s[h].text} \cup Remainders(s[h].text)) \cap DOMAIN Star :
         x = Execute(Excerpt(s, h, Star[t], m))
  BY <1>1 DEF Excerpts
<1> PICK m \in h .. Len(s) :
       \E t \in ({s[h].text} \cup Remainders(s[h].text)) \cap DOMAIN Star :
         x = Execute(Excerpt(s, h, Star[t], m))
  OBVIOUS
<1>2. PICK t \in ({s[h].text} \cup Remainders(s[h].text)) \cap DOMAIN Star :
        x = Execute(Excerpt(s, h, Star[t], m))
  OBVIOUS
<1>3. PICK c \in ToSet(sent), p \in Nat :
        /\ p < h /\ h <= p + Size(c) /\ p + Size(c) <= Len(s)
        /\ \A i \in 1 .. Size(c) : s[p + i] = Lines(c)[i]
  BY Places DEF Placed
<1>4. c \in Commands  BY ToSetType
<1>5. Len(Args(c)) \in 1 .. 5 /\ DOMAIN Args(c) = 1 .. Len(Args(c)) /\ Size(c) = 1 + 2 * Len(Args(c))
  BY <1>4, ArgsCount DEF Size
<1> PICK j : j = h - p  OBVIOUS
<1>6. j \in 1 .. Size(c) /\ p + j = h  BY <1>1, <1>3, <1>5
<1>7. s[h].text = IF j = 1 THEN Header[Len(Args(c))]
                  ELSE IF j % 2 = 0 THEN Length ELSE Args(c)[j \div 2]
  <2>1. s[h] = Lines(c)[j]  BY <1>3, <1>6
  <2> QED  BY <1>4, <1>6, <2>1, LineText
<1>8. None \notin DOMAIN Star /\ Length \notin DOMAIN Star /\ Length \notin DOMAIN Rests
  BY StreamAssumption
<1>9. CASE j = 1
  <2>1. t = Header[Len(Args(c))] /\ Star[t] = Len(Args(c))
    BY <1>5, <1>7, <1>8, <1>9, HeadersAre
  <2>2. h = p + 1 /\ m \in Nat /\ p + 1 <= m  BY <1>1, <1>6, <1>9
  <2>3. PICK n \in 0 .. Len(Args(c)) : Excerpt(s, p + 1, Len(Args(c)), m) = Blanked(c, n)
    BY <1>3, <1>4, <2>2, ExcerptOfCommand
  <2>4. x = Execute(Blanked(c, n))  BY <1>2, <2>1, <2>2, <2>3
  <2> QED  BY <2>4 DEF Effects
<1>10. CASE j # 1 /\ j % 2 = 0
  <2>1. Remainders(s[h].text) = {None}  BY <1>7, <1>8, <1>10 DEF Remainders
  <2> QED  BY <1>7, <1>8, <1>10, <2>1
<1>11. CASE j # 1 /\ j % 2 # 0
  <2>1. j \div 2 \in DOMAIN Args(c)  BY <1>5, <1>6, <1>11
  <2>2. ~Deceives(Args(c)[j \div 2])  BY <2>1
  <2>3. s[h].text = Args(c)[j \div 2]  BY <1>7, <1>11
  <2>4. Star[t] \in Nat /\ ~(Star[t] > 0)  BY <2>2, <2>3, StreamAssumption DEF Deceives
  <2>5. Star[t] = 0  BY <2>4
  <2>6. Excerpt(s, h, Star[t], m) = <<>>  BY <2>5 DEF Excerpt
  <2> QED  BY <1>2, <1>4, <2>6, ExecuteNothing
<1> QED  BY <1>9, <1>10, <1>11

-----------------------------------------------------------------------------
\* The inductive invariant

\* Everything has its type, and what belongs to a batch is there in it only.
Types ==
  /\ sent \in Seq(Commands) /\ socket \in Seq(Row) /\ remaining \in Seq(Row)
  /\ op \in {"read", "parse", "write"}
  /\ Len(remaining) <= BufferSize
  /\ pipeline_results \in Seq(Effect) /\ response_data \in Seq(Effect)
  /\ executed \in Seq(Effect) /\ received \in Seq(Effect)
  /\ cut \in BOOLEAN /\ short \in BOOLEAN
  /\ op # "parse" => remaining = <<>> /\ pipeline_results = <<>>

\* What was not read yet is the rest of the client's stream, and what was read
\* and not parsed stands somewhere in it.
Located ==
  /\ \E b \in Nat : Left(socket, Stream(sent), b)
  /\ \E a \in Nat : Held(remaining, Stream(sent), a)

\* As long as no read was cut, the client's commands are those executed, those
\* in the buffer and those still to be read.
Divided == \E a, b, d \in Seq(Commands) :
  /\ sent = (a \o b) \o d
  /\ Len(a) = Len(executed) /\ \A i \in 1 .. Len(a) : executed[i] = Meaning(a[i])
  /\ remaining = Stream(b) /\ socket = Stream(d)

Inv == Types /\ Located /\ Excerpts /\ RepliesInOrder /\ (~cut => Divided)

\* x is what a command does that stands in s.
Stands(x, s) == \E h \in 1 .. Len(s) : \E m \in h .. Len(s) :
  \E t \in ({s[h].text} \cup Remainders(s[h].text)) \cap DOMAIN Star :
    x = Execute(Excerpt(s, h, Star[t], m))

LEMMA ExcerptsStand ==
  ASSUME sent \in Seq(Commands)
  PROVE  Excerpts <=> \A x \in ToSet(executed) : Stands(x, Stream(sent))
<1>1. DOMAIN Stream(sent) = 1 .. Len(Stream(sent))  BY StreamType, LenProperties
<1> QED  BY <1>1 DEF Excerpts, Stands

LEMMA StandsExtends ==
  ASSUME NEW s \in Seq(Commands), NEW c \in Commands, NEW x, Stands(x, Stream(s))
  PROVE  Stands(x, Stream(Append(s, c)))
<1> PICK S : S = Stream(s)  OBVIOUS
<1> PICK T : T = Stream(Append(s, c))  OBVIOUS
<1> PICK h \in 1 .. Len(S) : \E m \in h .. Len(S) :
       \E t \in ({S[h].text} \cup Remainders(S[h].text)) \cap DOMAIN Star :
         x = Execute(Excerpt(S, h, Star[t], m))
  BY DEF Stands
<1> PICK m \in h .. Len(S) :
       \E t \in ({S[h].text} \cup Remainders(S[h].text)) \cap DOMAIN Star :
         x = Execute(Excerpt(S, h, Star[t], m))
  OBVIOUS
<1> PICK t \in ({S[h].text} \cup Remainders(S[h].text)) \cap DOMAIN Star :
       x = Execute(Excerpt(S, h, Star[t], m))
  OBVIOUS
<1>1. Star[t] \in Nat  BY StreamAssumption
<1>2. /\ Excerpt(T, h, Star[t], m) = Excerpt(S, h, Star[t], m)
      /\ h \in 1 .. Len(T) /\ m \in h .. Len(T) /\ T[h] = S[h]
  BY <1>1, ExcerptExtends
<1>3. t \in ({T[h].text} \cup Remainders(T[h].text)) \cap DOMAIN Star  BY <1>2
<1>4. x = Execute(Excerpt(T, h, Star[t], m))  BY <1>2
<1> QED  BY <1>2, <1>3, <1>4 DEF Stands

\* What parse makes of what was read stands in the client's stream.
LEMMA ParseReal ==
  ASSUME NEW s \in Seq(Piece), NEW q \in Seq(Row), NEW a \in Nat, Held(q, s, a),
         parse(q).consumed > 0
  PROVE  /\ parse(q).consumed \in 1 .. Len(q)
         /\ Stands(Execute(parse(q).args), s) /\ Execute(parse(q).args) \in Effect
<1> PICK h \in 1 .. Len(s) : \E m \in h .. Len(s) :
       \E t \in ({s[h].text} \cup Remainders(s[h].text)) \cap DOMAIN Star :
         parse(q).args = Excerpt(s, h, Star[t], m)
  BY ParseExcerpt
<1> PICK m \in h .. Len(s) :
       \E t \in ({s[h].text} \cup Remainders(s[h].text)) \cap DOMAIN Star :
         parse(q).args = Excerpt(s, h, Star[t], m)
  OBVIOUS
<1> PICK t \in ({s[h].text} \cup Remainders(s[h].text)) \cap DOMAIN Star :
       parse(q).args = Excerpt(s, h, Star[t], m)
  OBVIOUS
<1>1. Star[t] \in Nat  BY StreamAssumption
<1>2. Excerpt(s, h, Star[t], m) \in Seq(Texts)  BY <1>1, ExcerptType
<1>3. Execute(parse(q).args) \in Effect  BY <1>2, ExecuteType
<1>4. Stands(Execute(parse(q).args), s)  BY DEF Stands
<1>5. parse(q).consumed \in 1 .. Len(q)  BY ParseStarred DEF Held
<1> QED  BY <1>3, <1>4, <1>5

LEMMA InitInv == Init => Inv
<1> SUFFICES ASSUME Init PROVE Inv  OBVIOUS
<1> USE DEF Init
<1>1. Types
  <2>1. /\ <<>> \in Seq(Commands) /\ <<>> \in Seq(Row) /\ <<>> \in Seq(Effect)
        /\ Len(<<>>) = 0
    BY EmptySeq
  <2>2. 0 <= BufferSize  BY StreamAssumption
  <2> QED  BY <2>1, <2>2 DEF Types
<1>2. Located
  <2>1. Len(<<>>) = 0 /\ Len(Stream(<<>>)) = 0  BY StreamEmpty
  <2>2. Left(<<>>, Stream(<<>>), 0) /\ Held(<<>>, Stream(<<>>), 0)
    BY <2>1 DEF Left, Held, Trailing
  <2> QED  BY <2>2 DEF Located
<1>3. Excerpts  BY DEF Excerpts, ToSet
<1>4. RepliesInOrder
  <2>1. <<>> \o <<>> = <<>>  BY ConcatEmptySeq, EmptySeq
  <2> QED  BY <2>1 DEF RepliesInOrder
<1>5. Divided
  <2>1. <<>> \in Seq(Commands) /\ (<<>> \o <<>>) \o <<>> = <<>>  BY ConcatEmptySeq, EmptySeq
  <2>2. /\ sent = (<<>> \o <<>>) \o <<>> /\ Len(<<>>) = Len(executed)
        /\ \A i \in 1 .. Len(<<>>) : executed[i] = Meaning(<<>>[i])
        /\ remaining = Stream(<<>>) /\ socket = Stream(<<>>)
    BY <2>1, StreamEmpty
  <2> QED  BY <2>1, <2>2 DEF Divided
<1> QED  BY <1>1, <1>2, <1>3, <1>4, <1>5 DEF Inv

LEMMA SendStep ==
  ASSUME Inv, NEW c \in Commands, Send(c)
  PROVE  Inv'
<1> USE DEF Inv
<1>1. /\ sent' = Append(sent, c) /\ socket' = socket \o Lines(c)
      /\ UNCHANGED <<op, remaining, pipeline_results, response_data, executed, received, cut, short>>
  BY DEF Send
<1>2. sent \in Seq(Commands) /\ socket \in Seq(Row) /\ remaining \in Seq(Row)
  BY DEF Types
<1>3. PICK at \in Nat : Left(socket, Stream(sent), at)  BY DEF Located
<1>4. socket' \in Seq(Row) /\ Left(socket', Stream(sent'), at)
  BY <1>1, <1>2, <1>3, LeftExtends
<1>5. Types'
  <2>1. sent' \in Seq(Commands)  BY <1>1, <1>2, AppendProperties
  <2> QED  BY <1>1, <1>4, <2>1 DEF Types
<1>6. Located'
  <2>1. PICK a \in Nat : Held(remaining, Stream(sent), a)  BY DEF Located
  <2>2. Len(remaining) \in Nat  BY <1>2, LenProperties
  <2>3. Held(remaining, Stream(Append(sent, c)), a)  BY <1>2, <2>1, <2>2, HeldExtends
  <2>4. Held(remaining', Stream(sent'), a)  BY <1>1, <2>3
  <2> QED  BY <1>4, <2>4 DEF Located
<1>7. Excerpts'
  <2>1. \A x \in ToSet(executed) : Stands(x, Stream(sent))  BY <1>2, ExcerptsStand
  <2>2. \A x \in ToSet(executed) : Stands(x, Stream(Append(sent, c)))
    BY <1>2, <2>1, StandsExtends
  <2>3. \A x \in ToSet(executed') : Stands(x, Stream(sent'))  BY <1>1, <2>2
  <2>4. DOMAIN Stream(sent') = 1 .. Len(Stream(sent'))
    BY <1>5, StreamType, LenProperties DEF Types
  <2> QED  BY <2>3, <2>4 DEF Excerpts, Stands
<1>8. RepliesInOrder'  BY <1>1 DEF RepliesInOrder
<1>9. ASSUME ~cut' PROVE Divided'
  <2>1. PICK a, b, d \in Seq(Commands) :
          /\ sent = (a \o b) \o d
          /\ Len(a) = Len(executed) /\ \A i \in 1 .. Len(a) : executed[i] = Meaning(a[i])
          /\ remaining = Stream(b) /\ socket = Stream(d)
    BY <1>1, <1>9 DEF Divided
  <2> PICK e : e = Append(d, c)  OBVIOUS
  <2>2. e \in Seq(Commands) /\ a \o b \in Seq(Commands) /\ <<c>> \in Seq(Commands)
    BY <2>1, AppendProperties, ConcatProperties
  <2>3. sent' = (a \o b) \o e
    <3>1. sent' = ((a \o b) \o d) \o <<c>>  BY <1>1, <1>2, <2>1, AppendIsConcat
    <3>2. e = d \o <<c>>  BY <2>1, AppendIsConcat
    <3>3. ((a \o b) \o d) \o <<c>> = (a \o b) \o (d \o <<c>>)
      <4> PICK s \in Seq(Commands) : s = a \o b  BY <2>2
      <4>1. (s \o d) \o <<c>> = s \o (d \o <<c>>)  BY <2>1, <2>2, Associative, SMTT(25)
      <4> QED  BY <4>1
    <3> QED  BY <3>1, <3>2, <3>3
  <2>4. socket' = Stream(e)  BY <1>1, <2>1, StreamAppend, StreamType
  <2> QED  BY <1>1, <2>1, <2>2, <2>3, <2>4 DEF Divided
<1> QED  BY <1>5, <1>6, <1>7, <1>8, <1>9

LEMMA ReadStep ==
  ASSUME Inv, NEW k \in 1 .. Len(socket), Read(k)
  PROVE  Inv'
<1> USE DEF Inv
<1>1. /\ op = "read" /\ k <= BufferSize /\ op' = "parse"
      /\ remaining' = SubSeq(socket, 1, k)
      /\ socket' = SubSeq(socket, k + 1, Len(socket))
      /\ cut' = (cut \/ ~AtBoundary(socket'))
      /\ response_data' = <<>> /\ pipeline_results' = <<>>
      /\ UNCHANGED <<sent, executed, received, short>>
  BY DEF Read, Received, Reads
<1>2. socket \in Seq(Row) /\ k \in 0 .. Len(socket) /\ Len(socket) \in Nat
      /\ remaining = <<>> /\ pipeline_results = <<>> /\ sent \in Seq(Commands)
  BY <1>1, LenProperties DEF Types
<1>3. remaining' \in Seq(Row) /\ Len(remaining') = k  BY <1>1, <1>2, PrefixParts
<1>4. /\ socket' \in Seq(Row) /\ Len(socket') = Len(socket) - k
      /\ \A i \in 1 .. Len(socket) - k : socket'[i] = socket[k + i]
  BY <1>1, <1>2, SuffixParts
<1>5. Types'
  <2>1. cut' \in BOOLEAN  BY <1>1 DEF Types, AtBoundary
  <2>2. <<>> \in Seq(Effect)  BY EmptySeq
  <2> QED  BY <1>1, <1>3, <1>4, <2>1, <2>2 DEF Types
<1>6. Located'
  <2>1. PICK b \in Nat : Left(socket, Stream(sent), b)  BY DEF Located
  <2>2. Stream(sent) \in Seq(Piece)  BY <1>2, StreamType
  <2>3. Held(SubSeq(socket, 1, k), Stream(sent), b)  BY <1>2, <2>1, <2>2, LeftPrefix
  <2>4. Left(SubSeq(socket, k + 1, Len(socket)), Stream(sent), b + k)
    BY <1>2, <2>1, <2>2, LeftSuffix
  <2>5. b + k \in Nat  BY <1>2
  <2>6. Held(remaining', Stream(sent'), b) /\ Left(socket', Stream(sent'), b + k)
    BY <1>1, <2>3, <2>4
  <2> QED  BY <2>5, <2>6 DEF Located
<1>7. Excerpts'  BY <1>1 DEF Excerpts
<1>8. RepliesInOrder'  BY <1>1, <1>2 DEF RepliesInOrder
<1>9. ASSUME ~cut' PROVE Divided'
  <2>1. ~cut /\ AtBoundary(socket')  BY <1>1, <1>9 DEF Types
  <2>2. PICK a, b, d \in Seq(Commands) :
          /\ sent = (a \o b) \o d
          /\ Len(a) = Len(executed) /\ \A i \in 1 .. Len(a) : executed[i] = Meaning(a[i])
          /\ remaining = Stream(b) /\ socket = Stream(d)
    BY <2>1 DEF Divided
  <2>3. b = <<>>  BY <1>2, <2>2, StreamNonempty
  <2>4. Boundary(socket, k)
    <3>1. CASE k = Len(socket)  BY <3>1 DEF Boundary
    <3>2. CASE k < Len(socket)
      <4>1. socket' # <<>>  BY <1>2, <1>4, <3>2, EmptySeq
      <4>2. socket'[1].first  BY <2>1, <4>1 DEF AtBoundary
      <4>3. 1 \in 1 .. Len(socket) - k  BY <1>2, <3>2
      <4>4. socket'[1] = socket[k + 1]  BY <1>4, <4>3
      <4> QED  BY <3>2, <4>2, <4>4 DEF Boundary
    <3> QED  BY <1>2, <3>1, <3>2
  <2>5. PICK e, f \in Seq(Commands) : d = e \o f /\ k = Len(Stream(e))
    BY <1>2, <2>2, <2>4, CutAt
  <2>6. socket = Stream(e) \o Stream(f)  BY <2>2, <2>5, StreamConcat
  <2>7. remaining' = Stream(e) /\ socket' = Stream(f)
    BY <1>1, <2>5, <2>6, StreamType, SplitConcat
  <2>8. sent' = (a \o e) \o f
    <3>1. a \o b = a  BY <2>2, <2>3, ConcatEmptySeq
    <3>2. sent = a \o (e \o f)  BY <2>2, <2>5, <3>1
    <3>3. a \o (e \o f) = (a \o e) \o f
      <4>1. a \in Seq(Commands) /\ e \in Seq(Commands) /\ f \in Seq(Commands)  BY <2>2, <2>5
      <4> QED  BY <4>1, Associative, Zenon
    <3> QED  BY <1>1, <3>2, <3>3
  <2> QED  BY <1>1, <2>2, <2>5, <2>7, <2>8 DEF Divided
<1> QED  BY <1>5, <1>6, <1>7, <1>8, <1>9

LEMMA ReadCutStep ==
  ASSUME Inv, NEW k \in 1 .. Len(socket), NEW text \in Remainders(socket[k].text), ReadCut(k, text)
  PROVE  Inv'
<1> USE DEF Inv
<1>1. /\ op = "read" /\ k <= BufferSize /\ op' = "parse"
      /\ remaining' = Append(SubSeq(socket, 1, k - 1), StartOf(socket[k]))
      /\ socket' = <<EndOf(text)>> \o SubSeq(socket, k + 1, Len(socket))
      /\ cut' = (cut \/ ~AtBoundary(socket'))
      /\ response_data' = <<>> /\ pipeline_results' = <<>>
      /\ UNCHANGED <<sent, executed, received, short>>
  BY DEF ReadCut, Received, Reads
<1>2. socket \in Seq(Row) /\ remaining = <<>> /\ pipeline_results = <<>> /\ sent \in Seq(Commands)
  BY <1>1 DEF Types
<1>3. PICK b \in Nat : Left(socket, Stream(sent), b)  BY DEF Located
<1>4. Stream(sent) \in Seq(Piece)  BY <1>2, StreamType
<1>5. remaining' \in Seq(Row) /\ Len(remaining') = k /\ Held(remaining', Stream(sent), b)
  BY <1>1, <1>2, <1>3, <1>4, CutPrefix
<1>6. /\ socket' \in Seq(Row) /\ socket' # <<>> /\ socket'[1] = EndOf(text)
      /\ Left(socket', Stream(sent), b + (k - 1))
  BY <1>1, <1>2, <1>3, <1>4, CutSuffix
<1>7. cut'
  <2>1. ~EndOf(text).first  BY DEF EndOf
  <2> QED  BY <1>1, <1>6, <2>1 DEF AtBoundary
<1>8. Types'
  <2>1. cut' \in BOOLEAN  BY <1>1 DEF Types, AtBoundary
  <2>2. <<>> \in Seq(Effect)  BY EmptySeq
  <2> QED  BY <1>1, <1>5, <1>6, <2>1, <2>2 DEF Types
<1>9. Located'
  <2>1. b + (k - 1) \in Nat  BY <1>2, LenProperties
  <2> QED  BY <1>1, <1>5, <1>6, <2>1 DEF Located
<1>10. Excerpts'  BY <1>1 DEF Excerpts
<1>11. RepliesInOrder'  BY <1>1, <1>2 DEF RepliesInOrder
<1> QED  BY <1>7, <1>8, <1>9, <1>10, <1>11

LEMMA CommandStep ==
  ASSUME Inv, Command
  PROVE  Inv'
<1> USE DEF Inv
<1> PICK p : p = parse(remaining)  OBVIOUS
<1> PICK x : x = Execute(p.args)  OBVIOUS
<1>1. /\ op = "parse" /\ p.consumed > 0
      /\ executed' = Append(executed, x)
      /\ pipeline_results' = Append(pipeline_results, x)
      /\ remaining' = SubSeq(remaining, p.consumed + 1, Len(remaining))
      /\ UNCHANGED <<sent, socket, op, response_data, received, cut, short>>
  BY DEF Command, AppendedResult
<1>2. /\ sent \in Seq(Commands) /\ remaining \in Seq(Row) /\ Len(remaining) \in Nat
      /\ executed \in Seq(Effect) /\ pipeline_results \in Seq(Effect) /\ received \in Seq(Effect)
      /\ Len(executed) \in Nat
  BY LenProperties DEF Types
<1>3. remaining # <<>>
  <2> SUFFICES ASSUME remaining = <<>> PROVE FALSE  OBVIOUS
  <2>1. p = [consumed |-> 0, args |-> <<>>]  BY DEF parse, StartsWithStar
  <2> QED  BY <1>1, <2>1
<1>4. PICK at \in Nat : Held(remaining, Stream(sent), at)  BY DEF Located
<1>5. Stream(sent) \in Seq(Piece)  BY <1>2, StreamType
<1>6. p.consumed \in 1 .. Len(remaining) /\ Stands(x, Stream(sent)) /\ x \in Effect
  BY <1>1, <1>2, <1>4, <1>5, ParseReal
<1> PICK k \in 1 .. Len(remaining) : k = p.consumed  BY <1>6
<1>7. k \in 0 .. Len(remaining) /\ remaining' = SubSeq(remaining, k + 1, Len(remaining))
  BY <1>1, <1>2
<1>8. remaining' \in Seq(Row) /\ Len(remaining') = Len(remaining) - k
  BY <1>2, <1>7, SuffixParts
<1>9. Types'
  <2>1. executed' \in Seq(Effect) /\ pipeline_results' \in Seq(Effect)
    BY <1>1, <1>2, <1>6, AppendProperties
  <2>2. Len(remaining') <= BufferSize
    <3>1. Len(remaining) <= BufferSize /\ BufferSize \in Nat  BY StreamAssumption DEF Types
    <3> QED  BY <1>2, <1>8, <3>1
  <2> QED  BY <1>1, <1>8, <2>1, <2>2 DEF Types
<1>10. Located'
  <2>1. Held(SubSeq(remaining, k + 1, Len(remaining)), Stream(sent), at + k)
    BY <1>2, <1>4, <1>5, HeldSuffix
  <2>2. Held(remaining', Stream(sent'), at + k) /\ at + k \in Nat  BY <1>1, <1>2, <1>7, <2>1
  <2>3. PICK b \in Nat : Left(socket, Stream(sent), b)  BY DEF Located
  <2>4. Left(socket', Stream(sent'), b)  BY <1>1, <2>3
  <2> QED  BY <2>2, <2>4 DEF Located
<1>11. Excerpts'
  <2>1. ToSet(executed') = ToSet(executed) \cup {x}  BY <1>1, <1>2, <1>6, ToSetAppend
  <2>2. \A y \in ToSet(executed) : Stands(y, Stream(sent))  BY <1>2, ExcerptsStand
  <2>3. \A y \in ToSet(executed') : Stands(y, Stream(sent'))  BY <1>1, <1>6, <2>1, <2>2
  <2>4. DOMAIN Stream(sent') = 1 .. Len(Stream(sent'))  BY <1>1, <1>5, LenProperties
  <2> QED  BY <2>3, <2>4 DEF Excerpts, Stands
<1>12. RepliesInOrder'
  <2> SUFFICES ASSUME ~short PROVE received \o Append(pipeline_results, x) = Append(executed, x)
    BY <1>1 DEF RepliesInOrder
  <2>1. received \o pipeline_results = executed  BY <1>1 DEF RepliesInOrder
  <2>2. Append(executed, x) = executed \o <<x>> /\ <<x>> \in Seq(Effect)
        /\ Append(pipeline_results, x) = pipeline_results \o <<x>>
    BY <1>2, <1>6, AppendIsConcat
  <2>3. (received \o pipeline_results) \o <<x>> = received \o (pipeline_results \o <<x>>)
    <3>1. received \in Seq(Effect) /\ pipeline_results \in Seq(Effect) /\ <<x>> \in Seq(Effect)
      BY <1>2, <2>2
    <3>2. \A r, s, t \in Seq(Effect) : (r \o s) \o t = r \o (s \o t)  BY ConcatAssociative, SMTT(25)
    <3> QED  BY <3>1, <3>2, Zenon
  <2> QED  BY <2>1, <2>2, <2>3
<1>13. ASSUME ~cut' PROVE Divided'
  <2>1. PICK a, b, d \in Seq(Commands) :
          /\ sent = (a \o b) \o d
          /\ Len(a) = Len(executed) /\ \A i \in 1 .. Len(a) : executed[i] = Meaning(a[i])
          /\ remaining = Stream(b) /\ socket = Stream(d)
    BY <1>1, <1>13 DEF Divided
  <2>2. b # <<>>  BY <1>3, <2>1, StreamEmpty
  <2>3. PICK c \in Commands, e \in Seq(Commands) : b = <<c>> \o e  BY <2>1, <2>2, HeadFirst
  <2>4. remaining = Lines(c) \o Stream(e) /\ <<c>> \in Seq(Commands)
    <3>1. <<c>> \in Seq(Commands)  BY <2>3
    <3> QED  BY <2>1, <2>3, <3>1, StreamConcat, StreamOne
  <2>5. p = [consumed |-> Size(c), args |-> Args(c)]
    BY <2>3, <2>4, ParseWhole
  <2>6. x = Meaning(c) /\ k = Size(c)  BY <2>3, <2>5, ExecuteMeant
  <2>7. remaining' = Stream(e)
    <3>1. Lines(c) \in Seq(Piece) /\ Len(Lines(c)) = Size(c) /\ Stream(e) \in Seq(Piece)
      BY <2>3, LinesAre, StreamType
    <3>2. SubSeq(Lines(c) \o Stream(e), Len(Lines(c)) + 1, Len(Lines(c) \o Stream(e))) = Stream(e)
      BY <3>1, SplitConcat
    <3> QED  BY <1>7, <2>4, <2>6, <3>1, <3>2
  <2> PICK f : f = Append(a, c)  OBVIOUS
  <2>8. /\ f \in Seq(Commands) /\ Len(f) = Len(a) + 1 /\ f[Len(a) + 1] = c
        /\ \A i \in 1 .. Len(a) : f[i] = a[i]
        /\ f = a \o <<c>> /\ Len(a) \in Nat
    BY <2>1, <2>3, AppendProperties, AppendIsConcat, LenProperties
  <2>9. sent' = (f \o e) \o d
    <3>1. a \o (<<c>> \o e) = (a \o <<c>>) \o e
      <4>1. a \in Seq(Commands) /\ <<c>> \in Seq(Commands) /\ e \in Seq(Commands)
        BY <2>1, <2>3, <2>4
      <4> QED  BY ONLY <4>1, Associative, Zenon
    <3> QED  BY <1>1, <2>1, <2>3, <2>8, <3>1
  <2>10. /\ Len(executed') = Len(executed) + 1 /\ executed'[Len(executed) + 1] = x
         /\ \A i \in 1 .. Len(executed) : executed'[i] = executed[i]
    BY <1>1, <1>2, <1>6, AppendProperties
  <2>11. ASSUME NEW i \in 1 .. Len(f) PROVE executed'[i] = Meaning(f[i])
    <3>1. i \in 1 .. Len(a) \/ i = Len(a) + 1  BY <2>8
    <3> QED  BY <2>1, <2>6, <2>8, <2>10, <3>1
  <2> QED  BY <1>1, <2>1, <2>3, <2>7, <2>8, <2>9, <2>10, <2>11 DEF Divided
<1> QED  BY <1>9, <1>10, <1>11, <1>12, <1>13

LEMMA EndBatchStep ==
  ASSUME Inv, EndBatch
  PROVE  Inv'
<1> USE DEF Inv
<1>1. /\ op = "parse" /\ parse(remaining).consumed = 0
      /\ remaining' = <<>>
      /\ op' = IF pipeline_results = <<>> THEN "read" ELSE "write"
      /\ response_data' = pipeline_results
      /\ pipeline_results' = <<>>
      /\ UNCHANGED <<sent, socket, executed, received, cut, short>>
  BY DEF EndBatch
<1>2. Types'
  <2>1. <<>> \in Seq(Row) /\ <<>> \in Seq(Effect) /\ Len(<<>>) <= BufferSize
    BY StreamAssumption, EmptySeq
  <2>2. op' \in {"read", "parse", "write"}  BY <1>1
  <2> QED  BY <1>1, <2>1, <2>2 DEF Types
<1>3. Located'
  <2>1. Held(<<>>, Stream(sent), 0)  BY EmptySeq DEF Held, Trailing
  <2>2. Held(remaining', Stream(sent'), 0)  BY <1>1, <2>1
  <2>3. PICK b \in Nat : Left(socket, Stream(sent), b)  BY DEF Located
  <2>4. Left(socket', Stream(sent'), b)  BY <1>1, <2>3
  <2> QED  BY <2>2, <2>4 DEF Located
<1>4. Excerpts'  BY <1>1 DEF Excerpts
<1>5. RepliesInOrder'
  <2>1. op # "write" /\ (pipeline_results = <<>> => op' # "write")
        /\ (pipeline_results # <<>> => op' = "write")
    BY <1>1
  <2> QED  BY <1>1, <2>1 DEF RepliesInOrder
<1>6. ASSUME ~cut' PROVE Divided'
  <2>1. PICK a, b, d \in Seq(Commands) :
          /\ sent = (a \o b) \o d
          /\ Len(a) = Len(executed) /\ \A i \in 1 .. Len(a) : executed[i] = Meaning(a[i])
          /\ remaining = Stream(b) /\ socket = Stream(d)
    BY <1>1, <1>6 DEF Divided
  <2>2. b = <<>>
    <3> SUFFICES ASSUME b # <<>> PROVE FALSE  OBVIOUS
    <3>1. PICK c \in Commands, e \in Seq(Commands) : b = <<c>> \o e  BY <2>1, HeadFirst
    <3>2. remaining = Lines(c) \o Stream(e)
      <4>1. <<c>> \in Seq(Commands)  BY <3>1
      <4> QED  BY <2>1, <3>1, <4>1, StreamConcat, StreamOne
    <3>3. parse(remaining) = [consumed |-> Size(c), args |-> Args(c)]
      BY <3>1, <3>2, ParseWhole
    <3>4. Size(c) \in Nat /\ Size(c) > 0  BY <3>1, LinesAre
    <3> QED  BY <1>1, <3>3, <3>4
  <2>3. remaining' = Stream(b)  BY <1>1, <2>2, StreamEmpty
  <2> QED  BY <1>1, <2>1, <2>3 DEF Divided
<1> QED  BY <1>2, <1>3, <1>4, <1>5, <1>6

LEMMA WriteStep ==
  ASSUME Inv, NEW k \in 1 .. Len(response_data), Write(k)
  PROVE  Inv'
<1> USE DEF Inv
<1>1. /\ op = "write"
      /\ received' = received \o SubSeq(response_data, 1, k)
      /\ short' = (short \/ k < Len(response_data))
      /\ op' = "read" /\ response_data' = <<>>
      /\ UNCHANGED <<sent, socket, remaining, pipeline_results, executed, cut>>
  BY DEF Write
<1>2. /\ response_data \in Seq(Effect) /\ received \in Seq(Effect) /\ Len(response_data) \in Nat
      /\ k \in 0 .. Len(response_data) /\ pipeline_results = <<>> /\ remaining = <<>>
  BY <1>1, LenProperties DEF Types
<1>3. SubSeq(response_data, 1, k) \in Seq(Effect)  BY <1>2, PrefixParts
<1>4. received' \in Seq(Effect)  BY <1>1, <1>2, <1>3, ConcatProperties
<1>5. Types'
  <2>1. short' \in BOOLEAN  BY <1>1 DEF Types
  <2>2. <<>> \in Seq(Effect)  BY EmptySeq
  <2> QED  BY <1>1, <1>2, <1>4, <2>1, <2>2 DEF Types
<1>6. Located'  BY <1>1 DEF Located
<1>7. Excerpts'  BY <1>1 DEF Excerpts
<1>8. RepliesInOrder'
  <2> SUFFICES ASSUME ~short' PROVE received' \o pipeline_results = executed
    BY <1>1 DEF RepliesInOrder
  <2>1. ~short /\ k = Len(response_data)
    <3>1. ~short /\ ~(k < Len(response_data))  BY <1>1
    <3>2. k \in Nat /\ k <= Len(response_data)  BY <1>2
    <3> QED  BY <1>2, <3>1, <3>2
  <2>2. received \o response_data = executed  BY <1>1, <2>1 DEF RepliesInOrder
  <2>3. SubSeq(response_data, 1, k) = response_data  BY <1>2, <2>1, SubSeqFull
  <2>4. received' = executed  BY <1>1, <2>2, <2>3
  <2> QED  BY <1>2, <1>4, <2>4, ConcatEmptySeq
<1>9. ASSUME ~cut' PROVE Divided'  BY <1>1, <1>9 DEF Divided
<1> QED  BY <1>5, <1>6, <1>7, <1>8, <1>9

LEMMA NextInv == Inv /\ [Next]_vars => Inv'
<1> SUFFICES ASSUME Inv, [Next]_vars PROVE Inv'  OBVIOUS
<1>1. ASSUME NEW c \in Commands, Send(c) PROVE Inv'  BY <1>1, SendStep
<1>2. ASSUME NEW k \in 1 .. Len(socket), Read(k) PROVE Inv'  BY <1>2, ReadStep
<1>3. ASSUME NEW k \in 1 .. Len(socket), NEW text \in Remainders(socket[k].text), ReadCut(k, text)
      PROVE  Inv'
  BY <1>3, ReadCutStep
<1>4. CASE Command  BY <1>4, CommandStep
<1>5. CASE EndBatch  BY <1>5, EndBatchStep
<1>6. ASSUME NEW k \in 1 .. Len(response_data), Write(k) PROVE Inv'  BY <1>6, WriteStep
<1>7. CASE UNCHANGED vars
  <2> USE <1>7 DEF Inv, vars
  <2>1. Types'  BY DEF Types
  <2>2. Located'  BY DEF Located
  <2>3. Excerpts'  BY DEF Excerpts
  <2>4. RepliesInOrder'  BY DEF RepliesInOrder
  <2>5. (~cut => Divided)'  BY DEF Divided
  <2> QED  BY <2>1, <2>2, <2>3, <2>4, <2>5
<1> QED  BY <1>1, <1>2, <1>3, <1>4, <1>5, <1>6, <1>7 DEF Next, Server

LEMMA Invariant == Spec => []Inv
<1>1. Spec <=> Init /\ [][Next]_vars  BY DEF Spec
<1> QED  BY <1>1, InitInv, NextInv, PTL

\* The state of a connection has its types: no more is kept of a read than the
\* buffer takes, and the arguments of what is executed and answered are whole
\* texts of the client or missing, the TTL a uint64_t (struct Connection).
THEOREM TypesOfStream == Spec => []TypeOK
<1>1. Inv => TypeOK  BY DEF Inv, Types, TypeOK
<1> QED  BY <1>1, Invariant, PTL

\* As long as no read ended inside a command, exactly what the client meant is
\* executed and nothing is lost (RespParser::parse, the loop of run_reactor and
\* parse_ttl against the way a client writes its commands).
THEOREM WholeReadsAreExact == Spec => []FramedExact
<1>1. ASSUME Inv PROVE FramedExact
  <2> SUFFICES ASSUME ~cut
               PROVE  /\ Len(executed) <= Len(sent)
                      /\ \A i \in DOMAIN executed : executed[i] = Meaning(sent[i])
                      /\ remaining \o socket =
                           Stream(SubSeq(sent, Len(executed) + 1, Len(sent)))
    BY DEF FramedExact
  <2>1. PICK a, b, d \in Seq(Commands) :
          /\ sent = (a \o b) \o d
          /\ Len(a) = Len(executed) /\ \A i \in 1 .. Len(a) : executed[i] = Meaning(a[i])
          /\ remaining = Stream(b) /\ socket = Stream(d)
    BY <1>1 DEF Inv, Divided
  <2>2. PICK r \in Seq(Commands) : r = b \o d  BY <2>1, ConcatProperties
  <2>3. sent = a \o r  BY <2>1, <2>2, Associative, SMTT(30)
  <2>4. /\ Len(sent) = Len(a) + Len(r) /\ Len(a) \in Nat /\ Len(r) \in Nat
        /\ \A i \in 1 .. Len(a) : sent[i] = a[i]
        /\ \A i \in 1 .. Len(r) : sent[Len(a) + i] = r[i]
    <3>1. /\ Len(a \o r) = Len(a) + Len(r) /\ Len(a) \in Nat /\ Len(r) \in Nat
          /\ \A i \in 1 .. Len(a) : (a \o r)[i] = a[i]
          /\ \A i \in 1 .. Len(r) : (a \o r)[Len(a) + i] = r[i]
      <4>1. a \in Seq(Commands) /\ r \in Seq(Commands)  BY <2>1, <2>2
      <4> QED  BY <4>1, ConcatParts
    <3> QED  BY <2>3, <3>1
  <2>5. Len(executed) <= Len(sent)  BY <2>1, <2>4
  <2>6. DOMAIN executed = 1 .. Len(a)  BY <1>1, <2>1, LenProperties DEF Inv, Types
  <2>7. \A i \in DOMAIN executed : executed[i] = Meaning(sent[i])  BY <2>1, <2>4, <2>6
  <2>8. SubSeq(sent, Len(executed) + 1, Len(sent)) = r
    <3>1. a \in Seq(Commands) /\ r \in Seq(Commands)  BY <2>1, <2>2
    <3>2. SubSeq(a \o r, Len(a) + 1, Len(a \o r)) = r  BY <3>1, SplitConcat
    <3> QED  BY <2>1, <2>3, <3>2
  <2>10. remaining \o socket = Stream(r)  BY <2>1, <2>2, StreamConcat
  <2> QED  BY <2>5, <2>7, <2>8, <2>10
<1> QED  BY <1>1, Invariant, PTL

\* Wherever the reads cut the stream, what is executed stands in it: whole lines
\* of the client at their places behind one that begins, or ends from a '*' on,
\* with their number, and blanks from some line on (RespParser::parse).
THEOREM ExecutedStandsInStream == Spec => []Excerpts
<1>1. Inv => Excerpts  BY DEF Inv
<1> QED  BY <1>1, Invariant, PTL

\* A client whose arguments do not look like headers has its own commands
\* executed and no others, the last arguments maybe missing: none is taken for
\* another (the test for '*' at the start of parse).
THEOREM CutsOnlyBlank == Spec => []OnlyBlanks
<1>1. Inv => OnlyBlanks  BY ExcerptsBlank DEF Inv, Types
<1> QED  BY <1>1, Invariant, PTL

\* Replies come in the order of the commands, one for each that was executed,
\* as long as no send ended early (submit_response).
THEOREM RepliesComeInOrder == Spec => []RepliesInOrder
<1>1. Inv => RepliesInOrder  BY DEF Inv
<1> QED  BY <1>1, Invariant, PTL
=============================================================================
