--------------------------- MODULE GsfaWriterProofs ---------------------------
(***************************************************************************)
(* For any keys, batch and channel sizes and any order of the two            *)
(* goroutines: what the gsfa writer keeps of a key is what was pushed for    *)
(* it.                                                                       *)
(***************************************************************************)
EXTENDS GsfaWriter, FiniteSetTheorems, SequenceTheorems, WellFoundedInduction, TLAPS

\* A leaf that names no prover is tried with SMT, with Zenon, and again with SMT;
\* the numbers are seconds.
USE SMTT(60), ZenonT(60), SMTT(90)

-----------------------------------------------------------------------------
(* Induction over the natural numbers, for a set instead of a predicate.    *)

LEMMA LeastNat ==
    ASSUME NEW S \in SUBSET Nat, S # {}
    PROVE  \E m \in S : \A n \in S : m <= n
<1> DEFINE R == {r \in Nat \X Nat : r[1] < r[2]}
<1>1. IsWellFoundedOn(R, Nat)
  BY NatLessThanWellFounded DEF OpToRel
<1> HIDE DEF R
<1>2. PICK m \in S : \A n \in S : <<n, m>> \notin R
  BY <1>1, WFMin, ZenonT(60)
<1>3. ASSUME NEW n \in S PROVE m <= n
  <2>1. <<n, m>> \notin R
    BY <1>2
  <2> QED
    BY <2>1 DEF R
<1> QED
  BY <1>3

LEMMA SetInduction ==
    ASSUME NEW S, 0 \in S, \A n \in Nat : n \in S => n + 1 \in S
    PROVE  \A n \in Nat : n \in S
<1> SUFFICES ASSUME NEW n \in Nat, n \notin S PROVE FALSE
  OBVIOUS
<1> DEFINE T == Nat \ S
<1>1. PICK m \in T : \A k \in T : m <= k
  <2>1. T \in SUBSET Nat /\ T # {}
    OBVIOUS
  <2> HIDE DEF T
  <2> QED
    BY <2>1, LeastNat
<1>2. m \in Nat /\ m # 0 /\ m - 1 \in Nat
  OBVIOUS
<1>3. m - 1 \in S
  BY <1>1, <1>2
<1>4. (m - 1) + 1 \in S
  BY <1>2, <1>3
<1> QED
  BY <1>2, <1>4

-----------------------------------------------------------------------------
(* The walk along the linked log.                                           *)

Records == [values : Seq(Nat), prev : Nat]

\* A log in which each record points back.
Logs == {l \in Seq(Records) : \A i \in 1..Len(l) : l[i].prev < i}

LEMMA RecordOfLog ==
    ASSUME NEW l \in Logs, NEW i \in 1..Len(l)
    PROVE  l[i].values \in Seq(Nat) /\ l[i].prev \in 0..(i - 1)
<1>1. l[i] \in Records /\ l[i].prev < i
  BY ElementOfSeq DEF Logs
<1>2. l[i].values \in Seq(Nat) /\ l[i].prev \in Nat
  BY <1>1 DEF Records
<1>3. Len(l) \in Nat
  BY DEF Logs
<1> QED
  BY <1>1, <1>2, <1>3

IsWalk(l, n, g) == g = [i \in 0..n |-> IF i = 0 THEN <<>> ELSE l[i].values \o g[l[i].prev]]

\* The recursion of Walk is well founded: records point back.
LEMMA WalkExists ==
    ASSUME NEW l \in Logs
    PROVE  \E g : IsWalk(l, Len(l), g)
<1> DEFINE S == {n \in Nat : n <= Len(l) => \E g : IsWalk(l, n, g)}
<1>0. Len(l) \in Nat
  BY DEF Logs
<1>1. 0 \in S
  <2> DEFINE g == [i \in 0..0 |-> <<>>]
  <2>1. IsWalk(l, 0, g)
    BY DEF IsWalk
  <2> QED
    BY <2>1
<1>2. ASSUME NEW n \in Nat, n \in S PROVE n + 1 \in S
  <2> SUFFICES ASSUME n + 1 <= Len(l) PROVE \E g : IsWalk(l, n + 1, g)
    OBVIOUS
  <2>1. PICK h : IsWalk(l, n, h)
    BY <1>0, <1>2
  <2> DEFINE g == [i \in 0..n+1 |-> IF i <= n THEN h[i] ELSE l[i].values \o h[l[i].prev]]
  <2>2. ASSUME NEW i \in 1..n+1 PROVE l[i].prev \in 0..(i - 1)
    <3>1. i \in 1..Len(l)
      BY <1>0
    <3> QED
      BY <3>1, RecordOfLog
  <2>3. ASSUME NEW i \in 0..n+1
        PROVE  g[i] = IF i = 0 THEN <<>> ELSE l[i].values \o g[l[i].prev]
    <3>1. CASE i = 0
      BY <2>1, <3>1 DEF IsWalk
    <3>2. CASE i # 0 /\ i <= n
      <4>1. i \in 0..n
        BY <3>2
      <4>2. l[i].prev \in 0..(i - 1)
        BY <2>2, <3>2
      <4>3. l[i].prev <= n /\ l[i].prev \in 0..n+1
        BY <3>2, <4>2
      <4>4. h[i] = l[i].values \o h[l[i].prev]
        BY <2>1, <3>2, <4>1, ZenonT(60) DEF IsWalk
      <4>5. g[l[i].prev] = h[l[i].prev] /\ g[i] = h[i]
        BY <3>2, <4>3
      <4> QED
        BY <3>2, <4>4, <4>5, ZenonT(60)
    <3>3. CASE i = n + 1
      <4>1. l[i].prev \in 0..n
        BY <2>2, <3>3
      <4>2. g[l[i].prev] = h[l[i].prev] /\ g[i] = l[i].values \o h[l[i].prev]
        BY <3>3, <4>1
      <4>3. i # 0
        BY <3>3
      <4> QED
        BY <4>2, <4>3, ZenonT(60)
    <3> QED
      BY <3>1, <3>2, <3>3
  <2>4. IsWalk(l, n + 1, g)
    BY <2>3, ZenonT(60) DEF IsWalk
  <2> QED
    BY <2>4
<1> HIDE DEF S
<1>3. Len(l) \in S
  BY <1>0, <1>1, <1>2, SetInduction
<1> QED
  BY <1>0, <1>3 DEF S

LEMMA WalkIsWalk ==
    ASSUME NEW l \in Logs
    PROVE  IsWalk(l, Len(l), Walk(l))
  BY WalkExists, ZenonT(60) DEF IsWalk, Walk

LEMMA WalkDef ==
    ASSUME NEW l \in Logs
    PROVE  /\ Walk(l)[0] = <<>>
           /\ \A i \in 1..Len(l) : Walk(l)[i] = l[i].values \o Walk(l)[l[i].prev]
<1>1. Len(l) \in Nat
  BY DEF Logs
<1> DEFINE w == Walk(l)
<1>2. IsWalk(l, Len(l), w)
  BY WalkIsWalk
<1> HIDE DEF w
<1>3. \A i \in 0..Len(l) : w[i] = IF i = 0 THEN <<>> ELSE l[i].values \o w[l[i].prev]
  BY <1>2, ZenonT(60) DEF IsWalk
<1>4. w[0] = <<>>
  BY <1>1, <1>3
<1>5. ASSUME NEW i \in 1..Len(l) PROVE w[i] = l[i].values \o w[l[i].prev]
  <2>1. i \in 0..Len(l) /\ i # 0
    BY <1>1
  <2> QED
    BY <1>3, <2>1, ZenonT(60)
<1> QED
  BY <1>4, <1>5, ZenonT(60) DEF w

\* What a walk lists.
LEMMA WalkType ==
    ASSUME NEW l \in Logs
    PROVE  \A i \in 0..Len(l) : Walk(l)[i] \in Seq(Nat)
<1> DEFINE S == {n \in Nat : \A i \in 0..n : i <= Len(l) => Walk(l)[i] \in Seq(Nat)}
<1>0. Len(l) \in Nat
  BY DEF Logs
<1>1. 0 \in S
  <2>1. Walk(l)[0] = <<>> /\ <<>> \in Seq(Nat)
    BY WalkDef, EmptySeq, ZenonT(60)
  <2>2. Walk(l)[0] \in Seq(Nat)
    BY <2>1
  <2> QED
    BY <2>2
<1>2. ASSUME NEW n \in Nat, n \in S PROVE n + 1 \in S
  <2> SUFFICES ASSUME n + 1 <= Len(l) PROVE Walk(l)[n + 1] \in Seq(Nat)
    BY <1>2
  <2>1. n + 1 \in 1..Len(l)
    BY <1>0
  <2>2. l[n + 1].values \in Seq(Nat) /\ l[n + 1].prev \in 0..n
    BY <2>1, RecordOfLog
  <2>3. Walk(l)[l[n + 1].prev] \in Seq(Nat)
    BY <1>0, <1>2, <2>2
  <2> QED
    BY <2>1, <2>2, <2>3, WalkDef, ConcatProperties, ZenonT(60)
<1> HIDE DEF S
<1>3. Len(l) \in S
  BY <1>0, <1>1, <1>2, SetInduction
<1> QED
  BY <1>0, <1>3 DEF S

\* Appending a record changes nothing for the records before it.
LEMMA WalkAppend ==
    ASSUME NEW l \in Logs, NEW r \in Records, r.prev <= Len(l)
    PROVE  /\ Append(l, r) \in Logs
           /\ \A i \in 0..Len(l) : Walk(Append(l, r))[i] = Walk(l)[i]
           /\ Walk(Append(l, r))[Len(l) + 1] = r.values \o Walk(l)[r.prev]
<1> DEFINE m == Append(l, r)
<1>0. Len(l) \in Nat /\ l \in Seq(Records)
  BY DEF Logs
<1>1. /\ m \in Seq(Records) /\ Len(m) = Len(l) + 1 /\ m[Len(l) + 1] = r
      /\ \A i \in 1..Len(l) : m[i] = l[i]
  BY <1>0, AppendProperties
<1>2. m \in Logs
  <2> SUFFICES ASSUME NEW i \in 1..Len(l) + 1 PROVE m[i].prev < i
    BY <1>1, ZenonT(60) DEF Logs
  <2>1. CASE i \in 1..Len(l)
    BY <1>1, <2>1 DEF Logs
  <2>2. CASE i = Len(l) + 1
    BY <1>0, <1>1, <2>2 DEF Records
  <2> QED
    BY <1>0, <2>1, <2>2
<1> HIDE DEF m
<1> DEFINE S == {n \in Nat : \A i \in 0..n : i <= Len(l) => Walk(m)[i] = Walk(l)[i]}
<1>3. 0 \in S
  <2>1. Walk(m)[0] = Walk(l)[0]
    BY <1>2, WalkDef, ZenonT(60)
  <2> QED
    BY <2>1
<1>4. ASSUME NEW n \in Nat, n \in S PROVE n + 1 \in S
  <2> SUFFICES ASSUME n + 1 <= Len(l) PROVE Walk(m)[n + 1] = Walk(l)[n + 1]
    BY <1>4
  <2>1. n + 1 \in 1..Len(l) /\ n + 1 \in 1..Len(m)
    BY <1>0, <1>1
  <2>2. l[n + 1].prev \in 0..n
    BY <2>1, RecordOfLog
  <2>3. Walk(m)[l[n + 1].prev] = Walk(l)[l[n + 1].prev]
    BY <1>0, <1>4, <2>2
  <2>4. Walk(m)[n + 1] = m[n + 1].values \o Walk(m)[m[n + 1].prev]
    BY <1>2, <2>1, WalkDef, ZenonT(60)
  <2>5. Walk(l)[n + 1] = l[n + 1].values \o Walk(l)[l[n + 1].prev]
    BY <2>1, WalkDef, ZenonT(60)
  <2> QED
    BY <1>1, <2>1, <2>3, <2>4, <2>5, ZenonT(60)
<1> HIDE DEF S
<1>5. Len(l) \in S
  BY <1>0, <1>3, <1>4, SetInduction
<1>6. \A i \in 0..Len(l) : Walk(m)[i] = Walk(l)[i]
  BY <1>0, <1>5 DEF S
<1>7. Walk(m)[Len(l) + 1] = r.values \o Walk(m)[r.prev]
  <2>1. Len(l) + 1 \in 1..Len(m)
    BY <1>0, <1>1
  <2>2. Walk(m)[Len(l) + 1] = m[Len(l) + 1].values \o Walk(m)[m[Len(l) + 1].prev]
    BY <1>2, <2>1, WalkDef, ZenonT(60)
  <2> QED
    BY <1>1, <2>2
<1>8. r.prev \in 0..Len(l)
  BY <1>0 DEF Records
<1> QED
  BY <1>2, <1>6, <1>7, <1>8, ZenonT(60) DEF m
-----------------------------------------------------------------------------
(* The batches of a key.                                                    *)

\* A batch that went over the channel.
FullBatches == {b \in [key : Keys, values : Seq(Nat)] : Len(b.values) = BatchSize}

LEMMA ValuesForType ==
    ASSUME NEW k, NEW b \in FullBatches
    PROVE  ValuesFor(k, b) \in Seq(Nat)
<1>1. b.values \in Seq(Nat) /\ <<>> \in Seq(Nat)
  BY EmptySeq DEF FullBatches
<1> QED
  BY <1>1 DEF ValuesFor

IsUpTo(k, b, n, g) == g = [i \in 0..n |-> IF i = 0 THEN <<>> ELSE g[i - 1] \o ValuesFor(k, b[i])]

LEMMA UpToExists ==
    ASSUME NEW k, NEW b, NEW len \in Nat
    PROVE  \E g : IsUpTo(k, b, len, g)
<1> DEFINE S == {n \in Nat : \E g : IsUpTo(k, b, n, g)}
<1>1. 0 \in S
  <2> DEFINE g == [i \in 0..0 |-> <<>>]
  <2>1. IsUpTo(k, b, 0, g)
    BY DEF IsUpTo
  <2> QED
    BY <2>1
<1>2. ASSUME NEW n \in Nat, n \in S PROVE n + 1 \in S
  <2>1. PICK h : IsUpTo(k, b, n, h)
    BY <1>2
  <2> DEFINE g == [i \in 0..n+1 |-> IF i <= n THEN h[i] ELSE h[n] \o ValuesFor(k, b[n + 1])]
  <2>2. ASSUME NEW i \in 0..n+1
        PROVE  g[i] = IF i = 0 THEN <<>> ELSE g[i - 1] \o ValuesFor(k, b[i])
    <3>1. CASE i = 0
      BY <2>1, <3>1 DEF IsUpTo
    <3>2. CASE i # 0 /\ i <= n
      <4>1. i \in 0..n /\ i - 1 \in 0..n /\ i - 1 <= n /\ i - 1 \in 0..n+1
        BY <3>2
      <4>2. h[i] = h[i - 1] \o ValuesFor(k, b[i])
        BY <2>1, <3>2, <4>1 DEF IsUpTo
      <4>3. g[i] = h[i] /\ g[i - 1] = h[i - 1]
        BY <3>2, <4>1
      <4> QED
        BY <3>2, <4>2, <4>3, ZenonT(60)
    <3>3. CASE i = n + 1
      <4>1. i # 0 /\ i - 1 = n /\ n \in 0..n+1
        BY <3>3
      <4>2. n + 1 \in 0..n+1 /\ ~(n + 1 <= n) /\ n \in 0..n+1 /\ n <= n
        OBVIOUS
      <4>3. g[n + 1] = h[n] \o ValuesFor(k, b[n + 1])
        BY <4>2, ZenonT(60)
      <4>4. g[n] = h[n]
        BY <4>2
      <4> HIDE DEF g
      <4> QED
        BY <3>3, <4>1, <4>3, <4>4, ZenonT(60)
    <3> QED
      BY <3>1, <3>2, <3>3
  <2>3. IsUpTo(k, b, n + 1, g)
    BY <2>2, ZenonT(60) DEF IsUpTo
  <2> QED
    BY <2>3
<1> HIDE DEF S
<1>3. len \in S
  BY <1>1, <1>2, SetInduction
<1> QED
  BY <1>3 DEF S

LEMMA UpToIsUpTo ==
    ASSUME NEW k, NEW b, Len(b) \in Nat
    PROVE  IsUpTo(k, b, Len(b), UpTo(k, b))
<1> DEFINE P(g) == g = [i \in 0..Len(b) |-> IF i = 0 THEN <<>> ELSE g[i - 1] \o ValuesFor(k, b[i])]
<1>1. \E g : P(g)
  <2>1. PICK g : IsUpTo(k, b, Len(b), g)
    BY UpToExists
  <2>2. P(g)
    BY <2>1 DEF IsUpTo
  <2> HIDE DEF P
  <2> QED
    BY <2>2
<1> HIDE DEF P
<1>2. P(CHOOSE g : P(g))
  BY <1>1
<1> QED
  BY <1>2, ZenonT(60) DEF IsUpTo, UpTo, P

LEMMA UpToDef ==
    ASSUME NEW k, NEW b, Len(b) \in Nat
    PROVE  /\ UpTo(k, b)[0] = <<>>
           /\ \A i \in 1..Len(b) : UpTo(k, b)[i] = UpTo(k, b)[i - 1] \o ValuesFor(k, b[i])
<1> DEFINE u == UpTo(k, b)
<1>1. IsUpTo(k, b, Len(b), u)
  BY UpToIsUpTo
<1> HIDE DEF u
<1>2. \A i \in 0..Len(b) : u[i] = IF i = 0 THEN <<>> ELSE u[i - 1] \o ValuesFor(k, b[i])
  BY <1>1, ZenonT(60) DEF IsUpTo
<1>3. u[0] = <<>>
  BY <1>2
<1>4. ASSUME NEW i \in 1..Len(b) PROVE u[i] = u[i - 1] \o ValuesFor(k, b[i])
  <2>1. i \in 0..Len(b) /\ i # 0
    OBVIOUS
  <2> QED
    BY <1>2, <2>1, ZenonT(60)
<1> QED
  BY <1>3, <1>4, ZenonT(60) DEF u

LEMMA UpToNext ==
    ASSUME NEW k, NEW b, Len(b) \in Nat, NEW n \in Nat, n + 1 <= Len(b)
    PROVE  UpTo(k, b)[n + 1] = UpTo(k, b)[n] \o ValuesFor(k, b[n + 1])
<1>1. n + 1 \in 1..Len(b) /\ (n + 1) - 1 = n
  OBVIOUS
<1>2. UpTo(k, b)[n + 1] = UpTo(k, b)[(n + 1) - 1] \o ValuesFor(k, b[n + 1])
  BY <1>1, UpToDef, ZenonT(60)
<1> QED
  BY <1>1, <1>2, ZenonT(60)

LEMMA Assoc ==
    ASSUME NEW a \in Seq(Nat), NEW b \in Seq(Nat), NEW c \in Seq(Nat)
    PROVE  (a \o b) \o c = a \o (b \o c)
  BY ConcatAssociative

LEMMA UpToType ==
    ASSUME NEW k, NEW b \in Seq(FullBatches)
    PROVE  \A i \in 0..Len(b) : UpTo(k, b)[i] \in Seq(Nat)
<1> DEFINE S == {n \in Nat : n <= Len(b) => UpTo(k, b)[n] \in Seq(Nat)}
<1>0. Len(b) \in Nat
  BY LenProperties
<1>1. 0 \in S
  BY <1>0, UpToDef, EmptySeq, ZenonT(60)
<1>2. ASSUME NEW n \in Nat, n \in S PROVE n + 1 \in S
  <2> SUFFICES ASSUME n + 1 <= Len(b) PROVE UpTo(k, b)[n + 1] \in Seq(Nat)
    OBVIOUS
  <2>1. n + 1 \in 1..Len(b) /\ (n + 1) - 1 = n /\ UpTo(k, b)[n] \in Seq(Nat)
    BY <1>0, <1>2
  <2>2. ValuesFor(k, b[n + 1]) \in Seq(Nat)
    BY <2>1, ElementOfSeq, ValuesForType
  <2>3. UpTo(k, b)[n + 1] = UpTo(k, b)[n] \o ValuesFor(k, b[n + 1])
    BY <1>0, UpToNext, ZenonT(60)
  <2> QED
    BY <2>1, <2>2, <2>3, ConcatProperties
<1> HIDE DEF S
<1>3. \A n \in Nat : n \in S
  BY <1>1, <1>2, SetInduction
<1> QED
  BY <1>0, <1>3 DEF S

LEMMA BatchesType ==
    ASSUME NEW k, NEW b \in Seq(FullBatches)
    PROVE  BatchesOf(k, b) \in Seq(Nat)
<1>1. Len(b) \in 0..Len(b)
  BY LenProperties
<1> QED
  BY <1>1, UpToType DEF BatchesOf

LEMMA BatchesEmpty ==
    ASSUME NEW k
    PROVE  BatchesOf(k, <<>>) = <<>>
<1>1. Len(<<>>) = 0
  OBVIOUS
<1>2. UpTo(k, <<>>)[0] = <<>>
  BY <1>1, UpToDef, ZenonT(60)
<1> QED
  BY <1>1, <1>2 DEF BatchesOf

\* A batch at the end.
LEMMA BatchesAppend ==
    ASSUME NEW k, NEW b \in Seq(FullBatches), NEW x \in FullBatches
    PROVE  BatchesOf(k, Append(b, x)) = BatchesOf(k, b) \o ValuesFor(k, x)
<1> DEFINE c == Append(b, x)
<1>0. Len(b) \in Nat
  BY LenProperties
<1>1. /\ c \in Seq(FullBatches) /\ Len(c) = Len(b) + 1 /\ c[Len(b) + 1] = x
      /\ \A i \in 1..Len(b) : c[i] = b[i]
  BY AppendProperties
<1> HIDE DEF c
<1>2. Len(c) \in Nat
  BY <1>0, <1>1
<1> DEFINE S == {n \in Nat : n <= Len(b) => UpTo(k, c)[n] = UpTo(k, b)[n]}
<1>3. 0 \in S
  BY <1>0, <1>2, UpToDef, ZenonT(60)
<1>4. ASSUME NEW n \in Nat, n \in S PROVE n + 1 \in S
  <2> SUFFICES ASSUME n + 1 <= Len(b) PROVE UpTo(k, c)[n + 1] = UpTo(k, b)[n + 1]
    OBVIOUS
  <2>1. /\ n + 1 \in 1..Len(b) /\ n + 1 \in 1..Len(c) /\ (n + 1) - 1 = n
        /\ UpTo(k, c)[n] = UpTo(k, b)[n]
    BY <1>0, <1>1, <1>4
  <2>2. UpTo(k, c)[n + 1] = UpTo(k, c)[n] \o ValuesFor(k, c[n + 1])
    <3>1. n + 1 <= Len(c)
      BY <1>2, <2>1
    <3> QED
      BY <1>2, <3>1, UpToNext, ZenonT(60)
  <2>3. UpTo(k, b)[n + 1] = UpTo(k, b)[n] \o ValuesFor(k, b[n + 1])
    BY <1>0, UpToNext, ZenonT(60)
  <2> QED
    BY <1>1, <2>1, <2>2, <2>3, ZenonT(60)
<1> HIDE DEF S
<1>5. Len(b) \in S
  BY <1>0, <1>3, <1>4, SetInduction
<1>6. UpTo(k, c)[Len(b)] = UpTo(k, b)[Len(b)]
  BY <1>0, <1>5 DEF S

<1>8. UpTo(k, c)[Len(b) + 1] = UpTo(k, c)[Len(b)] \o ValuesFor(k, c[Len(b) + 1])
  <2> DEFINE n == Len(b)
  <2>1. n \in Nat /\ n + 1 <= Len(c)
    BY <1>0, <1>1
  <2> HIDE DEF n
  <2>2. UpTo(k, c)[n + 1] = UpTo(k, c)[n] \o ValuesFor(k, c[n + 1])
    BY <1>2, <2>1, UpToNext, ZenonT(60)
  <2> QED
    BY <2>2 DEF n
<1>9. BatchesOf(k, c) = BatchesOf(k, b) \o ValuesFor(k, x)
  BY <1>1, <1>6, <1>8 DEF BatchesOf
<1> QED
  BY <1>9 DEF c

\* The first batch.
LEMMA BatchesHead ==
    ASSUME NEW k, NEW b \in Seq(FullBatches), b # <<>>
    PROVE  BatchesOf(k, b) = ValuesFor(k, Head(b)) \o BatchesOf(k, Tail(b))
<1> DEFINE t == Tail(b)
           v == ValuesFor(k, Head(b))
<1>0. Len(b) \in Nat /\ Len(b) # 0
  BY LenProperties, EmptySeq
<1>1. /\ t \in Seq(FullBatches) /\ Len(t) = Len(b) - 1 /\ Head(b) \in FullBatches
      /\ \A i \in 1..Len(t) : t[i] = b[i + 1]
  BY HeadTailProperties
<1>2. Head(b) = b[1]
  OBVIOUS
<1>3. v \in Seq(Nat) /\ v \o <<>> = v /\ <<>> \o v = v
  BY <1>1, ValuesForType, ConcatEmptySeq
<1>4. v = ValuesFor(k, b[1])
  BY <1>2
<1> HIDE DEF t, v
<1>5. Len(t) \in Nat
  BY <1>0, <1>1
<1> DEFINE S == {n \in Nat : n <= Len(t) => UpTo(k, b)[n + 1] = v \o UpTo(k, t)[n]}
<1>6. 0 \in S
  <2>1. 0 + 1 = 1
    OBVIOUS
  <2>2. UpTo(k, b)[1] = UpTo(k, b)[0] \o ValuesFor(k, b[1])
    <3>1. \A i \in 1..Len(b) : UpTo(k, b)[i] = UpTo(k, b)[i - 1] \o ValuesFor(k, b[i])
      BY <1>0, UpToDef, ZenonT(60)
    <3>2. 1 \in 1..Len(b) /\ 1 - 1 = 0
      BY <1>0, <1>1, <1>5
    <3> QED
      BY <3>1, <3>2, ZenonT(60)
  <2>3. UpTo(k, b)[0] = <<>> /\ UpTo(k, t)[0] = <<>>
    BY <1>0, <1>5, UpToDef, ZenonT(60)
  <2>4. UpTo(k, b)[0 + 1] = v \o UpTo(k, t)[0]
    BY <1>3, <1>4, <2>1, <2>2, <2>3, ZenonT(60)
  <2> QED
    BY <2>4
<1>7. ASSUME NEW n \in Nat, n \in S PROVE n + 1 \in S
  <2> SUFFICES ASSUME n + 1 <= Len(t) PROVE UpTo(k, b)[(n + 1) + 1] = v \o UpTo(k, t)[n + 1]
    OBVIOUS
  <2>1. /\ n + 1 \in 1..Len(t) /\ (n + 1) - 1 = n /\ n \in 0..Len(t)
        /\ UpTo(k, b)[n + 1] = v \o UpTo(k, t)[n]
    BY <1>5, <1>7
  <2>2. n + 1 \in Nat /\ (n + 1) + 1 <= Len(b)
    BY <1>0, <1>1, <1>5
  <2>3. UpTo(k, b)[(n + 1) + 1] = UpTo(k, b)[n + 1] \o ValuesFor(k, b[(n + 1) + 1])
    BY <1>0, <2>2, UpToNext, ZenonT(60)
  <2>4. UpTo(k, t)[n + 1] = UpTo(k, t)[n] \o ValuesFor(k, t[n + 1])
    BY <1>5, UpToNext, ZenonT(60)
  <2>5. t[n + 1] = b[(n + 1) + 1]
    BY <1>1, <2>1
  <2>6. UpTo(k, t)[n] \in Seq(Nat) /\ ValuesFor(k, t[n + 1]) \in Seq(Nat)
    BY <1>1, <2>1, UpToType, ElementOfSeq, ValuesForType
  <2>7. (v \o UpTo(k, t)[n]) \o ValuesFor(k, t[n + 1]) = v \o (UpTo(k, t)[n] \o ValuesFor(k, t[n + 1]))
    BY <1>3, <2>6, Assoc, ZenonT(60)
  <2> QED
    BY <2>1, <2>3, <2>4, <2>5, <2>7
<1> HIDE DEF S
<1>8. Len(t) \in S
  BY <1>5, <1>6, <1>7, SetInduction
<1>9. UpTo(k, b)[Len(t) + 1] = v \o UpTo(k, t)[Len(t)] /\ Len(t) + 1 = Len(b)
  BY <1>0, <1>1, <1>5, <1>8 DEF S
<1> QED
  BY <1>9, ZenonT(60) DEF BatchesOf, t, v

\* No batch of the key.
LEMMA BatchesNone ==
    ASSUME NEW k, NEW b \in Seq(FullBatches), \A i \in 1..Len(b) : b[i].key # k
    PROVE  BatchesOf(k, b) = <<>>
<1> DEFINE S == {n \in Nat : n <= Len(b) => UpTo(k, b)[n] = <<>>}
<1>0. Len(b) \in Nat
  BY LenProperties
<1>1. 0 \in S
  BY <1>0, UpToDef, ZenonT(60)
<1>2. ASSUME NEW n \in Nat, n \in S PROVE n + 1 \in S
  <2> SUFFICES ASSUME n + 1 <= Len(b) PROVE UpTo(k, b)[n + 1] = <<>>
    OBVIOUS
  <2>1. n + 1 \in 1..Len(b) /\ (n + 1) - 1 = n /\ UpTo(k, b)[n] = <<>>
    BY <1>0, <1>2
  <2>2. UpTo(k, b)[n + 1] = UpTo(k, b)[n] \o ValuesFor(k, b[n + 1])
    BY <1>0, UpToNext, ZenonT(60)
  <2>3. ValuesFor(k, b[n + 1]) = <<>>
    BY <2>1 DEF ValuesFor
  <2> QED
    BY <2>1, <2>2, <2>3, ConcatEmptySeq, EmptySeq
<1> HIDE DEF S
<1>3. Len(b) \in S
  BY <1>0, <1>1, <1>2, SetInduction
<1> QED
  BY <1>0, <1>3 DEF S, BatchesOf

\* At most one batch of each key.
LEMMA BatchesOne ==
    ASSUME NEW k, NEW b \in Seq(FullBatches),
           \A i, j \in 1..Len(b) : b[i].key = b[j].key => i = j
    PROVE  Len(BatchesOf(k, b)) \in {0, BatchSize}
<1> DEFINE S == {n \in Nat : n <= Len(b) =>
                    \/ /\ \A i \in 1..n : b[i].key # k
                       /\ UpTo(k, b)[n] = <<>>
                    \/ /\ \E i \in 1..n : b[i].key = k
                       /\ Len(UpTo(k, b)[n]) = BatchSize}
<1>0. Len(b) \in Nat
  BY LenProperties
<1>1. 0 \in S
  <2>1. UpTo(k, b)[0] = <<>>
    BY <1>0, UpToDef, ZenonT(60)
  <2>2. \A i \in 1..0 : b[i].key # k
    OBVIOUS
  <2> QED
    BY <2>1, <2>2
<1>2. ASSUME NEW n \in Nat, n \in S PROVE n + 1 \in S
  <2> SUFFICES ASSUME n + 1 <= Len(b)
               PROVE  \/ /\ \A i \in 1..n+1 : b[i].key # k
                         /\ UpTo(k, b)[n + 1] = <<>>
                      \/ /\ \E i \in 1..n+1 : b[i].key = k
                         /\ Len(UpTo(k, b)[n + 1]) = BatchSize
    OBVIOUS
  <2>1. n + 1 \in 1..Len(b) /\ (n + 1) - 1 = n /\ n <= Len(b) /\ n \in 0..Len(b)
    BY <1>0
  <2>2. UpTo(k, b)[n + 1] = UpTo(k, b)[n] \o ValuesFor(k, b[n + 1])
    BY <1>0, UpToNext, ZenonT(60)
  <2>3. UpTo(k, b)[n] \in Seq(Nat) /\ b[n + 1] \in FullBatches
    BY <2>1, UpToType, ElementOfSeq
  <2>4. b[n + 1].values \in Seq(Nat) /\ Len(b[n + 1].values) = BatchSize
    BY <2>3 DEF FullBatches
  <2>5. CASE b[n + 1].key = k
    <3>1. \A i \in 1..n : b[i].key # k
      BY <1>0, <2>1, <2>5
    <3>2. UpTo(k, b)[n] = <<>>
      BY <1>2, <2>1, <3>1
    <3>3. UpTo(k, b)[n + 1] = b[n + 1].values
      BY <2>2, <2>4, <2>5, <3>2, ConcatEmptySeq DEF ValuesFor
    <3> QED
      BY <2>4, <2>5, <3>3
  <2>6. CASE b[n + 1].key # k
    <3>1. UpTo(k, b)[n + 1] = UpTo(k, b)[n]
      BY <2>2, <2>3, <2>6, ConcatEmptySeq DEF ValuesFor
    <3>2. \A i \in 1..n+1 : i \in 1..n \/ i = n + 1
      OBVIOUS
    <3> QED
      BY <1>2, <2>1, <2>6, <3>1, <3>2
  <2> QED
    BY <2>5, <2>6
<1> HIDE DEF S
<1>3. Len(b) \in S
  BY <1>0, <1>1, <1>2, SetInduction
<1>4. UpTo(k, b)[Len(b)] = <<>> \/ Len(UpTo(k, b)[Len(b)]) = BatchSize
  BY <1>0, <1>3 DEF S
<1> QED
  BY <1>4, EmptySeq DEF BatchesOf

-----------------------------------------------------------------------------
(* Sequences of transactions: their elements, their order, their reverse.   *)

Distinct(s) == \A i, j \in DOMAIN s : s[i] = s[j] => i = j

LEMMA ValuesConcat ==
    ASSUME NEW a \in Seq(Nat), NEW b \in Seq(Nat)
    PROVE  Values(a \o b) = Values(a) \cup Values(b)
<1>0. /\ Len(a) \in Nat /\ Len(b) \in Nat
      /\ DOMAIN a = 1..Len(a) /\ DOMAIN b = 1..Len(b)
  BY LenProperties
<1> DEFINE c == a \o b
<1>1. /\ Len(c) = Len(a) + Len(b) /\ DOMAIN c = 1..Len(c)
      /\ \A i \in 1..Len(a) + Len(b) : c[i] = IF i <= Len(a) THEN a[i] ELSE b[i - Len(a)]
  BY ConcatProperties, LenProperties
<1> HIDE DEF c
<1>2. ASSUME NEW v \in Values(c) PROVE v \in Values(a) \cup Values(b)
  <2>1. PICK i \in 1..Len(a) + Len(b) : v = c[i]
    BY <1>1 DEF Values
  <2>2. CASE i <= Len(a)
    BY <1>0, <1>1, <2>1, <2>2 DEF Values
  <2>3. CASE ~(i <= Len(a))
    <3>1. i - Len(a) \in 1..Len(b) /\ v = b[i - Len(a)]
      BY <1>0, <1>1, <2>1, <2>3
    <3> QED
      BY <1>0, <3>1, ZenonT(60) DEF Values
  <2> QED
    BY <2>2, <2>3
<1>3. ASSUME NEW v \in Values(a) PROVE v \in Values(c)
  <2>1. PICK i \in 1..Len(a) : v = a[i]
    BY <1>0 DEF Values
  <2>2. i \in 1..Len(a) + Len(b) /\ c[i] = v
    BY <1>0, <1>1, <2>1
  <2> QED
    BY <1>1, <2>2, ZenonT(60) DEF Values
<1>4. ASSUME NEW v \in Values(b) PROVE v \in Values(c)
  <2>1. PICK i \in 1..Len(b) : v = b[i]
    BY <1>0 DEF Values
  <2>2. i + Len(a) \in 1..Len(a) + Len(b) /\ ~(i + Len(a) <= Len(a)) /\ (i + Len(a)) - Len(a) = i
    BY <1>0
  <2>3. c[i + Len(a)] = v
    BY <1>1, <2>1, <2>2
  <2> QED
    BY <1>1, <2>2, <2>3, ZenonT(60) DEF Values
<1>5. Values(c) = Values(a) \cup Values(b)
  BY <1>2, <1>3, <1>4
<1> QED
  BY <1>5 DEF c

LEMMA DistinctConcat ==
    ASSUME NEW a \in Seq(Nat), NEW b \in Seq(Nat)
    PROVE  Distinct(a \o b) <=> Distinct(a) /\ Distinct(b) /\ Values(a) \cap Values(b) = {}
<1>0. /\ Len(a) \in Nat /\ Len(b) \in Nat
      /\ DOMAIN a = 1..Len(a) /\ DOMAIN b = 1..Len(b)
  BY LenProperties
<1> DEFINE c == a \o b
           m == Len(a)
           n == Len(b)
<1>1. /\ DOMAIN c = 1..m + n
      /\ \A i \in 1..m : i \in 1..m + n /\ c[i] = a[i]
      /\ \A i \in 1..n : i + m \in 1..m + n /\ c[i + m] = b[i]
  <2>1. /\ Len(c) = m + n /\ DOMAIN c = 1..Len(c)
        /\ \A i \in 1..m + n : c[i] = IF i <= m THEN a[i] ELSE b[i - m]
    BY ConcatProperties, LenProperties
  <2> HIDE DEF c
  <2>2. ASSUME NEW i \in 1..n PROVE i + m \in 1..m + n /\ c[i + m] = b[i]
    <3>1. i + m \in 1..m + n /\ ~(i + m <= m) /\ (i + m) - m = i
      BY <1>0
    <3> QED
      BY <2>1, <3>1
  <2>3. ASSUME NEW i \in 1..m PROVE i \in 1..m + n /\ c[i] = a[i]
    <3>1. i \in 1..m + n /\ i <= m
      BY <1>0
    <3> QED
      BY <2>1, <3>1
  <2> QED
    BY <2>1, <2>2, <2>3
<1>2. ASSUME NEW i \in 1..m + n PROVE i \in 1..m \/ \E j \in 1..n : i = j + m
  <2>1. CASE i <= m
    BY <1>0, <2>1
  <2>2. CASE ~(i <= m)
    <3>1. i - m \in 1..n /\ i = (i - m) + m
      BY <1>0, <2>2
    <3> QED
      BY <3>1, ZenonT(60)
  <2> QED
    BY <2>1, <2>2
<1>0a. m \in Nat /\ n \in Nat /\ DOMAIN a = 1..m /\ DOMAIN b = 1..n
  BY <1>0
<1> HIDE DEF c, m, n
<1>3. ASSUME Distinct(c) PROVE Distinct(a) /\ Distinct(b) /\ Values(a) \cap Values(b) = {}
  <2>1. Distinct(a)
    BY <1>0a, <1>1, <1>3, ZenonT(60) DEF Distinct
  <2>2. ASSUME NEW i \in 1..n, NEW j \in 1..n, b[i] = b[j] PROVE i = j
    <3>1. i + m = j + m
      BY <1>1, <1>3, <2>2 DEF Distinct
    <3> QED
      BY <1>0a, <3>1
  <2>3. ASSUME NEW i \in 1..m, NEW j \in 1..n, a[i] = b[j] PROVE FALSE
    <3>1. i = j + m
      BY <1>1, <1>3, <2>3, ZenonT(60) DEF Distinct
    <3> QED
      BY <1>0a, <3>1
  <2> QED
    BY <1>0a, <2>1, <2>2, <2>3 DEF Distinct, Values
<1>4. ASSUME Distinct(a), Distinct(b), Values(a) \cap Values(b) = {} PROVE Distinct(c)
  <2> SUFFICES ASSUME NEW i \in 1..m + n, NEW j \in 1..m + n, c[i] = c[j] PROVE i = j
    BY <1>1 DEF Distinct
  <2>0. \A x \in 1..m, y \in 1..n : a[x] # b[y]
    BY <1>0a, <1>4, ZenonT(60) DEF Values
  <2>1. CASE i \in 1..m /\ j \in 1..m
    BY <1>0a, <1>1, <1>4, <2>1, ZenonT(60) DEF Distinct
  <2>2. CASE i \in 1..m /\ \E y \in 1..n : j = y + m
    BY <1>1, <2>0, <2>2
  <2>3. CASE j \in 1..m /\ \E y \in 1..n : i = y + m
    BY <1>1, <2>0, <2>3
  <2>4. ASSUME NEW x \in 1..n, NEW y \in 1..n, i = x + m, j = y + m PROVE i = j
    <3>1. b[x] = b[y]
      BY <1>1, <2>4
    <3>2. x = y
      BY <1>0a, <1>4, <3>1, ZenonT(60) DEF Distinct
    <3> QED
      BY <2>4, <3>2
  <2> QED
    BY <1>2, <2>1, <2>2, <2>3, <2>4
<1>5. Distinct(c) <=> Distinct(a) /\ Distinct(b) /\ Values(a) \cap Values(b) = {}
  BY <1>3, <1>4
<1> QED
  BY <1>5 DEF c

LEMMA ReversedType ==
    ASSUME NEW a \in Seq(Nat)
    PROVE  /\ Reversed(a) \in Seq(Nat) /\ Len(Reversed(a)) = Len(a)
           /\ \A i \in 1..Len(a) : Reversed(a)[i] = a[Len(a) + 1 - i]
<1>0. Len(a) \in Nat /\ \A i \in 1..Len(a) : a[i] \in Nat
  BY LenProperties, ElementOfSeq
<1>1. \A i \in 1..Len(a) : Len(a) + 1 - i \in 1..Len(a)
  BY <1>0
<1> QED
  BY <1>0, <1>1 DEF Reversed

LEMMA ReversedTwice ==
    ASSUME NEW a \in Seq(Nat)
    PROVE  Reversed(Reversed(a)) = a
<1>0. Len(a) \in Nat
  BY LenProperties
<1> DEFINE r == Reversed(a)
<1>1. r \in Seq(Nat) /\ Len(r) = Len(a) /\ \A i \in 1..Len(a) : r[i] = a[Len(a) + 1 - i]
  BY ReversedType
<1> HIDE DEF r
<1> DEFINE t == Reversed(r)
<1>2a. t \in Seq(Nat) /\ Len(t) = Len(r) /\ \A i \in 1..Len(r) : t[i] = r[Len(r) + 1 - i]
  BY <1>1, ReversedType, ZenonT(60)
<1>2. t \in Seq(Nat) /\ Len(t) = Len(a) /\ \A i \in 1..Len(a) : t[i] = r[Len(a) + 1 - i]
  BY <1>1, <1>2a
<1> HIDE DEF t
<1>3. ASSUME NEW i \in 1..Len(a) PROVE t[i] = a[i]
  <2>1. Len(a) + 1 - i \in 1..Len(a) /\ Len(a) + 1 - (Len(a) + 1 - i) = i
    BY <1>0
  <2> QED
    BY <1>1, <1>2, <2>1, ZenonT(60)
<1>4. t = a
  BY <1>2, <1>3, SeqEqual
<1> QED
  BY <1>4 DEF t, r

LEMMA ReversedConcat ==
    ASSUME NEW a \in Seq(Nat), NEW b \in Seq(Nat)
    PROVE  Reversed(a \o b) = Reversed(b) \o Reversed(a)
<1> DEFINE m == Len(a)
           n == Len(b)
           c == a \o b
           ra == Reversed(a)
           rb == Reversed(b)
           rc == Reversed(c)
           d == rb \o ra
<1>1. m \in Nat /\ n \in Nat
  BY LenProperties
<1>2. /\ c \in Seq(Nat) /\ Len(c) = m + n
      /\ \A i \in 1..m + n : c[i] = IF i <= m THEN a[i] ELSE b[i - m]
  BY ConcatProperties
<1>3. /\ ra \in Seq(Nat) /\ Len(ra) = m /\ \A i \in 1..m : ra[i] = a[m + 1 - i]
      /\ rb \in Seq(Nat) /\ Len(rb) = n /\ \A i \in 1..n : rb[i] = b[n + 1 - i]
  BY ReversedType
<1> HIDE DEF c, ra, rb
<1>4a. rc \in Seq(Nat) /\ Len(rc) = Len(c) /\ \A i \in 1..Len(c) : rc[i] = c[Len(c) + 1 - i]
  BY <1>2, ReversedType, ZenonT(60)
<1>5a. /\ d \in Seq(Nat) /\ Len(d) = Len(rb) + Len(ra)
       /\ \A i \in 1..Len(rb) + Len(ra) : d[i] = IF i <= Len(rb) THEN rb[i] ELSE ra[i - Len(rb)]
  <2>1. rb \in Seq(Nat) /\ ra \in Seq(Nat)
    BY <1>3
  <2> QED
    BY <2>1, ConcatProperties
<1> HIDE DEF m, n, rc, d
<1>4. rc \in Seq(Nat) /\ Len(rc) = m + n /\ \A i \in 1..m + n : rc[i] = c[m + n + 1 - i]
  BY <1>2, <1>4a
<1>5. /\ d \in Seq(Nat) /\ Len(d) = n + m
      /\ \A i \in 1..n + m : d[i] = IF i <= n THEN rb[i] ELSE ra[i - n]
  BY <1>3, <1>5a
<1>6. ASSUME NEW i \in 1..m + n PROVE rc[i] = d[i]
  <2>0. i \in 1..n + m /\ m + n + 1 - i \in 1..m + n /\ rc[i] = c[m + n + 1 - i]
    BY <1>1, <1>4
  <2>1. CASE i <= n
    <3>1. ~(m + n + 1 - i <= m) /\ (m + n + 1 - i) - m = n + 1 - i /\ i \in 1..n
      BY <1>1, <2>1
    <3>2. rc[i] = b[n + 1 - i]
      BY <1>2, <2>0, <3>1
    <3>3. d[i] = b[n + 1 - i]
      BY <1>3, <1>5, <2>0, <2>1, <3>1, ZenonT(60)
    <3> QED
      BY <3>2, <3>3
  <2>2. CASE ~(i <= n)
    <3>1. m + n + 1 - i <= m /\ i - n \in 1..m /\ m + 1 - (i - n) = m + n + 1 - i
      BY <1>1, <2>2
    <3>2. rc[i] = a[m + n + 1 - i]
      BY <1>2, <2>0, <3>1, ZenonT(60)
    <3>3. d[i] = a[m + n + 1 - i]
      BY <1>3, <1>5, <2>0, <2>2, <3>1, ZenonT(60)
    <3> QED
      BY <3>2, <3>3
  <2> QED
    BY <2>1, <2>2
<1>7. Len(rc) = Len(d)
  BY <1>1, <1>4, <1>5
<1>8. rc = d
  BY <1>4, <1>5, <1>6, <1>7, SeqEqual, ZenonT(60)
<1> QED
  BY <1>8 DEF rc, d, c, ra, rb

\* What a segment that moves, goes or comes means for the whole.

LEMMA Moved ==
    ASSUME NEW a \in Seq(Nat), NEW b \in Seq(Nat), NEW c \in Seq(Nat),
           Distinct((a \o b) \o c)
    PROVE  /\ Distinct((a \o c) \o b)
           /\ Values((a \o c) \o b) = Values((a \o b) \o c)
           /\ Len((a \o c) \o b) = Len((a \o b) \o c)
<1>1. a \o b \in Seq(Nat) /\ a \o c \in Seq(Nat)
  BY ConcatProperties
<1>2. /\ Distinct(a \o b) /\ Distinct(c) /\ Values(a \o b) \cap Values(c) = {}
      /\ Distinct(a) /\ Distinct(b) /\ Values(a) \cap Values(b) = {}
      /\ Values(a \o b) = Values(a) \cup Values(b) /\ Values(a \o c) = Values(a) \cup Values(c)
  BY <1>1, DistinctConcat, ValuesConcat, ZenonT(60)
<1>3. Distinct(a \o c)
  BY <1>2, DistinctConcat
<1>4. Distinct((a \o c) \o b)
  <2> DEFINE d == a \o c
  <2>1. d \in Seq(Nat) /\ Distinct(d) /\ Distinct(b) /\ Values(d) \cap Values(b) = {}
    BY <1>1, <1>2, <1>3
  <2> HIDE DEF d
  <2>2. Distinct(d \o b)
    BY <2>1, DistinctConcat
  <2> QED
    BY <2>2 DEF d
<1>5. Values((a \o c) \o b) = Values((a \o b) \o c)
  <2>1. Values((a \o c) \o b) = Values(a \o c) \cup Values(b)
    BY <1>1, ValuesConcat, ZenonT(60)
  <2>2. Values((a \o b) \o c) = Values(a \o b) \cup Values(c)
    BY <1>1, ValuesConcat, ZenonT(60)
  <2> QED
    BY <1>2, <2>1, <2>2
<1>6. /\ Len(a) \in Nat /\ Len(b) \in Nat /\ Len(c) \in Nat
      /\ Len((a \o c) \o b) = (Len(a) + Len(c)) + Len(b)
      /\ Len((a \o b) \o c) = (Len(a) + Len(b)) + Len(c)
  BY <1>1, ConcatProperties, LenProperties
<1> QED
  BY <1>4, <1>5, <1>6

LEMMA Dropped ==
    ASSUME NEW a \in Seq(Nat), NEW b \in Seq(Nat), NEW c \in Seq(Nat),
           Distinct((a \o b) \o c)
    PROVE  Distinct(a \o c) /\ Values(a \o c) \subseteq Values((a \o b) \o c)
<1>1. a \o b \in Seq(Nat)
  BY ConcatProperties
<1>2. /\ Distinct(c) /\ Values(a \o b) \cap Values(c) = {} /\ Distinct(a)
      /\ Values(a \o b) = Values(a) \cup Values(b) /\ Values(a \o c) = Values(a) \cup Values(c)
  BY <1>1, DistinctConcat, ValuesConcat, ZenonT(60)
<1>3. Distinct(a \o c)
  BY <1>2, DistinctConcat
<1>4. Values((a \o b) \o c) = Values(a \o b) \cup Values(c)
  BY <1>1, ValuesConcat, ZenonT(60)
<1> QED
  BY <1>2, <1>3, <1>4

LEMMA OneMore ==
    ASSUME NEW a \in Seq(Nat), NEW n \in Nat
    PROVE  /\ a \o <<n>> = Append(a, n) /\ a \o <<n>> \in Seq(Nat)
           /\ Len(a \o <<n>>) = Len(a) + 1
           /\ Values(a \o <<n>>) = Values(a) \cup {n}
           /\ Distinct(a) /\ n \notin Values(a) => Distinct(a \o <<n>>)
<1>1. <<n>> \in Seq(Nat) /\ Len(<<n>>) = 1 /\ DOMAIN <<n>> = {1} /\ <<n>>[1] = n
  OBVIOUS
<1>2. Values(<<n>>) = {n} /\ Distinct(<<n>>)
  BY <1>1 DEF Values, Distinct
<1>3. a \o <<n>> = Append(a, n)
  BY AppendIsConcat
<1>4. a \o <<n>> \in Seq(Nat) /\ Len(a \o <<n>>) = Len(a) + 1
  BY <1>1, ConcatProperties
<1>5. Values(a \o <<n>>) = Values(a) \cup {n}
  BY <1>1, <1>2, ValuesConcat, ZenonT(60)
<1>6. ASSUME Distinct(a), n \notin Values(a) PROVE Distinct(a \o <<n>>)
  <2> DEFINE d == <<n>>
  <2>1. d \in Seq(Nat) /\ Distinct(d) /\ Values(a) \cap Values(d) = {}
    BY <1>1, <1>2, <1>6
  <2> HIDE DEF d
  <2>2. Distinct(a \o d)
    BY <1>6, <2>1, DistinctConcat
  <2> QED
    BY <2>2 DEF d
<1> QED
  BY <1>3, <1>4, <1>5, <1>6

-----------------------------------------------------------------------------
(* Keys in order.                                                           *)

Increasing(seq) == \A i, j \in DOMAIN seq : i < j => seq[i] < seq[j]

LEMMA IncreasingExists ==
    \A n \in Nat : \A S \in SUBSET Nat : IsFiniteSet(S) /\ Cardinality(S) = n
        => \E seq \in [1..n -> S] : Increasing(seq)
<1> DEFINE Enum(n) == \A S \in SUBSET Nat : IsFiniteSet(S) /\ Cardinality(S) = n
                          => \E seq \in [1..n -> S] : Increasing(seq)
           T == {n \in Nat : Enum(n)}
<1>1. 0 \in T
  <2> SUFFICES ASSUME NEW S \in SUBSET Nat PROVE \E seq \in [1..0 -> S] : Increasing(seq)
    OBVIOUS
  <2> DEFINE e == [i \in 1..0 |-> 0]
  <2>1. e \in [1..0 -> S] /\ DOMAIN e = {}
    OBVIOUS
  <2> HIDE DEF e
  <2> QED
    BY <2>1, ZenonT(60) DEF Increasing
<1>2. ASSUME NEW n \in Nat, n \in T PROVE n + 1 \in T
  <2> SUFFICES ASSUME NEW S \in SUBSET Nat, IsFiniteSet(S), Cardinality(S) = n + 1
               PROVE  \E seq \in [1..n + 1 -> S] : Increasing(seq)
    OBVIOUS
  <2>1. S # {}
    <3>1. Cardinality(S) # 0
      OBVIOUS
    <3> QED
      BY <3>1, FS_EmptySet
  <2>2. PICK m \in S : \A x \in S : m <= x
    BY <2>1, LeastNat
  <2> DEFINE R == S \ {m}
  <2>3. IsFiniteSet(R) /\ Cardinality(R) = n /\ R \in SUBSET Nat
    <3>1. IsFiniteSet(R) /\ Cardinality(R) = Cardinality(S) - 1
      BY FS_RemoveElement
    <3> QED
      BY <3>1
  <2>4. \A x \in R : m < x
    BY <2>2
  <2>5. PICK s \in [1..n -> R] : Increasing(s)
    BY <1>2, <2>3
  <2> DEFINE t == [i \in 1..n + 1 |-> IF i = 1 THEN m ELSE s[i - 1]]
  <2>6. \A i \in 1..n + 1 : i # 1 => i - 1 \in 1..n
    OBVIOUS
  <2>7. t \in [1..n + 1 -> S]
    BY <2>5, <2>6
  <2>8. ASSUME NEW i \in 1..n + 1, NEW j \in 1..n + 1, i < j PROVE t[i] < t[j]
    <3>1. j # 1 /\ t[j] = s[j - 1] /\ j - 1 \in 1..n
      BY <2>6, <2>8
    <3>2. CASE i = 1
      BY <2>4, <2>5, <3>1, <3>2, ZenonT(60)
    <3>3. CASE i # 1
      <4>1. i - 1 \in 1..n /\ i - 1 < j - 1 /\ t[i] = s[i - 1]
        BY <2>6, <2>8, <3>3
      <4>2. DOMAIN s = 1..n
        BY <2>5
      <4> HIDE DEF t
      <4> QED
        BY <2>5, <3>1, <4>1, <4>2 DEF Increasing
    <3> QED
      BY <3>2, <3>3
  <2>9. DOMAIN t = 1..n + 1
    OBVIOUS
  <2> HIDE DEF t
  <2> QED
    BY <2>7, <2>8, <2>9 DEF Increasing
<1> HIDE DEF T
<1>3. \A n \in Nat : n \in T
  BY <1>1, <1>2, SetInduction
<1> QED
  BY <1>3 DEF T

LEMMA SortedIncreasing ==
    ASSUME NEW S \in SUBSET Keys
    PROVE  /\ Cardinality(S) \in Nat /\ IsFiniteSet(S)
           /\ Sorted(S) \in [1..Cardinality(S) -> S]
           /\ Increasing(Sorted(S))
<1>1. IsFiniteSet(S) /\ S \in SUBSET Nat
  BY KeysAssumption, FS_Subset, ZenonT(60)
<1>2. Cardinality(S) \in Nat
  BY <1>1, FS_CardinalityType
<1>3. \E seq \in [1..Cardinality(S) -> S] : Increasing(seq)
  BY <1>1, <1>2, IncreasingExists
<1>4. Sorted(S) = CHOOSE seq \in [1..Cardinality(S) -> S] : Increasing(seq)
  BY DEF Sorted, Increasing
<1> HIDE DEF Increasing, Sorted
<1> QED
  BY <1>1, <1>2, <1>3, <1>4

\* Each key comes once, and none is missing.
LEMMA SortedKeys ==
    ASSUME NEW S \in SUBSET Keys
    PROVE  Sorted(S) \in Seq(Keys) /\ Distinct(Sorted(S)) /\ Values(Sorted(S)) = S
<1> DEFINE s == Sorted(S)
           n == Cardinality(S)
<1>1. n \in Nat /\ IsFiniteSet(S) /\ s \in [1..n -> S] /\ Increasing(s)
  BY SortedIncreasing
<1> HIDE DEF s, n
<1>2. DOMAIN s = 1..n /\ \A i \in 1..n : s[i] \in Nat
  BY <1>1, KeysAssumption, ZenonT(60)
<1>3. Distinct(s)
  <2> SUFFICES ASSUME NEW i \in 1..n, NEW j \in 1..n, s[i] = s[j] PROVE i = j
    BY <1>2 DEF Distinct
  <2>1. ~(i < j) /\ ~(j < i)
    BY <1>1, <1>2 DEF Increasing
  <2> QED
    BY <1>1, <2>1
<1>4. s \in Seq(Keys)
  <2>1. s \in [1..n -> Keys]
    BY <1>1
  <2> QED
    BY <1>1, <2>1
<1>5. s \in Injection(1..n, S)
  BY <1>1, <1>2, <1>3 DEF Distinct, Injection, IsInjective
<1>6. Cardinality(1..n) = n
  <2>1. 1 \in Int /\ n \in Int /\ (IF 1 > n THEN 0 ELSE n - 1 + 1) = n
    BY <1>1
  <2> QED
    BY <2>1, FS_Interval
<1>7. s \in Surjection(1..n, S)
  BY <1>1, <1>5, <1>6, FS_Injection DEF n
<1>8. Values(s) = S
  BY <1>1, <1>2, <1>7 DEF Surjection, Values
<1> QED
  BY <1>3, <1>4, <1>8 DEF s

-----------------------------------------------------------------------------
(* The inductive invariant.                                                 *)

States == {"idle", "rare", "keys", "close", "wait", "sealed", "failed", "exit"}

\* The values each variable can have.
Types ==
    /\ pc \in States
    /\ count \in Nat
    /\ todo \in Seq(Keys) /\ sweep \in Seq(Keys)
    /\ accum \in [Keys -> Seq(Nat)] /\ \A k \in Keys : Len(accum[k]) < BatchSize
    /\ rank \in [Keys -> Nat]
    /\ chan \in Seq(FullBatches) /\ tmpBuf \in Seq(FullBatches)
    /\ wpc \in {"loop", "flush", "done"}
    /\ held \in IF wpc = "flush" THEN FullBatches ELSE {NoBatch}
    /\ log \in Logs
    /\ offsets \in [Keys -> 0..Len(log)]
    /\ faults \in Nat
    /\ exiting \in BOOLEAN /\ purged \in BOOLEAN
    /\ pushed \in [Keys -> Seq(Nat)]

\* Who is where: the goroutine ends after Close told it to and the channel is
\* empty, the index is sealed after that, and Close has looked at every key.
Control ==
    /\ exiting => pc \in {"wait", "sealed", "failed"}
    /\ wpc = "done" => exiting /\ chan = <<>>
    /\ pc = "sealed" => wpc = "done"
    /\ pc = "close" => Collected \subseteq Values(sweep)
    /\ pc \in {"wait", "sealed"} => Collected = {}

\* No two batches of a key wait in the goroutine's buffer.
OneWaits == \A i, j \in 1..Len(tmpBuf) : tmpBuf[i].key = tmpBuf[j].key => i = j

\* The transaction at hand is new to the keys it is still to be collected for.
AtHand ==
    /\ Distinct(todo)
    /\ todo # <<>> => count # 0
    /\ \A k \in Keys : Values(pushed[k]) \subseteq 1..count
    /\ \A k \in Values(todo) : count \notin Values(pushed[k])

\* The batches of a key that are on their way to the log.
OnTheWay(k) == BatchesOf(k, tmpBuf) \o ValuesFor(k, held) \o BatchesOf(k, chan)

\* A key without a full batch has none on its way.
NoneOnTheWay == ~purged => \A k \in Keys : rank[k] = 0 => OnTheWay(k) = <<>>

\* Order, as long as nothing was lost: Close may put a popular key's last
\* transactions before its batches.
Order ==
    faults = 0 /\ ~purged
        => \A k \in Keys : ~Closing \/ rank[k] = 0 => Everywhere(k) = pushed[k]

\* Nothing is lost but by a failed write.
Complete == faults = 0 => \A k \in Keys : Len(Everywhere(k)) = Len(pushed[k])

Inv == Types /\ Control /\ OneWaits /\ AtHand /\ NoneOnTheWay /\ Order /\ ListedOnce /\ Complete

\* What the index lists for a key, oldest first.
Listed(k) == Reversed(Get(k))

LEMMA BatchTypes ==
    ASSUME NEW b \in FullBatches
    PROVE  /\ b.key \in Keys /\ b.values \in Seq(Nat) /\ Len(b.values) = BatchSize
           /\ b \in [key : Keys, values : Seq(Nat)]
  BY DEF FullBatches

LEMMA HeldType ==
    ASSUME Types, NEW k
    PROVE  ValuesFor(k, held) \in Seq(Nat)
<1>1. CASE wpc = "flush"
  BY <1>1, ValuesForType DEF Types
<1>2. CASE wpc # "flush"
  <2>1. held = NoBatch
    BY <1>2 DEF Types
  <2> QED
    BY <2>1, EmptySeq DEF ValuesFor, NoBatch
<1> QED
  BY <1>1, <1>2


LEMMA Parts ==
    ASSUME Types, NEW k \in Keys
    PROVE  /\ Get(k) \in Seq(Nat) /\ Listed(k) \in Seq(Nat) /\ OnTheWay(k) \in Seq(Nat)
           /\ accum[k] \in Seq(Nat) /\ pushed[k] \in Seq(Nat)
           /\ Everywhere(k) = (Listed(k) \o OnTheWay(k)) \o accum[k]
           /\ Everywhere(k) \in Seq(Nat)
<1> DEFINE a == Listed(k)
           t == BatchesOf(k, tmpBuf)
           h == ValuesFor(k, held)
           c == BatchesOf(k, chan)
<1>1. Get(k) \in Seq(Nat)
  <2>1. log \in Logs /\ offsets[k] \in 0..Len(log)
    BY DEF Types
  <2> QED
    BY <2>1, WalkType DEF Get
<1>2. a \in Seq(Nat)
  BY <1>1, ReversedType DEF Listed
<1>3. t \in Seq(Nat) /\ c \in Seq(Nat)
  BY BatchesType DEF Types
<1>4. h \in Seq(Nat)
  BY HeldType
<1>5. accum[k] \in Seq(Nat) /\ pushed[k] \in Seq(Nat)
  BY DEF Types
<1>6. Everywhere(k) = (((a \o t) \o h) \o c) \o accum[k] /\ OnTheWay(k) = (t \o h) \o c
  BY DEF Everywhere, OnTheWay, Listed
<1> HIDE DEF a, t, h, c
<1>8. t \o h \in Seq(Nat)
  BY <1>3, <1>4, ConcatProperties
<1>7. ((a \o t) \o h) \o c = a \o ((t \o h) \o c)
  <2> DEFINE f == t \o h
  <2>1. (a \o t) \o h = a \o f
    BY <1>2, <1>3, <1>4, Assoc, ZenonT(60)
  <2>2. f \in Seq(Nat)
    BY <1>8
  <2> HIDE DEF f
  <2>3. (a \o f) \o c = a \o (f \o c)
    BY <1>2, <1>3, <2>2, Assoc, ZenonT(60)
  <2> QED
    BY <2>1, <2>3 DEF f
<1>9. (t \o h) \o c \in Seq(Nat)
  BY <1>3, <1>8, ConcatProperties
<1>10. OnTheWay(k) \in Seq(Nat) /\ Everywhere(k) = (a \o OnTheWay(k)) \o accum[k]
  BY <1>6, <1>7, <1>9
<1>11. a \o OnTheWay(k) \in Seq(Nat)
  BY <1>2, <1>10, ConcatProperties
<1>12. Everywhere(k) \in Seq(Nat)
  BY <1>5, <1>10, <1>11, ConcatProperties
<1> QED
  BY <1>1, <1>2, <1>5, <1>10, <1>12 DEF a

LEMMA PartsNext ==
    Types' => \A k \in Keys : /\ OnTheWay(k)' \in Seq(Nat)
                              /\ Everywhere(k)' = (Listed(k)' \o OnTheWay(k)') \o accum'[k]
<1> DEFINE Sum == \A k \in Keys : /\ OnTheWay(k) \in Seq(Nat)
                                  /\ Everywhere(k) = (Listed(k) \o OnTheWay(k)) \o accum[k]
<1>1. Types => Sum
  BY Parts, ZenonT(60)
<1>2. Types' => Sum'
  BY <1>1, PTL
<1> QED
  BY <1>2, ZenonT(60)

\* LinkedLog.Put puts the batch at the end of what the index lists for its key.
LEMMA PutLists ==
    ASSUME Types, NEW b \in [key : Keys, values : Seq(Nat)], Put(b)
    PROVE  /\ log' \in Logs /\ offsets' \in [Keys -> 0..Len(log')]
           /\ \A k \in Keys : Listed(k)' = Listed(k) \o ValuesFor(k, b)
<1> DEFINE r == [values |-> Reversed(b.values), prev |-> offsets[b.key]]
<1>1. b.key \in Keys /\ b.values \in Seq(Nat) /\ log \in Logs /\ offsets \in [Keys -> 0..Len(log)]
  BY DEF Types
<1>2. Len(log) \in Nat /\ log \in Seq(Records)
  BY <1>1, LenProperties DEF Logs
<1>3. Reversed(b.values) \in Seq(Nat)
  BY <1>1, ReversedType
<1>4. offsets[b.key] \in Nat /\ offsets[b.key] <= Len(log)
  BY <1>1, <1>2
<1>5. r \in Records /\ r.prev <= Len(log) /\ r.values = Reversed(b.values) /\ r.prev = offsets[b.key]
  BY <1>3, <1>4 DEF Records
<1>6. log' = Append(log, r) /\ offsets' = [offsets EXCEPT ![b.key] = Len(log) + 1]
  BY DEF Put
<1> HIDE DEF r
<1>7. /\ log' \in Logs
      /\ \A i \in 0..Len(log) : Walk(log')[i] = Walk(log)[i]
      /\ Walk(log')[Len(log) + 1] = r.values \o Walk(log)[r.prev]
  BY <1>1, <1>5, <1>6, WalkAppend, ZenonT(60)
<1>8. Len(log') = Len(log) + 1
  BY <1>2, <1>5, <1>6, AppendProperties
<1>9. offsets' \in [Keys -> 0..Len(log')]
  BY <1>1, <1>2, <1>6, <1>8
<1>10. ASSUME NEW k \in Keys PROVE Listed(k)' = Listed(k) \o ValuesFor(k, b)
  <2>0. Get(k) \in Seq(Nat) /\ Listed(k) \in Seq(Nat)
    BY Parts, ZenonT(60)
  <2>1. CASE k = b.key
    <3>1. Get(k)' = Reversed(b.values) \o Get(k)
      BY <1>1, <1>5, <1>6, <1>7, <2>1, ZenonT(60) DEF Get
    <3>2. Reversed(Get(k)') = Reversed(Get(k)) \o Reversed(Reversed(b.values))
      BY <1>3, <2>0, <3>1, ReversedConcat, ZenonT(60)
    <3>3. Listed(k)' = Reversed(Get(k)')
      BY DEF Listed, Reversed
    <3> QED
      BY <1>1, <2>1, <3>2, <3>3, ReversedTwice, ZenonT(60) DEF Listed, ValuesFor
  <2>2. CASE k # b.key
    <3>1. Get(k)' = Get(k)
      BY <1>1, <1>6, <1>7, <2>2 DEF Get
    <3>2. Listed(k)' = Listed(k) /\ ValuesFor(k, b) = <<>>
      BY <2>2, <3>1 DEF Listed, ValuesFor, Reversed
    <3> QED
      BY <2>0, <3>2, ConcatEmptySeq
  <2> QED
    BY <2>1, <2>2
<1> QED
  BY <1>7, <1>9, <1>10

-----------------------------------------------------------------------------
(* Preservation, a conjunct at a time.                                      *)

LEMMA BatchSizeNat == BatchSize \in Nat /\ BatchSize > 1 /\ Len(<<>>) = 0 /\ <<>> \in Seq(Nat)
  BY SizesAssumption

LEMMA ForgetTypes ==
    ASSUME Types, NEW k \in Keys, Forget(k)
    PROVE  accum' \in [Keys -> Seq(Nat)] /\ \A x \in Keys : Len(accum'[x]) < BatchSize
<1>1. accum' \in [Keys -> Seq(Nat)]
  BY BatchSizeNat DEF Forget, Types
<1>2. ASSUME NEW x \in Keys PROVE Len(accum'[x]) < BatchSize
  BY BatchSizeNat DEF Forget, Types
<1> QED
  BY <1>1, <1>2

LEMMA PutFailsTypes ==
    ASSUME Types, PutFails
    PROVE  /\ log' \in Logs /\ offsets' \in [Keys -> 0..Len(log')]
           /\ faults' \in Nat /\ faults' # 0 /\ log' = log /\ offsets' = offsets
  BY DEF PutFails, logVars, Types

LEMMA AccumBatch ==
    ASSUME Types, NEW k \in Keys
    PROVE  [key |-> k, values |-> accum[k]] \in [key : Keys, values : Seq(Nat)]
  BY DEF Types

LEMMA PurgedType ==
    ASSUME Types
    PROVE  Purged \in [Keys -> Nat]
<1> DEFINE counts == {rank[k] : k \in Keys} \ {0}
           kept == {n \in counts : Cardinality({m \in counts : m > n}) < RankListSize}
<1>1. Purged = [k \in Keys |-> IF rank[k] \in kept THEN rank[k] ELSE 0]
  BY DEF Purged
<1> HIDE DEF kept
<1> QED
  BY <1>1 DEF Types

LEMMA TypesStep ==
    ASSUME Types, Next
    PROVE  Types'
<1> USE DEF States
<1>1. ASSUME NEW S \in SUBSET Keys, NEW periodic \in BOOLEAN, Push(S, periodic) PROVE Types'
  <2>1. todo' \in Seq(Keys) /\ count' \in Nat
    BY <1>1, SortedKeys DEF Push, Types
  <2>2. CASE periodic
    <3>1. sweep' \in Seq(Keys)
      <4>1. Collected \in SUBSET Keys
        BY DEF Collected
      <4> QED
        BY <1>1, <2>2, <4>1, SortedKeys DEF Push
    <3>2. rank' \in [Keys -> Nat]
      BY <1>1, <2>2, PurgedType DEF Push
    <3>3. purged' \in BOOLEAN /\ pc' \in States
      BY <1>1, <2>2 DEF Push, Types
    <3> QED
      BY <1>1, <2>1, <3>1, <3>2, <3>3, ZenonT(60) DEF Push, Types, writerVars, logVars
  <2>3. CASE ~periodic
    BY <1>1, <2>1, <2>3, ZenonT(60) DEF Push, Types, writerVars, logVars
  <2> QED
    BY <2>2, <2>3
<1>2. CASE FlushRare
  <2>1. Head(sweep) \in Keys /\ sweep' \in Seq(Keys)
    BY <1>2, HeadTailProperties DEF FlushRare, Types
  <2> DEFINE k == Head(sweep)
  <2>2. CASE UNCHANGED <<pc, accum, logVars, faults>>
    BY <1>2, <2>1, <2>2, ZenonT(60) DEF FlushRare, Types, writerVars, logVars
  <2>3. CASE Put([key |-> k, values |-> accum[k]]) /\ Forget(k) /\ UNCHANGED pc
    <3>1. log' \in Logs /\ offsets' \in [Keys -> 0..Len(log')] /\ faults' = faults
      BY <2>1, <2>3, AccumBatch, PutLists, ZenonT(60) DEF Put
    <3> QED
      BY <1>2, <2>1, <2>3, <3>1, ForgetTypes, ZenonT(60) DEF FlushRare, Types, writerVars
  <2>4. CASE PutFails /\ pc' = "exit" /\ UNCHANGED accum
    BY <1>2, <2>1, <2>4, PutFailsTypes, ZenonT(60) DEF FlushRare, Types, writerVars
  <2> QED
    BY <1>2, <2>2, <2>3, <2>4 DEF FlushRare
<1>3. CASE FlushedRare
  BY <1>3 DEF FlushedRare, Types, writerVars, logVars
<1>4. CASE PushKey
  <2>1. Head(todo) \in Keys /\ todo' \in Seq(Keys)
    BY <1>4, HeadTailProperties DEF PushKey, Types
  <2> DEFINE k == Head(todo)
             values == Append(accum[k], count)
  <2>2. values \in Seq(Nat) /\ Len(values) = Len(accum[k]) + 1 /\ Len(accum[k]) \in Nat
    <3>1. accum[k] \in Seq(Nat) /\ count \in Nat
      BY <2>1 DEF Types
    <3> QED
      BY <3>1, AppendProperties, LenProperties
  <2>3. pushed' \in [Keys -> Seq(Nat)]
    <3>1. pushed' = [pushed EXCEPT ![k] = Append(pushed[k], count)]
      BY <1>4 DEF PushKey
    <3>2. Append(pushed[k], count) \in Seq(Nat)
      BY <2>1, AppendProperties DEF Types
    <3> QED
      BY <3>1, <3>2, ZenonT(60) DEF Types
  <2>4. CASE Len(values) >= BatchSize
    <3>0. /\ chan' = Append(chan, [key |-> k, values |-> values])
          /\ rank' = [rank EXCEPT ![k] = @ + 1] /\ Forget(k)
      BY <1>4, <2>4 DEF PushKey
    <3> HIDE DEF values
    <3>1. [key |-> k, values |-> values] \in FullBatches
      <4>1. Len(accum[k]) < BatchSize
        BY <2>1 DEF Types
      <4>2. Len(values) = BatchSize
        BY <2>2, <2>4, <4>1, BatchSizeNat
      <4> QED
        BY <2>1, <2>2, <4>2 DEF FullBatches
    <3>2. chan' \in Seq(FullBatches)
      <4>1. chan \in Seq(FullBatches)
        BY ZenonT(60) DEF Types
      <4> QED
        BY <3>0, <3>1, <4>1, AppendProperties, ZenonT(60)
    <3>3. rank' \in [Keys -> Nat]
      <4>1. rank \in [Keys -> Nat]
        BY ZenonT(60) DEF Types
      <4>2. rank[k] + 1 \in Nat
        BY <2>1, <4>1
      <4> QED
        BY <3>0, <4>1, <4>2, ZenonT(60)
    <3> QED
      BY <1>4, <2>1, <2>3, <3>0, <3>2, <3>3, ForgetTypes, ZenonT(60) DEF PushKey, Types, writerVars, logVars
  <2>5. CASE ~(Len(values) >= BatchSize)
    <3>1. accum' = [accum EXCEPT ![k] = values] /\ UNCHANGED <<rank, chan>>
      BY <1>4, <2>5 DEF PushKey
    <3>2. Len(values) < BatchSize
      BY <2>2, <2>5, BatchSizeNat
    <3> HIDE DEF values
    <3>3. accum' \in [Keys -> Seq(Nat)] /\ \A x \in Keys : Len(accum'[x]) < BatchSize
      BY <2>1, <2>2, <3>1, <3>2, ZenonT(60) DEF Types
    <3> QED
      BY <1>4, <2>1, <2>3, <3>1, <3>3, ZenonT(60) DEF PushKey, Types, writerVars, logVars
  <2> QED
    BY <2>4, <2>5, ZenonT(60)
<1>5. CASE Pushed
  BY <1>5 DEF Pushed, Types, writerVars, logVars
<1>6. CASE Close
  <2>1. Collected \in SUBSET Keys
    BY DEF Collected
  <2>2. sweep' \in Seq(Keys)
    BY <1>6, <2>1, SortedKeys, ZenonT(60) DEF Close
  <2> QED
    BY <1>6, <2>2 DEF Close, Types, writerVars, logVars
<1>7. CASE FlushAccum
  <2>1. Head(sweep) \in Keys /\ sweep' \in Seq(Keys)
    BY <1>7, HeadTailProperties DEF FlushAccum, Types
  <2> DEFINE k == Head(sweep)
  <2>3. CASE Put([key |-> k, values |-> accum[k]]) /\ Forget(k) /\ UNCHANGED pc
    <3>1. log' \in Logs /\ offsets' \in [Keys -> 0..Len(log')] /\ faults' = faults
      BY <2>1, <2>3, AccumBatch, PutLists, ZenonT(60) DEF Put
    <3> QED
      BY <1>7, <2>1, <2>3, <3>1, ForgetTypes, ZenonT(60) DEF FlushAccum, Types, writerVars
  <2>4. CASE PutFails /\ pc' = "failed" /\ UNCHANGED accum
    BY <1>7, <2>1, <2>4, PutFailsTypes, ZenonT(60) DEF FlushAccum, Types, writerVars
  <2> QED
    BY <1>7, <2>3, <2>4, ZenonT(60) DEF FlushAccum
<1>8. CASE SetExiting
  BY <1>8 DEF SetExiting, Types, writerVars, logVars
<1>9. CASE Seal
  <2>1. CASE pc' = "sealed" /\ UNCHANGED <<logVars, faults>>
    BY <1>9, <2>1, ZenonT(60) DEF Seal, Types, writerVars, logVars
  <2>2. CASE pc' = "failed" /\ PutFails
    BY <1>9, <2>2, PutFailsTypes DEF Seal, Types, writerVars
  <2> QED
    BY <1>9, <2>1, <2>2 DEF Seal
<1>10. CASE Receive
  <2>1. Head(chan) \in FullBatches /\ chan' \in Seq(FullBatches)
    BY <1>10, HeadTailProperties DEF Receive, Types
  <2>2. CASE wpc' = "flush" /\ held' = Head(chan) /\ UNCHANGED tmpBuf
    BY <1>10, <2>1, <2>2, ZenonT(60) DEF Receive, Types, pushVars, logVars
  <2>3. CASE tmpBuf' = Append(tmpBuf, Head(chan)) /\ UNCHANGED <<wpc, held>>
    <3>1. tmpBuf' \in Seq(FullBatches)
      BY <2>1, <2>3, AppendProperties DEF Types
    <3> QED
      BY <1>10, <2>1, <2>3, <3>1, ZenonT(60) DEF Receive, Types, pushVars, logVars
  <2> QED
    BY <1>10, <2>2, <2>3 DEF Receive
<1>11. CASE FlushBuffer
  <2>1. Head(tmpBuf) \in FullBatches /\ tmpBuf' \in Seq(FullBatches)
    BY <1>11, HeadTailProperties, ZenonT(60) DEF FlushBuffer, Types
  <2>2. CASE Put(Head(tmpBuf))
    <3>1. log' \in Logs /\ offsets' \in [Keys -> 0..Len(log')] /\ faults' = faults
      BY <2>1, <2>2, BatchTypes, PutLists, ZenonT(60) DEF Put
    <3> QED
      BY <1>11, <2>1, <3>1 DEF FlushBuffer, Types, pushVars
  <2>3. CASE PutFails
    BY <1>11, <2>1, <2>3, PutFailsTypes, ZenonT(60) DEF FlushBuffer, Types, pushVars
  <2> QED
    BY <1>11, <2>2, <2>3 DEF FlushBuffer
<1>12. CASE FlushedBuffers
  <2>1. held \in FullBatches
    BY <1>12 DEF FlushedBuffers, Types
  <2>2. tmpBuf' \in Seq(FullBatches)
    BY <1>12, <2>1 DEF FlushedBuffers
  <2> QED
    BY <1>12, <2>2, ZenonT(60) DEF FlushedBuffers, Types, pushVars, logVars
<1>13. CASE Exit
  BY <1>13 DEF Exit, Types, pushVars, logVars
<1> QED
  BY ZenonT(60), <1>1, <1>2, <1>3, <1>4, <1>5, <1>6, <1>7, <1>8, <1>9, <1>10, <1>11, <1>12, <1>13
  DEF Next, Indexer, Writer

LEMMA TailValues ==
    ASSUME NEW S, NEW s \in Seq(S), s # <<>>
    PROVE  Values(s) = {Head(s)} \cup Values(Tail(s))
<1>1. Len(s) \in Nat /\ Len(s) # 0 /\ DOMAIN s = 1..Len(s) /\ Head(s) = s[1]
  BY LenProperties, EmptySeq
<1> DEFINE t == Tail(s)
<1>2. t \in Seq(S) /\ Len(t) = Len(s) - 1 /\ \A i \in 1..Len(t) : t[i] = s[i + 1]
  BY HeadTailProperties
<1>3. DOMAIN t = 1..Len(t)
  BY <1>2, LenProperties
<1> HIDE DEF t
<1>4. ASSUME NEW v \in Values(s) PROVE v = Head(s) \/ v \in Values(t)
  <2>1. PICK i \in 1..Len(s) : v = s[i]
    BY <1>1 DEF Values
  <2>2. CASE i = 1
    BY <1>1, <2>1, <2>2
  <2>3. CASE i # 1
    <3>1. i - 1 \in 1..Len(t) /\ (i - 1) + 1 = i
      BY <1>1, <1>2, <2>3
    <3>2. t[i - 1] = v
      BY <1>2, <2>1, <3>1
    <3> QED
      BY <1>3, <3>1, <3>2 DEF Values
  <2> QED
    BY <2>2, <2>3
<1>5. ASSUME NEW v \in Values(t) PROVE v \in Values(s)
  <2>1. PICK i \in 1..Len(t) : v = t[i]
    BY <1>3 DEF Values
  <2>2. i + 1 \in 1..Len(s) /\ v = s[i + 1]
    BY <1>1, <1>2, <2>1
  <2> QED
    BY <1>1, <2>2 DEF Values
<1>6. Head(s) \in Values(s)
  <2>1. 1 \in 1..Len(s)
    BY <1>1
  <2> QED
    BY <1>1, <2>1 DEF Values
<1>7. Values(s) = {Head(s)} \cup Values(t)
  BY <1>4, <1>5, <1>6
<1> QED
  BY <1>7 DEF t

LEMMA TailDistinct ==
    ASSUME NEW S, NEW s \in Seq(S), s # <<>>, Distinct(s)
    PROVE  Distinct(Tail(s)) /\ Head(s) \notin Values(Tail(s))
<1>1. Len(s) \in Nat /\ Len(s) # 0 /\ DOMAIN s = 1..Len(s) /\ Head(s) = s[1]
  BY LenProperties, EmptySeq
<1> DEFINE t == Tail(s)
<1>2. t \in Seq(S) /\ Len(t) = Len(s) - 1 /\ \A i \in 1..Len(t) : t[i] = s[i + 1]
  BY HeadTailProperties
<1>3. DOMAIN t = 1..Len(t)
  BY <1>2, LenProperties
<1> HIDE DEF t
<1>4. \A i \in 1..Len(t) : i + 1 \in 1..Len(s) /\ i + 1 # 1
  BY <1>1, <1>2
<1>5. 1 \in 1..Len(s)
  BY <1>1
<1>6. ASSUME NEW i \in 1..Len(t), NEW j \in 1..Len(t), t[i] = t[j] PROVE i = j
  <2>1. i + 1 = j + 1
    BY <1>1, <1>2, <1>4, <1>6, ZenonT(60) DEF Distinct
  <2> QED
    BY <1>2, <2>1
<1>7. ASSUME NEW i \in 1..Len(t), t[i] = Head(s) PROVE FALSE
  BY <1>1, <1>2, <1>4, <1>5, <1>7, ZenonT(60) DEF Distinct
<1>8. Distinct(t) /\ Head(s) \notin Values(t)
  BY <1>3, <1>6, <1>7 DEF Distinct, Values
<1> QED
  BY <1>8 DEF t

LEMMA NoValues == Values(<<>>) = {}
  BY DEF Values

LEMMA ControlStep ==
    ASSUME Types, Control, Next
    PROVE  Control'
<1> USE DEF Control
<1>0. /\ UNCHANGED accum => Collected' = Collected
      /\ UNCHANGED sweep => Values(sweep)' = Values(sweep)
      /\ Collected \in SUBSET Keys
  BY DEF Collected, Values
<1>1. ASSUME NEW S \in SUBSET Keys, NEW periodic \in BOOLEAN, Push(S, periodic) PROVE Control'
  BY <1>0, <1>1 DEF Push, writerVars
<1>2. CASE FlushRare
  <2>1. pc = "rare" /\ pc' \in {"rare", "exit"} /\ UNCHANGED <<exiting, wpc, chan>>
    BY <1>2 DEF FlushRare, writerVars
  <2> QED
    BY <2>1
<1>3. CASE FlushedRare
  BY <1>0, <1>3 DEF FlushedRare, writerVars
<1>4. CASE PushKey
  <2>1. pc = "keys" /\ pc' = "keys" /\ UNCHANGED <<exiting, wpc>>
    BY <1>4 DEF PushKey, writerVars
  <2> QED
    BY <2>1
<1>5. CASE Pushed
  BY <1>0, <1>5 DEF Pushed, writerVars
<1>6. CASE Close
  <2>1. /\ pc = "idle" /\ pc' = "close" /\ UNCHANGED <<exiting, wpc, chan, accum>>
        /\ sweep' = Sorted(Collected)
    BY <1>6 DEF Close, writerVars
  <2>2. Values(sweep)' = Collected
    BY <1>0, <2>1, SortedKeys DEF Values
  <2> QED
    BY <1>0, <2>1, <2>2, ZenonT(60)
<1>7. CASE FlushAccum
  <2>1. pc = "close" /\ sweep # <<>> /\ sweep' = Tail(sweep) /\ UNCHANGED <<exiting, wpc, chan>>
    BY <1>7 DEF FlushAccum, writerVars
  <2>2. Head(sweep) \in Keys /\ Values(sweep) = {Head(sweep)} \cup Values(Tail(sweep))
    BY <2>1, TailValues, HeadTailProperties DEF Types
  <2>3. Values(sweep)' = Values(Tail(sweep))
    BY <2>1 DEF Values
  <2>4. CASE Forget(Head(sweep)) /\ UNCHANGED pc
    <3>1. Collected' = Collected \ {Head(sweep)}
      BY <2>2, <2>4, ZenonT(60) DEF Collected, Forget, Types
    <3> QED
      BY <2>1, <2>2, <2>3, <2>4, <3>1, ZenonT(60)
  <2>5. CASE pc' = "failed"
    BY <2>1, <2>5
  <2> QED
    BY <1>7, <2>4, <2>5, ZenonT(60) DEF FlushAccum
<1>8. CASE SetExiting
  <2>1. /\ pc = "close" /\ sweep = <<>> /\ exiting' = TRUE /\ pc' = "wait"
        /\ UNCHANGED <<wpc, chan, accum>>
    BY <1>8 DEF SetExiting, writerVars
  <2>2. Collected = {}
    BY <2>1, NoValues
  <2> QED
    BY <1>0, <2>1, <2>2
<1>9. CASE Seal
  <2>1. /\ pc = "wait" /\ wpc = "done" /\ pc' \in {"sealed", "failed"}
        /\ UNCHANGED <<exiting, wpc, chan, accum>>
    BY <1>9 DEF Seal, writerVars
  <2> QED
    BY <1>0, <2>1
<1>10. CASE Receive
  BY <1>0, <1>10 DEF Receive, pushVars
<1>11. CASE FlushBuffer
  BY <1>0, <1>11 DEF FlushBuffer, pushVars
<1>12. CASE FlushedBuffers
  BY <1>0, <1>12 DEF FlushedBuffers, pushVars
<1>13. CASE Exit
  BY <1>0, <1>13, ZenonT(60) DEF Exit, pushVars
<1> QED
  BY ZenonT(60), <1>1, <1>2, <1>3, <1>4, <1>5, <1>6, <1>7, <1>8, <1>9, <1>10, <1>11, <1>12, <1>13
  DEF Next, Indexer, Writer

\* Only the goroutine touches its buffer, and only Push the transactions.
LEMMA IndexerKeeps == Indexer => UNCHANGED writerVars
  BY DEF Indexer, Push, FlushRare, FlushedRare, PushKey, Pushed, Close, FlushAccum, SetExiting, Seal

LEMMA WriterKeeps == Writer => UNCHANGED <<pushVars, exiting>>
  BY DEF Writer, Receive, FlushBuffer, FlushedBuffers, Exit

LEMMA OneWaitsStep ==
    ASSUME Types, OneWaits, Next
    PROVE  OneWaits'
<1>0. tmpBuf \in Seq(FullBatches) /\ Len(tmpBuf) \in Nat /\ DOMAIN tmpBuf = 1..Len(tmpBuf)
  BY LenProperties DEF Types
<1>1. CASE UNCHANGED tmpBuf
  BY <1>1 DEF OneWaits
<1>2. CASE tmpBuf # <<>> /\ tmpBuf' = Tail(tmpBuf)
  <2> DEFINE t == Tail(tmpBuf)
  <2>1. Len(t) = Len(tmpBuf) - 1 /\ \A i \in 1..Len(t) : t[i] = tmpBuf[i + 1]
    BY <1>0, <1>2, HeadTailProperties
  <2>2. tmpBuf' = t
    BY <1>2
  <2> HIDE DEF t
  <2>3. ASSUME NEW i \in 1..Len(t), NEW j \in 1..Len(t), t[i].key = t[j].key PROVE i = j
    <3>1. i + 1 \in 1..Len(tmpBuf) /\ j + 1 \in 1..Len(tmpBuf)
      BY <1>0, <2>1
    <3>2. i + 1 = j + 1
      BY <2>1, <2>3, <3>1, ZenonT(60) DEF OneWaits
    <3> QED
      BY <1>0, <2>1, <3>2
  <2> QED
    BY <2>2, <2>3 DEF OneWaits
<1>3. ASSUME NEW b \in FullBatches, ~Waits(b.key), tmpBuf' = Append(tmpBuf, b) PROVE OneWaits'
  <2> DEFINE t == Append(tmpBuf, b)
             n == Len(tmpBuf)
  <2>1. Len(t) = n + 1 /\ (\A i \in 1..n : t[i] = tmpBuf[i]) /\ t[n + 1] = b
    BY <1>0, AppendProperties
  <2>2. tmpBuf' = t /\ n \in Nat
    BY <1>0, <1>3, ZenonT(60)
  <2>3. \A i \in 1..n : tmpBuf[i].key # b.key
    BY <1>0, <1>3 DEF Waits
  <2>4. \A i \in 1..n + 1 : i \in 1..n \/ i = n + 1
    BY <2>2
  <2> HIDE DEF t
  <2>5. \A i, j \in 1..n : tmpBuf[i].key = tmpBuf[j].key => i = j
    BY DEF OneWaits
  <2> HIDE DEF n
  <2>6. ASSUME NEW i \in 1..n + 1, NEW j \in 1..n + 1, t[i].key = t[j].key PROVE i = j
    BY <2>1, <2>3, <2>4, <2>5, <2>6
  <2> QED
    BY <2>1, <2>2, <2>6, ZenonT(60) DEF OneWaits
<1>4. CASE Indexer
  BY <1>1, <1>4, IndexerKeeps DEF writerVars
<1>5. CASE Receive
  <2>1. Head(chan) \in FullBatches
    BY <1>5, HeadTailProperties DEF Receive, Types
  <2> QED
    BY <1>1, <1>3, <1>5, <2>1, ZenonT(60) DEF Receive
<1>6. CASE FlushBuffer
  BY <1>2, <1>6 DEF FlushBuffer
<1>7. CASE FlushedBuffers
  <2>1. tmpBuf' = <<held>> /\ Len(<<held>>) = 1
    BY <1>7 DEF FlushedBuffers
  <2> QED
    BY <2>1 DEF OneWaits
<1>8. CASE Exit
  BY <1>1, <1>8 DEF Exit
<1> QED
  BY <1>4, <1>5, <1>6, <1>7, <1>8, ZenonT(60) DEF Next, Writer

LEMMA AtHandStep ==
    ASSUME Types, AtHand, Next
    PROVE  AtHand'
<1>0. \A k \in Keys : pushed[k] \in Seq(Nat)
  BY DEF Types
<1>1. CASE UNCHANGED <<todo, count, pushed>>
  BY <1>1 DEF AtHand, Distinct, Values
<1>2. ASSUME NEW S \in SUBSET Keys, NEW periodic \in BOOLEAN, Push(S, periodic) PROVE AtHand'
  <2>1. count' = count + 1 /\ todo' = Sorted(S) /\ pushed' = pushed /\ count \in Nat
    BY <1>2 DEF Push, Types
  <2>2. Distinct(Sorted(S)) /\ Values(Sorted(S)) = S
    BY SortedKeys
  <2>3. \A k \in Keys : Values(pushed[k]) \subseteq 1..count + 1 /\ count + 1 \notin Values(pushed[k])
    <3>1. \A k \in Keys : Values(pushed[k]) \subseteq 1..count
      BY DEF AtHand
    <3>2. 1..count \subseteq 1..count + 1 /\ count + 1 \notin 1..count
      BY <2>1
    <3> QED
      BY <3>1, <3>2
  <2>4. Distinct(todo') /\ Values(todo') = S
    BY <2>1, <2>2
  <2>5. /\ Distinct(todo') /\ count' # 0
        /\ \A k \in Keys : Values(pushed'[k]) \subseteq 1..count'
        /\ \A k \in Values(todo') : count' \notin Values(pushed'[k])
    BY <2>1, <2>3, <2>4
  <2> QED
    BY <2>5 DEF AtHand, Distinct, Values
<1>3. CASE PushKey
  <2> DEFINE h == Head(todo)
             t == Tail(todo)
  <2>1. /\ todo # <<>> /\ todo' = t /\ count' = count
        /\ pushed' = [pushed EXCEPT ![h] = Append(pushed[h], count)]
    BY <1>3 DEF PushKey
  <2>2. todo \in Seq(Keys) /\ h \in Keys /\ t \in Seq(Keys) /\ count \in Nat
    BY <2>1, HeadTailProperties DEF Types
  <2>3. Distinct(t) /\ h \notin Values(t) /\ Values(todo) = {h} \cup Values(t)
    BY <2>1, <2>2, TailDistinct, TailValues, ZenonT(60) DEF AtHand
  <2> HIDE DEF h, t
  <2>4. Values(todo) \subseteq Keys
    BY <2>2, LenProperties DEF Values
  <2>5. h \in Values(todo) /\ Values(t) \subseteq Keys
    BY <2>3, <2>4
  <2>6. pushed'[h] = Append(pushed[h], count) /\ \A k \in Keys \ {h} : pushed'[k] = pushed[k]
    BY <2>1, <2>2 DEF Types
  <2>7. Values(pushed'[h]) = Values(pushed[h]) \cup {count}
    BY <1>0, <2>2, <2>6, OneMore, ZenonT(60)
  <2>8. count \in 1..count
    <3>1. count \in Nat /\ count # 0
      BY <2>1, <2>2, ZenonT(60) DEF AtHand, Types
    <3> QED
      BY ONLY <3>1
  <2>9. \A k \in Values(t) : count \notin Values(pushed'[k])
    BY <2>3, <2>5, <2>6 DEF AtHand
  <2>10. \A k \in Keys : Values(pushed'[k]) \subseteq 1..count
    BY <2>6, <2>7, <2>8, ZenonT(60) DEF AtHand
  <2>11. /\ Distinct(todo') /\ (todo' # <<>> => count' # 0)
         /\ \A k \in Keys : Values(pushed'[k]) \subseteq 1..count'
         /\ \A k \in Values(todo') : count' \notin Values(pushed'[k])
    <3>1. count # 0
      BY <2>8
    <3>2. Distinct(todo') /\ Values(todo') = Values(t)
      BY <2>1, <2>3, ZenonT(60) DEF Distinct, Values
    <3> QED
      BY <2>1, <2>9, <2>10, <3>1, <3>2, ZenonT(60)
  <2> QED
    BY <2>11 DEF AtHand, Distinct, Values
<1>4. Indexer => PushKey \/ UNCHANGED <<todo, count, pushed>>
                 \/ \E S \in SUBSET Keys, periodic \in BOOLEAN : Push(S, periodic)
  BY DEF Indexer, FlushRare, FlushedRare, Pushed, Close, FlushAccum, SetExiting, Seal
<1> QED
  BY <1>1, <1>2, <1>3, <1>4, WriterKeeps, ZenonT(60) DEF Next, pushVars

-----------------------------------------------------------------------------
(* What each step does to the parts of Everywhere.                          *)

LEMMA WayReceive ==
    ASSUME Types, Receive, NEW k \in Keys
    PROVE  OnTheWay(k)' = OnTheWay(k)
<1> DEFINE b == Head(chan)
           t == BatchesOf(k, tmpBuf)
           v == ValuesFor(k, b)
           c == BatchesOf(k, Tail(chan))
<1>1. /\ chan \in Seq(FullBatches) /\ chan # <<>> /\ chan' = Tail(chan) /\ wpc = "loop"
      /\ tmpBuf \in Seq(FullBatches) /\ b \in FullBatches /\ Tail(chan) \in Seq(FullBatches)
  BY HeadTailProperties DEF Receive, Types
<1>2. held = NoBatch
  BY <1>1 DEF Types
<1>3. ValuesFor(k, NoBatch) = <<>>
  BY DEF ValuesFor, NoBatch
<1>4. BatchesOf(k, chan) = v \o c
  BY <1>1, BatchesHead
<1>5. t \in Seq(Nat) /\ c \in Seq(Nat)
  BY <1>1, BatchesType, ZenonT(60)
<1>6. v \in Seq(Nat)
  BY <1>1, ValuesForType
<1>7. OnTheWay(k) = (t \o <<>>) \o (v \o c)
  BY <1>2, <1>3, <1>4 DEF OnTheWay
<1>8. t \o <<>> = t
  BY <1>5, ConcatEmptySeq
<1>9. t \o (v \o c) = (t \o v) \o c
  BY <1>5, <1>6, Assoc, ZenonT(60)
<1>10. OnTheWay(k)' = (BatchesOf(k, tmpBuf') \o ValuesFor(k, held')) \o BatchesOf(k, chan')
  BY DEF OnTheWay
<1>11. CASE held' = b /\ UNCHANGED tmpBuf
  BY <1>1, <1>7, <1>8, <1>9, <1>10, <1>11, ZenonT(60)
<1>12. CASE tmpBuf' = Append(tmpBuf, b) /\ UNCHANGED held
  <2>1. BatchesOf(k, tmpBuf') = t \o v
    BY <1>1, <1>12, BatchesAppend, ZenonT(60)
  <2>2. (t \o v) \o <<>> = t \o v
    <3>1. t \o v \in Seq(Nat)
      BY <1>5, <1>6, ConcatProperties
    <3> QED
      BY <3>1, ConcatEmptySeq
  <2>3. OnTheWay(k)' = ((t \o v) \o <<>>) \o c
    BY <1>1, <1>2, <1>3, <1>10, <1>12, <2>1, ZenonT(60)
  <2> QED
    BY <1>7, <1>8, <1>9, <2>2, <2>3, ZenonT(60)
<1> QED
  BY <1>11, <1>12, ZenonT(60) DEF Receive

LEMMA WayFlush ==
    ASSUME Types, FlushBuffer, NEW k \in Keys
    PROVE  /\ Head(tmpBuf) \in FullBatches
           /\ ValuesFor(k, Head(tmpBuf)) \in Seq(Nat)
           /\ OnTheWay(k) = ValuesFor(k, Head(tmpBuf)) \o OnTheWay(k)'
<1> DEFINE v == ValuesFor(k, Head(tmpBuf))
           t == BatchesOf(k, Tail(tmpBuf))
           h == ValuesFor(k, held)
           c == BatchesOf(k, chan)
<1>1. /\ tmpBuf \in Seq(FullBatches) /\ tmpBuf # <<>> /\ tmpBuf' = Tail(tmpBuf)
      /\ Head(tmpBuf) \in FullBatches /\ Tail(tmpBuf) \in Seq(FullBatches)
      /\ chan \in Seq(FullBatches) /\ UNCHANGED <<chan, held>>
  BY HeadTailProperties DEF FlushBuffer, Types
<1>2. BatchesOf(k, tmpBuf) = v \o t
  BY <1>1, BatchesHead
<1>3. t \in Seq(Nat) /\ c \in Seq(Nat)
  BY <1>1, BatchesType, ZenonT(60)
<1>4. v \in Seq(Nat)
  BY <1>1, ValuesForType
<1>5. h \in Seq(Nat)
  BY HeldType
<1>6. OnTheWay(k)' = (t \o h) \o c
  BY <1>1 DEF OnTheWay
<1>7. OnTheWay(k) = ((v \o t) \o h) \o c
  BY <1>2 DEF OnTheWay
<1> HIDE DEF v, t, h, c
<1>8. (v \o t) \o h = v \o (t \o h)
  BY <1>3, <1>4, <1>5, Assoc, ZenonT(60)
<1> DEFINE f == t \o h
<1>9. f \in Seq(Nat)
  BY <1>3, <1>5, ConcatProperties
<1>10. (v \o t) \o h = v \o f /\ OnTheWay(k)' = f \o c
  BY <1>6, <1>8
<1> HIDE DEF f
<1>11. (v \o f) \o c = v \o (f \o c)
  BY <1>3, <1>4, <1>9, Assoc, ZenonT(60)
<1> QED
  BY <1>1, <1>4, <1>7, <1>10, <1>11, ZenonT(60) DEF v

LEMMA WayFlushed ==
    ASSUME Types, FlushedBuffers, NEW k \in Keys
    PROVE  OnTheWay(k)' = OnTheWay(k)
<1> DEFINE h == ValuesFor(k, held)
<1>1. /\ held \in FullBatches /\ tmpBuf = <<>> /\ tmpBuf' = <<held>> /\ held' = NoBatch
      /\ chan' = chan
  BY DEF FlushedBuffers, Types
<1>2. BatchesOf(k, <<>>) = <<>>
  BY BatchesEmpty
<1>3. h \in Seq(Nat)
  BY <1>1, ValuesForType
<1>4. <<>> \o h = h /\ h \o <<>> = h
  BY <1>3, ConcatEmptySeq
<1>5. BatchesOf(k, <<held>>) = h
  <2>1. <<>> \in Seq(FullBatches) /\ Append(<<>>, held) = <<held>>
    OBVIOUS
  <2>2. BatchesOf(k, Append(<<>>, held)) = BatchesOf(k, <<>>) \o h
    BY <1>1, <2>1, BatchesAppend, ZenonT(60)
  <2> QED
    BY <1>2, <1>4, <2>1, <2>2, ZenonT(60)
<1>6. ValuesFor(k, NoBatch) = <<>>
  BY DEF ValuesFor, NoBatch
<1>7. OnTheWay(k) = (<<>> \o h) \o BatchesOf(k, chan)
  BY <1>1, <1>2 DEF OnTheWay
<1>8. OnTheWay(k)' = (h \o <<>>) \o BatchesOf(k, chan)
  BY <1>1, <1>5, <1>6, ZenonT(60) DEF OnTheWay
<1> QED
  BY <1>4, <1>7, <1>8

-----------------------------------------------------------------------------
(* The conjuncts about the transactions themselves.                         *)

Data == NoneOnTheWay /\ Order /\ ListedOnce /\ Complete

LEMMA ListedOnceDef ==
    /\ ListedOnce <=> \A k \in Keys : /\ Distinct(Everywhere(k))
                                      /\ Values(Everywhere(k)) \subseteq Values(pushed[k])
    /\ ListedOnce' <=> \A k \in Keys : /\ Distinct(Everywhere(k)')
                                       /\ Values(Everywhere(k)') \subseteq Values(pushed'[k])
<1>1. ListedOnce <=> \A k \in Keys : /\ Distinct(Everywhere(k))
                                     /\ Values(Everywhere(k)) \subseteq Values(pushed[k])
  BY DEF ListedOnce, Distinct
<1>2. (\A k \in Keys : /\ Distinct(Everywhere(k))
                       /\ Values(Everywhere(k)) \subseteq Values(pushed[k]))'
      <=> \A k \in Keys : /\ Distinct(Everywhere(k)')
                          /\ Values(Everywhere(k)') \subseteq Values(pushed'[k])
  OBVIOUS
<1>3. ListedOnce' <=> (\A k \in Keys : /\ Distinct(Everywhere(k))
                                       /\ Values(Everywhere(k)) \subseteq Values(pushed[k]))'
  BY DEF ListedOnce, Distinct
<1> QED
  BY <1>1, <1>2, <1>3

\* A step that moves no transaction past another.
LEMMA DataKept ==
    ASSUME Data, pushed' = pushed, faults' = 0 => faults = 0,
           ~purged' => ~purged /\ rank' = rank, Closing => Closing',
           \A k \in Keys : Everywhere(k)' = Everywhere(k),
           \A k \in Keys : OnTheWay(k) = <<>> => OnTheWay(k)' = <<>>
    PROVE  Data'
<1>1. NoneOnTheWay'
  BY DEF Data, NoneOnTheWay
<1>2. ASSUME faults' = 0, ~purged', NEW k \in Keys, ~Closing' \/ rank'[k] = 0
      PROVE  Everywhere(k)' = pushed'[k]
  <2>1. ~Closing \/ rank[k] = 0
    BY <1>2
  <2>2. faults = 0 /\ ~purged
    BY <1>2
  <2> QED
    BY <2>1, <2>2 DEF Data, Order
<1>3. Order'
  BY <1>2 DEF Order
<1>4. ListedOnce'
  BY ListedOnceDef DEF Data
<1>5. Complete'
  BY ZenonT(60) DEF Data, Complete
<1> QED
  BY <1>1, <1>3, <1>4, <1>5, ZenonT(60) DEF Data

\* Push or Close writes what it has collected for a key.
LEMMA DataMoved ==
    ASSUME Types, Types', Data, NEW h \in Keys,
           Put([key |-> h, values |-> accum[h]]), Forget(h), rank[h] = 0 \/ Closing,
           Closing => Closing', UNCHANGED <<rank, purged, pushed, chan, writerVars>>
    PROVE  Data'
<1> DEFINE b == [key |-> h, values |-> accum[h]]
<1>1. b \in [key : Keys, values : Seq(Nat)] /\ b.key = h /\ b.values = accum[h]
  BY AccumBatch, ZenonT(60)
<1>2. \A k \in Keys : Listed(k)' = Listed(k) \o ValuesFor(k, b)
  BY <1>1, PutLists, ZenonT(60)
<1>3. \A k \in Keys : OnTheWay(k)' = OnTheWay(k)
  BY ZenonT(60) DEF OnTheWay, writerVars
<1>4. faults' = faults
  BY ZenonT(60) DEF Put
<1>5. accum'[h] = <<>> /\ \A k \in Keys \ {h} : accum'[k] = accum[k]
  BY DEF Forget, Types
<1> HIDE DEF b
<1>6. ASSUME NEW k \in Keys, k # h PROVE Everywhere(k)' = Everywhere(k)
  <2>1. ValuesFor(k, b) = <<>>
    BY <1>1, <1>6 DEF ValuesFor
  <2>2. Listed(k)' = Listed(k)
    BY <1>2, <2>1, Parts, ConcatEmptySeq, ZenonT(60)
  <2>3. accum'[k] = accum[k]
    BY <1>5, <1>6
  <2> QED
    BY <1>3, <2>2, <2>3, Parts, PartsNext, ZenonT(60)
<1> DEFINE l == Listed(h)
           w == OnTheWay(h)
           e == accum[h]
<1>7. /\ l \in Seq(Nat) /\ w \in Seq(Nat) /\ e \in Seq(Nat)
      /\ Everywhere(h) = (l \o w) \o e
  BY Parts, ZenonT(60)
<1>8. Everywhere(h)' = (l \o e) \o w
  <2>1. Everywhere(h)' = (Listed(h)' \o OnTheWay(h)') \o accum'[h]
    BY PartsNext, ZenonT(60)
  <2>2. ValuesFor(h, b) = e
    BY <1>1 DEF ValuesFor
  <2>3. Everywhere(h)' = ((l \o e) \o w) \o <<>>
    BY <1>2, <1>3, <1>5, <2>1, <2>2, ZenonT(60)
  <2>4. l \o e \in Seq(Nat)
    BY <1>7, ConcatProperties, ZenonT(60)
  <2>5. (l \o e) \o w \in Seq(Nat)
    BY <1>7, <2>4, ConcatProperties, ZenonT(60)
  <2> QED
    BY <2>3, <2>5, ConcatEmptySeq
<1>9. /\ Distinct(Everywhere(h)') /\ Values(Everywhere(h)') = Values(Everywhere(h))
      /\ Len(Everywhere(h)') = Len(Everywhere(h))
  <2>1. Distinct((l \o w) \o e)
    BY <1>7, ListedOnceDef, ZenonT(60) DEF Data
  <2> HIDE DEF l, w, e
  <2> QED
    <3>1. /\ Distinct((l \o e) \o w)
          /\ Values((l \o e) \o w) = Values((l \o w) \o e)
          /\ Len((l \o e) \o w) = Len((l \o w) \o e)
      BY <1>7, <2>1, Moved
    <3> QED
      BY <1>7, <1>8, <3>1, ZenonT(60)
<1>10. ASSUME ~purged, rank[h] = 0 PROVE Everywhere(h)' = Everywhere(h)
  <2>1. w = <<>>
    BY <1>10, ZenonT(60) DEF Data, NoneOnTheWay
  <2>2. l \o e \in Seq(Nat) /\ l \o <<>> = l
    BY <1>7, ConcatProperties, ConcatEmptySeq, ZenonT(60)
  <2>3. (l \o e) \o <<>> = l \o e
    BY <2>2, ConcatEmptySeq, ZenonT(60)
  <2> HIDE DEF l, w, e
  <2> QED
    BY <1>7, <1>8, <2>1, <2>2, <2>3
<1> HIDE DEF l, w, e
<1>11. NoneOnTheWay'
  BY <1>3, ZenonT(60) DEF Data, NoneOnTheWay
<1>12. ListedOnce'
  BY <1>6, <1>9, ListedOnceDef, ZenonT(60) DEF Data
<1>13. Complete'
  BY <1>4, <1>6, <1>9, ZenonT(60) DEF Data, Complete
<1>14. ASSUME faults' = 0, ~purged', NEW k \in Keys, ~Closing' \/ rank'[k] = 0
       PROVE  Everywhere(k)' = pushed'[k]
  <2>1. ~Closing \/ rank[k] = 0
    BY <1>14, ZenonT(60)
  <2>2. Everywhere(k) = pushed[k]
    BY <1>4, <1>14, <2>1, ZenonT(60) DEF Data, Order
  <2>3. CASE k = h
    <3>1. rank[h] = 0
      BY <2>1, <2>3, ZenonT(60)
    <3> QED
      BY <1>10, <1>14, <2>2, <2>3, <3>1, ZenonT(60)
  <2>4. CASE k # h
    BY <1>6, <2>2, <2>4, ZenonT(60)
  <2> QED
    BY <2>3, <2>4, ZenonT(60)
<1>15. Order'
  BY <1>14 DEF Order
<1> QED
  BY <1>11, <1>12, <1>13, <1>15, ZenonT(60) DEF Data

\* The goroutine loses a batch that it cannot write.
LEMMA DataDropped ==
    ASSUME Types, Types', Data, FlushBuffer, PutFails
    PROVE  Data'
<1>1. faults' # 0 /\ log' = log /\ offsets' = offsets
  BY PutFailsTypes
<1>2. UNCHANGED <<accum, pushed, rank, purged>>
  BY DEF FlushBuffer, pushVars
<1>3. ASSUME NEW k \in Keys
      PROVE  /\ Distinct(Everywhere(k)') /\ Values(Everywhere(k)') \subseteq Values(pushed'[k])
             /\ OnTheWay(k) = <<>> => OnTheWay(k)' = <<>>
  <2> DEFINE l == Listed(k)
             v == ValuesFor(k, Head(tmpBuf))
             w == OnTheWay(k)'
             e == accum[k]
             f == w \o e
  <2>1. /\ l \in Seq(Nat) /\ e \in Seq(Nat) /\ Everywhere(k) = (l \o OnTheWay(k)) \o e
        /\ v \in Seq(Nat) /\ OnTheWay(k) = v \o w
    BY Parts, WayFlush, ZenonT(60)
  <2>2. w \in Seq(Nat)
    BY PartsNext, ZenonT(60)
  <2>3. Listed(k)' = l
    BY <1>1 DEF Listed, Get, Reversed
  <2>4. Everywhere(k)' = (l \o w) \o e
    BY <1>2, <2>3, PartsNext, ZenonT(60)
  <2>5. Distinct(Everywhere(k)) /\ Values(Everywhere(k)) \subseteq Values(pushed[k])
    BY ListedOnceDef DEF Data
  <2> HIDE DEF l, v, w, e
  <2>6. f \in Seq(Nat) /\ (l \o w) \o e = l \o f
    BY <2>1, <2>2, Assoc, ConcatProperties, ZenonT(60)
  <2>7. (l \o (v \o w)) \o e = (l \o v) \o f
    <3> DEFINE g == l \o v
    <3>1. l \o (v \o w) = g \o w /\ g \in Seq(Nat)
      BY <2>1, <2>2, Assoc, ConcatProperties, ZenonT(60)
    <3> HIDE DEF g
    <3>2. (g \o w) \o e = g \o f
      BY <2>1, <2>2, <3>1, Assoc, ZenonT(60)
    <3> QED
      BY <3>1, <3>2 DEF g
  <2> HIDE DEF f
  <2>8. Distinct((l \o v) \o f)
    BY <2>1, <2>5, <2>7
  <2>9. Distinct(l \o f) /\ Values(l \o f) \subseteq Values((l \o v) \o f)
    BY <2>1, <2>6, <2>8, Dropped, ZenonT(60)
  <2>10. Distinct(Everywhere(k)') /\ Values(Everywhere(k)') \subseteq Values(pushed'[k])
    BY <1>2, <2>1, <2>4, <2>5, <2>6, <2>7, <2>9, ZenonT(60)
  <2>11. OnTheWay(k) = <<>> => w = <<>>
    <3>1. v \in Seq(Nat) /\ w \in Seq(Nat)
      BY <2>1, <2>2
    <3>2. v \o w = <<>> => w = <<>>
      BY <3>1, ConcatEqualIffEmpty
    <3> QED
      BY <2>1, <3>2
  <2> QED
    BY <2>10, <2>11 DEF w
<1>4. NoneOnTheWay'
  BY <1>2, <1>3, ZenonT(60) DEF Data, NoneOnTheWay
<1>5. Order' /\ Complete'
  BY <1>1, ZenonT(60) DEF Order, Complete
<1>6. ListedOnce'
  BY <1>3, ListedOnceDef
<1> QED
  BY <1>4, <1>5, <1>6 DEF Data

\* Push collects the transaction for a key, and sends the batch if it is full.
LEMMA PushedOne ==
    ASSUME Types, Types', PushKey, NEW k \in Keys
    PROVE  /\ k = Head(todo) => /\ Everywhere(k)' = Everywhere(k) \o <<count>>
                                /\ pushed'[k] = pushed[k] \o <<count>>
                                /\ rank'[k] = 0 => rank[k] = 0 /\ OnTheWay(k)' = OnTheWay(k)
           /\ k # Head(todo) => /\ Everywhere(k)' = Everywhere(k)
                                /\ pushed'[k] = pushed[k]
                                /\ rank'[k] = rank[k] /\ OnTheWay(k)' = OnTheWay(k)
<1> DEFINE h == Head(todo)
           l == Listed(k)
           w == OnTheWay(k)
           e == accum[k]
           n == <<count>>
           values == Append(accum[h], count)
           b == [key |-> h, values |-> values]
<1>1. /\ pushed' = [pushed EXCEPT ![h] = Append(pushed[h], count)]
      /\ UNCHANGED <<log, offsets, tmpBuf, held>>
  BY ZenonT(60) DEF PushKey, logVars, writerVars
<1>2. h \in Keys /\ count \in Nat /\ n \in Seq(Nat)
  BY HeadTailProperties DEF PushKey, Types
<1>3. l \in Seq(Nat) /\ w \in Seq(Nat) /\ e \in Seq(Nat) /\ Everywhere(k) = (l \o w) \o e
  BY Parts, ZenonT(60)
<1>4. Everywhere(k)' = (l \o OnTheWay(k)') \o accum'[k]
  <2>1. Listed(k)' = l
    BY <1>1 DEF Listed, Get, Reversed
  <2> QED
    BY <2>1, PartsNext, ZenonT(60)
<1>5. l \o w \in Seq(Nat) /\ e \o n \in Seq(Nat)
  BY <1>2, <1>3, ConcatProperties
<1>6. Everywhere(k) \o n = (l \o w) \o (e \o n)
  <2> DEFINE f == l \o w
  <2>1. f \in Seq(Nat) /\ Everywhere(k) = f \o e
    BY <1>3, <1>5
  <2> HIDE DEF f, e, n
  <2>2. (f \o e) \o n = f \o (e \o n)
    BY <1>2, <1>3, <2>1, Assoc, ZenonT(60)
  <2> QED
    BY <2>1, <2>2 DEF f
<1>7. accum[h] \in Seq(Nat) /\ pushed[h] \in Seq(Nat) /\ pushed \in [Keys -> Seq(Nat)]
  BY <1>2, ZenonT(60) DEF Types
<1>8. values = accum[h] \o n /\ Append(pushed[h], count) = pushed[h] \o n
  BY <1>2, <1>7, AppendIsConcat, ZenonT(60)
<1>9. /\ k = h => pushed'[k] = pushed[k] \o n
      /\ k # h => pushed'[k] = pushed[k]
  BY <1>1, <1>2, <1>7, <1>8, ZenonT(60)
<1>10. CASE Len(values) >= BatchSize
  <2>1. /\ chan' = Append(chan, b) /\ rank' = [rank EXCEPT ![h] = rank[h] + 1]
        /\ accum' = [accum EXCEPT ![h] = <<>>]
    BY <1>10 DEF PushKey, Forget
  <2>2. b \in FullBatches
    <3>1. Len(accum[h]) < BatchSize /\ Len(accum[h]) \in Nat
      BY <1>2, <1>7, LenProperties, ZenonT(60) DEF Types
    <3>2. values \in Seq(Nat) /\ Len(values) = Len(accum[h]) + 1
      BY <1>2, <1>7, AppendProperties
    <3>3. Len(values) = BatchSize
      BY <1>10, <3>1, <3>2, BatchSizeNat
    <3> QED
      BY <1>2, <3>2, <3>3 DEF FullBatches
  <2>3. b.key = h /\ b.values = values
    OBVIOUS
  <2>4. chan \in Seq(FullBatches)
    BY DEF Types
  <2> HIDE DEF b, values
  <2>5. BatchesOf(k, chan') = BatchesOf(k, chan) \o ValuesFor(k, b)
    BY <2>1, <2>2, <2>4, BatchesAppend, ZenonT(60)
  <2>6. OnTheWay(k)' = w \o ValuesFor(k, b)
    <3> DEFINE th == BatchesOf(k, tmpBuf) \o ValuesFor(k, held)
               c == BatchesOf(k, chan)
    <3>1. OnTheWay(k)' = th \o (c \o ValuesFor(k, b)) /\ w = th \o c
      BY <1>1, <2>5 DEF OnTheWay
    <3>2. BatchesOf(k, tmpBuf) \in Seq(Nat) /\ c \in Seq(Nat)
      BY BatchesType, ZenonT(60) DEF Types
    <3>3. ValuesFor(k, held) \in Seq(Nat) /\ ValuesFor(k, b) \in Seq(Nat)
      BY <2>2, HeldType, ValuesForType, ZenonT(60)
    <3>4. th \in Seq(Nat)
      BY <3>2, <3>3, ConcatProperties
    <3> HIDE DEF th, c, w
    <3>5. th \o (c \o ValuesFor(k, b)) = (th \o c) \o ValuesFor(k, b)
      BY <3>2, <3>3, <3>4, Assoc, ZenonT(60)
    <3> QED
      BY <3>1, <3>5
  <2>7. CASE k = h
    <3>1. ValuesFor(k, b) = e \o n
      BY <1>8, <2>3, <2>7 DEF ValuesFor
    <3>2. accum'[k] = <<>> /\ rank'[k] = rank[k] + 1 /\ rank[k] \in Nat
      BY <1>2, <2>1, <2>7, ZenonT(60) DEF Types
    <3>3. Everywhere(k)' = (l \o (w \o (e \o n))) \o <<>>
      BY <1>4, <2>6, <3>1, <3>2
    <3>4. Everywhere(k)' = Everywhere(k) \o n
      <4> DEFINE g == e \o n
      <4>1. g \in Seq(Nat) /\ Everywhere(k) \o n = (l \o w) \o g
        BY <1>5, <1>6, ZenonT(60)
      <4>2. Everywhere(k)' = (l \o (w \o g)) \o <<>>
        BY <3>3
      <4> HIDE DEF g, l, w
      <4>3. l \o (w \o g) = (l \o w) \o g
        BY <1>3, <4>1, Assoc, ZenonT(60)
      <4>4. (l \o w) \o g \in Seq(Nat)
        BY <1>5, <4>1, ConcatProperties, ZenonT(60)
      <4>5. ((l \o w) \o g) \o <<>> = (l \o w) \o g
        BY <4>4, ConcatEmptySeq
      <4> QED
        BY <4>1, <4>2, <4>3, <4>5, ZenonT(60)
    <3>5. rank'[k] # 0
      BY <3>2
    <3> QED
      BY <1>9, <2>7, <3>4, <3>5, ZenonT(60) DEF n
  <2>8. CASE k # h
    <3>1. ValuesFor(k, b) = <<>>
      BY <2>3, <2>8, ZenonT(60) DEF ValuesFor
    <3>2. OnTheWay(k)' = w
      BY <1>3, <2>6, <3>1, ConcatEmptySeq, ZenonT(60)
    <3>3. accum'[k] = e /\ rank'[k] = rank[k]
      BY <2>1, <2>8, ZenonT(60) DEF Types
    <3> QED
      BY <1>3, <1>4, <1>9, <2>8, <3>2, <3>3, ZenonT(60)
  <2> QED
    BY <2>7, <2>8, ZenonT(60)
<1>11. CASE ~(Len(values) >= BatchSize)
  <2>1. accum' = [accum EXCEPT ![h] = values] /\ UNCHANGED <<rank, chan>>
    BY <1>11, ZenonT(60) DEF PushKey
  <2>2. OnTheWay(k)' = w
    BY <1>1, <2>1 DEF OnTheWay
  <2>3. CASE k = h
    <3>1. accum'[k] = e \o n
      BY <1>2, <1>8, <2>1, <2>3, ZenonT(60) DEF Types
    <3> QED
      BY <1>4, <1>6, <1>9, <2>1, <2>2, <2>3, <3>1, ZenonT(60)
  <2>4. CASE k # h
    <3>1. accum'[k] = e
      BY <2>1, <2>4 DEF Types
    <3> QED
      BY <1>3, <1>4, <1>9, <2>1, <2>2, <2>4, <3>1, ZenonT(60)
  <2> QED
    BY <2>3, <2>4, ZenonT(60)
<1> QED
  BY <1>10, <1>11, ZenonT(60)

LEMMA DataPushed ==
    ASSUME Types, Types', AtHand, Data, PushKey
    PROVE  Data'
<1> DEFINE h == Head(todo)
<1>1. /\ UNCHANGED <<purged, faults>> /\ ~Closing /\ count \in Nat
      /\ h \in Keys /\ h \in Values(todo)
  BY HeadTailProperties, TailValues, ZenonT(60) DEF PushKey, Types, Closing
<1>2. ASSUME NEW k \in Keys
      PROVE  /\ Distinct(Everywhere(k)') /\ Values(Everywhere(k)') \subseteq Values(pushed'[k])
             /\ Len(Everywhere(k)) = Len(pushed[k]) => Len(Everywhere(k)') = Len(pushed'[k])
             /\ Everywhere(k) = pushed[k] => Everywhere(k)' = pushed'[k]
             /\ rank'[k] = 0 => rank[k] = 0 /\ OnTheWay(k)' = OnTheWay(k)
  <2>1. Distinct(Everywhere(k)) /\ Values(Everywhere(k)) \subseteq Values(pushed[k])
    BY ListedOnceDef, ZenonT(60) DEF Data
  <2>2. CASE k = h
    <3> DEFINE all == Everywhere(k)
               now == Everywhere(k)'
    <3>1. all \in Seq(Nat) /\ pushed[k] \in Seq(Nat)
      BY Parts, ZenonT(60)
    <3>2. /\ now = all \o <<count>> /\ pushed'[k] = pushed[k] \o <<count>>
          /\ rank'[k] = 0 => rank[k] = 0 /\ OnTheWay(k)' = OnTheWay(k)
      BY <2>2, PushedOne, ZenonT(60)
    <3>3. count \notin Values(pushed[k])
      BY <1>1, <2>2, ZenonT(60) DEF AtHand
    <3>4. count \notin Values(all) /\ Distinct(all) /\ Values(all) \subseteq Values(pushed[k])
      BY <2>1, <3>3, ZenonT(60)
    <3> HIDE DEF all, now
    <3>5. Distinct(now) /\ Values(now) = Values(all) \cup {count} /\ Len(now) = Len(all) + 1
      BY <1>1, <3>1, <3>2, <3>4, OneMore, ZenonT(60)
    <3>6. Values(pushed'[k]) = Values(pushed[k]) \cup {count} /\ Len(pushed'[k]) = Len(pushed[k]) + 1
      BY <1>1, <3>1, <3>2, OneMore, ZenonT(60)
    <3>7. /\ Distinct(now) /\ Values(now) \subseteq Values(pushed'[k])
          /\ Len(all) = Len(pushed[k]) => Len(now) = Len(pushed'[k])
          /\ all = pushed[k] => now = pushed'[k]
      BY <3>2, <3>4, <3>5, <3>6, ZenonT(60)
    <3> QED
      BY <3>2, <3>7, ZenonT(60) DEF all, now
  <2>3. CASE k # h
    BY <2>1, <2>3, PushedOne, ZenonT(60)
  <2> QED
    BY <2>2, <2>3, ZenonT(60)
<1>3. NoneOnTheWay'
  BY <1>1, <1>2, ZenonT(60) DEF Data, NoneOnTheWay
<1>4. ListedOnce'
  BY <1>2, ListedOnceDef, ZenonT(60)
<1>5. Complete'
  BY <1>1, <1>2, ZenonT(60) DEF Data, Complete
<1>6. ASSUME faults' = 0, ~purged', NEW k \in Keys PROVE Everywhere(k)' = pushed'[k]
  <2>1. Everywhere(k) = pushed[k]
    BY <1>1, <1>6 DEF Data, Order
  <2> QED
    BY <1>2, <2>1, ZenonT(60)
<1>7. Order'
  BY <1>6 DEF Order
<1> QED
  BY <1>3, <1>4, <1>5, <1>7 DEF Data

LEMMA DataStep ==
    ASSUME Types, Types', AtHand, Data, Next
    PROVE  Data'
<1>0. ASSUME UNCHANGED <<log, offsets, tmpBuf, held, chan, accum>>, NEW k \in Keys
      PROVE  Everywhere(k)' = Everywhere(k) /\ OnTheWay(k)' = OnTheWay(k)
  BY <1>0, ZenonT(60) DEF Everywhere, OnTheWay, Get, Reversed
<1>1. ASSUME NEW S \in SUBSET Keys, NEW periodic \in BOOLEAN, Push(S, periodic) PROVE Data'
  <2>1. /\ UNCHANGED <<log, offsets, tmpBuf, held, chan, accum, pushed, faults>>
        /\ ~purged' => ~purged /\ rank' = rank
        /\ ~Closing
    BY <1>1, ZenonT(60) DEF Push, writerVars, logVars, Closing, Types
  <2> QED
    BY <1>0, <2>1, DataKept, ZenonT(60)
<1>2. CASE FlushRare
  <2> DEFINE k == Head(sweep)
  <2>1. UNCHANGED <<rank, purged, pushed, chan, writerVars>> /\ ~Closing /\ k \in Keys
    BY <1>2, HeadTailProperties, ZenonT(60) DEF FlushRare, Closing, Types
  <2>2. CASE UNCHANGED <<pc, accum, logVars, faults>>
    BY <1>0, <2>1, <2>2, DataKept DEF logVars, writerVars
  <2>3. CASE Rare(k) /\ Put([key |-> k, values |-> accum[k]]) /\ Forget(k) /\ UNCHANGED pc
    BY <2>1, <2>3, DataMoved, ZenonT(60) DEF Rare
  <2>4. CASE PutFails /\ UNCHANGED accum
    BY <1>0, <2>1, <2>4, PutFailsTypes, DataKept, ZenonT(60) DEF writerVars
  <2> QED
    BY <1>2, <2>2, <2>3, <2>4, ZenonT(60) DEF FlushRare
<1>3. CASE FlushedRare
  <2>1. UNCHANGED <<log, offsets, tmpBuf, held, chan, accum, pushed, faults, purged, rank>> /\ ~Closing
    BY <1>3 DEF FlushedRare, writerVars, logVars, Closing
  <2> QED
    BY <1>0, <2>1, DataKept, ZenonT(60)
<1>4. CASE PushKey
  BY <1>4, DataPushed, ZenonT(60)
<1>5. CASE Pushed
  <2>1. UNCHANGED <<log, offsets, tmpBuf, held, chan, accum, pushed, faults, purged, rank>> /\ ~Closing
    BY <1>5, ZenonT(60) DEF Pushed, writerVars, logVars, Closing
  <2> QED
    BY <1>0, <2>1, DataKept, ZenonT(60)
<1>6. CASE Close
  <2>1. UNCHANGED <<log, offsets, tmpBuf, held, chan, accum, pushed, faults, purged, rank>> /\ ~Closing
    BY <1>6, ZenonT(60) DEF Close, writerVars, logVars, Closing
  <2> QED
    BY <1>0, <2>1, DataKept, ZenonT(60)
<1>7. CASE FlushAccum
  <2> DEFINE k == Head(sweep)
  <2>1. UNCHANGED <<rank, purged, pushed, chan, writerVars>> /\ Closing /\ Closing' /\ k \in Keys
    BY <1>7, HeadTailProperties DEF FlushAccum, Closing, Types
  <2>2. CASE Put([key |-> k, values |-> accum[k]]) /\ Forget(k)
    BY <2>1, <2>2, DataMoved, ZenonT(60)
  <2>3. CASE PutFails /\ UNCHANGED accum
    BY <1>0, <2>1, <2>3, PutFailsTypes, DataKept, ZenonT(60) DEF writerVars
  <2> QED
    BY <1>7, <2>2, <2>3, ZenonT(60) DEF FlushAccum
<1>8. CASE SetExiting
  <2>1. UNCHANGED <<log, offsets, tmpBuf, held, chan, accum, pushed, faults, purged, rank>> /\ Closing'
    BY <1>8 DEF SetExiting, writerVars, logVars, Closing
  <2> QED
    BY <1>0, <2>1, DataKept, ZenonT(60)
<1>9. CASE Seal
  <2>1. UNCHANGED <<log, offsets, tmpBuf, held, chan, accum, pushed, purged, rank>> /\ Closing'
    BY <1>9 DEF Seal, writerVars, logVars, Closing, PutFails
  <2>2. faults' = 0 => faults = 0
    BY <1>9, PutFailsTypes DEF Seal
  <2> QED
    BY <1>0, <2>1, <2>2, DataKept, ZenonT(60)
<1>10. CASE Receive
  <2>1. UNCHANGED <<log, offsets, accum, pushed, purged, rank, faults, pc>>
    BY <1>10 DEF Receive, pushVars, logVars
  <2>2. \A k \in Keys : OnTheWay(k)' = OnTheWay(k)
    BY <1>10, WayReceive
  <2>3. \A k \in Keys : Listed(k)' = Listed(k)
    BY <2>1 DEF Listed, Get, Reversed
  <2>4. \A k \in Keys : Everywhere(k)' = Everywhere(k)
    BY <2>1, <2>2, <2>3, Parts, PartsNext, ZenonT(60)
  <2> QED
    BY <2>1, <2>2, <2>4, DataKept, ZenonT(60) DEF Closing
<1>11. CASE FlushBuffer
  <2>1. CASE Put(Head(tmpBuf))
    <3>1. UNCHANGED <<accum, pushed, purged, rank, pc, faults>>
      BY <1>11, <2>1 DEF FlushBuffer, Put, pushVars
    <3>2. ASSUME NEW k \in Keys
          PROVE  /\ Everywhere(k)' = Everywhere(k)
                 /\ OnTheWay(k) = <<>> => OnTheWay(k)' = <<>>
      <4> DEFINE l == Listed(k)
                 v == ValuesFor(k, Head(tmpBuf))
                 w == OnTheWay(k)'
      <4>1. /\ Head(tmpBuf) \in [key : Keys, values : Seq(Nat)] /\ v \in Seq(Nat)
            /\ OnTheWay(k) = v \o w
        BY <1>11, WayFlush, BatchTypes
      <4>2. Listed(k)' = l \o v
        BY <2>1, <4>1, PutLists, ZenonT(60)
      <4>3. w \in Seq(Nat) /\ Everywhere(k)' = ((l \o v) \o w) \o accum[k]
        BY <3>1, <4>2, PartsNext, ZenonT(60)
      <4>4. l \in Seq(Nat) /\ Everywhere(k) = (l \o (v \o w)) \o accum[k]
        BY <4>1, Parts, ZenonT(60)
      <4> HIDE DEF l, v, w
      <4>5. (l \o v) \o w = l \o (v \o w)
        BY <4>1, <4>3, <4>4, Assoc, ZenonT(60)
      <4>6. Everywhere(k)' = Everywhere(k)
        BY <4>3, <4>4, <4>5
      <4>7. v \o w = <<>> => w = <<>>
        BY <4>1, <4>3, ConcatEqualIffEmpty
      <4> QED
        BY <4>1, <4>6, <4>7 DEF w
    <3> QED
      BY <3>1, <3>2, DataKept, ZenonT(60) DEF Closing
  <2>2. CASE PutFails
    BY <1>11, <2>2, DataDropped, ZenonT(60)
  <2> QED
    BY <1>11, <2>1, <2>2, ZenonT(60) DEF FlushBuffer
<1>12. CASE FlushedBuffers
  <2>1. UNCHANGED <<log, offsets, accum, pushed, purged, rank, faults, pc>>
    BY <1>12, ZenonT(60) DEF FlushedBuffers, pushVars, logVars
  <2>2. \A k \in Keys : OnTheWay(k)' = OnTheWay(k)
    BY <1>12, WayFlushed
  <2>3. \A k \in Keys : Listed(k)' = Listed(k)
    BY <2>1 DEF Listed, Get, Reversed
  <2>4. \A k \in Keys : Everywhere(k)' = Everywhere(k)
    BY <2>1, <2>2, <2>3, Parts, PartsNext, ZenonT(60)
  <2> QED
    BY <2>1, <2>2, <2>4, DataKept DEF Closing
<1>13. CASE Exit
  <2>1. UNCHANGED <<log, offsets, tmpBuf, held, chan, accum, pushed, faults, purged, rank, pc>>
    BY <1>13 DEF Exit, pushVars, logVars
  <2> QED
    BY <1>0, <2>1, DataKept DEF Closing
<1> QED
  BY ZenonT(60), <1>1, <1>2, <1>3, <1>4, <1>5, <1>6, <1>7, <1>8, <1>9, <1>10, <1>11, <1>12, <1>13
  DEF Next, Indexer, Writer

-----------------------------------------------------------------------------
(* The theorems.                                                            *)

LEMMA InitInv == Init => Inv
<1> SUFFICES ASSUME Init PROVE Inv
  OBVIOUS
<1>1. log = <<>> /\ log \in Logs /\ Len(log) = 0
  BY DEF Init, Logs
<1>2. Types
  <2>1. accum \in [Keys -> Seq(Nat)] /\ pushed \in [Keys -> Seq(Nat)]
    BY BatchSizeNat DEF Init
  <2>2. \A k \in Keys : Len(accum[k]) < BatchSize
    BY BatchSizeNat DEF Init
  <2>3. offsets \in [Keys -> 0..Len(log)]
    BY <1>1 DEF Init
  <2>4. rank \in [Keys -> Nat]
    BY DEF Init
  <2>5. pc \in States /\ count \in Nat /\ faults \in Nat /\ exiting \in BOOLEAN /\ purged \in BOOLEAN
    BY ZenonT(60) DEF Init, States
  <2>6. /\ todo \in Seq(Keys) /\ sweep \in Seq(Keys)
        /\ chan \in Seq(FullBatches) /\ tmpBuf \in Seq(FullBatches)
    BY EmptySeq DEF Init
  <2>7. wpc \in {"loop", "flush", "done"} /\ held \in IF wpc = "flush" THEN FullBatches ELSE {NoBatch}
    BY DEF Init
  <2> QED
    BY <1>1, <2>1, <2>2, <2>3, <2>4, <2>5, <2>6, <2>7, ZenonT(60) DEF Types
<1>3. Control
  BY DEF Init, Control, Collected
<1>4. OneWaits
  BY DEF Init, OneWaits
<1>5. AtHand
  BY NoValues DEF Init, AtHand, Distinct
<1>6. ASSUME NEW k \in Keys
      PROVE  OnTheWay(k) = <<>> /\ Everywhere(k) = <<>> /\ pushed[k] = <<>>
  <2>1. ValuesFor(k, held) = <<>>
    BY DEF Init, ValuesFor, NoBatch
  <2>2. BatchesOf(k, tmpBuf) = <<>> /\ BatchesOf(k, chan) = <<>>
    BY BatchesEmpty DEF Init
  <2>3. OnTheWay(k) = (<<>> \o <<>>) \o <<>>
    BY <2>1, <2>2 DEF OnTheWay
  <2>4. <<>> \o <<>> = <<>>
    OBVIOUS
  <2>5. Get(k) = <<>>
    <3>1. offsets[k] = 0
      BY DEF Init
    <3> QED
      BY <1>1, <3>1, WalkDef, ZenonT(60) DEF Get
  <2>6. Listed(k) = <<>>
    <3>1. Reversed(<<>>) = <<>>
      BY DEF Reversed
    <3> QED
      BY <2>5, <3>1 DEF Listed
  <2>7. Everywhere(k) = (<<>> \o <<>>) \o <<>>
    BY <1>2, <2>3, <2>4, <2>6, Parts, ZenonT(60) DEF Init
  <2> QED
    BY <2>3, <2>4, <2>7, ZenonT(60) DEF Init
<1>7. NoneOnTheWay /\ Order /\ Complete
  BY <1>6, ZenonT(60) DEF NoneOnTheWay, Order, Complete
<1>8. ListedOnce
  <2>1. Distinct(<<>>)
    BY DEF Distinct
  <2> QED
    BY <1>6, <2>1, NoValues, ListedOnceDef
<1> QED
  BY <1>2, <1>3, <1>4, <1>5, <1>7, <1>8, ZenonT(60) DEF Inv

LEMMA StepInv == Inv /\ [Next]_vars => Inv'
<1> SUFFICES ASSUME Inv, [Next]_vars PROVE Inv'
  OBVIOUS
<1>1. CASE Next
  <2>1. Types'
    BY <1>1, TypesStep DEF Inv
  <2>2. Control' /\ OneWaits' /\ AtHand'
    BY <1>1, ControlStep, OneWaitsStep, AtHandStep DEF Inv
  <2>3. Data'
    BY <1>1, <2>1, DataStep, ZenonT(60) DEF Inv, Data
  <2> QED
    BY <2>1, <2>2, <2>3 DEF Inv, Data
<1>2. CASE UNCHANGED vars
  <2> USE <1>2 DEF vars, pushVars, writerVars, logVars
  <2>1. Types'
    BY ZenonT(60) DEF Inv, Types
  <2>2. Control' /\ OneWaits' /\ AtHand'
    BY DEF Inv, Control, OneWaits, AtHand, Collected, Values, Distinct
  <2>3. \A k \in Keys : Everywhere(k)' = Everywhere(k) /\ OnTheWay(k)' = OnTheWay(k)
    BY ZenonT(60) DEF Everywhere, OnTheWay, Get, Reversed
  <2>4. Data'
    BY <2>3, DataKept DEF Inv, Data, Closing
  <2> QED
    BY <2>1, <2>2, <2>4, ZenonT(60) DEF Inv, Data
<1> QED
  BY <1>1, <1>2

\* Along every behaviour, what is kept for a key is what the invariant says.
THEOREM Invariance == Spec => []Inv
  BY InitInv, StepInv, PTL DEF Spec

\* Until Close the index, the goroutine's buffer, the channel and the collected
\* transactions hold, one after the other, what was pushed for the key: the
\* early flush of Push, the batch that fullBufferWriter holds back and the
\* channel between them never reorder or lose a transaction.
THEOREM KeptInOrder == Spec => []InOrder
<1>1. Inv => InOrder
  BY DEF Inv, Order, InOrder
<1> QED
  BY <1>1, Invariance, PTL

\* What Close seals: no transaction twice or under another key, the keys
\* without a full batch complete and most recent first, and of every other key
\* at most the one batch that still waited in the goroutine's buffer missing.
THEOREM SealedIsListed == Spec => []SealedListing
<1>1. ASSUME Inv PROVE SealedListing
  <2>0. Types /\ ListedOnce
    BY <1>1, ZenonT(60) DEF Inv
  <2>1. ASSUME pc = "sealed", NEW k \in Keys
        PROVE  /\ accum[k] = <<>> /\ OnTheWay(k) = BatchesOf(k, tmpBuf)
               /\ Everywhere(k) = Listed(k) \o OnTheWay(k)
    <3>1. chan = <<>> /\ wpc = "done" /\ Collected = {}
      BY <1>1, <2>1, ZenonT(60) DEF Inv, Control
    <3>2. held = NoBatch /\ accum[k] = <<>>
      BY <2>0, <3>1, ZenonT(60) DEF Types, Collected
    <3>3. ValuesFor(k, held) = <<>>
      BY <3>2 DEF ValuesFor, NoBatch
    <3>4. BatchesOf(k, chan) = <<>>
      BY <3>1, BatchesEmpty
    <3>5. BatchesOf(k, tmpBuf) \in Seq(Nat)
      BY <2>0, BatchesType DEF Types
    <3>6. OnTheWay(k) = BatchesOf(k, tmpBuf)
      BY <3>3, <3>4, <3>5, ConcatEmptySeq DEF OnTheWay
    <3>7. /\ Listed(k) \in Seq(Nat) /\ OnTheWay(k) \in Seq(Nat)
          /\ Everywhere(k) = (Listed(k) \o OnTheWay(k)) \o <<>>
      BY <2>0, <3>2, Parts, ZenonT(60)
    <3>8. Listed(k) \o OnTheWay(k) \in Seq(Nat)
      BY <3>7, ConcatProperties, ZenonT(60)
    <3> QED
      BY <3>2, <3>6, <3>7, <3>8, ConcatEmptySeq, ZenonT(60)
  <2>2. RareKeysExact
    <3> SUFFICES ASSUME pc = "sealed", faults = 0, ~purged, NEW k \in Keys, rank[k] = 0
                 PROVE  Get(k) = Reversed(pushed[k])
      BY DEF RareKeysExact
    <3>1. OnTheWay(k) = <<>> /\ Everywhere(k) = pushed[k]
      BY <1>1 DEF Inv, NoneOnTheWay, Order
    <3>2. Listed(k) \in Seq(Nat) /\ Get(k) \in Seq(Nat)
      BY <2>0, Parts, ZenonT(60)
    <3>3. Listed(k) = pushed[k]
      BY <2>1, <3>1, <3>2, ConcatEmptySeq, ZenonT(60)
    <3> QED
      BY <3>2, <3>3, ReversedTwice, ZenonT(60) DEF Listed
  <2>3. LossBounded
    <3> SUFFICES ASSUME pc = "sealed", faults = 0, NEW k \in Keys
                 PROVE  Len(pushed[k]) - Len(Get(k)) \in {0, BatchSize}
      BY DEF LossBounded
    <3>1. Len(Everywhere(k)) = Len(pushed[k])
      BY <1>1 DEF Inv, Complete
    <3>2. Listed(k) \in Seq(Nat) /\ Get(k) \in Seq(Nat) /\ OnTheWay(k) \in Seq(Nat)
      BY <2>0, Parts, ZenonT(60)
    <3>3. Len(Listed(k)) = Len(Get(k)) /\ Len(Get(k)) \in Nat
      BY <3>2, ReversedType, LenProperties, ZenonT(60) DEF Listed
    <3>4. Len(OnTheWay(k)) \in {0, BatchSize}
      <4>1. tmpBuf \in Seq(FullBatches) /\ \A i, j \in 1..Len(tmpBuf) : tmpBuf[i].key = tmpBuf[j].key => i = j
        BY <1>1, <2>0 DEF Inv, Types, OneWaits
      <4>2. Len(BatchesOf(k, tmpBuf)) \in {0, BatchSize}
        BY <4>1, BatchesOne
      <4> QED
        BY <2>1, <4>2, ZenonT(60)
    <3>5. Len(Everywhere(k)) = Len(Listed(k)) + Len(OnTheWay(k))
      BY <2>1, <3>2, ConcatProperties, ZenonT(60)
    <3> QED
      BY <3>1, <3>3, <3>4, <3>5, BatchSizeNat
  <2> QED
    BY <2>0, <2>2, <2>3 DEF SealedListing
<1> QED
  BY <1>1, Invariance, PTL
=============================================================================
