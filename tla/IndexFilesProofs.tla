-------------------------- MODULE IndexFilesProofs --------------------------
(***************************************************************************)
(* Proofs about the block times, the manifest and the linked log of module  *)
(* IndexFiles, for every epoch length, width, account and record: what is   *)
(* read is what was written, after any calls and crashes.                   *)
(***************************************************************************)
EXTENDS IndexFiles, WellFoundedInduction, TLAPS

\* A leaf that names no prover is tried with SMT, with Zenon, and again with SMT;
\* the numbers are seconds.
USE SMTT(60), ZenonT(60), SMTT(90)
-----------------------------------------------------------------------------
(* Numbers.                                                                 *)

\* A set of numbers that has a member has a least one.
LEMMA LeastNat ==
    ASSUME NEW S \in SUBSET Nat, S # {}
    PROVE  \E m \in S : \A n \in S : m <= n
<1> DEFINE R == {r \in Nat \X Nat : r[1] < r[2]}
<1>1. IsWellFoundedOn(R, Nat)
  BY NatLessThanWellFounded DEF OpToRel
<1> HIDE DEF R
<1>2. PICK m \in S : \A n \in S : <<n, m>> \notin R
  BY <1>1, WFMin, ZenonT(60)
<1>3. ASSUME NEW n \in S PROVE m <= n
  <2>1. <<n, m>> \notin R
    BY <1>2
  <2> QED
    BY <2>1 DEF R
<1> QED
  BY <1>3

\* A member of a set of places has a last one.
LEMMA LargestBelow ==
    ASSUME NEW n \in Nat, NEW S \in SUBSET (1..n), S # {}
    PROVE  \E m \in S : \A i \in S : i <= m
<1> DEFINE D == {n - i : i \in S}
<1>1. D \in SUBSET Nat
  OBVIOUS
<1>2. \A i \in S : n - i \in D
  OBVIOUS
<1>3. D # {}
  <2>1. PICK i \in S : TRUE
    BY ZenonT(60)
  <2> QED
    BY <1>2, <2>1
<1>4. \A d \in D : \E i \in S : d = n - i
  OBVIOUS
<1> HIDE DEF D
<1>5. PICK d \in D : \A e \in D : d <= e
  BY <1>1, <1>3, LeastNat
<1>6. PICK m \in S : d = n - m
  BY <1>4, <1>5
<1>7. ASSUME NEW i \in S PROVE i <= m
  <2>1. n - m <= n - i
    BY <1>2, <1>5, <1>6
  <2> QED
    BY <2>1
<1> QED
  BY <1>7

\* Induction over the natural numbers, for a set instead of a predicate.
LEMMA SetInduction ==
    ASSUME NEW S, 0 \in S, \A n \in Nat : n \in S => n + 1 \in S
    PROVE  \A n \in Nat : n \in S
<1> SUFFICES ASSUME NEW n \in Nat, n \notin S PROVE FALSE
  OBVIOUS
<1> DEFINE T == Nat \ S
<1>1. PICK m \in T : \A k \in T : m <= k
  <2>1. T \in SUBSET Nat /\ T # {}
    OBVIOUS
  <2> HIDE DEF T
  <2> QED
    BY <2>1, LeastNat
<1>2. m \in Nat /\ m # 0 /\ m - 1 \in Nat
  OBVIOUS
<1>3. m - 1 \in S
  BY <1>1, <1>2
<1>4. (m - 1) + 1 \in S
  BY <1>2, <1>3
<1> QED
  BY <1>2, <1>4

LEMMA ProductNat ==
    ASSUME NEW a \in Nat, NEW b \in Nat
    PROVE  a * b \in Nat
OBVIOUS

\* Quotient and remainder are unique.
LEMMA DivMod ==
    ASSUME NEW d \in Nat \ {0}, NEW q \in Int, NEW r \in 0..d - 1
    PROVE  (q * d + r) \div d = q /\ (q * d + r) % d = r
<1> DEFINE x == q * d + r
<1> DEFINE p == x \div d
<1> DEFINE s == x % d
<1>1. x \in Int
  OBVIOUS
<1> HIDE DEF x
<1>2. p \in Int /\ s \in 0..d - 1 /\ x = d * p + s
  BY <1>1
<1> HIDE DEF p, s
<1>3. d * (q - p) = s - r
  BY <1>1, <1>2 DEF x
<1>4. ~(q - p >= 1)
  <2> SUFFICES ASSUME q - p >= 1 PROVE FALSE
    OBVIOUS
  <2>1. q - p - 1 \in Nat
    BY <1>2
  <2>2. d * (q - p - 1) \in Nat
    BY <2>1, ProductNat
  <2>3. d * (q - p) = d * (q - p - 1) + d
    BY <1>2
  <2> QED
    BY <1>2, <1>3, <2>2, <2>3
<1>5. ~(p - q >= 1)
  <2> SUFFICES ASSUME p - q >= 1 PROVE FALSE
    OBVIOUS
  <2>1. p - q - 1 \in Nat
    BY <1>2
  <2>2. d * (p - q - 1) \in Nat
    BY <2>1, ProductNat
  <2>3. d * (q - p) = 0 - (d * (p - q - 1) + d)
    BY <1>2
  <2> QED
    BY <1>2, <1>3, <2>2, <2>3
<1>6. p = q
  BY <1>2, <1>4, <1>5
<1>7. s = r
  BY <1>2, <1>3, <1>6
<1> QED
  BY <1>6, <1>7 DEF p, s, x

\* n + 1 items of w units end where m items end, or before.
LEMMA ItemsFit ==
    ASSUME NEW w \in Nat, NEW m \in Nat, NEW n \in 0..m - 1
    PROVE  w * n \in Nat /\ w * m \in Nat /\ w * n + w <= w * m
<1>1. m - n - 1 \in Nat /\ n \in Nat
  OBVIOUS
<1>2. w * (m - n - 1) \in Nat /\ w * n \in Nat /\ w * m \in Nat
  BY <1>1, ProductNat
<1>3. w * m = w * n + w + w * (m - n - 1)
  OBVIOUS
<1> QED
  BY <1>2, <1>3
-----------------------------------------------------------------------------
(* Sequences.                                                               *)

LEMMA Concatenated ==
    ASSUME NEW S, NEW p \in Seq(S), NEW q \in Seq(S)
    PROVE  /\ p \o q \in Seq(S)
           /\ Len(p \o q) = Len(p) + Len(q)
           /\ \A i \in 1..Len(p) + Len(q) : (p \o q)[i] = IF i <= Len(p) THEN p[i] ELSE q[i - Len(p)]
OBVIOUS

LEMMA Extracted ==
    ASSUME NEW S, NEW s, NEW f \in Int, NEW g \in Int, \A i \in f..g : s[i] \in S
    PROVE  /\ SubSeq(s, f, g) \in Seq(S)
           /\ Len(SubSeq(s, f, g)) = IF f <= g THEN g - f + 1 ELSE 0
           /\ \A i \in 1..g - f + 1 : SubSeq(s, f, g)[i] = s[f + i - 1]
OBVIOUS
-----------------------------------------------------------------------------
(* The block times.                                                         *)

Calls == Seq(Int \X Int)

\* The calls that are about a slot, the last of them and its time.
About(calls, slot) == {i \in DOMAIN calls : calls[i][1] = slot}
Newest(S) == CHOOSE i \in S : \A j \in S : j <= i
LastOf(calls, slot) == IF About(calls, slot) = {} THEN 0 ELSE calls[Newest(About(calls, slot))][2]

LEMMA NewestIsLast ==
    ASSUME NEW n \in Nat, NEW S \in SUBSET (1..n), S # {}
    PROVE  Newest(S) \in S /\ \A i \in S : i <= Newest(S)
<1>1. \E m \in S : \A i \in S : i <= m
  BY LargestBelow, ZenonT(60)
<1> QED
  BY <1>1, ZenonT(60) DEF Newest

LEMMA LastOfAppend ==
    ASSUME NEW calls \in Calls, NEW slot \in Int, NEW time \in Int, NEW other \in Int
    PROVE  LastOf(Append(calls, <<slot, time>>), other) = IF other = slot THEN time ELSE LastOf(calls, other)
<1> DEFINE more == Append(calls, <<slot, time>>)
<1> DEFINE n == Len(calls)
<1>1. n \in Nat /\ DOMAIN calls = 1..n /\ DOMAIN more = 1..n + 1
  BY DEF Calls
<1>2. more[n + 1] = <<slot, time>>
  BY DEF Calls
<1>3. \A i \in 1..n : more[i] = calls[i]
  BY DEF Calls
<1> SUFFICES LastOf(more, other) = IF other = slot THEN time ELSE LastOf(calls, other)
  OBVIOUS
<1> HIDE DEF more, n
<1>4. About(more, other) \subseteq 1..n + 1 /\ About(calls, other) \subseteq 1..n
  BY <1>1 DEF About
<1>5. CASE other = slot
  <2>1. n + 1 \in About(more, other)
    BY <1>1, <1>2, <1>5 DEF About
  <2>2. Newest(About(more, other)) = n + 1
    <3>1. /\ Newest(About(more, other)) \in About(more, other)
          /\ \A i \in About(more, other) : i <= Newest(About(more, other))
      BY <1>1, <1>4, <2>1, n + 1 \in Nat, NewestIsLast, ZenonT(60)
    <3> QED
      BY <1>1, <1>4, <2>1, <3>1
  <2> QED
    BY <1>2, <1>5, <2>1, <2>2 DEF LastOf
<1>6. CASE other # slot
  <2>1. About(more, other) = About(calls, other)
    BY <1>1, <1>2, <1>3, <1>6 DEF About
  <2>2. CASE About(calls, other) = {}
    BY <1>6, <2>1, <2>2 DEF LastOf
  <2>3. CASE About(calls, other) # {}
    <3>1. Newest(About(calls, other)) \in 1..n
      BY <1>1, <1>4, <2>3, NewestIsLast, ZenonT(60)
    <3>2. more[Newest(About(calls, other))] = calls[Newest(About(calls, other))]
      BY <1>3, <3>1
    <3> QED
      BY <1>6, <2>1, <2>3, <3>2 DEF LastOf
  <2> QED
    BY <2>2, <2>3
<1> QED
  BY <1>5, <1>6
-----------------------------------------------------------------------------
\* The Index in memory: its epoch, and for every slot the time that was set last.
Times0 == [start : Nat, end : Nat, epoch : Int, capacity : Nat,
           values : [0..EpochLen - 1 -> Int], set : Calls]

TimesKept ==
    pc # "start" =>
        /\ writer \in Times0
        /\ writer.end = writer.start + EpochLen - 1
        /\ writer.capacity = EpochLen
        /\ BT!CalcEpochForSlot(writer.start) = writer.epoch
        /\ BT!CalcEpochForSlot(writer.end) = writer.epoch
        /\ \A slot \in writer.start..writer.end : writer.values[slot - writer.start] = LastOf(writer.set, slot)

AllFit == \A i \in 0..EpochLen - 1 : BT!Fits(writer.values[i])

FullSize == BT!HeaderBytes + ValueBytes * EpochLen

\* The file is the Index, and only its last bytes may be missing.
TimesWritten ==
    /\ pc \in {"start", "open", "refused", "written", "cut"}
    /\ pc \in {"written", "cut"} =>
           /\ file = [bytes |-> file.bytes, start |-> writer.start, end |-> writer.end, epoch |-> writer.epoch,
                      capacity |-> writer.capacity, values |-> writer.values]
           /\ file.bytes \in Nat
           /\ AllFit
    /\ pc = "written" => file.bytes = FullSize
    /\ pc = "refused" => ~AllFit

BTInv == TimesKept /\ TimesWritten

LEMMA SmallMod ==
    ASSUME NEW x \in Int, x >= 0, x <= BT!MaxTime
    PROVE  x % 256^ValueBytes = x
<1> DEFINE d == 256^ValueBytes
<1>1. d \in Nat \ {0} /\ x \in 0..d - 1
  BY BlockTimeAssumption DEF BT!MaxTime
<1> HIDE DEF d
<1>2. (0 * d + x) % d = x
  BY <1>1, DivMod
<1>3. 0 * d + x = x
  BY <1>1
<1> QED
  BY <1>2, <1>3 DEF d

\* NewForEpoch: both ends of the epoch are in it.
LEMMA NewForEpochStep ==
    ASSUME NEW epoch \in Epochs, BT!NewForEpoch(epoch)
    PROVE  BTInv'
<1> DEFINE s == epoch * EpochLen
<1>1. epoch \in Nat /\ EpochLen \in Nat \ {0}
  BY BlockTimeAssumption
<1>2. s \in Nat
  BY <1>1, ProductNat
<1>3. /\ (epoch * EpochLen + 0) \div EpochLen = epoch
      /\ (epoch * EpochLen + (EpochLen - 1)) \div EpochLen = epoch
  BY <1>1, DivMod, 0 \in 0..EpochLen - 1, EpochLen - 1 \in 0..EpochLen - 1
<1> HIDE DEF s
<1>4. BT!CalcEpochForSlot(s) = epoch /\ BT!CalcEpochForSlot(s + EpochLen - 1) = epoch
  <2>1. s + 0 = s /\ s + (EpochLen - 1) = s + EpochLen - 1
    BY <1>1, <1>2
  <2> QED
    BY <1>3, <2>1 DEF s, BT!CalcEpochForSlot
<1>5. /\ writer' = [start |-> s, end |-> s + EpochLen - 1, epoch |-> epoch, capacity |-> EpochLen,
                    values |-> [i \in 0..EpochLen - 1 |-> 0], set |-> <<>>]
      /\ pc' = "open"
  BY <1>4, ZenonT(60) DEF BT!NewForEpoch, BT!EpochLimits, s
<1>6. writer' \in Times0
  <2>1. [i \in 0..EpochLen - 1 |-> 0] \in [0..EpochLen - 1 -> Int] /\ <<>> \in Calls
    BY DEF Calls
  <2>2. s + EpochLen - 1 \in Nat
    BY <1>1, <1>2
  <2> QED
    BY <1>1, <1>2, <1>5, <2>1, <2>2 DEF Times0
<1>7. ASSUME NEW slot \in writer'.start..writer'.end
      PROVE  writer'.values[slot - writer'.start] = LastOf(writer'.set, slot)
  <2>1. slot - s \in 0..EpochLen - 1
    BY <1>1, <1>2, <1>5, <1>7
  <2>2. About(<<>>, slot) = {}
    BY DEF About
  <2> QED
    BY <1>5, <2>1, <2>2 DEF LastOf
<1>8. TimesKept'
  <2>1. /\ writer'.start = s /\ writer'.end = s + EpochLen - 1
        /\ writer'.capacity = EpochLen /\ writer'.epoch = epoch
    BY <1>5, ZenonT(60)
  <2> QED
    BY <1>4, <1>6, <1>7, <2>1, ZenonT(60) DEF TimesKept, BT!CalcEpochForSlot
<1> QED
  BY <1>5, <1>8 DEF BTInv, TimesWritten

\* Set: the time set last of a slot is the one in the array.
LEMMA SetStep ==
    ASSUME BTInv, NEW slot \in Int, NEW time \in Times, BT!Set(slot, time)
    PROVE  BTInv'
<1>1. /\ writer \in Times0
      /\ writer.end = writer.start + EpochLen - 1
      /\ EpochLen \in Nat \ {0}
      /\ time \in Int
      /\ slot \in writer.start..writer.end
      /\ pc = "open" /\ pc' = "open"
  BY BlockTimeAssumption DEF BTInv, TimesKept, BT!Set, BT!InRange, Times0
<1> DEFINE at == slot - writer.start
<1>2. at \in 0..EpochLen - 1
  BY <1>1 DEF Times0
<1>3. writer' = [writer EXCEPT !.values = [writer.values EXCEPT ![at] = time],
                               !.set = Append(writer.set, <<slot, time>>)]
  BY <1>1 DEF BT!Set, Times0
<1>4. /\ [writer.values EXCEPT ![at] = time] \in [0..EpochLen - 1 -> Int]
      /\ Append(writer.set, <<slot, time>>) \in Calls
  BY <1>1, <1>2 DEF Times0, Calls
<1>5. /\ writer' \in Times0
      /\ writer'.start = writer.start /\ writer'.end = writer.end /\ writer'.epoch = writer.epoch
      /\ writer'.capacity = writer.capacity
      /\ writer'.values = [writer.values EXCEPT ![at] = time]
      /\ writer'.set = Append(writer.set, <<slot, time>>)
  <2> DEFINE V == [0..EpochLen - 1 -> Int]
  <2> DEFINE v == [writer.values EXCEPT ![at] = time]
  <2> DEFINE c == Append(writer.set, <<slot, time>>)
  <2>1. /\ writer \in [start : Nat, end : Nat, epoch : Int, capacity : Nat, values : V, set : Calls]
        /\ writer' = [writer EXCEPT !.values = v, !.set = c] /\ v \in V /\ c \in Calls
    BY <1>1, <1>3, <1>4, ZenonT(60) DEF Times0
  <2> HIDE DEF V, v, c
  <2>2. /\ writer' \in [start : Nat, end : Nat, epoch : Int, capacity : Nat, values : V, set : Calls]
        /\ writer'.start = writer.start /\ writer'.end = writer.end /\ writer'.epoch = writer.epoch
        /\ writer'.capacity = writer.capacity /\ writer'.values = v /\ writer'.set = c
    <3> DEFINE w == [writer EXCEPT !.values = v]
    <3>1. /\ w \in [start : Nat, end : Nat, epoch : Int, capacity : Nat, values : V, set : Calls]
          /\ w.start = writer.start /\ w.end = writer.end /\ w.epoch = writer.epoch
          /\ w.capacity = writer.capacity /\ w.values = v
      BY <2>1
    <3>2. writer' = [w EXCEPT !.set = c]
      BY <2>1, ZenonT(60)
    <3> HIDE DEF w
    <3> QED
      BY <2>1, <3>1, <3>2
  <2> QED
    BY <2>2, ZenonT(60) DEF Times0, V, v, c
<1>6. ASSUME NEW other \in writer.start..writer.end
      PROVE  writer'.values[other - writer.start] = LastOf(writer'.set, other)
  <2>1. other - writer.start \in 0..EpochLen - 1
    BY <1>1, <1>6 DEF Times0
  <2>2. LastOf(writer'.set, other) = IF other = slot THEN time ELSE LastOf(writer.set, other)
    <3>1. writer.set \in Calls /\ slot \in Int /\ other \in Int
      BY <1>1, <1>6 DEF Times0
    <3> QED
      BY <1>1, <1>5, <3>1, LastOfAppend
  <2>3. writer.values[other - writer.start] = LastOf(writer.set, other)
    BY <1>1, <1>6 DEF BTInv, TimesKept
  <2>4. other - writer.start = at <=> other = slot
    BY <1>1, <1>6 DEF Times0
  <2>5. /\ at \in DOMAIN writer.values
        /\ other - writer.start \in DOMAIN writer.values
    BY <1>1, <1>2, <2>1 DEF Times0
  <2>6. writer'.values[other - writer.start] =
            IF other - writer.start = at THEN time ELSE writer.values[other - writer.start]
    BY <1>5, <2>5, ZenonT(60)
  <2> QED
    BY <2>2, <2>3, <2>4, <2>6, ZenonT(60)
<1>7. TimesKept'
  <2>1. /\ writer.capacity = EpochLen
        /\ BT!CalcEpochForSlot(writer.start) = writer.epoch
        /\ BT!CalcEpochForSlot(writer.end) = writer.epoch
    BY <1>1 DEF BTInv, TimesKept
  <2> QED
    BY <1>1, <1>5, <1>6, <2>1 DEF TimesKept, BT!CalcEpochForSlot
<1> QED
  BY <1>1, <1>7 DEF BTInv, TimesWritten

\* WriteTo writes the times as they are, since none of them is out of range.
LEMMA WriteToStep ==
    ASSUME BTInv, BT!WriteTo
    PROVE  BTInv'
<1>1. /\ writer \in Times0 /\ pc = "open" /\ writer' = writer
      /\ writer.capacity = EpochLen
      /\ DOMAIN writer.values = 0..EpochLen - 1
  BY DEF BTInv, TimesKept, BT!WriteTo, Times0
<1>2. TimesKept'
  <2>1. pc' # "start"
    BY DEF BT!WriteTo
  <2> QED
    BY <1>1, <2>1, ZenonT(60) DEF BTInv, TimesKept, BT!CalcEpochForSlot
<1>3. AllFit' <=> AllFit
  BY <1>1, ZenonT(60) DEF AllFit, BT!Fits
<1>4. CASE AllFit
  <2>1. /\ pc' = "written"
        /\ file' = [bytes |-> BT!HeaderBytes + ValueBytes * writer.capacity,
                    start |-> writer.start, end |-> writer.end, epoch |-> writer.epoch,
                    capacity |-> writer.capacity,
                    values |-> [i \in DOMAIN writer.values |-> writer.values[i] % 256^ValueBytes]]
    BY <1>1, <1>4, ZenonT(60) DEF BT!WriteTo, AllFit
  <2>2. ASSUME NEW i \in 0..EpochLen - 1 PROVE writer.values[i] % 256^ValueBytes = writer.values[i]
    <3>1. writer.values[i] \in Int /\ writer.values[i] >= 0 /\ writer.values[i] <= BT!MaxTime
      BY <1>1, <1>4 DEF AllFit, BT!Fits, Times0
    <3> QED
      BY <3>1, SmallMod, ZenonT(60)
  <2>3. [i \in DOMAIN writer.values |-> writer.values[i] % 256^ValueBytes] = writer.values
    <3>1. writer.values = [i \in 0..EpochLen - 1 |-> writer.values[i]]
      BY <1>1 DEF Times0
    <3> QED
      BY <1>1, <2>2, <3>1, ZenonT(60)
  <2>4. BT!HeaderBytes + ValueBytes * EpochLen \in Nat
    <3>1. ValueBytes * EpochLen \in Nat
      BY BlockTimeAssumption, ProductNat
    <3> QED
      BY <3>1 DEF BT!HeaderBytes
  <2>5. file' = [bytes |-> FullSize, start |-> writer'.start, end |-> writer'.end, epoch |-> writer'.epoch,
                 capacity |-> writer'.capacity, values |-> writer'.values]
    BY <1>1, <2>1, <2>3, ZenonT(60) DEF FullSize
  <2>6. file'.bytes = FullSize
    BY <2>5, ZenonT(60)
  <2> QED
    BY <1>2, <1>3, <1>4, <2>1, <2>4, <2>5, <2>6, ZenonT(60) DEF BTInv, TimesWritten, FullSize
<1>5. CASE ~AllFit
  <2>1. pc' = "refused"
    BY <1>1, <1>5, ZenonT(60) DEF BT!WriteTo, AllFit
  <2> QED
    BY <1>2, <1>3, <1>5, <2>1 DEF BTInv, TimesWritten
<1> QED
  BY <1>4, <1>5

LEMMA CutShortStep ==
    ASSUME BTInv, NEW n \in Nat, BT!CutShort(n)
    PROVE  BTInv'
<1>1. /\ pc = "written" /\ pc' = "cut" /\ writer' = writer
      /\ file' = [file EXCEPT !.bytes = n]
  BY ZenonT(60) DEF BT!CutShort
<1>2. TimesKept'
  BY <1>1, ZenonT(60) DEF BTInv, TimesKept, BT!CalcEpochForSlot
<1>3. AllFit'
  BY <1>1, ZenonT(60) DEF AllFit, BT!Fits, BTInv, TimesWritten
<1>4. file = [bytes |-> file.bytes, start |-> writer.start, end |-> writer.end, epoch |-> writer.epoch,
              capacity |-> writer.capacity, values |-> writer.values]
  BY <1>1, ZenonT(60) DEF BTInv, TimesWritten
<1>5. /\ file'.bytes = n
      /\ file' = [bytes |-> n, start |-> writer.start, end |-> writer.end, epoch |-> writer.epoch,
                  capacity |-> writer.capacity, values |-> writer.values]
  BY <1>1, <1>4
<1> QED
  BY <1>1, <1>2, <1>3, <1>5 DEF BTInv, TimesWritten

LEMMA BTStep ==
    ASSUME BTInv, BT!Next
    PROVE  BTInv'
<1>1. ASSUME NEW epoch \in Epochs, BT!NewForEpoch(epoch) PROVE BTInv'
  BY <1>1, NewForEpochStep, ZenonT(60)
<1>2. ASSUME pc = "open", NEW slot \in writer.start - 1..writer.end + 1, NEW time \in Times, BT!Set(slot, time)
      PROVE  BTInv'
  <2>1. slot \in Int
    BY <1>2 DEF BTInv, TimesKept, Times0
  <2> QED
    BY <1>2, <2>1, SetStep, ZenonT(60)
<1>3. ASSUME NEW n \in 0..BT!HeaderBytes + ValueBytes * EpochLen, BT!CutShort(n) PROVE BTInv'
  <2>1. n \in Nat
    BY <1>3
  <2> QED
    BY <1>3, <2>1, CutShortStep, ZenonT(60)
<1> QED
  BY <1>1, <1>2, <1>3, WriteToStep, ZenonT(60) DEF BT!Next

LEMMA BTStart ==
    ASSUME BT!Init
    PROVE  BTInv
BY DEF BT!Init, BTInv, TimesKept, TimesWritten
-----------------------------------------------------------------------------
\* The bytes that are there of the value of a slot before a given number of values.
LEMMA WholeValue ==
    ASSUME NEW m \in Nat, NEW i \in 0..m - 1, file.bytes \in Nat,
           file.bytes >= BT!HeaderBytes + ValueBytes * m
    PROVE  BT!BytesOf(i) = ValueBytes /\ BT!BytesOf(i) > 0
<1>1. ValueBytes \in Nat \ {0}
  BY BlockTimeAssumption
<1>2. ValueBytes * i \in Nat /\ ValueBytes * m \in Nat /\ ValueBytes * i + ValueBytes <= ValueBytes * m
  BY <1>1, ItemsFit
<1> QED
  BY <1>1, <1>2 DEF BT!BytesOf, BT!HeaderBytes

LEMMA LastIsLastOf ==
    ASSUME NEW slot
    PROVE  BT!LastSet(slot) = LastOf(writer.set, slot)
BY ZenonT(60) DEF BT!LastSet, LastOf, About, Newest

\* A value that is there as a whole is the time set last.
LEMMA WholeIsLast ==
    ASSUME BTInv, pc \in {"written", "cut"}, NEW slot \in writer.start..writer.end,
           BT!BytesOf(slot - file.start) = ValueBytes
    PROVE  BT!Get(slot) = BT!LastSet(slot)
<1>1. /\ writer \in Times0 /\ writer.end = writer.start + EpochLen - 1
      /\ \A s \in writer.start..writer.end : writer.values[s - writer.start] = LastOf(writer.set, s)
      /\ AllFit
      /\ file.start = writer.start /\ file.values = writer.values
  <2>1. pc # "start"
    OBVIOUS
  <2>2. file = [bytes |-> file.bytes, start |-> writer.start, end |-> writer.end, epoch |-> writer.epoch,
                capacity |-> writer.capacity, values |-> writer.values]
    BY ZenonT(60) DEF BTInv, TimesWritten
  <2>3. file.start = writer.start /\ file.values = writer.values
    BY <2>2
  <2>4. AllFit
    BY ZenonT(60) DEF BTInv, TimesWritten
  <2>5. TimesKept
    BY ZenonT(60) DEF BTInv
  <2>6. /\ writer \in Times0 /\ writer.end = writer.start + EpochLen - 1
        /\ \A s \in writer.start..writer.end : writer.values[s - writer.start] = LastOf(writer.set, s)
    BY <2>1, <2>5, ZenonT(60) DEF TimesKept
  <2> QED
    BY <2>3, <2>4, <2>6, ZenonT(60)
<1>2. slot - writer.start \in 0..EpochLen - 1
  BY <1>1, BlockTimeAssumption DEF Times0
<1>3. /\ writer.values[slot - writer.start] \in Int /\ writer.values[slot - writer.start] >= 0
      /\ writer.values[slot - writer.start] <= BT!MaxTime
  <2>1. BT!Fits(writer.values[slot - writer.start])
    BY <1>1, <1>2, ZenonT(60) DEF AllFit
  <2>2. writer.values \in [0..EpochLen - 1 -> Int]
    BY <1>1, ZenonT(60) DEF Times0
  <2>3. writer.values[slot - writer.start] \in Int
    BY <1>2, <2>2, ZenonT(60)
  <2> QED
    BY <2>1, <2>3, ZenonT(60) DEF BT!Fits
<1>4. writer.values[slot - writer.start] % 256^ValueBytes = writer.values[slot - writer.start]
  BY <1>3, SmallMod, ZenonT(60)
<1> QED
  BY <1>1, <1>4, LastIsLastOf, ZenonT(60) DEF BT!Get

LEMMA FileIsIndex ==
    ASSUME BTInv, pc \in {"written", "cut"}
    PROVE  /\ writer \in Times0 /\ writer.end = writer.start + EpochLen - 1
           /\ file.start = writer.start /\ file.capacity = EpochLen /\ file.bytes \in Nat
           /\ BT!CalcEpochForSlot(file.start) = BT!CalcEpochForSlot(file.end)
           /\ BT!CalcEpochForSlot(file.start) = file.epoch
<1>1. pc # "start"
  OBVIOUS
<1>2. TimesKept
  BY ZenonT(60) DEF BTInv
<1>3. /\ writer \in Times0 /\ writer.end = writer.start + EpochLen - 1
      /\ writer.capacity = EpochLen
      /\ BT!CalcEpochForSlot(writer.start) = writer.epoch
      /\ BT!CalcEpochForSlot(writer.end) = writer.epoch
  BY <1>1, <1>2, ZenonT(60) DEF TimesKept
<1>4. /\ file = [bytes |-> file.bytes, start |-> writer.start, end |-> writer.end, epoch |-> writer.epoch,
                 capacity |-> writer.capacity, values |-> writer.values]
      /\ file.bytes \in Nat
  BY ZenonT(60) DEF BTInv, TimesWritten
<1>5. file.start = writer.start /\ file.end = writer.end /\ file.epoch = writer.epoch
      /\ file.capacity = writer.capacity
  BY <1>4
<1> QED
  BY <1>3, <1>4, <1>5, ZenonT(60)

LEMMA CompleteTimes ==
    ASSUME BTInv
    PROVE  BT!TimesSurvive
<1> SUFFICES ASSUME pc = "written" PROVE BT!Accepted /\ \A slot \in writer.start..writer.end : BT!Get(slot) = BT!LastSet(slot)
  BY ZenonT(60) DEF BT!TimesSurvive
<1>1. /\ writer \in Times0 /\ writer.end = writer.start + EpochLen - 1
      /\ file.start = writer.start /\ file.capacity = EpochLen /\ file.bytes \in Nat
      /\ BT!CalcEpochForSlot(file.start) = BT!CalcEpochForSlot(file.end)
      /\ BT!CalcEpochForSlot(file.start) = file.epoch
  BY FileIsIndex, ZenonT(60)
<1>2. file.bytes = BT!HeaderBytes + ValueBytes * EpochLen
  BY ZenonT(60) DEF BTInv, TimesWritten, FullSize
<1>3. EpochLen \in Nat
  BY BlockTimeAssumption
<1>4. file.bytes >= BT!HeaderBytes + ValueBytes * EpochLen
  BY <1>1, <1>2
<1>5. ASSUME NEW i \in 0..EpochLen - 1 PROVE BT!BytesOf(i) = ValueBytes /\ BT!BytesOf(i) > 0
  BY <1>1, <1>3, <1>4, WholeValue, ZenonT(60)
<1>6. file.bytes >= BT!HeaderBytes
  <2>1. ValueBytes * EpochLen \in Nat
    BY BlockTimeAssumption, ProductNat
  <2> QED
    BY <1>2, <2>1 DEF BT!HeaderBytes
<1>7. ASSUME NEW slot \in writer.start..writer.end PROVE BT!Get(slot) = BT!LastSet(slot)
  <2>1. writer.start \in Nat
    BY <1>1, ZenonT(60) DEF Times0
  <2>2. slot - file.start \in 0..EpochLen - 1
    BY <1>1, <1>3, <2>1
  <2>3. BT!BytesOf(slot - file.start) = ValueBytes
    BY <1>5, <2>2, ZenonT(60)
  <2> QED
    BY <2>3, WholeIsLast, ZenonT(60)
<1> QED
  BY <1>1, <1>5, <1>6, <1>7, ZenonT(60) DEF BT!Accepted

LEMMA CutTimes ==
    ASSUME BTInv
    PROVE  BT!CutOnlyLast
<1> SUFFICES ASSUME pc = "cut", BT!Accepted
             PROVE  /\ file.bytes > BT!HeaderBytes + ValueBytes * (EpochLen - 1)
                    /\ \A slot \in writer.start..writer.end - 1 : BT!Get(slot) = BT!LastSet(slot)
  BY ZenonT(60) DEF BT!CutOnlyLast
<1>1. /\ writer \in Times0 /\ writer.end = writer.start + EpochLen - 1
      /\ file.start = writer.start /\ file.capacity = EpochLen /\ file.bytes \in Nat
  BY FileIsIndex, ZenonT(60)
<1>2. EpochLen \in Nat \ {0} /\ EpochLen - 1 \in Nat /\ EpochLen - 1 \in 0..EpochLen - 1 /\ ValueBytes \in Nat
  BY BlockTimeAssumption
<1>3. ValueBytes * (EpochLen - 1) \in Nat
  BY <1>2, ProductNat, ZenonT(60)
<1>4. BT!BytesOf(EpochLen - 1) > 0
  BY <1>1, <1>2, ZenonT(60) DEF BT!Accepted
<1>5. file.bytes > BT!HeaderBytes + ValueBytes * (EpochLen - 1)
  BY <1>1, <1>3, <1>4 DEF BT!BytesOf, BT!HeaderBytes
<1>6. ASSUME NEW slot \in writer.start..writer.end - 1 PROVE BT!Get(slot) = BT!LastSet(slot)
  <2>1. writer.start \in Nat
    BY <1>1, ZenonT(60) DEF Times0
  <2>2. slot - file.start \in 0..(EpochLen - 1) - 1 /\ slot \in writer.start..writer.end
    BY <1>1, <1>2, <2>1
  <2>3. file.bytes >= BT!HeaderBytes + ValueBytes * (EpochLen - 1)
    BY <1>1, <1>3, <1>5 DEF BT!HeaderBytes
  <2>4. BT!BytesOf(slot - file.start) = ValueBytes
    BY <1>1, <1>2, <2>2, <2>3, WholeValue, ZenonT(60)
  <2> QED
    BY <2>2, <2>4, WholeIsLast, ZenonT(60)
<1> QED
  BY <1>5, <1>6

LEMMA RefusedTimes ==
    ASSUME BTInv
    PROVE  BT!OutOfRangeRefused
<1> SUFFICES ASSUME pc \in {"written", "refused"}
             PROVE  pc = "refused" <=> \E slot \in writer.start..writer.end : BT!LastSet(slot) \notin 0..BT!MaxTime
  BY ZenonT(60) DEF BT!OutOfRangeRefused
<1>1. TimesKept /\ pc # "start"
  BY DEF BTInv
<1>2. /\ writer \in Times0 /\ writer.end = writer.start + EpochLen - 1
      /\ \A slot \in writer.start..writer.end : writer.values[slot - writer.start] = BT!LastSet(slot)
  BY <1>1, LastIsLastOf, ZenonT(60) DEF TimesKept
<1>3. pc = "refused" <=> ~AllFit
  <2>1. pc = "written" => AllFit
    BY ZenonT(60) DEF BTInv, TimesWritten
  <2>2. pc = "refused" => ~AllFit
    BY ZenonT(60) DEF BTInv, TimesWritten
  <2> QED
    BY <2>1, <2>2, ZenonT(60)
<1>4. writer.start \in Nat /\ writer.values \in [0..EpochLen - 1 -> Int] /\ EpochLen \in Nat /\ BT!MaxTime \in Int
  BY <1>2, BlockTimeAssumption DEF Times0, BT!MaxTime
<1>5. ASSUME NEW i \in 0..EpochLen - 1
      PROVE  writer.start + i \in writer.start..writer.end /\ writer.values[i] = BT!LastSet(writer.start + i)
  <2>1. writer.start + i \in writer.start..writer.end /\ (writer.start + i) - writer.start = i
    BY <1>2, <1>4
  <2> QED
    BY <1>2, <2>1, ZenonT(60)
<1>6. ASSUME NEW slot \in writer.start..writer.end
      PROVE  slot - writer.start \in 0..EpochLen - 1 /\ writer.values[slot - writer.start] = BT!LastSet(slot)
  <2>1. slot - writer.start \in 0..EpochLen - 1
    BY <1>2, <1>4
  <2> QED
    BY <1>2, <2>1, ZenonT(60)
<1>7. ASSUME NEW i \in 0..EpochLen - 1
      PROVE  BT!Fits(writer.values[i]) <=> writer.values[i] \in 0..BT!MaxTime
  <2>1. writer.values[i] \in Int
    BY <1>4, ZenonT(60)
  <2> QED
    BY <1>4, <2>1 DEF BT!Fits
<1>8. AllFit <=> \A slot \in writer.start..writer.end : BT!LastSet(slot) \in 0..BT!MaxTime
  BY <1>5, <1>6, <1>7, ZenonT(60) DEF AllFit
<1> QED
  BY <1>3, <1>8, ZenonT(60)
-----------------------------------------------------------------------------
(* The manifest.                                                            *)

PairBytes == Seq(Nat \X Nat)
Headers == [version : Versions \cup {0, MF!Version}, meta : Metas \cup {MF!NoHeader.meta}]

\* The bytes are those of all the pairs that were put, one pair after the other.
Whole(content, n) ==
    /\ Len(content) = n * PairLen
    /\ \A j \in 1..n, i \in 1..PairLen : content[(j - 1) * PairLen + i] = <<j, i>>

MFTypes ==
    /\ pc \in {"open", "closed"}
    /\ writer \in [header : Headers, puts : Seq(Nat)]
    /\ file \in [head : Nat, version : Versions \cup {MF!Version}, meta : Metas, content : PairBytes]

\* A file whose pairs are whole has those that were put; nothing is put into one without a header.
MFInv ==
    /\ MFTypes
    /\ \A i \in 1..Len(writer.puts) : writer.puts[i] = i
    /\ MF!Aligned => Whole(file.content, Len(writer.puts))
    /\ file.head = 0 => writer.puts = <<>>
    /\ pc = "open" => MF!Aligned /\ file.head # 0
    /\ MF!HeaderOfFile

LEMMA NoneWhole == Whole(<<>>, 0)
<1>1. 0 * PairLen = 0
  BY ManifestAssumption
<1> QED
  BY <1>1 DEF Whole

LEMMA PairTyped ==
    ASSUME NEW pair \in Nat
    PROVE  MF!Bytes(pair) \in PairBytes /\ Len(MF!Bytes(pair)) = PairLen
BY ManifestAssumption DEF MF!Bytes, PairBytes

\* One more pair.
LEMMA WholeAndOne ==
    ASSUME NEW n \in Nat, NEW content \in PairBytes, Whole(content, n)
    PROVE  /\ Whole(content \o MF!Bytes(n + 1), n + 1)
           /\ Len(content \o MF!Bytes(n + 1)) % PairLen = 0
<1> DEFINE more == content \o MF!Bytes(n + 1)
<1>1. PairLen \in Nat \ {0} /\ n * PairLen \in Nat /\ (n + 1) * PairLen = n * PairLen + PairLen
  BY ManifestAssumption, ProductNat
<1>2. MF!Bytes(n + 1) \in PairBytes /\ Len(MF!Bytes(n + 1)) = PairLen
  BY PairTyped, n + 1 \in Nat, ZenonT(60)
<1>3. Len(content) = n * PairLen
  BY ZenonT(60) DEF Whole
<1>4. Len(more) = n * PairLen + PairLen
  <2>1. Len(more) = Len(content) + Len(MF!Bytes(n + 1))
    BY <1>2, Concatenated, ZenonT(60) DEF PairBytes
  <2> QED
    BY <1>2, <1>3, <2>1, ZenonT(60)
<1>5. \A t \in 1..n * PairLen : more[t] = content[t]
  BY <1>1, <1>2, <1>3 DEF PairBytes
<1>6. \A t \in 1..PairLen : more[n * PairLen + t] = MF!Bytes(n + 1)[t]
  BY <1>1, <1>2, <1>3 DEF PairBytes
<1> HIDE DEF more
<1>7. ASSUME NEW j \in 1..n + 1, NEW i \in 1..PairLen PROVE more[(j - 1) * PairLen + i] = <<j, i>>
  <2>1. CASE j = n + 1
    <3>1. (j - 1) * PairLen = n * PairLen
      BY <2>1
    <3>2. MF!Bytes(n + 1)[i] = <<n + 1, i>>
      BY ZenonT(60) DEF MF!Bytes
    <3>3. more[n * PairLen + i] = MF!Bytes(n + 1)[i]
      BY <1>6, ZenonT(60)
    <3> QED
      BY <2>1, <3>1, <3>2, <3>3, ZenonT(60)
  <2>2. CASE j # n + 1
    <3>1. j \in 1..n /\ j - 1 \in 0..n - 1
      BY <2>2
    <3>2. /\ PairLen * (j - 1) \in Nat /\ PairLen * (j - 1) + PairLen <= PairLen * n
          /\ PairLen * n \in Nat
      BY <1>1, <3>1, ItemsFit
    <3>3. (j - 1) * PairLen = PairLen * (j - 1) /\ n * PairLen = PairLen * n
      BY <1>1, <3>1
    <3>4. (j - 1) * PairLen + i \in 1..n * PairLen
      <4> DEFINE a == (j - 1) * PairLen
      <4> DEFINE b == n * PairLen
      <4>1. a \in Nat /\ b \in Nat /\ a + PairLen <= b
        BY <3>2, <3>3
      <4> HIDE DEF a, b
      <4>2. a + i \in 1..b
        BY <1>1, <4>1
      <4> QED
        BY <4>2 DEF a, b
    <3>5. content[(j - 1) * PairLen + i] = <<j, i>>
      BY <3>1, ZenonT(60) DEF Whole
    <3> QED
      BY <1>5, <3>4, <3>5, ZenonT(60)
  <2> QED
    BY <2>1, <2>2, ZenonT(60)
<1>8. (n * PairLen + PairLen) % PairLen = 0
  <2>1. ((n + 1) * PairLen + 0) % PairLen = 0
    BY <1>1, DivMod, n + 1 \in Int, 0 \in 0..PairLen - 1
  <2>2. (n + 1) * PairLen + 0 = n * PairLen + PairLen
    BY <1>1
  <2> QED
    BY <2>1, <2>2, ZenonT(60)
<1> QED
  BY <1>1, <1>4, <1>7, <1>8, ZenonT(60) DEF Whole, more

\* The beginning of a pair.
LEMMA WholeAndPart ==
    ASSUME NEW n \in Nat, NEW content \in PairBytes, Whole(content, n), NEW k \in 0..PairLen - 1
    PROVE  /\ content \o SubSeq(MF!Bytes(0), 1, k) \in PairBytes
           /\ Len(content \o SubSeq(MF!Bytes(0), 1, k)) % PairLen = k
           /\ k = 0 => content \o SubSeq(MF!Bytes(0), 1, k) = content
<1>1. PairLen \in Nat \ {0} /\ n * PairLen \in Nat
  BY ManifestAssumption, ProductNat
<1>2. MF!Bytes(0) \in PairBytes /\ Len(MF!Bytes(0)) = PairLen
  BY PairTyped, 0 \in Nat, ZenonT(60)
<1>3. SubSeq(MF!Bytes(0), 1, k) \in PairBytes /\ Len(SubSeq(MF!Bytes(0), 1, k)) = k
  BY <1>1, <1>2 DEF PairBytes
<1>4. Len(content) = n * PairLen
  BY ZenonT(60) DEF Whole
<1> DEFINE part == SubSeq(MF!Bytes(0), 1, k)
<1>5. part \in PairBytes /\ Len(part) = k
  BY <1>3
<1> HIDE DEF part
<1>6. content \o part \in PairBytes /\ Len(content \o part) = n * PairLen + k
  <2>1. content \o part \in PairBytes /\ Len(content \o part) = Len(content) + Len(part)
    BY <1>5, Concatenated, ZenonT(60) DEF PairBytes
  <2> QED
    BY <1>4, <1>5, <2>1, ZenonT(60)
<1>7. (n * PairLen + k) % PairLen = k
  BY <1>1, DivMod, n \in Int
<1>8. k = 0 => content \o part = content
  BY <1>5 DEF PairBytes
<1> QED
  BY <1>6, <1>7, <1>8, ZenonT(60) DEF part

LEMMA MFStart ==
    ASSUME MF!Init
    PROVE  MFInv
<1>1. /\ pc = "closed"
      /\ writer = [header |-> MF!NoHeader, puts |-> <<>>]
  BY ZenonT(60) DEF MF!Init
<1>2. PICK v \in Versions, m \in Metas :
          file \in {[head |-> 0, version |-> MF!Version, meta |-> m, content |-> <<>>],
                    [head |-> FixedLen + m.len, version |-> v, meta |-> m, content |-> <<>>]}
  BY ZenonT(60) DEF MF!Init
<1>3. FixedLen + m.len \in Nat
  BY ManifestAssumption
<1>4. file \in [head : Nat, version : Versions \cup {MF!Version}, meta : Metas, content : PairBytes]
      /\ file.content = <<>>
  <2>1. <<>> \in PairBytes /\ 0 \in Nat
    BY DEF PairBytes
  <2>2. CASE file = [head |-> 0, version |-> MF!Version, meta |-> m, content |-> <<>>]
    BY <2>1, <2>2
  <2>3. CASE file = [head |-> FixedLen + m.len, version |-> v, meta |-> m, content |-> <<>>]
    BY <1>3, <2>1, <2>3
  <2> QED
    BY <1>2, <2>2, <2>3, ZenonT(60)
<1>5. writer \in [header : Headers, puts : Seq(Nat)] /\ writer.puts = <<>> /\ Len(writer.puts) = 0
  <2>1. MF!NoHeader \in Headers
    BY DEF Headers, MF!NoHeader
  <2>2. <<>> \in Seq(Nat) /\ Len(<<>>) = 0
    OBVIOUS
  <2> QED
    BY <1>1, <2>1, <2>2, ZenonT(60)
<1>6. MFTypes
  BY <1>1, <1>4, <1>5 DEF MFTypes
<1>7. Whole(file.content, Len(writer.puts))
  BY <1>4, <1>5, NoneWhole, ZenonT(60)
<1>8. pc # "open"
  BY <1>1
<1>9. \A i \in 1..Len(writer.puts) : writer.puts[i] = i
  BY <1>5
<1> QED
  BY <1>5, <1>6, <1>7, <1>8, <1>9, ZenonT(60) DEF MFInv, MF!HeaderOfFile

\* A header that is written, as a whole or in part, is that of a file nothing was put into.
LEMMA HeaderWritten ==
    ASSUME MFInv, NEW m \in Metas, NEW n \in Nat \ {0}, MF!Size = 0,
           file' = [head |-> n, version |-> MF!Version, meta |-> m, content |-> <<>>],
           writer' \in [header : Headers, puts : Seq(Nat)], writer'.puts = writer.puts,
           pc' \in {"open", "closed"},
           pc' = "open" =>
               n = FixedLen + m.len /\ writer'.header = [version |-> MF!Version, meta |-> m]
    PROVE  MFInv'
<1>1. file.head \in Nat /\ file.content \in PairBytes
  BY ZenonT(60) DEF MFInv, MFTypes
<1>2. file.head = 0
  <2>1. Len(file.content) \in Nat /\ file.head + Len(file.content) = 0
    BY <1>1 DEF MF!Size, PairBytes
  <2> QED
    BY <1>1, <2>1
<1>3. writer.puts = <<>>
  BY <1>2, ZenonT(60) DEF MFInv
<1>4. writer'.puts = <<>> /\ Len(writer'.puts) = 0
  BY <1>3
<1>5. /\ file'.head = n /\ file'.version = MF!Version /\ file'.meta = m /\ file'.content = <<>>
      /\ file' \in [head : Nat, version : Versions \cup {MF!Version}, meta : Metas, content : PairBytes]
  BY DEF PairBytes
<1>6. MFTypes'
  BY <1>5, ZenonT(60) DEF MFTypes
<1>7. Whole(file'.content, Len(writer'.puts))
  BY <1>4, <1>5, NoneWhole, ZenonT(60)
<1>8. MF!Aligned'
  <2>1. 0 % PairLen = 0
    <3>1. (0 * PairLen + 0) % PairLen = 0 /\ 0 * PairLen + 0 = 0
      BY ManifestAssumption, DivMod, 0 \in 0..PairLen - 1
    <3> QED
      BY <3>1, ZenonT(60)
  <2>2. Len(file'.content) = 0
    BY <1>5
  <2> QED
    BY <2>1, <2>2, ZenonT(60) DEF MF!Aligned
<1>9. \A i \in 1..Len(writer'.puts) : writer'.puts[i] = i
  BY <1>4
<1>10. file'.head # 0
  BY <1>5
<1>11. MF!HeaderOfFile'
  <2> SUFFICES ASSUME pc' = "open"
               PROVE  /\ writer'.header = [version |-> file'.version, meta |-> file'.meta]
                      /\ writer'.header.version = MF!Version
                      /\ file'.head = FixedLen + file'.meta.len
    BY ZenonT(60) DEF MF!HeaderOfFile
  <2>1. n = FixedLen + m.len /\ writer'.header = [version |-> MF!Version, meta |-> m]
    BY ZenonT(60)
  <2>2. writer'.header.version = MF!Version
    BY <2>1
  <2> QED
    BY <1>5, <2>1, <2>2, ZenonT(60)
<1> QED
  BY <1>6, <1>7, <1>8, <1>9, <1>10, <1>11, ZenonT(60) DEF MFInv

LEMMA NewManifestEmptyStep ==
    ASSUME MFInv, NEW m \in Metas, MF!NewManifestEmpty(m)
    PROVE  MFInv'
<1> DEFINE h == [version |-> MF!Version, meta |-> m]
<1>1. /\ MF!Size = 0 /\ pc' = "open"
      /\ file' = [head |-> FixedLen + m.len, version |-> MF!Version, meta |-> m, content |-> <<>>]
      /\ writer' = [writer EXCEPT !.header = h]
  BY ZenonT(60) DEF MF!NewManifestEmpty
<1>2. h \in Headers
  BY DEF Headers
<1> HIDE DEF h
<1>3. writer \in [header : Headers, puts : Seq(Nat)]
  BY ZenonT(60) DEF MFInv, MFTypes
<1>4. writer' \in [header : Headers, puts : Seq(Nat)] /\ writer'.puts = writer.puts /\ writer'.header = h
  BY <1>1, <1>2, <1>3
<1>5. FixedLen + m.len \in Nat \ {0}
  BY ManifestAssumption
<1>6. pc' \in {"open", "closed"}
  BY <1>1
<1> QED
  BY <1>1, <1>4, <1>5, <1>6, HeaderWritten, ZenonT(60) DEF h

LEMMA CrashInHeaderStep ==
    ASSUME MFInv, NEW m \in Metas, NEW n \in Nat \ {0}, MF!CrashInHeader(m, n)
    PROVE  MFInv'
<1>1. /\ MF!Size = 0 /\ pc' = "closed" /\ writer' = writer
      /\ file' = [head |-> n, version |-> MF!Version, meta |-> m, content |-> <<>>]
  BY ZenonT(60) DEF MF!CrashInHeader
<1>2. writer' \in [header : Headers, puts : Seq(Nat)] /\ writer'.puts = writer.puts
  BY <1>1, ZenonT(60) DEF MFInv, MFTypes
<1>3. pc' \in {"open", "closed"} /\ pc' # "open"
  BY <1>1
<1> QED
  BY <1>1, <1>2, <1>3, HeaderWritten, ZenonT(60)

LEMMA NewManifestExistingStep ==
    ASSUME MFInv, MF!NewManifestExisting
    PROVE  MFInv'
<1> DEFINE h == [version |-> file.version, meta |-> file.meta]
<1>1. /\ MF!Size > 0 /\ MF!ReadHeader /\ file.version = MF!Version /\ MF!Aligned
      /\ writer' = [writer EXCEPT !.header = h]
      /\ pc' = "open" /\ file' = file
  BY ZenonT(60) DEF MF!NewManifestExisting
<1>2. /\ writer \in [header : Headers, puts : Seq(Nat)]
      /\ file \in [head : Nat, version : Versions \cup {MF!Version}, meta : Metas, content : PairBytes]
  BY ZenonT(60) DEF MFInv, MFTypes
<1>3. h \in Headers /\ h.version = file.version
  BY <1>2 DEF Headers
<1> HIDE DEF h
<1>4. writer' \in [header : Headers, puts : Seq(Nat)] /\ writer'.puts = writer.puts /\ writer'.header = h
  BY <1>1, <1>2, <1>3
<1>5. MFTypes'
  <2>1. pc' \in {"open", "closed"}
    BY <1>1
  <2> QED
    BY <1>1, <1>2, <1>4, <2>1, ZenonT(60) DEF MFTypes
<1>6. file.head # 0
  <2>1. file.meta.len \in Nat /\ FixedLen \in Nat \ {0}
    BY <1>2, ManifestAssumption
  <2>2. file.head = FixedLen + file.meta.len
    BY <1>1, ZenonT(60) DEF MF!ReadHeader
  <2> QED
    BY <2>1, <2>2
<1>7. MF!Aligned' /\ MF!HeaderOfFile'
  BY <1>1, <1>3, <1>4, ZenonT(60) DEF MF!Aligned, MF!HeaderOfFile, MF!ReadHeader, h
<1> QED
  BY <1>1, <1>4, <1>5, <1>6, <1>7, ZenonT(60) DEF MFInv

LEMMA PutPairStep ==
    ASSUME MFInv, MF!Put
    PROVE  MFInv'
<1> DEFINE n == Len(writer.puts)
<1> DEFINE more == file.content \o MF!Bytes(n + 1)
<1>1. /\ pc = "open" /\ pc' = pc
      /\ writer' = [writer EXCEPT !.puts = Append(writer.puts, n + 1)]
      /\ file' = [file EXCEPT !.content = more]
  BY ZenonT(60) DEF MF!Put
<1>2. /\ writer \in [header : Headers, puts : Seq(Nat)]
      /\ file \in [head : Nat, version : Versions \cup {MF!Version}, meta : Metas, content : PairBytes]
  BY ZenonT(60) DEF MFInv, MFTypes
<1>3. n \in Nat /\ n + 1 \in Nat /\ writer.puts \in Seq(Nat) /\ file.content \in PairBytes
  BY <1>2
<1>4. Whole(file.content, n) /\ file.head # 0
  BY <1>1, ZenonT(60) DEF MFInv
<1>5. more \in PairBytes
  BY <1>3, PairTyped, Concatenated, ZenonT(60) DEF PairBytes
<1>6. Whole(more, n + 1) /\ Len(more) % PairLen = 0
  BY <1>3, <1>4, WholeAndOne, ZenonT(60)
<1> DEFINE longer == Append(writer.puts, n + 1)
<1>7. /\ longer \in Seq(Nat) /\ Len(longer) = n + 1
      /\ \A i \in 1..n + 1 : longer[i] = IF i = n + 1 THEN n + 1 ELSE writer.puts[i]
  BY <1>3
<1>8. \A i \in 1..n : writer.puts[i] = i
  BY ZenonT(60) DEF MFInv
<1> HIDE DEF n, more, longer
<1>9. /\ writer' \in [header : Headers, puts : Seq(Nat)] /\ writer'.puts = longer
      /\ writer'.header = writer.header
  <2>1. writer' = [writer EXCEPT !.puts = longer] /\ longer \in Seq(Nat)
    BY <1>1, <1>7, ZenonT(60) DEF longer
  <2> DEFINE P == Seq(Nat)
  <2>2. writer \in [header : Headers, puts : P] /\ longer \in P
    BY <1>2, <2>1, ZenonT(60)
  <2> HIDE DEF P
  <2>3. writer' \in [header : Headers, puts : P] /\ writer'.puts = longer /\ writer'.header = writer.header
    BY <2>1, <2>2
  <2> QED
    BY <2>3, ZenonT(60) DEF P
<1>10. /\ file' \in [head : Nat, version : Versions \cup {MF!Version}, meta : Metas, content : PairBytes]
       /\ file'.content = more /\ file'.head = file.head /\ file'.version = file.version /\ file'.meta = file.meta
  BY <1>1, <1>2, <1>5
<1>11. MFTypes'
  BY <1>1, <1>9, <1>10, ZenonT(60) DEF MFTypes, MFInv
<1>12. \A i \in 1..Len(writer'.puts) : writer'.puts[i] = i
  <2>1. \A i \in 1..n + 1 : longer[i] = i
    BY <1>3, <1>7, <1>8
  <2> QED
    BY <1>7, <1>9, <2>1, ZenonT(60)
<1>13. MF!Aligned' /\ Whole(file'.content, Len(writer'.puts))
  BY <1>6, <1>7, <1>9, <1>10, ZenonT(60) DEF MF!Aligned
<1>14. MF!HeaderOfFile'
  BY <1>1, <1>9, <1>10, ZenonT(60) DEF MFInv, MF!HeaderOfFile
<1> QED
  BY <1>4, <1>10, <1>11, <1>12, <1>13, <1>14, ZenonT(60) DEF MFInv

\* A Put that ends inside a pair leaves a file that is not aligned, and one that has
\* written nothing leaves it as it was.
LEMMA ClosedStep ==
    ASSUME MFInv, NEW content \in PairBytes, pc' = "closed",
           writer' = [writer EXCEPT !.header = MF!NoHeader],
           file' = [file EXCEPT !.content = content],
           content = file.content \/ Len(content) % PairLen # 0
    PROVE  MFInv'
<1>1. /\ writer \in [header : Headers, puts : Seq(Nat)]
      /\ file \in [head : Nat, version : Versions \cup {MF!Version}, meta : Metas, content : PairBytes]
  BY ZenonT(60) DEF MFInv, MFTypes
<1>2. MF!NoHeader \in Headers
  BY DEF Headers, MF!NoHeader
<1>3. writer' \in [header : Headers, puts : Seq(Nat)] /\ writer'.puts = writer.puts
  BY <1>1, <1>2
<1>4. /\ file' \in [head : Nat, version : Versions \cup {MF!Version}, meta : Metas, content : PairBytes]
      /\ file'.content = content /\ file'.head = file.head
  BY <1>1
<1>5. pc' \in {"open", "closed"} /\ pc' # "open"
  OBVIOUS
<1>6. MFTypes'
  BY <1>3, <1>4, <1>5, ZenonT(60) DEF MFTypes
<1>7. MF!Aligned' => Whole(file'.content, Len(writer'.puts))
  BY <1>3, <1>4, ZenonT(60) DEF MF!Aligned, MFInv
<1>8. MF!HeaderOfFile'
  BY <1>5, ZenonT(60) DEF MF!HeaderOfFile
<1> QED
  BY <1>3, <1>4, <1>5, <1>6, <1>7, <1>8, ZenonT(60) DEF MFInv

LEMMA CrashInPutStep ==
    ASSUME MFInv, NEW k \in 0..PairLen - 1, MF!CrashInPut(k)
    PROVE  MFInv'
<1> DEFINE n == Len(writer.puts)
<1> DEFINE content == file.content \o SubSeq(MF!Bytes(0), 1, k)
<1>1. /\ pc = "open" /\ pc' = "closed"
      /\ writer' = [writer EXCEPT !.header = MF!NoHeader]
      /\ file' = [file EXCEPT !.content = content]
  BY ZenonT(60) DEF MF!CrashInPut
<1>2. /\ writer \in [header : Headers, puts : Seq(Nat)]
      /\ file \in [head : Nat, version : Versions \cup {MF!Version}, meta : Metas, content : PairBytes]
  BY ZenonT(60) DEF MFInv, MFTypes
<1>3. n \in Nat /\ file.content \in PairBytes
  BY <1>2
<1>4. Whole(file.content, n)
  BY <1>1, ZenonT(60) DEF MFInv
<1>5. content \in PairBytes /\ Len(content) % PairLen = k /\ (k = 0 => content = file.content)
  BY <1>3, <1>4, WholeAndPart, ZenonT(60)
<1> HIDE DEF content
<1> QED
  BY <1>1, <1>5, ClosedStep, ZenonT(60)

LEMMA CloseStep ==
    ASSUME MFInv, MF!Close
    PROVE  MFInv'
<1>1. pc' = "closed" /\ writer' = [writer EXCEPT !.header = MF!NoHeader] /\ file' = file
  BY ZenonT(60) DEF MF!Close
<1>2. file \in [head : Nat, version : Versions \cup {MF!Version}, meta : Metas, content : PairBytes]
  BY ZenonT(60) DEF MFInv, MFTypes
<1>3. file.content \in PairBytes /\ [file EXCEPT !.content = file.content] = file
  BY <1>2
<1> QED
  BY <1>1, <1>3, ClosedStep, ZenonT(60)

LEMMA MFStep ==
    ASSUME MFInv, MF!Next
    PROVE  MFInv'
<1>1. ASSUME NEW m \in Metas, NEW n \in 1..FixedLen + 3, MF!CrashInHeader(m, n) PROVE MFInv'
  <2>1. n \in Nat \ {0}
    BY ManifestAssumption
  <2> QED
    BY <1>1, <2>1, CrashInHeaderStep, ZenonT(60)
<1> QED
  BY <1>1, NewManifestEmptyStep, NewManifestExistingStep, PutPairStep, CrashInPutStep, CloseStep, ZenonT(60)
  DEF MF!Next

\* ReadAll cuts the bytes of the pairs into the pairs that were put.
LEMMA PairsRead ==
    ASSUME MFInv
    PROVE  MF!PairsSurvive
<1> SUFFICES ASSUME pc = "open" PROVE MF!ReadAll = writer.puts
  BY ZenonT(60) DEF MF!PairsSurvive
<1> DEFINE n == Len(writer.puts)
<1> DEFINE c == file.content
<1>1. writer.puts \in Seq(Nat) /\ n \in Nat /\ c \in PairBytes
  <2>1. writer \in [header : Headers, puts : Seq(Nat)] /\ c \in PairBytes
    BY ZenonT(60) DEF MFInv, MFTypes
  <2> QED
    BY <2>1
<1>2. Len(c) = n * PairLen /\ \A j \in 1..n, i \in 1..PairLen : c[(j - 1) * PairLen + i] = <<j, i>>
  BY ZenonT(60) DEF MFInv, Whole
<1>3. Len(c) % PairLen = 0
  BY ZenonT(60) DEF MFInv, MF!Aligned
<1>4. \A i \in 1..n : writer.puts[i] = i
  BY ZenonT(60) DEF MFInv
<1>5. writer.puts = [i \in 1..n |-> i]
  BY <1>1, <1>4
<1>6. PairLen \in Nat \ {0} /\ n * PairLen \in Nat
  BY <1>1, ManifestAssumption, ProductNat
<1> DEFINE Cut(i) == SubSeq(c, (i - 1) * PairLen + 1, i * PairLen)
<1>7. MF!ReadAll = [i \in 1..Len(c) \div PairLen |->
                       IF Cut(i) = MF!Bytes(Cut(i)[1][1]) THEN Cut(i)[1][1] ELSE "garbled"]
  BY <1>3, ZenonT(60) DEF MF!ReadAll
<1>8. Len(c) \div PairLen = n
  <2>1. n \in Int /\ 0 \in 0..PairLen - 1
    BY <1>1, <1>6
  <2>2. (n * PairLen + 0) \div PairLen = n /\ n * PairLen + 0 = n * PairLen
    <3> HIDE DEF n
    <3> QED
      BY <1>6, <2>1, DivMod
  <2> QED
    BY <1>2, <2>2, ZenonT(60)
<1>9. ASSUME NEW i \in 1..n PROVE Cut(i) = MF!Bytes(i) /\ Cut(i)[1][1] = i
  <2> DEFINE a == (i - 1) * PairLen
  <2>1. a \in Nat /\ i * PairLen = a + PairLen /\ a + PairLen <= n * PairLen
    <3>1. i - 1 \in 0..n - 1
      BY <1>1
    <3>2. PairLen * (i - 1) \in Nat /\ PairLen * (i - 1) + PairLen <= PairLen * n
      BY <1>1, <1>6, <3>1, ItemsFit
    <3>3. a = PairLen * (i - 1) /\ i * PairLen = PairLen * (i - 1) + PairLen /\ PairLen * n = n * PairLen
      BY <1>1, <1>6, <3>1
    <3> QED
      BY <3>2, <3>3
  <2>2. Cut(i) = SubSeq(c, a + 1, a + PairLen)
    BY <2>1, ZenonT(60)
  <2>3. \A t \in 1..PairLen : c[a + t] = <<i, t>>
    BY <1>2, ZenonT(60)
  <2> HIDE DEF a, n, c
  <2>4. \A t \in a + 1..a + PairLen : c[t] \in Nat \X Nat
    <3>1. ASSUME NEW t \in a + 1..a + PairLen PROVE c[t] \in Nat \X Nat
      <4>1. t - a \in 1..PairLen /\ a + (t - a) = t
        BY <1>6, <2>1
      <4>2. c[a + (t - a)] = <<i, t - a>>
        BY <2>3, <4>1, ZenonT(60)
      <4>3. <<i, t - a>> \in Nat \X Nat
        BY <1>1, <4>1
      <4> QED
        BY <4>1, <4>2, <4>3, ZenonT(60)
    <3> QED
      BY <3>1
  <2>5. /\ SubSeq(c, a + 1, a + PairLen) \in PairBytes
        /\ Len(SubSeq(c, a + 1, a + PairLen)) = PairLen
        /\ \A t \in 1..PairLen : SubSeq(c, a + 1, a + PairLen)[t] = c[a + t]
    <3>1. /\ SubSeq(c, a + 1, a + PairLen) \in PairBytes
          /\ Len(SubSeq(c, a + 1, a + PairLen))
                 = IF a + 1 <= a + PairLen THEN (a + PairLen) - (a + 1) + 1 ELSE 0
          /\ \A t \in 1..(a + PairLen) - (a + 1) + 1 : SubSeq(c, a + 1, a + PairLen)[t] = c[(a + 1) + t - 1]
      <4> DEFINE f == a + 1
      <4> DEFINE g == a + PairLen
      <4> DEFINE P == Nat \X Nat
      <4>1. f \in Int /\ g \in Int /\ \A t \in f..g : c[t] \in P
        BY <1>6, <2>1, <2>4
      <4> HIDE DEF f, g, P
      <4>2. /\ SubSeq(c, f, g) \in Seq(P)
            /\ Len(SubSeq(c, f, g)) = IF f <= g THEN g - f + 1 ELSE 0
            /\ \A t \in 1..g - f + 1 : SubSeq(c, f, g)[t] = c[f + t - 1]
        BY <4>1, Extracted
      <4> QED
        BY <4>2, ZenonT(60) DEF f, g, P, PairBytes
    <3>2. (a + PairLen) - (a + 1) + 1 = PairLen /\ a + 1 <= a + PairLen
      BY <1>6, <2>1
    <3>3. \A t \in 1..PairLen : (a + 1) + t - 1 = a + t
      BY <1>6, <2>1
    <3> QED
      BY <3>1, <3>2, <3>3, ZenonT(60)
  <2> DEFINE cut == SubSeq(c, a + 1, a + PairLen)
  <2>6. cut = MF!Bytes(i)
    <3>1. cut \in PairBytes /\ Len(cut) = PairLen /\ \A t \in 1..PairLen : cut[t] = <<i, t>>
      BY <2>3, <2>5, ZenonT(60)
    <3> HIDE DEF cut
    <3>2. cut = [t \in 1..PairLen |-> cut[t]]
      BY <1>6, <3>1 DEF PairBytes
    <3>3. [t \in 1..PairLen |-> cut[t]] = [t \in 1..PairLen |-> <<i, t>>]
      BY <3>1, ZenonT(60)
    <3> QED
      BY <3>2, <3>3, ZenonT(60) DEF MF!Bytes
  <2>7. MF!Bytes(i)[1][1] = i
    BY <1>6 DEF MF!Bytes
  <2> QED
    BY <2>2, <2>6, <2>7, ZenonT(60)
<1>10. [i \in 1..n |-> IF Cut(i) = MF!Bytes(Cut(i)[1][1]) THEN Cut(i)[1][1] ELSE "garbled"] = [i \in 1..n |-> i]
  <2> HIDE DEF Cut, n
  <2> QED
    BY <1>9, ZenonT(60)
<1> QED
  BY <1>5, <1>7, <1>8, <1>10, ZenonT(60)
-----------------------------------------------------------------------------
(* The linked log.                                                          *)

PlaceType == [offset : Nat, size : Nat]
RecordType == [at : Nat, payload : Nat, key : Accounts, prev : PlaceType]

\* A place is none, or that of a record of the key among the first m.
Points(recs, place, k, m) ==
    \/ place = LL!NoPlace
    \/ \E j \in 1..m : /\ recs[j].at = place.offset
                       /\ recs[j].key = k
                       /\ place.size = LL!TotalLen(recs[j].payload)

\* Records lie one after the other, and each one points to an earlier one of its key.
Linked(recs, end) ==
    /\ \A i, j \in 1..Len(recs) : i < j => recs[i].at < recs[j].at
    /\ \A i \in 1..Len(recs) : recs[i].at < end /\ Points(recs, recs[i].prev, recs[i].key, i - 1)

LLInv ==
    /\ writer \in [offset : Nat, last : [Accounts -> PlaceType], crashes : Nat]
    /\ file \in [records : Seq(RecordType), flushed : Nat]
    /\ file.flushed <= Len(file.records)
    /\ Linked(file.records, writer.offset)
    /\ \A k \in Accounts : Points(file.records, writer.last[k], k, Len(file.records))

LEMMA LengthsAreNumbers == CompressedLens \subseteq Nat /\ MaxRecords \in Nat
<1>1. CompressedLens \subseteq 0..256 * 256 * 256 - 14 /\ MaxRecords \in Nat
  BY LinkedLogAssumption, ZenonT(60)
<1>2. 0..256 * 256 * 256 - 14 \subseteq Nat
  <2> DEFINE most == 256 * 256 * 256 - 14
  <2>1. most \in Int
    OBVIOUS
  <2> HIDE DEF most
  <2>2. 0..most \subseteq Nat
    BY <2>1
  <2> QED
    BY <2>2, ZenonT(60) DEF most
<1> QED
  BY <1>1, <1>2, ZenonT(60)

LEMMA UvarintSize ==
    ASSUME NEW n \in Nat
    PROVE  LL!SizeOfUvarint(n) \in 1..4 /\ LL!TotalLen(n) \in Nat /\ LL!TotalLen(n) > n
BY DEF LL!SizeOfUvarint, LL!TotalLen

LEMMA NoPlaceTyped == LL!NoPlace \in PlaceType
BY DEF LL!NoPlace, PlaceType

LEMMA LLStart ==
    ASSUME LL!Init
    PROVE  LLInv
<1>1. /\ writer = [offset |-> 0, last |-> [k \in Accounts |-> LL!NoPlace], crashes |-> 0]
      /\ file = [records |-> <<>>, flushed |-> 0]
  BY ZenonT(60) DEF LL!Init
<1>2. [k \in Accounts |-> LL!NoPlace] \in [Accounts -> PlaceType]
  BY NoPlaceTyped, ZenonT(60)
<1>3. /\ writer \in [offset : Nat, last : [Accounts -> PlaceType], crashes : Nat]
      /\ file \in [records : Seq(RecordType), flushed : Nat]
  BY <1>1, <1>2
<1>4. file.flushed = 0 /\ file.records = <<>> /\ Len(file.records) = 0
  BY <1>1
<1>5. \A k \in Accounts : writer.last[k] = LL!NoPlace
  BY <1>1, ZenonT(60)
<1>6. Linked(file.records, writer.offset)
  BY <1>4 DEF Linked
<1>7. file.flushed <= Len(file.records)
  BY <1>4
<1> QED
  BY <1>3, <1>5, <1>6, <1>7, ZenonT(60) DEF LLInv, Points

\* Two logs have the same first records.
Agree(recs, more, m) == \A i \in 1..m : more[i] = recs[i]

\* The other records do not matter to a place.
LEMMA PointsKept ==
    ASSUME NEW recs, NEW more, NEW m \in Nat, NEW l \in Nat, m <= l, Agree(recs, more, m),
           NEW place, NEW k, Points(recs, place, k, m)
    PROVE  Points(more, place, k, l)
<1>1. CASE place = LL!NoPlace
  BY <1>1, ZenonT(60) DEF Points
<1>2. CASE place # LL!NoPlace
  <2>1. PICK j \in 1..m : /\ recs[j].at = place.offset /\ recs[j].key = k
                          /\ place.size = LL!TotalLen(recs[j].payload)
    BY <1>2, ZenonT(60) DEF Points
  <2>2. j \in 1..l
    BY <2>1
  <2>3. more[j] = recs[j]
    BY <2>1, ZenonT(60) DEF Agree
  <2> QED
    BY <2>1, <2>2, <2>3, ZenonT(60) DEF Points
<1> QED
  BY <1>1, <1>2

LEMMA LinkedAndOne ==
    ASSUME NEW recs \in Seq(RecordType), NEW end \in Nat, Linked(recs, end),
           NEW r \in RecordType, r.at = end, Points(recs, r.prev, r.key, Len(recs)),
           NEW new \in Nat, new > end
    PROVE  Linked(Append(recs, r), new)
<1> DEFINE more == Append(recs, r)
<1> DEFINE n == Len(recs)
<1>1. n \in Nat /\ n + 1 \in Nat /\ Len(more) = n + 1 /\ more \in Seq(RecordType)
  OBVIOUS
<1>2. more[n + 1] = r
  OBVIOUS
<1>3. \A i \in 1..n : more[i] = recs[i]
  OBVIOUS
<1>4. \A i \in 1..n : recs[i] \in RecordType
  OBVIOUS
<1> HIDE DEF more, n
<1>5. /\ \A i, j \in 1..n : i < j => recs[i].at < recs[j].at
      /\ \A i \in 1..n : recs[i].at < end /\ Points(recs, recs[i].prev, recs[i].key, i - 1)
  BY ZenonT(60) DEF Linked, n
<1>6. ASSUME NEW i \in 1..n + 1, NEW j \in 1..n + 1, i < j PROVE more[i].at < more[j].at
  <2>1. i \in 1..n
    BY <1>1, <1>6
  <2>2. CASE j = n + 1
    BY <1>2, <1>3, <1>5, <2>1, <2>2, ZenonT(60)
  <2>3. CASE j # n + 1
    <3>1. j \in 1..n
      BY <1>1, <2>3
    <3> QED
      BY <1>3, <1>5, <1>6, <2>1, <3>1, ZenonT(60)
  <2> QED
    BY <2>2, <2>3
<1>7. ASSUME NEW i \in 1..n + 1
      PROVE  more[i].at < new /\ Points(more, more[i].prev, more[i].key, i - 1)
  <2>1. CASE i = n + 1
    <3>1. i - 1 = n /\ n <= n
      BY <1>1, <2>1
    <3>2. Points(more, r.prev, r.key, n)
      <4>1. Points(recs, r.prev, r.key, n)
        BY ZenonT(60) DEF n
      <4>2. Agree(recs, more, n)
        BY <1>3, ZenonT(60) DEF Agree
      <4> QED
        BY <1>1, <3>1, <4>1, <4>2, PointsKept
    <3>3. more[i].at < new /\ more[i] = r
      BY <1>2, <2>1
    <3> QED
      BY <3>1, <3>2, <3>3, ZenonT(60)
  <2>2. CASE i # n + 1
    <3>1. i \in 1..n /\ i - 1 \in Nat /\ i - 1 <= i - 1 /\ \A t \in 1..i - 1 : more[t] = recs[t]
      BY <1>1, <1>3, <2>2
    <3>2. Points(more, recs[i].prev, recs[i].key, i - 1)
      <4>1. Agree(recs, more, i - 1)
        BY <3>1, ZenonT(60) DEF Agree
      <4> QED
        BY <1>5, <3>1, <4>1, PointsKept
    <3>3. recs[i].at \in Nat
      BY <1>4, <3>1 DEF RecordType
    <3>4. recs[i].at < end
      BY <1>5, <3>1, ZenonT(60)
    <3>5. recs[i].at < new
      BY <3>3, <3>4
    <3> QED
      BY <1>3, <3>1, <3>2, <3>5, ZenonT(60)
  <2> QED
    BY <2>1, <2>2
<1> QED
  BY <1>1, <1>6, <1>7, ZenonT(60) DEF Linked, more

LEMMA PutRecordStep ==
    ASSUME LLInv, NEW k \in Accounts, NEW len \in CompressedLens, LL!Put(k, len)
    PROVE  LLInv'
<1> DEFINE payload == len + LL!NextLen
<1> DEFINE place == [offset |-> writer.offset, size |-> LL!TotalLen(payload)]
<1> DEFINE r == [at |-> writer.offset, payload |-> payload, key |-> k, prev |-> writer.last[k]]
<1> DEFINE recs == file.records
<1> DEFINE end == writer.offset + LL!TotalLen(payload)
<1>1. /\ file' = [file EXCEPT !.records = Append(recs, r)]
      /\ writer' = [writer EXCEPT !.offset = end, !.last[k] = place]
  BY ZenonT(60) DEF LL!Put
<1>2. /\ writer \in [offset : Nat, last : [Accounts -> PlaceType], crashes : Nat]
      /\ file \in [records : Seq(RecordType), flushed : Nat]
  BY ZenonT(60) DEF LLInv
<1>3. /\ writer.offset \in Nat /\ writer.last \in [Accounts -> PlaceType] /\ recs \in Seq(RecordType)
      /\ file.flushed \in Nat /\ Len(recs) \in Nat
  BY <1>2
<1>4. payload \in Nat
  BY LengthsAreNumbers DEF LL!NextLen
<1>5. LL!TotalLen(payload) \in Nat /\ LL!TotalLen(payload) > payload
  <2> HIDE DEF payload
  <2> QED
    BY <1>4, UvarintSize, ZenonT(60)
<1>6. end \in Nat /\ end > writer.offset
  <2> HIDE DEF payload
  <2> QED
    BY <1>3, <1>4, <1>5
<1>7. place \in PlaceType /\ place.offset = writer.offset /\ place.size = LL!TotalLen(payload)
  <2> HIDE DEF payload
  <2> QED
    BY <1>3, <1>5 DEF PlaceType
<1>8. r \in RecordType /\ r.at = writer.offset /\ r.key = k /\ r.prev = writer.last[k] /\ r.payload = payload
  <2> HIDE DEF payload
  <2> QED
    BY <1>3, <1>4 DEF RecordType
<1> HIDE DEF payload, place, r, end
<1>9. /\ file' \in [records : Seq(RecordType), flushed : Nat]
      /\ file'.records = Append(recs, r) /\ file'.flushed = file.flushed
  <2> DEFINE R == Seq(RecordType)
  <2> DEFINE grown == Append(recs, r)
  <2>1. grown \in R
    BY <1>3, <1>8
  <2>2. file \in [records : R, flushed : Nat] /\ file' = [file EXCEPT !.records = grown]
    BY <1>1, <1>2, ZenonT(60)
  <2> HIDE DEF R, grown, recs
  <2>3. file' \in [records : R, flushed : Nat] /\ file'.records = grown /\ file'.flushed = file.flushed
    BY <2>1, <2>2
  <2> QED
    BY <2>3, ZenonT(60) DEF R, grown, recs
<1>10. /\ writer' \in [offset : Nat, last : [Accounts -> PlaceType], crashes : Nat]
       /\ writer'.offset = end /\ writer'.last = [writer.last EXCEPT ![k] = place]
  <2>1. [writer.last EXCEPT ![k] = place] \in [Accounts -> PlaceType]
    BY <1>3, <1>7, ZenonT(60)
  <2>2. writer' = [writer EXCEPT !.offset = end, !.last = [writer.last EXCEPT ![k] = place]]
    BY <1>1, <1>2
  <2> DEFINE last == [writer.last EXCEPT ![k] = place]
  <2>3. writer' = [writer EXCEPT !.offset = end, !.last = last] /\ last \in [Accounts -> PlaceType]
    BY <2>1, <2>2, ZenonT(60)
  <2> HIDE DEF last
  <2> DEFINE L == [Accounts -> PlaceType]
  <2>4. writer \in [offset : Nat, last : L, crashes : Nat] /\ last \in L
    BY <1>2, <2>3, ZenonT(60)
  <2> HIDE DEF L
  <2>5. writer' \in [offset : Nat, last : L, crashes : Nat] /\ writer'.offset = end /\ writer'.last = last
    <3> DEFINE w == [writer EXCEPT !.offset = end]
    <3>1. w \in [offset : Nat, last : L, crashes : Nat] /\ w.offset = end
      BY <1>6, <2>4
    <3>2. writer' = [w EXCEPT !.last = last]
      BY <2>3, ZenonT(60)
    <3> HIDE DEF w
    <3> QED
      BY <2>4, <3>1, <3>2
  <2> QED
    BY <2>5, ZenonT(60) DEF last, L
<1>11. Points(recs, writer.last[k], k, Len(recs)) /\ Linked(recs, writer.offset)
  BY ZenonT(60) DEF LLInv
<1> HIDE DEF recs
<1>12. Linked(Append(recs, r), end)
  BY <1>3, <1>6, <1>8, <1>11, LinkedAndOne, ZenonT(60)
<1>13. /\ Len(Append(recs, r)) = Len(recs) + 1 /\ Append(recs, r)[Len(recs) + 1] = r
       /\ Agree(recs, Append(recs, r), Len(recs))
  BY <1>3, <1>8 DEF Agree
<1>14. ASSUME NEW a \in Accounts
       PROVE  Points(Append(recs, r), writer'.last[a], a, Len(recs) + 1)
  <2>1. CASE a = k
    <3>1. writer'.last[a] = place /\ Len(recs) + 1 \in 1..Len(recs) + 1
      BY <1>3, <1>10, <2>1
    <3> QED
      BY <1>7, <1>8, <1>13, <2>1, <3>1, ZenonT(60) DEF Points
  <2>2. CASE a # k
    <3>1. writer'.last[a] = writer.last[a]
      BY <1>3, <1>10, <2>2, ZenonT(60)
    <3>2. Points(recs, writer.last[a], a, Len(recs))
      BY ZenonT(60) DEF LLInv, recs
    <3>3. Len(recs) + 1 \in Nat /\ Len(recs) <= Len(recs) + 1
      BY <1>3
    <3> QED
      BY <1>3, <1>13, <3>1, <3>2, <3>3, PointsKept
  <2> QED
    BY <2>1, <2>2, ZenonT(60)
<1>15. file.flushed <= Len(recs) + 1
  <2>1. file.flushed <= Len(recs)
    BY ZenonT(60) DEF LLInv, recs
  <2> QED
    BY <1>3, <2>1
<1> QED
  <2>1. file'.flushed <= Len(file'.records)
    BY <1>9, <1>13, <1>15, ZenonT(60)
  <2> QED
    BY <1>9, <1>10, <1>12, <1>13, <1>14, <2>1, ZenonT(60) DEF LLInv

LEMMA FlushStep ==
    ASSUME LLInv, LL!Flush
    PROVE  LLInv'
<1>1. file' = [file EXCEPT !.flushed = Len(file.records)] /\ writer' = writer
  BY ZenonT(60) DEF LL!Flush
<1>2. file \in [records : Seq(RecordType), flushed : Nat]
  BY ZenonT(60) DEF LLInv
<1>3. /\ file' \in [records : Seq(RecordType), flushed : Nat]
      /\ file'.records = file.records /\ file'.flushed <= Len(file'.records)
  BY <1>1, <1>2
<1> QED
  BY <1>1, <1>3, ZenonT(60) DEF LLInv

\* What a crash leaves of the log is its first records.
LEMMA LinkedPrefix ==
    ASSUME NEW recs \in Seq(RecordType), NEW old, Linked(recs, old), NEW n \in 0..Len(recs), NEW end \in Nat,
           \A i \in 1..n : recs[i].at < end
    PROVE  Linked(SubSeq(recs, 1, n), end)
<1> DEFINE less == SubSeq(recs, 1, n)
<1>1. n \in Nat /\ Len(less) = n /\ \A i \in 1..n : less[i] = recs[i]
  OBVIOUS
<1>2. \A i \in 1..n : i \in 1..Len(recs)
  OBVIOUS
<1> HIDE DEF less
<1>3. ASSUME NEW i \in 1..n, NEW j \in 1..n, i < j PROVE less[i].at < less[j].at
  BY <1>1, <1>2, <1>3, ZenonT(60) DEF Linked
<1>4. ASSUME NEW i \in 1..n PROVE less[i].at < end /\ Points(less, less[i].prev, less[i].key, i - 1)
  <2>1. i - 1 \in Nat /\ i - 1 <= i - 1 /\ Agree(recs, less, i - 1)
    BY <1>1 DEF Agree
  <2>2. Points(recs, recs[i].prev, recs[i].key, i - 1)
    BY <1>2, ZenonT(60) DEF Linked
  <2>3. Points(less, recs[i].prev, recs[i].key, i - 1)
    BY <2>1, <2>2, PointsKept
  <2> QED
    BY <1>1, <2>3, ZenonT(60)
<1> QED
  BY <1>1, <1>3, <1>4, ZenonT(60) DEF Linked, less

LEMMA CrashStep ==
    ASSUME LLInv, NEW n \in Nat, NEW torn \in BOOLEAN, LL!CrashAndNewLinkedLog(n, torn)
    PROVE  LLInv'
<1> DEFINE recs == file.records
<1> DEFINE end == IF n = Len(recs) THEN writer.offset ELSE recs[n + 1].at
<1> DEFINE new == IF torn THEN end + 1 ELSE end
<1> DEFINE none == [k \in Accounts |-> LL!NoPlace]
<1>1. /\ n \in file.flushed..Len(recs)
      /\ file' = [records |-> SubSeq(recs, 1, n), flushed |-> n]
      /\ writer' = [offset |-> new, last |-> none, crashes |-> writer.crashes + 1]
  BY ZenonT(60) DEF LL!CrashAndNewLinkedLog
<1>2. /\ writer \in [offset : Nat, last : [Accounts -> PlaceType], crashes : Nat]
      /\ file \in [records : Seq(RecordType), flushed : Nat]
  BY ZenonT(60) DEF LLInv
<1>3. /\ writer.offset \in Nat /\ writer.crashes \in Nat /\ recs \in Seq(RecordType) /\ Len(recs) \in Nat
      /\ file.flushed \in Nat
  BY <1>2
<1>4. n \in 0..Len(recs)
  BY <1>1, <1>3
<1>5. Linked(recs, writer.offset)
  BY ZenonT(60) DEF LLInv
<1> HIDE DEF recs
<1>6. \A i \in 1..Len(recs) : recs[i].at \in Nat
  <2> SUFFICES ASSUME NEW i \in 1..Len(recs) PROVE recs[i].at \in Nat
    OBVIOUS
  <2>1. recs[i] \in RecordType
    BY <1>3
  <2> QED
    BY <2>1, ZenonT(60) DEF RecordType
<1>7. end \in Nat
  <2>1. CASE n = Len(recs)
    BY <1>3, <2>1
  <2>2. CASE n # Len(recs)
    <3>1. n + 1 \in 1..Len(recs)
      BY <1>3, <1>4, <2>2
    <3> QED
      BY <1>6, <2>2, <3>1, ZenonT(60)
  <2> QED
    BY <2>1, <2>2, ZenonT(60)
<1>8. \A i \in 1..n : recs[i].at < end
  <2> SUFFICES ASSUME NEW i \in 1..n PROVE recs[i].at < end
    OBVIOUS
  <2>1. i \in 1..Len(recs)
    BY <1>3, <1>4
  <2>2. CASE n = Len(recs)
    BY <1>5, <2>1, <2>2, ZenonT(60) DEF Linked
  <2>3. CASE n # Len(recs)
    <3>1. n + 1 \in 1..Len(recs) /\ i < n + 1
      BY <1>3, <1>4, <2>3
    <3> QED
      BY <1>5, <2>1, <2>3, <3>1, ZenonT(60) DEF Linked
  <2> QED
    BY <2>2, <2>3, ZenonT(60)
<1> HIDE DEF end
<1>9. new \in Nat /\ \A i \in 1..n : recs[i].at < new
  <2>1. \A i \in 1..n : recs[i].at \in Nat
    BY <1>3, <1>4, <1>6
  <2> QED
    BY <1>7, <1>8, <2>1
<1> HIDE DEF new
<1>10. Linked(SubSeq(recs, 1, n), new)
  BY <1>3, <1>4, <1>5, <1>9, LinkedPrefix, ZenonT(60)
<1>11. SubSeq(recs, 1, n) \in Seq(RecordType) /\ Len(SubSeq(recs, 1, n)) = n
  BY <1>3, <1>4
<1>12. none \in [Accounts -> PlaceType] /\ \A k \in Accounts : none[k] = LL!NoPlace
  BY NoPlaceTyped, ZenonT(60)
<1> HIDE DEF none
<1>13. /\ writer' \in [offset : Nat, last : [Accounts -> PlaceType], crashes : Nat]
       /\ writer'.offset = new /\ writer'.last = none
  BY <1>1, <1>3, <1>9, <1>12
<1>14. /\ file' \in [records : Seq(RecordType), flushed : Nat]
       /\ file'.records = SubSeq(recs, 1, n) /\ file'.flushed = n
  BY <1>1, <1>11
<1>15. file'.flushed <= Len(file'.records)
  BY <1>11, <1>14
<1> QED
  BY <1>10, <1>12, <1>13, <1>14, <1>15, ZenonT(60) DEF LLInv, Points

LEMMA LLStep ==
    ASSUME LLInv, LL!Next
    PROVE  LLInv'
<1>1. ASSUME NEW n \in 0..MaxRecords, NEW torn \in BOOLEAN, LL!CrashAndNewLinkedLog(n, torn) PROVE LLInv'
  <2>1. n \in Nat
    BY LengthsAreNumbers
  <2> QED
    BY <1>1, <2>1, CrashStep, ZenonT(60)
<1> QED
  BY <1>1, PutRecordStep, FlushStep, ZenonT(60) DEF LL!Next

\* One record of a walk, and what is left of the walk.
WalkFrom(rest, n) ==
    [place \in LL!Places |->
        IF n = 0 \/ place = LL!NoPlace THEN <<>>
        ELSE LET r == LL!ReadWithSize(place.offset, place.size)
             IN  IF r.ok THEN <<[key |-> r.key, at |-> place.offset]>> \o rest[r.prev]
                 ELSE <<[key |-> "unreadable", at |-> place.offset]>>]

\* The recursive definition of Walk has a solution.
LEMMA WalkDefined == LL!Walk = [n \in 0..MaxRecords |-> WalkFrom(LL!Walk[n - 1], n)]
<1> DEFINE S == {n \in Nat : \E f : f = [m \in 0..n |-> WalkFrom(f[m - 1], m)]}
<1>1. \A x, y : WalkFrom(x, 0) = WalkFrom(y, 0)
  BY ZenonT(60) DEF WalkFrom
<1>2. 0 \in S
  <2> DEFINE f == [m \in 0..0 |-> WalkFrom(0, 0)]
  <2>1. \A m \in 0..0 : m = 0
    OBVIOUS
  <2>2. f = [m \in 0..0 |-> WalkFrom(f[m - 1], m)]
    BY <1>1, <2>1, ZenonT(60)
  <2>3. 0 \in Nat
    OBVIOUS
  <2> QED
    BY <2>2, <2>3, ZenonT(60)
<1>3. ASSUME NEW n \in Nat, n \in S PROVE n + 1 \in S
  <2>1. PICK f : f = [m \in 0..n |-> WalkFrom(f[m - 1], m)]
    BY <1>3, ZenonT(60)
  <2> DEFINE g == [m \in 0..n + 1 |-> IF m = n + 1 THEN WalkFrom(f[n], n + 1) ELSE f[m]]
  <2>2. ASSUME NEW m \in 0..n + 1 PROVE g[m] = WalkFrom(g[m - 1], m)
    <3>1. CASE m = n + 1
      <4>1. m - 1 = n /\ n \in 0..n + 1 /\ n # n + 1
        BY <3>1
      <4>2. g[n] = f[n]
        BY <4>1, ZenonT(60)
      <4> QED
        BY <3>1, <4>1, <4>2, ZenonT(60)
    <3>2. CASE m = 0
      <4>1. 0 # n + 1 /\ 0 \in 0..n
        OBVIOUS
      <4>2. g[m] = f[0]
        BY <3>2, <4>1, ZenonT(60)
      <4>3. f[0] = WalkFrom(f[0 - 1], 0)
        BY <2>1, <4>1, ZenonT(60)
      <4> QED
        BY <1>1, <3>2, <4>2, <4>3, ZenonT(60)
    <3>3. CASE m # 0 /\ m # n + 1
      <4>1. m \in 0..n /\ m - 1 \in 0..n + 1 /\ m - 1 # n + 1
        BY <3>3
      <4>2. g[m] = f[m] /\ g[m - 1] = f[m - 1]
        BY <3>3, <4>1, ZenonT(60)
      <4>3. f[m] = WalkFrom(f[m - 1], m)
        BY <2>1, <4>1, ZenonT(60)
      <4> QED
        BY <4>2, <4>3, ZenonT(60)
    <3> QED
      BY <3>1, <3>2, <3>3, ZenonT(60)
  <2>3. g = [m \in 0..n + 1 |-> g[m]]
    BY ZenonT(60)
  <2> HIDE DEF g
  <2>4. g = [m \in 0..n + 1 |-> WalkFrom(g[m - 1], m)]
    BY <2>2, <2>3, ZenonT(60)
  <2>5. n + 1 \in Nat
    OBVIOUS
  <2> QED
    BY <2>4, <2>5, ZenonT(60)
<1> HIDE DEF S
<1>4. MaxRecords \in S
  BY <1>2, <1>3, SetInduction, LengthsAreNumbers, ZenonT(60)
<1>5. \E f : f = [m \in 0..MaxRecords |-> WalkFrom(f[m - 1], m)]
  BY <1>4, ZenonT(60) DEF S
<1>6. LL!Walk = CHOOSE f : f = [m \in 0..MaxRecords |-> WalkFrom(f[m - 1], m)]
  BY ZenonT(60) DEF LL!Walk, WalkFrom
<1> QED
  BY <1>5, <1>6, ZenonT(60)

\* Offsets tell records apart, so a record is found by its offset.
LEMMA ReadAtRecord ==
    ASSUME LLInv, file.flushed = Len(file.records), NEW j \in 1..Len(file.records), NEW size
    PROVE  /\ {i \in 1..file.flushed : file.records[i].at = file.records[j].at} = {j}
           /\ LL!ReadWithSize(file.records[j].at, size) =
                  IF /\ LL!SizeOfUvarint(size) = LL!SizeOfUvarint(file.records[j].payload)
                     /\ size = LL!SizeOfUvarint(size) + file.records[j].payload
                  THEN [ok |-> TRUE, key |-> file.records[j].key, prev |-> file.records[j].prev]
                  ELSE LL!Error
<1> DEFINE recs == file.records
<1> DEFINE found == {i \in 1..file.flushed : recs[i].at = recs[j].at}
<1>1. recs \in Seq(RecordType) /\ Linked(recs, writer.offset)
  <2>1. file \in [records : Seq(RecordType), flushed : Nat]
    BY ZenonT(60) DEF LLInv
  <2> QED
    BY <2>1, ZenonT(60) DEF LLInv
<1>2. ASSUME NEW i \in 1..Len(recs), recs[i].at = recs[j].at PROVE i = j
  <2>1. recs[i].at \in Nat /\ recs[j].at \in Nat
    <3>1. recs[i] \in RecordType /\ recs[j] \in RecordType
      BY <1>1
    <3> QED
      BY <3>1, ZenonT(60) DEF RecordType
  <2>2. i < j => recs[i].at < recs[j].at
    BY <1>1, ZenonT(60) DEF Linked
  <2>3. j < i => recs[j].at < recs[i].at
    BY <1>1, ZenonT(60) DEF Linked
  <2>4. Len(recs) \in Nat
    BY <1>1
  <2> QED
    BY <1>2, <2>1, <2>2, <2>3, <2>4
<1>3. found = {j}
  BY <1>2, ZenonT(60)
<1>4. (CHOOSE i \in found : TRUE) = j /\ found # {}
  <2> HIDE DEF found
  <2> QED
    BY <1>3, ZenonT(60)
<1> QED
  BY <1>3, <1>4, ZenonT(60) DEF LL!ReadWithSize

ChainType == Seq([key : Accounts \cup {"unreadable"}, at : Nat])

\* A record that ReadWithSize cannot read.
Unlucky(at) == \E j \in 1..Len(file.records) : file.records[j].at = at /\ LL!AtBoundary(file.records[j].payload)

\* A chain of the key's records, from the newest to the oldest, all before an offset.
Own(chain, k, top) ==
    /\ chain \in ChainType
    /\ \A i \in 1..Len(chain) : chain[i].key = k \/ Unlucky(chain[i].at)
    /\ \A i \in 1..Len(chain) : chain[i].at < top
    /\ \A i, j \in 1..Len(chain) : i < j => chain[i].at > chain[j].at

LEMMA NoneOwn ==
    ASSUME NEW k, NEW top
    PROVE  Own(<<>>, k, top)
BY DEF Own, ChainType

LEMMA OwnAndOne ==
    ASSUME NEW k, NEW mid \in Nat, NEW rest, Own(rest, k, mid), NEW top \in Nat, mid < top,
           NEW key \in Accounts \cup {"unreadable"}, key = k \/ Unlucky(mid)
    PROVE  Own(<<[key |-> key, at |-> mid]>> \o rest, k, top)
<1> DEFINE e == [key |-> key, at |-> mid]
<1> DEFINE T == [key : Accounts \cup {"unreadable"}, at : Nat]
<1> DEFINE chain == <<e>> \o rest
<1>1. e \in T /\ e.key = key /\ e.at = mid
  OBVIOUS
<1> HIDE DEF e, T
<1>2. rest \in Seq(T)
  BY ZenonT(60) DEF Own, ChainType, T
<1> DEFINE n == Len(rest)
<1>3. n \in Nat /\ chain \in Seq(T) /\ Len(chain) = n + 1
  BY <1>1, <1>2
<1>4. chain[1] = e
  BY <1>1, <1>2
<1>5. \A i \in 2..n + 1 : chain[i] = rest[i - 1]
  BY <1>1, <1>2
<1> HIDE DEF chain, n
<1>6. \A i \in 1..n : rest[i] \in T
  BY <1>2 DEF n
<1>7. \A i \in 1..n : rest[i].at \in Nat
  <2> SUFFICES ASSUME NEW i \in 1..n PROVE rest[i].at \in Nat
    OBVIOUS
  <2>1. rest[i] \in T
    BY <1>6, ZenonT(60)
  <2> QED
    BY <2>1, ZenonT(60) DEF T
<1>8. /\ \A i \in 1..n : rest[i].key = k \/ Unlucky(rest[i].at)
      /\ \A i \in 1..n : rest[i].at < mid
      /\ \A i, j \in 1..n : i < j => rest[i].at > rest[j].at
  BY ZenonT(60) DEF Own, n
<1>9. ASSUME NEW i \in 1..n + 1
      PROVE  /\ chain[i].key = k \/ Unlucky(chain[i].at)
             /\ chain[i].at < top
  <2>1. CASE i = 1
    BY <1>1, <1>4, <2>1, ZenonT(60)
  <2>2. CASE i # 1
    <3>1. i \in 2..n + 1 /\ i - 1 \in 1..n
      BY <1>3, <2>2
    <3>2. rest[i - 1].at \in Nat /\ rest[i - 1].at < mid
      BY <1>7, <1>8, <3>1, ZenonT(60)
    <3>3. rest[i - 1].at < top
      BY <3>2
    <3> QED
      BY <1>5, <1>8, <3>1, <3>3, ZenonT(60)
  <2> QED
    BY <2>1, <2>2
<1>10. ASSUME NEW i \in 1..n + 1, NEW j \in 1..n + 1, i < j PROVE chain[i].at > chain[j].at
  <2>1. j \in 2..n + 1 /\ j - 1 \in 1..n
    BY <1>3, <1>10
  <2>2. chain[j].at = rest[j - 1].at /\ rest[j - 1].at \in Nat /\ rest[j - 1].at < mid
    BY <1>5, <1>7, <1>8, <2>1, ZenonT(60)
  <2>3. CASE i = 1
    <3>1. chain[i].at = mid
      BY <1>1, <1>4, <2>3, ZenonT(60)
    <3> QED
      BY <2>2, <3>1
  <2>4. CASE i # 1
    <3>1. i \in 2..n + 1 /\ i - 1 \in 1..n /\ i - 1 < j - 1
      BY <1>3, <1>10, <2>4
    <3>2. rest[i - 1].at > rest[j - 1].at
      BY <1>8, <2>1, <3>1, ZenonT(60)
    <3> QED
      BY <1>5, <2>2, <3>1, <3>2, ZenonT(60)
  <2> QED
    BY <2>3, <2>4
<1>11. Own(chain, k, top)
  <2>1. chain \in ChainType
    BY <1>3, ZenonT(60) DEF ChainType, T
  <2> QED
    BY <1>3, <1>9, <1>10, <2>1, ZenonT(60) DEF Own
<1> QED
  BY <1>11, ZenonT(60) DEF chain, e

\* A place is that of a record, which is read unless its size is an unlucky one.
LEMMA ReadAtPlace ==
    ASSUME LLInv, file.flushed = Len(file.records), NEW k \in Accounts, NEW place, place # LL!NoPlace,
           Points(file.records, place, k, Len(file.records))
    PROVE  /\ place.offset \in Nat
           /\ LET r == LL!ReadWithSize(place.offset, place.size)
              IN  IF r.ok
                  THEN /\ r.key = k
                       /\ r.prev \in LL!Places
                       /\ Points(file.records, r.prev, k, Len(file.records))
                       /\ r.prev = LL!NoPlace \/ r.prev.offset < place.offset
                  ELSE Unlucky(place.offset)
<1> DEFINE recs == file.records
<1>1. recs \in Seq(RecordType) /\ Linked(recs, writer.offset)
  <2>1. file \in [records : Seq(RecordType), flushed : Nat]
    BY ZenonT(60) DEF LLInv
  <2> QED
    BY <2>1, ZenonT(60) DEF LLInv
<1>2. PICK j \in 1..Len(recs) : /\ recs[j].at = place.offset /\ recs[j].key = k
                                /\ place.size = LL!TotalLen(recs[j].payload)
  BY ZenonT(60) DEF Points
<1>3. Len(recs) \in Nat /\ recs[j] \in RecordType /\ j \in DOMAIN recs /\ j - 1 \in Nat /\ j - 1 <= Len(recs)
  BY <1>1
<1>4. recs[j].at \in Nat /\ recs[j].payload \in Nat
  BY <1>3, ZenonT(60) DEF RecordType
<1> DEFINE fits == /\ LL!SizeOfUvarint(place.size) = LL!SizeOfUvarint(recs[j].payload)
                   /\ place.size = LL!SizeOfUvarint(place.size) + recs[j].payload
<1> DEFINE good == [ok |-> TRUE, key |-> recs[j].key, prev |-> recs[j].prev]
<1>5. LL!ReadWithSize(place.offset, place.size) = IF fits THEN good ELSE LL!Error
  <2>1. LL!ReadWithSize(recs[j].at, place.size) = IF fits THEN good ELSE LL!Error
    BY ReadAtRecord, ZenonT(60)
  <2> QED
    BY <1>2, <2>1, ZenonT(60)
<1>6. good.ok = TRUE /\ good.key = k /\ good.prev = recs[j].prev
  BY <1>2, ZenonT(60)
<1>7. LL!Error.ok = FALSE
  BY ZenonT(60) DEF LL!Error
<1>8. ~fits => LL!AtBoundary(recs[j].payload)
  BY <1>2, ZenonT(60) DEF LL!AtBoundary, LL!TotalLen
<1>9. Points(recs, recs[j].prev, k, j - 1)
  BY <1>1, <1>2, ZenonT(60) DEF Linked
<1>10. Points(recs, recs[j].prev, k, Len(recs))
  <2>1. Agree(recs, recs, j - 1)
    BY ZenonT(60) DEF Agree
  <2> QED
    BY <1>3, <1>9, <2>1, PointsKept
<1>11. recs[j].prev = LL!NoPlace \/ recs[j].prev.offset < place.offset
  <2> SUFFICES ASSUME recs[j].prev # LL!NoPlace PROVE recs[j].prev.offset < place.offset
    BY ZenonT(60)
  <2>1. PICK i \in 1..j - 1 : recs[i].at = recs[j].prev.offset
    BY <1>9, ZenonT(60) DEF Points
  <2>2. i \in 1..Len(recs) /\ i < j
    BY <1>3
  <2>3. recs[i].at < recs[j].at
    BY <1>1, <2>2, ZenonT(60) DEF Linked
  <2> QED
    BY <1>2, <2>1, <2>3, ZenonT(60)
<1>12. recs[j].prev \in LL!Places
  BY <1>3, ZenonT(60) DEF LL!Places
<1>13. LL!AtBoundary(recs[j].payload) => Unlucky(place.offset)
  BY <1>2, ZenonT(60) DEF Unlucky
<1> HIDE DEF fits, good
<1> QED
  BY <1>2, <1>4, <1>5, <1>6, <1>7, <1>8, <1>10, <1>11, <1>12, <1>13, ZenonT(60)

\* A walk from a place of a key has that key's records, up to one that cannot be read.
LEMMA WalkIsOwn ==
    ASSUME LLInv, file.flushed = Len(file.records), NEW k \in Accounts
    PROVE  \A n \in 0..MaxRecords : \A place \in LL!Places, top \in Nat :
               /\ Points(file.records, place, k, Len(file.records))
               /\ place = LL!NoPlace \/ place.offset < top
               => Own(LL!Walk[n][place], k, top)
<1> DEFINE From(place, top) == /\ Points(file.records, place, k, Len(file.records))
                               /\ place = LL!NoPlace \/ place.offset < top
<1> DEFINE S == {n \in Nat : n \in 0..MaxRecords =>
                                \A place \in LL!Places, top \in Nat :
                                    From(place, top) => Own(LL!Walk[n][place], k, top)}
<1>1. ASSUME NEW n \in 0..MaxRecords, NEW place \in LL!Places
      PROVE  /\ n = 0 \/ place = LL!NoPlace => LL!Walk[n][place] = <<>>
             /\ ~(n = 0 \/ place = LL!NoPlace) =>
                    LL!Walk[n][place] =
                        LET r == LL!ReadWithSize(place.offset, place.size)
                        IN  IF r.ok THEN <<[key |-> r.key, at |-> place.offset]>> \o LL!Walk[n - 1][r.prev]
                            ELSE <<[key |-> "unreadable", at |-> place.offset]>>
  <2>1. LL!Walk[n] = WalkFrom(LL!Walk[n - 1], n)
    BY WalkDefined, ZenonT(60)
  <2> QED
    BY <2>1, ZenonT(60) DEF WalkFrom
<1>2. 0 \in S
  <2>1. 0 \in Nat
    OBVIOUS
  <2> QED
    BY <1>1, <2>1, NoneOwn, ZenonT(60)
<1>3. ASSUME NEW n \in Nat, n \in S PROVE n + 1 \in S
  <2> SUFFICES ASSUME n + 1 \in 0..MaxRecords, NEW place \in LL!Places, NEW top \in Nat, From(place, top)
               PROVE  Own(LL!Walk[n + 1][place], k, top)
    <3>1. n + 1 \in Nat
      OBVIOUS
    <3> QED
      BY <3>1, ZenonT(60)
  <2>1. n \in 0..MaxRecords /\ n + 1 # 0 /\ (n + 1) - 1 = n
    BY LengthsAreNumbers
  <2>2. CASE place = LL!NoPlace
    BY <1>1, <2>2, NoneOwn, ZenonT(60)
  <2>3. CASE place # LL!NoPlace
    <3> DEFINE r == LL!ReadWithSize(place.offset, place.size)
    <3>1. /\ place.offset \in Nat
          /\ IF r.ok
             THEN /\ r.key = k
                  /\ r.prev \in LL!Places
                  /\ Points(file.records, r.prev, k, Len(file.records))
                  /\ r.prev = LL!NoPlace \/ r.prev.offset < place.offset
             ELSE Unlucky(place.offset)
      BY <2>3, ReadAtPlace, ZenonT(60)
    <3>2. LL!Walk[n + 1][place] =
              IF r.ok THEN <<[key |-> r.key, at |-> place.offset]>> \o LL!Walk[n][r.prev]
              ELSE <<[key |-> "unreadable", at |-> place.offset]>>
      BY <1>1, <2>1, <2>3, ZenonT(60)
    <3>3. place.offset < top
      BY <2>3, ZenonT(60)
    <3> HIDE DEF r
    <3>4. CASE r.ok
      <4>1. Own(LL!Walk[n][r.prev], k, place.offset)
        BY <1>3, <2>1, <3>1, <3>4, ZenonT(60)
      <4>2. r.key \in Accounts \cup {"unreadable"} /\ r.key = k
        BY <3>1, <3>4, ZenonT(60)
      <4>3. Own(<<[key |-> r.key, at |-> place.offset]>> \o LL!Walk[n][r.prev], k, top)
        BY <3>1, <3>3, <4>1, <4>2, OwnAndOne, ZenonT(60)
      <4> QED
        BY <3>2, <3>4, <4>3, ZenonT(60)
    <3>5. CASE ~r.ok
      <4> DEFINE e == [key |-> "unreadable", at |-> place.offset]
      <4>1. Own(<<>>, k, place.offset)
        BY NoneOwn, ZenonT(60)
      <4>2. Own(<<e>> \o <<>>, k, top)
        BY <3>1, <3>3, <3>5, <4>1, OwnAndOne, ZenonT(60)
      <4>3. <<e>> \o <<>> = <<e>>
        <5> HIDE DEF e
        <5> QED
          OBVIOUS
      <4> QED
        BY <3>2, <3>5, <4>2, <4>3, ZenonT(60)
    <3> QED
      BY <3>4, <3>5, ZenonT(60)
  <2> QED
    BY <2>2, <2>3, ZenonT(60)
<1>4. \A n \in Nat : n \in S
  <2> HIDE DEF S
  <2> QED
    BY <1>2, <1>3, SetInduction, ZenonT(60)
<1>5. \A n \in 0..MaxRecords : n \in Nat
  BY LengthsAreNumbers
<1> QED
  BY <1>4, <1>5, ZenonT(60)

LEMMA ChainsRead ==
    ASSUME LLInv
    PROVE  LL!ChainsReadable
<1> SUFFICES ASSUME file.flushed = Len(file.records), NEW k \in Accounts
             PROVE  /\ \A i \in DOMAIN LL!Chain(k) :
                           \/ LL!Chain(k)[i].key = k
                           \/ \E j \in DOMAIN file.records :
                                  file.records[j].at = LL!Chain(k)[i].at /\ LL!AtBoundary(file.records[j].payload)
                    /\ \A i, j \in DOMAIN LL!Chain(k) : i < j => LL!Chain(k)[i].at > LL!Chain(k)[j].at
  BY ZenonT(60) DEF LL!ChainsReadable
<1> DEFINE chain == LL!Chain(k)
<1> DEFINE place == writer.last[k]
<1>1. /\ writer \in [offset : Nat, last : [Accounts -> PlaceType], crashes : Nat]
      /\ file \in [records : Seq(RecordType), flushed : Nat]
  BY ZenonT(60) DEF LLInv
<1>2. DOMAIN file.records = 1..Len(file.records)
  BY <1>1
<1>3. place \in PlaceType
  BY <1>1
<1>4. place.offset + 1 \in Nat /\ place.offset < place.offset + 1
  BY <1>3 DEF PlaceType
<1>5. place \in LL!Places /\ Points(file.records, place, k, Len(file.records))
  BY ZenonT(60) DEF LL!Places, LLInv
<1>6. MaxRecords \in 0..MaxRecords
  BY LengthsAreNumbers
<1>7. Own(chain, k, place.offset + 1)
  BY <1>4, <1>5, <1>6, WalkIsOwn, ZenonT(60) DEF LL!Chain
<1> HIDE DEF chain
<1>8. DOMAIN chain = 1..Len(chain)
  <2>1. chain \in Seq([key : Accounts \cup {"unreadable"}, at : Nat])
    BY <1>7, ZenonT(60) DEF Own, ChainType
  <2> QED
    BY <2>1
<1>9. /\ \A i \in DOMAIN chain :
             \/ chain[i].key = k
             \/ \E j \in DOMAIN file.records :
                    file.records[j].at = chain[i].at /\ LL!AtBoundary(file.records[j].payload)
      /\ \A i, j \in DOMAIN chain : i < j => chain[i].at > chain[j].at
  BY <1>2, <1>7, <1>8, ZenonT(60) DEF Own, Unlucky
<1> QED
  BY <1>9, ZenonT(60) DEF chain
-----------------------------------------------------------------------------
(* The three files.                                                         *)

IndexInv ==
    /\ which = "blocktimeindex" => BTInv
    /\ which = "linkedlog" => LLInv
    /\ which = "manifest" => MFInv

LEMMA FilesApart ==
    /\ "blocktimeindex" # "indexes" /\ "blocktimeindex" # "linkedlog" /\ "blocktimeindex" # "manifest"
    /\ "indexes" # "linkedlog" /\ "indexes" # "manifest" /\ "linkedlog" # "manifest"
OBVIOUS

LEMMA IndexStart ==
    ASSUME IndexInit
    PROVE  IndexInv
BY BTStart, LLStart, MFStart, FilesApart, ZenonT(60) DEF IndexInit, IndexInv

LEMMA IndexStep ==
    ASSUME IndexInv, IndexNext, UNCHANGED which
    PROVE  IndexInv'
<1>1. CASE which = "blocktimeindex" /\ BT!Next
  BY <1>1, BTStep, FilesApart, ZenonT(60) DEF IndexInv
<1>2. CASE which = "indexes" /\ TI!Next
  BY <1>2, FilesApart, ZenonT(60) DEF IndexInv
<1>3. CASE which = "linkedlog" /\ LL!Next
  BY <1>3, LLStep, FilesApart, ZenonT(60) DEF IndexInv
<1>4. CASE which = "manifest" /\ MF!Next
  BY <1>4, MFStep, FilesApart, ZenonT(60) DEF IndexInv
<1> QED
  BY <1>1, <1>2, <1>3, <1>4, ZenonT(60) DEF IndexNext

LEMMA IndexStutter ==
    ASSUME IndexInv, UNCHANGED <<which, pc, writer, file>>
    PROVE  IndexInv'
<1>1. which' = which /\ pc' = pc /\ writer' = writer /\ file' = file
  BY ZenonT(60)
<1>2. BTInv => BTInv'
  BY <1>1, ZenonT(60) DEF BTInv, TimesKept, TimesWritten, AllFit
<1>3. LLInv => LLInv'
  BY <1>1, ZenonT(60) DEF LLInv
<1>4. MFInv => MFInv'
  BY <1>1, ZenonT(60) DEF MFInv, MFTypes, MF!Aligned, MF!HeaderOfFile
<1> QED
  BY <1>1, <1>2, <1>3, <1>4, ZenonT(60) DEF IndexInv

\* The invariant of the file that a behaviour is about holds in every state of it.
THEOREM IndexFilesInvariant == IndexSpec => []IndexInv
<1>1. IndexInit => IndexInv
  BY IndexStart, ZenonT(60)
<1>2. IndexInv /\ [IndexNext /\ UNCHANGED which]_<<which, pc, writer, file>> => IndexInv'
  BY IndexStep, IndexStutter, ZenonT(60)
<1> QED
  BY <1>1, <1>2, PTL DEF IndexSpec

\* Block times: after any sets and any cut of the file, a complete file gives every time
\* that was set last, a cut one that FromBytes accepts is wrong about the last slot at
\* most, and WriteTo refuses exactly the times that do not fit.
THEOREM BlockTimes == IndexSpec => []BlockTimesExact
<1>1. IndexInv => BlockTimesExact
  BY CompleteTimes, CutTimes, RefusedTimes, ZenonT(60) DEF IndexInv, BlockTimesExact
<1> QED
  BY <1>1, IndexFilesInvariant, PTL

\* The files of gsfa: the linked log gives back the chain of every account up to a record
\* whose size byte is misread, and the manifest gives back its header and its pairs in
\* order, after any crashes in Put, Flush and NewManifest.
THEOREM GsfaFiles == IndexSpec => []GsfaFilesExact
<1>1. IndexInv => GsfaFilesExact
  <2>1. MFInv => MF!HeaderOfFile
    BY ZenonT(60) DEF MFInv
  <2> QED
    BY <2>1, ChainsRead, PairsRead, ZenonT(60) DEF IndexInv, GsfaFilesExact
<1> QED
  BY <1>1, IndexFilesInvariant, PTL
=============================================================================
