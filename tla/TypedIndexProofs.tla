-------------------------- MODULE TypedIndexProofs --------------------------
(***************************************************************************)
(* Proofs about the wrappers of the compact indexes in module IndexFiles,   *)
(* for every set of roots, keys and networks and any calls.                 *)
(***************************************************************************)
EXTENDS IndexFiles, TLAPS

\* A leaf that names no prover is tried with SMT, with Zenon, and again with SMT;
\* the numbers are seconds.
USE SMTT(60), ZenonT(60), SMTT(90)
-----------------------------------------------------------------------------
EntryType == [key : {"rootCid", "network", "kind"}, value : Roots \cup TI!Valid \cup TI!Kinds]
PutType == [key : Roots \cup Sigs, value : Roots \cup (PutOffsets \X PutSizes)]
WriterType == [kind : TI!Kinds, root : Roots \ {TI!Undef}, network : TI!Valid, meta : Seq(EntryType),
               puts : Seq(PutType), seals : Nat, temp : BOOLEAN, flushed : BOOLEAN]

OldFormat == [magic |-> "rdcecidx"]
NewFile(meta, values, complete) == [magic |-> "compiszd", meta |-> meta, values |-> values, complete |-> complete]

\* The metadata begin with the root, the network and the kind.
MetaGood(meta, w) ==
    /\ meta \in Seq(EntryType)
    /\ Len(meta) >= 3
    /\ meta[1] = [key |-> "rootCid", value |-> w.root]
    /\ meta[2] = [key |-> "network", value |-> w.network]
    /\ meta[3] = [key |-> "kind", value |-> w.kind]

Idle == {"start", "refused"}
Active == {"open", "sealing", "sealed", "failed", "panic", "closed"}

PutSet(w) == {w.puts[i] : i \in DOMAIN w.puts}

TIInv ==
    /\ pc \in Idle \cup Active
    /\ pc \in Idle => writer = TI!NoWriter /\ file \in {TI!NoFile, OldFormat}
    /\ pc = "start" => file = TI!NoFile
    /\ pc \in Active =>
           /\ writer \in WriterType
           /\ MetaGood(writer.meta, writer) \/ (writer.kind = TI!SigToCid /\ writer.meta = <<>>)
           /\ \/ file = TI!NoFile
              \/ file = NewFile(file.meta, file.values, file.complete) /\ MetaGood(file.meta, writer)
           /\ writer.kind = TI!CidToOffsetAndSize =>
                  \A i \in DOMAIN writer.puts : writer.puts[i].key # TI!Undef
           /\ ~writer.temp => pc = "closed"
    /\ pc \in {"sealing", "sealed", "closed"} => file = NewFile(file.meta, file.values, file.complete)
    /\ pc \in {"sealed", "closed"} =>
           writer.flushed /\ ~TI!Duplicates /\ file.complete = TRUE /\ file.values = PutSet(writer)
    /\ pc = "panic" => writer.flushed

LEMMA TIStart ==
    ASSUME TI!Init
    PROVE  TIInv
<1>1. pc = "start" /\ writer = TI!NoWriter /\ file = TI!NoFile
  BY ZenonT(60) DEF TI!Init
<1>2. /\ pc \in Idle /\ pc \notin Active /\ pc \notin {"sealing", "sealed", "closed"}
      /\ pc \notin {"sealed", "closed"} /\ pc # "panic"
  BY <1>1 DEF Idle, Active
<1> QED
  BY <1>1, <1>2, ZenonT(60) DEF TIInv

\* What setDefaultMetadata adds is right, and what is there already stays in front of it.
LEMMA DefaultIsGood ==
    ASSUME NEW w, w.root \in Roots, w.network \in TI!Valid, w.kind \in TI!Kinds,
           NEW meta, meta = <<>> \/ MetaGood(meta, w)
    PROVE  MetaGood(TI!SetDefaultMetadata(meta, w), w)
<1> DEFINE a == [key |-> "rootCid", value |-> w.root]
<1> DEFINE b == [key |-> "network", value |-> w.network]
<1> DEFINE c == [key |-> "kind", value |-> w.kind]
<1>1. a \in EntryType /\ b \in EntryType /\ c \in EntryType
  <2> DEFINE V == Roots \cup TI!Valid \cup TI!Kinds
  <2>1. w.root \in V /\ w.network \in V /\ w.kind \in V
    BY ZenonT(60)
  <2> HIDE DEF V
  <2> DEFINE T == [key : {"rootCid", "network", "kind"}, value : V]
  <2>2. a \in T /\ b \in T /\ c \in T
    BY <2>1
  <2> QED
    BY <2>2, ZenonT(60) DEF EntryType, V
<1> HIDE DEF a, b, c
<1>2. <<a, b, c>> \in Seq(EntryType) /\ Len(<<a, b, c>>) = 3
      /\ <<a, b, c>>[1] = a /\ <<a, b, c>>[2] = b /\ <<a, b, c>>[3] = c
  BY <1>1
<1> DEFINE d == <<a, b, c>>
<1>3. d \in Seq(EntryType) /\ Len(d) = 3 /\ d[1] = a /\ d[2] = b /\ d[3] = c
  BY <1>2
<1>4. TI!SetDefaultMetadata(meta, w) = meta \o d
  BY ZenonT(60) DEF TI!SetDefaultMetadata, a, b, c
<1> HIDE DEF d
<1>5. CASE meta = <<>>
  <2>1. meta \o d = d
    BY <1>3, <1>5
  <2>2. Len(d) >= 3
    BY <1>3
  <2> QED
    BY <1>3, <1>4, <2>1, <2>2, ZenonT(60) DEF MetaGood, a, b, c
<1>6. CASE MetaGood(meta, w)
  <2>1. meta \in Seq(EntryType) /\ Len(meta) >= 3 /\ meta[1] = a /\ meta[2] = b /\ meta[3] = c
    BY <1>6, ZenonT(60) DEF MetaGood, a, b, c
  <2>2. /\ meta \o d \in Seq(EntryType) /\ Len(meta \o d) >= 3
        /\ (meta \o d)[1] = meta[1] /\ (meta \o d)[2] = meta[2] /\ (meta \o d)[3] = meta[3]
    BY <1>3, <2>1
  <2> QED
    BY <1>4, <2>1, <2>2, ZenonT(60) DEF MetaGood, a, b, c
<1> QED
  BY <1>5, <1>6, ZenonT(60)

\* getDefaultMetadata reads the first value of each key.
LEMMA GoodIsRead ==
    ASSUME NEW w, NEW meta, MetaGood(meta, w)
    PROVE  /\ TI!Value(meta, "rootCid") = w.root
           /\ TI!Value(meta, "network") = w.network
           /\ TI!Value(meta, "kind") = w.kind
<1>1. /\ meta \in Seq(EntryType) /\ Len(meta) >= 3
      /\ meta[1] = [key |-> "rootCid", value |-> w.root]
      /\ meta[2] = [key |-> "network", value |-> w.network]
      /\ meta[3] = [key |-> "kind", value |-> w.kind]
  BY ZenonT(60) DEF MetaGood
<1>2. DOMAIN meta = 1..Len(meta) /\ Len(meta) \in Nat
  BY <1>1
<1>3. 1 \in DOMAIN meta /\ 2 \in DOMAIN meta /\ 3 \in DOMAIN meta /\ DOMAIN meta \subseteq Nat \ {0}
  BY <1>1, <1>2
<1>4. /\ meta[1].key = "rootCid" /\ meta[1].value = w.root
      /\ meta[2].key = "network" /\ meta[2].value = w.network
      /\ meta[3].key = "kind" /\ meta[3].value = w.kind
  BY <1>1
<1> DEFINE At(key) == {i \in DOMAIN meta : meta[i].key = key}
<1> DEFINE First(S) == CHOOSE i \in S : \A j \in S : i <= j
<1>5. ASSUME NEW S \in SUBSET Nat, NEW m \in S, \A i \in S : i >= m PROVE First(S) = m
  <2>1. \A i \in S : m <= i
    BY <1>5
  <2>2. First(S) \in S /\ \A i \in S : First(S) <= i
    BY <2>1, ZenonT(60)
  <2> HIDE DEF First
  <2>3. First(S) <= m /\ m <= First(S) /\ First(S) \in Nat /\ m \in Nat
    BY <2>1, <2>2, ZenonT(60)
  <2> DEFINE f == First(S)
  <2>4. f <= m /\ m <= f /\ f \in Nat /\ m \in Nat
    BY <2>3, ZenonT(60)
  <2> HIDE DEF f
  <2>5. f = m
    BY <2>4
  <2> QED
    BY <2>5, ZenonT(60) DEF f
<1>6. /\ 1 \in At("rootCid") /\ \A i \in At("rootCid") : i >= 1
      /\ 2 \in At("network") /\ \A i \in At("network") : i >= 2
      /\ 3 \in At("kind") /\ \A i \in At("kind") : i >= 3
  <2>1. "rootCid" # "network" /\ "rootCid" # "kind" /\ "network" # "kind"
    OBVIOUS
  <2>2. 1 \notin At("network") /\ 1 \notin At("kind") /\ 2 \notin At("kind")
    BY <1>4, <2>1, ZenonT(60)
  <2>3. 1 \in At("rootCid") /\ 2 \in At("network") /\ 3 \in At("kind")
    BY <1>3, <1>4, ZenonT(60)
  <2>4. At("rootCid") \subseteq Nat \ {0} /\ At("network") \subseteq Nat \ {0} /\ At("kind") \subseteq Nat \ {0}
    BY <1>3, ZenonT(60)
  <2> HIDE DEF At
  <2> QED
    BY <2>2, <2>3, <2>4
<1>7. At("rootCid") \in SUBSET Nat /\ At("network") \in SUBSET Nat /\ At("kind") \in SUBSET Nat
  BY <1>3
<1>8. ASSUME NEW key, At(key) # {} PROVE TI!Value(meta, key) = meta[First(At(key))].value
  BY <1>8, ZenonT(60) DEF TI!Value
<1>9. First(At("rootCid")) = 1 /\ First(At("network")) = 2 /\ First(At("kind")) = 3
  <2> HIDE DEF At, First
  <2> QED
    BY <1>5, <1>6, <1>7, ZenonT(60)
<1>10. At("rootCid") # {} /\ At("network") # {} /\ At("kind") # {}
  BY <1>6, ZenonT(60)
<1> HIDE DEF At, First
<1> QED
  BY <1>4, <1>8, <1>9, <1>10, ZenonT(60)

LEMMA GoodOfSame ==
    ASSUME NEW meta, NEW v, NEW w, MetaGood(meta, v), w.root = v.root, w.network = v.network, w.kind = v.kind
    PROVE  MetaGood(meta, w)
BY ZenonT(60) DEF MetaGood

\* The constructors: the metadata are right, or are left to Seal.
LEMMA NewStep ==
    ASSUME TIInv, NEW kind \in TI!Kinds, NEW meta, NEW root \in Roots, NEW network,
           TI!New(kind, meta, root, network),
           TI!IsValidNetwork(network) => \/ MetaGood(meta, [kind |-> kind, root |-> root, network |-> network])
                                         \/ kind = TI!SigToCid /\ meta = <<>>
    PROVE  TIInv'
<1>1. pc = "start" /\ file' = file
  BY ZenonT(60) DEF TI!New
<1>2. writer = TI!NoWriter /\ file = TI!NoFile
  BY <1>1 DEF TIInv, Idle
<1>3. CASE ~TI!IsValidNetwork(network) \/ root = TI!Undef
  <2>1. pc' = "refused" /\ writer' = writer
    BY <1>3, ZenonT(60) DEF TI!New
  <2>2. /\ pc' \in Idle /\ pc' \notin Active /\ pc' # "start" /\ pc' \notin {"sealing", "sealed", "closed"}
        /\ pc' \notin {"sealed", "closed"} /\ pc' # "panic"
    BY <2>1 DEF Idle, Active
  <2> QED
    BY <1>1, <1>2, <2>1, <2>2, ZenonT(60) DEF TIInv
<1>4. CASE TI!IsValidNetwork(network) /\ root # TI!Undef
  <2>1. /\ pc' = "open"
        /\ writer' = [kind |-> kind, root |-> root, network |-> network, meta |-> meta,
                      puts |-> <<>>, seals |-> 0, temp |-> TRUE, flushed |-> FALSE]
    BY <1>4, ZenonT(60) DEF TI!New
  <2>2. /\ pc' \in Active /\ pc' \notin Idle /\ pc' # "start" /\ pc' \notin {"sealing", "sealed", "closed"}
        /\ pc' \notin {"sealed", "closed"} /\ pc' # "panic"
    BY <2>1 DEF Idle, Active
  <2>3. meta \in Seq(EntryType)
    <3>1. <<>> \in Seq(EntryType)
      OBVIOUS
    <3> QED
      BY <1>4, <3>1, ZenonT(60) DEF MetaGood
  <2>4. network \in TI!Valid
    BY <1>4, ZenonT(60) DEF TI!IsValidNetwork
  <2> DEFINE K == TI!Kinds
  <2> DEFINE V == TI!Valid
  <2> DEFINE R == Roots \ {TI!Undef}
  <2>5. kind \in K /\ network \in V /\ root \in R
    BY <1>4, <2>4, ZenonT(60)
  <2> HIDE DEF K, V, R
  <2>6. writer' \in [kind : K, root : R, network : V, meta : Seq(EntryType), puts : Seq(PutType),
                     seals : Nat, temp : BOOLEAN, flushed : BOOLEAN]
    BY <2>1, <2>3, <2>5
  <2>7. writer' \in WriterType
    BY <2>6, ZenonT(60) DEF WriterType, K, V, R
  <2>8. /\ writer'.meta = meta /\ writer'.kind = kind /\ writer'.root = root /\ writer'.network = network
        /\ DOMAIN writer'.puts = {} /\ writer'.temp
    BY <2>1
  <2>9. MetaGood(writer'.meta, writer') \/ (writer'.kind = TI!SigToCid /\ writer'.meta = <<>>)
    <3> DEFINE w == [kind |-> kind, root |-> root, network |-> network]
    <3>1. w.kind = kind /\ w.root = root /\ w.network = network
      BY ZenonT(60)
    <3>2. MetaGood(meta, w) \/ (kind = TI!SigToCid /\ meta = <<>>)
      BY <1>4, ZenonT(60)
    <3> HIDE DEF w
    <3>3. MetaGood(meta, w) => MetaGood(writer'.meta, writer')
      BY <2>8, <3>1, ZenonT(60) DEF MetaGood
    <3> QED
      BY <2>8, <3>2, <3>3, ZenonT(60)
  <2> QED
    BY <1>1, <1>2, <2>2, <2>7, <2>8, <2>9, ZenonT(60) DEF TIInv
<1> QED
  BY <1>3, <1>4, ZenonT(60)

LEMMA NewWriterStep ==
    ASSUME TIInv, TI!NewWriter
    PROVE  TIInv'
<1>1. PICK r \in Roots, n \in Networks :
          \/ TI!NewWriter_CidToOffsetAndSize(r, n) \/ TI!NewWriter_SlotToCid(r, n)
          \/ TI!NewWriter_PubkeyToOffsetAndSize(r, n) \/ TI!NewWriter_SigToCid(r, n)
  BY ZenonT(60) DEF TI!NewWriter
<1>2. /\ TI!CidToOffsetAndSize \in TI!Kinds /\ TI!SlotToCid \in TI!Kinds
      /\ TI!PubkeyToOffsetAndSize \in TI!Kinds /\ TI!SigToCid \in TI!Kinds
  BY ZenonT(60) DEF TI!Kinds
<1>3. ASSUME NEW kind \in TI!Kinds, TI!NewWithMetadata(kind, r, n) PROVE TIInv'
  <2> DEFINE w == [kind |-> kind, root |-> r, network |-> n]
  <2>1. w.kind = kind /\ w.root = r /\ w.network = n
    BY ZenonT(60)
  <2>2. TI!New(kind, TI!SetDefaultMetadata(<<>>, w), r, n)
    BY <1>3, ZenonT(60) DEF TI!NewWithMetadata
  <2> HIDE DEF w
  <2>3. TI!IsValidNetwork(n) => MetaGood(TI!SetDefaultMetadata(<<>>, w), w)
    BY <2>1, DefaultIsGood, ZenonT(60) DEF TI!IsValidNetwork
  <2> QED
    BY <2>2, <2>3, NewStep, ZenonT(60) DEF w
<1>4. CASE TI!NewWriter_SigToCid(r, n)
  BY <1>2, <1>4, NewStep, ZenonT(60) DEF TI!NewWriter_SigToCid
<1> QED
  BY <1>1, <1>2, <1>3, <1>4, ZenonT(60)
  DEF TI!NewWriter_CidToOffsetAndSize, TI!NewWriter_SlotToCid, TI!NewWriter_PubkeyToOffsetAndSize

LEMMA OldFileStep ==
    ASSUME TIInv, TI!OldFile
    PROVE  TIInv'
<1>1. pc = "start" /\ file' = OldFormat /\ pc' = "refused" /\ writer' = writer
  BY ZenonT(60) DEF TI!OldFile, OldFormat
<1>2. /\ pc' \in Idle /\ pc' \notin Active /\ pc' # "start" /\ pc' \notin {"sealing", "sealed", "closed"}
      /\ pc' \notin {"sealed", "closed"} /\ pc' # "panic" /\ pc \in Idle
  BY <1>1 DEF Idle, Active
<1> QED
  BY <1>1, <1>2, ZenonT(60) DEF TIInv

\* What is known of a writer and its file while there is one.
ActiveInv ==
    /\ writer \in WriterType
    /\ MetaGood(writer.meta, writer) \/ (writer.kind = TI!SigToCid /\ writer.meta = <<>>)
    /\ \/ file = TI!NoFile
       \/ file = NewFile(file.meta, file.values, file.complete) /\ MetaGood(file.meta, writer)
    /\ writer.kind = TI!CidToOffsetAndSize => \A i \in DOMAIN writer.puts : writer.puts[i].key # TI!Undef

LEMMA ActiveOnly ==
    ASSUME pc \in Active
    PROVE  TIInv <=> /\ ActiveInv
                     /\ ~writer.temp => pc = "closed"
                     /\ pc \in {"sealing", "sealed", "closed"} =>
                            file = NewFile(file.meta, file.values, file.complete)
                     /\ pc \in {"sealed", "closed"} =>
                            /\ writer.flushed /\ ~TI!Duplicates
                            /\ file.complete = TRUE /\ file.values = PutSet(writer)
                     /\ pc = "panic" => writer.flushed
<1>1. pc \notin Idle /\ pc # "start"
  BY DEF Active, Idle
<1> QED
  BY <1>1, ZenonT(60) DEF TIInv, ActiveInv

LEMMA PanicStep ==
    ASSUME TIInv, pc \in {"open", "failed", "sealed"}, writer.flushed, TI!Panic, file' = file
    PROVE  TIInv'
<1>1. pc' = "panic" /\ writer' = writer
  BY ZenonT(60) DEF TI!Panic
<1>2. /\ pc \in Active /\ pc # "closed"
      /\ pc' \in Active /\ pc' \notin {"sealing", "sealed", "closed"} /\ pc' \notin {"sealed", "closed"}
  BY <1>1 DEF Active
<1>3. ActiveInv /\ (~writer.temp => pc = "closed")
  BY <1>2, ActiveOnly, ZenonT(60)
<1>4. ActiveInv'
  BY <1>1, <1>3, ZenonT(60) DEF ActiveInv
<1>5. writer'.temp /\ writer'.flushed
  BY <1>1, <1>2, <1>3, ZenonT(60)
<1> QED
  BY <1>2, <1>4, <1>5, ActiveOnly, ZenonT(60) DEF TIInv, ActiveInv, Active, Idle

\* Insert takes a key and a value while the index is not sealed.
LEMMA InsertStep ==
    ASSUME TIInv, pc \in {"open", "failed", "sealed"}, file' = file, NEW key, NEW value,
           [key |-> key, value |-> value] \in PutType,
           writer.kind = TI!CidToOffsetAndSize => key # TI!Undef,
           TI!Insert(key, value)
    PROVE  TIInv'
<1> DEFINE p == [key |-> key, value |-> value]
<1>1. CASE writer.flushed /\ TI!Panic
  BY <1>1, PanicStep, ZenonT(60)
<1>2. CASE /\ pc # "sealed"
           /\ writer' = [writer EXCEPT !.puts = Append(writer.puts, p)]
           /\ pc' = pc
  <2>1. /\ pc \in Active /\ pc \notin {"sealing", "sealed", "closed"} /\ pc \notin {"sealed", "closed"}
        /\ pc # "closed" /\ pc # "panic"
    BY <1>2 DEF Active
  <2>2. ActiveInv /\ writer.temp
    BY <2>1, ActiveOnly, ZenonT(60)
  <2>3. writer \in WriterType
    BY <2>2, ZenonT(60) DEF ActiveInv
  <2>4. p \in PutType /\ p.key = key
    BY ZenonT(60)
  <2> HIDE DEF p
  <2>5. writer.puts \in Seq(PutType)
    BY <2>3, ZenonT(60) DEF WriterType
  <2> DEFINE more == Append(writer.puts, p)
  <2>6. /\ more \in Seq(PutType) /\ DOMAIN more = 1..Len(writer.puts) + 1
        /\ \A i \in 1..Len(writer.puts) : more[i] = writer.puts[i]
        /\ more[Len(writer.puts) + 1] = p /\ DOMAIN writer.puts = 1..Len(writer.puts)
        /\ Len(writer.puts) \in Nat
    BY <2>4, <2>5
  <2>7. writer' = [writer EXCEPT !.puts = more]
    BY <1>2, ZenonT(60)
  <2> HIDE DEF more
  <2> DEFINE K == TI!Kinds
  <2> DEFINE V == TI!Valid
  <2> DEFINE R == Roots \ {TI!Undef}
  <2> DEFINE M == Seq(EntryType)
  <2> DEFINE P == Seq(PutType)
  <2>8. writer \in [kind : K, root : R, network : V, meta : M, puts : P, seals : Nat,
                    temp : BOOLEAN, flushed : BOOLEAN] /\ more \in P
    BY <2>3, <2>6, ZenonT(60) DEF WriterType
  <2> HIDE DEF K, V, R, M, P
  <2>9. /\ writer' \in [kind : K, root : R, network : V, meta : M, puts : P, seals : Nat,
                        temp : BOOLEAN, flushed : BOOLEAN]
        /\ writer'.puts = more /\ writer'.kind = writer.kind /\ writer'.root = writer.root
        /\ writer'.network = writer.network /\ writer'.meta = writer.meta /\ writer'.temp = writer.temp
    BY <2>7, <2>8
  <2>10. writer' \in WriterType
    BY <2>9, ZenonT(60) DEF WriterType, K, V, R, M, P
  <2>11. /\ MetaGood(writer.meta, writer) => MetaGood(writer'.meta, writer')
         /\ MetaGood(file.meta, writer) => MetaGood(file'.meta, writer')
    BY <2>9, ZenonT(60) DEF MetaGood
  <2>12. writer'.kind = TI!CidToOffsetAndSize => \A i \in DOMAIN writer'.puts : writer'.puts[i].key # TI!Undef
    <3> SUFFICES ASSUME writer.kind = TI!CidToOffsetAndSize, NEW i \in 1..Len(writer.puts) + 1
                 PROVE  more[i].key # TI!Undef
      BY <2>6, <2>9, ZenonT(60)
    <3>1. CASE i = Len(writer.puts) + 1
      BY <2>4, <2>6, <3>1, ZenonT(60)
    <3>2. CASE i # Len(writer.puts) + 1
      <4>1. i \in 1..Len(writer.puts)
        BY <2>6, <3>2
      <4> QED
        BY <2>2, <2>6, <4>1, ZenonT(60) DEF ActiveInv
    <3> QED
      BY <3>1, <3>2, ZenonT(60)
  <2>13. ActiveInv'
    BY <2>2, <2>9, <2>10, <2>11, <2>12, ZenonT(60) DEF ActiveInv
  <2>14. pc' \in Active /\ writer'.temp
    BY <1>2, <2>1, <2>2, <2>9, ZenonT(60)
  <2>15. pc' \notin Idle /\ pc' # "start"
    BY <2>14 DEF Active, Idle
  <2> QED
    BY <1>2, <2>1, <2>13, <2>14, <2>15, ZenonT(60) DEF TIInv, ActiveInv
<1> QED
  BY <1>1, <1>2, ZenonT(60) DEF TI!Insert

LEMMA PutStep ==
    ASSUME TIInv, TI!Put
    PROVE  TIInv'
<1>1. TI!Refuse /\ file' = file => TIInv'
  BY ZenonT(60) DEF TI!Refuse, TIInv, TI!Duplicates
<1>2. ASSUME NEW kind, TI!Calling(kind)
      PROVE  pc \in {"open", "failed", "sealed"} /\ file' = file /\ writer.kind = kind
  BY <1>2, ZenonT(60) DEF TI!Calling
<1>3. ASSUME NEW key \in Roots \cup Sigs, NEW value \in Roots \cup (PutOffsets \X PutSizes)
      PROVE  [key |-> key, value |-> value] \in PutType
  BY ZenonT(60) DEF PutType
<1>4. ASSUME NEW cid \in Roots, NEW offset \in PutOffsets, NEW size \in PutSizes,
             TI!Put_CidToOffsetAndSize(cid, offset, size)
      PROVE  TIInv'
  <2>1. pc \in {"open", "failed", "sealed"} /\ file' = file /\ writer.kind = TI!CidToOffsetAndSize
    BY <1>2, <1>4, ZenonT(60) DEF TI!Put_CidToOffsetAndSize
  <2>2. [key |-> cid, value |-> <<offset, size>>] \in PutType
    BY <1>3, ZenonT(60)
  <2>3. (TI!Refuse \/ (cid # TI!Undef /\ TI!Insert(cid, <<offset, size>>)))
    BY <1>4, ZenonT(60) DEF TI!Put_CidToOffsetAndSize, TI!InsertPacked
  <2> QED
    BY <1>1, <2>1, <2>2, <2>3, InsertStep, ZenonT(60)
<1>5. ASSUME NEW key \in Sigs, NEW cid \in Roots, TI!Put_SlotToCid(key, cid) \/ TI!Put_SigToCid(key, cid)
      PROVE  TIInv'
  <2>1. /\ pc \in {"open", "failed", "sealed"} /\ file' = file
        /\ writer.kind = TI!SlotToCid \/ writer.kind = TI!SigToCid
    BY <1>2, <1>5, ZenonT(60) DEF TI!Put_SlotToCid, TI!Put_SigToCid
  <2>2. [key |-> key, value |-> cid] \in PutType
    BY <1>3, ZenonT(60)
  <2>3. TI!Refuse \/ TI!Insert(key, cid)
    BY <1>5, ZenonT(60) DEF TI!Put_SlotToCid, TI!Put_SigToCid
  <2>4. writer.kind # TI!CidToOffsetAndSize
    BY <2>1 DEF TI!SlotToCid, TI!SigToCid, TI!CidToOffsetAndSize
  <2> QED
    BY <1>1, <2>1, <2>2, <2>3, <2>4, InsertStep, ZenonT(60)
<1>6. ASSUME NEW key \in Sigs, NEW offset \in PutOffsets, NEW size \in PutSizes,
             TI!Put_PubkeyToOffsetAndSize(key, offset, size)
      PROVE  TIInv'
  <2>1. pc \in {"open", "failed", "sealed"} /\ file' = file /\ writer.kind = TI!PubkeyToOffsetAndSize
    BY <1>2, <1>6, ZenonT(60) DEF TI!Put_PubkeyToOffsetAndSize
  <2>2. [key |-> key, value |-> <<offset, size>>] \in PutType
    BY <1>3, ZenonT(60)
  <2>3. TI!Refuse \/ TI!Insert(key, <<offset, size>>)
    BY <1>6, ZenonT(60) DEF TI!Put_PubkeyToOffsetAndSize, TI!InsertPacked
  <2>4. writer.kind # TI!CidToOffsetAndSize
    BY <2>1 DEF TI!PubkeyToOffsetAndSize, TI!CidToOffsetAndSize
  <2> QED
    BY <1>1, <2>1, <2>2, <2>3, <2>4, InsertStep, ZenonT(60)
<1> QED
  BY <1>4, <1>5, <1>6, ZenonT(60) DEF TI!Put

\* Seal writes the header; what was put stays as it is.
LEMMA SealIntoStep ==
    ASSUME TIInv, NEW kind, NEW meta, TI!SealInto(kind, meta), pc \in Active => MetaGood(meta, writer)
    PROVE  TIInv'
<1>1. /\ pc \in {"open", "failed"}
      /\ file' = NewFile(meta, {}, FALSE)
      /\ writer' = [writer EXCEPT !.meta = meta, !.seals = writer.seals + 1]
      /\ pc' = IF writer.flushed THEN "panic" ELSE "sealing"
  BY ZenonT(60) DEF TI!SealInto, NewFile
<1>2. pc \in Active /\ pc # "closed"
  BY <1>1 DEF Active
<1>3. ActiveInv /\ writer.temp /\ MetaGood(meta, writer)
  BY <1>2, ActiveOnly, ZenonT(60)
<1>4. writer \in WriterType /\ meta \in Seq(EntryType)
  BY <1>3, ZenonT(60) DEF ActiveInv, MetaGood
<1> DEFINE K == TI!Kinds
<1> DEFINE V == TI!Valid
<1> DEFINE R == Roots \ {TI!Undef}
<1> DEFINE M == Seq(EntryType)
<1> DEFINE P == Seq(PutType)
<1> DEFINE W == [kind : K, root : R, network : V, meta : M, puts : P, seals : Nat, temp : BOOLEAN, flushed : BOOLEAN]
<1>5. writer \in W /\ meta \in M
  BY <1>4, ZenonT(60) DEF WriterType
<1> HIDE DEF K, V, R, M, P
<1> DEFINE w == [writer EXCEPT !.meta = meta]
<1>6. /\ w \in W /\ w.meta = meta /\ w.kind = writer.kind /\ w.root = writer.root /\ w.network = writer.network
      /\ w.puts = writer.puts /\ w.temp = writer.temp /\ w.flushed = writer.flushed
      /\ w.seals = writer.seals /\ writer.seals \in Nat
  BY <1>5
<1>7. writer' = [w EXCEPT !.seals = writer.seals + 1]
  BY <1>1, ZenonT(60)
<1> HIDE DEF w
<1>8. /\ writer' \in W /\ writer'.meta = meta /\ writer'.kind = writer.kind /\ writer'.root = writer.root
      /\ writer'.network = writer.network /\ writer'.puts = writer.puts /\ writer'.temp = writer.temp
      /\ writer'.flushed = writer.flushed
  BY <1>6, <1>7
<1>9. writer' \in WriterType
  BY <1>8, ZenonT(60) DEF WriterType, K, V, R, M, P
<1>10. MetaGood(meta, writer')
  BY <1>3, <1>8, GoodOfSame, ZenonT(60)
<1>11. file'.meta = meta /\ file' = NewFile(file'.meta, file'.values, file'.complete)
  BY <1>1 DEF NewFile
<1>12. ActiveInv'
  BY <1>3, <1>8, <1>9, <1>10, <1>11, ZenonT(60) DEF ActiveInv
<1>13. /\ pc' \in Active /\ pc' \notin Idle /\ pc' # "start" /\ pc' \notin {"sealed", "closed"}
       /\ pc' = "panic" => writer.flushed
  BY <1>1 DEF Active, Idle
<1> QED
  BY <1>3, <1>8, <1>11, <1>12, <1>13, ZenonT(60) DEF TIInv, ActiveInv

LEMMA SealStep ==
    ASSUME TIInv, TI!Seal
    PROVE  TIInv'
<1>1. pc \in Active => ActiveInv
  BY ActiveOnly, ZenonT(60)
<1>2. ASSUME NEW kind, kind # TI!SigToCid, TI!SealInto(kind, writer.meta) PROVE TIInv'
  <2>1. writer.kind # TI!SigToCid
    BY <1>2, ZenonT(60) DEF TI!SealInto
  <2>2. pc \in Active => MetaGood(writer.meta, writer)
    BY <1>1, <2>1, ZenonT(60) DEF ActiveInv
  <2> QED
    BY <1>2, <2>2, SealIntoStep, ZenonT(60)
<1>3. /\ TI!CidToOffsetAndSize # TI!SigToCid /\ TI!SlotToCid # TI!SigToCid
      /\ TI!PubkeyToOffsetAndSize # TI!SigToCid
  BY DEF TI!CidToOffsetAndSize, TI!SigToCid, TI!SlotToCid, TI!PubkeyToOffsetAndSize
<1>4. CASE TI!Seal_SigToCid
  <2>1. TI!SealInto(TI!SigToCid, TI!SetDefaultMetadata(writer.meta, writer))
    BY <1>4, ZenonT(60) DEF TI!Seal_SigToCid
  <2>2. pc \in Active => MetaGood(TI!SetDefaultMetadata(writer.meta, writer), writer)
    <3> SUFFICES ASSUME pc \in Active PROVE MetaGood(TI!SetDefaultMetadata(writer.meta, writer), writer)
      BY ZenonT(60)
    <3>1. writer \in WriterType /\ (MetaGood(writer.meta, writer) \/ writer.meta = <<>>)
      BY <1>1, ZenonT(60) DEF ActiveInv
    <3>2. writer.root \in Roots /\ writer.network \in TI!Valid /\ writer.kind \in TI!Kinds
      BY <3>1, ZenonT(60) DEF WriterType
    <3> QED
      BY <3>1, <3>2, DefaultIsGood, ZenonT(60)
  <2> QED
    BY <2>1, <2>2, SealIntoStep, ZenonT(60)
<1> QED
  BY <1>2, <1>3, <1>4, ZenonT(60)
  DEF TI!Seal, TI!Seal_CidToOffsetAndSize, TI!Seal_SlotToCid, TI!Seal_PubkeyToOffsetAndSize

\* A step that changes one of the flags of the writer, and of the file its values at most.
LEMMA FlagStep ==
    ASSUME TIInv, pc \in {"sealing", "sealed"}, NEW flushed \in BOOLEAN, NEW temp \in BOOLEAN,
           writer' \in {[writer EXCEPT !.flushed = flushed], [writer EXCEPT !.temp = temp]},
           file'.meta = file.meta, file' = NewFile(file'.meta, file'.values, file'.complete)
    PROVE  /\ ActiveInv'
           /\ writer' = [writer EXCEPT !.flushed = flushed] => writer'.flushed = flushed /\ writer'.temp
           /\ writer' = [writer EXCEPT !.temp = temp] => writer'.flushed = writer.flushed
           /\ writer'.puts = writer.puts
<1>1. pc \in Active /\ pc # "closed" /\ pc \in {"sealing", "sealed", "closed"}
  BY DEF Active
<1>2. ActiveInv /\ writer.temp /\ file = NewFile(file.meta, file.values, file.complete)
  BY <1>1, ActiveOnly, ZenonT(60)
<1>3. writer \in WriterType
  BY <1>2, ZenonT(60) DEF ActiveInv
<1> DEFINE K == TI!Kinds
<1> DEFINE V == TI!Valid
<1> DEFINE R == Roots \ {TI!Undef}
<1> DEFINE M == Seq(EntryType)
<1> DEFINE P == Seq(PutType)
<1> DEFINE W == [kind : K, root : R, network : V, meta : M, puts : P, seals : Nat, temp : BOOLEAN, flushed : BOOLEAN]
<1>4. writer \in W
  BY <1>3, ZenonT(60) DEF WriterType
<1> HIDE DEF K, V, R, M, P
<1> DEFINE Same(w) == /\ w \in W /\ w.meta = writer.meta /\ w.kind = writer.kind /\ w.root = writer.root
                      /\ w.network = writer.network /\ w.puts = writer.puts
<1>5. ASSUME writer' = [writer EXCEPT !.flushed = flushed]
      PROVE  Same(writer') /\ writer'.flushed = flushed /\ writer'.temp = writer.temp
  BY <1>4, <1>5
<1>6. ASSUME writer' = [writer EXCEPT !.temp = temp]
      PROVE  Same(writer') /\ writer'.flushed = writer.flushed
  BY <1>4, <1>6
<1>7. Same(writer')
  <2> HIDE DEF W
  <2> QED
    BY <1>5, <1>6, ZenonT(60)
<1>8. writer' \in WriterType
  BY <1>7, ZenonT(60) DEF WriterType, K, V, R, M, P
<1>9. MetaGood(file.meta, writer)
  <2>1. file # TI!NoFile
    <3>1. file.magic = "compiszd" /\ TI!NoFile.magic = "none"
      BY <1>2 DEF NewFile, TI!NoFile
    <3> QED
      BY <3>1
  <2> QED
    BY <1>2, <2>1, ZenonT(60) DEF ActiveInv
<1>10. /\ MetaGood(writer.meta, writer) => MetaGood(writer'.meta, writer')
       /\ MetaGood(file'.meta, writer')
  BY <1>7, <1>9, ZenonT(60) DEF MetaGood
<1>11. ActiveInv'
  BY <1>2, <1>7, <1>8, <1>10, ZenonT(60) DEF ActiveInv
<1> QED
  BY <1>2, <1>5, <1>6, <1>7, <1>11, ZenonT(60)

LEMMA SameDuplicates ==
    ASSUME writer'.puts = writer.puts
    PROVE  (TI!Duplicates' <=> TI!Duplicates) /\ PutSet(writer') = PutSet(writer)
<1> DEFINE Twice(s) == \E i, j \in DOMAIN s : i # j /\ s[i].key = s[j].key
<1> DEFINE Members(s) == {s[i] : i \in DOMAIN s}
<1>1. (TI!Duplicates <=> Twice(writer.puts)) /\ (TI!Duplicates' <=> Twice(writer'.puts))
  BY ZenonT(60) DEF TI!Duplicates
<1>2. PutSet(writer) = Members(writer.puts) /\ PutSet(writer') = Members(writer'.puts)
  BY ZenonT(60) DEF PutSet
<1> HIDE DEF Twice, Members
<1> QED
  BY <1>1, <1>2, ZenonT(60)

LEMMA SealCompletesStep ==
    ASSUME TIInv, TI!SealCompletes
    PROVE  TIInv'
<1> DEFINE values == {writer.puts[i] : i \in DOMAIN writer.puts}
<1>1. /\ pc = "sealing" /\ ~TI!Duplicates /\ pc' = "sealed"
      /\ file' = [file EXCEPT !.complete = TRUE, !.values = values]
      /\ writer' = [writer EXCEPT !.flushed = TRUE]
  BY ZenonT(60) DEF TI!SealCompletes
<1> HIDE DEF values
<1>2. pc \in {"sealing", "sealed"} /\ pc \in {"sealing", "sealed", "closed"}
  BY <1>1
<1>3. file = NewFile(file.meta, file.values, file.complete)
  BY <1>2, ZenonT(60) DEF TIInv
<1>4. /\ file'.meta = file.meta /\ file' = NewFile(file'.meta, file'.values, file'.complete)
      /\ file'.complete = TRUE /\ file'.values = values
  <2> DEFINE m == file.meta
  <2> DEFINE v == file.values
  <2> DEFINE c == file.complete
  <2>1. file = [magic |-> "compiszd", meta |-> m, values |-> v, complete |-> c] /\ file.meta = m
    BY <1>3, ZenonT(60) DEF NewFile
  <2> HIDE DEF m, v, c
  <2>2. file' = [magic |-> "compiszd", meta |-> m, values |-> values, complete |-> TRUE]
    <3> DEFINE t == TRUE
    <3> DEFINE f == [file EXCEPT !.complete = t]
    <3>1. file' = [f EXCEPT !.values = values]
      BY <1>1, ZenonT(60)
    <3> HIDE DEF t
    <3>2. f = [magic |-> "compiszd", meta |-> m, values |-> v, complete |-> t]
      BY <2>1
    <3> HIDE DEF f
    <3>3. file' = [magic |-> "compiszd", meta |-> m, values |-> values, complete |-> t]
      BY <3>1, <3>2
    <3> QED
      BY <3>3, ZenonT(60) DEF t
  <2>3. file'.meta = m /\ file'.values = values /\ file'.complete = TRUE
    BY <2>2
  <2> QED
    BY <2>1, <2>2, <2>3, ZenonT(60) DEF NewFile
<1>5. ActiveInv' /\ writer'.flushed = TRUE /\ writer'.temp /\ writer'.puts = writer.puts
  BY <1>1, <1>2, <1>4, FlagStep, ZenonT(60)
<1>6. pc' \in Active /\ pc' \notin Idle /\ pc' # "start" /\ pc' # "panic"
  BY <1>1 DEF Active, Idle
<1>7. ~TI!Duplicates' /\ file'.values = PutSet(writer')
  BY <1>1, <1>4, <1>5, SameDuplicates, ZenonT(60) DEF values, PutSet
<1> QED
  BY <1>4, <1>5, <1>6, <1>7, ZenonT(60) DEF TIInv, ActiveInv

LEMMA SealFailsStep ==
    ASSUME TIInv, TI!SealFails
    PROVE  TIInv'
<1>1. pc = "sealing" /\ pc' = "failed" /\ file' = file
  BY ZenonT(60) DEF TI!SealFails
<1>2. PICK begun \in BOOLEAN : writer' = [writer EXCEPT !.flushed = begun]
  BY ZenonT(60) DEF TI!SealFails
<1>3. pc \in {"sealing", "sealed"} /\ pc \in {"sealing", "sealed", "closed"}
  BY <1>1
<1>4. file' = NewFile(file'.meta, file'.values, file'.complete) /\ file'.meta = file.meta
  BY <1>1, <1>3, ZenonT(60) DEF TIInv
<1>5. ActiveInv' /\ writer'.temp
  BY <1>2, <1>3, <1>4, FlagStep, ZenonT(60)
<1>6. /\ pc' \in Active /\ pc' \notin Idle /\ pc' # "start" /\ pc' # "panic"
      /\ pc' \notin {"sealing", "sealed", "closed"} /\ pc' \notin {"sealed", "closed"}
  BY <1>1 DEF Active, Idle
<1> QED
  BY <1>5, <1>6, ZenonT(60) DEF TIInv, ActiveInv

LEMMA CloseSealedStep ==
    ASSUME TIInv, NEW kind, TI!CloseSealed(kind)
    PROVE  TIInv'
<1>1. pc = "sealed" /\ pc' = "closed" /\ file' = file /\ writer' = [writer EXCEPT !.temp = FALSE]
  BY ZenonT(60) DEF TI!CloseSealed
<1>2. /\ pc \in {"sealing", "sealed"} /\ pc \in {"sealing", "sealed", "closed"} /\ pc \in {"sealed", "closed"}
  BY <1>1
<1>3. /\ file = NewFile(file.meta, file.values, file.complete)
      /\ writer.flushed /\ ~TI!Duplicates /\ file.complete = TRUE /\ file.values = PutSet(writer)
  BY <1>2, ZenonT(60) DEF TIInv
<1>4. ActiveInv' /\ writer'.flushed = writer.flushed /\ writer'.puts = writer.puts
  <2>1. file' = NewFile(file'.meta, file'.values, file'.complete) /\ file'.meta = file.meta
    BY <1>1, <1>3, ZenonT(60)
  <2>2. FALSE \in BOOLEAN /\ TRUE \in BOOLEAN
    BY ZenonT(60)
  <2>3. writer' \in {[writer EXCEPT !.flushed = TRUE], [writer EXCEPT !.temp = FALSE]}
    BY <1>1, ZenonT(60)
  <2> QED
    BY <1>1, <1>2, <2>1, <2>2, <2>3, FlagStep, ZenonT(60)
<1>5. pc' \in Active /\ pc' \notin Idle /\ pc' # "start" /\ pc' # "panic"
  BY <1>1 DEF Active, Idle
<1>6. ~TI!Duplicates' /\ file'.values = PutSet(writer')
  BY <1>1, <1>3, <1>4, SameDuplicates, ZenonT(60)
<1> QED
  BY <1>1, <1>3, <1>4, <1>5, <1>6, ZenonT(60) DEF TIInv, ActiveInv

LEMMA TIStep ==
    ASSUME TIInv, TI!Next
    PROVE  TIInv'
<1>1. TI!Close => TIInv'
  BY CloseSealedStep, ZenonT(60)
  DEF TI!Close, TI!Close_CidToOffsetAndSize, TI!Close_SlotToCid, TI!Close_PubkeyToOffsetAndSize, TI!Close_SigToCid
<1> QED
  BY <1>1, NewWriterStep, PutStep, SealStep, SealCompletesStep, SealFailsStep, OldFileStep, ZenonT(60) DEF TI!Next

LEMMA KindsApart ==
    /\ TI!CidToOffsetAndSize # TI!SlotToCid /\ TI!CidToOffsetAndSize # TI!SigToCid
    /\ TI!CidToOffsetAndSize # TI!PubkeyToOffsetAndSize /\ TI!SlotToCid # TI!SigToCid
    /\ TI!SlotToCid # TI!PubkeyToOffsetAndSize /\ TI!SigToCid # TI!PubkeyToOffsetAndSize
BY DEF TI!CidToOffsetAndSize, TI!SlotToCid, TI!SigToCid, TI!PubkeyToOffsetAndSize

\* Which reader is asked depends on the kind only.
LEMMA OpensOfKind ==
    /\ TI!Opens[TI!CidToOffsetAndSize] = TI!Open_CidToOffsetAndSize
    /\ TI!Opens[TI!PubkeyToOffsetAndSize] = TI!Open_PubkeyToOffsetAndSize
    /\ TI!Opens[TI!SigToCid] = TI!Open_SigToCid
    /\ TI!Opens[TI!SlotToCid] = TI!Open_SlotToCid
BY KindsApart, ZenonT(60) DEF TI!Opens, TI!Kinds

LEMMA MagicApart ==
    /\ TI!NoFile.magic = "none" /\ OldFormat.magic = "rdcecidx"
    /\ \A meta, values, complete : NewFile(meta, values, complete).magic = "compiszd"
    /\ "none" # "rdcecidx" /\ "none" # "compiszd" /\ "rdcecidx" # "compiszd"
BY DEF TI!NoFile, OldFormat, NewFile

LEMMA KindIsChecked ==
    ASSUME TIInv
    PROVE  TI!KindChecked
<1>1. ASSUME file.magic = "compiszd"
      PROVE  /\ \A k \in TI!Kinds : TI!Opens[k] <=> k = writer.kind
             /\ ~TI!Deprecated_Open_CidToOffset
             /\ TI!GetDefaultMetadata(file.meta) =
                    [kind |-> writer.kind, root |-> writer.root, network |-> writer.network]
  <2>1. pc \in Active
    BY <1>1, MagicApart, ZenonT(60) DEF TIInv
  <2>2. ActiveInv
    BY <2>1, ActiveOnly, ZenonT(60)
  <2>3. writer \in WriterType /\ MetaGood(file.meta, writer)
    BY <1>1, <2>2, MagicApart, ZenonT(60) DEF ActiveInv
  <2>4. /\ TI!Value(file.meta, "rootCid") = writer.root
        /\ TI!Value(file.meta, "network") = writer.network
        /\ TI!Value(file.meta, "kind") = writer.kind
    BY <2>3, GoodIsRead, ZenonT(60)
  <2> DEFINE m == [kind |-> writer.kind, root |-> writer.root, network |-> writer.network]
  <2>5. TI!GetDefaultMetadata(file.meta) = m
    BY <2>4, ZenonT(60) DEF TI!GetDefaultMetadata
  <2>6. m.kind = writer.kind /\ m.root = writer.root /\ m.network = writer.network
    BY ZenonT(60)
  <2>7. /\ writer.kind \in TI!Kinds /\ writer.root \in Roots /\ writer.root # TI!Undef
        /\ writer.network \in TI!Valid
    BY <2>3, ZenonT(60) DEF WriterType
  <2>8. TI!NotFound # writer.kind /\ TI!NotFound # writer.network
    <3>1. TI!NotFound \notin TI!Kinds
      BY DEF TI!Kinds, TI!NotFound, TI!CidToOffsetAndSize, TI!SlotToCid, TI!SigToCid,
             TI!PubkeyToOffsetAndSize
    <3>2. TI!NotFound \notin TI!Valid
      BY DEF TI!Valid, TI!NotFound
    <3> QED
      BY <2>7, <3>1, <3>2, ZenonT(60)
  <2>9. TI!NotFound # writer.root
    BY <2>7, TypedIndexAssumption, ZenonT(60) DEF TI!NotFound
  <2> HIDE DEF m
  <2>10. ASSUME NEW k PROVE TI!OpenNew(k) <=> k = writer.kind
    BY <1>1, <2>5, <2>6, <2>7, <2>8, <2>9, ZenonT(60) DEF TI!OpenNew, TI!AssertIndexKind, TI!IsValidNetwork
  <2>11. ~TI!IsOldMagic
    BY <1>1, MagicApart, ZenonT(60) DEF TI!IsOldMagic
  <2>12. ASSUME NEW k \in TI!Kinds PROVE TI!Opens[k] <=> k = writer.kind
    <3>1. /\ TI!Open_CidToOffsetAndSize <=> TI!CidToOffsetAndSize = writer.kind
          /\ TI!Open_PubkeyToOffsetAndSize <=> TI!PubkeyToOffsetAndSize = writer.kind
          /\ TI!Open_SigToCid <=> TI!SigToCid = writer.kind
          /\ TI!Open_SlotToCid <=> TI!SlotToCid = writer.kind
      BY <2>10, <2>11, ZenonT(60)
      DEF TI!Open_CidToOffsetAndSize, TI!Open_PubkeyToOffsetAndSize, TI!Open_SigToCid, TI!Open_SlotToCid
    <3>2. CASE k = TI!CidToOffsetAndSize
      BY <3>1, <3>2, OpensOfKind, ZenonT(60)
    <3>3. CASE k = TI!PubkeyToOffsetAndSize
      BY <3>1, <3>3, OpensOfKind, ZenonT(60)
    <3>4. CASE k = TI!SigToCid
      BY <3>1, <3>4, OpensOfKind, ZenonT(60)
    <3>5. CASE k = TI!SlotToCid
      BY <3>1, <3>5, OpensOfKind, ZenonT(60)
    <3> QED
      BY <3>2, <3>3, <3>4, <3>5, ZenonT(60) DEF TI!Kinds
  <2> QED
    BY <2>5, <2>11, <2>12, ZenonT(60) DEF TI!Deprecated_Open_CidToOffset, m
<1>2. ASSUME TI!IsOldMagic
      PROVE  {k \in TI!Kinds : TI!Opens[k]} = {TI!SlotToCid, TI!SigToCid} /\ TI!Deprecated_Open_CidToOffset
  <2>1. ASSUME NEW k PROVE ~TI!OpenNew(k)
    BY <1>2, MagicApart, ZenonT(60) DEF TI!OpenNew, TI!IsOldMagic
  <2>2. /\ ~TI!Opens[TI!CidToOffsetAndSize] /\ ~TI!Opens[TI!PubkeyToOffsetAndSize]
        /\ TI!Opens[TI!SigToCid] /\ TI!Opens[TI!SlotToCid]
    BY <1>2, <2>1, OpensOfKind, ZenonT(60)
    DEF TI!Open_CidToOffsetAndSize, TI!Open_PubkeyToOffsetAndSize, TI!Open_SigToCid, TI!Open_SlotToCid
  <2>3. {k \in TI!Kinds : TI!Opens[k]} = {TI!SlotToCid, TI!SigToCid}
    BY <2>2, ZenonT(60) DEF TI!Kinds
  <2> QED
    BY <1>2, <2>3, ZenonT(60) DEF TI!Deprecated_Open_CidToOffset
<1> QED
  BY <1>1, <1>2, ZenonT(60) DEF TI!KindChecked

LEMMA AllAreFound ==
    ASSUME TIInv
    PROVE  TI!PutsAreFound
<1>1. ASSUME pc \in {"sealed", "closed"}, NEW i \in DOMAIN writer.puts
      PROVE  TI!Get(writer.puts[i].key) =
                 IF writer.kind = TI!SigToCid /\ writer.puts[i].key = TI!Zero THEN TI!NotFound
                 ELSE writer.puts[i].value
  <2> DEFINE p == writer.puts[i]
  <2>1. pc \in Active
    BY <1>1 DEF Active
  <2>2. ActiveInv /\ ~TI!Duplicates /\ file.values = PutSet(writer)
    BY <1>1, <2>1, ActiveOnly, ZenonT(60)
  <2>3. writer.kind \in TI!Kinds
    BY <2>2, ZenonT(60) DEF ActiveInv, WriterType
  <2>4. {v \in file.values : v.key = p.key} = {p}
    <3>1. p \in file.values
      BY <2>2, ZenonT(60) DEF PutSet
    <3>2. ASSUME NEW v \in file.values, v.key = p.key PROVE v = p
      <4>1. PICK j \in DOMAIN writer.puts : v = writer.puts[j]
        BY <2>2, ZenonT(60) DEF PutSet
      <4>2. i = j
        BY <2>2, <3>2, <4>1, ZenonT(60) DEF TI!Duplicates
      <4> QED
        BY <4>1, <4>2, ZenonT(60)
    <3> QED
      BY <3>1, <3>2, ZenonT(60)
  <2>5. (CHOOSE v \in {p} : TRUE) = p /\ {p} # {}
    BY ZenonT(60)
  <2>6. TI!Lookup(p.key) = p.value
    BY <2>4, <2>5, ZenonT(60) DEF TI!Lookup
  <2>7. writer.kind = TI!CidToOffsetAndSize => p.key # TI!Undef
    BY <2>2, ZenonT(60) DEF ActiveInv
  <2> HIDE DEF p
  <2>8. CASE writer.kind = TI!CidToOffsetAndSize
    <3>1. TI!Get(p.key) = TI!Get_CidToOffsetAndSize(p.key)
      BY <2>8, KindsApart, ZenonT(60) DEF TI!Get
    <3> QED
      BY <2>6, <2>7, <2>8, <3>1, KindsApart, ZenonT(60) DEF TI!Get_CidToOffsetAndSize, p
  <2>9. CASE writer.kind = TI!PubkeyToOffsetAndSize
    <3>1. TI!Get(p.key) = TI!Get_PubkeyToOffsetAndSize(p.key)
      BY <2>9, KindsApart, ZenonT(60) DEF TI!Get
    <3> QED
      BY <2>6, <2>9, <3>1, KindsApart, ZenonT(60) DEF TI!Get_PubkeyToOffsetAndSize, p
  <2>10. CASE writer.kind = TI!SlotToCid
    <3>1. TI!Get(p.key) = TI!Get_SlotToCid(p.key)
      BY <2>10, KindsApart, ZenonT(60) DEF TI!Get
    <3> QED
      BY <2>6, <2>10, <3>1, KindsApart, ZenonT(60) DEF TI!Get_SlotToCid, p
  <2>11. CASE writer.kind = TI!SigToCid
    <3>1. TI!Get(p.key) = TI!Get_SigToCid(p.key)
      BY <2>11, KindsApart, ZenonT(60) DEF TI!Get
    <3> QED
      BY <2>6, <2>11, <3>1, ZenonT(60) DEF TI!Get_SigToCid, p
  <2> QED
    BY <2>3, <2>8, <2>9, <2>10, <2>11, ZenonT(60) DEF TI!Kinds
<1>2. pc = "panic" => writer.flushed
  BY ZenonT(60) DEF TIInv
<1> QED
  BY <1>1, <1>2, ZenonT(60) DEF TI!PutsAreFound

LEMMA TempIsKept ==
    ASSUME TIInv
    PROVE  TI!TempUntilSealed
<1> SUFFICES ASSUME writer.kind # "none", ~writer.temp PROVE file.magic = "compiszd" /\ file.complete
  BY ZenonT(60) DEF TI!TempUntilSealed
<1>1. pc \in Active
  <2>1. TI!NoWriter.kind = "none"
    BY ZenonT(60) DEF TI!NoWriter
  <2> QED
    BY <2>1, ZenonT(60) DEF TIInv
<1>2. pc = "closed"
  BY <1>1, ActiveOnly, ZenonT(60)
<1>3. pc \in {"sealed", "closed"} /\ pc \in {"sealing", "sealed", "closed"}
  BY <1>2
<1>4. file = NewFile(file.meta, file.values, file.complete) /\ file.complete = TRUE
  BY <1>3, ZenonT(60) DEF TIInv
<1>5. file.magic = "compiszd"
  <2> DEFINE meta == file.meta
             values == file.values
             complete == file.complete
  <2>1. file = NewFile(meta, values, complete)
    BY <1>4, ZenonT(60)
  <2> HIDE DEF meta, values, complete
  <2> QED
    BY <2>1, MagicApart, ZenonT(60)
<1> QED
  BY <1>4, <1>5, ZenonT(60)

-----------------------------------------------------------------------------
TypedIndexInv == which = "indexes" => TIInv

LEMMA TypedIndexStart ==
    ASSUME IndexInit
    PROVE  TypedIndexInv
<1>1. /\ "blocktimeindex" # "indexes" /\ "linkedlog" # "indexes" /\ "manifest" # "indexes"
  OBVIOUS
<1> QED
  BY <1>1, TIStart, ZenonT(60) DEF IndexInit, TypedIndexInv

LEMMA TypedIndexStep ==
    ASSUME TypedIndexInv, [IndexNext /\ UNCHANGED which]_<<which, pc, writer, file>>
    PROVE  TypedIndexInv'
<1>1. CASE IndexNext /\ UNCHANGED which
  <2>1. /\ "blocktimeindex" # "indexes" /\ "linkedlog" # "indexes" /\ "manifest" # "indexes"
    OBVIOUS
  <2> QED
    BY <1>1, <2>1, TIStep, ZenonT(60) DEF IndexNext, TypedIndexInv
<1>2. CASE UNCHANGED <<which, pc, writer, file>>
  <2>1. which' = which /\ pc' = pc /\ writer' = writer /\ file' = file
    BY <1>2, ZenonT(60)
  <2>2. TIInv => TIInv'
    BY <2>1, ZenonT(60) DEF TIInv, TI!Duplicates
  <2> QED
    BY <2>1, <2>2, ZenonT(60) DEF TypedIndexInv
<1> QED
  BY <1>1, <1>2, ZenonT(60)

\* The typed indexes: the metadata that SetDefaultMetadata writes make the reader of the
\* same kind, and no other, accept the file; what was put is found once Seal is done; and
\* Close removes the temporary files of a complete index only.
THEOREM TypedIndexes == IndexSpec => []TypedIndexExact
<1>1. IndexInit => TypedIndexInv
  BY TypedIndexStart, ZenonT(60)
<1>2. TypedIndexInv /\ [IndexNext /\ UNCHANGED which]_<<which, pc, writer, file>> => TypedIndexInv'
  BY TypedIndexStep, ZenonT(60)
<1>3. TypedIndexInv => TypedIndexExact
  BY KindIsChecked, AllAreFound, TempIsKept, ZenonT(60) DEF TypedIndexInv, TypedIndexExact
<1> QED
  BY <1>1, <1>2, <1>3, PTL DEF IndexSpec
=============================================================================
