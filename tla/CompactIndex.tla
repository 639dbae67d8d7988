---------------------------- MODULE CompactIndex ----------------------------
(***************************************************************************)
(* compactindexsized/ and its two predecessors deprecated/compactindex36/   *)
(* and deprecated/compactindex/: an index from keys to values of a fixed    *)
(* size.  The builder spreads the keys over buckets; Seal looks, for each   *)
(* bucket, for a hash domain without collisions, appends the bucket's       *)
(* entries in Eytzinger order and then fills in the bucket's header in a    *)
(* table at the start of the file.  A reader searches one bucket.           *)
(*                                                                         *)
(* A hash domain is represented by the hashes it gives to the keys of the   *)
(* bucket, so a run covers every hash function.  Values have the size that  *)
(* the builder was made for (the callers pass CIDs and packed integers).    *)
(***************************************************************************)
EXTENDS Integers, Sequences, FiniteSets

CONSTANTS Keys,           \* keys, as what xxHash64 makes of them
          Hashes,         \* the values of a masked hash
          Values,         \* the value of the first insert, of the second, ...
          Builders,       \* arguments of the builders: see NewBuilder
          TargetEntriesPerBucket

VARIABLES pc,      \* start, refused, open, header, mine, entries, sealed, failed, crashed, panic, overrun
          writer,  \* the builder
          file     \* the index file

NotFound == [found |-> FALSE, value |-> 0]
Found(v) == [found |-> TRUE, value |-> v]
Broken == [found |-> FALSE, value |-> "error"]

HashSize == 3
BucketHdrLen == 16
NoBucket == [domain |-> <<>>, numEntries |-> 0, offset |-> 0]
NoFile == [header |-> FALSE, size |-> 0, table |-> <<>>, cells |-> <<>>]
NoWriter == [args |-> <<>>, count |-> 0, tuples |-> <<>>, flushed |-> 0, entries |-> <<>>, domain |-> <<>>]
-----------------------------------------------------------------------------
(* Sizes.                                                                   *)

NumBuckets(args) == (args.items + TargetEntriesPerBucket - 1) \div TargetEntriesPerBucket

\* Bytes that an integer takes; a file size of 0 stands for the largest one.
IntWidth(n) == IF n = 0 THEN 8 ELSE CHOOSE w \in 1..3 : n < 256^w /\ n >= 256^(w - 1)

ValueLength36 == 36

ValueWidth(args) ==
    CASE args.format = "sized" -> args.size
      [] args.format = "36"    -> ValueLength36
      [] args.format = "u64"   -> IntWidth(args.size)

\* The sum is computed in a byte.
Stride(args) == (HashSize + ValueWidth(args)) % 256

\* putUintLe keeps the low bytes of an integer; other values are opaque.
Stored(args, v) ==
    IF args.format = "u64" /\ ValueWidth(args) < 4 THEN v % 256^ValueWidth(args) ELSE v

HeaderSize(args) == IF args.format = "sized" THEN 12 + 14 ELSE 32

BucketHash(args, k) == k % NumBuckets(args)

KeysOf(args, b) == {k \in Keys : BucketHash(args, k) = b}
-----------------------------------------------------------------------------
(* Sorting and searching.                                                   *)

\* The recursion fills the slots of the subtree of 2k, slot k, then those of 2k+1.
Eytzinger(sorted) ==
    LET n == Len(sorted)
        walk[k \in 1..2*n + 1] == IF k > n THEN <<>> ELSE walk[2*k] \o <<k>> \o walk[2*k + 1]
        rank(k) == CHOOSE i \in 1..n : walk[1][i] = k
    IN  [k \in 1..n |-> sorted[rank(k)]]

SortByHash(S) ==
    CHOOSE seq \in [1..Cardinality(S) -> S] :
        /\ \A e \in S : \E i \in DOMAIN seq : seq[i] = e
        /\ \A i, j \in DOMAIN seq : i < j => seq[i].hash <= seq[j].hash

\* Mutant of SearchEytzinger: the sides are swapped.
SearchSwapped(n, x, entry) ==
    LET find[i \in 0..2*n] ==
            IF i >= n THEN NotFound
            ELSE IF entry[i] = Broken THEN Broken
            ELSE IF entry[i].hash = x THEN Found(entry[i].value)
            ELSE find[IF entry[i].hash < x THEN 2*i + 1 ELSE 2*i + 2]
    IN  find[0]

SearchEytzinger(n, x, entry) ==
    LET find[i \in 0..2*n] ==
            IF i >= n THEN NotFound
            ELSE IF entry[i] = Broken THEN Broken
            ELSE IF entry[i].hash = x THEN Found(entry[i].value)
            ELSE find[IF entry[i].hash < x THEN 2*i + 2 ELSE 2*i + 1]
    IN  find[0]

\* hashBucket under one domain: the entries, unless two hashes are the same.
Collides(tuples, domain) ==
    \E i, j \in DOMAIN tuples : i < j /\ domain[tuples[i].key] = domain[tuples[j].key]

HashBucket(args, tuples, domain) ==
    Eytzinger(SortByHash({[hash |-> domain[tuples[i].key], value |-> Stored(args, tuples[i].value)]
                          : i \in DOMAIN tuples}))
-----------------------------------------------------------------------------
(* The builder.                                                             *)

Init ==
    /\ pc = "start"
    /\ writer = NoWriter
    /\ file = NoFile

\* The arguments: the format, the number of items and the size, which is that
\* of a value ("sized") or that of the file the values point into ("u64").
NewBuilder(format, args) ==
    /\ pc = "start"
    /\ args.format = format
    /\ pc' = "open"
    /\ writer' = [NoWriter EXCEPT !.args = args, !.tuples = [b \in 0..NumBuckets(args) - 1 |-> <<>>]]
    /\ UNCHANGED file

NewBuilderSized(args) ==
    IF args.size = 0 \/ args.size > 255 \/ args.items = 0
    THEN /\ pc = "start"
         /\ args.format = "sized"
         /\ pc' = "refused"
         /\ UNCHANGED <<writer, file>>
    ELSE NewBuilder("sized", args)

\* writeTuple, into the temporary file of a bucket.
WriteTuple(b, k) ==
    /\ writer' = [writer EXCEPT !.count = @ + 1,
                                !.tuples[b] = Append(@, [key |-> k, value |-> Values[writer.count + 1]])]
    /\ UNCHANGED <<pc, file>>

\* Insert fails at run time when there is no bucket (a division by zero in
\* BucketHash; the sized builder refuses it) and when Seal has been through the bucket.
Insert(k) ==
    /\ pc \in {"open", "failed", "sealed"}
    /\ writer.count < Len(Values)
    /\ IF NumBuckets(writer.args) = 0 \/ BucketHash(writer.args, k) < writer.flushed
       THEN pc' = "panic" /\ UNCHANGED <<writer, file>>
       ELSE WriteTuple(BucketHash(writer.args, k), k)

\* Seal: the header, then the hole for the table of bucket headers.
Seal ==
    /\ pc \in {"open", "failed", "sealed"}
    /\ writer.flushed = 0
    /\ file' = [NoFile EXCEPT !.header = TRUE, !.size = HeaderSize(writer.args)]
    /\ pc' = "header"
    /\ UNCHANGED writer

Fallocate ==
    /\ pc = "header"
    /\ file' = [file EXCEPT !.size = @ + BucketHdrLen * NumBuckets(writer.args),
                            !.table = [b \in DOMAIN writer.tuples |-> NoBucket]]
    /\ pc' = IF DOMAIN writer.tuples = {} THEN "sealed" ELSE "mine"
    /\ UNCHANGED writer

\* sealBucket up to the search for a domain: the temporary file is complete,
\* and one of the first 1000 domains does without collisions. The run ends
\* when marshalEntry slices a buffer that is too short.
Mine(domain) ==
    /\ pc = "mine"
    /\ LET tuples == writer.tuples[writer.flushed]
       IN  /\ ~Collides(tuples, domain)
           /\ writer' = [writer EXCEPT !.flushed = @ + 1,
                                       !.entries = HashBucket(writer.args, tuples, domain),
                                       !.domain = domain]
           /\ pc' = IF tuples # <<>> /\ Stride(writer.args) < HashSize THEN "overrun" ELSE "entries"
    /\ UNCHANGED file

\* Every domain collides: there are at least two entries.
ErrCollision ==
    /\ pc = "mine"
    /\ Len(writer.tuples[writer.flushed]) > 1
    /\ writer' = [writer EXCEPT !.flushed = @ + 1]
    /\ pc' = "failed"
    /\ UNCHANGED file

\* The context of Seal is cancelled, or a file operation fails.
SealFails ==
    /\ pc \in {"header", "mine"}
    /\ pc' = "failed"
    /\ writer' = IF pc = "mine" THEN [writer EXCEPT !.flushed = @ + 1] ELSE writer
    /\ UNCHANGED file

\* The first n of the bucket's entries, at the end of the file.
Written(n) ==
    LET stride == Stride(writer.args)
        new == {file.size + i * stride : i \in 0..n - 1}
    IN  [file EXCEPT !.size = @ + n * stride,
                     !.cells = [o \in DOMAIN file.cells \cup new |->
                         IF o \in new THEN writer.entries[(o - file.size) \div stride + 1]
                         ELSE file.cells[o]]]

\* The entries, then the bucket's header.
WriteBucket ==
    /\ pc = "entries"
    /\ LET b == writer.flushed - 1
           n == Len(writer.entries)
       IN  /\ file' = [Written(n) EXCEPT !.table[b] = [domain |-> writer.domain, numEntries |-> n,
                                                       offset |-> file.size]]
           /\ pc' = IF writer.flushed = NumBuckets(writer.args) THEN "sealed" ELSE "mine"
    /\ UNCHANGED writer

\* Stopped, or out of disk, with some of the entries and no header.
WriteStops(n) ==
    /\ pc = "entries"
    /\ n <= Len(writer.entries)
    /\ file' = Written(n)
    /\ pc' = "crashed"
    /\ UNCHANGED writer

\* A second Seal, into a new file, finds the writer of the first bucket gone.
SealAgain ==
    /\ pc \in {"failed", "sealed"}
    /\ writer.flushed > 0
    /\ file' = [header |-> TRUE, cells |-> <<>>, table |-> [b \in DOMAIN writer.tuples |-> NoBucket],
                size |-> HeaderSize(writer.args) + BucketHdrLen * NumBuckets(writer.args)]
    /\ pc' = "panic"
    /\ UNCHANGED writer

\* The code of the two older packages, up to the widths of the values.
Format(f) == writer.args # <<>> /\ writer.args.format = f

NewBuilder36(args) == NewBuilder("36", args)
Insert36(k) == Format("36") /\ Insert(k)
Seal36 == Format("36") /\ (Seal \/ SealAgain)
Fallocate36 == Format("36") /\ Fallocate
SealBucket36 == Format("36") /\ (WriteBucket \/ \E n \in 0..Len(Values) : WriteStops(n))
Mine36(domain) == Format("36") /\ Mine(domain)
MineFails36 == Format("36") /\ (ErrCollision \/ SealFails)

NewBuilderU64(args) == NewBuilder("u64", args)
InsertU64(k) == Format("u64") /\ Insert(k)
SealU64 == Format("u64") /\ (Seal \/ SealAgain)
FallocateU64 == Format("u64") /\ Fallocate
SealBucketU64 == Format("u64") /\ (WriteBucket \/ \E n \in 0..Len(Values) : WriteStops(n))
MineU64(domain) == Format("u64") /\ Mine(domain)
MineFailsU64 == Format("u64") /\ (ErrCollision \/ SealFails)

Domains == IF pc = "mine" THEN [KeysOf(writer.args, writer.flushed) -> Hashes] ELSE {}

BuildSized ==
    \/ \E k \in Keys : Insert(k)
    \/ Seal
    \/ Fallocate
    \/ \E domain \in Domains : Mine(domain)
    \/ ErrCollision
    \/ SealFails
    \/ WriteBucket
    \/ \E n \in 0..Len(Values) : WriteStops(n)
    \/ SealAgain

NextSized ==
    \/ \E args \in Builders : NewBuilderSized(args)
    \/ Format("sized") /\ BuildSized

Next36 ==
    \/ \E args \in Builders : NewBuilder36(args)
    \/ \E k \in Keys : Insert36(k)
    \/ Seal36
    \/ Fallocate36
    \/ \E domain \in Domains : Mine36(domain)
    \/ MineFails36
    \/ SealBucket36

NextU64 ==
    \/ \E args \in Builders : NewBuilderU64(args)
    \/ \E k \in Keys : InsertU64(k)
    \/ SealU64
    \/ FallocateU64
    \/ \E domain \in Domains : MineU64(domain)
    \/ MineFailsU64
    \/ SealBucketU64

Next == NextSized \/ Next36 \/ NextU64
-----------------------------------------------------------------------------
(* The reader, on whatever the file holds.                                  *)

\* loadEntry, within the section of the bucket.
LoadEntry(b, i) ==
    LET off == b.offset + i * Stride(writer.args)
    IN  IF off \in DOMAIN file.cells THEN file.cells[off] ELSE Broken

\* GetBucket: the header of a bucket in the table; one that was never
\* written has no entries.
GetBucket(i) == file.table[i]

Lookup(k) ==
    LET i == BucketHash(writer.args, k)
        b == GetBucket(i)
        n == b.numEntries
    IN  IF i \notin DOMAIN file.table THEN Broken
        ELSE IF n = 0 THEN NotFound
        ELSE SearchEytzinger(n, b.domain[k], [j \in 0..n - 1 |-> LoadEntry(b, j)])

\* Load reads the entries of a bucket one after the other.
Load(b) == [j \in 1..file.table[b].numEntries |-> LoadEntry(file.table[b], j - 1)]
-----------------------------------------------------------------------------
(* Properties.                                                              *)

Openable == file.header /\ NumBuckets(writer.args) > 0
TuplesOf(k) == LET t == writer.tuples[BucketHash(writer.args, k)] IN {t[i] : i \in DOMAIN t}

\* Once Seal has returned without an error, every key inserted before it is
\* found (Lookup) with its own value, cut to the width of the index.
SealedComplete ==
    pc = "sealed" /\ Openable =>
        \A k \in Keys : \A t \in TuplesOf(k) :
            t.key = k => Lookup(k) = Found(Stored(writer.args, t.value))

\* Whatever the builder is doing, and wherever it stopped, a reader of the
\* file never gets a value that was not inserted under a key with the same
\* hash: a bucket without a header reads as empty, never as another's entries.
LookupSound ==
    Openable =>
        \A k \in Keys : LET r == Lookup(k) IN r.found =>
            \E t \in TuplesOf(k) :
                /\ Stored(writer.args, t.value) = r.value
                /\ file.table[BucketHash(writer.args, k)].domain[t.key]
                     = file.table[BucketHash(writer.args, k)].domain[k]

\* "Index generation will fail if the same key is inserted twice."
NoDuplicateSealed ==
    pc = "sealed" =>
        \A b \in DOMAIN writer.tuples : \A i, j \in DOMAIN writer.tuples[b] :
            writer.tuples[b][i].key = writer.tuples[b][j].key => i = j

\* The entries that Load returns for a bucket with a header are the ones
\* inserted into it, each once.
LoadComplete ==
    \A b \in DOMAIN file.table : file.table[b].numEntries > 0 =>
        LET loaded == Load(b)
            t == writer.tuples[b]
        IN  /\ Len(loaded) = Len(t)
            /\ \A i \in DOMAIN loaded : loaded[i] # Broken
            /\ {loaded[i].value : i \in DOMAIN loaded} = {Stored(writer.args, t[i].value) : i \in DOMAIN t}

Spec == Init /\ [][Next]_<<pc, writer, file>>
=============================================================================
