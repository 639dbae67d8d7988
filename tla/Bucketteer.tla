----------------------------- MODULE Bucketteer -----------------------------
(***************************************************************************)
(* bucketteer/ and its predecessor deprecated/bucketteer/: the set of the   *)
(* signatures of an epoch ("sig-exists").  Only a 64-bit hash of each       *)
(* signature is kept, in a bucket per two-byte prefix.  Seal writes a draft *)
(* header with size 0, the buckets, and then overwrites the header.         *)
(***************************************************************************)
EXTENDS Integers, Sequences, FiniteSets

CONSTANTS Sigs,          \* signatures: records of a prefix, a hash and an id
          Prefixes,      \* 0..n: all two-byte prefixes
          MaxPuts        \* bound on the calls of Put

VARIABLES pc,      \* start, open, draft, sealed, crashed
          writer,  \* the format and prefixToHashes
          file

NoFile == [exists |-> FALSE]
NoWriter == [format |-> "none"]

Init ==
    /\ pc = "start"
    /\ writer = NoWriter
    /\ file = NoFile

\* Refused for a file that is not empty. The old writer makes its file at once.
NewWriter(format) ==
    /\ pc = "start"
    /\ writer' = [format |-> format, puts |-> {}, count |-> 0, hashes |-> [p \in Prefixes |-> <<>>]]
    /\ pc' = "open"
    /\ UNCHANGED file

Put(sig) ==
    /\ pc \in {"open", "sealed"}
    /\ writer.count < MaxPuts
    /\ writer' = [writer EXCEPT !.hashes[sig.prefix] = Append(@, sig.hash),
                                !.puts = @ \cup {sig},
                                !.count = @ + 1]
    /\ pc' = "open"
    /\ UNCHANGED file

\* The writer's own Has.
WriterHas(sig) == \E i \in DOMAIN writer.hashes[sig.prefix] : writer.hashes[sig.prefix][i] = sig.hash

\* getCleanSet: sorted and without duplicates.
CleanSet(seq) ==
    LET S == {seq[i] : i \in DOMAIN seq}
    IN  CHOOSE out \in [1..Cardinality(S) -> S] : \A i, j \in DOMAIN out : i < j => out[i] < out[j]

Eytzinger(sorted) ==
    LET n == Len(sorted)
        walk[k \in 1..2*n + 1] == IF k > n THEN <<>> ELSE walk[2*k] \o <<k>> \o walk[2*k + 1]
        rank(k) == CHOOSE i \in 1..n : walk[1][i] = k
    IN  [k \in 1..n |-> sorted[rank(k)]]

\* The old format has only the prefixes that occur.
Listed == IF writer.format = "new" THEN Prefixes ELSE {p \in Prefixes : writer.hashes[p] # <<>>}

\* A bucket is the number of its hashes (4 bytes) and the hashes (8 bytes each).
Bucket(p) == Eytzinger(CleanSet(writer.hashes[p]))
BucketSize(p) == 4 + 8 * Len(Bucket(p))

\* Where a bucket starts, from the end of the header.
OffsetOf(p) ==
    LET sum[q \in Prefixes \cup {-1}] ==
            IF q = -1 THEN 0 ELSE sum[q - 1] + (IF q \in Listed THEN BucketSize(q) ELSE 0)
    IN  sum[p - 1]

\* What can be read at the offsets of the content.
Content ==
    [o \in {OffsetOf(p) : p \in Listed} |->
        LET p == CHOOSE q \in Listed : OffsetOf(q) = o IN [num |-> Len(Bucket(p)), hashes |-> Bucket(p)]]

\* createHeader: its size without the 4 bytes of the size itself, for an empty meta.
HeaderSize == 8 + 8 + 8 + 10 * Cardinality(Listed)

\* Mutant of SealDraft: the draft header already has its size.
SealDraftSized ==
    /\ pc \in {"open", "sealed"}
    /\ file' = [exists |-> TRUE, headerSize |-> HeaderSize, offsets |-> [p \in Listed |-> 0],
                content |-> Content]
    /\ pc' = "draft"
    /\ UNCHANGED writer

\* Seal up to the flush: the file is emptied (a new one, or the old writer's own,
\* which it truncates), and gets the draft header and the buckets.
SealDraft ==
    /\ pc \in {"open", "sealed"}
    /\ file' = [exists |-> TRUE, headerSize |-> 0, offsets |-> [p \in Listed |-> 0],
                content |-> Content]
    /\ pc' = "draft"
    /\ UNCHANGED writer

\* The header with the offsets of the first n prefixes in place of the draft.
Overwritten(n) ==
    [file EXCEPT !.headerSize = HeaderSize,
                 !.offsets = [p \in Listed |->
                     IF Cardinality({q \in Listed : q <= p}) <= n THEN OffsetOf(p) ELSE 0]]

\* overwriteFileContentAt, the last step of Seal.
OverwriteHeader ==
    /\ pc = "draft"
    /\ file' = Overwritten(Cardinality(Listed))
    /\ pc' = "sealed"
    /\ UNCHANGED writer

\* The process ends in Seal: before the overwriting, or within it.
CrashInDraft ==
    /\ pc = "draft"
    /\ pc' = "crashed"
    /\ UNCHANGED <<writer, file>>

CrashInHeader(n) ==
    /\ pc = "draft"
    /\ n < Cardinality(Listed)
    /\ file' = Overwritten(n)
    /\ pc' = "crashed"
    /\ UNCHANGED writer

\* The older package differs in the prefixes that it lists.
Old == writer.format = "old"
PutOld(sig) == Old /\ Put(sig)
SealDraftOld == Old /\ SealDraft
OverwriteHeaderOld == Old /\ OverwriteHeader

Seals == SealDraft \/ OverwriteHeader \/ CrashInDraft \/ \E n \in 0..Cardinality(Prefixes) - 1 : CrashInHeader(n)

Next ==
    \/ \E format \in {"new", "old"} : NewWriter(format)
    \/ ~Old /\ ((\E sig \in Sigs : Put(sig)) \/ Seals)
    \/ \E sig \in Sigs : PutOld(sig)
    \/ SealDraftOld
    \/ OverwriteHeaderOld
    \/ Old /\ (CrashInDraft \/ \E n \in 0..Cardinality(Prefixes) - 1 : CrashInHeader(n))
-----------------------------------------------------------------------------
(* The reader.                                                              *)

\* readHeader: with a size of 0 the magic cannot be read.
Openable == file.exists /\ file.headerSize > 0

SearchEytzinger(n, x, entry) ==
    LET find[i \in 0..2*n] ==
            IF i >= n THEN FALSE
            ELSE IF entry[i] = x THEN TRUE
            ELSE find[IF entry[i] < x THEN 2*i + 2 ELSE 2*i + 1]
    IN  find[0]

HasNew(sig) ==
    LET b == file.content[file.offsets[sig.prefix]]
    IN  SearchEytzinger(b.num, sig.hash, [i \in 0..b.num - 1 |-> b.hashes[i + 1]])

\* A prefix that is not in the header has no signatures.
HasOld(sig) == sig.prefix \in DOMAIN file.offsets /\ HasNew(sig)

Has(sig) == IF Old THEN HasOld(sig) ELSE HasNew(sig)
-----------------------------------------------------------------------------
(* Properties.                                                              *)

\* Once Seal has returned, and until the next Put, the reader's Has answers as
\* the writer's: every signature put is found, and another one only if it
\* shares the prefix and the hash of one that was put.
ReaderIsWriter == pc = "sealed" => \A sig \in Sigs : Has(sig) <=> WriterHas(sig)

\* A file whose header was not overwritten yet is refused (readHeader): a
\* crash of Seal leaves an index that opens and lacks signatures only if it
\* comes while the header is overwritten, and then it is the buckets whose
\* offsets are missing that are not found.
DraftRefused ==
    /\ pc = "draft" => ~Openable
    /\ pc = "crashed" /\ Openable =>
           \A sig \in writer.puts : Has(sig) \/ file.offsets[sig.prefix] # OffsetOf(sig.prefix)

Spec == Init /\ [][Next]_<<pc, writer, file>>
=============================================================================
