------------------------------ MODULE LinkedLog ------------------------------
(***************************************************************************)
(* gsfa/linkedlog/: the bytes of the records of the linked log.  A record   *)
(* is the length of the rest as a varint, the compressed transactions and   *)
(* the place of the key's previous record in nine bytes; its own place and  *)
(* size are kept for the next one.  Writes are buffered.                    *)
(***************************************************************************)
EXTENDS Integers, Sequences, FiniteSets

CONSTANTS Keys,
          CompressedLens,   \* lengths of compressed transactions
          MaxRecords, MaxCrashes

VARIABLES pc,      \* run
          writer,  \* where the log ends, each key's last record, the crashes so far
          file     \* the records, and how many of them are on disk

NextLen == 9     \* IndexValueSize_CidToOffsetAndSize
NoPlace == [offset |-> 0, size |-> 0]

\* Of a size that fits in three bytes, as the places need it.
SizeOfUvarint(n) ==
    IF n < 128 THEN 1 ELSE IF n < 128 * 128 THEN 2 ELSE IF n < 128 * 128 * 128 THEN 3 ELSE 4

TotalLen(payload) == SizeOfUvarint(payload) + payload

Init ==
    /\ pc = "run"
    /\ writer = [offset |-> 0, last |-> [k \in Keys |-> NoPlace], crashes |-> 0]
    /\ file = [records |-> <<>>, flushed |-> 0]

\* Mutant of Put: the record points to itself.
PutSelf(k, len) ==
    /\ pc = "run"
    /\ Len(file.records) < MaxRecords
    /\ LET payload == len + NextLen
           place == [offset |-> writer.offset, size |-> TotalLen(payload)]
       IN  /\ file' = [file EXCEPT !.records =
                          Append(@, [at |-> writer.offset, payload |-> payload, key |-> k, prev |-> place])]
           /\ writer' = [writer EXCEPT !.offset = @ + TotalLen(payload), !.last[k] = place]
    /\ UNCHANGED pc

\* One key of Put, with the callbacks that fetch and keep the places.
Put(k, len) ==
    /\ pc = "run"
    /\ Len(file.records) < MaxRecords
    /\ LET payload == len + NextLen
           place == [offset |-> writer.offset, size |-> TotalLen(payload)]
       IN  /\ file' = [file EXCEPT !.records =
                          Append(@, [at |-> writer.offset, payload |-> payload, key |-> k, prev |-> writer.last[k]])]
           /\ writer' = [writer EXCEPT !.offset = @ + TotalLen(payload), !.last[k] = place]
    /\ UNCHANGED pc

Flush ==
    /\ pc = "run"
    /\ file' = [file EXCEPT !.flushed = Len(file.records)]
    /\ UNCHANGED <<pc, writer>>

\* The buffer may have reached the file up to the middle of a record. The log
\* that is opened on this file continues at its end; the places are lost.
CrashAndNewLinkedLog(n, torn) ==
    /\ pc = "run"
    /\ writer.crashes < MaxCrashes
    /\ n \in file.flushed..Len(file.records)
    /\ torn => n < Len(file.records)
    /\ file' = [records |-> SubSeq(file.records, 1, n), flushed |-> n]
    /\ LET end == IF n = Len(file.records) THEN writer.offset ELSE file.records[n + 1].at
       IN  writer' = [offset |-> IF torn THEN end + 1 ELSE end, last |-> [k \in Keys |-> NoPlace],
                      crashes |-> writer.crashes + 1]
    /\ UNCHANGED pc

Next ==
    \/ \E k \in Keys, len \in CompressedLens : Put(k, len)
    \/ Flush
    \/ \E n \in 0..MaxRecords, torn \in BOOLEAN : CrashAndNewLinkedLog(n, torn)
-----------------------------------------------------------------------------
(* Reading.                                                                 *)

Error == [ok |-> FALSE]

\* ReadWithSize skips as many bytes as the varint of the given size takes. The
\* transactions decompress only if they are all there and nothing else is.
ReadWithSize(offset, size) ==
    LET found == {i \in 1..file.flushed : file.records[i].at = offset}
    IN  IF found = {} THEN Error
        ELSE LET r == file.records[CHOOSE i \in found : TRUE]
                 skipped == SizeOfUvarint(size)
             IN  IF skipped = SizeOfUvarint(r.payload) /\ size = skipped + r.payload
                 THEN [ok |-> TRUE, key |-> r.key, prev |-> r.prev]
                 ELSE Error

\* The places that the log or a record points to.
Places == {writer.last[k] : k \in Keys} \cup {file.records[i].prev : i \in DOMAIN file.records}

\* At most n records from a place back, up to one that cannot be read.
Walk[n \in 0..MaxRecords] ==
    [place \in Places |->
        IF n = 0 \/ place = NoPlace THEN <<>>
        ELSE LET r == ReadWithSize(place.offset, place.size)
             IN  IF r.ok THEN <<[key |-> r.key, at |-> place.offset]>> \o Walk[n - 1][r.prev]
                 ELSE <<[key |-> "unreadable", at |-> place.offset]>>]

\* The records of a key, the last one first.
Chain(k) == Walk[MaxRecords][writer.last[k]]
-----------------------------------------------------------------------------
(* Properties.                                                              *)

\* The sizes at which the varint of the whole record is longer than the one in it.
AtBoundary(payload) == SizeOfUvarint(TotalLen(payload)) # SizeOfUvarint(payload)

\* In a flushed log the chain of a key holds its own records only, each one
\* older than the one before, up to a record that ReadWithSize cannot read:
\* EveryRecordReadable is about those, whose sizes are at a boundary of the
\* varint encoding.
ChainsReadable ==
    file.flushed = Len(file.records) =>
        \A k \in Keys :
            LET chain == Chain(k)
            IN  /\ \A i \in DOMAIN chain :
                       \/ chain[i].key = k
                       \/ \E j \in DOMAIN file.records :
                              file.records[j].at = chain[i].at /\ AtBoundary(file.records[j].payload)
                /\ \A i, j \in DOMAIN chain : i < j => chain[i].at > chain[j].at

\* "The size bytes have already been read": what ReadWithSize reads after the
\* bytes of the size is the rest of the record, for every record of a key.
EveryRecordReadable ==
    file.flushed = Len(file.records) => \A k \in Keys : \A i \in DOMAIN Chain(k) : Chain(k)[i].key = k

Spec == Init /\ [][Next]_<<pc, writer, file>>
=============================================================================
