------------------------------ MODULE IndexMeta ------------------------------
(***************************************************************************)
(* indexmeta/: the metadata in the headers of the index files, a list of    *)
(* keys and values in which a key may occur several times.  The number of   *)
(* pairs and each length are stored in one byte.                            *)
(***************************************************************************)
EXTENDS Integers, Sequences, FiniteSets
SeqExt == INSTANCE SequencesExt

CONSTANTS MaxNumKVs, MaxKeySize, MaxValueSize,   \* each 255
          Byte,           \* the number of values of a byte (256)
          Words,          \* keys and values: sequences of bytes
          MaxCalls        \* bound on the calls

VARIABLES pc,      \* edit, written
          writer,  \* Meta.KeyVals, and the number of calls
          file     \* the bytes

Init ==
    /\ pc = "edit"
    /\ writer = [keyVals |-> <<>>, calls |-> 0]
    /\ file = <<>>

Edit(keyVals) ==
    /\ pc = "edit"
    /\ writer.calls < MaxCalls
    /\ writer' = [keyVals |-> keyVals, calls |-> writer.calls + 1]
    /\ UNCHANGED <<pc, file>>

KV(k, v) == [key |-> k, value |-> v]

FitsList(kvs, k, v) ==
    Len(kvs) < MaxNumKVs /\ Len(k) <= MaxKeySize /\ Len(v) <= MaxValueSize

\* Add; an error leaves the list alone.
Add(k, v) ==
    Edit(IF FitsList(writer.keyVals, k, v) THEN Append(writer.keyVals, KV(k, v)) ELSE writer.keyVals)

\* The places of a key.
At(kvs, k) == {i \in DOMAIN kvs : kvs[i].key = k}
First(kvs, k) == CHOOSE i \in At(kvs, k) : \A j \in At(kvs, k) : i <= j

\* Replace: the first value of the key; refused in a full list.
Replace(k, v) ==
    Edit(IF FitsList(writer.keyVals, k, v) /\ At(writer.keyVals, k) # {}
         THEN [writer.keyVals EXCEPT ![First(writer.keyVals, k)].value = v]
         ELSE writer.keyVals)

\* Remove: every value of the key.
Remove(k) == Edit(SelectSeq(writer.keyVals, LAMBDA kv : kv.key # k))

Get(kvs, k) == IF At(kvs, k) = {} THEN <<FALSE>> ELSE <<TRUE, kvs[First(kvs, k)].value>>
GetAll(kvs, k) == LET s == SelectSeq(kvs, LAMBDA kv : kv.key = k) IN [i \in DOMAIN s |-> s[i].value]
Count(kvs, k) == Cardinality(At(kvs, k))
HasDuplicateKeys(kvs) == \E i, j \in DOMAIN kvs : i # j /\ kvs[i].key = kvs[j].key

\* SetKind of the index builder: at most one value of the key, the new one.
SetKind(k, v) ==
    Edit(IF Len(v) > MaxKeySize \/ v = <<>> THEN writer.keyVals
         ELSE LET rest == SelectSeq(writer.keyVals, LAMBDA kv : kv.key # k)
              IN  IF FitsList(rest, k, v) THEN Append(rest, KV(k, v)) ELSE rest)

Prefixed(word) == <<Len(word) % Byte>> \o word

\* MarshalBinary.
Marshal(kvs) ==
    <<Len(kvs) % Byte>> \o SeqExt!FlattenSeq([i \in DOMAIN kvs |-> Prefixed(kvs[i].key) \o Prefixed(kvs[i].value)])

\* UnmarshalWithDecoder, from a place in the bytes; "error" at the end of the input.
Unmarshal(bytes) ==
    LET word(at) == SubSeq(bytes, at + 1, at + bytes[at])
        whole(at) == at <= Len(bytes) /\ at + bytes[at] <= Len(bytes)
        read[n \in 0..Byte, at \in 1..Len(bytes) + 1] ==
            IF n = 0 THEN <<>>
            ELSE IF ~whole(at) THEN <<"error">>
            ELSE LET v == at + 1 + bytes[at]
                 IN  IF ~whole(v) THEN <<"error">>
                     ELSE <<KV(word(at), word(v))>> \o read[n - 1, v + 1 + bytes[v]]
    IN  IF bytes = <<>> THEN <<>> ELSE read[bytes[1], 2]

Write ==
    /\ pc = "edit"
    /\ file' = Marshal(writer.keyVals)
    /\ pc' = "written"
    /\ UNCHANGED writer

\* Something else follows the metadata in the file.
WriteMore ==
    /\ pc = "written"
    /\ Len(file) = Len(Marshal(writer.keyVals))
    /\ file' = Append(file, 1)
    /\ UNCHANGED <<pc, writer>>

Next ==
    \/ \E k, v \in Words : Add(k, v) \/ Replace(k, v) \/ SetKind(k, v)
    \/ \E k \in Words : Remove(k)
    \/ Write
    \/ WriteMore
-----------------------------------------------------------------------------
(* Properties.                                                              *)

\* What is read back is what was written, whatever the calls before and
\* whatever follows the metadata in the file; and the accessors agree on a key
\* that occurs several times (Get gives the first of GetAll, Count their number).
MetaSurvives ==
    pc = "written" =>
        LET kvs == Unmarshal(file)
        IN  /\ kvs = writer.keyVals
            /\ \A k \in Words :
                  LET all == GetAll(kvs, k)
                  IN  /\ Count(kvs, k) = Len(all)
                      /\ Get(kvs, k) = IF all = <<>> THEN <<FALSE>> ELSE <<TRUE, Head(all)>>
            /\ HasDuplicateKeys(kvs) <=> \E k \in Words : Count(kvs, k) > 1

Spec == Init /\ [][Next]_<<pc, writer, file>>
=============================================================================
