------------------------------- MODULE Nodes -------------------------------
(* The nodes of a CAR file as the Go code reads them.  A node is a CBOR     *)
(* array whose first element is its kind.  ipld/ipldbindcode/cbor.go        *)
(* decodes the array by hand (the "fast" decoders every caller uses);       *)
(* iplddecoders keeps beside them the "classic" ones, which decode with the *)
(* schema of ipldbindcode and a library.                                    *)
(*                                                                          *)
(* A CBOR value is a tuple headed by its type.  A decoded node is a record  *)
(* with the fields of its Go type.  An int of Go is kept as its bit pattern *)
(* in 0 .. Word - 1, so the conversions between int and uint64 are the      *)
(* identity and an int64 is taken modulo Word.  An optional field is <<>>   *)
(* or <<value>>.  A nil, an absent and an empty list of links are all <<>>, *)
(* as for every reader of a list in the code.                               *)
EXTENDS Integers, Sequences, FiniteSets

CONSTANT Word   \* 2^64

SeqExt == INSTANCE SequencesExt

UInt(n) == <<"uint", n>>
NInt(n) == <<"nint", n>>
Bytes(b) == <<"bytes", b>>
Link(c) == <<"link", c>>
Arr(s) == <<"array", s>>
Null == <<"null">>

Ok(x) == <<"ok", x>>
Err == <<"error">>
Panic == <<"panic">>
IsOk(o) == o[1] = "ok"

KindTransaction == 0
KindEntry == 1
KindBlock == 2
KindSubset == 3
KindEpoch == 4
KindRewards == 5
KindDataFrame == 6

\* The steps of a function that returns at the first error.
Then(o, F(_)) == IF IsOk(o) THEN F(o[2]) ELSE o

\* The outcomes of a sequence of reads: the first failure ends the decoder.
All(outs) ==
    LET bad == {i \in DOMAIN outs : ~IsOk(outs[i])}
    IN  IF bad = {} THEN Ok([i \in DOMAIN outs |-> outs[i][2]])
        ELSE outs[CHOOSE i \in bad : \A j \in bad : i <= j]

\* A struct is filled field by field, in the order of the fields.
Struct(fields) ==
    LET read == All([i \in DOMAIN fields |-> fields[i][2]])
        Pos(n) == CHOOSE i \in DOMAIN fields : fields[i][1] = n
    IN  IF ~IsOk(read) THEN read
        ELSE Ok([n \in {fields[i][1] : i \in DOMAIN fields} |-> read[2][Pos(n)]])

----------------------------------------------------------------------------
(* cbor.go *)

\* x.(uint64): a type assertion without the comma panics.
AsUint64(x) == IF x[1] = "uint" THEN Ok(x[2]) ELSE Panic

tryInterfaceToUint64OrInt64(x) ==
    IF x[1] \in {"uint", "nint"} THEN Ok(x[2] % Word) ELSE Err

AsBytes(x) == IF x[1] = "bytes" THEN Ok(x[2]) ELSE Err

AsBytesOrPanic(x) == IF x[1] = "bytes" THEN Ok(x[2]) ELSE Panic

AsLink(x) == IF x[1] = "link" THEN Ok(x[2]) ELSE Err

decodeCborLinkListFromAny(x) ==
    CASE x = Null -> Ok(<<>>)
      [] x[1] = "array" -> All([i \in DOMAIN x[2] |-> AsLink(x[2][i])])
      [] OTHER -> Err

\* _array.Get followed by "expected ... to be present".
Required(arr, i, D(_)) == IF i < Len(arr) THEN D(arr[i + 1]) ELSE Err

\* _array.Get of a field that may be absent or null.
Optional(arr, i, D(_)) ==
    IF i >= Len(arr) THEN Ok(<<>>)
    ELSE IF arr[i + 1] = Null THEN Ok(<<>>)
    ELSE All(<<D(arr[i + 1])>>)

\* The kind is read, then compared with the kind of the type.
KindField(arr, kind) ==
    LET k == Required(arr, 0, AsUint64)
    IN  IF IsOk(k) /\ k[2] # kind THEN Err ELSE k

\* dec.Decode(&arr) of the bytes of a node.
Unmarshal(raw, D(_)) == IF raw[1] = "array" THEN D(raw[2]) ELSE Err

\* value.([]interface{})
Inner(x, D(_)) == IF x[1] = "array" THEN D(x[2]) ELSE Panic

EpochUnmarshalCBOR(raw) ==
    Unmarshal(raw, LAMBDA arr :
        Struct(<< <<"kind", KindField(arr, KindEpoch)>>,
                  <<"epoch", Required(arr, 1, AsUint64)>>,
                  <<"subsets", Required(arr, 2, decodeCborLinkListFromAny)>> >>))

SubsetUnmarshalCBOR(raw) ==
    Unmarshal(raw, LAMBDA arr :
        Struct(<< <<"kind", KindField(arr, KindSubset)>>,
                  <<"first", Required(arr, 1, AsUint64)>>,
                  <<"last", Required(arr, 2, AsUint64)>>,
                  <<"blocks", Required(arr, 3, decodeCborLinkListFromAny)>> >>))

Shred(x) ==
    IF x[1] # "array" THEN Err
    ELSE Struct(<< <<"entryEndIdx", Required(x[2], 0, AsUint64)>>,
                   <<"shredEndIdx",
                     Required(x[2], 1, tryInterfaceToUint64OrInt64)>> >>)

Shredding(x) ==
    IF x[1] # "array" THEN Err
    ELSE All([i \in DOMAIN x[2] |-> Shred(x[2][i])])

SlotMeta(x) ==
    Inner(x, LAMBDA arr :
        Struct(<< <<"parent_slot", Required(arr, 0, AsUint64)>>,
                  <<"blocktime", Required(arr, 1, AsUint64)>>,
                  <<"block_height", Optional(arr, 2, AsUint64)>> >>))

BlockUnmarshalCBOR(raw) ==
    Unmarshal(raw, LAMBDA arr :
        Struct(<< <<"kind", KindField(arr, KindBlock)>>,
                  <<"slot", Required(arr, 1, AsUint64)>>,
                  <<"shredding", Required(arr, 2, Shredding)>>,
                  <<"entries", Required(arr, 3, decodeCborLinkListFromAny)>>,
                  <<"meta", Required(arr, 4, SlotMeta)>>,
                  <<"rewards", Required(arr, 5, AsLink)>> >>))

\* The data and the metadata of a Transaction and the data of a Rewards: five
\* elements are read, the sixth, next, is not.
EmbeddedDataFrame(x) ==
    Inner(x, LAMBDA arr :
        Struct(<< <<"kind", Required(arr, 0, AsUint64)>>,
                  <<"hash", Optional(arr, 1, AsUint64)>>,
                  <<"index", Optional(arr, 2, AsUint64)>>,
                  <<"total", Optional(arr, 3, AsUint64)>>,
                  <<"data", Required(arr, 4, AsBytes)>>,
                  <<"next", Ok(<<>>)>> >>))

RewardsUnmarshalCBOR(raw) ==
    Unmarshal(raw, LAMBDA arr :
        Struct(<< <<"kind", KindField(arr, KindRewards)>>,
                  <<"slot", Required(arr, 1, AsUint64)>>,
                  <<"data", Required(arr, 2, EmbeddedDataFrame)>> >>))

EntryUnmarshalCBOR(raw) ==
    Unmarshal(raw, LAMBDA arr :
        Struct(<< <<"kind", KindField(arr, KindEntry)>>,
                  <<"numHashes", Required(arr, 1, AsUint64)>>,
                  <<"hash", Required(arr, 2, AsBytesOrPanic)>>,
                  <<"transactions",
                    Required(arr, 3, decodeCborLinkListFromAny)>> >>))

TransactionUnmarshalCBOR(raw) ==
    Unmarshal(raw, LAMBDA arr :
        Struct(<< <<"kind", KindField(arr, KindTransaction)>>,
                  <<"data", Required(arr, 1, EmbeddedDataFrame)>>,
                  <<"metadata", Required(arr, 2, EmbeddedDataFrame)>>,
                  <<"slot", Required(arr, 3, AsUint64)>>,
                  <<"index", Optional(arr, 4, AsUint64)>> >>))

DataFrameUnmarshalCBOR(raw) ==
    Unmarshal(raw, LAMBDA arr :
        Struct(<< <<"kind", KindField(arr, KindDataFrame)>>,
                  <<"hash", Optional(arr, 1, tryInterfaceToUint64OrInt64)>>,
                  <<"index", Optional(arr, 2, AsUint64)>>,
                  <<"total", Optional(arr, 3, AsUint64)>>,
                  <<"data", Required(arr, 4, AsBytes)>>,
                  <<"next", IF Len(arr) < 6 THEN Ok(<<>>)
                            ELSE decodeCborLinkListFromAny(arr[6])>> >>))
=============================================================================
