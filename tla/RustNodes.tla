----------------------------- MODULE RustNodes -----------------------------
(* The nodes of a CAR file as geyser-plugin-runner reads them (Rust).  Its  *)
(* decoders are lenient: a field that is missing or has another type keeps  *)
(* the default of the struct; only a wrong kind is an error.  A CID is      *)
(* matched as plain bytes (tags are dropped by the CBOR library).  Values   *)
(* are those of Nodes; an integer is cast to u64.                           *)
EXTENDS Nodes

CONSTANT DefaultRewards   \* the CID a Block starts with

Has(arr, i, types) == i < Len(arr) /\ arr[i + 1][1] \in types

\* if let Some(Value::Integer(n)) = array.get(i) { field = n as u64 }
IntOr(arr, i, default) ==
    IF Has(arr, i, {"uint", "nint"}) THEN arr[i + 1][2] % Word ELSE default
IntOption(arr, i) ==
    IF Has(arr, i, {"uint", "nint"}) THEN <<arr[i + 1][2] % Word>> ELSE <<>>
BytesOr(arr, i) == IF Has(arr, i, {"bytes"}) THEN arr[i + 1][2] ELSE <<>>

\* The elements of an array that are bytes, as CIDs.
Cids(arr, i) ==
    IF ~Has(arr, i, {"array"}) THEN <<>>
    ELSE LET links == SelectSeq(arr[i + 1][2], LAMBDA x : x[1] = "link")
         IN  [j \in DOMAIN links |-> links[j][2]]

\* The value is an array (anything else leaves the default), the kind is an
\* integer and is the expected one.
WrongKind(arr, kind) == Has(arr, 0, {"uint", "nint"}) /\ arr[1][2] % Word # kind

EmptyFrame == [kind |-> 0, hash |-> <<>>, index |-> <<>>, total |-> <<>>,
               data |-> <<>>, next |-> <<>>]

DataFrameFromCbor(arr) ==
    IF WrongKind(arr, KindDataFrame) THEN Err
    ELSE Ok([kind |-> IntOr(arr, 0, 0), hash |-> IntOption(arr, 1),
             index |-> IntOption(arr, 2), total |-> IntOption(arr, 3),
             data |-> BytesOr(arr, 4), next |-> Cids(arr, 5)])

\* A frame inside another node: its error ends the node.
FrameOr(arr, i) ==
    IF Has(arr, i, {"array"}) THEN DataFrameFromCbor(arr[i + 1][2]) ELSE Ok(EmptyFrame)

TransactionFromCbor(arr) ==
    IF WrongKind(arr, KindTransaction) THEN Err
    ELSE Struct(<< <<"kind", Ok(IntOr(arr, 0, 0))>>, <<"data", FrameOr(arr, 1)>>,
                   <<"metadata", FrameOr(arr, 2)>>, <<"slot", Ok(IntOr(arr, 3, 0))>>,
                   <<"index", Ok(IntOption(arr, 4))>> >>)

EntryFromCbor(arr) ==
    IF WrongKind(arr, KindEntry) THEN Err
    ELSE Ok([kind |-> IntOr(arr, 0, 0), numHashes |-> IntOr(arr, 1, 0),
             hash |-> BytesOr(arr, 2), transactions |-> Cids(arr, 3)])

ShreddingFromCbor(arr) ==
    [entryEndIdx |-> IntOr(arr, 0, 0), shredEndIdx |-> IntOr(arr, 1, 0)]

SlotMetaFromCbor(arr) ==
    [parent_slot |-> IntOr(arr, 0, 0), blocktime |-> IntOr(arr, 1, 0),
     block_height |-> IntOption(arr, 2)]

Shreds(arr, i) ==
    IF ~Has(arr, i, {"array"}) THEN <<>>
    ELSE LET inner == SelectSeq(arr[i + 1][2], LAMBDA x : x[1] = "array")
         IN  [j \in DOMAIN inner |-> ShreddingFromCbor(inner[j][2])]

BlockFromCbor(arr) ==
    IF WrongKind(arr, KindBlock) THEN Err
    ELSE Ok([kind |-> IntOr(arr, 0, 0), slot |-> IntOr(arr, 1, 0),
             shredding |-> Shreds(arr, 2), entries |-> Cids(arr, 3),
             meta |-> SlotMetaFromCbor(IF Has(arr, 4, {"array"}) THEN arr[5][2] ELSE <<>>),
             rewards |-> IF Has(arr, 5, {"link"}) THEN arr[6][2] ELSE DefaultRewards])

SubsetFromCbor(arr) ==
    IF WrongKind(arr, KindSubset) THEN Err
    ELSE Ok([kind |-> IntOr(arr, 0, 0), first |-> IntOr(arr, 1, 0),
             last |-> IntOr(arr, 2, 0), blocks |-> Cids(arr, 3)])

EpochFromCbor(arr) ==
    IF WrongKind(arr, KindEpoch) THEN Err
    ELSE Ok([kind |-> IntOr(arr, 0, 0), epoch |-> IntOr(arr, 1, 0),
             subsets |-> Cids(arr, 2)])

RewardsFromCbor(arr) ==
    IF WrongKind(arr, KindRewards) THEN Err
    ELSE Struct(<< <<"kind", Ok(IntOr(arr, 0, 0))>>, <<"slot", Ok(IntOr(arr, 1, 0))>>,
                   <<"data", FrameOr(arr, 2)>> >>)

\* Kind::from_u64(..).unwrap() panics on an unknown kind.
parse_any_from_cbordata(raw) ==
    IF raw[1] # "array" THEN Err
    ELSE IF ~Has(raw[2], 0, {"uint", "nint"}) THEN Err
    ELSE LET kind == raw[2][1][2] % Word
         IN  CASE kind = KindTransaction -> TransactionFromCbor(raw[2])
               [] kind = KindEntry -> EntryFromCbor(raw[2])
               [] kind = KindBlock -> BlockFromCbor(raw[2])
               [] kind = KindSubset -> SubsetFromCbor(raw[2])
               [] kind = KindEpoch -> EpochFromCbor(raw[2])
               [] kind = KindRewards -> RewardsFromCbor(raw[2])
               [] kind = KindDataFrame -> DataFrameFromCbor(raw[2])
               [] OTHER -> Panic

----------------------------------------------------------------------------
(* node.rs: a batch of nodes is a sequence of [cid, node].                  *)

is_dataframe(node) == node.kind = KindDataFrame

\* The first node of the batch with the CID, <<>> when there is none.
get_by_cid(nodes, c) ==
    LET found == SelectSeq(nodes, LAMBDA n : n.cid = c)
    IN  IF found = <<>> THEN <<>> ELSE <<Head(found).node>>

\* for next_cid in next_arr.clone(): the data of each frame is appended and
\* next_arr becomes that frame's next.
RECURSIVE EachNext(_, _, _)
EachNext(nodes, cids, acc) ==
    IF cids = <<>> \/ acc.failed THEN acc
    ELSE LET got == get_by_cid(nodes, Head(cids))
         IN  IF got = <<>> THEN [acc EXCEPT !.failed = TRUE]
             ELSE IF ~is_dataframe(got[1]) THEN [acc EXCEPT !.failed = TRUE]
             ELSE EachNext(nodes, Tail(cids),
                           [acc EXCEPT !.data = @ \o got[1].data, !.next = got[1].next])

\* while next_arr.is_some()
RECURSIVE WhileNext(_, _)
WhileNext(nodes, acc) ==
    IF acc.next = <<>> \/ acc.failed THEN acc
    ELSE WhileNext(nodes, EachNext(nodes, acc.next, acc))

checksum_crc64(data) == SeqExt!FoldLeft(LAMBDA h, b : (5 * h + b + 1) % Word, 0, data)
checksum_fnv(data) == SeqExt!FoldLeft(LAMBDA h, b : (3 * h + 2 * b + 7) % Word, 11, data)

verify_hash(data, hash) == checksum_crc64(data) = hash \/ checksum_fnv(data) = hash

reassemble_dataframes(nodes, first) ==
    LET end == WhileNext(nodes, [data |-> first.data, next |-> first.next,
                                 failed |-> FALSE])
    IN  IF end.failed THEN Err
        ELSE IF first.hash # <<>> /\ ~verify_hash(end.data, first.hash[1]) THEN Err
        ELSE Ok(end.data)
=============================================================================
