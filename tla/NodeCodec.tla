----------------------------- MODULE NodeCodec -----------------------------
(* A transaction, its data and its metadata split into frames, is written   *)
(* into a CAR file (by the external CAR creator, as the schema describes    *)
(* it) and read back by the Go decoders, by the Rust decoders and by the    *)
(* two ways of reassembling frames.                                         *)
(*                                                                          *)
(* The Go side of decoded nodes: iplddecoders (the entry points of the fast *)
(* and of the classic decoders), the methods of ipldbindcode/methods.go     *)
(* (hash verification, signatures), the reassembly of split data            *)
(* (tooling/data-frames.go), the transactions of a block (accum/tx.go) and  *)
(* of a node (storage.go).                                                  *)
EXTENDS Nodes

CONSTANTS
    SigLen,       \* bytes of a signature (64)
    Compact,      \* first byte value that continues a compact-u16 (128)
    DefaultRewards,
    Datas,        \* the transactions' bytes
    Metas,        \* the metadata's bytes (compressed)
    ChunkSizes,   \* bytes of a frame
    Fanout,       \* links in a frame
    OtherNodes    \* well-formed nodes of the other kinds

VARIABLES pc, writer, file
vars == <<pc, writer, file>>

Rust == INSTANCE RustNodes

----------------------------------------------------------------------------
(* The classic decoders: a schema is the list of the fields of a tuple.     *)

EpochSchema == << <<"kind", "Int">>, <<"epoch", "Int">>, <<"subsets", "Links">> >>

SubsetSchema == << <<"kind", "Int">>, <<"first", "Int">>, <<"last", "Int">>,
                   <<"blocks", "Links">> >>

BlockSchema == << <<"kind", "Int">>, <<"slot", "Int">>, <<"shredding", "Shreds">>,
                  <<"entries", "Links">>, <<"meta", "Meta">>, <<"rewards", "Link">> >>

RewardsSchema == << <<"kind", "Int">>, <<"slot", "Int">>, <<"data", "Frame">> >>

SlotMetaSchema == << <<"parent_slot", "Int">>, <<"blocktime", "Int">>,
                     <<"block_height", "OptInt">> >>

ShreddingSchema == << <<"entryEndIdx", "Int">>, <<"shredEndIdx", "Int">> >>

EntrySchema == << <<"kind", "Int">>, <<"numHashes", "Int">>, <<"hash", "Bytes">>,
                  <<"transactions", "Links">> >>

TransactionSchema == << <<"kind", "Int">>, <<"data", "Frame">>,
                        <<"metadata", "Frame">>, <<"slot", "Int">>,
                        <<"index", "OptInt">> >>

DataFrameSchema == << <<"kind", "Int">>, <<"hash", "OptInt">>, <<"index", "OptInt">>,
                      <<"total", "OptInt">>, <<"data", "Bytes">>,
                      <<"next", "OptLinks">> >>

IsOpt(type) == type \in {"OptInt", "OptLinks"}

RECURSIVE ByType(_, _), ByTuple(_, _)

\* ipld.Unmarshal of one value: the type must be the schema's.  An int is an
\* int64.
ByType(type, x) ==
    CASE type = "Int" ->
            IF \/ x[1] = "uint" /\ x[2] < Word \div 2
               \/ x[1] = "nint" /\ x[2] >= -(Word \div 2)
            THEN Ok(x[2] % Word) ELSE Err
      [] type = "OptInt" -> IF x = Null THEN Ok(<<>>) ELSE All(<<ByType("Int", x)>>)
      [] type = "Bytes" -> AsBytes(x)
      [] type = "Link" -> AsLink(x)
      [] type = "Links" ->
            IF x[1] # "array" THEN Err
            ELSE All([i \in DOMAIN x[2] |-> AsLink(x[2][i])])
      [] type = "OptLinks" -> IF x = Null THEN Ok(<<>>) ELSE ByType("Links", x)
      [] type = "Shreds" ->
            IF x[1] # "array" THEN Err
            ELSE All([i \in DOMAIN x[2] |-> ByTuple(ShreddingSchema, x[2][i])])
      [] type = "Meta" -> ByTuple(SlotMetaSchema, x)
      [] type = "Frame" -> ByTuple(DataFrameSchema, x)

\* A tuple: trailing optional fields may be absent, nothing may follow.
ByTuple(schema, x) ==
    IF x[1] # "array" THEN Err
    ELSE IF Len(x[2]) > Len(schema) THEN Err
    ELSE Struct([i \in DOMAIN schema |->
                    <<schema[i][1],
                      IF i <= Len(x[2]) THEN ByType(schema[i][2], x[2][i])
                      ELSE IF IsOpt(schema[i][2]) THEN Ok(<<>>)
                      ELSE Err>>])

\* The node is decoded, then its kind compared.
OfKind(decoded, kind) ==
    IF IsOk(decoded) /\ decoded[2].kind # kind THEN Err ELSE decoded

DecodeEpochFast(raw) == OfKind(EpochUnmarshalCBOR(raw), KindEpoch)
DecodeEpochClassic(raw) == OfKind(ByTuple(EpochSchema, raw), KindEpoch)
DecodeSubsetFast(raw) == OfKind(SubsetUnmarshalCBOR(raw), KindSubset)
DecodeSubsetClassic(raw) == OfKind(ByTuple(SubsetSchema, raw), KindSubset)
DecodeBlockFast(raw) == OfKind(BlockUnmarshalCBOR(raw), KindBlock)
DecodeBlockClassic(raw) == OfKind(ByTuple(BlockSchema, raw), KindBlock)
DecodeEntryFast(raw) == OfKind(EntryUnmarshalCBOR(raw), KindEntry)
DecodeEntryClassic(raw) == OfKind(ByTuple(EntrySchema, raw), KindEntry)
DecodeTransactionFast(raw) == OfKind(TransactionUnmarshalCBOR(raw), KindTransaction)
DecodeTransactionClassic(raw) == OfKind(ByTuple(TransactionSchema, raw), KindTransaction)
DecodeRewardsFast(raw) == OfKind(RewardsUnmarshalCBOR(raw), KindRewards)
DecodeRewardsClassic(raw) == OfKind(ByTuple(RewardsSchema, raw), KindRewards)
DecodeDataFrameFast(raw) == OfKind(DataFrameUnmarshalCBOR(raw), KindDataFrame)
DecodeDataFrameClassic(raw) == OfKind(ByTuple(DataFrameSchema, raw), KindDataFrame)

\* The second byte of a node: the first element of its array.
GetKind(raw) == IF raw[2] = <<>> THEN Err ELSE Ok(raw[2][1][2])

DecodeAny(raw) ==
    LET kind == GetKind(raw)
    IN  IF ~IsOk(kind) THEN Err
        ELSE CASE kind[2] = KindTransaction -> DecodeTransactionFast(raw)
               [] kind[2] = KindEntry -> DecodeEntryFast(raw)
               [] kind[2] = KindBlock -> DecodeBlockFast(raw)
               [] kind[2] = KindSubset -> DecodeSubsetFast(raw)
               [] kind[2] = KindEpoch -> DecodeEpochFast(raw)
               [] kind[2] = KindRewards -> DecodeRewardsFast(raw)
               [] kind[2] = KindDataFrame -> DecodeDataFrameFast(raw)
               [] OTHER -> Err

ClassicAny(raw) ==
    LET kind == GetKind(raw)[2]
    IN  CASE kind = KindTransaction -> DecodeTransactionClassic(raw)
          [] kind = KindEntry -> DecodeEntryClassic(raw)
          [] kind = KindBlock -> DecodeBlockClassic(raw)
          [] kind = KindSubset -> DecodeSubsetClassic(raw)
          [] kind = KindEpoch -> DecodeEpochClassic(raw)
          [] kind = KindRewards -> DecodeRewardsClassic(raw)
          [] kind = KindDataFrame -> DecodeDataFrameClassic(raw)

----------------------------------------------------------------------------
(* Frames *)

Concat(seqs) == SeqExt!FoldLeft(LAMBDA a, b : a \o b, <<>>, seqs)

\* Two different checksums of a sequence of bytes.
checksumCrc64(data) == SeqExt!FoldLeft(LAMBDA h, b : (5 * h + b + 1) % Word, 0, data)
checksumFnv(data) == SeqExt!FoldLeft(LAMBDA h, b : (3 * h + 2 * b + 7) % Word, 11, data)

VerifyHash(data, hash) == checksumCrc64(data) = hash \/ checksumFnv(data) = hash

\* A hash that is there is verified.
Verified(data, hash) == IF hash # <<>> /\ ~VerifyHash(data, hash[1]) THEN Err ELSE Ok(data)

\* The frame of a CID, from the raw nodes at hand.
Getter(store, c) == IF c \in DOMAIN store THEN DecodeDataFrameFast(store[c]) ELSE Err

\* Depth first: a frame, then all the frames of each of its links.
RECURSIVE getAllFramesFromDataFrame(_, _)
getAllFramesFromDataFrame(first, store) ==
    LET Sub(c) == Then(Getter(store, c), LAMBDA f : getAllFramesFromDataFrame(f, store))
    IN  Then(All([i \in DOMAIN first.next |-> Sub(first.next[i])]),
             LAMBDA rest : Ok(<<first>> \o Concat(rest)))

\* Mutant of LoadDataFromDataFrames: the hash is not verified.
LoadDataUnverified(first, store) ==
    Then(getAllFramesFromDataFrame(first, store), LAMBDA frames :
        Ok(Concat([i \in DOMAIN frames |-> frames[i].data])))

LoadDataFromDataFrames(first, store) ==
    Then(getAllFramesFromDataFrame(first, store), LAMBDA frames :
        Verified(Concat([i \in DOMAIN frames |-> frames[i].data]), first.hash))

----------------------------------------------------------------------------
(* Transactions.  The bytes of a transaction are the number of signatures,  *)
(* the signatures and the message, which starts with its own length.        *)

\* bin.ReadCompactU16: the value and the bytes it takes.
ReadCompactU16(buf) ==
    CASE buf = <<>> -> Err
      [] buf # <<>> /\ buf[1] < Compact -> Ok(<<buf[1], 1>>)
      [] buf # <<>> /\ buf[1] >= Compact /\ Len(buf) > 1 ->
            Ok(<<buf[1] - Compact + Compact * buf[2], 2>>)
      [] OTHER -> Err

SigAt(buf, skip, i) ==
    SubSeq(buf, skip + (i - 1) * SigLen + 1, skip + i * SigLen)

readAllSignatures(buf) ==
    Then(ReadCompactU16(buf), LAMBDA n :
        IF n[1] = 0 \/ Len(buf) - n[2] < SigLen * n[1] THEN Err
        ELSE Ok([i \in 1 .. n[1] |-> SigAt(buf, n[2], i)]))

readFirstSignature(buf) ==
    Then(ReadCompactU16(buf), LAMBDA n :
        IF n[1] = 0 \/ Len(buf) - n[2] < SigLen THEN Err ELSE Ok(SigAt(buf, n[2], 1)))

\* bin.UnmarshalBin of a transaction.
UnmarshalBin(buf) ==
    Then(ReadCompactU16(buf), LAMBDA n :
        LET from == n[2] + SigLen * n[1]
        IN  IF Len(buf) <= from THEN Err
            ELSE IF Len(buf) < from + 1 + buf[from + 1] THEN Err
            ELSE Ok([sigs |-> [i \in 1 .. n[1] |-> SigAt(buf, n[2], i)],
                     message |-> SubSeq(buf, from + 1, from + 1 + buf[from + 1])]))

\* The data is in one frame: no total, or a total of one.
IsWhole(frame) == frame.total \in {<<>>, <<1>>}

GetSolanaTransaction(tx) ==
    IF ~IsWhole(tx.data) THEN Err
    ELSE Then(Verified(tx.data.data, tx.data.hash), LAMBDA data :
             Then(UnmarshalBin(data), LAMBDA u : IF u.sigs = <<>> THEN Err ELSE Ok(u)))

----------------------------------------------------------------------------
(* Metadata is compressed: a mark, the length of what follows, the content. *)

Magic == 40
DecompressZstd(buf) ==
    IF Len(buf) >= 2 /\ buf[1] = Magic /\ Len(buf) = 2 + buf[2]
    THEN Ok(SubSeq(buf, 3, Len(buf))) ELSE Err

\* TxStatusMeta has the formats of metadata.  Here it only matters that there
\* are contents that none of them accepts, which the first byte tells.
BadMeta == 0
ParseAnyTransactionStatusMeta(content) ==
    IF content # <<>> /\ content[1] # BadMeta THEN Ok(content) ELSE Err

\* storage.go: a failure to decompress or to parse is logged, and the answer
\* has no metadata; no signature means an empty transaction and no error.
parseTransactionAndMetaFromNode(tx, store) ==
    LET StatusOf(content) ==
            IF IsOk(content) /\ IsOk(ParseAnyTransactionStatusMeta(content[2])) THEN <<content[2]>> ELSE <<>>
    IN  Then(LoadDataFromDataFrames(tx.data, store), LAMBDA data :
            Then(UnmarshalBin(data), LAMBDA u :
                IF u.sigs = <<>> THEN Ok([tx |-> <<>>, meta |-> <<>>])
                ELSE Then(LoadDataFromDataFrames(tx.metadata, store), LAMBDA meta :
                         Ok([tx |-> <<u>>,
                             meta |-> IF meta = <<>> THEN <<>> ELSE StatusOf(DecompressZstd(meta))]))))

getTransactionAndMetaFromNode(tx, store) ==
    Then(LoadDataFromDataFrames(tx.data, store), LAMBDA data :
        Then(LoadDataFromDataFrames(tx.metadata, store), LAMBDA meta :
            IF meta = <<>> THEN Ok([tx |-> data, meta |-> <<>>])
            ELSE Then(DecompressZstd(meta), LAMBDA content : Ok([tx |-> data, meta |-> <<content>>]))))

----------------------------------------------------------------------------
(* accum/tx.go: the transactions of the objects of a block.                 *)

\* The metadata of one transaction: a status, "not found" or "parse error";
\* Err where the whole block is given up.
ObjectMeta(tx, store) ==
    Then(IF IsWhole(tx.metadata) THEN Verified(tx.metadata.data, tx.metadata.hash)
         ELSE LoadDataFromDataFrames(tx.metadata, store),
         LAMBDA buf :
            IF buf = <<>> THEN Ok(<<"not found">>)
            ELSE Then(DecompressZstd(buf), LAMBDA content :
                     IF IsOk(ParseAnyTransactionStatusMeta(content)) THEN Ok(<<"status", content>>)
                     ELSE Ok(<<"parse error">>)))

\* One object of the block; acc.map is dataBlocksMap.  An object is
\* [cid, offset, raw].
ObjectTransaction(object, store) ==
    Then(DecodeTransactionFast(object.raw), LAMBDA decoded :
        Then(GetSolanaTransaction(decoded), LAMBDA tx :
            Then(ObjectMeta(decoded, store), LAMBDA meta :
                Ok([offset |-> object.offset, tx |-> tx, meta |-> meta]))))

AfterTransaction(acc, out) ==
    IF IsOk(out) THEN [acc EXCEPT !.map = <<>>, !.txs = Append(@, out[2])]
    ELSE [acc EXCEPT !.failed = out[1]]

EachObject(acc, object) ==
    CASE acc.failed # "no" -> acc
      [] acc.failed = "no" /\ GetKind(object.raw)[2] = KindDataFrame ->
            [acc EXCEPT !.map = [c \in DOMAIN acc.map \cup {object.cid} |->
                IF c = object.cid THEN object.raw ELSE acc.map[c]]]
      [] acc.failed = "no" /\ GetKind(object.raw)[2] = KindTransaction ->
            AfterTransaction(acc, ObjectTransaction(object, acc.map))
      [] OTHER -> acc

ObjectsToTransactionsAndMetadata(objects) ==
    LET end == SeqExt!FoldLeft(EachObject, [map |-> <<>>, txs |-> <<>>, failed |-> "no"],
                               objects)
    IN  IF end.failed = "no" THEN Ok(end.txs) ELSE <<end.failed>>

----------------------------------------------------------------------------
(* The CAR creator *)

Chunks(data, size) ==
    LET n == IF data = <<>> THEN 1 ELSE (Len(data) + size - 1) \div size
    IN  [i \in 1 .. n |->
            SubSeq(data, (i - 1) * size + 1,
                   IF i = n THEN Len(data) ELSE i * size)]

\* A hash is written as an int, so one with the top bit set is negative.
HashValue(h) == IF h < Word \div 2 THEN UInt(h) ELSE NInt(h - Word)

\* Frame i (from 0) of n.  Frame 0 and every Fanout-th frame after it list the
\* next Fanout frames.
FrameOf(chunks, i, owner, hashed) ==
    LET n == Len(chunks)
        last == IF i + Fanout < n THEN i + Fanout ELSE n - 1
        links == IF i % Fanout = 0 /\ last > i
                 THEN [k \in 1 .. last - i |-> Link(Append(owner, i + k))] ELSE <<>>
    IN  Arr(<<UInt(KindDataFrame),
              IF i = 0 /\ hashed THEN HashValue(checksumCrc64(Concat(chunks))) ELSE Null,
              IF n = 1 THEN Null ELSE UInt(i), IF n = 1 THEN Null ELSE UInt(n),
              Bytes(chunks[i + 1])>>
            \o IF n = 1 THEN <<>> ELSE <<Arr(links)>>)

\* An object of the file, and what the three decoders make of it.
Object(cid, raw) ==
    [cid |-> cid, raw |-> raw, fast |-> DecodeAny(raw), classic |-> ClassicAny(raw),
     rust |-> Rust!parse_any_from_cbordata(raw)]

\* The frames after the first, in the order of the file.
Continuation(chunks, owner, hashed) ==
    [i \in 1 .. Len(chunks) - 1 |-> Object(Append(owner, i), FrameOf(chunks, i, owner, hashed))]

TxNode(dataChunks, metaChunks, owner, hashed, slot, index) ==
    Arr(<<UInt(KindTransaction), FrameOf(dataChunks, 0, <<owner, "data">>, hashed),
          FrameOf(metaChunks, 0, <<owner, "meta">>, hashed), UInt(slot),
          IF index = <<>> THEN Null ELSE UInt(index[1])>>)

\* The objects of a transaction: its frames, then the transaction.
Written(data, meta, size, owner, hashed) ==
    LET dc == Chunks(data, size)
        mc == Chunks(meta, size)
    IN  Continuation(dc, <<owner, "data">>, hashed)
        \o Continuation(mc, <<owner, "meta">>, hashed)
        \o <<Object(<<owner, "tx", 0>>, TxNode(dc, mc, owner, hashed, 3, <<0>>))>>

Init ==
    /\ pc = "empty"
    /\ writer \in [data : Datas, meta : Metas, size : ChunkSizes, hashed : BOOLEAN]
    /\ file = <<>>

\* The transaction of the writer goes to the file.
WriteTx ==
    /\ pc = "empty"
    /\ pc' = "one"
    /\ file' = Written(writer.data, writer.meta, writer.size, 1, writer.hashed)
    /\ UNCHANGED writer

\* A second transaction, with other contents.
WriteSecond ==
    /\ pc = "one"
    /\ \E d \in Datas, m \in Metas :
          writer' = [writer EXCEPT !.data = d, !.meta = m]
    /\ file' = file \o Written(writer'.data, writer'.meta, writer.size, 2, writer.hashed)
    /\ pc' = "two"

\* Another node.
WriteOther ==
    /\ pc = "empty"
    /\ \E n \in OtherNodes : file' = <<Object(<<0, "other", 0>>, n)>>
    /\ pc' = "other"
    /\ UNCHANGED writer

Next == WriteTx \/ WriteSecond \/ WriteOther
Spec == Init /\ [][Next]_vars

----------------------------------------------------------------------------
Store == [c \in {file[i].cid : i \in DOMAIN file} |->
            (CHOOSE o \in SeqExt!ToSet(file) : o.cid = c).raw]
Nodes(objects) ==
    [i \in DOMAIN objects |-> [cid |-> objects[i].cid, node |-> objects[i].rust[2]]]
FastTx == file[Len(file)].fast
ClassicTx == file[Len(file)].classic
Split(bytes) == Len(Chunks(bytes, writer.size)) > 1
HasTx == pc \in {"one", "two"}

\* A frame inside a Transaction or a Rewards that the two decoders are known to
\* read alike: it has no links, and its hash is not a negative CBOR number.
Plain(frame) == frame.next = <<>> /\ \A i \in DOMAIN frame.hash : frame.hash[i] < Word \div 2

\* The hand-written decoders of cbor.go agree with the schema on the nodes the
\* CAR creator writes (decoders_test.go compares them on a few): all of them,
\* except that nothing is said of Transactions and Rewards with a frame that is
\* not plain.
FastMatchesSchema ==
    \A i \in DOMAIN file :
        LET o == file[i]
            node == o.classic[2]
        IN  /\ IsOk(o.classic)
            /\ CASE GetKind(o.raw)[2] = KindTransaction ->
                       Plain(node.data) /\ Plain(node.metadata) => o.fast = o.classic
                 [] GetKind(o.raw)[2] = KindRewards -> Plain(node.data) => o.fast = o.classic
                 [] OTHER -> o.fast = o.classic

\* The Rust decoders read every node the CAR creator writes as the schema
\* does, the links of the frames inside a transaction included.
RustMatchesSchema == \A i \in DOMAIN file : file[i].rust = file[i].classic

\* Both walks over the frames, the depth-first one of tooling/data-frames.go
\* and the loop of reassemble_dataframes, give back the bytes that were split,
\* given a first frame with its links.
WalksAgree ==
    HasTx =>
        /\ LoadDataFromDataFrames(ClassicTx[2].data, Store) = Ok(writer.data)
        /\ LoadDataFromDataFrames(ClassicTx[2].metadata, Store) = Ok(writer.meta)
        /\ Rust!reassemble_dataframes(Nodes(file), ClassicTx[2].metadata) = Ok(writer.meta)
        /\ Rust!reassemble_dataframes(Nodes(file), ClassicTx[2].data) = Ok(writer.data)

\* With the decoders in use, data that was not split is loaded as it was, and
\* data with a checksum is loaded as it was or not at all.  Nothing is said of
\* split data without a checksum.  (The contents that are written and their
\* first frames have different checksums.)
LoadedIsWhole ==
    HasTx /\ IsOk(FastTx) =>
        LET Exact(bytes, frame) ==
                LET loaded == LoadDataFromDataFrames(frame, Store)
                IN  /\ ~Split(bytes) => loaded = Ok(bytes)
                    /\ writer.hashed /\ IsOk(loaded) => loaded = Ok(bytes)
        IN  Exact(writer.data, FastTx[2].data) /\ Exact(writer.meta, FastTx[2].metadata)

\* The signature the indexes are keyed by, read from the first frame alone,
\* is the transaction's first signature, and is read whether the transaction
\* is split or not as long as the first frame holds it; all of them are read
\* only if it holds them all.
SignatureFromFirstFrame ==
    HasTx /\ IsOk(FastTx) =>
        LET whole == UnmarshalBin(writer.data)[2]
            count == ReadCompactU16(writer.data)[2]
            first == FastTx[2].data.data
            Holds(n) == whole.sigs # <<>> /\ Len(first) >= count[2] + n * SigLen
        IN  /\ readFirstSignature(first) = IF Holds(1) THEN Ok(whole.sigs[1]) ELSE Err
            /\ readAllSignatures(first) = IF Holds(count[1]) THEN Ok(whole.sigs) ELSE Err

\* Undecodable metadata is an error on the path of getTransactionAndMeta and
\* is dropped on the path of parseTransactionAndMeta; neither serves the
\* transaction of another node.
MetaPathsDiffer ==
    LET Differ(get, parse, content, signed) ==
            LET bad == writer.meta # <<>> /\ ~IsOk(content)
            IN  /\ get = IF bad THEN Err
                         ELSE Ok([tx |-> writer.data,
                                  meta |-> IF writer.meta = <<>> THEN <<>> ELSE <<content[2]>>])
                /\ IsOk(parse)
                /\ bad => parse[2].meta = <<>>
                /\ (parse[2].tx = <<>>) = ~signed
    IN  HasTx /\ IsOk(FastTx) /\ ~Split(writer.data) /\ ~Split(writer.meta) =>
            Differ(getTransactionAndMetaFromNode(FastTx[2], Store),
                   parseTransactionAndMetaFromNode(FastTx[2], Store),
                   DecompressZstd(writer.meta), UnmarshalBin(writer.data)[2].sigs # <<>>)

\* A block's transactions are all returned, in the order of the objects, with
\* their offsets and as they were written, or the block is given up as a whole;
\* a split transaction always is.
BlockAllOrNothing ==
    LET objects == [i \in DOMAIN file |->
                        [cid |-> file[i].cid, offset |-> i, raw |-> file[i].raw]]
        txs == SelectSeq(file, LAMBDA o : GetKind(o.raw)[2] = KindTransaction)
        AllOf(out) ==
            /\ Len(out) = Len(txs)
            /\ \A i \in DOMAIN txs :
                  LET c == txs[i].classic[2]
                  IN  /\ file[out[i].offset] = txs[i]
                      /\ c.data.next = <<>>
                      /\ Ok(out[i].tx) = UnmarshalBin(c.data.data)
                      /\ (out[i].meta = <<"not found">>) = (c.metadata.data = <<>>)
        AllOrNothing(out) == IsOk(out) => AllOf(out[2])
    IN  HasTx => AllOrNothing(ObjectsToTransactionsAndMetadata(objects))
=============================================================================
