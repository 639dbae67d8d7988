---------------------------- MODULE TxStatusMeta ----------------------------
(***************************************************************************)
(* The metadata of a transaction was stored in three formats in the course  *)
(* of the chain; ParseAnyTransactionStatusMeta tries them one after the     *)
(* other, and getErr makes the "err" of the answers out of what it gets.    *)
(***************************************************************************)
EXTENDS SolanaErrors

CONSTANTS ProtobufMetas,   \* [err |-> JSON error or NilErr, fee |-> number]
          LatestMetas, OldestMetas   \* values of the two bincode formats

VARIABLES pc,       \* start, stored, refused, cut
          writer,   \* what was stored, and in which format
          file      \* its bytes, and what they are parsed as

metalatest == INSTANCE MetaLatest
metaoldest == INSTANCE MetaOldest

Meta(format, v) == [format |-> format, v |-> v]

Init ==
    /\ pc = "start"
    /\ \/ \E v \in ProtobufMetas : writer = Meta("protobuf", v)
       \/ \E v \in LatestMetas : writer = Meta("latest", v)
       \/ \E v \in OldestMetas : writer = Meta("oldest", v)
    /\ file = [bytes |-> <<>>, parsed |-> Failed]
-----------------------------------------------------------------------------
(* The protobuf message, with its fields err (1) and fee (2).               *)

Marshal(err, fee) ==
    (IF err = <<>> THEN <<>> ELSE <<10, Len(err) + 2, 10, Len(err)>> \o err)
        \o (IF fee = 0 THEN <<>> ELSE <<16, fee>>)

Unmarshal(b) ==
    LET has == b # <<>> /\ b[1] = 10
        n == IF has /\ Len(b) > 1 THEN b[2] + 2 ELSE 0
        rest == SubSeq(b, n + 1, Len(b))
        err == IF has THEN SubSeq(b, 5, n) ELSE <<>>
    IN  IF has /\ (n = 0 \/ n > Len(b)) THEN Failed
        ELSE IF rest = <<>> THEN Got(Meta("protobuf", [err |-> err, fee |-> 0]), Len(b))
        ELSE IF Len(rest) = 2 /\ rest[1] = 16
        THEN Got(Meta("protobuf", [err |-> err, fee |-> rest[2]]), Len(b))
        ELSE Failed
-----------------------------------------------------------------------------
ParseTransactionStatusMeta(buf) == Unmarshal(buf)

ParseLegacyTransactionStatusMeta(buf) ==
    LET r == metalatest!BincodeDeserializeTransactionStatusMeta(buf)
    IN  IF r.ok THEN Got(Meta("latest", r.v), r.pos) ELSE r

ParseLegacyTransactionStatusMetaOldest(buf) ==
    LET r == metaoldest!BincodeDeserializeTransactionStatusMeta(buf)
    IN  IF r.ok THEN Got(Meta("oldest", r.v), r.pos) ELSE r

ParseAnyTransactionStatusMeta(buf) ==
    LET p == ParseTransactionStatusMeta(buf)
        l == ParseLegacyTransactionStatusMeta(buf)
        o == ParseLegacyTransactionStatusMetaOldest(buf)
    IN  IF p.ok THEN p ELSE IF l.ok THEN l ELSE o
-----------------------------------------------------------------------------
(* getErr                                                                   *)

\* The number that the switches of getErr put next to the name.
ErrNumbers ==
    <<"AccountInUse", "AccountLoadedTwice", "AccountNotFound", "ProgramAccountNotFound",
      "InsufficientFundsForFee", "InvalidAccountForFee", "DuplicateSignature", "BlockhashNotFound",
      "CallChainTooDeep", "MissingSignatureForFee", "InvalidAccountIndex", "SignatureFailure",
      "InvalidProgramForExecution", "SanitizeFailure", "ClusterMaintenance">>

\* The name of an instruction's error; the name of the variant with a code of its own
\* differs between the formats.
InstructionErr(index, ix, custom) ==
    IF ix.name = custom THEN Json("InstructionError", "custom", index, "", ix.fields[1])
    ELSE Json("InstructionError", "ix", index, ix.name, 0)

LatestErr(status) ==
    IF status.name = "Ok" THEN NilErr
    ELSE LET e == status.fields[1]
         IN  IF e.name = "InstructionError" THEN InstructionErr(e.fields[1], e.fields[2], "Custom")
             ELSE Json(e.name, "list", NumberIn(ErrNumbers, e.name), "", 0)

OldestErr(status) ==
    IF status.name = "Ok" THEN NilErr
    ELSE LET e == status.fields[1]
         IN  IF e.name = "InstructionError" THEN InstructionErr(e.fields[1], e.fields[2], "CustomError")
             ELSE Json(e.name, "list", NumberIn(ErrNumbers, e.name), "", 0)

LegacyErr(meta) == IF meta.format = "latest" THEN LatestErr(meta.v[1]) ELSE OldestErr(meta.v[1])

\* For the protobuf format the result is a map, which is not nil as an interface value
\* even when the map is.
GetErr(meta) ==
    IF meta.format = "protobuf" THEN ParseTransactionError(meta.v.err) ELSE LegacyErr(meta)
-----------------------------------------------------------------------------
Bytes(w) ==
    CASE w.format = "protobuf" ->
            IF w.v.err = NilErr THEN Encoded(Marshal(<<>>, w.v.fee))
            ELSE LET e == FromJSONToProtobuf(w.v.err)
                 IN  IF e.ok THEN Encoded(Marshal(e.bytes, w.v.fee)) ELSE e
      [] w.format = "latest" -> Encoded(metalatest!BincodeSerializeTransactionStatusMeta(w.v))
      [] w.format = "oldest" -> Encoded(metaoldest!BincodeSerializeTransactionStatusMeta(w.v))

File(bytes) == [bytes |-> bytes, parsed |-> ParseAnyTransactionStatusMeta(bytes)]

Store ==
    /\ pc = "start"
    /\ LET b == Bytes(writer)
       IN  IF b.ok THEN pc' = "stored" /\ file' = File(b.bytes) ELSE pc' = "refused" /\ UNCHANGED file
    /\ UNCHANGED writer

\* The end of a bincode value is missing.
Cut ==
    /\ pc = "stored" /\ writer.format # "protobuf"
    /\ \E k \in 0..Len(file.bytes) - 1 : file' = File(SubSeq(file.bytes, 1, k))
    /\ pc' = "cut"
    /\ UNCHANGED writer

Next == Store \/ Cut

Spec == Init /\ [][Next]_<<pc, writer, file>>
-----------------------------------------------------------------------------
(* Properties.                                                              *)

Parsed == file.parsed

\* What was stored is parsed as the format it was stored in: a bincode value is the same,
\* whatever the error in it (the index each variant writes is the case that reads it), a
\* protobuf message has the same fee and the bytes of the same error.
ParsesBack ==
    pc = "stored" =>
        /\ Parsed.ok /\ Parsed.v.format = writer.format
        /\ IF writer.format # "protobuf" THEN Parsed.v.v = writer.v
           ELSE /\ Parsed.v.v.fee = writer.v.fee
                /\ Parsed.v.v.err = IF writer.v.err = NilErr THEN <<>>
                                    ELSE FromJSONToProtobuf(writer.v.err).bytes

\* Since bytes left over are no error, metadata of the latest format that lost its end may
\* be taken for the oldest format, but only when its balances are complete and the error
\* is one the oldest format knows: status, fee and balances are right then. Without any
\* byte it is an empty protobuf message.
CutTakenForOldest ==
    pc = "cut" /\ Parsed.ok /\ file.bytes # <<>> =>
        LET base == IF writer.format = "latest"
                    THEN Len(Serialize(Struct(SubSeq(metalatest!TransactionStatusMeta.fields, 1, 4)), writer.v))
                    ELSE Len(metaoldest!BincodeSerializeTransactionStatusMeta(writer.v))
        IN  /\ Len(file.bytes) >= base
            /\ Parsed.v.format = "oldest" /\ Tail(Parsed.v.v) = SubSeq(writer.v, 2, 4)
            /\ LegacyErr(Parsed.v) = LegacyErr(writer)

\* Every error that parser.go names can be stored, save one that the table by number
\* spells differently, and the instruction errors that have a parameter other than Custom.
NamesKnown ==
    pc = "refused" =>
        writer.v.err.name = "AccountBorrowOutstanding" \/ writer.v.err.shape = "borsh"

\* An error in protobuf metadata that has a list of parameters is shown as it was. Nothing
\* is said of those without parameters and of those with an account_index.
ErrorsShown ==
    pc = "stored" /\ writer.format = "protobuf" /\ writer.v.err.shape \in {"list", "ix", "custom"} =>
        GetErr(Parsed.v) = writer.v.err

\* The bincode formats show every error by its name, and up to 7 the number beside it is
\* the number of the error.
LegacyErrorsShown ==
    pc = "stored" /\ writer.format # "protobuf" /\ writer.v[1].name # "Ok" =>
        LET e == writer.v[1].fields[1]
            n == FromLittleEndian(SubSeq(file.bytes, 5, 8))
            shown == GetErr(Parsed.v)
        IN  shown.name = e.name /\ (n < 8 => shown.code = n)

\* getErr(meta) is nil, the test for transactions that did not fail (grpc-server.go:746),
\* only for those, and for all of those with metadata of a bincode format. Nothing is said
\* of the protobuf ones, for which getErr returns a map, nil or not.
NilOnlyIfOk ==
    pc = "stored" =>
        LET ok == IF writer.format = "protobuf" THEN writer.v.err = NilErr ELSE writer.v[1].name = "Ok"
        IN  /\ GetErr(Parsed.v) = NilErr => ok
            /\ ok /\ writer.format # "protobuf" => GetErr(Parsed.v) = NilErr
=============================================================================
