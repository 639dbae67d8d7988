----------------------------- MODULE MCArchive ------------------------------
(***************************************************************************)
(* The files of an epoch: the formats of its indexes, its CAR file and the  *)
(* nodes and metadata in it, each one with its writers, their crashes, and  *)
(* its readers; and the tools that index and split the CAR file.  These     *)
(* parts do not interact: a behaviour is about one of them.                 *)
(***************************************************************************)
EXTENDS IndexFiles

\* Times of two bytes, and some that do not fit; the metadata of manifests.
MCTimes == {-1, 0, 300, 65535, 65536}
MCMetas == {[id |-> "m1", len |-> 1], [id |-> "m2", len |-> 3]}

Builder(f, items, size) == [format |-> f, items |-> items, size |-> size]

CI == INSTANCE CompactIndex WITH
          Keys <- 0..2, Hashes <- 0..3, Values <- <<100, 300, 70000>>, TargetEntriesPerBucket <- 4,
          Builders <- {Builder("sized", 0, 9), Builder("sized", 4, 0), Builder("sized", 4, 256),
                       Builder("sized", 4, 9), Builder("sized", 2, 253), Builder("sized", 8, 36),
                       Builder("36", 0, 0), Builder("36", 4, 0), Builder("36", 8, 0),
                       Builder("u64", 4, 0), Builder("u64", 4, 250), Builder("u64", 8, 40000)}

BK == INSTANCE Bucketteer WITH
          Prefixes <- 0..2, MaxPuts <- 4,
          Sigs <- {[prefix |-> 0, hash |-> h, id |-> 1] : h \in 1..3}
                  \cup {[prefix |-> 2, hash |-> 3, id |-> i] : i \in 1..2}
                  \cup {[prefix |-> 1, hash |-> 1, id |-> 1]}

IM == INSTANCE IndexMeta WITH
          MaxNumKVs <- 3, MaxKeySize <- 3, MaxValueSize <- 3, Byte <- 4, MaxCalls <- 4,
          Words <- {<<>>, <<1>>, <<2, 0>>, <<0, 1, 2, 1>>}

CF == INSTANCE CarFile WITH
          reader <- writer, Base <- 4, Cids <- {<<9, 7, 1>>, <<9, 7, 2>>}, PrefixLen <- 1, CidLen <- 3,
          MaxSections <- 2, BufSize <- 12, MaxAllowedSectionSize <- 16,
          Payloads <- {<<>>, <<1>>, <<5, 5, 5>>, [i \in 1..13 |-> i % 3], [i \in 1..14 |-> 1]}

D(slot, size) == [dag |-> TRUE, slot |-> slot, size |-> size]
O(size) == [dag |-> FALSE, slot |-> 0, size |-> size]

SC == INSTANCE SplitCar WITH
          splitter <- writer, pieces <- file,
          OrigHdrSize <- 3, HdrSize <- 2, MaxFileSize <- 6, MaxLinks <- 1,
          Cars <- {<<>>, <<O(2)>>, <<D(1, 2), D(2, 1), D(4, 3), D(5, 1), O(2)>>, <<D(1, 1), O(1), D(3, 2)>>,
                   <<D(1, 1), D(2, 1), D(3, 1), D(4, 1), D(5, 1), O(2), O(1)>>,
                   <<D(1, 9), D(2, 1), O(2), D(5, 9)>>}

Node(c, kind, ok, slot, sig, size) ==
    [cid |-> c, kind |-> kind, ok |-> ok, slot |-> slot, time |-> 2 * slot, sig |-> sig, size |-> size]
Epoch == Node("e", "epoch", TRUE, 0, "none", 5)
Tx(i) == Node(<<"t1", "t2">>[i], "transaction", TRUE, i, <<"s1", "s2">>[i], 2 + i)
Blk(slot) == Node(<<"b1", "b2", "b3", "b4">>[slot], "block", TRUE, slot, "none", 6)
Whole(nodes) == [nodes |-> nodes, roots |-> <<"e">>, end |-> "eof"]

IX == INSTANCE IndexTools WITH
          HeaderSize <- 7, EpochSlots <- 0..3,
          Cars <- {Whole(<<Tx(1), Blk(1), Epoch>>), Whole(<<Tx(1), Blk(1), Tx(2), Epoch>>),
                   Whole(<<Tx(1), Tx(1), Blk(1), Epoch>>), Whole(<<Blk(4), Epoch>>), Whole(<<Tx(2), Blk(1)>>),
                   Whole(<<[Tx(1) EXCEPT !.ok = FALSE], Blk(1), Epoch>>),
                   Whole(<<[Tx(2) EXCEPT !.sig = "none"], Blk(1), Epoch>>),
                   [Whole(<<Tx(1), Blk(1), Epoch>>) EXCEPT !.end = "error"],
                   [Whole(<<Blk(1), Tx(1), Epoch>>) EXCEPT !.roots = <<"e", "b1">>]}

-----------------------------------------------------------------------------
(* The metadata of transactions.                                            *)

SE == INSTANCE SolanaErrors
Latest == INSTANCE MetaLatest
Oldest == INSTANCE MetaOldest

Variant(name, fields) == [name |-> name, fields |-> fields]
Fields(v) == [i \in DOMAIN v.fields.fields |-> 3]
Success == Variant("Ok", <<>>)
Errors(txErrors, ixErrors) ==
    {Variant("Err", <<Variant(txErrors[i].name,
                              IF txErrors[i].name = "InstructionError"
                              THEN <<2, Variant(ixErrors[j].name, Fields(ixErrors[j]))>> ELSE <<>>)>>) :
        i \in DOMAIN txErrors, j \in DOMAIN ixErrors}
InnerInstructions ==
    {<<>>, <<<<>>>>, <<<< <<1, << <<4, <<<<1>>, 2, 3, 4>>, <<<<9>>, 8, 7, 6>> >> >> >> >>>>}
MetasLatest ==
    {<<s, 5, <<1>>, <<2>>, <<>>>> :
        s \in {Success} \cup Errors(Latest!TransactionError.variants, Latest!InstructionError.variants)}
    \cup {<<s, 0, p, q, i>> :
        s \in {Success, Variant("Err", <<Variant("SanitizeFailure", <<>>)>>)},
        p \in {<<>>, <<7>>}, q \in {<<>>, <<1, 2>>}, i \in InnerInstructions}
MetasOldest ==
    {<<s, 5, <<1>>, <<2>>>> :
        s \in {Success} \cup Errors(Oldest!TransactionError.variants, Oldest!InstructionError.variants)}

Elements(s) == {s[i] : i \in DOMAIN s}
Structured == {"InstructionError", "InsufficientFundsForRent", "ProgramExecutionTemporarilyRestricted",
               "DuplicateInstruction"}
JsonErrors ==
    {SE!NilErr} \cup {SE!Json(n, "unit", 0, "", 0) : n \in Elements(SE!TransactionErrors) \ Structured}
    \cup {SE!Json(n, "object", 3, "", 0) :
            n \in {"InsufficientFundsForRent", "ProgramExecutionTemporarilyRestricted"}}
    \cup {SE!Json("DuplicateInstruction", "list", 2, "", 0),
          SE!Json("InstructionError", "custom", 1, "", 6001),
          SE!Json("InstructionError", "borsh", 1, "BorshIoError", 0)}
    \cup {SE!Json("InstructionError", "ix", 1, s, 0) :
            s \in Elements(SE!InstructionErrors) \ {"Custom", "BorshIoError"}}

TM == INSTANCE TxStatusMeta WITH
          ProtobufMetas <- {[err |-> e, fee |-> f] : e \in JsonErrors, f \in {0, 5}},
          LatestMetas <- MetasLatest, OldestMetas <- MetasOldest

-----------------------------------------------------------------------------
(* The nodes: signatures of 2 bytes; 4 is the first value that continues a  *)
(* compact-u16.                                                             *)

N == INSTANCE Nodes WITH Word <- 256
L(i) == N!Link(<<9, "tx", i>>)
U(n) == N!UInt(n)
OtherNodes ==
    {N!Arr(<<U(N!KindEpoch), U(5), N!Arr(<<L(1), L(2)>>)>>),
     N!Arr(<<U(N!KindSubset), U(5), U(6), N!Arr(<<L(1)>>)>>),
     N!Arr(<<U(N!KindEntry), U(5), N!Bytes(<<1, 2>>), N!Arr(<<>>)>>),
     N!Arr(<<U(N!KindEntry), U(0), N!Bytes(<<1, 2>>), N!Arr(<<L(1), L(3)>>)>>),
     N!Arr(<<U(N!KindBlock), U(5), N!Arr(<<N!Arr(<<U(0), N!NInt(-1)>>), N!Arr(<<U(1), U(3)>>)>>),
             N!Arr(<<L(1)>>), N!Arr(<<U(4), U(9), U(3)>>), L(2)>>),
     N!Arr(<<U(N!KindBlock), U(5), N!Arr(<<>>), N!Arr(<<>>), N!Arr(<<U(4), U(0), N!Null>>), L(2)>>),
     N!Arr(<<U(N!KindBlock), U(5), N!Arr(<<>>), N!Arr(<<>>), N!Arr(<<U(4), U(0)>>), L(2)>>),
     N!Arr(<<U(N!KindRewards), U(5), N!Arr(<<U(N!KindDataFrame), U(3), N!Null, N!Null, N!Bytes(<<4>>)>>)>>),
     N!Arr(<<U(N!KindRewards), U(5),
             N!Arr(<<U(N!KindDataFrame), U(3), U(0), U(2), N!Bytes(<<4>>), N!Arr(<<L(4)>>)>>)>>),
     N!Arr(<<U(N!KindDataFrame), N!NInt(-4), U(0), U(2), N!Bytes(<<4>>), N!Arr(<<L(4)>>)>>),
     N!Arr(<<U(N!KindDataFrame), N!Null, N!Null, N!Null, N!Bytes(<<>>)>>)}

NC == INSTANCE NodeCodec WITH
          Word <- 256, SigLen <- 2, Compact <- 4, DefaultRewards <- "dummy", Fanout <- 2,
          ChunkSizes <- {1, 3, 20}, OtherNodes <- OtherNodes,
          Datas <- {<<1, 7, 8, 2, 30, 31>>, <<4, 1, 7, 8, 7, 9, 6, 5, 6, 4, 1, 20>>, <<0, 1, 9>>},
          Metas <- {<<>>, <<40, 2, 5, 6>>, <<40, 5, 8>>, <<40, 1, 0>>}

-----------------------------------------------------------------------------
Init ==
    \/ which = "compactindex" /\ CI!Init
    \/ which = "bucketteer" /\ BK!Init
    \/ IndexInit
    \/ which = "indexmeta" /\ IM!Init
    \/ which = "car" /\ CF!Init
    \/ which = "split" /\ SC!Init
    \/ which = "index" /\ IX!Init
    \/ which = "meta" /\ TM!Init
    \/ which = "nodes" /\ NC!Init

Next ==
    /\ \/ which = "compactindex" /\ CI!Next
       \/ which = "bucketteer" /\ BK!Next
       \/ IndexNext
       \/ which = "indexmeta" /\ IM!Next
       \/ which = "car" /\ CF!Next
       \/ which = "split" /\ SC!Next
       \/ which = "index" /\ IX!Next
       \/ which = "meta" /\ TM!Next
       \/ which = "nodes" /\ NC!Next
    /\ UNCHANGED which

Spec == Init /\ [][Next]_<<which, pc, writer, file>>
-----------------------------------------------------------------------------
(* The properties of the components; their modules state the parts one by   *)
(* one.                                                                     *)

\* A compact index gives no value that was not inserted under the key's hash, and once it
\* is sealed it gives every value that was; a key inserted twice makes Seal fail; and Load
\* returns each entry of a bucket once.
CompactIndexExact ==
    which = "compactindex" =>
        CI!LookupSound /\ CI!SealedComplete /\ CI!NoDuplicateSealed /\ CI!LoadComplete

\* A sig-exists index has the signatures its writer was given, and is refused as long as
\* its final header is not written.
SigExistsExact == which = "bucketteer" => BK!ReaderIsWriter /\ BK!DraftRefused

\* The sections of a CAR file are found at their offsets, all the complete ones, also in a
\* file that was cut; a cut within the length, the digest or the data that are read is an
\* error; and the subset of a remote piece is found from its last bytes if its length takes
\* two, and never mistaken.
CarFileExact == which = "car" => CF!SectionsFound /\ CF!CutSeen /\ CF!RootFound

\* The pieces of a CAR file keep to their size, have every block once with a subset node
\* that tells so, sort into the order of the original, and are read as the original at its
\* offsets, or shorter where they lost bytes.
SplitCarExact ==
    which = "split" =>
        SC!PieceBounds /\ SC!SubsetsExact /\ SC!SortRestores /\ SC!OffsetsKept /\ SC!ReadAtRight

\* `index all` succeeds only with exact block times, and with exact indexes if no seal
\* failed; its verification accepts exact indexes only, the single-purpose tools build the
\* indexes of `index all`, and the iterator returns the node that was asked for.
IndexToolsExact ==
    which = "index" => IX!SealReported /\ IX!VerifyCatches /\ IX!ToolsAgree /\ IX!IteratorSound

\* Transaction metadata is parsed as what was stored, in each format, and a cut one passes
\* at most for the oldest format, with the right balances; errors with parameters and those
\* of the bincode formats are shown as they were, and no failed transaction has a nil error;
\* the metadata of an index is read back as it was added.
MetadataExact ==
    /\ which = "meta" =>
           /\ TM!ParsesBack /\ TM!CutTakenForOldest /\ TM!NamesKnown /\ TM!ErrorsShown
           /\ TM!LegacyErrorsShown /\ TM!NilOnlyIfOk
    /\ which = "indexmeta" => IM!MetaSurvives

\* The hand-written decoders agree with the schema on nodes without embedded links and
\* negative hashes, and the Rust decoders on all; the two walks over data frames collect the
\* same frames, and data with a checksum is loaded whole or not at all; the ways to a
\* transaction's signature and metadata agree but for what they say of broken objects; and a
\* block's transactions are all parsed, or none is.
NodesExact ==
    which = "nodes" =>
        /\ NC!FastMatchesSchema /\ NC!RustMatchesSchema /\ NC!WalksAgree /\ NC!LoadedIsWhole
        /\ NC!SignatureFromFirstFrame /\ NC!MetaPathsDiffer /\ NC!BlockAllOrNothing
=============================================================================
