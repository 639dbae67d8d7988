----------------------------- MODULE MCServing ------------------------------
(***************************************************************************)
(* The goroutines that serve and that walk an epoch: the HTTP front, the    *)
(* opening of an epoch, getBlock, getSignaturesForAddress, the gRPC         *)
(* streams; and the geyser runner and the walks of module Walks, which read *)
(* its CAR file.  A behaviour is about one of them; what it shares with the *)
(* others (the registry, the caches, the client) is in its module.          *)
(***************************************************************************)
EXTENDS Walks, FiniteSets, TLC

-----------------------------------------------------------------------------
(* The HTTP front: three epochs; epoch 1 has no block times, and has two    *)
(* versions; signature 1 is in two epochs, and 4 is a false hit.            *)

Served(subsets, times, exists, sigs) ==
    [subsets |-> subsets, times |-> times, exists |-> exists, sigs |-> sigs]
Http(path, verb, method, arg) ==
    [path |-> path, verb |-> verb, large |-> FALSE, json |-> TRUE, method |-> method, arg |-> arg]
Rpc(method, arg) == Http("rpc", "post", method, arg)

ServedEpochs ==
    [e \in 0..2 |->
       CASE e = 0 -> <<Served(<<<<0, 1>>, <<2>>>>, <<[s \in 0..3 |-> IF s = 1 THEN 0 ELSE s]>>, {1, 4}, {1})>>
         [] e = 1 -> <<Served(<<<<4>>, <<5, 6>>>>, <<>>, {1, 2}, {1, 2, 4}),
                       Served(<<<<4, 5>>>>, <<[s \in 4..7 |-> s]>>, {2, 4}, {2})>>
         [] e = 2 -> <<Served(<<<<9, 10>>, <<11>>>>, <<[s \in 8..10 |-> s]>>, {}, {})>>]

HttpRequests ==
    {Http("metrics", "get", "-", 0), Http("health", "get", "-", 0), Http("rpc", "get", "-", 0),
     Http("api", "get", "-", 0), Http("api", "post", "-", 0),
     [Rpc("getSlot", 0) EXCEPT !.large = TRUE], [Rpc("getSlot", 0) EXCEPT !.json = FALSE]}
    \cup {Http("slot-to-cid", "get", "-", a) : a \in {-1, 1, 3, 6}}
    \cup {Http("sig-to-cid", "get", "-", a) : a \in {-1, 1, 2, 4}}
    \cup {Rpc("getBlockTime", a) : a \in {1, 3, 4, 8, 11}}
    \cup {Rpc(m, 0) : m \in {"getVersion", "unknown", "getTransaction", "getBlock", "getGenesisHash",
                              "getFirstAvailableBlock", "getSlot"}}

RD == INSTANCE RpcDispatch WITH
          server <- state, request <- input,
          Epochs <- ServedEpochs,
          EpochLen <- 4,
          Starts <- {[mode |-> "none", cids |-> <<>>], [mode |-> "unhandled", cids |-> <<>>],
                     [mode |-> "failed", cids |-> [s \in {6} |-> 1]]},
          MaxRequests <- 1, MaxChanges <- 2,
          Asked <- HttpRequests

-----------------------------------------------------------------------------
(* Configurations of an epoch: six that are right, and each with one thing  *)
(* changed.                                                                 *)

F(uri) == [uri |-> uri, epoch |-> 1, root |-> "r", old |-> FALSE, ok |-> TRUE]
NoCar == [set |-> FALSE, uri |-> "zero", pieces |-> FALSE, metadata |-> "zero", deals |-> "zero", urls |-> {}]
NoFilecoin == [set |-> FALSE, enable |-> FALSE, root |-> "undef", providers |-> TRUE]

Local ==
    [via |-> "boot", twin |-> FALSE, epoch |-> <<1>>, version |-> 1, genesis |-> "zero",
     car |-> [NoCar EXCEPT !.set = TRUE, !.uri = "path"], filecoin |-> NoFilecoin,
     cid |-> F("path"), oldcid |-> F("zero"), slot |-> F("path"), sig |-> F("path"), exists |-> F("path"),
     time |-> F("path"), gsfa |-> F("path")]
Deals == [Local EXCEPT !.car = [NoCar EXCEPT !.set = TRUE, !.pieces = TRUE, !.metadata = "path", !.deals = "path"]]
Urls == [Deals EXCEPT !.car.deals = "zero", !.car.urls = {"web"}]
Filecoin ==
    [Local EXCEPT !.car = NoCar, !.gsfa = F("zero"),
                  !.filecoin = [set |-> TRUE, enable |-> TRUE, root |-> "r", providers |-> TRUE]]
OldIndexes ==
    [Local EXCEPT !.cid = F("zero"), !.oldcid = F("web"), !.exists.old = TRUE, !.slot.old = TRUE,
                  !.sig.old = TRUE, !.gsfa.old = TRUE]
Files == {"cid", "slot", "sig", "exists", "time", "gsfa"}
EpochZero == [[f \in DOMAIN Local |-> IF f \in Files THEN [Local[f] EXCEPT !.epoch = 0] ELSE Local[f]]
                EXCEPT !.epoch = <<0>>, !.genesis = "path"]

FilesOff(f) ==
    {[f EXCEPT !.uri = u] : u \in {"zero", "file", "web", "ipfs"}}
    \cup {[f EXCEPT !.epoch = 7], [f EXCEPT !.root = "q"], [f EXCEPT !.old = ~@], [f EXCEPT !.ok = FALSE]}
FileOff(b) == UNION {{[b EXCEPT ![k] = d] : d \in FilesOff(b[k])} : k \in Files}
Roots(b) ==
    {[b EXCEPT !.slot.old = o[1], !.sig.old = o[2], !.gsfa.old = o[3],
               !.slot.root = r[1], !.sig.root = r[2], !.cid.root = r[3]] :
        o \in [1..3 -> BOOLEAN],
        r \in {<<"q", "q", "r">>, <<"q", "r", "r">>, <<"q", "q", "q">>, <<"r", "r", "q">>}}
ShapeOff(b) ==
    {[b EXCEPT !.epoch = <<>>], [b EXCEPT !.version = 2], [b EXCEPT !.twin = TRUE], [b EXCEPT !.car = NoCar],
     [b EXCEPT !.genesis = "zero"], [b EXCEPT !.genesis = "file"], [b EXCEPT !.filecoin.enable = FALSE],
     [b EXCEPT !.filecoin.root = "q"], [b EXCEPT !.filecoin.root = "undef"],
     [b EXCEPT !.filecoin.providers = FALSE], [b EXCEPT !.car.uri = "web"], [b EXCEPT !.car.uri = "file"],
     [b EXCEPT !.car.uri = "cid"], [b EXCEPT !.car.deals = "path"], [b EXCEPT !.car.metadata = "file"],
     [b EXCEPT !.car.urls = {"web", "path"}], [b EXCEPT !.oldcid = F("path")]}
Valid == {Local, Deals, Urls, Filecoin, OldIndexes, EpochZero}
Varied == UNION {{b} \cup FileOff(b) \cup ShapeOff(b) : b \in Valid} \cup Roots(Local) \cup Roots(OldIndexes)

Configurations ==
    Varied \cup {[c EXCEPT !.via = "watch"] : c \in Varied}

EO == INSTANCE EpochOpen WITH
          epoch <- state, config <- input, Configs <- Configurations

-----------------------------------------------------------------------------
(* Two versions of an epoch, in which a block follows its child, and blocks *)
(* share an entry; a reload changes one for the other.                      *)

Node(cid, kind, size) ==
    [cid |-> cid, kind |-> kind, size |-> size, slot |-> 0, parent |-> 0, links |-> <<>>, rewards |-> "dummy",
     hash |-> "zero", pos |-> <<>>, format |-> "proto"]
Block(cid, slot, parent, links, rewards) ==
    [Node(cid, "block", 2) EXCEPT !.slot = slot, !.parent = parent, !.links = links, !.rewards = rewards]
Entry(cid, hash, links) == [Node(cid, "entry", 1) EXCEPT !.hash = hash, !.links = links]
Tx(cid, index) == [Node(cid, "tx", 1) EXCEPT !.pos = index]
Asks(slot, api, rewards, lassie) ==
    [slot |-> slot, api |-> api, valid |-> TRUE, rewards |-> rewards, lassie |-> lassie]

EpochVersions ==
    <<<<Node("x0", "entry", 3), Entry("e0", "h0", <<>>), Block("b0", 0, 0, <<"e0">>, "dummy"),
        Tx("t1", <<1>>), Tx("t2", <<0>>), Entry("e1", "h1", <<"t1">>), Entry("e2", "h2", <<"t2">>),
        [Node("r1", "rewards", 1) EXCEPT !.format = "other"], Block("b1", 1, 0, <<"e1", "e2">>, "r1"),
        Tx("t3", <<>>), Entry("e3", "h3", <<"t3">>), Block("b3", 3, 2, <<"e3">>, "dummy"),
        Block("b2", 2, 1, <<>>, "dummy"), Node("x1", "entry", 3), Node("x2", "entry", 2)>>,
      <<Entry("e0", "h0", <<>>), Block("b0", 0, 0, <<"e0">>, "dummy"),
        Tx("t1", <<1>>), Tx("t4", <<0>>), Entry("e5", "h5", <<"t1", "t4">>),
        [Node("r5", "rewards", 1) EXCEPT !.format = "odd commission"], Block("b5", 1, 0, <<"e5">>, "r5"),
        Tx("t3", <<>>), Entry("e3", "h3", <<"t3">>), Block("b4", 2, 1, <<"e3">>, "dummy")>>>>

BlockRequests ==
    {Asks(0, "rpc", TRUE, FALSE), Asks(1, "rpc", TRUE, FALSE), Asks(1, "grpc", TRUE, FALSE),
     Asks(1, "rpc", FALSE, TRUE), Asks(2, "grpc", TRUE, FALSE), Asks(3, "rpc", TRUE, FALSE),
     Asks(4, "grpc", TRUE, FALSE), [Asks(1, "rpc", TRUE, FALSE) EXCEPT !.valid = FALSE]}

GB == INSTANCE GetBlock WITH
          server <- state, request <- input,
          Versions <- EpochVersions,
          Slots <- 0..4, EpochLen <- 4, HeaderSize <- 1, MaxPrefetch <- 6, Word <- 1024, MaxRequests <- 2,
          Asked <- BlockRequests

-----------------------------------------------------------------------------
(* Five epochs, one with an empty log, one without a gsfa index, and one    *)
(* with a second version: one of its offsets is not that of a transaction   *)
(* there, another that of a transaction of another address.                 *)

Gsfa(records, sigs) == [gsfa |-> TRUE, records |-> records, car |-> sigs]

GsfaVersions ==
    [e \in 1..5 |->
        CASE e = 5 -> <<Gsfa(<<<<9>>, <<8, 7>>>>, 9 :> "s9" @@ 8 :> "s8" @@ 7 :> "s7")>>
          [] e = 4 -> <<Gsfa(<<>>, 1 :> "z1")>>
          [] e = 3 -> <<[Gsfa(<<>>, 1 :> "z3") EXCEPT !.gsfa = FALSE]>>
          [] e = 2 -> <<Gsfa(<<<<6, 5>>, <<4>>>>, 6 :> "s6" @@ 5 :> "s5" @@ 4 :> "s4"),
                        Gsfa(<<<<8, 7>>, <<4>>>>, 8 :> "s6" @@ 7 :> "s5" @@ 5 :> "z2" @@ 4 :> "s4")>>
          [] e = 1 -> <<Gsfa(<<<<3>>>>, 3 :> "s3")>>]

SignatureRequests ==
    {[valid |-> TRUE, limit |-> l, until |-> u] : l \in {0, 2, 3}, u \in {<<>>, <<"s8">>, <<"s4">>}}
        \cup {[valid |-> FALSE, limit |-> 0, until |-> <<>>]}

SA == INSTANCE SignaturesForAddress WITH
          server <- state, request <- input,
          Versions <- GsfaVersions, MaxLimit <- 4, MaxChanges <- 1,
          Asked <- SignatureRequests

-----------------------------------------------------------------------------
(* Slots of 4 bits; every attribute that the filter looks at.               *)

T(id, keys) ==
    [id |-> id, sigs |-> 1, programs |-> <<"transfer">>, keys |-> keys, failed |-> FALSE, proto |-> FALSE,
     lookups |-> FALSE]
Stream(method, from, to, filter) ==
    [method |-> method, start |-> from, end |-> to, filter |-> filter, asked |-> <<>>]
Filter(vote, failed, exclude, required, include) ==
    <<[vote |-> vote, failed |-> failed, exclude |-> exclude, required |-> required, include |-> include]>>
Yes == <<TRUE>>
No == <<FALSE>>

StreamChain ==
    [s \in {1, 2, 5, 6, 14, 15} |->
       CASE s = 1 -> <<T("t1", {"a"}), [T("t2", {"a", "b"}) EXCEPT !.programs = <<"vote">>]>>
         [] s = 2 -> <<[T("t3", {"b"}) EXCEPT !.failed = TRUE], [T("t4", {"b"}) EXCEPT !.proto = TRUE]>>
         [] s = 5 -> <<[T("t5", {"a", "b"}) EXCEPT !.lookups = TRUE], T("t6", {"b"})>>
         [] s = 6 -> <<>>
         [] s = 14 -> <<T("t7", {"a"})>>
         [] s = 15 -> <<T("t8", {"a"})>>]

StreamRequests ==
    {Stream("blocks", s, e, <<>>) : s \in {1, 5, 13}, e \in {<<>>, <<6>>, <<15>>, <<14>>}}
    \cup {Stream("blocks", 1, <<6>>, Filter(Yes, Yes, <<>>, <<>>, <<"a">>))}
    \cup {Stream("transactions", s, e, <<>>) : s \in {1, 5, 9}, e \in {<<>>, <<6>>}}
    \cup {Stream("transactions", 1, <<6>>, Filter(v, f, x, r, i)) :
             v \in {Yes, No}, f \in {Yes, No}, x \in {<<>>, <<"a">>}, r \in {<<>>, <<"b">>},
             i \in {<<>>, <<"b">>, <<"a", "b">>}}
    \cup {Stream("transactions", 1, <<6>>, Filter(v, f, <<>>, <<>>, <<>>)) : v \in {<<>>, No}, f \in {<<>>, Yes}}
    \cup {Stream("transactions", 12, <<2>>, <<>>), Stream("transactions", 8, <<6>>, <<>>),
          Stream("transactions", 1, <<14>>, <<>>)}
    \cup {Stream("transactions", 1, <<6>>, Filter(No, No, x, r, i)) :
             x \in {<<>>, <<"a", "?">>}, r \in {<<>>, <<"b", "?">>}, i \in {<<>>, <<"c">>, <<"b", "?">>}}
    \cup {[Stream("get", 0, <<>>, <<>>) EXCEPT !.asked = a] :
             a \in {<<"block", "version", "transaction", "blocktime">>, <<"block", "unknown">>}}

GS == INSTANCE GrpcStreams WITH
          stream <- state, request <- input,
          EpochLen <- 4, Word <- 16, MaxSlotsToStream <- 5, Limit <- 3, MaxCap <- 3, MaxLaps <- 1,
          Malformed <- {"?"},
          Chain <- StreamChain,
          Requests <- StreamRequests

-----------------------------------------------------------------------------
(* The CAR files of the walks.                                              *)

MCSigCars == {<<"s1", "other", "s2", "s3">>, <<"s1", "bad", "s2">>, <<"other">>}

Transaction(usable, index) == [kind |-> "Transaction", usable |-> usable, index |-> index]
EntryOf(hash, txs) == [kind |-> "Entry", hash |-> hash, txs |-> txs]
BlockAt(slot) == [kind |-> "Block", slot |-> slot]
Other(kind) == [kind |-> kind]

GeyserCars ==
    {<<Transaction(TRUE, <<0>>), Transaction(TRUE, <<1>>), EntryOf("a", 2), EntryOf("b", 0),
       Other("Rewards"), BlockAt(5), BlockAt(6), Other("DataFrame"), Transaction(TRUE, <<0>>),
       EntryOf("c", 1), BlockAt(8), Other("Subset"), Other("Epoch")>>,
     <<EntryOf("a", 0), BlockAt(5), Transaction(FALSE, <<0>>), EntryOf("b", 1), BlockAt(6)>>,
     <<Transaction(TRUE, <<0>>), Transaction(TRUE, <<>>), EntryOf("a", 2), BlockAt(5), Other("Epoch")>>,
     <<Other("Epoch")>>, <<>>}

GR == INSTANCE GeyserRunner WITH
          runner <- state, car <- input, DefaultHash <- "none",
          Cars <- GeyserCars

MCAccumulatorCars ==
    {[kind |-> <<"tx", "epoch", "block", "tx", "block", "block", "tx">>,
      start |-> <<5, 7, 10, 14, 19, 23, 24, 30>>, end |-> e] : e \in {"eof", "torn", "short"}}
    \cup {[kind |-> <<"tx", "block", "epoch">>, start |-> <<5, 7, 10, 14>>, end |-> e] : e \in {"eof", "short"}}
-----------------------------------------------------------------------------
Init ==
    \/ which = "http" /\ RD!Init /\ NoAccumulator
    \/ which = "open" /\ EO!Init /\ NoAccumulator
    \/ which = "block" /\ GB!Init /\ NoAccumulator
    \/ which = "signatures" /\ SA!Init /\ NoAccumulator
    \/ which = "stream" /\ GS!Init /\ NoAccumulator
    \/ which = "geyser" /\ GR!Init /\ NoAccumulator
    \/ WalkInit

Next ==
    \/ /\ \/ which = "http" /\ RD!Next
          \/ which = "open" /\ EO!Next
          \/ which = "block" /\ GB!Next
          \/ which = "signatures" /\ SA!Next
          \/ which = "stream" /\ GS!Next
          \/ which = "geyser" /\ GR!Next
       /\ UNCHANGED <<which, accumulator>>
    \/ WalkNext

\* The fairness of the components that state a liveness property.
Runs ==
    \/ which = "signatures" /\ SA!Run /\ UNCHANGED <<which, accumulator>>
    \/ which = "stream" /\ GS!Run /\ UNCHANGED <<which, accumulator>>
    \/ WalkRuns

Spec == Init /\ [][Next]_all /\ WF_all(Runs)

-----------------------------------------------------------------------------
(* The properties of the components; their modules state the parts one by   *)
(* one.                                                                     *)

\* A request of the HTTP front is answered once, or failed without an error response; what
\* goes to the other RPC server and which errors the client sees; null means a transaction
\* that was not found or a block without a time; what the lookups find while epochs come
\* and go; and getFirstAvailableBlock and getSlot are the ends of what is served.
HttpExact ==
    which = "http" =>
        /\ RD!OneReply /\ RD!RoutedRight /\ RD!NullExplained /\ RD!LookupExact /\ RD!BlockTimeExact
        /\ RD!EndsBracket

\* A configuration without an epoch number stops the server only if it was not validated,
\* a failed open leaves open exactly the files opened before, and the indexes of an open
\* epoch are of one epoch and of one CAR file, as far as they say.
EpochOpenExact ==
    which = "open" => EO!NilOnlyUnvalidated /\ EO!LeaksExactly /\ EO!OpenedConsistent

\* A block that is returned is the block of its slot in a version of the epoch, with the
\* hash of the block before it; a slot is called skipped only if it has no block, or if
\* another version left a CID for it in the shared cache; what a prefetch reads is bounded;
\* and what ends the process is a transaction that could not be read or a commission that
\* is no number.
BlockExact ==
    which = "block" =>
        /\ GB!AnswerExact /\ GB!PreviousExact /\ GB!SkippedOnlyIfAbsent /\ GB!PrefetchBounded
        /\ GB!CrashExplained

\* A page of signatures is the part of the history that was asked for, unless one of its
\* epochs is loaded again while it is made; the reply has all of the page, in order within
\* an epoch; and a client that pages misses nothing, whatever the order of the epochs in
\* the replies, as long as they stay loaded.
SignaturesExact ==
    which = "signatures" => SA!PageExact /\ SA!ReplyFilled /\ SA!PagingMissesNothing

\* A stream of blocks has the blocks of its range in order, a stream of transactions only
\* those of its range, in order, an account's from its newest ones; Get answers in the
\* order of its requests; and which filters and ranges stop the server.
StreamsExact ==
    which = "stream" =>
        /\ GS!BlocksExact /\ GS!TransactionsInOrder /\ GS!IncludeNewest /\ GS!GetInOrder
        /\ GS!CrashExplained

\* The geyser runner sends the metadata of each block, the root of a slot after its
\* transactions and entries and right before its metadata, and ends in an error with every
\* complete block sent.
GeyserExact ==
    which = "geyser" => GR!BlockMetaExact /\ GR!RootedAfterContents /\ GR!EndsInErrorComplete

\* Paging comes to an end; a stream ends, unless its range ends with the largest slot
\* number; `index sig-exists` ends; and the accumulator returns, unless it was cancelled
\* or stopped.
EverythingEnds ==
    /\ which = "signatures" => SA!PagingEnds
    /\ which = "stream" => GS!StreamEnds
    /\ which = "sig-exists" => SX!CommandEnds
    /\ which = "accumulator" => A!RunReturns
=============================================================================
