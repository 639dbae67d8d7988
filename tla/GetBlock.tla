------------------------------ MODULE GetBlock ------------------------------
(***************************************************************************)
(* getBlock, over JSON-RPC (multiepoch-getBlock.go) and gRPC                *)
(* (grpc-server.go), with the lookups of an epoch (epoch.go) and the cache  *)
(* that all the epochs of the server share (huge-cache).                    *)
(*                                                                          *)
(* Epoch 0 can be replaced and removed while the server runs: a version of  *)
(* it is the sequence of its nodes, and a request keeps the version it      *)
(* found.  Reads from a version may fail, and do if it was closed and is    *)
(* not remote.  A node is known by its CID; its data is reduced to the      *)
(* links and values the answer is made of.                                  *)
(***************************************************************************)
EXTENDS Integers, Sequences, FiniteSets, FiniteSetsExt

CONSTANTS Versions,     \* a sequence of sequences of nodes
          Slots, EpochLen,
          HeaderSize,   \* of a CAR file
          MaxPrefetch,  \* 10 MiB
          Word,         \* 2^64
          Asked,        \* what clients ask: [slot, api, valid, rewards, lassie]
          MaxRequests

VARIABLES pc, server, request

vars == <<pc, server, request>>

DummyCID == "dummy"
Undef == "undef"

Node(cid, kind, size) ==
    [cid |-> cid, kind |-> kind, size |-> size, slot |-> 0, parent |-> 0, links |-> <<>>,
     rewards |-> DummyCID, hash |-> "zero", pos |-> <<>>, format |-> "proto"]

Nodes == UNION {{Versions[v][i] : i \in DOMAIN Versions[v]} : v \in DOMAIN Versions}
Cids == {n.cid : n \in Nodes}
NodeOf(c) == CHOOSE n \in Nodes : n.cid = c

-----------------------------------------------------------------------------
(* The files of a version.                                                  *)

\* The offset of the i-th node in the CAR file.
Offset(v, i) ==
    LET upTo[k \in 0..Len(Versions[v])] ==
            IF k = 0 THEN HeaderSize ELSE upTo[k - 1] + Versions[v][k].size
    IN  upTo[i - 1]

\* slot-to-cid
SlotToCid(v, slot) ==
    LET at == {i \in DOMAIN Versions[v] : Versions[v][i].kind = "block" /\ Versions[v][i].slot = slot}
    IN  IF at = {} THEN Undef ELSE Versions[v][CHOOSE i \in at : TRUE].cid

\* cid-to-offset-and-size; -1 when it is not found
CidToOffset(v, c) ==
    LET at == {i \in DOMAIN Versions[v] : Versions[v][i].cid = c}
    IN  IF at = {} THEN -1 ELSE Offset(v, CHOOSE i \in at : TRUE)

\* The node that starts at an offset, 0 when none does.
NodeAt(v, offset) ==
    LET at == {i \in DOMAIN Versions[v] : Offset(v, i) = offset}
    IN  IF at = {} THEN 0 ELSE CHOOSE i \in at : TRUE

FileSize(v) == Offset(v, Len(Versions[v])) + Versions[v][Len(Versions[v])].size

CalcEpochForSlot(slot) == slot \div EpochLen

-----------------------------------------------------------------------------
NoRequest ==
    [api |-> "rpc", slot |-> 0, version |-> 0, lassie |-> FALSE, rewards |-> FALSE, cid |-> Undef,
     entries |-> <<>>, txs |-> <<>>, answer |-> <<>>, hash |-> "zero", previous |-> <<>>,
     rewarded |-> <<>>, prefetched |-> {}]

\* version: the one that new requests find; slots, offsets and raw: the cache.
Init ==
    /\ pc = "idle"
    /\ server = [version |-> 1, loaded |-> TRUE, slots |-> [s \in Slots |-> Undef], offsets |-> [c \in Cids |-> -1],
                 raw |-> [c \in Cids |-> Undef], asked |-> 0]
    /\ request = NoRequest

\* Results of a lookup: what was found, and the server with the cache as it is then.
Result(res, cid, srv) == [res |-> res, cid |-> cid, srv |-> srv]

\* The cache (huge-cache/cache.go); Undef and -1 stand for an entry it does not have.
PutRawCarObject(srv, c) == [srv EXCEPT !.raw[c] = c]
GetRawCarObject(srv, c) == srv.raw[c]
PutSlotToCid(srv, slot, c) == [srv EXCEPT !.slots[slot] = c]
GetSlotToCid(srv, slot) == srv.slots[slot]
PutCidToOffsetAndSize(srv, c, o) == [srv EXCEPT !.offsets[c] = o]
GetCidToOffsetAndSize(srv, c) == srv.offsets[c]

FindCidFromSlot(srv, slot) ==
    IF GetSlotToCid(srv, slot) # Undef THEN {Result("ok", GetSlotToCid(srv, slot), srv)}
    ELSE LET c == SlotToCid(request.version, slot)
         IN  {Result("error", Undef, srv)} \cup
             {IF c = Undef THEN Result("notfound", Undef, srv)
              ELSE Result("ok", c, PutSlotToCid(srv, slot, c))}

FindOffsetAndSizeFromCid(srv, c) ==
    IF GetCidToOffsetAndSize(srv, c) # -1 THEN {Result("ok", GetCidToOffsetAndSize(srv, c), srv)}
    ELSE LET o == CidToOffset(request.version, c)
         IN  {Result("error", -1, srv)} \cup
             {IF o = -1 THEN Result("notfound", -1, srv)
              ELSE Result("ok", o, PutCidToOffsetAndSize(srv, c, o))}

\* A read from the CAR file can fail; the CID in front of the data is compared.
GetNodeByOffsetAndSize(found, c) ==
    LET i == NodeAt(request.version, found.cid)
    IN  {Result("error", Undef, found.srv)} \cup
        IF i # 0 /\ Versions[request.version][i].cid = c THEN {Result("ok", c, found.srv)} ELSE {}

\* A node of the cache is what was stored under its CID.
GetNodeByCid(srv, c) ==
    IF GetRawCarObject(srv, c) # Undef THEN {Result("ok", GetRawCarObject(srv, c), srv)}
    ELSE IF request.lassie
         THEN {Result("ok", c, PutRawCarObject(srv, c)), Result("error", Undef, srv)}
         ELSE UNION {IF f.res = "ok" THEN GetNodeByOffsetAndSize(f, c) ELSE {Result(f.res, Undef, f.srv)} :
                       f \in FindOffsetAndSizeFromCid(srv, c)}
-----------------------------------------------------------------------------
(* The handlers.                                                            *)

\* A JSON-RPC call may have invalid parameters; the epoch may not be there.
Ask(a) ==
    /\ pc = "idle" /\ server.asked < MaxRequests
    /\ server' = [server EXCEPT !.asked = @ + 1]
    /\ pc' = IF a.api = "rpc" /\ ~a.valid THEN "failed"
             ELSE IF CalcEpochForSlot(a.slot) # 0 \/ ~server.loaded THEN "unavailable"
             ELSE "block"
    /\ request' = [NoRequest EXCEPT !.api = a.api, !.slot = a.slot, !.version = server.version,
                                    !.lassie = a.lassie, !.rewards = a.rewards \/ a.api = "grpc"]

\* The nodes under a block.
Subgraph(c) ==
    LET es == {NodeOf(c).links[i] : i \in DOMAIN NodeOf(c).links}
    IN  {c, NodeOf(c).rewards} \cup es
        \cup UNION {{NodeOf(e).links[i] : i \in DOMAIN NodeOf(e).links} : e \in es}

\* prefetchSubgraph: from lassie only; its error is ignored.
PrefetchSubgraph(srv, c) ==
    IF request.lassie
    THEN {srv, [srv EXCEPT !.raw = [d \in Cids |-> IF d \in Subgraph(c) THEN d ELSE @[d]]]}
    ELSE {srv}

Started(c) ==
    [request EXCEPT !.cid = c, !.entries = [i \in DOMAIN NodeOf(c).links |-> "todo"],
       !.txs = [i \in DOMAIN NodeOf(c).links |->
                  [j \in DOMAIN NodeOf(NodeOf(c).links[i]).links |-> "todo"]]]

\* Epoch.GetBlock of the wanted slot, and what the handler makes of its error.
Block ==
    /\ pc = "block"
    /\ \E f \in FindCidFromSlot(server, request.slot) :
          IF f.res # "ok"
          THEN /\ pc' = IF f.res = "notfound" THEN "skipped" ELSE "failed"
               /\ server' = f.srv /\ UNCHANGED request
          ELSE \E s \in PrefetchSubgraph(f.srv, f.cid) : \E n \in GetNodeByCid(s, f.cid) :
                  /\ server' = n.srv
                  /\ pc' = CASE n.res = "ok" -> "prefetch"
                             [] n.res = "notfound" -> "skipped"
                             [] OTHER -> "failed"
                  /\ request' = IF n.res = "ok" THEN Started(n.cid) ELSE request

ParentSlot == NodeOf(request.cid).parent

ParentIsInPreviousEpoch ==
    \/ CalcEpochForSlot(ParentSlot) # CalcEpochForSlot(request.slot)
    \/ request.slot = 0
    \/ request.slot > 1 /\ ParentSlot = 0

Capped(n) == IF n > MaxPrefetch THEN MaxPrefetch ELSE n

\* The nodes between the two offsets go into the cache, up to the block or to
\* the end of the section that was read.  from is the parent's offset, and the
\* length is a difference of unsigned numbers.
Prefetched(from, to, parent, block) ==
    LET v == request.version
        length == Capped((to - from) % Word)
        i == NodeAt(v, from)
        whole == {k \in i..Len(Versions[v]) : Offset(v, k) + Versions[v][k].size <= from + length}
        upTo == {k \in whole : \A l \in (i + 1)..k : Versions[v][l].cid # block}
    IN  IF \/ from + length > FileSize(v)
           \/ i = 0 \/ i \notin whole
           \/ parent # Undef /\ Versions[v][i].cid # parent
        THEN {}
        ELSE {Versions[v][k].cid : k \in upTo}

\* prefetcherFromCar: two lookups at once, then two more; its error is only
\* logged, wherever it stops.  The server, and the nodes that were read.
PrefetcherFromCar ==
    UNION {UNION {
        IF f.res # "ok" \/ p.res # "ok" THEN {<<p.srv, {}>>}
        ELSE UNION {UNION {
            IF b.res # "ok" \/ o.res # "ok" THEN {<<o.srv, {}>>}
            ELSE {<<o.srv, {}>>, <<o.srv, Prefetched(o.cid, b.cid, p.cid, f.cid)>>} :
              o \in IF ParentIsInPreviousEpoch THEN {Result("ok", HeaderSize, b.srv)}
                    ELSE FindOffsetAndSizeFromCid(b.srv, p.cid)} :
              b \in FindOffsetAndSizeFromCid(p.srv, f.cid)} :
          p \in IF ParentIsInPreviousEpoch THEN {Result("ok", Undef, f.srv)}
                ELSE FindCidFromSlot(f.srv, ParentSlot)} :
          f \in FindCidFromSlot(server, request.slot)}

Prefetch ==
    /\ pc = "prefetch"
    /\ pc' = "entries"
    /\ \E end \in IF request.lassie THEN {<<server, {}>>} ELSE PrefetcherFromCar :
          /\ server' = [end[1] EXCEPT !.raw = [c \in Cids |-> IF c \in end[2] THEN c ELSE @[c]]]
          /\ request' = [request EXCEPT !.prefetched = end[2]]

\* The goroutine of an entry reads it; the one of the last entry keeps the hash.
Entry(i) ==
    /\ pc = "entries" /\ request.entries[i] = "todo"
    /\ \E n \in GetNodeByCid(server, NodeOf(request.cid).links[i]) :
          /\ server' = n.srv
          /\ request' = IF n.res = "ok"
                        THEN [request EXCEPT !.entries[i] = "ok",
                                !.hash = IF i = Len(request.entries) THEN NodeOf(n.cid).hash ELSE @]
                        ELSE [request EXCEPT !.entries[i] = "failed"]
    /\ UNCHANGED pc

\* The goroutine of a transaction reads it; a failure is logged, and the place
\* of the transaction stays nil.
Transaction(i, j) ==
    /\ pc = "entries" /\ request.entries[i] = "ok" /\ request.txs[i][j] = "todo"
    /\ \E n \in GetNodeByCid(server, NodeOf(NodeOf(request.cid).links[i]).links[j]) :
          /\ server' = n.srv
          /\ request' = [request EXCEPT !.txs[i][j] = IF n.res = "ok" THEN n.cid ELSE "nil"]
    /\ UNCHANGED pc

Waited ==
    \A i \in DOMAIN request.entries :
        /\ request.entries[i] # "todo"
        /\ request.entries[i] = "ok" => \A j \in DOMAIN request.txs[i] : request.txs[i][j] # "todo"

\* wg.Wait of the entries
Wait ==
    /\ pc = "entries" /\ Waited
    /\ pc' = IF \E i \in DOMAIN request.entries : request.entries[i] = "failed" THEN "failed" ELSE "rewards"
    /\ UNCHANGED <<server, request>>

\* Rewards with a commission that is no number.
asFloatPanics(c) == NodeOf(c).format = "odd commission"

\* The rewards: read, joined from their frames and decompressed.  Over JSON-RPC
\* they are also parsed: what is not protobuf becomes an empty list, and asFloat
\* may panic.
Rewards ==
    /\ pc = "rewards"
    /\ LET c == NodeOf(request.cid).rewards
       IN  IF ~request.rewards \/ c = DummyCID
           THEN pc' = "transactions" /\ UNCHANGED <<server, request>>
           ELSE \E n \in GetNodeByCid(server, c) :
                   /\ server' = n.srv
                   /\ \/ pc' = "failed" /\ UNCHANGED request
                      \/ /\ n.res = "ok"
                         /\ pc' = IF request.api = "rpc" /\ asFloatPanics(n.cid) THEN "crashed" ELSE "transactions"
                         /\ request' = IF request.api = "rpc" /\ NodeOf(n.cid).format # "proto" THEN request
                                       ELSE [request EXCEPT !.rewarded = <<n.cid>>]

\* mergeTxNodeSlices
Merged ==
    LET merge[k \in 0..Len(request.txs)] == IF k = 0 THEN <<>> ELSE merge[k - 1] \o request.txs[k]
    IN  merge[Len(request.txs)]

Position(c) == IF NodeOf(c).pos = <<>> THEN 0 ELSE NodeOf(c).pos[1]

Orders(s) == {p \in [DOMAIN s -> DOMAIN s] : \A i, j \in DOMAIN s : i # j => p[i] # p[j]}

\* sort.Slice is not stable; over gRPC a transaction without an index is
\* neither before nor after another, which leaves the order to the algorithm.
Sorts(s) ==
    {[i \in DOMAIN s |-> s[p[i]]] : p \in
        {q \in Orders(s) :
            \/ request.api = "grpc" /\ \E i \in DOMAIN s : NodeOf(s[i]).pos = <<>>
            \/ \A i, j \in DOMAIN s : i < j => Position(s[q[i]]) <= Position(s[q[j]])}}

\* The transactions are taken in order: one can fail to parse or to be encoded;
\* the position of a nil is a nil dereference, and nothing recovers from it.
Transactions ==
    /\ pc = "transactions"
    /\ LET nils == {i \in DOMAIN Merged : Merged[i] = "nil"}
       IN  \/ /\ \E i \in DOMAIN Merged : \A k \in nils : i < k
              /\ pc' = "failed" /\ UNCHANGED request
           \/ /\ nils # {}
              /\ pc' = "crashed" /\ UNCHANGED request
           \/ /\ nils = {}
              /\ pc' = "parent"
              /\ \E s \in Sorts(Merged) : request' = [request EXCEPT !.answer = s]
    /\ UNCHANGED server

\* Mutant of ParentWanted: the first block of the chain is forgotten.
ParentWantedAfterFirst ==
    ParentSlot # 0 /\ CalcEpochForSlot(ParentSlot) = CalcEpochForSlot(request.slot)

ParentWanted ==
    /\ ParentSlot # 0 \/ request.slot = 1
    /\ CalcEpochForSlot(ParentSlot) = CalcEpochForSlot(request.slot)

\* The hash of the parent block is that of its last entry.  The handler
\* looks for it in the epoch of the block only.
Parent ==
    /\ pc = "parent"
    /\ IF ~ParentWanted
       THEN /\ pc' = "answered" /\ UNCHANGED server
            /\ request' = IF request.slot = 0 THEN [request EXCEPT !.previous = <<request.hash>>] ELSE request
       ELSE \E f \in FindCidFromSlot(server, ParentSlot) :
              IF f.res # "ok" THEN pc' = "failed" /\ server' = f.srv /\ UNCHANGED request
              ELSE \E b \in GetNodeByCid(f.srv, f.cid) :
                IF b.res # "ok" THEN pc' = "failed" /\ server' = b.srv /\ UNCHANGED request
                ELSE LET es == NodeOf(b.cid).links
                     IN  IF es = <<>> THEN pc' = "answered" /\ server' = b.srv /\ UNCHANGED request
                         ELSE \E e \in GetNodeByCid(b.srv, es[Len(es)]) :
                                /\ server' = e.srv
                                /\ pc' = IF e.res = "ok" THEN "answered" ELSE "failed"
                                /\ request' = IF e.res = "ok"
                                              THEN [request EXCEPT !.previous = <<NodeOf(e.cid).hash>>]
                                              ELSE request

\* The client has its reply, and asks again.
Replied ==
    /\ pc \in {"answered", "skipped", "failed", "unavailable"}
    /\ pc' = "idle"
    /\ request' = NoRequest
    /\ UNCHANGED server

\* ReplaceOrAddEpoch: new requests find the next version; the cache stays.
Reload ==
    /\ pc # "crashed" /\ server.version < Len(Versions)
    /\ server' = [server EXCEPT !.version = @ + 1, !.loaded = TRUE]
    /\ UNCHANGED <<pc, request>>

\* RemoveEpochByConfigFilepath
Remove ==
    /\ pc # "crashed" /\ server.loaded
    /\ server' = [server EXCEPT !.loaded = FALSE]
    /\ UNCHANGED <<pc, request>>

\* bigcache drops what is old, of any kind.
Evict ==
    /\ pc = "idle"
    /\ server' \in {[server EXCEPT !.raw = [c \in Cids |-> Undef]],
                    [server EXCEPT !.slots = [s \in Slots |-> Undef]],
                    [server EXCEPT !.offsets = [c \in Cids |-> -1]]}
    /\ UNCHANGED <<pc, request>>

Next ==
    \/ \E a \in Asked : Ask(a)
    \/ Block \/ Prefetch
    \/ \E i \in DOMAIN request.entries : Entry(i) \/ \E j \in DOMAIN request.txs[i] : Transaction(i, j)
    \/ Wait \/ Rewards \/ Transactions \/ Parent \/ Replied \/ Reload \/ Remove \/ Evict

Spec == Init /\ [][Next]_vars
-----------------------------------------------------------------------------
(* Properties.                                                              *)

\* Loaded: the versions that were served so far.
Loaded == 1..server.version

AllTransactions(c) ==
    LET links == NodeOf(c).links
        merge[k \in 0..Len(links)] == IF k = 0 THEN <<>> ELSE merge[k - 1] \o NodeOf(links[k]).links
    IN  merge[Len(links)]

\* An answer is a whole block: all its transactions, each once, in the order of
\* their positions, the hash of its last entry, and the block is the one that a
\* version served so far has in this slot.  Reads that failed, goroutines that
\* ended in another order and a reload in between never mix or shorten it.
AnswerExact ==
    pc = "answered" =>
        LET all == AllTransactions(request.cid)
            links == NodeOf(request.cid).links
        IN  /\ \E v \in Loaded : SlotToCid(v, request.slot) = request.cid
            /\ Len(request.answer) = Len(all)
            /\ \A c \in Cids : Cardinality({i \in DOMAIN all : all[i] = c})
                                 = Cardinality({i \in DOMAIN all : request.answer[i] = c})
            /\ (\A i \in DOMAIN all : NodeOf(all[i]).pos # <<>>) =>
                   \A i \in 2..Len(all) : Position(request.answer[i - 1]) <= Position(request.answer[i])
            /\ links # <<>> => request.hash = NodeOf(links[Len(links)]).hash

\* A transaction that could not be read is never left out of an answer.  It ends
\* the process, because the handlers log the failure (multiepoch-getBlock.go:253)
\* and dereference the nil it leaves; nothing else does but, over JSON-RPC, a
\* reward's commission that is no number.
CrashExplained ==
    LET lost == \E i \in DOMAIN request.txs : \E j \in DOMAIN request.txs[i] : request.txs[i][j] = "nil"
    IN  /\ pc = "crashed" =>
               \/ lost
               \/ request.api = "rpc" /\ asFloatPanics(NodeOf(request.cid).rewards)
        /\ pc \in {"parent", "answered"} => ~lost

\* previousBlockhash is there exactly when the parent is a block of the same
\* epoch with entries, or for slot 0, whose own hash it is; it is the hash that
\* a version served so far has for the parent.
PreviousExact ==
    pc = "answered" =>
        IF request.slot = 0 THEN request.previous = <<request.hash>>
        ELSE IF (ParentSlot # 0 \/ request.slot = 1)
                /\ CalcEpochForSlot(ParentSlot) = CalcEpochForSlot(request.slot)
        THEN \E v \in Loaded : LET es == NodeOf(SlotToCid(v, ParentSlot)).links
                               IN  /\ SlotToCid(v, ParentSlot) # Undef
                                   /\ request.previous = IF es = <<>> THEN <<>>
                                                         ELSE <<NodeOf(es[Len(es)]).hash>>
        ELSE request.previous = <<>>

\* A slot is reported as skipped only if the version that serves it has no block
\* in it, or if its CID is left in the shared cache by another version.
SkippedOnlyIfAbsent ==
    pc = "skipped" =>
        \/ SlotToCid(request.version, request.slot) = Undef
        \/ server.slots[request.slot] \notin {Undef, SlotToCid(request.version, request.slot)}

\* A prefetch reads at most MaxPrefetch bytes of nodes, also when the block lies
\* in front of its parent and the difference of their offsets wraps around; and
\* if the block lies behind, only nodes from its parent (or the beginning of the
\* file) up to the block, also with offsets and CIDs that another version left
\* in the cache.
PrefetchBounded ==
    request.prefetched # {} =>
        LET nodes == Versions[request.version]
            At(c) == {i \in DOMAIN nodes : nodes[i].cid = c}
            read == UNION {At(c) : c \in request.prefetched}
            starts == IF ParentIsInPreviousEpoch THEN {1} ELSE At(SlotToCid(request.version, ParentSlot))
        IN  /\ MapThenSumSet(LAMBDA i : nodes[i].size, read) <= MaxPrefetch
            /\ \A first \in starts, block \in At(request.cid) :
                  first < block => read \subseteq first..(block - 1)
=============================================================================
