---------------------------- MODULE GeyserRunner ----------------------------
(* geyser-plugin-runner/src/main.rs: replays a CAR file into geyser         *)
(* plugins.  Nodes are read until a block, then every node of the batch, in *)
(* the order of the file, causes its notifications.  The data of a node is  *)
(* reduced to what a notification shows of it (RustNodes has the decoding): *)
(* a transaction is usable or not, and has an index or not; an entry has a  *)
(* hash and a number of transactions; a block has a slot.                   *)
EXTENDS Integers, Sequences, FiniteSets

CONSTANTS
    Cars,         \* sequences of nodes
    DefaultHash

VARIABLES pc, runner, car
vars == <<pc, runner, car>>

Transaction(usable, index) == [kind |-> "Transaction", usable |-> usable, index |-> index]
Entry(hash, txs) == [kind |-> "Entry", hash |-> hash, txs |-> txs]
Block(slot) == [kind |-> "Block", slot |-> slot]
Other(kind) == [kind |-> kind]      \* Subset, Epoch, Rewards, DataFrame

\* What a whole file holds before a fault: cut is TRUE when the last section
\* is incomplete.
Init ==
    /\ pc = "start"
    /\ runner \in [entryNotifier : BOOLEAN, blockMetaNotifier : BOOLEAN,
                   prev : {DefaultHash}, latest : {DefaultHash}, pos : {0},
                   item_index : {0}, batch : {<<>>}, at : {0}, entry_index : {0},
                   executed : {0}, entries : {0}, events : {<<>>}]
    /\ car \in [nodes : Cars, cut : BOOLEAN, header : {"ok", "long"}]

\* reader.read_raw_header()?
ReadRawHeader ==
    /\ pc = "start"
    /\ pc' = IF car.header = "ok" THEN "read" ELSE "error"
    /\ UNCHANGED <<runner, car>>

\* NodeReader.next_parsed inside read_until_block: the batch ends with a
\* block.  The counters of the block start from zero.
NextParsed ==
    /\ pc = "read"
    /\ runner.pos < Len(car.nodes) - (IF car.cut THEN 1 ELSE 0)
    /\ LET node == car.nodes[runner.pos + 1]
       IN  /\ runner' = [runner EXCEPT !.pos = @ + 1, !.batch = Append(@, node),
                                       !.at = 1, !.entry_index = 0, !.executed = 0,
                                       !.entries = 0]
           /\ pc' = IF node.kind = "Block" THEN "each" ELSE "read"
    /\ UNCHANGED car

\* The end of the file, or a section that stops short: read_exact fails and
\* the `?` ends main with the error.
NextFails ==
    /\ pc = "read"
    /\ runner.pos >= Len(car.nodes) - (IF car.cut THEN 1 ELSE 0)
    /\ pc' = "error"
    /\ UNCHANGED <<runner, car>>

Node == runner.batch[runner.at]
Slot == runner.batch[Len(runner.batch)].slot

\* The closure of nodes.each is done with a node.
Visited(r) ==
    IF r.at < Len(r.batch) THEN [r EXCEPT !.at = @ + 1, !.item_index = @ + 1]
    ELSE [r EXCEPT !.at = 0, !.batch = <<>>, !.item_index = @ + 1]
AfterNode == IF runner.at < Len(runner.batch) THEN "each" ELSE "read"

\* A transaction that does not parse, or whose metadata is not protobuf, ends
\* main with an error, one that cannot be sanitized with a panic; a missing
\* index is an unwrap of None.
EachTransaction ==
    /\ pc = "each"
    /\ Node.kind = "Transaction"
    /\ \/ /\ ~Node.usable
          /\ pc' \in {"error", "panic"}
          /\ UNCHANGED runner
       \/ /\ Node.usable
          /\ Node.index = <<>>
          /\ pc' = "panic"
          /\ UNCHANGED runner
       \/ /\ Node.usable
          /\ Node.index # <<>>
          /\ runner' = Visited([runner EXCEPT
                !.events = Append(@, [what |-> "transaction", slot |-> Slot,
                                      n |-> Node.index[1], of |-> <<>>])])
          /\ pc' = AfterNode
    /\ UNCHANGED car

\* The counters of the block meta are kept with or without an entry notifier.
EachEntry ==
    /\ pc = "each"
    /\ Node.kind = "Entry"
    /\ LET r == [runner EXCEPT !.latest = Node.hash, !.executed = @ + Node.txs,
                               !.entries = @ + 1]
       IN  runner' = Visited(IF ~r.entryNotifier THEN r
                             ELSE [r EXCEPT !.events =
                                      Append(@, [what |-> "entry", slot |-> Slot,
                                                 n |-> r.entry_index, of |-> <<Node.txs>>]),
                                            !.entry_index = @ + 1])
    /\ pc' = AfterNode
    /\ UNCHANGED car

\* Mutant of EachBlock: the previous blockhash is not updated.
EachBlockStale ==
    /\ pc = "each"
    /\ Node.kind = "Block"
    /\ LET root == [what |-> "slot", slot |-> Slot, n |-> 0, of |-> <<>>]
           meta == [what |-> "meta", slot |-> Slot, n |-> runner.entries,
                    of |-> <<runner.prev, runner.latest, runner.executed>>]
       IN  runner' = Visited(
                IF runner.blockMetaNotifier
                THEN [runner EXCEPT !.events = @ \o <<root, meta>>]
                ELSE [runner EXCEPT !.events = Append(@, root)])
    /\ pc' = AfterNode
    /\ UNCHANGED car

\* The rewards are never those of the block: the branch that would decode them
\* is disabled, and an empty list is sent.  Without a block meta notifier the
\* early return also skips the update of the previous blockhash.
EachBlock ==
    /\ pc = "each"
    /\ Node.kind = "Block"
    /\ LET root == [what |-> "slot", slot |-> Slot, n |-> 0, of |-> <<>>]
           meta == [what |-> "meta", slot |-> Slot, n |-> runner.entries,
                    of |-> <<runner.prev, runner.latest, runner.executed>>]
       IN  runner' = Visited(
                IF runner.blockMetaNotifier
                THEN [runner EXCEPT !.events = @ \o <<root, meta>>,
                                    !.prev = runner.latest]
                ELSE [runner EXCEPT !.events = Append(@, root)])
    /\ pc' = AfterNode
    /\ UNCHANGED car

\* Subset, Epoch, Rewards and DataFrame nodes: nothing is notified.
EachOther ==
    /\ pc = "each"
    /\ Node.kind \notin {"Transaction", "Entry", "Block"}
    /\ runner' = Visited(runner)
    /\ pc' = AfterNode
    /\ UNCHANGED car

Next == \/ ReadRawHeader \/ NextParsed \/ NextFails
        \/ EachTransaction \/ EachEntry \/ EachBlock \/ EachOther
Spec == Init /\ [][Next]_vars

----------------------------------------------------------------------------
\* The blocks of the file, as positions, and the nodes of each.
BlocksAt == {i \in DOMAIN car.nodes : car.nodes[i].kind = "Block"}
Before(i) == {j \in BlocksAt : j < i}
StartOf(i) == IF Before(i) = {} THEN 1
              ELSE 1 + CHOOSE j \in Before(i) : \A k \in Before(i) : k <= j
EntriesOf(i) ==
    SelectSeq(SubSeq(car.nodes, StartOf(i), i), LAMBDA n : n.kind = "Entry")
LastHash(i) ==
    LET es == SelectSeq(SubSeq(car.nodes, 1, i), LAMBDA n : n.kind = "Entry")
    IN  IF es = <<>> THEN DefaultHash ELSE es[Len(es)].hash
Total(es) == LET sum[k \in 0 .. Len(es)] == IF k = 0 THEN 0 ELSE sum[k - 1] + es[k].txs
             IN  sum[Len(es)]
EventsOf(what) == SelectSeq(runner.events, LAMBDA e : e.what = what)
NthBlock(n) == CHOOSE i \in BlocksAt : Cardinality(Before(i)) = n - 1

\* A block meta notification carries the counts of exactly the entries of its
\* block, the hash of the last entry seen and, as its parent, the hash that
\* the previous notification carried.
BlockMetaExact ==
    LET metas == EventsOf("meta")
    IN  \A n \in DOMAIN metas :
            LET i == NthBlock(n)
            IN  /\ metas[n].slot = car.nodes[i].slot
                /\ metas[n].n = Len(EntriesOf(i))
                /\ metas[n].of = <<IF n = 1 THEN DefaultHash ELSE metas[n - 1].of[2],
                                   LastHash(i), Total(EntriesOf(i))>>

\* The root of a slot is sent after all the notifications of its transactions
\* and entries, and the entries of a slot are numbered from zero without a gap.
\* A channel takes the root to the thread that notifies the plugins, later than
\* this at most: a plugin never sees a transaction of a rooted slot late.  Only
\* the block meta of the slot is sent after the root, and it is the next thing sent.
RootedAfterContents ==
    \A i, j \in DOMAIN runner.events :
        LET e == runner.events[i]
            f == runner.events[j]
        IN  /\ (i < j /\ e.what = "slot" /\ f.what \in {"transaction", "entry"})
                  => e.slot # f.slot
            /\ (e.what = "entry" /\ f.what = "entry" /\ e.slot = f.slot /\ i < j)
                  => e.n < f.n
            /\ e.what = "entry" =>
                  e.n = Cardinality({k \in 1 .. i - 1 :
                            /\ runner.events[k].what = "entry"
                            /\ runner.events[k].slot = e.slot})
            /\ e.what = "meta" =>
                  i > 1 /\ runner.events[i - 1].what = "slot" /\ runner.events[i - 1].slot = e.slot

\* A sound file also ends in an error, that of reading past its end; by then
\* the root of every block was sent, with its block meta if a plugin asks for these,
\* and exactly the nodes behind the last block were read and never visited.
EndsInErrorComplete ==
    (/\ pc = "error" /\ car.header = "ok" /\ ~car.cut
     /\ \A i \in DOMAIN car.nodes :
           car.nodes[i].kind = "Transaction" => car.nodes[i].usable) =>
          /\ Len(EventsOf("slot")) = Cardinality(BlocksAt)
          /\ Len(EventsOf("meta")) = IF runner.blockMetaNotifier THEN Cardinality(BlocksAt) ELSE 0
          /\ runner.item_index = Len(car.nodes) - Len(runner.batch)
          /\ \A i \in DOMAIN runner.batch : runner.batch[i].kind # "Block"
=============================================================================
