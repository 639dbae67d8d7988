----------------------------- MODULE IndexTools -----------------------------
(***************************************************************************)
(* The tools that index the CAR file of an epoch: `index all`              *)
(* (cmd-x-index-all.go), which reads the file once, fills five indexes and *)
(* seals them in five goroutines, its verification, the single-purpose     *)
(* tools (index-*.go, cmd-x-index-*.go), and the iterator that reads a CAR *)
(* file through one of the indexes (car-dag-traverser.go).                 *)
(*                                                                         *)
(* A CAR file is a sequence of nodes [cid, kind, ok, slot, time, sig,      *)
(* size]: ok says whether the node decodes, sig is "none" when its first   *)
(* signature cannot be read.  An index is a function from keys to values;  *)
(* what the index files do with their bytes is the subject of CompactIndex,*)
(* Bucketteer and BlockTimeIndex.                                          *)
(***************************************************************************)
EXTENDS Integers, Sequences, FiniteSets, Functions

CONSTANTS Cars,       \* the CAR files: [nodes, roots, end]
          HeaderSize, \* the bytes of a CAR header
          EpochSlots  \* the slots of the epoch

VARIABLES pc, writer, file

vars == <<pc, writer, file>>

\* The five indexes of `index all`, and the goroutines that seal the first
\* four assign the err of the enclosing function.
SharesErr == {"cid", "slot", "sig", "exists"}
Goroutines == SharesErr \cup {"time"}

Empty == [x \in {} |-> x]

\* What a failed seal may leave behind: no file that opens, or a file that
\* answers for all the keys or for all but one.
Missing == [opens |-> FALSE, at |-> Empty]
Left(index) == {Missing, [opens |-> TRUE, at |-> index]} \cup
               {[opens |-> TRUE, at |-> Restrict(index, DOMAIN index \ {k})] : k \in DOMAIN index}

-----------------------------------------------------------------------------
(* Reading the CAR file.                                                   *)

\* The place of a node in the file: the header and the sections before it.
OffsetOf(nodes, i) ==
  LET at[j \in 1..i] == IF j = 1 THEN HeaderSize ELSE at[j - 1] + nodes[j - 1].size
  IN at[i]

\* Put in the order of the file; the later of two equal keys is what a map
\* holds, the compact indexes refuse to seal (see Duplicate).
Assoc(seq) ==
  [k \in {seq[i][1] : i \in DOMAIN seq} |->
     seq[CHOOSE i \in DOMAIN seq : seq[i][1] = k
           /\ \A j \in DOMAIN seq : seq[j][1] = k => j <= i][2]]

\* Two entries of one compact index with the same key never mine a bucket.
Duplicate(seq) == \E i, j \in DOMAIN seq : i # j /\ seq[i][1] = seq[j][1]

\* readFirstSignature fails on an empty or short signature list.
ReadFirstSignature(node) == node.sig

\* FindBlocks and FindTransactions hand the nodes of one kind that decode to
\* the callback and skip the ones that do not.
Find(nodes, kind) == SelectSeq(nodes, LAMBDA n : n.kind = kind /\ n.ok)

\* carCountItemsByFirstByte: every section is read, and the epoch object is
\* the last node of its kind; one that does not decode fails the count.
CountFails(car) ==
  \/ car.end = "error"
  \/ \E i \in DOMAIN car.nodes : car.nodes[i].kind = "epoch" /\ ~car.nodes[i].ok
HasEpoch(car) == \E i \in DOMAIN car.nodes : car.nodes[i].kind = "epoch"

-----------------------------------------------------------------------------
(* The single-purpose tools: what they put in their index, "fails" when    *)
(* they return an error before the seal.                                   *)

Fails == [ok |-> FALSE, at |-> <<>>]
Puts(seq) == IF Duplicate(seq) THEN Fails ELSE [ok |-> TRUE, at |-> seq]
Readable(car) == Len(car.roots) = 1 /\ car.end = "eof"

CreateIndexCid2offset(car) ==
  IF ~Readable(car) THEN Fails
  ELSE Puts([i \in DOMAIN car.nodes |->
               <<car.nodes[i].cid, <<OffsetOf(car.nodes, i), car.nodes[i].size>>>>])

CreateIndexSlot2cid(car) ==
  LET blocks == Find(car.nodes, "block")
  IN IF ~Readable(car) THEN Fails
     ELSE Puts([i \in DOMAIN blocks |-> <<blocks[i].slot, blocks[i].cid>>])

CreateIndexSig2cid(car) ==
  LET txs == Find(car.nodes, "transaction")
  IN IF \/ ~Readable(car)
        \/ \E i \in DOMAIN txs : ReadFirstSignature(txs[i]) = "none" THEN Fails
     ELSE Puts([i \in DOMAIN txs |-> <<txs[i].sig, txs[i].cid>>])

CreateIndexSlot2blocktime(car) ==
  LET blocks == Find(car.nodes, "block")
  IN IF \/ ~Readable(car)
        \/ \E i \in DOMAIN blocks : blocks[i].slot \notin EpochSlots THEN Fails
     ELSE [ok |-> TRUE, at |-> [i \in DOMAIN blocks |-> <<blocks[i].slot, blocks[i].time>>]]

\* getRawNodeFromCarByCid: the index gives a place, the CID read there must
\* be the one asked for.  Bytes that do not start a section are not a node.
GetRawNode(car, index, c) ==
  IF c \notin DOMAIN index THEN {}
  ELSE {car.nodes[i] : i \in {j \in DOMAIN car.nodes :
          /\ OffsetOf(car.nodes, j) = index[c][1]
          /\ car.nodes[j].cid = c}}

\* Opening the iterator looks the only root up.
OpenCarReaderWithIndex(car, index) ==
  Len(car.roots) = 1 /\ GetRawNode(car, index, car.roots[1]) # {}

\* The verifications of the tools skip the same nodes as the tools.
VerifyIndexCid2offset(car, index) ==
  /\ Readable(car)
  /\ \E n \in GetRawNode(car, index, car.roots[1]) : n.kind = "epoch" /\ n.ok
  /\ \A i \in DOMAIN car.nodes :
       /\ car.nodes[i].cid \in DOMAIN index
       /\ index[car.nodes[i].cid] = <<OffsetOf(car.nodes, i), car.nodes[i].size>>

VerifyIndexSlot2cid(car, index) ==
  LET blocks == Find(car.nodes, "block")
  IN /\ Readable(car)
     /\ \A i \in DOMAIN blocks : /\ blocks[i].slot \in DOMAIN index
                                 /\ index[blocks[i].slot] = blocks[i].cid

VerifyIndexSig2cid(car, index) ==
  LET txs == Find(car.nodes, "transaction")
  IN /\ Readable(car)
     /\ \A i \in DOMAIN txs : /\ ReadFirstSignature(txs[i]) # "none"
                              /\ txs[i].sig \in DOMAIN index
                              /\ index[txs[i].sig] = txs[i].cid

-----------------------------------------------------------------------------
(* index all: one pass over the file fills the five builders.              *)

Builders == [g \in Goroutines |-> <<>>]

Init ==
  /\ file \in {[car |-> c, disk |-> [g \in Goroutines |-> Missing]] : c \in Cars}
  /\ pc = "open"
  /\ writer = [pos |-> 1, put |-> Builders, err |-> "nil",
               own |-> [g \in Goroutines |-> "nil"],
               step |-> [g \in Goroutines |-> "sealing"]]

\* createAllIndexes up to the loop: one root, a CAR file that can be counted
\* and holds an epoch object.
Open ==
  /\ pc = "open"
  /\ pc' = IF \/ Len(file.car.roots) # 1 \/ CountFails(file.car) \/ ~HasEpoch(file.car)
           THEN "refused" ELSE "index"
  /\ UNCHANGED <<writer, file>>

NodeFails(n) ==
  \/ n.kind = "block" /\ (~n.ok \/ n.slot \notin EpochSlots)
  \/ n.kind = "transaction" /\ (~n.ok \/ ReadFirstSignature(n) = "none")

\* What one node adds to each of the builders.
PutsOf(n, offset) ==
  [cid |-> << <<n.cid, <<offset, n.size>>>> >>,
   slot |-> IF n.kind = "block" THEN << <<n.slot, n.cid>> >> ELSE <<>>,
   time |-> IF n.kind = "block" THEN << <<n.slot, n.time>> >> ELSE <<>>,
   sig |-> IF n.kind = "transaction" THEN << <<n.sig, n.cid>> >> ELSE <<>>,
   exists |-> IF n.kind = "transaction" THEN << <<n.sig, TRUE>> >> ELSE <<>>]

IndexNode ==
  LET n == file.car.nodes[writer.pos]
      more == PutsOf(n, OffsetOf(file.car.nodes, writer.pos))
  IN /\ pc = "index" /\ writer.pos <= Len(file.car.nodes)
     /\ IF NodeFails(n)
        THEN pc' = "refused" /\ UNCHANGED writer
        ELSE /\ pc' = pc
             /\ writer' = [writer EXCEPT !.pos = @ + 1,
                  !.put = [g \in Goroutines |-> @[g] \o more[g]]]
     /\ UNCHANGED file

Eof ==
  /\ pc = "index" /\ writer.pos > Len(file.car.nodes)
  /\ pc' = "seal"
  /\ UNCHANGED <<writer, file>>

\* Mutant of SealEnds: the error of writing the block times is not tested.
SealEndsUntested(g) ==
  LET put == writer.put[g]
  IN /\ pc = "seal" /\ writer.step[g] = "sealing"
     /\ \E ok \in IF g \in {"cid", "slot", "sig"} /\ Duplicate(put) THEN {FALSE} ELSE BOOLEAN :
          writer' = [writer EXCEPT
            !.own[g] = IF ok THEN "nil" ELSE "failed",
            !.err = IF g \in SharesErr THEN (IF ok THEN "nil" ELSE "failed") ELSE @,
            !.step[g] = IF g \in SharesErr THEN "testing" ELSE "ok"]
     /\ UNCHANGED <<pc, file>>

\* A goroutine's call of Seal (WriteTo for the block times) ends.  A compact
\* index with a duplicate key cannot be sealed; any seal may fail in I/O.  The
\* err of the block times is the goroutine's own, so its test is the same step.
SealEnds(g) ==
  LET put == writer.put[g]
  IN /\ pc = "seal" /\ writer.step[g] = "sealing"
     /\ \E ok \in IF g \in {"cid", "slot", "sig"} /\ Duplicate(put) THEN {FALSE} ELSE BOOLEAN :
          writer' = [writer EXCEPT
            !.own[g] = IF ok THEN "nil" ELSE "failed",
            !.err = IF g \in SharesErr THEN (IF ok THEN "nil" ELSE "failed") ELSE @,
            !.step[g] = IF g \in SharesErr THEN "testing" ELSE IF ok THEN "ok" ELSE "failed"]
     /\ UNCHANGED <<pc, file>>

\* `if err != nil` after it.  The assignments and the tests of the four are
\* not synchronised: a test sees what the goroutine assigned, or what another
\* one assigned since.
SealTested(g) ==
  /\ pc = "seal" /\ writer.step[g] = "testing"
  /\ \E seen \in {writer.own[g], writer.err} :
       writer' = [writer EXCEPT !.step[g] = IF seen = "nil" THEN "ok" ELSE "failed"]
  /\ UNCHANGED <<pc, file>>

OnDisk(g) ==
  LET index == Assoc(writer.put[g])
  IN IF writer.own[g] = "nil" THEN {[opens |-> TRUE, at |-> index]} ELSE Left(index)

\* errgroup's Wait: an error of any goroutine is the result.  What a failed
\* seal left behind is chosen here, where the files are first looked at.
Wait ==
  /\ pc = "seal"
  /\ \A g \in Goroutines : writer.step[g] \in {"ok", "failed"}
  /\ IF \E g \in Goroutines : writer.step[g] = "failed"
     THEN pc' = "failed" /\ UNCHANGED file
     ELSE /\ pc' = "created"
          /\ \E c \in OnDisk("cid"), sl \in OnDisk("slot"), si \in OnDisk("sig"),
                e \in OnDisk("exists"), t \in OnDisk("time") :
               file' = [file EXCEPT !.disk =
                 [cid |-> c, slot |-> sl, sig |-> si, exists |-> e, time |-> t]]
  /\ UNCHANGED writer

\* verifyAllIndexes: the four indexes open and hold what each node says; the
\* block times are not among them.
Holds(index, k, v) == index.opens /\ k \in DOMAIN index.at /\ index.at[k] = v

VerifyNode(n, offset, disk) ==
  /\ Holds(disk["cid"], n.cid, <<offset, n.size>>)
  /\ n.kind = "block" => n.ok /\ Holds(disk["slot"], n.slot, n.cid)
  /\ n.kind = "transaction" =>
       /\ n.ok /\ ReadFirstSignature(n) # "none"
       /\ Holds(disk["sig"], n.sig, n.cid)
       /\ Holds(disk["exists"], n.sig, TRUE)

VerifyAllIndexes(car, disk) ==
  /\ Readable(car)
  /\ \A g \in SharesErr : disk[g].opens
  /\ \A i \in DOMAIN car.nodes : VerifyNode(car.nodes[i], OffsetOf(car.nodes, i), disk)

\* index all --verify, and the verify-index all command.
Verify ==
  /\ pc = "created"
  /\ pc' = IF VerifyAllIndexes(file.car, file.disk) THEN "verified" ELSE "mismatch"
  /\ UNCHANGED <<writer, file>>

Next == Open \/ IndexNode \/ Eof \/ (\E g \in Goroutines : SealEnds(g) \/ SealTested(g)) \/ Wait \/ Verify

Spec == Init /\ [][Next]_vars

-----------------------------------------------------------------------------
(* What `index all` should have put in each index.                         *)

Content(car, g) ==
  Assoc(SelectSeq(
    [i \in DOMAIN car.nodes |->
       LET more == PutsOf(car.nodes[i], OffsetOf(car.nodes, i))[g]
       IN IF more = <<>> THEN <<>> ELSE more[1]],
    LAMBDA e : e # <<>>))

Exact(g) == file.disk[g].opens /\ file.disk[g].at = Content(file.car, g)

(* Properties.                                                             *)

\* createAllIndexes reports a failure only when a seal failed, and success only
\* with exact block times, whose goroutine has its own err, and not when all
\* the seals that assign the outer err failed; without a failed seal all the
\* indexes are exact.  Nothing is said of a failure that another goroutine's
\* success hides: VerifyCatches is about those.
SealReported ==
  /\ pc \in {"created", "verified", "mismatch"} =>
       /\ Exact("time")
       /\ \E g \in SharesErr : writer.own[g] = "nil"
       /\ (\A g \in SharesErr : writer.own[g] = "nil") => \A g \in SharesErr : Exact(g)
  /\ pc = "failed" => \E g \in Goroutines : writer.own[g] = "failed"

\* verifyAllIndexes accepts only four indexes that hold exactly what the CAR
\* file says: a seal failure that createAllIndexes lost is found there.
VerifyCatches == pc = "verified" => \A g \in SharesErr : Exact(g)

\* On every CAR file that `index all` can index, the single-purpose tools put
\* the same entries in their indexes and their verifications accept them; a
\* CAR file that only the tools accept has a block or a transaction that does
\* not decode (FindBlocks, FindTransactions skip it), no epoch object, or a
\* block outside the epoch.
ToolsAgree ==
  LET car == file.car
      tool == [cid |-> CreateIndexCid2offset(car), slot |-> CreateIndexSlot2cid(car),
               sig |-> CreateIndexSig2cid(car), time |-> CreateIndexSlot2blocktime(car)]
  IN /\ pc = "seal" =>
          \A g \in {"cid", "slot", "sig", "time"} :
            IF tool[g].ok THEN tool[g].at = writer.put[g] ELSE Duplicate(writer.put[g])
     /\ pc = "verified" =>
          /\ VerifyIndexCid2offset(car, file.disk["cid"].at)
          /\ VerifyIndexSlot2cid(car, file.disk["slot"].at)
          /\ VerifyIndexSig2cid(car, file.disk["sig"].at)
     /\ (pc = "refused" /\ \A g \in {"cid", "slot", "sig"} : tool[g].ok) =>
          \/ ~HasEpoch(car)
          \/ \E i \in DOMAIN car.nodes :
               ~car.nodes[i].ok \/ (car.nodes[i].kind = "block" /\ ~tool["time"].ok)

\* The iterator reads through a cid index of any age: with the index of
\* another CAR file it never returns a node other than the one asked for, and
\* with a verified one it finds every node of the file.
IteratorSound ==
  /\ pc = "created" /\ file.disk["cid"].opens =>
       \A other \in Cars, c \in DOMAIN file.disk["cid"].at :
         \A n \in GetRawNode(other, file.disk["cid"].at, c) : n.cid = c
  /\ pc = "verified" =>
       /\ OpenCarReaderWithIndex(file.car, file.disk["cid"].at)
       /\ \A i \in DOMAIN file.car.nodes :
            GetRawNode(file.car, file.disk["cid"].at, file.car.nodes[i].cid) = {file.car.nodes[i]}
=============================================================================
