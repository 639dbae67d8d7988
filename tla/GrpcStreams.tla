---------------------------- MODULE GrpcStreams ----------------------------
(***************************************************************************)
(* The streaming methods of the gRPC server (grpc-server.go): StreamBlocks, *)
(* StreamTransactions with its filter (vote.go) and its lookups in the      *)
(* indexes by account (gsfa/gsfa-read-multiepoch.go, gsfa/gsfa-read.go),    *)
(* and Get, which answers a sequence of requests.                           *)
(*                                                                          *)
(* getBlock itself is module GetBlock; here a slot has a block, has none,   *)
(* or fails, and any read may fail.  The epochs stay loaded: what a request *)
(* finds while they are replaced is in SignaturesForAddress.                *)
(***************************************************************************)
EXTENDS Integers, Sequences, FiniteSets

CONSTANTS Chain,     \* the blocks: a function from slots to sequences of transactions
          Requests,
          Malformed, \* the accounts of requests that are no base58 public keys
          EpochLen, Word,        \* Word: 2^64
          MaxSlotsToStream, Limit,   \* 100 and 1000
          MaxCap,    \* the longest slice that make can allocate: fewer than the epochs there can be
          MaxLaps    \* of a stream that never ends

VARIABLES pc, stream, request

vars == <<pc, stream, request>>

Ended == {"finished", "failed", "cancelled", "crashed"}

Init ==
    /\ pc = "called"
    /\ request \in Requests
    /\ stream = [slot |-> 0, end |-> 0, laps |-> 0, readers |-> <<>>, account |-> 1, todo |-> <<>>,
                 sent |-> <<>>]

CalcEpochForSlot(slot) == slot \div EpochLen

-----------------------------------------------------------------------------
EndSlot == IF request.end # <<>> THEN request.end[1] ELSE (request.start + MaxSlotsToStream) % Word

\* The capacity of the list of epochs, in unsigned arithmetic.
Capacity(from, to) == (CalcEpochForSlot(to) - CalcEpochForSlot(from) + 1) % Word

\* The gsfa readers of the epochs of the range, from the newest to the oldest.
ReadersForSlotRange(from, to) ==
    LET es == {e \in {CalcEpochForSlot(s) : s \in DOMAIN Chain} :
                  e >= CalcEpochForSlot(from) /\ e <= CalcEpochForSlot(to)}
    IN  [i \in 1..Cardinality(es) |-> CHOOSE e \in es : Cardinality({f \in es : f > e}) = i - 1]

Start ==
    /\ pc = "called" /\ request.method # "get"
    /\ LET begun == [stream EXCEPT !.slot = request.start, !.end = EndSlot]
       IN  IF request.method = "blocks"
           THEN pc' = "slot" /\ stream' = begun
           ELSE IF Capacity(request.start, EndSlot) > MaxCap
           THEN pc' = "crashed" /\ UNCHANGED stream
           ELSE /\ pc' = "slot"
                /\ stream' = [begun EXCEPT !.readers = ReadersForSlotRange(request.start, EndSlot)]
    /\ UNCHANGED request

\* ctx.Done, seen before each slot or request; a read or a Send can fail in any case.
Cancel ==
    /\ pc \in {"slot", "get"}
    /\ pc' = "cancelled"
    /\ UNCHANGED <<stream, request>>

Fails ==
    /\ pc \in {"slot", "tx", "get"}
    /\ pc' = "failed"
    /\ UNCHANGED <<stream, request>>

\* slot++
Advanced(s) ==
    [s EXCEPT !.slot = (@ + 1) % Word, !.account = 1, !.todo = <<>>,
              !.laps = IF s.slot = Word - 1 THEN @ + 1 ELSE @]

More == stream.slot <= stream.end /\ stream.laps < MaxLaps

Finish ==
    /\ pc = "slot" /\ stream.slot > stream.end
    /\ pc' = "finished"
    /\ UNCHANGED <<stream, request>>

HasBlock(slot) == slot \in DOMAIN Chain

Filter == request.filter[1]
NoInclude == IF request.filter = <<>> THEN TRUE ELSE Filter.include = <<>>

\* blockContainsAccounts decodes the bytes of each Solana transaction as if they
\* were a node of the CAR file; that fails, and the transaction is passed over.
BlockContainsAccounts(slot) == FALSE

\* A slot without a block, or of an epoch that is not loaded, is passed over.
StreamBlock ==
    /\ pc = "slot" /\ request.method = "blocks" /\ More
    /\ stream' = IF HasBlock(stream.slot) /\ (NoInclude \/ BlockContainsAccounts(stream.slot))
                 THEN Advanced([stream EXCEPT !.sent = Append(@, stream.slot)])
                 ELSE Advanced(stream)
    /\ UNCHANGED <<pc, request>>
-----------------------------------------------------------------------------
(* StreamTransactions: processSlotTransactions.                             *)

IsSimpleVoteTransaction(tx) == tx.sigs \in {1, 2} /\ tx.programs = <<"vote">>

\* getErr: for protobuf metadata it is never nil.
GetErrIsNil(tx) == ~tx.proto /\ ~tx.failed

\* HasAccount fails for a transaction whose lookups are not resolved.
HasAccount(tx, a) == ~tx.lookups /\ a \in tx.keys
LacksAccount(tx, a) == ~tx.lookups /\ a \notin tx.keys

\* The checks of a filter, in their order; each lets the transaction pass, ends
\* with "false", or panics: a flag that is left out is a nil that is dereferenced,
\* and MustPublicKeyFromBase58 panics for what is no public key.
Flag(flag, refuse) == IF flag = <<>> THEN "panic" ELSE IF ~flag[1] /\ refuse THEN "false" ELSE "pass"
Account(a, pass) == IF a \in Malformed THEN "panic" ELSE IF pass THEN "pass" ELSE "false"

Checks(tx) ==
    <<Flag(Filter.vote, IsSimpleVoteTransaction(tx)), Flag(Filter.failed, ~GetErrIsNil(tx))>>
    \o [i \in DOMAIN Filter.exclude |-> Account(Filter.exclude[i], LacksAccount(tx, Filter.exclude[i]))]
    \o [i \in DOMAIN Filter.required |-> Account(Filter.required[i], HasAccount(tx, Filter.required[i]))]

FilterOutTxn(tx) ==
    IF request.filter = <<>> THEN "true"
    ELSE LET ends == SelectSeq(Checks(tx), LAMBDA c : c # "pass")
         IN  IF ends = <<>> THEN "true" ELSE Head(ends)

\* Without accounts to include: the transactions of the block.
TakeBlock ==
    /\ pc = "slot" /\ request.method = "transactions" /\ More /\ NoInclude
    /\ IF HasBlock(stream.slot)
       THEN pc' = "tx" /\ stream' = [stream EXCEPT !.todo = Chain[stream.slot]]
       ELSE pc' = pc /\ stream' = Advanced(stream)
    /\ UNCHANGED request

\* The transactions of an account in an epoch, newest first, each with its slot.
Log(e, a) ==
    LET of(s) == LET mine == SelectSeq(Chain[s], LAMBDA tx : a \in tx.keys)
                 IN  [i \in DOMAIN mine |-> [tx |-> mine[Len(mine) + 1 - i], slot |-> s]]
        down[s \in -1..Word] ==
            IF s < e * EpochLen THEN <<>> ELSE (IF HasBlock(s) THEN of(s) ELSE <<>>) \o down[s - 1]
    IN  down[(e + 1) * EpochLen - 1]

First(s, n) == SubSeq(s, 1, IF n < Len(s) THEN n ELSE Len(s))

\* Mutant of Got: the limit is that of an epoch.
GotPerEpoch(a) ==
    LET get[i \in 0..Len(stream.readers)] ==
            IF i = 0 THEN [ok |-> TRUE, found |-> <<>>]
            ELSE LET before == get[i - 1]
                     log == Log(stream.readers[i], a)
                     left == Limit
                 IN  IF ~before.ok \/ left <= 0 THEN before
                     ELSE IF log = <<>> THEN [before EXCEPT !.ok = FALSE]
                     ELSE [before EXCEPT !.found = @ \o First(log, left)]
    IN  get[Len(stream.readers)]

\* GsfaReaderMultiepoch.Get: from the newest epoch on, until the limit is
\* reached; an account that one of the epochs does not know is an error.
Got(a) ==
    LET get[i \in 0..Len(stream.readers)] ==
            IF i = 0 THEN [ok |-> TRUE, found |-> <<>>]
            ELSE LET before == get[i - 1]
                     log == Log(stream.readers[i], a)
                     left == Limit - Len(before.found)
                 IN  IF ~before.ok \/ left <= 0 THEN before
                     ELSE IF log = <<>> THEN [before EXCEPT !.ok = FALSE]
                     ELSE [before EXCEPT !.found = @ \o First(log, left)]
    IN  get[Len(stream.readers)]

\* With accounts to include: those of each account that are in the slot.
TakeAccount ==
    /\ pc = "slot" /\ request.method = "transactions" /\ More /\ ~NoInclude
    /\ IF stream.account > Len(Filter.include)
       THEN pc' = pc /\ stream' = Advanced(stream)
       ELSE IF Filter.include[stream.account] \in Malformed
       THEN pc' = "crashed" /\ UNCHANGED stream
       ELSE LET got == Got(Filter.include[stream.account])
                here == SelectSeq(got.found, LAMBDA x : x.slot = stream.slot)
            IN  IF ~got.ok THEN pc' = "failed" /\ UNCHANGED stream
                ELSE /\ pc' = "tx"
                     /\ stream' = [stream EXCEPT !.todo = [i \in DOMAIN here |-> here[i].tx],
                                                 !.account = @ + 1]
    /\ UNCHANGED request

\* One transaction: it is sent when filterOutTxn returns false.
Transaction ==
    /\ pc = "tx"
    /\ IF stream.todo = <<>>
       THEN pc' = "slot" /\ stream' = IF NoInclude THEN Advanced(stream) ELSE stream
       ELSE LET tx == Head(stream.todo)
            IN  IF FilterOutTxn(tx) = "panic" THEN pc' = "crashed" /\ UNCHANGED stream
                ELSE /\ pc' = pc
                     /\ stream' = [stream EXCEPT !.todo = Tail(@),
                                     !.sent = IF FilterOutTxn(tx) = "true" THEN @ ELSE Append(@, tx.id)]
    /\ UNCHANGED request
-----------------------------------------------------------------------------
(* Get: the requests of the client are answered one after the other.        *)

Outcomes(kind) ==
    CASE kind = "version" -> {"ok"}
      [] kind = "unknown" -> {}
      [] OTHER -> {"ok", "notfound", "internal"}

StartGet ==
    /\ pc = "called" /\ request.method = "get"
    /\ pc' = "get"
    /\ UNCHANGED <<stream, request>>

GetOne ==
    /\ pc = "get" /\ stream.slot < Len(request.asked)
    /\ \E o \in Outcomes(request.asked[stream.slot + 1]) :
          stream' = [stream EXCEPT !.slot = @ + 1,
                       !.sent = Append(@, [id |-> stream.slot + 1, code |-> o])]
    /\ UNCHANGED <<pc, request>>

GetUnknown ==
    /\ pc = "get" /\ stream.slot < Len(request.asked)
    /\ request.asked[stream.slot + 1] = "unknown"
    /\ pc' = "failed"
    /\ UNCHANGED <<stream, request>>

GetEOF ==
    /\ pc = "get" /\ stream.slot = Len(request.asked)
    /\ pc' = "finished"
    /\ UNCHANGED <<stream, request>>

Run == Start \/ Finish \/ StreamBlock \/ TakeBlock \/ TakeAccount \/ Transaction
       \/ StartGet \/ GetOne \/ GetUnknown \/ GetEOF

Next == Run \/ Cancel \/ Fails

\* A handler runs until it returns.
Spec == Init /\ [][Next]_vars /\ WF_vars(Run)
-----------------------------------------------------------------------------
(* Properties.                                                              *)

\* The slots of the stream that have a block, in order.
BlocksIn(from, to) == SelectSeq([i \in 1..(to - from + 1) |-> from + i - 1], HasBlock)

\* A stream of blocks that finishes has sent the blocks of its range, each once
\* and in order; with accounts to include it sends no others.
BlocksExact ==
    pc = "finished" /\ request.method = "blocks" =>
        LET blocks == BlocksIn(request.start, stream.end)
        IN  IF NoInclude THEN stream.sent = blocks
            ELSE stream.sent = SelectSeq(blocks, LAMBDA x : \E i \in DOMAIN stream.sent : stream.sent[i] = x)

\* The transactions of some slots, in their order.
TransactionsOf(slots) ==
    LET of[i \in 0..Len(slots)] == IF i = 0 THEN <<>> ELSE of[i - 1] \o Chain[slots[i]]
    IN  of[Len(slots)]

\* A stream of transactions has sent transactions of its range only, slot by
\* slot; without accounts to include it goes through each block in order, and
\* sends none twice.  Which of them the filter lets through is not said.
TransactionsInOrder ==
    request.method = "transactions" /\ stream.sent # <<>> =>
        LET sent == {stream.sent[i] : i \in DOMAIN stream.sent}
            txs == TransactionsOf(BlocksIn(request.start, stream.end))
            slot(id) == CHOOSE s \in DOMAIN Chain : \E i \in DOMAIN Chain[s] : Chain[s][i].id = id
        IN  /\ sent \subseteq {txs[i].id : i \in DOMAIN txs}
            /\ \A i, j \in DOMAIN stream.sent : i < j => slot(stream.sent[i]) <= slot(stream.sent[j])
            /\ NoInclude => LET mine == SelectSeq(txs, LAMBDA tx : tx.id \in sent)
                            IN  stream.sent = [i \in DOMAIN mine |-> mine[i].id]

\* With accounts to include, a transaction is sent once for each of them that
\* it touches, and never if it is older than the newest Limit of the account.
IncludeNewest ==
    pc = "finished" /\ request.method = "transactions" /\ ~NoInclude =>
        \A id \in {stream.sent[i] : i \in DOMAIN stream.sent} :
            Cardinality({i \in DOMAIN stream.sent : stream.sent[i] = id}) =
            Cardinality({k \in DOMAIN Filter.include :
               LET a == Filter.include[k]
                   newest[i \in 0..Len(stream.readers)] ==
                       IF i = 0 THEN <<>> ELSE newest[i - 1] \o Log(stream.readers[i], a)
                   window == First(newest[Len(stream.readers)], Limit)
               IN  \E j \in DOMAIN window : window[j].tx.id = id})

\* A handler panics, and the process with it, only for a filter that leaves a
\* flag out or names an account that is no public key, for a range of more
\* epochs than a slice can hold, or for one that ends two epochs or more before
\* it starts, whose number of epochs wraps around.
CrashExplained ==
    pc = "crashed" =>
        /\ request.method = "transactions"
        /\ \/ request.filter # <<>> /\ (Filter.vote = <<>> \/ Filter.failed = <<>>)
           \/ request.filter # <<>> /\ \E i \in 1..Len(Filter.exclude \o Filter.required \o Filter.include) :
                                           (Filter.exclude \o Filter.required \o Filter.include)[i] \in Malformed
           \/ CalcEpochForSlot(EndSlot) - CalcEpochForSlot(request.start) >= MaxCap
           \/ CalcEpochForSlot(EndSlot) + 1 < CalcEpochForSlot(request.start)

\* Get answers every request with its id, in the order of the requests; when it
\* ends well none is without an answer, whatever failed in between.
GetInOrder ==
    request.method = "get" =>
        /\ \A i \in DOMAIN stream.sent : stream.sent[i].id = i
        /\ pc = "finished" => Len(stream.sent) = Len(request.asked)

\* A stream ends, unless its range ends with the largest slot number.
StreamEnds == (pc = "called" /\ (request.method = "get" \/ EndSlot < Word - 1)) ~> (pc \in Ended)
=============================================================================
