------------------------------ MODULE GsfaWriter ------------------------------
(***************************************************************************)
(* gsfa/: the index from public keys to transactions.  Push collects the      *)
(* transactions of each key; a full batch goes over a channel to a goroutine *)
(* (fullBufferWriter), which holds it back until another one of the key      *)
(* comes, and other batches are flushed by Push and Close themselves.        *)
(* A batch is a record of the linked log that points to the key's previous   *)
(* one; readers start at the key's last record.                              *)
(***************************************************************************)
EXTENDS Integers, Sequences, FiniteSets

CONSTANTS Keys,          \* public keys, numbered in their sort order
          ZeroKey,       \* the all-zero key, if it is one of them
          BatchSize,     \* itemsPerBatch
          RareSize,      \* batches below this size may be flushed early
          ChanSize,      \* capacity of fullBufferWriterChan
          RankListSize,  \* of the ranking of keys by full batches
          MaxPushes,     \* bound on the transactions
          MaxFaults      \* bound on failed writes

ASSUME SizesAssumption == {BatchSize, RareSize, ChanSize, RankListSize} \subseteq Nat \ {0} /\ BatchSize > 1
ASSUME KeysAssumption == Keys \subseteq Nat /\ IsFiniteSet(Keys)
ASSUME BoundsAssumption == MaxPushes \in Nat /\ MaxFaults \in Nat

VARIABLES pc,        \* idle, rare, keys, close, wait, sealed, failed, exit
          count,     \* transactions pushed
          todo,      \* keys of the transaction at hand still to be collected
          sweep,     \* collected keys that Push or Close still looks at
          accum,     \* transactions collected, for each key
          rank,      \* popRank: number of full batches, 0 if absent
          chan,      \* fullBufferWriterChan
          exiting,
          wpc,       \* fullBufferWriter: loop, flush, done
          tmpBuf,    \* its batches, its empty ones left out
          held,      \* the batch it received last
          log,       \* the linked log
          offsets,   \* each key's last record, 0 if none
          faults,    \* number of writes that failed
          purged,    \* a key has fallen out of the ranking
          pushed     \* what was pushed for each key

pushVars == <<pc, count, todo, sweep, accum, rank, purged, pushed>>
writerVars == <<wpc, tmpBuf, held>>
logVars == <<log, offsets>>
vars == <<pushVars, chan, exiting, writerVars, logVars, faults>>

NoBatch == [key |-> 0, values |-> <<>>]

Init ==
    /\ pc = "idle"
    /\ count = 0
    /\ todo = <<>>
    /\ sweep = <<>>
    /\ accum = [k \in Keys |-> <<>>]
    /\ rank = [k \in Keys |-> 0]
    /\ chan = <<>>
    /\ exiting = FALSE
    /\ wpc = "loop"
    /\ tmpBuf = <<>>
    /\ held = NoBatch
    /\ log = <<>>
    /\ offsets = [k \in Keys |-> 0]
    /\ faults = 0
    /\ purged = FALSE
    /\ pushed = [k \in Keys |-> <<>>]

Sorted(S) ==
    CHOOSE seq \in [1..Cardinality(S) -> S] : \A i, j \in DOMAIN seq : i < j => seq[i] < seq[j]

Collected == {k \in Keys : accum[k] # <<>>}

Reversed(seq) == [i \in 1..Len(seq) |-> seq[Len(seq) + 1 - i]]

\* LinkedLog.Put: most recent first, with the place of the previous record.
Put(batch) ==
    /\ log' = Append(log, [values |-> Reversed(batch.values), prev |-> offsets[batch.key]])
    /\ offsets' = [offsets EXCEPT ![batch.key] = Len(log) + 1]
    /\ UNCHANGED faults

PutFails ==
    /\ faults < MaxFaults
    /\ faults' = faults + 1
    /\ UNCHANGED logVars
-----------------------------------------------------------------------------
(* Push.                                                                    *)

\* purge: only the RankListSize highest counts stay.
Purged ==
    LET counts == {rank[k] : k \in Keys} \ {0}
        kept == {n \in counts : Cardinality({m \in counts : m > n}) < RankListSize}
    IN  [k \in Keys |-> IF rank[k] \in kept THEN rank[k] ELSE 0]

\* A transaction with its keys. Now and then (a slot divisible by 500 and over
\* 100,000 keys collected) the collected keys are gone through first.
Push(S, periodic) ==
    /\ pc = "idle"
    /\ count < MaxPushes
    /\ count' = count + 1
    /\ todo' = Sorted(S)
    /\ IF periodic
       THEN /\ Collected # {}
            /\ pc' = "rare"
            /\ sweep' = Sorted(Collected)
            /\ rank' = Purged
            /\ purged' = (purged \/ rank' # rank)
       ELSE /\ pc' = "keys"
            /\ UNCHANGED <<sweep, rank, purged>>
    /\ UNCHANGED <<accum, pushed, chan, exiting, writerVars, logVars, faults>>

\* Mutant of Rare: popular keys are not spared.
RareAny(k) == Len(accum[k]) < RareSize

\* Keys with few transactions and no full batch yet are flushed right away.
Rare(k) == Len(accum[k]) < RareSize /\ rank[k] = 0

Forget(k) == accum' = [accum EXCEPT ![k] = <<>>]

\* One key of the periodic flush; an error ends the program.
FlushRare ==
    /\ pc = "rare"
    /\ sweep # <<>>
    /\ sweep' = Tail(sweep)
    /\ LET k == Head(sweep)
       IN  \/ /\ ~Rare(k)
              /\ UNCHANGED <<pc, accum, logVars, faults>>
           \/ /\ Rare(k)
              /\ Put([key |-> k, values |-> accum[k]])
              /\ Forget(k)
              /\ UNCHANGED pc
           \/ /\ Rare(k)
              /\ PutFails
              /\ pc' = "exit"
              /\ UNCHANGED accum
    /\ UNCHANGED <<count, todo, rank, purged, pushed, chan, exiting, writerVars>>

FlushedRare ==
    /\ pc = "rare"
    /\ sweep = <<>>
    /\ pc' = "keys"
    /\ UNCHANGED <<count, todo, sweep, accum, rank, purged, pushed, chan, exiting,
                   writerVars, logVars, faults>>

\* One key of the transaction. The send of a full batch waits for room, with
\* the writer's lock held.
PushKey ==
    /\ pc = "keys"
    /\ todo # <<>>
    /\ todo' = Tail(todo)
    /\ LET k == Head(todo)
           values == Append(accum[k], count)
       IN  /\ pushed' = [pushed EXCEPT ![k] = Append(@, count)]
           /\ IF Len(values) >= BatchSize
              THEN /\ Len(chan) < ChanSize
                   /\ rank' = [rank EXCEPT ![k] = @ + 1]
                   /\ chan' = Append(chan, [key |-> k, values |-> values])
                   /\ Forget(k)
              ELSE /\ accum' = [accum EXCEPT ![k] = values]
                   /\ UNCHANGED <<rank, chan>>
    /\ UNCHANGED <<pc, count, sweep, purged, exiting, writerVars, logVars, faults>>

Pushed ==
    /\ pc = "keys"
    /\ todo = <<>>
    /\ pc' = "idle"
    /\ UNCHANGED <<count, todo, sweep, accum, rank, purged, pushed, chan, exiting,
                   writerVars, logVars, faults>>
-----------------------------------------------------------------------------
(* Close.                                                                   *)

Close ==
    /\ pc = "idle"
    /\ pc' = "close"
    /\ sweep' = Sorted(Collected)
    /\ UNCHANGED <<count, todo, accum, rank, purged, pushed, chan, exiting, writerVars,
                   logVars, faults>>

\* flushAccum: one collected key; an error makes Close return it at once.
FlushAccum ==
    /\ pc = "close"
    /\ sweep # <<>>
    /\ sweep' = Tail(sweep)
    /\ \/ /\ Put([key |-> Head(sweep), values |-> accum[Head(sweep)]])
          /\ Forget(Head(sweep))
          /\ UNCHANGED pc
       \/ /\ PutFails
          /\ pc' = "failed"
          /\ UNCHANGED accum
    /\ UNCHANGED <<count, todo, rank, purged, pushed, chan, exiting, writerVars>>

SetExiting ==
    /\ pc = "close"
    /\ sweep = <<>>
    /\ exiting' = TRUE
    /\ pc' = "wait"
    /\ UNCHANGED <<count, todo, sweep, accum, rank, purged, pushed, chan, writerVars,
                   logVars, faults>>

\* The goroutine has answered: the offsets are written and sealed.
Seal ==
    /\ pc = "wait"
    /\ wpc = "done"
    /\ \/ pc' = "sealed" /\ UNCHANGED <<logVars, faults>>
       \/ pc' = "failed" /\ PutFails
    /\ UNCHANGED <<count, todo, sweep, accum, rank, purged, pushed, chan, exiting, writerVars>>

-----------------------------------------------------------------------------
(* fullBufferWriter.                                                        *)

\* tmpBuf.Has. The buffer also holds empty entries, whose key is zero.
Waits(k) == k = ZeroKey \/ \E i \in DOMAIN tmpBuf : tmpBuf[i].key = k

\* An error of Push ends the program, the goroutine with it.
Running == pc # "exit"

\* Mutant of Receive: the goroutine starts with the shutdown.
ReceiveLate ==
    /\ exiting
    /\ wpc = "loop"
    /\ chan # <<>>
    /\ chan' = Tail(chan)
    /\ IF Waits(Head(chan).key)
       THEN wpc' = "flush" /\ held' = Head(chan) /\ UNCHANGED tmpBuf
       ELSE tmpBuf' = Append(tmpBuf, Head(chan)) /\ UNCHANGED <<wpc, held>>
    /\ UNCHANGED <<pushVars, exiting, logVars, faults>>

\* A batch is received. If one of its key is waiting, all that wait are
\* flushed before it is kept.
Receive ==
    /\ Running
    /\ wpc = "loop"
    /\ chan # <<>>
    /\ chan' = Tail(chan)
    /\ IF Waits(Head(chan).key)
       THEN wpc' = "flush" /\ held' = Head(chan) /\ UNCHANGED tmpBuf
       ELSE tmpBuf' = Append(tmpBuf, Head(chan)) /\ UNCHANGED <<wpc, held>>
    /\ UNCHANGED <<pushVars, exiting, logVars, faults>>

\* One of the waiting batches is written; an error is only logged.
FlushBuffer ==
    /\ Running
    /\ wpc = "flush"
    /\ tmpBuf # <<>>
    /\ Put(Head(tmpBuf)) \/ PutFails
    /\ tmpBuf' = Tail(tmpBuf)
    /\ UNCHANGED <<pushVars, chan, exiting, wpc, held>>

FlushedBuffers ==
    /\ Running
    /\ wpc = "flush"
    /\ tmpBuf = <<>>
    /\ tmpBuf' = <<held>>
    /\ held' = NoBatch
    /\ wpc' = "loop"
    /\ UNCHANGED <<pushVars, chan, exiting, logVars, faults>>

\* Mutant of Exit: the batches in the channel are not waited for.
ExitAtOnce ==
    /\ wpc = "loop"
    /\ exiting
    /\ wpc' = "done"
    /\ UNCHANGED <<pushVars, chan, exiting, tmpBuf, held, logVars, faults>>

\* The goroutine leaves, with the batches that wait unwritten.
Exit ==
    /\ wpc = "loop"
    /\ exiting
    /\ chan = <<>>
    /\ wpc' = "done"
    /\ UNCHANGED <<pushVars, chan, exiting, tmpBuf, held, logVars, faults>>

Writer == Receive \/ FlushBuffer \/ FlushedBuffers \/ Exit

Indexer ==
    \/ \E S \in SUBSET Keys, periodic \in BOOLEAN : Push(S, periodic)
    \/ FlushRare
    \/ FlushedRare
    \/ PushKey
    \/ Pushed
    \/ Close
    \/ FlushAccum
    \/ SetExiting
    \/ Seal

Next == Indexer \/ Writer

\* Both goroutines run on, and a command that pushes calls Close at the end.
Fairness == WF_vars(Indexer) /\ WF_vars(Writer)

Spec == Init /\ [][Next]_vars /\ Fairness
-----------------------------------------------------------------------------
(* What a reader finds, and where the transactions of a key are.            *)

\* GsfaReader.Get without a limit: the records of the key, from the last one back.
Walk(records) ==
    LET walk[i \in 0..Len(records)] ==
            IF i = 0 THEN <<>> ELSE records[i].values \o walk[records[i].prev]
    IN  walk

Get(k) == Walk(log)[offsets[k]]

ValuesFor(k, batch) == IF batch.key = k THEN batch.values ELSE <<>>

UpTo(k, batches) ==
    LET upTo[i \in 0..Len(batches)] ==
            IF i = 0 THEN <<>> ELSE upTo[i - 1] \o ValuesFor(k, batches[i])
    IN  upTo

BatchesOf(k, batches) == UpTo(k, batches)[Len(batches)]

\* Everything kept for a key, from the index to what was collected last.
Everywhere(k) ==
    Reversed(Get(k)) \o BatchesOf(k, tmpBuf) \o ValuesFor(k, held) \o BatchesOf(k, chan) \o accum[k]

Values(seq) == {seq[i] : i \in DOMAIN seq}

Closing == pc \in {"close", "wait", "sealed", "failed"}

\* Type correctness.
TypeOK ==
    /\ pc \in {"idle", "rare", "keys", "close", "wait", "sealed", "failed", "exit"}
    /\ count \in 0..MaxPushes
    /\ todo \in Seq(Keys) /\ sweep \in Seq(Keys)
    /\ \A k \in Keys : accum[k] \in Seq(1..count) /\ Len(accum[k]) < BatchSize
    /\ rank \in [Keys -> Nat]
    /\ Len(chan) <= ChanSize
    /\ exiting \in BOOLEAN /\ purged \in BOOLEAN
    /\ wpc \in {"loop", "flush", "done"}
    /\ offsets \in [Keys -> 0..Len(log)]
    /\ faults \in 0..MaxFaults

\* Until Close, the index, the goroutine's batches, the channel and what is
\* collected hold, one after the other, just what was pushed for the key, in
\* that order: the early flush of Push never overtakes a full batch, because
\* it spares the keys that have had one (as long as the ranking keeps them).
InOrder ==
    faults = 0 /\ ~purged /\ ~Closing => \A k \in Keys : Everywhere(k) = pushed[k]

\* No transaction is listed twice or under a key it was not pushed for,
\* whatever the order of the flushes of Push, Close and fullBufferWriter.
ListedOnce ==
    \A k \in Keys : LET all == Everywhere(k)
                    IN  /\ \A i, j \in DOMAIN all : all[i] = all[j] => i = j
                        /\ Values(all) \subseteq Values(pushed[k])

\* In the sealed index a key without a full batch has all its transactions,
\* most recent first, however often Push flushed it early.
RareKeysExact ==
    pc = "sealed" /\ faults = 0 /\ ~purged
        => \A k \in Keys : rank[k] = 0 => Get(k) = Reversed(pushed[k])

\* A sealed index misses at most the last full batch of a key: what Close
\* finds in the channel is still received, and two batches of a key never
\* wait together.
LossBounded ==
    pc = "sealed" /\ faults = 0
        => \A k \in Keys : Len(pushed[k]) - Len(Get(k)) \in {0, BatchSize}

\* What a sealed index lists: no transaction twice, the rare keys in full, and of
\* each other key all but at most one batch.
SealedListing == ListedOnce /\ RareKeysExact /\ LossBounded

\* Close comes to an end: the goroutine empties the channel and answers.  So
\* does a Push that waits for room in the channel.
CallsReturn ==
    /\ (pc = "close") ~> (pc \in {"sealed", "failed"})
    /\ (pc = "keys") ~> (pc = "idle")

\* The index that Close seals without an error lists every transaction under
\* each of its keys.
AllListed ==
    pc = "sealed" /\ faults = 0 => \A k \in Keys : Values(Get(k)) = Values(pushed[k])
=============================================================================
