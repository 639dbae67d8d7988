# Yellowstone Faithful in TLA+

A formal model of the Old Faithful archive tools of this repository: the RPC
server that answers Solana queries from per-epoch CAR files, and the tools that
build its indexes. The modules state what the concurrent parts of the code
promise, TLC checks it on small instances, and TLAPS proves the most important
parts for every size.

Every definition is written from the Go source; `PROJECT.json` gives, under
`map`, the lines each one stands for. Paths below are relative to `src/`.

## The system

```
 config files ──fsnotify──▶ watch loop ──▶ registry of epochs (MultiEpoch)
                            cmd-rpc.go       multiepoch.go
                                                 │ handles
   JSON-RPC / gRPC request ──▶ handlers ─────────┤
   multiepoch.go, grpc-server.go                 ▼
                                     Epoch: indexes, CAR, caches
                                     epoch.go, compactindexsized/,
                                     bucketteer/, gsfa/, huge-cache/
                                                 │ ReadAt
                                                 ▼
                        local file, split CAR pieces, remote file
                        storage.go, split-car-fetcher/, range-cache/

 CAR file ──▶ carreader ──▶ accumulator ──▶ index builders, gsfa writer, splitter
              carreader/     accum/          cmd-x-index-*.go, gsfa/, cmd-car-split.go
```

- An **epoch** handle owns the CAR and index files of one epoch. The
  **registry** maps epoch numbers to handles behind an RWMutex. Requests read it
  several times each; the **watch loop** changes it when a config file changes.
- A **request** finds the epoch (by slot, or by a parallel search over all
  epochs with **FirstSuccess**), reads index and CAR through the handle, and
  replies.
- Remote files are read through a **range cache** shared by all requests.
- The **indexers** read a CAR front to back. The accumulator hands over whole
  blocks; the **gsfa writer** collects the transactions of each public key and
  writes them in batches to a linked log.

`PROJECT.json` lists all parts under `components`, with the ones not modelled
and why, and the places where the code is hard to test under `hazards`.

## Modules

Two kinds of modules. Those of the first table have a run of their own or are
proved about. Those of the second are
instantiated in `MCArchive` (run `archive`) and `MCServing` (run `serving`), which
put independent components side by side: a behaviour is about one of them.

| module | code | what it is |
|---|---|---|
| `RangeCache` | `range-cache/range-cache.go`, `split-car-fetcher/remote-file.go` | readers, collector and Close on the cache of one remote file, and a server that may send other bytes |
| `EpochRegistry` | | abstract registry: every operation is one step |
| `MultiEpoch` | `multiepoch.go`, `cmd-rpc.go` | the registry with its RWMutex; refines `EpochRegistry` |
| `ConfigWatcher` | `cmd-rpc.go`, `config.go` | startup load, file events, goroutines and the tracker |
| `FirstSuccess` | `first-success.go` | the parallel search with its channel |
| `GetTransaction` | `multiepoch-getTransaction.go`, `multiepoch.go`, `epoch.go` | one getTransaction request while epochs are reloaded; extends and refines `FirstSuccess` |
| `GsfaWriter` | `gsfa/gsfa-write.go`, `gsfa/pop-rank.go`, `gsfa/linkedlog/linked-log.go` | Push, the goroutine fullBufferWriter, Close and the linked log |
| `Walks` | | `Accumulator` and `SigExistsTool` of the second table side by side |
| `IndexFiles` | | `BlockTimeIndex`, `TypedIndex`, `LinkedLog` and `Manifest` side by side |
| `*Proofs` | | theorems about the module they extend |

| module | code | what it is |
|---|---|---|
| `CompactIndex` | `compactindexsized/`, `deprecated/compactindex/`, `deprecated/compactindex36/` | builder, mining of buckets, Eytzinger layout, search |
| `Bucketteer` | `bucketteer/`, `deprecated/bucketteer/` | the sig-exists index with its draft header |
| `BlockTimeIndex` | `blocktimeindex/`, `slottools/` | the block times of an epoch |
| `IndexMeta` | `indexmeta/` | the metadata in index headers, byte by byte |
| `TypedIndex` | `indexes/` | the four typed writers and readers |
| `LinkedLog` | `gsfa/linkedlog/` | the bytes and lengths of the log's records |
| `Manifest` | `gsfa/manifest/` | the manifest file and its reopening after a crash |
| `CarFile` | `carreader/`, `cmd-merge-cars.go`, `cmd-car-split.go` | sections, cut files, merging, the root of a remote piece |
| `SplitCar` | `cmd-car-split.go`, `split-car-fetcher/fetcher.go` | splitting into pieces and reading them as one file |
| `IndexTools` | `cmd-x-index-all.go`, `index-*.go`, `cmd-x-index-*.go`, `car-dag-traverser.go`, `readers.go` | the index tools, their concurrent sealing and verification |
| `TxStatusMeta`, `MetaLatest`, `MetaOldest`, `Bincode` | `solana-tx-meta-parsers/`, `parse_legacy_transaction_status_meta/`, `err.go` | the three formats of transaction metadata |
| `SolanaErrors` | `solana-errors/` | transaction errors: names, JSON and binary form |
| `Nodes`, `NodeCodec` | `ipld/ipldbindcode/`, `iplddecoders/`, `tooling/`, `accum/tx.go`, `storage.go` | hand-written decoders against the schema, data frames, hashes, signatures |
| `RustNodes` | `geyser-plugin-runner/src/*.rs` | the Rust decoders of the same nodes |
| `RpcDispatch` | `multiepoch.go`, `api.go`, `multiepoch-get*.go`, `request-response.go` | the HTTP front, its fallback server, the short methods |
| `EpochOpen` | `epoch.go`, `config.go`, `cmd-rpc.go`, `storage.go` | Validate and NewEpochFromConfig, stage by stage |
| `GetBlock` | `multiepoch-getBlock.go`, `grpc-server.go`, `epoch.go`, `huge-cache/cache.go` | getBlock with prefetch and the shared cache, over both interfaces |
| `SignaturesForAddress` | `multiepoch-getSignaturesForAddress.go`, `gsfa/gsfa-read-multiepoch.go` | the request and a client that pages |
| `GrpcStreams` | `grpc-server.go`, `vote.go`, `gsfa/gsfa-read*.go` | StreamBlocks, StreamTransactions, Get |
| `Accumulator` | `accum/block.go` | Run, its queue and the flusher |
| `SigExistsTool` | `cmd-x-index-sig-exists.go` | the worker pool of `index sig-exists` |
| `GeyserRunner` | `geyser-plugin-runner/src/main.rs`, `node.rs` | the replay of a CAR file into a plugin |

### RangeCache

`cache`, `closed` and `occupied` are the fields of `RangeCache`; `pc`, `req` and
`out` are what each goroutine in `ReadAt` is doing. A miss releases the read lock
and takes the write lock without looking again (`LookupMiss`, `StartFetch`), and
the fetch runs under the write lock. remoteReadAt looks at no status and only counts
bytes, so `Fetched` takes whatever the server sends; `wrong` keeps the ranges for
which that was not the file's content. `SetRange` covers every order in which Go may
walk the map. Its early return on a cancelled context is left out: no caller passes
a context that can end. The mutex is not a variable: the holder of the write lock is
the goroutine in "fetch". A value is the bytes themselves, so a wrong cut of a cached
superset is visible. Ages are abstracted: `DeleteOldEntries` may drop any entries.

### MultiEpoch and EpochRegistry

`epochs`, `closed` and the variables of the clients are shared by both modules;
`MultiEpoch` adds the RWMutex (`rlocks`, `writer`): a writer first announces
itself, which blocks new read locks, then waits for the old ones. `OuterRLock`,
`GetEpochNumbers` and `ReadNumber` are the nested read locks of
GetMostRecentAvailableEpoch and GetOldestAvailableEpoch. `CloseDisplaced` and
`UpdateMap` are the close and the map update of a replacement or removal.
`Displaced` is the refinement mapping: a handle that the lock holder has closed
but not yet unlinked counts as open. `RemoveEpoch` and `ReplaceEpoch` have no
caller and are left out.

### ConfigWatcher

`disk` is what the config files contain; a content has the epoch it names, the
edit that wrote it and what comes of loading it. An edit puts events into
`queue`; `Dispatch` hands the first one to a goroutine if the limit allows. A
goroutine goes through `Track` (fileProcessingTracker), `Check` (same hash?),
`Parse` and `Hash` (LoadConfig reads the file twice), `Build`
(NewEpochFromConfig), `Install` or `Remove`, `SetMetric` and `Untrack`. The
startup load runs beside it, as in the code. `discipline` names three kinds of
users: one that edits at any time, one that waits for the startup load, and a
*calm* one that waits until the file's earlier edits are processed, writes
files in place, and adds and removes them.

### FirstSuccess and GetTransaction

`FirstSuccess` has the loop that starts goroutines under errgroup's limit
(`Start`), the goroutine (`Begin`, `Finish`, `Send`, `Discard`), the one that
waits and closes the channel (`CloseResults`) and the receiving loop (`Receive`,
`ReceiveClosed`). `GetTransaction` extends it: the functions are the loaded
epochs, what a function returns is decided by `Probe` (sig-exists index),
`GetEpoch` and `Find` (sig-to-cid index), and the handler goes on with
`GetFound`, `ReadTransaction`, `BlockTime` and `Decode`. `InstallEpoch` and
`RemoveEpoch` change the registry in between and close handles; closing all the
files of a handle is one step. `inBucket` and `inIndex` contain `holders`: both
indexes store short hashes and may find a signature that the epoch does not
hold. Whether a failed request is proxied is a free choice in `Fail`.

### GsfaWriter

`accum`, `rank` and `offsets` are the fields of the writer, `chan` its channel,
`tmpBuf` and `held` the state of the goroutine. The 256 empty entries with which
tmpBuf starts are left out, save for their effect: the all-zero key counts as
waiting (`Waits`). `log` is the linked log: a record has its values, newest
first, and the number of the key's previous record, which stands for its offset
and size. `Push` may or may not go through the collected keys (the code does so
at slots divisible by 500 when over 100,000 keys are collected), and every key
of that pass, of the transaction and of Close is a step of its own. A write may
fail: `PutFails`.

### The files of an epoch (MCArchive)

Each module has the writer (`writer`), the file (`file`) and where the writer is
(`pc`); a crash leaves the file as it is. The readers are operators on the file,
and the properties compare what they return with what was given to the writer.

- `CompactIndex`: a hash domain is represented by the hashes it gives to the keys
  of a bucket, so every hash function is covered. `Seal` writes the header, then
  per bucket mines a domain, appends the entries and fills in the table.
- `BlockTimeIndex`, `TypedIndex`, `LinkedLog` and `Manifest` are put side by side in
  `IndexFiles`, which `MCArchive` extends: what is proved about them is proved there.
  Their bounds (sets of a time, puts, seals, records, crashes) are constants.
- `LinkedLog`, `CarFile`, `IndexMeta`, `Manifest` and `Bincode` keep the lengths
  and the bytes, because their properties are about them; the base of the varints
  and the width of a byte are scaled down where that changes nothing else
  (`LinkedLog` keeps 128).
- `IndexTools`: an index is a function; the five goroutines of `index all` are
  separate up to the variable `err` that four of them share.
- `Nodes` and `RustNodes` decode the same CBOR arrays as the schema in
  `NodeCodec`; `NodeCodec` also has the CAR creator (another program, modelled
  after the nodes that `ledger.ipldsch` describes) so that the nodes that
  are decoded are nodes a CAR file can contain.

### The servers and walks (MCServing)

- `RpcDispatch`: one request, or one lookup of `api.go`, while epochs are added,
  replaced and removed; a handle is an epoch, a version of it and a serial number, so
  a handle that was closed is told from its successor. Any read may fail.
- `SignaturesForAddress`: a request keeps the gsfa readers of the handles it found at
  its start; each transaction is read from the handle its epoch has at that moment, at
  the offset the old index gave (`Fetch`). The loop over the map of epochs that fills
  the reply is a step per epoch, in any order (`FillGroup`).
- `EpochOpen` starts from a configuration and the files it names: six sound ones,
  and each of them with one thing changed. A stage opens a file, checks it and
  goes on, or fails.
- `GetBlock`: `server` has the version of the epoch that is loaded and the caches,
  `request` what one request has read. Entries and transactions are fetched in any
  order. The two caches outlive a reload, as in the code. A prefetch is the set of nodes
  whose bytes it reads.
- `GrpcStreams`: slots have four bits, so the wrap-around of slot numbers and of
  the number of epochs is part of the model, and the longest slice is shorter than
  the number of epochs, as it is in Go. The checks of filterOutTxn are taken in their
  order, because some of them panic.
- `Accumulator`, `SigExistsTool`, put side by side in `Walks`: channels, wait groups
  and goroutines are explicit. `Accumulator` may be cancelled at any time, and its callback may
  return ErrStop or another error. No caller of the repository uses the first two.
- `GeyserRunner` is sequential; its state is the batch of nodes and what was sent to
  the plugin. Roots go through a channel to another thread, so the plugin may see them
  later than they are sent.

## Runs

All instances are small enough to be searched completely. Some properties are
conjunctions; the modules define the parts one by one.

| run | instance | result |
|---|---|---|
| `range_cache` | file of 3 bytes, 2 readers, 7 reads, 1 wrong answer | 5 properties hold |
| `multi_epoch` | 2 epochs, 3 handles of one config file, 1 request, 2 updaters | 4 hold |
| `multi_epoch_nested` | the same with 1 updater | `UpdatesComplete` fails |
| `watch` | 2 files, 2 goroutines, 2 edits | 3 hold |
| `watch_drop` | 2 files, 2 goroutines, 2 writes | `Reloaded` fails |
| `get_transaction` | 2 epochs, concurrency 1, 1 reload, 1 failed read, cancellation | 6 hold |
| `get_transaction_reload` | the same without failures | `NotFoundSearched` fails |
| `gsfa` | 2 keys, batches of 2, channel of 1, 5 transactions, 1 failed write | 3 hold |
| `gsfa_loss` | the same without failures | `AllListed` fails |
| `archive` | the files of an epoch, `MCArchive` | 10 hold |
| `linked_log_record` | the same | `EveryRecordReadable` fails |
| `serving` | the servers and walks, `MCServing` | 9 hold |

**range_cache.** Cached ranges form an antichain; the bytes that a read returns are
the file's, and a wrong answer of the server spoils the offsets it was asked for and
no others, however ranges are cut, replaced and fetched twice (`ReadsExact`); the
counter of occupied space is exact (it is unsigned and would wrap); storing a range
never turns a hit into a miss, and the fetch that getRange repeats without looking
again changes nothing (`StoringHarmless`); every read returns. The reads nest,
overlap and touch, one is empty, one goes past the end and one begins there; two
readers race to every pair of them. No two neighbouring bytes are equal, so a shift
by one is visible.

**multi_epoch.** The locked registry implements the atomic one; a handle read
from the map is open; goroutines only block for good by the nested read lock; up
to that, requests and updates return (`CallsReturn`). Two versions of one epoch and a third that
changes its number cover replacement, removal and the epoch change of a file.

**multi_epoch_nested.** A request holds the outer read lock of
GetOldestAvailableEpoch, an update announces itself, and the inner read lock
waits for it: a reload that never happens, and every later request waits too.

**watch.** A loaded epoch never goes back to an older content of its file; after
calm edits, what is on disk is what is served, and the gauge agrees
(`CalmFollowed`; the gauge of epoch 0 is left out, see below); every event is processed
in the end. Two edits
suffice for an edit that overtakes another.

**watch_drop.** The second write of a file comes after the goroutine of the
first has read the file and before it is done: its event is dropped and the
epoch stays stale. Also out of step with the flag's description, though not in a
run of its own: moving a file over an old one gives a Create event, which
AddEpoch refuses; a renamed file keeps its old path in the registry; the removal
of a file without an epoch resets the gauge of epoch 0. A file without an epoch
number ends the server, because the watch path does not validate; that is part of
`EpochOpenExact` in the run `serving`.

**get_transaction.** No success of the search is lost, the search is a correct use of FirstSuccess, a result comes from an epoch
whose indexes have the signature, a signature that is held is served as long as
nothing is reloaded and nothing fails, a request that is done was answered
unless reading failed (a failed read of a block time ends the request without a
reply), and the request and its goroutines end (`SearchEnds`). With concurrency 1 the start loop
blocks on the limit, which two epochs suffice to show.

**get_transaction_reload.** A reload closes the handle between GetEpoch and
FindCidFromSignature; the error counts as "not in this epoch", and a transaction
that was available all along is answered with null.

**gsfa.** Until Close, the index, the goroutine, the channel and the collected
transactions of a key are, one after the other, what was pushed (`InOrder`). No
transaction is ever listed twice or under a wrong key, a key that never filled a
batch is complete and in order, and a sealed index lacks either nothing of a key
or one batch (`SealedListing`). Push and Close return (`CallsReturn`). With five transactions and batches of two a
key fills two batches and has one transaction left. `RankListSize` is 1, so keys
also fall out of the ranking; `InOrder` is stated up to then.

**gsfa_loss.** The goroutine keeps a batch until the key's next one comes, and
leaves at Close without writing what it keeps. Every key that ever filled a batch
loses its last one. A related effect is visible in the same model: Close flushes
the collected transactions before the batches still in the channel, so the
records of such a key are linked out of order, against `gsfa/gsfa-read.go:110`
("Start from the latest, and go back in time.").

**linked_log_record.** Put writes the varint of the payload's length; the reader
skips a varint of the whole record's length. At 127 and at 16382 and 16383 bytes
the two have different sizes, and the record and all older ones of its key cannot
be read. `ChainsReadable`, in the run `archive`, says that this is the only reason
for which a chain ends early.

**archive.** One invariant per component, each a conjunction of what its module
states (in brackets the instance and why it is large enough):

- `CompactIndexExact`: at every moment, crashes included, a lookup gives only
  values inserted under the key's hash; a sealed index gives them all; a key
  inserted twice is refused; Load returns each entry once. [3 keys, 4 hashes, builders
  on both sides of every size limit: full, empty and colliding buckets]
- `SigExistsExact`, `BlockTimesExact`: what was put is found; a draft is refused; a
  cut file of block times is wrong about the last slot at most. [6 signatures of
  which two collide; an epoch of 3 slots]
- `TypedIndexExact`: an index opens as its own kind only, with its writer's
  metadata, and finds what was put, save under the zero signature, which Put takes
  and Get refuses.
- `GsfaFilesExact`: chains of the log (see above); a manifest that opens after a
  crash has the pairs of all Puts that returned.
- `CarFileExact`: offsets add up; all complete sections of a cut file are found, and a
  cut within the length, the digest or the data is an error; the root of a remote
  piece is found when its length takes two bytes, and never mistaken.
- `SplitCarExact`: every block in one piece, within the size limit, in an order that
  sorts back; reads of the pieces are reads of the original, shorter without an error
  only where a piece lost its end. [files of up to 7 DAGs and other objects, with
  rollover by size and by links]
- `IndexToolsExact`: `index all` succeeds only with exact block times, and with exact
  indexes if no seal failed; the verification accepts exact indexes only; the
  single-purpose tools build the same indexes; the iterator never returns another
  node. [nine CAR files: sound, duplicated, undecodable, torn, without epoch, with two
  roots]
- `MetadataExact`: metadata of each format parses back; a cut one passes at most
  for the oldest format; errors with parameters, and all of the bincode formats, are
  shown as they were; no failed transaction has a nil error.
  [every variant of every error in both bincode formats]
- `NodesExact`: hand-written and Rust decoders against the schema, the hand-written
  ones for frames without embedded links and negative hashes; data with a checksum is
  loaded whole or not at all; a block's transactions are all parsed or none is.
  [transactions and metadata cut into frames of 1, 3 and 20 bytes, no two contents
  with the same checksum]

**serving.**

- `HttpExact`: one reply per request, also with the fallback server; null only for
  what was not found; lookups and block times right for the epochs loaded throughout,
  and a 500 only after a failed read or a change of the registry; getFirstAvailableBlock
  and getSlot are the ends of what is served. With a fallback server getVersion is asked
  there and enriched. [3 epochs, one in two versions, 2 changes during the request]
- `EpochOpenExact`: a failed open leaves open exactly what was opened before; the
  indexes of an open epoch agree on epoch and root. The root of the CAR file itself
  is never compared. A `file://` URI passes Validate and never opens.
- `BlockExact`: an answer is one version's block, whole, with the parent's hash; a
  slot is called skipped only if it has no block, or if the shared cache keeps
  another version's CID for it; a prefetch reads no more than its bound and does not
  go beyond the block; only a transaction that cannot be read and a commission that is
  no number end the process. [two versions of an epoch of 4 slots with a block in front
  of its parent, 2 requests, a reload and a removal in between]
- `SignaturesExact`: pages against the history cut by definition, while epochs are
  removed, and replaced before or after; the reply has all of a page, although it is
  filled epoch by epoch in any order; and paging misses nothing, whatever that order.
  Nothing is said of the order of the epochs in a reply, nor of a page one of whose
  epochs is replaced while it is made, except that its signatures are of that epoch.
  [5 epochs, one in two versions, 1 change]
- `StreamsExact`: the blocks and the transactions of the range in order; with accounts
  to include, each transaction once per account, from its newest; Get answers in
  order; which filters and ranges panic. Nothing is said of which transactions pass the
  filter. [slots of 4 bits]
- `SealsEverySignature`, `GeyserExact`, `AccumulatorExact`: nothing is lost between
  goroutines, and in what order it arrives.
- `EverythingEnds`: paging, streams, `index sig-exists` and the accumulator end.
  Excluded are what the code does not end: a range up to 2^64 - 1, whose loop wraps
  around, and an accumulator that was cancelled or stopped, whose wait group keeps
  groups that nobody flushes.

### Where the code and its comments differ

Found while modelling, beside the five runs that fail. The modules have the code's
behaviour; the properties leave these cases out, so that none of them states as right
what a comment, a test or a schema says otherwise.

| code | what it does | what is said of it |
|---|---|---|
| `compactindexsized/build.go:56` | value sizes of 253 to 255 pass; the stride, three more, is computed in eight bits (`:227`) | `:38` "must be > 0 and <= 256" |
| `gsfa/linkedlog/linked-log.go:113` | `Read` passes on the payload's length where the record's is expected, so the end of the payload is cut off; it has no caller | "Read reads the block stored at the given offset." |
| `carreader/reader.go` | the end of the file between the length, the CID and the data of a section is a clean EOF | `:165` "don't silently pretend this is a clean EOF" |
| `cmd-merge-cars.go:38` | the buffered writer is never flushed | writes the merged file |
| `cmd-car-split.go:267` | a piece may have `maxLinks` + 1 links | `:53` a maximum |
| `split-car-fetcher/fetcher.go:152` | the expected size leaves out the subset node, so pieces of `split-car` are refused as local files; the server wraps its readers, so that their sizes are not compared at all | the pieces of `split-car` can be served |
| `cmd-x-index-all.go:362` | goroutines that seal share `err` | a failed seal is reported |
| `solana-errors/` and `err.go` | for protobuf metadata getErr is never nil, and errors without parameters are shown as null | `grpc-server.go:745` "we should filter out failed transactions" |
| `ipld/ipldbindcode/cbor.go` | frames inside a transaction lose their links, and a hash with its top bit set panics | `ledger.ipldsch:90`, `iplddecoders/decoders_test.go:504` |
| `multiepoch-getTransaction.go:79` | a failed read in the search is "not found", so the lookup of `api.go` gives 404 | 500 for an internal error |
| `grpc-server.go:803` | a transaction is sent when filterOutTxn returns false | `:741`, `:745`, `:761`, `:773` |
| `grpc-server.go:682` | blockContainsAccounts decodes Solana transactions as nodes, so a filter on accounts lets no block through | "Filter blocks/txns mentioning these accounts" (`old-faithful.proto:105`) |
| `multiepoch-getSignaturesForAddress.go:198` | epochs of a reply in the order of a Go map | `:95` "from most recent to oldest" |
| `multiepoch-getSignaturesForAddress.go:158` | offsets of an old index are read from the CAR file of the epoch that replaced it; no CID is compared | `epoch.go:785` "verify that the CID we read matches the one we expected." |
| `cmd-rpc.go:314` | the removal of a file without an epoch sets the gauge of epoch 0 to 0 | "Epochs available" (`metrics/`) |

### Fairness

Weak fairness of the goroutines' steps stands for the Go scheduler. Strong
fairness is used for taking the RWMutex (`RangeCache`, `MultiEpoch`): Go's lets
waiting readers in when a writer unlocks and blocks new readers while a writer
waits, so neither starves. Steps of the environment (edits, new reads, reloads,
failures, cancellation, Close of the cache) are not fair. In `GsfaWriter` the
command that pushes is fair as a whole: it pushes finitely often and then calls
Close. In `MCServing` the steps of the goroutines (of the client, for paging) are
weakly fair together; cancellation, failures and changes of the registry are not.

Deadlock is checked in `range_cache`. In the other runs the system may stop: the
edits, updates or transactions of the instance are used up and the request, the
command or the file is done. Their liveness properties say that it does not stop early, and
`StuckOnlyNested` says so for the lock of `MultiEpoch`.

## Proofs

TLAPS checks all of these, for any sets and bounds that satisfy the ASSUMEs of
the modules.

- `RangeCacheProofs`: `TypeCorrect`, `CacheIsAntichain`, `CacheIsFaithful`,
  `ReadsAreExact`, `StoringKeepsHits`, `RefetchIsHarmless`, `StoringIsHarmless`. The
  server may send any bytes. The invariant adds that every cached value differs from the
  file only where the server answered a request for that offset wrongly, and that ranges past the checks are valid, so the cut of a superset stays
  inside it. `CounterIsExact` counts the bytes of the cached ranges: a total is the
  cardinality of a set of pairs, so dropping and adding a range needs no induction;
  a range that is already cached makes setRange return early and is not counted
  twice.
- `MultiEpochProofs`: `RegistryInvariant`, `TypeCorrect`, `MappedStaysOpen`,
  `Refinement`, `StuckByNesting`. The invariant has four parts beside the types: the writer
  excludes readers (`LockInv`); the number a getter found under the inner lock is
  still right, because it holds the outer one (`ReadInv`); a handle about to be
  installed is new, so closing the old one never closes it (`FreshInv`); and what
  an updater knows between close and map update (`DisplaceInv`). Refinement needs
  them all: each concrete step maps to one abstract step or to none.
  `StuckByNesting`: without a writer everyone can go on; a writer can go on, or
  waits for a getter that can, or for one at its second read lock.
- `ConfigWatcherProofs`: `WatcherInvariant`, `TypeCorrect`, `OnePerFile`,
  `NeverRegresses`, `CalmIsFollowed`. Contents are ordered by the edit that put them into the file.
  `NewerInv` says that what is on disk is no older than what a goroutine has
  parsed, which is no older than what is loaded from that file; it needs that
  the tracker lets only one goroutine at a file. `CalmIsFollowed` is about edits
  that wait for the watcher to be done with the file. It assumes that each file
  names one epoch, which no other file names (`OwnEpochs`): two files of one epoch
  displace each other, and a file that changes its epoch leaves the old one behind.
  `Calmly` follows a file from startup: at most one event of it is under way
  (`OneEventPerFile`), the event is the one its last edit calls for (`Due`), a
  goroutine has read no other content than the one on disk (`Stage`), and when
  nothing is under way the epoch and the gauge follow the file (`Followed`).
- `GetTransactionProofs`, first about `FirstSuccess`: `SearchInvariant`,
  `ErrorsComplete`, `SendersFree`. `FlowInv` follows each result: with its goroutine, in the channel, received, or
  dropped because the context ended. `RoomInv` bounds the channel by the ended
  goroutines, so a goroutine that sends finds room.
- Then about `GetTransaction`: `Refinement`, `SearchComplete`, `RequestInvariant`,
  `TypeCorrect`, `ResultsVerified`, `AlwaysAnswered`, `HeldServed`. Every step is a
  step of FirstSuccess or leaves it alone, so its invariant carries over; `FoundInv`
  adds that a function only returns its own epoch, after the bucket had the
  signature. `ServeInv` follows a held signature while nothing is reloaded and
  nothing fails: its epoch is searched by some function, no function has reported
  an error that ends the request, and what was found is an epoch that is loaded.
- `GsfaWriterProofs`: `Invariance`, `KeptInOrder`, `SealedIsListed`. What there is of
  a key (`Everywhere`) is a concatenation: what a reader finds in the log, the batch
  kept back, the one in the flusher's hands, those in the channel, the accumulator.
  While nothing is lost it is what was pushed, except for a popular key while Close
  flushes (`Order`); no transaction is there twice (`ListedOnce`); and none is
  missing unless a write failed (`Complete`). A step moves a batch from one part to
  the next, which keeps the concatenation because at most one batch of a key is kept
  back (`OneWaits`) and a key without a full batch has none on its way
  (`NoneOnTheWay`).
- `WalksProofs`: `AccumulatorIsExact`, `AlwaysSealsEverySignature`. For the
  accumulator the invariant lays out the file as one sequence of groups: delivered,
  in the flusher's hands, queued, being collected; and ties the wait group's counter
  to the middle ones. For `index sig-exists` it says that what was read is in the
  input channel, with a worker, in the output channel, with the receiving goroutine
  or in the index (`SigKept`), and that the two wait groups count what is on its way
  (`SigCounts`): both at zero leave only the index.
- `IndexFilesProofs`: `IndexFilesInvariant`, `BlockTimes`, `GsfaFiles`, about three of
  the files of `IndexFiles`.
  - Block times: the array has the time that was set last of every slot
    (`TimesKept`), and the file is the array up to the bytes that are missing at its
    end (`TimesWritten`). A value whose bytes are all there is read back because
    WriteTo refused those that do not fit; the arithmetic is that the values lie one
    after the other, so that a file FromBytes accepts lacks bytes of the last one only.
  - Manifest: the content is the pairs that were put, byte by byte (`Whole`),
    whenever its length is a multiple of a pair's. A crash in Put leaves part of a
    pair, which the next open refuses by its length.
  - Linked log: the records lie end to end (`Linked`), and the place kept for an
    account, in the writer or in a record, is that of an older record of the account
    or none (`Points`). `WalkIsOwn` follows the chain by induction: every record
    read is the account's own, until a record whose length the reader misjudges.
- `TypedIndexProofs`: `TypedIndexes`, about the fourth. The metadata of a file start
  with the root, the network and the kind of its writer (`MetaGood`), whatever Seal and
  SetDefaultMetadata are called with and how often; a sealed file has exactly the puts, with
  no key twice; only a writer that was closed after its seal is without its
  temporary files.

Induction over data. The induction theorems of the library take an operator, which
the provers cannot instantiate. `GsfaWriterProofs` and `IndexFilesProofs` state
induction for a set instead (`SetInduction`, from the least element of a set of
naturals, `LeastNat`), and use it to show that the recursive functions of the model
exist (the walks along the linked log, the concatenation of batches) and what they
return.

The assumptions are mild: epoch numbers are naturals, the functions of a search
are finite in number, the special values differ from ordinary ones, and a
non-empty set of epochs has a largest and a smallest one (`ExtremaAssumption`;
a Go map is finite), and a CAR file is a sequence of nodes whose sections follow
one another. In `IndexFiles`, epochs, pairs, headers and values are not empty, offsets
and sizes are naturals, no root is the answer "not found", and a record of the
linked log is short enough for the three bytes that a place has for its size
(`LinkedLogAssumption`; `indexes/uints.go` panics on a larger one).

`USE SMTT(60), ZenonT(60), SMTT(90)` at the top of a module of proofs tries a leaf
that names no prover with SMT, then with Zenon, then once more with SMT (tlapm gives
up a large obligation after five seconds of translation, so a busy machine may need
the second try); a leaf without arithmetic names Zenon.

Only model-checked: all liveness properties (fairness and ENABLED are outside the
prover's reach), and the components of `MCArchive` and `MCServing` other than those
of `Walks` and `IndexFiles`. Their properties are about data that RECURSIVE operators
compute (`Bincode`, `NodeCodec`, `RustNodes`), about sorting, trees and folds
(`CompactIndex`, `Bucketteer`, `CarFile`, `SplitCar`), or about the steps of one
request over small sets that TLC covers (`RpcDispatch`, `EpochOpen`, `GetBlock`,
`SignaturesForAddress`, `GrpcStreams`, `GeyserRunner`, `IndexTools`).

## Not modelled

- Generated code: protobuf, and `ipld/ipldsch` (11388 lines), which has no caller.
- Commands whose only state is what they print or download, flags, logging,
  metrics other than the EpochsAvailable gauge, file names and progress.
- `readasonecar/` and `readahead/` (joining and buffering streams),
  `cmd-rpc-server-*.go` (start the modelled server with one epoch), the genesis
  archive, the Rust library `txstatus` (instructions for display).
- Remote services: Lassie, Filecoin miners and their deals, HTTP servers. Their
  answers are free choices where a modelled part calls them.
- `RemoveEpoch` and `ReplaceEpoch` of the registry, which have no caller.

`PROJECT.json` has the reasons part by part, and under `hazards` a note on those that no
property covers.
