----------------------------- MODULE TypedIndex -----------------------------
(***************************************************************************)
(* indexes/: the four indexes of an epoch as wrappers around compactindex.  *)
(* A writer has a kind and metadata that go into the header of the file; a  *)
(* reader of a kind checks them.  Old files have no metadata: they are told *)
(* apart by their magic only.                                               *)
(***************************************************************************)
EXTENDS Integers, Sequences, FiniteSets

CONSTANTS Networks,      \* names of networks, valid or not
          Roots,         \* CIDs, of roots and of objects; Undef is one
          Sigs,          \* signatures, Zero among them, and other keys
          Offsets, Sizes,        \* of the objects put
          MaxOffset, MaxSize,    \* MaxUint48, MaxUint24
          MaxPuts, MaxSeals      \* bounds on the calls

VARIABLES pc,      \* start, refused, open, sealing, sealed, failed, panic, closed
          writer,
          file

CidToOffsetAndSize == "cid-to-offset-and-size"
SlotToCid == "slot-to-cid"
SigToCid == "sig-to-cid"
PubkeyToOffsetAndSize == "pubkey-to-offset-and-size"
Kinds == {CidToOffsetAndSize, SlotToCid, SigToCid, PubkeyToOffsetAndSize}

Undef == "undef"
Zero == "zero"
NoFile == [magic |-> "none"]
NoWriter == [kind |-> "none"]
NotFound == "not found"

Valid == {"mainnet", "testnet", "devnet"}
IsValidNetwork(network) == network \in Valid

Init ==
    /\ pc = "start"
    /\ writer = NoWriter
    /\ file = NoFile
-----------------------------------------------------------------------------
(* Metadata.                                                                *)

\* setDefaultMetadata adds, and does not replace.
SetDefaultMetadata(meta, w) ==
    meta \o <<[key |-> "rootCid", value |-> w.root], [key |-> "network", value |-> w.network],
              [key |-> "kind", value |-> w.kind]>>

Value(meta, key) ==
    LET at == {i \in DOMAIN meta : meta[i].key = key}
    IN  IF at = {} THEN NotFound ELSE meta[CHOOSE i \in at : \A j \in at : i <= j].value

\* getDefaultMetadata: the first value of each key.
GetDefaultMetadata(meta) ==
    [kind |-> Value(meta, "kind"), root |-> Value(meta, "rootCid"), network |-> Value(meta, "network")]
-----------------------------------------------------------------------------
(* Writers.                                                                 *)

New(kind, meta, root, network) ==
    /\ pc = "start"
    /\ IF ~IsValidNetwork(network) \/ root = Undef
       THEN pc' = "refused" /\ UNCHANGED writer
       ELSE /\ pc' = "open"
            /\ writer' = [kind |-> kind, root |-> root, network |-> network, meta |-> meta,
                          puts |-> <<>>, seals |-> 0, temp |-> TRUE, flushed |-> FALSE]
    /\ UNCHANGED file

NewWithMetadata(kind, r, n) ==
    New(kind, SetDefaultMetadata(<<>>, [kind |-> kind, root |-> r, network |-> n]), r, n)

NewWriter_CidToOffsetAndSize(r, n) == NewWithMetadata(CidToOffsetAndSize, r, n)
NewWriter_SlotToCid(r, n) == NewWithMetadata(SlotToCid, r, n)
NewWriter_PubkeyToOffsetAndSize(r, n) == NewWithMetadata(PubkeyToOffsetAndSize, r, n)

\* This one sets its metadata in Seal.
NewWriter_SigToCid(r, n) == New(SigToCid, <<>>, r, n)

Calling(kind) ==
    /\ writer.kind = kind
    /\ pc \in {"open", "sealed", "failed"}
    /\ Len(writer.puts) < MaxPuts
    /\ UNCHANGED file

\* An error is returned, and nothing changes.
Refuse == UNCHANGED <<pc, writer>>

Panic == pc' = "panic" /\ UNCHANGED writer

\* The builder's Insert. The writers of the buckets a Seal has flushed are
\* gone: all of them once it is complete, some of them when it has failed.
Insert(key, value) ==
    \/ writer.flushed /\ Panic
    \/ /\ pc # "sealed"
       /\ writer' = [writer EXCEPT !.puts = Append(@, [key |-> key, value |-> value])]
       /\ UNCHANGED pc

\* Uint48tob and Uint24tob panic out of their range.
InsertPacked(key, offset, size) ==
    IF offset > MaxOffset \/ size > MaxSize THEN Panic ELSE Insert(key, <<offset, size>>)

Put_CidToOffsetAndSize(cid, offset, size) ==
    /\ Calling(CidToOffsetAndSize)
    /\ IF cid = Undef \/ offset > MaxOffset \/ size > MaxSize THEN Refuse ELSE InsertPacked(cid, offset, size)

Put_PubkeyToOffsetAndSize(pk, offset, size) ==
    /\ Calling(PubkeyToOffsetAndSize)
    /\ IF offset > MaxOffset \/ size > MaxSize THEN Refuse ELSE InsertPacked(pk, offset, size)

Put_SlotToCid(slot, cid) ==
    /\ Calling(SlotToCid)
    /\ IF pc = "sealed" \/ cid = Undef THEN Refuse ELSE Insert(slot, cid)

Put_SigToCid(sig, cid) ==
    /\ Calling(SigToCid)
    /\ IF pc = "sealed" \/ cid = Undef THEN Refuse ELSE Insert(sig, cid)

\* A new file under the final name; the builder's Seal writes the header first.
SealInto(kind, meta) ==
    /\ writer.kind = kind
    /\ pc \in {"open", "failed"}
    /\ writer.seals < MaxSeals
    /\ file' = [magic |-> "compiszd", meta |-> meta, values |-> {}, complete |-> FALSE]
    /\ writer' = [writer EXCEPT !.meta = meta, !.seals = @ + 1]
    /\ pc' = IF writer.flushed THEN "panic" ELSE "sealing"

Seal_CidToOffsetAndSize == SealInto(CidToOffsetAndSize, writer.meta)
Seal_SlotToCid == SealInto(SlotToCid, writer.meta)
Seal_PubkeyToOffsetAndSize == SealInto(PubkeyToOffsetAndSize, writer.meta)

\* Mutant of Seal_SigToCid: no metadata.
SealWithoutMeta == SealInto(SigToCid, writer.meta)

Seal_SigToCid == writer.kind = SigToCid /\ SealInto(SigToCid, SetDefaultMetadata(writer.meta, writer))

Duplicates == \E i, j \in DOMAIN writer.puts : i # j /\ writer.puts[i].key = writer.puts[j].key

\* The builder's Seal is complete: never with a key twice.
SealCompletes ==
    /\ pc = "sealing"
    /\ ~Duplicates
    /\ pc' = "sealed"
    /\ file' = [file EXCEPT !.complete = TRUE, !.values = {writer.puts[i] : i \in DOMAIN writer.puts}]
    /\ writer' = [writer EXCEPT !.flushed = TRUE]

\* It returns an error, before or after the first bucket.
SealFails ==
    /\ pc = "sealing"
    /\ pc' = "failed"
    /\ \E begun \in BOOLEAN : writer' = [writer EXCEPT !.flushed = begun]
    /\ UNCHANGED file

\* Close removes the temporary files; a writer that is not sealed keeps them.
CloseSealed(kind) ==
    /\ writer.kind = kind
    /\ pc = "sealed"
    /\ pc' = "closed" /\ writer' = [writer EXCEPT !.temp = FALSE]
    /\ UNCHANGED file

Close_CidToOffsetAndSize == CloseSealed(CidToOffsetAndSize)
Close_SlotToCid == CloseSealed(SlotToCid)
Close_SigToCid == CloseSealed(SigToCid)
Close_PubkeyToOffsetAndSize == CloseSealed(PubkeyToOffsetAndSize)

\* A file of one of the old formats, which share their magic.
OldFile ==
    /\ pc = "start"
    /\ file' = [magic |-> "rdcecidx"]
    /\ pc' = "refused"
    /\ UNCHANGED writer

NewWriter ==
    \E r \in Roots, n \in Networks :
        \/ NewWriter_CidToOffsetAndSize(r, n) \/ NewWriter_SlotToCid(r, n)
        \/ NewWriter_PubkeyToOffsetAndSize(r, n) \/ NewWriter_SigToCid(r, n)

Put ==
    \/ \E cid \in Roots :
          \/ \E offset \in Offsets, size \in Sizes : Put_CidToOffsetAndSize(cid, offset, size)
          \/ \E key \in Sigs : Put_SlotToCid(key, cid) \/ Put_SigToCid(key, cid)
    \/ \E key \in Sigs, offset \in Offsets, size \in Sizes : Put_PubkeyToOffsetAndSize(key, offset, size)

Seal == Seal_CidToOffsetAndSize \/ Seal_SlotToCid \/ Seal_PubkeyToOffsetAndSize \/ Seal_SigToCid

Close == Close_CidToOffsetAndSize \/ Close_SlotToCid \/ Close_PubkeyToOffsetAndSize \/ Close_SigToCid

Next == NewWriter \/ Put \/ Seal \/ SealCompletes \/ SealFails \/ Close \/ OldFile
-----------------------------------------------------------------------------
(* Readers: which files they take, and what they find in them.              *)

IsOldMagic == file.magic = "rdcecidx"

AssertIndexKind(meta, kind) == meta.kind = kind

OpenNew(kind) ==
    /\ file.magic = "compiszd"
    /\ LET m == GetDefaultMetadata(file.meta)
       IN  /\ NotFound \notin {m.kind, m.root, m.network}
           /\ IsValidNetwork(m.network)
           /\ m.root # Undef
           /\ AssertIndexKind(m, kind)

Open_CidToOffsetAndSize == OpenNew(CidToOffsetAndSize)
Open_PubkeyToOffsetAndSize == OpenNew(PubkeyToOffsetAndSize)
Open_SigToCid == IsOldMagic \/ OpenNew(SigToCid)
Open_SlotToCid == IsOldMagic \/ OpenNew(SlotToCid)
Deprecated_Open_CidToOffset == IsOldMagic

Opens ==
    [k \in Kinds |-> CASE k = CidToOffsetAndSize -> Open_CidToOffsetAndSize
                       [] k = PubkeyToOffsetAndSize -> Open_PubkeyToOffsetAndSize
                       [] k = SigToCid -> Open_SigToCid
                       [] k = SlotToCid -> Open_SlotToCid]

\* The Lookup of compactindexsized.
Lookup(key) ==
    LET at == {v \in file.values : v.key = key}
    IN  IF at = {} THEN NotFound ELSE (CHOOSE v \in at : TRUE).value

Get_CidToOffsetAndSize(cid) == IF cid = Undef THEN NotFound ELSE Lookup(cid)
Get_PubkeyToOffsetAndSize(pk) == Lookup(pk)
Get_SlotToCid(slot) == Lookup(slot)
Get_SigToCid(sig) == IF sig = Zero THEN NotFound ELSE Lookup(sig)

Get(key) ==
    CASE writer.kind = CidToOffsetAndSize -> Get_CidToOffsetAndSize(key)
      [] writer.kind = PubkeyToOffsetAndSize -> Get_PubkeyToOffsetAndSize(key)
      [] writer.kind = SlotToCid -> Get_SlotToCid(key)
      [] writer.kind = SigToCid -> Get_SigToCid(key)
-----------------------------------------------------------------------------
(* Properties.                                                              *)

\* A file with a header, complete or not, is opened by the reader of the kind
\* of its writer and by no other, and shows that writer's metadata, even when
\* a Seal that failed is tried again (AssertIndexKind, getDefaultMetadata). A
\* file of an old format is taken by every reader of an old format.
KindChecked ==
    /\ file.magic = "compiszd" =>
           /\ \A k \in Kinds : Opens[k] <=> k = writer.kind
           /\ ~Deprecated_Open_CidToOffset
           /\ GetDefaultMetadata(file.meta) =
                  [kind |-> writer.kind, root |-> writer.root, network |-> writer.network]
    /\ IsOldMagic => {k \in Kinds : Opens[k]} = {SlotToCid, SigToCid} /\ Deprecated_Open_CidToOffset

\* Whatever a writer has taken is found in the sealed file, except under the
\* zero signature, which Put takes and Get refuses; and no Put panics over
\* the width of an offset or a size.
PutsAreFound ==
    /\ pc \in {"sealed", "closed"} =>
           \A i \in DOMAIN writer.puts :
               LET p == writer.puts[i]
               IN  Get(p.key) = IF writer.kind = SigToCid /\ p.key = Zero THEN NotFound ELSE p.value
    /\ pc = "panic" => writer.flushed

\* The temporary files are removed only after the index file is complete.
TempUntilSealed == writer.kind # "none" /\ ~writer.temp => file.magic = "compiszd" /\ file.complete

Spec == Init /\ [][Next]_<<pc, writer, file>>
=============================================================================
