----------------------------- MODULE EpochOpen -----------------------------
(***************************************************************************)
(* Opening an epoch from its configuration file: Config.Validate            *)
(* (config.go) and NewEpochFromConfig (epoch.go), stage by stage, with the  *)
(* files each stage opens and the checks between the files.                 *)
(*                                                                          *)
(* A URI is reduced to its kind: "zero", "path" (an absolute path), "file"  *)
(* (file://), "web", "cid", "ipfs" or "filecoin".  A file is its URI and,   *)
(* for an index, the epoch and the root CID it was built for, whether it    *)
(* has the old format without them, and whether it can be parsed.           *)
(***************************************************************************)
EXTENDS Integers, Sequences, FiniteSets

CONSTANTS Configs

VARIABLES pc, epoch, config

vars == <<pc, epoch, config>>

Undef == "undef"

\* open: the handles that are open; onClose: those that Close will close;
\* seen: the root CID that was met last; opened: every handle opened so far.
NoEpoch == [open |-> {}, onClose |-> {}, opened |-> {}, seen |-> Undef]

-----------------------------------------------------------------------------
(* config.go                                                                *)

IsZero(u) == u = "zero"

IsLocal(u) == u \in {"file", "path"}

IsRemoteWeb(u) == u = "web"

IsCID(u) == u = "cid"

\* The prefixes of 6 and 10 characters are compared with "ipfs://" and
\* "filecoin://", which have 7 and 11.
IsIPFS(u) == FALSE
IsFilecoin(u) == FALSE

IsValid(u) == ~IsZero(u) /\ (IsLocal(u) \/ IsRemoteWeb(u) \/ IsCID(u) \/ IsIPFS(u) \/ IsFilecoin(u))

IsSupportedURI(u) == IsLocal(u) \/ IsRemoteWeb(u)

IsDeprecatedIndexes(c) == IsZero(c.cid.uri) /\ ~IsZero(c.oldcid.uri)

IsFilecoinMode(c) == c.filecoin.set /\ c.filecoin.enable

IsCarFromPieces(c) ==
    c.car.set /\ c.car.pieces /\ ~IsZero(c.car.metadata)
    /\ (~IsZero(c.car.deals) \/ c.car.urls # {})

ValidCar(c) ==
    /\ c.car.set
    /\ ~IsZero(c.car.uri) \/ c.car.pieces
    /\ ~IsZero(c.car.uri) => IsSupportedURI(c.car.uri) /\ ~c.car.pieces
    /\ c.car.pieces =>
          /\ ~IsZero(c.car.metadata) /\ IsLocal(c.car.metadata)
          /\ IsZero(c.car.deals) # (c.car.urls = {})
          /\ IsZero(c.car.deals) \/ IsLocal(c.car.deals)
          /\ \A u \in c.car.urls : IsRemoteWeb(u)
    /\ IsZero(c.cid.uri) # IsZero(c.oldcid.uri)
    /\ IsZero(c.cid.uri) \/ IsSupportedURI(c.cid.uri)
    /\ IsZero(c.oldcid.uri) \/ IsSupportedURI(c.oldcid.uri)

ValidFilecoin(c) == c.filecoin.root # Undef /\ c.filecoin.providers

ValidIndexes(c) ==
    \A f \in {c.slot, c.sig, c.exists, c.time} : ~IsZero(f.uri) /\ IsSupportedURI(f.uri)

ValidURIs(c) ==
    /\ ~IsFilecoinMode(c) =>
          /\ \A f \in {c.cid, c.oldcid} : IsZero(f.uri) \/ IsValid(f.uri)
          /\ IF c.car.pieces THEN IsValid(c.car.metadata) /\ (IsZero(c.car.deals) \/ IsValid(c.car.deals))
             ELSE IsValid(c.car.uri)
    /\ \A f \in {c.slot, c.sig, c.exists, c.time} : IsValid(f.uri)
    /\ IsZero(c.gsfa.uri) \/ (IsValid(c.gsfa.uri) /\ IsLocal(c.gsfa.uri))
    /\ c.epoch = <<0>> => IsValid(c.genesis) /\ IsLocal(c.genesis)

Validate(c) ==
    /\ c.epoch # <<>> /\ c.version = 1
    /\ IF IsFilecoinMode(c) THEN ValidFilecoin(c) ELSE ValidCar(c)
    /\ ValidIndexes(c)
    /\ ValidURIs(c)

\* ConfigSlice.Validate; twin: another file of the command line has this epoch.
ValidateSlice(c) == Validate(c) /\ ~c.twin
-----------------------------------------------------------------------------
(* epoch.go                                                                 *)

\* via: "boot" for a file of the command line, "watch" for one that was
\* written or created later.
Init ==
    /\ pc = "loaded"
    /\ epoch = NoEpoch
    /\ config \in Configs

\* The files of the command line are validated, those of the watcher are not.
Check ==
    /\ pc = "loaded"
    /\ pc' = IF config.via = "boot" /\ ~ValidateSlice(config) THEN "refused" ELSE "genesis"
    /\ UNCHANGED <<epoch, config>>

Fail == pc' = "failed"

\* A path is opened as it is: "file://" is not taken away.
Opens(u) == u \in {"path", "web"}

Opened(e, handles) == [e EXCEPT !.open = @ \cup handles, !.opened = @ \cup handles]
ToClose(e, handles) == [Opened(e, handles) EXCEPT !.onClose = @ \cup handles]

\* openIndexStorage, and the outcome of what follows: the next stage with the
\* epoch it leaves, or an error with the file open.
Storage(uri, handle, good, next, then) ==
    \/ Fail /\ UNCHANGED epoch
    \/ /\ Opens(uri)
       /\ \/ Fail /\ epoch' = ToClose(epoch, {handle})
          \/ good /\ pc' = next /\ epoch' = [ToClose(epoch, {handle}) EXCEPT !.seen = then]

\* The epoch and the root CID of a file; one with the old format has neither.
SameEpoch(f) == f.epoch = config.epoch[1]
SameRoot(f) == f.root = epoch.seen

\* The epoch's number is dereferenced; epoch 0 needs its genesis.
Genesis ==
    /\ pc = "genesis"
    /\ \/ config.epoch = <<>> /\ pc' = "crashed"
       \/ config.epoch = <<0>> /\ Fail
       \/ /\ config.epoch # <<>>
          /\ config.epoch = <<0>> => config.genesis = "path"
          /\ pc' = "cid"
    /\ UNCHANGED <<epoch, config>>

CidToOffset ==
    /\ pc = "cid"
    /\ IF IsFilecoinMode(config) THEN pc' = "slot" /\ UNCHANGED epoch
       ELSE IF IsDeprecatedIndexes(config)
       THEN Storage(config.oldcid.uri, "cid", config.oldcid.ok, "slot", Undef)
       ELSE Storage(config.cid.uri, "cid", config.cid.ok /\ SameEpoch(config.cid), "slot", config.cid.root)
    /\ UNCHANGED config

SlotGood ==
    /\ config.slot.ok
    /\ config.slot.old \/ (SameEpoch(config.slot) /\ (epoch.seen = Undef \/ SameRoot(config.slot)))

SlotSeen == IF config.slot.old THEN epoch.seen ELSE config.slot.root

\* Mutant of SlotToCid: the file is never closed.
SlotToCidKept ==
    /\ pc = "slot"
    /\ \/ Fail /\ UNCHANGED epoch
       \/ /\ Opens(config.slot.uri) /\ SlotGood
          /\ pc' = "sig"
          /\ epoch' = [Opened(epoch, {"slot"}) EXCEPT !.seen = SlotSeen]
    /\ UNCHANGED config

SlotToCid ==
    /\ pc = "slot"
    /\ Storage(config.slot.uri, "slot", SlotGood, "sig", SlotSeen)
    /\ UNCHANGED config

SigToCid ==
    /\ pc = "sig"
    /\ Storage(config.sig.uri, "sig",
               config.sig.ok /\ (config.sig.old \/ (SameEpoch(config.sig) /\ SameRoot(config.sig))),
               "gsfa", epoch.seen)
    /\ UNCHANGED config

\* NewGsfaReader opens three files, in a local directory; its Close closes two.
GsfaHandles == {"offsets", "log", "manifest"}

Gsfa ==
    /\ pc = "gsfa"
    /\ IF IsZero(config.gsfa.uri) THEN pc' = "lassie" /\ UNCHANGED epoch
       ELSE \/ Fail /\ UNCHANGED epoch
            \/ /\ config.gsfa.uri = "path"
               /\ \/ Fail /\ \E some \in {{"offsets"}, {"offsets", "log"}} : epoch' = Opened(epoch, some)
                  \/ LET all == [Opened(epoch, GsfaHandles) EXCEPT
                                   !.onClose = @ \cup (GsfaHandles \ {"manifest"})]
                     IN  /\ config.gsfa.ok
                         /\ epoch' = all
                         /\ pc' = IF config.gsfa.old \/ (SameEpoch(config.gsfa) /\ SameRoot(config.gsfa))
                                  THEN "lassie" ELSE "failed"
    /\ UNCHANGED config

\* The libp2p host of the lassie wrapper is left to the context of the program.
Lassie ==
    /\ pc = "lassie"
    /\ IF ~IsFilecoinMode(config) THEN pc' = "car" /\ UNCHANGED epoch
       ELSE \/ Fail /\ UNCHANGED epoch
            \/ /\ config.filecoin.providers
               /\ epoch' = Opened(epoch, {"lassie"})
               /\ pc' = IF epoch.seen = config.filecoin.root THEN "exists" ELSE "failed"
    /\ UNCHANGED config

\* A split CAR file: one reader per piece, opened at the same time.  When one
\* cannot be opened, those that were stay open.
SplitCar ==
    \/ Fail /\ epoch' \in {epoch, Opened(epoch, {"car"})}
    \/ /\ config.car.metadata = "path"
       /\ IF ~IsZero(config.car.deals) THEN config.car.deals = "path" ELSE config.car.urls = {"web"}
       /\ epoch' = ToClose(epoch, {"car"})
       /\ pc' = "exists"

\* The CAR file: its header is read for its size, its root is not compared.
Car ==
    /\ pc = "car"
    /\ IF IsCarFromPieces(config) THEN SplitCar
       ELSE IF ~config.car.set THEN pc' = "crashed" /\ UNCHANGED epoch
       ELSE Storage(config.car.uri, "car", TRUE, "exists", epoch.seen)
    /\ UNCHANGED config

SigExists ==
    /\ pc = "exists"
    /\ Storage(config.exists.uri, "exists",
               /\ config.exists.ok /\ config.exists.old = IsDeprecatedIndexes(config)
               /\ IsDeprecatedIndexes(config) \/ (SameEpoch(config.exists) /\ SameRoot(config.exists)),
               "time", epoch.seen)
    /\ UNCHANGED config

\* The block times are read into memory and their file is closed.
Blocktime ==
    /\ pc = "time"
    /\ \/ Fail /\ UNCHANGED epoch
       \/ /\ Opens(config.time.uri)
          /\ \/ Fail /\ epoch' = Opened(epoch, {"time"})
             \/ /\ config.time.ok
                /\ pc' = IF SameEpoch(config.time) THEN "open" ELSE "failed"
                /\ UNCHANGED epoch
    /\ UNCHANGED config

\* AddEpoch finds the epoch already there, and the new one is dropped.
Dropped ==
    /\ pc = "open"
    /\ pc' = "failed"
    /\ UNCHANGED <<epoch, config>>

\* Epoch.Close, when the epoch is replaced or removed, or at the end.
Close ==
    /\ pc = "open"
    /\ pc' = "closed"
    /\ epoch' = [epoch EXCEPT !.open = @ \ epoch.onClose, !.onClose = {}]
    /\ UNCHANGED config

Next ==
    \/ Check \/ Genesis \/ CidToOffset \/ SlotToCid \/ SigToCid \/ Gsfa \/ Lassie \/ Car
    \/ SigExists \/ Blocktime \/ Dropped \/ Close

Spec == Init /\ [][Next]_vars
-----------------------------------------------------------------------------
(* Properties.                                                              *)

\* The index files of a configuration that say what they were built for.
Dated(c) ==
    {f \in {c.slot, c.sig} : ~f.old}
    \cup (IF IsFilecoinMode(c) \/ IsDeprecatedIndexes(c) THEN {} ELSE {c.cid})
    \cup (IF IsZero(c.gsfa.uri) \/ c.gsfa.old THEN {} ELSE {c.gsfa})
    \cup (IF IsDeprecatedIndexes(c) THEN {} ELSE {c.exists})

\* All the indexes of an epoch that opens and that say so were built for this
\* epoch and from one CAR file, whichever of them have the old format; in
\* Filecoin mode it is the one the configuration names.
OpenedConsistent ==
    pc = "open" =>
        /\ \A f \in Dated(config) : SameEpoch(f) /\ f.root = epoch.seen
        /\ IsFilecoinMode(config) => epoch.seen = config.filecoin.root
        /\ SameEpoch(config.time)

\* What stays open.  After Close only the manifest of the gsfa index and the
\* host of lassie; after an error, or when AddEpoch refuses the epoch, all that
\* was opened, since nobody calls the functions of onClose.
LeaksExactly ==
    /\ pc = "closed" => epoch.open = epoch.opened \cap {"manifest", "lassie"}
    /\ pc = "failed" => epoch.open = epoch.opened

\* A nil of the configuration is dereferenced only in a file that the watcher
\* loads: those of the command line pass Validate first.
NilOnlyUnvalidated ==
    pc = "crashed" => config.via = "watch" /\ (config.epoch = <<>> \/ ~config.car.set)
=============================================================================
