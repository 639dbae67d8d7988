----------------------------- MODULE IndexFiles -----------------------------
(***************************************************************************)
(* The files of the indexes whose contents are one list: the block times,   *)
(* the wrappers of the compact indexes, and the linked log and the manifest *)
(* of the gsfa index.  They share no state: a behaviour is about one.       *)
(***************************************************************************)
EXTENDS Integers, Sequences, FiniteSets

CONSTANTS EpochLen, ValueBytes, Epochs, Times, MaxSets,
          Networks, Roots, Sigs, PutOffsets, PutSizes, MaxOffset, MaxSize, MaxTypedPuts, MaxSeals,
          Accounts, CompressedLens, MaxRecords, MaxCrashes,
          PairLen, FixedLen, Metas, Versions, MaxPairs

VARIABLES which, pc, writer, file

BT == INSTANCE BlockTimeIndex
TI == INSTANCE TypedIndex WITH Offsets <- PutOffsets, Sizes <- PutSizes, MaxPuts <- MaxTypedPuts
LL == INSTANCE LinkedLog WITH Keys <- Accounts
MF == INSTANCE Manifest WITH MaxPuts <- MaxPairs

\* An epoch has slots and a time has bytes; a byte has 256 values.
ASSUME BlockTimeAssumption ==
    /\ EpochLen \in Nat \ {0} /\ ValueBytes \in Nat \ {0} /\ MaxSets \in Nat
    /\ Epochs \subseteq Nat /\ Times \subseteq Int
    /\ 256^ValueBytes \in Nat \ {0}

\* No root CID is the answer for a key that is missing; offsets and sizes are numbers.
ASSUME TypedIndexAssumption ==
    /\ "not found" \notin Roots
    /\ PutOffsets \subseteq Nat /\ PutSizes \subseteq Nat /\ MaxOffset \in Nat /\ MaxSize \in Nat

\* The size of a record, with its length of up to four bytes and the place of nine, fits
\* the three bytes that a place has for it.
ASSUME LinkedLogAssumption ==
    /\ CompressedLens \subseteq 0..256 * 256 * 256 - 14
    /\ MaxRecords \in Nat /\ MaxCrashes \in Nat
    /\ "unreadable" \notin Accounts

\* Pairs and headers have bytes.
ASSUME ManifestAssumption ==
    /\ PairLen \in Nat \ {0} /\ FixedLen \in Nat \ {0}
    /\ \A m \in Metas : m.len \in Nat

IndexInit ==
    \/ which = "blocktimeindex" /\ BT!Init
    \/ which = "indexes" /\ TI!Init
    \/ which = "linkedlog" /\ LL!Init
    \/ which = "manifest" /\ MF!Init

IndexNext ==
    \/ which = "blocktimeindex" /\ BT!Next
    \/ which = "indexes" /\ TI!Next
    \/ which = "linkedlog" /\ LL!Next
    \/ which = "manifest" /\ MF!Next

IndexSpec == IndexInit /\ [][IndexNext /\ UNCHANGED which]_<<which, pc, writer, file>>
-----------------------------------------------------------------------------
(* Properties.                                                              *)

\* A file of block times gives the times that were set, those out of range were refused,
\* and a file that was cut short is wrong about the last slot only.
BlockTimesExact ==
    which = "blocktimeindex" => BT!TimesSurvive /\ BT!CutOnlyLast /\ BT!OutOfRangeRefused

\* An index is opened by the reader of its kind only and finds what was put into it, and
\* its temporary files are kept until it is complete.
TypedIndexExact == which = "indexes" => TI!KindChecked /\ TI!PutsAreFound /\ TI!TempUntilSealed

\* The chain of a key in the linked log holds its own records, the newest first, up to one
\* that EveryRecordReadable is about; an open manifest has the header of its file and all
\* the pairs that were put, in order.
GsfaFilesExact ==
    /\ which = "linkedlog" => LL!ChainsReadable
    /\ which = "manifest" => MF!PairsSurvive /\ MF!HeaderOfFile

\* Every record of the linked log can be read.
EveryRecordReadable == which = "linkedlog" => LL!EveryRecordReadable
=============================================================================
