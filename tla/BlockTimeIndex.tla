--------------------------- MODULE BlockTimeIndex ---------------------------
(***************************************************************************)
(* blocktimeindex/ and slottools/: the block times of the slots of one      *)
(* epoch, kept as an array that is written and read as a whole.  A file cut *)
(* short (a download or a write that stopped) is what the reader must not   *)
(* take for a complete one.                                                 *)
(***************************************************************************)
EXTENDS Integers, Sequences, FiniteSets

CONSTANTS EpochLen,     \* slots of an epoch (432000)
          ValueBytes,   \* bytes of a time (4)
          Epochs,
          Times,        \* block times that are set, some out of range
          MaxSets       \* bound on the calls of Set

VARIABLES pc,      \* start, open, refused, written, cut
          writer,  \* the Index
          file

HeaderBytes == 14 + 4 * 8
MaxTime == 256^ValueBytes - 1
NoFile == [bytes |-> 0]
NoWriter == [values |-> <<>>]

CalcEpochForSlot(slot) == slot \div EpochLen
EpochLimits(epoch) == [start |-> epoch * EpochLen, end |-> epoch * EpochLen + EpochLen - 1]

Init ==
    /\ pc = "start"
    /\ writer = NoWriter
    /\ file = NoFile

\* NewForEpoch; both limits are in the epoch, so NewIndexer does not panic.
NewForEpoch(epoch) ==
    /\ pc = "start"
    /\ LET l == EpochLimits(epoch)
       IN  writer' = [start |-> l.start, end |-> l.end, epoch |-> CalcEpochForSlot(l.start),
                      capacity |-> EpochLen, values |-> [i \in 0..EpochLen - 1 |-> 0], set |-> <<>>]
    /\ pc' = "open"
    /\ UNCHANGED file

InRange(slot) == slot >= writer.start /\ slot <= writer.end

\* Set; a slot out of range is refused.
Set(slot, time) ==
    /\ pc = "open"
    /\ Len(writer.set) < MaxSets
    /\ InRange(slot)
    /\ writer' = [writer EXCEPT !.values[slot - writer.start] = time, !.set = Append(@, <<slot, time>>)]
    /\ UNCHANGED <<pc, file>>

\* blocktimeToBytes takes no other time.
Fits(time) == time >= 0 /\ time <= MaxTime

\* WriteTo marshals everything before it writes.
WriteTo ==
    /\ pc = "open"
    /\ IF \A i \in DOMAIN writer.values : Fits(writer.values[i])
       THEN /\ file' = [bytes |-> HeaderBytes + ValueBytes * writer.capacity,
                        start |-> writer.start, end |-> writer.end, epoch |-> writer.epoch,
                        capacity |-> writer.capacity,
                        values |-> [i \in DOMAIN writer.values |-> writer.values[i] % 256^ValueBytes]]
            /\ pc' = "written"
       ELSE /\ pc' = "refused"
            /\ UNCHANGED file
    /\ UNCHANGED writer

\* Only the first n bytes of the file arrive.
CutShort(n) ==
    /\ pc = "written"
    /\ n < file.bytes
    /\ file' = [file EXCEPT !.bytes = n]
    /\ pc' = "cut"
    /\ UNCHANGED writer

Next ==
    \/ \E epoch \in Epochs : NewForEpoch(epoch)
    \/ pc = "open" /\ \E slot \in writer.start - 1..writer.end + 1, time \in Times : Set(slot, time)
    \/ WriteTo
    \/ \E n \in 0..HeaderBytes + ValueBytes * EpochLen : CutShort(n)
-----------------------------------------------------------------------------
(* The reader.                                                              *)

\* The bytes of value i that the file has.
BytesOf(i) ==
    LET from == HeaderBytes + ValueBytes * i
    IN  IF file.bytes <= from THEN 0
        ELSE IF file.bytes >= from + ValueBytes THEN ValueBytes
        ELSE file.bytes - from

\* Mutant of Accepted: a value without any bytes is taken as 0.
AcceptedEmpty ==
    /\ file.bytes >= HeaderBytes
    /\ CalcEpochForSlot(file.start) = CalcEpochForSlot(file.end)
    /\ CalcEpochForSlot(file.start) = file.epoch

\* unmarshalBinary: Read fails only when no byte is left.
Accepted ==
    /\ file.bytes >= HeaderBytes
    /\ CalcEpochForSlot(file.start) = CalcEpochForSlot(file.end)
    /\ CalcEpochForSlot(file.start) = file.epoch
    /\ \A i \in 0..file.capacity - 1 : BytesOf(i) > 0

\* Get on what was read; missing bytes of a value are zero.
Get(slot) == file.values[slot - file.start] % 256^BytesOf(slot - file.start)
-----------------------------------------------------------------------------
(* Properties.                                                              *)

LastSet(slot) ==
    LET calls == {i \in DOMAIN writer.set : writer.set[i][1] = slot}
    IN  IF calls = {} THEN 0 ELSE writer.set[CHOOSE i \in calls : \A j \in calls : j <= i][2]

\* A file that is complete gives, for every slot of the epoch, the time set
\* last (Set, WriteTo, FromBytes, Get).
TimesSurvive ==
    pc = "written" => /\ Accepted
                      /\ \A slot \in writer.start..writer.end : Get(slot) = LastSet(slot)

\* A file that was cut short and is accepted all the same is right about
\* every slot but the last of the epoch, the only one whose bytes may be missing.
CutOnlyLast ==
    pc = "cut" /\ Accepted =>
        /\ file.bytes > HeaderBytes + ValueBytes * (EpochLen - 1)
        /\ \A slot \in writer.start..writer.end - 1 : Get(slot) = LastSet(slot)

\* Times out of range are refused when the file is written, never changed.
OutOfRangeRefused ==
    pc \in {"written", "refused"} =>
        (pc = "refused" <=> \E slot \in writer.start..writer.end : LastSet(slot) \notin 0..MaxTime)

Spec == Init /\ [][Next]_<<pc, writer, file>>
=============================================================================
