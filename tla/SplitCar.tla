------------------------------ MODULE SplitCar ------------------------------
(***************************************************************************)
(* split-car cuts an epoch's CAR file into pieces: CAR files of their own,  *)
(* each with the DAGs of some blocks and a subset node, and the sizes that  *)
(* the reader needs to put the original together again.  The accumulator    *)
(* hands over the DAG of one block at a time.  split-car-fetcher reads the  *)
(* pieces as if they were the original file.                                *)
(***************************************************************************)
EXTENDS Integers, Sequences, FiniteSets

CONSTANTS Cars,         \* sequences of items: DAGs of blocks, and other objects
          OrigHdrSize,  \* size of the header of the original
          HdrSize,      \* and of the pieces
          MaxFileSize, MaxLinks

VARIABLES pc,           \* start, split, failed, done, stored, refused, open, shrunk
          splitter,     \* the items to come, the piece being written; what reads the pieces
          pieces        \* the files

SeqExt == INSTANCE SequencesExt

Other(size) == [dag |-> FALSE, slot |-> 0, size |-> size]

NoPiece == [open |-> FALSE]
Min2(a, b) == IF a < b THEN a ELSE b
Max2(a, b) == IF a > b THEN a ELSE b

Init ==
    /\ pc = "start"
    /\ \E car \in Cars : splitter = [car |-> car, next |-> 1, current |-> NoPiece, by |-> "none"]
    /\ pieces = <<>>
-----------------------------------------------------------------------------
(* Splitting.                                                               *)

SubsetSize(links) == 1 + Len(links)
EpochSize(n) == 1 + n

\* The file is opened and its header read and kept in the metadata; without one the
\* command ends.
Start ==
    /\ pc = "start" /\ pc' \in {"split", "failed"}
    /\ UNCHANGED <<splitter, pieces>>

\* writeSubsetNode, closeFile, ReplaceRootsInFile: what is written after the last DAG
\* is not part of the content size.
Closed(p, extra) ==
    [dags |-> p.dags, first |-> p.first, last |-> p.last, links |-> p.links, root |-> "subset",
     headerSize |-> HdrSize, contentSize |-> p.size - HdrSize,
     size |-> p.size + SubsetSize(p.links) + extra, opened |-> 0]

Fresh == [open |-> TRUE, size |-> HdrSize, first |-> -1, last |-> -1, links |-> <<>>, dags |-> <<>>]

NeedsNewFile(p, size) ==
    IF p.open THEN p.size + size > MaxFileSize \/ Len(p.links) > MaxLinks ELSE TRUE

WithDag(p, i, item) ==
    [p EXCEPT !.size = @ + item.size, !.dags = Append(@, i), !.links = Append(@, item.slot),
              !.first = IF @ = -1 \/ item.slot < @ THEN item.slot ELSE @,
              !.last = IF item.slot > @ THEN item.slot ELSE @]

Item == splitter.car[splitter.next]

\* The callback of the accumulator; Epoch and Subset nodes do not get here, and objects
\* after the last block are dropped.
Callback ==
    /\ pc = "split" /\ splitter.next <= Len(splitter.car)
    /\ IF ~Item.dag
       THEN splitter' = [splitter EXCEPT !.next = @ + 1] /\ UNCHANGED pieces
       ELSE LET new == NeedsNewFile(splitter.current, Item.size)
                into == IF new THEN Fresh ELSE splitter.current
            IN  /\ pieces' = IF new /\ splitter.current.open
                             THEN Append(pieces, Closed(splitter.current, 0)) ELSE pieces
                /\ splitter' = [splitter EXCEPT !.next = @ + 1,
                                                !.current = WithDag(into, splitter.next, Item)]
    /\ UNCHANGED pc

\* An error in the callback is a panic of the flusher; the piece being written has no
\* subset node and no root.
CallbackFails ==
    /\ pc = "split" /\ splitter.next <= Len(splitter.car) /\ Item.dag
    /\ pc' = "failed"
    /\ UNCHANGED <<splitter, pieces>>

\* Without a block there is no writer to write the last subset node to.
Finish ==
    /\ pc = "split" /\ splitter.next > Len(splitter.car)
    /\ IF splitter.current.open
       THEN pc' = "done" /\ pieces' = Append(pieces, Closed(splitter.current, EpochSize(Len(pieces) + 1)))
       ELSE pc' = "failed" /\ UNCHANGED pieces
    /\ UNCHANGED splitter
-----------------------------------------------------------------------------
(* SortCarFiles: the pieces by the first slot of their subset nodes.        *)

SortCarFiles(files) == SeqExt!SortSeq(files, LAMBDA a, b : a.first < b.first)
-----------------------------------------------------------------------------
(* SplitCarReader.  A byte is <<i, k>>, the k-th byte of item i; the header *)
(* is item 0, and the nodes that were added are item -1.                    *)

BytesOfItem(i, size) == [k \in 1..size |-> <<i, k>>]

HeaderBytes == BytesOfItem(0, OrigHdrSize)

\* The bytes of the file after its header, as many as are there.
FileBytes(p) ==
    SubSeq(SeqExt!FlattenSeq([j \in DOMAIN p.dags |-> BytesOfItem(p.dags[j], splitter.car[p.dags[j]].size)])
             \o BytesOfItem(-1, p.size), 1, Max2(0, p.size - p.headerSize))

\* Where the pieces are kept: as they were written, padded, without the nodes that were
\* added, or cut.
Store(i) ==
    /\ pc = "done"
    /\ LET p == pieces[i]
       IN  \E n \in {p.size + 1, p.headerSize + p.contentSize, HdrSize + (p.size - HdrSize) \div 3} :
               pieces' = [pieces EXCEPT ![i].size = n]
    /\ pc' = "stored"
    /\ UNCHANGED splitter

OpensLocal(p) == p.size = p.headerSize + p.contentSize
OpensRemote(p) == p.size >= p.headerSize + p.contentSize

\* The pieces are read by a FileSplitCarReader, by an HTTPSingleFileRemoteReaderAt, or by
\* one that the server has wrapped, whose size is not looked at. Any of them may fail.
NewSplitCarReader(by) ==
    /\ pc \in {"done", "stored"}
    /\ LET fits(p) == CASE by = "file" -> OpensLocal(p) [] by = "remote" -> OpensRemote(p) [] OTHER -> TRUE
       IN  pc' \in IF \A i \in DOMAIN pieces : fits(pieces[i]) THEN {"open", "refused"} ELSE {"refused"}
    /\ splitter' = [splitter EXCEPT !.by = by]
    /\ pieces' = [i \in DOMAIN pieces |-> [pieces[i] EXCEPT !.opened = pieces[i].size]]

\* A piece is cut short after it was opened.
Shrink(i) ==
    /\ pc = "open"
    /\ pieces' = [pieces EXCEPT ![i].size = HdrSize + (@ - HdrSize) \div 3]
    /\ pc' = "shrunk"
    /\ UNCHANGED splitter

Read(bytes, err) == [bytes |-> bytes, err |-> err]

\* os.File.ReadAt, n bytes after the first from of the file's content.
ReadLocal(p, from, n) ==
    LET got == SubSeq(FileBytes(p), from + 1, Min2(from + n, Len(FileBytes(p))))
    IN  Read(got, IF Len(got) < n THEN "EOF" ELSE "none")

\* HTTPSingleFileRemoteReaderAt.ReadAt, with a server that answers with the bytes of the
\* file (RangeCache has the others): beyond the size that the file had when it was opened
\* there is an EOF, or a range that the cache refuses; a body that is too short is an
\* unexpected EOF, or an EOF if it is empty.
ReadRemote(p, from, n) ==
    LET at == p.headerSize + from
    IN  IF at >= p.opened \/ (at + n <= p.opened /\ at >= p.size) THEN Read(<<>>, "EOF")
        ELSE IF at + n > p.opened \/ at + n > p.size THEN Read(<<>>, "error")
        ELSE Read(SubSeq(FileBytes(p), from + 1, from + n), "none")

\* io.SectionReader.ReadAt, on the content of a piece.
ReadSection(p, from, n) ==
    LET m == Min2(n, p.contentSize - from)
        r == IF splitter.by = "file" THEN ReadLocal(p, from, m) ELSE ReadRemote(p, from, m)
    IN  IF from >= p.contentSize THEN Read(<<>>, "EOF")
        ELSE IF m < n /\ r.err = "none" THEN [r EXCEPT !.err = "EOF"] ELSE r

\* bytes.Reader.ReadAt
ReadHeader(from, n) ==
    LET got == SubSeq(HeaderBytes, from + 1, Min2(from + n, OrigHdrSize))
    IN  Read(got, IF Len(got) < n \/ from >= OrigHdrSize THEN "EOF" ELSE "none")

Sizes == <<OrigHdrSize>> \o [i \in DOMAIN pieces |-> pieces[i].contentSize]

\* NewMultiReaderAt
Offsets == [i \in DOMAIN Sizes |-> SeqExt!FoldLeft(LAMBDA a, b : a + b, 0, SubSeq(Sizes, 1, i - 1))]

ToRead(st, i) ==
    IF i = Len(Offsets) THEN st.left ELSE Min2(Max2(0, Offsets[i + 1] - st.off), st.left)

ReadReader(i, from, n) == IF i = 1 THEN ReadHeader(from, n) ELSE ReadSection(pieces[i - 1], from, n)

\* Mutant of ReadFrom: off always moves on.
ReadFromAnyway(st, i) ==
    IF st.left = 0 \/ st.err = "error" \/ st.off < Offsets[i] THEN st
    ELSE LET r == ReadReader(i, st.off - Offsets[i], ToRead(st, i))
         IN  [off |-> st.off + ToRead(st, i), left |-> st.left - Len(r.bytes), out |-> st.out \o r.bytes,
              err |-> IF r.err = "error" \/ (r.err = "EOF" /\ i = Len(Offsets)) THEN r.err ELSE st.err]

\* One iteration of the loop of MultiReaderAt.ReadAt. An error other than EOF ends it. A
\* reader other than the last that gives less than was asked for is no error, but off stays
\* and the readers after it are passed over.
ReadFrom(st, i) ==
    IF st.left = 0 \/ st.err = "error" \/ st.off < Offsets[i] THEN st
    ELSE LET r == ReadReader(i, st.off - Offsets[i], ToRead(st, i))
         IN  [off |-> IF Len(r.bytes) = ToRead(st, i) THEN st.off + ToRead(st, i) ELSE st.off,
              left |-> st.left - Len(r.bytes), out |-> st.out \o r.bytes,
              err |-> IF r.err = "error" \/ (r.err = "EOF" /\ i = Len(Offsets)) THEN r.err ELSE st.err]

ReadAt(off, n) ==
    LET st == SeqExt!FoldLeft(ReadFrom, [off |-> off, left |-> n, out |-> <<>>, err |-> "none"],
                              [i \in DOMAIN Offsets |-> i])
    IN  Read(st.out, IF st.err = "EOF" /\ st.left = 0 THEN "none" ELSE st.err)

Next ==
    \/ Start
    \/ Callback
    \/ CallbackFails
    \/ Finish
    \/ \E i \in DOMAIN pieces : Store(i)
    \/ \E by \in {"file", "remote", "wrapped"} : NewSplitCarReader(by)
    \/ \E i \in DOMAIN pieces : Shrink(i)

Spec == Init /\ [][Next]_<<pc, splitter, pieces>>
-----------------------------------------------------------------------------
(* Properties.                                                              *)

Car == splitter.car
Dags == {i \in DOMAIN Car : Car[i].dag}
Split == pc \in {"done", "stored", "refused", "open", "shrunk"}

Original == HeaderBytes \o SeqExt!FlattenSeq([i \in DOMAIN Car |-> BytesOfItem(i, Car[i].size)])
Kept == SelectSeq(Original, LAMBDA b : b[1] = 0 \/ b[1] \in Dags)

\* A piece has one block, or does not exceed the target size.
PieceBounds ==
    \A i \in DOMAIN pieces :
        LET p == pieces[i] IN Len(p.dags) = 1 \/ p.headerSize + p.contentSize <= MaxFileSize

\* Every block of the original is in one piece, in order, and linked by its subset node,
\* whose first and last slots are those of its blocks.
SubsetsExact ==
    /\ Split => SeqExt!FlattenSeq([i \in DOMAIN pieces |-> pieces[i].dags])
                  = SelectSeq([i \in DOMAIN Car |-> i], LAMBDA i : i \in Dags)
    /\ \A i \in DOMAIN pieces :
          LET p == pieces[i]
              slots == {Car[p.dags[j]].slot : j \in DOMAIN p.dags}
          IN  /\ p.links = [j \in DOMAIN p.dags |-> Car[p.dags[j]].slot]
              /\ p.first \in slots /\ p.last \in slots
              /\ \A s \in slots : p.first <= s /\ s <= p.last

\* The pieces of an epoch sort into the order in which they were written.
SortRestores == Split => SortCarFiles(SeqExt!Reverse(pieces)) = pieces

\* The content of every piece is there: the sizes were checked, or they are right.
Intact ==
    /\ pc = "open"
    /\ splitter.by = "wrapped" => \A i \in DOMAIN pieces : OpensRemote(pieces[i])

\* Every range of bytes is read as it is in the original file without its other objects,
\* if the sizes were checked when the pieces were opened (or are right, where the server
\* does not check them), with an EOF exactly if it reaches beyond the end. A piece that
\* lost its end, before or after that, makes the answer shorter, never wrong.
ReadAtRight ==
    pc \in {"open", "shrunk"} =>
        \A off \in 0..Len(Kept) + 1, n \in 1..4 :
            LET r == ReadAt(off, n)
                expected == SubSeq(Kept, off + 1, Min2(off + n, Len(Kept)))
            IN  /\ SeqExt!IsPrefix(r.bytes, expected)
                /\ Intact => r = Read(expected, IF Len(expected) < n THEN "EOF" ELSE "none")

\* The offsets of the original, which the indexes have, hold for the blocks before which
\* the original has no other object.
OffsetsKept ==
    Intact =>
        \A i \in Dags :
            LET at == CHOOSE k \in DOMAIN Original : Original[k] = <<i, 1>>
            IN  (\A j \in 1..i : Car[j].dag) => ReadAt(at - 1, 1).bytes = <<<<i, 1>>>>
=============================================================================
