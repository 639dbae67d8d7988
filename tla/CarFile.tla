------------------------------ MODULE CarFile ------------------------------
(***************************************************************************)
(* carreader: reading a CAR file section by section.  A section is the      *)
(* length of the rest as a varint, a CID and the data.  A file that was cut *)
(* short is told apart from one that ends by the kind of error only.        *)
(*                                                                          *)
(* A byte is a number below 2 * Base; varints have digits to the base Base, *)
(* with Base added to a digit that is followed by another one (128 and 7    *)
(* bits in the code).  A CID is a prefix (version, codec, hash function and *)
(* length of the digest, a byte each in the code) and a digest.             *)
(***************************************************************************)
EXTENDS Integers, Sequences

CONSTANTS Base,
          Cids,      \* CIDs, as sequences of CidLen bytes
          PrefixLen, CidLen,
          Payloads,  \* data of sections
          MaxAllowedSectionSize,
          MaxSections,
          BufSize    \* of a bufio.Writer

VARIABLES pc,        \* write, merged, read, eof, error
          reader,    \* whether it reads the data, where it is, the sections it found
          file       \* sections, and the number of bytes that are there

SeqExt == INSTANCE SequencesExt

Uvarint(n) ==
    LET digits[k \in 0..n] == IF k < Base THEN <<k>> ELSE <<(k % Base) + Base>> \o digits[k \div Base]
    IN  digits[n]

\* RawSection: the length does not count itself.
RawSection(s) == Uvarint(CidLen + Len(s.data)) \o s.cid \o s.data

RawSectionSize(s) == Len(Uvarint(CidLen + Len(s.data))) + CidLen + Len(s.data)

Bytes(sections) == SeqExt!FlattenSeq([i \in DOMAIN sections |-> RawSection(sections[i])])

Content == SubSeq(Bytes(file.sections), 1, file.size)

Init ==
    /\ pc = "write"
    /\ reader = [data |-> TRUE, at |-> 1, found |-> <<>>]
    /\ file = [sections |-> <<>>, size |-> 0]

Write(cid, data) ==
    /\ pc = "write" /\ Len(file.sections) < MaxSections
    /\ file' = LET all == Append(file.sections, [cid |-> cid, data |-> data])
               IN  [sections |-> all, size |-> Len(Bytes(all))]
    /\ UNCHANGED <<pc, reader>>

\* The file is complete, or was cut short, or is one that merge-cars wrote; it is read
\* with the data or without.
Open(size, data) ==
    /\ pc \in {"write", "merged"} /\ file.sections # <<>>
    /\ pc = "merged" => size = file.size
    /\ file' = [file EXCEPT !.size = size]
    /\ pc' = "read"
    /\ reader' = [reader EXCEPT !.data = data]
-----------------------------------------------------------------------------
(* Reading.  EOF may be the clean end; a reader ends at ErrUnexpectedEOF    *)
(* and at other errors with that error.                                     *)

Ok(value, next) == [err |-> "none", value |-> value, next |-> next]
Err(e) == [err |-> e, value |-> 0, next |-> 0]

\* binary.ReadUvarint
ReadUvarint(bytes, at) ==
    LET n == Len(bytes)
        read[i \in at..n + 1] ==
            IF i > n THEN Err("EOF")
            ELSE IF bytes[i] < Base THEN Ok(bytes[i], i + 1)
            ELSE LET rest == read[i + 1]
                 IN  IF rest.err # "none" THEN rest
                     ELSE Ok(bytes[i] - Base + Base * rest.value, rest.next)
    IN  read[at]

\* Mutant of ReadSectionLength: the end of the file within the varint is a clean end.
ReadSectionLengthClean(bytes, at) == ReadUvarint(bytes, at)

ReadSectionLength(bytes, at) ==
    IF at > Len(bytes) THEN Err("EOF")      \* Peek
    ELSE LET l == ReadUvarint(bytes, at)
         IN  IF l.err = "EOF" THEN Err("unexpected EOF")
             ELSE IF l.err = "none" /\ l.value > MaxAllowedSectionSize THEN Err("too big")
             ELSE l

\* cid.CidFromReader: the fields of the prefix are varints, and the digest is read in
\* full; an end before one of them is an EOF, though one wrapped in ErrInvalidCid.
CidFromReader(bytes, at) ==
    LET left == Len(bytes) - at + 1
    IN  IF left >= CidLen THEN Ok(SubSeq(bytes, at, at + CidLen - 1), at + CidLen)
        ELSE IF left <= PrefixLen THEN Err("EOF") ELSE Err("unexpected EOF")

\* io.ReadFull: an EOF before the first byte is an EOF.
ReadFull(bytes, at, n) ==
    IF at + n - 1 <= Len(bytes) THEN Ok(SubSeq(bytes, at, at + n - 1), at + n)
    ELSE IF at > Len(bytes) THEN Err("EOF") ELSE Err("unexpected EOF")

\* io.CopyN to io.Discard: every short copy is an EOF.
CopyN(bytes, at, n) == IF at + n - 1 <= Len(bytes) THEN Ok(<<>>, at + n) ELSE Err("EOF")

Node(cid, data, length, next) == [err |-> "none", cid |-> cid, data |-> data, length |-> length, next |-> next]

ReadNodeInfoWithData(bytes, at) ==
    LET l == ReadSectionLength(bytes, at)
        c == CidFromReader(bytes, l.next)
        d == ReadFull(bytes, c.next, l.value - CidLen)
    IN  IF l.err # "none" THEN l
        ELSE IF c.err # "none" THEN c
        ELSE IF l.value < CidLen THEN Err("panic")      \* make, of a negative length
        ELSE IF d.err # "none" THEN d
        ELSE Node(c.value, d.value, l.value + (l.next - at), d.next)

ReadNodeInfoWithoutData(bytes, at) ==
    LET l == ReadSectionLength(bytes, at)
        c == CidFromReader(bytes, l.next)
        d == CopyN(bytes, c.next, l.value - CidLen)
    IN  IF l.err # "none" THEN l
        ELSE IF c.err # "none" THEN c
        ELSE IF d.err # "none" THEN d
        ELSE Node(c.value, <<>>, l.value + (l.next - at), d.next)

Take(r, node) ==
    /\ IF node.err = "none"
       THEN /\ reader' = [r EXCEPT !.at = node.next,
                                   !.found = Append(@, [cid |-> node.cid, data |-> node.data,
                                                        at |-> r.at, length |-> node.length])]
            /\ UNCHANGED pc
       ELSE /\ pc' = IF node.err = "EOF" THEN "eof" ELSE "error"
            /\ UNCHANGED reader
    /\ UNCHANGED file

\* NextNode adds a check of the CID to NextNodeBytes.
NextNodeBytes == pc = "read" /\ reader.data /\ Take(reader, ReadNodeInfoWithData(Content, reader.at))

NextInfo == pc = "read" /\ ~reader.data /\ Take(reader, ReadNodeInfoWithoutData(Content, reader.at))
-----------------------------------------------------------------------------
(* merge-cars: the sections of the files, copied through a bufio.Writer     *)
(* that is not flushed in the end.  The header, which goes the same way, is *)
(* left out.                                                                *)

\* What a bufio.Writer passed on of n bytes written to it and never flushed: all the
\* full buffers at least, and a write that does not fit may pass on more.
Flushed(n) == {k \in 0..n : n - k < BufSize /\ (n < BufSize => k = 0)}

MergeCars ==
    /\ pc = "write" /\ file.sections # <<>>
    /\ \E k \in Flushed(Len(Content)) : file' = [file EXCEPT !.size = k]
    /\ pc' = "merged"
    /\ UNCHANGED reader
-----------------------------------------------------------------------------
(* getSlotAndSizeFromURL: the root of a piece is looked up in the last      *)
(* bytes of the file, and is taken to have a length of two bytes.           *)

LastIndex(bytes, cid) ==
    LET at == {i \in 1..Len(bytes) - CidLen + 1 : SubSeq(bytes, i, i + CidLen - 1) = cid}
    IN  {i \in at : \A j \in at : j <= i}

RootFromTail(bytes, cid) ==
    LET at == LastIndex(bytes, cid)
    IN  IF at = {} THEN Err("not found")
        ELSE LET i == CHOOSE j \in at : TRUE
             IN  IF i - 2 < 1 THEN Err("panic") ELSE ReadNodeInfoWithData(bytes, i - 2)

Next ==
    \/ \E c \in Cids, d \in Payloads : Write(c, d)
    \/ \E n \in 0..Len(Bytes(file.sections)), d \in BOOLEAN : Open(n, d)
    \/ NextNodeBytes
    \/ NextInfo
    \/ MergeCars

Spec == Init /\ [][Next]_<<pc, reader, file>>
-----------------------------------------------------------------------------
(* Properties.                                                              *)

Found(i) == reader.found[i]

\* A section that is in the file as a whole, and is not refused for its size.
Whole(i) ==
    /\ i \in DOMAIN file.sections
    /\ Len(Bytes(SubSeq(file.sections, 1, i))) <= file.size
    /\ CidLen + Len(file.sections[i].data) <= MaxAllowedSectionSize

\* The reader finds the sections of the file from the first one on, with their data if it
\* reads them, each at the offset that the lengths of the ones before it add up to, and
\* stops only at one that is cut or too big; also in a file that merge-cars has cut.
SectionsFound ==
    /\ Len(reader.found) <= Len(file.sections)
    /\ \A i \in DOMAIN reader.found :
          /\ Found(i).cid = file.sections[i].cid
          /\ Found(i).data = IF reader.data THEN file.sections[i].data ELSE <<>>
          /\ Found(i).length = RawSectionSize(file.sections[i])
          /\ Found(i).at = 1 + Len(Bytes(SubSeq(file.sections, 1, i - 1)))
    /\ pc \in {"eof", "error"} => ~Whole(Len(reader.found) + 1)

\* Bytes of the section at which the file was cut, after the last section that was found.
Rest == file.size - Len(Bytes(SubSeq(file.sections, 1, Len(reader.found))))

Cut == file.sections[Len(reader.found) + 1]
LengthBytes == Len(Uvarint(CidLen + Len(Cut.data)))

\* A file that was cut within the length of a section ("don't silently pretend this is a
\* clean EOF", reader.go:165), within the digest of its CID or, for a reader of the data,
\* within the data, ends in an error, never with the EOF of a file that is complete.
\* Nothing is said of the cuts between these parts, nor of those in data that are skipped.
CutSeen ==
    pc = "eof" /\ Rest > 0 =>
        /\ Rest >= LengthBytes
        /\ Rest - LengthBytes \notin PrefixLen + 1..CidLen - 1
        /\ reader.data => Rest <= LengthBytes + CidLen

LastSection == file.sections[Len(file.sections)]

\* The root of a piece, its last section, is found in the tail of the file if its length
\* takes two bytes, and what passes for it (the CID is checked at cmd-car-split.go:641) is
\* the root or a beginning of it, which does not decode.
RootFound ==
    pc = "write" /\ file.sections # <<>> =>
        LET r == RootFromTail(Content, LastSection.cid)
            passes == r.err = "none" /\ r.cid = LastSection.cid
        IN  /\ Len(Uvarint(CidLen + Len(LastSection.data))) = 2 => passes /\ r.data = LastSection.data
            /\ passes => SeqExt!IsPrefix(r.data, LastSection.data)
=============================================================================
