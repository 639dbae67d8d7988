------------------------------ MODULE Manifest ------------------------------
(***************************************************************************)
(* gsfa/manifest/manifest.go: a file with a header and a list of pairs that *)
(* grows by appending, opened again after a crash in the middle of a write. *)
(***************************************************************************)
EXTENDS Integers, Sequences, FiniteSets

CONSTANTS PairLen,     \* 16: the bytes of a pair
          FixedLen,    \* 16: the bytes of magic and version
          Metas,       \* metadata, [id, len]
          Versions,    \* versions a file may have, 4 the current one
          MaxPuts

VARIABLES pc,      \* closed, open
          writer,  \* the Manifest: its header, and the pairs put by all of them
          file     \* magic, version, metadata; how many bytes of them; the bytes of the pairs

Version == 4
NoHeader == [version |-> 0, meta |-> [id |-> "none", len |-> 0]]

Init ==
    /\ pc = "closed"
    /\ writer = [header |-> NoHeader, puts |-> <<>>]
    /\ \E v \in Versions, m \in Metas :
          file \in {[head |-> 0, version |-> Version, meta |-> m, content |-> <<>>],
                    [head |-> FixedLen + m.len, version |-> v, meta |-> m, content |-> <<>>]}

Size == file.head + Len(file.content)

\* NewManifest on an empty file; writeHeader is three writes.
NewManifestEmpty(meta) ==
    /\ pc = "closed"
    /\ Size = 0
    /\ file' = [head |-> FixedLen + meta.len, version |-> Version, meta |-> meta, content |-> <<>>]
    /\ writer' = [writer EXCEPT !.header = [version |-> Version, meta |-> meta]]
    /\ pc' = "open"

\* The process ends in writeHeader.
CrashInHeader(meta, n) ==
    /\ pc = "closed"
    /\ Size = 0
    /\ n < FixedLen + meta.len
    /\ file' = [head |-> n, version |-> Version, meta |-> meta, content |-> <<>>]
    /\ UNCHANGED <<pc, writer>>

\* readHeader: the whole header is there.
ReadHeader == file.head = FixedLen + file.meta.len

Aligned == Len(file.content) % PairLen = 0

\* NewManifest on a file with contents: the metadata given is not used.
NewManifestExisting ==
    /\ pc = "closed"
    /\ Size > 0
    /\ ReadHeader
    /\ file.version = Version
    /\ Aligned
    /\ writer' = [writer EXCEPT !.header = [version |-> file.version, meta |-> file.meta]]
    /\ pc' = "open"
    /\ UNCHANGED file

\* A byte is known by the pair it belongs to and its place in it.
Bytes(pair) == [i \in 1..PairLen |-> <<pair, i>>]

Put ==
    /\ pc = "open"
    /\ Len(writer.puts) < MaxPuts
    /\ LET pair == Len(writer.puts) + 1
       IN  /\ writer' = [writer EXCEPT !.puts = Append(@, pair)]
           /\ file' = [file EXCEPT !.content = @ \o Bytes(pair)]
    /\ UNCHANGED pc

\* The process ends in Put, after n bytes.
CrashInPut(n) ==
    /\ pc = "open"
    /\ Len(writer.puts) < MaxPuts
    /\ file' = [file EXCEPT !.content = @ \o SubSeq(Bytes(0), 1, n)]
    /\ writer' = [writer EXCEPT !.header = NoHeader]
    /\ pc' = "closed"

Close ==
    /\ pc = "open"
    /\ writer' = [writer EXCEPT !.header = NoHeader]
    /\ pc' = "closed"
    /\ UNCHANGED file

Next ==
    \/ \E m \in Metas : NewManifestEmpty(m)
    \/ \E m \in Metas, n \in 1..FixedLen + 3 : CrashInHeader(m, n)
    \/ NewManifestExisting
    \/ Put
    \/ \E n \in 0..PairLen - 1 : CrashInPut(n)
    \/ Close

\* ReadAll: PairLen bytes at a time; a rest that is shorter is an error.
ReadAll ==
    IF Len(file.content) % PairLen # 0 THEN <<"error">>
    ELSE [i \in 1..Len(file.content) \div PairLen |->
             LET bytes == SubSeq(file.content, (i - 1) * PairLen + 1, i * PairLen)
             IN  IF bytes = Bytes(bytes[1][1]) THEN bytes[1][1] ELSE "garbled"]
-----------------------------------------------------------------------------
(* Properties.                                                              *)

\* An open manifest holds the pairs of all the Puts that returned, in their
\* order and nothing else, whatever crashed before: a file that ends inside
\* its header or inside a pair is not opened again.
PairsSurvive == pc = "open" => ReadAll = writer.puts

\* The header in memory is the one of the file, which is complete and of the
\* current version.
HeaderOfFile ==
    pc = "open" => /\ writer.header = [version |-> file.version, meta |-> file.meta]
                   /\ writer.header.version = Version
                   /\ file.head = FixedLen + file.meta.len

Spec == Init /\ [][Next]_<<pc, writer, file>>
=============================================================================
