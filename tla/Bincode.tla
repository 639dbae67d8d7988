------------------------------- MODULE Bincode -------------------------------
(***************************************************************************)
(* The bincode encoding, as the generated parsers of the old transaction    *)
(* metadata use it: a type is described by a schema, and the Serialize and  *)
(* Deserialize functions of a generated type follow its schema.  Integers   *)
(* are little endian and below 2^24.                                        *)
(***************************************************************************)
EXTENDS Integers, Sequences

LOCAL SeqExt == INSTANCE SequencesExt

UInt(width) == [t |-> "int", width |-> width]
Struct(fields) == [t |-> "struct", fields |-> fields]
Vec(item) == [t |-> "vec", item |-> item]
Option(item) == [t |-> "option", item |-> item]

\* The variants in the order of the cases of the switch that deserializes them; a variant
\* has the index that its own Serialize method writes.
Enum(variants) == [t |-> "enum", variants |-> variants]
Variant(index, name, fields) == [index |-> index, name |-> name, fields |-> Struct(fields)]

U8 == UInt(1)
U32 == UInt(4)
U64 == UInt(8)

LittleEndian(n, width) ==
    [i \in 1..width |-> IF i = 1 THEN n % 256
                        ELSE IF i = 2 THEN (n \div 256) % 256
                        ELSE IF i = 3 THEN (n \div 65536) % 256 ELSE 0]

FromLittleEndian(b) ==
    b[1] + (IF Len(b) > 1 THEN 256 * b[2] ELSE 0) + (IF Len(b) > 2 THEN 65536 * b[3] ELSE 0)

RECURSIVE Serialize(_, _)
Serialize(s, v) ==
    CASE s.t = "int" -> LittleEndian(v, s.width)
      [] s.t = "struct" -> SeqExt!FlattenSeq([i \in DOMAIN s.fields |-> Serialize(s.fields[i], v[i])])
      [] s.t = "vec" -> LittleEndian(Len(v), 8) \o SeqExt!FlattenSeq([i \in DOMAIN v |-> Serialize(s.item, v[i])])
      [] s.t = "option" -> <<Len(v)>> \o SeqExt!FlattenSeq([i \in DOMAIN v |-> Serialize(s.item, v[i])])
      [] s.t = "enum" -> LET of == SelectSeq(s.variants, LAMBDA x : x.name = v.name)[1]
                         IN  LittleEndian(of.index, 4) \o Serialize(of.fields, v.fields)

Failed == [ok |-> FALSE]
Got(v, pos) == [ok |-> TRUE, v |-> v, pos |-> pos]

ReadInt(width, bytes, pos) ==
    IF pos + width > Len(bytes) THEN Failed
    ELSE Got(FromLittleEndian(SubSeq(bytes, pos + 1, pos + width)), pos + width)

\* Deserialize returns the value and the position after it; ReadAll reads the items one
\* after the other, up to the first that fails.
RECURSIVE Deserialize(_, _, _), ReadAll(_, _, _)
ReadAll(items, bytes, pos) ==
    SeqExt!FoldLeft(
        LAMBDA acc, s : IF ~acc.ok THEN acc
                        ELSE LET r == Deserialize(s, bytes, acc.pos)
                             IN  IF r.ok THEN Got(Append(acc.v, r.v), r.pos) ELSE r,
        Got(<<>>, pos), items)

Deserialize(s, bytes, pos) ==
    CASE s.t = "int" -> ReadInt(s.width, bytes, pos)
      [] s.t = "struct" -> ReadAll(s.fields, bytes, pos)
      [] s.t = "vec" ->
            LET n == ReadInt(8, bytes, pos)
            IN  IF n.ok THEN ReadAll([i \in 1..n.v |-> s.item], bytes, n.pos) ELSE n
      [] s.t = "option" ->
            LET n == ReadInt(1, bytes, pos)
            IN  IF ~n.ok THEN n
                ELSE IF n.v > 1 THEN Failed ELSE ReadAll([i \in 1..n.v |-> s.item], bytes, n.pos)
      [] s.t = "enum" ->
            LET n == ReadInt(4, bytes, pos)
            IN  IF ~n.ok THEN n
                ELSE IF n.v + 1 \notin DOMAIN s.variants THEN Failed
                ELSE LET of == s.variants[n.v + 1]
                         r == ReadAll(of.fields.fields, bytes, n.pos)
                     IN  IF r.ok THEN Got([name |-> of.name, fields |-> r.v], r.pos) ELSE r
=============================================================================
