------------------------------- MODULE Marshaller -------------------------------
(***************************************************************************)
(* Properties as bytes: class DataMarshaller of src/lib/marshaller.cpp with *)
(* its MarshallHelper (writing) and UnmarshallHelper (reading), on the      *)
(* little-endian machines the program is built for.                         *)
(*                                                                         *)
(* A byte is a number below 256 and an integer or a float in memory the     *)
(* tuple of its bytes, lowest first.  Names (of properties, types,          *)
(* monitors, condition variables) are strings of Alphabet; the characters   *)
(* of one are abstracted to one byte of its own.                            *)
(***************************************************************************)
EXTENDS Naturals, Sequences, SequencesExt, FiniteSets, TLC

CONSTANTS Alphabet,   \* the sequence of the names in use
          AsFloat     \* double |-> float, for the doubles in use

ASSUME AlphabetAssumption == Alphabet \in Seq(STRING) /\ IsInjective(Alphabet)

Byte == 0 .. 255

\* The w bytes of n in memory, and the number that the bytes of a u16 or a u32
\* are.
Memory(n, w) == [i \in 1 .. w |-> (n \div 256 ^ (i - 1)) % 256]

Number(bytes) ==
    bytes[1] + 256 * bytes[2]
    + IF Len(bytes) = 4 THEN 65536 * bytes[3] + 16777216 * bytes[4] ELSE 0

Chars(name) == IF name \in Range(Alphabet)
               THEN <<CHOOSE i \in DOMAIN Alphabet : Alphabet[i] = name>>
               ELSE <<0>>

Name(chars) == IF Len(chars) = 1 /\ chars[1] \in DOMAIN Alphabet
               THEN Alphabet[chars[1]] ELSE "?"

-----------------------------------------------------------------------------
(* Types of properties: one value ("$") or a vector of them ("#").          *)

OneByte == {"$u8", "$s8", "#u8", "#s8"}
TwoBytes == {"$u16", "$s16", "#u16", "#s16"}
FourBytes == {"$u32", "$s32", "#u32", "#s32", "$float", "#float"}
Doubles == {"$double", "#double"}
EightBytes == {"$u64", "$s64", "#u64", "#s64"} \cup Doubles

Width(type) ==
    CASE type \in OneByte -> 1
      [] type \in TwoBytes -> 2
      [] type \in FourBytes -> 4
      [] type \in EightBytes -> 8

Vectors == {"#u8", "#s8", "#u16", "#s16", "#u32", "#s32", "#u64", "#s64",
            "#float", "#double"}

Primitives == (OneByte \cup TwoBytes \cup FourBytes \cup EightBytes) \ Vectors

-----------------------------------------------------------------------------
(* MarshallHelper.                                                          *)

\* Mutant of HostToNetwork: the halves keep their places.
HostToNetworkHalves(bytes) ==
    Reverse(SubSeq(bytes, 1, 4)) \o Reverse(SubSeq(bytes, 5, 8))

\* The two halves of a u64 through htonl, and each to the other's place.
HostToNetwork(bytes) ==
    LET high == Reverse(SubSeq(bytes, 5, 8))
        low == Reverse(SubSeq(bytes, 1, 4))
    IN  high \o low

\* write(u8) to write(s64), and write(float) by its u32.
WriteInt(vector, bytes) ==
    vector \o (IF Len(bytes) = 8 THEN HostToNetwork(bytes) ELSE Reverse(bytes))

\* write(double) stores the value into the float of union { float f; u64 u; }
\* and writes u: four bytes of it are what was in memory before (garbage).
WriteDouble(vector, bytes, garbage) == WriteInt(vector, AsFloat[bytes] \o garbage)

WriteScalar(vector, type, bytes, garbage) ==
    IF type \in Doubles THEN WriteDouble(vector, bytes, garbage)
    ELSE WriteInt(vector, bytes)

WriteSize(vector, size) == WriteInt(vector, Memory(size, 4))

\* write(String) and write(Vector<char>).
WriteBytes(vector, bytes) == WriteSize(vector, Len(bytes)) \o bytes

-----------------------------------------------------------------------------
(* UnmarshallHelper: a reader at pos of data.  value is what the last read  *)
(* delivered; bad says that some read failed, which no caller looks at, so  *)
(* that a variable nobody set was used.                                     *)

Reader(data) == [data |-> data, pos |-> 0, value |-> <<>>, bad |-> FALSE]

Fits(r, w) == Len(r.data) >= w + r.pos

Peek(r, w) == SubSeq(r.data, r.pos + 1, r.pos + w)

Failed(r) == [r EXCEPT !.bad = TRUE]

\* The inverse of HostToNetwork.
NetworkToHost(bytes) ==
    LET high == Reverse(SubSeq(bytes, 5, 8))
        low == Reverse(SubSeq(bytes, 1, 4))
    IN  high \o low

\* read(u8) to read(s64), and read(float), read(double) by the integer of
\* their size.
ReadInt(r, w) ==
    LET raw == Peek(r, w)
    IN  IF Fits(r, w)
        THEN [r EXCEPT !.pos = @ + w,
                       !.value = IF w = 8 THEN NetworkToHost(raw) ELSE Reverse(raw)]
        ELSE Failed(r)

\* read(String) and read(Vector<char>).
ReadBytes(r) ==
    LET size == ReadInt(r, 4)
        len == Number(size.value)
    IN  IF ~size.bad /\ Fits(size, len)
        THEN [size EXCEPT !.pos = @ + len, !.value = Peek(size, len)]
        ELSE Failed(size)

\* An element of a vector of that type.
ReadElement(r, type) ==
    IF type = "Vector<String>"
    THEN LET x == ReadBytes(r) IN [x EXCEPT !.value = Name(@)]
    ELSE ReadInt(r, Width(type))

\* n elements: their values in a sequence.
ReadMany(r, n, type) ==
    FoldLeft(LAMBDA acc, i :
                LET x == ReadElement(acc, type)
                IN  [x EXCEPT !.value = Append(acc.value, x.value)],
             [r EXCEPT !.value = <<>>], [i \in 1 .. n |-> i])

-----------------------------------------------------------------------------
(* DataMarshaller.                                                          *)

MarshallPrimitive(type, value, garbage) == WriteScalar(<<>>, type, value, garbage)

MarshallPrimitiveVector(type, value, garbage) ==
    FoldLeft(LAMBDA vector, x : WriteScalar(vector, type, x, garbage),
             WriteSize(<<>>, Len(value)), value)

\* The delegate registered for "Vector<String>".
MarshallStrings(value) ==
    FoldLeft(LAMBDA vector, x : WriteBytes(vector, Chars(x)),
             WriteSize(<<>>, Len(value)), value)

MarshallValue(type, value, garbage) ==
    IF type = "Vector<String>" THEN MarshallStrings(value)
    ELSE IF type \in Vectors THEN MarshallPrimitiveVector(type, value, garbage)
    ELSE MarshallPrimitive(type, value, garbage)

UnmarshallPrimitive(type, bytes) == ReadInt(Reader(bytes), Width(type))

\* Mutant of UnmarshallPrimitiveVector: an element too few.
UnmarshallAllButLast(type, bytes) ==
    LET size == ReadInt(Reader(bytes), 4)
        n == Number(size.value)
    IN  ReadMany(size, IF n = 0 THEN 0 ELSE n - 1, type)

UnmarshallPrimitiveVector(type, bytes) ==
    LET size == ReadInt(Reader(bytes), 4)
    IN  ReadMany(size, Number(size.value), type)

UnmarshallStrings(bytes) ==
    LET size == ReadInt(Reader(bytes), 4)
    IN  ReadMany(size, Number(size.value), "Vector<String>")

\* The reader of the value: its value, and whether a read of it failed.
UnmarshallValue(type, bytes) ==
    IF type = "Vector<String>" THEN UnmarshallStrings(bytes)
    ELSE IF type \in Vectors THEN UnmarshallPrimitiveVector(type, bytes)
    ELSE UnmarshallPrimitive(type, bytes)

\* A PropertyMap: id |-> type and value.
Property(type, value) == [type |-> type, value |-> value]

\* order lists the ids of map the way its hash table happens to.
MarshallMap(map, order, garbage) ==
    FoldLeft(LAMBDA vector, id :
                WriteBytes(WriteBytes(WriteBytes(vector, Chars(id)), Chars(map[id].type)),
                           MarshallValue(map[id].type, map[id].value, garbage)),
             WriteSize(<<>>, Cardinality(DOMAIN map)), order)

\* The next property of r, put into r.value; the first of two with one id stays.
ReadProperty(r) ==
    LET id == ReadBytes(r)
        type == ReadBytes(id)
        raw == ReadBytes(type)
        value == UnmarshallValue(Name(type.value), raw.value)
    IN  [raw EXCEPT
            !.value = r.value @@ Name(id.value) :> Property(Name(type.value), value.value),
            !.bad = @ \/ value.bad]

\* A reader whose value is the map.
UnmarshallMap(bytes) ==
    LET size == ReadInt(Reader(bytes), 4)
    IN  FoldLeft(LAMBDA r, i : ReadProperty(r), [size EXCEPT !.value = <<>>],
                 [i \in 1 .. Number(size.value) |-> i])

=============================================================================
