--------------------------------- MODULE Packets ---------------------------------
(***************************************************************************)
(* Packets as bytes: class Packet of src/lib/packet.cpp and packet.h, the   *)
(* five packets of src/lib/packets/core.cpp, and the buffer a connection    *)
(* receives them in (TcpReceiveBuffer).                                     *)
(*                                                                         *)
(* A packet in memory is a record of its type and its fields: node and      *)
(* number are u32, token and variable names, data marshalled properties.    *)
(***************************************************************************)
EXTENDS Marshaller

CONSTANTS MaxSize   \* Packet::MaxSize, 96 KiB in the program

HeaderSize == 6     \* a u16 type and a u32 size of the payload

ASSUME MaxSizeAssumption == MaxSize \in Nat /\ MaxSize > HeaderSize

MaxPayloadSize == MaxSize - HeaderSize

EdgeHandshake(node) == [type |-> "EdgeHandshake", node |-> node]
ClusterHandshake(node) == [type |-> "ClusterHandshake", node |-> node]
RequestToken(token, number) ==
    [type |-> "RequestToken", token |-> token, number |-> number]
GiveToken(token, data) == [type |-> "GiveToken", token |-> token, data |-> data]
Signal(token, variable) == [type |-> "Signal", token |-> token, variable |-> variable]

TypeNumber ==
    [EdgeHandshake |-> 1, ClusterHandshake |-> 2, RequestToken |-> 3, GiveToken |-> 4,
     Signal |-> 5]

-----------------------------------------------------------------------------
(* Encoding.                                                                *)

\* Packet::write of an integer, and of a String or Vector<char>.
Write(payload, bytes) == payload \o Reverse(bytes)

WriteChars(payload, bytes) == Write(payload, Memory(Len(bytes), 4)) \o bytes

\* encodePayload of the five.
EncodeHandshake(payload, p) == Write(payload, Memory(p.node, 4))

EncodeRequestToken(payload, p) ==
    Write(WriteChars(payload, Chars(p.token)), Memory(p.number, 4))

EncodeGiveToken(payload, p) == WriteChars(WriteChars(payload, Chars(p.token)), p.data)

EncodeSignal(payload, p) ==
    WriteChars(WriteChars(payload, Chars(p.token)), Chars(p.variable))

EncodePayload(payload, p) ==
    CASE p.type \in {"EdgeHandshake", "ClusterHandshake"} -> EncodeHandshake(payload, p)
      [] p.type = "RequestToken" -> EncodeRequestToken(payload, p)
      [] p.type = "GiveToken" -> EncodeGiveToken(payload, p)
      [] p.type = "Signal" -> EncodeSignal(payload, p)

\* The header with a size of 0, the payload, and then the size in its place.
\* Nothing compares the size with MaxPayloadSize.
Encode(p) ==
    LET type == Write(<<>>, Memory(TypeNumber[p.type], 2))
        packet == EncodePayload(type \o <<0, 0, 0, 0>>, p)
    IN  type \o Reverse(Memory(Len(packet) - HeaderSize, 4))
             \o SubSeq(packet, HeaderSize + 1, Len(packet))

-----------------------------------------------------------------------------
(* The receive buffer: MaxSize bytes, of which a packet uses the first. What *)
(* was received earlier stays behind it.                                     *)

NewBuffer == [i \in 1 .. MaxSize |-> 0]

\* data with bytes received behind the first count ones.
Stored(data, count, bytes) ==
    SubSeq(data, 1, count) \o bytes
        \o SubSeq(data, count + Len(bytes) + 1, Len(data))

\* The header readEvent finds in the first bytes.
HeaderType(data) == Number(Reverse(SubSeq(data, 1, 2)))
PayloadSize(data) == Number(Reverse(SubSeq(data, 3, HeaderSize)))

-----------------------------------------------------------------------------
(* Decoding.  Packet::read compares with the size of what it is given, the  *)
(* whole buffer, and not with the size of the packet.                       *)

\* m_packetReaderPos behind the header.
PacketReader(data) == [Reader(data) EXCEPT !.pos = HeaderSize]

Read(r, w) ==
    IF Fits(r, w) THEN [r EXCEPT !.pos = @ + w, !.value = Reverse(Peek(r, w))]
    ELSE Failed(r)

ReadChars(r) ==
    LET size == Read(r, 4)
        len == Number(size.value)
    IN  IF ~size.bad /\ Fits(size, len)
        THEN [size EXCEPT !.pos = @ + len, !.value = Peek(size, len)]
        ELSE Failed(size)

\* decodePayload of the five: the reader behind the last field, with the packet
\* as its value.
DecodeHandshake(r, type) ==
    LET node == Read(r, 4)
    IN  [node EXCEPT !.value = [type |-> type, node |-> Number(@)]]

\* Mutant of DecodeRequestToken: the number is read as a u16.
DecodeRequestTokenShort(r) ==
    LET token == ReadChars(r)
        number == Read(token, 2)
    IN  [number EXCEPT !.value = RequestToken(Name(token.value), Number(@))]

DecodeRequestToken(r) ==
    LET token == ReadChars(r)
        number == Read(token, 4)
    IN  [number EXCEPT !.value = RequestToken(Name(token.value), Number(@))]

DecodeGiveToken(r) ==
    LET token == ReadChars(r)
        data == ReadChars(token)
    IN  [data EXCEPT !.value = GiveToken(Name(token.value), @)]

DecodeSignal(r) ==
    LET token == ReadChars(r)
        variable == ReadChars(token)
    IN  [variable EXCEPT !.value = Signal(Name(token.value), Name(@))]

\* Packet::factory.  A bad reader stands for its nullptr.
Factory(type, data) ==
    LET r == PacketReader(data)
    IN  CASE type = 1 -> DecodeHandshake(r, "EdgeHandshake")
          [] type = 2 -> DecodeHandshake(r, "ClusterHandshake")
          [] type = 3 -> DecodeRequestToken(r)
          [] type = 4 -> DecodeGiveToken(r)
          [] type = 5 -> DecodeSignal(r)
          [] OTHER -> Failed(r)

=============================================================================
