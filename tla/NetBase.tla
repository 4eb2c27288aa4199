------------------------------ MODULE NetBase ------------------------------
(***************************************************************************)
(* The conversions of src/net/net_base.h: an integer to the bytes that go  *)
(* on the wire and back, and NetPacket, the header of a frame, to its 34   *)
(* bytes and back.  The code turns an integer into network byte order and  *)
(* then takes its bytes from the highest to the lowest; on a host whose    *)
(* byte order is that of the network the first does nothing.               *)
(*                                                                         *)
(* Numbers are those of an unsigned type with the given number of bytes.   *)
(***************************************************************************)
EXTENDS Integers, Sequences, SequencesExt

CONSTANTS ByteValues,  \* 2^8: how many values a byte has
          HostOrders   \* the byte orders of hosts, of "little" and "big"

ASSUME ByteAssumption == /\ ByteValues \in Nat \ {0} /\ ByteValues % 2 = 0
                         /\ HostOrders \subseteq {"little", "big"}

(* What a byte of a number counts at place i, the lowest at place 0. *)
Weight[i \in 0 .. 8] == IF i = 0 THEN 1 ELSE Weight[i - 1] * ByteValues

Byte == 0 .. ByteValues - 1
UInt32 == 0 .. Weight[4] - 1
UInt64 == 0 .. Weight[8] - 1

(* The byte of a number at place i, *)
ByteAt(n, i) == (n \div Weight[i]) % ByteValues

(* and the number whose bytes are these, from the highest to the lowest. *)
Number(bytes) ==
    LET upTo[i \in 0 .. Len(bytes)] ==
            IF i = 0 THEN 0 ELSE upTo[i - 1] * ByteValues + bytes[i]
    IN  upTo[Len(bytes)]

BytesOf(n, size) == [i \in 1 .. size |-> ByteAt(n, size - i)]

(* htonl and htonll, which are ntohl and ntohll too. *)
ToNetwork(n, size, order) ==
    IF order = "little" THEN Number(Reverse(BytesOf(n, size))) ELSE n

(* Int32ToChar, Int64ToChar. *)
Int32ToChar(n, order) == BytesOf(ToNetwork(n, 4, order), 4)
Int64ToChar(n, order) == BytesOf(ToNetwork(n, 8, order), 8)

(* A mistake ConversionsSound must notice: the bytes are composed and left *)
(* in network byte order.                                                  *)
CharToInt32Network(bytes, order) == Number(bytes)

(* CharToInt32. *)
CharToInt32(bytes, order) == ToNetwork(Number(bytes), 4, order)

(* An int32_t with these bits. *)
AsInt(n) == IF n >= Weight[4] \div 2 THEN n - Weight[4] ELSE n

(* CharToInt64: the lower four bytes are shifted and added as ints, so     *)
(* that their sum, if negative, takes one from the upper four.             *)
CharToInt64(bytes, order) ==
    LET upper == Number(SubSeq(bytes, 1, 4)) * Weight[4]
        lower == AsInt(Number(SubSeq(bytes, 5, 8)))
    IN  ToNetwork((upper + lower) % Weight[8], 8, order)

(* NetPacketToChar, with an uint32_t for each int32_t. *)
NetPacketToChar(p, order) ==
    Int32ToChar(p.version, order) \o <<p.header, p.tail>> \o p.check
        \o Int32ToChar(p.type, order) \o Int32ToChar(p.datalen, order)
        \o Int32ToChar(p.reserve, order)

CharToNetPacket(chardata, order) ==
    LET Field(at) == AsInt(CharToInt32(SubSeq(chardata, at + 1, at + 4), order)) IN
    [version |-> Field(0), header |-> chardata[5], tail |-> chardata[6],
     check   |-> SubSeq(chardata, 7, 22),
     type    |-> Field(22), datalen |-> Field(26), reserve |-> Field(30)]

-----------------------------------------------------------------------------
(* Some packets: one whose fields are all different, with the given type   *)
(* and length.                                                             *)
APacket(type, datalen) ==
    [version |-> 1, header |-> 2, tail |-> 3,
     check   |-> [i \in 1 .. 16 |-> i % ByteValues],
     type    |-> type, datalen |-> datalen, reserve |-> Weight[4] - 2]

Received32(p) ==
    [p EXCEPT !.version = AsInt(@), !.type = AsInt(@), !.datalen = AsInt(@),
              !.reserve = AsInt(@)]

(* What one host makes of the bytes of another that has the same byte      *)
(* order is what the other put there: every 32-bit integer, every header,  *)
(* and every 64-bit integer whose fifth byte on the wire is not negative   *)
(* as a char (one of the others comes out different).                      *)
Converts ==
    \A order \in HostOrders :
        /\ \A n \in UInt32 :
               /\ CharToInt32(Int32ToChar(n, order), order) = n
               /\ LET p == APacket(n, (n * n) % Weight[4]) IN
                  CharToNetPacket(NetPacketToChar(p, order), order) = Received32(p)
        /\ \A n \in UInt64 :
               LET bytes == Int64ToChar(n, order) IN
               bytes[5] < ByteValues \div 2 => CharToInt64(bytes, order) = n
=============================================================================
