----------------------------- MODULE PacketSync -----------------------------
(***************************************************************************)
(* PacketSync, src/net/packet_sync.h: the parser that cuts the bytes of a  *)
(* TCP connection into frames.  Client and server call recvdata with       *)
(* whatever piece of the stream libuv has read; frames come back through   *)
(* the callback.  A frame is                                               *)
(*     HEAD, the fields of NetPacket, datalen bytes of data, TAIL          *)
(* and a candidate that turns out not to be one is given up one byte at a  *)
(* time: the search goes on right behind its HEAD.                         *)
(*                                                                         *)
(* A NetPacket is cut down to the four fields the parser looks at, of one  *)
(* byte each: header, tail, check, datalen.  Two's complement is kept, at  *)
(* eight bits.  One turn of the while loop of recvdata is a step, or two   *)
(* when it finds a whole header and goes on to the data.                   *)
(***************************************************************************)
EXTENDS Integers, SequencesExt, NetBase

CONSTANTS HEAD, TAIL,    \* the arguments of Start
          BufferSize,    \* BUFFER_SIZE
          Digest(_),     \* the MD5 digest of data that are not empty
          Messages,      \* the data that peers put in frames
          Noise,         \* what else may be on the wire: damaged frames, say
          ChunkSizes,    \* bound: how many bytes a call of recvdata gets
          MaxPieces      \* bound: for each connection one after the other,
                         \* how many frames and noises it has

HeadLen == 4    \* NET_PACKAGE_HEADLEN

ASSUME HeadAssumption   == HEAD \in 0 .. 255 /\ TAIL \in 0 .. 255
ASSUME BufferAssumption == BufferSize \in Nat /\ BufferSize >= HeadLen + 2
ASSUME WireAssumption   == Messages \cup Noise \subseteq Seq(0 .. 255)
ASSUME BoundsAssumption == /\ ChunkSizes \subseteq Nat \ {0}
                           /\ MaxPieces \in Seq(Nat) \ {<<>>}

VARIABLES
    pieces,      \* what the peer sends on this connection, piece by piece
    arrived,     \* how many bytes of that recvdata has been called with
    running,     \* recvdata has been called and has not returned
    chunk,       \* data + iret: the bytes of this call not looked at yet
    parsetype,   \* "PARSE_NOTHING" or "PARSE_HEAD"
    readdata,    \* the first truepacketlen bytes of thread_readdata
    room,        \* thread_readdata.len
    headpos,     \* headpos, counted from 1
    packet,      \* theNexPacket
    packetdata,  \* the first getdatalen bytes of thread_packetdata
    packetroom,  \* thread_packetdata.len
    delivered,   \* the data of the frames called back
    earlier,     \* the bytes received, and frames called back, before this
                 \* connection
    connection   \* the number of this connection

parser == <<parsetype, readdata, room, headpos, packet, packetdata, packetroom>>
history == <<delivered, earlier, connection>>
vars == <<pieces, arrived, running, chunk, parser, history>>

Larger(n, m) == IF n >= m THEN n ELSE m
Smaller(n, m) == IF n <= m THEN n ELSE m
From(seq, i) == SubSeq(seq, i, Len(seq))

(* A char, and an int32_t, hold negative numbers. *)
Signed(byte) == IF byte >= 128 THEN byte - 256 ELSE byte

(* The digest in a frame: of no data it is all zeros. *)
Check(data) == IF data = <<>> THEN 0 ELSE Digest(data)

(* PacketData and NetPacketToChar: a frame as it is sent. *)
PacketData(data) == <<HEAD, HEAD, TAIL, Check(data), Len(data)>> \o data \o <<TAIL>>

(* A frame is made of bytes: the digest and the length have room in it.    *)
ASSUME FrameAssumption == \A data \in Messages : PacketData(data) \in Seq(0 .. 255)

(* CharToNetPacket. *)
ToNetPacket(bytes) == [header  |-> bytes[1], tail    |-> bytes[2],
                       check   |-> bytes[3], datalen |-> Signed(bytes[4])]

ValidHeader(p) == p.header = HEAD /\ p.tail = TAIL /\ p.datalen >= 0

-----------------------------------------------------------------------------
FramePiece(data) == [frame |-> TRUE, data |-> data, bytes |-> PacketData(data)]
NoisePiece(noise) == [frame |-> FALSE, data |-> <<>>, bytes |-> noise]
Pieces == {FramePiece(m) : m \in Messages} \cup {NoisePiece(n) : n \in Noise}

Joined(ps) == FlattenSeq([i \in DOMAIN ps |-> ps[i].bytes])
Stream == Joined(pieces)

(* All that the parser has received. *)
Received == earlier.bytes \o SubSeq(Stream, 1, arrived)

(* The constructor. *)
NewParser ==
    /\ arrived = 0
    /\ running = FALSE
    /\ chunk = <<>>
    /\ parsetype = "PARSE_NOTHING"
    /\ readdata = <<>>
    /\ room = BufferSize
    /\ headpos = 0
    /\ packet = [header |-> 0, tail |-> 0, check |-> 0, datalen |-> 0]
    /\ packetdata = <<>>
    /\ packetroom = BufferSize
    /\ delivered = <<>>

Init ==
    /\ NewParser
    /\ \E n \in 1 .. MaxPieces[1] : pieces \in [1 .. n -> Pieces]
    /\ earlier = [bytes |-> <<>>, frames |-> 0]
    /\ connection = 1

(* The next connection.  Start stores HEAD and TAIL, which stay what they  *)
(* were, and leaves the rest of the parser alone; the client's             *)
(* reconnection does not even call it.                                     *)
Start ==
    /\ ~running /\ connection < Len(MaxPieces)
    /\ \E n \in 1 .. MaxPieces[connection + 1] : pieces' \in [1 .. n -> Pieces]
    /\ arrived' = 0
    /\ earlier' = [bytes |-> Received, frames |-> Len(delivered)]
    /\ connection' = connection + 1
    /\ UNCHANGED <<running, chunk, parser, delivered>>

(* recvdata is called with the next n bytes of the stream. *)
RecvData(n) ==
    /\ ~running /\ arrived + n <= Len(Stream)
    /\ running' = TRUE
    /\ chunk' = SubSeq(Stream, arrived + 1, arrived + n)
    /\ arrived' = arrived + n
    /\ UNCHANGED <<pieces, parser, history>>

(* A mistake RecvReturns must notice: the loop goes on for a header that   *)
(* lacks its last byte.                                                    *)
MoreThanHead == chunk # <<>> \/ Len(readdata) >= HeadLen

(* The condition of the while loop. *)
MoreToParse == chunk # <<>> \/ Len(readdata) >= HeadLen + 2

(* Where the search goes on after a candidate at h. *)
BehindHead(h) == h + 1

(* parsetype is PARSE_NOTHING: fill the buffer and look for a header. *)
ParseHead ==
    LET k   == Smaller(room - Len(readdata), Len(chunk))
        buf == readdata \o SubSeq(chunk, 1, k)
        at  == {i \in DOMAIN buf : buf[i] = HEAD}
        h   == Min(at)
        p   == ToNetPacket(From(buf, h + 1))
        end == h + HeadLen
    IN
    /\ running /\ parsetype = "PARSE_NOTHING" /\ MoreToParse
    /\ chunk' = From(chunk, k + 1)
    /\ \/ /\ at = {}
          /\ readdata' = <<>>
          /\ UNCHANGED <<parsetype, headpos, packet, packetdata, packetroom>>
       \/ /\ at # {} /\ Len(buf) < end
          /\ headpos' = h
          /\ readdata' = From(buf, h)
          /\ UNCHANGED <<parsetype, packet, packetdata, packetroom>>
       \/ /\ at # {} /\ Len(buf) >= end
          /\ headpos' = h
          /\ packet' = p
          /\ \/ /\ ~ValidHeader(p)
                /\ readdata' = From(buf, BehindHead(h))
                /\ UNCHANGED <<parsetype, packetdata, packetroom>>
             \/ /\ ValidHeader(p)
                /\ readdata' = buf
                /\ parsetype' = "PARSE_HEAD"
                /\ packetdata' = SubSeq(buf, end + 1, Smaller(Len(buf), end + p.datalen + 1))
                /\ packetroom' = Larger(packetroom, p.datalen + 1)
    /\ UNCHANGED <<pieces, arrived, running, room, history>>

Return ==
    /\ running /\ parsetype = "PARSE_NOTHING" /\ ~MoreToParse
    /\ running' = FALSE
    /\ UNCHANGED <<pieces, arrived, chunk, parser, history>>

(* The bytes of data and TAIL still to come, and all of them when here. *)
Missing == packet.datalen + 1 - Len(packetdata)
Whole   == packetdata \o SubSeq(chunk, 1, Missing)

(* A mistake MessagesSound must notice: the digest is not looked at.       *)
GoodFrameAnyDigest(bytes) == Signed(bytes[packet.datalen + 1]) = TAIL

(* The byte read from a char array is compared with an unsigned char. *)
GoodFrame(bytes) ==
    /\ Signed(bytes[packet.datalen + 1]) = TAIL
    /\ packet.check = Check(SubSeq(bytes, 1, packet.datalen))

(* All of the frame is in thread_readdata too. *)
InReadData == Len(readdata) - headpos - HeadLen >= packet.datalen + 1

(* A mistake UntornDelivered must notice: the buffer is emptied, with      *)
(* the beginning of the next frame in it.                                  *)
NothingLeft == <<>>

(* What is left of the buffer behind the frame at headpos. *)
AfterFrame == IF InReadData THEN From(readdata, headpos + HeadLen + packet.datalen + 2)
                            ELSE <<>>

WaitForData ==
    /\ running /\ parsetype = "PARSE_HEAD" /\ Len(chunk) < Missing
    /\ packetdata' = packetdata \o chunk
    /\ chunk' = <<>>
    /\ running' = FALSE
    /\ UNCHANGED <<pieces, arrived, parsetype, readdata, room, headpos, packet,
                   packetroom, history>>

(* A mistake FramesOfStream must notice: a refused candidate is skipped    *)
(* whole, with any frame that begins inside it.                            *)
RejectAll ==
    /\ running /\ parsetype = "PARSE_HEAD" /\ Len(chunk) >= Missing
    /\ ~GoodFrame(Whole)
    /\ chunk' = From(chunk, Missing + 1)
    /\ packetdata' = Whole
    /\ readdata' = AfterFrame
    /\ parsetype' = "PARSE_NOTHING"
    /\ UNCHANGED <<pieces, arrived, running, room, headpos, packet, packetroom,
                   history>>

(* A mistake TypeOK must notice: no memory for bytes that did not all fit. *)
RoomUnchanged(n) == room

(* thread_readdata.len after the realloc, if one is needed. *)
RoomFor(n) == Larger(room, n)

(* The candidate is no frame: all of it but its HEAD is parsed again. *)
Reject ==
    /\ running /\ parsetype = "PARSE_HEAD" /\ Len(chunk) >= Missing
    /\ ~GoodFrame(Whole)
    /\ chunk' = From(chunk, Missing + 1)
    /\ packetdata' = Whole
    /\ \/ /\ InReadData
          /\ readdata' = From(readdata, BehindHead(headpos))
          /\ UNCHANGED room
       \/ /\ ~InReadData
          /\ readdata' = SubSeq(readdata, BehindHead(headpos), headpos + HeadLen) \o Whole
          /\ room' = RoomFor(HeadLen + packet.datalen + 1)
    /\ parsetype' = "PARSE_NOTHING"
    /\ UNCHANGED <<pieces, arrived, running, headpos, packet, packetroom,
                   history>>

Deliver ==
    /\ running /\ parsetype = "PARSE_HEAD" /\ Len(chunk) >= Missing
    /\ GoodFrame(Whole)
    /\ chunk' = From(chunk, Missing + 1)
    /\ packetdata' = Whole
    /\ readdata' = AfterFrame
    /\ delivered' = Append(delivered, SubSeq(Whole, 1, packet.datalen))
    /\ parsetype' = "PARSE_NOTHING"
    /\ UNCHANGED <<pieces, arrived, running, room, headpos, packet, packetroom,
                   earlier, connection>>

Turn == ParseHead \/ Return \/ WaitForData \/ Reject \/ Deliver

Next ==
    \/ Start
    \/ \E n \in ChunkSizes : RecvData(n)
    \/ Turn

(* recvdata is a loop of a running thread: it goes on. *)
Spec == Init /\ [][Next]_vars /\ WF_vars(Turn)

-----------------------------------------------------------------------------
Bytes == Seq(0 .. 255)

(* The two buffers are never filled beyond the memory they have. *)
TypeOK ==
    /\ pieces \in Seq(Pieces)
    /\ arrived \in 0 .. Len(Stream)
    /\ running \in BOOLEAN
    /\ chunk \in Bytes
    /\ parsetype \in {"PARSE_NOTHING", "PARSE_HEAD"}
    /\ readdata \in Bytes /\ Len(readdata) <= room
    /\ room \in Nat
    /\ headpos \in Nat
    /\ packet \in [header : Nat, tail : Nat, check : Nat, datalen : Int]
    /\ packetdata \in Bytes /\ Len(packetdata) <= packetroom
    /\ packetroom \in Nat
    /\ delivered \in Seq(Bytes)
    /\ earlier \in [bytes : Bytes, frames : Nat]
    /\ connection \in 1 .. Len(MaxPieces)

(* The frames of a sequence of bytes, read at one's leisure: try a frame   *)
(* at each byte, and go on behind it if it is one, else at the next byte;  *)
(* stop where what follows may still become a frame.  Those from byte i    *)
(* on, when f tells those from each later byte on:                         *)
FramesFrom(bytes, f, i) ==
    LET n    == Len(bytes)
        p    == ToNetPacket(From(bytes, i + 1))
        last == i + HeadLen + p.datalen + 1
        data == SubSeq(bytes, i + HeadLen + 1, last - 1)
    IN  IF i > n THEN <<>>
        ELSE IF bytes[i] # HEAD THEN f[i + 1]
        ELSE IF i + HeadLen > n THEN <<>>
        ELSE IF ~ValidHeader(p) THEN f[i + 1]
        ELSE IF last > n THEN <<>>
        ELSE IF bytes[last] = TAIL /\ p.check = Check(data)
             THEN <<data>> \o f[last + 1]
             ELSE f[i + 1]

Frames(bytes) ==
    LET f[i \in 1 .. Len(bytes) + 1] == FramesFrom(bytes, f, i)
    IN  f[1]

(* However the stream is cut into calls of recvdata, and whatever noise is *)
(* in it, the frames called back are those of the bytes received so far:   *)
(* none is missed, none comes late, none is invented or comes twice.  The  *)
(* bytes of successive connections make one stream.                        *)
FramesOfStream == ~running => delivered = Frames(Received)

(* "As soon as there is enough for a frame GetFullPacket is triggered"     *)
(* (src/net/packet_sync.h, line 12): when all that the peer sends is       *)
(* frames, those received in full have been called back.                   *)
EveryFrameDelivered ==
    ~running /\ (\A i \in DOMAIN pieces : pieces[i].frame) =>
        \A i \in DOMAIN pieces :
            Len(Joined(SubSeq(pieces, 1, i))) <= arrived =>
                LET k == earlier.frames + i IN
                k \in DOMAIN delivered /\ delivered[k] = pieces[i].data

(* Each call of recvdata returns. *)
RecvReturns == running ~> ~running

(* A fact about data, which holds of every state if of the first: what is  *)
(* put on the wire is what comes from it, so that a header whose fields    *)
(* are one byte each, as here, stands for those of the code.               *)
ConversionsSound == Init => Converts
=============================================================================
