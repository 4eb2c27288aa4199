-------------------------------- MODULE Link --------------------------------
(***************************************************************************)
(* What a user of the client gets from its parts: threads make messages    *)
(* into frames with PacketData and pass them to TCPClient::Send, as        *)
(* src/test_tcpclient.cpp does, and the server's PacketSync is given the   *)
(* bytes that the client's kernel took.  This is ClientSend with frames    *)
(* for its bytes, composed with the parser of PacketSync at the other end  *)
(* of one connection, as long as that lasts.                               *)
(*                                                                         *)
(* A Send that does not fit into the ring goes there piece by piece, and   *)
(* the pieces of two threads may alternate: a message can be torn.         *)
(***************************************************************************)
EXTENDS ClientSend, SequencesExt

CONSTANTS HEAD, TAIL,  \* the two bytes of both ends
          BufferSize,  \* BUFFER_SIZE of the parser
          Digest(_),   \* the MD5 digest of data
          Text,        \* the data of the messages each thread sends, in order
          ChunkSizes   \* bound: how many bytes a read of the server's gets

VARIABLES arrived, running, chunk, parsetype, readdata, room, headpos, packet,
          packetdata, packetroom, delivered    \* the server's PacketSync

receiver == <<arrived, running, chunk, parsetype, readdata, room, headpos, packet,
              packetdata, packetroom, delivered>>
linkVars == <<vars, receiver>>

(* PacketData of a message. *)
Framed(data) == <<HEAD, HEAD, TAIL, IF data = <<>> THEN 0 ELSE Digest(data), Len(data)>>
                    \o data \o <<TAIL>>

(* All that a thread sends, frame after frame, and what its bytes are. *)
Sent == [s \in Sender |-> FlattenSeq([c \in DOMAIN Text[s] |-> Framed(Text[s][c])])]
Values(bytes) == [i \in DOMAIN bytes |-> Sent[bytes[i].by][bytes[i].nth]]

(* The server's end; the stream is what the client's kernel took. *)
Parser == INSTANCE PacketSync WITH
    pieces     <- <<[frame |-> FALSE, data |-> <<>>, bytes |-> Values(wire)]>>,
    earlier    <- [bytes |-> <<>>, frames |-> 0],
    connection <- 1,
    MaxPieces  <- <<1>>,
    Messages   <- {}, Noise <- {},
    ByteValues <- 256, HostOrders <- {}

ASSUME ParserAssumption == /\ HEAD \in 0 .. 255 /\ TAIL \in 0 .. 255
                           /\ BufferSize \in Nat /\ BufferSize >= Parser!HeadLen + 2
                           /\ ChunkSizes \subseteq Nat \ {0}

(* Each call has a message to send.  The digest and, as a number of eight  *)
(* bits with its sign, the length have room in the header of its frame.    *)
ASSUME TextAssumption ==
    \A s \in Sender : /\ Text[s] \in Seq(Seq(0 .. 255)) /\ MaxCalls[s] <= Len(Text[s])
                      /\ \A c \in DOMAIN Text[s] :
                             /\ Framed(Text[s][c]) = Parser!PacketData(Text[s][c])
                             /\ Framed(Text[s][c]) \in Seq(0 .. 255) /\ Len(Text[s][c]) < 128
                             /\ Len(Framed(Text[s][c])) \in Lengths

LinkInit == Init /\ Parser!NewParser

-----------------------------------------------------------------------------
(* A thread sends its next message. *)
SendMessage(s) ==
    /\ Send(s)
    /\ len'[s] = Len(Framed(Text[s][calls'[s]]))
    /\ UNCHANGED receiver

(* The rest of the client's side while the connection is up.  After its    *)
(* end nothing more is taken from ring or queue to the wire, so that the   *)
(* server is left with what it has, in a state that occurs here too.       *)
ClientStep ==
    /\ \/ \E s \in Sender : SendStep(s)
       \/ AsyncCB \/ AfterRecv \/ CallbackDone \/ SendInl \/ AfterSend \/ KernelTakes
    /\ UNCHANGED receiver

(* AfterRecv of the server's: the next bytes go to recvdata. *)
Read(n) == UNCHANGED vars /\ Parser!RecvData(n)
Parse   == UNCHANGED vars /\ Parser!Turn

LinkNext ==
    \/ \E s \in Sender : SendMessage(s)
    \/ ClientStep
    \/ \E n \in ChunkSizes : Read(n)
    \/ Parse

LinkSpec == LinkInit /\ [][LinkNext]_linkVars

-----------------------------------------------------------------------------
(* The messages that a thread has begun to send. *)
Begun(s) == SubSeq(Text[s], 1, calls[s])

(* Whether a byte is the last of its message, *)
LastOf(b) == b.nth = Len(FlattenSeq([c \in 1 .. b.call |-> Framed(Text[b.by][c])]))

(* and whether another message begins before one has ended. *)
Torn(bytes) ==
    \E i \in 1 .. Len(bytes) - 1 :
        /\ ~LastOf(bytes[i])
        /\ <<bytes[i + 1].by, bytes[i + 1].call>> # <<bytes[i].by, bytes[i].call>>

Arrived == SubSeq(wire, 1, arrived)

(* The messages that are whole in an untorn stream, in its order. *)
WholeIn(bytes) ==
    LET upTo[i \in 0 .. Len(bytes)] ==
            IF i = 0 THEN <<>>
            ELSE IF LastOf(bytes[i])
                 THEN Append(upTo[i - 1], Text[bytes[i].by][bytes[i].call])
                 ELSE upTo[i - 1]
    IN  upTo[Len(bytes)]

(* What the server's user is given is what the client's threads have sent, *)
(* each thread's messages in its order and none twice, however reads cut   *)
(* the stream and whether or not messages are torn: a message may be lost, *)
(* but none is made up of pieces of others.                                *)
MessagesSound ==
    \E by \in [DOMAIN delivered -> Sender] :
        \A s \in Sender :
            LET mine == {i \in DOMAIN delivered : by[i] = s} IN
            \E at \in [mine -> DOMAIN Begun(s)] :
                /\ \A i \in mine : delivered[i] = Text[s][at[i]]
                /\ \A i, j \in mine : i < j => at[i] < at[j]

(* Of a stream without a torn message every message is delivered, in the   *)
(* order of the stream, once its last byte has been read.                  *)
UntornDelivered ==
    ~running /\ ~Torn(Arrived) => delivered = WholeIn(Arrived)
=============================================================================
