----------------------------- MODULE LinkProofs -----------------------------
(***************************************************************************)
(* That a stream without torn messages comes out at the other end as the   *)
(* messages that were put into it.                                         *)
(*                                                                         *)
(* UntornFrames is the fact about streams: the frames of one without a     *)
(* torn message are the messages that are whole in it.  SeenUpTo says it   *)
(* for the first m bytes, by induction over m: all of them are frames      *)
(* found, or those behind byte k begin a message that does not end with    *)
(* byte m; Begins says which.                                              *)
(*                                                                         *)
(* The rest takes it to the system.  The client's invariant, from          *)
(* ClientSendProofs, gives that the bytes of each thread arrive in order   *)
(* and without a gap; that of the parser, from PacketSyncProofs, that it   *)
(* has found the frames of what it has read.  The parser reads a stream    *)
(* that grows under it: the client's steps only add to what is there.      *)
(***************************************************************************)
EXTENDS Link, ClientSendProofs

(* The server's parser, with what is proved about it. *)
PP == INSTANCE PacketSyncProofs WITH
    pieces     <- <<[frame |-> FALSE, data |-> <<>>, bytes |-> Values(wire)]>>,
    earlier    <- [bytes |-> <<>>, frames |-> 0],
    connection <- 1,
    MaxPieces  <- <<1>>,
    Messages   <- {}, Noise <- Seq(0 .. 255),
    ByteValues <- 256, HostOrders <- {}

(* What is assumed there of the constants. *)
LEMMA ParserAssumptions ==
    /\ HEAD \in 0 .. 255 /\ TAIL \in 0 .. 255
    /\ BufferSize \in Nat /\ BufferSize >= PP!HeadLen + 2
    /\ {} \cup Seq(0 .. 255) \subseteq Seq(0 .. 255)
    /\ ChunkSizes \subseteq Nat \ {0} /\ <<1>> \in Seq(Nat) \ {<<>>}
    /\ \A data \in {} : PP!PacketData(data) \in Seq(0 .. 255)
    /\ 256 \in Nat \ {0} /\ 256 % 2 = 0 /\ {} \subseteq {"little", "big"}
BY ParserAssumption DEF PP!HeadLen, Parser!HeadLen

LEMMA ParserReturn == Parser!Return => PP!Return
BY DEF Parser!Return, PP!Return, Parser!MoreToParse, PP!MoreToParse, Parser!HeadLen, PP!HeadLen,
   Parser!parser, PP!parser, Parser!history, PP!history

LEMMA ParserNew == Parser!NewParser => PP!NewParser
BY DEF Parser!NewParser, PP!NewParser

LEMMA ParserHead == Parser!ParseHead => PP!ParseHead
BY DEF Parser!ParseHead, PP!ParseHead, Parser!MoreToParse, PP!MoreToParse,
   Parser!HeadLen, PP!HeadLen, Parser!history, PP!history, Parser!Smaller, PP!Smaller, Parser!Larger, PP!Larger, Parser!From, PP!From,
   Parser!ToNetPacket, PP!ToNetPacket, Parser!Signed, PP!Signed, Parser!ValidHeader, PP!ValidHeader,
   Parser!BehindHead, PP!BehindHead, Parser!Min, PP!Min

LEMMA ParserWaits == Parser!WaitForData => PP!WaitForData
BY DEF Parser!WaitForData, PP!WaitForData, Parser!Missing, PP!Missing, Parser!history, PP!history

LEMMA SameFlatten == \A q : Parser!FlattenSeq(q) = PP!FlattenSeq(q) /\ FlattenSeq(q) = PP!FlattenSeq(q)
BY DEF Parser!FlattenSeq, PP!FlattenSeq, FlattenSeq

LEMMA ParserReads == \A n : Parser!RecvData(n) => PP!RecvData(n)
<1>1. Parser!Stream = PP!Stream
  BY SameFlatten DEF Parser!Stream, PP!Stream, Parser!Joined, PP!Joined
<1> QED BY <1>1 DEF Parser!RecvData, PP!RecvData, Parser!parser, PP!parser, Parser!history, PP!history

LEMMA SameData ==
    /\ \A data : Parser!PacketData(data) = PP!PacketData(data)
    /\ \A bytes : Parser!GoodFrame(bytes) = PP!GoodFrame(bytes)
    /\ Parser!Missing = PP!Missing /\ Parser!Whole = PP!Whole
    /\ Parser!InReadData = PP!InReadData /\ Parser!AfterFrame = PP!AfterFrame
<1>1. \A data : Parser!Check(data) = PP!Check(data)
  BY DEF Parser!Check, PP!Check
<1>2. \A data : Parser!PacketData(data) = PP!PacketData(data)
  BY <1>1 DEF Parser!PacketData, PP!PacketData
<1>3. \A bytes : Parser!GoodFrame(bytes) = PP!GoodFrame(bytes)
  BY <1>1 DEF Parser!GoodFrame, PP!GoodFrame, Parser!Signed, PP!Signed
<1>4. Parser!Missing = PP!Missing /\ Parser!Whole = PP!Whole
  BY DEF Parser!Missing, PP!Missing, Parser!Whole, PP!Whole
<1>5. Parser!InReadData = PP!InReadData /\ Parser!AfterFrame = PP!AfterFrame
  BY DEF Parser!InReadData, PP!InReadData, Parser!AfterFrame, PP!AfterFrame, Parser!From, PP!From,
         Parser!HeadLen, PP!HeadLen
<1> QED BY <1>2, <1>3, <1>4, <1>5

LEMMA ParserRejects == Parser!Reject => PP!Reject
BY SameData DEF Parser!Reject, PP!Reject, Parser!From, PP!From, Parser!BehindHead, PP!BehindHead,
   Parser!HeadLen, PP!HeadLen, Parser!RoomFor, PP!RoomFor, Parser!Larger, PP!Larger,
   Parser!history, PP!history

LEMMA ParserDelivers == Parser!Deliver => PP!Deliver
BY SameData DEF Parser!Deliver, PP!Deliver, Parser!From, PP!From

-----------------------------------------------------------------------------
(* Where the messages of a thread lie among its bytes.                     *)

(* The number of its bytes up to the end of its message c. *)
End(s, c) == Len(FlattenSeq([i \in 1 .. c |-> Framed(Text[s][i])]))

Calls(s) == 1 .. Len(Text[s])
FrameOf(s, c) == Framed(Text[s][c])
FramesOf(s) == [c \in DOMAIN Text[s] |-> Framed(Text[s][c])]

LEMMA TextTypes ==
    ASSUME NEW s \in Sender
    PROVE  /\ Len(Text[s]) \in Nat /\ DOMAIN Text[s] = Calls(s)
           /\ \A c \in Calls(s) : /\ Text[s][c] \in PP!GoodData
                                  /\ FrameOf(s, c) = PP!PacketData(Text[s][c])
                                  /\ FrameOf(s, c) \in Seq(0 .. 255)
                                  /\ FrameOf(s, c) \in PP!Bytes
                                  /\ Len(FrameOf(s, c)) \in Nat /\ Len(FrameOf(s, c)) >= 6
<1>1. Text[s] \in Seq(Seq(0 .. 255))
  BY TextAssumption
<1>2. Len(Text[s]) \in Nat /\ DOMAIN Text[s] = Calls(s)
  BY <1>1, LenProperties DEF Calls
<1>3. ASSUME NEW c \in Calls(s)
      PROVE  /\ Text[s][c] \in PP!GoodData
             /\ FrameOf(s, c) = PP!PacketData(Text[s][c])
             /\ FrameOf(s, c) \in Seq(0 .. 255)
  <2>1. /\ Text[s][c] \in Seq(0 .. 255) /\ Len(Text[s][c]) < 128
        /\ FrameOf(s, c) = Parser!PacketData(Text[s][c]) /\ FrameOf(s, c) \in Seq(0 .. 255)
    BY <1>1, <1>2, TextAssumption, ElementOfSeq DEF FrameOf
  <2>2. FrameOf(s, c) = PP!PacketData(Text[s][c])
    BY <2>1, SameData
  <2> QED BY <2>1, <2>2 DEF PP!GoodData, PP!Bytes
<1>4. ASSUME NEW c \in Calls(s)
      PROVE  Len(FrameOf(s, c)) \in Nat /\ Len(FrameOf(s, c)) >= 6
  <2> DEFINE data == Text[s][c]
             H == PP!HeadOfFrame(data)
             W == data \o <<TAIL>>
  <2>1. FrameOf(s, c) = H \o W /\ Len(H \o W) = Len(data) + 6
    <3>1. data \in PP!GoodData /\ FrameOf(s, c) = PP!PacketData(data)
      BY <1>3
    <3> HIDE DEF data
    <3> QED BY ONLY SMTT(30), <3>1, ParserAssumptions, PP!FrameParts DEF H, W
  <2>2. Len(data) \in Nat
    <3>1. data \in Seq(0 .. 255)
      BY <1>3 DEF PP!GoodData, PP!Bytes
    <3> QED BY <3>1, LenProperties
  <2> HIDE DEF data, H, W
  <2> QED BY <2>1, <2>2
<1> QED BY <1>2, <1>3, <1>4 DEF PP!Bytes

LEMMA Layout ==
    ASSUME NEW s \in Sender
    PROVE  /\ End(s, 0) = 0
           /\ \A c \in 0 .. Len(Text[s]) : End(s, c) \in Nat
           /\ Sent[s] \in Seq(0 .. 255)
           /\ \A c \in Calls(s) :
                  /\ End(s, c) = End(s, c - 1) + Len(FrameOf(s, c))
                  /\ End(s, c) <= Len(Sent[s])
                  /\ \A j \in 1 .. Len(FrameOf(s, c)) :
                         Sent[s][End(s, c - 1) + j] = FrameOf(s, c)[j]
<1> DEFINE q == FramesOf(s)
           n == Len(Text[s])
<1>1. n \in Nat /\ DOMAIN Text[s] = 1 .. n /\ \A c \in 1 .. n : FrameOf(s, c) \in Seq(0 .. 255)
  BY TextTypes DEF Calls
<1>2. q \in Seq(Seq(0 .. 255)) /\ Len(q) = n /\ \A c \in 1 .. n : q[c] = FrameOf(s, c)
  <2>1. q = [c \in 1 .. n |-> FrameOf(s, c)]
    BY <1>1 DEF FramesOf, FrameOf
  <2> HIDE DEF n
  <2>2. q \in [1 .. n -> Seq(0 .. 255)]
    BY <1>1, <2>1
  <2> HIDE DEF q
  <2>3. q \in Seq(Seq(0 .. 255)) /\ Len(q) = n
    BY <1>1, <2>2, FunctionIsSeq
  <2> QED BY <2>1, <2>3
<1>3. Sent[s] = PP!FlattenSeq(q)
  BY SameFlatten DEF Sent, FramesOf
<1>4. ASSUME NEW c \in 0 .. n PROVE End(s, c) = Len(PP!FirstOnes(q, c))
  <2>1. [i \in 1 .. c |-> q[i]] = [i \in 1 .. c |-> Framed(Text[s][i])]
    <3>1. \A i \in 1 .. c : q[i] = Framed(Text[s][i])
      BY <1>1, <1>2 DEF FrameOf
    <3> HIDE DEF q
    <3> QED BY <3>1
  <2> QED BY <2>1, SameFlatten DEF End, PP!FirstOnes
<1> HIDE DEF q, n
<1>5. /\ \A c \in 0 .. n : PP!FirstOnes(q, c) \in PP!Bytes
      /\ PP!FirstOnes(q, 0) = <<>>
      /\ PP!FirstOnes(q, Len(q)) = PP!FlattenSeq(q)
  <2>1. q \in Seq(PP!Bytes) /\ Len(q) = n
    BY <1>2 DEF PP!Bytes
  <2> QED BY ONLY ZenonT(30), <2>1, ParserAssumptions, PP!FirstOnesGrow
<1>6. End(s, 0) = 0 /\ \A c \in 0 .. n : End(s, c) \in Nat
  <2>1. 0 \in 0 .. n
    BY <1>1
  <2>2. \A c \in 0 .. n : Len(PP!FirstOnes(q, c)) \in Nat
    BY <1>5, LenProperties DEF PP!Bytes
  <2> QED BY <1>4, <1>5, <2>1, <2>2
<1>7. Sent[s] \in Seq(0 .. 255)
  <2>1. n \in 0 .. n
    BY <1>1
  <2> QED BY <1>2, <1>3, <1>5, <2>1 DEF PP!Bytes
<1>8. ASSUME NEW c \in 1 .. n
      PROVE  /\ End(s, c) = End(s, c - 1) + Len(FrameOf(s, c))
             /\ End(s, c) <= Len(Sent[s])
             /\ \A j \in 1 .. Len(FrameOf(s, c)) :
                    Sent[s][End(s, c - 1) + j] = FrameOf(s, c)[j]
  <2>1. c \in 0 .. n /\ c - 1 \in 0 .. n /\ c \in 1 .. Len(q)
    BY <1>1, <1>2
  <2>2. /\ Len(PP!FirstOnes(q, c)) = Len(PP!FirstOnes(q, c - 1)) + Len(q[c])
        /\ PP!LiesBehind(Len(PP!FirstOnes(q, c - 1)), q[c], PP!FlattenSeq(q))
    <3>1. q \in Seq(PP!Bytes)
      BY <1>2 DEF PP!Bytes
    <3> QED BY ONLY <2>1, <3>1, ParserAssumptions, PP!PlaceInFlat
  <2>3. /\ Len(PP!FirstOnes(q, c)) = End(s, c) /\ Len(PP!FirstOnes(q, c - 1)) = End(s, c - 1)
        /\ q[c] = FrameOf(s, c)
    BY <1>2, <1>4, <2>1
  <2>4. End(s, c) \in Nat /\ End(s, c - 1) \in Nat
    BY <1>6, <2>1
  <2>5. /\ End(s, c) = End(s, c - 1) + Len(FrameOf(s, c))
        /\ End(s, c - 1) + Len(FrameOf(s, c)) <= Len(Sent[s])
        /\ \A j \in 1 .. Len(FrameOf(s, c)) :
               Sent[s][End(s, c - 1) + j] = FrameOf(s, c)[j]
    BY ONLY <1>3, <2>2, <2>3 DEF PP!LiesBehind
  <2> QED BY <2>5
<1> QED BY <1>6, <1>7, <1>8 DEF Calls, n

(* A later message ends no earlier. *)
LEMMA EndsGrow ==
    ASSUME NEW s \in Sender, NEW c \in 0 .. Len(Text[s]), NEW d \in c .. Len(Text[s])
    PROVE  End(s, c) <= End(s, d)
<1> DEFINE n == Len(Text[s])
           T == {k \in Nat : c + k <= n => End(s, c) <= End(s, c + k)}
<1>1. n \in Nat
  BY TextTypes
<1>2. /\ \A k \in 0 .. n : End(s, k) \in Nat
      /\ \A k \in 1 .. n : End(s, k) = End(s, k - 1) + Len(FrameOf(s, k))
      /\ \A k \in 1 .. n : Len(FrameOf(s, k)) \in Nat
  BY Layout, TextTypes DEF Calls
<1>3. c \in 0 .. n /\ d \in c .. n
  OBVIOUS
<1> HIDE DEF n
<1>4. 0 \in T
  BY <1>1, <1>2, <1>3
<1>5. ASSUME NEW k \in Nat, k \in T PROVE k + 1 \in T
  <2> SUFFICES ASSUME c + (k + 1) <= n PROVE End(s, c) <= End(s, c + (k + 1))
    OBVIOUS
  <2>1. /\ c + (k + 1) \in 1 .. n /\ (c + (k + 1)) - 1 = c + k
        /\ c + k \in 0 .. n /\ c + k <= n /\ c \in 0 .. n
    BY <1>1, <1>3
  <2>2. End(s, c + (k + 1)) = End(s, c + k) + Len(FrameOf(s, c + (k + 1)))
    BY <1>2, <2>1
  <2>3. End(s, c) <= End(s, c + k)
    BY <1>5, <2>1
  <2>4. End(s, c) \in Nat /\ End(s, c + k) \in Nat /\ Len(FrameOf(s, c + (k + 1))) \in Nat
    BY <1>2, <2>1
  <2> QED BY <2>2, <2>3, <2>4
<1>6. Nat \subseteq T
  <2> HIDE DEF T
  <2> QED BY <1>4, <1>5, Induction
<1>7. d - c \in Nat /\ c + (d - c) = d /\ d <= n
  BY <1>1, <1>3
<1>8. d - c \in T
  <2> HIDE DEF T
  <2> QED BY <1>6, <1>7
<1> QED BY <1>7, <1>8

(* A byte of one of the messages of its thread. *)
Placed(b) ==
    /\ b \in Bytes /\ b.call \in Calls(b.by)
    /\ b.nth \in End(b.by, b.call - 1) + 1 .. End(b.by, b.call)

LEMMA PlaceTypesOf ==
    ASSUME NEW b, Placed(b)
    PROVE  /\ b.by \in Sender /\ b.call \in Nat \ {0} /\ b.nth \in Nat \ {0}
           /\ b.call \in 0 .. Len(Text[b.by]) /\ b.call - 1 \in 0 .. Len(Text[b.by])
           /\ End(b.by, b.call) \in Nat /\ End(b.by, b.call - 1) \in Nat
           /\ LastOf(b) <=> b.nth = End(b.by, b.call)
<1>1. b.by \in Sender /\ b.call \in Calls(b.by)
  BY DEF Placed, Bytes
<1>2. Len(Text[b.by]) \in Nat
  BY <1>1, TextTypes
<1>3. b.call \in Nat \ {0} /\ b.call \in 0 .. Len(Text[b.by]) /\ b.call - 1 \in 0 .. Len(Text[b.by])
  BY <1>1, <1>2 DEF Calls
<1>4. End(b.by, b.call) \in Nat /\ End(b.by, b.call - 1) \in Nat
  BY <1>1, <1>3, Layout
<1>5. LastOf(b) <=> b.nth = End(b.by, b.call)
  BY DEF LastOf, End
<1> QED BY <1>1, <1>3, <1>4, <1>5 DEF Placed

(* The byte of a thread that comes just before is of the same message,     *)
(* unless one ends there.                                                  *)
LEMMA SameMessage ==
    ASSUME NEW a, NEW b, Placed(a), Placed(b), a.by = b.by, a.nth + 1 = b.nth,
           b.nth # End(b.by, b.call - 1) + 1
    PROVE  a.call = b.call /\ ~LastOf(a)
<1> DEFINE s == b.by
           n == Len(Text[s])
<1>1. /\ s \in Sender /\ a.call \in Nat \ {0} /\ b.call \in Nat \ {0} /\ n \in Nat
      /\ a.call \in 1 .. n /\ b.call \in 1 .. n
      /\ a.nth \in Nat /\ b.nth \in Nat
      /\ End(s, a.call) \in Nat /\ End(s, a.call - 1) \in Nat
      /\ End(s, b.call) \in Nat /\ End(s, b.call - 1) \in Nat
      /\ LastOf(a) <=> a.nth = End(s, a.call)
  BY SMTT(30), PlaceTypesOf, TextTypes DEF Placed, Calls
<1>2. /\ a.nth >= End(s, a.call - 1) + 1 /\ a.nth <= End(s, a.call)
      /\ b.nth >= End(s, b.call - 1) + 1 /\ b.nth <= End(s, b.call)
  BY <1>1 DEF Placed
<1> HIDE DEF s, n
<1>3. ASSUME a.call < b.call PROVE FALSE
  <2>1. a.call \in 0 .. Len(Text[s]) /\ b.call - 1 \in a.call .. Len(Text[s])
    BY <1>1, <1>3 DEF n
  <2>2. End(s, a.call) <= End(s, b.call - 1)
    BY <1>1, <2>1, EndsGrow
  <2> QED BY <1>1, <1>2, <2>2 DEF s
<1>4. ASSUME b.call < a.call PROVE FALSE
  <2>1. b.call \in 0 .. Len(Text[s]) /\ a.call - 1 \in b.call .. Len(Text[s])
    BY <1>1, <1>4 DEF n
  <2>2. End(s, b.call) <= End(s, a.call - 1)
    BY <1>1, <2>1, EndsGrow
  <2> QED BY <1>1, <1>2, <2>2
<1>5. a.call = b.call
  BY <1>1, <1>3, <1>4
<1> QED BY <1>1, <1>2, <1>5

-----------------------------------------------------------------------------
(* A stream whose messages are not torn.                                   *)

(* The bytes of each thread are in their order, from its first one on. *)
Gapless(A) ==
    /\ A \in Seq(Bytes)
    /\ \A i \in 1 .. Len(A) : Placed(A[i])
    /\ \A i, j \in 1 .. Len(A) : i < j /\ A[i].by = A[j].by => A[i].nth < A[j].nth
    /\ \A i \in 1 .. Len(A) :
           A[i].nth > 1 => \E j \in 1 .. Len(A) : A[j].by = A[i].by /\ A[j].nth + 1 = A[i].nth

(* A byte follows its predecessor in the message, or begins the next.      *)
LEMMA NextByte ==
    ASSUME NEW A, Gapless(A), ~Torn(A), NEW m \in 0 .. Len(A) - 1, NEW b, b = A[m + 1]
    PROVE  IF m = 0 \/ LastOf(A[m])
           THEN b.nth = End(b.by, b.call - 1) + 1
           ELSE b.by = A[m].by /\ b.call = A[m].call /\ b.nth = A[m].nth + 1
<1>1. Len(A) \in Nat /\ m \in Nat /\ m + 1 \in 1 .. Len(A)
  BY DEF Gapless
<1>2. \A i \in 1 .. Len(A) : Placed(A[i]) /\ A[i].nth \in Nat \ {0}
  BY PlaceTypesOf DEF Gapless
<1>3. \A i \in 1 .. m : /\ i \in 1 .. Len(A) /\ i \in 1 .. Len(A) - 1 /\ i + 1 \in 1 .. Len(A)
                         /\ ~LastOf(A[i]) => A[i + 1].by = A[i].by /\ A[i + 1].call = A[i].call
  <2> SUFFICES ASSUME NEW i \in 1 .. m
               PROVE  /\ i \in 1 .. Len(A) /\ i \in 1 .. Len(A) - 1 /\ i + 1 \in 1 .. Len(A)
                      /\ ~LastOf(A[i]) => A[i + 1].by = A[i].by /\ A[i + 1].call = A[i].call
    OBVIOUS
  <2>1. i \in 1 .. Len(A) /\ i \in 1 .. Len(A) - 1 /\ i + 1 \in 1 .. Len(A)
    BY <1>1
  <2>2. ~LastOf(A[i]) => <<A[i + 1].by, A[i + 1].call>> = <<A[i].by, A[i].call>>
    BY <2>1 DEF Torn
  <2> QED BY <2>1, <2>2
<1>4. /\ \A i, j \in 1 .. Len(A) : i < j /\ A[i].by = A[j].by => A[i].nth < A[j].nth
      /\ b.nth > 1 => \E j \in 1 .. Len(A) : A[j].by = b.by /\ A[j].nth + 1 = b.nth
  BY <1>1 DEF Gapless
<1>5. ASSUME NEW j \in 1 .. Len(A), A[j].by = b.by, A[j].nth + 1 = b.nth PROVE j \in 1 .. m
  <2>1. A[j].nth < b.nth
    BY <1>2, <1>5
  <2>2. ~(m + 1 < j) /\ m + 1 # j
    BY <1>1, <1>2, <1>4, <1>5, <2>1
  <2> QED BY <1>1, <2>2
<1>6. CASE m = 0 \/ LastOf(A[m])
  <2> SUFFICES ASSUME b.nth # End(b.by, b.call - 1) + 1 PROVE FALSE
    BY <1>6
  <2>1. Placed(b) /\ b.nth > 1
    <3>1. Placed(b)
      BY <1>1, <1>2
    <3>2. End(b.by, b.call - 1) \in Nat /\ End(b.by, b.call) \in Nat
      BY <3>1, PlaceTypesOf
    <3>3. b.nth \in End(b.by, b.call - 1) + 1 .. End(b.by, b.call)
      BY <3>1 DEF Placed
    <3> QED BY <3>1, <3>2, <3>3
  <2>2. PICK j \in 1 .. Len(A) : A[j].by = b.by /\ A[j].nth + 1 = b.nth
    BY <1>4, <2>1
  <2>3. j \in 1 .. m
    BY <1>5, <2>2
  <2>4. ~LastOf(A[j])
    BY <1>2, <2>1, <2>2, SameMessage
  <2>5. A[j + 1].by = A[j].by /\ j + 1 \in 1 .. Len(A) /\ j \in 1 .. Len(A)
    BY <1>3, <2>3, <2>4
  <2>6. A[j].nth < A[j + 1].nth
    BY <1>4, <2>5
  <2>7. j # m
    BY <1>1, <1>6, <2>3, <2>4
  <2>8. j + 1 < m + 1
    BY <1>1, <2>3, <2>7
  <2>9. A[j + 1].nth < A[m + 1].nth
    BY <1>1, <1>4, <2>2, <2>5, <2>8
  <2>10. A[j].nth \in Nat /\ A[j + 1].nth \in Nat /\ A[m + 1].nth \in Nat
    BY <1>1, <1>2, <2>5
  <2> QED BY <2>2, <2>6, <2>9, <2>10
<1>7. CASE ~(m = 0 \/ LastOf(A[m]))
  <2>1. m \in 1 .. m /\ m \in 1 .. Len(A)
    BY <1>1, <1>7
  <2>2. b.by = A[m].by /\ b.call = A[m].call
    BY <1>3, <1>7, <2>1
  <2>3. A[m].nth < b.nth /\ A[m].nth \in Nat /\ b.nth \in Nat
    BY <1>1, <1>2, <1>4, <2>1, <2>2
  <2>4. ASSUME A[m].nth + 1 < b.nth PROVE FALSE
    <3>0. A[m].nth \in Nat \ {0} /\ b.nth > 1
      BY <1>2, <2>1, <2>3
    <3>1. PICK j \in 1 .. Len(A) : A[j].by = b.by /\ A[j].nth + 1 = b.nth
      BY <1>4, <3>0
    <3>2. j \in 1 .. m /\ A[j].nth \in Nat
      BY <1>2, <1>5, <3>1
    <3>3. A[m].nth < A[j].nth
      BY <2>3, <2>4, <3>1, <3>2
    <3>4. CASE j = m
      BY <2>3, <3>3, <3>4
    <3>5. CASE j # m
      <4>1. j < m
        BY <1>1, <3>2, <3>5
      <4>2. A[j].nth < A[m].nth
        BY <1>4, <2>1, <2>2, <3>1, <4>1
      <4> QED BY <2>3, <3>2, <3>3, <4>2
    <3> QED BY <3>4, <3>5
  <2>5. b.nth = A[m].nth + 1
    BY <2>3, <2>4
  <2> QED BY <1>7, <2>2, <2>5
<1> QED BY <1>6, <1>7

(* A thread that sends alone tears no message. *)
LEMMA AloneUntorn ==
    ASSUME NEW A, Gapless(A), NEW s, Sender = {s}
    PROVE  ~Torn(A)
<1> SUFFICES ASSUME NEW i \in 1 .. Len(A) - 1, ~LastOf(A[i])
             PROVE  A[i + 1].by = A[i].by /\ A[i + 1].call = A[i].call
  BY DEF Torn
<1> DEFINE a == A[i]
           b == A[i + 1]
           n == Len(Text[s])
           c == a.call
           d == b.call
<1>1. Len(A) \in Nat /\ i \in Nat /\ i \in 1 .. Len(A) /\ i + 1 \in 1 .. Len(A) /\ i < i + 1
  BY LenProperties DEF Gapless
<1>2. \A j \in 1 .. Len(A) : Placed(A[j]) /\ A[j].by = s /\ A[j].nth \in Nat
  BY PlaceTypesOf DEF Gapless
<1>3. /\ Placed(a) /\ Placed(b) /\ a.by = s /\ b.by = s /\ a.nth \in Nat /\ b.nth \in Nat
      /\ a.nth < b.nth
  BY <1>1, <1>2 DEF Gapless
<1>4. b.nth = a.nth + 1
  <2> SUFFICES ASSUME a.nth + 1 < b.nth PROVE FALSE
    BY <1>3
  <2>1. b.nth > 1
    BY <1>3
  <2>2. PICK j \in 1 .. Len(A) : A[j].by = s /\ A[j].nth + 1 = b.nth
    BY <1>1, <1>3, <2>1 DEF Gapless
  <2>3. j < i \/ j = i \/ j = i + 1 \/ i + 1 < j
    BY <1>1
  <2>4. CASE j < i
    <3>1. A[j].nth < a.nth
      BY <1>1, <1>3, <2>2, <2>4 DEF Gapless
    <3> QED BY <1>2, <1>3, <2>2, <3>1
  <2>5. CASE i + 1 < j
    <3>1. b.nth < A[j].nth
      BY <1>1, <1>3, <2>2, <2>5 DEF Gapless
    <3> QED BY <1>2, <1>3, <2>2, <3>1
  <2>6. CASE j = i
    BY <1>3, <2>2, <2>6
  <2>7. CASE j = i + 1
    BY <1>3, <2>2, <2>7
  <2> QED BY <2>3, <2>4, <2>5, <2>6, <2>7
<1>5. /\ s \in Sender /\ n \in Nat /\ c \in 1 .. n /\ d \in 1 .. n
      /\ End(s, c) \in Nat /\ End(s, d - 1) \in Nat /\ a.nth <= End(s, c)
      /\ a.nth # End(s, c)
  <2> HIDE DEF a, b
  <2>1. s \in Sender /\ n \in Nat
    BY <1>3, TextTypes
  <2>2. c \in 1 .. n /\ d \in 1 .. n
    BY <1>3 DEF Placed, Calls
  <2>3. End(s, c) \in Nat /\ End(s, c - 1) \in Nat /\ End(s, d - 1) \in Nat
    BY <1>3, PlaceTypesOf
  <2>4. a.nth \in End(s, c - 1) + 1 .. End(s, c)
    BY <1>3 DEF Placed
  <2>5. a.nth # End(s, c)
    BY <1>3, PlaceTypesOf DEF a
  <2> QED BY <1>3, <2>1, <2>2, <2>3, <2>4, <2>5
<1> HIDE DEF a, b
<1>6. ASSUME b.nth = End(s, d - 1) + 1 PROVE FALSE
  <2> DEFINE x == End(s, d - 1)
             y == End(s, c)
             z == End(s, c - 1)
  <2>0. z \in Nat /\ z + 1 <= a.nth
    <3>1. z \in Nat
      BY <1>3, PlaceTypesOf
    <3>2. a.nth \in z + 1 .. y
      BY <1>3 DEF Placed
    <3> QED BY <1>5, <3>1, <3>2
  <2>1. x \in Nat /\ y \in Nat /\ a.nth = x /\ x < y /\ z < x
    <3>1. b.nth = x + 1 /\ x \in Nat /\ y \in Nat
      BY <1>5, <1>6
    <3>2. a.nth <= y /\ a.nth # y
      BY <1>5
    <3> HIDE DEF x, y, z
    <3>3. a.nth = x
      BY <1>3, <1>4, <3>1
    <3> QED BY <1>3, <2>0, <3>1, <3>2, <3>3
  <2> HIDE DEF c, d, n
  <2>2. ASSUME c <= d - 1 PROVE FALSE
    <3>1. c \in 0 .. n /\ d - 1 \in c .. n
      BY <1>5, <2>2
    <3>2. y <= x
      BY <1>5, <3>1, EndsGrow DEF n
    <3> HIDE DEF x, y
    <3> QED BY <2>1, <3>2
  <2>3. ASSUME d - 1 <= c - 1 PROVE FALSE
    <3>1. d - 1 \in 0 .. n /\ c - 1 \in d - 1 .. n
      BY <1>5, <2>3
    <3>2. x <= z
      BY <1>5, <3>1, EndsGrow DEF n
    <3> HIDE DEF x, z
    <3> QED BY <2>0, <2>1, <3>2
  <2>4. c <= d - 1 \/ d - 1 <= c - 1
    BY <1>5
  <2> QED BY <2>2, <2>3, <2>4
<1>7. c = d
  BY <1>3, <1>4, <1>6, SameMessage
<1> QED BY <1>3, <1>7 DEF a, b

(* The values of bytes are bytes. *)
LEMMA ValuesType ==
    ASSUME NEW A \in Seq(Bytes), \A i \in 1 .. Len(A) : Placed(A[i])
    PROVE  /\ Values(A) \in PP!Bytes /\ Len(Values(A)) = Len(A)
           /\ \A i \in 1 .. Len(A) : Values(A)[i] = Sent[A[i].by][A[i].nth]
<1> DEFINE n == Len(A)
<1>1. n \in Nat /\ DOMAIN A = 1 .. n
  BY LenProperties
<1>2. ASSUME NEW i \in 1 .. n PROVE Sent[A[i].by][A[i].nth] \in 0 .. 255
  <2> DEFINE b == A[i]
             q == Sent[b.by]
  <2>1. /\ Placed(b) /\ b.by \in Sender /\ b.nth \in Nat \ {0} /\ End(b.by, b.call) \in Nat
        /\ b.call \in Calls(b.by) /\ End(b.by, b.call - 1) \in Nat
    BY PlaceTypesOf DEF Placed
  <2>2. b.nth <= End(b.by, b.call)
    BY <2>1 DEF Placed
  <2>3. q \in Seq(0 .. 255) /\ End(b.by, b.call) <= Len(q)
    BY <2>1, Layout
  <2> HIDE DEF b, q
  <2>4. Len(q) \in Nat /\ b.nth \in 1 .. Len(q)
    BY <2>1, <2>2, <2>3, LenProperties
  <2>5. q[b.nth] \in 0 .. 255
    BY <2>3, <2>4, ElementOfSeq
  <2> QED BY <2>5 DEF q, b
<1>3. Values(A) = [i \in 1 .. n |-> Sent[A[i].by][A[i].nth]]
  BY <1>1 DEF Values
<1> HIDE DEF n
<1>4. Values(A) \in [1 .. n -> 0 .. 255]
  BY <1>2, <1>3
<1>5. Values(A) \in Seq(0 .. 255) /\ Len(Values(A)) = n
  BY <1>1, <1>4, FunctionIsSeq
<1> QED BY <1>3, <1>5 DEF n, PP!Bytes

(* What WholeIn computes up to each byte. *)
UpTo(A) == CHOOSE f : f = [i \in 0 .. Len(A) |->
               IF i = 0 THEN <<>>
               ELSE IF LastOf(A[i]) THEN Append(f[i - 1], Text[A[i].by][A[i].call])
               ELSE f[i - 1]]

LEMMA UpToDefined ==
    ASSUME NEW A \in Seq(Bytes), \A i \in 1 .. Len(A) : Placed(A[i])
    PROVE  /\ UpTo(A)[0] = <<>>
           /\ \A i \in 1 .. Len(A) :
                  UpTo(A)[i] = IF LastOf(A[i])
                               THEN Append(UpTo(A)[i - 1], Text[A[i].by][A[i].call])
                               ELSE UpTo(A)[i - 1]
           /\ \A i \in 0 .. Len(A) : UpTo(A)[i] \in Seq(PP!Bytes)
           /\ WholeIn(A) = UpTo(A)[Len(A)]
<1> DEFINE n == Len(A)
           V == Seq(PP!Bytes)
           text(i) == Text[A[i].by][A[i].call]
           Adds(i, v) == IF LastOf(A[i]) THEN Append(v, text(i)) ELSE v
           step == [iv \in (1 .. n) \X V |-> Adds(iv[1], iv[2])]
           Does(f) == f = [i \in 0 .. n |-> IF i = 0 THEN <<>>
                                            ELSE IF LastOf(A[i]) THEN Append(f[i - 1], text(i))
                                            ELSE f[i - 1]]
<1>1. n \in Nat /\ <<>> \in V
  BY LenProperties, EmptySeq
<1>2. ASSUME NEW i \in 1 .. n PROVE text(i) \in PP!Bytes
  <2>1. Placed(A[i]) /\ A[i].by \in Sender /\ A[i].call \in Calls(A[i].by)
    BY PlaceTypesOf DEF Placed
  <2> QED BY <2>1, TextTypes DEF PP!GoodData
<1> HIDE DEF n, text
<1>3. ASSUME NEW i \in 1 .. n, NEW v \in V PROVE Adds(i, v) \in V
  BY <1>2, AppendProperties
<1>4. IsStep(V, n, step)
  <2> HIDE DEF Adds, V
  <2>1. step \in [(1 .. n) \X V -> V]
    BY <1>3
  <2> HIDE DEF step
  <2> QED BY <2>1 DEF IsStep
<1>5. Unfolds(V, n, <<>>, step)
  <2> HIDE DEF V, step
  <2> QED BY <1>1, <1>4, Recursion
<1>6. PICK f \in [0 .. n -> V] : f[0] = <<>> /\ \A i \in 1 .. n : f[i] = step[<<i, f[i - 1]>>]
  BY <1>5 DEF Unfolds
<1>7. ASSUME NEW i \in 1 .. n PROVE f[i] = Adds(i, f[i - 1])
  <2>1. i - 1 \in 0 .. n /\ f[i - 1] \in V
    <3>1. i - 1 \in 0 .. n
      BY <1>1
    <3> QED BY <1>6, <3>1
  <2>2. <<i, f[i - 1]>> \in (1 .. n) \X V
    BY <2>1
  <2>3. step[<<i, f[i - 1]>>] = Adds(i, f[i - 1])
    <3> HIDE DEF Adds, V
    <3> QED BY <2>2
  <2> QED BY <1>6, <2>3
<1>8. Does(f)
  <2> DEFINE g == [i \in 0 .. n |-> IF i = 0 THEN <<>>
                                    ELSE IF LastOf(A[i]) THEN Append(f[i - 1], text(i))
                                    ELSE f[i - 1]]
  <2>1. ASSUME NEW i \in 0 .. n PROVE f[i] = g[i]
    <3>1. CASE i = 0
      BY <1>6, <3>1
    <3>2. CASE i # 0
      <4>1. i \in 1 .. n
        BY <1>1, <3>2
      <4> QED BY <1>7, <3>2, <4>1
    <3> QED BY <3>1, <3>2
  <2>2. f \in [0 .. n -> V] /\ DOMAIN g = 0 .. n /\ DOMAIN f = 0 .. n
    BY <1>6
  <2> HIDE DEF V
  <2>3. f = [i \in 0 .. n |-> f[i]] /\ g = [i \in 0 .. n |-> g[i]]
    BY <2>2
  <2>4. f = g
    <3> HIDE DEF g
    <3> QED BY Zenon, <2>1, <2>3
  <2> QED BY <2>4
<1>9. Does(UpTo(A))
  <2>1. UpTo(A) = CHOOSE h : Does(h)
    BY DEF UpTo, n, text
  <2> HIDE DEF Does
  <2> QED BY <1>8, <2>1
<1>10. /\ UpTo(A)[0] = <<>>
       /\ \A i \in 1 .. n : UpTo(A)[i] = IF LastOf(A[i]) THEN Append(UpTo(A)[i - 1], text(i))
                                          ELSE UpTo(A)[i - 1]
  <2> DEFINE u == UpTo(A)
  <2>1. Does(u)
    BY <1>9
  <2> HIDE DEF u
  <2>2. 0 \in 0 .. n /\ \A i \in 1 .. n : i \in 0 .. n /\ i # 0
    BY <1>1
  <2>3. \A i \in 0 .. n : u[i] = IF i = 0 THEN <<>>
                                 ELSE IF LastOf(A[i]) THEN Append(u[i - 1], text(i))
                                 ELSE u[i - 1]
    BY ZenonT(40), <2>1
  <2> QED BY <2>2, <2>3 DEF u
<1>11. \A i \in 0 .. n : UpTo(A)[i] \in V
  <2> DEFINE T == {i \in Nat : i <= n => UpTo(A)[i] \in V}
  <2>1. 0 \in T
    BY <1>1, <1>10
  <2>2. ASSUME NEW i \in Nat, i \in T PROVE i + 1 \in T
    <3> SUFFICES ASSUME i + 1 <= n PROVE UpTo(A)[i + 1] \in V
      OBVIOUS
    <3>1. i + 1 \in 1 .. n /\ (i + 1) - 1 = i /\ i <= n
      BY <1>1
    <3>2. UpTo(A)[i] \in V
      BY <2>2, <3>1
    <3>3. UpTo(A)[i + 1] = Adds(i + 1, UpTo(A)[i])
      BY <1>10, <3>1
    <3> HIDE DEF Adds, V
    <3> QED BY <1>3, <3>1, <3>2, <3>3
  <2> HIDE DEF T
  <2>3. Nat \subseteq T
    BY <2>1, <2>2, Induction
  <2> QED BY <1>1, <2>3 DEF T
<1>12. WholeIn(A) = UpTo(A)[n]
  BY DEF WholeIn, UpTo, n
<1> QED BY <1>10, <1>11, <1>12 DEF n, text

(* The bytes from behind byte k up to byte m are the first ones of message *)
(* c of thread s.                                                          *)
Begins(A, k, m, s, c) ==
    \A j \in 1 .. m - k :
        A[k + j].by = s /\ A[k + j].call = c /\ A[k + j].nth = End(s, c - 1) + j

(* A message begun behind byte k is not at its end with byte m. *)
OpenSince(A, k, m) ==
    /\ k < m
    /\ \E s \in Sender : \E c \in Calls(s) :
           m - k < Len(FrameOf(s, c)) /\ Begins(A, k, m, s, c)

(* The frames found are the messages that are whole among the first m      *)
(* bytes, and those that begin behind byte k.                              *)
SeenUpTo(A, k, m) ==
    /\ k \in 0 .. m
    /\ PP!Frames(Values(A)) = UpTo(A)[m] \o PP!Frames(PP!From(Values(A), k + 1))
    /\ \/ k = m /\ (m = 0 \/ LastOf(A[m]))
       \/ OpenSince(A, k, m)

LEMMA PartIsFrame ==
    ASSUME NEW A, Gapless(A), NEW k \in Nat, NEW m \in Nat, k < m, m <= Len(A),
           NEW s \in Sender, NEW c \in Calls(s), m - k <= Len(FrameOf(s, c)),
           Begins(A, k, m, s, c)
    PROVE  SubSeq(Values(A), k + 1, m) = SubSeq(FrameOf(s, c), 1, m - k)
<1> DEFINE V == Values(A)
           F == FrameOf(s, c)
           x == SubSeq(V, k + 1, m)
           y == SubSeq(F, 1, m - k)
<1>1. /\ V \in PP!Bytes /\ Len(V) = Len(A) /\ Len(A) \in Nat
      /\ \A i \in 1 .. Len(A) : V[i] = Sent[A[i].by][A[i].nth]
  BY ValuesType, LenProperties DEF Gapless
<1>2. F \in PP!Bytes /\ Len(F) \in Nat /\ \A j \in 1 .. Len(F) : Sent[s][End(s, c - 1) + j] = F[j]
  BY TextTypes, Layout
<1> HIDE DEF V, F
<1>3. x \in PP!Bytes /\ Len(x) = m - k /\ \A j \in 1 .. m - k : x[j] = V[k + j]
  <2>1. k + 1 \in Nat \ {0} /\ m \in Nat /\ m <= Len(V) /\ k + 1 <= m
    BY <1>1
  <2>2. /\ x \in PP!Bytes /\ Len(x) = IF k + 1 <= m THEN m - (k + 1) + 1 ELSE 0
        /\ \A i \in 1 .. m - (k + 1) + 1 : x[i] = V[(k + 1) + i - 1]
    BY ONLY <1>1, <2>1, ParserAssumptions, PP!PartOf
  <2> HIDE DEF x
  <2>3. \A j \in 1 .. m - k : j \in 1 .. m - (k + 1) + 1 /\ (k + 1) + j - 1 = k + j
    OBVIOUS
  <2> QED BY <2>1, <2>2, <2>3
<1>4. y \in PP!Bytes /\ Len(y) = m - k /\ \A j \in 1 .. m - k : y[j] = F[j]
  <2>1. 1 \in Nat \ {0} /\ m - k \in Nat /\ m - k <= Len(F) /\ 1 <= m - k
    BY <1>2 DEF F
  <2>2. /\ y \in PP!Bytes /\ Len(y) = IF 1 <= m - k THEN (m - k) - 1 + 1 ELSE 0
        /\ \A i \in 1 .. (m - k) - 1 + 1 : y[i] = F[1 + i - 1]
    BY ONLY <1>2, <2>1, ParserAssumptions, PP!PartOf
  <2> HIDE DEF y
  <2>3. \A j \in 1 .. m - k : j \in 1 .. (m - k) - 1 + 1 /\ 1 + j - 1 = j
    OBVIOUS
  <2> QED BY <2>1, <2>2, <2>3
<1>5. ASSUME NEW j \in 1 .. m - k PROVE x[j] = y[j]
  <2>1. k + j \in 1 .. Len(A) /\ j \in 1 .. Len(F)
    BY <1>1, <1>2 DEF F
  <2>2. V[k + j] = Sent[s][End(s, c - 1) + j]
    BY <1>1, <2>1 DEF Begins
  <2> QED BY <1>2, <1>3, <1>4, <2>1, <2>2
<1>6. x = y
  <2> HIDE DEF x, y
  <2> QED BY <1>3, <1>4, <1>5, ParserAssumptions, PP!SameBytes
<1> QED BY <1>6 DEF V, F

LEMMA SeenNext ==
    ASSUME TAIL < 128, NEW A, Gapless(A), ~Torn(A),
           NEW m \in 0 .. Len(A) - 1, NEW k, SeenUpTo(A, k, m)
    PROVE  \E l : SeenUpTo(A, l, m + 1)
<1> DEFINE V == Values(A)
           b == A[m + 1]
           n == Len(A)
<1>1. /\ n \in Nat /\ m \in Nat /\ m + 1 \in 1 .. n /\ k \in 0 .. m /\ k \in Nat
      /\ A \in Seq(Bytes) /\ \A i \in 1 .. n : Placed(A[i])
  BY DEF Gapless, SeenUpTo
<1>2. /\ Placed(b) /\ b.by \in Sender /\ b.call \in Calls(b.by) /\ End(b.by, b.call - 1) \in Nat
      /\ LastOf(b) <=> b.nth = End(b.by, b.call)
  BY <1>1, PlaceTypesOf DEF Placed
<1>3. /\ End(b.by, b.call) = End(b.by, b.call - 1) + Len(FrameOf(b.by, b.call))
      /\ Len(FrameOf(b.by, b.call)) \in Nat /\ Len(FrameOf(b.by, b.call)) >= 6
  BY <1>2, Layout, TextTypes
<1>4. /\ UpTo(A)[m] \in Seq(PP!Bytes)
      /\ UpTo(A)[m + 1] = IF LastOf(b) THEN Append(UpTo(A)[m], Text[b.by][b.call]) ELSE UpTo(A)[m]
  <2>1. m \in 0 .. n /\ (m + 1) - 1 = m
    BY <1>1
  <2> QED BY <1>1, <2>1, UpToDefined
<1>5. PP!Frames(V) = UpTo(A)[m] \o PP!Frames(PP!From(V, k + 1))
  BY DEF SeenUpTo
<1>6. CASE k = m /\ (m = 0 \/ LastOf(A[m]))
  <2>1. b.nth = End(b.by, b.call - 1) + 1
    BY <1>6, NextByte
  <2>2. ~LastOf(b)
    BY <1>2, <1>3, <2>1
  <2>3. OpenSince(A, m, m + 1)
    <3>1. (m + 1) - m = 1 /\ m < m + 1 /\ \A j \in 1 .. 1 : j = 1
      BY <1>1
    <3>2. 1 < Len(FrameOf(b.by, b.call))
      BY <1>3
    <3> QED BY <1>2, <2>1, <3>1, <3>2 DEF OpenSince, Begins
  <2>4. SeenUpTo(A, m, m + 1)
    <3>1. m \in 0 .. m + 1
      BY <1>1
    <3> QED BY <1>4, <1>5, <1>6, <2>2, <2>3, <3>1 DEF SeenUpTo
  <2> QED BY <2>4
<1>7. CASE OpenSince(A, k, m)
  <2>0. PICK s \in Sender :
            \E c \in Calls(s) : m - k < Len(FrameOf(s, c)) /\ Begins(A, k, m, s, c)
    BY <1>7 DEF OpenSince
  <2>1. PICK c \in Calls(s) : m - k < Len(FrameOf(s, c)) /\ Begins(A, k, m, s, c)
    BY <2>0
  <2>2. k < m /\ m - k \in 1 .. m - k /\ k + (m - k) = m
    BY <1>1, <1>7 DEF OpenSince
  <2>3. A[m].by = s /\ A[m].call = c /\ A[m].nth = End(s, c - 1) + (m - k)
    BY <2>1, <2>2 DEF Begins
  <2>4. ~(m = 0 \/ LastOf(A[m]))
    <3>1. m \in 1 .. n
      BY <1>1, <2>2
    <3>2. LastOf(A[m]) <=> A[m].nth = End(s, c)
      BY <1>1, <2>3, <3>1, PlaceTypesOf
    <3>3. End(s, c) = End(s, c - 1) + Len(FrameOf(s, c)) /\ Len(FrameOf(s, c)) \in Nat
      BY Layout, TextTypes
    <3>4. End(s, c - 1) \in Nat
      BY <1>1, <2>3, <3>1, PlaceTypesOf
    <3>5. m - k \in Nat
      BY <1>1, <2>2
    <3> QED BY <1>1, <2>1, <2>2, <2>3, <3>2, <3>3, <3>4, <3>5
  <2>5. b.by = s /\ b.call = c /\ b.nth = End(s, c - 1) + (m - k) + 1
    BY <2>3, <2>4, NextByte
  <2>6. Begins(A, k, m + 1, s, c)
    <3> SUFFICES ASSUME NEW j \in 1 .. (m + 1) - k
                 PROVE  A[k + j].by = s /\ A[k + j].call = c /\ A[k + j].nth = End(s, c - 1) + j
      BY DEF Begins
    <3>1. CASE j \in 1 .. m - k
      BY <2>1, <3>1 DEF Begins
    <3>2. CASE j \notin 1 .. m - k
      <4>1. j = (m - k) + 1 /\ k + j = m + 1
        BY <1>1, <3>2
      <4>2. End(s, c - 1) \in Nat
        BY <1>2, <2>5
      <4>3. End(s, c - 1) + (m - k) + 1 = End(s, c - 1) + j
        BY <1>1, <4>1, <4>2
      <4> QED BY <2>5, <4>1, <4>3
    <3> QED BY <3>1, <3>2
  <2>7. LastOf(b) <=> (m + 1) - k = Len(FrameOf(s, c))
    <3> DEFINE e == End(s, c - 1)
               l == Len(FrameOf(s, c))
    <3>1. /\ e \in Nat /\ l \in Nat /\ b.nth = e + (m - k) + 1
          /\ LastOf(b) <=> b.nth = e + l
      BY <1>2, <1>3, <2>5
    <3> HIDE DEF e, l
    <3>2. LastOf(b) <=> (m + 1) - k = l
      BY SMTT(30), <1>1, <3>1
    <3> QED BY <3>2 DEF l
  <2>8. CASE LastOf(b)
    <3> DEFINE F == FrameOf(s, c)
               R == PP!From(V, (m + 1) + 1)
               data == Text[s][c]
    <3>1. /\ V \in PP!Bytes /\ Len(V) = n
      BY <1>1, ValuesType
    <3>2. /\ F \in PP!Bytes /\ F = PP!PacketData(data) /\ data \in PP!GoodData /\ data \in PP!Bytes
      BY TextTypes DEF PP!GoodData
    <3>3. SubSeq(V, k + 1, m + 1) = F
      <4>1. SubSeq(V, k + 1, m + 1) = SubSeq(F, 1, (m + 1) - k)
        <5>1. m + 1 \in Nat /\ k < m + 1 /\ m + 1 <= Len(A) /\ (m + 1) - k <= Len(FrameOf(s, c))
          BY <1>1, <1>3, <2>2, <2>5, <2>7, <2>8
        <5> QED BY <1>1, <2>6, <5>1, PartIsFrame
      <4>2. SubSeq(F, 1, Len(F)) = F
        <5>1. PP!From(F, 1) = F
          BY <3>2, ParserAssumptions, PP!WholeBytes
        <5> QED BY <5>1 DEF PP!From
      <4>3. (m + 1) - k = Len(F)
        BY <2>7, <2>8
      <4> QED BY ONLY <4>1, <4>2, <4>3
    <3>4. PP!From(V, k + 1) = F \o R /\ R \in PP!Bytes
      <4>1. /\ k + 1 \in 1 .. Len(V) + 1 /\ m + 1 \in (k + 1) - 1 .. Len(V)
            /\ Len(V) \in m + 1 .. Len(V) /\ m + 1 \in 0 .. Len(V)
        BY <1>1, <2>2, <3>1
      <4> HIDE DEF V
      <4>2. SubSeq(V, k + 1, m + 1) \o SubSeq(V, (m + 1) + 1, Len(V)) = SubSeq(V, k + 1, Len(V))
        BY ONLY ZenonT(30), <3>1, <4>1, ParserAssumptions, PP!CutBytes
      <4>3. R \in PP!Bytes
        BY ONLY <3>1, <4>1, ParserAssumptions, PP!RestOf
      <4> QED BY <3>3, <4>2, <4>3 DEF PP!From
    <3> HIDE DEF V, F, R, data
    <3>5. PP!Frames(F \o R) = <<data>> \o PP!Frames(R) /\ PP!Frames(R) \in Seq(PP!Bytes)
      <4>1. PP!Frames(PP!PacketData(data) \o R) = <<data>> \o PP!Frames(R)
        BY ONLY TAIL < 128, <3>2, <3>4, ParserAssumptions, PP!FrameFound
      <4>2. PP!Frames(R) \in Seq(PP!Bytes)
        BY ONLY <3>4, ParserAssumptions, PP!FramesType
      <4> QED BY <3>2, <4>1, <4>2
    <3>6. UpTo(A)[m + 1] = UpTo(A)[m] \o <<data>> /\ <<data>> \in Seq(PP!Bytes)
      <4>1. UpTo(A)[m + 1] = Append(UpTo(A)[m], data)
        BY <1>4, <2>5, <2>8 DEF data
      <4>2. UpTo(A)[m] \in Seq(PP!Bytes) /\ data \in PP!Bytes
        BY <1>4, <3>2
      <4> QED BY ONLY <4>1, <4>2, AppendIsConcat
    <3>7. PP!Frames(V) = UpTo(A)[m + 1] \o PP!Frames(R)
      <4> DEFINE u == UpTo(A)[m]
                 d == <<data>>
                 r == PP!Frames(R)
      <4>1. u \in Seq(PP!Bytes) /\ d \in Seq(PP!Bytes) /\ r \in Seq(PP!Bytes)
        BY <1>4, <3>5, <3>6
      <4>2. (u \o d) \o r = u \o (d \o r)
        <5> HIDE DEF u, d, r
        <5> QED BY ONLY SMTT(30), <4>1, Associative
      <4> QED BY <1>5, <3>4, <3>5, <3>6, <4>2 DEF V
    <3>8. m + 1 \in 0 .. m + 1 /\ LastOf(A[m + 1])
      BY <1>1, <2>8
    <3>9. SeenUpTo(A, m + 1, m + 1)
      BY <3>7, <3>8 DEF SeenUpTo, V, R
    <3> QED BY <3>9
  <2>9. CASE ~LastOf(b)
    <3>1. (m + 1) - k < Len(FrameOf(s, c))
      BY <1>1, <1>3, <2>1, <2>5, <2>7, <2>9
    <3>2. OpenSince(A, k, m + 1)
      <4>1. k < m + 1
        BY <1>1, <2>2
      <4> QED BY <2>6, <3>1, <4>1 DEF OpenSince
    <3>3. k \in 0 .. m + 1
      BY <1>1
    <3> QED BY <1>4, <1>5, <2>9, <3>2, <3>3 DEF SeenUpTo
  <2> QED BY <2>8, <2>9
<1> QED BY <1>6, <1>7 DEF SeenUpTo

(* The frames of an untorn stream are the messages that are whole in it.   *)
LEMMA UntornFrames ==
    ASSUME TAIL < 128, NEW A, Gapless(A), ~Torn(A)
    PROVE  PP!Frames(Values(A)) = WholeIn(A)
<1> DEFINE V == Values(A)
           n == Len(A)
           T == {m \in Nat : m <= n => \E k : SeenUpTo(A, k, m)}
<1>1. n \in Nat /\ A \in Seq(Bytes) /\ \A i \in 1 .. n : Placed(A[i])
  BY LenProperties DEF Gapless
<1>2. V \in PP!Bytes /\ Len(V) = n
  BY <1>1, ValuesType
<1>3. UpTo(A)[0] = <<>> /\ UpTo(A)[n] \in Seq(PP!Bytes) /\ WholeIn(A) = UpTo(A)[n]
  BY <1>1, UpToDefined
<1> HIDE DEF V
<1>4. 0 \in T
  <2>1. PP!From(V, 0 + 1) = V
    BY <1>2, ParserAssumptions, PP!WholeBytes
  <2>2. PP!Frames(V) \in Seq(PP!Bytes)
    BY ONLY <1>2, ParserAssumptions, PP!FramesType
  <2>3. <<>> \o PP!Frames(V) = PP!Frames(V)
    BY <2>2, ConcatEmptySeq
  <2>4. SeenUpTo(A, 0, 0)
    BY <1>3, <2>1, <2>3 DEF SeenUpTo, V
  <2> QED BY <2>4
<1>5. ASSUME NEW m \in Nat, m \in T PROVE m + 1 \in T
  <2> SUFFICES ASSUME m + 1 <= n PROVE \E k : SeenUpTo(A, k, m + 1)
    OBVIOUS
  <2>1. m \in 0 .. Len(A) - 1 /\ m <= n
    BY <1>1
  <2>2. PICK k : SeenUpTo(A, k, m)
    BY <1>5, <2>1
  <2> QED BY <2>1, <2>2, SeenNext
<1>6. PICK k : SeenUpTo(A, k, n)
  <2>1. Nat \subseteq T
    <3> HIDE DEF T
    <3> QED BY <1>4, <1>5, Induction
  <2> QED BY <1>1, <2>1
<1>7. PP!Frames(PP!From(V, k + 1)) = <<>>
  <2>1. k \in 0 .. n
    BY <1>6 DEF SeenUpTo
  <2>2. CASE k = n
    <3>1. PP!From(V, k + 1) = <<>>
      BY <1>2, <2>2, ParserAssumptions, PP!PastEnd
    <3>2. <<>> \in PP!Bytes /\ Len(<<>>) = 0 /\ 0 < PP!HeadLen + 2
      BY EmptySeq DEF PP!Bytes, PP!HeadLen
    <3>3. PP!Frames(<<>>) = <<>>
      BY ONLY <3>2, ParserAssumptions, PP!FramesShort
    <3> QED BY <3>1, <3>3
  <2>3. CASE OpenSince(A, k, n)
    <3>0. PICK s \in Sender :
              \E c \in Calls(s) : n - k < Len(FrameOf(s, c)) /\ Begins(A, k, n, s, c)
      BY <2>3 DEF OpenSince
    <3>1. PICK c \in Calls(s) : n - k < Len(FrameOf(s, c)) /\ Begins(A, k, n, s, c)
      BY <3>0
    <3>2. /\ Len(FrameOf(s, c)) \in Nat /\ FrameOf(s, c) = PP!PacketData(Text[s][c])
          /\ Text[s][c] \in PP!GoodData
      BY TextTypes
    <3>3. k \in Nat /\ k < n /\ n <= Len(A) /\ n - k \in Nat /\ n - k <= Len(FrameOf(s, c))
      BY <1>1, <2>1, <2>3, <3>1, <3>2 DEF OpenSince
    <3>4. SubSeq(V, k + 1, n) = SubSeq(FrameOf(s, c), 1, n - k)
      BY <1>1, <3>1, <3>3, PartIsFrame DEF V
    <3> HIDE DEF n
    <3>5. PP!Frames(SubSeq(PP!PacketData(Text[s][c]), 1, n - k)) = <<>>
      <4> DEFINE d == Text[s][c]
                 l == n - k
      <4>1. d \in PP!GoodData /\ l \in Nat /\ l < Len(PP!PacketData(d))
        BY <3>1, <3>2, <3>3
      <4> HIDE DEF d, l
      <4>2. PP!Frames(SubSeq(PP!PacketData(d), 1, l)) = <<>>
        BY ONLY TAIL < 128, <4>1, ParserAssumptions, PP!FrameUnfinished
      <4> QED BY <4>2 DEF d, l
    <3> QED BY <1>2, <3>2, <3>4, <3>5 DEF PP!From
  <2> QED BY <1>6, <2>2, <2>3 DEF SeenUpTo
<1>8. PP!Frames(V) = UpTo(A)[n] \o PP!Frames(PP!From(V, k + 1))
  BY <1>6 DEF SeenUpTo, V
<1> QED BY <1>3, <1>7, <1>8, ConcatEmptySeq DEF V

-----------------------------------------------------------------------------
(* The client's side: what each thread has accepted ends with its last     *)
(* message, or lies inside the one it is sending.                          *)

Position(s) ==
    /\ calls[s] \in 0 .. Len(Text[s])
    /\ pc[s] = "idle" => accepted[s] = End(s, calls[s])
    /\ pc[s] # "idle" => /\ calls[s] \in Calls(s)
                         /\ accepted[s] = End(s, calls[s] - 1) + iret[s]
                         /\ len[s] = Len(FrameOf(s, calls[s]))
    /\ pc[s] = "last wakeup" => iret[s] = len[s]

AllPlaced(q) == \A i \in 1 .. Len(q) : Placed(q[i])

ClientInv ==
    /\ SendInv /\ breaks = 0
    /\ \A s \in Sender : Position(s)
    /\ AllPlaced(ring) /\ AllPlaced(outq) /\ AllPlaced(wire)

LEMMA InitClient == Init => ClientInv
<1> SUFFICES ASSUME Init PROVE ClientInv
  OBVIOUS
<1>1. SendInv /\ breaks = 0
  BY InitSend DEF Init
<1>2. AllPlaced(ring) /\ AllPlaced(outq) /\ AllPlaced(wire)
  BY EmptySeq DEF Init, AllPlaced
<1>3. ASSUME NEW s \in Sender PROVE Position(s)
  <2>1. pc[s] = "idle" /\ accepted[s] = 0 /\ calls[s] = 0
    BY DEF Init
  <2>2. End(s, 0) = 0 /\ Len(Text[s]) \in Nat
    BY Layout, TextTypes
  <2> QED BY <2>1, <2>2 DEF Position
<1> QED BY <1>1, <1>2, <1>3 DEF ClientInv

LEMMA SendMessageStep ==
    ASSUME ClientInv, NEW s \in Sender, SendMessage(s), NEW t \in Sender
    PROVE  Position(t)'
<1>1. /\ calls[s] < MaxCalls[s] /\ pc[s] = "idle"
      /\ pc' = [pc EXCEPT ![s] = "first wakeup"] /\ calls' = [calls EXCEPT ![s] = @ + 1]
      /\ iret' = [iret EXCEPT ![s] = 0] /\ accepted' = accepted
      /\ len'[s] = Len(Framed(Text[s][calls'[s]]))
  BY DEF SendMessage, Send
<1>2. PICK l : len' = [len EXCEPT ![s] = l]
  BY DEF SendMessage, Send
<1>3. CallsOK /\ Position(t) /\ Position(s)
  BY DEF ClientInv, SendInv, StoreOK
<1>4. CASE t # s
  BY <1>1, <1>2, <1>3, <1>4 DEF Position, CallsOK
<1>5. CASE t = s
  <2> DEFINE c == calls[s]
             d == calls'[s]
             n == Len(Text[s])
             e == End(s, c)
  <2>1. /\ pc'[s] = "first wakeup" /\ d = c + 1 /\ iret'[s] = 0
        /\ c \in Nat /\ accepted'[s] = e
    BY <1>1, <1>3 DEF CallsOK, Position
  <2>2. MaxCalls[s] \in Nat /\ MaxCalls[s] <= n /\ n \in Nat /\ c < MaxCalls[s]
    <3>1. MaxCalls[s] \in Nat
      BY BoundsAssumption
    <3>2. MaxCalls[s] <= Len(Text[s])
      BY TextAssumption
    <3>3. Len(Text[s]) \in Nat
      BY TextTypes
    <3> QED BY <1>1, <3>1, <3>2, <3>3
  <2> HIDE DEF c, d, n
  <2>3. d \in 1 .. n /\ d \in 0 .. n /\ d - 1 = c /\ c \in 0 .. n
    <3>1. d = c + 1 /\ c \in Nat
      BY ONLY <2>1
    <3> DEFINE m == MaxCalls[s]
    <3>2. m \in Nat /\ m <= n /\ n \in Nat /\ c < m
      BY ONLY <2>2
    <3> HIDE DEF m
    <3> QED BY ONLY <3>1, <3>2
  <2>4. e \in Nat
    BY <2>3, Layout DEF n
  <2>5. End(s, d - 1) = e
    BY <2>3
  <2>6. accepted'[s] = e + iret'[s]
    <3> HIDE DEF e
    <3>1. accepted'[s] = e /\ iret'[s] = 0
      BY <2>1
    <3>2. e + 0 = e
      BY ONLY <2>4
    <3> QED BY ONLY <3>1, <3>2
  <2>7. len'[s] = Len(FrameOf(s, d))
    BY <1>1 DEF FrameOf, d
  <2> QED BY <1>5, <2>1, <2>3, <2>5, <2>6, <2>7 DEF Position, Calls, d, n
<1> QED BY <1>4, <1>5

LEMMA WriteRingStep ==
    ASSUME ClientInv, NEW s \in Sender, WriteRing(s)
    PROVE  /\ \A t \in Sender : Position(t)'
           /\ AllPlaced(ring')
<1> DEFINE k == Bounded(len[s] - iret[s], Capacity - Len(ring))
           c == calls[s]
           F == FrameOf(s, c)
           p == Piece(s, k)
<1>1. /\ pc[s] = "write" /\ ring' = ring \o p
      /\ iret' = [iret EXCEPT ![s] = @ + k] /\ accepted' = [accepted EXCEPT ![s] = @ + k]
      /\ pc' = [pc EXCEPT ![s] = IF iret[s] + k < len[s] THEN "check" ELSE "last wakeup"]
      /\ UNCHANGED <<calls, len>>
  BY DEF WriteRing
<1>2. StoreOK /\ CallsOK /\ (\A t \in Sender : Position(t)) /\ AllPlaced(ring)
  BY DEF ClientInv, SendInv, StoreOK
<1>3. /\ k \in Nat /\ iret[s] + k <= len[s] /\ ring \o p \in Seq(Bytes)
      /\ Len(ring \o p) = Len(ring) + k
  BY <1>2, StoredBytes
<1>4. /\ len[s] \in Nat /\ iret[s] \in Nat /\ accepted[s] \in Nat /\ c \in Nat
      /\ Len(ring) \in Nat /\ ring \in Seq(Bytes)
  BY <1>2, CallTypes, RingTypes
<1>5. c \in Calls(s) /\ accepted[s] = End(s, c - 1) + iret[s] /\ len[s] = Len(F)
  BY <1>1, <1>2 DEF Position
<1>6. /\ End(s, c) = End(s, c - 1) + Len(F) /\ Len(F) \in Nat
      /\ End(s, c - 1) \in Nat /\ c \in 0 .. Len(Text[s])
  <2>1. c - 1 \in 0 .. Len(Text[s]) /\ c \in 0 .. Len(Text[s])
    BY <1>5, TextTypes DEF Calls
  <2>2. End(s, c - 1) \in Nat
    BY <2>1, Layout
  <2> QED BY <1>5, <2>1, <2>2, Layout, TextTypes
<1> DEFINE e == End(s, c - 1)
           f == End(s, c)
           i == iret[s]
           a == accepted[s]
           l == len[s]
<1>t. /\ e \in Nat /\ f = e + l /\ a = e + i /\ l = Len(F)
      /\ k \in Nat /\ i + k <= l /\ l \in Nat /\ i \in Nat /\ a \in Nat
  BY <1>3, <1>4, <1>5, <1>6
<1>u. /\ iret'[s] = i + k /\ accepted'[s] = a + k /\ len'[s] = l /\ calls'[s] = c
      /\ pc'[s] = IF i + k < l THEN "check" ELSE "last wakeup"
  BY <1>1, <1>2 DEF CallsOK
<1>v. p = [j \in 1 .. k |-> Byte(s, a + j)]
  BY DEF Piece
<1> HIDE DEF k, F, e, f, i, a, l
<1>7. ASSUME NEW t \in Sender PROVE Position(t)'
  <2>1. CASE t # s
    BY <1>1, <1>2, <2>1 DEF Position, CallsOK
  <2>2. CASE t = s
    <3>1. accepted'[s] = e + iret'[s]
      <4>1. (e + i) + k = e + (i + k)
        BY ONLY <1>t
      <4> QED BY ONLY <1>t, <1>u, <4>1
    <3>2. pc'[s] = "last wakeup" => iret'[s] = len'[s]
      <4>1. ~(i + k < l) => i + k = l
        BY ONLY <1>t
      <4> QED BY ONLY <1>u, <4>1
    <3>3. pc'[s] # "idle"
      BY <1>u
    <3> HIDE DEF c
    <3>4. accepted'[s] = End(s, calls'[s] - 1) + iret'[s] /\ len'[s] = Len(FrameOf(s, calls'[s]))
      BY <1>t, <1>u, <3>1 DEF e, F
    <3>5. calls'[s] \in Calls(s) /\ calls'[s] \in 0 .. Len(Text[s])
      BY <1>5, <1>6, <1>u
    <3> QED BY <2>2, <3>2, <3>3, <3>4, <3>5 DEF Position
  <2> QED BY <2>1, <2>2
<1>8. ASSUME NEW j \in 1 .. k PROVE Placed(p[j])
  <2>1. p[j] = [by |-> s, call |-> c, nth |-> a + j]
    BY <1>v DEF Byte
  <2>2. a + j \in Nat /\ a + j \in e + 1 .. f
    BY <1>t
  <2>3. a + j \in End(s, c - 1) + 1 .. End(s, c)
    BY <2>2 DEF e, f
  <2> HIDE DEF p
  <2> QED BY <1>4, <1>5, <2>1, <2>2, <2>3 DEF Placed, Bytes
<1>9. AllPlaced(ring \o p)
  <2>1. p \in Seq(Bytes) /\ Len(p) = k
    <3>1. \A j \in 1 .. k : Byte(s, a + j) \in Bytes
      BY <1>4, <1>t DEF Byte, Bytes
    <3> HIDE DEF p
    <3>3. p \in [1 .. k -> Bytes]
      BY <1>v, <3>1
    <3> QED BY <1>3, <3>3, FunctionIsSeq
  <2> HIDE DEF p
  <2> SUFFICES ASSUME NEW m \in 1 .. Len(ring \o p) PROVE Placed((ring \o p)[m])
    BY DEF AllPlaced
  <2>2. (ring \o p)[m] = IF m <= Len(ring) THEN ring[m] ELSE p[m - Len(ring)]
    BY <1>3, <1>4, <2>1, ConcatProperties
  <2>3. CASE m <= Len(ring)
    BY <1>2, <1>4, <2>2, <2>3 DEF AllPlaced
  <2>4. CASE ~(m <= Len(ring))
    <3>1. m - Len(ring) \in 1 .. k
      BY <1>3, <1>4, <2>4
    <3> QED BY <1>8, <2>2, <2>4, <3>1
  <2> QED BY <2>3, <2>4
<1> QED BY <1>1, <1>7, <1>9

(* Putting placed bytes together and taking them apart. *)
LEMMA PlacedTogether ==
    ASSUME NEW q \in Seq(Bytes), NEW r \in Seq(Bytes), AllPlaced(q), AllPlaced(r)
    PROVE  /\ AllPlaced(q \o r)
           /\ r # <<>> => AllPlaced(Tail(r)) /\ AllPlaced(Append(q, Head(r)))
<1>1. Len(q) \in Nat /\ Len(r) \in Nat
  BY LenProperties
<1>2. AllPlaced(q \o r)
  <2> SUFFICES ASSUME NEW i \in 1 .. Len(q \o r) PROVE Placed((q \o r)[i])
    BY DEF AllPlaced
  <2>1. /\ Len(q \o r) = Len(q) + Len(r)
        /\ (q \o r)[i] = IF i <= Len(q) THEN q[i] ELSE r[i - Len(q)]
    BY ConcatProperties
  <2>2. i <= Len(q) => i \in 1 .. Len(q)
    BY <1>1
  <2>3. ~(i <= Len(q)) => i - Len(q) \in 1 .. Len(r)
    BY <1>1, <2>1
  <2> QED BY <2>1, <2>2, <2>3 DEF AllPlaced
<1>3. ASSUME r # <<>> PROVE AllPlaced(Tail(r)) /\ AllPlaced(Append(q, Head(r)))
  <2>1. /\ Len(r) # 0 /\ Tail(r) \in Seq(Bytes) /\ Len(Tail(r)) = Len(r) - 1
        /\ \A i \in 1 .. Len(Tail(r)) : Tail(r)[i] = r[i + 1]
        /\ Head(r) = r[1]
    BY <1>3, EmptySeq, HeadTailProperties
  <2>2. Placed(Head(r)) /\ Head(r) \in Bytes
    <3>1. Placed(Head(r))
      BY <1>1, <2>1 DEF AllPlaced
    <3> QED BY <3>1 DEF Placed
  <2>3. AllPlaced(Tail(r))
    <3> SUFFICES ASSUME NEW i \in 1 .. Len(Tail(r)) PROVE Placed(Tail(r)[i])
      BY DEF AllPlaced
    <3>1. i + 1 \in 1 .. Len(r)
      BY <1>1, <2>1
    <3> QED BY <2>1, <3>1 DEF AllPlaced
  <2>4. AllPlaced(Append(q, Head(r)))
    <3> DEFINE h == Head(r)
    <3> HIDE DEF h
    <3>1. /\ Len(Append(q, h)) = Len(q) + 1 /\ Append(q, h)[Len(q) + 1] = h
          /\ \A i \in 1 .. Len(q) : Append(q, h)[i] = q[i]
      BY <2>2, AppendProperties DEF h
    <3> SUFFICES ASSUME NEW i \in 1 .. Len(q) + 1 PROVE Placed(Append(q, h)[i])
      BY <3>1 DEF AllPlaced, h
    <3>2. i \in 1 .. Len(q) \/ i = Len(q) + 1
      BY <1>1
    <3> QED BY <2>2, <3>1, <3>2 DEF AllPlaced, h
  <2> QED BY <2>3, <2>4
<1> QED BY <1>2, <1>3

LEMMA PositionAlone ==
    ASSUME NEW t \in Sender, Position(t), UNCHANGED callVars
    PROVE  Position(t)'
BY DEF Position, callVars

(* A step of a thread other than t. *)
LEMMA PositionElsewhere ==
    ASSUME NEW s \in Sender, NEW t \in Sender, t # s, CallsOK, Position(t),
           \E v : pc' = [pc EXCEPT ![s] = v],
           UNCHANGED <<calls, accepted>>,
           len' = len \/ len' = [len EXCEPT ![s] = 0],
           iret' = iret \/ iret' = [iret EXCEPT ![s] = 0]
    PROVE  Position(t)'
<1>1. /\ pc'[t] = pc[t] /\ len'[t] = len[t] /\ iret'[t] = iret[t]
      /\ calls' = calls /\ accepted' = accepted
  BY DEF CallsOK
<1> QED BY <1>1 DEF Position

LEMMA LastWakeupStep ==
    ASSUME ClientInv, NEW s \in Sender, LastWakeup(s)
    PROVE  Position(s)'
<1> DEFINE c == calls[s]
           e == End(s, c - 1)
           l == len[s]
<1>1. /\ CallsOK /\ pc[s] = "last wakeup" /\ pc'[s] = "idle" /\ UNCHANGED <<calls, accepted>>
  BY DEF ClientInv, SendInv, StoreOK, CallsOK, LastWakeup
<1>2. /\ c \in Calls(s) /\ c \in 0 .. Len(Text[s])
      /\ accepted[s] = e + iret[s] /\ l = Len(FrameOf(s, c)) /\ iret[s] = l
  BY <1>1 DEF ClientInv, Position
<1>3. End(s, c) = e + Len(FrameOf(s, c))
  BY <1>2, Layout
<1> HIDE DEF c, e, l
<1>4. accepted[s] = End(s, c)
  BY ONLY <1>2, <1>3
<1> QED BY <1>1, <1>2, <1>4 DEF Position, c

(* What a step of the client's does to the calls, *)
LEMMA PositionStep ==
    ASSUME ClientInv, \/ \E s \in Sender : SendMessage(s)
                      \/ ClientStep
                      \/ UNCHANGED vars,
           NEW t \in Sender
    PROVE  Position(t)'
<1>1. CallsOK /\ Position(t) /\ ~asked
  BY DEF ClientInv, SendInv, StoreOK, WayInv, Unbroken
<1>2. ASSUME NEW s \in Sender, SendMessage(s) PROVE Position(t)'
  BY <1>2, SendMessageStep
<1>3. ASSUME NEW s \in Sender, FirstWakeup(s) \/ CheckAsked(s) PROVE Position(t)'
  <2>1. PICK v \in {"check", "write"} : pc' = [pc EXCEPT ![s] = v]
    BY <1>1, <1>3 DEF FirstWakeup, CheckAsked
  <2>2. UNCHANGED <<calls, accepted, len, iret>> /\ pc[s] # "idle"
    BY <1>3 DEF FirstWakeup, CheckAsked
  <2>3. CASE t # s
    BY <1>1, <2>1, <2>2, <2>3, PositionElsewhere
  <2>4. CASE t = s
    <3>1. pc'[s] = v
      BY <1>1, <2>1 DEF CallsOK
    <3> QED BY <1>1, <2>2, <2>4, <3>1 DEF Position
  <2> QED BY <2>3, <2>4
<1>4. ASSUME NEW s \in Sender, WriteRing(s) PROVE Position(t)'
  BY <1>4, WriteRingStep
<1>5. ASSUME NEW s \in Sender, LastWakeup(s) PROVE Position(t)'
  <2>1. CASE t # s
    BY <1>1, <1>5, <2>1, PositionElsewhere DEF LastWakeup
  <2>2. CASE t = s
    BY <1>5, <2>2, LastWakeupStep
  <2> QED BY <2>1, <2>2
<1>6. CASE AsyncCB \/ AfterRecv \/ CallbackDone \/ SendInl \/ AfterSend \/ KernelTakes
           \/ UNCHANGED vars
  <2>1. UNCHANGED callVars
    BY <1>6 DEF AsyncCB, AfterRecv, CallbackDone, SendInl, AfterSend, KernelTakes, vars
  <2> QED BY <1>1, <2>1, PositionAlone
<1> QED BY <1>2, <1>3, <1>4, <1>5, <1>6 DEF ClientStep, SendStep

(* and to the bytes on their way: only KernelTakes adds to the wire.       *)
LEMMA PlacesStep ==
    ASSUME ClientInv, \/ \E s \in Sender : SendMessage(s)
                      \/ ClientStep
                      \/ UNCHANGED vars
    PROVE  /\ breaks' = 0
           /\ AllPlaced(ring') /\ AllPlaced(outq') /\ AllPlaced(wire')
           /\ \E more \in Seq(Bytes) : AllPlaced(more) /\ wire' = wire \o more
<1>1. /\ ring \in Seq(Bytes) /\ outq \in Seq(Bytes) /\ wire \in Seq(Bytes) /\ breaks = 0
      /\ AllPlaced(ring) /\ AllPlaced(outq) /\ AllPlaced(wire) /\ conn = "up"
  BY DEF ClientInv, SendInv, StoreOK, RingOK, WayInv, PlaceTypes, Unbroken
<1>2. <<>> \in Seq(Bytes) /\ AllPlaced(<<>>) /\ wire = wire \o <<>>
  BY <1>1, EmptySeq, ConcatEmptySeq DEF AllPlaced
<1>3. ASSUME NEW s \in Sender, WriteRing(s)
      PROVE  /\ breaks' = 0 /\ AllPlaced(ring') /\ AllPlaced(outq') /\ wire' = wire
  BY <1>1, <1>3, WriteRingStep DEF WriteRing, streamVars
<1>4. CASE SendInl
  <2>1. (ring' = ring /\ outq' = outq) \/ (ring' = <<>> /\ outq' = outq \o ring)
    BY <1>1, <1>4 DEF SendInl, ReadOut
  <2>2. breaks' = 0 /\ wire' = wire
    BY <1>1, <1>4 DEF SendInl
  <2>3. AllPlaced(outq \o ring)
    BY <1>1, PlacedTogether
  <2> QED BY <1>1, <1>2, <2>1, <2>2, <2>3
<1>5. CASE KernelTakes
  <2>1. /\ outq # <<>> /\ wire' = Append(wire, Head(outq)) /\ outq' = Tail(outq)
        /\ ring' = ring /\ breaks' = 0
    BY <1>1, <1>5 DEF KernelTakes
  <2>2. AllPlaced(Tail(outq)) /\ AllPlaced(Append(wire, Head(outq)))
    BY <1>1, <2>1, PlacedTogether
  <2> DEFINE h == Head(outq)
             m == <<h>>
  <2>3. h \in Bytes /\ Placed(h)
    <3>1. h = outq[1] /\ 1 \in 1 .. Len(outq)
      BY <1>1, <2>1, EmptySeq, HeadTailProperties, LenProperties
    <3>2. Placed(h)
      BY <1>1, <3>1 DEF AllPlaced
    <3> QED BY <3>2 DEF Placed
  <2> HIDE DEF h
  <2>4. m \in Seq(Bytes) /\ Append(wire, h) = wire \o m /\ Len(m) = 1 /\ m[1] = h
    BY <1>1, <2>3, AppendIsConcat
  <2>5. AllPlaced(m)
    BY <2>3, <2>4 DEF AllPlaced
  <2>6. wire' = wire \o m
    BY <2>1, <2>4 DEF h
  <2> HIDE DEF m
  <2>7. \E more \in Seq(Bytes) : AllPlaced(more) /\ wire' = wire \o more
    BY <2>4, <2>5, <2>6
  <2> QED BY <1>1, <2>1, <2>2, <2>7 DEF h
<1>6. CASE \/ \E s \in Sender : SendMessage(s) \/ FirstWakeup(s) \/ CheckAsked(s) \/ LastWakeup(s)
           \/ AsyncCB \/ AfterRecv \/ CallbackDone \/ AfterSend \/ UNCHANGED vars
  <2>1. UNCHANGED <<ring, outq, wire, breaks>>
    BY <1>6 DEF SendMessage, Send, FirstWakeup, CheckAsked, LastWakeup, AsyncCB, AfterRecv,
                CallbackDone, AfterSend, vars, streamVars
  <2> QED BY <1>1, <1>2, <2>1
<1> QED BY <1>1, <1>2, <1>3, <1>4, <1>5, <1>6 DEF ClientStep, SendStep

LEMMA ClientInvStep ==
    ASSUME ClientInv, \/ \E s \in Sender : SendMessage(s)
                      \/ ClientStep
                      \/ UNCHANGED vars
    PROVE  ClientInv'
<1>1. [Next]_vars
  BY DEF SendMessage, ClientStep, Next
<1>2. SendInv'
  BY <1>1, SendInvStep DEF ClientInv
<1>3. \A t \in Sender : Position(t)'
  BY PositionStep
<1>4. breaks' = 0 /\ AllPlaced(ring') /\ AllPlaced(outq') /\ AllPlaced(wire')
  BY PlacesStep
<1> QED BY <1>2, <1>3, <1>4 DEF ClientInv, AllPlaced

-----------------------------------------------------------------------------
(* The two ends together.                                                  *)

LinkInv == ClientInv /\ PP!ParserInv

(* What the parser reads from. *)
LEMMA StreamIs == PP!Stream = Values(wire)
<1> DEFINE p == [frame |-> FALSE, data |-> <<>>, bytes |-> Values(wire)]
<1>1. PP!Joined(<<p>>) = p.bytes
  BY ParserAssumptions, PP!OnePiece
<1> QED BY <1>1 DEF PP!Stream

(* The values of the bytes on the wire are a piece of noise. *)
LEMMA WirePiece ==
    ASSUME NEW v \in Seq(0 .. 255)
    PROVE  /\ [frame |-> FALSE, data |-> <<>>, bytes |-> v] \in PP!Pieces
           /\ <<[frame |-> FALSE, data |-> <<>>, bytes |-> v]>> \in [1 .. 1 -> PP!Pieces]
           /\ <<[frame |-> FALSE, data |-> <<>>, bytes |-> v]>> \in Seq(PP!Pieces)
<1> DEFINE p == [frame |-> FALSE, data |-> <<>>, bytes |-> v]
<1>1. p \in PP!Pieces
  BY DEF PP!Pieces, PP!NoisePiece
<1> HIDE DEF p
<1>2. <<p>> \in [1 .. 1 -> PP!Pieces] /\ <<p>> \in Seq(PP!Pieces)
  BY <1>1
<1> QED BY <1>1, <1>2 DEF p

LEMMA WireValues ==
    ASSUME SendInv, AllPlaced(wire)
    PROVE  /\ wire \in Seq(Bytes) /\ Len(wire) \in Nat
           /\ Values(wire) \in Seq(0 .. 255) /\ Len(Values(wire)) = Len(wire)
<1>1. wire \in Seq(Bytes)
  BY DEF SendInv, WayInv, PlaceTypes
<1>2. \A i \in 1 .. Len(wire) : Placed(wire[i])
  BY DEF AllPlaced
<1>3. Values(wire) \in PP!Bytes /\ Len(Values(wire)) = Len(wire)
  BY <1>1, <1>2, ValuesType
<1> QED BY <1>1, <1>3, LenProperties DEF PP!Bytes

LEMMA InitLink == LinkInit => LinkInv
<1> SUFFICES ASSUME LinkInit PROVE LinkInv
  OBVIOUS
<1>1. ClientInv
  BY InitClient DEF LinkInit
<1>2. Values(wire) \in Seq(0 .. 255)
  BY <1>1, WireValues DEF ClientInv
<1>3. PP!Init
  <2>1. PP!NewParser
    BY ParserNew DEF LinkInit
  <2>2. <<1>>[1] = 1 /\ 1 \in 1 .. 1
    OBVIOUS
  <2>3. <<[frame |-> FALSE, data |-> <<>>, bytes |-> Values(wire)]>> \in [1 .. 1 -> PP!Pieces]
    BY <1>2, WirePiece
  <2> QED BY <2>1, <2>2, <2>3 DEF PP!Init
<1>4. PP!ParserInv
  BY <1>3, ParserAssumptions, PP!Initially
<1> QED BY <1>1, <1>4 DEF LinkInv

(* The values of a longer stream begin as those of the shorter. *)
LEMMA ValuesGrow ==
    ASSUME NEW A \in Seq(Bytes), NEW B \in Seq(Bytes), AllPlaced(A), AllPlaced(B)
    PROVE  /\ Values(B) \in Seq(0 .. 255)
           /\ Values(A \o B) = Values(A) \o Values(B)
<1> DEFINE x == Values(A)
           y == Values(B)
           C == A \o B
           z == Values(C)
<1>1. /\ C \in Seq(Bytes) /\ Len(C) = Len(A) + Len(B) /\ Len(A) \in Nat /\ Len(B) \in Nat
      /\ \A i \in 1 .. Len(A) + Len(B) : C[i] = IF i <= Len(A) THEN A[i] ELSE B[i - Len(A)]
  BY ConcatProperties, LenProperties
<1>2. AllPlaced(C)
  BY PlacedTogether
<1>3. /\ x \in PP!Bytes /\ Len(x) = Len(A) /\ \A i \in 1 .. Len(A) : x[i] = Sent[A[i].by][A[i].nth]
      /\ y \in PP!Bytes /\ Len(y) = Len(B) /\ \A i \in 1 .. Len(B) : y[i] = Sent[B[i].by][B[i].nth]
  BY ValuesType DEF AllPlaced
<1> HIDE DEF C
<1>4. z \in PP!Bytes /\ Len(z) = Len(C) /\ \A i \in 1 .. Len(C) : z[i] = Sent[C[i].by][C[i].nth]
  BY <1>1, <1>2, ValuesType DEF AllPlaced
<1> HIDE DEF x, y, z
<1>5. x \in Seq(0 .. 255) /\ y \in Seq(0 .. 255)
  BY <1>3 DEF PP!Bytes
<1>6. /\ x \o y \in PP!Bytes /\ Len(x \o y) = Len(A) + Len(B)
      /\ \A i \in 1 .. Len(A) + Len(B) : (x \o y)[i] = IF i <= Len(A) THEN x[i] ELSE y[i - Len(A)]
  <2>1. /\ x \o y \in Seq(0 .. 255) /\ Len(x \o y) = Len(x) + Len(y)
        /\ \A i \in 1 .. Len(x) + Len(y) : (x \o y)[i] = IF i <= Len(x) THEN x[i] ELSE y[i - Len(x)]
    BY ONLY <1>5, ConcatProperties
  <2>2. Len(x) = Len(A) /\ Len(y) = Len(B)
    BY <1>3
  <2> QED BY ONLY <2>1, <2>2 DEF PP!Bytes
<1>7. ASSUME NEW i \in 1 .. Len(C) PROVE z[i] = (x \o y)[i]
  <2>1. CASE i <= Len(A)
    <3>1. i \in 1 .. Len(A) /\ i \in 1 .. Len(A) + Len(B)
      BY <1>1, <2>1
    <3> QED BY SMTT(30), <1>1, <1>3, <1>4, <1>6, <2>1, <3>1
  <2>2. CASE ~(i <= Len(A))
    <3>1. i - Len(A) \in 1 .. Len(B) /\ i \in 1 .. Len(A) + Len(B)
      BY <1>1, <2>2
    <3> QED BY <1>1, <1>3, <1>4, <1>6, <2>2, <3>1
  <2> QED BY <2>1, <2>2
<1>8. z = x \o y
  <2> DEFINE w == x \o y
  <2>1. w \in PP!Bytes /\ z \in PP!Bytes /\ Len(z) = Len(w) /\ \A i \in 1 .. Len(z) : z[i] = w[i]
    BY <1>1, <1>4, <1>6, <1>7
  <2> HIDE DEF w
  <2> QED BY ONLY ZenonT(30), <2>1, ParserAssumptions, PP!SameBytes DEF w
<1> QED BY <1>5, <1>8 DEF x, y, z, C

(* The client's steps leave the parser alone and only add to what it can   *)
(* read.                                                                   *)
LEMMA ClientLeavesParser ==
    ASSUME LinkInv, \/ \E s \in Sender : SendMessage(s)
                    \/ ClientStep
                    \/ UNCHANGED linkVars
    PROVE  LinkInv'
<1>1. ClientInv /\ PP!ParserInv
  BY DEF LinkInv
<1>2. \/ \E s \in Sender : SendMessage(s)
      \/ ClientStep
      \/ UNCHANGED vars
  BY DEF linkVars
<1>3. UNCHANGED receiver
  BY DEF SendMessage, ClientStep, linkVars
<1>4. ClientInv'
  BY <1>1, <1>2, ClientInvStep
<1>5. PICK more \in Seq(Bytes) : AllPlaced(more) /\ wire' = wire \o more
  BY <1>1, <1>2, PlacesStep
<1>6. wire \in Seq(Bytes) /\ AllPlaced(wire)
  BY <1>1 DEF ClientInv, SendInv, WayInv, PlaceTypes
<1>7. Values(more) \in Seq(0 .. 255) /\ Values(wire \o more) = Values(wire) \o Values(more)
  BY <1>5, <1>6, ValuesGrow
<1>8. PP!Stream' = PP!Stream \o Values(more) /\ Values(more) \in PP!Bytes
  <2>1. PP!Stream' = Values(wire')
    <3> DEFINE p == [frame |-> FALSE, data |-> <<>>, bytes |-> Values(wire')]
    <3>1. PP!Joined(<<p>>) = p.bytes
      BY ParserAssumptions, PP!OnePiece
    <3> QED BY <3>1 DEF PP!Stream
  <2> QED BY <1>5, <1>7, <2>1, StreamIs DEF PP!Bytes
<1>9. <<[frame |-> FALSE, data |-> <<>>, bytes |-> Values(wire')]>> \in Seq(PP!Pieces)
  <2>1. Values(wire') \in Seq(0 .. 255)
    <3>1. wire' \in Seq(Bytes)
      <4>1. WayInv'
        BY <1>4 DEF ClientInv, SendInv
      <4> QED BY <4>1 DEF WayInv, PlaceTypes, Bytes
    <3>2. \A i \in 1 .. Len(wire') : Placed(wire'[i])
      BY <1>4 DEF ClientInv, AllPlaced
    <3> QED BY <3>1, <3>2, ValuesType DEF PP!Bytes
  <2> QED BY <2>1, WirePiece
<1>10. UNCHANGED <<arrived, running, chunk, PP!parser, PP!history>>
  BY <1>3 DEF receiver, PP!parser, PP!history
<1>11. PP!ParserInv'
  BY <1>1, <1>8, <1>9, <1>10, ParserAssumptions, PP!StreamGrows
<1> QED BY <1>4, <1>11 DEF LinkInv

(* The parser's steps leave the client alone. *)
LEMMA ParserLeavesClient ==
    ASSUME TAIL < 128, LinkInv, (\E n \in ChunkSizes : Read(n)) \/ Parse
    PROVE  LinkInv'
<1>1. ClientInv /\ PP!ParserInv
  BY DEF LinkInv
<1>2. UNCHANGED vars
  BY DEF Read, Parse
<1>3. ClientInv'
  BY <1>1, <1>2, ClientInvStep
<1>4. PP!Next
  <2>1. ASSUME NEW n \in ChunkSizes, Read(n) PROVE PP!Next
    <3>1. PP!RecvData(n)
      BY <2>1, ParserReads DEF Read
    <3> QED BY <3>1 DEF PP!Next
  <2>2. CASE Parse
    <3>1. PP!Turn
      BY <2>2, ParserReturn, ParserHead, ParserWaits, ParserRejects, ParserDelivers
         DEF Parse, Parser!Turn, PP!Turn
    <3> QED BY <3>1 DEF PP!Next
  <2> QED BY <2>1, <2>2
<1>5. PP!TypeInv' /\ PP!Idle'
  BY <1>1, <1>4, ParserAssumptions, PP!TypesKept DEF PP!ParserInv
<1>6. PP!Progress' /\ PP!NothingKeptBack'
  BY <1>1, <1>4, ParserAssumptions, PP!ProgressKept DEF PP!ParserInv
<1> QED BY <1>3, <1>5, <1>6 DEF LinkInv, PP!ParserInv

(* What has arrived is a stream as UntornFrames wants it. *)
LEMMA ArrivedGapless ==
    ASSUME LinkInv
    PROVE  /\ arrived \in 0 .. Len(wire) /\ Gapless(Arrived)
           /\ \A i \in 1 .. Len(Arrived) : Arrived[i].nth <= accepted[Arrived[i].by]
           /\ PP!Received = Values(Arrived)
<1> DEFINE way == OnTheWay
           A == Arrived
           a == arrived
<1>1. /\ ClientInv /\ SendInv /\ AllPlaced(wire)
      /\ wire \in Seq(Bytes) /\ outq \in Seq(Bytes) /\ ring \in Seq(Bytes) /\ Len(wire) \in Nat
      /\ Sorted(way) /\ Numbered(way, accepted) /\ Complete(way, accepted)
  BY WireValues DEF LinkInv, ClientInv, SendInv, StoreOK, RingOK, WayInv, PlaceTypes, Unbroken
<1>2. /\ Values(wire) \in PP!Bytes /\ Len(Values(wire)) = Len(wire)
      /\ \A i \in 1 .. Len(wire) : Values(wire)[i] = Sent[wire[i].by][wire[i].nth]
  BY <1>1, ValuesType DEF AllPlaced
<1>3. a \in 0 .. Len(wire)
  <2>1. a \in 0 .. Len(PP!Stream)
    BY DEF LinkInv, PP!ParserInv, PP!TypeInv, PP!TypeOK
  <2> QED BY <1>2, <2>1, StreamIs
<1>4. /\ A \in Seq(Bytes) /\ Len(A) = a /\ \A i \in 1 .. a : A[i] = wire[i] /\ i \in 1 .. Len(wire)
  <2>1. \A i \in 1 .. a : wire[i] \in Bytes /\ i \in 1 .. Len(wire)
    BY <1>1, <1>3, ElementOfSeq
  <2>2. /\ SubSeq(wire, 1, a) \in Seq(Bytes)
        /\ Len(SubSeq(wire, 1, a)) = IF 1 <= a THEN a - 1 + 1 ELSE 0
        /\ \A i \in 1 .. a - 1 + 1 : SubSeq(wire, 1, a)[i] = wire[1 + i - 1]
    BY <1>3, <2>1, SubSeqProperties
  <2>3. a \in Nat /\ a - 1 + 1 = a /\ (~(1 <= a) => a = 0) /\ \A i \in 1 .. a : 1 + i - 1 = i
    BY <1>1, <1>3
  <2> HIDE DEF a
  <2>4. /\ SubSeq(wire, 1, a) \in Seq(Bytes) /\ Len(SubSeq(wire, 1, a)) = a
        /\ \A i \in 1 .. a : SubSeq(wire, 1, a)[i] = wire[i]
    BY <2>2, <2>3
  <2> QED BY <2>1, <2>4 DEF Arrived, a
<1>5. /\ way \in Seq(Bytes) /\ DOMAIN way = 1 .. Len(way) /\ Len(way) \in Nat /\ Len(wire) <= Len(way)
      /\ \A i \in 1 .. Len(wire) : way[i] = wire[i]
  <2> DEFINE r == outq \o ring
  <2>1. r \in Seq(Bytes) /\ Len(r) \in Nat /\ way = wire \o r
    <3>1. r \in Seq(Bytes)
      BY <1>1, ConcatProperties
    <3>2. (wire \o outq) \o ring = wire \o (outq \o ring)
      BY SMTT(30), <1>1, Associative
    <3> QED BY <3>1, <3>2, LenProperties DEF OnTheWay
  <2> HIDE DEF r
  <2>2. /\ wire \o r \in Seq(Bytes) /\ Len(wire \o r) = Len(wire) + Len(r)
        /\ \A i \in 1 .. Len(wire) + Len(r) :
               (wire \o r)[i] = IF i <= Len(wire) THEN wire[i] ELSE r[i - Len(wire)]
    BY <1>1, <2>1, ConcatProperties
  <2> HIDE DEF way
  <2>3. /\ way \in Seq(Bytes) /\ Len(way) = Len(wire) + Len(r)
        /\ \A i \in 1 .. Len(wire) + Len(r) : way[i] = IF i <= Len(wire) THEN wire[i] ELSE r[i - Len(wire)]
    BY ONLY <2>1, <2>2
  <2>4. \A i \in 1 .. Len(wire) : i \in 1 .. Len(wire) + Len(r) /\ i <= Len(wire)
    BY <1>1, <2>1
  <2>5. Len(wire) <= Len(way)
    BY <1>1, <2>1, <2>3
  <2> QED BY <2>3, <2>4, <2>5, LenProperties
<1> HIDE DEF way, A, a
<1>6. \A i \in 1 .. a : i \in 1 .. Len(way) /\ A[i] = way[i] /\ i \in Nat
  <2> SUFFICES ASSUME NEW i \in 1 .. a PROVE i \in 1 .. Len(way) /\ A[i] = way[i] /\ i \in Nat
    OBVIOUS
  <2>1. A[i] = wire[i] /\ i \in 1 .. Len(wire)
    BY <1>4
  <2>2. way[i] = wire[i]
    BY <1>5, <2>1
  <2> QED BY <1>1, <1>5, <2>1, <2>2
<1>7. \A i \in 1 .. Len(A) : Placed(A[i])
  BY <1>1, <1>4 DEF AllPlaced
<1>8. ASSUME NEW i \in 1 .. Len(A), NEW j \in 1 .. Len(A), i < j, A[i].by = A[j].by
      PROVE  A[i].nth < A[j].nth
  BY <1>1, <1>4, <1>5, <1>6, <1>8 DEF Sorted
<1>9. ASSUME NEW i \in 1 .. Len(A), A[i].nth > 1
      PROVE  \E j \in 1 .. Len(A) : A[j].by = A[i].by /\ A[j].nth + 1 = A[i].nth
  <2> DEFINE s == A[i].by
             n == A[i].nth
             m == accepted[s]
  <2>1. s \in Sender /\ n \in Nat /\ i \in 1 .. Len(way) /\ way[i].by = s /\ way[i].nth = n
    BY <1>4, <1>6, <1>7 DEF Placed, Bytes
  <2>2. n \in 1 .. m /\ m \in Nat
    <3>1. n \in 1 .. m
      BY <1>1, <1>5, <2>1 DEF Numbered
    <3>2. m \in Nat
      BY <1>1, <2>1 DEF SendInv, StoreOK, CallsOK
    <3> QED BY <3>1, <3>2
  <2> HIDE DEF s, n, m
  <2>3. n - 1 \in 1 .. m /\ n - 1 < n /\ (n - 1) + 1 = n /\ n > 1
    BY <1>9, <2>1, <2>2 DEF n
  <2>4. PICK j \in 1 .. Len(way) : way[j].by = s /\ way[j].nth = n - 1
    <3>1. Complete(way, accepted) /\ s \in Sender /\ n - 1 \in 1 .. accepted[s]
      BY <1>1, <2>1, <2>3 DEF m
    <3>2. \E j \in DOMAIN way : way[j].by = s /\ way[j].nth = n - 1
      BY ONLY <3>1 DEF Complete
    <3> QED BY <1>5, <3>2
  <2>5. ~(i < j)
    <3> SUFFICES ASSUME i < j PROVE FALSE
      OBVIOUS
    <3>1. way[i].nth < way[j].nth
      BY <1>1, <1>5, <2>1, <2>4 DEF Sorted
    <3>2. n < n - 1
      BY <2>1, <2>4, <3>1
    <3> QED BY <2>1, <3>2
  <2>6. j \in 1 .. a
    <3>1. i \in 1 .. a /\ a \in Nat /\ j \in Nat /\ j >= 1
      BY <1>1, <1>3, <1>4, <1>5
    <3> QED BY <2>5, <3>1
  <2>7. A[j].by = s /\ A[j].nth + 1 = n
    BY <1>6, <2>3, <2>4, <2>6
  <2> QED BY <1>4, <2>6, <2>7 DEF s, n
<1>10. Gapless(A)
  BY <1>4, <1>7, <1>8, <1>9 DEF Gapless
<1>11. PP!Received = Values(A)
  <2> DEFINE v == Values(wire)
             x == SubSeq(v, 1, a)
             y == Values(A)
  <2>1. y \in PP!Bytes /\ Len(y) = a /\ \A i \in 1 .. a : y[i] = Sent[A[i].by][A[i].nth]
    BY <1>4, <1>7, ValuesType
  <2>2. v \in PP!Bytes /\ Len(v) = Len(wire) /\ \A i \in 1 .. Len(wire) : v[i] = Sent[wire[i].by][wire[i].nth]
    BY <1>2
  <2>3. PP!Received = <<>> \o x
    <3>1. [bytes |-> <<>>, frames |-> 0].bytes = <<>>
      OBVIOUS
    <3> QED BY <3>1, StreamIs DEF PP!Received, a
  <2> HIDE DEF v, y
  <2>4. a \in Nat /\ a <= Len(v) /\ 1 \in Nat \ {0}
    BY <1>1, <1>3, <2>2
  <2>5. /\ x \in PP!Bytes /\ Len(x) = IF 1 <= a THEN a - 1 + 1 ELSE 0
        /\ \A i \in 1 .. a - 1 + 1 : x[i] = v[1 + i - 1]
    BY ONLY <2>2, <2>4, ParserAssumptions, PP!PartOf
  <2> HIDE DEF x
  <2>6. a - 1 + 1 = a /\ (~(1 <= a) => a = 0) /\ \A i \in 1 .. a : 1 + i - 1 = i
    BY <2>4
  <2>7. Len(x) = a /\ \A i \in 1 .. a : x[i] = v[i]
    BY <2>5, <2>6
  <2>8. \A i \in 1 .. a : x[i] = y[i]
    BY <1>4, <2>1, <2>2, <2>7
  <2>9. x = y
    BY <2>1, <2>5, <2>7, <2>8, ParserAssumptions, PP!SameBytes
  <2>10. <<>> \o y = y
    BY <2>1, ConcatEmptySeq DEF PP!Bytes
  <2> QED BY <2>3, <2>9, <2>10 DEF y
<1>12. ASSUME NEW i \in 1 .. Len(A) PROVE A[i].nth <= accepted[A[i].by]
  <2>1. A[i].by \in Sender /\ A[i].nth \in Nat /\ i \in 1 .. Len(way) /\ way[i] = A[i]
    BY <1>4, <1>6, <1>7 DEF Placed, Bytes
  <2>2. A[i].nth \in 1 .. accepted[A[i].by]
    BY <1>1, <1>5, <2>1 DEF Numbered
  <2>3. accepted[A[i].by] \in Nat
    BY <1>1, <2>1 DEF SendInv, StoreOK, CallsOK
  <2> QED BY <2>1, <2>2, <2>3
<1> QED BY <1>3, <1>10, <1>11, <1>12 DEF A, a

(* What is called back is at the beginning of what is whole, *)
LEMMA DeliveredOfWhole ==
    ASSUME TAIL < 128, LinkInv, ~Torn(Arrived)
    PROVE  \E more \in Seq(PP!Bytes) : /\ delivered \in Seq(PP!Bytes)
                                       /\ WholeIn(Arrived) = delivered \o more
                                       /\ ~running => more = <<>>
<1>1. PP!ParserInv /\ PP!Received = Values(Arrived) /\ Gapless(Arrived)
  BY ArrivedGapless DEF LinkInv
<1>2. PP!Frames(Values(Arrived)) = WholeIn(Arrived)
  BY <1>1, UntornFrames
<1>3. /\ delivered \in Seq(PP!Bytes) /\ PP!Frames(PP!Unread) \in Seq(PP!Bytes)
      /\ PP!Frames(PP!Received) = delivered \o PP!Frames(PP!Unread)
  BY <1>1, ParserAssumptions, PP!DeliveredFirst
<1>4. ~running => PP!Frames(PP!Unread) = <<>>
  BY <1>1 DEF PP!ParserInv, PP!NothingKeptBack
<1> QED BY <1>1, <1>2, <1>3, <1>4

(* and each message that is whole among the first m bytes ends with one of *)
(* them, of its own.                                                       *)
EndsAt(A, e, m) ==
    LET whole == UpTo(A)[m] IN
    /\ e \in [1 .. Len(whole) -> 1 .. m]
    /\ \A i \in 1 .. Len(whole) : /\ LastOf(A[e[i]])
                                  /\ whole[i] = Text[A[e[i]].by][A[e[i]].call]
    /\ \A i, j \in 1 .. Len(whole) : i < j => e[i] < e[j]

LEMMA WholeEnds ==
    ASSUME NEW A, Gapless(A)
    PROVE  \E e : EndsAt(A, e, Len(A))
<1> DEFINE n == Len(A)
           T == {m \in Nat : m <= n => \E e : EndsAt(A, e, m)}
<1>1. n \in Nat /\ A \in Seq(Bytes) /\ \A i \in 1 .. n : Placed(A[i])
  BY LenProperties DEF Gapless
<1>2. /\ UpTo(A)[0] = <<>>
      /\ \A i \in 1 .. n : UpTo(A)[i] = IF LastOf(A[i])
                                        THEN Append(UpTo(A)[i - 1], Text[A[i].by][A[i].call])
                                        ELSE UpTo(A)[i - 1]
      /\ \A i \in 0 .. n : UpTo(A)[i] \in Seq(PP!Bytes)
  BY <1>1, UpToDefined
<1> HIDE DEF n
<1>3. 0 \in T
  <2> DEFINE e == [i \in 1 .. 0 |-> 1]
  <2>1. Len(UpTo(A)[0]) = 0 /\ 1 .. 0 = {}
    BY <1>2, EmptySeq
  <2>2. e \in [1 .. 0 -> 1 .. 0]
    BY <2>1
  <2> HIDE DEF e
  <2>3. EndsAt(A, e, 0)
    BY <2>1, <2>2 DEF EndsAt
  <2> QED BY <2>3
<1>4. ASSUME NEW m \in Nat, m \in T PROVE m + 1 \in T
  <2> SUFFICES ASSUME m + 1 <= n PROVE \E e : EndsAt(A, e, m + 1)
    OBVIOUS
  <2>1. m \in 0 .. n /\ m <= n /\ m + 1 \in 1 .. n /\ (m + 1) - 1 = m
    BY <1>1
  <2>2. PICK e : EndsAt(A, e, m)
    BY <1>4, <2>1
  <2> DEFINE old == UpTo(A)[m]
             new == UpTo(A)[m + 1]
             b == A[m + 1]
             text == Text[b.by][b.call]
             l == Len(old)
  <2>3. old \in Seq(PP!Bytes) /\ l \in Nat /\ new = IF LastOf(b) THEN Append(old, text) ELSE old
    BY <1>2, <2>1, LenProperties
  <2>4. /\ e \in [1 .. l -> 1 .. m]
        /\ \A i \in 1 .. l : LastOf(A[e[i]]) /\ old[i] = Text[A[e[i]].by][A[e[i]].call]
        /\ \A i, j \in 1 .. l : i < j => e[i] < e[j]
    BY <2>2 DEF EndsAt
  <2>5. text \in PP!Bytes
    <3>1. b.by \in Sender /\ b.call \in Calls(b.by)
      BY <1>1, <2>1 DEF Placed, Bytes
    <3> QED BY <3>1, TextTypes DEF PP!GoodData
  <2>6. \A i \in 1 .. l : e[i] \in 1 .. m /\ e[i] \in 1 .. m + 1 /\ e[i] \in Nat
    BY <2>4
  <2> HIDE DEF old, new, b, text, l
  <2>7. CASE ~LastOf(b)
    <3>1. new = old
      BY <2>3, <2>7
    <3>2. e \in [1 .. l -> 1 .. m + 1]
      BY <2>4, <2>6
    <3>3. EndsAt(A, e, m + 1)
      BY <2>4, <3>1, <3>2 DEF EndsAt, old, new, l
    <3> QED BY <3>3
  <2>8. CASE LastOf(b)
    <3> DEFINE f == [i \in 1 .. l + 1 |-> IF i <= l THEN e[i] ELSE m + 1]
    <3>1. /\ Len(new) = l + 1 /\ new[l + 1] = text /\ \A i \in 1 .. l : new[i] = old[i]
      <4>1. new = Append(old, text)
        BY <2>3, <2>8
      <4>2. /\ Len(Append(old, text)) = Len(old) + 1 /\ Append(old, text)[Len(old) + 1] = text
            /\ \A i \in 1 .. Len(old) : Append(old, text)[i] = old[i]
        BY <2>3, <2>5, AppendProperties
      <4> QED BY <4>1, <4>2 DEF l
    <3>2. \A i \in 1 .. l + 1 : (i \in 1 .. l /\ i <= l) \/ (i = l + 1 /\ ~(i <= l))
      BY <2>3
    <3>3. /\ \A i \in 1 .. l : i \in 1 .. l + 1 /\ f[i] = e[i]
          /\ l + 1 \in 1 .. l + 1 /\ f[l + 1] = m + 1
      BY <2>3
    <3>4. m + 1 \in 1 .. m + 1
      OBVIOUS
    <3>5. f \in [1 .. l + 1 -> 1 .. m + 1]
      BY <2>6, <3>2, <3>4
    <3> HIDE DEF f
    <3>6. ASSUME NEW i \in 1 .. l + 1
          PROVE  LastOf(A[f[i]]) /\ new[i] = Text[A[f[i]].by][A[f[i]].call]
      <4>1. CASE i \in 1 .. l
        BY <2>4, <3>1, <3>3, <4>1
      <4>2. CASE i = l + 1
        BY <2>8, <3>1, <3>3, <4>2 DEF b, text
      <4> QED BY <3>2, <4>1, <4>2
    <3>7. ASSUME NEW i \in 1 .. l + 1, NEW j \in 1 .. l + 1, i < j PROVE f[i] < f[j]
      <4>1. i \in 1 .. l
        BY <2>3, <3>7
      <4>2. CASE j \in 1 .. l
        BY <2>4, <3>3, <3>7, <4>1, <4>2
      <4>3. CASE j = l + 1
        BY <2>6, <3>3, <4>1, <4>3
      <4> QED BY <3>2, <4>2, <4>3
    <3>8. EndsAt(A, f, m + 1)
      BY <3>1, <3>5, <3>6, <3>7 DEF EndsAt, new
    <3> QED BY <3>8
  <2> QED BY <2>7, <2>8
<1>5. Nat \subseteq T
  <2> HIDE DEF T
  <2> QED BY <1>3, <1>4, Induction
<1>6. n \in T
  <2> HIDE DEF T
  <2> QED BY <1>1, <1>5
<1> QED BY <1>1, <1>6 DEF n

(* A message whose last byte was accepted has been begun. *)
LEMMA EndedIsBegun ==
    ASSUME ClientInv, NEW s \in Sender, NEW c \in Calls(s), End(s, c) <= accepted[s]
    PROVE  calls[s] \in 0 .. Len(Text[s]) /\ c \in 1 .. calls[s]
<1> DEFINE k == calls[s]
           n == Len(Text[s])
           a == accepted[s]
<1>1. /\ k \in 0 .. n /\ n \in Nat /\ c \in 1 .. n /\ a \in Nat /\ k \in Nat
  BY TextTypes DEF ClientInv, Position, SendInv, StoreOK, CallsOK, Calls
<1>2. a <= End(s, k) /\ End(s, k) \in Nat
  <2>1. End(s, k) \in Nat
    BY <1>1, Layout
  <2>2. CASE pc[s] = "idle"
    <3>1. a = End(s, k)
      BY <2>2 DEF ClientInv, Position
    <3> HIDE DEF a, k
    <3> QED BY <2>1, <3>1
  <2>3. CASE pc[s] # "idle"
    <3> DEFINE e == End(s, k - 1)
               l == len[s]
               i == iret[s]
    <3>1. k \in Calls(s) /\ a = e + i /\ l = Len(FrameOf(s, k))
      BY <2>3 DEF ClientInv, Position
    <3>2. i <= l /\ i \in Nat /\ l \in Nat
      BY CallTypes DEF ClientInv, SendInv
    <3>3. End(s, k) = e + Len(FrameOf(s, k)) /\ k - 1 \in 0 .. n
      <4>1. k \in Calls(s)
        BY <3>1
      <4>2. \A b \in Calls(s) : End(s, b) = End(s, b - 1) + Len(FrameOf(s, b))
        BY Layout
      <4>3. k - 1 \in 0 .. n
        BY <1>1, <4>1 DEF Calls
      <4> HIDE DEF a, l, i, n, k
      <4> QED BY <4>1, <4>2, <4>3
    <3>4. e \in Nat
      BY <3>3, Layout
    <3> HIDE DEF e, l, i, a, k
    <3>5. e + i <= e + l
      BY <3>2, <3>4
    <3>6. a = e + i /\ End(s, k) = e + l
      BY <3>1, <3>3
    <3> QED BY <2>1, <3>5, <3>6
  <2> QED BY <2>2, <2>3
<1> HIDE DEF k, a, n
<1>3. ASSUME k < c PROVE FALSE
  <2>1. c - 1 \in k .. n /\ c - 1 \in 0 .. n
    BY <1>1, <1>3
  <2>2. End(s, k) <= End(s, c - 1)
    BY <1>1, <2>1, EndsGrow DEF n
  <2> DEFINE x == End(s, c)
             y == End(s, c - 1)
             l == Len(FrameOf(s, c))
             z == End(s, k)
  <2>3. x = y + l /\ y \in Nat
    BY <2>1, Layout DEF n
  <2>4. l \in Nat /\ l >= 6
    BY TextTypes
  <2>5. z <= y /\ a <= z /\ z \in Nat /\ x <= a
    BY <1>2, <2>2 DEF a
  <2> HIDE DEF x, y, z, l
  <2> QED BY <1>1, <2>3, <2>4, <2>5
<1>4. k \in 0 .. n /\ c \in 1 .. k
  BY <1>1, <1>3
<1> QED BY <1>4 DEF k, n

LEMMA UntornIsSound ==
    ASSUME TAIL < 128, LinkInv, ~Torn(Arrived)
    PROVE  MessagesSound
<1> DEFINE A == Arrived
<1>1. /\ ClientInv /\ Gapless(A) /\ A \in Seq(Bytes)
      /\ \A i \in 1 .. Len(A) : A[i].nth <= accepted[A[i].by]
  BY ArrivedGapless DEF LinkInv, Gapless
<1>2. PICK more \in Seq(PP!Bytes) : delivered \in Seq(PP!Bytes) /\ WholeIn(A) = delivered \o more
  BY DeliveredOfWhole
<1>3. UpTo(A)[Len(A)] = delivered \o more
  BY <1>1, <1>2, UpToDefined DEF Gapless
<1> HIDE DEF A
<1>4. PICK e : EndsAt(A, e, Len(A))
  BY <1>1, WholeEnds
<1>5. /\ DOMAIN delivered = 1 .. Len(delivered) /\ Len(delivered) \in Nat
      /\ \A i \in 1 .. Len(delivered) :
             i \in 1 .. Len(delivered \o more) /\ (delivered \o more)[i] = delivered[i]
  <2>1. /\ Len(delivered \o more) = Len(delivered) + Len(more)
        /\ \A i \in 1 .. Len(delivered) + Len(more) :
               (delivered \o more)[i] = IF i <= Len(delivered) THEN delivered[i]
                                        ELSE more[i - Len(delivered)]
    BY <1>2, ConcatProperties
  <2>2. Len(delivered) \in Nat /\ Len(more) \in Nat /\ DOMAIN delivered = 1 .. Len(delivered)
    BY <1>2, LenProperties
  <2>3. \A i \in 1 .. Len(delivered) : i \in 1 .. Len(delivered) + Len(more) /\ i <= Len(delivered)
    BY <2>2
  <2> QED BY <2>1, <2>2, <2>3
<1> DEFINE D == DOMAIN delivered
<1>6. /\ \A i \in D : /\ e[i] \in 1 .. Len(A) /\ LastOf(A[e[i]])
                      /\ delivered[i] = Text[A[e[i]].by][A[e[i]].call]
      /\ \A i, j \in D : i < j => e[i] < e[j]
  BY <1>3, <1>4, <1>5 DEF EndsAt
<1>7. ASSUME NEW i \in D
      PROVE  LET b == A[e[i]] IN
             /\ Placed(b) /\ b.by \in Sender /\ b.call \in Calls(b.by)
             /\ b.nth = End(b.by, b.call) /\ b.nth \in Nat
             /\ calls[b.by] \in 0 .. Len(Text[b.by]) /\ b.call \in 1 .. calls[b.by]
  <2> DEFINE b == A[e[i]]
  <2>1. Placed(b) /\ LastOf(b) /\ b.nth <= accepted[b.by]
    BY <1>1, <1>6 DEF Gapless
  <2> HIDE DEF b
  <2>2. /\ b.by \in Sender /\ b.call \in Calls(b.by) /\ b.nth = End(b.by, b.call) /\ b.nth \in Nat
    BY <2>1, PlaceTypesOf DEF Placed
  <2>3. calls[b.by] \in 0 .. Len(Text[b.by]) /\ b.call \in 1 .. calls[b.by]
    BY <1>1, <2>1, <2>2, EndedIsBegun
  <2> QED BY <2>1, <2>2, <2>3 DEF b
<1> DEFINE by == [i \in D |-> A[e[i]].by]
<1>8. by \in [D -> Sender]
  BY <1>7
<1>9. ASSUME NEW s \in Sender
      PROVE  LET mine == {i \in D : by[i] = s} IN
             \E at \in [mine -> DOMAIN Begun(s)] :
                 /\ \A i \in mine : delivered[i] = Text[s][at[i]]
                 /\ \A i, j \in mine : i < j => at[i] < at[j]
  <2> DEFINE mine == {i \in D : by[i] = s}
             at == [i \in mine |-> A[e[i]].call]
  <2>1. ASSUME NEW i \in mine
        PROVE  /\ i \in D /\ A[e[i]].by = s /\ A[e[i]].call \in DOMAIN Begun(s)
               /\ A[e[i]].call \in Calls(s) /\ A[e[i]].nth = End(s, A[e[i]].call)
    <3>1. i \in D /\ A[e[i]].by = s
      OBVIOUS
    <3>2. /\ calls[s] \in 0 .. Len(Text[s]) /\ A[e[i]].call \in 1 .. calls[s]
          /\ A[e[i]].call \in Calls(s) /\ A[e[i]].nth = End(s, A[e[i]].call)
      BY <1>7, <3>1
    <3>3. DOMAIN Begun(s) = 1 .. calls[s]
      <4>1. Text[s] \in Seq(Seq(0 .. 255)) /\ Len(Text[s]) \in Nat
        BY TextAssumption, TextTypes
      <4> DEFINE q == Text[s]
                 c == calls[s]
      <4> HIDE DEF q, c
      <4>2. q \in Seq(Seq(0 .. 255)) /\ c \in 0 .. Len(q) /\ Len(q) \in Nat
        BY <3>2, <4>1 DEF q, c
      <4>3. \A m \in 1 .. c : q[m] \in Seq(0 .. 255)
        BY <4>2, ElementOfSeq
      <4>4. /\ SubSeq(q, 1, c) \in Seq(Seq(0 .. 255))
            /\ Len(SubSeq(q, 1, c)) = IF 1 <= c THEN c - 1 + 1 ELSE 0
        BY <4>2, <4>3, SubSeqProperties
      <4>5. Len(SubSeq(q, 1, c)) = c
        BY <4>2, <4>4
      <4> QED BY <4>4, <4>5, LenProperties DEF Begun, q, c
    <3> QED BY <3>1, <3>2, <3>3
  <2>2. at \in [mine -> DOMAIN Begun(s)]
    <3> HIDE DEF mine
    <3> QED BY <2>1
  <2>3. \A i \in mine : delivered[i] = Text[s][at[i]]
    BY <1>6, <2>1
  <2>4. ASSUME NEW i \in mine, NEW j \in mine, i < j PROVE at[i] < at[j]
    <3> DEFINE a == A[e[i]]
               b == A[e[j]]
    <3>1. /\ a.by = s /\ b.by = s /\ a.call \in Calls(s) /\ b.call \in Calls(s)
          /\ a.nth = End(s, a.call) /\ b.nth = End(s, b.call)
          /\ at[i] = a.call /\ at[j] = b.call
      BY <2>1
    <3>2. e[i] < e[j] /\ e[i] \in 1 .. Len(A) /\ e[j] \in 1 .. Len(A)
      BY <1>6, <2>1, <2>4
    <3>3. a.nth < b.nth
      BY <1>1, <3>1, <3>2 DEF Gapless
    <3>4. Len(Text[s]) \in Nat
      BY TextTypes
    <3> HIDE DEF a, b
    <3> DEFINE c == a.call
               d == b.call
               n == Len(Text[s])
    <3>5. c \in 1 .. n /\ d \in 1 .. n /\ n \in Nat
      BY <3>1, <3>4 DEF Calls
    <3>6. End(s, c) < End(s, d)
      BY <3>1, <3>3
    <3> HIDE DEF c, d, n
    <3>7. End(s, c) \in Nat /\ End(s, d) \in Nat
      <4>1. c \in 0 .. n /\ d \in 0 .. n
        BY <3>5
      <4> QED BY <4>1, Layout DEF n
    <3>8. ASSUME d <= c PROVE FALSE
      <4>1. d \in 0 .. n /\ c \in d .. n
        BY <3>5, <3>8
      <4>2. End(s, d) <= End(s, c)
        BY <4>1, EndsGrow DEF n
      <4> QED BY <3>6, <3>7, <4>2
    <3>9. c < d
      BY <3>5, <3>8
    <3> QED BY <3>1, <3>9 DEF c, d
  <2> HIDE DEF mine, at
  <2>5. \E x \in [mine -> DOMAIN Begun(s)] :
            /\ \A i \in mine : delivered[i] = Text[s][x[i]]
            /\ \A i, j \in mine : i < j => x[i] < x[j]
    BY <2>2, <2>3, <2>4
  <2> QED BY <2>5 DEF mine
<1> HIDE DEF by
<1> QED BY <1>8, <1>9 DEF MessagesSound

-----------------------------------------------------------------------------
(* Of a stream without a torn message the server's user is given every     *)
(* message that is whole in it, in the order of the stream, whatever       *)
(* threads sent it, however the ring, libuv and the kernel cut it and      *)
(* however it was read (TCPClient::Send, PacketSync::recvdata).  TAIL is   *)
(* less than 128, as FramesFoundOnce needs it.                             *)
THEOREM UntornAlwaysDelivered ==
    ASSUME TAIL < 128
    PROVE  LinkSpec => []UntornDelivered
<1>1. LinkInit => LinkInv
  BY InitLink
<1>2. LinkInv /\ [LinkNext]_linkVars => LinkInv'
  BY ClientLeavesParser, ParserLeavesClient DEF LinkNext
<1>3. LinkInv => UntornDelivered
  <2> SUFFICES ASSUME LinkInv, ~running, ~Torn(Arrived) PROVE delivered = WholeIn(Arrived)
    BY DEF UntornDelivered
  <2>1. WholeIn(Arrived) = delivered \o <<>> /\ delivered \in Seq(PP!Bytes)
    BY DeliveredOfWhole
  <2> QED BY <2>1, ConcatEmptySeq
<1> QED BY <1>1, <1>2, <1>3, PTL DEF LinkSpec

(* And at any time, in recvdata too, what the user has been given are      *)
(* messages of the threads, each thread's in its order and none twice, as  *)
(* long as none that has arrived is torn.  Where one is torn, no theorem   *)
(* can say so: data that hold a whole frame are taken for that frame.      *)
THEOREM UntornAlwaysSound ==
    ASSUME TAIL < 128
    PROVE  LinkSpec => [](~Torn(Arrived) => MessagesSound)
<1>1. LinkInit => LinkInv
  BY InitLink
<1>2. LinkInv /\ [LinkNext]_linkVars => LinkInv'
  BY ClientLeavesParser, ParserLeavesClient DEF LinkNext
<1>3. LinkInv => (~Torn(Arrived) => MessagesSound)
  BY UntornIsSound
<1> QED BY <1>1, <1>2, <1>3, PTL DEF LinkSpec

(* A thread that sends alone tears none: of what it sends the user is      *)
(* given every message once its last byte has been read, and no other.     *)
THEOREM AloneAlwaysDelivered ==
    ASSUME TAIL < 128, NEW s, Sender = {s}
    PROVE  LinkSpec => []((~running => delivered = WholeIn(Arrived)) /\ MessagesSound)
<1>1. LinkInit => LinkInv
  BY InitLink
<1>2. LinkInv /\ [LinkNext]_linkVars => LinkInv'
  BY ClientLeavesParser, ParserLeavesClient DEF LinkNext
<1>3. LinkInv => (~running => delivered = WholeIn(Arrived)) /\ MessagesSound
  <2> SUFFICES ASSUME LinkInv
               PROVE  (~running => delivered = WholeIn(Arrived)) /\ MessagesSound
    OBVIOUS
  <2>1. ~Torn(Arrived)
    BY ArrivedGapless, AloneUntorn
  <2>2. running \/ (WholeIn(Arrived) = delivered \o <<>> /\ delivered \in Seq(PP!Bytes))
    BY <2>1, DeliveredOfWhole
  <2> QED BY <2>1, <2>2, UntornIsSound, ConcatEmptySeq
<1> QED BY <1>1, <1>2, <1>3, PTL DEF LinkSpec
=============================================================================
