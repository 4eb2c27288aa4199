---------------------------- MODULE MCPacketSync ----------------------------
EXTENDS PacketSync

MCHostOrders == {"little", "big"}

(* A weighted sum, in five values. *)
MCDigest(data) == (FoldSet(LAMBDA i, sum : i * data[i] + sum, 1, DOMAIN data)) % 5

(* Two pieces on a first connection and one on a second, and so on. *)
MCTwoAndOne == <<2, 1>>
MCOneAndOne == <<1, 1>>

(* A byte, three bytes, and more than the buffer of seven holds. *)
MCChunkSizes == {1, 3, 8}

(* No data; the byte HEAD; data that look like the beginning of a frame,   *)
(* in a frame longer than the buffer.                                      *)
MCMessages == {<<>>, <<HEAD>>, <<HEAD, HEAD, TAIL>>}

(* A frame with a wrong tail, a frame with a wrong digest, a header that   *)
(* promises more than follows, one with a negative length, and a lone HEAD *)
(* (which makes a wrong header of the frame behind it).                    *)
MCNoise == {<<HEAD, HEAD, TAIL, 2, 1, HEAD, 0>>,
            <<HEAD, HEAD, TAIL, 0, 3, HEAD, HEAD, 0, TAIL>>,
            <<HEAD, HEAD, TAIL, 0, 5>>,
            <<HEAD, HEAD, TAIL, 0, 255>>,
            <<HEAD>>}

(* With a frame that is longer than one that comes after it. *)
MCLongMessages == MCMessages \cup {<<0, 0, 0, 0, 0, 0, 0, 0>>}
=============================================================================
