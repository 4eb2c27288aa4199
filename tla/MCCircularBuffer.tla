-------------------------- MODULE MCCircularBuffer --------------------------
EXTENDS CircularBuffer

CONSTANTS a, b

MCElem == {a, b}
(* Arrays of up to one element more than the ring holds. *)
MCChunks == UNION {[1 .. n -> MCElem] : n \in 0 .. Capacity + 1}
MCCounts == -1 .. Capacity + 1
=============================================================================
