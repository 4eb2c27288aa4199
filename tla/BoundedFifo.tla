---------------------------- MODULE BoundedFifo ----------------------------
(***************************************************************************)
(* What PodCircularBuffer (src/pod_circularbuffer.h) promises its callers: *)
(* a first-in first-out queue of at most Capacity elements.  A write keeps *)
(* as long a prefix of the caller's data as there is room for, a read      *)
(* hands out as long a prefix of the queue as was asked for.               *)
(***************************************************************************)
EXTENDS Integers, Sequences

CONSTANTS Capacity,   \* the constructor's argument
          Elem,       \* the element type T
          Chunks,     \* the arrays callers pass to write
          Counts      \* the counts callers pass; int, so possibly negative

VARIABLES queue,      \* the elements held, oldest first
          accepted,   \* what the last call of write returned
          taken       \* the elements the last call of read copied out

fifoVars == <<queue, accepted, taken>>

Least(a, b) == IF a <= b THEN a ELSE b

(* A count of zero or less asks for nothing. *)
Asked(count) == IF count > 0 THEN count ELSE 0

Init ==
    /\ queue = <<>>
    /\ accepted = 0
    /\ taken = <<>>

Write(data, count) ==
    LET k == Least(Asked(count), Capacity - Len(queue)) IN
    /\ queue' = queue \o SubSeq(data, 1, k)
    /\ accepted' = k
    /\ taken' = <<>>

Read(count) ==
    LET k == Least(Asked(count), Len(queue)) IN
    /\ taken' = SubSeq(queue, 1, k)
    /\ queue' = SubSeq(queue, k + 1, Len(queue))
    /\ accepted' = 0

Clear ==
    /\ queue' = <<>>
    /\ accepted' = 0
    /\ taken' = <<>>

Next ==
    \/ \E data \in Chunks, count \in Counts :
          count <= Len(data) /\ Write(data, count)
    \/ \E count \in Counts : Read(count)
    \/ Clear

Spec == Init /\ [][Next]_fifoVars
=============================================================================
