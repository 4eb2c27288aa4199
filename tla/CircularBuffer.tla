--------------------------- MODULE CircularBuffer ---------------------------
(***************************************************************************)
(* PodCircularBuffer<T>, src/pod_circularbuffer.h: the ring buffer that    *)
(* holds the bytes a TCPClient has accepted for sending and not yet given  *)
(* to libuv.  Every caller holds a mutex around a call, so a call is one   *)
(* step.  The three branches of write and of read, chosen by the order of  *)
(* the two positions, are actions of their own.                            *)
(***************************************************************************)
EXTENDS Integers, Sequences

CONSTANTS Capacity, Elem, Chunks, Counts

ASSUME CapacityAssumption == Capacity \in Nat \ {0}
ASSUME RequestAssumption  == Chunks \subseteq Seq(Elem) /\ Counts \subseteq Int

VARIABLES pBuf,       \* m_pBuf
          readPos,    \* m_nReadPos
          writePos,   \* m_nWritePos
          empty,      \* m_bEmpty
          full,       \* m_bFull
          accepted,   \* what the last write returned
          taken       \* what the last read copied to its caller

vars == <<pBuf, readPos, writePos, empty, full, accepted, taken>>

Slots == 0 .. Capacity - 1

(* size(): the number of elements held. *)
Size == IF empty THEN 0
        ELSE IF full THEN Capacity
        ELSE IF readPos < writePos THEN writePos - readPos
        ELSE Capacity - readPos + writePos

(* memcpy(&mem[at], &data[from], n), with data numbered from 1. *)
Copied(mem, at, data, from, n) ==
    [j \in DOMAIN mem |->
        IF at <= j /\ j < at + n THEN data[from + 1 + (j - at)] ELSE mem[j]]

(* The n elements of mem that start at position at. *)
Taken(mem, at, n) == [i \in 1 .. n |-> mem[at + i - 1]]

-----------------------------------------------------------------------------
(* new T[capacity] leaves the slots of a POD type uninitialized. *)
Init ==
    /\ pBuf \in [Slots -> Elem]
    /\ readPos = 0
    /\ writePos = 0
    /\ empty = TRUE
    /\ full = FALSE
    /\ accepted = 0
    /\ taken = <<>>

(* Neither a count of zero or less nor a full buffer stores anything. *)
WriteNothing(count) ==
    /\ count <= 0 \/ full
    /\ accepted' = 0
    /\ taken' = <<>>
    /\ UNCHANGED <<pBuf, readPos, writePos, empty, full>>

(* The positions agree: the buffer is empty.  The data go up to the end of *)
(* the array and then, from slot 0, at most up to the read position.       *)
WriteWhenEmpty(data, count) ==
    LET left == Capacity - writePos
        over == IF readPos > count - left THEN count - left ELSE writePos
    IN
    /\ count > 0 /\ ~full /\ readPos = writePos
    /\ empty' = FALSE
    /\ \/ /\ left > count
          /\ pBuf' = Copied(pBuf, writePos, data, 0, count)
          /\ writePos' = writePos + count
          /\ accepted' = count
          /\ UNCHANGED full
       \/ /\ left <= count
          /\ pBuf' = Copied(Copied(pBuf, writePos, data, 0, left), 0, data, left, over)
          /\ writePos' = over
          /\ full' = (over = readPos)
          /\ accepted' = left + over
    /\ taken' = <<>>
    /\ UNCHANGED readPos

(* A mistake FlagsAgree must notice: the flag is not set when the ring     *)
(* fills up exactly.                                                       *)
WriteBehindNeverFull(data, count) ==
    LET left == readPos - writePos
        k    == IF left > count THEN count ELSE left
    IN
    /\ count > 0 /\ ~full /\ readPos > writePos
    /\ empty' = FALSE
    /\ pBuf' = Copied(pBuf, writePos, data, 0, k)
    /\ writePos' = writePos + k
    /\ accepted' = k
    /\ taken' = <<>>
    /\ UNCHANGED <<readPos, full>>

(* A mistake TypeOK must notice: data that end exactly at the end of the   *)
(* array leave the position there instead of at slot 0.                    *)
WriteAheadPastEnd(data, count) ==
    /\ count > 0 /\ ~full /\ readPos < writePos
    /\ Capacity - writePos >= count
    /\ empty' = FALSE
    /\ pBuf' = Copied(pBuf, writePos, data, 0, count)
    /\ writePos' = writePos + count
    /\ accepted' = count
    /\ full' = (readPos = writePos')
    /\ taken' = <<>>
    /\ UNCHANGED readPos

(* The data lie in one piece: there is room behind them and before them. *)
WriteAhead(data, count) ==
    LET left == Capacity - writePos
        over == IF readPos >= count - left THEN count - left ELSE readPos
    IN
    /\ count > 0 /\ ~full /\ readPos < writePos
    /\ empty' = FALSE
    /\ \/ /\ left > count
          /\ pBuf' = Copied(pBuf, writePos, data, 0, count)
          /\ writePos' = writePos + count
          /\ accepted' = count
       \/ /\ left <= count
          /\ pBuf' = Copied(Copied(pBuf, writePos, data, 0, left), 0, data, left, over)
          /\ writePos' = over
          /\ accepted' = left + over
    /\ full' = (readPos = writePos')
    /\ taken' = <<>>
    /\ UNCHANGED readPos

(* The data wrap around: the room is the gap between the two positions. *)
WriteBehind(data, count) ==
    LET left == readPos - writePos
        k    == IF left > count THEN count ELSE left
    IN
    /\ count > 0 /\ ~full /\ readPos > writePos
    /\ empty' = FALSE
    /\ pBuf' = Copied(pBuf, writePos, data, 0, k)
    /\ writePos' = writePos + k
    /\ full' = (readPos = writePos + k)
    /\ accepted' = k
    /\ taken' = <<>>
    /\ UNCHANGED readPos

Write(data, count) ==
    \/ WriteNothing(count)
    \/ WriteWhenEmpty(data, count)
    \/ WriteAhead(data, count)
    \/ WriteBehind(data, count)

-----------------------------------------------------------------------------
ReadNothing(count) ==
    /\ count <= 0 \/ empty
    /\ accepted' = 0
    /\ taken' = <<>>
    /\ UNCHANGED <<pBuf, readPos, writePos, empty, full>>

(* A mistake ImplementsFifo must notice: a read that reaches the end of    *)
(* the array gives up what lies before the write position.                 *)
ReadBehindDropsHead(count) ==
    LET left == Capacity - readPos IN
    /\ count > 0 /\ ~empty /\ readPos > writePos
    /\ \/ /\ left > count
          /\ taken' = Taken(pBuf, readPos, count)
          /\ readPos' = readPos + count
       \/ /\ left <= count
          /\ taken' = Taken(pBuf, readPos, left)
          /\ readPos' = writePos
    /\ empty' = (readPos' = writePos)
    /\ full' = FALSE
    /\ accepted' = 0
    /\ UNCHANGED <<pBuf, writePos>>

(* The positions agree: the buffer is full. *)
ReadWhenFull(count) ==
    LET left == Capacity - readPos
        over == IF writePos > count - left THEN count - left ELSE writePos
    IN
    /\ count > 0 /\ ~empty /\ readPos = writePos
    /\ \/ /\ left > count
          /\ taken' = Taken(pBuf, readPos, count)
          /\ readPos' = readPos + count
       \/ /\ left <= count
          /\ taken' = Taken(pBuf, readPos, left) \o Taken(pBuf, 0, over)
          /\ readPos' = over
    /\ empty' = (readPos' = writePos)
    /\ full' = FALSE
    /\ accepted' = 0
    /\ UNCHANGED <<pBuf, writePos>>

(* The data lie in one piece. *)
ReadAhead(count) ==
    LET left == writePos - readPos
        c    == IF left > count THEN count ELSE left
    IN
    /\ count > 0 /\ ~empty /\ readPos < writePos
    /\ taken' = Taken(pBuf, readPos, c)
    /\ readPos' = readPos + c
    /\ empty' = (readPos + c = writePos)
    /\ full' = FALSE
    /\ accepted' = 0
    /\ UNCHANGED <<pBuf, writePos>>

(* The data wrap around the end of the array. *)
ReadBehind(count) ==
    LET left == Capacity - readPos
        over == IF writePos >= count - left THEN count - left ELSE writePos
    IN
    /\ count > 0 /\ ~empty /\ readPos > writePos
    /\ \/ /\ left > count
          /\ taken' = Taken(pBuf, readPos, count)
          /\ readPos' = readPos + count
       \/ /\ left <= count
          /\ taken' = Taken(pBuf, readPos, left) \o Taken(pBuf, 0, over)
          /\ readPos' = over
    /\ empty' = (readPos' = writePos)
    /\ full' = FALSE
    /\ accepted' = 0
    /\ UNCHANGED <<pBuf, writePos>>

Read(count) ==
    \/ ReadNothing(count)
    \/ ReadWhenFull(count)
    \/ ReadAhead(count)
    \/ ReadBehind(count)

Clear ==
    /\ readPos' = 0
    /\ writePos' = 0
    /\ empty' = TRUE
    /\ full' = FALSE
    /\ accepted' = 0
    /\ taken' = <<>>
    /\ UNCHANGED pBuf

(* A caller never asks for more elements than the array it passes holds. *)
Next ==
    \/ \E data \in Chunks, count \in Counts :
          count <= Len(data) /\ Write(data, count)
    \/ \E count \in Counts : Read(count)
    \/ Clear

Spec == Init /\ [][Next]_vars

-----------------------------------------------------------------------------
TypeOK ==
    /\ pBuf \in [Slots -> Elem]
    /\ readPos \in Slots
    /\ writePos \in Slots
    /\ empty \in BOOLEAN
    /\ full \in BOOLEAN
    /\ accepted \in 0 .. Capacity
    /\ taken \in Seq(Elem)

(* The two flags and the two positions are four pieces of state for one    *)
(* fact, how much is held.  Equal positions mean an empty or a full buffer *)
(* and the flags say which; every branch of write and read takes the right *)
(* one only as long as they do.                                            *)
FlagsAgree ==
    /\ (empty \/ full) <=> (readPos = writePos)
    /\ ~ (empty /\ full)

(* The n elements found from position at on, going round the ring. *)
Slot(p) == IF p < Capacity THEN p ELSE p - Capacity
Ring(mem, at, n) == [i \in 1 .. n |-> mem[Slot(at + i - 1)]]

(* The elements held, oldest first. *)
Contents == Ring(pBuf, readPos, Size)

Fifo == INSTANCE BoundedFifo WITH queue <- Contents

(* The ring buffer is a bounded queue: for every call, what write keeps    *)
(* and what read hands out is what the queue keeps and hands out, over any *)
(* sequence of calls and whatever branch each of them takes.               *)
ImplementsFifo == Fifo!Spec
=============================================================================
