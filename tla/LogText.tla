------------------------------ MODULE LogText ------------------------------
(***************************************************************************)
(* How the text of a log line comes together: CStringStream of             *)
(* src/log4z/log4z.h writes its pieces into a buffer of the thread's that  *)
(* still holds the last line, and PushLog of src/log4z/log4z.cpp copies    *)
(* the buffer, as a C string, into another of the same size.  A piece is   *)
(* a sequence of characters; how numbers are turned into one is left out.  *)
(***************************************************************************)
EXTENDS Integers, Sequences, SequencesExt

CONSTANTS Size,      \* LOG4Z_LOG_BUF_SIZE
          Char,      \* the characters of texts
          Nul,       \* the character '\0'
          MaxPieces  \* bound: the pieces of a message

ASSUME SizeAssumption == Size \in Nat \ {0} /\ Nul \notin Char /\ MaxPieces \in Nat

Greater(m, n) == IF m < n THEN n ELSE m
Lesser(m, n)  == IF m < n THEN m ELSE n

(* A buffer with the sequence s written from place i on; one that has got  *)
(* longer has been written past its end.                                   *)
Put(buf, i, s) ==
    [k \in 1 .. Greater(Len(buf), i + Len(s) - 1) |->
        IF k \in i .. i + Len(s) - 1 THEN s[k - i + 1] ELSE buf[k]]

(* snprintf at place i with room for count characters, the last a Nul. *)
Snprintf(buf, i, count, text) ==
    Put(buf, i, Append(SubSeq(text, 1, Lesser(Len(text), count - 1)), Nul))

(* CStringStream::WriteData: m_pCur is the place cur, m_pEnd is Size + 1.  *)
WriteData(s, text) ==
    LET count == Size - s.cur + 1 IN
    IF count = 0 THEN s
    ELSE [buf |-> Snprintf(s.buf, s.cur, count, text),
          cur |-> IF Len(text) >= count THEN Size + 1 ELSE s.cur + Len(text)]

(* LOG_STREAM: a message and what the macro adds go into the buffer. *)
LogStream(old, pieces) ==
    LET after[n \in 0 .. Len(pieces)] ==
            IF n = 0 THEN [buf |-> old, cur |-> 1] ELSE WriteData(after[n - 1], pieces[n])
    IN  after[Len(pieces)].buf

(* strlen; a buffer without a Nul has none. *)
Ends(buf)   == {i \in DOMAIN buf : buf[i] = Nul}
Strlen(buf) == (CHOOSE i \in Ends(buf) : \A j \in Ends(buf) : i <= j) - 1

(* A mistake TextKept must notice: a string that just fills the buffer is  *)
(* copied with the Nul at its end.                                         *)
ContentOneMore(old, log) ==
    LET len == Strlen(log) IN
    IF len > Size THEN Put(Put(old, 1, SubSeq(log, 1, Size)), Size, <<Nul>>)
    ELSE Put(old, 1, SubSeq(log, 1, len + 1))

(* The copy that PushLog makes of a string. *)
Content(old, log) ==
    LET len == Strlen(log) IN
    IF len >= Size THEN Put(Put(old, 1, SubSeq(log, 1, Size)), Size, <<Nul>>)
    ELSE Put(old, 1, SubSeq(log, 1, len + 1))

Text(buf) == SubSeq(buf, 1, Strlen(buf))

-----------------------------------------------------------------------------
Texts   == BoundedSeq(Char, Size)
Buffers == [1 .. Size -> Char \cup {Nul}]
Strings == {Append(s, Nul) : s \in BoundedSeq(Char, Size + 1)}

Holds(buf, text) ==
    Len(buf) = Size /\ Ends(buf) # {} /\ Text(buf) = SubSeq(text, 1, Lesser(Len(text), Size - 1))

(* Whatever the buffers held before, they hold the text put into them, cut *)
(* so that it ends with a Nul inside of them: a message in pieces of any   *)
(* lengths, the last of which may come when there is no room, and a string *)
(* of any length, which PushLog gets from other callers than LOG_STREAM.   *)
TextKept ==
    \A old \in Buffers :
        /\ \A pieces \in BoundedSeq(Texts, MaxPieces) \ {<<>>} :
               Holds(LogStream(old, pieces), FlattenSeq(pieces))
        /\ \A log \in Strings : Holds(Content(old, log), Text(log))
=============================================================================
