-------------------------- MODULE LogManagerProofs --------------------------
(***************************************************************************)
(* Theorems about the logger for any threads, loggers, starts, failures    *)
(* and configuration files.  The first part is about PushLog, Stop and the *)
(* logger's thread: no line is left behind when the logger stops, none     *)
(* changes places with another of its thread, none is lost or written      *)
(* twice.  Then come what ParseConfig makes of a file, the loggers with    *)
(* their places, limits and files, and the buffers of a line's text.       *)
(***************************************************************************)
EXTENDS LogManager, DataLemmas

USE LoggerAssumption, LevelAssumption

QueueTypes ==
    /\ starts \in Nat
    /\ pushed \in [Thread -> Nat]
    /\ line \in [Thread -> Seq(Lines)]
    /\ logs \in Seq(Lines)
    /\ popped \in Seq(Lines)
    /\ \/ writer \notin {"writing", "recording"} /\ popped = <<>>
       \/ writer \in {"writing", "recording"} /\ popped = <<popped[1]>>

Named(n, seq) == \E i \in DOMAIN seq : Name(seq[i]) = n

(* A line in the queue is on its way until it is written or dropped. *)
Accounted ==
    \A n \in accepted : n \in written \cup dropped \/ Named(n, popped) \/ Named(n, logs)

(* What StopFlushes rests on: a thread that has decided to quit has found  *)
(* the queue empty since Stop was called, and Stop is not called again.    *)
Flushed ==
    /\ before \subseteq accepted
    /\ writer \in {"quitting", "ended"} => ~running /\ before \subseteq written \cup dropped

(* There is no thread while the controlling one can start another. *)
Controlled ==
    /\ control = "idle" /\ ~running => writer \in {"none", "ended"}
    /\ control = "starting" /\ writer # "created" => running

QueueInv == QueueTypes /\ Accounted /\ Flushed /\ Controlled

-----------------------------------------------------------------------------
LEMMA NamedAppend ==
    ASSUME NEW S, NEW q \in Seq(S), NEW r \in Seq(S), NEW n
    PROVE  Named(n, q \o r) <=> Named(n, q) \/ Named(n, r)
<1>1. /\ Len(q) \in Nat /\ Len(r) \in Nat
      /\ DOMAIN q = 1 .. Len(q) /\ DOMAIN r = 1 .. Len(r)
  BY LenProperties
<1>2. /\ q \o r \in Seq(S) /\ Len(q \o r) = Len(q) + Len(r)
      /\ \A i \in 1 .. Len(q) + Len(r) : (q \o r)[i] = IF i <= Len(q) THEN q[i]
                                                       ELSE r[i - Len(q)]
  BY ConcatProperties
<1>3. DOMAIN (q \o r) = 1 .. Len(q) + Len(r)
  BY <1>2, LenProperties
<1>4. \A i \in DOMAIN (q \o r) : \/ i \in DOMAIN q /\ (q \o r)[i] = q[i]
                                 \/ i - Len(q) \in DOMAIN r /\ (q \o r)[i] = r[i - Len(q)]
  BY <1>1, <1>2, <1>3
<1>5. \A i \in DOMAIN q : i \in DOMAIN (q \o r) /\ (q \o r)[i] = q[i]
  BY <1>1, <1>2, <1>3
<1>6. \A i \in DOMAIN r : i + Len(q) \in DOMAIN (q \o r) /\ (q \o r)[i + Len(q)] = r[i]
  BY <1>1, <1>2, <1>3
<1> QED BY <1>4, <1>5, <1>6 DEF Named

LEMMA NamedHead ==
    ASSUME NEW S, NEW q \in Seq(S), q # <<>>, NEW n, Named(n, q)
    PROVE  n = Name(Head(q)) \/ Named(n, Tail(q))
<1>1. DOMAIN q = 1 .. Len(q) /\ Len(q) \in Nat
  BY LenProperties
<1>2. /\ Tail(q) \in Seq(S) /\ Len(Tail(q)) = Len(q) - 1
      /\ \A i \in 1 .. Len(Tail(q)) : Tail(q)[i] = q[i + 1]
  BY HeadTailProperties
<1>3. DOMAIN Tail(q) = 1 .. Len(q) - 1
  BY <1>2, LenProperties
<1>4. PICK i \in DOMAIN q : Name(q[i]) = n
  BY DEF Named
<1>5. CASE i = 1
  BY <1>4, <1>5
<1>6. CASE i # 1
  <2>1. i - 1 \in DOMAIN Tail(q) /\ Tail(q)[i - 1] = q[i]
    BY <1>1, <1>2, <1>3, <1>6
  <2> QED BY <1>4, <2>1 DEF Named
<1> QED BY <1>5, <1>6

LEMMA NamedSingle ==
    ASSUME NEW l, NEW n
    PROVE  Named(n, <<l>>) <=> n = Name(l)
BY DEF Named

-----------------------------------------------------------------------------
LEMMA InitQueue == Init => QueueInv
<1> SUFFICES ASSUME Init PROVE QueueInv
  OBVIOUS
<1>1. QueueTypes
  BY EmptySeq DEF Init, QueueTypes
<1>2. Accounted /\ Flushed
  BY DEF Init, Accounted, Flushed
<1>3. Controlled
  BY DEF Init, Controlled
<1> QED BY <1>1, <1>2, <1>3 DEF QueueInv

(* A step that leaves the lines alone. *)
LEMMA LinesAlone ==
    ASSUME QueueInv,
           UNCHANGED <<line, pushed, accepted, written, dropped, logs, popped>>,
           starts' \in Nat,
           writer' \in {"writing", "recording"} <=> writer \in {"writing", "recording"}
    PROVE  QueueTypes' /\ Accounted'
<1>1. QueueTypes'
  BY DEF QueueInv, QueueTypes
<1>2. Accounted'
  BY DEF QueueInv, Accounted
<1> QED BY <1>1, <1>2

LEMMA StartStep == QueueInv /\ Start => QueueInv'
<1> SUFFICES ASSUME QueueInv, Start PROVE QueueInv'
  OBVIOUS
<1>1. /\ UNCHANGED <<line, pushed, accepted, before, written, dropped, logs, popped>>
      /\ starts' = starts + 1 /\ writer' = "created"
  BY DEF Start, history, callers
<1>2. writer \in {"none", "ended"}
  BY DEF QueueInv, Controlled, Start
<1>3. starts \in Nat
  BY DEF QueueInv, QueueTypes
<1>4. QueueTypes' /\ Accounted'
  BY <1>1, <1>2, <1>3, LinesAlone
<1>5. Flushed'
  BY <1>1 DEF QueueInv, Flushed
<1>6. Controlled'
  BY <1>1 DEF Start, Controlled
<1> QED BY <1>4, <1>5, <1>6 DEF QueueInv

LEMMA StopStep == QueueInv /\ Stop => QueueInv'
<1> SUFFICES ASSUME QueueInv, Stop PROVE QueueInv'
  OBVIOUS
<1>1. /\ UNCHANGED <<line, pushed, accepted, written, dropped, logs, popped, starts, writer>>
      /\ running /\ ~running' /\ control' = "stopping" /\ before' = accepted
  BY DEF Stop, callers
<1>2. QueueTypes' /\ Accounted'
  BY <1>1, LinesAlone DEF QueueInv, QueueTypes
<1>3. Flushed' /\ Controlled'
  BY <1>1 DEF QueueInv, Flushed, Controlled
<1> QED BY <1>2, <1>3 DEF QueueInv

(* The other steps of the controlling thread, and those of the logger's    *)
(* thread that take no line. *)
LEMMA OtherStep ==
    ASSUME QueueInv,
           \/ StartReturns \/ StopEnds \/ PopFails \/ QuitOrSleep \/ Quit
           \/ \E lines \in ConfigFiles :
                  \/ Config(lines) \/ UpdateConfig(lines)
                  \/ \E name \in DOMAIN ParseConfig(lines) :
                         \/ CreateLogger(name, ParseConfig(lines)[name])
                         \/ \E id \in Logger : SetLogger(id, ParseConfig(lines)[name])
           \/ UNCHANGED vars
    PROVE  QueueInv'
<1>1. CASE StartReturns \/ StopEnds
  <2>1. /\ UNCHANGED <<line, pushed, accepted, before, written, dropped, logs, popped, starts,
                      writer, running>>
        /\ control' = "idle"
        /\ (control = "starting" /\ writer # "created") \/ writer = "ended"
    BY <1>1 DEF StartReturns, StopEnds, history, callers
  <2>2. QueueTypes' /\ Accounted'
    BY <2>1, LinesAlone DEF QueueInv, QueueTypes
  <2>3. Flushed' /\ Controlled'
    BY <2>1 DEF QueueInv, Flushed, Controlled
  <2> QED BY <2>2, <2>3 DEF QueueInv
<1>2. CASE PopFails \/ QuitOrSleep \/ Quit
  <2>1. /\ UNCHANGED <<line, pushed, accepted, before, written, dropped, logs, popped, starts,
                      running, control>>
        /\ writer \in {"looking", "idle", "quitting"}
        /\ writer' \notin {"none", "created", "writing", "recording"}
        /\ writer' = "quitting" => writer = "idle" /\ ~running /\ logs = <<>>
        /\ writer' = "ended" => writer = "quitting"
    BY <1>2 DEF PopFails, QuitOrSleep, Quit, history, callers
  <2>2. popped = <<>>
    BY <2>1 DEF QueueInv, QueueTypes
  <2>3. QueueTypes' /\ Accounted'
    BY <2>1, <2>2, LinesAlone DEF QueueInv, QueueTypes
  <2>4. logs = <<>> => accepted \subseteq written \cup dropped
    BY <2>2 DEF QueueInv, Accounted, Named
  <2>5. Flushed'
    BY <2>1, <2>4 DEF QueueInv, Flushed
  <2>6. Controlled'
    BY <2>1 DEF QueueInv, Controlled
  <2> QED BY <2>3, <2>5, <2>6 DEF QueueInv
<1>3. CASE \/ UNCHANGED vars
           \/ \E lines \in ConfigFiles :
                  \/ Config(lines) \/ UpdateConfig(lines)
                  \/ \E name \in DOMAIN ParseConfig(lines) :
                         \/ CreateLogger(name, ParseConfig(lines)[name])
                         \/ \E id \in Logger : SetLogger(id, ParseConfig(lines)[name])
  <2>1. UNCHANGED <<line, pushed, accepted, before, written, dropped, logs, popped, starts,
                    writer, running, control>>
    BY <1>3 DEF Config, UpdateConfig, CreateLogger, SetLogger, Configure, history, callers, vars
  <2>2. QueueTypes' /\ Accounted'
    BY <2>1, LinesAlone DEF QueueInv, QueueTypes
  <2>3. Flushed' /\ Controlled'
    BY <2>1 DEF QueueInv, Flushed, Controlled
  <2> QED BY <2>2, <2>3 DEF QueueInv
<1> QED BY <1>1, <1>2, <1>3

LEMMA PushStep ==
    ASSUME QueueInv, NEW t \in Thread, NEW id \in Logger, NEW n \in PushLevel,
           PushLog(t, id, n)
    PROVE  QueueInv'
<1> DEFINE l == [by |-> t, nth |-> pushed[t] + 1, id |-> id, level |-> n]
<1>1. /\ UNCHANGED <<accepted, before, written, dropped, logs, popped, starts, writer,
                    running, control>>
      /\ pushed' = [pushed EXCEPT ![t] = @ + 1]
      /\ line' = [line EXCEPT ![t] = <<l>>]
  BY DEF PushLog, history
<1>2. pushed[t] \in Nat
  BY DEF QueueInv, QueueTypes
<1>3. n \in 0 .. 5
  BY DEF QueueInv
<1>4. l \in Lines
  BY <1>2, <1>3 DEF Lines
<1> HIDE DEF l
<1>5. <<l>> \in Seq(Lines)
  BY <1>4
<1>6. QueueTypes'
  BY <1>1, <1>2, <1>5 DEF QueueInv, QueueTypes
<1>7. Accounted' /\ Flushed' /\ Controlled'
  BY <1>1 DEF QueueInv, Accounted, Flushed, Controlled
<1> QED BY <1>6, <1>7 DEF QueueInv

LEMMA EnqueueStep ==
    ASSUME QueueInv, NEW t \in Thread, Enqueue(t)
    PROVE  QueueInv'
<1>1. /\ UNCHANGED <<pushed, before, written, dropped, popped, starts, writer, running,
                    control>>
      /\ logs' = logs \o line[t]
      /\ accepted' = accepted \cup Names(line[t])
      /\ line' = [line EXCEPT ![t] = <<>>]
  BY DEF Enqueue
<1>2. logs \in Seq(Lines) /\ line[t] \in Seq(Lines)
  BY DEF QueueInv, QueueTypes
<1>3. logs' \in Seq(Lines) /\ <<>> \in Seq(Lines)
  BY <1>1, <1>2, ConcatProperties, EmptySeq
<1>4. QueueTypes'
  BY <1>1, <1>3 DEF QueueInv, QueueTypes
<1>5. Accounted'
  <2> SUFFICES ASSUME NEW n \in accepted'
               PROVE  n \in written' \cup dropped' \/ Named(n, popped') \/ Named(n, logs')
    BY DEF Accounted
  <2>1. Named(n, logs') <=> Named(n, logs) \/ Named(n, line[t])
    BY <1>1, <1>2, NamedAppend
  <2>2. n \in Names(line[t]) => Named(n, line[t])
    BY DEF Names, Named
  <2> QED BY <1>1, <2>1, <2>2 DEF QueueInv, Accounted
<1>6. Flushed' /\ Controlled'
  BY <1>1 DEF QueueInv, Flushed, Controlled
<1> QED BY <1>4, <1>5, <1>6 DEF QueueInv

(* What the logger's thread begins with is a line or nothing. *)
LEMMA BegunLines ==
    ASSUME starts \in Nat
    PROVE  /\ Banner \in Lines /\ Banner.by = Writer /\ Banner.nth = starts
           /\ Begun \in Seq(Lines) /\ (Begun = <<>> \/ Begun = <<Banner>>)
<1>1. Banner \in Lines /\ Banner.by = Writer /\ Banner.nth = starts
  BY DEF Banner, Lines, Main, Alarm, Logger
<1>2. Begun = <<>> \/ Begun = <<Banner>>
  BY DEF Begun
<1> HIDE DEF Banner
<1>3. PICK l \in Lines : l = Banner
  BY <1>1
<1>4. <<l>> \in Seq(Lines) /\ <<>> \in Seq(Lines)
  OBVIOUS
<1>5. Begun \in Seq(Lines)
  BY <1>2, <1>3, <1>4
<1> QED BY <1>1, <1>2, <1>5

LEMMA BeginStep == QueueInv /\ Begin => QueueInv'
<1> SUFFICES ASSUME QueueInv, Begin PROVE QueueInv'
  OBVIOUS
<1>1. /\ UNCHANGED <<line, pushed, before, written, dropped, popped, starts, control>>
      /\ writer = "created" /\ writer' = "looking" /\ running'
      /\ logs' = logs \o Begun
      /\ accepted' = accepted \cup Names(Begun)
  BY DEF Begin, callers
<1>2. logs \in Seq(Lines) /\ starts \in Nat
  BY DEF QueueInv, QueueTypes
<1>3. Begun \in Seq(Lines)
  BY <1>2, BegunLines
<1>4. logs' \in Seq(Lines)
  BY <1>1, <1>2, <1>3, ConcatProperties
<1>5. popped = <<>>
  BY <1>1 DEF QueueInv, QueueTypes
<1>6. QueueTypes'
  BY <1>1, <1>4, <1>5 DEF QueueInv, QueueTypes
<1>7. Accounted'
  <2> SUFFICES ASSUME NEW n \in accepted'
               PROVE  n \in written' \cup dropped' \/ Named(n, popped') \/ Named(n, logs')
    BY DEF Accounted
  <2>1. Named(n, logs') <=> Named(n, logs) \/ Named(n, Begun)
    BY <1>1, <1>2, <1>3, NamedAppend
  <2>2. n \in Names(Begun) => Named(n, Begun)
    BY DEF Names, Named
  <2> QED BY <1>1, <2>1, <2>2 DEF QueueInv, Accounted
<1>8. Flushed' /\ Controlled'
  BY <1>1 DEF QueueInv, Flushed, Controlled
<1> QED BY <1>6, <1>7, <1>8 DEF QueueInv

LEMMA PopStep == QueueInv /\ PopLog => QueueInv'
<1> SUFFICES ASSUME QueueInv, PopLog PROVE QueueInv'
  OBVIOUS
<1>1. /\ UNCHANGED <<line, pushed, accepted, before, written, dropped, starts, running,
                    control>>
      /\ writer = "looking" /\ writer' = "writing" /\ logs # <<>>
      /\ popped' = <<Head(logs)>> /\ logs' = Tail(logs)
  BY DEF PopLog, callers, history
<1>2. logs \in Seq(Lines) /\ popped = <<>>
  BY <1>1 DEF QueueInv, QueueTypes
<1>3. logs' \in Seq(Lines) /\ popped' = <<popped'[1]>> /\ popped' \in Seq(Lines)
  BY <1>1, <1>2, HeadTailProperties
<1>4. QueueTypes'
  BY <1>1, <1>3 DEF QueueInv, QueueTypes
<1>5. Accounted'
  <2> SUFFICES ASSUME NEW n \in accepted'
               PROVE  n \in written' \cup dropped' \/ Named(n, popped') \/ Named(n, logs')
    BY DEF Accounted
  <2>1. n \in written \cup dropped \/ Named(n, logs)
    BY <1>1, <1>2 DEF QueueInv, Accounted, Named
  <2>2. Named(n, popped') <=> n = Name(Head(logs))
    BY <1>1, NamedSingle
  <2>3. Named(n, logs) => n = Name(Head(logs)) \/ Named(n, logs')
    BY <1>1, <1>2, NamedHead
  <2> QED BY <1>1, <2>1, <2>2, <2>3
<1>6. Flushed' /\ Controlled'
  BY <1>1 DEF QueueInv, Flushed, Controlled
<1> QED BY <1>4, <1>5, <1>6 DEF QueueInv

LEMMA UpdateStep == QueueInv /\ UpdateFile => QueueInv'
<1> SUFFICES ASSUME QueueInv, UpdateFile PROVE QueueInv'
  OBVIOUS
<1>1. /\ UNCHANGED <<line, pushed, accepted, before, written, dropped, logs, popped, starts,
                    running, control>>
      /\ writer = "writing" /\ writer' = "recording"
  BY DEF UpdateFile, Writable, callers
<1>2. QueueTypes' /\ Accounted'
  BY <1>1, LinesAlone DEF QueueInv, QueueTypes
<1>3. Flushed' /\ Controlled'
  BY <1>1 DEF QueueInv, Flushed, Controlled
<1> QED BY <1>2, <1>3 DEF QueueInv

LEMMA WritingStep == QueueInv /\ (Discard \/ Write \/ WriteShort \/ OpenFails) => QueueInv'
<1> SUFFICES ASSUME QueueInv, Discard \/ Write \/ WriteShort \/ OpenFails PROVE QueueInv'
  OBVIOUS
<1>1. /\ UNCHANGED <<line, pushed, accepted, before, logs, starts, running, control>>
      /\ writer \in {"writing", "recording"} /\ writer' = "looking" /\ popped' = <<>>
      /\ written \cup dropped \cup {Name(popped[1])} \subseteq written' \cup dropped'
  BY DEF Discard, Write, WriteShort, OpenFails, Writable, Done, Line, callers
<1>2. QueueTypes'
  BY <1>1 DEF QueueInv, QueueTypes
<1>3. \A n : Named(n, popped) => n = Name(popped[1])
  BY NamedSingle DEF QueueInv, QueueTypes, Named
<1>4. Accounted'
  BY <1>1, <1>3 DEF QueueInv, Accounted
<1>5. Flushed' /\ Controlled'
  BY <1>1 DEF QueueInv, Flushed, Controlled
<1> QED BY <1>2, <1>4, <1>5 DEF QueueInv

LEMMA QueueStep == QueueInv /\ [Next]_vars => QueueInv'
BY StartStep, StopStep, OtherStep, PushStep, EnqueueStep, BeginStep, PopStep, UpdateStep,
   WritingStep
   DEF Next, WriterStep

(* When the logger's thread has ended every line that was in the queue     *)
(* when Stop was called is written, or was dropped for cause.              *)
THEOREM StopAlwaysFlushes == Spec => []StopFlushes
<1>1. QueueInv => StopFlushes
  BY DEF QueueInv, Flushed, StopFlushes
<1> QED BY <1>1, InitQueue, QueueStep, PTL DEF Spec

-----------------------------------------------------------------------------
(* The order of the lines, and what becomes of each of them.               *)

Pusher  == Thread \cup {Writer}
Waiting == popped \o logs
Gone    == written \cup dropped

(* The least number that no line of a thread has which is in the queue or  *)
(* has been: the number of the line it is about to put there, or the next. *)
Free == [b \in Pusher |->
            IF b = Writer THEN IF writer = "created" THEN starts ELSE starts + 1
            ELSE IF line[b] = <<>> THEN pushed[b] + 1 ELSE pushed[b]]

(* The lines of a thread in q are in the order of their numbers, after     *)
(* those in G, and before the numbers from F on.                           *)
Ordered(q, G, F) ==
    /\ q \in Seq(Lines)
    /\ G \subseteq Pusher \X Nat
    /\ F \in [Pusher -> Nat]
    /\ \A i, j \in DOMAIN q : i < j /\ q[i].by = q[j].by => q[i].nth < q[j].nth
    /\ \A i \in DOMAIN q, n \in G : n[1] = q[i].by => n[2] < q[i].nth
    /\ \A i \in DOMAIN q : q[i].nth < F[q[i].by]
    /\ \A n \in G : n[2] < F[n[1]]

(* What a thread is about to push is the last line it has numbered. *)
AtHand ==
    \A t \in Thread : line[t] # <<>> => /\ line[t] = <<line[t][1]>>
                                       /\ line[t][1].by = t /\ line[t][1].nth = pushed[t]

OrderInv ==
    /\ Ordered(Waiting, Gone, Free)
    /\ accepted = Names(Waiting) \cup Gone
    /\ written \cap dropped = {}
    /\ AtHand

LEMMA OrderedLater ==
    ASSUME NEW q, NEW G, NEW F, Ordered(q, G, F),
           NEW F2 \in [Pusher -> Nat], \A b \in Pusher : F[b] <= F2[b]
    PROVE  Ordered(q, G, F2)
<1>1. \A i \in DOMAIN q : q[i] \in Lines
  BY LenProperties DEF Ordered
<1>2. \A i \in DOMAIN q : q[i].by \in Pusher /\ q[i].nth \in Nat
  BY <1>1 DEF Lines, Pusher
<1>3. \A i \in DOMAIN q : q[i].nth < F2[q[i].by]
  BY <1>2 DEF Ordered
<1>4. \A n \in G : n[1] \in Pusher /\ n[2] \in Nat
  BY DEF Ordered
<1>5. \A n \in G : n[2] < F2[n[1]]
  BY <1>4 DEF Ordered
<1> QED BY <1>3, <1>5 DEF Ordered

(* A line is put behind the others. *)
LEMMA OrderedAppend ==
    ASSUME NEW q, NEW G, NEW F, Ordered(q, G, F), NEW l \in Lines, F[l.by] <= l.nth,
           NEW F2 \in [Pusher -> Nat], \A b \in Pusher : F[b] <= F2[b], l.nth < F2[l.by]
    PROVE  Ordered(Append(q, l), G, F2)
<1> DEFINE r == Append(q, l)
<1>1. Ordered(q, G, F2)
  BY OrderedLater
<1>2. q \in Seq(Lines) /\ Len(q) \in Nat /\ DOMAIN q = 1 .. Len(q)
  BY LenProperties DEF Ordered
<1>3. /\ r \in Seq(Lines) /\ DOMAIN r = 1 .. Len(q) + 1
      /\ \A i \in DOMAIN q : r[i] = q[i] /\ q[i] \in Lines
      /\ r[Len(q) + 1] = l
  BY <1>2
<1> HIDE DEF r
<1>4. \A i \in DOMAIN r : \/ i \in DOMAIN q /\ r[i] = q[i] /\ i < Len(q) + 1
                          \/ i = Len(q) + 1 /\ r[i] = l
  BY <1>2, <1>3
<1>5. l.by \in Pusher /\ l.nth \in Nat
  BY DEF Lines, Pusher
<1>6. \A i \in DOMAIN q : q[i].by = l.by => q[i].nth < l.nth
  <2> SUFFICES ASSUME NEW i \in DOMAIN q, q[i].by = l.by PROVE q[i].nth < l.nth
    OBVIOUS
  <2>1. q[i].nth < F[l.by] /\ q[i].nth \in Nat /\ F[l.by] \in Nat
    BY <1>3, <1>5 DEF Ordered, Lines
  <2> QED BY <2>1, <1>5
<1>7. \A n \in G : n[1] = l.by => n[2] < l.nth
  <2> SUFFICES ASSUME NEW n \in G, n[1] = l.by PROVE n[2] < l.nth
    OBVIOUS
  <2>1. n[2] < F[l.by] /\ n[2] \in Nat /\ F[l.by] \in Nat
    BY <1>5 DEF Ordered
  <2> QED BY <2>1, <1>5
<1>8. ASSUME NEW i \in DOMAIN r, NEW j \in DOMAIN r, i < j, r[i].by = r[j].by
      PROVE  r[i].nth < r[j].nth
  <2>1. i \in DOMAIN q /\ r[i] = q[i]
    BY <1>2, <1>3, <1>4, <1>8
  <2>2. CASE j \in DOMAIN q /\ r[j] = q[j]
    BY <2>1, <2>2, <1>1, <1>8 DEF Ordered
  <2>3. CASE r[j] = l
    BY <2>1, <2>3, <1>6, <1>8
  <2> QED BY <1>4, <2>2, <2>3
<1>9. \A i \in DOMAIN r, n \in G : n[1] = r[i].by => n[2] < r[i].nth
  BY <1>1, <1>4, <1>7 DEF Ordered
<1>10. \A i \in DOMAIN r : r[i].nth < F2[r[i].by]
  BY <1>1, <1>4 DEF Ordered
<1> QED BY <1>1, <1>3, <1>8, <1>9, <1>10 DEF Ordered, r

(* The first line leaves the queue. *)
LEMMA OrderedTake ==
    ASSUME NEW q, NEW G, NEW F, Ordered(q, G, F), q # <<>>
    PROVE  /\ Ordered(Tail(q), G \cup {Name(Head(q))}, F)
           /\ Name(Head(q)) \notin G
           /\ Names(q) = Names(Tail(q)) \cup {Name(Head(q))}
<1> DEFINE r == Tail(q) h == Head(q)
<1>1. q \in Seq(Lines) /\ Len(q) \in Nat \ {0} /\ DOMAIN q = 1 .. Len(q)
  BY LenProperties, EmptySeq DEF Ordered
<1>2. /\ r \in Seq(Lines) /\ DOMAIN r = 1 .. Len(q) - 1
      /\ \A i \in DOMAIN r : r[i] = q[i + 1]
      /\ h = q[1] /\ h \in Lines
  <2>1. r \in Seq(Lines) /\ Len(r) = Len(q) - 1 /\ \A i \in 1 .. Len(r) : r[i] = q[i + 1]
    BY <1>1, HeadTailProperties
  <2>2. DOMAIN r = 1 .. Len(r)
    BY <2>1, LenProperties
  <2>3. h = q[1] /\ h \in Lines
    BY <1>1
  <2> QED BY <2>1, <2>2, <2>3
<1> HIDE DEF r, h
<1>3. \A i \in DOMAIN r : i + 1 \in DOMAIN q /\ 1 < i + 1 /\ r[i] = q[i + 1]
  BY <1>1, <1>2
<1>4. 1 \in DOMAIN q /\ h.by \in Pusher /\ h.nth \in Nat
  BY <1>1, <1>2 DEF Lines, Pusher
<1>5. Name(h)[1] = h.by /\ Name(h)[2] = h.nth
  BY DEF Name
<1>6. \A n \in G : n[1] = h.by => n[2] < h.nth
  BY <1>2, <1>4 DEF Ordered
<1>7. Name(h) \notin G
  BY <1>4, <1>5, <1>6
<1>8. \A i, j \in DOMAIN r : i < j /\ r[i].by = r[j].by => r[i].nth < r[j].nth
  <2> SUFFICES ASSUME NEW i \in DOMAIN r, NEW j \in DOMAIN r, i < j, r[i].by = r[j].by
               PROVE  r[i].nth < r[j].nth
    OBVIOUS
  <2>1. i + 1 < j + 1 /\ i + 1 \in DOMAIN q /\ j + 1 \in DOMAIN q
        /\ r[i] = q[i + 1] /\ r[j] = q[j + 1]
    BY <1>1, <1>2
  <2> QED BY <2>1 DEF Ordered
<1>9. \A i \in DOMAIN r : h.by = r[i].by => h.nth < r[i].nth
  BY <1>2, <1>3, <1>4 DEF Ordered
<1>10. \A i \in DOMAIN r, n \in G \cup {Name(h)} : n[1] = r[i].by => n[2] < r[i].nth
  BY <1>3, <1>5, <1>9 DEF Ordered
<1>11. \A i \in DOMAIN r : r[i].nth < F[r[i].by]
  BY <1>3 DEF Ordered
<1>12. \A n \in G \cup {Name(h)} : n[2] < F[n[1]]
  BY <1>2, <1>4, <1>5 DEF Ordered
<1>13. Name(h) \in Pusher \X Nat
  BY <1>4 DEF Name
<1>14. Ordered(r, G \cup {Name(h)}, F)
  BY <1>2, <1>8, <1>10, <1>11, <1>12, <1>13 DEF Ordered
<1>15. \A i \in DOMAIN q : i = 1 \/ (i - 1 \in DOMAIN r /\ r[i - 1] = q[i])
  BY <1>1, <1>2
<1>16. Names(q) = Names(r) \cup {Name(h)}
  BY <1>2, <1>3, <1>4, <1>15 DEF Names
<1> QED BY <1>7, <1>14, <1>16 DEF r, h

LEMMA NamesAppend ==
    ASSUME NEW S, NEW q \in Seq(S), NEW l \in S
    PROVE  Names(Append(q, l)) = Names(q) \cup {Name(l)}
<1> DEFINE r == Append(q, l)
<1>1. Len(q) \in Nat /\ DOMAIN q = 1 .. Len(q) /\ DOMAIN r = 1 .. Len(q) + 1
      /\ (\A i \in DOMAIN q : r[i] = q[i]) /\ r[Len(q) + 1] = l
  BY LenProperties
<1> HIDE DEF r
<1>2. \A i \in DOMAIN r : \/ i \in DOMAIN q /\ r[i] = q[i]
                          \/ i = Len(q) + 1 /\ r[i] = l
  BY <1>1
<1>3. \A i \in DOMAIN q : i \in DOMAIN r /\ r[i] = q[i]
  BY <1>1
<1>4. Len(q) + 1 \in DOMAIN r
  BY <1>1
<1>5. Names(r) = Names(q) \cup {Name(l)}
  BY <1>1, <1>2, <1>3, <1>4 DEF Names
<1> QED BY <1>5 DEF r
LEMMA InitOrder == Init => OrderInv
<1> SUFFICES ASSUME Init PROVE OrderInv
  OBVIOUS
<1>1. /\ starts = 0 /\ writer = "none" /\ popped = <<>> /\ logs = <<>>
      /\ accepted = {} /\ written = {} /\ dropped = {}
      /\ \A t \in Thread : line[t] = <<>> /\ pushed[t] = 0
  BY DEF Init
<1>2. Waiting \in Seq(Lines) /\ DOMAIN Waiting = {}
  BY <1>1 DEF Waiting
<1>3. \A b \in Pusher : b # Writer => line[b] = <<>> /\ pushed[b] = 0
  BY <1>1 DEF Pusher
<1>4. Free \in [Pusher -> Nat]
  BY <1>1, <1>3 DEF Free
<1>5. Ordered(Waiting, Gone, Free)
  BY <1>1, <1>2, <1>4 DEF Ordered, Gone
<1>6. Names(Waiting) = {} /\ Gone = {}
  BY <1>1, <1>2 DEF Names, Gone
<1> QED BY <1>1, <1>5, <1>6 DEF OrderInv, AtHand

(* The number of a line is free until the line is in the queue. *)
LEMMA FreeType == QueueTypes /\ AtHand => Free \in [Pusher -> Nat]
<1> SUFFICES ASSUME QueueTypes, AtHand PROVE Free \in [Pusher -> Nat]
  OBVIOUS
<1>1. \A b \in Pusher : b # Writer => pushed[b] \in Nat
  BY DEF QueueTypes, Pusher
<1> QED BY <1>1 DEF QueueTypes, Free

(* A step that takes no number and neither adds to the queue nor takes     *)
(* from what was taken out.                                                *)
LEMMA QueueAlone ==
    ASSUME QueueInv, QueueInv', OrderInv,
           UNCHANGED <<Waiting, Gone, accepted>>,
           written' \cap dropped' = {}, AtHand',
           \A b \in Pusher : Free[b] <= Free'[b]
    PROVE  OrderInv'
<1>1. Free' \in [Pusher -> Nat]
  <2>1. QueueTypes' /\ AtHand' => (Free \in [Pusher -> Nat])'
    BY FreeType, PTL
  <2> QED BY <2>1 DEF QueueInv, Pusher
<1>2. Ordered(Waiting', Gone', Free')
  BY <1>1, OrderedLater DEF OrderInv
<1> QED BY <1>2 DEF OrderInv, Ordered, Names, Name, Pusher

LEMMA OtherOrder ==
    ASSUME QueueInv, QueueInv', OrderInv,
           \/ Start \/ Stop \/ StartReturns \/ StopEnds
           \/ PopFails \/ QuitOrSleep \/ UpdateFile \/ Quit
           \/ \E lines \in ConfigFiles :
                  \/ Config(lines) \/ UpdateConfig(lines)
                  \/ \E name \in DOMAIN ParseConfig(lines) :
                         \/ CreateLogger(name, ParseConfig(lines)[name])
                         \/ \E id \in Logger : SetLogger(id, ParseConfig(lines)[name])
           \/ UNCHANGED vars
    PROVE  OrderInv'
<1>1. /\ UNCHANGED <<line, pushed, accepted, written, dropped, logs, popped>>
      /\ \/ starts' = starts + 1 /\ writer' = "created"
         \/ starts' = starts /\ (writer' = "created" => writer = "created")
      /\ writer = "created" => writer' = "created"
  BY DEF Start, Stop, StartReturns, StopEnds, PopFails, QuitOrSleep, UpdateFile, Writable, Quit,
         Config, UpdateConfig, CreateLogger, SetLogger, Configure, history, callers, vars
<1>2. starts \in Nat /\ \A t \in Thread : pushed[t] \in Nat
  BY DEF QueueInv, QueueTypes
<1>3. \A b \in Pusher : Free[b] <= Free'[b]
  BY <1>1, <1>2 DEF Free, Pusher
<1>4. UNCHANGED <<Waiting, Gone, accepted>> /\ written' \cap dropped' = {} /\ AtHand'
  BY <1>1 DEF OrderInv, Waiting, Gone, AtHand
<1> QED BY <1>3, <1>4, QueueAlone

LEMMA PushOrder ==
    ASSUME QueueInv, QueueInv', OrderInv, NEW t \in Thread, NEW id \in Logger, NEW n \in PushLevel,
           PushLog(t, id, n)
    PROVE  OrderInv'
<1>1. /\ UNCHANGED <<accepted, written, dropped, logs, popped, starts, writer>>
      /\ line[t] = <<>> /\ pushed' = [pushed EXCEPT ![t] = @ + 1]
      /\ line' = [line EXCEPT ![t] = <<[by |-> t, nth |-> pushed[t] + 1, id |-> id, level |-> n]>>]
  BY DEF PushLog, history
<1>2. pushed \in [Thread -> Nat] /\ line \in [Thread -> Seq(Lines)] /\ starts \in Nat
  BY DEF QueueInv, QueueTypes
<1>3. AtHand'
  BY <1>1, <1>2 DEF OrderInv, AtHand
<1>4. line'[t] # <<>>
  BY <1>1, <1>2
<1>5. \A b \in Thread : b # t => line'[b] = line[b] /\ pushed'[b] = pushed[b]
  BY <1>1, <1>2
<1>6. pushed'[t] = pushed[t] + 1
  BY <1>1, <1>2
<1>7. \A b \in Pusher : Free'[b] = Free[b]
  BY <1>1, <1>4, <1>5, <1>6 DEF Free, Pusher
<1>8. \A b \in Pusher : Free[b] \in Nat
  BY DEF OrderInv, Ordered
<1>9. \A b \in Pusher : Free[b] <= Free'[b]
  BY <1>7, <1>8
<1>10. UNCHANGED <<Waiting, Gone, accepted>> /\ written' \cap dropped' = {}
  BY <1>1 DEF OrderInv, Waiting, Gone
<1> QED BY <1>3, <1>9, <1>10, QueueAlone

LEMMA EnqueueOrder ==
    ASSUME QueueInv, QueueInv', OrderInv, NEW t \in Thread, Enqueue(t)
    PROVE  OrderInv'
<1> DEFINE l == line[t][1]
<1>1. /\ UNCHANGED <<pushed, written, dropped, popped, starts, writer>>
      /\ line[t] # <<>>
      /\ logs' = logs \o line[t]
      /\ accepted' = accepted \cup Names(line[t])
      /\ line' = [line EXCEPT ![t] = <<>>]
  BY DEF Enqueue
<1>2. /\ pushed \in [Thread -> Nat] /\ line \in [Thread -> Seq(Lines)] /\ starts \in Nat
      /\ logs \in Seq(Lines)
  BY DEF QueueInv, QueueTypes
<1>3. line[t] = <<l>> /\ l.by = t /\ l.nth = pushed[t]
  BY <1>1 DEF OrderInv, AtHand
<1>4. l \in Lines
  <2>1. line[t] \in Seq(Lines) /\ 1 \in 1 .. Len(line[t])
    BY <1>1, <1>2, EmptySeq, LenProperties
  <2> QED BY <2>1
<1>5. Waiting \in Seq(Lines) /\ popped \in Seq(Lines)
  BY DEF QueueInv, QueueTypes, OrderInv, Ordered
<1> HIDE DEF l
<1>6. Waiting' = Append(Waiting, l)
  <2>1. logs' = Append(logs, l)
    BY <1>1, <1>2, <1>3, <1>4, AppendIsConcat
  <2>2. popped \o Append(logs, l) = Append(popped \o logs, l)
    BY <1>2, <1>4, <1>5
  <2> QED BY <1>1, <2>1, <2>2 DEF Waiting
<1>7. /\ line'[t] = <<>> /\ \A b \in Thread : b # t => line'[b] = line[b]
  BY <1>1, <1>2
<1>8. t # Writer /\ t \in Pusher
  BY DEF Pusher
<1>9. Free[t] = pushed[t] /\ Free'[t] = pushed[t] + 1 /\ pushed[t] \in Nat
  BY <1>1, <1>2, <1>7, <1>8 DEF Free
<1>10. \A b \in Pusher : b # t => Free'[b] = Free[b]
  BY <1>1, <1>7 DEF Free, Pusher
<1>11. \A b \in Pusher : Free[b] \in Nat
  BY DEF OrderInv, Ordered
<1>12. \A b \in Pusher : Free[b] <= Free'[b]
  BY <1>9, <1>10, <1>11
<1>13. AtHand'
  BY <1>1, <1>7 DEF OrderInv, AtHand
<1>14. Free' \in [Pusher -> Nat]
  <2>1. QueueTypes' /\ AtHand' => (Free \in [Pusher -> Nat])'
    BY FreeType, PTL
  <2> QED BY <1>13, <2>1 DEF QueueInv, Pusher
<1>15. Free[l.by] <= l.nth /\ l.nth < Free'[l.by]
  BY <1>3, <1>9
<1>16. Ordered(Append(Waiting, l), Gone, Free')
  BY <1>4, <1>12, <1>14, <1>15, OrderedAppend DEF OrderInv
<1>17. Gone' = Gone
  BY <1>1 DEF Gone
<1>18. Names(Append(Waiting, l)) = Names(Waiting) \cup {Name(l)}
  BY <1>4, <1>5, NamesAppend
<1>19. Names(line[t]) = {Name(l)}
  BY <1>3 DEF Names
<1>20. accepted' = Names(Waiting') \cup Gone'
  BY <1>1, <1>6, <1>17, <1>18, <1>19 DEF OrderInv
<1>21. Ordered(Waiting, Gone, Free)'
  BY <1>6, <1>16, <1>17 DEF Ordered, Pusher
<1> QED BY <1>1, <1>13, <1>20, <1>21 DEF OrderInv, Names, Name

LEMMA BeginOrder == QueueInv /\ QueueInv' /\ OrderInv /\ Begin => OrderInv'
<1> SUFFICES ASSUME QueueInv, QueueInv', OrderInv, Begin PROVE OrderInv'
  OBVIOUS
<1> DEFINE l == Banner
<1>1. /\ UNCHANGED <<line, pushed, written, dropped, popped, starts>>
      /\ writer = "created" /\ writer' = "looking"
      /\ logs' = logs \o Begun
      /\ accepted' = accepted \cup Names(Begun)
  BY DEF Begin, callers
<1>2. logs \in Seq(Lines) /\ starts \in Nat /\ popped = <<>>
  BY <1>1 DEF QueueInv, QueueTypes
<1>3. l \in Lines /\ l.by = Writer /\ l.nth = starts /\ (Begun = <<>> \/ Begun = <<l>>)
  BY <1>2, BegunLines
<1> HIDE DEF l
<1>4. Waiting = logs /\ Waiting' = logs'
  BY <1>1, <1>2 DEF Waiting
<1>5. Free[Writer] = starts /\ Free'[Writer] = starts + 1
  BY <1>1 DEF Free, Pusher
<1>6. \A b \in Pusher : b # Writer => Free'[b] = Free[b]
  BY <1>1 DEF Free
<1>7. \A b \in Pusher : Free[b] \in Nat
  BY DEF OrderInv, Ordered
<1>8. \A b \in Pusher : Free[b] <= Free'[b]
  BY <1>2, <1>5, <1>6, <1>7
<1>9. AtHand'
  BY <1>1 DEF OrderInv, AtHand
<1>10. CASE Begun = <<>>
  <2>1. UNCHANGED <<Waiting, Gone, accepted>> /\ written' \cap dropped' = {}
    BY <1>1, <1>2, <1>4, <1>10 DEF Gone, Names, OrderInv
  <2> QED BY <1>8, <1>9, <2>1, QueueAlone
<1>11. CASE Begun = <<l>>
  <2>1. Waiting' = Append(Waiting, l)
    BY <1>1, <1>2, <1>3, <1>4, <1>11, AppendIsConcat
  <2>2. Free' \in [Pusher -> Nat]
    <3>1. QueueTypes' /\ AtHand' => (Free \in [Pusher -> Nat])'
      BY FreeType, PTL
    <3> QED BY <1>9, <3>1 DEF QueueInv, Pusher
  <2>3. Free[l.by] <= l.nth /\ l.nth < Free'[l.by]
    BY <1>2, <1>3, <1>5
  <2>4. Ordered(Append(Waiting, l), Gone, Free')
    BY <1>3, <1>8, <2>2, <2>3, OrderedAppend DEF OrderInv
  <2>5. Gone' = Gone
    BY <1>1 DEF Gone
  <2>6. Names(Append(Waiting, l)) = Names(Waiting) \cup {Name(l)}
    BY <1>2, <1>3, <1>4, NamesAppend
  <2>7. Names(Begun) = {Name(l)}
    BY <1>11 DEF Names
  <2>8. accepted' = Names(Waiting') \cup Gone'
    BY <1>1, <2>1, <2>5, <2>6, <2>7 DEF OrderInv
  <2>9. Ordered(Waiting, Gone, Free)'
    BY <2>1, <2>4, <2>5 DEF Ordered, Pusher
  <2> QED BY <1>1, <1>9, <2>8, <2>9 DEF OrderInv, Names, Name
<1> QED BY <1>3, <1>10, <1>11

LEMMA PopOrder == QueueInv /\ QueueInv' /\ OrderInv /\ PopLog => OrderInv'
<1> SUFFICES ASSUME QueueInv, QueueInv', OrderInv, PopLog PROVE OrderInv'
  OBVIOUS
<1>1. /\ UNCHANGED <<line, pushed, accepted, written, dropped, starts>>
      /\ writer = "looking" /\ writer' = "writing" /\ logs # <<>>
      /\ popped' = <<Head(logs)>> /\ logs' = Tail(logs)
  BY DEF PopLog, callers, history
<1>2. logs \in Seq(Lines) /\ popped = <<>>
  BY <1>1 DEF QueueInv, QueueTypes
<1>3. <<Head(logs)>> \o Tail(logs) = logs /\ <<>> \o logs = logs
  BY <1>1, <1>2
<1>4. Waiting' = Waiting
  BY <1>1, <1>2, <1>3 DEF Waiting
<1>5. \A b \in Pusher : Free[b] \in Nat /\ Free'[b] = Free[b]
  BY <1>1 DEF OrderInv, Ordered, Free
<1>6. \A b \in Pusher : Free[b] <= Free'[b]
  BY <1>5
<1>7. UNCHANGED <<Waiting, Gone, accepted>> /\ written' \cap dropped' = {} /\ AtHand'
  BY <1>1, <1>4 DEF OrderInv, Gone, AtHand
<1> QED BY <1>6, <1>7, QueueAlone

LEMMA WritingOrder ==
    QueueInv /\ QueueInv' /\ OrderInv /\ (Discard \/ Write \/ WriteShort \/ OpenFails) => OrderInv'
<1> SUFFICES ASSUME QueueInv, QueueInv', OrderInv, Discard \/ Write \/ WriteShort \/ OpenFails
             PROVE OrderInv'
  OBVIOUS
<1> DEFINE n == Name(popped[1])
<1>1. /\ UNCHANGED <<line, pushed, accepted, logs, starts>>
      /\ writer \in {"writing", "recording"} /\ writer' = "looking" /\ popped' = <<>>
      /\ \/ written' = written \cup {n} /\ dropped' = dropped
         \/ written' = written /\ dropped' = dropped \cup {n}
  BY DEF Discard, Write, WriteShort, OpenFails, Writable, Done, Line, callers
<1>2. popped = <<popped[1]>> /\ popped \in Seq(Lines) /\ logs \in Seq(Lines)
  BY <1>1 DEF QueueInv, QueueTypes
<1>3. Waiting # <<>> /\ Head(Waiting) = popped[1] /\ Tail(Waiting) = logs
  <2>1. popped[1] \in Lines
    <3>1. PICK l : popped = <<l>>
      BY <1>2
    <3>2. 1 \in 1 .. Len(popped)
      BY <3>1
    <3> QED BY <1>2, <3>2
  <2>2. \A l \in Lines : <<l>> \o logs # <<>> /\ Head(<<l>> \o logs) = l
    BY <1>2
  <2>3. \A l \in Lines : Tail(<<l>> \o logs) = logs
    BY <1>2
  <2> QED BY <1>2, <2>1, <2>2, <2>3 DEF Waiting
<1> HIDE DEF n
<1>4. /\ Ordered(logs, Gone \cup {n}, Free)
      /\ n \notin Gone
      /\ Names(Waiting) = Names(logs) \cup {n}
  BY <1>3, OrderedTake DEF OrderInv, n
<1>5. Waiting' = logs
  BY <1>1, <1>2 DEF Waiting
<1>6. Gone' = Gone \cup {n}
  BY <1>1 DEF Gone
<1>7. Free' = Free
  BY <1>1 DEF Free, Pusher
<1>8. Ordered(Waiting, Gone, Free)'
  BY <1>4, <1>5, <1>6, <1>7 DEF Ordered, Pusher
<1>9. written' \cap dropped' = {}
  BY <1>1, <1>4 DEF OrderInv, Gone
<1>10. (accepted = Names(Waiting) \cup Gone)'
  BY <1>1, <1>4, <1>5, <1>6 DEF OrderInv, Names, Name
<1>11. AtHand'
  BY <1>1 DEF OrderInv, AtHand
<1> QED BY <1>8, <1>9, <1>10, <1>11 DEF OrderInv

LEMMA OrderStep == QueueInv /\ QueueInv' /\ OrderInv /\ [Next]_vars => OrderInv'
BY OtherOrder, PushOrder, EnqueueOrder, BeginOrder, PopOrder, WritingOrder
   DEF Next, WriterStep

(* The lines of a thread come out of the logger's queue in the order in    *)
(* which the thread pushed them, and none twice.                           *)
THEOREM OrderAlwaysKept == Spec => []OrderKept
<1>1. OrderInv => OrderKept
  BY DEF OrderInv, Ordered, OrderKept, Waiting, Gone
<1> QED BY <1>1, InitQueue, QueueStep, InitOrder, OrderStep, PTL DEF Spec

(* No line put into the queue is lost or accounted for twice: it waits, is *)
(* at hand, was written or was dropped.                                    *)
THEOREM LinesAlwaysAccounted == Spec => []AllAccounted
<1>1. OrderInv => AllAccounted
  <2> SUFFICES ASSUME OrderInv PROVE AllAccounted
    OBVIOUS
  <2>1. \A i \in DOMAIN Waiting : /\ Waiting[i].nth \in Nat
                                 /\ Name(Waiting[i])[1] = Waiting[i].by
                                 /\ Name(Waiting[i])[2] = Waiting[i].nth
    <3>1. \A i \in DOMAIN Waiting : Waiting[i] \in Lines
      BY LenProperties DEF OrderInv, Ordered
    <3> QED BY <3>1 DEF Name, Lines
  <2>2. Names(Waiting) \cap Gone = {}
    BY <2>1 DEF OrderInv, Ordered, Names
  <2> QED BY <2>2 DEF OrderInv, AllAccounted, Waiting, Gone
<1> QED BY <1>1, InitQueue, QueueStep, InitOrder, OrderStep, PTL DEF Spec

-----------------------------------------------------------------------------
(* What ParseConfig makes of a file.                                       *)

(* A set of numbers that are bounded has a greatest one. *)
LEMMA Greatest ==
    ASSUME NEW n \in Nat, NEW T \in SUBSET (0 .. n), T # {}
    PROVE  Max(T) \in T /\ \A m \in T : m <= Max(T)
<1> DEFINE U == {k \in Nat : n - k \in T}
<1>1. U # {}
  <2>1. PICK m \in T : TRUE
    OBVIOUS
  <2>2. n - m \in Nat /\ n - (n - m) = m
    OBVIOUS
  <2> QED BY <2>1, <2>2
<1>2. PICK k \in U : \A j \in U : k <= j
  <2> HIDE DEF U
  <2>1. U \in SUBSET Nat
    BY DEF U
  <2> QED BY <1>1, <2>1, Least
<1>3. n - k \in T /\ \A m \in T : n - k >= m
  <2>1. \A m \in T : n - m \in U
    <3> SUFFICES ASSUME NEW m \in T PROVE n - m \in U
      OBVIOUS
    <3>1. n - m \in Nat /\ n - (n - m) = m
      OBVIOUS
    <3> QED BY <3>1
  <2> QED BY <1>2, <2>1
<1>4. \E x \in T : \A y \in T : x >= y
  BY <1>3
<1>5. Max(T) \in T /\ \A y \in T : Max(T) >= y
  BY <1>4 DEF Max
<1> QED BY <1>5

-----------------------------------------------------------------------------
(* What the lines of a file give by the words that ParseConfig knows: as   *)
(* Says and Meaning, which have the words of the documents.                *)
Gives(lines, name, key) ==
    {i \in DOMAIN lines :
        /\ lines[i].kind = "attribute" /\ lines[i].key = key
        /\ key = "level" => lines[i].value \in DOMAIN LevelOf
        /\ \E s \in Sections(lines) :
               /\ s < i /\ LoggerName(lines[s].name) = name
               /\ ~\E u \in Sections(lines) : s < u /\ u < i}

Value(lines, said, key) ==
    IF said = {} THEN DefaultInfo[key]
    ELSE Meant(key, lines[Max(said)].value, DefaultInfo[key])

Given(lines) ==
    [name \in {LoggerName(lines[s].name) : s \in Sections(lines)} |->
        [key \in Attributes |-> Value(lines, Gives(lines, name, key), key)]]

(* The same up to a line: the section in which it is and what has been     *)
(* given by then.                                                          *)
SectionsTo(lines, n) == {s \in Sections(lines) : s <= n}
GivesTo(lines, name, key, n) == {i \in Gives(lines, name, key) : i <= n}

Current(lines, n) == IF SectionsTo(lines, n) = {} THEN ""
                     ELSE LoggerName(lines[Max(SectionsTo(lines, n))].name)

NamesTo(lines, n) == {LoggerName(lines[s].name) : s \in SectionsTo(lines, n)}

InfoTo(lines, n) ==
    [name \in NamesTo(lines, n) |->
        [key \in Attributes |-> Value(lines, GivesTo(lines, name, key, n), key)]]

ParserAt(lines, n) == [cur |-> Current(lines, n), info |-> InfoTo(lines, n)]

(* The lines of a file. *)
File(lines) == \E S : lines \in Seq(S) /\ \A l \in S : IsLine(l)

LEMMA FileLines ==
    ASSUME NEW lines, File(lines)
    PROVE  /\ Len(lines) \in Nat /\ DOMAIN lines = 1 .. Len(lines)
           /\ \A i \in 1 .. Len(lines) : IsLine(lines[i])
<1>1. PICK S : lines \in Seq(S) /\ \A l \in S : IsLine(l)
  BY DEF File
<1> HIDE DEF IsLine
<1>2. Len(lines) \in Nat /\ DOMAIN lines = 1 .. Len(lines) /\ \A i \in 1 .. Len(lines) : lines[i] \in S
  BY <1>1, LenProperties, ElementOfSeq
<1> QED BY <1>1, <1>2

LEMMA SectionsGrow ==
    ASSUME NEW lines, File(lines), NEW n \in 1 .. Len(lines)
    PROVE  SectionsTo(lines, n) = SectionsTo(lines, n - 1)
                                      \cup (IF lines[n].kind = "section" THEN {n} ELSE {})
<1>1. n \in DOMAIN lines /\ \A i \in DOMAIN lines : i <= n <=> i <= n - 1 \/ i = n
  BY FileLines
<1> QED BY <1>1 DEF SectionsTo, Sections

LEMMA SectionsBounded ==
    ASSUME NEW lines, File(lines), NEW n \in 0 .. Len(lines), SectionsTo(lines, n) # {}
    PROVE  LET s == Max(SectionsTo(lines, n)) IN
           /\ s \in Sections(lines) /\ s \in 1 .. n
           /\ \A u \in SectionsTo(lines, n) : u <= s
           /\ Current(lines, n) = LoggerName(lines[s].name)
<1>1. SectionsTo(lines, n) \in SUBSET (0 .. n) /\ SectionsTo(lines, n) \in SUBSET (1 .. n)
  BY FileLines DEF SectionsTo, Sections
<1>2. n \in Nat
  BY FileLines
<1>3. /\ Max(SectionsTo(lines, n)) \in SectionsTo(lines, n)
      /\ \A u \in SectionsTo(lines, n) : u <= Max(SectionsTo(lines, n))
  BY <1>1, <1>2, Greatest
<1> QED BY <1>1, <1>3 DEF SectionsTo, Current

(* What line n says of a logger's attribute. *)
LEMMA GivesGrow ==
    ASSUME NEW lines, File(lines), NEW n \in 1 .. Len(lines), NEW name, NEW key
    PROVE  LET says == /\ lines[n].kind = "attribute" /\ lines[n].key = key
                       /\ key = "level" => lines[n].value \in DOMAIN LevelOf
                       /\ SectionsTo(lines, n - 1) # {} /\ Current(lines, n - 1) = name
           IN  GivesTo(lines, name, key, n) = GivesTo(lines, name, key, n - 1)
                                                 \cup (IF says THEN {n} ELSE {})
<1> DEFINE inside == \E s \in Sections(lines) :
                         /\ s < n /\ LoggerName(lines[s].name) = name
                         /\ ~\E u \in Sections(lines) : s < u /\ u < n
<1>1. n \in DOMAIN lines /\ DOMAIN lines \subseteq Nat
      /\ \A i \in DOMAIN lines : (i <= n <=> i <= n - 1 \/ i = n) /\ ~(n <= n - 1)
      /\ n - 1 \in 0 .. Len(lines)
  BY FileLines
<1>2. inside <=> SectionsTo(lines, n - 1) # {} /\ Current(lines, n - 1) = name
  <2>1. Sections(lines) \subseteq DOMAIN lines
    BY DEF Sections
  <2>2. ASSUME inside PROVE SectionsTo(lines, n - 1) # {} /\ Current(lines, n - 1) = name
    <3>1. PICK s \in Sections(lines) :
              /\ s < n /\ LoggerName(lines[s].name) = name
              /\ ~\E u \in Sections(lines) : s < u /\ u < n
      BY <2>2
    <3>2. s \in SectionsTo(lines, n - 1)
      BY <1>1, <2>1, <3>1 DEF SectionsTo
    <3>3. PICK m : m = Max(SectionsTo(lines, n - 1))
      OBVIOUS
    <3>4. /\ m \in Sections(lines) /\ m \in 1 .. n - 1 /\ s <= m
          /\ Current(lines, n - 1) = LoggerName(lines[m].name)
      BY <1>1, <3>2, <3>3, SectionsBounded
    <3>5. m = s
      BY <1>1, <2>1, <3>1, <3>4
    <3> QED BY <3>1, <3>2, <3>4, <3>5
  <2>3. ASSUME SectionsTo(lines, n - 1) # {}, Current(lines, n - 1) = name PROVE inside
    <3>1. PICK m : m = Max(SectionsTo(lines, n - 1))
      OBVIOUS
    <3>2. /\ m \in Sections(lines) /\ m \in 1 .. n - 1
          /\ \A u \in SectionsTo(lines, n - 1) : u <= m
          /\ Current(lines, n - 1) = LoggerName(lines[m].name)
      BY <1>1, <2>3, <3>1, SectionsBounded
    <3>3. \A u \in Sections(lines) : ~(m < u /\ u < n)
      BY <1>1, <2>1, <3>2 DEF SectionsTo
    <3>4. m < n
      BY <3>2
    <3> QED BY <2>3, <3>2, <3>3, <3>4
  <2> QED BY <2>2, <2>3
<1>3. n \in Gives(lines, name, key) <=>
          /\ lines[n].kind = "attribute" /\ lines[n].key = key
          /\ key = "level" => lines[n].value \in DOMAIN LevelOf
          /\ inside
  BY <1>1 DEF Gives
<1> HIDE DEF inside
<1>4. Gives(lines, name, key) \subseteq DOMAIN lines
  BY DEF Gives
<1> QED BY <1>1, <1>2, <1>3, <1>4 DEF GivesTo

(* What a value is taken for does not depend on the one before, but for a  *)
(* level that is none.                                                     *)
LEMMA MeantAnew ==
    ASSUME NEW key \in Attributes, NEW value, NEW old, NEW older,
           key = "level" => value \in DOMAIN LevelOf
    PROVE  Meant(key, value, old) = Meant(key, value, older)
BY DEF Meant, Attributes

LEMMA DefaultsByKey == DefaultInfo = [key \in Attributes |-> DefaultInfo[key]]
BY DEF DefaultInfo, Attributes
LEMMA ValueOfNone == \A lines, key : Value(lines, {}, key) = DefaultInfo[key]
BY DEF Value

LEMMA GivesBounded ==
    ASSUME NEW lines, File(lines), NEW n \in 0 .. Len(lines), NEW name, NEW key
    PROVE  GivesTo(lines, name, key, n) \in SUBSET (0 .. n)
BY FileLines DEF GivesTo, Gives

(* A line after all others that say something of a key is what holds. *)
LEMMA LastHolds ==
    ASSUME NEW lines, File(lines), NEW n \in 1 .. Len(lines), NEW name, NEW key \in Attributes,
           GivesTo(lines, name, key, n) = GivesTo(lines, name, key, n - 1) \cup {n},
           key = "level" => lines[n].value \in DOMAIN LevelOf, NEW old
    PROVE  Value(lines, GivesTo(lines, name, key, n), key) = Meant(key, lines[n].value, old)
<1> DEFINE said == GivesTo(lines, name, key, n)
<1>1. n \in Nat /\ n \in 0 .. Len(lines) /\ Len(lines) \in Nat
  BY FileLines
<1>2. said \in SUBSET (0 .. n) /\ n \in said
  BY <1>1, GivesBounded
<1> HIDE DEF said
<1>3. Max(said) \in said /\ \A m \in said : m <= Max(said)
  BY <1>1, <1>2, Greatest
<1>4. Max(said) = n
  <2>1. PICK m : m = Max(said)
    OBVIOUS
  <2>2. m \in 0 .. n /\ n <= m
    BY <1>2, <1>3, <2>1
  <2> QED BY <1>1, <2>1, <2>2
<1>5. Value(lines, said, key) = Meant(key, lines[n].value, DefaultInfo[key])
  BY <1>2, <1>4 DEF Value
<1> QED BY <1>5, MeantAnew DEF said

(* One turn of ParseConfig's loop. *)
LEMMA ParserStep ==
    ASSUME NEW lines, File(lines), NEW n \in 1 .. Len(lines)
    PROVE  ParserAt(lines, n) = ParseLine(ParserAt(lines, n - 1), lines[n])
<1> DEFINE l == lines[n]  p == ParserAt(lines, n - 1)  cur == Current(lines, n - 1)
<1>1. IsLine(l) /\ n - 1 \in 0 .. Len(lines) /\ n \in 0 .. Len(lines) /\ n \in Nat
  BY FileLines
<1>2. SectionsTo(lines, n) = SectionsTo(lines, n - 1)
                                 \cup (IF l.kind = "section" THEN {n} ELSE {})
  BY SectionsGrow
<1>3. \A name, key :
          LET says == /\ l.kind = "attribute" /\ l.key = key
                      /\ key = "level" => l.value \in DOMAIN LevelOf
                      /\ SectionsTo(lines, n - 1) # {} /\ cur = name
          IN  GivesTo(lines, name, key, n) = GivesTo(lines, name, key, n - 1)
                                                \cup (IF says THEN {n} ELSE {})
  BY GivesGrow
<1>4. p.cur = cur /\ p.info = InfoTo(lines, n - 1) /\ p = [cur |-> p.cur, info |-> p.info]
  BY DEF ParserAt
<1>5. DOMAIN p.info = NamesTo(lines, n - 1)
  BY <1>4 DEF InfoTo
<1>6. cur \in NamesTo(lines, n - 1) <=> SectionsTo(lines, n - 1) # {}
  <2>1. CASE SectionsTo(lines, n - 1) # {}
    <3>1. Max(SectionsTo(lines, n - 1)) \in SectionsTo(lines, n - 1)
      <4>1. SectionsTo(lines, n - 1) \in SUBSET (0 .. n - 1) /\ n - 1 \in Nat
        BY FileLines DEF SectionsTo, Sections
      <4> QED BY <2>1, <4>1, Greatest
    <3> QED BY <2>1, <3>1 DEF NamesTo, Current
  <2>2. CASE SectionsTo(lines, n - 1) = {}
    BY <2>2 DEF NamesTo
  <2> QED BY <2>1, <2>2
<1>7. CASE l.kind = "section"
  <2> DEFINE name == LoggerName(l.name)
  <2>1. SectionsTo(lines, n) = SectionsTo(lines, n - 1) \cup {n}
    BY <1>2, <1>7
  <2>2. Current(lines, n) = name
    <3>1. /\ SectionsTo(lines, n) # {} /\ n \in SectionsTo(lines, n)
          /\ Max(SectionsTo(lines, n)) \in 1 .. n
          /\ \A u \in SectionsTo(lines, n) : u <= Max(SectionsTo(lines, n))
          /\ Current(lines, n) = LoggerName(lines[Max(SectionsTo(lines, n))].name)
      BY <1>1, <2>1, SectionsBounded
    <3>2. Max(SectionsTo(lines, n)) = n
      BY <3>1
    <3> QED BY <3>1, <3>2
  <2>3. NamesTo(lines, n) = NamesTo(lines, n - 1) \cup {name}
    BY <2>1 DEF NamesTo
  <2>4. \A m, key : GivesTo(lines, m, key, n) = GivesTo(lines, m, key, n - 1)
    BY <1>3, <1>7
  <2>5. \A m, key : m \notin NamesTo(lines, n - 1) => GivesTo(lines, m, key, n - 1) = {}
    <3> SUFFICES ASSUME NEW m, NEW key, NEW i \in GivesTo(lines, m, key, n - 1)
                 PROVE  m \in NamesTo(lines, n - 1)
      OBVIOUS
    <3>1. PICK s \in Sections(lines) : s < i /\ LoggerName(lines[s].name) = m
      BY DEF GivesTo, Gives
    <3>2. s \in Nat /\ i \in Nat /\ i <= n - 1
      BY FileLines DEF GivesTo, Gives, Sections
    <3>3. s <= n - 1
      BY <1>1, <3>1, <3>2
    <3> QED BY <3>1, <3>3 DEF NamesTo, SectionsTo
  <2>6. InfoTo(lines, n) =
            [m \in NamesTo(lines, n - 1) \cup {name} |->
                IF m \in NamesTo(lines, n - 1) THEN InfoTo(lines, n - 1)[m] ELSE DefaultInfo]
    <3> DEFINE f == [m \in NamesTo(lines, n - 1) \cup {name} |->
                        IF m \in NamesTo(lines, n - 1) THEN InfoTo(lines, n - 1)[m]
                        ELSE DefaultInfo]
    <3>1. ASSUME NEW m \in NamesTo(lines, n) PROVE InfoTo(lines, n)[m] = f[m]
      <4>1. InfoTo(lines, n)[m] =
                [key \in Attributes |-> Value(lines, GivesTo(lines, m, key, n - 1), key)]
        BY <2>4 DEF InfoTo
      <4>2. CASE m \in NamesTo(lines, n - 1)
        BY <4>1, <4>2 DEF InfoTo
      <4>3. CASE m \notin NamesTo(lines, n - 1)
        <5>1. \A key : Value(lines, GivesTo(lines, m, key, n - 1), key) = DefaultInfo[key]
          BY <2>5, <4>3, ValueOfNone
        <5>2. InfoTo(lines, n)[m] = [key \in Attributes |-> DefaultInfo[key]]
          BY Zenon, <4>1, <5>1
        <5> QED BY <2>3, <4>3, <5>2, DefaultsByKey
      <4> QED BY <4>2, <4>3
    <3>2. InfoTo(lines, n) = [m \in NamesTo(lines, n) |-> InfoTo(lines, n)[m]]
      BY DEF InfoTo
    <3> QED BY <2>3, <3>1, <3>2
  <2>7. ParseLine(p, l) = OpenSection(p, name)
    BY <1>7 DEF ParseLine
  <2>8. ParserAt(lines, n) = ParseLine(p, l)
    <3> HIDE DEF p, name, l, cur
    <3> QED BY <1>4, <1>5, <2>2, <2>6, <2>7 DEF ParserAt, OpenSection
  <2> QED BY <2>8
<1>8. CASE l.kind = "attribute" /\ cur \in DOMAIN p.info /\ l.key \in Attributes
  <2>1. SectionsTo(lines, n) = SectionsTo(lines, n - 1) /\ SectionsTo(lines, n - 1) # {}
    BY <1>2, <1>5, <1>6, <1>8
  <2>2. Current(lines, n) = cur /\ NamesTo(lines, n) = NamesTo(lines, n - 1)
    BY <2>1 DEF Current, NamesTo
  <2> DEFINE new == Meant(l.key, l.value, InfoTo(lines, n - 1)[cur][l.key])
  <2>3. \A name \in NamesTo(lines, n), key \in Attributes :
            InfoTo(lines, n)[name][key] = IF name = cur /\ key = l.key THEN new
                                          ELSE InfoTo(lines, n - 1)[name][key]
    <3> SUFFICES ASSUME NEW name \in NamesTo(lines, n), NEW key \in Attributes
                 PROVE  InfoTo(lines, n)[name][key] = IF name = cur /\ key = l.key THEN new
                                                      ELSE InfoTo(lines, n - 1)[name][key]
      OBVIOUS
    <3>1. /\ InfoTo(lines, n)[name][key] = Value(lines, GivesTo(lines, name, key, n), key)
          /\ InfoTo(lines, n - 1)[name][key] = Value(lines, GivesTo(lines, name, key, n - 1), key)
      BY <2>2 DEF InfoTo
    <3>2. CASE name = cur /\ key = l.key /\ (key = "level" => l.value \in DOMAIN LevelOf)
      <4>1. GivesTo(lines, name, key, n) = GivesTo(lines, name, key, n - 1) \cup {n}
        BY <1>3, <1>8, <2>1, <3>2
      <4> QED BY <3>1, <3>2, <4>1, LastHolds
    <3>3. CASE ~(name = cur /\ key = l.key /\ (key = "level" => l.value \in DOMAIN LevelOf))
      <4>1. GivesTo(lines, name, key, n) = GivesTo(lines, name, key, n - 1)
        BY <1>3, <3>3
      <4>2. name = cur /\ key = l.key => new = InfoTo(lines, n - 1)[name][key]
        BY <3>3 DEF Meant
      <4> QED BY <3>1, <4>1, <4>2
    <3> QED BY <3>2, <3>3
  <2> HIDE DEF new
  <2>4. InfoTo(lines, n) = [InfoTo(lines, n - 1) EXCEPT ![cur][l.key] = new]
    <3> DEFINE old == InfoTo(lines, n - 1)  info == InfoTo(lines, n)
               e == [old EXCEPT ![cur] = [@ EXCEPT ![l.key] = new]]
    <3>1. /\ old = [name \in NamesTo(lines, n) |-> old[name]]
          /\ info = [name \in NamesTo(lines, n) |-> info[name]]
          /\ \A name \in NamesTo(lines, n) :
                 /\ old[name] = [key \in Attributes |-> old[name][key]]
                 /\ info[name] = [key \in Attributes |-> info[name][key]]
      BY <2>2 DEF InfoTo
    <3> HIDE DEF old, info
    <3>2. cur \in NamesTo(lines, n)
      BY <1>5, <1>8, <2>2
    <3>3. ASSUME NEW name \in NamesTo(lines, n) PROVE info[name] = e[name]
      <4>1. CASE name = cur
        <5>1. e[name] = [old[cur] EXCEPT ![l.key] = new]
          BY <3>1, <3>2, <4>1
        <5>2. \A key \in Attributes :
                  info[cur][key] = IF key = l.key THEN new ELSE old[cur][key]
          BY <2>3, <3>2 DEF old, info
        <5> QED BY <3>1, <3>2, <4>1, <5>1, <5>2
      <4>2. CASE name # cur
        <5>1. e[name] = old[name]
          BY <3>1, <4>2
        <5>2. \A key \in Attributes : info[name][key] = old[name][key]
          BY <2>3, <4>2 DEF old, info
        <5> QED BY <3>1, <5>1, <5>2
      <4> QED BY <4>1, <4>2
    <3>4. e = [name \in NamesTo(lines, n) |-> e[name]]
      BY <3>1
    <3>5. info = e
      BY <3>1, <3>3, <3>4
    <3> QED BY <3>5 DEF old, info
  <2>5. ParseLine(p, l) = [p EXCEPT !.info[p.cur][l.key] = Meant(l.key, l.value, @)]
    BY <1>4, <1>8 DEF ParseLine
  <2>6. ParserAt(lines, n) = ParseLine(p, l)
    <3> HIDE DEF p, l, cur
    <3>1. ParseLine(p, l) = [cur |-> cur, info |-> [p.info EXCEPT ![cur][l.key] = new]]
      BY <1>4, <2>5 DEF new
    <3> QED BY <1>4, <2>2, <2>4, <3>1 DEF ParserAt
  <2> QED BY <2>6
<1>9. CASE /\ l.kind # "section"
           /\ ~(l.kind = "attribute" /\ cur \in DOMAIN p.info /\ l.key \in Attributes)
  <2>1. SectionsTo(lines, n) = SectionsTo(lines, n - 1)
    BY <1>2, <1>9
  <2>2. \A name : \A key \in Attributes :
            GivesTo(lines, name, key, n) = GivesTo(lines, name, key, n - 1)
    BY <1>3, <1>5, <1>6, <1>9
  <2>3. InfoTo(lines, n) = InfoTo(lines, n - 1) /\ Current(lines, n) = cur
    <3>1. NamesTo(lines, n) = NamesTo(lines, n - 1) /\ Current(lines, n) = cur
      BY <2>1 DEF Current, NamesTo
    <3>2. \A name : \A key \in Attributes : Value(lines, GivesTo(lines, name, key, n), key) =
                                           Value(lines, GivesTo(lines, name, key, n - 1), key)
      BY <2>2
    <3> QED BY Zenon, <3>1, <3>2 DEF InfoTo
  <2>4. ParseLine(p, l) = p
    BY <1>4, <1>9 DEF ParseLine
  <2> QED BY <1>4, <2>3, <2>4 DEF ParserAt
<1> QED BY <1>7, <1>8, <1>9

LEMMA EmptyFunction == ASSUME NEW f, f = [x \in {} |-> f[x]] PROVE f = <<>>
BY EmptySeq

LEMMA ParserStarts ==
    ASSUME NEW lines, File(lines)
    PROVE  ParserAt(lines, 0) = [cur |-> "", info |-> <<>>]
<1>1. SectionsTo(lines, 0) = {}
  BY FileLines DEF SectionsTo, Sections
<1>2. NamesTo(lines, 0) = {} /\ Current(lines, 0) = ""
  BY <1>1 DEF NamesTo, Current
<1>3. PICK f : f = InfoTo(lines, 0)
  OBVIOUS
<1>4. f = [name \in {} |-> f[name]]
  BY <1>2, <1>3 DEF InfoTo
<1>5. f = <<>>
  BY <1>4, EmptyFunction
<1> QED BY <1>2, <1>3, <1>5 DEF ParserAt

(* What ParseConfig has made of a file when it has read line n. *)
LEMMA ParserFollows ==
    ASSUME NEW lines, File(lines), NEW f,
           f[0] = ParserAt(lines, 0),
           \A n \in 1 .. Len(lines) : f[n] = ParseLine(f[n - 1], lines[n])
    PROVE  \A n \in 0 .. Len(lines) : f[n] = ParserAt(lines, n)
<1> DEFINE T == {n \in Nat : n <= Len(lines) => f[n] = ParserAt(lines, n)}
<1>1. Len(lines) \in Nat
  BY FileLines
<1>2. 0 \in T
  OBVIOUS
<1>3. ASSUME NEW n \in Nat, n \in T PROVE n + 1 \in T
  <2> SUFFICES ASSUME n + 1 <= Len(lines) PROVE f[n + 1] = ParserAt(lines, n + 1)
    OBVIOUS
  <2>1. n + 1 \in 1 .. Len(lines) /\ (n + 1) - 1 = n /\ f[n] = ParserAt(lines, n)
    BY <1>1, <1>3
  <2>2. f[n + 1] = ParseLine(f[n], lines[n + 1])
    BY <2>1
  <2> QED BY <2>1, <2>2, ParserStep
<1> HIDE DEF T
<1>4. Nat \subseteq T
  BY <1>2, <1>3, Induction
<1> QED BY <1>1, <1>4 DEF T

(* ParseConfig finds in every file what its lines give. *)
LEMMA ConfigGives ==
    ASSUME NEW lines, File(lines)
    PROVE  ParseConfig(lines) = Given(lines)
<1> DEFINE start == [cur |-> "", info |-> <<>>]
           Follows(f) == f = [n \in 0 .. Len(lines) |->
                                  IF n = 0 THEN start
                                  ELSE ParseLine(f[n - 1], lines[n])]
           g == [n \in 0 .. Len(lines) |-> ParserAt(lines, n)]
           after == CHOOSE f : Follows(f)
<1>1. Len(lines) \in Nat
  BY FileLines
<1>2. ParseConfig(lines) = after[Len(lines)].info
  BY DEF ParseConfig
<1>3. start = ParserAt(lines, 0)
  BY ParserStarts
<1> HIDE DEF start
<1>4. Follows(g)
  <2>1. g[0] = start
    BY <1>1, <1>3
  <2>2. \A n \in 1 .. Len(lines) : g[n] = ParseLine(g[n - 1], lines[n])
    <3> SUFFICES ASSUME NEW n \in 1 .. Len(lines) PROVE g[n] = ParseLine(g[n - 1], lines[n])
      OBVIOUS
    <3>1. n \in 0 .. Len(lines) /\ n - 1 \in 0 .. Len(lines)
      BY <1>1
    <3> QED BY <3>1, ParserStep
  <2>3. g = [n \in 0 .. Len(lines) |-> g[n]]
    OBVIOUS
  <2> HIDE DEF g
  <2>4. \A n \in 0 .. Len(lines) : g[n] = IF n = 0 THEN start
                                          ELSE ParseLine(g[n - 1], lines[n])
    BY <1>1, <2>1, <2>2
  <2> QED BY Zenon, <2>3, <2>4
<1> HIDE DEF g
<1>5. Follows(after)
  BY <1>4
<1>6. after[Len(lines)] = ParserAt(lines, Len(lines))
  <2> HIDE DEF after
  <2>1. /\ after[0] = ParserAt(lines, 0)
        /\ \A n \in 1 .. Len(lines) : after[n] = ParseLine(after[n - 1], lines[n])
    <3>1. \A n \in 0 .. Len(lines) : after[n] = IF n = 0 THEN start
                                                ELSE ParseLine(after[n - 1], lines[n])
      BY Zenon, <1>5
    <3> QED BY <1>1, <1>3, <3>1
  <2> QED BY <1>1, <2>1, ParserFollows
<1>7. /\ SectionsTo(lines, Len(lines)) = Sections(lines)
      /\ \A name, key : GivesTo(lines, name, key, Len(lines)) = Gives(lines, name, key)
  BY FileLines DEF SectionsTo, GivesTo, Sections, Gives
<1>8. NamesTo(lines, Len(lines)) = {LoggerName(lines[s].name) : s \in Sections(lines)}
  BY <1>7 DEF NamesTo
<1>9. InfoTo(lines, Len(lines)) = Given(lines)
  BY Zenon, <1>7, <1>8 DEF InfoTo, Given, Value
<1> HIDE DEF after
<1> QED BY <1>6, <1>2, <1>9 DEF ParserAt

(* A line gives an attribute by the words of ParseConfig, and says         *)
(* something of it by those of the documents.                              *)
Known(l, key) == /\ l.kind = "attribute" /\ l.key = key
                 /\ key = "level" => l.value \in DOMAIN LevelOf
Told(l, key)  == /\ l.kind = "attribute" /\ l.key = KeyFor[key]
                 /\ key = "level" => l.value \in DOMAIN Level

(* A line gives what the line it is read as says. *)
LEMMA ReadLine ==
    ASSUME NEW l, IsLine(l), NEW key \in Attributes
    PROVE  /\ Known(l, key) <=> Told(AsRead(l), key)
           /\ Known(l, key) =>
                  Meant(key, l.value, DefaultInfo[key]) = Stated(key, AsRead(l).value)
           /\ AsRead(l).kind = "section" <=> l.kind = "section"
           /\ l.kind = "section" => AsRead(l) = l
<1> USE DEF Known, Told
<1>1. CASE l.kind # "attribute"
  BY <1>1 DEF AsRead
<1>2. CASE l.kind = "attribute" /\ l.key = "limit"
  BY <1>2 DEF AsRead, Nothing, Attributes
<1>3. CASE l.kind = "attribute" /\ l.key = "limitsize"
  BY <1>3 DEF AsRead, Attribute, Attributes, KeyFor, Meant, Stated
<1>4. CASE l.kind = "attribute" /\ l.key = "level"
  BY <1>4 DEF AsRead, Attribute, Attributes, KeyFor, Meant, Stated, Synonym, Level, LevelOf
<1>5. CASE l.kind = "attribute" /\ l.key \notin {"limit", "limitsize", "level"}
  <2>1. AsRead(l) = l
    BY <1>5 DEF AsRead
  <2> QED BY <1>5, <2>1 DEF Attributes, KeyFor, Meant, Stated
<1> QED BY <1>1, <1>2, <1>3, <1>4, <1>5

(* What the lines of a file give is what the lines they are read as mean. *)
LEMMA ReadMeans ==
    ASSUME NEW lines, File(lines)
    PROVE  Given(lines) = Meaning([i \in DOMAIN lines |-> AsRead(lines[i])])
<1> DEFINE read == [i \in DOMAIN lines |-> AsRead(lines[i])]
<1>1. /\ DOMAIN lines = 1 .. Len(lines) /\ Len(lines) \in Nat
      /\ \A i \in DOMAIN lines : IsLine(lines[i])
      /\ DOMAIN read = DOMAIN lines /\ \A i \in DOMAIN lines : read[i] = AsRead(lines[i])
  BY FileLines
<1> HIDE DEF read
<1>2. Sections(read) = Sections(lines) /\ \A s \in Sections(lines) : read[s] = lines[s]
  BY <1>1, ReadLine DEF Sections, Attributes
<1>3. ASSUME NEW name, NEW key \in Attributes
      PROVE  /\ Says(read, name, key) = Gives(lines, name, key)
             /\ \A i \in Gives(lines, name, key) :
                    Meant(key, lines[i].value, DefaultInfo[key]) = Stated(key, read[i].value)
  <2> DEFINE inside(i) == \E s \in Sections(lines) :
                              /\ s < i /\ LoggerName(lines[s].name) = name
                              /\ ~\E u \in Sections(lines) : s < u /\ u < i
  <2>1. \A i \in DOMAIN lines :
            i \in Gives(lines, name, key) <=> Known(lines[i], key) /\ inside(i)
    BY DEF Gives, Known
  <2>2. \A i \in DOMAIN lines :
            i \in Says(read, name, key) <=> Told(read[i], key) /\ inside(i)
    BY <1>1, <1>2 DEF Says, Told
  <2> HIDE DEF inside
  <2>3. Says(read, name, key) \subseteq DOMAIN lines /\ Gives(lines, name, key) \subseteq DOMAIN lines
    BY <1>1 DEF Says, Gives
  <2>4. \A i \in DOMAIN lines :
            /\ i \in Gives(lines, name, key) <=> i \in Says(read, name, key)
            /\ i \in Gives(lines, name, key) =>
                   Meant(key, lines[i].value, DefaultInfo[key]) = Stated(key, read[i].value)
    <3> SUFFICES ASSUME NEW i \in DOMAIN lines
                 PROVE  /\ i \in Gives(lines, name, key) <=> i \in Says(read, name, key)
                        /\ i \in Gives(lines, name, key) =>
                               Meant(key, lines[i].value, DefaultInfo[key]) =
                                   Stated(key, read[i].value)
      OBVIOUS
    <3>1. IsLine(lines[i]) /\ read[i] = AsRead(lines[i])
      BY <1>1
    <3>2. /\ Known(lines[i], key) <=> Told(read[i], key)
          /\ Known(lines[i], key) =>
                 Meant(key, lines[i].value, DefaultInfo[key]) = Stated(key, read[i].value)
      BY <3>1, ReadLine
    <3> QED BY <2>1, <2>2, <3>2
  <2> QED BY Zenon, <2>3, <2>4
<1>4. ASSUME NEW name, NEW key \in Attributes, Gives(lines, name, key) # {}
      PROVE  Max(Gives(lines, name, key)) \in Gives(lines, name, key)
  <2>1. Gives(lines, name, key) \in SUBSET (0 .. Len(lines))
    BY <1>1 DEF Gives
  <2> QED BY <1>1, <1>4, <2>1, Greatest
<1>5. ASSUME NEW name, NEW key \in Attributes
      PROVE  Value(lines, Gives(lines, name, key), key) =
                 IF Says(read, name, key) = {} THEN DefaultInfo[key]
                 ELSE Stated(key, read[Max(Says(read, name, key))].value)
  BY <1>3, <1>4 DEF Value
<1>6. {LoggerName(lines[s].name) : s \in Sections(lines)} =
          {LoggerName(read[s].name) : s \in Sections(read)}
  BY <1>2
<1>7. Given(lines) = Meaning(read)
  BY Zenon, <1>5, <1>6 DEF Given, Meaning
<1> QED BY <1>7 DEF read

-----------------------------------------------------------------------------
(* The loggers, their places, limits and files.                            *)

USE WidthAssumption, LinesAssumption, FilesAssumption

(* The loggers have names and places of their own, without a gap, and      *)
(* their settings their types.                                             *)
LoggersOK(ls) ==
    /\ ls = [ids |-> ls.ids, lastid |-> ls.lastid, enable |-> ls.enable,
             level |-> ls.level, limit |-> ls.limit]
    /\ ls.ids \in [DOMAIN ls.ids -> Logger]
    /\ DOMAIN ls.ids \subseteq ToSet(NameOrder)
    /\ "Main" \in DOMAIN ls.ids /\ ls.ids["Main"] = Main
    /\ \A m, n \in DOMAIN ls.ids : ls.ids[m] = ls.ids[n] => m = n
    /\ ls.lastid \in Logger
    /\ \A id \in Logger : id <= ls.lastid <=> \E n \in DOMAIN ls.ids : ls.ids[n] = id
    /\ ls.enable \in [Logger -> BOOLEAN]
    /\ ls.level \in [Logger -> 0 .. 5]
    /\ ls.limit \in [Logger -> UInt]
    /\ \A id \in Logger : ls.enable[id] => id <= ls.lastid

FilesOK ==
    /\ file \in [Logger -> [open : BOOLEAN, len : UInt]]

RestOK ==
    /\ running \in BOOLEAN
    /\ configs \in 0 .. MaxConfigs
    /\ configured \in BOOLEAN
    /\ control \in {"idle", "starting", "stopping"}
    /\ starts \in 0 .. MaxStarts
    /\ writer \in {"none", "created", "looking", "writing", "recording", "idle",
                  "quitting", "ended"}
    /\ failures \in 0 .. MaxFailures
    /\ \A t \in Thread : Len(line[t]) <= 1

(* A line about to be written goes to a file that was not full when the    *)
(* thread looked at it, by the limit of then.                              *)
RoomOK ==
    /\ found \in UInt
    /\ writer = "recording" => file[Line.id].len <= (found * Mega) % Width

LoggerInv == LoggersOK(loggers) /\ FilesOK /\ RestOK /\ RoomOK

LEMMA Widths ==
    /\ Width \in Nat \ {0} /\ Mega \in Nat \ {0, 1}
    /\ ZeroLimit \in UInt /\ DefaultLimit \in UInt /\ 0 \in UInt /\ Width - 1 \in UInt
    /\ \A n \in UInt : n \in Nat /\ n < Width
    /\ Main \in Logger
<1>1. Main \in Logger
  BY DEF Main, Logger
<1>2. Width \in Nat /\ Mega \in Nat \ {0, 1} /\ 0 <= DefaultLimit
      /\ ZeroLimit \in 0 .. Width - 1 /\ DefaultLimit \in 0 .. Width - 1
  OBVIOUS
<1>3. Width \in Nat \ {0}
  BY <1>2
<1> QED BY <1>1, <1>2, <1>3 DEF UInt

(* A line that is counted in a file which is not full leaves room for what *)
(* comes in an unsigned int.                                               *)
LEMMA LengthFits ==
    ASSUME NEW limit \in UInt
    PROVE  LET t == (limit * Mega) % Width IN
           t \in Nat /\ t + 1 < Width /\ t <= limit * Mega
<1> DEFINE a == limit * Mega  t == a % Width  q == a \div Width  k == Width \div Mega
<1>1. Width \in Nat \ {0} /\ Mega \in Nat \ {0, 1} /\ limit \in Nat /\ a \in Nat
  BY Widths
<1>2. t \in 0 .. Width - 1 /\ a = (Width * q) + t /\ q \in Nat /\ t <= a
  BY <1>1
<1>3. Width = Mega * k /\ k \in Nat
  <2>1. Width = (Mega * k) + (Width % Mega) /\ k \in Nat
    BY <1>1
  <2>2. Width % Mega = 0
    OBVIOUS
  <2>3. Mega * k \in Nat
    BY <1>1, <2>1
  <2> HIDE DEF k
  <2> QED BY <2>1, <2>2, <2>3
<1>4. t = Mega * (limit - k * q)
  <2> HIDE DEF t, k, q
  <2>1. limit * Mega = ((Mega * k) * q) + t
    BY <1>2, <1>3
  <2> QED BY <1>1, <1>2, <1>3, <2>1
<1>5. Mega * (limit - k * q) < Mega * k => Mega * (limit - k * q) <= Mega * k - Mega
  <2>1. PICK x \in Int : x = limit - k * q
    BY <1>1, <1>2, <1>3
  <2>2. Mega * x < Mega * k => x < k
    BY SMTT(30), <1>1, <1>3, <2>1
  <2>3. x < k => Mega * x <= Mega * (k - 1)
    <3> HIDE DEF k, q
    <3>1. \A c \in Nat, y \in Nat : c * y >= 0
      OBVIOUS
    <3>2. x < k => (k - 1) - x \in Nat /\ Mega * ((k - 1) - x) = Mega * (k - 1) - Mega * x
      BY <1>1, <1>3, <2>1
    <3>3. Mega * (k - 1) \in Int /\ Mega * x \in Int
      BY <1>1, <1>3, <2>1
    <3> QED BY <1>1, <3>1, <3>2, <3>3
  <2>4. Mega * (k - 1) = Mega * k - Mega
    BY <1>1, <1>3
  <2> HIDE DEF k, q
  <2> QED BY <1>1, <2>1, <2>2, <2>3, <2>4
<1>6. t < Width => t <= Width - Mega
  <2> HIDE DEF t, k, q
  <2> QED BY <1>1, <1>3, <1>4, <1>5
<1> HIDE DEF k, q
<1>7. t <= Width - Mega /\ t \in Nat
  BY <1>2, <1>6
<1>8. t + 1 < Width
  <2> HIDE DEF t
  <2> QED BY <1>1, <1>7
<1> QED BY <1>2, <1>7, <1>8

LEMMA CreatedOK ==
    ASSUME NEW ls, LoggersOK(ls), NEW name \in ToSet(NameOrder),
           NEW level \in 0 .. 5, NEW limit \in UInt
    PROVE  LoggersOK(Created(ls, name, level, limit))
<1>1. CASE IdFor(ls, name) = {}
  BY <1>1 DEF Created
<1>2. CASE IdFor(ls, name) # {}
  <2> DEFINE new == Created(ls, name, level, limit)
  <2>1. PICK id : id = CHOOSE i \in IdFor(ls, name) : TRUE
    OBVIOUS
  <2>2. id \in IdFor(ls, name)
    BY <1>2, <2>1
  <2>3. /\ id \in Logger
        /\ \/ name \in DOMAIN ls.ids /\ id = ls.ids[name] /\ id <= ls.lastid
           \/ name \notin DOMAIN ls.ids /\ id = ls.lastid + 1
    <3>1. ls.lastid \in Nat /\ LoggerMax \in Nat
      BY DEF LoggersOK, Logger
    <3>2. CASE name \in DOMAIN ls.ids
      <4>1. id = ls.ids[name] /\ id \in Logger
        <5>1. ls.ids[name] \in Logger
          BY <3>2 DEF LoggersOK
        <5>2. id \in {ls.ids[name]}
          BY <2>2, <3>2 DEF IdFor
        <5> QED BY <5>1, <5>2
      <4>2. id <= ls.lastid
        BY <3>2, <4>1 DEF LoggersOK
      <4> QED BY <3>2, <4>1, <4>2
    <3>3. CASE name \notin DOMAIN ls.ids
      <4>1. id \in NewId(ls)
        BY <2>2, <3>3 DEF IdFor
      <4>2. id = ls.lastid + 1 /\ ls.lastid + 1 < LoggerMax
        BY <3>1, <4>1 DEF NewId
      <4> QED BY <3>1, <3>3, <4>2 DEF Logger
    <3> QED BY <3>2, <3>3
  <2>4. new = [ids    |-> [n \in DOMAIN ls.ids \cup {name} |-> IF n = name THEN id ELSE ls.ids[n]],
               lastid |-> Greater(ls.lastid, id),
               enable |-> [ls.enable EXCEPT ![id] = TRUE],
               level  |-> [ls.level EXCEPT ![id] = level],
               limit  |-> [ls.limit EXCEPT ![id] = IF limit = 0 THEN ZeroLimit ELSE limit]]
    BY <1>2, <2>1 DEF Created
  <2>5. /\ new.ids = [n \in DOMAIN ls.ids \cup {name} |-> IF n = name THEN id ELSE ls.ids[n]]
        /\ new.lastid = Greater(ls.lastid, id)
        /\ new.enable = [ls.enable EXCEPT ![id] = TRUE]
        /\ new.level = [ls.level EXCEPT ![id] = level]
        /\ new.limit = [ls.limit EXCEPT ![id] = IF limit = 0 THEN ZeroLimit ELSE limit]
        /\ new = [ids |-> new.ids, lastid |-> new.lastid, enable |-> new.enable,
                  level |-> new.level, limit |-> new.limit]
    BY <2>4
  <2> HIDE DEF new
  <2>6. /\ ls.lastid \in Logger /\ Logger \subseteq Nat
        /\ \A i \in Logger : i <= ls.lastid <=> \E n \in DOMAIN ls.ids : ls.ids[n] = i
        /\ \A i \in Logger : ls.enable[i] => i <= ls.lastid
        /\ ls.ids \in [DOMAIN ls.ids -> Logger]
        /\ "Main" \in DOMAIN ls.ids /\ ls.ids["Main"] = Main
        /\ \A m, n \in DOMAIN ls.ids : ls.ids[m] = ls.ids[n] => m = n
    BY DEF LoggersOK, Logger
  <2>7. new.lastid \in Logger /\ ls.lastid <= new.lastid /\ id <= new.lastid
        /\ \A i \in Logger : i <= new.lastid <=> i <= ls.lastid \/ i = id
    BY SMTT(30), <2>3, <2>5, <2>6 DEF Greater
  <2>8. /\ DOMAIN new.ids = DOMAIN ls.ids \cup {name}
        /\ \A n \in DOMAIN new.ids : /\ n = name => new.ids[n] = id
                                     /\ n # name => n \in DOMAIN ls.ids /\ new.ids[n] = ls.ids[n]
    BY <2>5
  <2>9. new.ids \in [DOMAIN new.ids -> Logger] /\ DOMAIN new.ids \subseteq ToSet(NameOrder)
    <3>1. new.ids \in [DOMAIN ls.ids \cup {name} -> Logger]
      BY <2>3, <2>5, <2>6
    <3> QED BY <2>8, <3>1 DEF LoggersOK
  <2>10. \A n \in DOMAIN ls.ids : ls.ids[n] = id => n = name
    <3> SUFFICES ASSUME NEW n \in DOMAIN ls.ids, ls.ids[n] = id PROVE n = name
      OBVIOUS
    <3>1. ls.ids[n] \in Logger /\ id <= ls.lastid
      BY <2>3, <2>6
    <3>2. ~(ls.lastid + 1 <= ls.lastid)
      <4>1. ls.lastid \in Nat
        BY <2>6
      <4> QED BY <4>1
    <3> QED BY <2>3, <2>6, <3>1, <3>2
  <2>11. \A m, n \in DOMAIN new.ids : new.ids[m] = new.ids[n] => m = n
    BY <2>6, <2>8, <2>10
  <2>12. "Main" \in DOMAIN new.ids /\ new.ids["Main"] = Main
    <3>1. "Main" = name => id = Main
      BY <2>3, <2>6
    <3> QED BY <2>6, <2>8, <3>1
  <2>13. \A i \in Logger : i <= new.lastid <=> \E n \in DOMAIN new.ids : new.ids[n] = i
    <3> SUFFICES ASSUME NEW i \in Logger
                 PROVE  i <= new.lastid <=> \E n \in DOMAIN new.ids : new.ids[n] = i
      OBVIOUS
    <3>1. (\E n \in DOMAIN new.ids : new.ids[n] = i) <=>
              i = id \/ \E n \in DOMAIN ls.ids : ls.ids[n] = i
      BY <2>8, <2>3
    <3> QED BY <2>6, <2>7, <3>1
  <2>14. /\ new.enable \in [Logger -> BOOLEAN]
         /\ new.level \in [Logger -> 0 .. 5]
         /\ new.limit \in [Logger -> UInt]
    BY <2>3, <2>5, Widths DEF LoggersOK
  <2>15. \A i \in Logger : new.enable[i] => i <= new.lastid
    <3>1. \A i \in Logger : new.enable[i] => i = id \/ ls.enable[i]
      BY <2>3, <2>5 DEF LoggersOK
    <3> QED BY <2>6, <2>7, <3>1
  <2> QED BY <2>5, <2>7, <2>9, <2>11, <2>12, <2>13, <2>14, <2>15 DEF LoggersOK, new
<1> QED BY <1>1, <1>2

(* What a configuration file says of a logger can be set. *)
LEMMA InfoTypes ==
    ASSUME NEW lines, File(lines), NEW name \in DOMAIN ParseConfig(lines)
    PROVE  /\ ParseConfig(lines)[name].level \in 0 .. 5
           /\ ParseConfig(lines)[name].limitsize \in UInt
<1> DEFINE Of(key) == LET said == Gives(lines, name, key) IN
                      IF said = {} THEN DefaultInfo[key]
                      ELSE Meant(key, lines[Max(said)].value, DefaultInfo[key])
<1>1. ParseConfig(lines) = Given(lines)
  BY ConfigGives
<1>2. ParseConfig(lines)[name] = [key \in Attributes |-> Of(key)]
  BY <1>1 DEF Given, Value
<1>3. Of("level") \in 0 .. 5
  <2>1. DefaultInfo["level"] \in 0 .. 5
    BY DEF DefaultInfo
  <2>2. \A value \in DOMAIN LevelOf : LevelOf[value] \in 0 .. 5
    BY DEF LevelOf
  <2>3. \A value : Meant("level", value, DefaultInfo["level"]) \in 0 .. 5
    BY <2>1, <2>2 DEF Meant
  <2> QED BY <2>1, <2>3
<1>4. Of("limitsize") \in UInt
  <2>1. DefaultInfo["limitsize"] \in UInt
    BY Widths DEF DefaultInfo
  <2>2. \A value \in DOMAIN Number : Number[value] \in UInt
    <3>1. \A value \in DOMAIN Number : Number[value] \in Nat
      BY DEF Number
    <3> QED BY <3>1, Widths DEF UInt
  <2>3. \A value : Atoi(value) \in UInt
    BY <2>2, Widths DEF Atoi
  <2>4. \A value, old : Meant("limitsize", value, old) = Atoi(value)
    BY DEF Meant
  <2> QED BY <2>1, <2>3, <2>4
<1> HIDE DEF Of
<1>5. {"level", "limitsize"} \subseteq Attributes
  BY DEF Attributes
<1>6. /\ ParseConfig(lines)[name].level = Of("level")
      /\ ParseConfig(lines)[name].limitsize = Of("limitsize")
  BY <1>2, <1>5
<1> QED BY <1>3, <1>4, <1>6

LEMMA ConfigFile ==
    ASSUME NEW lines \in ConfigFiles
    PROVE  File(lines) /\ DOMAIN ParseConfig(lines) \subseteq ToSet(NameOrder)
BY DEF File

(* What Config does to the loggers. *)
LEMMA CreatedAllOK ==
    ASSUME NEW ls, LoggersOK(ls), NEW info,
           \A name \in DOMAIN info : info[name].level \in 0 .. 5 /\ info[name].limitsize \in UInt
    PROVE  LoggersOK(CreatedAll(ls, info))
<1> DEFINE Turn(l, name) == IF name \in DOMAIN info
                            THEN Created(l, name, info[name].level, info[name].limitsize)
                            ELSE l
           Upto(f, m) == f = [n \in 0 .. m |-> IF n = 0 THEN ls
                                               ELSE Turn(f[n - 1], NameOrder[n])]
           T == {m \in Nat : \E f : Upto(f, m)}
           N == Len(NameOrder)
           after == CHOOSE f : Upto(f, N)
<1>1. N \in Nat /\ \A n \in 1 .. N : NameOrder[n] \in ToSet(NameOrder)
  <2>1. NameOrder \in Seq(ToSet(NameOrder))
    OBVIOUS
  <2> QED BY <2>1, LenProperties, ElementOfSeq
<1>2. \A l, name : LoggersOK(l) /\ name \in ToSet(NameOrder) => LoggersOK(Turn(l, name))
  BY CreatedOK
<1>3. CreatedAll(ls, info) = after[N]
  BY Zenon DEF CreatedAll
<1> HIDE DEF Turn
<1>4. 0 \in T
  <2>1. Upto([n \in 0 .. 0 |-> ls], 0)
    OBVIOUS
  <2> QED BY <2>1
<1>5. ASSUME NEW m \in Nat, m \in T PROVE m + 1 \in T
  <2>1. PICK f : Upto(f, m)
    BY <1>5
  <2> DEFINE g == [n \in 0 .. m + 1 |-> IF n = m + 1 THEN Turn(f[m], NameOrder[m + 1]) ELSE f[n]]
  <2>2. ASSUME NEW n \in 0 .. m + 1
        PROVE  g[n] = IF n = 0 THEN ls ELSE Turn(g[n - 1], NameOrder[n])
    <3>1. CASE n = m + 1
      <4>1. n # 0 /\ n - 1 = m /\ m \in 0 .. m + 1 /\ m # m + 1
        BY <3>1
      <4>2. g[n - 1] = f[m]
        BY <4>1
      <4> QED BY <3>1, <4>1, <4>2
    <3>2. CASE n # m + 1
      <4>1. n \in 0 .. m
        BY <3>2
      <4>2. f[n] = IF n = 0 THEN ls ELSE Turn(f[n - 1], NameOrder[n])
        BY <2>1, <4>1
      <4>3. n # 0 => n - 1 \in 0 .. m + 1 /\ n - 1 # m + 1
        BY <4>1
      <4>4. g[n] = f[n] /\ (n # 0 => g[n - 1] = f[n - 1])
        BY <3>2, <4>3
      <4> QED BY <4>2, <4>4
    <3> QED BY <3>1, <3>2
  <2>3. g = [n \in 0 .. m + 1 |-> g[n]]
    OBVIOUS
  <2> HIDE DEF g
  <2>4. Upto(g, m + 1)
    BY Zenon, <2>2, <2>3
  <2> QED BY SMTT(30), <2>4
<1> HIDE DEF T
<1>6. Nat \subseteq T
  BY <1>4, <1>5, Induction
<1>7. Upto(after, N)
  BY <1>1, <1>6 DEF T
<1> DEFINE U == {n \in Nat : n <= N => LoggersOK(after[n])}
<1> HIDE DEF after, N
<1>8. \A n \in 0 .. N : after[n] = IF n = 0 THEN ls ELSE Turn(after[n - 1], NameOrder[n])
  BY Zenon, <1>7
<1>9. 0 \in U
  BY <1>1, <1>8
<1>10. ASSUME NEW n \in Nat, n \in U PROVE n + 1 \in U
  <2> SUFFICES ASSUME n + 1 <= N PROVE LoggersOK(after[n + 1])
    OBVIOUS
  <2>1. n + 1 \in 0 .. N /\ n + 1 # 0 /\ (n + 1) - 1 = n /\ n + 1 \in 1 .. N /\ LoggersOK(after[n])
    BY <1>1, <1>10
  <2>2. after[n + 1] = Turn(after[n], NameOrder[n + 1])
    BY <1>8, <2>1
  <2> QED BY <1>1, <1>2, <2>1, <2>2
<1> HIDE DEF U
<1>11. Nat \subseteq U
  BY <1>9, <1>10, Induction
<1> QED BY <1>1, <1>3, <1>11 DEF U

-----------------------------------------------------------------------------
(* The steps.                                                              *)

LEMMA InitLoggers == Init => LoggerInv
<1> SUFFICES ASSUME Init PROVE LoggerInv
  OBVIOUS
<1> DEFINE ids == [name \in {"Main"} |-> Main]  off == [id \in Logger |-> FALSE]
           level == [id \in Logger |-> DefaultInfo.level]
           limit == [id \in Logger |-> DefaultInfo.limitsize]
<1>1. /\ DefaultInfo.level = 0 /\ DefaultInfo.limitsize = DefaultLimit
      /\ Main = 0 /\ Main \in Logger /\ Logger \subseteq Nat
  BY Widths DEF DefaultInfo, Main, Logger
<1>2. loggers = [ids |-> ids, lastid |-> Main, enable |-> off, level |-> level, limit |-> limit]
  BY DEF Init
<1>3. /\ loggers.ids = ids /\ loggers.lastid = Main /\ loggers.enable = off
      /\ loggers.level = level /\ loggers.limit = limit
  BY <1>2
<1>4. /\ ids \in [{"Main"} -> Logger] /\ DOMAIN ids = {"Main"} /\ ids["Main"] = Main
      /\ off \in [Logger -> BOOLEAN] /\ \A id \in Logger : ~off[id]
  BY <1>1
<1>5. level \in [Logger -> 0 .. 5] /\ limit \in [Logger -> UInt]
  BY <1>1, Widths
<1> HIDE DEF ids, off, level, limit
<1>6. \A id \in Logger : id <= Main <=> id = Main
  BY <1>1
<1>7. LoggersOK(loggers)
  BY <1>1, <1>2, <1>3, <1>4, <1>5, <1>6 DEF LoggersOK
<1>8. FilesOK
  BY Widths DEF Init, FilesOK
<1>9. RestOK
  <2>1. \A t \in Thread : line[t] = <<>>
    BY DEF Init
  <2>2. \A t \in Thread : Len(line[t]) <= 1
    BY <2>1
  <2>3. MaxStarts \in Nat /\ MaxConfigs \in Nat /\ MaxFailures \in Nat
    BY BoundsAssumption
  <2>4. /\ running = FALSE /\ configured = FALSE /\ configs = 0 /\ starts = 0 /\ failures = 0
        /\ control = "idle" /\ writer = "none"
    BY DEF Init
  <2>5. 0 \in 0 .. MaxStarts /\ 0 \in 0 .. MaxConfigs /\ 0 \in 0 .. MaxFailures
    BY <2>3
  <2> HIDE DEF Init
  <2> QED BY <2>2, <2>4, <2>5 DEF RestOK
<1>10. RoomOK
  BY Widths DEF Init, RoomOK
<1> QED BY <1>7, <1>8, <1>9, <1>10 DEF LoggerInv

(* What the setters and the writer change of the loggers. *)
LEMMA Settings ==
    ASSUME NEW ls, LoggersOK(ls), NEW level \in [Logger -> 0 .. 5],
           NEW limit \in [Logger -> UInt], NEW enable \in [Logger -> BOOLEAN],
           \A id \in Logger : enable[id] => id = Main \/ ls.enable[id],
           NEW new, new = [ids |-> ls.ids, lastid |-> ls.lastid, enable |-> enable,
                           level |-> level, limit |-> limit]
    PROVE  LoggersOK(new)
<1>1. Main <= ls.lastid
  BY DEF LoggersOK, Main, Logger
<1>2. /\ new.ids = ls.ids /\ new.lastid = ls.lastid /\ new.enable = enable
      /\ new.level = level /\ new.limit = limit
  OBVIOUS
<1>3. new = [ids |-> new.ids, lastid |-> new.lastid, enable |-> new.enable,
             level |-> new.level, limit |-> new.limit]
  BY <1>2
<1>4. \A id \in Logger : new.enable[id] => id <= new.lastid
  BY <1>1, <1>2 DEF LoggersOK
<1> QED BY <1>2, <1>3, <1>4 DEF LoggersOK

LEMMA LimitedType == \A limit \in UInt : Limited(limit) \in UInt
BY Widths DEF Limited

(* A change made by the controlling thread. *)
LEMMA ConfigLoggers ==
    ASSUME LoggerInv, NEW lines \in ConfigFiles,
           \/ Config(lines)
           \/ UpdateConfig(lines)
           \/ \E name \in DOMAIN ParseConfig(lines) :
                  \/ CreateLogger(name, ParseConfig(lines)[name])
                  \/ \E id \in Logger : SetLogger(id, ParseConfig(lines)[name])
    PROVE  LoggersOK(loggers')
<1> DEFINE info == ParseConfig(lines)
<1>1. LoggersOK(loggers)
  BY DEF LoggerInv
<1>2. File(lines) /\ DOMAIN info \subseteq ToSet(NameOrder)
  BY ConfigFile
<1>3. \A name \in DOMAIN info : info[name].level \in 0 .. 5 /\ info[name].limitsize \in UInt
  BY <1>2, InfoTypes
<1>4. /\ loggers = [ids |-> loggers.ids, lastid |-> loggers.lastid, enable |-> loggers.enable,
                    level |-> loggers.level, limit |-> loggers.limit]
      /\ loggers.level \in [Logger -> 0 .. 5] /\ loggers.limit \in [Logger -> UInt]
      /\ loggers.enable \in [Logger -> BOOLEAN]
  BY <1>1 DEF LoggersOK
<1>5. CASE Config(lines)
  BY <1>1, <1>3, <1>5, CreatedAllOK DEF Config
<1>6. CASE UpdateConfig(lines)
  <2> DEFINE listed == {name \in DOMAIN info : name \in DOMAIN loggers.ids}
             Of(id, said, old) == IF \E name \in listed : loggers.ids[name] = id
                                  THEN said[CHOOSE name \in listed : loggers.ids[name] = id]
                                  ELSE old
             level == [id \in Logger |-> Of(id, [n \in listed |-> info[n].level],
                                            loggers.level[id])]
             limit == [id \in Logger |-> Of(id, [n \in listed |-> Limited(info[n].limitsize)],
                                            loggers.limit[id])]
  <2>1. loggers' = [loggers EXCEPT
               !.level = [id \in Logger |-> Of(id, [n \in listed |-> info[n].level], @[id])],
               !.limit = [id \in Logger |->
                             Of(id, [n \in listed |-> Limited(info[n].limitsize)], @[id])]]
    BY <1>6 DEF UpdateConfig
  <2>2. \A id, said, old, S : said \in [listed -> S] /\ old \in S => Of(id, said, old) \in S
    OBVIOUS
  <2>3. level \in [Logger -> 0 .. 5]
    <3>1. [n \in listed |-> info[n].level] \in [listed -> 0 .. 5]
      BY <1>3
    <3>2. PICK said : said = [n \in listed |-> info[n].level]
      OBVIOUS
    <3>3. \A id \in Logger : loggers.level[id] \in 0 .. 5
      BY <1>4
    <3> HIDE DEF Of, listed
    <3>4. \A id \in Logger : Of(id, said, loggers.level[id]) \in 0 .. 5
      <4> DEFINE Levels == 0 .. 5
      <4>1. said \in [listed -> Levels] /\ \A id \in Logger : loggers.level[id] \in Levels
        BY <3>1, <3>2, <3>3
      <4> HIDE DEF Levels
      <4>2. \A id \in Logger : Of(id, said, loggers.level[id]) \in Levels
        BY Zenon, <2>2, <4>1
      <4> QED BY <4>2 DEF Levels
    <3> QED BY <3>2, <3>4
  <2>4. limit \in [Logger -> UInt]
    <3>1. [n \in listed |-> Limited(info[n].limitsize)] \in [listed -> UInt]
      BY <1>3, LimitedType
    <3>2. PICK said : said = [n \in listed |-> Limited(info[n].limitsize)]
      OBVIOUS
    <3>3. \A id \in Logger : loggers.limit[id] \in UInt
      BY <1>4
    <3> HIDE DEF Of, listed
    <3>4. \A id \in Logger : Of(id, said, loggers.limit[id]) \in UInt
      BY Zenon, <2>2, <3>1, <3>2, <3>3
    <3> QED BY <3>2, <3>4
  <2>5. loggers' = [loggers EXCEPT !.level = level, !.limit = limit]
    BY <2>1
  <2> HIDE DEF level, limit
  <2>6. loggers' = [ids |-> loggers.ids, lastid |-> loggers.lastid, enable |-> loggers.enable,
                    level |-> level, limit |-> limit]
    BY <1>4, <2>5
  <2> QED BY <1>1, <1>4, <2>3, <2>4, <2>6, Settings
<1>7. ASSUME NEW name \in DOMAIN info, CreateLogger(name, info[name])
      PROVE  LoggersOK(loggers')
  BY <1>1, <1>2, <1>3, <1>7, CreatedOK DEF CreateLogger
<1>8. ASSUME NEW name \in DOMAIN info, NEW id \in Logger, SetLogger(id, info[name])
      PROVE  LoggersOK(loggers')
  <2> DEFINE level == [loggers.level EXCEPT ![id] = info[name].level]
             limit == [loggers.limit EXCEPT ![id] = Limited(info[name].limitsize)]
  <2>1. level \in [Logger -> 0 .. 5] /\ limit \in [Logger -> UInt]
    BY <1>3, <1>4, LimitedType
  <2>2. \/ loggers' = [loggers EXCEPT !.level = level]
        \/ loggers' = [loggers EXCEPT !.limit = limit]
    BY <1>8 DEF SetLogger
  <2> HIDE DEF level, limit
  <2>3. \/ loggers' = [ids |-> loggers.ids, lastid |-> loggers.lastid, enable |-> loggers.enable,
                       level |-> level, limit |-> loggers.limit]
        \/ loggers' = [ids |-> loggers.ids, lastid |-> loggers.lastid, enable |-> loggers.enable,
                       level |-> loggers.level, limit |-> limit]
    BY <1>4, <2>2
  <2> QED BY <1>1, <1>4, <2>1, <2>3, Settings
<1> HIDE DEF info
<1> QED BY <1>5, <1>6, <1>7, <1>8 DEF info

(* A change made by the logger's thread. *)
LEMMA WriterLoggers ==
    ASSUME LoggerInv, Begin \/ OpenFails \/ Quit
    PROVE  LoggersOK(loggers')
<1>1. LoggersOK(loggers)
  BY DEF LoggerInv
<1>2. /\ loggers = [ids |-> loggers.ids, lastid |-> loggers.lastid, enable |-> loggers.enable,
                    level |-> loggers.level, limit |-> loggers.limit]
      /\ loggers.level \in [Logger -> 0 .. 5] /\ loggers.limit \in [Logger -> UInt]
      /\ loggers.enable \in [Logger -> BOOLEAN]
  BY <1>1 DEF LoggersOK
<1>3. \E enable \in [Logger -> BOOLEAN] :
          /\ \A id \in Logger : enable[id] => id = Main \/ loggers.enable[id]
          /\ loggers' = [loggers EXCEPT !.enable = enable]
  <2>1. CASE Begin
    <3> DEFINE enable == [loggers.enable EXCEPT ![Main] = TRUE]
    <3>1. enable \in [Logger -> BOOLEAN]
      BY <1>2
    <3>2. \A id \in Logger : enable[id] => id = Main \/ loggers.enable[id]
      BY <1>2
    <3>3. loggers' = [loggers EXCEPT !.enable = enable]
      BY <2>1 DEF Begin
    <3> QED BY <3>1, <3>2, <3>3
  <2>2. CASE OpenFails
    <3> DEFINE enable == [loggers.enable EXCEPT ![Line.id] = FALSE]
    <3>1. enable \in [Logger -> BOOLEAN]
      BY <1>2
    <3>2. \A id \in Logger : enable[id] => id = Main \/ loggers.enable[id]
      BY <1>2
    <3>3. loggers' = [loggers EXCEPT !.enable = enable]
      BY <2>2 DEF OpenFails
    <3> QED BY <3>1, <3>2, <3>3
  <2>3. CASE Quit
    <3> DEFINE enable == [id \in Logger |-> FALSE]
    <3>1. /\ enable \in [Logger -> BOOLEAN] /\ \A id \in Logger : ~enable[id]
      OBVIOUS
    <3>2. loggers' = [loggers EXCEPT !.enable = enable]
      BY <2>3 DEF Quit
    <3> QED BY <3>1, <3>2
  <2> QED BY <2>1, <2>2, <2>3
<1>4. PICK enable \in [Logger -> BOOLEAN] :
          /\ \A id \in Logger : enable[id] => id = Main \/ loggers.enable[id]
          /\ loggers' = [loggers EXCEPT !.enable = enable]
  BY <1>3
<1>5. loggers' = [ids |-> loggers.ids, lastid |-> loggers.lastid, enable |-> enable,
                  level |-> loggers.level, limit |-> loggers.limit]
  BY <1>2, <1>4
<1> QED BY <1>1, <1>2, <1>4, <1>5, Settings

LEMMA LineAtHand ==
    QueueInv /\ writer \in {"writing", "recording"} => Line \in Lines /\ Line.id \in Logger
<1> SUFFICES ASSUME QueueInv, writer \in {"writing", "recording"} PROVE Line \in Lines
  BY DEF Lines
<1>1. popped = <<popped[1]>> /\ popped \in Seq(Lines)
  BY DEF QueueInv, QueueTypes
<1>2. PICK l : popped = <<l>>
  BY <1>1
<1>3. 1 \in 1 .. Len(popped)
  BY <1>2
<1> QED BY <1>1, <1>3, ElementOfSeq DEF Line

LEMMA FileFields ==
    ASSUME NEW S, NEW r \in [open : BOOLEAN, len : S], NEW b \in BOOLEAN, NEW m \in S
    PROVE  /\ [r EXCEPT !.len = m] \in [open : BOOLEAN, len : S]
           /\ [r EXCEPT !.len = m].len = m
           /\ [r EXCEPT !.open = b] \in [open : BOOLEAN, len : S]
           /\ [r EXCEPT !.open = b].len = r.len
           /\ [r EXCEPT !.open = b, !.len = m] \in [open : BOOLEAN, len : S]
           /\ [r EXCEPT !.open = b, !.len = m].len = m
<1>1. /\ [r EXCEPT !.len = m] \in [open : BOOLEAN, len : S]
      /\ [r EXCEPT !.open = b] \in [open : BOOLEAN, len : S]
      /\ [r EXCEPT !.open = b, !.len = m] \in [open : BOOLEAN, len : S]
  OBVIOUS
<1>2. [r EXCEPT !.len = m].len = m /\ [r EXCEPT !.open = b].len = r.len
  OBVIOUS
<1>3. [r EXCEPT !.open = b, !.len = m].len = m
  OBVIOUS
<1> QED BY <1>1, <1>2, <1>3

(* The file to write to is never full, and no longer than it was.          *)
LEMMA RotatedFits ==
    ASSUME LoggerInv, NEW id \in Logger, NEW sameday \in BOOLEAN
    PROVE  /\ Rotated(id, sameday) \in [open : BOOLEAN, len : UInt]
           /\ Rotated(id, sameday).len <= Threshold(id)
           /\ Rotated(id, sameday).len <= file[id].len
<1> DEFINE t == Threshold(id)
<1>1. file[id] \in [open : BOOLEAN, len : UInt] /\ loggers.limit[id] \in UInt
  BY DEF LoggerInv, FilesOK, LoggersOK
<1>2. t \in Nat /\ t + 1 < Width /\ t <= loggers.limit[id] * Mega
  BY <1>1, LengthFits DEF Threshold
<1>3. t = Threshold(id)
  OBVIOUS
<1> HIDE DEF t
<1>4. \/ Rotated(id, sameday) = file[id] /\ ~(file[id].len > t)
      \/ Rotated(id, sameday) = [file[id] EXCEPT !.len = 0]
  BY <1>3 DEF Rotated, NeedsChange
<1>5. file[id].len \in Nat /\ 0 <= t
  BY <1>1, <1>2, Widths
<1>6. PICK r : r = Rotated(id, sameday)
  OBVIOUS
<1>7. r \in [open : BOOLEAN, len : UInt] /\ r.len <= t /\ r.len <= file[id].len
  <2>1. CASE r = file[id] /\ ~(file[id].len > t)
    BY <1>1, <1>2, <1>5, <2>1
  <2>2. CASE r = [file[id] EXCEPT !.len = 0]
    <3>1. 0 \in UInt /\ TRUE \in BOOLEAN
      BY Widths
    <3>2. /\ [file[id] EXCEPT !.len = 0] \in [open : BOOLEAN, len : UInt]
          /\ [file[id] EXCEPT !.len = 0].len = 0
      BY <1>1, <3>1, FileFields
    <3> QED BY <1>5, <2>2, <3>2
  <2> QED BY <1>4, <1>6, <2>1, <2>2
<1> QED BY <1>3, <1>6, <1>7

(* What the look at the file of the line does, whether the file can be     *)
(* opened or not.                                                          *)
LEMMA LookStep ==
    ASSUME QueueInv, LoggerInv, UpdateFile \/ OpenFails
    PROVE  /\ FilesOK' /\ RoomOK'
           /\ \A id \in Logger : ~(file'[id].len > file[id].len)
<1> DEFINE id == Line.id  Files == [open : BOOLEAN, len : UInt]
<1>1. file \in [Logger -> Files] /\ id \in Logger
  <2>1. writer = "writing"
    BY DEF UpdateFile, OpenFails, Writable
  <2> QED BY <2>1, LineAtHand DEF LoggerInv, FilesOK
<1>2. PICK sameday \in BOOLEAN, open \in BOOLEAN :
          file' = [file EXCEPT ![id] = [Rotated(id, sameday) EXCEPT !.open = open]]
  <2>1. CASE UpdateFile
    BY <2>1 DEF UpdateFile
  <2>2. CASE OpenFails
    BY <2>2 DEF OpenFails
  <2> QED BY <2>1, <2>2
<1>3. PICK r : r = Rotated(id, sameday)
  OBVIOUS
<1>4. r \in Files /\ r.len <= Threshold(id) /\ r.len <= file[id].len
  BY <1>1, <1>3, RotatedFits
<1> HIDE DEF id
<1>5. PICK q \in Files : file' = [file EXCEPT ![id] = q] /\ q.len = r.len
  <2>1. r.len \in UInt
    BY <1>4
  <2>2. [r EXCEPT !.open = open] \in Files /\ [r EXCEPT !.open = open].len = r.len
    BY <1>4, <2>1, FileFields
  <2> QED BY <1>2, <1>3, <2>2
<1>6. FilesOK'
  BY <1>1, <1>5 DEF FilesOK
<1>7. ASSUME NEW other \in Logger PROVE ~(file'[other].len > file[other].len)
  <2>1. file[other].len \in Nat /\ q.len \in Nat
    BY <1>1, <1>5, Widths
  <2>2. CASE other = id
    BY <1>1, <1>4, <1>5, <2>1, <2>2
  <2>3. CASE other # id
    BY <1>1, <1>5, <2>1, <2>3
  <2> QED BY <2>2, <2>3
<1>8. RoomOK'
  <2>1. CASE OpenFails
    BY <2>1, Widths DEF OpenFails, Done, RoomOK
  <2>2. CASE UpdateFile
    <3>1. found' = loggers.limit[id] /\ Line' = Line
      BY <2>2 DEF UpdateFile, id, Line
    <3>2. found' \in UInt
      BY <1>1, <3>1 DEF LoggerInv, LoggersOK
    <3>3. file'[id].len = r.len /\ Threshold(id) = (found' * Mega) % Width
      BY <1>1, <1>5, <3>1 DEF Threshold
    <3>4. file'[id].len <= (found' * Mega) % Width
      BY <1>4, <3>3
    <3> QED BY <3>1, <3>2, <3>4 DEF RoomOK, id
  <2> QED BY <2>1, <2>2
<1> QED BY <1>6, <1>7, <1>8

(* What a line that is written does to the length of its file. *)
LEMMA FileStep ==
    ASSUME QueueInv, LoggerInv, Write \/ WriteShort
    PROVE  /\ FilesOK' /\ RoomOK'
           /\ \A id \in Logger : file'[id].len > file[id].len =>
                                     file'[id].len <= found * Mega + 1
<1> DEFINE id == Line.id  Files == [open : BOOLEAN, len : UInt]
<1>1. file \in [Logger -> Files] /\ id \in Logger /\ found \in UInt
      /\ file[id].len <= (found * Mega) % Width
  <2>1. writer = "recording"
    BY DEF Write, WriteShort
  <2> QED BY <2>1, LineAtHand DEF LoggerInv, FilesOK, RoomOK
<1>2. PICK n : n = file[id].len + 1
  OBVIOUS
<1>3. n \in UInt /\ n <= found * Mega + 1
  <2>1. PICK t \in Nat : t = (found * Mega) % Width /\ t + 1 < Width /\ t <= found * Mega
    BY <1>1, LengthFits
  <2>2. file[id].len \in Nat /\ Width \in Nat
    BY <1>1, Widths
  <2>3. found * Mega \in Nat
    <3>1. found \in Nat /\ Mega \in Nat
      BY <1>1, Widths
    <3> QED BY <3>1
  <2> HIDE DEF id
  <2> QED BY <1>1, <1>2, <2>1, <2>2, <2>3 DEF UInt
<1> HIDE DEF id
<1>4. PICK q \in Files : file' = [file EXCEPT ![id] = q] /\ q.len = n
  <2>1. CASE Write
    <3>1. file' = [file EXCEPT ![id].len = n]
      BY <1>2, <2>1 DEF Write, id
    <3>2. file[id] \in Files /\ TRUE \in BOOLEAN
      BY <1>1
    <3>3. [file[id] EXCEPT !.len = n] \in Files /\ [file[id] EXCEPT !.len = n].len = n
      BY <1>3, <3>2, FileFields
    <3>4. file' = [file EXCEPT ![id] = [file[id] EXCEPT !.len = n]]
      BY <3>1
    <3> QED BY <3>3, <3>4
  <2>2. CASE WriteShort
    <3>1. file' = [file EXCEPT ![id] = [open |-> FALSE, len |-> @.len + 1]]
      BY <2>2 DEF WriteShort, id
    <3>2. file' = [file EXCEPT ![id] = [open |-> FALSE, len |-> n]]
      BY <1>1, <1>2, <3>1
    <3>3. [open |-> FALSE, len |-> n] \in Files /\ [open |-> FALSE, len |-> n].len = n
      BY <1>3
    <3> QED BY <3>2, <3>3
  <2> QED BY <2>1, <2>2
<1>5. FilesOK'
  BY <1>1, <1>4 DEF FilesOK
<1>6. RoomOK'
  BY Widths DEF Write, WriteShort, Done, RoomOK
<1>7. ASSUME NEW other \in Logger, file'[other].len > file[other].len
      PROVE  file'[other].len <= found * Mega + 1
  <2>1. CASE other = id
    BY <1>1, <1>3, <1>4, <2>1
  <2>2. CASE other # id
    <3>1. file'[other] = file[other] /\ file[other].len \in Nat
      BY <1>1, <1>4, <2>2, Widths
    <3> QED BY <1>7, <3>1
  <2> QED BY <2>1, <2>2
<1> QED BY <1>5, <1>6, <1>7

LEMMA QuitFiles ==
    ASSUME LoggerInv, Quit
    PROVE  FilesOK' /\ RoomOK' /\ \A id \in Logger : file'[id].len = file[id].len
<1>1. file \in [Logger -> [open : BOOLEAN, len : UInt]]
  BY DEF LoggerInv, FilesOK
<1>2. file' = [id \in Logger |-> IF loggers.enable[id] THEN [file[id] EXCEPT !.open = FALSE]
                                 ELSE file[id]]
  BY DEF Quit
<1>3. ASSUME NEW id \in Logger
      PROVE  file'[id] \in [open : BOOLEAN, len : UInt] /\ file'[id].len = file[id].len
  BY <1>1, <1>2
<1>4. RoomOK'
  BY DEF Quit, history, LoggerInv, RoomOK
<1> QED BY <1>2, <1>3, <1>4 DEF FilesOK

LEMMA RestStep ==
    ASSUME QueueInv, LoggerInv, [Next]_vars
    PROVE  RestOK'
<1>1. /\ RestOK /\ \A t \in Thread : line[t] \in Seq(Lines)
      /\ line \in [Thread -> Seq(Lines)]
      /\ MaxStarts \in Nat /\ MaxConfigs \in Nat /\ MaxFailures \in Nat
  BY BoundsAssumption DEF LoggerInv, QueueInv, QueueTypes
<1>2. CASE Start
  <2>1. starts' \in 0 .. MaxStarts
    BY <1>1, <1>2 DEF Start, RestOK
  <2>2. /\ control' = "starting" /\ writer' = "created"
        /\ UNCHANGED <<running, configs, configured, line, failures>>
    BY <1>2 DEF Start, config, callers
  <2> QED BY <1>1, <2>1, <2>2 DEF RestOK
<1>3. CASE StartReturns \/ StopEnds
  <2>1. /\ control' = "idle"
        /\ UNCHANGED <<running, configs, configured, starts, writer, line, failures>>
    BY <1>3 DEF StartReturns, StopEnds, config, callers
  <2> QED BY <1>1, <2>1 DEF RestOK
<1>4. CASE Stop
  <2>1. /\ control' = "stopping" /\ running' = FALSE
        /\ UNCHANGED <<configs, configured, starts, writer, line, failures>>
    BY <1>4 DEF Stop, config, callers
  <2> QED BY <1>1, <2>1 DEF RestOK
<1>5. ASSUME NEW lines \in ConfigFiles,
             \/ Config(lines)
             \/ UpdateConfig(lines)
             \/ \E name \in DOMAIN ParseConfig(lines) :
                    \/ CreateLogger(name, ParseConfig(lines)[name])
                    \/ \E id \in Logger : SetLogger(id, ParseConfig(lines)[name])
      PROVE  RestOK'
  <2>1. /\ Configure
        /\ configured' \in {configured, TRUE}
    BY <1>5 DEF Config, UpdateConfig, CreateLogger, SetLogger
  <2>2. configs' \in 0 .. MaxConfigs
    BY <1>1, <2>1 DEF Configure, RestOK
  <2>3. UNCHANGED <<running, control, starts, writer, line, failures>>
    BY <2>1 DEF Configure, callers
  <2> QED BY <1>1, <2>1, <2>2, <2>3 DEF RestOK
<1>6. ASSUME NEW t \in Thread, \/ \E id \in Logger, n \in PushLevel : PushLog(t, id, n)
                               \/ Enqueue(t)
      PROVE  RestOK'
  <2>1. UNCHANGED <<running, configs, configured, control, starts, writer, failures>>
    BY <1>6 DEF PushLog, Enqueue, config
  <2>2. PICK l : line' = [line EXCEPT ![t] = l] /\ Len(l) <= 1
    <3>1. CASE Enqueue(t)
      <4>1. line' = [line EXCEPT ![t] = <<>>] /\ Len(<<>>) <= 1
        BY <3>1 DEF Enqueue
      <4> QED BY <4>1
    <3>2. ASSUME NEW id \in Logger, NEW n \in PushLevel, PushLog(t, id, n)
          PROVE  \E l : line' = [line EXCEPT ![t] = l] /\ Len(l) <= 1
      <4>1. PICK m : m = [by |-> t, nth |-> pushed[t] + 1, id |-> id, level |-> n]
        OBVIOUS
      <4>2. line' = [line EXCEPT ![t] = <<m>>]
        BY <3>2, <4>1 DEF PushLog
      <4>3. Len(<<m>>) <= 1
        OBVIOUS
      <4> QED BY <4>2, <4>3
    <3> QED BY <1>6, <3>1, <3>2
  <2>3. \A u \in Thread : Len(line'[u]) <= 1
    BY <1>1, <2>2 DEF RestOK
  <2> QED BY <1>1, <2>1, <2>3 DEF RestOK
<1>7. CASE Begin
  <2>1. /\ writer' = "looking" /\ running' = TRUE
        /\ UNCHANGED <<configs, configured, control, starts, line, failures>>
    BY <1>7 DEF Begin, callers
  <2> QED BY <1>1, <2>1 DEF RestOK
<1>8. CASE PopLog \/ PopFails \/ QuitOrSleep \/ Discard \/ UpdateFile \/ Write \/ Quit
  <2>1. /\ writer' \in {"writing", "recording", "idle", "quitting", "looking", "ended"}
        /\ UNCHANGED <<running, configs, configured, control, starts, line, failures>>
    BY <1>8 DEF PopLog, PopFails, QuitOrSleep, Discard, UpdateFile, Write, Quit, Done,
                config, callers
  <2> QED BY <1>1, <2>1 DEF RestOK
<1>9. CASE WriteShort \/ OpenFails
  <2>1. /\ writer' = "looking" /\ Fails
        /\ UNCHANGED <<running, configs, configured, control, starts, line>>
    BY <1>9 DEF WriteShort, OpenFails, Done, config, callers
  <2>2. failures' \in 0 .. MaxFailures
    BY <1>1, <2>1 DEF Fails, RestOK
  <2> QED BY <1>1, <2>1, <2>2 DEF RestOK
<1>10. CASE UNCHANGED vars
  BY <1>1, <1>10 DEF vars, config, callers, RestOK
<1> QED BY <1>2, <1>3, <1>4, <1>5, <1>6, <1>7, <1>8, <1>9, <1>10 DEF Next, WriterStep

(* Only lines and the end of the thread change the files, and only those   *)
(* and the look at a file what is known of the room in it.                 *)
LEMMA FileAlone ==
    ASSUME [Next]_vars
    PROVE  \/ UpdateFile \/ OpenFails \/ Write \/ WriteShort \/ Quit
           \/ /\ UNCHANGED file /\ found' \in {found, 0}
              /\ UNCHANGED <<writer, popped, found>> \/ writer' # "recording"
<1>1. CASE WriterStep
  BY <1>1 DEF WriterStep, Begin, PopLog, PopFails, QuitOrSleep, Discard, Done, history
<1>2. CASE \E t \in Thread : \/ \E id \in Logger, n \in PushLevel : PushLog(t, id, n)
                             \/ Enqueue(t)
  BY <1>2 DEF PushLog, Enqueue, history
<1>3. CASE Start \/ StartReturns \/ Stop \/ StopEnds \/ UNCHANGED vars
  BY <1>3 DEF Start, StartReturns, Stop, StopEnds, vars, history
<1>4. ASSUME NEW lines \in ConfigFiles,
             \/ Config(lines)
             \/ UpdateConfig(lines)
             \/ \E name \in DOMAIN ParseConfig(lines) :
                    \/ CreateLogger(name, ParseConfig(lines)[name])
                    \/ \E id \in Logger : SetLogger(id, ParseConfig(lines)[name])
      PROVE  UNCHANGED <<file, found, writer, popped>>
  <2>1. Configure
    BY <1>4 DEF Config, UpdateConfig, CreateLogger, SetLogger
  <2> QED BY <2>1 DEF Configure, history
<1> QED BY <1>1, <1>2, <1>3, <1>4 DEF Next

LEMMA LoggerStep == QueueInv /\ LoggerInv /\ [Next]_vars => LoggerInv'
<1> SUFFICES ASSUME QueueInv, LoggerInv, [Next]_vars PROVE LoggerInv'
  OBVIOUS
<1>1. RestOK'
  BY RestStep
<1>2. LoggersOK(loggers')
  <2>1. CASE UNCHANGED loggers
    BY <2>1 DEF LoggerInv
  <2>2. UNCHANGED loggers \/ Begin \/ OpenFails \/ Quit
        \/ \E lines \in ConfigFiles :
               \/ Config(lines)
               \/ UpdateConfig(lines)
               \/ \E name \in DOMAIN ParseConfig(lines) :
                      \/ CreateLogger(name, ParseConfig(lines)[name])
                      \/ \E id \in Logger : SetLogger(id, ParseConfig(lines)[name])
    <3>1. CASE WriterStep
      BY <3>1 DEF WriterStep, PopLog, PopFails, QuitOrSleep, Discard, UpdateFile, Write, WriteShort,
                  config
    <3>2. CASE \E t \in Thread : \/ \E id \in Logger, n \in PushLevel : PushLog(t, id, n)
                                 \/ Enqueue(t)
      BY <3>2 DEF PushLog, Enqueue, config
    <3>3. CASE Start \/ StartReturns \/ Stop \/ StopEnds \/ UNCHANGED vars
      BY <3>3 DEF Start, StartReturns, Stop, StopEnds, vars, config
    <3> QED BY <3>1, <3>2, <3>3 DEF Next
  <2> QED BY <2>1, <2>2, ConfigLoggers, WriterLoggers
<1>3. FilesOK' /\ RoomOK'
  <2>1. CASE UNCHANGED file /\ found' \in {found, 0}
             /\ (UNCHANGED <<writer, popped, found>> \/ writer' # "recording")
    <3>1. FilesOK'
      BY <2>1 DEF LoggerInv, FilesOK
    <3>2. found' \in UInt
      BY <2>1, Widths DEF LoggerInv, RoomOK
    <3>3. ASSUME writer' = "recording"
          PROVE  file'[Line'.id].len <= (found' * Mega) % Width
      <4>1. UNCHANGED <<writer, popped, found, file>>
        BY <2>1, <3>3
      <4> QED BY <3>3, <4>1 DEF LoggerInv, RoomOK, Line
    <3> QED BY <3>1, <3>2, <3>3 DEF RoomOK
  <2> QED BY <2>1, FileAlone, LookStep, FileStep, QuitFiles
<1> QED BY <1>1, <1>2, <1>3 DEF LoggerInv

LEMMA InitInvs == Init => QueueInv /\ OrderInv /\ LoggerInv
BY InitQueue, InitOrder, InitLoggers

LEMMA StepInvs ==
    QueueInv /\ OrderInv /\ LoggerInv /\ [Next]_vars => (QueueInv /\ OrderInv /\ LoggerInv)'
BY QueueStep, OrderStep, LoggerStep

(* Every variable of the logger keeps its type: among others, no logger is *)
(* given a place behind the last of m_loggers, and the length of a file,   *)
(* an unsigned int, does not overflow.                                     *)
THEOREM LoggerTypesHold == Spec => []TypeOK
<1>1. QueueInv /\ OrderInv /\ LoggerInv => TypeOK
  <2> SUFFICES ASSUME QueueInv, OrderInv, LoggerInv PROVE TypeOK
    OBVIOUS
  <2>1. /\ DOMAIN loggers.ids \subseteq ToSet(NameOrder) /\ loggers.lastid \in Logger
        /\ loggers.enable \in [Logger -> BOOLEAN]
        /\ loggers.level \in [Logger -> 0 .. 5]
        /\ loggers.limit \in [Logger -> UInt]
    BY DEF LoggerInv, LoggersOK
  <2>2. popped \in Seq(Lines) /\ Len(popped) <= 1
    <3>1. popped \in Seq(Lines) /\ (popped = <<>> \/ popped = <<popped[1]>>)
      BY DEF QueueInv, QueueTypes
    <3>2. Len(<<>>) <= 1 /\ \A l : Len(<<l>>) <= 1
      OBVIOUS
    <3>3. CASE popped = <<>>
      BY <3>1, <3>2, <3>3
    <3>4. CASE popped = <<popped[1]>>
      <4>1. PICK l : popped = <<l>>
        BY <3>4
      <4> QED BY <3>1, <3>2, <4>1
    <3> QED BY <3>1, <3>3, <3>4
  <2>3. /\ logs \in Seq(Lines) /\ pushed \in [Thread -> Nat]
        /\ line \in [Thread -> Seq(Lines)] /\ \A t \in Thread : Len(line[t]) <= 1
    BY DEF QueueInv, QueueTypes, LoggerInv, RestOK
  <2>4. accepted \subseteq (Thread \cup {Writer}) \X Nat
    <3>1. Waiting \in Seq(Lines) /\ Gone \subseteq Pusher \X Nat
      BY DEF OrderInv, Ordered
    <3>2. \A i \in DOMAIN Waiting : Name(Waiting[i]) \in Pusher \X Nat
      <4>1. \A i \in DOMAIN Waiting : Waiting[i] \in Lines
        BY <3>1, LenProperties
      <4> QED BY <4>1 DEF Name, Lines, Pusher
    <3>3. Names(Waiting) \subseteq Pusher \X Nat
      BY <3>2 DEF Names
    <3> QED BY <3>1, <3>3 DEF OrderInv, Pusher
  <2>5. before \subseteq accepted /\ written \cup dropped \subseteq accepted
    BY DEF QueueInv, Flushed, OrderInv, Gone
  <2>6. file \in [Logger -> [open : BOOLEAN, len : UInt]]
    BY DEF LoggerInv, FilesOK
  <2>7. RestOK /\ found \in UInt
    BY DEF LoggerInv, RoomOK
  <2> QED BY <2>1, <2>2, <2>3, <2>4, <2>5, <2>6, <2>7 DEF TypeOK, RestOK
<1> QED BY <1>1, InitInvs, StepInvs, PTL DEF Spec

(* Loggers never share a place, the places are used without a gap, and     *)
(* only one with a logger is enabled, whatever CreateLogger, Config and    *)
(* the setters are called with and in which order.                         *)
THEOREM IdsAlwaysSound == Spec => []IdsSound
<1>1. LoggerInv => IdsSound
  <2> SUFFICES ASSUME LoggersOK(loggers) PROVE IdsSound
    BY DEF LoggerInv
  <2>1. /\ loggers.lastid \in Logger /\ Logger \subseteq Nat
        /\ loggers.ids \in [DOMAIN loggers.ids -> Logger]
        /\ \A id \in Logger : id <= loggers.lastid <=>
                                  \E n \in DOMAIN loggers.ids : loggers.ids[n] = id
    BY DEF LoggersOK, Logger
  <2>2. \A id : id \in Logger /\ id <= loggers.lastid <=> id \in 0 .. loggers.lastid
    BY <2>1 DEF Logger
  <2>3. {loggers.ids[n] : n \in DOMAIN loggers.ids} = 0 .. loggers.lastid
    <3>1. ASSUME NEW n \in DOMAIN loggers.ids PROVE loggers.ids[n] \in 0 .. loggers.lastid
      <4>1. loggers.ids[n] \in Logger
        BY <2>1
      <4>2. loggers.ids[n] <= loggers.lastid
        BY <2>1, <4>1
      <4> QED BY <2>2, <4>1, <4>2
    <3>2. ASSUME NEW id \in 0 .. loggers.lastid
          PROVE  \E n \in DOMAIN loggers.ids : loggers.ids[n] = id
      BY <2>1, <2>2
    <3> QED BY <3>1, <3>2
  <2>4. DOMAIN loggers.enable = Logger
    BY DEF LoggersOK
  <2> QED BY <2>3, <2>4 DEF LoggersOK, IdsSound
<1> QED BY <1>1, InitInvs, StepInvs, PTL DEF Spec

(* No line makes a file longer than its limit and this line, where the    *)
(* limit is that of the moment when the logger's thread looked at the file *)
(* for this line: it may be changed at any time, also between that look    *)
(* and the write, and be more bytes than an unsigned int can say.          *)
THEOREM LimitsAlwaysKept == Spec => LimitKept
<1>1. QueueInv /\ LoggerInv /\ [Next]_vars =>
          [\A id \in Logger :
              file'[id].len > file[id].len => file'[id].len <= found * Mega + 1]_vars
  <2> SUFFICES ASSUME QueueInv, LoggerInv, [Next]_vars,
                      NEW id \in Logger, file'[id].len > file[id].len
               PROVE  file'[id].len <= found * Mega + 1
    OBVIOUS
  <2>1. file[id].len \in Nat
    BY Widths DEF LoggerInv, FilesOK
  <2>2. CASE UNCHANGED file
    BY <2>1, <2>2
  <2>3. CASE Quit
    BY <2>1, <2>3, QuitFiles
  <2>4. CASE UpdateFile \/ OpenFails
    BY <2>4, LookStep
  <2> QED BY <2>2, <2>3, <2>4, FileAlone, FileStep
<1> QED BY <1>1, InitInvs, StepInvs, PTL DEF Spec, LimitKept

(* What ParseConfig makes of a file is what the file means, but for the    *)
(* lines AsRead names, however its sections and attributes are ordered and *)
(* repeated.                                                               *)
THEOREM ConfigsAlwaysMeant == Spec => []ParseSound
<1>1. ParseMeans
  <2> SUFFICES ASSUME NEW lines \in BoundedSeq(FileLine, MaxLines)
               PROVE  ParseConfig(lines) = Meaning([i \in DOMAIN lines |-> AsRead(lines[i])])
    BY DEF ParseMeans
  <2>1. PICK n \in 0 .. MaxLines : lines \in [1 .. n -> FileLine]
    BY DEF BoundedSeq, SeqOf
  <2>2. lines \in Seq(FileLine)
    BY <2>1
  <2> QED BY <2>2, ConfigGives, ReadMeans DEF File
<1> QED BY <1>1, PTL DEF ParseSound

-----------------------------------------------------------------------------
(* The text of a line: what LogText says of any buffers and texts.         *)

HIDE LoggerAssumption
HIDE LevelAssumption
HIDE WidthAssumption
HIDE LinesAssumption
HIDE FilesAssumption
USE SizeAssumption

Bytes == Char \cup {Nul}

LEMMA BufferIsSeq ==
    ASSUME NEW buf \in Buffers
    PROVE  buf \in Seq(Bytes) /\ Len(buf) = Size /\ DOMAIN buf = 1 .. Size
BY DEF Buffers, Bytes

LEMMA PutFits ==
    ASSUME NEW buf \in Buffers, NEW s \in Seq(Bytes), NEW i \in Nat \ {0}, i + Len(s) - 1 <= Size
    PROVE  /\ Put(buf, i, s) \in Buffers
           /\ \A k \in 1 .. Size : Put(buf, i, s)[k] = IF k \in i .. i + Len(s) - 1
                                                        THEN s[k - i + 1] ELSE buf[k]
<1>1. /\ buf \in Seq(Bytes) /\ Len(buf) = Size /\ Len(s) \in Nat
      /\ \A k \in 1 .. Len(s) : s[k] \in Bytes
      /\ \A k \in 1 .. Size : buf[k] \in Bytes
  BY BufferIsSeq, LenProperties, ElementOfSeq DEF Buffers, Bytes
<1>2. Greater(Len(buf), i + Len(s) - 1) = Size
  BY <1>1 DEF Greater
<1>3. Put(buf, i, s) = [k \in 1 .. Size |-> IF k \in i .. i + Len(s) - 1
                                            THEN s[k - i + 1] ELSE buf[k]]
  BY <1>2 DEF Put
<1>4. ASSUME NEW k \in 1 .. Size, k \in i .. i + Len(s) - 1 PROVE s[k - i + 1] \in Bytes
  <2>1. k - i + 1 \in 1 .. Len(s)
    BY <1>1, <1>4
  <2> QED BY <1>1, <2>1
<1>5. \A k \in 1 .. Size : (IF k \in i .. i + Len(s) - 1 THEN s[k - i + 1] ELSE buf[k]) \in Bytes
  BY <1>1, <1>4
<1>6. Put(buf, i, s) \in [1 .. Size -> Bytes]
  BY <1>3, <1>5
<1> QED BY <1>3, <1>6 DEF Buffers, Bytes

(* Where the first Nul is. *)
LEMMA FirstNul ==
    ASSUME NEW buf, NEW len \in Nat, DOMAIN buf \subseteq Nat \ {0}, len + 1 \in DOMAIN buf,
           buf[len + 1] = Nul, \A k \in 1 .. len : buf[k] # Nul
    PROVE  Strlen(buf) = len /\ Ends(buf) # {}
<1>1. len + 1 \in Ends(buf) /\ Ends(buf) \subseteq Nat \ {0}
  BY DEF Ends
<1>2. \A j \in Ends(buf) : len + 1 <= j
  <2> SUFFICES ASSUME NEW j \in Ends(buf), ~(len + 1 <= j) PROVE FALSE
    OBVIOUS
  <2>1. j \in 1 .. len /\ buf[j] = Nul
    BY <1>1 DEF Ends
  <2> QED BY <2>1
<1>3. PICK e : e = CHOOSE i \in Ends(buf) : \A j \in Ends(buf) : i <= j
  OBVIOUS
<1>4. e \in Ends(buf) /\ \A j \in Ends(buf) : e <= j
  BY <1>1, <1>2, <1>3
<1>5. e = len + 1
  BY <1>1, <1>2, <1>4
<1>6. Strlen(buf) = e - 1
  BY <1>3 DEF Strlen
<1> QED BY <1>1, <1>5, <1>6

(* A buffer holds the text that it begins with. *)
LEMMA HoldsText ==
    ASSUME NEW buf \in Buffers, NEW text \in Seq(Char),
           NEW len, len = Lesser(Len(text), Size - 1),
           \A k \in 1 .. len : buf[k] = text[k], buf[len + 1] = Nul
    PROVE  Holds(buf, text)
<1>1. /\ buf \in Seq(Bytes) /\ Len(buf) = Size /\ DOMAIN buf = 1 .. Size
      /\ Len(text) \in Nat /\ \A k \in 1 .. Len(text) : text[k] \in Char
  BY BufferIsSeq, LenProperties, ElementOfSeq
<1>2. len \in Nat /\ len <= Len(text) /\ len + 1 <= Size
  BY <1>1 DEF Lesser
<1>3. \A k \in 1 .. len : buf[k] # Nul
  BY <1>1, <1>2
<1>4. Strlen(buf) = len /\ Ends(buf) # {}
  BY <1>1, <1>2, <1>3, FirstNul
<1>5. SubSeq(buf, 1, len) = SubSeq(text, 1, len)
  <2>1. /\ SubSeq(buf, 1, len) \in Seq(Bytes) /\ Len(SubSeq(buf, 1, len)) = len
        /\ \A k \in 1 .. len : SubSeq(buf, 1, len)[k] = buf[k]
    BY <1>1, <1>2, SubSeqProperties
  <2>2. /\ SubSeq(text, 1, len) \in Seq(Char) /\ Len(SubSeq(text, 1, len)) = len
        /\ \A k \in 1 .. len : SubSeq(text, 1, len)[k] = text[k]
    BY <1>1, <1>2, SubSeqProperties
  <2>3. SubSeq(text, 1, len) \in Seq(Bytes)
    BY <2>2 DEF Bytes
  <2> QED BY <1>2, <2>1, <2>2, <2>3, SeqEqual
<1> QED BY <1>1, <1>4, <1>5 DEF Holds, Text
(* What the buffer and the place in it are once text has been put in. *)
Written(s, text) ==
    LET kept == Lesser(Len(text), Size - 1) IN
    /\ s \in [buf : Buffers, cur : 1 .. Size + 1]
    /\ s.cur = IF Len(text) < Size THEN Len(text) + 1 ELSE Size + 1
    /\ \A k \in 1 .. kept : s.buf[k] = text[k]
    /\ s.cur = Size + 1 => s.buf[Size] = Nul

EndsThere(s, text) == s.buf[Lesser(Len(text), Size - 1) + 1] = Nul

(* What snprintf writes: m characters of a text and a Nul. *)
CString(text, m) == Append(SubSeq(text, 1, m), Nul)

LEMMA Fitting ==
    ASSUME NEW text \in Seq(Char), NEW m \in 0 .. Len(text), NEW t, t = CString(text, m)
    PROVE  /\ t \in Seq(Bytes) /\ Len(t) = m + 1 /\ t[m + 1] = Nul
           /\ \A k \in 1 .. m : t[k] = text[k]
<1>1. Len(text) \in Nat
  BY LenProperties
<1>2. PICK u : u = SubSeq(text, 1, m)
  OBVIOUS
<1>3. u \in Seq(Char) /\ Len(u) = m /\ \A k \in 1 .. m : u[k] = text[k]
  BY <1>1, <1>2, SubSeqProperties
<1>4. u \in Seq(Bytes) /\ Nul \in Bytes
  BY <1>3 DEF Bytes
<1>5. t = Append(u, Nul)
  BY <1>2 DEF CString
<1> QED BY <1>1, <1>3, <1>4, <1>5, AppendProperties

Fitted(s, text, new, count, m) ==
    /\ new \in [buf : Buffers, cur : 1 .. Size + 1]
    /\ new.cur = IF Len(text) >= count THEN Size + 1 ELSE s.cur + Len(text)
    /\ \A k \in 1 .. s.cur - 1 : new.buf[k] = s.buf[k]
    /\ \A k \in 1 .. m : new.buf[s.cur + k - 1] = text[k]
    /\ s.cur + m \in 1 .. Size /\ new.buf[s.cur + m] = Nul

LEMMA SnprintfFits ==
    ASSUME NEW s \in [buf : Buffers, cur : 1 .. Size + 1], NEW text \in Seq(Char),
           NEW count, count = Size - s.cur + 1, count # 0
    PROVE  Fitted(s, text, WriteData(s, text), count, Lesser(Len(text), count - 1))
<1>m. PICK m : m = Lesser(Len(text), count - 1)
  OBVIOUS
<1>n. PICK new : new = WriteData(s, text)
  OBVIOUS
<1>1. Len(text) \in Nat /\ s.cur \in 1 .. Size /\ count \in 1 .. Size /\ s.buf \in Buffers
  BY LenProperties
<1>2. m \in 0 .. Len(text) /\ m <= count - 1 /\ s.cur + m \in 1 .. Size
  BY <1>1, <1>m DEF Lesser
<1>3. PICK t : t = CString(text, m)
  OBVIOUS
<1>4. /\ t \in Seq(Bytes) /\ Len(t) = m + 1 /\ t[m + 1] = Nul
      /\ \A k \in 1 .. m : t[k] = text[k]
  <2>1. text \in Seq(Char) /\ m \in 0 .. Len(text)
    BY <1>2
  <2>2. \A tt : tt = CString(text, m) => /\ tt \in Seq(Bytes) /\ Len(tt) = m + 1 /\ tt[m + 1] = Nul
      /\ \A k \in 1 .. m : tt[k] = text[k]
    BY ONLY <2>1, Fitting, SizeAssumption
  <2> QED BY <1>3, <2>2
<1>5. PICK buf : buf = Put(s.buf, s.cur, t)
  OBVIOUS
<1>6. s.cur \in Nat \ {0} /\ s.cur + Len(t) - 1 <= Size
  BY <1>1, <1>2, <1>4
<1>7. /\ buf \in Buffers
      /\ \A k \in 1 .. Size : buf[k] = IF k \in s.cur .. s.cur + m THEN t[k - s.cur + 1]
                                       ELSE s.buf[k]
  <2>1. s.cur + Len(t) - 1 = s.cur + m
    BY <1>1, <1>2, <1>4
  <2> HIDE <1>3
  <2>2. /\ Put(s.buf, s.cur, t) \in Buffers
        /\ \A k \in 1 .. Size : Put(s.buf, s.cur, t)[k] =
               IF k \in s.cur .. s.cur + Len(t) - 1 THEN t[k - s.cur + 1] ELSE s.buf[k]
    BY SMTT(30), <1>1, <1>4, <1>6, PutFits
  <2> QED BY <1>5, <2>1, <2>2
<1>8. Snprintf(s.buf, s.cur, count, text) = buf
  BY <1>3, <1>5, <1>m DEF Snprintf, CString
<1>9. new = [buf |-> buf,
             cur |-> IF Len(text) >= count THEN Size + 1 ELSE s.cur + Len(text)]
  BY <1>8, <1>n DEF WriteData
<1>10. /\ new.buf = buf
       /\ new.cur = IF Len(text) >= count THEN Size + 1 ELSE s.cur + Len(text)
  BY <1>9
<1>11. new.cur \in 1 .. Size + 1
  BY <1>1, <1>10
<1>12. new \in [buf : Buffers, cur : 1 .. Size + 1]
  BY <1>7, <1>9, <1>10, <1>11
<1>13. \A k \in 1 .. s.cur - 1 : buf[k] = s.buf[k]
  BY <1>1, <1>7
<1>14. ASSUME NEW k \in 1 .. m PROVE buf[s.cur + k - 1] = text[k]
  <2>1. /\ s.cur + k - 1 \in 1 .. Size /\ s.cur + k - 1 \in s.cur .. s.cur + m
        /\ (s.cur + k - 1) - s.cur + 1 = k
    BY SMTT(30), <1>1, <1>2
  <2> QED BY <1>4, <1>7, <2>1
<1>15. buf[s.cur + m] = Nul
  <2>1. /\ s.cur + m \in s.cur .. s.cur + m
        /\ (s.cur + m) - s.cur + 1 = m + 1
    BY <1>1, <1>2
  <2> QED BY <1>2, <1>4, <1>7, <2>1
<1>16. Fitted(s, text, new, count, m)
  BY <1>2, <1>10, <1>12, <1>13, <1>14, <1>15 DEF Fitted
<1> QED BY <1>16, <1>m, <1>n

(* WriteData puts a piece behind the text, as much of it as there is room. *)
LEMMA PieceWritten ==
    ASSUME NEW s, NEW text \in Seq(Char), NEW piece \in Seq(Char), Written(s, text)
    PROVE  /\ Written(WriteData(s, piece), text \o piece)
           /\ EndsThere(WriteData(s, piece), text \o piece)
<1>0. PICK count : count = Size - s.cur + 1
  OBVIOUS
<1>1. PICK all : all = text \o piece
  OBVIOUS
<1>2. PICK new : new = WriteData(s, piece)
  OBVIOUS
<1>3. Len(text) \in Nat /\ Len(piece) \in Nat
  BY LenProperties
<1>4. /\ all \in Seq(Char) /\ Len(all) = Len(text) + Len(piece)
      /\ \A k \in 1 .. Len(text) + Len(piece) :
             all[k] = IF k <= Len(text) THEN text[k] ELSE piece[k - Len(text)]
  BY <1>1, ConcatProperties
<1>5. /\ s \in [buf : Buffers, cur : 1 .. Size + 1]
      /\ s.cur = IF Len(text) < Size THEN Len(text) + 1 ELSE Size + 1
      /\ \A k \in 1 .. Lesser(Len(text), Size - 1) : s.buf[k] = text[k]
      /\ s.cur = Size + 1 => s.buf[Size] = Nul
  BY DEF Written
<1> HIDE <1>0, <1>1, <1>2
<1>6. CASE count = 0
  <2>1. new = s
    BY <1>0, <1>2, <1>6 DEF WriteData
  <2>2. s.cur = Size + 1 /\ ~(Len(text) < Size) /\ ~(Len(all) < Size)
    BY <1>0, <1>3, <1>4, <1>5, <1>6
  <2>3. Lesser(Len(text), Size - 1) = Size - 1 /\ Lesser(Len(all), Size - 1) = Size - 1
    BY <1>3, <1>4, <2>2 DEF Lesser
  <2>4. \A k \in 1 .. Size - 1 : s.buf[k] = all[k]
    <3> SUFFICES ASSUME NEW k \in 1 .. Size - 1 PROVE s.buf[k] = all[k]
      OBVIOUS
    <3>1. k \in 1 .. Len(text) /\ k \in 1 .. Len(text) + Len(piece)
      BY <1>3, <2>2
    <3>2. all[k] = text[k]
      BY <1>4, <3>1
    <3>3. s.buf[k] = text[k]
      BY <1>5, <2>3
    <3> QED BY <3>2, <3>3
  <2>5. Size - 1 + 1 = Size
    OBVIOUS
  <2>6. Written(s, all)
    BY <1>5, <2>2, <2>3, <2>4 DEF Written
  <2>7. EndsThere(s, all)
    BY <1>5, <2>2, <2>3, <2>5 DEF EndsThere
  <2> QED BY <1>1, <1>2, <2>1, <2>6, <2>7
<1>7. CASE count # 0
  <2>1. PICK m : m = Lesser(Len(piece), count - 1)
    OBVIOUS
  <2>2. Len(text) < Size /\ s.cur = Len(text) + 1 /\ count = Size - Len(text)
    BY <1>0, <1>3, <1>5, <1>7
  <2>3. /\ new \in [buf : Buffers, cur : 1 .. Size + 1]
        /\ new.cur = IF Len(piece) >= count THEN Size + 1 ELSE s.cur + Len(piece)
        /\ \A k \in 1 .. s.cur - 1 : new.buf[k] = s.buf[k]
        /\ \A k \in 1 .. m : new.buf[s.cur + k - 1] = piece[k]
        /\ s.cur + m \in 1 .. Size /\ new.buf[s.cur + m] = Nul
    <3>1. s \in [buf : Buffers, cur : 1 .. Size + 1] /\ Size - s.cur + 1 # 0
      BY <1>0, <1>5, <1>7
    <3>2. Fitted(s, piece, WriteData(s, piece), count, Lesser(Len(piece), count - 1))
      BY <1>0, <1>7, <3>1, SnprintfFits
    <3> QED BY <1>2, <2>1, <3>2 DEF Fitted
  <2> HIDE <2>1
  <2>4. m \in 0 .. Len(piece) /\ Lesser(Len(all), Size - 1) = Len(text) + m
    BY <1>3, <1>4, <2>1, <2>2 DEF Lesser
  <2>5. new.cur = IF Len(all) < Size THEN Len(all) + 1 ELSE Size + 1
    BY <1>3, <1>4, <2>2, <2>3
  <2>6. ASSUME NEW k \in 1 .. Len(text) + m PROVE new.buf[k] = all[k]
    <3>1. CASE k <= Len(text)
      <4>1. k \in 1 .. s.cur - 1 /\ k \in 1 .. Lesser(Len(text), Size - 1)
        BY <1>3, <2>2, <3>1 DEF Lesser
      <4>2. all[k] = text[k]
        BY <1>3, <1>4, <2>4, <3>1
      <4> QED BY <1>5, <2>3, <4>1, <4>2
    <3>2. CASE ~(k <= Len(text))
      <4>1. k - Len(text) \in 1 .. m /\ s.cur + (k - Len(text)) - 1 = k
        BY <1>3, <2>2, <2>4, <3>2
      <4>2. all[k] = piece[k - Len(text)]
        BY <1>3, <1>4, <2>4, <3>2
      <4> QED BY <2>3, <4>1, <4>2
    <3> QED BY <3>1, <3>2
  <2>7. new.buf[Len(text) + m + 1] = Nul
    <3>1. s.cur + m = Len(text) + m + 1
      BY <1>3, <2>2, <2>4
    <3> QED BY <2>3, <3>1
  <2>8. new.cur = Size + 1 => new.buf[Size] = Nul
    <3> SUFFICES ASSUME new.cur = Size + 1 PROVE Len(text) + m + 1 = Size
      BY <2>7
    <3> QED BY <1>3, <1>4, <2>4, <2>5 DEF Lesser
  <2>9. Written(new, all)
    BY <2>3, <2>4, <2>5, <2>6, <2>8 DEF Written
  <2>10. EndsThere(new, all)
    BY <2>4, <2>7 DEF EndsThere
  <2> QED BY <1>1, <1>2, <2>9, <2>10
<1> QED BY <1>6, <1>7
Stream == [buf : Buffers, cur : 1 .. Size + 1]

LEMMA WriteDataType ==
    ASSUME NEW s \in Stream, NEW piece \in Seq(Char)
    PROVE  WriteData(s, piece) \in Stream
<1>1. s \in [buf : Buffers, cur : 1 .. Size + 1]
  BY DEF Stream
<1>2. CASE Size - s.cur + 1 = 0
  BY <1>2 DEF WriteData
<1>3. CASE Size - s.cur + 1 # 0
  <2>1. PICK count : count = Size - s.cur + 1
    OBVIOUS
  <2>2. Fitted(s, piece, WriteData(s, piece), count, Lesser(Len(piece), count - 1))
    BY <1>1, <1>3, <2>1, SnprintfFits
  <2> QED BY <2>2 DEF Fitted, Stream
<1> QED BY <1>2, <1>3

(* The text so far, and what LOG_STREAM has made of it. *)
LEMMA StreamRuns ==
    ASSUME NEW old \in Buffers, NEW pieces \in Seq(Seq(Char))
    PROVE  \E f \in [0 .. Len(pieces) -> Stream] :
               /\ f[0] = [buf |-> old, cur |-> 1]
               /\ \A n \in 1 .. Len(pieces) : f[n] = WriteData(f[n - 1], pieces[n])
               /\ LogStream(old, pieces) = f[Len(pieces)].buf
<1> DEFINE N == Len(pieces)
           base == [buf |-> old, cur |-> 1]
           Follows(f) == f = [n \in 0 .. N |->
                                  IF n = 0 THEN base ELSE WriteData(f[n - 1], pieces[n])]
           after == CHOOSE f : Follows(f)
           step == [x \in (1 .. N) \X Stream |-> WriteData(x[2], pieces[x[1]])]
<1>1. N \in Nat /\ \A n \in 1 .. N : pieces[n] \in Seq(Char)
  BY LenProperties, ElementOfSeq
<1>2. base \in Stream
  BY DEF Stream
<1>3. LogStream(old, pieces) = after[N].buf
  BY DEF LogStream
<1>4. step \in [(1 .. N) \X Stream -> Stream]
  <2> SUFFICES ASSUME NEW x \in (1 .. N) \X Stream PROVE WriteData(x[2], pieces[x[1]]) \in Stream
    OBVIOUS
  <2>1. x[2] \in Stream /\ pieces[x[1]] \in Seq(Char)
    BY <1>1
  <2> QED BY <2>1, WriteDataType
<1>5. \A n \in 1 .. N, s \in Stream : step[<<n, s>>] = WriteData(s, pieces[n])
  OBVIOUS
<1> HIDE DEF step, base
<1>6. PICK f \in [0 .. N -> Stream] : f[0] = base /\ \A n \in 1 .. N : f[n] = step[<<n, f[n - 1]>>]
  <2> HIDE DEF N
  <2>1. N \in Nat
    BY <1>1
  <2>2. IsStep(Stream, N, step)
    BY <1>4 DEF IsStep
  <2>3. Unfolds(Stream, N, base, step)
    BY ONLY <2>1, <2>2, <1>2, Recursion
  <2> QED BY <2>3 DEF Unfolds
<1>7. \A n \in 1 .. N : f[n - 1] \in Stream /\ f[n] = WriteData(f[n - 1], pieces[n])
  <2> SUFFICES ASSUME NEW n \in 1 .. N
               PROVE  f[n - 1] \in Stream /\ f[n] = WriteData(f[n - 1], pieces[n])
    OBVIOUS
  <2>1. n - 1 \in 0 .. N
    BY <1>1
  <2>2. f[n - 1] \in Stream
    BY <2>1
  <2> QED BY <1>5, <1>6, <2>2
<1>8. Follows(f)
  <2>1. f = [n \in 0 .. N |-> f[n]]
    OBVIOUS
  <2>2. \A n \in 0 .. N : f[n] = IF n = 0 THEN base ELSE WriteData(f[n - 1], pieces[n])
    BY <1>1, <1>6, <1>7
  <2> QED BY Zenon, <2>1, <2>2
<1>9. Follows(after)
  BY <1>8
<1> HIDE DEF after, N
<1>10. \A n \in 0 .. N : after[n] = IF n = 0 THEN base ELSE WriteData(after[n - 1], pieces[n])
  BY Zenon, <1>9
<1>11. 0 .. N \subseteq {n \in Nat : n <= N => after[n] = f[n]}
  <2> DEFINE T == {n \in Nat : n <= N => after[n] = f[n]}
  <2>1. 0 \in T
    BY <1>1, <1>6, <1>10
  <2>2. ASSUME NEW n \in Nat, n \in T PROVE n + 1 \in T
    <3> SUFFICES ASSUME n + 1 <= N PROVE after[n + 1] = f[n + 1]
      OBVIOUS
    <3>1. n + 1 \in 1 .. N /\ n + 1 \in 0 .. N /\ n + 1 # 0 /\ (n + 1) - 1 = n /\ after[n] = f[n]
      BY <1>1, <2>2
    <3> QED BY <1>7, <1>10, <3>1
  <2> HIDE DEF T
  <2>3. Nat \subseteq T
    BY <2>1, <2>2, Induction
  <2> QED BY <1>1, <2>3 DEF T
<1>12. N \in 0 .. N /\ N <= N
  BY <1>1
<1>13. after[N] = f[N]
  BY <1>11, <1>12
<1> QED BY <1>3, <1>6, <1>7, <1>13 DEF N, base

LEMMA TextsRun ==
    ASSUME NEW pieces \in Seq(Seq(Char)), pieces # <<>>
    PROVE  \E g \in [0 .. Len(pieces) -> Seq(Char)] :
               /\ g[0] = <<>>
               /\ \A n \in 1 .. Len(pieces) : g[n] = g[n - 1] \o pieces[n]
               /\ FlattenSeq(pieces) = g[Len(pieces)]
<1> DEFINE N == Len(pieces)
           Follows(f) == f = [i \in 1 .. N |-> IF i = 1 THEN pieces[i] ELSE f[i - 1] \o pieces[i]]
           flatten == CHOOSE f : Follows(f)
           step == [x \in (1 .. N) \X Seq(Char) |-> x[2] \o pieces[x[1]]]
<1>1. N \in Nat /\ \A n \in 1 .. N : pieces[n] \in Seq(Char)
  BY LenProperties, ElementOfSeq
<1>2. N # 0
  BY EmptySeq
<1>3. FlattenSeq(pieces) = flatten[N]
  BY <1>2 DEF FlattenSeq
<1>4. \A u, v \in Seq(Char) : u \o v \in Seq(Char)
  BY ConcatProperties
<1>5. \A u \in Seq(Char) : <<>> \o u = u
  BY ConcatEmptySeq
<1>6. step \in [(1 .. N) \X Seq(Char) -> Seq(Char)]
  <2> SUFFICES ASSUME NEW x \in (1 .. N) \X Seq(Char) PROVE x[2] \o pieces[x[1]] \in Seq(Char)
    OBVIOUS
  <2>1. x[2] \in Seq(Char) /\ pieces[x[1]] \in Seq(Char)
    BY <1>1
  <2> QED BY <1>4, <2>1
<1>7. \A n \in 1 .. N, s \in Seq(Char) : step[<<n, s>>] = s \o pieces[n]
  OBVIOUS
<1>8. <<>> \in Seq(Char)
  OBVIOUS
<1> HIDE DEF step
<1>9. PICK g \in [0 .. N -> Seq(Char)] :
          g[0] = <<>> /\ \A n \in 1 .. N : g[n] = step[<<n, g[n - 1]>>]
  <2> HIDE DEF N
  <2>1. N \in Nat
    BY <1>1
  <2>2. IsStep(Seq(Char), N, step)
    BY <1>6 DEF IsStep
  <2>3. Unfolds(Seq(Char), N, <<>>, step)
    BY ONLY <2>1, <2>2, <1>8, Recursion
  <2> QED BY <2>3 DEF Unfolds
<1>10. \A n \in 1 .. N : g[n - 1] \in Seq(Char) /\ g[n] = g[n - 1] \o pieces[n]
  <2> SUFFICES ASSUME NEW n \in 1 .. N
               PROVE  g[n - 1] \in Seq(Char) /\ g[n] = g[n - 1] \o pieces[n]
    OBVIOUS
  <2>1. n - 1 \in 0 .. N
    BY <1>1
  <2>2. g[n - 1] \in Seq(Char)
    BY <2>1
  <2> QED BY <1>7, <1>9, <2>2
<1>11. N \in 1 .. N /\ 1 \in 1 .. N
  BY <1>1, <1>2
<1>12. g[1] = pieces[1]
  <2>1. 1 - 1 = 0 /\ pieces[1] \in Seq(Char)
    BY <1>1, <1>11
  <2>2. g[1] = g[1 - 1] \o pieces[1]
    BY <1>10, <1>11
  <2>3. g[1] = <<>> \o pieces[1]
    BY Zenon, <1>9, <2>1, <2>2
  <2> QED BY <1>5, <2>1, <2>3
<1> DEFINE h == [i \in 1 .. N |-> g[i]]
<1>13. Follows(h)
  <2>1. \A i \in 1 .. N : h[i] = g[i] /\ (i # 1 => i - 1 \in 1 .. N /\ h[i - 1] = g[i - 1])
    BY <1>1
  <2>2. h = [i \in 1 .. N |-> h[i]]
    OBVIOUS
  <2> HIDE DEF h
  <2>3. ASSUME NEW i \in 1 .. N PROVE h[i] = IF i = 1 THEN pieces[i] ELSE h[i - 1] \o pieces[i]
    <3>1. CASE i = 1
      BY <1>12, <2>1, <3>1
    <3>2. CASE i # 1
      BY <1>10, <2>1, <3>2
    <3> QED BY <3>1, <3>2
  <2> QED BY Zenon, <2>2, <2>3
<1>14. Follows(flatten)
  BY <1>13
<1> HIDE DEF flatten, N, h
<1>15. \A i \in 1 .. N : flatten[i] = IF i = 1 THEN pieces[i] ELSE flatten[i - 1] \o pieces[i]
  BY Zenon, <1>14
<1>16. 0 .. N \subseteq {n \in Nat : n \in 1 .. N => flatten[n] = g[n]}
  <2> DEFINE T == {n \in Nat : n \in 1 .. N => flatten[n] = g[n]}
  <2>1. 0 \in T
    OBVIOUS
  <2>2. ASSUME NEW n \in Nat, n \in T PROVE n + 1 \in T
    <3> SUFFICES ASSUME n + 1 \in 1 .. N PROVE flatten[n + 1] = g[n + 1]
      OBVIOUS
    <3>1. (n + 1) - 1 = n
      OBVIOUS
    <3>2. CASE n = 0
      <4>1. n + 1 = 1
        BY <3>2
      <4> QED BY <1>11, <1>12, <1>15, <4>1
    <3>3. CASE n # 0
      <4>1. n + 1 # 1 /\ flatten[n] = g[n]
        BY <1>1, <2>2, <3>3
      <4>2. g[n + 1] = g[(n + 1) - 1] \o pieces[n + 1]
        BY <1>10
      <4>3. flatten[n + 1] = flatten[(n + 1) - 1] \o pieces[n + 1]
        BY <1>15, <4>1
      <4> QED BY Zenon, <3>1, <4>1, <4>2, <4>3
    <3> QED BY <3>2, <3>3
  <2> HIDE DEF T
  <2>3. Nat \subseteq T
    BY <2>1, <2>2, Induction
  <2> QED BY <1>1, <2>3 DEF T
<1>17. flatten[N] = g[N]
  <2>1. N \in 0 .. N
    BY <1>1
  <2> QED BY <1>11, <1>16, <2>1
<1> QED BY <1>3, <1>9, <1>10, <1>17 DEF N
LEMMA StreamHolds ==
    ASSUME NEW old \in Buffers, NEW pieces \in Seq(Seq(Char)), pieces # <<>>
    PROVE  Holds(LogStream(old, pieces), FlattenSeq(pieces))
<1>1. PICK N : N = Len(pieces)
  OBVIOUS
<1>2. PICK f \in [0 .. N -> Stream] :
          /\ f[0] = [buf |-> old, cur |-> 1]
          /\ \A n \in 1 .. N : f[n] = WriteData(f[n - 1], pieces[n])
          /\ LogStream(old, pieces) = f[N].buf
  BY <1>1, StreamRuns
<1>3. PICK g \in [0 .. N -> Seq(Char)] :
          /\ g[0] = <<>>
          /\ \A n \in 1 .. N : g[n] = g[n - 1] \o pieces[n]
          /\ FlattenSeq(pieces) = g[N]
  BY <1>1, TextsRun
<1>4. N \in Nat \ {0} /\ \A n \in 1 .. N : pieces[n] \in Seq(Char)
  BY <1>1, LenProperties, ElementOfSeq, EmptySeq
<1> HIDE <1>1
<1> DEFINE T == {n \in Nat : n <= N => /\ Written(f[n], g[n])
                                       /\ n # 0 => EndsThere(f[n], g[n])}
<1>5. 0 \in T
  <2>1. f[0].buf = old /\ f[0].cur = 1 /\ f[0] \in Stream
    <3>1. 0 \in 0 .. N
      BY <1>4
    <3>2. f[0] = [buf |-> old, cur |-> 1]
      BY <1>2
    <3>3. f[0] \in Stream
      BY ONLY f \in [0 .. N -> Stream], <3>1
    <3> QED BY <3>2, <3>3
  <2>2. Len(g[0]) = 0
    BY <1>3
  <2>3. Lesser(Len(g[0]), Size - 1) = 0
    BY <2>2 DEF Lesser
  <2>4. Written(f[0], g[0])
    BY <2>1, <2>2, <2>3 DEF Written, Stream
  <2> QED BY <2>4
<1>6. ASSUME NEW n \in Nat, n \in T PROVE n + 1 \in T
  <2> SUFFICES ASSUME n + 1 <= N
               PROVE  Written(f[n + 1], g[n + 1]) /\ EndsThere(f[n + 1], g[n + 1])
    OBVIOUS
  <2>1. n + 1 \in 1 .. N /\ (n + 1) - 1 = n /\ n \in 0 .. N /\ Written(f[n], g[n])
    BY <1>4, <1>6
  <2>2. f[n + 1] = WriteData(f[n], pieces[n + 1]) /\ g[n + 1] = g[n] \o pieces[n + 1]
    BY <1>2, <1>3, <2>1
  <2>3. g[n] \in Seq(Char) /\ pieces[n + 1] \in Seq(Char)
    BY <1>4, <2>1
  <2>4. /\ Written(WriteData(f[n], pieces[n + 1]), g[n] \o pieces[n + 1])
        /\ EndsThere(WriteData(f[n], pieces[n + 1]), g[n] \o pieces[n + 1])
    BY ONLY <2>1, <2>3, PieceWritten, SizeAssumption
  <2> QED BY Zenon, <2>2, <2>4
<1> HIDE DEF T
<1>7. Nat \subseteq T
  BY <1>5, <1>6, Induction
<1>8. Written(f[N], g[N]) /\ EndsThere(f[N], g[N])
  BY <1>4, <1>7 DEF T
<1>9. /\ f[N].buf \in Buffers
      /\ \A k \in 1 .. Lesser(Len(g[N]), Size - 1) : f[N].buf[k] = g[N][k]
      /\ f[N].buf[Lesser(Len(g[N]), Size - 1) + 1] = Nul
  BY <1>8 DEF Written, EndsThere
<1>10. g[N] \in Seq(Char)
  BY <1>4
<1>11. PICK buf \in Buffers : buf = f[N].buf
  BY <1>9
<1>12. PICK text \in Seq(Char) : text = g[N]
  BY <1>10
<1>13. PICK len : len = Lesser(Len(text), Size - 1)
  OBVIOUS
<1>14. (\A k \in 1 .. len : buf[k] = text[k]) /\ buf[len + 1] = Nul
  BY <1>9, <1>11, <1>12, <1>13
<1> HIDE <1>11, <1>12
<1>15. Holds(buf, text)
  BY <1>13, <1>14, HoldsText
<1> QED BY <1>2, <1>3, <1>11, <1>12, <1>15

(* What is the text of a string that a caller gives to PushLog. *)
LEMMA StringText ==
    ASSUME NEW text \in Seq(Char), NEW log, log = Append(text, Nul)
    PROVE  /\ log \in Seq(Bytes) /\ Len(log) = Len(text) + 1 /\ Strlen(log) = Len(text)
           /\ Text(log) = text
           /\ log[Len(text) + 1] = Nul /\ \A k \in 1 .. Len(text) : log[k] = text[k]
<1>1. Len(text) \in Nat /\ \A k \in 1 .. Len(text) : text[k] \in Char
  BY LenProperties, ElementOfSeq
<1>2. text \in Seq(Bytes) /\ Nul \in Bytes
  BY DEF Bytes
<1>3. /\ log \in Seq(Bytes) /\ Len(log) = Len(text) + 1 /\ log[Len(text) + 1] = Nul
      /\ \A k \in 1 .. Len(text) : log[k] = text[k]
  BY <1>1, <1>2, AppendProperties
<1>4. DOMAIN log = 1 .. Len(text) + 1
  BY <1>3, LenProperties
<1>5. Strlen(log) = Len(text)
  <2>1. \A k \in 1 .. Len(text) : log[k] # Nul
    BY <1>1, <1>3
  <2>2. DOMAIN log \subseteq Nat \ {0} /\ Len(text) + 1 \in DOMAIN log
    BY <1>1, <1>4
  <2> QED BY <1>1, <1>3, <2>1, <2>2, FirstNul
<1>6. SubSeq(log, 1, Len(text)) = text
  <2>1. PICK u : u = SubSeq(log, 1, Len(text))
    OBVIOUS
  <2>2. u \in Seq(Bytes) /\ Len(u) = Len(text) /\ \A k \in 1 .. Len(text) : u[k] = log[k]
    BY <1>1, <1>3, <2>1, SubSeqProperties
  <2>3. u = text
    BY <1>1, <1>2, <1>3, <2>2, SeqEqual
  <2> QED BY <2>1, <2>3
<1> QED BY <1>3, <1>5, <1>6 DEF Text

(* The first characters of a string. *)
LEMMA FirstOf ==
    ASSUME NEW log \in Seq(Bytes), NEW m \in 0 .. Len(log), NEW u, u = SubSeq(log, 1, m)
    PROVE  u \in Seq(Bytes) /\ Len(u) = m /\ \A k \in 1 .. m : u[k] = log[k]
BY LenProperties, SubSeqProperties

LEMMA ContentHolds ==
    ASSUME NEW old \in Buffers, NEW text \in Seq(Char), NEW log, log = Append(text, Nul)
    PROVE  Holds(Content(old, log), text)
<1>1. /\ log \in Seq(Bytes) /\ Len(log) = Len(text) + 1 /\ Strlen(log) = Len(text)
      /\ log[Len(text) + 1] = Nul /\ \A k \in 1 .. Len(text) : log[k] = text[k]
  BY StringText
<1>2. Len(text) \in Nat
  BY LenProperties
<1>3. PICK len : len = Lesser(Len(text), Size - 1)
  OBVIOUS
<1>4. PICK new : new = Content(old, log)
  OBVIOUS
<1> SUFFICES /\ new \in Buffers /\ \A k \in 1 .. len : new[k] = text[k]
             /\ new[len + 1] = Nul
  <2>1. ASSUME new \in Buffers, \A k \in 1 .. len : new[k] = text[k], new[len + 1] = Nul
        PROVE  Holds(new, text)
    BY ONLY <1>3, <2>1, text \in Seq(Char), HoldsText, SizeAssumption
  <2> QED BY <1>4, <2>1
<1> HIDE <1>4
<1>5. CASE Len(text) >= Size
  <2>1. PICK u : u = SubSeq(log, 1, Size)
    OBVIOUS
  <2>2. u \in Seq(Bytes) /\ Len(u) = Size /\ \A k \in 1 .. Size : u[k] = log[k]
    <3>1. Size \in 0 .. Len(log)
      BY <1>1, <1>2, <1>5
    <3> QED BY ONLY <1>1, <2>1, <3>1, FirstOf, SizeAssumption
  <2>3. PICK mid : mid = Put(old, 1, u)
    OBVIOUS
  <2>4. mid \in Buffers /\ \A k \in 1 .. Size : mid[k] = log[k]
    <3>1. /\ Put(old, 1, u) \in Buffers
          /\ \A k \in 1 .. Size : Put(old, 1, u)[k] =
                 IF k \in 1 .. 1 + Len(u) - 1 THEN u[k - 1 + 1] ELSE old[k]
      <4>1. 1 \in Nat \ {0} /\ 1 + Len(u) - 1 <= Size
        BY <2>2
      <4> QED BY ONLY <2>2, <4>1, old \in Buffers, PutFits, SizeAssumption
    <3>2. \A k \in 1 .. Size : k \in 1 .. 1 + Len(u) - 1 /\ k - 1 + 1 = k
      BY <2>2
    <3> QED BY <2>2, <2>3, <3>1, <3>2
  <2>5. /\ <<Nul>> \in Seq(Bytes) /\ Len(<<Nul>>) = 1 /\ <<Nul>>[1] = Nul
    BY DEF Bytes
  <2>6. PICK w : w = <<Nul>>
    OBVIOUS
  <2>7. w \in Seq(Bytes) /\ Len(w) = 1 /\ w[1] = Nul
    BY <2>5, <2>6
  <2>8. new = Put(mid, Size, w)
    BY <1>1, <1>4, <1>5, <2>1, <2>3, <2>6 DEF Content
  <2> HIDE <1>4, <2>1, <2>3, <2>6
  <2>9. /\ Put(mid, Size, w) \in Buffers
        /\ \A k \in 1 .. Size : Put(mid, Size, w)[k] =
               IF k \in Size .. Size + Len(w) - 1 THEN w[k - Size + 1] ELSE mid[k]
    <3>1. Size \in Nat \ {0} /\ Size + Len(w) - 1 <= Size
      BY <2>7
    <3> QED BY ONLY <2>4, <2>7, <3>1, PutFits, SizeAssumption
  <2>10. \A k \in 1 .. Size : /\ k \in Size .. Size + Len(w) - 1 <=> k = Size
                              /\ Size - Size + 1 = 1
    BY <2>7
  <2>11. new \in Buffers /\ new[Size] = Nul /\ \A k \in 1 .. Size - 1 : new[k] = log[k]
    <3>1. Size \in 1 .. Size /\ \A k \in 1 .. Size - 1 : k \in 1 .. Size /\ k # Size
      OBVIOUS
    <3> QED BY <2>4, <2>7, <2>8, <2>9, <2>10, <3>1
  <2>12. len = Size - 1 /\ len + 1 = Size
    BY <1>2, <1>3, <1>5 DEF Lesser
  <2>13. \A k \in 1 .. Size - 1 : k \in 1 .. Len(text)
    BY <1>2, <1>5
  <2> QED BY <1>1, <2>11, <2>12, <2>13
<1>6. CASE ~(Len(text) >= Size)
  <2>1. PICK u : u = SubSeq(log, 1, Len(text) + 1)
    OBVIOUS
  <2>2. u \in Seq(Bytes) /\ Len(u) = Len(text) + 1 /\ \A k \in 1 .. Len(text) + 1 : u[k] = log[k]
    <3>1. Len(text) + 1 \in 0 .. Len(log)
      BY <1>1, <1>2
    <3> QED BY ONLY <1>1, <2>1, <3>1, FirstOf, SizeAssumption
  <2>3. new = Put(old, 1, u)
    BY <1>1, <1>4, <1>6, <2>1 DEF Content
  <2> HIDE <1>4, <2>1
  <2>4. /\ Put(old, 1, u) \in Buffers
        /\ \A k \in 1 .. Size : Put(old, 1, u)[k] =
               IF k \in 1 .. 1 + Len(u) - 1 THEN u[k - 1 + 1] ELSE old[k]
    <3>1. 1 \in Nat \ {0} /\ 1 + Len(u) - 1 <= Size
      BY <1>2, <1>6, <2>2
    <3> QED BY ONLY <2>2, <3>1, old \in Buffers, PutFits, SizeAssumption
  <2>5. \A k \in 1 .. Len(text) + 1 : /\ k \in 1 .. Size /\ k - 1 + 1 = k
                                      /\ k \in 1 .. 1 + Len(u) - 1
    BY <1>2, <1>6, <2>2
  <2>6. \A k \in 1 .. Len(text) + 1 : new[k] = log[k]
    BY <2>2, <2>3, <2>4, <2>5
  <2>7. len = Len(text) /\ Len(text) + 1 \in 1 .. Len(text) + 1
        /\ \A k \in 1 .. Len(text) : k \in 1 .. Len(text) + 1
    BY <1>2, <1>3, <1>6 DEF Lesser
  <2> QED BY <1>1, <2>3, <2>4, <2>6, <2>7
<1> QED BY <1>5, <1>6

LEMMA BoundedIsSeq ==
    ASSUME NEW S, NEW n, NEW s \in BoundedSeq(S, n)
    PROVE  s \in Seq(S)
<1>1. PICK m \in 0 .. n : s \in [1 .. m -> S]
  BY DEF BoundedSeq, SeqOf
<1> QED BY <1>1, FunctionIsSeq

LEMMA TextsKept == TextKept
<1> SUFFICES ASSUME NEW old \in Buffers
             PROVE  /\ \A pieces \in BoundedSeq(Texts, MaxPieces) \ {<<>>} :
                           Holds(LogStream(old, pieces), FlattenSeq(pieces))
                    /\ \A log \in Strings : Holds(Content(old, log), Text(log))
  BY DEF TextKept
<1>1. ASSUME NEW pieces \in BoundedSeq(Texts, MaxPieces) \ {<<>>}
      PROVE  Holds(LogStream(old, pieces), FlattenSeq(pieces))
  <2>1. Texts \subseteq Seq(Char)
    BY BoundedIsSeq DEF Texts
  <2>2. pieces \in Seq(Texts)
    BY BoundedIsSeq
  <2>3. pieces \in Seq(Seq(Char))
    BY <2>1, <2>2, SeqMonotonic
  <2> QED BY <2>3, StreamHolds
<1>2. ASSUME NEW log \in Strings PROVE Holds(Content(old, log), Text(log))
  <2>1. PICK text \in BoundedSeq(Char, Size + 1) : log = Append(text, Nul)
    BY DEF Strings
  <2>2. text \in Seq(Char)
    BY BoundedIsSeq
  <2>3. Text(log) = text
    BY <2>1, <2>2, StringText
  <2>4. Holds(Content(old, log), text)
    BY <2>1, <2>2, ContentHolds
  <2> QED BY <2>3, <2>4
<1> QED BY <1>1, <1>2

(* Whatever the buffers of a line held before, they hold the text that is  *)
(* put into them: in pieces, by LOG_STREAM, or as a string, by PushLog;    *)
(* cut where there is no room, and always with a Nul inside.               *)
THEOREM TextsAlwaysEnd == Spec => []TextSound
<1>1. TextSound
  BY TextsKept DEF TextSound
<1> QED BY <1>1, PTL
=============================================================================
