----------------------------- MODULE LogManager -----------------------------
(***************************************************************************)
(* CLogerManager, src/log4z/log4z.cpp: the logger that client and server   *)
(* write to.  Any thread calls PushLog, which puts a line into a queue; a  *)
(* thread of the logger's takes the lines out and writes them to the file  *)
(* of the line's logger.  A controlling thread starts and stops it and     *)
(* creates and configures loggers at any time.                             *)
(*                                                                         *)
(* Only the queue is locked.  PushLog looks at m_bRuning and at the logger *)
(* before it locks, so that a step of any other thread may come between.   *)
(* A line is known by the thread that pushed it and its number there.  How *)
(* its text comes together is in LogText, and what a configuration file    *)
(* says of the loggers in LogConfig.                                       *)
(***************************************************************************)
EXTENDS Integers, Sequences, LogConfig, LogText

CONSTANTS Thread,      \* the threads that call PushLog
          LoggerMax,   \* LOG4Z_LOGGER_MAX
          Writer,      \* the logger's own thread, that pushes lines too
          PushLevel,   \* the levels of lines
          NameOrder,   \* the names of loggers, in the order of a std::map
          ConfigFiles, \* what may be in the configuration file
          Width,       \* 2^32: how many values an unsigned int has
          Mega,        \* 1024 * 1024: a limit of one in the unit of lengths,
                       \* which is the length of a line
          ZeroLimit,   \* 4000: what CreateLogger takes a limit of zero for
          MaxPush,     \* bound: the calls of PushLog each thread makes
          MaxStarts,   \* bound: the calls of Start
          MaxConfigs,  \* bound: the changes made to the loggers
          MaxFailures  \* bound: the files that cannot be opened or written

ASSUME LoggerAssumption == LoggerMax \in Nat \ {0} /\ Writer \notin Thread
ASSUME LevelAssumption  == PushLevel \subseteq 0 .. 5
ASSUME WidthAssumption  == /\ Width \in Nat /\ Mega \in Nat \ {0, 1} /\ Width % Mega = 0
                           /\ {ZeroLimit, DefaultLimit} \subseteq 0 .. Width - 1
                           /\ \A value \in DOMAIN Number : Number[value] < Width
ASSUME FilesAssumption  == /\ ConfigFiles \subseteq Seq(FileLine)
                           /\ NameOrder \in Seq(ToSet(NameOrder))
                           /\ "Main" \in ToSet(NameOrder)
                           /\ \A lines \in ConfigFiles :
                                  DOMAIN ParseConfig(lines) \subseteq ToSet(NameOrder)
ASSUME BoundsAssumption == /\ MaxPush \in [Thread -> Nat]
                           /\ {MaxStarts, MaxConfigs, MaxFailures} \subseteq Nat

VARIABLES
    running,   \* m_bRuning
    loggers,   \* m_ids, m_lastId and _enable, _level and _limitsize of each
               \* logger in m_loggers
    configs,   \* how often the loggers were changed
    configured, \* whether m_configFile is set
    logs,      \* m_logs
    control,   \* where the controlling thread is
    starts,    \* how many calls of Start made a thread
    writer,    \* where the logger's thread is
    popped,    \* pLog, in a sequence of length one
    file,      \* each logger's file: whether it is open, and _curWriteLen
    line,      \* the line each thread is about to push, likewise
    pushed,    \* how many lines it has begun to push
    accepted,  \* the names of the lines put into the queue
    before,    \* those of them put there before the last call of Stop
    written,   \* the lines written
    dropped,   \* the lines taken from the queue and discarded
    found,     \* history: _limitsize when the thread looked at the file of the
               \* line at hand
    failures   \* how many files could not be opened or written

config  == <<loggers, configs, configured>>
callers == <<line, pushed>>
history == <<accepted, before, written, dropped, found>>
vars == <<running, config, logs, control, starts, writer, popped, file, callers,
          history, failures>>

(* What a line is known by. *)
Name(l) == <<l.by, l.nth>>
Names(seq) == {Name(seq[i]) : i \in DOMAIN seq}

Logger == 0 .. LoggerMax - 1
Main   == 0
Alarm  == 4
UInt   == 0 .. Width - 1

(* The constructor; the main logger is enabled by Run only. *)
Init ==
    /\ running = FALSE
    /\ loggers = [ids    |-> [name \in {"Main"} |-> Main],
                  lastid |-> Main,
                  enable |-> [id \in Logger |-> FALSE],
                  level  |-> [id \in Logger |-> DefaultInfo.level],
                  limit  |-> [id \in Logger |-> DefaultInfo.limitsize]]
    /\ configs = 0
    /\ configured = FALSE
    /\ logs = <<>>
    /\ control = "idle"
    /\ starts = 0
    /\ writer = "none"
    /\ popped = <<>>
    /\ file = [id \in Logger |-> [open |-> FALSE, len |-> 0]]
    /\ line = [t \in Thread |-> <<>>]
    /\ pushed = [t \in Thread |-> 0]
    /\ accepted = {}
    /\ before = {}
    /\ written = {}
    /\ dropped = {}
    /\ found = 0
    /\ failures = 0

-----------------------------------------------------------------------------
(* The controlling thread.                                                 *)

(* A call of Start while the logger runs, and one of Stop while it does    *)
(* not, return false.                                                      *)
Start ==
    /\ control = "idle" /\ ~running /\ starts < MaxStarts
    /\ control' = "starting"
    /\ starts' = starts + 1
    /\ writer' = "created"
    /\ UNCHANGED <<running, config, logs, popped, file, callers, history, failures>>

(* The semaphore is posted; three seconds are taken to be enough for that. *)
StartReturns ==
    /\ control = "starting" /\ writer # "created"
    /\ control' = "idle"
    /\ UNCHANGED <<running, config, logs, starts, writer, popped, file, callers,
                   history, failures>>

(* A mistake StopReturns must notice: the thread is waited for and not     *)
(* told to end.                                                            *)
StopWaits ==
    /\ control = "idle" /\ running
    /\ before' = accepted
    /\ control' = "stopping"
    /\ UNCHANGED <<running, config, logs, starts, writer, popped, file, callers,
                   accepted, written, dropped, found, failures>>

Stop ==
    /\ control = "idle" /\ running
    /\ running' = FALSE
    /\ before' = accepted
    /\ control' = "stopping"
    /\ UNCHANGED <<config, logs, starts, writer, popped, file, callers, accepted,
                   written, dropped, found, failures>>

(* Wait, which joins the thread. *)
StopEnds ==
    /\ control = "stopping" /\ writer = "ended"
    /\ control' = "idle"
    /\ UNCHANGED <<running, config, logs, starts, writer, popped, file, callers,
                   history, failures>>

(* A mistake TypeOK must notice: the place after the last is used. *)
NewIdOneMore(ls) == IF ls.lastid + 1 > LoggerMax THEN {} ELSE {ls.lastid + 1}

(* The id for a new logger, if there is one. *)
NewId(ls) == IF ls.lastid + 1 >= LoggerMax THEN {} ELSE {ls.lastid + 1}

(* A mistake IdsSound must notice: a logger that there is gets a new id.   *)
IdAnew(ls, name) == IF name = "" THEN {} ELSE NewId(ls)

(* The id that CreateLogger takes for a name. *)
IdFor(ls, name) ==
    IF name = "" THEN {}
    ELSE IF name \in DOMAIN ls.ids THEN {ls.ids[name]}
    ELSE NewId(ls)

(* The loggers after CreateLogger, of a new one or of one there is. *)
Created(ls, name, level, limit) ==
    IF IdFor(ls, name) = {} THEN ls
    ELSE LET id == CHOOSE id \in IdFor(ls, name) : TRUE IN
         [ids    |-> [n \in DOMAIN ls.ids \cup {name} |-> IF n = name THEN id ELSE ls.ids[n]],
          lastid |-> Greater(ls.lastid, id),
          enable |-> [ls.enable EXCEPT ![id] = TRUE],
          level  |-> [ls.level EXCEPT ![id] = level],
          limit  |-> [ls.limit EXCEPT ![id] = IF limit = 0 THEN ZeroLimit ELSE limit]]

(* What SetLoggerLimitSize sets. *)
Limited(limit) == IF limit = 0 THEN Width - 1 ELSE limit

Configure ==
    /\ control = "idle" /\ configs < MaxConfigs
    /\ configs' = configs + 1
    /\ UNCHANGED <<running, logs, control, starts, writer, popped, file, callers,
                   history, failures>>

CreateLogger(name, info) ==
    /\ Configure
    /\ loggers' = Created(loggers, name, info.level, info.limitsize)
    /\ UNCHANGED configured

(* The loggers when CreateLogger has been called for each name in a map    *)
(* from ParseConfig, in the order of names.                                *)
CreatedAll(ls, info) ==
    LET after[n \in 0 .. Len(NameOrder)] ==
            IF n = 0 THEN ls
            ELSE LET name == NameOrder[n] IN
                 IF name \in DOMAIN info
                 THEN Created(after[n - 1], name, info[name].level, info[name].limitsize)
                 ELSE after[n - 1]
    IN  after[Len(NameOrder)]

(* Config: CreateLogger for each logger in the file; once only. *)
Config(lines) ==
    /\ ~configured /\ configured' = TRUE
    /\ Configure
    /\ loggers' = CreatedAll(loggers, ParseConfig(lines))

(* SetLoggerLevel and SetLoggerLimitSize; what the other setters set is    *)
(* left out.                                                               *)
SetLogger(id, info) ==
    /\ Configure
    /\ \/ loggers' = [loggers EXCEPT !.level[id] = info.level]
       \/ loggers' = [loggers EXCEPT !.limit[id] = Limited(info.limitsize)]
    /\ UNCHANGED configured

(* UpdateConfig: the setters for each logger in the file that there is. *)
UpdateConfig(lines) ==
    LET info   == ParseConfig(lines)
        listed == {name \in DOMAIN info : name \in DOMAIN loggers.ids}
        Of(id, said, old) == IF \E name \in listed : loggers.ids[name] = id
                             THEN said[CHOOSE name \in listed : loggers.ids[name] = id]
                             ELSE old
    IN  /\ configured
        /\ Configure
        /\ loggers' = [loggers EXCEPT
               !.level = [id \in Logger |-> Of(id, [n \in listed |-> info[n].level], @[id])],
               !.limit = [id \in Logger |->
                             Of(id, [n \in listed |-> Limited(info[n].limitsize)], @[id])]]
        /\ UNCHANGED configured

-----------------------------------------------------------------------------
(* PushLog, in any thread: first what it looks at without the lock.  When  *)
(* it returns false, or the line is below the logger's level, nothing is   *)
(* done.                                                                   *)
PushLog(t, id, n) ==
    /\ line[t] = <<>> /\ pushed[t] < MaxPush[t]
    /\ running /\ loggers.enable[id] /\ n >= loggers.level[id]
    /\ pushed' = [pushed EXCEPT ![t] = @ + 1]
    /\ line' = [line EXCEPT ![t] = <<[by |-> t, nth |-> pushed[t] + 1,
                                      id |-> id, level |-> n]>>]
    /\ UNCHANGED <<running, config, logs, control, starts, writer, popped, file,
                   history, failures>>

Enqueue(t) ==
    /\ line[t] # <<>>
    /\ logs' = logs \o line[t]
    /\ accepted' = accepted \cup Names(line[t])
    /\ line' = [line EXCEPT ![t] = <<>>]
    /\ UNCHANGED <<running, config, control, starts, writer, popped, file, pushed,
                   before, written, dropped, found, failures>>

-----------------------------------------------------------------------------
(* Run, in the logger's thread.                                            *)

(* The first line in the log tells of the start, if the main logger's      *)
(* level lets it; those that list the loggers are left out.                *)
Banner == [by |-> Writer, nth |-> starts, id |-> Main, level |-> Alarm]
Begun  == IF Alarm < loggers.level[Main] THEN <<>> ELSE <<Banner>>

(* One step: Start has not returned yet, and m_bRuning is FALSE before it. *)
Begin ==
    /\ writer = "created"
    /\ writer' = "looking"
    /\ running' = TRUE
    /\ loggers' = [loggers EXCEPT !.enable[Main] = TRUE]
    /\ logs' = logs \o Begun
    /\ accepted' = accepted \cup Names(Begun)
    /\ UNCHANGED <<configs, configured, control, starts, popped, file, callers,
                   before, written, dropped, found, failures>>

(* A mistake OrderKept must notice: the newest line is taken. *)
PopLast ==
    /\ writer = "looking" /\ logs # <<>>
    /\ popped' = <<logs[Len(logs)]>>
    /\ logs' = SubSeq(logs, 1, Len(logs) - 1)
    /\ writer' = "writing"
    /\ UNCHANGED <<running, config, control, starts, file, callers, history, failures>>

PopLog ==
    /\ writer = "looking" /\ logs # <<>>
    /\ popped' = <<Head(logs)>>
    /\ logs' = Tail(logs)
    /\ writer' = "writing"
    /\ UNCHANGED <<running, config, control, starts, file, callers, history, failures>>

(* PopLog returned false: the lines written are flushed, *)
PopFails ==
    /\ writer = "looking" /\ logs = <<>>
    /\ writer' = "idle"
    /\ UNCHANGED <<running, config, logs, control, starts, popped, file, callers,
                   history, failures>>

(* A mistake StopFlushes must notice: what came into the queue since it    *)
(* was found empty is not waited for.                                      *)
QuitAtOnce ==
    /\ writer = "idle"
    /\ writer' = IF ~running THEN "quitting" ELSE "looking"
    /\ UNCHANGED <<running, config, logs, control, starts, popped, file, callers,
                   history, failures>>

(* and the thread quits, or sleeps and looks again. *)
QuitOrSleep ==
    /\ writer = "idle"
    /\ writer' = IF ~running /\ logs = <<>> THEN "quitting" ELSE "looking"
    /\ UNCHANGED <<running, config, logs, control, starts, popped, file, callers,
                   history, failures>>

Line == popped[1]
Done == popped' = <<>> /\ found' = 0 /\ writer' = "looking"

(* The line is discarded: its logger was disabled or its level raised.     *)
Discard ==
    /\ writer = "writing"
    /\ ~loggers.enable[Line.id] \/ Line.level < loggers.level[Line.id]
    /\ dropped' = dropped \cup {Name(Line)}
    /\ Done
    /\ UNCHANGED <<running, config, logs, control, starts, file, callers, accepted,
                   before, written, failures>>

(* _limitsize * 1024 * 1024, an unsigned int. *)
Threshold(id) == (loggers.limit[id] * Mega) % Width

NeedsChange(id) == file[id].len > Threshold(id)

(* A mistake LimitKept must notice: the length goes on from file to file.  *)
RotatedKeepsLength(id, sameday) == file[id]

(* The file to write to, for a line of the same day as the last or not;    *)
(* the name and the number of a new file are left out.                     *)
Rotated(id, sameday) ==
    IF ~sameday \/ NeedsChange(id) THEN [file[id] EXCEPT !.len = 0] ELSE file[id]

NeedsOpen(id, sameday) == ~file[id].open \/ ~sameday \/ NeedsChange(id)

(* The line is not discarded; this and the look at its file are one step. *)
Writable == /\ writer = "writing"
            /\ loggers.enable[Line.id] /\ Line.level >= loggers.level[Line.id]

Fails == failures < MaxFailures /\ failures' = failures + 1

(* The file of the line is as it has to be: a new one is opened when the   *)
(* limit, as it is now, the day or an earlier failure asks for it.  The    *)
(* controlling thread may change the limit before the line is written.     *)
UpdateFile ==
    /\ Writable
    /\ \E sameday \in BOOLEAN :
         file' = [file EXCEPT ![Line.id] = [Rotated(Line.id, sameday) EXCEPT !.open = TRUE]]
    /\ found' = loggers.limit[Line.id]
    /\ writer' = "recording"
    /\ UNCHANGED <<running, config, logs, control, starts, popped, callers, accepted,
                   before, written, dropped, failures>>

(* OpenLogger fails, after it has closed the old file: the logger is       *)
(* disabled and the line lost.                                             *)
OpenFails ==
    /\ Writable /\ Fails
    /\ \E sameday \in BOOLEAN :
         /\ NeedsOpen(Line.id, sameday)
         /\ file' = [file EXCEPT ![Line.id] =
                        [Rotated(Line.id, sameday) EXCEPT !.open = FALSE]]
    /\ loggers' = [loggers EXCEPT !.enable[Line.id] = FALSE]
    /\ dropped' = dropped \cup {Name(Line)}
    /\ Done
    /\ UNCHANGED <<running, configs, configured, logs, control, starts, callers, accepted,
                   before, written>>

(* A mistake AllAccounted must notice: the line that opens a new file is   *)
(* not written to it.                                                      *)
WriteNextToNewFile ==
    /\ writer = "recording"
    /\ file' = [file EXCEPT ![Line.id].len = @ + 1]
    /\ written' = IF file[Line.id].len = 0 THEN written ELSE written \cup {Name(Line)}
    /\ Done
    /\ UNCHANGED <<running, config, logs, control, starts, callers, accepted, before,
                   dropped, failures>>

(* The line is written. *)
Write ==
    /\ writer = "recording"
    /\ file' = [file EXCEPT ![Line.id].len = @ + 1]
    /\ written' = written \cup {Name(Line)}
    /\ Done
    /\ UNCHANGED <<running, config, logs, control, starts, callers, accepted, before,
                   dropped, failures>>

(* fwrite takes less than the line: the file is closed, and the line, part *)
(* of which may be in it, is counted all the same.                         *)
WriteShort ==
    /\ writer = "recording" /\ Fails
    /\ file' = [file EXCEPT ![Line.id] = [open |-> FALSE, len |-> @.len + 1]]
    /\ dropped' = dropped \cup {Name(Line)}
    /\ Done
    /\ UNCHANGED <<running, config, logs, control, starts, callers, accepted, before, written>>

(* The end of Run: what is enabled is disabled, and its file closed. *)
Quit ==
    /\ writer = "quitting"
    /\ writer' = "ended"
    /\ loggers' = [loggers EXCEPT !.enable = [id \in Logger |-> FALSE]]
    /\ file' = [id \in Logger |-> IF loggers.enable[id]
                                  THEN [file[id] EXCEPT !.open = FALSE]
                                  ELSE file[id]]
    /\ UNCHANGED <<running, configs, configured, logs, control, starts, popped, callers, history, failures>>

WriterStep ==
    \/ Begin
    \/ PopLog
    \/ PopFails
    \/ QuitOrSleep
    \/ Discard
    \/ UpdateFile
    \/ OpenFails
    \/ Write
    \/ WriteShort
    \/ Quit

Next ==
    \/ Start
    \/ StartReturns
    \/ Stop
    \/ StopEnds
    \/ \E lines \in ConfigFiles :
           \/ Config(lines)
           \/ UpdateConfig(lines)
           \/ \E name \in DOMAIN ParseConfig(lines) :
                  \/ CreateLogger(name, ParseConfig(lines)[name])
                  \/ \E id \in Logger : SetLogger(id, ParseConfig(lines)[name])
    \/ \E t \in Thread, id \in Logger, n \in PushLevel : PushLog(t, id, n)
    \/ \E t \in Thread : Enqueue(t)
    \/ WriterStep

(* The threads inside a function of the logger's are scheduled. *)
Fairness ==
    /\ WF_vars(WriterStep)
    /\ WF_vars(StartReturns)
    /\ WF_vars(StopEnds)
    /\ \A t \in Thread : WF_vars(Enqueue(t))

Spec == Init /\ [][Next]_vars /\ Fairness

-----------------------------------------------------------------------------
Lines == [by : Thread \cup {Writer}, nth : Nat, id : Logger, level : 0 .. 5]

TypeOK ==
    /\ running \in BOOLEAN
    /\ DOMAIN loggers.ids \subseteq ToSet(NameOrder) /\ loggers.lastid \in Logger
    /\ loggers.enable \in [Logger -> BOOLEAN]
    /\ loggers.level \in [Logger -> 0 .. 5]
    /\ loggers.limit \in [Logger -> UInt]
    /\ configs \in 0 .. MaxConfigs
    /\ configured \in BOOLEAN
    /\ logs \in Seq(Lines)
    /\ control \in {"idle", "starting", "stopping"}
    /\ starts \in 0 .. MaxStarts
    /\ writer \in {"none", "created", "looking", "writing", "recording", "idle",
                  "quitting", "ended"}
    /\ popped \in Seq(Lines) /\ Len(popped) <= 1
    /\ file \in [Logger -> [open : BOOLEAN, len : UInt]]
    /\ line \in [Thread -> Seq(Lines)] /\ \A t \in Thread : Len(line[t]) <= 1
    /\ pushed \in [Thread -> Nat]
    /\ accepted \subseteq (Thread \cup {Writer}) \X Nat
    /\ before \subseteq accepted
    /\ written \cup dropped \subseteq accepted
    /\ found \in UInt
    /\ failures \in 0 .. MaxFailures

(* Each logger has a name and a place of its own among the places there    *)
(* are, and no place without a logger is enabled: PushLog, which looks at  *)
(* the place only, never takes a line that OpenLogger has no file for.     *)
IdsSound ==
    /\ loggers.ids["Main"] = Main
    /\ \A m, n \in DOMAIN loggers.ids : loggers.ids[m] = loggers.ids[n] => m = n
    /\ {loggers.ids[n] : n \in DOMAIN loggers.ids} = 0 .. loggers.lastid
    /\ \A id \in DOMAIN loggers.enable :
           loggers.enable[id] => id \in Logger /\ id <= loggers.lastid

(* A file that a line goes to is not longer after it than the limit it had *)
(* when the thread looked at it for this line, and this line: through      *)
(* failed opens, stops and starts, and limits that are more bytes than an  *)
(* unsigned int can say.  A limit lowered between that look and the write  *)
(* is kept from the next line on, which then begins a new file.            *)
LimitKept ==
    [][\A id \in Logger :
           file'[id].len > file[id].len => file'[id].len <= found * Mega + 1]_vars

(* The lines of a thread come out of the queue in the order in which it    *)
(* pushed them, none twice, across stops and starts: one that waits or is  *)
(* at hand comes after those written, and they are in order themselves.    *)
OrderKept ==
    LET waiting == popped \o logs IN
    /\ \A i, j \in DOMAIN waiting :
           i < j /\ waiting[i].by = waiting[j].by => waiting[i].nth < waiting[j].nth
    /\ \A i \in DOMAIN waiting, n \in written :
           n[1] = waiting[i].by => n[2] < waiting[i].nth

(* A line that PushLog has accepted is somewhere: it waits, is at hand,    *)
(* was written, or was discarded, and only one of these.                   *)
AllAccounted ==
    LET kept == written \cup Names(popped \o logs) IN
    accepted = kept \cup dropped /\ kept \cap dropped = {}

(* When the logger's thread has ended, no line put into the queue before   *)
(* the call of Stop is left there.                                         *)
StopFlushes == writer = "ended" => before \subseteq written \cup dropped

(* Stop returns, whatever callers are inside PushLog: the lines that they  *)
(* still put into the queue do not keep the logger's thread for ever.      *)
StopReturns == control = "stopping" ~> control = "idle"

(* Two facts about data, which hold of every state if of the first: what   *)
(* ParseConfig makes of a file, and what becomes of the text of a line.    *)
ParseSound == Init => ParseMeans
TextSound  == Init => TextKept
=============================================================================
