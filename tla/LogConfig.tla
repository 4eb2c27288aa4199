----------------------------- MODULE LogConfig -----------------------------
(***************************************************************************)
(* The configuration file of the logger, src/log4z/log4z.cpp: ParseConfig  *)
(* makes of its lines a map from logger names to attributes.  A line is    *)
(* what TrimLogConfig leaves of it: it opens a logger's section, gives an  *)
(* attribute, or says nothing (it is empty, a comment, or has no '=').     *)
(* Keys and values are compared in lower case, and are so here.            *)
(***************************************************************************)
EXTENDS Integers, Sequences, SequencesExt

CONSTANTS FileLine,     \* the lines of configuration files
          DefaultLimit, \* 100: LOG4Z_DEFAULT_LIMITSIZE
          MaxLines      \* bound: how many lines a file has

Nothing == [kind |-> "nothing"]
Section(name) == [kind |-> "section", name |-> name]
Attribute(key, value) == [kind |-> "attribute", key |-> key, value |-> value]

IsLine(l) == \/ l.kind = "nothing"   /\ l = Nothing
             \/ l.kind = "section"   /\ l = Section(l.name)
             \/ l.kind = "attribute" /\ l = Attribute(l.key, l.value)

ASSUME LinesAssumption == /\ {DefaultLimit, MaxLines} \subseteq Nat
                          /\ \A l \in FileLine : IsLine(l)

MainSpellings == {"main", "Main", "MAIN"}

(* The name of a section; that of the main logger may be spelled anyhow. *)
LoggerName(name) == IF name \in MainSpellings THEN "Main" ELSE name

Attributes == {"path", "level", "display", "monthdir", "limitsize"}

(* LoggerInfo::SetDefaultInfo. *)
DefaultInfo == [path |-> "./log/", level |-> 0, display |-> TRUE,
                monthdir |-> FALSE, limitsize |-> DefaultLimit]

(* What a level's value is compared with; alarm gives the level of warn. *)
LevelOf == [debug |-> 0, all |-> 0, info |-> 1, warn |-> 2, warning |-> 2,
            error |-> 3, alarm |-> 2, fatal |-> 5]

(* atoi. *)
Number == [value \in {"1", "4"} |-> IF value = "1" THEN 1 ELSE 4]
Atoi(value) == IF value \in DOMAIN Number THEN Number[value] ELSE 0

(* What the value of a key is taken for, if it was old. *)
Meant(key, value, old) ==
    CASE key = "path"      -> value
      [] key = "level"     -> IF value \in DOMAIN LevelOf THEN LevelOf[value] ELSE old
      [] key \in {"display", "monthdir"} -> value \notin {"false", "0"}
      [] key = "limitsize" -> Atoi(value)

(* A mistake ParseMeans must notice: the section of a logger that there is *)
(* already begins with the defaults again.                                 *)
OpenSectionAgain(p, name) ==
    [cur |-> name, info |-> [n \in DOMAIN p.info \cup {name} |->
                                 IF n = name THEN DefaultInfo ELSE p.info[n]]]

(* A section, of a new logger or of one that there is; the parser has the  *)
(* name of the current section and the map so far.                         *)
OpenSection(p, name) ==
    [cur |-> name, info |-> [n \in DOMAIN p.info \cup {name} |->
                                 IF n \in DOMAIN p.info THEN p.info[n] ELSE DefaultInfo]]

(* One turn of the loop of ParseConfig. *)
ParseLine(p, line) ==
    CASE line.kind = "section" -> OpenSection(p, LoggerName(line.name))
      [] /\ line.kind = "attribute"
         /\ p.cur \in DOMAIN p.info /\ line.key \in Attributes ->
             [p EXCEPT !.info[p.cur][line.key] = Meant(line.key, line.value, @)]
      [] OTHER -> p

(* ParseConfig; a file that cannot be opened is one without lines. *)
ParseConfig(lines) ==
    LET after[n \in 0 .. Len(lines)] ==
            IF n = 0 THEN [cur |-> "", info |-> <<>>] ELSE ParseLine(after[n - 1], lines[n])
    IN  after[Len(lines)].info

-----------------------------------------------------------------------------
(* What a file means, said without reading it line by line and in the      *)
(* words of the documents: GetExampleConfig has the keys, ENUM_LOG_LEVEL   *)
(* the levels.  The attributes of a logger are in all its sections, and    *)
(* the last line that says something of one holds.                         *)
KeyFor == [path |-> "path", level |-> "level", display |-> "display",
           monthdir |-> "monthdir", limitsize |-> "limit"]
Level  == [debug |-> 0, info |-> 1, warn |-> 2, error |-> 3, alarm |-> 4, fatal |-> 5]

Sections(lines) == {i \in DOMAIN lines : lines[i].kind = "section"}

(* The lines in the sections of a logger that say something of a field. *)
Says(lines, name, field) ==
    {i \in DOMAIN lines :
        /\ lines[i].kind = "attribute" /\ lines[i].key = KeyFor[field]
        /\ field = "level" => lines[i].value \in DOMAIN Level
        /\ \E s \in Sections(lines) :
               /\ s < i /\ LoggerName(lines[s].name) = name
               /\ ~\E u \in Sections(lines) : s < u /\ u < i}

Stated(field, value) ==
    CASE field = "path"      -> value
      [] field = "level"     -> Level[value]
      [] field \in {"display", "monthdir"} -> value \notin {"false", "0"}
      [] field = "limitsize" -> Atoi(value)

Meaning(lines) ==
    [name \in {LoggerName(lines[s].name) : s \in Sections(lines)} |->
        [field \in Attributes |->
            LET said == Says(lines, name, field) IN
            IF said = {} THEN DefaultInfo[field] ELSE Stated(field, lines[Max(said)].value)]]

(* The lines that ParseConfig reads otherwise.  The key `limit' of the     *)
(* example is unknown to it, and it has `limitsize' for that; the level    *)
(* alarm it takes for warn.  `all' and `warning' are words of its own.     *)
Synonym == [all |-> "debug", warning |-> "warn", alarm |-> "warn"]
AsRead(l) ==
    IF l.kind # "attribute" THEN l
    ELSE CASE l.key = "limit"     -> Nothing
           [] l.key = "limitsize" -> Attribute("limit", l.value)
           [] l.key = "level" /\ l.value \in DOMAIN Synonym -> Attribute("level", Synonym[l.value])
           [] OTHER -> l

(* But for the lines named in AsRead, of which a `limit' and a level alarm *)
(* do not do what the example and the names of the levels say, ParseConfig *)
(* finds in every file what the file means: through sections that come     *)
(* again, keys that come again, unknown keys and values, attributes before *)
(* the first section.                                                      *)
ParseMeans ==
    \A lines \in BoundedSeq(FileLine, MaxLines) :
        ParseConfig(lines) = Meaning([i \in DOMAIN lines |-> AsRead(lines[i])])
=============================================================================
