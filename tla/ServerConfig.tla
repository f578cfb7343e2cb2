---------------------------- MODULE ServerConfig ----------------------------
(***************************************************************************)
(* The configuration of the server and its logs (Server/Main.cpp,          *)
(* Options::read_conf and ReadRandomConfig).  The file is read at the      *)
(* start, for the limits of the logs, and again whenever a packet asks for *)
(* it, for the random numbers added to the level counts; an administrator  *)
(* may edit it at any time.                                                *)
(***************************************************************************)
EXTENDS IniFile, LogFile

CONSTANTS
  PlainLines,    \* lines an administrator may write: blank, headers, name = value
  OddLines,      \* and others: comments, keys within values, unfinished lines
  MaxLines,      \* bound: lines of the file
  LoggedLines,   \* bound: lines of the file when messages are written
  DefLogNum, DefLogSize,        \* defaults of read_conf
  DEFAULT_FILE_NUM, DEFAULT_FILE_SIZE,   \* what log.cpp starts with
  DefRandCount,  \* default of ReadRandomConfig
  MaxFile, MaxSize,   \* the limits InitLog sets for clib_log
  Lengths,       \* lengths of messages
  MaxMessages    \* bound: messages written

ASSUME ConfigAssumption ==
  /\ {MaxLines, LoggedLines, DefLogNum, DefLogSize, DEFAULT_FILE_NUM, DEFAULT_FILE_SIZE,
      DefRandCount, MaxFile, MaxSize} \subseteq Nat \ {0}
  /\ Lengths \subseteq Nat \ {0} /\ Lengths # {} /\ IsFiniteSet(Lengths)
  /\ MaxMessages \in Nat
  /\ \A line \in PlainLines \cup OddLines : line \in Seq(ToSet(line))

VARIABLES
  file,    \* the lines of config.ini
  proc,    \* booted, running, or failed: the process has ended
  log,     \* log.cpp
  debug,   \* the files of g_pDebugLog
  rand,    \* m_nRoundLimit
  count,   \* messages written to log and to debug
  cleaned  \* a file of the debug log has been removed

vars == <<file, proc, log, debug, rand, count, cleaned>>

Text == FlattenSeq(file)

\* CCReactor::Init has given the log its first name and limits.
Init ==
  /\ file = <<>>
  /\ proc = "booted"
  /\ log = [app |-> "boot", num |-> DEFAULT_FILE_NUM, size |-> DEFAULT_FILE_SIZE,
            pos |-> 0, files |-> NoFiles]
  /\ debug = [i \in 0..MaxFile |-> Missing]
  /\ rand = DefRandCount
  /\ count = [log |-> 0, debug |-> 0] /\ cleaned = FALSE

\* The administrator adds a line; only the last may be without an end.  What is
\* logged does not depend on later changes of the file, so they come first.
Edit(line) ==
  /\ count.log + count.debug = 0
  /\ Len(file) < MaxLines
  /\ Text # <<>> => Text[Len(Text)] = NL
  /\ file' = Append(file, line)
  /\ UNCHANGED <<proc, log, debug, rand, count, cleaned>>

\* The logs behind the names of the started server are new files.
Renamed(s, text) ==
  [init_log(s, "server", ReadInt(text, "[log]", "lognum", DefLogNum),
                         ReadInt(text, "[log]", "logsize", DefLogSize))
     EXCEPT !.files = NoFiles]

\* readSysCfg and InitLog: without the file (it cannot be opened) the start
\* fails; set_file creates the first file of the debug log.
Start(opened) ==
  /\ proc = "booted"
  /\ \/ ~opened /\ proc' = "failed" /\ UNCHANGED <<log, debug, rand>>
     \/ /\ opened /\ proc' = "running"
        /\ log' = Renamed(log, Text)
        /\ rand' = ReadInt(Text, "[levelcount]", "randcount", DefRandCount)
        /\ debug' = [debug EXCEPT ![0] = <<>>]
  /\ UNCHANGED <<file, count, cleaned>>

\* ProcessSetLevelCountRandom: the file is read again, if it can be opened.
ReadRandomConfig ==
  /\ proc = "running"
  /\ rand' = ReadInt(Text, "[levelcount]", "randcount", DefRandCount)
  /\ UNCHANGED <<file, proc, log, debug, count, cleaned>>

\* GetRand, for the reply with the number of players of a level: rand() is
\* divided by the limit, and the process ends if that is 0.
GetRand ==
  /\ proc = "running" /\ rand = 0
  /\ proc' = "failed"
  /\ UNCHANGED <<file, log, debug, rand, count, cleaned>>

WriteLog(len) ==
  /\ proc = "running" /\ Len(file) <= LoggedLines /\ count.log + count.debug < MaxMessages
  /\ log' = write_log(log, [n |-> count.log + 1, len |-> len])
  /\ count' = [count EXCEPT !.log = @ + 1]
  /\ UNCHANGED <<file, proc, debug, rand, cleaned>>

\* logMsg, at a level that is always written.
LogMsg(len, garbage) ==
  /\ proc = "running" /\ Len(file) <= LoggedLines /\ count.log + count.debug < MaxMessages
  /\ debug' = clib_write(debug, MaxFile, MaxSize, garbage,
                         [n |-> count.debug + 1, len |-> len])
  /\ count' = [count EXCEPT !.debug = @ + 1]
  /\ UNCHANGED <<file, proc, log, rand, cleaned>>

\* Somebody removes a file of the debug log, to make room.
CleanUp(i) ==
  /\ proc = "running" /\ debug[i] # Missing
  /\ debug' = [debug EXCEPT ![i] = Missing]
  /\ cleaned' = TRUE
  /\ UNCHANGED <<file, proc, log, rand, count>>

Next ==
  \/ \E line \in PlainLines \cup OddLines : Edit(line)
  \/ \E opened \in BOOLEAN : Start(opened)
  \/ ReadRandomConfig \/ GetRand
  \/ \E len \in Lengths : WriteLog(len)
  \/ \E len \in Lengths, garbage \in BOOLEAN : LogMsg(len, garbage)
  \/ \E i \in 0..MaxFile : CleanUp(i)

Spec == Init /\ [][Next]_vars

-----------------------------------------------------------------------------
(* What a file in the usual form says, read line by line                   *)

\* A line without the blanks around its parts.
Stripped(line) == SelectSeq(line, LAMBDA c : c \notin Blanks \cup {NL})

Header(line) == Len(Stripped(line)) = 1 /\ ToLower(Stripped(line)[1]) \in Headers

Plain(lines) == \A i \in DOMAIN lines : lines[i] \in PlainLines

\* The lines of the first section with this header.
SectionLines(lines, header) ==
  LET heads == {i \in DOMAIN lines : Header(lines[i])}
      mine == {i \in heads : ToLower(Stripped(lines[i])[1]) = header}
      next == {i \in heads : i > Min(mine)}
  IN  IF mine = {} THEN <<>>
      ELSE SubSeq(lines, Min(mine) + 1, IF next = {} THEN Len(lines) ELSE Min(next) - 1)

\* The value of the first line with this name, or the default.
Says(lines, header, key, default) ==
  LET named == SelectSeq(SectionLines(lines, header),
                 LAMBDA line : Len(Stripped(line)) >= 2
                   /\ ToLower(Stripped(line)[1]) = key /\ Stripped(line)[2] = "=")
      value == SubSeq(Stripped(named[1]), 3, Len(Stripped(named[1])))
  IN  IF named = <<>> THEN default
      ELSE IF value = <<>> THEN default ELSE atol(value)

-----------------------------------------------------------------------------
(* Properties                                                              *)

\* The searches in the text find what a reader of the lines finds: a key only in
\* its section, only as a whole name, the first one, in any spelling, with the
\* default for a missing or empty value.
ReadsWhatItSays ==
  Plain(file) =>
    /\ \A key \in {"lognum", "logsize"} :
         ReadInt(Text, "[log]", key, 7) = Says(file, "[log]", key, 7)
    /\ ReadInt(Text, "[levelcount]", "randcount", 7)
         = Says(file, "[levelcount]", "randcount", 7)

\* In any file, plain or not, what is read from a section depends on the lines of
\* that section alone.
SectionsSeparate ==
  \A header \in Headers : \A key \in {"lognum", "randcount"} :
    GetItemValue(Text, header, key) =
      IF \E i \in DOMAIN file : Header(file[i]) /\ ToLower(Stripped(file[i])[1]) = header
      THEN GetItemValue(<<header, NL>> \o FlattenSeq(SectionLines(file, header)), header, key)
      ELSE <<>>

\* After SetItemValue the key has the new value and every other key its old one.
SetThenGet ==
  Plain(file) /\ LocateSection(Text, "[log]").found =>
    /\ GetItemValue(SetItemValue(Text, "[log]", "lognum", <<"3">>), "[log]", "lognum") = <<"3">>
    /\ GetItemValue(SetItemValue(Text, "[log]", "lognum", <<"3">>), "[log]", "logsize")
         = GetItemValue(Text, "[log]", "logsize")
    /\ GetItemValue(SetItemValue(Text, "[log]", "lognum", <<"3">>), "[levelcount]", "randcount")
         = GetItemValue(Text, "[levelcount]", "randcount")

\* The file is read as it is meant, searched as one text though it is.
ConfigRead == ReadsWhatItSays /\ SectionsSeparate /\ SetThenGet

\* The messages of a file, by number.
Numbers(f) == {f[i].n : i \in DOMAIN f}

\* The ring holds the newest messages without a gap, at least as much as all its
\* files but one can hold, and no file exceeds the limit by more than a message,
\* whatever limits the configuration gives.
LogKeepsRecent ==
  LET positions == DOMAIN log.files
      kept == UNION {Numbers(log.files[p]) : p \in positions}
      total == SumFunction([p \in positions |-> Size(log.files[p])])
  IN  /\ count.log > 0 => count.log \in kept
      /\ \A m \in kept : m..count.log \subseteq kept
      /\ 1 \in kept \/ count.log = 0 \/ total >= (log.num - 1) * log.size
      /\ \A p \in positions : Size(log.files[p]) < log.size + Max(Lengths)
      /\ Cardinality(positions) <= log.num

\* The debug log is in order through rotations and removals of any of its files:
\* each file only has messages older than those of the files before it.  Unless
\* files were removed it holds the newest messages without a gap, and has dropped
\* none before all its old files were full.
DebugInOrder ==
  LET kept == (UNION {Numbers(debug[i]) : i \in 0..MaxFile}) \ {0}
  IN  /\ \A i, j \in 0..MaxFile : i < j /\ debug[j] # Missing /\ debug[i] # Missing =>
           \A m \in Numbers(debug[i]), n \in Numbers(debug[j]) : n < m
      /\ \A i \in 0..MaxFile : Size(debug[i]) <= MaxSize + Max(Lengths)
      /\ ~cleaned => /\ kept # {} => kept = Min(kept)..count.debug
                     /\ \/ 1 \in kept \/ count.debug = 0
                        \/ \A i \in 1..MaxFile : Size(debug[i]) > MaxSize
=============================================================================
