----------------------------- MODULE Logging_proofs -----------------------------
(***************************************************************************)
(* Proofs about the three parts of logging: RecoveryLog, whose files stay    *)
(* within the documented size; LogFile, which bounds its files and keeps the *)
(* newest lines without a gap wherever a call fails or the process is        *)
(* killed; and Elog, which puts out whole lines of the tags and levels that  *)
(* were asked for, for any number of threads, tags, slots and levels.        *)
(***************************************************************************)
EXTENDS Elog, LogFile, RecoveryLog, FiniteSetTheorems, SequenceTheorems,
        WellFoundedInduction, TLAPS

-----------------------------------------------------------------------------
(* RecoveryLog.                                                            *)

\* A line is bounded by its prefix and precision, and while one is about to be
\* appended the file is not above the threshold: the size was looked at before.
RecoveryInv ==
    /\ line \in Nat /\ line <= Prefix + TextMax
    /\ log \in Nat /\ log <= RecoveryLimit
    /\ backup \in Nat /\ backup <= RecoveryLimit
    /\ monitor = "append" => log <= Threshold

\* Any event's line is cut to the precision of the script's printf.
LEMMA LineBounded ==
    ASSUME NEW length \in Nat
    PROVE  LineLength(length) \in Nat /\ LineLength(length) <= Prefix + TextMax
BY RecoveryLogAssumption DEF LineLength

\* The first monitor finds no file.
LEMMA RecoveryStarts == RecoveryInit => RecoveryInv
BY RecoveryLogAssumption DEF RecoveryInit, RecoveryInv

\* Every step of the script, its failures and its death keep the bounds.
LEMMA RecoveryStep == RecoveryInv /\ [RecoveryNext]_recoveryVars => RecoveryInv'
<1> SUFFICES ASSUME RecoveryInv, [RecoveryNext]_recoveryVars PROVE RecoveryInv'
    OBVIOUS
<1> USE RecoveryLogAssumption DEF RecoveryInv
<1>1. CASE MonitorStart
    BY <1>1 DEF MonitorStart
<1>2. ASSUME NEW length \in Lengths, Event(length) PROVE RecoveryInv'
  <2>1. LineLength(length) \in Nat /\ LineLength(length) <= Prefix + TextMax
      BY LineBounded
  <2> QED
      BY <1>2, <2>1 DEF Event
<1>3. CASE AppendLine
    BY <1>3 DEF AppendLine
<1>4. CASE AppendFails
  <2>1. line \div 2 \in Nat /\ line \div 2 <= line
      OBVIOUS
  <2>2. log + line \div 2 <= RecoveryLimit
      BY <1>4, <2>1 DEF AppendFails
  <2> QED
      BY <1>4, <2>1, <2>2 DEF AppendFails
<1>5. CASE RotateFails
    BY <1>5 DEF RotateFails
<1>6. CASE MonitorDown
    BY <1>6 DEF MonitorDown
<1>7. CASE UNCHANGED recoveryVars
    BY <1>7 DEF recoveryVars
<1> QED
    BY <1>1, <1>2, <1>3, <1>4, <1>5, <1>6, <1>7 DEF RecoveryNext

\* Both files stay within the limit for every threshold, precision and prefix
\* that add up to no more than it.
THEOREM LogWithinLimit == RecoverySpec => []WithinLimit
<1>1. RecoveryInv => WithinLimit
    BY RecoveryLogAssumption DEF RecoveryInv, WithinLimit
<1> QED
    BY <1>1, RecoveryStarts, RecoveryStep, PTL DEF RecoverySpec

-----------------------------------------------------------------------------
(* LogFile.                                                                 *)

\* What the program may rely on between its steps: the log is there while it
\* has it open, the middle file is out of the way before the log is renamed,
\* and a line that is about to be written fits.
LogInv ==
    /\ LogTypeOK /\ SizesBounded
    /\ lineSize <= LogLimit
    /\ \/ pc = "idle" /\ open
       \/ pc \in {"check", "second", "first", "write"}
       => "log" \in DOMAIN files
    /\ pc = "first" => "first" \notin DOMAIN files
    /\ pc = "reopen" => "log" \notin DOMAIN files
    /\ pc = "write" => files["log"].bytes + lineSize <= LogLimit

-----------------------------------------------------------------------------
(* The operations on files.                                                 *)

Bounded(f) == f.bytes <= LogLimit \/ (f.lines = <<0>> /\ f.bytes = Legacy)

GoodFiles(fs) ==
    /\ DOMAIN fs \subseteq LogNames
    /\ \A n \in DOMAIN fs : fs[n] \in File /\ Bounded(fs[n])

\* A file without lines is within every limit.
LEMMA EmptyIsGood == Empty \in File /\ Bounded(Empty)
<1>1. Empty \in File
  BY DEF Empty, File
<1>2. Empty.bytes <= LogLimit
  BY LogFileAssumption DEF Empty
<1> QED BY <1>1, <1>2 DEF Bounded

\* fopen(path, "a") creates an empty log or leaves the one that is there.
LEMMA OpenedIsGood ==
    ASSUME GoodFiles(files)
    PROVE  GoodFiles(OpenedFiles) /\ "log" \in DOMAIN OpenedFiles
BY EmptyIsGood DEF GoodFiles, OpenedFiles, LogNames

\* A renamed file keeps its contents under a name of the program.
LEMMA RenamedIsGood ==
    ASSUME GoodFiles(files), NEW from \in DOMAIN files, NEW to \in LogNames, from # to
    PROVE  /\ GoodFiles(Renamed(from, to))
           /\ DOMAIN Renamed(from, to) = (DOMAIN files \ {from}) \cup {to}
BY DEF GoodFiles, Renamed

\* A line, or a part of it, that fits leaves the log within the limit.
LEMMA ExtendedIsGood ==
    ASSUME GoodFiles(files), "log" \in DOMAIN files, written \in Nat,
           NEW bytes \in Nat, files["log"].bytes + bytes <= LogLimit
    PROVE  GoodFiles(Extended(bytes)) /\ "log" \in DOMAIN Extended(bytes)
<1> DEFINE new == [lines |-> Append(files["log"].lines, written + 1),
                   bytes |-> files["log"].bytes + bytes]
<1>1. files["log"] \in File
  BY DEF GoodFiles
<1>2. files["log"].lines \in Seq(Nat) /\ files["log"].bytes \in Nat
  BY <1>1 DEF File
<1>3. Append(files["log"].lines, written + 1) \in Seq(Nat)
  BY <1>2
<1>4. new \in File
  BY <1>2, <1>3 DEF File
<1>5. Bounded(new)
  BY DEF Bounded
<1>6. /\ DOMAIN Extended(bytes) = DOMAIN files
      /\ \A n \in DOMAIN files : Extended(bytes)[n] = IF n = "log" THEN new ELSE files[n]
  BY DEF Extended
<1> HIDE DEF new
<1> QED BY <1>4, <1>5, <1>6 DEF GoodFiles

-----------------------------------------------------------------------------
(* The invariant.                                                           *)

\* The first process finds no log, or the one of an older version.
LEMMA LogStarts == LogInit => LogInv
<1> SUFFICES ASSUME LogInit PROVE LogInv
  OBVIOUS
<1>1. /\ pc = "down" /\ lineSize = 0 /\ written = 0
      /\ open \in BOOLEAN /\ LogLimit \in Nat
  BY LogFileAssumption DEF LogInit, LogInitWith
<1>2. CASE LogInitWith(NoFiles)
  <2>1. DOMAIN files = {}
    BY <1>2 DEF LogInitWith, NoFiles
  <2> QED BY <1>1, <2>1 DEF LogInv, LogTypeOK, SizesBounded
<1>3. CASE LogInitWith([n \in {"log"} |-> [lines |-> <<0>>, bytes |-> Legacy]])
  <2>1. DOMAIN files = {"log"} /\ files["log"] = [lines |-> <<0>>, bytes |-> Legacy]
    BY <1>3 DEF LogInitWith
  <2>2. <<0>> \in Seq(Nat)
    OBVIOUS
  <2>3. files["log"] \in File
    BY <2>1, <2>2, LogFileAssumption DEF File
  <2>4. files["log"].lines = <<0>> /\ files["log"].bytes = Legacy
    BY <2>1
  <2> QED
    BY <1>1, <2>1, <2>3, <2>4 DEF LogInv, LogTypeOK, SizesBounded, LogNames
<1> QED BY <1>2, <1>3 DEF LogInit

\* Every step of the program, every failure and a kill keep the invariant.
LEMMA LogStep == LogInv /\ [LogNext]_logVars => LogInv'
<1> SUFFICES ASSUME LogInv, [LogNext]_logVars PROVE LogInv'
  OBVIOUS
<1>1. GoodFiles(files) /\ lineSize \in Nat /\ written \in Nat /\ open \in BOOLEAN
  BY DEF LogInv, LogTypeOK, SizesBounded, GoodFiles, Bounded
<1>2. GoodFiles(files') =>
        /\ DOMAIN files' \subseteq LogNames
        /\ \A n \in DOMAIN files' : files'[n] \in File
        /\ SizesBounded'
  BY DEF SizesBounded, GoodFiles, Bounded
<1>3. CASE LogStart
  <2>1. GoodFiles(files') /\ "log" \in DOMAIN files'
    BY <1>1, <1>3, OpenedIsGood DEF LogStart
  <2> QED BY <1>1, <1>2, <1>3, <2>1 DEF LogStart, LogInv, LogTypeOK
<1>4. ASSUME NEW s \in Sizes, LogLine(s) PROVE LogInv'
  <2>1. lineSize' \in Nat /\ lineSize' <= LogLimit
    BY <1>4, LogFileAssumption DEF LogLine
  <2> QED BY <1>1, <1>2, <1>4, <2>1 DEF LogLine, LogInv, LogTypeOK, Steps
<1>5. CASE CheckSize
  <2>1. files["log"].bytes \in Nat
    BY <1>5 DEF CheckSize, LogInv, LogTypeOK, File
  <2>2. Fits => files["log"].bytes + lineSize <= LogLimit
    BY <1>1, <2>1, LogFileAssumption DEF Fits
  <2> QED BY <1>1, <1>2, <1>5, <2>2 DEF CheckSize, LogInv, LogTypeOK, Steps
<1>6. CASE RenameSecond
  <2>1. GoodFiles(files') /\ "log" \in DOMAIN files' /\ "first" \notin DOMAIN files'
    <3>1. "log" \in DOMAIN files
      BY <1>6 DEF RenameSecond, LogInv
    <3>2. CASE "first" \in DOMAIN files
      <4>1. /\ GoodFiles(Renamed("first", "second"))
            /\ DOMAIN Renamed("first", "second") = (DOMAIN files \ {"first"}) \cup {"second"}
        BY <1>1, <3>2, RenamedIsGood DEF LogNames
      <4> QED BY <1>6, <3>1, <3>2, <4>1 DEF RenameSecond
    <3>3. CASE "first" \notin DOMAIN files
      BY <1>1, <1>6, <3>1, <3>3 DEF RenameSecond
    <3> QED BY <3>2, <3>3
  <2> QED BY <1>1, <1>2, <1>6, <2>1 DEF RenameSecond, LogInv, LogTypeOK, Steps
<1>7. CASE RenameFirst
  <2>1. "log" \in DOMAIN files
    BY <1>7 DEF RenameFirst, LogInv
  <2>2. /\ GoodFiles(Renamed("log", "first"))
        /\ DOMAIN Renamed("log", "first") = (DOMAIN files \ {"log"}) \cup {"first"}
    BY <1>1, <2>1, RenamedIsGood DEF LogNames
  <2>3. GoodFiles(files') /\ "log" \notin DOMAIN files'
    BY <1>7, <2>2 DEF RenameFirst
  <2> QED BY <1>1, <1>2, <1>7, <2>3 DEF RenameFirst, LogInv, LogTypeOK, Steps
<1>8. CASE Reopen
  <2>1. GoodFiles(files') /\ "log" \in DOMAIN files'
    BY <1>1, <1>8, OpenedIsGood DEF Reopen
  <2>2. files'["log"].bytes = 0
    BY <1>8 DEF Reopen, LogInv, OpenedFiles, Empty
  <2>3. files'["log"].bytes + lineSize <= LogLimit
    BY <1>1, <2>2 DEF LogInv
  <2> QED BY <1>1, <1>2, <1>8, <2>1, <2>3 DEF Reopen, LogInv, LogTypeOK, Steps
<1>9. CASE Write
  <2>1. "log" \in DOMAIN files /\ files["log"].bytes + lineSize <= LogLimit
    BY <1>9 DEF Write, LogInv
  <2>2. GoodFiles(files') /\ "log" \in DOMAIN files'
    BY <1>1, <1>9, <2>1, ExtendedIsGood DEF Write
  <2> QED BY <1>1, <1>2, <1>9, <2>2 DEF Write, LogInv, LogTypeOK
<1>10. CASE WriteCut
  <2>1. PICK bytes \in 1..lineSize : files' = Extended(bytes)
    BY <1>10 DEF WriteCut
  <2>2. "log" \in DOMAIN files /\ files["log"].bytes + lineSize <= LogLimit
    BY <1>10 DEF WriteCut, LogInv
  <2>3. files["log"].bytes \in Nat
    BY <2>2 DEF LogInv, LogTypeOK, File
  <2>4. bytes \in Nat /\ files["log"].bytes + bytes <= LogLimit
    BY <1>1, <2>1, <2>2, <2>3, LogFileAssumption
  <2>5. GoodFiles(files')
    BY <1>1, <2>1, <2>2, <2>4, ExtendedIsGood
  <2>6. /\ pc' = "idle" /\ ~open' /\ open' \in BOOLEAN
        /\ lineSize' = lineSize /\ written' = written + 1
    BY <1>10 DEF WriteCut
  <2> QED BY <1>1, <1>2, <2>5, <2>6 DEF LogInv, LogTypeOK
<1>11. CASE LogFails \/ LogDown
  BY <1>1, <1>2, <1>11 DEF LogFails, LogDown, LogInv, LogTypeOK
<1>12. CASE UNCHANGED logVars
  BY <1>12 DEF logVars, LogInv, LogTypeOK, SizesBounded
<1> QED
  BY <1>3, <1>4, <1>5, <1>6, <1>7, <1>8, <1>9, <1>10, <1>11, <1>12 DEF LogNext

\* LogInv is inductive over writes, rotations that fail at any call, kills and
\* restarts (elog_port.c).
THEOREM LogInvariant == LogSpec => []LogInv
BY LogStarts, LogStep, PTL DEF LogSpec

-----------------------------------------------------------------------------
(* No newer line is lost than those of the oldest file.                     *)

NumbersIn(f) == {f.lines[i] : i \in DOMAIN f.lines}

\* A file that keeps its lines, under any name and with others after them,
\* keeps their numbers.
LEMMA AppendKeeps ==
    ASSUME NEW f \in File, NEW k \in Nat, NEW g, g.lines = Append(f.lines, k)
    PROVE  NumbersIn(f) \subseteq NumbersIn(g)
<1>1. f.lines \in Seq(Nat)
  BY DEF File
<1>2. \A i \in DOMAIN f.lines : i \in DOMAIN g.lines /\ g.lines[i] = f.lines[i]
  BY <1>1
<1> QED BY <1>2 DEF NumbersIn

\* The lines of the two newer files are, after a step, still in one of the files.
LEMMA NewerStay ==
    ASSUME LogInv, [LogNext]_logVars, NEW n \in {"first", "log"}, n \in DOMAIN files
    PROVE  \E k \in LogNames : k \in DOMAIN files' /\ NumbersIn(files[n]) \subseteq NumbersIn(files'[k])
<1> USE DEF LogNames
<1>1. CASE LogStart \/ Reopen
  <2>1. n \in DOMAIN files' /\ files'[n] = files[n]
    BY <1>1 DEF LogStart, Reopen, OpenedFiles
  <2> QED BY <2>1
<1>2. CASE RenameSecond
  <2>1. CASE "first" \in DOMAIN files /\ n = "first"
    <3>1. "second" \in DOMAIN files' /\ files'["second"] = files[n]
      BY <1>2, <2>1 DEF RenameSecond, Renamed
    <3> QED BY <3>1
  <2>2. CASE ~("first" \in DOMAIN files /\ n = "first")
    <3>1. n \in DOMAIN files' /\ files'[n] = files[n]
      BY <1>2, <2>2 DEF RenameSecond, Renamed
    <3> QED BY <3>1
  <2> QED BY <2>1, <2>2
<1>3. CASE RenameFirst
  <2>1. n = "log"
    BY <1>3 DEF RenameFirst, LogInv
  <2>2. "first" \in DOMAIN files' /\ files'["first"] = files[n]
    BY <1>3, <2>1 DEF RenameFirst, Renamed
  <2> QED BY <2>2
<1>4. CASE Write \/ WriteCut
  <2>1. PICK bytes : files' = Extended(bytes)
    BY <1>4 DEF Write, WriteCut
  <2>2. n \in DOMAIN files' /\ n \in LogNames
    BY <2>1 DEF Extended
  <2>3. CASE n = "log"
    <3>1. files'[n].lines = Append(files[n].lines, written + 1)
      BY <2>1, <2>3 DEF Extended
    <3>2. files[n] \in File /\ written + 1 \in Nat
      BY DEF LogInv, LogTypeOK
    <3>3. NumbersIn(files[n]) \subseteq NumbersIn(files'[n])
      BY <3>1, <3>2, AppendKeeps
    <3> QED BY <2>2, <3>3
  <2>4. CASE n # "log"
    <3>1. files'[n] = files[n]
      BY <2>1, <2>4 DEF Extended
    <3> QED BY <2>2, <3>1
  <2> QED BY <2>3, <2>4
<1>5. CASE UNCHANGED files
  BY <1>5
<1> QED
  BY <1>1, <1>2, <1>3, <1>4, <1>5
     DEF LogNext, LogLine, CheckSize, LogFails, LogDown, logVars

\* No failed rotation, kill or restart throws a line of the newer files away.
THEOREM OnlyOldestGo == LogSpec => OldestGoFirst
<1>1. LogInv /\ [LogNext]_logVars =>
        [LinesOf("first") \cup LinesOf("log") \subseteq UNION {LinesOf(n)' : n \in LogNames}]_logVars
  <2> SUFFICES ASSUME LogInv, [LogNext]_logVars, NEW n \in {"first", "log"}, NEW x \in LinesOf(n)
               PROVE  \E k \in LogNames : x \in LinesOf(k)'
    BY Zenon
  <2>1. n \in DOMAIN files /\ x \in NumbersIn(files[n])
    BY DEF LinesOf, NumbersIn
  <2>2. PICK k \in LogNames : k \in DOMAIN files' /\ NumbersIn(files[n]) \subseteq NumbersIn(files'[k])
    BY <2>1, NewerStay
  <2>3. x \in LinesOf(k)'
    BY <2>1, <2>2 DEF LinesOf, NumbersIn
  <2> QED BY <2>3
<1> QED BY <1>1, LogInvariant, PTL DEF LogSpec, OldestGoFirst

\* The log's variables keep their types, and only the log and its two backups exist.
THEOREM LogTypeCorrect == LogSpec => []LogTypeOK
<1>1. LogInv => LogTypeOK
  BY DEF LogInv
<1> QED BY <1>1, LogInvariant, PTL

\* Neither the log nor a backup ever exceeds the limit of a rotation.
THEOREM SizesStayBounded == LogSpec => []SizesBounded
<1>1. LogInv => SizesBounded
  BY DEF LogInv
<1> QED BY <1>1, LogInvariant, PTL

-----------------------------------------------------------------------------
(* The newest lines, without a gap.                                         *)

\* The numbers after `low', up to `high', in order.
After(low, high) == [i \in 1..(high - low) |-> low + i]

\* The lines of a file, none if it does not exist.
Part(n) == IF n \in DOMAIN files THEN files[n].lines ELSE <<>>

\* The three files divide the newest lines among them: each goes on where the
\* older one ends, and the log ends with the line that was written last.
Divided(a, b, c) ==
    /\ a <= b /\ b <= c /\ c <= written
    /\ Part("second") = After(a, b)
    /\ Part("first") = After(b, c)
    /\ Part("log") = After(c, written)
    /\ written > 0 => a < written

\* A file without lines has no bytes, so that one to be renamed has lines.
HistoryInv ==
    /\ LogInv
    /\ \A n \in DOMAIN files : files[n].lines = <<>> => files[n].bytes = 0
    /\ pc \in {"second", "first"} => files["log"].bytes > 0
    /\ \E a, b, c \in Int : Divided(a, b, c)

\* Joining and extending such sequences.
LEMMA AfterIsSeq ==
    ASSUME NEW a \in Int, NEW b \in Int, a <= b
    PROVE  After(a, b) \in Seq(Int) /\ Len(After(a, b)) = b - a
BY DEF After

LEMMA AfterJoins ==
    ASSUME NEW a \in Int, NEW b \in Int, NEW c \in Int, a <= b, b <= c
    PROVE  After(a, b) \o After(b, c) = After(a, c)
<1>1. /\ After(a, b) \in Seq(Int) /\ Len(After(a, b)) = b - a
      /\ After(b, c) \in Seq(Int) /\ Len(After(b, c)) = c - b
      /\ After(a, c) \in Seq(Int) /\ Len(After(a, c)) = c - a
  BY AfterIsSeq
<1> DEFINE s == After(a, b) \o After(b, c)
<1>2. /\ s \in Seq(Int) /\ Len(s) = (b - a) + (c - b)
      /\ \A i \in 1..((b - a) + (c - b)) :
            s[i] = IF i <= b - a THEN After(a, b)[i] ELSE After(b, c)[i - (b - a)]
  <2> DEFINE p == After(a, b)
             q == After(b, c)
  <2>1. p \in Seq(Int) /\ q \in Seq(Int) /\ Len(p) = b - a /\ Len(q) = c - b
    BY <1>1
  <2> HIDE DEF p, q
  <2>2. /\ p \o q \in Seq(Int) /\ Len(p \o q) = Len(p) + Len(q)
        /\ \A i \in 1..(Len(p) + Len(q)) :
              (p \o q)[i] = IF i <= Len(p) THEN p[i] ELSE q[i - Len(p)]
    BY <2>1, ConcatProperties
  <2>3. s = p \o q
    BY DEF p, q
  <2>4. /\ s \in Seq(Int) /\ Len(s) = (b - a) + (c - b)
        /\ \A i \in 1..((b - a) + (c - b)) :
              s[i] = IF i <= b - a THEN p[i] ELSE q[i - (b - a)]
    BY <2>1, <2>2, <2>3
  <2> QED BY <2>4 DEF p, q
<1> HIDE DEF s
<1>3. \A i \in 1..(c - a) : s[i] = After(a, c)[i]
  <2> TAKE i \in 1..(c - a)
  <2>0. /\ i \in 1..((b - a) + (c - b))
        /\ i > b - a => i - (b - a) \in 1..(c - b)
    OBVIOUS
  <2>1. i <= b - a => After(a, b)[i] = a + i
    BY DEF After
  <2>2. i > b - a => After(b, c)[i - (b - a)] = b + (i - (b - a))
    BY <2>0 DEF After
  <2>3. After(a, c)[i] = a + i
    BY DEF After
  <2> QED BY <1>2, <2>0, <2>1, <2>2, <2>3
<1>4. Len(s) = Len(After(a, c))
  BY <1>1, <1>2
<1>5. s = After(a, c)
  BY <1>1, <1>2, <1>3, <1>4, SeqEqual
<1> QED BY <1>5 DEF s

LEMMA AfterExtends ==
    ASSUME NEW a \in Int, NEW n \in Int, a <= n
    PROVE  Append(After(a, n), n + 1) = After(a, n + 1)
<1>1. After(n, n + 1) = <<n + 1>>
  BY DEF After
<1>2. Append(After(a, n), n + 1) = After(a, n) \o <<n + 1>>
  <2>1. After(a, n) \in Seq(Int) /\ n + 1 \in Int
    BY AfterIsSeq
  <2> QED BY <2>1, AppendIsConcat
<1>3. After(a, n) \o After(n, n + 1) = After(a, n + 1)
  <2>1. n + 1 \in Int /\ n <= n + 1
    OBVIOUS
  <2> QED BY <2>1, AfterJoins
<1> QED BY <1>1, <1>2, <1>3

LEMMA AfterNothing == \A a \in Int : After(a, a) = <<>>
BY DEF After

\* What the reader finds is one run of numbers up to the last.
LEMMA DividedIsNewest ==
    ASSUME written \in Nat, NEW a \in Int, NEW b \in Int, NEW c \in Int, Divided(a, b, c)
    PROVE  NewestKept
<1>1. History = (After(a, b) \o After(b, c)) \o After(c, written)
  BY DEF History, Part, Divided
<1>2. History = After(a, written)
  <2>1. a <= b /\ b <= c /\ a <= c /\ c <= written /\ written \in Int
    BY DEF Divided
  <2>2. After(a, b) \o After(b, c) = After(a, c)
    BY <2>1, AfterJoins
  <2>3. After(a, c) \o After(c, written) = After(a, written)
    BY <2>1, AfterJoins
  <2> QED BY <1>1, <2>2, <2>3
<1>3. Len(History) = written - a /\ \A i \in 1..(written - a) : History[i] = a + i
  BY <1>2 DEF Divided, After
<1>4. ASSUME written > 0 PROVE History # <<>> /\ History[Len(History)] = written
  <2>1. written - a \in 1..(written - a)
    BY <1>4 DEF Divided
  <2> QED BY <1>3, <2>1
<1>5. \A i \in 1..(Len(History) - 1) : History[i + 1] = History[i] + 1
  BY <1>3 DEF Divided
<1> QED BY <1>4, <1>5 DEF NewestKept

\* There is no line, or the one that an older version has left.
LEMMA HistoryStarts == LogInit => HistoryInv
<1> SUFFICES ASSUME LogInit PROVE HistoryInv
  OBVIOUS
<1>1. LogInv /\ pc = "down" /\ written = 0
  BY LogStarts DEF LogInit, LogInitWith
<1>2. CASE LogInitWith(NoFiles)
  <2>1. DOMAIN files = {}
    BY <1>2 DEF LogInitWith, NoFiles
  <2>2. Divided(0, 0, 0)
    BY <1>1, <2>1, AfterNothing DEF Divided, Part
  <2> QED BY <1>1, <2>1, <2>2 DEF HistoryInv
<1>3. CASE LogInitWith([n \in {"log"} |-> [lines |-> <<0>>, bytes |-> Legacy]])
  <2>1. DOMAIN files = {"log"} /\ files["log"].lines = <<0>>
    BY <1>3 DEF LogInitWith
  <2>2. After(-1, 0) = <<0>>
    BY DEF After
  <2>3. -1 \in Int /\ Divided(-1, -1, -1)
    BY <1>1, <2>1, <2>2, AfterNothing DEF Divided, Part
  <2> QED BY <1>1, <2>1, <2>3 DEF HistoryInv
<1> QED BY <1>2, <1>3 DEF LogInit

\* Steps that leave the lines where they are.
LEMMA LinesStay ==
    ASSUME HistoryInv, LogInv', written' = written,
           \A n \in LogNames : Part(n)' = Part(n)
    PROVE  \E a, b, c \in Int : Divided(a, b, c)'
<1>1. PICK a \in Int, b \in Int, c \in Int : Divided(a, b, c)
  BY DEF HistoryInv
<1>2. Divided(a, b, c)'
  BY <1>1 DEF Divided, LogNames
<1> QED BY <1>2

\* A rotation hands the run on from file to file, and a write goes on with it.
LEMMA HistoryStep == HistoryInv /\ [LogNext]_logVars => HistoryInv'
<1> SUFFICES ASSUME HistoryInv, [LogNext]_logVars PROVE HistoryInv'
  OBVIOUS
<1>1. LogInv /\ LogInv' /\ written \in Nat
  BY LogStep DEF HistoryInv, LogInv, LogTypeOK
<1>2. PICK a \in Int, b \in Int, c \in Int : Divided(a, b, c)
  BY DEF HistoryInv
<1>0. \A n \in DOMAIN files : files[n].lines = <<>> => files[n].bytes = 0
  BY DEF HistoryInv
<1>3. CASE LogStart \/ Reopen
  <2>1. /\ pc' \in {"idle", "write"} /\ written' = written
        /\ files' = OpenedFiles
    BY <1>3 DEF LogStart, Reopen
  <2>2. \A n \in LogNames : Part(n)' = Part(n)
    BY <2>1 DEF Part, OpenedFiles, Empty
  <2>3. \A n \in DOMAIN files' : files'[n].lines = <<>> => files'[n].bytes = 0
    BY <2>1 DEF HistoryInv, OpenedFiles, Empty
  <2> QED BY <1>1, <2>1, <2>2, <2>3, LinesStay DEF HistoryInv
<1>4. CASE CheckSize
  <2>1. UNCHANGED <<files, written>>
    BY <1>4 DEF CheckSize
  <2>2. pc' = "second" => files["log"].bytes > 0
    <3>1. files["log"].bytes \in Nat /\ lineSize \in Nat /\ lineSize <= LogLimit /\ LogLimit \in Nat
      BY <1>1, <1>4, LogFileAssumption DEF CheckSize, LogInv, LogTypeOK, File
    <3> QED BY <1>4, <3>1 DEF CheckSize, Fits
  <2>3. \A n \in LogNames : Part(n)' = Part(n)
    BY <2>1 DEF Part
  <2>4. pc' \in {"write", "second"}
    BY <1>4 DEF CheckSize
  <2> QED BY <1>1, <2>1, <2>2, <2>3, <2>4, LinesStay DEF HistoryInv
<1>5. CASE RenameSecond
  <2>1. /\ pc = "second" /\ pc' = "first" /\ written' = written
        /\ "log" \in DOMAIN files /\ files["log"].bytes > 0
    BY <1>1, <1>5 DEF RenameSecond, HistoryInv, LogInv
  <2>2. Part("log") = After(c, written) /\ Part("log") # <<>>
    BY <1>2, <2>1 DEF Divided, Part, HistoryInv
  <2>3. c < written
    BY <1>1, <1>2, <2>2, AfterNothing DEF Divided
  <2>4. CASE "first" \in DOMAIN files
    <3>1. files' = Renamed("first", "second")
      BY <1>5, <2>4 DEF RenameSecond
    <3>2. /\ Part("second")' = Part("first") /\ Part("first")' = <<>>
          /\ Part("log")' = Part("log")
          /\ files'["log"] = files["log"]
      BY <2>1, <2>4, <3>1 DEF Part, Renamed
    <3>3. Divided(b, c, c)'
      BY <1>1, <1>2, <2>1, <2>3, <3>2, AfterNothing DEF Divided
    <3>4. \A n \in DOMAIN files' : files'[n].lines = <<>> => files'[n].bytes = 0
      BY <2>4, <3>1 DEF Renamed, HistoryInv
    <3> QED BY <1>1, <2>1, <3>2, <3>3, <3>4 DEF HistoryInv
  <2>5. CASE "first" \notin DOMAIN files
    <3>1. files' = files
      BY <1>5, <2>5 DEF RenameSecond
    <3>2. \A n \in LogNames : Part(n)' = Part(n)
      BY <3>1 DEF Part
    <3> QED BY <1>1, <2>1, <3>1, <3>2, LinesStay DEF HistoryInv
  <2> QED BY <2>4, <2>5
<1>6. CASE RenameFirst
  <2>1. /\ "log" \in DOMAIN files /\ "first" \notin DOMAIN files
        /\ pc' = "reopen" /\ written' = written /\ files' = Renamed("log", "first")
    BY <1>1, <1>6 DEF RenameFirst, LogInv
  <2>2. /\ Part("second")' = Part("second") /\ Part("first")' = Part("log")
        /\ Part("log")' = <<>> /\ Part("first") = <<>>
    BY <2>1 DEF Part, Renamed
  <2>3. b = c
    <3>1. After(b, c) = <<>>
      BY <1>2, <2>2 DEF Divided
    <3>2. b <= c /\ Len(After(b, c)) = c - b
      BY <1>2, AfterIsSeq DEF Divided
    <3> QED BY <3>1, <3>2
  <2> PICK d \in Int : d = written
    BY <1>1
  <2>4. Divided(a, b, d)'
    BY <1>1, <1>2, <2>1, <2>2, <2>3, AfterNothing DEF Divided
  <2>5. \A n \in DOMAIN files' : files'[n].lines = <<>> => files'[n].bytes = 0
    <3>1. \A n \in DOMAIN files' :
             \/ n = "first" /\ files'[n] = files["log"]
             \/ n \in DOMAIN files /\ files'[n] = files[n]
      BY <2>1 DEF Renamed
    <3>2. files["log"].lines = <<>> => files["log"].bytes = 0
      BY <1>0, <2>1
    <3> QED
      <4> TAKE n \in DOMAIN files'
      <4>1. CASE files'[n] = files["log"]
        BY <3>2, <4>1
      <4>2. CASE n \in DOMAIN files /\ files'[n] = files[n]
        BY <1>0, <4>2
      <4> QED BY <3>1, <4>1, <4>2
  <2> QED BY <1>1, <2>1, <2>4, <2>5 DEF HistoryInv
<1>7. CASE Write \/ WriteCut
  <2>1. PICK bytes \in Nat : files' = Extended(bytes)
    BY <1>1, <1>7 DEF Write, WriteCut, LogInv, LogTypeOK
  <2>2. "log" \in DOMAIN files /\ written' = written + 1 /\ pc' = "idle"
    BY <1>1, <1>7 DEF Write, WriteCut, LogInv
  <2>3. /\ Part("second")' = Part("second") /\ Part("first")' = Part("first")
        /\ Part("log")' = Append(Part("log"), written + 1)
    BY <2>1, <2>2 DEF Part, Extended
  <2>4. Part("log")' = After(c, written + 1)
    <3>1. written \in Int /\ c <= written /\ Part("log") = After(c, written)
      BY <1>1, <1>2 DEF Divided
    <3>2. Append(After(c, written), written + 1) = After(c, written + 1)
      BY <3>1, AfterExtends
    <3> QED BY <2>3, <3>1, <3>2
  <2>5. Divided(a, b, c)'
    BY <1>1, <1>2, <2>2, <2>3, <2>4 DEF Divided
  <2>6. \A n \in DOMAIN files' : files'[n].lines = <<>> => files'[n].bytes = 0
    <3>1. files["log"].lines \in Seq(Nat) /\ written + 1 \in Nat
      BY <1>1, <2>2 DEF LogInv, LogTypeOK, File
    <3>2. Append(files["log"].lines, written + 1) # <<>>
      BY <3>1, AppendProperties
    <3> QED BY <1>0, <2>1, <3>2 DEF Extended
  <2> QED BY <1>1, <2>2, <2>5, <2>6 DEF HistoryInv
<1>8. CASE (\E s \in Sizes : LogLine(s)) \/ LogFails \/ LogDown \/ UNCHANGED logVars
  <2>1. UNCHANGED <<files, written>> /\ (pc' \in {"idle", "down", "check"} \/ pc' = pc)
    BY <1>8 DEF LogLine, LogFails, LogDown, logVars
  <2>2. \A n \in LogNames : Part(n)' = Part(n)
    BY <2>1 DEF Part
  <2> QED BY <1>1, <2>1, <2>2, LinesStay DEF HistoryInv
<1> QED
  BY <1>3, <1>4, <1>5, <1>6, <1>7, <1>8 DEF LogNext

\* elog_port_output() and elog_port_init(), whatever call fails and wherever the
\* process is killed, leave the newest lines in order and without a gap, in files
\* within the limit, of which only the oldest is ever given up.
THEOREM KeepsTheLog == LogSpec => LogKept
<1>1. HistoryInv => LogTypeOK /\ SizesBounded /\ NewestKept
  <2>1. HistoryInv => LogTypeOK /\ SizesBounded /\ written \in Nat
    BY DEF HistoryInv, LogInv, LogTypeOK
  <2> QED BY <2>1, DividedIsNewest DEF HistoryInv
<1> QED
  BY <1>1, HistoryStarts, HistoryStep, OnlyOldestGo, PTL DEF LogSpec, LogKept

-----------------------------------------------------------------------------
(* Elog.                                                                    *)

InLock(t) == thread[t].step \in {"inside", "emit", "unlock"}

Call == [step : {"idle", "lock", "inside", "emit", "unlock", "left"},
         job : {"get", "set", "passed", "filtered", "write"},
         tag : Tags, level : Levels]

\* The mutex is taken exactly while a thread is inside, which makes the static
\* buffer that thread's own from Format to the end of its output.
LockInv ==
    /\ thread \in [Threads -> Call]
    /\ lock \in BOOLEAN
    /\ \A t \in Threads : InLock(t) => lock
    /\ \A t, u \in Threads : InLock(t) /\ InLock(u) => t = u
    /\ lock => \E t \in Threads : InLock(t)
    /\ LinesWhole

-----------------------------------------------------------------------------
(* A step changes the call of one thread.                                   *)

\* A thread that goes from one step outside of the lock to another, or from one
\* inside to another, and leaves the lock and the buffer alone.
LEMMA MovesOnItsSide ==
    ASSUME LockInv, NEW t \in Threads, NEW c \in Call,
           thread' = [thread EXCEPT ![t] = c], UNCHANGED <<lock, buffer>>,
           c.step \in {"inside", "emit", "unlock"} <=> InLock(t),
           c.step = "emit" => buffer = t
    PROVE  LockInv'
<1>1. /\ thread' \in [Threads -> Call]
      /\ thread'[t] = c /\ \A u \in Threads \ {t} : thread'[u] = thread[u]
  BY DEF LockInv
<1>2. \A u \in Threads : InLock(u)' <=> InLock(u)
  BY <1>1 DEF InLock
<1>3. LinesWhole'
  BY <1>1 DEF LockInv, LinesWhole
<1> QED BY <1>1, <1>2, <1>3 DEF LockInv

\* The lock is free when nobody logs.
LEMMA ElogStarts == ElogInit => LockInv
<1> SUFFICES ASSUME ElogInit PROVE LockInv
  OBVIOUS
<1>1. Idle \in Call
  <2>1. (CHOOSE g \in Tags : TRUE) \in Tags
    BY ElogAssumption
  <2> QED BY <2>1, ElogAssumption DEF Idle, Call
<1>2. thread \in [Threads -> Call] /\ \A t \in Threads : thread[t] = Idle
  BY <1>1 DEF ElogInit
<1>3. \A t \in Threads : thread[t].step = "idle"
  BY <1>2 DEF Idle
<1>4. lock \in BOOLEAN /\ ~lock
  BY DEF ElogInit
<1> QED BY <1>2, <1>3, <1>4 DEF LockInv, InLock, LinesWhole

\* Every step of a thread keeps the lock's invariant.
LEMMA ThreadKeepsLock ==
    ASSUME LockInv, NEW t \in Threads,
           \/ Lock(t) \/ Unlock(t)
           \/ \E g \in Tags, l \in Levels : Output(t, g, l) \/ SetTagLevel(t, g, l)
           \/ GetLevel(t) \/ Return(t) \/ Format(t) \/ Emit(t) \/ Change(t)
    PROVE  LockInv'
<1>0. thread[t] \in Call
  BY DEF LockInv
<1> DEFINE At(s) == [thread[t] EXCEPT !.step = s]
<1>1. \A s \in {"idle", "lock", "inside", "emit", "unlock", "left"} : At(s) \in Call /\ At(s).step = s
  BY <1>0 DEF Call
<1>2. \A s : Step(t, s) => thread' = [thread EXCEPT ![t] = At(s)]
  BY DEF Step, LockInv
<1> HIDE DEF At
<1>3. CASE Lock(t)
  <2>1. ~lock /\ lock' /\ lock' \in BOOLEAN /\ thread' = [thread EXCEPT ![t] = At("inside")]
    BY <1>2, <1>3 DEF Lock
  <2>2. \A u \in Threads : ~InLock(u)
    BY <2>1 DEF LockInv
  <2>3. /\ thread' \in [Threads -> Call]
        /\ thread'[t].step = "inside" /\ \A u \in Threads \ {t} : thread'[u] = thread[u]
    BY <1>1, <2>1 DEF LockInv
  <2>4. \A u \in Threads : InLock(u)' <=> u = t
    BY <2>2, <2>3 DEF InLock
  <2>5. LinesWhole'
    BY <2>2, <2>3 DEF LinesWhole, InLock
  <2> QED BY <2>1, <2>3, <2>4, <2>5 DEF LockInv
<1>4. CASE Unlock(t)
  <2>1. ~lock' /\ lock' \in BOOLEAN /\ thread' = [thread EXCEPT ![t] = At("left")]
    BY <1>2, <1>4 DEF Unlock
  <2>2. InLock(t)
    BY <1>4 DEF Unlock, InLock
  <2>3. /\ thread' \in [Threads -> Call]
        /\ thread'[t].step = "left" /\ \A u \in Threads \ {t} : thread'[u] = thread[u]
    BY <1>1, <2>1 DEF LockInv
  <2>4. \A u \in Threads : ~InLock(u)'
    BY <2>2, <2>3 DEF LockInv, InLock
  <2>5. LinesWhole'
    BY <2>4 DEF LinesWhole, InLock
  <2> QED BY <2>1, <2>3, <2>4, <2>5 DEF LockInv
<1>5. CASE \E g \in Tags, l \in Levels : Output(t, g, l) \/ SetTagLevel(t, g, l)
  <2>1. PICK c \in Call : /\ c.step = "lock" /\ thread[t].step = "idle"
                          /\ thread' = [thread EXCEPT ![t] = c]
                          /\ UNCHANGED <<lock, buffer>>
    <3>1. PICK g \in Tags, l \in Levels : Output(t, g, l) \/ SetTagLevel(t, g, l)
      BY <1>5
    <3>2. \A j \in {"get", "set"} : [step |-> "lock", job |-> j, tag |-> g, level |-> l] \in Call
      BY DEF Call
    <3> QED BY <3>1, <3>2 DEF Output, SetTagLevel
  <2>2. ~InLock(t)
    BY <2>1 DEF InLock
  <2> QED BY <2>1, <2>2, MovesOnItsSide
<1>6. CASE GetLevel(t)
  <2>1. PICK c \in Call : /\ c.step = "unlock" /\ thread[t].step = "inside"
                          /\ thread' = [thread EXCEPT ![t] = c]
                          /\ UNCHANGED <<lock, buffer>>
    <3> DEFINE c == [thread[t] EXCEPT !.step = "unlock", !.job = IF Passes(t) THEN "passed" ELSE "filtered"]
    <3>1. c \in Call /\ c.step = "unlock"
      BY <1>0 DEF Call
    <3>2. thread' = [thread EXCEPT ![t] = c]
      BY <1>6 DEF GetLevel, LockInv
    <3> QED BY <1>6, <3>1, <3>2 DEF GetLevel
  <2>2. InLock(t)
    BY <2>1 DEF InLock
  <2> QED BY <2>1, <2>2, MovesOnItsSide
<1>7. CASE Return(t)
  <2>1. PICK c \in Call : /\ c.step \in {"lock", "idle"} /\ thread[t].step = "left"
                          /\ thread' = [thread EXCEPT ![t] = c]
                          /\ UNCHANGED <<lock, buffer>>
    <3> DEFINE c == [thread[t] EXCEPT !.step = "lock", !.job = "write"]
    <3>1. c \in Call /\ c.step = "lock"
      BY <1>0 DEF Call
    <3>2. Idle \in Call /\ Idle.step = "idle"
      BY ElogAssumption DEF Idle, Call
    <3>3. thread' = [thread EXCEPT ![t] = c] \/ thread' = [thread EXCEPT ![t] = Idle]
      BY <1>7 DEF Return, LockInv
    <3> QED BY <1>7, <3>1, <3>2, <3>3 DEF Return
  <2>2. ~InLock(t)
    BY <2>1 DEF InLock
  <2> QED BY <2>1, <2>2, MovesOnItsSide
<1>8. CASE Format(t)
  <2>1. /\ buffer' = t /\ lock' = lock /\ InLock(t)
        /\ thread' = [thread EXCEPT ![t] = At("emit")]
    BY <1>2, <1>8 DEF Format, InLock
  <2>2. /\ thread' \in [Threads -> Call]
        /\ thread'[t].step = "emit" /\ \A u \in Threads \ {t} : thread'[u] = thread[u]
    BY <1>1, <2>1 DEF LockInv
  <2>3. \A u \in Threads : InLock(u)' <=> InLock(u)
    BY <2>1, <2>2 DEF InLock
  <2>4. \A u \in Threads \ {t} : ~InLock(u)
    BY <2>1 DEF LockInv
  <2>5. LinesWhole'
    BY <2>1, <2>2, <2>4 DEF LinesWhole, InLock
  <2> QED BY <2>1, <2>2, <2>3, <2>5 DEF LockInv
<1>9. CASE Emit(t)
  <2>1. /\ UNCHANGED <<lock, buffer>> /\ InLock(t)
        /\ thread' = [thread EXCEPT ![t] = At("unlock")]
    BY <1>2, <1>9 DEF Emit, InLock
  <2> QED BY <1>1, <2>1, MovesOnItsSide
<1>10. CASE Change(t)
  <2>1. /\ UNCHANGED <<lock, buffer>> /\ InLock(t)
        /\ thread' = [thread EXCEPT ![t] = At("unlock")]
    BY <1>2, <1>10 DEF Change, InLock
  <2> QED BY <1>1, <2>1, MovesOnItsSide
<1> QED BY <1>3, <1>4, <1>5, <1>6, <1>7, <1>8, <1>9, <1>10

\* So does every step of the logger.
LEMMA ElogStep == LockInv /\ [ElogNext]_elogVars => LockInv'
<1> SUFFICES ASSUME LockInv, [ElogNext]_elogVars PROVE LockInv'
  OBVIOUS
<1>1. CASE \E l \in Levels : SetLevel(l)
  BY <1>1 DEF SetLevel, LockInv, InLock, LinesWhole
<1>2. CASE UNCHANGED elogVars
  BY <1>2 DEF elogVars, LockInv, InLock, LinesWhole
<1> QED BY <1>1, <1>2, ThreadKeepsLock DEF ElogNext

\* LockInv is inductive: a thread works on the static line buffer only while it
\* holds the output lock (elog.c, elog_output).
THEOREM ElogInvariant == ElogSpec => []LockInv
BY ElogStarts, ElogStep, PTL DEF ElogSpec

\* A line that goes out is the one its thread put together: threads never write
\* into each other's text although they share one static buffer.
THEOREM LinesStayWhole == ElogSpec => []LinesWhole
<1>1. LockInv => LinesWhole
  BY DEF LockInv
<1> QED BY <1>1, ElogInvariant, PTL

\* One thread inside is what the flag says.
LEMMA LockKnown == LockInv => LockHeldByOne
<1> SUFFICES ASSUME LockInv PROVE LockHeldByOne
  OBVIOUS
<1>1. CASE lock
  <2>1. PICK t \in Threads : InLock(t)
    BY <1>1 DEF LockInv
  <2>2. Inside = {t}
    BY <2>1 DEF LockInv, Inside, InLock
  <2>3. Cardinality({t}) = 1
    BY FS_Singleton
  <2> QED BY <1>1, <2>2, <2>3 DEF LockHeldByOne
<1>2. CASE ~lock
  <2>1. Inside = {}
    BY <1>2 DEF LockInv, Inside, InLock
  <2>2. Cardinality({}) = 0
    BY FS_EmptySet
  <2> QED BY <1>2, <2>1, <2>2 DEF LockHeldByOne
<1> QED BY <1>1, <1>2

\* The lock is held by exactly one thread or free.
THEOREM LockIsHeldByOne == ElogSpec => []LockHeldByOne
BY LockKnown, ElogInvariant, PTL

-----------------------------------------------------------------------------
(* The levels that were asked for.                                          *)

Slot == [used : BOOLEAN, tag : Tags, level : Levels]

\* No tag has two slots, and a tag has the level in its slot or, without one,
\* the most verbose one.
SlotsInv ==
    /\ table \in [1..TableSize -> Slot] /\ wanted \in [Tags -> Levels]
    /\ \A i, j \in 1..TableSize :
          table[i].used /\ table[j].used /\ table[i].tag = table[j].tag => i = j
    /\ \A g \in Tags, i \in 1..TableSize : Has(i, g) => wanted[g] = table[i].level
    /\ \A g \in Tags : (\A i \in 1..TableSize : ~Has(i, g)) => wanted[g] = All

\* A call that is still to look at its tag's level will not pass it unless the
\* line was allowed before; one that has passed was allowed.
CallsInv ==
    \A t \in Threads :
      /\ thread[t].job = "get" /\ thread[t].step \in {"lock", "inside"}
         => (thread[t].level <= wanted[thread[t].tag] => allowed[t])
      /\ thread[t].job \in {"passed", "write"} => allowed[t]
      /\ thread[t].step = "emit" => thread[t].job = "write"

FilterInv ==
    /\ LockInv /\ SlotsInv /\ CallsInv
    /\ limit \in Levels /\ buffer \in Threads /\ allowed \in [Threads -> BOOLEAN]

LEMMA LevelFacts ==
    /\ All \in Levels
    /\ (CHOOSE g \in Tags : TRUE) \in Tags
    /\ Free \in Slot /\ ~Free.used
<1>1. All \in Levels
  BY ElogAssumption DEF All
<1>2. (CHOOSE g \in Tags : TRUE) \in Tags
  BY ElogAssumption
<1> QED BY <1>1, <1>2, ElogAssumption DEF Free, Slot

\* The first of some slots.
LEMMA FirstSlot ==
    ASSUME NEW S \in SUBSET (1..TableSize), S # {}
    PROVE  (CHOOSE i \in S : \A j \in S : i <= j) \in S
<1>1. S \subseteq Nat
  BY ElogAssumption
<1> DEFINE R == OpToRel(<, Nat)
<1>2. IsWellFoundedOn(R, Nat)
  BY NatLessThanWellFounded, Zenon
<1>3. \A i, j \in Nat : j < i => <<j, i>> \in R
  BY DEF OpToRel
<1> HIDE DEF R
<1>4. PICK i \in S : \A j \in S : ~(<<j, i>> \in R)
  BY <1>1, <1>2, WFMin
<1>5. ASSUME NEW j \in S PROVE i <= j
  <2>1. i \in Nat /\ j \in Nat /\ ~(j < i)
    BY <1>1, <1>3, <1>4
  <2> QED BY <2>1
<1> QED BY <1>5

\* The table answers with the level that was asked for.
LEMMA LevelIsWanted ==
    ASSUME SlotsInv, NEW g \in Tags
    PROVE  LevelOf(g) = wanted[g]
<1>1. CASE \E i \in 1..TableSize : Has(i, g)
  <2> DEFINE c == CHOOSE i \in 1..TableSize : Has(i, g) /\ \A j \in 1..i - 1 : ~Has(j, g)
  <2>1. PICK i \in 1..TableSize : Has(i, g)
    BY <1>1
  <2>2. \A j \in 1..i - 1 : ~Has(j, g)
    <3> SUFFICES ASSUME NEW j \in 1..i - 1, Has(j, g) PROVE FALSE
      OBVIOUS
    <3>1. j \in 1..TableSize /\ j # i
      BY ElogAssumption
    <3> QED BY <2>1, <3>1 DEF SlotsInv, Has
  <2>3. c \in 1..TableSize /\ Has(c, g)
    BY <2>1, <2>2
  <2>4. LevelOf(g) = table[c].level
    BY <1>1 DEF LevelOf
  <2> HIDE DEF c
  <2> QED BY <2>3, <2>4 DEF SlotsInv
<1>2. CASE ~\E i \in 1..TableSize : Has(i, g)
  BY <1>2 DEF LevelOf, SlotsInv
<1> QED BY <1>1, <1>2

\* There is a slot for every tag.
LEMMA SlotLeft ==
    ASSUME SlotsInv, IsFiniteSet(Tags), Cardinality(Tags) <= TableSize,
           NEW g \in Tags, \A i \in 1..TableSize : ~Has(i, g)
    PROVE  \E i \in 1..TableSize : ~table[i].used
<1> SUFFICES ASSUME \A i \in 1..TableSize : table[i].used PROVE FALSE
  OBVIOUS
<1> DEFINE f == [i \in 1..TableSize |-> table[i].tag]
<1>1. f \in [1..TableSize -> Tags \ {g}]
  BY DEF SlotsInv, Slot, Has
<1>2. /\ IsFiniteSet(Tags \ {g}) /\ Cardinality(Tags \ {g}) = Cardinality(Tags) - 1
      /\ Cardinality(Tags) \in Nat
  BY FS_RemoveElement, FS_CardinalityType
<1>3. IsFiniteSet(1..TableSize) /\ Cardinality(1..TableSize) = TableSize
  BY FS_Interval, ElogAssumption
<1>4. Cardinality(Tags \ {g}) < Cardinality(1..TableSize)
  BY <1>2, <1>3, ElogAssumption
<1>5. PICK i, j \in 1..TableSize : i # j /\ f[i] = f[j]
  <2> HIDE DEF f
  <2> QED BY <1>1, <1>2, <1>3, <1>4, FS_PigeonHole
<1> QED BY <1>5 DEF SlotsInv

\* A change gives one tag its new level, in its slot, in a new one or in none.
LEMMA SlotsChanged ==
    ASSUME SlotsInv, IsFiniteSet(Tags), Cardinality(Tags) <= TableSize,
           NEW g \in Tags, NEW l \in Levels,
           table' = Changed(g, l), wanted' = [wanted EXCEPT ![g] = l]
    PROVE  SlotsInv'
<1>1. wanted' \in [Tags -> Levels] /\ wanted'[g] = l
      /\ \A h \in Tags \ {g} : wanted'[h] = wanted[h]
  BY DEF SlotsInv
<1>2. ASSUME NEW c \in 1..TableSize, NEW s \in Slot, table' = [table EXCEPT ![c] = s],
             \A i \in 1..TableSize : Has(i, g) => i = c,
             table[c].used => Has(c, g),
             s.used => s.tag = g /\ s.level = l, ~s.used => l = All
      PROVE  SlotsInv'
  <2>1. /\ table' \in [1..TableSize -> Slot] /\ table'[c] = s
        /\ \A i \in (1..TableSize) \ {c} : table'[i] = table[i]
    BY <1>2 DEF SlotsInv
  <2>2. \A i \in 1..TableSize, h \in Tags :
           Has(i, h)' <=> IF i = c THEN s.used /\ h = g ELSE Has(i, h)
    BY <1>2, <2>1 DEF Has
  <2>3. \A i, j \in 1..TableSize :
           table'[i].used /\ table'[j].used /\ table'[i].tag = table'[j].tag => i = j
    <3> SUFFICES ASSUME NEW i \in 1..TableSize, NEW j \in 1..TableSize, i # j,
                        table'[i].used, table'[j].used, table'[i].tag = table'[j].tag
                 PROVE  FALSE
      OBVIOUS
    <3>1. i # c /\ j # c => table'[i] = table[i] /\ table'[j] = table[j]
      BY <2>1
    <3>2. CASE i # c /\ j # c
      BY <3>1, <3>2 DEF SlotsInv
    <3>3. CASE i = c
      BY <1>2, <2>1, <3>3 DEF Has
    <3>4. CASE j = c
      BY <1>2, <2>1, <3>4 DEF Has
    <3> QED BY <3>2, <3>3, <3>4
  <2>4. \A h \in Tags, i \in 1..TableSize : Has(i, h)' => wanted'[h] = table'[i].level
    <3> TAKE h \in Tags, i \in 1..TableSize
    <3>1. CASE i = c
      BY <1>1, <1>2, <2>1, <2>2, <3>1
    <3>2. CASE i # c
      <4>1. Has(i, h)' <=> Has(i, h)
        BY <2>2, <3>2
      <4>2. Has(i, h) => h # g
        BY <1>2, <3>2
      <4> QED BY <1>1, <2>1, <3>2, <4>1, <4>2 DEF SlotsInv
    <3> QED BY <3>1, <3>2
  <2>5. \A h \in Tags : (\A i \in 1..TableSize : ~Has(i, h)') => wanted'[h] = All
    <3> SUFFICES ASSUME NEW h \in Tags, \A i \in 1..TableSize : ~Has(i, h)'
                 PROVE  wanted'[h] = All
      OBVIOUS
    <3>1. CASE h = g
      BY <1>1, <1>2, <2>2, <3>1 DEF Slot
    <3>2. CASE h # g
      <4>1. \A i \in 1..TableSize : ~Has(i, h)
        BY <1>2, <2>2, <3>2 DEF Has
      <4> QED BY <1>1, <3>2, <4>1 DEF SlotsInv
    <3> QED BY <3>1, <3>2
  <2> QED BY <1>1, <2>1, <2>3, <2>4, <2>5 DEF SlotsInv
<1> DEFINE found == {i \in 1..TableSize : Has(i, g)}
           free == {i \in 1..TableSize : ~table[i].used}
<1>3. CASE found # {}
  <2> DEFINE c == CHOOSE i \in found : \A j \in found : i <= j
             s == IF l = All THEN Free ELSE [table[c] EXCEPT !.level = l]
  <2>1. c \in 1..TableSize /\ Has(c, g)
    BY <1>3, FirstSlot
  <2>2. table' = [table EXCEPT ![c] = s]
    BY <1>3, <2>1 DEF Changed, SlotsInv
  <2>3. \A i \in 1..TableSize : Has(i, g) => i = c
    BY <2>1 DEF SlotsInv, Has
  <2> HIDE DEF c
  <2>4. s \in Slot /\ (s.used => s.tag = g /\ s.level = l) /\ (~s.used => l = All)
    BY <2>1, LevelFacts DEF SlotsInv, Slot, Has
  <2> HIDE DEF s
  <2> QED BY <1>2, <2>1, <2>2, <2>3, <2>4
<1>4. CASE found = {} /\ l = All
  <2>1. table' = table
    BY <1>4 DEF Changed, AddLevel
  <2>2. wanted[g] = All
    BY <1>4 DEF SlotsInv
  <2>3. wanted' = wanted
    BY <1>4, <2>2 DEF SlotsInv
  <2> QED BY <2>1, <2>3 DEF SlotsInv, Has
<1>5. CASE found = {} /\ l # All
  <2>0. free # {}
    BY <1>5, SlotLeft
  <2> DEFINE c == CHOOSE i \in free : \A j \in free : i <= j
             s == [used |-> TRUE, tag |-> g, level |-> l]
  <2>1. c \in 1..TableSize /\ ~table[c].used
    BY <2>0, FirstSlot
  <2>2. table' = [table EXCEPT ![c] = s]
    BY <1>5, <2>0 DEF Changed, AddLevel
  <2> HIDE DEF c
  <2>3. s \in Slot /\ s.used /\ s.tag = g /\ s.level = l
    BY DEF Slot
  <2> HIDE DEF s
  <2> QED BY <1>2, <1>5, <2>1, <2>2, <2>3
<1> QED BY <1>3, <1>4, <1>5

\* Every level is the most verbose one at first, and nobody logs.
LEMMA FilterStarts == ElogInit => FilterInv
<1> SUFFICES ASSUME ElogInit PROVE FilterInv
  OBVIOUS
<1>1. LockInv
  BY ElogStarts
<1>2. SlotsInv
  <2>1. \A i \in 1..TableSize : table[i] = Free
    BY DEF ElogInit
  <2>2. \A i \in 1..TableSize, g \in Tags : ~Has(i, g)
    BY <2>1, LevelFacts DEF Has
  <2>3. table \in [1..TableSize -> Slot] /\ wanted \in [Tags -> Levels]
    BY LevelFacts DEF ElogInit
  <2> QED BY <2>1, <2>2, <2>3, LevelFacts DEF SlotsInv, ElogInit
<1>3. CallsInv
  <2>1. thread = [t \in Threads |-> Idle]
    BY DEF ElogInit
  <2>2. \A t \in Threads : thread[t].step = "idle" /\ thread[t].job = "get"
    BY <2>1 DEF Idle
  <2> QED BY <2>2 DEF CallsInv
<1>4. limit \in Levels /\ buffer \in Threads /\ allowed \in [Threads -> BOOLEAN]
  BY LevelFacts, ElogAssumption DEF ElogInit
<1> QED BY <1>1, <1>2, <1>3, <1>4 DEF FilterInv

\* A step of one call that changes no level: the others are where they were.
LEMMA OneCall ==
    ASSUME FilterInv, UNCHANGED <<wanted, allowed>>, NEW t \in Threads, NEW c \in Call,
           thread' = [thread EXCEPT ![t] = c],
           c.job = "get" /\ c.step \in {"lock", "inside"}
           => (c.level <= wanted[c.tag] => allowed[t]),
           c.job \in {"passed", "write"} => allowed[t],
           c.step = "emit" => c.job = "write"
    PROVE  CallsInv'
<1>1. thread'[t] = c /\ \A u \in Threads \ {t} : thread'[u] = thread[u]
  BY DEF FilterInv, LockInv
<1> QED BY <1>1 DEF CallsInv, FilterInv

\* A line that is allowed once stays allowed: the calls under way after a change.
LEMMA ChangeKeepsCalls ==
    ASSUME FilterInv, NEW t \in Threads, Change(t)
    PROVE  CallsInv' /\ allowed' \in [Threads -> BOOLEAN]
<1>1. thread[t] \in Call /\ thread[t].job = "set"
  BY DEF FilterInv, LockInv, Change
<1>2. /\ \A u \in Threads \ {t} : thread'[u] = thread[u]
      /\ thread'[t] = [thread[t] EXCEPT !.step = "unlock"]
  BY DEF Change, Step, FilterInv, LockInv
<1>3. /\ thread'[t].job = "set" /\ thread'[t].step = "unlock"
      /\ thread'[t].tag = thread[t].tag
  BY <1>1, <1>2 DEF Call
<1>4. /\ wanted'[thread[t].tag] = thread[t].level
      /\ \A g \in Tags \ {thread[t].tag} : wanted'[g] = wanted[g]
  BY <1>1 DEF Change, FilterInv, SlotsInv, Call
<1>5. /\ \A u \in Threads : allowed'[u] = (allowed[u] \/
            (thread[u].tag = thread[t].tag /\ thread[u].level <= thread[t].level))
      /\ allowed' \in [Threads -> BOOLEAN]
  BY DEF Change, FilterInv
<1>6. ASSUME NEW u \in Threads, u # t
      PROVE  /\ thread[u].level <= wanted'[thread[u].tag] /\ (thread[u].level <= wanted[thread[u].tag] => allowed[u])
                => allowed'[u]
             /\ allowed[u] => allowed'[u]
  <2>1. thread[u].tag \in Tags
    BY DEF FilterInv, LockInv, Call
  <2> QED BY <1>4, <1>5, <2>1
<1>7. ASSUME NEW u \in Threads, u # t
      PROVE  /\ thread'[u].job = "get" /\ thread'[u].step \in {"lock", "inside"}
                => (thread'[u].level <= wanted'[thread'[u].tag] => allowed'[u])
             /\ thread'[u].job \in {"passed", "write"} => allowed'[u]
             /\ thread'[u].step = "emit" => thread'[u].job = "write"
  <2>1. thread'[u] = thread[u]
    BY <1>2, <1>7
  <2> QED BY <1>6, <1>7, <2>1 DEF FilterInv, CallsInv
<1> QED BY <1>3, <1>5, <1>7 DEF CallsInv

\* Every step keeps the levels, and what the calls know of them.
LEMMA FilterStep ==
    ASSUME IsFiniteSet(Tags), Cardinality(Tags) <= TableSize
    PROVE  FilterInv /\ [ElogNext]_elogVars => FilterInv'
<1> SUFFICES ASSUME FilterInv, [ElogNext]_elogVars PROVE FilterInv'
  OBVIOUS
<1>1. LockInv'
  BY ElogStep DEF FilterInv
<1>2. SlotsInv => (UNCHANGED <<table, wanted>> => SlotsInv')
  BY DEF SlotsInv, Has
<1>3. (\E l \in Levels : SetLevel(l)) \/ UNCHANGED elogVars => FilterInv'
  BY <1>1, <1>2 DEF FilterInv, CallsInv, SetLevel, elogVars
<1>4. ASSUME NEW t \in Threads, Change(t) PROVE FilterInv'
  <2>1. thread[t].tag \in Tags /\ thread[t].level \in Levels
    BY DEF FilterInv, LockInv, Call
  <2>2. SlotsInv'
    BY <1>4, <2>1, SlotsChanged DEF Change, FilterInv
  <2>3. CallsInv' /\ allowed' \in [Threads -> BOOLEAN]
    BY <1>4, ChangeKeepsCalls
  <2> QED BY <1>1, <1>4, <2>2, <2>3 DEF FilterInv, Change
<1>5. ASSUME NEW t \in Threads, NEW g \in Tags, NEW l \in Levels, Output(t, g, l)
      PROVE  FilterInv'
  <2>1. allowed' \in [Threads -> BOOLEAN]
    BY <1>5 DEF Output, FilterInv
  <2>2. /\ thread'[t].job = "get" /\ thread'[t].step = "lock"
        /\ thread'[t].tag = g /\ thread'[t].level = l
        /\ allowed'[t] = (l <= wanted[g]) /\ wanted' = wanted
        /\ \A u \in Threads \ {t} : thread'[u] = thread[u] /\ allowed'[u] = allowed[u]
    BY <1>5 DEF Output, FilterInv, LockInv, filters
  <2>3. CallsInv'
    BY <2>2 DEF FilterInv, CallsInv
  <2> QED BY <1>1, <1>2, <1>5, <2>1, <2>3 DEF FilterInv, Output, filters
<1>6. ASSUME NEW t \in Threads,
             \/ Lock(t) \/ Unlock(t) \/ GetLevel(t) \/ Return(t) \/ Format(t) \/ Emit(t)
             \/ \E g \in Tags, l \in Levels : SetTagLevel(t, g, l)
      PROVE  FilterInv'
  <2>0. thread[t] \in Call
    BY DEF FilterInv, LockInv
  <2>1. UNCHANGED <<filters, allowed>> /\ buffer' \in Threads
    BY <1>6 DEF Lock, Unlock, GetLevel, Return, Format, Emit, SetTagLevel, FilterInv
  <2> DEFINE LetsPass(c) ==
        /\ c.job = "get" /\ c.step \in {"lock", "inside"}
           => (c.level <= wanted[c.tag] => allowed[t])
        /\ c.job \in {"passed", "write"} => allowed[t]
        /\ c.step = "emit" => c.job = "write"
  <2>2. LetsPass(thread[t])
    BY DEF FilterInv, CallsInv
  <2>3. \E c \in Call : thread' = [thread EXCEPT ![t] = c] /\ LetsPass(c)
    <3>1. CASE Lock(t) \/ Unlock(t) \/ Emit(t)
      <4>1. PICK s \in {"inside", "left", "unlock"} :
               /\ thread' = [thread EXCEPT ![t] = [thread[t] EXCEPT !.step = s]]
               /\ s = "inside" => thread[t].step = "lock"
        BY <3>1 DEF Lock, Unlock, Emit, Step, FilterInv, LockInv
      <4> DEFINE c == [thread[t] EXCEPT !.step = s]
      <4>2. /\ c \in Call /\ c.step = s /\ c.job = thread[t].job
            /\ c.tag = thread[t].tag /\ c.level = thread[t].level
        BY <2>0 DEF Call
      <4> HIDE DEF c
      <4>3. LetsPass(c)
        BY <2>2, <4>1, <4>2
      <4> QED BY <4>1, <4>2, <4>3 DEF c
    <3>2. CASE GetLevel(t)
      <4> DEFINE c == [thread[t] EXCEPT !.step = "unlock",
                                        !.job = IF Passes(t) THEN "passed" ELSE "filtered"]
      <4>1. /\ c \in Call /\ c.step = "unlock"
            /\ c.job = IF Passes(t) THEN "passed" ELSE "filtered"
        BY <2>0 DEF Call
      <4>2. thread' = [thread EXCEPT ![t] = c] /\ thread[t].step = "inside" /\ thread[t].job = "get"
        BY <3>2 DEF GetLevel, FilterInv, LockInv
      <4>3. Passes(t) => allowed[t]
        <5>1. thread[t].tag \in Tags
          BY <2>0 DEF Call
        <5>2. LevelOf(thread[t].tag) = wanted[thread[t].tag]
          BY <5>1, LevelIsWanted DEF FilterInv
        <5> QED BY <2>2, <4>2, <5>2 DEF Passes
      <4> HIDE DEF c
      <4> QED BY <4>1, <4>2, <4>3
    <3>3. CASE Return(t)
      <4> DEFINE c == [thread[t] EXCEPT !.step = "lock", !.job = "write"]
      <4>1. c \in Call /\ c.step = "lock" /\ c.job = "write"
        BY <2>0 DEF Call
      <4>2. Idle \in Call /\ Idle.step = "idle" /\ Idle.job = "get"
        BY ElogAssumption DEF Idle, Call
      <4>3. \/ thread' = [thread EXCEPT ![t] = c] /\ thread[t].job = "passed"
            \/ thread' = [thread EXCEPT ![t] = Idle]
        BY <3>3 DEF Return, FilterInv, LockInv
      <4> HIDE DEF c
      <4> QED BY <2>2, <4>1, <4>2, <4>3
    <3>4. CASE Format(t)
      <4> DEFINE c == [thread[t] EXCEPT !.step = "emit"]
      <4>1. c \in Call /\ c.step = "emit" /\ c.job = thread[t].job
        BY <2>0 DEF Call
      <4>2. thread' = [thread EXCEPT ![t] = c] /\ thread[t].job = "write"
        BY <3>4 DEF Format, Step, FilterInv, LockInv
      <4> HIDE DEF c
      <4> QED BY <2>2, <4>1, <4>2
    <3>5. CASE \E g \in Tags, l \in Levels : SetTagLevel(t, g, l)
      <4>1. PICK g \in Tags, l \in Levels : SetTagLevel(t, g, l)
        BY <3>5
      <4> DEFINE c == [step |-> "lock", job |-> "set", tag |-> g, level |-> l]
      <4>2. c \in Call /\ LetsPass(c)
        BY DEF Call
      <4> QED BY <4>1, <4>2 DEF SetTagLevel
    <3> QED BY <1>6, <3>1, <3>2, <3>3, <3>4, <3>5
  <2>4. CallsInv'
    BY <2>1, <2>3, OneCall DEF filters
  <2> QED BY <1>1, <1>2, <2>1, <2>4 DEF FilterInv, filters
<1> QED BY <1>3, <1>4, <1>5, <1>6 DEF ElogNext

\* While there are slots for all tags that are given a level, every tag has the
\* level that was asked for last, a line goes out only if its level was allowed at
\* some time during its call, and whole; the lock is never kept.
THEOREM LogsWhatIsWanted ==
    ASSUME IsFiniteSet(Tags), Cardinality(Tags) <= TableSize
    PROVE  ElogSpec => []LinesAsWanted
<1>1. FilterInv => LinesAsWanted
  <2> SUFFICES ASSUME FilterInv PROVE LinesAsWanted
    OBVIOUS
  <2>1. ElogTypeOK
    <3>1. \A t \in Threads : thread[t] \in Call
      BY DEF FilterInv, LockInv
    <3>2. \A t \in Threads : thread[t].tag \in Tags /\ thread[t].level \in Levels
      BY <3>1 DEF Call
    <3> QED BY <3>2 DEF ElogTypeOK, FilterInv, LockInv, SlotsInv, Slot
  <2>2. LinesWhole /\ LockHeldByOne
    BY LockKnown DEF FilterInv, LockInv
  <2>3. FilterHonoured
    BY DEF FilterHonoured, FilterInv, CallsInv
  <2>4. LevelsAsWanted
    BY LevelIsWanted DEF LevelsAsWanted, FilterInv
  <2> QED BY <2>1, <2>2, <2>3, <2>4 DEF LinesAsWanted
<1>2. FilterInv /\ [ElogNext]_elogVars => FilterInv'
  BY FilterStep
<1> QED BY <1>1, <1>2, FilterStarts, PTL DEF ElogSpec
=============================================================================
