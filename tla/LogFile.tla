-------------------------------- MODULE LogFile --------------------------------
(***************************************************************************)
(* elog_port.c: the application's log, which is rotated before it would      *)
(* exceed its limit and is given up after a failure. One process at a time   *)
(* writes it (ServiceState comes before Logger), line by line under the      *)
(* output lock; it may be killed between any two system calls.              *)
(***************************************************************************)
EXTENDS Integers, Sequences

CONSTANTS
    LogLimit,       \* LOG_FILE_LIMIT
    Sizes,       \* sizes of the lines that are logged
    Legacy,      \* size of the log that an older version left, 0 for none
    MaxWritten   \* bound on the lines that reach a file

ASSUME LogFileAssumption ==
    /\ LogLimit \in Nat \ {0}
    /\ Sizes \subseteq Nat \ {0}
    /\ Legacy \in Nat
    /\ MaxWritten \in Nat

VARIABLES
    files,     \* name -> the numbers of its lines, and their bytes
    pc,        \* "down", "idle", or the next step of elog_port_output
    lineSize,  \* of the line being written
    open,      \* g_log_file is not NULL
    written    \* lines that reached a file

logVars == <<files, pc, lineSize, open, written>>

LogNames == {"log", "first", "second"}   \* g_log_path, .1 and .2
Steps == {"check", "second", "first", "reopen", "write"}
File == [lines : Seq(Nat), bytes : Nat]
Empty == [lines |-> <<>>, bytes |-> 0]

Renamed(from, to) ==
    [n \in (DOMAIN files \ {from}) \cup {to} |-> IF n = to THEN files[from] ELSE files[n]]

OpenedFiles == [n \in DOMAIN files \cup {"log"} |-> IF n \in DOMAIN files THEN files[n] ELSE Empty]

Extended(bytes) ==
    [files EXCEPT !["log"] = [lines |-> Append(@.lines, written + 1), bytes |-> @.bytes + bytes]]

NoFiles == [n \in {} |-> Empty]
LogInitWith(found) ==
    /\ files = found
    /\ pc = "down" /\ lineSize = 0 /\ open = FALSE /\ written = 0
LogInit ==
    \/ LogInitWith(NoFiles)
    \/ LogInitWith([n \in {"log"} |-> [lines |-> <<0>>, bytes |-> Legacy]])

-----------------------------------------------------------------------------

\* elog_port_init(): the log of earlier processes is continued.
LogStart ==
    /\ pc = "down"
    /\ pc' = "idle" /\ open' = TRUE
    /\ files' = OpenedFiles
    /\ UNCHANGED <<lineSize, written>>

\* A line longer than the limit is cut. Without a file nothing is written.
LogLine(s) ==
    /\ pc = "idle" /\ open
    /\ written < MaxWritten
    /\ lineSize' = IF s > LogLimit THEN LogLimit ELSE s
    /\ pc' = "check"
    /\ UNCHANGED <<files, open, written>>

Fits == files["log"].bytes <= LogLimit - lineSize

CheckSize ==
    /\ pc = "check"
    /\ pc' = IF Fits THEN "write" ELSE "second"
    /\ UNCHANGED <<files, lineSize, open, written>>

\* Mutant: the first backup is copied, not moved.
RenameSecondCopies ==
    /\ pc = "second"
    /\ pc' = "first"
    /\ files' = IF "first" \in DOMAIN files
                THEN [n \in DOMAIN files \cup {"second"} |->
                        IF n = "second" THEN files["first"] ELSE files[n]]
                ELSE files
    /\ UNCHANGED <<lineSize, open, written>>

\* rename(.1, .2), which may find no .1, before rename(log, .1).
RenameSecond ==
    /\ pc = "second"
    /\ pc' = "first"
    /\ files' = IF "first" \in DOMAIN files THEN Renamed("first", "second") ELSE files
    /\ UNCHANGED <<lineSize, open, written>>

RenameFirst ==
    /\ pc = "first"
    /\ pc' = "reopen"
    /\ files' = Renamed("log", "first")
    /\ UNCHANGED <<lineSize, open, written>>

Reopen ==
    /\ pc = "reopen"
    /\ pc' = "write"
    /\ files' = OpenedFiles
    /\ UNCHANGED <<lineSize, open, written>>

Write ==
    /\ pc = "write"
    /\ pc' = "idle"
    /\ files' = Extended(lineSize) /\ written' = written + 1
    /\ UNCHANGED <<lineSize, open>>

-----------------------------------------------------------------------------
(* Failures *)

\* fstat, a renaming, fopen or the write fails: no file until a restart.
LogFails ==
    /\ pc \in Steps
    /\ pc' = "idle" /\ open' = FALSE
    /\ UNCHANGED <<files, lineSize, written>>

\* The disk is full half-way through the line, or the flush fails.
WriteCut ==
    /\ pc = "write"
    /\ pc' = "idle" /\ open' = FALSE
    /\ \E bytes \in 1..lineSize : files' = Extended(bytes)
    /\ written' = written + 1
    /\ UNCHANGED lineSize

\* elog_port_deinit(), or the process is killed wherever it is.
LogDown ==
    /\ pc # "down"
    /\ pc' = "down" /\ open' = FALSE
    /\ UNCHANGED <<files, lineSize, written>>

LogNext ==
    \/ LogStart
    \/ \E s \in Sizes : LogLine(s)
    \/ CheckSize \/ RenameSecond \/ RenameFirst \/ Reopen \/ Write
    \/ LogFails \/ WriteCut \/ LogDown

LogSpec == LogInit /\ [][LogNext]_logVars

-----------------------------------------------------------------------------
(* Properties *)

LogTypeOK ==
    /\ DOMAIN files \subseteq LogNames
    /\ \A n \in DOMAIN files : files[n] \in File
    /\ pc \in {"down", "idle"} \cup Steps
    /\ lineSize \in Nat /\ open \in BOOLEAN /\ written \in Nat

\* No file ever exceeds the limit, wherever rotation fails or the process is
\* killed; a log that an older version left only shrinks the number of files
\* under the limit until it has been rotated away, and never grows.
SizesBounded ==
    \A n \in DOMAIN files :
        files[n].bytes <= LogLimit \/ (files[n].lines = <<0>> /\ files[n].bytes = Legacy)

\* The three files, oldest first, hold the newest lines that were written,
\* without a gap and in order, whatever fails in the middle of a rotation.
History ==
    LET Lines(n) == IF n \in DOMAIN files THEN files[n].lines ELSE <<>>
    IN  Lines("second") \o Lines("first") \o Lines("log")
NewestKept ==
    /\ written > 0 => History # <<>> /\ History[Len(History)] = written
    /\ \A i \in 1..Len(History) - 1 : History[i + 1] = History[i] + 1

\* Lines are only ever lost from the oldest file, when a whole file takes its
\* place: neither a failed rotation nor a restart throws a newer one away.
LinesOf(n) ==
    IF n \in DOMAIN files THEN {files[n].lines[i] : i \in DOMAIN files[n].lines} ELSE {}
OldestGoFirst ==
    [][LinesOf("first") \cup LinesOf("log") \subseteq UNION {LinesOf(n)' : n \in LogNames}]_logVars

\* The log as its reader finds it: the newest lines without a gap, in files
\* within the limit, of which only the oldest is ever given up.
LogKept == [](LogTypeOK /\ SizesBounded /\ NewestKept) /\ OldestGoFirst
=============================================================================
