------------------------------ MODULE RecoveryLog ------------------------------
(***************************************************************************)
(* recovery_log of the service script: the monitor that holds WATCHLOCK      *)
(* appends events to a file that it rotates, and writes no more after a      *)
(* failure. All sizes are bytes.                                            *)
(***************************************************************************)
EXTENDS Integers

CONSTANTS
    Threshold,   \* size above which the file is rotated
    TextMax,     \* precision of the event's text
    Prefix,      \* bytes of the date, the mark and the newline
    RecoveryLimit,   \* what README.md promises for each of the two files
    Lengths      \* of the events' texts

ASSUME RecoveryLogAssumption ==
    /\ Threshold \in Nat /\ TextMax \in Nat /\ Prefix \in Nat /\ RecoveryLimit \in Nat
    /\ Lengths \subseteq Nat
    /\ Threshold + Prefix + TextMax <= RecoveryLimit

VARIABLES
    monitor,   \* "down", "idle", "append"
    failed,    \* recovery_log_failed
    line,      \* bytes of the event being logged
    log,       \* bytes of the file, 0 when there is none
    backup     \* bytes of its .1

recoveryVars == <<monitor, failed, line, log, backup>>

RecoveryInit ==
    /\ monitor = "down" /\ failed = FALSE
    /\ line = 0 /\ log = 0 /\ backup = 0

\* A new monitor knows nothing of an earlier one's failure.
MonitorStart ==
    /\ monitor = "down"
    /\ monitor' = "idle" /\ failed' = FALSE
    /\ UNCHANGED <<line, log, backup>>

\* Mutant: the text is not cut.
LineUncut(length) == Prefix + length
LineLength(length) == Prefix + (IF length > TextMax THEN TextMax ELSE length)

\* The size is looked at and the file renamed when it is too large.
Event(length) ==
    /\ monitor = "idle" /\ ~failed
    /\ monitor' = "append"
    /\ line' = LineLength(length)
    /\ IF log > Threshold THEN backup' = log /\ log' = 0 ELSE UNCHANGED <<log, backup>>
    /\ UNCHANGED failed

AppendLine ==
    /\ monitor = "append"
    /\ monitor' = "idle"
    /\ log' = log + line
    /\ UNCHANGED <<failed, line, backup>>

\* The disk is full after a part of the line.
AppendFails ==
    /\ monitor = "append"
    /\ monitor' = "idle" /\ failed' = TRUE
    /\ log' = log + line \div 2
    /\ UNCHANGED <<line, backup>>

\* wc or mv fails, or the file cannot be opened.
RotateFails ==
    /\ monitor = "idle" /\ ~failed
    /\ failed' = TRUE
    /\ UNCHANGED <<monitor, line, log, backup>>

MonitorDown ==
    /\ monitor # "down"
    /\ monitor' = "down"
    /\ UNCHANGED <<failed, line, log, backup>>

RecoveryNext ==
    \/ MonitorStart
    \/ \E length \in Lengths : Event(length)
    \/ AppendLine \/ AppendFails \/ RotateFails \/ MonitorDown

RecoverySpec == RecoveryInit /\ [][RecoveryNext]_recoveryVars

\* Both files stay within the 256 KiB of the documentation, though the script
\* only rotates once the threshold was exceeded, looks at the size before it
\* knows the line's, and may fail or be killed in between.
WithinLimit == log \in 0..RecoveryLimit /\ backup \in 0..RecoveryLimit
=============================================================================
