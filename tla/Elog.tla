---------------------------------- MODULE Elog ----------------------------------
(***************************************************************************)
(* EasyLogger's core (elog.c): threads log lines through one shared buffer   *)
(* under the output lock, and levels are filtered globally and by tag.       *)
(* Nobody calls elog_output_lock_enabled, so the lock is always on and the   *)
(* flags that only that function reads are left out.                        *)
(***************************************************************************)
EXTENDS Naturals, FiniteSets

CONSTANTS
    Threads, Tags,
    TableSize,      \* ELOG_FILTER_TAG_LVL_MAX_NUM
    Levels      \* levels of lines and filters; larger is more verbose

ASSUME ElogAssumption ==
    /\ Threads # {} /\ Tags # {}
    /\ TableSize \in Nat \ {0}
    /\ Levels \subseteq Nat /\ 0 \in Levels
    /\ \E l \in Levels : \A k \in Levels : k <= l

All == CHOOSE l \in Levels : \A k \in Levels : k <= l   \* ELOG_FILTER_LVL_ALL

VARIABLES
    limit,    \* elog.filter.level
    table,    \* elog.filter.tag_lvl
    wanted,   \* level that was last asked for, per tag
    lock,     \* the port's mutex is held
    thread,   \* thread -> step, what it does, for which tag and level
    allowed,  \* thread -> its line was allowed at some time during the call
    buffer    \* whose line log_buf holds

elogVars == <<limit, table, wanted, lock, thread, allowed, buffer>>
filters == <<limit, table, wanted>>

Free == [used |-> FALSE, tag |-> CHOOSE t \in Tags : TRUE, level |-> 0]
Idle == [step |-> "idle", job |-> "get", tag |-> CHOOSE t \in Tags : TRUE, level |-> 0]

Step(t, s) == thread' = [thread EXCEPT ![t].step = s]

ElogInit ==
    /\ limit = All
    /\ table = [i \in 1..TableSize |-> Free] /\ wanted = [g \in Tags |-> All]
    /\ lock = FALSE
    /\ thread = [t \in Threads |-> Idle]
    /\ allowed = [t \in Threads |-> FALSE]
    /\ buffer = CHOOSE t \in Threads : TRUE

-----------------------------------------------------------------------------
(* elog_output_lock and elog_output_unlock *)

Lock(t) ==
    /\ thread[t].step = "lock"
    /\ ~lock /\ lock' = TRUE
    /\ Step(t, "inside")
    /\ UNCHANGED <<filters, allowed, buffer>>

Unlock(t) ==
    /\ thread[t].step = "unlock"
    /\ lock' = FALSE
    /\ Step(t, "left")
    /\ UNCHANGED <<filters, allowed, buffer>>

-----------------------------------------------------------------------------
(* The calls *)

Has(i, g) == table[i].used /\ table[i].tag = g
LevelOf(g) ==
    IF \E i \in 1..TableSize : Has(i, g)
    THEN table[CHOOSE i \in 1..TableSize : Has(i, g) /\ \A j \in 1..i - 1 : ~Has(j, g)].level
    ELSE All

\* elog_output() for a line that passes the global level.
Output(t, g, l) ==
    /\ thread[t].step = "idle" /\ l <= limit
    /\ thread' = [thread EXCEPT ![t] = [step |-> "lock", job |-> "get", tag |-> g, level |-> l]]
    /\ allowed' = [allowed EXCEPT ![t] = l <= wanted[g]]
    /\ UNCHANGED <<filters, lock, buffer>>

\* elog_get_filter_tag_lvl(): the level is compared after the unlock.
Passes(t) == thread[t].level <= LevelOf(thread[t].tag)
GetLevel(t) ==
    /\ thread[t].step = "inside" /\ thread[t].job = "get"
    /\ thread' = [thread EXCEPT ![t].step = "unlock",
                                ![t].job = IF Passes(t) THEN "passed" ELSE "filtered"]
    /\ UNCHANGED <<filters, lock, allowed, buffer>>

\* Mutant: the lock is not taken again for the line.
FormatUnlocked(t) ==
    /\ thread[t].step = "left"
    /\ thread' = IF thread[t].job = "passed"
                 THEN [thread EXCEPT ![t].step = "inside", ![t].job = "write"]
                 ELSE [thread EXCEPT ![t] = Idle]
    /\ UNCHANGED <<filters, lock, allowed, buffer>>

Return(t) ==
    /\ thread[t].step = "left"
    /\ thread' = IF thread[t].job = "passed"
                 THEN [thread EXCEPT ![t].step = "lock", ![t].job = "write"]
                 ELSE [thread EXCEPT ![t] = Idle]
    /\ UNCHANGED <<filters, lock, allowed, buffer>>

Format(t) ==
    /\ thread[t].step = "inside" /\ thread[t].job = "write"
    /\ buffer' = t
    /\ Step(t, "emit")
    /\ UNCHANGED <<filters, lock, allowed>>

\* elog_port_output().
Emit(t) ==
    /\ thread[t].step = "emit"
    /\ Step(t, "unlock")
    /\ UNCHANGED <<filters, lock, allowed, buffer>>

SetLevel(l) ==
    /\ limit # l
    /\ limit' = l
    /\ UNCHANGED <<table, wanted, lock, thread, allowed, buffer>>

SetTagLevel(t, g, l) ==
    /\ thread[t].step = "idle"
    /\ thread' = [thread EXCEPT ![t] = [step |-> "lock", job |-> "set", tag |-> g, level |-> l]]
    /\ UNCHANGED <<filters, lock, allowed, buffer>>

\* A new tag takes the first free slot; when there is none nothing happens.
AddLevel(g, l) ==
    LET free == {i \in 1..TableSize : ~table[i].used}
    IN  IF l = All \/ free = {} THEN table
        ELSE [table EXCEPT ![CHOOSE i \in free : \A j \in free : i <= j] =
                [used |-> TRUE, tag |-> g, level |-> l]]

Changed(g, l) ==
    LET found == {i \in 1..TableSize : Has(i, g)}
    IN  IF found = {} THEN AddLevel(g, l)
        ELSE [table EXCEPT ![CHOOSE i \in found : \A j \in found : i <= j] =
                IF l = All THEN Free ELSE [@ EXCEPT !.level = l]]

Change(t) ==
    /\ thread[t].step = "inside" /\ thread[t].job = "set"
    /\ table' = Changed(thread[t].tag, thread[t].level)
    /\ wanted' = [wanted EXCEPT ![thread[t].tag] = thread[t].level]
    /\ allowed' = [u \in Threads |-> allowed[u] \/
                     (thread[u].tag = thread[t].tag /\ thread[u].level <= thread[t].level)]
    /\ Step(t, "unlock")
    /\ UNCHANGED <<limit, lock, buffer>>

ElogNext ==
    \/ \E t \in Threads :
        \/ Lock(t) \/ Unlock(t)
        \/ \E g \in Tags, l \in Levels : Output(t, g, l) \/ SetTagLevel(t, g, l)
        \/ GetLevel(t) \/ Return(t) \/ Format(t) \/ Emit(t) \/ Change(t)
    \/ \E l \in Levels : SetLevel(l)

ElogSpec == ElogInit /\ [][ElogNext]_elogVars

-----------------------------------------------------------------------------
(* Properties *)

ElogTypeOK ==
    /\ limit \in Levels
    /\ table \in [1..TableSize -> [used : BOOLEAN, tag : Tags, level : Levels]]
    /\ wanted \in [Tags -> Levels]
    /\ lock \in BOOLEAN
    /\ \A t \in Threads : thread[t].tag \in Tags /\ thread[t].level \in Levels
    /\ allowed \in [Threads -> BOOLEAN] /\ buffer \in Threads

\* The buffer that goes out is the line that was put together: threads share
\* log_buf, and elog_output() locks twice, once to look at the tag's level.
LinesWhole == \A t \in Threads : thread[t].step = "emit" => buffer = t

\* A line goes out only when its tag's filter let it pass at some time between
\* the beginning of the call and its end.
FilterHonoured == \A t \in Threads : thread[t].step = "emit" => allowed[t]

\* Every tag has the level that was asked for last, however often tags were
\* added, changed and removed. ("The log on this tag which level is less than
\* it will stop output", elog.c:411.)
LevelsAsWanted == \A g \in Tags : LevelOf(g) = wanted[g]

\* The lock is held exactly while one thread is between taking and giving it:
\* no path through elog_output, also the one of a filtered line or of a tag
\* that is found early in the table, keeps it (elog.c:490-503).
Inside == {t \in Threads : thread[t].step \in {"inside", "emit", "unlock"}}
LockHeldByOne == Cardinality(Inside) = IF lock THEN 1 ELSE 0

\* elog_output() and the tag table as the other threads rely on them: whole
\* lines, of tags and levels that were let through, and the lock given back.
LinesAsWanted ==
    ElogTypeOK /\ LinesWhole /\ FilterHonoured /\ LevelsAsWanted /\ LockHeldByOne
=============================================================================
