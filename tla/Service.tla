------------------------------- MODULE Service -------------------------------
(***************************************************************************)
(* The init script S98gzh_ipc, the recovery monitors it spawns, and the     *)
(* life of the media processes they supervise (main.cpp, service_state.hpp).*)
(*                                                                         *)
(* The callers, the user's command and the monitors, run the same shell     *)
(* functions, one at a time under service.lock; the processes they watch     *)
(* move on between any two of their steps.  Time is abstracted: a wait may   *)
(* end whenever its loop could, and a heartbeat is either fresh or stale.    *)
(***************************************************************************)
EXTENDS Naturals, FiniteSets

CONSTANTS
    Procs,        \* process ids the media program can get
    Monitors,     \* instances of "S98gzh_ipc _monitor"
    None,         \* no process, nobody
    Budget,       \* automatic starts per explicit start (three in the code)
    MaxCommands,  \* bound on the user's commands
    FaultSets     \* the sets of AllFaults that may happen together

AllFaults == {"crash", "hang", "stall", "init", "kill", "env", "foreign", "byhand"}

ASSUME ServiceAssumption ==
    /\ Budget \in Nat
    /\ MaxCommands \in Nat
    /\ FaultSets \subseteq SUBSET AllFaults
    /\ None \notin Procs \cup Monitors
    /\ "user" \notin Monitors \cup {None}

VARIABLES
    desired,  \* /run/gzh_ipc.desired: intent and token
    lock,     \* holder of /run/gzh_ipc.service.lock
    watch,    \* holder of /run/gzh_ipc.watchdog.lock
    pc,       \* where each caller is in the script
    cmd,      \* the user's command
    local,    \* the variables of monitor_loop
    proc,     \* stage of each media process
    term,     \* processes whose g_running is 0
    hung,     \* processes stuck in a driver call
    pidfile,  \* the process whose record /run/gzh_ipc.pid holds
    stale,    \* its heartbeat is older than monitor_tick accepts
    faults,   \* which faults may happen in this life of the system
    used,     \* history: automatic starts since the budget was last renewed
    byhand    \* history: the processes that were launched by hand

callers == <<desired, lock, watch, pc, cmd, local, used>>
procs == <<proc, term, hung, pidfile, stale, byhand>>
vars == <<callers, procs, faults>>

Callers == {"user"} \cup Monitors
Commands == {"start", "stop", "restart"}
Holding == {"starting", "ready", "stopping"}
NewLocal == [token |-> 0, attempts |-> 0, next |-> FALSE, healthy |-> None]

TypeOK ==
    /\ desired \in [intent : {"off", "run", "blocked"}, token : 0..MaxCommands]
    /\ lock \in Callers \cup {None}
    /\ watch \in Monitors \cup {None}
    /\ pc \in [Callers -> {"none", "begin", "idle", "tick", "gate", "ensure", "start",
                           "spawn", "wait", "stop", "kill", "stopping"}]
    /\ cmd \in Commands
    /\ local \in [Monitors -> [token : 0..MaxCommands, attempts : 0..Budget,
                               next : BOOLEAN, healthy : Procs \cup {None}]]
    /\ proc \in [Procs -> {"none", "loading", "exiting"} \cup Holding]
    /\ term \subseteq Procs
    /\ hung \subseteq Procs
    /\ pidfile \in Procs \cup {None}
    /\ stale \in BOOLEAN
    /\ used \in Nat /\ byhand \subseteq Procs
    /\ faults \in FaultSets

Init ==
    /\ desired = [intent |-> "off", token |-> 0]
    /\ lock = None /\ watch = None
    /\ pc = [c \in Callers |-> IF c = "user" THEN "idle" ELSE "none"]
    /\ cmd = "stop"
    /\ local = [m \in Monitors |-> NewLocal]
    /\ proc = [p \in Procs |-> "none"]
    /\ term = {} /\ hung = {} /\ pidfile = None /\ stale = FALSE
    /\ used = 0 /\ byhand = {}
    /\ faults \in FaultSets

-----------------------------------------------------------------------------
(* The media process *)

Alive == {p \in Procs : proc[p] # "none"}
\* Mutant: the PID file is not locked.
LockedIgnored == FALSE
Locked == \E p \in Procs : proc[p] \in Holding
Running == pidfile # None /\ pidfile \in Alive
\* Mutant: only the recorded process is looked for.
ManagedOnly == Running
Found == Alive # {}                           \* pidof gzh_ipc

\* ServiceState's destructor: the file is emptied and unlocked, main() returns.
Unwind(p) ==
    /\ proc' = [proc EXCEPT ![p] = "exiting"]
    /\ pidfile' = None
    /\ stale' = FALSE

SetState(p, state) ==
    /\ proc' = [proc EXCEPT ![p] = state]
    /\ pidfile' = p
    /\ stale' = FALSE

Gone(p) ==
    /\ proc' = [proc EXCEPT ![p] = "none"]
    /\ term' = term \ {p}
    /\ hung' = hung \ {p} /\ byhand' = byhand \ {p}
    /\ UNCHANGED <<pidfile, stale>>

\* ServiceState's constructor: the lock on the PID file admits one process.
Load(p) ==
    /\ proc[p] = "loading"
    /\ IF Locked
         THEN Gone(p)
         ELSE SetState(p, "starting") /\ UNCHANGED <<term, hung, byhand>>

Initialise(p) ==
    /\ proc[p] = "starting"
    /\ SetState(p, "ready")
    /\ UNCHANGED <<term, hung, byhand>>

\* An exception leaves the try block of main().
Throw(p) ==
    /\ "init" \in faults
    /\ proc[p] \in {"starting", "ready"}
    /\ Unwind(p)
    /\ UNCHANGED <<term, hung, byhand>>

\* The loop ends because of a signal, or because a channel stalled.
LeaveLoop(p) ==
    /\ proc[p] = "ready"
    /\ p \in term \/ "stall" \in faults
    /\ SetState(p, "stopping")
    /\ UNCHANGED <<term, hung, byhand>>

Finish(p) == proc[p] = "stopping" /\ Unwind(p) /\ UNCHANGED <<term, hung, byhand>>

Exit(p) == proc[p] = "exiting" /\ Gone(p)

\* The program started without the service, by hand or by an older script.
Launch(p) ==
    /\ "byhand" \in faults
    /\ proc[p] = "none" /\ p # pidfile
    /\ proc' = [proc EXCEPT ![p] = "loading"]
    /\ byhand' = byhand \cup {p}
    /\ UNCHANGED <<term, hung, pidfile, stale>>

Crash(p) == "crash" \in faults /\ proc[p] # "none" /\ Gone(p)

Hang(p) ==
    /\ "hang" \in faults
    /\ proc[p] \in Holding
    /\ hung' = hung \cup {p}
    /\ UNCHANGED <<proc, term, pidfile, stale, byhand>>

\* The heartbeat of a starting or stopping process is not renewed; that of a
\* ready one is, every second, unless it hangs.
Age ==
    /\ Running
    /\ proc[pidfile] # "ready" \/ pidfile \in hung
    /\ ~stale
    /\ stale' = TRUE
    /\ UNCHANGED <<proc, term, hung, pidfile, byhand>>

Process(p) ==
    /\ p \notin hung
    /\ \/ Load(p) \/ Initialise(p) \/ Throw(p) \/ Finish(p) \/ Exit(p)
       \/ LeaveLoop(p)

-----------------------------------------------------------------------------
(* The script *)

\* Mutant: service.lock is not taken.
FreeIgnored == TRUE
\* flock -n on service.lock.
Free == lock = None

\* Mutant: watchdog.lock is not taken.
UnwatchedIgnored == TRUE
\* flock -n on watchdog.lock, which a monitor keeps for its life.
Unwatched == watch = None

\* A caller is done: service.lock is released, also by the end of its shell.
Release(c) ==
    /\ lock' = None
    /\ pc' = [pc EXCEPT ![c] = "idle"]

Go(c, label) ==
    /\ pc' = [pc EXCEPT ![c] = label]
    /\ UNCHANGED lock

Block(m) ==
    /\ desired' = [desired EXCEPT !.intent = "blocked"]
    /\ Release(m)

Command(command) ==
    /\ pc["user"] = "idle" /\ Free
    /\ desired.token < MaxCommands
    /\ lock' = "user"
    /\ cmd' = command
    /\ desired' = [intent |-> IF command = "start" THEN "run" ELSE "off",
                   token |-> desired.token + 1]
    /\ pc' = [pc EXCEPT !["user"] = IF command = "start" THEN "ensure" ELSE "stop"]
    /\ used' = IF command = "start" THEN 0 ELSE used
    /\ UNCHANGED <<watch, local, procs>>

\* ensure_monitor: tests watchdog.lock and lets go of it before it spawns.
\* With every instance of Monitors already spawned, a further one would only
\* repeat what they do.
EnsureMonitor ==
    /\ pc["user"] = "ensure"
    /\ \/ /\ watch = None
          /\ \E m \in Monitors :
                /\ pc[m] = "none"
                /\ pc' = [pc EXCEPT !["user"] = "start", ![m] = "begin"]
          /\ UNCHANGED lock
       \/ /\ watch # None \/ \A m \in Monitors : pc[m] # "none"
          /\ Go("user", "start")
       \/ /\ watch = None /\ "env" \in faults
          /\ Release("user")
    /\ UNCHANGED <<desired, watch, cmd, local, used, procs>>

\* start_service up to the driver wait.
Start(c) ==
    /\ pc[c] = "start"
    /\ \/ Running /\ Go(c, "wait")
       \/ ~Running /\ (Found \/ faults \cap {"env", "foreign"} # {}) /\ Release(c)
       \/ ~Running /\ ~Found /\ Go(c, "spawn")
    /\ UNCHANGED <<desired, watch, cmd, local, used, procs>>

\* start-stop-daemon -S -b.  A process id is not reused while the PID file
\* names it; start-stop-daemon's own search for the program is left out.
Spawn(c) ==
    /\ pc[c] = "spawn"
    /\ \/ /\ \E p \in Procs \ {pidfile} :
                proc[p] = "none" /\ proc' = [proc EXCEPT ![p] = "loading"]
          /\ Go(c, "wait")
          /\ UNCHANGED <<term, hung, pidfile, stale, byhand>>
       \/ "env" \in faults /\ Release(c) /\ UNCHANGED procs
    /\ UNCHANGED <<desired, watch, cmd, local, used>>

\* wait_ready: ready, stopping, absent or timed out, the caller is done.
WaitReady(c) ==
    /\ pc[c] = "wait"
    /\ Release(c)
    /\ UNCHANGED <<desired, watch, cmd, local, used, procs>>

\* What a caller does once stop_service returned 0.
Stopped(c) ==
    IF c = "user" /\ cmd = "stop"
      THEN Release(c) /\ UNCHANGED <<desired, used>>
      ELSE /\ Go(c, IF c = "user" THEN "ensure" ELSE "gate")
           /\ desired' = IF c = "user" THEN [desired EXCEPT !.intent = "run"] ELSE desired
           /\ used' = IF c = "user" THEN 0 ELSE used

StopFailed(c) ==
    /\ IF c = "user" THEN Release(c) /\ UNCHANGED desired ELSE Block(c)
    /\ UNCHANGED used

Stop(c) ==
    /\ pc[c] = "stop"
    /\ \/ Running /\ Go(c, "kill") /\ UNCHANGED <<desired, used>>
       \/ ~Running /\ Found /\ StopFailed(c)
       \/ ~Running /\ ~Found /\ Stopped(c)
    /\ UNCHANGED <<watch, cmd, local, procs>>

\* start-stop-daemon -K fails when the process has gone in the meantime.
Kill(c) ==
    /\ pc[c] = "kill"
    /\ IF Running
         THEN /\ term' = term \cup {pidfile}
              /\ Go(c, "stopping")
              /\ UNCHANGED <<desired, used>>
         ELSE StopFailed(c) /\ UNCHANGED term
    /\ UNCHANGED <<watch, cmd, local, proc, hung, pidfile, stale, byhand>>

\* Mutant: the wait has no limit.
AwaitStopForEver(c) ==
    /\ pc[c] = "stopping" /\ ~Running /\ Stopped(c)
    /\ UNCHANGED <<watch, cmd, local, procs>>

AwaitStop(c) ==
    /\ pc[c] = "stopping"
    /\ \/ ~Running /\ Stopped(c)
       \/ Running /\ StopFailed(c)       \* thirty seconds are over
    /\ UNCHANGED <<watch, cmd, local, procs>>

-----------------------------------------------------------------------------
(* The monitor *)

Begin(m) ==
    /\ pc[m] = "begin"
    /\ IF Unwatched
         THEN /\ watch' = m
              /\ local' = [local EXCEPT ![m] = NewLocal]
              /\ pc' = [pc EXCEPT ![m] = "idle"]
              /\ used' = IF watch = None THEN 0 ELSE used
         ELSE pc' = [pc EXCEPT ![m] = "none"] /\ UNCHANGED <<watch, local, used>>
    /\ UNCHANGED <<desired, lock, cmd, procs>>

\* Every five seconds, when service.lock is free.
Take(m) ==
    /\ pc[m] = "idle" /\ Free
    /\ lock' = m
    /\ pc' = [pc EXCEPT ![m] = "tick"]
    /\ UNCHANGED <<desired, watch, cmd, local, used, procs>>

\* The monitor's variables as monitor_tick sees them: a new token renews the budget.
Current(m) ==
    IF local[m].token = desired.token THEN local[m]
    ELSE [NewLocal EXCEPT !.token = desired.token]

\* A fresh, ready process; five minutes of health can only be over for one
\* that was healthy at the last look.
Healthy(m, now) ==
    /\ proc[pidfile] = "ready" /\ ~stale
    /\ \E long \in {FALSE, now.healthy = pidfile} :
         /\ local' = [local EXCEPT ![m] =
                [now EXCEPT !.healthy = pidfile, !.next = FALSE,
                            !.attempts = IF long THEN 0 ELSE @]]
         /\ used' = IF long THEN 0 ELSE used
    /\ Release(m)

Patient(m, now) ==
    /\ proc[pidfile] # "ready" /\ ~stale
    /\ local' = [local EXCEPT ![m] = [now EXCEPT !.healthy = None]]
    /\ Release(m)
    /\ UNCHANGED used

Unhealthy(m, now) ==
    /\ stale
    /\ local' = [local EXCEPT ![m] = [now EXCEPT !.healthy = None]]
    /\ Go(m, "stop")
    /\ UNCHANGED used

\* Mutant: a delay that has passed starts anew.
AbsentAnew(m, now) ==
    /\ local' = [local EXCEPT ![m] = [now EXCEPT !.healthy = None, !.next = FALSE]]
    /\ Go(m, "gate")
    /\ UNCHANGED used

Absent(m, now) ==
    /\ local' = [local EXCEPT ![m] = [now EXCEPT !.healthy = None]]
    /\ Go(m, "gate")
    /\ UNCHANGED used

Tick(m) ==
    /\ pc[m] = "tick"
    /\ IF desired.intent # "run" THEN Release(m) /\ UNCHANGED <<local, used>>
       ELSE \/ Running /\ (\/ Healthy(m, Current(m)) \/ Patient(m, Current(m))
                           \/ Unhealthy(m, Current(m)))
            \/ ~Running /\ Absent(m, Current(m))
    /\ UNCHANGED <<desired, watch, cmd, procs>>

\* From line 183 on: another process or a spent budget ends the recovery.
Spent(m) == local[m].attempts >= Budget

GateBlocks(m) ==
    /\ pc[m] = "gate"
    /\ Found \/ "foreign" \in faults \/ Spent(m)
    /\ Block(m)
    /\ UNCHANGED <<watch, cmd, local, used, procs>>

GateWaits(m) ==
    /\ pc[m] = "gate"
    /\ ~Found /\ ~Spent(m)
    /\ local' = [local EXCEPT ![m].next = TRUE]      \* set, or not yet over
    /\ Release(m)
    /\ UNCHANGED <<desired, watch, cmd, used, procs>>

GateStarts(m) ==
    /\ pc[m] = "gate"
    /\ ~Found /\ ~Spent(m)
    /\ local[m].next
    /\ local' = [local EXCEPT ![m].next = FALSE, ![m].attempts = @ + 1]
    /\ used' = used + 1
    /\ Go(m, "start")
    /\ UNCHANGED <<desired, watch, cmd, procs>>

\* A shell is killed: its descriptors close.
Killed(c) ==
    /\ "kill" \in faults
    /\ pc[c] # "none" /\ ~(c = "user" /\ pc[c] = "idle")
    /\ pc' = [pc EXCEPT ![c] = IF c = "user" THEN "idle" ELSE "none"]
    /\ lock' = IF lock = c THEN None ELSE lock
    /\ watch' = IF watch = c THEN None ELSE watch
    /\ UNCHANGED <<desired, cmd, local, used, procs>>

-----------------------------------------------------------------------------
Script(c) ==
    \/ Start(c) \/ Spawn(c) \/ WaitReady(c)
    \/ Stop(c) \/ Kill(c) \/ AwaitStop(c)

Monitor(m) == Begin(m) \/ Take(m) \/ Tick(m) \/ GateBlocks(m) \/ GateWaits(m) \/ GateStarts(m)

Step ==
    \/ \E command \in Commands : Command(command)
    \/ EnsureMonitor
    \/ \E c \in Callers : Script(c) \/ Killed(c)
    \/ \E m \in Monitors : Monitor(m)
    \/ (\E p \in Procs : Process(p) \/ Launch(p) \/ Crash(p) \/ Hang(p)) /\ UNCHANGED callers
    \/ Age /\ UNCHANGED callers

Next == Step /\ UNCHANGED faults

Spec == Init /\ [][Next]_vars

\* The process's threads and the shells run, the clock advances (a heartbeat
\* ages, a delay ends); no fault has to happen, no wait has to fail.  Only the
\* holder of service.lock is in the script and only that of watchdog.lock at
\* the gate, so one condition for all of them is one for each.  Spawn and
\* GateStarts need the strong form: process ids are taken and given back, and
\* the delay of GateStarts ends after some ticks that find it running.
Ends(p) == p \notin hung /\ (Load(p) \/ Initialise(p) \/ Finish(p) \/ Exit(p)
                             \/ (p \in term /\ LeaveLoop(p)))

FairSpec ==
    /\ Spec
    /\ \A p \in Procs : WF_vars(Ends(p) /\ UNCHANGED <<callers, faults>>)
    /\ WF_vars(Age /\ UNCHANGED <<callers, faults>>)
    /\ WF_vars(EnsureMonitor /\ UNCHANGED faults)
    /\ WF_vars((\E c \in Callers : Script(c)) /\ UNCHANGED faults)
    /\ SF_vars((\E c \in Callers : Spawn(c)) /\ UNCHANGED faults)
    /\ \A m \in Monitors : WF_vars(Monitor(m) /\ UNCHANGED faults)
    /\ SF_vars((\E m \in Monitors : GateStarts(m)) /\ UNCHANGED faults)

-----------------------------------------------------------------------------
(* Properties *)

\* README 9.1: the service never runs two media processes, whatever is killed
\* and whoever starts: the check of pidof and the spawn are one under the lock.
OneProcess == Cardinality(Alive \ byhand) <= 1

\* main.cpp:133: of processes started by whatever means, at most one is past
\* the lock on the PID file and may touch settings, camera or log; the file
\* names it, or nobody while a later process may take over.
OneOwner ==
    /\ Cardinality({p \in Procs : proc[p] \in Holding}) <= 1
    /\ \A p \in Procs : proc[p] \in Holding => pidfile = p

\* A process is spawned only while the recorded intent is "run": after a stop
\* or a block nothing is started, by whichever caller was on its way
\* (S98gzh_ipc:152, 260).
SpawnOnlyWhenWanted ==
    [][\A p \in Procs :
          proc[p] = "none" /\ proc'[p] = "loading" /\ p \notin byhand' => desired.intent = "run"]_vars

\* Between two renewals (an explicit start, five healthy minutes, a new
\* monitor) at most Budget automatic starts, also with several monitors
\* spawned and across the user's commands (S98gzh_ipc:155-166, 188).
BudgetKept == used <= Budget

\* While the service is wanted and monitored, a process becomes ready with a
\* fresh heartbeat, or recovery is given up for the user to see: never a
\* silent outage, unless somebody goes on launching processes by hand (S98gzh_ipc:151-203).
Recovers ==
    \/ []<><<\E p \in Procs : Launch(p)>>_vars
    \/ (desired.intent = "run" /\ watch # None)
          ~> \/ desired.intent # "run" \/ watch = None
             \/ \E p \in Procs : proc[p] = "ready" /\ p \notin hung

\* service.lock is given back: no wait of a caller is without end, also when
\* the process hangs (S98gzh_ipc:30-47, 90-94).
LockReleased == \A c \in Callers : lock = c ~> lock # c

\* README 9.1: recovery is blocked for a failed stop, a conflicting program
\* or a spent budget.  The service's own process on its way out, everything
\* released and its record emptied, is none of these (S98gzh_ipc:184).
BlockedForAReason ==
    [][\A m \in Monitors : GateBlocks(m) /\ ~Spent(m) =>
          \E p \in Alive : proc[p] # "exiting"]_vars
=============================================================================
