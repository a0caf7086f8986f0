----------------------------- MODULE Service_proofs -----------------------------
(***************************************************************************)
(* Proofs about Service: for any number of media processes, monitors,        *)
(* commands and automatic starts, and any combination of faults, one process *)
(* runs at a time, one owns the PID file, nothing is started against the     *)
(* recorded intent, and the budget of automatic starts is kept.             *)
(***************************************************************************)
EXTENDS Service, FiniteSetTheorems, TLAPS

Labels == {"none", "begin", "idle", "tick", "gate", "ensure", "start",
           "spawn", "wait", "stop", "kill", "stopping"}
Locals == [token : 0..MaxCommands, attempts : 0..Budget, next : BOOLEAN,
           healthy : Procs \cup {None}]

\* The labels of a caller in the critical section of service.lock.
Working == Labels \ {"none", "begin", "idle"}

\* service.lock: who holds it is the one that is working.
LockInv == \A c \in Callers : pc[c] \in Working <=> lock = c

\* A caller on its way to a start has seen, or written, the intent "run", and
\* nobody else changes it under the lock.
WantedInv ==
    \A c \in Callers :
        \/ pc[c] \in {"ensure", "start", "spawn", "gate"}
        \/ c # "user" /\ pc[c] \in {"stop", "kill", "stopping"}
        => desired.intent = "run"

\* Only the monitor that holds watchdog.lock gets beyond its beginning.
WatchInv == \A m \in Monitors : pc[m] \notin {"none", "begin"} => watch = m

\* The PID file names the process that holds its lock.
OwnerInv == \A p \in Procs : proc[p] \in Holding => pidfile = p

\* Between pidof and the spawn no process of the service appears.
AloneInv ==
    (\E c \in Callers : pc[c] = "spawn") => \A p \in Procs : proc[p] = "none" \/ p \in byhand

UniqueInv ==
    \A p, q \in Procs :
        proc[p] # "none" /\ proc[q] # "none" /\ p \notin byhand /\ q \notin byhand => p = q

\* The monitor's copy of the token is never ahead, and is the current one once
\* monitor_tick has looked at it.
TokenInv ==
    \A m \in Monitors :
        /\ local[m].token <= desired.token
        /\ pc[m] \in {"gate", "stop", "kill", "stopping"} => local[m].token = desired.token

\* The monitor in charge knows of every automatic start, or of none since the
\* budget was renewed.
CountInv ==
    \A m \in Monitors : watch = m =>
        IF local[m].token = desired.token THEN used <= local[m].attempts
        ELSE desired.intent = "run" => used = 0

ScriptInv == LockInv /\ WantedInv /\ WatchInv
ServiceInv ==
    /\ TypeOK /\ ScriptInv /\ OwnerInv /\ AloneInv /\ UniqueInv
    /\ TokenInv /\ BudgetKept /\ CountInv

-----------------------------------------------------------------------------
(* The initial states *)

\* Nothing runs, nobody holds a lock and nothing has been started
\* (S98gzh_ipc:1-16).
LEMMA InitServiceInv == ASSUME Init PROVE ServiceInv
<1> USE ServiceAssumption
<1>1. TypeOK
  <2>1. desired \in [intent : {"off", "run", "blocked"}, token : 0..MaxCommands]
    BY DEF Init
  <2>2. local \in [Monitors -> [token : 0..MaxCommands, attempts : 0..Budget,
                               next : BOOLEAN, healthy : Procs \cup {None}]]
    BY DEF Init, NewLocal
  <2>3. pc \in [Callers -> {"none", "begin", "idle", "tick", "gate", "ensure", "start",
                           "spawn", "wait", "stop", "kill", "stopping"}]
    BY DEF Init
  <2>4. proc \in [Procs -> {"none", "loading", "exiting"} \cup Holding]
    BY DEF Init
  <2> QED
    BY <2>1, <2>2, <2>3, <2>4 DEF Init, TypeOK, Commands
<1>2. ScriptInv
  BY DEF Init, ScriptInv, LockInv, WantedInv, WatchInv, Callers, Working, Labels
<1>3. OwnerInv /\ AloneInv /\ UniqueInv
  BY DEF Init, OwnerInv, AloneInv, UniqueInv, Holding, Callers
<1>4. TokenInv /\ BudgetKept /\ CountInv
  BY DEF Init, TokenInv, BudgetKept, CountInv, NewLocal, Callers
<1> QED
  BY <1>1, <1>2, <1>3, <1>4 DEF ServiceInv

-----------------------------------------------------------------------------
(* The steps of the processes *)

ProcessStep ==
    (\E p \in Procs : Process(p) \/ Launch(p) \/ Crash(p) \/ Hang(p)) \/ Age

\* The types of what a process or the clock changes (service_state.hpp:29-64).
LEMMA ProcessTypes ==
    ASSUME TypeOK, ProcessStep, UNCHANGED callers, UNCHANGED faults
    PROVE  TypeOK'
<1> USE ServiceAssumption
<1>1. /\ UNCHANGED <<desired, lock, watch, pc, cmd, local, used, faults>>
  BY DEF callers
<1>2. SUFFICES /\ proc' \in [Procs -> {"none", "loading", "exiting"} \cup Holding]
               /\ term' \subseteq Procs /\ hung' \subseteq Procs
               /\ pidfile' \in Procs \cup {None} /\ stale' \in BOOLEAN
               /\ byhand' \subseteq Procs
  BY <1>1 DEF TypeOK
<1>3. CASE Age
  BY <1>3 DEF Age, TypeOK
<1>4. ASSUME NEW p \in Procs, Process(p) \/ Launch(p) \/ Crash(p) \/ Hang(p)
      PROVE  /\ proc' \in [Procs -> {"none", "loading", "exiting"} \cup Holding]
             /\ term' \subseteq Procs /\ hung' \subseteq Procs
             /\ pidfile' \in Procs \cup {None} /\ stale' \in BOOLEAN
             /\ byhand' \subseteq Procs
  <2>1. CASE Load(p)
    BY <2>1 DEF Load, Gone, SetState, TypeOK, Holding
  <2>2. CASE Initialise(p) \/ LeaveLoop(p)
    BY <2>2 DEF Initialise, LeaveLoop, SetState, TypeOK, Holding
  <2>3. CASE Throw(p) \/ Finish(p)
    BY <2>3 DEF Throw, Finish, Unwind, TypeOK, Holding
  <2>4. CASE Exit(p) \/ Crash(p)
    BY <2>4 DEF Exit, Crash, Gone, TypeOK, Holding
  <2>5. CASE Launch(p)
    BY <2>5 DEF Launch, TypeOK, Holding
  <2>6. CASE Hang(p)
    BY <2>6 DEF Hang, TypeOK
  <2> QED
    BY <1>4, <2>1, <2>2, <2>3, <2>4, <2>5, <2>6 DEF Process
<1> QED
  BY <1>3, <1>4 DEF ProcessStep

\* Whatever a process does, the PID file names the one past its lock, and no
\* process of the service appears (service_state.hpp:36, main.cpp:133).
LEMMA ProcessOwners ==
    ASSUME TypeOK, OwnerInv, AloneInv, UniqueInv, ProcessStep, UNCHANGED callers
    PROVE  OwnerInv' /\ AloneInv' /\ UniqueInv'
<1> USE ServiceAssumption
<1>1. UNCHANGED pc
  BY DEF callers
<1>2. proc \in [Procs -> {"none", "loading", "exiting"} \cup Holding]
  BY DEF TypeOK
<1>3. CASE Age
  BY <1>1, <1>3 DEF Age, OwnerInv, AloneInv, UniqueInv
<1>4. ASSUME NEW p \in Procs, Process(p) \/ Launch(p) \/ Crash(p) \/ Hang(p)
      PROVE  /\ OwnerInv'
             /\ \A q \in Procs : proc'[q] # "none" /\ q \notin byhand'
                                 => proc[q] # "none" /\ q \notin byhand
  <2>1. CASE Load(p)
    BY <1>2, <2>1 DEF Load, Gone, SetState, Locked, OwnerInv, Holding
  <2>2. CASE Initialise(p) \/ LeaveLoop(p)
    BY <1>2, <2>2 DEF Initialise, LeaveLoop, SetState, OwnerInv, Holding
  <2>3. CASE Throw(p) \/ Finish(p)
    BY <1>2, <2>3 DEF Throw, Finish, Unwind, OwnerInv, Holding
  <2>4. CASE Exit(p) \/ Crash(p)
    BY <1>2, <2>4 DEF Exit, Crash, Gone, OwnerInv, Holding
  <2>5. CASE Launch(p)
    BY <1>2, <2>5 DEF Launch, OwnerInv, Holding
  <2>6. CASE Hang(p)
    BY <1>2, <2>6 DEF Hang, OwnerInv
  <2> QED
    BY <1>4, <2>1, <2>2, <2>3, <2>4, <2>5, <2>6 DEF Process
<1>5. CASE \E p \in Procs : Process(p) \/ Launch(p) \/ Crash(p) \/ Hang(p)
  <2>1. PICK p \in Procs : Process(p) \/ Launch(p) \/ Crash(p) \/ Hang(p)
    BY <1>5
  <2>2. /\ OwnerInv'
        /\ \A q \in Procs : proc'[q] # "none" /\ q \notin byhand'
                            => proc[q] # "none" /\ q \notin byhand
    BY <1>4, <2>1
  <2> QED
    BY <1>1, <2>2 DEF AloneInv, UniqueInv
<1> QED
  BY <1>3, <1>5 DEF ProcessStep

-----------------------------------------------------------------------------
(* The steps of the script and the monitors *)

CallerStep ==
    \/ \E command \in Commands : Command(command)
    \/ EnsureMonitor
    \/ \E c \in Callers : Script(c) \/ Killed(c)
    \/ \E m \in Monitors : Monitor(m)

CallerTypes ==
    /\ desired \in [intent : {"off", "run", "blocked"}, token : 0..MaxCommands]
    /\ lock \in Callers \cup {None}
    /\ watch \in Monitors \cup {None}
    /\ pc \in [Callers -> Labels]
    /\ cmd \in Commands
    /\ local \in [Monitors -> Locals]
    /\ used \in Nat

\* The types of what the script's functions change (S98gzh_ipc:51-98).
LEMMA ScriptTypes ==
    ASSUME CallerTypes, NEW c \in Callers, Script(c) \/ Killed(c), LockInv, WantedInv
    PROVE  CallerTypes'
<1> USE ServiceAssumption DEF CallerTypes
<1>0. c = "user" \/ c \in Monitors
  BY DEF Callers
<1>a. [desired EXCEPT !.intent = "run"] \in [intent : {"off", "run", "blocked"}, token : 0..MaxCommands]
  OBVIOUS
<1>b. [desired EXCEPT !.intent = "blocked"] \in [intent : {"off", "run", "blocked"}, token : 0..MaxCommands]
  OBVIOUS
<1>1. CASE Start(c)
  BY <1>1 DEF Start, Go, Release, procs, Labels
<1>2. CASE Spawn(c)
  BY <1>2 DEF Spawn, Go, Release, procs, Labels
<1>3. CASE WaitReady(c)
  BY <1>3 DEF WaitReady, Release, procs, Labels
<1>4. ASSUME Stopped(c), UNCHANGED <<watch, cmd, local>>
      PROVE  CallerTypes'
  BY <1>4, <1>a DEF Stopped, Go, Release, Labels
<1>5. ASSUME StopFailed(c), UNCHANGED <<watch, cmd, local>>
      PROVE  CallerTypes'
  BY <1>5, <1>b DEF StopFailed, Block, Release, Labels
<1>6. CASE Stop(c)
  BY <1>4, <1>5, <1>6 DEF Stop, Go, Labels
<1>7. CASE Kill(c)
  BY <1>5, <1>7 DEF Kill, Go, Labels
<1>8. CASE AwaitStop(c)
  BY <1>4, <1>5, <1>8 DEF AwaitStop
<1>9. CASE Killed(c)
  BY <1>9 DEF Killed, procs, Labels
<1> QED
  BY <1>1, <1>2, <1>3, <1>6, <1>7, <1>8, <1>9 DEF Script

\* The types of what monitor_loop and monitor_tick change (S98gzh_ipc:151-221).
LEMMA MonitorTypes ==
    ASSUME CallerTypes, pidfile \in Procs \cup {None}, NEW m \in Monitors, Monitor(m)
    PROVE  CallerTypes'
<1> USE ServiceAssumption DEF CallerTypes
<1>0. m \in Callers
  BY DEF Callers
<1>1. Current(m) \in Locals
  <2>1. desired.token \in 0..MaxCommands /\ local[m] \in Locals
    OBVIOUS
  <2>2. [NewLocal EXCEPT !.token = desired.token] \in Locals
    <3>1. NewLocal \in Locals
      BY DEF NewLocal, Locals
    <3> QED
      BY <2>1, <3>1 DEF Locals
  <2> QED
    BY <2>1, <2>2 DEF Current
<1>2. CASE Begin(m)
  <2>1. NewLocal \in Locals
    BY DEF NewLocal, Locals
  <2> QED
    BY <1>0, <1>2, <2>1 DEF Begin, Labels, procs
<1>3. CASE Take(m)
  BY <1>0, <1>3 DEF Take, Labels, procs
<1>4. CASE Tick(m)
  <2> DEFINE now == Current(m)
  <2>1. CASE desired.intent # "run"
    BY <1>0, <1>4, <2>1 DEF Tick, Release, Labels, procs
  <2>2. CASE Running /\ Healthy(m, now)
    <3>1. PICK long \in {FALSE, now.healthy = pidfile} :
            /\ local' = [local EXCEPT ![m] =
                   [now EXCEPT !.healthy = pidfile, !.next = FALSE,
                               !.attempts = IF long THEN 0 ELSE @]]
            /\ used' = IF long THEN 0 ELSE used
      BY <2>2 DEF Healthy
    <3>2. [now EXCEPT !.healthy = pidfile, !.next = FALSE,
                      !.attempts = IF long THEN 0 ELSE @] \in Locals
      <4>1. 0 \in 0..Budget /\ pidfile \in Procs \cup {None}
        OBVIOUS
      <4>2. CASE long
        BY <1>1, <4>1, <4>2 DEF Locals
      <4>3. CASE ~long
        BY <1>1, <4>1, <4>3 DEF Locals
      <4> QED
        BY <4>2, <4>3
    <3>3. local' \in [Monitors -> Locals] /\ used' \in Nat
      BY <3>1, <3>2
    <3> QED
      BY <1>0, <1>4, <2>2, <3>3 DEF Tick, Healthy, Release, Labels, procs
  <2>3. CASE Patient(m, now) \/ Unhealthy(m, now) \/ Absent(m, now)
    <3>1. [now EXCEPT !.healthy = None] \in Locals
      BY <1>1 DEF Locals
    <3> QED
      BY <1>0, <1>4, <2>3, <3>1 DEF Tick, Patient, Unhealthy, Absent, Release, Go, Labels, procs
  <2> QED
    BY <1>4, <2>1, <2>2, <2>3 DEF Tick
<1>5. CASE GateBlocks(m)
  <2>1. [desired EXCEPT !.intent = "blocked"] \in [intent : {"off", "run", "blocked"}, token : 0..MaxCommands]
    OBVIOUS
  <2> QED
    BY <1>0, <1>5, <2>1 DEF GateBlocks, Block, Release, Labels, procs
<1>6. CASE GateWaits(m)
  <2>1. [local[m] EXCEPT !.next = TRUE] \in Locals
    BY DEF Locals
  <2> QED
    BY <1>0, <1>6, <2>1 DEF GateWaits, Release, Labels, procs
<1>7. CASE GateStarts(m)
  <2>1. local[m].attempts + 1 \in 0..Budget
    BY <1>7 DEF GateStarts, Spent, Locals
  <2>2. [local[m] EXCEPT !.next = FALSE, !.attempts = local[m].attempts + 1] \in Locals
    BY <2>1 DEF Locals
  <2>3. local' = [local EXCEPT ![m] = [local[m] EXCEPT !.next = FALSE, !.attempts = local[m].attempts + 1]]
    BY <1>7 DEF GateStarts
  <2> QED
    BY <1>0, <1>7, <2>2, <2>3 DEF GateStarts, Go, Labels, procs
<1> QED
  BY <1>2, <1>3, <1>4, <1>5, <1>6, <1>7 DEF Monitor

\* The types of what the user's command changes (S98gzh_ipc:253-268).
LEMMA CommandTypes ==
    ASSUME CallerTypes, (\E command \in Commands : Command(command)) \/ EnsureMonitor
    PROVE  CallerTypes'
<1> USE ServiceAssumption DEF CallerTypes
<1>0. "user" \in Callers /\ Monitors \subseteq Callers
  BY DEF Callers
<1>1. ASSUME NEW command \in Commands, Command(command)
      PROVE  CallerTypes'
  <2>1. desired.token + 1 \in 0..MaxCommands
    BY <1>1 DEF Command
  <2>2. desired' \in [intent : {"off", "run", "blocked"}, token : 0..MaxCommands]
    BY <1>1, <2>1 DEF Command
  <2> QED
    BY <1>0, <1>1, <2>2 DEF Command, Labels, procs
<1>2. CASE EnsureMonitor
  BY <1>0, <1>2 DEF EnsureMonitor, Go, Release, Labels, procs
<1> QED
  BY <1>1, <1>2

-----------------------------------------------------------------------------
(* The locks and the intent *)

WantedAt(c) ==
    \/ pc[c] \in {"ensure", "start", "spawn", "gate"}
    \/ c # "user" /\ pc[c] \in {"stop", "kill", "stopping"}

\* While one caller is in the script no other is: whatever it writes, and
\* wherever it goes, the others are outside (S98gzh_ipc:214, 253).
LEMMA LockMoves ==
    ASSUME CallerTypes, ScriptInv, NEW c \in Callers, pc[c] \in Working,
           NEW label \in Labels, watch' = watch,
           \/ label \in Working /\ Go(c, label)
           \/ label = "idle" /\ Release(c),
           \/ label \in {"ensure", "start", "spawn", "gate"}
           \/ c # "user" /\ label \in {"stop", "kill", "stopping"}
           => desired'.intent = "run"
    PROVE  ScriptInv'
<1> USE ServiceAssumption DEF CallerTypes
<1>1. None \notin Callers
  BY DEF Callers
<1>2. lock = c /\ \A d \in Callers \ {c} : pc[d] \notin Working
  BY <1>1 DEF ScriptInv, LockInv
<1>3. /\ pc'[c] = label /\ \A d \in Callers \ {c} : pc'[d] = pc[d]
      /\ \/ label \in Working /\ lock' = lock
         \/ label = "idle" /\ lock' = None
  BY DEF Go, Release
<1>4. LockInv'
  BY <1>1, <1>2, <1>3 DEF LockInv, Working
<1>5. WantedInv'
  BY <1>2, <1>3 DEF WantedInv, WantedAt, Working, Labels
<1>6. WatchInv'
  BY <1>2, <1>3 DEF ScriptInv, WatchInv, Working, Callers
<1> QED
  BY <1>4, <1>5, <1>6 DEF ScriptInv

\* The script's functions go on, or give the lock back (S98gzh_ipc:51-98).
LEMMA ScriptLocks ==
    ASSUME CallerTypes, ScriptInv, NEW c \in Callers, Script(c) \/ Killed(c)
    PROVE  ScriptInv'
<1> USE ServiceAssumption
<1>0. /\ c = "user" \/ c \in Monitors
      /\ "user" \notin Monitors /\ None \notin Callers
      /\ pc \in [Callers -> Labels]
  BY DEF Callers, CallerTypes
<1> DEFINE labels == {"start", "spawn", "wait", "stop", "kill", "stopping"}
<1>1. /\ labels \subseteq Working /\ labels \subseteq Labels /\ "idle" \in Labels
      /\ {"ensure", "gate"} \subseteq Working /\ {"ensure", "gate"} \subseteq Labels
  BY DEF Working, Labels
<1> DEFINE onward == labels \cup {"ensure", "gate"}
<1>a. /\ "ensure" \in onward /\ "gate" \in onward /\ "spawn" \in onward /\ "wait" \in onward
      /\ "kill" \in onward /\ "stopping" \in onward
      /\ onward \subseteq Working /\ onward \subseteq Labels
  BY <1>1
<1> HIDE DEF onward
<1>2. pc[c] \in labels /\ WantedAt(c) => desired.intent = "run"
  BY DEF ScriptInv, WantedInv, WantedAt
<1>3. ASSUME Release(c), UNCHANGED watch, pc[c] \in labels
      PROVE  ScriptInv'
  <2>1. "idle" \in Labels /\ pc[c] \in Working
    BY <1>1, <1>3
  <2> QED
    BY <1>3, <2>1, LockMoves
<1>4. ASSUME NEW label \in onward,
             Go(c, label), watch' = watch, pc[c] \in labels,
             \/ desired'.intent = "run" \/ label = "wait"
             \/ label \in {"stop", "kill", "stopping"} /\ c = "user"
      PROVE  ScriptInv'
  <2>1. label \in Labels /\ label \in Working /\ pc[c] \in Working
    BY <1>1, <1>a, <1>4
  <2>2. \/ label \in {"ensure", "start", "spawn", "gate"}
        \/ c # "user" /\ label \in {"stop", "kill", "stopping"}
        => desired'.intent = "run"
    BY <1>4
  <2> QED
    BY <1>4, <2>1, <2>2, LockMoves
<1>5. CASE Start(c)
  <2>1. desired' = desired /\ desired.intent = "run" /\ UNCHANGED watch /\ pc[c] \in labels
    BY <1>2, <1>5 DEF Start, WantedAt
  <2> QED
    BY <1>a, <1>3, <1>4, <1>5, <2>1 DEF Start
<1>6. CASE Spawn(c)
  <2>1. UNCHANGED watch /\ pc[c] \in labels
    BY <1>6 DEF Spawn
  <2> QED
    BY <1>a, <1>3, <1>4, <1>6, <2>1 DEF Spawn
<1>7. CASE WaitReady(c)
  BY <1>3, <1>7 DEF WaitReady
<1>8. ASSUME Stopped(c), UNCHANGED watch, pc[c] \in {"stop", "stopping"}
      PROVE  ScriptInv'
  <2>1. CASE c = "user" /\ cmd = "stop"
    BY <1>3, <1>8, <2>1 DEF Stopped
  <2>2. CASE c = "user" /\ cmd # "stop"
    <3>1. Go(c, "ensure") /\ desired'.intent = "run"
      BY <1>8, <2>2 DEF Stopped, CallerTypes
    <3> QED
      BY <1>a, <1>4, <1>8, <3>1
  <2>3. CASE c # "user"
    <3>1. Go(c, "gate") /\ desired' = desired /\ desired.intent = "run"
      BY <1>2, <1>8, <2>3 DEF Stopped, WantedAt
    <3> QED
      BY <1>a, <1>4, <1>8, <3>1
  <2> QED
    BY <2>1, <2>2, <2>3
<1>9. ASSUME StopFailed(c), UNCHANGED watch, pc[c] \in {"stop", "kill", "stopping"}
      PROVE  ScriptInv'
  BY <1>3, <1>9 DEF StopFailed, Block
<1>10. ASSUME NEW label \in {"kill", "stopping"}, Go(c, label), watch' = watch, desired' = desired,
              pc[c] \in {"stop", "kill"}
       PROVE  ScriptInv'
  <2>1. c # "user" => desired.intent = "run"
    BY <1>2, <1>10 DEF WantedAt
  <2> QED
    BY <1>a, <1>4, <1>10, <2>1
<1>11. CASE Stop(c)
  BY <1>8, <1>9, <1>10, <1>11 DEF Stop
<1>12. CASE Kill(c)
  BY <1>9, <1>10, <1>12 DEF Kill
<1>13. CASE AwaitStop(c)
  BY <1>8, <1>9, <1>13 DEF AwaitStop
<1>14. CASE Killed(c)
  <2>1. pc' = [pc EXCEPT ![c] = IF c = "user" THEN "idle" ELSE "none"] /\ desired' = desired
    BY <1>14 DEF Killed
  <2>2. LockInv'
    BY <1>0, <1>14, <2>1 DEF Killed, ScriptInv, LockInv, Working, Labels
  <2>3. WantedInv'
    BY <1>0, <2>1 DEF ScriptInv, WantedInv
  <2>4. WatchInv'
    BY <1>0, <1>14, <2>1 DEF Killed, ScriptInv, WatchInv, Callers
  <2> QED
    BY <2>2, <2>3, <2>4 DEF ScriptInv
<1> QED
  BY <1>5, <1>6, <1>7, <1>11, <1>12, <1>13, <1>14 DEF Script

\* The same of a monitor, which enters the script by monitor_loop's flock
\* (S98gzh_ipc:207-214).
LEMMA MonitorLocks ==
    ASSUME CallerTypes, ScriptInv, NEW m \in Monitors, Monitor(m)
    PROVE  ScriptInv'
<1> USE ServiceAssumption DEF CallerTypes, ScriptInv, LockInv, WantedInv, WatchInv
<1>0. m \in Callers /\ m # "user" /\ None \notin Callers
  BY DEF Callers
<1>1. CASE Begin(m)
  <2>1. \A c \in Callers \ {m} : pc'[c] = pc[c]
    BY <1>1 DEF Begin
  <2>2. \/ pc'[m] = "idle" /\ watch' = m /\ watch = None
        \/ pc'[m] = "none" /\ watch' = watch
    BY <1>0, <1>1 DEF Begin, Unwatched
  <2>3. lock' = lock /\ desired' = desired /\ pc[m] = "begin"
    BY <1>1 DEF Begin
  <2>4. \A d \in Monitors : d \in Callers /\ d # None
    BY DEF Callers
  <2> QED
    BY <1>0, <2>1, <2>2, <2>3, <2>4 DEF Labels, Working
<1>2. CASE Take(m)
  BY <1>0, <1>2 DEF Take, Free, Labels, Working, procs
<1>3. CASE Tick(m)
  <2>1. UNCHANGED <<desired, watch>>
    BY <1>3 DEF Tick
  <2>2. \/ Release(m)
        \/ desired.intent = "run" /\ (Go(m, "stop") \/ Go(m, "gate"))
    BY <1>3 DEF Tick, Healthy, Patient, Unhealthy, Absent
  <2>3. CASE Release(m)
    BY <1>0, <1>3, <2>1, <2>3 DEF Tick, Release, Labels, Working
  <2>4. CASE desired.intent = "run" /\ Go(m, "stop")
    BY <1>0, <1>3, <2>1, <2>4 DEF Tick, Go, Labels, Working
  <2>5. CASE desired.intent = "run" /\ Go(m, "gate")
    BY <1>0, <1>3, <2>1, <2>5 DEF Tick, Go, Labels, Working
  <2> QED
    BY <2>2, <2>3, <2>4, <2>5
<1>4. CASE GateBlocks(m)
  BY <1>0, <1>4 DEF GateBlocks, Block, Release, Labels, Working
<1>5. CASE GateWaits(m)
  BY <1>0, <1>5 DEF GateWaits, Release, Labels, Working
<1>6. CASE GateStarts(m)
  BY <1>0, <1>6 DEF GateStarts, Go, Labels, Working
<1> QED
  BY <1>1, <1>2, <1>3, <1>4, <1>5, <1>6 DEF Monitor

\* The same of the user's command, which writes the intent under the lock
\* (S98gzh_ipc:253-268).
LEMMA CommandLocks ==
    ASSUME CallerTypes, ScriptInv,
           (\E command \in Commands : Command(command)) \/ EnsureMonitor
    PROVE  ScriptInv'
<1> USE ServiceAssumption DEF CallerTypes, ScriptInv, LockInv, WantedInv, WatchInv
<1>0. "user" \in Callers /\ Monitors \subseteq Callers /\ "user" \notin Monitors /\ None \notin Callers
  BY DEF Callers
<1>1. ASSUME NEW command \in Commands, Command(command)
      PROVE  ScriptInv'
  <2>1. \A c \in Callers : pc[c] \notin Working
    BY <1>0, <1>1 DEF Command, Free
  <2>2. \A c \in Callers \ {"user"} : pc'[c] = pc[c]
    BY <1>1 DEF Command
  <2>3. /\ pc'["user"] \in {"ensure", "stop"} /\ lock' = "user" /\ watch' = watch
        /\ pc'["user"] = "ensure" => desired'.intent = "run"
    BY <1>0, <1>1 DEF Command
  <2> QED
    BY <1>0, <2>1, <2>2, <2>3 DEF Working, Labels
<1>2. CASE EnsureMonitor
  <2>1. CASE \E m \in Monitors : pc[m] = "none" /\ UNCHANGED lock
                 /\ pc' = [pc EXCEPT !["user"] = "start", ![m] = "begin"]
    BY <1>0, <1>2, <2>1 DEF EnsureMonitor, Labels, Working
  <2>2. CASE Go("user", "start")
    BY <1>0, <1>2, <2>2 DEF EnsureMonitor, Go, Labels, Working
  <2>3. CASE Release("user")
    BY <1>0, <1>2, <2>3 DEF EnsureMonitor, Release, Labels, Working
  <2> QED
    BY <1>2, <2>1, <2>2, <2>3 DEF EnsureMonitor
<1> QED
  BY <1>1, <1>2

-----------------------------------------------------------------------------
(* One process *)

\* pidof and start-stop-daemon are one under the lock: the spawn finds none of
\* the service's processes, and no other caller is at its spawn then
\* (S98gzh_ipc:51-77).
LEMMA CallerOwners ==
    ASSUME TypeOK, LockInv, OwnerInv, AloneInv, UniqueInv, CallerStep
    PROVE  OwnerInv' /\ AloneInv' /\ UniqueInv'
<1> USE ServiceAssumption
<1>0. /\ None \notin Callers
      /\ proc \in [Procs -> {"none", "loading", "exiting"} \cup Holding]
      /\ pc \in [Callers -> Labels]
  BY DEF Callers, TypeOK, Labels
<1>1. ASSUME UNCHANGED <<proc, pidfile, byhand>>,
             \A c \in Callers : pc'[c] = "spawn" => pc[c] = "spawn" \/ Alive = {}
      PROVE  OwnerInv' /\ AloneInv' /\ UniqueInv'
  BY <1>1 DEF OwnerInv, AloneInv, UniqueInv, Alive
<1>2. CASE \E command \in Commands : Command(command)
  BY <1>0, <1>1, <1>2 DEF Command, procs
<1>3. CASE EnsureMonitor
  BY <1>0, <1>1, <1>3 DEF EnsureMonitor, Go, Release, procs
<1>4. ASSUME NEW m \in Monitors, Monitor(m)
      PROVE  OwnerInv' /\ AloneInv' /\ UniqueInv'
  <2>1. UNCHANGED <<proc, pidfile, byhand>>
    BY <1>4 DEF Monitor, Begin, Take, Tick, GateBlocks, GateWaits, GateStarts, procs
  <2>2. \A c \in Callers : pc'[c] = "spawn" => pc[c] = "spawn"
    BY <1>0, <1>4 DEF Monitor, Begin, Take, Tick, Healthy, Patient, Unhealthy, Absent,
                GateBlocks, Block, GateWaits, GateStarts, Go, Release
  <2> QED
    BY <1>1, <2>1, <2>2
<1>5. ASSUME NEW c \in Callers, Script(c) \/ Killed(c)
      PROVE  OwnerInv' /\ AloneInv' /\ UniqueInv'
  <2>1. CASE Spawn(c) /\ ~UNCHANGED procs
    <3>1. PICK p \in Procs \ {pidfile} :
            proc[p] = "none" /\ proc' = [proc EXCEPT ![p] = "loading"]
      BY <2>1 DEF Spawn
    <3>2. UNCHANGED <<pidfile, byhand>> /\ pc' = [pc EXCEPT ![c] = "wait"]
      BY <2>1 DEF Spawn, Go
    <3>3. OwnerInv'
      BY <1>0, <3>1, <3>2 DEF OwnerInv, Holding
    <3>4. \A q \in Procs : proc[q] = "none" \/ q \in byhand
      BY <2>1 DEF Spawn, AloneInv
    <3>5. UniqueInv'
      BY <1>0, <3>1, <3>2, <3>4 DEF UniqueInv
    <3>6. \A d \in Callers : pc'[d] # "spawn"
      <4>1. \A d \in Callers : pc[d] = "spawn" => d = c
        BY <2>1 DEF Spawn, LockInv, Working, Labels
      <4> QED
        BY <1>0, <3>2, <4>1
    <3> QED
      BY <3>3, <3>5, <3>6 DEF AloneInv
  <2>2. CASE ~(Spawn(c) /\ ~UNCHANGED procs)
    <3>1. UNCHANGED <<proc, pidfile, byhand>>
      BY <1>5, <2>2 DEF Script, Start, Spawn, WaitReady, Stop, Kill, AwaitStop, Killed, procs
    <3>2. \A d \in Callers : pc'[d] = "spawn" => pc[d] = "spawn" \/ Alive = {}
      BY <1>0, <1>5 DEF Script, Start, Spawn, WaitReady, Stop, Kill, AwaitStop, Killed,
                  Stopped, StopFailed, Block, Found, Go, Release
    <3> QED
      BY <1>1, <3>1, <3>2
  <2> QED
    BY <2>1, <2>2
<1> QED
  BY <1>2, <1>3, <1>4, <1>5 DEF CallerStep

-----------------------------------------------------------------------------
(* The budget *)

BudgetInv == TokenInv /\ BudgetKept /\ CountInv

\* A command gives a new token, which makes every monitor's count a thing of
\* the past; an explicit start renews the budget (S98gzh_ipc:254-268).
LEMMA CommandBudget ==
    ASSUME CallerTypes, BudgetInv, LockInv,
           (\E command \in Commands : Command(command)) \/ EnsureMonitor
    PROVE  BudgetInv'
<1> USE ServiceAssumption DEF CallerTypes, Locals
<1>0. Monitors \subseteq Callers /\ None \notin Callers /\ "user" \notin Monitors /\ "user" \in Callers
  BY DEF Callers
<1>1. ASSUME NEW command \in Commands, Command(command)
      PROVE  BudgetInv'
  <2>1. \A m \in Monitors : pc'[m] = pc[m] /\ pc[m] \notin Working
    BY <1>0, <1>1 DEF Command, Free, LockInv
  <2>2. /\ desired'.token = desired.token + 1 /\ desired.token \in Nat
        /\ desired'.intent = IF command = "start" THEN "run" ELSE "off"
        /\ used' = IF command = "start" THEN 0 ELSE used
        /\ UNCHANGED local /\ UNCHANGED watch
    BY <1>1 DEF Command
  <2>3. \A m \in Monitors : local[m].token \in Nat /\ local[m].token <= desired.token
    BY DEF BudgetInv, TokenInv
  <2>4. TokenInv'
    BY <2>1, <2>2, <2>3 DEF TokenInv, Working, Labels
  <2>5. BudgetKept'
    BY <2>2 DEF BudgetInv, BudgetKept
  <2>6. CountInv'
    BY <2>2, <2>3 DEF CountInv
  <2> QED
    BY <2>4, <2>5, <2>6 DEF BudgetInv
<1>2. CASE EnsureMonitor
  <2>1. /\ UNCHANGED desired /\ UNCHANGED local /\ UNCHANGED used /\ UNCHANGED watch
    BY <1>2 DEF EnsureMonitor
  <2>2. \A m \in Monitors : pc'[m] = pc[m] \/ pc'[m] = "begin"
    BY <1>0, <1>2 DEF EnsureMonitor, Go, Release
  <2> QED
    BY <2>1, <2>2 DEF BudgetInv, TokenInv, BudgetKept, CountInv
<1> QED
  BY <1>1, <1>2

\* The script's functions leave the token and the counts alone; a restart
\* renews the budget when it writes "run" (S98gzh_ipc:262-266).
LEMMA ScriptBudget ==
    ASSUME CallerTypes, BudgetInv, LockInv, NEW c \in Callers, Script(c) \/ Killed(c)
    PROVE  BudgetInv'
<1> USE ServiceAssumption DEF CallerTypes, Locals
<1>0. None \notin Callers /\ Monitors \subseteq Callers
  BY DEF Callers
<1>1. desired'.token = desired.token /\ UNCHANGED local
  BY DEF Script, Start, Spawn, WaitReady, Stop, Kill, AwaitStop, Killed, Stopped, StopFailed, Block
<1>2. watch' = watch \/ watch' = None
  BY DEF Script, Start, Spawn, WaitReady, Stop, Kill, AwaitStop, Killed
<1>3. \/ used' = used /\ (desired'.intent = desired.intent \/ desired'.intent = "blocked")
      \/ used' = 0
  <2>1. CASE Stop(c)
    BY <2>1 DEF Stop, Stopped, StopFailed, Block
  <2>2. CASE Kill(c)
    BY <2>2 DEF Kill, StopFailed, Block
  <2>3. CASE AwaitStop(c)
    BY <2>3 DEF AwaitStop, Stopped, StopFailed, Block
  <2>4. CASE Start(c) \/ Spawn(c) \/ WaitReady(c) \/ Killed(c)
    BY <2>4 DEF Start, Spawn, WaitReady, Killed
  <2> QED
    BY <2>1, <2>2, <2>3, <2>4 DEF Script
<1>4. \A m \in Monitors : pc'[m] \in {"gate", "stop", "kill", "stopping"}
                          => pc[m] \in {"gate", "stop", "kill", "stopping"}
  BY <1>0 DEF Script, Start, Spawn, WaitReady, Stop, Kill, AwaitStop, Killed, Stopped, StopFailed,
              Block, Go, Release
<1>5. TokenInv'
  BY <1>1, <1>4 DEF BudgetInv, TokenInv
<1>6. BudgetKept'
  BY <1>3 DEF BudgetInv, BudgetKept
<1>7. CountInv'
  BY <1>0, <1>1, <1>2, <1>3 DEF BudgetInv, CountInv
<1> QED
  BY <1>5, <1>6, <1>7 DEF BudgetInv

\* The monitor that holds watchdog.lock counts what it starts, and starts only
\* below the budget (S98gzh_ipc:151-203).
LEMMA MonitorBudget ==
    ASSUME CallerTypes, BudgetInv, ScriptInv, NEW m \in Monitors, Monitor(m)
    PROVE  BudgetInv'
<1> USE ServiceAssumption DEF CallerTypes, Locals
<1>0. /\ m \in Callers /\ None \notin Monitors /\ desired.token \in Nat
      /\ \A n \in Monitors : local[n].token \in Nat /\ local[n].attempts \in Nat
  BY DEF Callers
<1>1. CASE Begin(m)
  <2>1. CASE Unwatched
    <3>1. /\ watch' = m /\ watch = None /\ used' = 0 /\ UNCHANGED desired
          /\ local' = [local EXCEPT ![m] = NewLocal] /\ pc' = [pc EXCEPT ![m] = "idle"]
      BY <1>1, <2>1 DEF Begin, Unwatched
    <3>2. local'[m].token = 0 /\ local'[m].attempts = 0
      BY <3>1 DEF NewLocal
    <3>3. \A n \in Monitors \ {m} : local'[n] = local[n] /\ pc'[n] = pc[n]
      BY <3>1
    <3>4. TokenInv'
      BY <1>0, <3>1, <3>2, <3>3 DEF BudgetInv, TokenInv
    <3>5. BudgetKept' /\ CountInv'
      BY <1>0, <3>1, <3>2 DEF BudgetKept, CountInv
    <3> QED
      BY <3>4, <3>5 DEF BudgetInv
  <2>2. CASE ~Unwatched
    <3>1. /\ UNCHANGED desired /\ UNCHANGED watch /\ UNCHANGED local /\ UNCHANGED used
          /\ pc' = [pc EXCEPT ![m] = "none"]
      BY <1>1, <2>2 DEF Begin
    <3> QED
      BY <1>0, <3>1 DEF BudgetInv, TokenInv, BudgetKept, CountInv
  <2> QED
    BY <2>1, <2>2
<1>2. CASE Take(m)
  BY <1>0, <1>2 DEF Take, BudgetInv, TokenInv, BudgetKept, CountInv
<1>3. CASE GateBlocks(m)
  <2>1. /\ desired'.token = desired.token /\ desired'.intent = "blocked"
        /\ pc' = [pc EXCEPT ![m] = "idle"]
        /\ UNCHANGED local /\ UNCHANGED used /\ UNCHANGED watch
    BY <1>3 DEF GateBlocks, Block, Release
  <2> QED
    BY <1>0, <2>1 DEF BudgetInv, TokenInv, BudgetKept, CountInv
<1>4. CASE GateWaits(m)
  <2>1. /\ UNCHANGED desired /\ UNCHANGED used /\ UNCHANGED watch
        /\ pc' = [pc EXCEPT ![m] = "idle"]
    BY <1>4 DEF GateWaits, Release
  <2>2. \A n \in Monitors : local'[n].token = local[n].token /\ local'[n].attempts = local[n].attempts
    BY <1>4 DEF GateWaits
  <2> QED
    BY <1>0, <2>1, <2>2 DEF BudgetInv, TokenInv, BudgetKept, CountInv
<1>5. CASE GateStarts(m)
  <2>1. /\ UNCHANGED desired /\ UNCHANGED watch /\ used' = used + 1 /\ pc[m] = "gate"
        /\ pc' = [pc EXCEPT ![m] = "start"] /\ local[m].attempts < Budget
    BY <1>0, <1>5 DEF GateStarts, Go, Spent
  <2>2. /\ \A n \in Monitors : local'[n].token = local[n].token
        /\ local'[m].attempts = local[m].attempts + 1
    BY <1>5 DEF GateStarts
  <2>3. watch = m /\ local[m].token = desired.token /\ used <= local[m].attempts
    BY <1>0, <2>1 DEF BudgetInv, TokenInv, CountInv, ScriptInv, WatchInv
  <2>4. TokenInv'
    BY <1>0, <2>1, <2>2 DEF BudgetInv, TokenInv
  <2>5. BudgetKept' /\ CountInv'
    BY <1>0, <2>1, <2>2, <2>3 DEF BudgetKept, CountInv
  <2> QED
    BY <2>4, <2>5 DEF BudgetInv
<1>6. CASE Tick(m)
  <2> DEFINE now == Current(m)
  <2>1. UNCHANGED desired /\ UNCHANGED watch /\ watch = m /\ pc[m] = "tick"
    BY <1>0, <1>6 DEF Tick, ScriptInv, WatchInv
  <2>2. \A n \in Monitors \ {m} : pc'[n] = pc[n]
    <3>1. Release(m) \/ Go(m, "stop") \/ Go(m, "gate")
      BY <1>6 DEF Tick, Healthy, Patient, Unhealthy, Absent
    <3> QED
      BY <3>1 DEF Go, Release, Callers
  <2>3. CASE desired.intent # "run"
    <3>1. UNCHANGED local /\ UNCHANGED used /\ pc' = [pc EXCEPT ![m] = "idle"]
      BY <1>6, <2>3 DEF Tick, Release
    <3> QED
      BY <1>0, <2>1, <3>1 DEF BudgetInv, TokenInv, BudgetKept, CountInv
  <2>4. CASE desired.intent = "run"
    <3>1. now.token = desired.token /\ now.attempts \in Nat /\ used <= now.attempts
      <4>1. CASE local[m].token = desired.token
        BY <1>0, <2>1, <4>1 DEF Current, BudgetInv, CountInv
      <4>2. CASE local[m].token # desired.token
        BY <1>0, <2>1, <2>4, <4>2 DEF Current, NewLocal, BudgetInv, CountInv
      <4> QED
        BY <4>1, <4>2
    <3>2. /\ \A n \in Monitors \ {m} : local'[n] = local[n]
          /\ local'[m].token = now.token
          /\ \/ local'[m].attempts = now.attempts /\ used' = used
             \/ local'[m].attempts = 0 /\ used' = 0
      <4> HIDE DEF now
      <4>0. now \in Locals
        <5>1. NewLocal \in Locals
          BY DEF NewLocal, Locals
        <5>2. [NewLocal EXCEPT !.token = desired.token] \in Locals
          BY <5>1 DEF Locals
        <5> QED
          BY <5>2 DEF Current, now, Locals
      <4>1. CASE Healthy(m, now)
        <5>1. PICK long \in {FALSE, now.healthy = pidfile} :
                /\ local' = [local EXCEPT ![m] =
                       [now EXCEPT !.healthy = pidfile, !.next = FALSE,
                                   !.attempts = IF long THEN 0 ELSE @]]
                /\ used' = IF long THEN 0 ELSE used
          BY <4>1 DEF Healthy
        <5>2. CASE long
          BY <4>0, <5>1, <5>2
        <5>3. CASE ~long
          BY <4>0, <5>1, <5>3
        <5> QED
          BY <5>2, <5>3
      <4>2. CASE Patient(m, now) \/ Unhealthy(m, now) \/ Absent(m, now)
        BY <4>0, <4>2 DEF Patient, Unhealthy, Absent
      <4> QED
        BY <1>6, <2>4, <4>1, <4>2 DEF Tick, now
    <3> HIDE DEF now
    <3>3. TokenInv'
      BY <1>0, <2>1, <2>2, <3>1, <3>2 DEF BudgetInv, TokenInv
    <3>4. BudgetKept' /\ CountInv'
      BY <1>0, <2>1, <3>1, <3>2 DEF BudgetInv, BudgetKept, CountInv
    <3> QED
      BY <3>3, <3>4 DEF BudgetInv
  <2> QED
    BY <2>3, <2>4
<1> QED
  BY <1>1, <1>2, <1>3, <1>4, <1>5, <1>6 DEF Monitor

-----------------------------------------------------------------------------
(* The inductive invariant *)

\* A step of the script or of a monitor leaves the processes alone, except for
\* the spawn and for the signal of stop_service (S98gzh_ipc:73, 88).
LEMMA CallerProcTypes ==
    ASSUME TypeOK, CallerStep
    PROVE  /\ proc' \in [Procs -> {"none", "loading", "exiting"} \cup Holding]
           /\ term' \subseteq Procs /\ hung' \subseteq Procs
           /\ pidfile' \in Procs \cup {None} /\ stale' \in BOOLEAN
           /\ byhand' \subseteq Procs
<1> USE DEF TypeOK
<1>1. CASE UNCHANGED procs
  BY <1>1 DEF procs
<1>2. ASSUME NEW c \in Callers, Spawn(c), ~UNCHANGED procs
      PROVE  /\ proc' \in [Procs -> {"none", "loading", "exiting"} \cup Holding]
             /\ UNCHANGED <<term, hung, pidfile, stale, byhand>>
  BY <1>2 DEF Spawn
<1>3. ASSUME NEW c \in Callers, Kill(c), ~UNCHANGED procs
      PROVE  term' \subseteq Procs /\ UNCHANGED <<proc, hung, pidfile, stale, byhand>>
  BY <1>3 DEF Kill, Running, Alive
<1>4. \/ UNCHANGED procs
      \/ \E c \in Callers : Spawn(c) \/ Kill(c)
  BY DEF CallerStep, Command, EnsureMonitor, Script, Start, WaitReady, Stop, AwaitStop, Killed,
         Monitor, Begin, Take, Tick, GateBlocks, GateWaits, GateStarts
<1> QED
  BY <1>1, <1>2, <1>3, <1>4

\* What the types say of the callers' variables (S98gzh_ipc:116-222).
LEMMA TypesSplit == ASSUME TypeOK PROVE CallerTypes
BY DEF TypeOK, CallerTypes, Labels, Locals

\* Every step of the system is one of a caller or one of a process (main.cpp,
\* S98gzh_ipc).
LEMMA StepCases ==
    ASSUME Next
    PROVE  UNCHANGED faults /\ (CallerStep \/ (ProcessStep /\ UNCHANGED callers))
BY DEF Next, Step, CallerStep, ProcessStep

\* ServiceInv is inductive: each part is kept by the callers' steps and by the
\* processes' (S98gzh_ipc, service_state.hpp:29-64).
LEMMA ServiceStep == ASSUME ServiceInv, [Next]_vars PROVE ServiceInv'
<1> USE DEF ServiceInv
<1>1. CASE UNCHANGED vars
  <2>1. UNCHANGED <<desired, lock, watch, pc, cmd, local, used, proc, term, hung, pidfile,
                    stale, byhand, faults>>
    BY <1>1 DEF vars, callers, procs
  <2>2. TypeOK'
    BY <2>1 DEF TypeOK
  <2>3. ScriptInv' /\ OwnerInv' /\ AloneInv' /\ UniqueInv'
    BY <2>1 DEF ScriptInv, LockInv, WantedInv, WatchInv, OwnerInv, AloneInv, UniqueInv
  <2>4. TokenInv' /\ BudgetKept' /\ CountInv'
    BY <2>1 DEF TokenInv, BudgetKept, CountInv
  <2> QED
    BY <2>2, <2>3, <2>4
<1>2. CASE UNCHANGED faults /\ ProcessStep /\ UNCHANGED callers
  <2>1. UNCHANGED <<desired, lock, watch, pc, cmd, local, used>>
    BY <1>2 DEF callers
  <2>2. TypeOK'
    BY <1>2, ProcessTypes
  <2>3. OwnerInv' /\ AloneInv' /\ UniqueInv'
    BY <1>2, ProcessOwners
  <2>4. ScriptInv'
    BY <2>1 DEF ScriptInv, LockInv, WantedInv, WatchInv
  <2>5. TokenInv' /\ BudgetKept' /\ CountInv'
    BY <2>1 DEF TokenInv, BudgetKept, CountInv
  <2> QED
    BY <2>2, <2>3, <2>4, <2>5
<1>3. CASE UNCHANGED faults /\ CallerStep
  <2>1. CallerTypes /\ BudgetInv /\ LockInv /\ WantedInv
    BY TypesSplit DEF BudgetInv, ScriptInv
  <2>2. pidfile \in Procs \cup {None}
    BY DEF TypeOK
  <2>3. CallerTypes' /\ ScriptInv' /\ BudgetInv'
    <3>1. CASE (\E command \in Commands : Command(command)) \/ EnsureMonitor
      BY <2>1, <3>1, CommandTypes, CommandLocks, CommandBudget
    <3>2. ASSUME NEW c \in Callers, Script(c) \/ Killed(c)
          PROVE  CallerTypes' /\ ScriptInv' /\ BudgetInv'
      BY <2>1, <3>2, ScriptTypes, ScriptLocks, ScriptBudget
    <3>3. ASSUME NEW m \in Monitors, Monitor(m)
          PROVE  CallerTypes' /\ ScriptInv' /\ BudgetInv'
      BY <2>1, <2>2, <3>3, MonitorTypes, MonitorLocks, MonitorBudget
    <3> QED
      BY <1>3, <3>1, <3>2, <3>3 DEF CallerStep
  <2>4. TypeOK'
    <3>1. faults' \in FaultSets
      BY <1>3 DEF TypeOK
    <3> QED
      BY <1>3, <2>3, <3>1, CallerProcTypes DEF TypeOK, CallerTypes, Labels, Locals
  <2>5. OwnerInv' /\ AloneInv' /\ UniqueInv'
    BY <1>3, <2>1, CallerOwners
  <2> QED
    BY <2>3, <2>4, <2>5 DEF BudgetInv
<1> QED
  BY <1>1, <1>2, <1>3, StepCases

\* The inductive invariant holds in every behaviour of the script, the monitors
\* and the processes (S98gzh_ipc).
THEOREM ServiceInvariant == Spec => []ServiceInv
<1>1. Init => ServiceInv
  BY InitServiceInv
<1>2. ServiceInv /\ [Next]_vars => ServiceInv'
  BY ServiceStep
<1> QED
  BY <1>1, <1>2, PTL DEF Spec

-----------------------------------------------------------------------------
(* What follows *)

\* The variables keep their types (S98gzh_ipc, service_state.hpp).
THEOREM ServiceTypeCorrect == Spec => []TypeOK
<1>1. ServiceInv => TypeOK
  BY DEF ServiceInv
<1> QED
  BY <1>1, ServiceInvariant, PTL

\* A set any two members of which are equal has at most one (about the two
\* counts below).
LEMMA AtMostOne ==
    ASSUME NEW S, \A a, b \in S : a = b
    PROVE  Cardinality(S) <= 1
<1>1. CASE S = {}
  BY <1>1, FS_EmptySet
<1>2. CASE S # {}
  <2>1. PICK a \in S : S = {a}
    BY <1>2
  <2> QED
    BY <2>1, FS_Singleton
<1> QED
  BY <1>1, <1>2

\* The service runs at most one media process, whichever shells are killed and
\* however many monitors are spawned (S98gzh_ipc:51-77, README 9.1).
THEOREM OneProcessRuns == Spec => []OneProcess
<1>1. ASSUME ServiceInv PROVE OneProcess
  <2>1. \A a, b \in Alive \ byhand : a = b
    BY <1>1 DEF ServiceInv, UniqueInv, Alive
  <2> QED
    BY <2>1, AtMostOne DEF OneProcess
<1> QED
  BY <1>1, ServiceInvariant, PTL

\* At most one process, started by whatever means, is past the lock on the PID
\* file, and the file names it (service_state.hpp:36, main.cpp:133).
THEOREM OneOwnerAtATime == Spec => []OneOwner
<1>1. ASSUME ServiceInv PROVE OneOwner
  <2>1. \A a, b \in {p \in Procs : proc[p] \in Holding} : a = b
    BY <1>1 DEF ServiceInv, OwnerInv
  <2>2. Cardinality({p \in Procs : proc[p] \in Holding}) <= 1
    BY <2>1, AtMostOne
  <2> QED
    BY <1>1, <2>2 DEF ServiceInv, OwnerInv, OneOwner
<1> QED
  BY <1>1, ServiceInvariant, PTL

\* Never more automatic starts than the budget since it was last renewed
\* (S98gzh_ipc:188).
THEOREM BudgetIsKept == Spec => []BudgetKept
<1>1. ServiceInv => BudgetKept
  BY DEF ServiceInv
<1> QED
  BY <1>1, ServiceInvariant, PTL

\* After a stop or a block nothing is started, by whichever caller was on its
\* way (S98gzh_ipc:152, 260).
THEOREM StartsOnlyWhenWanted == Spec => SpawnOnlyWhenWanted
<1>1. ASSUME ServiceInv, [Next]_vars
      PROVE  [\A p \in Procs :
                 proc[p] = "none" /\ proc'[p] = "loading" /\ p \notin byhand'
                 => desired.intent = "run"]_vars
  <2>1. ASSUME Next, NEW p \in Procs, proc[p] = "none", proc'[p] = "loading", p \notin byhand'
        PROVE  desired.intent = "run"
    <3>1. TypeOK /\ WantedInv
      BY <1>1 DEF ServiceInv, ScriptInv
    <3>2. proc \in [Procs -> {"none", "loading", "exiting"} \cup Holding]
      BY <3>1 DEF TypeOK
    <3>3. CASE ProcessStep
      <4>1. ~Age
        BY <2>1 DEF Age
      <4>2. PICK q \in Procs : Process(q) \/ Launch(q) \/ Crash(q) \/ Hang(q)
        BY <3>3, <4>1 DEF ProcessStep
      <4>3. CASE Launch(q)
        BY <2>1, <3>2, <4>3 DEF Launch
      <4>4. CASE Process(q) \/ Crash(q) \/ Hang(q)
        BY <2>1, <3>2, <4>4 DEF Process, Load, Initialise, Throw, Finish, Exit, LeaveLoop, Crash,
                                Hang, Gone, SetState, Unwind, Holding
      <4> QED
        BY <4>2, <4>3, <4>4
    <3>4. CASE CallerStep
      <4>1. ~UNCHANGED proc
        BY <2>1
      <4>2. \E c \in Callers : Spawn(c)
        BY <3>4, <4>1 DEF CallerStep, Command, EnsureMonitor, Script, Start, WaitReady, Stop, Kill,
             AwaitStop, Killed, Monitor, Begin, Take, Tick, GateBlocks, GateWaits, GateStarts, procs
      <4> QED
        BY <3>1, <4>2 DEF Spawn, WantedInv
    <3> QED
      BY <2>1, <3>3, <3>4, StepCases
  <2> QED
    BY <1>1, <2>1
<1> QED
  BY <1>1, ServiceInvariant, PTL DEF Spec, SpawnOnlyWhenWanted
=============================================================================
