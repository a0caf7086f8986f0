---------------------------- MODULE NetworkRoute ----------------------------
(***************************************************************************)
(* NetworkRoute and LinkPolicy (src/network): one thread probes the         *)
(* receiver over the wired and the wireless link once a second and keeps a  *)
(* host route to it on the preferred usable link.  What it does to the      *)
(* kernel's routing table takes several calls, each of which may fail; the  *)
(* kernel and other programs change the table at any time; the process may  *)
(* die between any two calls and is started again, perhaps for another      *)
(* receiver.  /run/gzh_ipc.route records which route is its own.            *)
(*                                                                         *)
(* One action per call to the kernel and per store to an atomic that the    *)
(* sending threads read.  A round of the loop is one tick of the clock.     *)
(***************************************************************************)
EXTENDS Integers

CONSTANTS Hosts,        \* receivers: host_ is one of them for a process
          Sources,      \* IPv4 addresses of the interfaces
          HoldOff,      \* ticks of health before going back to the wired link
          RepairDelay,  \* ticks between attempts to change the route
          WarnDelay,    \* ticks between warnings of a conflict
          MaxEvents     \* bound: what happens outside, failures, and crashes

ASSUME NetworkAssumption ==
    /\ "none" \notin Sources
    /\ HoldOff \in Nat /\ RepairDelay \in Nat /\ WarnDelay \in Nat
    /\ RepairDelay <= WarnDelay /\ MaxEvents \in Nat

Links == {"wired", "wireless"}   \* eth0, wlan0
None == "none"

\* A /32 entry of the routing table; `owned': metric 4270, no gateway, UP|HOST.
Entry == [host : Hosts, dev : Links, owned : BOOLEAN]

\* An interface: its address, and whether the receiver answers through it.
LinkState == [up : {FALSE}, source : {None}] \cup [up : BOOLEAN, source : Sources]

VARIABLES
    table,          \* /proc/net/route, as far as it is about Hosts
    record,         \* /run/gzh_ipc.route: the entry it names, if any
    link,           \* the interfaces
    events,         \* bound: events left
    pc,             \* where the route thread is; "off": no process
    host,           \* host_
    active,         \* active_: link the route is on, or None
    activeAddress,  \* active_address_, or None
    policy,         \* policy_: failures_, wifi_failures_, time since recovered_at_
    generation,     \* generation_
    ready,          \* ready_
    retry,          \* ticks until retry_at
    round,          \* locals of one turn of run()
    announced,      \* history: generation_ changed in this round
    orphans         \* history: receivers given up, their routes in place

outside == <<table, record, link, events>>
shared  == <<generation, ready, announced>>
process == <<host, active, activeAddress, policy, retry>>
vars == <<outside, shared, process, pc, round, orphans>>

Own(dev) == [host |-> host, dev |-> dev, owned |-> TRUE]

\* up: wired, wifi; seen: addresses[]; the others as in run().
Round == [up : [Links -> BOOLEAN],
          seen : [Links -> Sources \cup {None}], next : Links \cup {None},
          installed : Links \cup {None, "conflict"},
          conflict : BOOLEAN, available : BOOLEAN]

NoRound == [up |-> [l \in Links |-> FALSE],
            seen |-> [l \in Links |-> None], next |-> None,
            installed |-> None, conflict |-> FALSE, available |-> FALSE]

\* A process that has just been constructed, with the route it took over.
NewPolicy == [failures |-> 0, wifiFailures |-> 0, healthy |-> -1]

Constructed(h, dev) ==
    /\ host' = h /\ active' = dev /\ activeAddress' = None
    /\ policy' = NewPolicy /\ retry' = 0 /\ round' = NoRound
    /\ generation' = 0 /\ ready' = FALSE /\ announced' = FALSE

Init ==
    /\ table \in SUBSET [host : Hosts, dev : {"wired"}, owned : {FALSE}]
    /\ record = {}
    /\ link \in [Links -> LinkState] /\ events = MaxEvents
    /\ pc = "off" /\ host \in Hosts /\ active = None /\ activeAddress = None
    /\ policy = NewPolicy /\ retry = 0 /\ round = NoRound
    /\ generation = 0 /\ ready = FALSE /\ announced = FALSE /\ orphans = {}

\* Each of these is one of at most MaxEvents events.
Event == events > 0 /\ events' = events - 1

-----------------------------------------------------------------------------
(* LinkPolicy                                                               *)

Capped(n) == IF n < 3 THEN n + 1 ELSE 3

Observe(wired, wifi) ==
    [failures     |-> IF wired THEN 0 ELSE Capped(policy.failures),
     wifiFailures |-> IF wifi THEN 0 ELSE Capped(policy.wifiFailures),
     healthy      |-> IF ~wired THEN -1
                      ELSE IF policy.healthy < 0 THEN 0 ELSE policy.healthy]

\* choose(), on the counters it has just updated.
Choose(wired, wifi, p) ==
    IF active = None
    THEN IF wired THEN "wired" ELSE IF wifi THEN "wireless" ELSE None
    ELSE IF active = "wired"
    THEN IF ~wired /\ wifi /\ p.failures = 3 THEN "wireless" ELSE "wired"
    ELSE IF wired /\ (p.wifiFailures = 3 \/ p.healthy >= HoldOff)
         THEN "wired" ELSE "wireless"

\* Mutant: off by one, never reached.
UsableLonger(l) == IF l = "wired" THEN policy.failures <= 3 ELSE policy.wifiFailures <= 3

Usable(l) == IF l = "wired" THEN policy.failures < 3 ELSE policy.wifiFailures < 3

\* stream_route_state(): the link of our own route, none, or a conflict.
RouteState ==
    LET found == {e \in table : e.host = host}
    IN  IF found = {} THEN None
        ELSE IF active # None /\ found = {Own(active)} THEN active
        ELSE "conflict"

-----------------------------------------------------------------------------
(* run()                                                                    *)

(***************************************************************************)
(* reachable(), first of the wired and then of the wireless link.  After    *)
(* the second the policy chooses.                                           *)
(***************************************************************************)
ProbeWired ==
    /\ pc = "probe" /\ pc' = "choose"
    /\ round' = [round EXCEPT !.up["wired"] = link["wired"].up,
                              !.seen["wired"] = link["wired"].source]
    /\ UNCHANGED <<outside, shared, process, orphans>>

ProbeWireless ==
    LET p == Observe(round.up["wired"], link["wireless"].up)
    IN  /\ pc = "choose" /\ policy' = p /\ pc' = "inspect"
        /\ round' = [round EXCEPT
              !.up["wireless"] = link["wireless"].up,
              !.seen["wireless"] = link["wireless"].source,
              !.next = Choose(round.up["wired"], link["wireless"].up, p)]
        /\ UNCHANGED <<outside, shared, host, active, activeAddress, retry, orphans>>

(***************************************************************************)
(* Read the table - one that cannot be read counts as a conflict - and      *)
(* decide whether to change the route.                                      *)
(***************************************************************************)
Inspect ==
    /\ pc = "inspect"
    /\ \E found \in {RouteState, "conflict"} :
          /\ \/ found = RouteState /\ UNCHANGED events
             \/ found # RouteState /\ Event
          /\ round' = [round EXCEPT !.installed = found,
                                    !.conflict = (found = "conflict")]
          /\ pc' = IF /\ round.next # None /\ round.up[round.next]
                      /\ found # "conflict" /\ retry = 0
                      /\ round.next # active \/ found # active
                   THEN "withdraw" ELSE "judge"
    /\ UNCHANGED <<table, record, link, shared, process, orphans>>

\* Mutant: readiness stays up during the switch.
WithdrawForgotten ==
    /\ pc = "withdraw" /\ ready' = ready /\ pc' = "bump"
    /\ UNCHANGED <<outside, process, generation, announced, round, orphans>>

Withdraw ==
    /\ pc = "withdraw" /\ ready' = FALSE /\ pc' = "bump"
    /\ UNCHANGED <<outside, process, generation, announced, round, orphans>>

Bump ==
    /\ pc = "bump" /\ generation' = generation + 1 /\ announced' = TRUE
    /\ retry' = RepairDelay
    /\ pc' = IF round.installed = None THEN "record" ELSE "delete"
    /\ UNCHANGED <<outside, ready, host, active, activeAddress, policy, round,
                   orphans>>

\* Mutant: the result is not looked at.
DeleteUnchecked ==
    /\ pc = "delete" /\ pc' = "record"
    /\ \/ table' = table \ {Own(round.installed)} /\ UNCHANGED events
       \/ Event /\ UNCHANGED table
    /\ UNCHANGED <<record, link, shared, process, round, orphans>>

\* route(installed, false); a route the kernel has removed is no failure.
Delete ==
    /\ pc = "delete"
    /\ \/ table' = table \ {Own(round.installed)} /\ pc' = "record" /\ UNCHANGED events
       \/ Event /\ pc' = "recheck" /\ UNCHANGED table
    /\ UNCHANGED <<record, link, shared, process, round, orphans>>

\* The receivers given up when the record r replaces the present one.
Given(r) == orphans \cup {e.host : e \in {d \in (record \cap table) \ r : d.host # host}}

\* Mutant: goes on although the record was not written.
WriteRecordUnchecked(l, then, otherwise) ==
    /\ \/ record' = {Own(l)} /\ UNCHANGED events
       \/ record' \in {record, {}} /\ Event
    /\ pc' = then /\ orphans' = Given(record') /\ UNCHANGED active

\* route(l, true) writes the record first; a write that fails leaves the old
\* record or none ...
WriteRecord(l, then, otherwise) ==
    /\ \/ record' = {Own(l)} /\ pc' = then /\ UNCHANGED <<active, events>>
       \/ /\ Event /\ record' \in {record, {}} /\ pc' = otherwise
          /\ active' = IF otherwise = "recheck" THEN None ELSE active
    /\ orphans' = Given(record')

\* ... and then adds the route.
AddRoute(l, otherwise) ==
    \/ /\ table' = table \cup {Own(l)} /\ active' = l /\ pc' = "recheck"
       /\ UNCHANGED events
    \/ /\ Event /\ pc' = otherwise /\ UNCHANGED table
       /\ active' = IF otherwise = "recheck" THEN None ELSE active

\* The new route, or else the old one again, or else none.
Fallback == IF active = None THEN "recheck" ELSE "restore"

Replace ==
    /\ \/ pc = "record"  /\ WriteRecord(round.next, "add", Fallback) /\ UNCHANGED table
       \/ pc = "add"     /\ AddRoute(round.next, Fallback) /\ UNCHANGED <<record, orphans>>
       \/ pc = "restore" /\ WriteRecord(active, "readd", "recheck") /\ UNCHANGED table
       \/ pc = "readd"   /\ AddRoute(active, "recheck") /\ UNCHANGED <<record, orphans>>
    /\ UNCHANGED <<link, shared, host, activeAddress, policy, retry, round>>

Recheck ==
    /\ pc = "recheck" /\ pc' = "judge"
    /\ \/ round' = [round EXCEPT !.installed = RouteState] /\ UNCHANGED events
       \/ round' = [round EXCEPT !.installed = "conflict"] /\ Event
    /\ UNCHANGED <<table, record, link, shared, process, orphans>>

\* The address this round's probe used on the active link.
Source == IF active = None THEN None ELSE round.seen[active]

\* Mutant: a new source address is not noticed.
NeverMoved(available) == FALSE

\* ip_changed
Moved(available) ==
    /\ available /\ Source # None
    /\ activeAddress # None /\ Source # activeAddress

Judge ==
    LET available == active # None /\ round.installed = active /\ Usable(active)
    IN  /\ pc = "judge" /\ round' = [round EXCEPT !.available = available]
        /\ IF available # ready \/ Moved(available)
           THEN ready' = FALSE /\ pc' = "announce"
           ELSE ready' = ready /\ pc' = "publish"
        /\ UNCHANGED <<outside, process, generation, announced, orphans>>

Announce ==
    /\ pc = "announce" /\ pc' = "publish"
    /\ generation' = generation + 1 /\ announced' = TRUE
    /\ UNCHANGED <<outside, process, ready, round, orphans>>

Publish ==
    /\ pc = "publish" /\ pc' = "pause"
    /\ activeAddress' = IF round.available /\ Source # None THEN Source
                        ELSE activeAddress
    /\ ready' = round.available /\ announced' = FALSE
    /\ retry' = IF round.conflict /\ retry = 0 THEN WarnDelay ELSE retry
    /\ UNCHANGED <<outside, generation, host, active, policy, round, orphans>>

\* wait_for() times out: the clock has moved on.
Pause ==
    /\ pc = "pause" /\ pc' = "probe"
    /\ retry' = IF retry = 0 THEN 0 ELSE retry - 1
    /\ policy' = [policy EXCEPT !.healthy =
                     IF @ < 0 \/ @ >= HoldOff THEN @ ELSE @ + 1]
    /\ round' = NoRound
    /\ UNCHANGED <<outside, shared, host, active, activeAddress, orphans>>

Run == \/ ProbeWired \/ ProbeWireless \/ Inspect \/ Withdraw \/ Bump \/ Delete \/ Replace \/ Recheck
       \/ Judge \/ Announce \/ Publish \/ Pause

-----------------------------------------------------------------------------
(* The process.                                                             *)

(***************************************************************************)
(* The constructor takes over a route that the record names, and throws if  *)
(* there is any other for this receiver, or if it cannot read the table.    *)
(* The record is a file in RAM: it can be read.                             *)
(***************************************************************************)
Start(h) ==
    LET found == {e \in table : e.host = h}
    IN  /\ pc = "off" /\ UNCHANGED <<table, record, link>>
        /\ \/ /\ found = {} \/ found = record
              /\ \E dev \in IF found = {} THEN {None} ELSE {e.dev : e \in found} :
                    Constructed(h, dev)
              /\ pc' = "probe" /\ orphans' = orphans \ {h} /\ UNCHANGED events
           \/ /\ found # {} /\ found # record
              /\ Constructed(h, None)
              /\ pc' = "refused" /\ UNCHANGED <<events, orphans>>
           \/ /\ Event /\ Constructed(h, None)
              /\ pc' = "off" /\ UNCHANGED orphans

\* main() reports what the constructor has thrown, and exits.
Exit ==
    /\ pc = "refused" /\ pc' = "off"
    /\ UNCHANGED <<outside, shared, process, round, orphans>>

\* The destructor: the thread leaves its wait, the route is removed if it is
\* (still) the only one and ours.
Stop ==
    /\ pc = "pause" /\ pc' = "off"
    /\ \/ /\ active # None /\ RouteState = active
          /\ table' = table \ {Own(active)} /\ UNCHANGED events
       \/ /\ active = None \/ RouteState # active
          /\ UNCHANGED <<table, events>>
       \/ active # None /\ Event /\ UNCHANGED table
    /\ UNCHANGED <<record, link, shared, process, round, orphans>>

\* Killed: at any point, also between truncating the record and writing it.
Crash ==
    /\ pc \notin {"off", "refused"} /\ Event /\ pc' = "off"
    /\ \/ UNCHANGED <<record, orphans>>
       \/ pc \in {"record", "restore"} /\ record' = {} /\ orphans' = Given({})
    /\ UNCHANGED <<table, link, shared, process, round>>

\* The routing table and /run are empty after a reboot.
Reboot ==
    /\ pc = "off" /\ Event
    /\ table' = {} /\ record' = {} /\ orphans' = {}
    /\ UNCHANGED <<link, pc, shared, process, round>>

-----------------------------------------------------------------------------
(* The outside: links, the kernel, other programs.                          *)

LinkChanges ==
    /\ Event /\ \E l \in Links, s \in LinkState : link' = [link EXCEPT ![l] = s]
    /\ UNCHANGED table

\* The kernel drops a route, or whoever owns it removes it.
RouteVanishes == Event /\ \E e \in table : table' = table \ {e} /\ UNCHANGED link

ForeignRoute ==
    /\ Event /\ UNCHANGED link
    /\ \E h \in Hosts :
          table' = table \cup {[host |-> h, dev |-> "wired", owned |-> FALSE]}

Outside ==
    /\ LinkChanges \/ RouteVanishes \/ ForeignRoute
    /\ UNCHANGED <<record, pc, shared, process, round, orphans>>

Next ==
    \/ Run \/ Stop \/ Exit \/ Outside
    \/ (\E h \in Hosts : Start(h)) \/ Crash \/ Reboot

Spec == Init /\ [][Next]_vars

(***************************************************************************)
(* One life of the process, from an accepted start, while nobody stops it.  *)
(* The thread is scheduled, and each of its calls returns.                  *)
(***************************************************************************)
LifeInit ==
    /\ host \in Hosts /\ active \in Links \cup {None}
    /\ table = IF active = None THEN {} ELSE {Own(active)}
    /\ record = table
    /\ link \in [Links -> LinkState] /\ events = MaxEvents
    /\ pc = "probe" /\ activeAddress = None
    /\ policy = NewPolicy /\ retry = 0 /\ round = NoRound
    /\ generation = 0 /\ ready = FALSE /\ announced = FALSE /\ orphans = {}

LifeSpec == LifeInit /\ [][Run \/ Outside]_vars /\ WF_vars(Run)

-----------------------------------------------------------------------------
\* Types; in particular the failure counters saturate at the threshold that
\* choose() and usable() compare with.
NetworkTypeOK ==
    /\ table \subseteq Entry /\ record \in {{}} \cup {{e} : e \in Entry}
    /\ link \in [Links -> LinkState] /\ events \in 0..MaxEvents
    /\ pc \in {"off", "refused", "probe", "choose", "inspect", "withdraw", "bump",
               "delete", "record", "add", "restore", "readd", "recheck", "judge",
               "announce", "publish", "pause"}
    /\ host \in Hosts /\ active \in Links \cup {None}
    /\ activeAddress \in Sources \cup {None}
    /\ policy \in [failures : 0..3, wifiFailures : 0..3, healthy : -1..HoldOff]
    /\ generation \in Nat /\ ready \in BOOLEAN /\ announced \in BOOLEAN
    /\ retry \in 0..WarnDelay /\ round \in Round /\ orphans \subseteq Hosts

(***************************************************************************)
(* The program never locks itself out: however it died, a later start is    *)
(* refused only for a route somebody else made, or for a receiver it was    *)
(* once told to give up.                                                    *)
(***************************************************************************)
RefusalJustified ==
    [][pc # "refused" /\ pc' = "refused" =>
          \E e \in table : e.host = host' /\ (~e.owned \/ host' \in orphans)]_vars

(***************************************************************************)
(* However often it is replaced, repaired, restored and taken over, with    *)
(* any call failing: never two of the program's routes to one receiver.     *)
(***************************************************************************)
OneRouteEach ==
    \A d, e \in table : d.owned /\ e.owned /\ d.host = e.host => d = e

(***************************************************************************)
(* After any finite number of disturbances - links, addresses, lost and     *)
(* foreign routes, failing calls - the thread settles on the best link, and *)
(* publishes readiness exactly if there is one and no foreign route is in   *)
(* the way.                                                                 *)
(***************************************************************************)
Best == IF link["wired"].up THEN "wired"
        ELSE IF link["wireless"].up THEN "wireless" ELSE None

Settled ==
    IF Best # None /\ \A e \in table : e.host = host => e.owned
    THEN ready /\ active = Best /\ Own(Best) \in table
    ELSE ~ready

Settles == <>[]Settled

(***************************************************************************)
(* What the sending threads see: readiness is withdrawn and the generation  *)
(* incremented before the link changes, and readiness comes back only       *)
(* afterwards (RouteSignal, on which PublisherEndpoint builds).             *)
(***************************************************************************)
Signal == INSTANCE RouteSignal WITH
    Failover <- TRUE, Paths <- Links \cup {None}, Changes <- Nat,
    routeReady <- ready, routeGen <- generation, path <- active,
    routePc <- IF pc \in {"bump", "announce"} THEN "bump"
               ELSE IF announced THEN "change" ELSE "idle"

ImplementsRouteSignal == Signal!RouteSpec

(***************************************************************************)
(* A known source address never changes under a connection: when readiness  *)
(* is published with another address, the generation is another one too.    *)
(***************************************************************************)
AddressChangeIsAnnounced ==
    [][activeAddress' # activeAddress /\ activeAddress # None => announced]_vars
=============================================================================
