------------------------ MODULE NetworkRoute_proofs ------------------------
(***************************************************************************)
(* Proofs about NetworkRoute: for any number of receivers, addresses and    *)
(* events, the program keeps at most one route to a receiver, never refuses *)
(* to start because of what an earlier process of it has left, and shows    *)
(* the sending threads a RouteSignal.                                       *)
(***************************************************************************)
EXTENDS NetworkRoute, TLAPS

\* The program's own routes to the receiver of the process.
OwnRoutes == {e \in table : e.host = host /\ e.owned}

Running == pc \notin {"off", "refused"}

\* The thread has deleted its route and not yet added another.
Between == pc \in {"record", "add", "restore", "readd"}

\* The thread is about to change the route it has found.
Changing == pc \in {"withdraw", "bump", "delete"}

(***************************************************************************)
(* What the thread knows of its routes.  `active_' names the only one there *)
(* can be, and between deleting and adding there is none.                   *)
(***************************************************************************)
ActiveIsKnown ==
    /\ Running => \A e \in OwnRoutes : e.dev = active
    /\ Between => OwnRoutes = {}
    /\ Changing => /\ round.installed \in {None, active}
                   /\ round.installed = None => OwnRoutes = {}
    /\ pc = "delete" => round.installed = active /\ active # None
    /\ Changing \/ pc \in {"record", "add"} => round.next # None
    /\ pc \in {"restore", "readd"} => active # None

\* The record names what is about to be added ...
RecordPrecedes ==
    /\ pc = "add" => record = {Own(round.next)}
    /\ pc = "readd" => record = {Own(active)}

\* ... and so every route of the program that is in the table.
Accounted ==
    \A e \in table : e.owned /\ e.host \notin orphans => e \in record

NetworkInv ==
    /\ NetworkTypeOK /\ OneRouteEach
    /\ ActiveIsKnown /\ RecordPrecedes /\ Accounted

-----------------------------------------------------------------------------
(* Types.                                                                   *)

\* Every initial state satisfies the invariant.
LEMMA InitialInv == Init => NetworkInv
<1> SUFFICES ASSUME Init PROVE NetworkInv OBVIOUS
<1> USE NetworkAssumption
<1>1. NetworkTypeOK
  <2>1. table \subseteq Entry
    BY DEF Init, Entry, Links
  <2>2. round \in Round
    BY DEF Init, NoRound, Round, Links
  <2>3. policy \in [failures : 0..3, wifiFailures : 0..3, healthy : -1..HoldOff]
    BY DEF Init, NewPolicy
  <2>4. events \in 0..MaxEvents /\ retry \in 0..WarnDelay /\ generation \in Nat
    BY DEF Init
  <2>5. record \in {{}} \cup {{e} : e \in Entry}
    BY DEF Init
  <2> QED
    BY <2>1, <2>2, <2>3, <2>4, <2>5 DEF Init, NetworkTypeOK
<1>2. OneRouteEach /\ ActiveIsKnown /\ RecordPrecedes /\ Accounted
  BY DEF Init, OneRouteEach, ActiveIsKnown, RecordPrecedes, Accounted, OwnRoutes,
         Running, Between, Changing
<1> QED BY <1>1, <1>2 DEF NetworkInv

\* Every step keeps the types.
LEMMA TypesKept == NetworkInv /\ [Next]_vars => NetworkTypeOK'
<1> SUFFICES ASSUME NetworkInv, [Next]_vars PROVE NetworkTypeOK' OBVIOUS
<1> USE NetworkAssumption DEF NetworkInv
<1>1. CASE ProbeWired
  BY <1>1 DEF NetworkTypeOK, ProbeWired, Round, Links, LinkState, outside,
     shared, process
<1>2. CASE ProbeWireless
  <2> DEFINE wifi == link["wireless"].up
             p == Observe(round.up["wired"], wifi)
             n == Choose(round.up["wired"], wifi, p)
  <2>1. wifi \in BOOLEAN /\ link["wireless"].source \in Sources \cup {None}
    BY DEF NetworkTypeOK, Links, LinkState
  <2>2. p \in [failures : 0..3, wifiFailures : 0..3, healthy : -1..HoldOff]
    BY <2>1 DEF NetworkTypeOK, Observe, Capped
  <2>3. n \in Links \cup {None}
    BY DEF Choose, Links
  <2>4. policy' = p /\ round' = [round EXCEPT !.up["wireless"] = wifi,
                     !.seen["wireless"] = link["wireless"].source, !.next = n]
    BY <1>2 DEF ProbeWireless
  <2> HIDE DEF wifi, p, n
  <2>5. round' \in Round
    BY <2>1, <2>3, <2>4 DEF NetworkTypeOK, Round, Links
  <2> QED
    BY <1>2, <2>2, <2>4, <2>5 DEF NetworkTypeOK, ProbeWireless, outside, shared
<1>3. CASE Inspect
  <2>1. PICK found \in {RouteState, "conflict"} :
           round' = [round EXCEPT !.installed = found,
                                  !.conflict = (found = "conflict")]
    BY <1>3 DEF Inspect
  <2>2. found \in Links \cup {None, "conflict"}
    BY DEF RouteState, NetworkTypeOK
  <2>3. round' \in Round
    BY <2>1, <2>2 DEF NetworkTypeOK, Round
  <2> QED
    BY <1>3, <2>3 DEF NetworkTypeOK, Inspect, Event, shared, process
<1>4. CASE Withdraw
  BY <1>4 DEF NetworkTypeOK, Withdraw, outside, shared, process
<1>5. CASE Bump
  BY <1>5 DEF NetworkTypeOK, Bump, outside, shared, process
<1>6. CASE Delete
  BY <1>6 DEF NetworkTypeOK, Delete, Event, Entry, outside, shared, process
<1>7. CASE Replace
  <2>1. ASSUME NEW l \in Links, NEW then, NEW otherwise, WriteRecord(l, then, otherwise)
        PROVE  /\ record' \in {{}} \cup {{e} : e \in Entry}
               /\ active' \in Links \cup {None} /\ events' \in 0..MaxEvents
               /\ orphans' \subseteq Hosts /\ pc' \in {then, otherwise}
    <3>1. Own(l) \in Entry
      BY DEF Own, Entry, NetworkTypeOK
    <3>2. orphans' \subseteq Hosts
      BY <2>1 DEF WriteRecord, Given, NetworkTypeOK, Entry
    <3> QED
      BY <2>1, <3>1, <3>2 DEF WriteRecord, Event, NetworkTypeOK
  <2>2. ASSUME NEW l \in Links, NEW otherwise, AddRoute(l, otherwise)
        PROVE  /\ table' \subseteq Entry /\ active' \in Links \cup {None}
               /\ events' \in 0..MaxEvents /\ pc' \in {"recheck", otherwise}
    <3>1. Own(l) \in Entry
      BY DEF Own, Entry, NetworkTypeOK
    <3> QED
      BY <2>2, <3>1 DEF AddRoute, Event, NetworkTypeOK
  <2>3. /\ pc \in {"record", "add"} => round.next \in Links
        /\ pc \in {"restore", "readd"} => active \in Links
    BY DEF ActiveIsKnown, NetworkTypeOK, Round
  <2>4. CASE pc = "record"
    BY <1>7, <2>1, <2>3, <2>4 DEF Replace, Fallback, NetworkTypeOK, shared
  <2>5. CASE pc = "add"
    BY <1>7, <2>2, <2>3, <2>5 DEF Replace, Fallback, NetworkTypeOK, shared
  <2>6. CASE pc = "restore"
    BY <1>7, <2>1, <2>3, <2>6 DEF Replace, NetworkTypeOK, shared
  <2>7. CASE pc = "readd"
    BY <1>7, <2>2, <2>3, <2>7 DEF Replace, NetworkTypeOK, shared
  <2> QED
    BY <1>7, <2>4, <2>5, <2>6, <2>7 DEF Replace
<1>8. CASE Recheck
  BY <1>8 DEF NetworkTypeOK, Recheck, Event, RouteState, Round, Links, outside,
     shared, process
<1>9. CASE Judge
  BY <1>9 DEF NetworkTypeOK, Judge, Round, outside, shared, process
<1>10. CASE Announce
  BY <1>10 DEF NetworkTypeOK, Announce, outside, shared, process
<1>11. CASE Publish
  <2>1. Source \in Sources \cup {None}
    BY DEF Source, NetworkTypeOK, Round
  <2>2. activeAddress' \in Sources \cup {None} /\ ready' \in BOOLEAN
    BY <1>11, <2>1 DEF Publish, NetworkTypeOK, Round
  <2>3. retry' \in 0..WarnDelay
    BY <1>11 DEF Publish, NetworkTypeOK
  <2> QED
    BY <1>11, <2>2, <2>3 DEF Publish, NetworkTypeOK, outside
<1>12. CASE Pause
  BY <1>12 DEF NetworkTypeOK, Pause, NoRound, Round, outside, shared, process
<1>13. CASE \E h \in Hosts : Start(h)
  <2>1. PICK h \in Hosts : Start(h)
    BY <1>13
  <2>2. ASSUME NEW dev \in Links \cup {None}, Constructed(h, dev)
        PROVE  /\ host' \in Hosts /\ active' \in Links \cup {None}
               /\ activeAddress' = None /\ generation' \in Nat
               /\ policy' \in [failures : 0..3, wifiFailures : 0..3, healthy : -1..HoldOff]
               /\ retry' \in 0..WarnDelay /\ round' \in Round
               /\ ready' \in BOOLEAN /\ announced' \in BOOLEAN
    <3>1. NoRound \in Round
      BY DEF NoRound, Round, Links
    <3>2. NewPolicy \in [failures : 0..3, wifiFailures : 0..3, healthy : -1..HoldOff]
      BY DEF NewPolicy
    <3>3. policy' = NewPolicy /\ round' = NoRound
      BY <2>2 DEF Constructed
    <3>4. generation' \in Nat /\ retry' \in 0..WarnDelay
      BY <2>2 DEF Constructed
    <3>5. ready' \in BOOLEAN /\ announced' \in BOOLEAN
      BY <2>2, Zenon DEF Constructed
    <3>6. /\ host' \in Hosts /\ active' \in Links \cup {None}
          /\ activeAddress' = None
      BY <2>2 DEF Constructed
    <3> QED
      BY <3>1, <3>2, <3>3, <3>4, <3>5, <3>6
  <2>3. \E dev \in Links \cup {None} : Constructed(h, dev)
    BY <2>1 DEF Start, NetworkTypeOK, Entry
  <2>4. /\ table' \subseteq Entry /\ record' \in {{}} \cup {{e} : e \in Entry}
        /\ link' \in [Links -> LinkState] /\ events' \in 0..MaxEvents
        /\ pc' \in {"probe", "refused", "off"} /\ orphans' \subseteq Hosts
    BY <2>1 DEF Start, Event, NetworkTypeOK
  <2> QED
    BY <2>2, <2>3, <2>4 DEF NetworkTypeOK
<1>14. CASE Exit
  BY <1>14 DEF NetworkTypeOK, Exit, outside, shared, process
<1>15. CASE Stop
  BY <1>15 DEF NetworkTypeOK, Stop, Event, outside, shared, process
<1>16. CASE Crash
  BY <1>16 DEF NetworkTypeOK, Crash, Given, Event, Entry, outside, shared, process
<1>17. CASE Reboot
  BY <1>17 DEF NetworkTypeOK, Reboot, Event, outside, shared, process
<1>18. CASE Outside
  <2>1. table' \subseteq Entry
    <3>1. ASSUME NEW h \in Hosts
          PROVE  [host |-> h, dev |-> "wired", owned |-> FALSE] \in Entry
      BY DEF Entry, Links
    <3>2. CASE LinkChanges \/ RouteVanishes
      BY <3>2 DEF LinkChanges, RouteVanishes, NetworkTypeOK
    <3>3. CASE ForeignRoute
      BY <3>1, <3>3 DEF ForeignRoute, NetworkTypeOK
    <3> QED
      BY <1>18, <3>2, <3>3 DEF Outside
  <2>2. link' \in [Links -> LinkState]
    BY <1>18 DEF Outside, LinkChanges, RouteVanishes, ForeignRoute, NetworkTypeOK
  <2>3. events' \in 0..MaxEvents
    BY <1>18 DEF Outside, LinkChanges, RouteVanishes, ForeignRoute, Event,
       NetworkTypeOK
  <2> QED
    BY <1>18, <2>1, <2>2, <2>3 DEF Outside, NetworkTypeOK, shared, process
<1>19. CASE UNCHANGED vars
  BY <1>19 DEF NetworkTypeOK, vars, outside, shared, process
<1> QED
  BY <1>1, <1>2, <1>3, <1>4, <1>5, <1>6, <1>7, <1>8, <1>9, <1>10, <1>11, <1>12,
     <1>13, <1>14, <1>15, <1>16, <1>17, <1>18, <1>19 DEF Next, Run

-----------------------------------------------------------------------------
(* Routes.                                                                  *)

RoutesInv == OneRouteEach /\ ActiveIsKnown /\ RecordPrecedes /\ Accounted

\* A step that leaves the table, the record and what the thread knows of them
\* alone has only to respect the positions at which that matters.
LEMMA QuietSteps ==
    ASSUME NetworkInv,
           UNCHANGED <<table, record, host, active, orphans>>,
           pc \notin {"off", "refused"} \/ pc' \in {"off", "refused"},
           pc' \notin {"record", "add", "restore", "readd", "withdraw", "bump", "delete"}
    PROVE  RoutesInv'
<1>1. OwnRoutes' = OwnRoutes
  BY DEF OwnRoutes
<1>2. ActiveIsKnown'
  BY <1>1 DEF NetworkInv, ActiveIsKnown, Running, Between, Changing
<1>3. OneRouteEach' /\ Accounted' /\ RecordPrecedes'
  BY DEF NetworkInv, OneRouteEach, Accounted, RecordPrecedes
<1> QED
  BY <1>2, <1>3 DEF RoutesInv

\* The thread has decided to change its route, and counts the generation up.
LEMMA DecidingSteps ==
    NetworkInv /\ (Inspect \/ Withdraw \/ Bump) => RoutesInv'
<1> SUFFICES ASSUME NetworkInv, Inspect \/ Withdraw \/ Bump PROVE RoutesInv'
  OBVIOUS
<1>1. UNCHANGED <<table, record, host, active, orphans>>
  BY DEF Inspect, Withdraw, Bump, shared, process, outside
<1>2. OwnRoutes' = OwnRoutes
  BY <1>1 DEF OwnRoutes
<1>3. OneRouteEach' /\ Accounted' /\ RecordPrecedes'
  BY <1>1 DEF NetworkInv, OneRouteEach, Accounted, RecordPrecedes, Inspect,
     Withdraw, Bump
<1>4. Running /\ \A e \in OwnRoutes : e.dev = active
  BY DEF NetworkInv, ActiveIsKnown, Running, Inspect, Withdraw, Bump
<1>5. CASE Inspect /\ pc' = "judge"
  BY <1>1, <1>2, <1>3, <1>4, <1>5 DEF NetworkInv, ActiveIsKnown, Running,
     Between, Changing, RoutesInv
<1>6. CASE Inspect /\ pc' # "judge"
  <2>1. PICK found \in {RouteState, "conflict"} :
          /\ round' = [round EXCEPT !.installed = found,
                                   !.conflict = (found = "conflict")]
          /\ pc' \in {"judge", "withdraw"}
          /\ pc' # "judge" => found # "conflict" /\ round.next # None
    BY <1>6, Zenon DEF Inspect
  <2>2. pc' = "withdraw" /\ found = RouteState /\ found # "conflict" /\ round.next # None
    BY <1>6, <2>1
  <2>3. round'.installed = found /\ round'.next = round.next
    BY <2>1 DEF NetworkInv, NetworkTypeOK, Round
  <2>4. found \in {None, active} /\ (found = None => OwnRoutes = {})
    BY <2>2 DEF RouteState, OwnRoutes, Own
  <2>5. ActiveIsKnown'
    BY <1>1, <1>2, <1>4, <2>2, <2>3, <2>4 DEF ActiveIsKnown, Running, Between,
       Changing
  <2> QED
    BY <1>3, <2>5 DEF RoutesInv
<1>7. CASE Withdraw \/ Bump
  <2>1. round' = round /\ Changing
    BY <1>7 DEF Withdraw, Bump, Changing
  <2>2. ActiveIsKnown'
    BY <1>1, <1>2, <1>4, <1>7, <2>1 DEF NetworkInv, ActiveIsKnown, Running, Between,
       Changing, Withdraw, Bump
  <2> QED
    BY <1>3, <2>2 DEF RoutesInv
<1> QED
  BY <1>5, <1>6, <1>7

\* The old route goes: what is left of the program's own is nothing.
LEMMA DeleteStep == NetworkInv /\ Delete => RoutesInv'
<1> SUFFICES ASSUME NetworkInv, Delete PROVE RoutesInv'
  OBVIOUS
<1>1. pc = "delete" /\ UNCHANGED <<record, host, active, round, orphans>> /\ table' \subseteq table
  BY DEF Delete, process
<1>2. round.installed = active /\ active # None /\ round.next # None
      /\ \A e \in OwnRoutes : e.dev = active
  BY <1>1 DEF NetworkInv, ActiveIsKnown, Changing, Running
<1>3. OwnRoutes' \subseteq OwnRoutes
  BY <1>1 DEF OwnRoutes
<1>4. pc' = "record" => OwnRoutes' = {}
  <2>1. SUFFICES ASSUME pc' = "record", NEW e \in OwnRoutes' PROVE FALSE
    OBVIOUS
  <2>2. table' = table \ {Own(active)} /\ e \in table'
    BY <1>2, <2>1 DEF Delete, OwnRoutes
  <2>3. e = Own(active)
    <3>1. e \in OwnRoutes /\ e.dev = active /\ e.host = host /\ e.owned = TRUE /\ e \in Entry
      BY <1>1, <1>2, <1>3, <2>1 DEF OwnRoutes, NetworkInv, NetworkTypeOK, Entry
    <3> QED
      BY <3>1 DEF Own, Entry
  <2> QED
    BY <2>2, <2>3
<1>5. pc' \in {"record", "recheck"}
  BY DEF Delete
<1>6. ActiveIsKnown'
  BY <1>1, <1>2, <1>3, <1>4, <1>5 DEF ActiveIsKnown, Running, Between, Changing
<1>7. OneRouteEach' /\ Accounted' /\ RecordPrecedes'
  BY <1>1, <1>5 DEF NetworkInv, OneRouteEach, Accounted, RecordPrecedes
<1> QED
  BY <1>6, <1>7 DEF RoutesInv

\* The record is replaced while none of the program's routes to this receiver is
\* in the table; a route to another receiver that only it knew of is given up.
LEMMA RecordStep ==
    ASSUME NetworkInv, OwnRoutes = {}, UNCHANGED table,
           NEW r \in {{}} \cup {{e} : e \in Entry}, orphans' = Given(r), record' = r
    PROVE  Accounted'
<1> SUFFICES ASSUME NEW e \in table, e.owned, e.host \notin Given(r)
             PROVE  e \in r
  BY DEF Accounted
<1>1. e.host # host
  BY DEF OwnRoutes
<1>2. e.host \notin orphans /\ e \notin {d \in (record \cap table) \ r : d.host # host}
  BY DEF Given
<1>3. e \in record
  BY <1>2 DEF NetworkInv, Accounted
<1> QED
  BY <1>1, <1>2, <1>3

\* The four calls that add a route: the record, then the route, of the new link
\* or else of the old one.
LEMMA ReplaceStep == NetworkInv /\ Replace => RoutesInv'
<1> SUFFICES ASSUME NetworkInv, Replace PROVE RoutesInv'
  OBVIOUS
<1>1. Between /\ OwnRoutes = {} /\ UNCHANGED <<host, round>>
  BY DEF Replace, Between, NetworkInv, ActiveIsKnown
<1>2. /\ pc \in {"record", "add"} => round.next \in Links
      /\ pc \in {"restore", "readd"} => active \in Links
  BY DEF NetworkInv, ActiveIsKnown, NetworkTypeOK, Round, Changing
<1>3. ASSUME NEW l \in Links, NEW then, NEW otherwise,
             WriteRecord(l, then, otherwise), UNCHANGED table
      PROVE  /\ OneRouteEach' /\ Accounted' /\ OwnRoutes' = {}
             /\ \/ pc' = then /\ active' = active /\ record' = {Own(l)}
                \/ /\ pc' = otherwise
                   /\ active' = IF otherwise = "recheck" THEN None ELSE active
  <2>1. Own(l) \in Entry
    BY DEF Own, Entry, NetworkInv, NetworkTypeOK
  <2>2. record' \in {{}} \cup {{e} : e \in Entry} /\ orphans' = Given(record')
    BY <1>3, <2>1 DEF WriteRecord, NetworkInv, NetworkTypeOK
  <2>3. Accounted'
    BY <1>1, <1>3, <2>2, RecordStep
  <2> QED
    BY <1>1, <1>3, <2>3 DEF WriteRecord, NetworkInv, OneRouteEach, OwnRoutes
<1>4. ASSUME NEW l \in Links, NEW otherwise, AddRoute(l, otherwise),
             record = {Own(l)}, UNCHANGED <<record, orphans>>
      PROVE  /\ OneRouteEach' /\ Accounted'
             /\ \/ /\ pc' = "recheck" /\ \A e \in OwnRoutes' : e.dev = active'
                \/ /\ pc' = otherwise /\ OwnRoutes' = {}
                   /\ active' = IF otherwise = "recheck" THEN None ELSE active
  <2>1. table' = table \/ table' = table \cup {Own(l)}
    BY <1>4 DEF AddRoute
  <2>2. Own(l).host = host /\ Own(l).dev = l /\ Own(l).owned
    BY DEF Own
  <2>3. \A e \in table' : e.host = host /\ e.owned => e = Own(l)
    BY <1>1, <2>1 DEF OwnRoutes
  <2>4. OneRouteEach'
    BY <2>1, <2>2, <2>3 DEF NetworkInv, OneRouteEach
  <2>5. Accounted'
    BY <1>4, <2>1 DEF NetworkInv, Accounted
  <2>6. CASE table' = table \cup {Own(l)} /\ active' = l /\ pc' = "recheck"
    BY <1>1, <2>2, <2>3, <2>4, <2>5, <2>6 DEF OwnRoutes
  <2>7. CASE table' = table /\ pc' = otherwise
             /\ active' = IF otherwise = "recheck" THEN None ELSE active
    BY <1>1, <2>4, <2>5, <2>7 DEF OwnRoutes
  <2> QED
    BY <1>4, <2>6, <2>7 DEF AddRoute
<1>5. CASE pc = "record"
  <2>1. WriteRecord(round.next, "add", Fallback) /\ UNCHANGED table
    BY <1>5 DEF Replace
  <2>2. /\ OneRouteEach' /\ Accounted' /\ OwnRoutes' = {}
        /\ \/ pc' = "add" /\ active' = active /\ record' = {Own(round.next)}
           \/ /\ pc' = Fallback
              /\ active' = IF Fallback = "recheck" THEN None ELSE active
    BY <1>2, <1>3, <1>5, <2>1
  <2>3. RecordPrecedes'
    BY <1>1, <2>2 DEF RecordPrecedes, Fallback, Own
  <2>4. round.next # None /\ active \in Links \cup {None}
    BY <1>5 DEF NetworkInv, ActiveIsKnown, Changing, NetworkTypeOK
  <2>5. ActiveIsKnown'
    BY <1>1, <2>2, <2>4 DEF ActiveIsKnown, Fallback, Running, Between, Changing
  <2> QED
    BY <2>2, <2>3, <2>5 DEF RoutesInv
<1>6. CASE pc = "add"
  <2>1. AddRoute(round.next, Fallback) /\ UNCHANGED <<record, orphans>>
    BY <1>6 DEF Replace
  <2>2. record = {Own(round.next)}
    BY <1>6 DEF NetworkInv, RecordPrecedes
  <2> QED
    BY <1>1, <1>2, <1>4, <1>6, <2>1, <2>2 DEF Fallback, RoutesInv,
       ActiveIsKnown, Running,
       Between, Changing, RecordPrecedes
<1>7. CASE pc = "restore"
  <2>1. WriteRecord(active, "readd", "recheck") /\ UNCHANGED table
    BY <1>7 DEF Replace
  <2>2. /\ OneRouteEach' /\ Accounted' /\ OwnRoutes' = {}
        /\ \/ pc' = "readd" /\ active' = active /\ record' = {Own(active)}
           \/ pc' = "recheck" /\ active' = None
    BY <1>2, <1>3, <1>7, <2>1
  <2>3. RecordPrecedes'
    BY <1>1, <2>2 DEF RecordPrecedes, Own
  <2>4. active # None
    BY <1>7 DEF NetworkInv, ActiveIsKnown
  <2>5. ActiveIsKnown'
    BY <1>1, <2>2, <2>4 DEF ActiveIsKnown, Running, Between, Changing
  <2> QED
    BY <2>2, <2>3, <2>5 DEF RoutesInv
<1>8. CASE pc = "readd"
  <2>1. AddRoute(active, "recheck") /\ UNCHANGED <<record, orphans>>
    BY <1>8 DEF Replace
  <2>2. record = {Own(active)}
    BY <1>8 DEF NetworkInv, RecordPrecedes
  <2> QED
    BY <1>1, <1>2, <1>4, <1>8, <2>1, <2>2 DEF RoutesInv, ActiveIsKnown, Running,
       Between, Changing, RecordPrecedes
<1> QED
  BY <1>1, <1>5, <1>6, <1>7, <1>8 DEF Between

\* A process takes over at most the route that the record names.
LEMMA StartStep == ASSUME NetworkInv, NEW h \in Hosts, Start(h) PROVE RoutesInv'
<1> DEFINE found == {e \in table : e.host = h}
<1>1. UNCHANGED <<table, record>> /\ pc' \in {"probe", "refused", "off"}
  BY DEF Start
<1>2. OneRouteEach' /\ RecordPrecedes'
  BY <1>1 DEF NetworkInv, OneRouteEach, RecordPrecedes
<1>3. CASE pc' = "probe"
  <2>1. (found = {} \/ found = record) /\ orphans' = orphans \ {h} /\ host' = h
    BY <1>3 DEF Start, Constructed
  <2>2. PICK dev \in IF found = {} THEN {None} ELSE {e.dev : e \in found} : active' = dev
    BY <1>3 DEF Start, Constructed
  <2>3. \A d, e \in found : d = e
    BY <2>1 DEF NetworkInv, NetworkTypeOK
  <2>4. \A e \in OwnRoutes' : e.dev = active'
    BY <1>1, <2>1, <2>2, <2>3 DEF OwnRoutes
  <2>5. Accounted'
    BY <1>1, <2>1 DEF NetworkInv, Accounted
  <2>6. ActiveIsKnown'
    BY <1>3, <2>4 DEF ActiveIsKnown, Running, Between, Changing
  <2> QED
    BY <1>2, <2>5, <2>6 DEF RoutesInv
<1>4. CASE pc' # "probe"
  <2>1. orphans' = orphans
    BY <1>4 DEF Start
  <2>2. Accounted' /\ ActiveIsKnown'
    BY <1>1, <1>4, <2>1 DEF NetworkInv, Accounted, ActiveIsKnown, Running,
       Between, Changing
  <2> QED
    BY <1>2, <2>2 DEF RoutesInv
<1> QED
  BY <1>3, <1>4

\* The process ends: nothing need be known of it any more, but its route is
\* gone or the record names it.
LEMMA EndingSteps ==
    NetworkInv /\ (Stop \/ Crash \/ Reboot) => RoutesInv'
<1> SUFFICES ASSUME NetworkInv, Stop \/ Crash \/ Reboot PROVE RoutesInv'
  OBVIOUS
<1>1. pc' = "off" /\ table' \subseteq table
  BY DEF Stop, Crash, Reboot
<1>2. OneRouteEach' /\ ActiveIsKnown' /\ RecordPrecedes'
  BY <1>1 DEF NetworkInv, OneRouteEach, ActiveIsKnown, RecordPrecedes, Running,
     Between, Changing
<1>3. CASE Crash /\ pc \in {"record", "restore"} /\ record' = {} /\ orphans' = Given({})
  <2>1. OwnRoutes = {} /\ table' = table
    BY <1>3 DEF Crash, NetworkInv, ActiveIsKnown, Between
  <2> QED
    BY <1>2, <1>3, <2>1, RecordStep DEF RoutesInv
<1>4. CASE record' = record /\ orphans' = orphans
  BY <1>1, <1>2, <1>4 DEF NetworkInv, Accounted, RoutesInv
<1>5. CASE Reboot
  BY <1>2, <1>5 DEF Reboot, Accounted, RoutesInv
<1> QED
  BY <1>3, <1>4, <1>5 DEF Stop, Crash

\* Routes that vanish, and routes of others, are no routes of the program's.
LEMMA OutsideSteps == NetworkInv /\ Outside => RoutesInv'
<1> SUFFICES ASSUME NetworkInv, Outside PROVE RoutesInv'
  OBVIOUS
<1>1. UNCHANGED <<record, pc, host, active, round, orphans>>
  BY DEF Outside, process
<1>2. \A e \in table' : e.owned => e \in table
  BY DEF Outside, LinkChanges, RouteVanishes, ForeignRoute
<1>3. OwnRoutes' \subseteq OwnRoutes
  BY <1>1, <1>2 DEF OwnRoutes
<1>4. OneRouteEach' /\ Accounted' /\ RecordPrecedes'
  BY <1>1, <1>2 DEF NetworkInv, OneRouteEach, Accounted, RecordPrecedes, Own
<1>5. ActiveIsKnown'
  BY <1>1, <1>3 DEF NetworkInv, ActiveIsKnown, Running, Between, Changing
<1> QED
  BY <1>4, <1>5 DEF RoutesInv

\* The invariant is inductive.
LEMMA InvKept == NetworkInv /\ [Next]_vars => NetworkInv'
<1> SUFFICES ASSUME NetworkInv, [Next]_vars PROVE NetworkInv'
  OBVIOUS
<1>1. RoutesInv'
  <2>1. CASE ProbeWired \/ ProbeWireless \/ Recheck \/ Judge \/ Announce \/ Publish
             \/ Pause \/ Exit
    <3>1. UNCHANGED <<table, record, host, active, orphans>>
      BY <2>1 DEF ProbeWired, ProbeWireless, Recheck, Judge, Announce, Publish,
         Pause,
                  Exit, outside, shared, process
    <3>2. /\ pc \notin {"off", "refused"} \/ pc' \in {"off", "refused"}
          /\ pc' \in {"choose", "inspect", "judge", "announce", "publish", "pause",
                     "probe", "off"}
      BY <2>1 DEF ProbeWired, ProbeWireless, Recheck, Judge, Announce, Publish,
         Pause, Exit
    <3> QED
      BY <3>1, <3>2, QuietSteps
  <2>2. CASE UNCHANGED vars
    BY <2>2 DEF vars, outside, shared, process, NetworkInv, RoutesInv, OneRouteEach,
       ActiveIsKnown, RecordPrecedes, Accounted, OwnRoutes, Running, Between, Changing, Own
  <2> QED
    BY <2>1, <2>2, DecidingSteps, DeleteStep, ReplaceStep, StartStep, EndingSteps,
       OutsideSteps DEF Next, Run
<1> QED
  BY <1>1, TypesKept DEF NetworkInv, RoutesInv

-----------------------------------------------------------------------------
(* Theorems.                                                                *)

\* What the thread knows of its routes, the record and the table agree, always.
THEOREM InvHolds == Spec => []NetworkInv
  BY InitialInv, InvKept, PTL DEF Spec

\* Every variable keeps its type, for any number of receivers and addresses.
THEOREM NetworkTypeCorrect == Spec => []NetworkTypeOK
<1>1. NetworkInv => NetworkTypeOK
  BY DEF NetworkInv
<1> QED
  BY <1>1, InvHolds, PTL

\* run() and the constructor, whatever fails and wherever the process dies,
\* never leave two routes of the program to one receiver.
THEOREM KeepsOneRoute == Spec => []OneRouteEach
<1>1. NetworkInv => OneRouteEach
  BY DEF NetworkInv
<1> QED
  BY <1>1, InvHolds, PTL

\* The constructor refuses only a route that is not the program's own, or that
\* it was told to give up by a start for another receiver.
THEOREM NeverLockedOut == Spec => RefusalJustified
<1> DEFINE Justified ==
      pc # "refused" /\ pc' = "refused" =>
        \E e \in table : e.host = host' /\ (~e.owned \/ host' \in orphans)
<1>1. NetworkInv /\ [Next]_vars => [Justified]_vars
  <2> SUFFICES ASSUME NetworkInv, Next, pc # "refused", pc' = "refused"
               PROVE  \E e \in table : e.host = host' /\ (~e.owned \/ host' \in orphans)
    OBVIOUS
  <2>1. PICK h \in Hosts : Start(h)
    BY DEF Next, Run, ProbeWired, ProbeWireless, Inspect, Withdraw, Bump, Delete,
       Replace, WriteRecord, AddRoute, Fallback, Recheck, Judge, Announce, Publish,
       Pause, Exit, Stop, Outside, Crash, Reboot
  <2> DEFINE found == {e \in table : e.host = h}
  <2>2. found # {} /\ found # record /\ host' = h
    BY <2>1 DEF Start, Constructed
  <2>3. SUFFICES ASSUME \A e \in found : e.owned /\ h \notin orphans PROVE FALSE
    BY <2>2
  <2>4. found \subseteq record
    BY <2>3 DEF NetworkInv, Accounted
  <2>5. record \in {{}} \cup {{e} : e \in Entry}
    BY DEF NetworkInv, NetworkTypeOK
  <2> QED
    BY <2>2, <2>4, <2>5
<1> QED
  BY <1>1, InvHolds, PTL DEF Spec, RefusalJustified

-----------------------------------------------------------------------------
(* What the sending threads see of one life of the process.                 *)

\* Between the increment of the generation and the verdict on the new route.
Switching == pc \in {"delete", "record", "add", "restore", "readd", "recheck"}

\* Readiness is down from before the increment until the round publishes, and a
\* round that does not increment publishes what is known already.
SignalInv ==
    /\ pc \notin {"off", "refused"}
    /\ pc \in {"probe", "choose", "inspect", "withdraw", "pause"} => ~announced
    /\ Switching => announced
    /\ pc \in {"bump", "announce"} \/ announced => ~ready
    /\ pc = "publish" /\ ~announced => /\ round.available = ready
                                       /\ ~Moved(round.available)

\* A process that was accepted knows its routes.
LEMMA LifeInitInv == LifeInit => NetworkInv /\ SignalInv
<1> SUFFICES ASSUME LifeInit PROVE NetworkInv /\ SignalInv OBVIOUS
<1> USE NetworkAssumption
<1>1. active # None => Own(active) \in Entry
  BY DEF LifeInit, Own, Entry
<1>2. NetworkTypeOK
  <2>1. table \subseteq Entry /\ record \in {{}} \cup {{e} : e \in Entry}
    BY <1>1 DEF LifeInit
  <2>2. round \in Round
    BY DEF LifeInit, NoRound, Round, Links
  <2>3. policy \in [failures : 0..3, wifiFailures : 0..3, healthy : -1..HoldOff]
    BY DEF LifeInit, NewPolicy
  <2>4. events \in 0..MaxEvents /\ retry \in 0..WarnDelay /\ generation \in Nat
    BY DEF LifeInit
  <2> QED
    BY <2>1, <2>2, <2>3, <2>4 DEF LifeInit, NetworkTypeOK
<1>3. OneRouteEach /\ ActiveIsKnown /\ RecordPrecedes /\ Accounted
  <2>1. \A e \in table : e = Own(active) /\ e \in record
    BY DEF LifeInit
  <2>2. Own(active).dev = active
    BY DEF Own
  <2>3. OneRouteEach /\ Accounted
    BY <2>1 DEF OneRouteEach, Accounted
  <2>4. \A e \in OwnRoutes : e.dev = active
    BY <2>1, <2>2 DEF OwnRoutes
  <2> QED
    BY <2>3, <2>4 DEF LifeInit, ActiveIsKnown, RecordPrecedes, Running, Between,
       Changing
<1>4. SignalInv
  BY DEF LifeInit, SignalInv, Switching
<1> QED
  BY <1>2, <1>3, <1>4 DEF NetworkInv

\* The verdict of the round: a withdrawal, or nothing has changed.
LEMMA JudgeStep ==
    ASSUME NetworkInv, SignalInv, Judge
    PROVE  /\ SignalInv'
           /\ \/ pc' = "announce" /\ ~ready'
              \/ pc' = "publish" /\ ready' = ready
<1> DEFINE available == active # None /\ round.installed = active /\ Usable(active)
<1>1. /\ round'.available = available /\ round'.seen = round.seen
      /\ UNCHANGED <<active, activeAddress, announced>>
  BY DEF Judge, NetworkInv, NetworkTypeOK, Round, process
<1>2. Source' = Source
  BY <1>1 DEF Source
<1>3. CASE available # ready \/ Moved(available)
  BY <1>1, <1>3 DEF Judge, SignalInv, Switching
<1>4. CASE available = ready /\ ~Moved(available)
  <2>1. ready' = ready /\ pc' = "publish"
    BY <1>4 DEF Judge
  <2>2. ~Moved(round.available)'
    BY <1>1, <1>2, <1>4 DEF Moved
  <2>3. round'.available = ready
    BY <1>1, <1>4
  <2>4. SignalInv'
    BY <1>1, <2>1, <2>2, <2>3 DEF SignalInv, Switching
  <2> QED
    BY <2>1, <2>4
<1> QED
  BY <1>3, <1>4 DEF Judge

\* The invariant is kept while the process lives.
LEMMA SignalKept ==
    ASSUME NetworkInv, SignalInv, [Run \/ Outside]_vars
    PROVE  SignalInv'
<1>1. CASE ProbeWired \/ ProbeWireless \/ Inspect \/ Withdraw \/ Bump \/ Delete
           \/ Replace \/ Recheck \/ Announce \/ Pause
  <2>1. pc' \in {"choose", "inspect", "withdraw", "judge", "bump", "delete", "record",
                 "add", "restore", "readd", "recheck", "publish", "probe"}
        /\ (pc' = "publish" => Announce)
    BY <1>1 DEF ProbeWired, ProbeWireless, Inspect, Withdraw, Bump, Delete, Replace,
         WriteRecord, AddRoute, Fallback, Recheck, Announce, Pause
  <2> QED
    BY <1>1, <2>1 DEF ProbeWired, ProbeWireless, Inspect, Withdraw, Bump, Delete,
         Replace, WriteRecord, AddRoute, Fallback, Recheck, Announce, Pause, shared,
         SignalInv, Switching
<1>2. CASE Judge
  BY <1>2, JudgeStep
<1>3. CASE Publish
  BY <1>3 DEF Publish, SignalInv, Switching
<1>4. CASE Outside \/ UNCHANGED vars
  BY <1>4 DEF Outside, vars, shared, process, SignalInv, Switching, Moved, Source
<1> QED
  BY <1>1, <1>2, <1>3, <1>4 DEF Run

\* Every step of the thread is a step of the signal, or leaves it alone.
LEMMA SignalSteps ==
    ASSUME NetworkInv, SignalInv, [Run \/ Outside]_vars
    PROVE  [Signal!RouteNext]_(Signal!routeVars)
<1> DEFINE where == IF pc \in {"bump", "announce"} THEN "bump"
                    ELSE IF announced THEN "change" ELSE "idle"
<1> USE DEF Signal!routeVars
<1>1. generation \in Nat /\ ready \in BOOLEAN /\ active \in Links \cup {None}
      /\ round.available \in BOOLEAN
  BY DEF NetworkInv, NetworkTypeOK, Round
<1>2. CASE ProbeWired \/ ProbeWireless \/ Inspect \/ Delete \/ Recheck \/ Pause
  <2>1. UNCHANGED <<ready, generation, active, announced>>
        /\ pc \notin {"bump", "announce"} /\ pc' \notin {"bump", "announce"}
    BY <1>2 DEF ProbeWired, ProbeWireless, Inspect, Delete, Recheck, Pause, shared,
                process
  <2> QED
    BY <2>1
<1>3. CASE Withdraw
  BY <1>1, <1>3 DEF Withdraw, process, SignalInv, Signal!RouteNext, Signal!Withdraw
<1>4. CASE Bump
  BY <1>4 DEF Bump, Signal!RouteNext, Signal!Bump
<1>5. CASE Replace
  <2>1. UNCHANGED <<ready, generation, announced>> /\ announced
        /\ pc \notin {"bump", "announce"} /\ pc' \notin {"bump", "announce"}
    BY <1>5 DEF Replace, WriteRecord, AddRoute, Fallback, shared, SignalInv, Switching
  <2>2. active' \in Links \cup {None}
    BY <1>5, TypesKept DEF NetworkTypeOK, Next, Run
  <2> QED
    BY <2>1, <2>2 DEF Signal!RouteNext, Signal!Reroute
<1>6. CASE Judge
  <2>1. /\ pc = "judge" /\ UNCHANGED <<generation, active, announced>>
        /\ \/ pc' = "announce" /\ ~ready'
           \/ pc' = "publish" /\ ready' = ready
    BY <1>6, JudgeStep DEF Judge, process
  <2>2. ready' \in BOOLEAN
    BY <1>6, TypesKept DEF NetworkTypeOK, Next, Run
  <2>3. CASE pc' = "publish"
    BY <2>1, <2>3
  <2>4. CASE pc' = "announce" /\ announced
    BY <1>1, <2>1, <2>2, <2>4 DEF SignalInv, Signal!RouteNext, Signal!BumpAgain
  <2>5. CASE pc' = "announce" /\ ~announced
    BY <1>1, <2>1, <2>2, <2>5 DEF Signal!RouteNext, Signal!Withdraw
  <2> QED
    BY <2>1, <2>3, <2>4, <2>5
<1>7. CASE Announce
  BY <1>7 DEF Announce, process, Signal!RouteNext, Signal!Bump
<1>8. CASE Publish
  BY <1>1, <1>8 DEF Publish, SignalInv, Signal!RouteNext, Signal!Publish
<1>9. CASE Outside \/ UNCHANGED vars
  BY <1>9 DEF Outside, vars, shared, process
<1> QED
  BY <1>2, <1>3, <1>4, <1>5, <1>6, <1>7, <1>8, <1>9 DEF Run

\* Both invariants hold in every state of a life.
THEOREM LifeInvHolds == LifeSpec => [](NetworkInv /\ SignalInv)
<1>1. [Run \/ Outside]_vars => [Next]_vars
  BY DEF Next
<1>2. NetworkInv /\ SignalInv /\ [Run \/ Outside]_vars => (NetworkInv /\ SignalInv)'
  BY <1>1, InvKept, SignalKept
<1> QED
  BY <1>2, LifeInitInv, PTL DEF LifeSpec

\* run() shows the sending threads a RouteSignal: readiness is withdrawn, then the
\* generation incremented, then the route touched, then readiness published - with
\* any call failing and anything happening outside.  It is what PublisherEndpoint
\* assumes of the route.
THEOREM ShowsRouteSignal == LifeSpec => ImplementsRouteSignal
<1>1. LifeInit => Signal!RouteInit
  BY DEF LifeInit, Signal!RouteInit
<1> QED
  BY <1>1, SignalSteps, LifeInvHolds, PTL DEF LifeSpec, ImplementsRouteSignal,
     Signal!RouteSpec

\* Publish takes over another source address only in a round that has incremented
\* the generation: no connection goes on under an address it was not opened with.
THEOREM AnnouncesAddress == LifeSpec => AddressChangeIsAnnounced
<1> DEFINE Heard == activeAddress' # activeAddress /\ activeAddress # None => announced
<1>1. NetworkInv /\ SignalInv /\ [Run \/ Outside]_vars => [Heard]_vars
  <2> SUFFICES ASSUME NetworkInv, SignalInv, Run \/ Outside,
                      activeAddress' # activeAddress, activeAddress # None
               PROVE  announced
    OBVIOUS
  <2>1. Publish
    BY DEF Run, ProbeWired, ProbeWireless, Inspect, Withdraw, Bump, Delete, Replace,
       Recheck, Judge, Announce, Pause, Outside, process
  <2> QED
    BY <2>1 DEF Publish, SignalInv, Moved
<1> QED
  BY <1>1, LifeInvHolds, PTL DEF LifeSpec, AddressChangeIsAnnounced
=============================================================================
