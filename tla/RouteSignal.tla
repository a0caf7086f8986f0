----------------------------- MODULE RouteSignal -----------------------------
(***************************************************************************)
(* What the route thread (NetworkRoute::run, src/network/network_route.cpp) *)
(* shows to the sending threads: two atomics, ready_ and generation_, and   *)
(* the path - host route and source address - that traffic takes.           *)
(*                                                                         *)
(* The thread withdraws readiness, then increments the generation, then     *)
(* touches the route, and only then publishes readiness again.  Each store  *)
(* is a step of its own, for the sending threads read between them.  When   *)
(* and why a change happens is left open here.                              *)
(***************************************************************************)
EXTENDS Naturals

CONSTANTS Failover,   \* network:enable_failover: FALSE leaves network_ null
          Paths,      \* host routes and source addresses
          Changes     \* bound: the generations that may still be followed
                      \* by another one

ASSUME RouteAssumption ==
    Failover \in BOOLEAN /\ Changes \subseteq Nat

VARIABLES routeReady,  \* ready_
          routeGen,    \* generation_
          path,        \* the path in use
          routePc      \* where the route thread is between its stores

routeVars == <<routeReady, routeGen, path, routePc>>

\* Without failover there is no NetworkRoute: always ready, never changing.
RouteInit ==
    /\ routeReady = ~Failover /\ routeGen = 0
    /\ path \in Paths /\ routePc = "idle"

\* ready_ = false
Withdraw ==
    /\ Failover /\ routePc = "idle" /\ routeGen \in Changes
    /\ routeReady' = FALSE /\ routePc' = "bump"
    /\ UNCHANGED <<routeGen, path>>

\* Mutant: the generation stays.
BumpForgotten ==
    /\ routePc = "bump" /\ routePc' = "change"
    /\ UNCHANGED <<routeReady, routeGen, path>>

\* ++generation_
Bump ==
    /\ routePc = "bump"
    /\ routeGen' = routeGen + 1 /\ routePc' = "change"
    /\ UNCHANGED <<routeReady, path>>

\* The host route is replaced, or the new source address takes effect.
Reroute ==
    /\ routePc = "change"
    /\ path' \in Paths
    /\ UNCHANGED <<routeReady, routeGen, routePc>>

\* A switch whose result differs from ready_ bumps once more in this round.
BumpAgain ==
    /\ routePc = "change" /\ routeGen \in Changes
    /\ routePc' = "bump"
    /\ UNCHANGED <<routeReady, routeGen, path>>

\* ready_ = available
Publish ==
    /\ routePc = "change"
    /\ routeReady' \in BOOLEAN /\ routePc' = "idle"
    /\ UNCHANGED <<routeGen, path>>

RouteNext == Withdraw \/ Bump \/ Reroute \/ BumpAgain \/ Publish

RouteSpec == RouteInit /\ [][RouteNext]_routeVars

RouteTypeOK ==
    /\ routeReady \in BOOLEAN /\ routeGen \in Nat
    /\ path \in Paths /\ routePc \in {"idle", "bump", "change"}
=============================================================================
