------------------------------ MODULE MCService ------------------------------
(***************************************************************************)
(* Model checking of Service: values of the constants for MCService*.cfg.   *)
(***************************************************************************)
EXTENDS Service

CONSTANTS p, q, m, n

TwoProcs == {p, q}
TwoMonitors == {m, n}
OneMonitor == {m}
\* Killing shells multiplies the behaviours of the other faults, and a launch by
\* hand is what Recovers excuses: each is looked at apart.
Interference == AllFaults \ {"byhand", "kill"}
Apart == {Interference, {"kill", "hang"}, {"byhand"}}
StallOnly == {{"stall"}}
=============================================================================
