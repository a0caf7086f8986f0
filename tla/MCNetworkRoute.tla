--------------------------- MODULE MCNetworkRoute ---------------------------
(***************************************************************************)
(* Model checking of NetworkRoute: values of the constants for the          *)
(* MCNetwork*.cfg.                                                          *)
(***************************************************************************)
EXTENDS NetworkRoute

CONSTANTS a, b

OneHost == {a}
TwoHosts == {a, b}
OneSource == {"x"}
TwoSources == {"x", "y"}
=============================================================================
