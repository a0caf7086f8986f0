------------------------- MODULE MCEndpointRecovery -------------------------
(***************************************************************************)
(* Model checking of EndpointRecovery: values of the constants for          *)
(* MCEndpointQueue.cfg.                                                     *)
(***************************************************************************)
EXTENDS EndpointRecovery

CONSTANT wired

OneSize == {1}
OnePath == {wired}
=============================================================================
