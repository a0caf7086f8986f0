------------------------ MODULE MCPublisherEndpoint ------------------------
(***************************************************************************)
(* Model checking of PublisherEndpoint: values of the constants for the     *)
(* MCPublisherEndpoint*.cfg.                                                *)
(***************************************************************************)
EXTENDS PublisherEndpoint

CONSTANTS wired, wireless

OneSize == {1}
OnePath == {wired}
TwoPaths == {wired, wireless}
=============================================================================
