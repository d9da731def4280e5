--------------------------- MODULE MCEchoSession ---------------------------
(***************************************************************************)
(* EchoSession for TLC: the constants are given in the configuration.      *)
(***************************************************************************)
EXTENDS EchoSession

=============================================================================
