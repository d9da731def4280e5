---------------------------- MODULE MCWebClients ----------------------------
(***************************************************************************)
(* WebClients for TLC: the constants are given in the configuration.       *)
(***************************************************************************)
EXTENDS WebClients

=============================================================================
