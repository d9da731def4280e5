---------------------------- MODULE MCIcmpDaemon ----------------------------
(***************************************************************************)
(* IcmpDaemon for TLC: the constants are given in the configuration.       *)
(***************************************************************************)
EXTENDS IcmpDaemon

=============================================================================
