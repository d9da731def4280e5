---------------------------- MODULE MCTimedRecv -----------------------------
(***************************************************************************)
(* TimedRecv for TLC: the constants are given in the configuration.        *)
(***************************************************************************)
EXTENDS TimedRecv

=============================================================================
