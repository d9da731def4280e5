----------------------------- MODULE MCSigioEcho -----------------------------
(* sigio_dg_echo with three slots, a receive buffer of two and five         *)
(* datagrams: the ring wraps and overflows, and one signal can announce two *)
(* datagrams.                                                               *)
EXTENDS SigioEcho
=============================================================================
