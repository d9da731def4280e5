---------------------------- MODULE MCAcceptRing ----------------------------
(* mode_serv08 with a ring of three entries (two usable), so that indices  *)
(* wrap and the ring overflows; three threads, so that one serves while one *)
(* sleeps and one has been woken.                                          *)
EXTENDS AcceptRing
=============================================================================
