----------------------------- MODULE MCPassFdDyn -----------------------------
(* mode_serv05_dyn with one to three children and two clients: the pool     *)
(* grows twice, shrinks around a busy child, leaves an empty slot between   *)
(* used ones and uses it again; every child can be busy or dead.            *)
EXTENDS PassFdDyn
=============================================================================
