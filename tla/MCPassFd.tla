------------------------------- MODULE MCPassFd -------------------------------
(* mode_serv05 with three children and three clients: two children can be   *)
(* dead while the third serves, and all can be busy with a client waiting.  *)
EXTENDS PassFd
=============================================================================
