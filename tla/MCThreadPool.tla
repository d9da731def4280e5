---------------------------- MODULE MCThreadPool ----------------------------
(* mode_serv07_dyn with a minimum of one thread, a maximum of three and two *)
(* clients: the pool grows twice and shrinks twice, a thread leaves while   *)
(* main scans, and an entry is used again by another thread.                *)
EXTENDS ThreadPool
=============================================================================
