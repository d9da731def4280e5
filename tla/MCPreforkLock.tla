---------------------------- MODULE MCPreforkLock ----------------------------
(* Three children and two clients under each of the five locks: one child   *)
(* can hold the lock, one wait for it and one serve; a client can wait      *)
(* while all that live are busy.                                            *)
EXTENDS PreforkLock
=============================================================================
