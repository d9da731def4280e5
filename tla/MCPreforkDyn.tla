---------------------------- MODULE MCPreforkDyn ----------------------------
(* A pool of one or two children and three clients: all children can be     *)
(* busy with two clients waiting, one can leave while the other serves, and *)
(* an empty slot can lie before a used one.  Pipes of two bytes fill up.    *)
EXTENDS PreforkDyn
=============================================================================
