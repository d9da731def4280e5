---------------------------- MODULE MCRetransmit ----------------------------
(* Four lines, sequence numbers modulo 4 and datagrams that live as long as *)
(* that allows: numbers wrap up to four times with old datagrams in flight. *)
(* Answers come at once or, if the timer allows it, after 20 or 60 seconds, *)
(* so that the timeout reaches both its limits.                             *)
EXTENDS Retransmit

DelaysDef == {0, 20 * Second, 60 * Second}
=============================================================================
