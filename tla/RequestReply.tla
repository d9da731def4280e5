----------------------------- MODULE RequestReply -----------------------------
(***************************************************************************)
(* What adv_dg_cli() promises its user: the lines read are answered one by *)
(* one, each with its own echo, until the client gives up on one of them   *)
(* or the input ends.  Nothing is said of datagrams.                       *)
(***************************************************************************)
EXTENDS Naturals, Sequences

VARIABLES
    asked,     \* lines read so far
    printed,   \* the lines printed, each named by its place in the input
    state      \* "run", "over"

Waiting == asked = Len(printed) + 1

Init == asked = 0 /\ printed = <<>> /\ state = "run"

Ask ==
    /\ state = "run" /\ ~Waiting
    /\ asked' = asked + 1
    /\ UNCHANGED <<printed, state>>

Answer ==
    /\ state = "run" /\ Waiting
    /\ printed' = Append(printed, asked)
    /\ UNCHANGED <<asked, state>>

Finish ==
    /\ state = "run"
    /\ state' = "over"
    /\ UNCHANGED <<asked, printed>>

Next == Ask \/ Answer \/ Finish

Spec == Init /\ [][Next]_<<asked, printed, state>>
=============================================================================
