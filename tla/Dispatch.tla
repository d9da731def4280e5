------------------------------- MODULE Dispatch -------------------------------
(***************************************************************************)
(* What a pool of children that are passed connections owes its clients    *)
(* (mode_serv05.c, mode_serv05_dyn.c): a connection that is accepted is    *)
(* given at once to a child that has none, the oldest first, and no other  *)
(* child ever has it.  How the parent knows which child has none is left   *)
(* open.                                                                   *)
(***************************************************************************)
EXTENDS Naturals, Sequences

CONSTANTS Slots, Clients, NoClient

VARIABLES
    waiting,  \* connections nobody has accepted, oldest first
    holder,   \* the connection each child has, received or on its way
    status    \* "up", or what ended the parent

vars == <<waiting, holder, status>>

Init ==
    /\ waiting = <<>>
    /\ holder = [i \in Slots |-> NoClient]
    /\ status = "up"

Connect(c) ==
    /\ \A k \in DOMAIN waiting : waiting[k] # c
    /\ \A i \in Slots : holder[i] # c
    /\ waiting' = Append(waiting, c)
    /\ UNCHANGED <<holder, status>>

\* A client resets its connection before it is accepted.
Abort ==
    /\ waiting # <<>>
    /\ waiting' = Tail(waiting)
    /\ UNCHANGED <<holder, status>>

Give(i) ==
    /\ waiting # <<>> /\ holder[i] = NoClient
    /\ holder' = [holder EXCEPT ![i] = Head(waiting)]
    /\ waiting' = Tail(waiting)
    /\ UNCHANGED status

\* The child has served its client, or has ended.
Finish(i) ==
    /\ holder[i] # NoClient
    /\ holder' = [holder EXCEPT ![i] = NoClient]
    /\ UNCHANGED <<waiting, status>>

Stop ==
    /\ status' # "up"
    /\ UNCHANGED <<waiting, holder>>

Next ==
    /\ status = "up"
    /\ \/ \E c \in Clients : Connect(c)
       \/ Abort
       \/ \E i \in Slots : Give(i) \/ Finish(i)
       \/ Stop

Spec == Init /\ [][Next]_vars
=============================================================================
