------------------------------- MODULE EchoQueue -------------------------------
(***************************************************************************)
(* What ch25_sigio/sigio_dg_echo.c promises for the datagrams it has read: *)
(* each is echoed once, unchanged and in the order of arrival, and the     *)
(* server gives up only when its buffers are used up.  One buffer may      *)
(* still be counted for the datagram that has just been echoed, so that    *)
(* Capacity - 1 waiting datagrams can be one too many.                     *)
(***************************************************************************)
EXTENDS Naturals, Sequences

CONSTANTS Datagrams, Capacity, NoDatagram

VARIABLES
    queue,   \* datagrams read and not yet echoed, oldest first
    echoed,  \* the datagram sent last
    status   \* "up", or what ended the process

vars == <<queue, echoed, status>>

Init ==
    /\ queue = <<>>
    /\ echoed = NoDatagram
    /\ status = "up"

Read(d) ==
    /\ status = "up"
    /\ Len(queue) < Capacity
    /\ queue' = Append(queue, d)
    /\ UNCHANGED <<echoed, status>>

Echo ==
    /\ status = "up"
    /\ queue # <<>>
    /\ echoed' = Head(queue)
    /\ queue' = Tail(queue)
    /\ UNCHANGED status

Stop(why) ==
    /\ status = "up"
    /\ status' = why
    /\ UNCHANGED <<queue, echoed>>

Overflow == Len(queue) >= Capacity - 1 /\ Stop("overflow")
Fail == Stop("error")

Next ==
    \/ \E d \in Datagrams : Read(d)
    \/ Echo
    \/ Overflow
    \/ Fail

Spec == Init /\ [][Next]_vars
=============================================================================
