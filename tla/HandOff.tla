-------------------------------- MODULE HandOff --------------------------------
(***************************************************************************)
(* What mode_serv08.c owes its clients: the accepting thread hands         *)
(* connections to the serving threads through a bounded first-in first-out *)
(* queue.  Nothing is lost, doubled or overtaken while the process is up,  *)
(* and the queue overflows only when it is full.                           *)
(***************************************************************************)
EXTENDS Naturals, Sequences

CONSTANTS Threads, Clients, Capacity, NoClient

VARIABLES
    queue,   \* connections accepted and not yet taken, oldest first
    holder,  \* the connection each thread serves
    status   \* "up", or what ended the process

vars == <<queue, holder, status>>

Init ==
    /\ queue = <<>>
    /\ holder = [t \in Threads |-> NoClient]
    /\ status = "up"

\* A connection no thread holds and the queue does not hold enters it.
Put(c) ==
    /\ status = "up"
    /\ Len(queue) < Capacity
    /\ \A k \in 1..Len(queue) : queue[k] # c
    /\ \A t \in Threads : holder[t] # c
    /\ queue' = Append(queue, c)
    /\ UNCHANGED <<holder, status>>

\* An idle thread takes the oldest connection.
Take(t) ==
    /\ status = "up"
    /\ queue # <<>> /\ holder[t] = NoClient
    /\ holder' = [holder EXCEPT ![t] = Head(queue)]
    /\ queue' = Tail(queue)
    /\ UNCHANGED status

Release(t) ==
    /\ holder[t] # NoClient
    /\ holder' = [holder EXCEPT ![t] = NoClient]
    /\ UNCHANGED <<queue, status>>

\* The process ends and every connection with it.
Stop(why) ==
    /\ status = "up"
    /\ status' = why
    /\ queue' = <<>>
    /\ holder' = [t \in Threads |-> NoClient]

Overflow == Len(queue) = Capacity /\ Stop("overflow")
Fail == Stop("error")

Next ==
    \/ \E c \in Clients : Put(c)
    \/ \E t \in Threads : Take(t) \/ Release(t)
    \/ Overflow
    \/ Fail

Spec == Init /\ [][Next]_vars

\* A queued connection gets a thread, or the process ends.
Served ==
    \A c \in Clients :
        (\E k \in 1..Len(queue) : queue[k] = c)
            ~> (\E t \in Threads : holder[t] = c) \/ status # "up"
=============================================================================
