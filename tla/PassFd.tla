-------------------------------- MODULE PassFd --------------------------------
(***************************************************************************)
(* ch30_mode/mode_serv05.c: the parent accepts every connection and passes *)
(* its descriptor to a child over a stream socketpair; the child writes a  *)
(* byte back when it can take another.  The parent keeps a status per      *)
(* child, the count navail of free ones, and the set of pipes it watches;  *)
(* a child that dies shows as end of file on its pipe.                     *)
(*                                                                         *)
(* Between select() and the reads and writes that follow it the children   *)
(* go on, and may die: select's result is a snapshot.  nsel is left out:   *)
(* it is the size of what is left of that snapshot.                        *)
(***************************************************************************)
EXTENDS Integers, Sequences, FiniteSets

CONSTANTS
    NChildren,   \* argv[2]
    Clients,     \* client hosts, each with at most one connection at a time
    NoClient     \* no descriptor

ASSUME ChildrenAssumption == NChildren \in Nat
ASSUME ClientsAssumption == NoClient \notin Clients

VARIABLES
    ppc,       \* the parent: "select", "accept" or "scan"
    todo,      \* children whose pipe select() reported and that are not yet read
    busy,      \* cptr[].child_status = 1
    navail,
    watched,   \* pipes in masterset
    child,     \* each child: "idle", "serve", "report" or "dead"
    passed,    \* descriptors in the socketpair, parent to child
    ready,     \* bytes in the socketpair, child to parent
    conn,      \* the client a child serves
    backlog,   \* completed connections nobody has accepted
    server     \* "up", or what ended the parent

vars == <<ppc, todo, busy, navail, watched, child, passed, ready, conn, backlog, server>>
parent == <<ppc, todo, busy, navail, watched>>
children == <<child, passed, ready, conn>>

Slots == 0..(NChildren - 1)

Init ==
    /\ ppc = "select" /\ todo = {}
    /\ busy = [i \in Slots |-> FALSE]
    /\ navail = NChildren
    /\ watched = Slots
    /\ child = [i \in Slots |-> "idle"]
    /\ passed = [i \in Slots |-> <<>>]
    /\ ready = [i \in Slots |-> 0]
    /\ conn = [i \in Slots |-> NoClient]
    /\ backlog = <<>>
    /\ server = "up"

Free == {i \in Slots : ~busy[i]}

-----------------------------------------------------------------------------
(* The parent.                                                             *)

\* Readable: a byte, or the end of file of a dead child.
Readable == {i \in watched : ready[i] > 0 \/ child[i] = "dead"}

\* listenfd is in the set only while a child is available.
Select ==
    /\ ppc = "select"
    /\ \/ /\ navail > 0 /\ backlog # <<>>
          /\ ppc' = "accept"
       \/ /\ navail <= 0 \/ backlog = <<>>
          /\ Readable # {}
          /\ ppc' = "scan"
    /\ todo' = Readable
    /\ UNCHANGED <<busy, navail, watched, children, backlog, server>>

\* Back to select() when nothing of the snapshot is left ("--nsel == 0").
Rest(left) ==
    /\ todo' = left
    /\ ppc' = IF left = {} THEN "select" ELSE "scan"

\* Mutant of Chosen: the first child, whatever its status.
ChosenFirst(i) == i \in Slots /\ \A j \in Slots : i <= j

\* The first child whose status is 0.
Chosen(i) == i \in Free /\ \A j \in Free : i <= j

\* Accept, which blocks, and pass the descriptor on.
Accept ==
    /\ ppc = "accept" /\ backlog # <<>>
    /\ \E i \in Slots :
        /\ Chosen(i) /\ child[i] # "dead"
        /\ busy' = [busy EXCEPT ![i] = TRUE]
        /\ passed' = [passed EXCEPT ![i] = Append(@, Head(backlog))]
    /\ navail' = navail - 1
    /\ backlog' = Tail(backlog)
    /\ Rest(todo)
    /\ UNCHANGED <<watched, child, ready, conn, server>>

\* sendmsg() to a child that has died since: SIGPIPE, which nobody catches.
AcceptForDead ==
    /\ ppc = "accept" /\ backlog # <<>>
    /\ \E i \in Slots : Chosen(i) /\ child[i] = "dead"
    /\ server' = "sigpipe"
    /\ UNCHANGED <<parent, children, backlog>>

\* err_quit("no available children").
NoneAvailable ==
    /\ ppc = "accept" /\ backlog # <<>> /\ Free = {}
    /\ server' = "nochild"
    /\ UNCHANGED <<parent, children, backlog>>

\* Accept() ends the server on any error but an aborted connection.
AcceptFails ==
    /\ ppc = "accept"
    /\ server' = "error"
    /\ UNCHANGED <<parent, children, backlog>>

\* The loop over the pipes takes the lowest first.
NextReadable(i) ==
    /\ ppc = "scan"
    /\ i \in todo /\ \A j \in todo : i <= j
    /\ Rest(todo \ {i})

\* Mutant of ReadByte: the child is free again and not counted.
ReadByteUncounted(i) ==
    /\ NextReadable(i) /\ ready[i] > 0
    /\ ready' = [ready EXCEPT ![i] = @ - 1]
    /\ busy' = [busy EXCEPT ![i] = FALSE]
    /\ UNCHANGED <<navail, watched, child, passed, conn, backlog, server>>

\* A byte: the child is free again.
ReadByte(i) ==
    /\ NextReadable(i) /\ ready[i] > 0
    /\ ready' = [ready EXCEPT ![i] = @ - 1]
    /\ busy' = [busy EXCEPT ![i] = FALSE]
    /\ navail' = navail + 1
    /\ UNCHANGED <<watched, child, passed, conn, backlog, server>>

\* Mutant of ReadEof: the dead child still counts as available.
ReadEofKeepsAvail(i) ==
    /\ NextReadable(i) /\ ready[i] = 0
    /\ busy' = [busy EXCEPT ![i] = TRUE]
    /\ watched' = watched \ {i}
    /\ UNCHANGED <<navail, children, backlog, server>>

\* End of file: a child that was free is so no longer; stop watching the pipe.
ReadEof(i) ==
    /\ NextReadable(i) /\ ready[i] = 0
    /\ navail' = IF busy[i] THEN navail ELSE navail - 1
    /\ busy' = [busy EXCEPT ![i] = TRUE]
    /\ watched' = watched \ {i}
    /\ UNCHANGED <<children, backlog, server>>

\* A child that dies with a descriptor unread resets the socketpair: where the
\* kernel reports that as an error Read() ends the server.
ReadReset(i) ==
    /\ ppc = "scan" /\ i \in todo
    /\ child[i] = "dead" /\ ready[i] = 0 /\ passed[i] # <<>>
    /\ server' = "error"
    /\ UNCHANGED <<parent, children, backlog>>

-----------------------------------------------------------------------------
(* A child, child_make().                                                  *)

Take(i) ==
    /\ child[i] = "idle" /\ passed[i] # <<>>
    /\ child' = [child EXCEPT ![i] = "serve"]
    /\ conn' = [conn EXCEPT ![i] = Head(passed[i])]
    /\ passed' = [passed EXCEPT ![i] = Tail(@)]
    /\ UNCHANGED <<parent, ready, backlog, server>>

\* mode_reply() returns when the client closes its side; Close(connfd).
Served(i) ==
    /\ child[i] = "serve"
    /\ child' = [child EXCEPT ![i] = "report"]
    /\ conn' = [conn EXCEPT ![i] = NoClient]
    /\ UNCHANGED <<parent, passed, ready, backlog, server>>

Report(i) ==
    /\ child[i] = "report"
    /\ child' = [child EXCEPT ![i] = "idle"]
    /\ ready' = [ready EXCEPT ![i] = @ + 1]
    /\ UNCHANGED <<parent, passed, conn, backlog, server>>

\* mode_reply() ends the process on a request out of range or a failed write, and
\* any child may be killed.  Its connection is closed; a descriptor it has not
\* received stays in the socketpair and is lost with it.
Die(i) ==
    /\ child[i] # "dead"
    /\ child' = [child EXCEPT ![i] = "dead"]
    /\ conn' = [conn EXCEPT ![i] = NoClient]
    /\ UNCHANGED <<parent, passed, ready, backlog, server>>

-----------------------------------------------------------------------------
(* Clients and kernel.                                                     *)

\* Clients in the hands of a living child, and on their way to it.
With(i) ==
    IF child[i] = "dead" THEN {}
    ELSE {conn[i]} \union {passed[i][k] : k \in DOMAIN passed[i]}

Connect(c) ==
    /\ \A k \in DOMAIN backlog : backlog[k] # c
    /\ \A i \in Slots : c \notin With(i)
    /\ backlog' = Append(backlog, c)
    /\ UNCHANGED <<parent, children, server>>

\* The client at the head resets its connection before accept().
Abort ==
    /\ backlog # <<>>
    /\ backlog' = Tail(backlog)
    /\ UNCHANGED <<parent, children, server>>

-----------------------------------------------------------------------------
ParentStep ==
    /\ server = "up"
    /\ \/ Select
       \/ Accept
       \/ AcceptForDead
       \/ NoneAvailable
       \/ \E i \in Slots : ReadByte(i) \/ ReadEof(i)

Failure == AcceptFails \/ \E i \in Slots : ReadReset(i)

ChildStep(i) == server = "up" /\ (Take(i) \/ Served(i) \/ Report(i))

Environment ==
    /\ server = "up"
    /\ (\E i \in Slots : Die(i)) \/ (\E c \in Clients : Connect(c)) \/ Abort \/ Failure

Exited == server # "up" /\ UNCHANGED vars

Next ==
    \/ ParentStep
    \/ \E i \in Slots : ChildStep(i)
    \/ Environment
    \/ Exited

Spec == Init /\ [][Next]_vars

\* Processes are scheduled, and every client closes its connection some day.
FairSpec ==
    /\ Spec
    /\ WF_vars(ParentStep)
    /\ \A i \in Slots : WF_vars(ChildStep(i))

-----------------------------------------------------------------------------
TypeOK ==
    /\ ppc \in {"select", "accept", "scan"}
    /\ todo \subseteq Slots
    /\ busy \in [Slots -> BOOLEAN]
    /\ navail \in 0..NChildren
    /\ watched \subseteq Slots
    /\ child \in [Slots -> {"idle", "serve", "report", "dead"}]
    /\ passed \in [Slots -> Seq(Clients)]
    /\ ready \in [Slots -> Nat]
    /\ conn \in [Slots -> Clients \union {NoClient}]
    /\ backlog \in Seq(Clients)
    /\ server \in {"up", "sigpipe", "nochild", "error"}

\* The status the parent keeps says where the child is, although it learns of it
\* late: a live child counted as free has no client, none on its way and no byte
\* unread; one counted as busy has exactly one of the three, or is about to
\* report.  So a descriptor never waits behind another client (111-120), and a
\* byte always belongs to the client passed last (141-142).
StatusExact ==
    \A i \in Slots :
        child[i] # "dead" =>
            Len(passed[i]) + ready[i] + (IF child[i] = "idle" THEN 0 ELSE 1)
                = IF busy[i] THEN 1 ELSE 0

\* navail is the number of children with status 0, dead or alive: listenfd is
\* watched (98-99) exactly when the loop at 111 finds a child, and line 116 is
\* never reached.
AvailExact ==
    /\ navail = Cardinality(Free)
    /\ ppc = "accept" => Free # {}
    /\ server # "nochild"

\* What the parent believes of its children from a snapshot, the status of each and the
\* number of those available, agrees with what they are doing.
BeliefExact == StatusExact /\ AvailExact

\* The client of a living child, received or still in the socketpair.
Holds(i) ==
    IF child[i] = "dead" THEN NoClient
    ELSE IF passed[i] # <<>> THEN Head(passed[i]) ELSE conn[i]

\* The parent and its children are the pool of Dispatch.
Pool ==
    INSTANCE Dispatch WITH
        waiting <- backlog,
        holder <- [i \in Slots |-> Holds(i)],
        status <- server

\* Although the parent learns late what its children do, or that one has died, a
\* connection goes to one child that has no other, the oldest first (108-120).
ImplementsDispatch == Pool!Spec

\* A queued client is accepted, or resets, unless the parent has ended or every
\* child is dead: the deaths of some do not stop the service of the others.
ClientAccepted ==
    \A c \in Clients :
        (\E k \in DOMAIN backlog : backlog[k] = c)
            ~> \/ \A k \in DOMAIN backlog : backlog[k] # c
               \/ server # "up"
               \/ \A i \in Slots : child[i] = "dead"
=============================================================================
