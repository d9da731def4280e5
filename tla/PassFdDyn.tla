------------------------------ MODULE PassFdDyn ------------------------------
(***************************************************************************)
(* ch30_mode/mode_serv05_dyn.c: descriptor passing as in mode_serv05, with *)
(* a pool of children that grows when none is free and shrinks, down to    *)
(* minchildren, whenever pselect() times out.                              *)
(*                                                                         *)
(* The socketpairs are datagram sockets: a child that dies is not seen by  *)
(* the parent, which keeps the status it had.  cptr[] has maxchildren      *)
(* slots; child[i] = "none" is child_pid = 0.                              *)
(***************************************************************************)
EXTENDS Integers, Sequences, FiniteSets

CONSTANTS
    MinChildren,
    MaxChildren,
    Clients,     \* client hosts, each with at most one connection at a time
    NoClient     \* no descriptor

ASSUME LimitsAssumption ==
    /\ MinChildren \in Nat \ {0} /\ MaxChildren \in Nat
    /\ MinChildren <= MaxChildren
ASSUME ClientsAssumption == NoClient \notin Clients

VARIABLES
    ppc,         \* the parent: "top", "select", "shrink", "accept" or "scan"
    listening,   \* listenfd is in rset
    todo,        \* children whose pipe pselect() reported and that are not yet read
    at,          \* where the shrinking loop is
    busy,        \* cptr[].child_status = 1
    navail,
    nchildren,
    skipped,     \* how often the loop at 163 has ended without decrementing nchildren
    child,       \* each slot: "none", "idle", "serve", "report" or "dead"
    passed,      \* descriptors in the socketpair, parent to child
    ready,       \* bytes in the socketpair, child to parent
    conn,        \* the client a child serves
    backlog,     \* completed connections nobody has accepted
    server       \* "up", or what ended the parent

vars == <<ppc, listening, todo, at, busy, navail, nchildren, skipped,
          child, passed, ready, conn, backlog, server>>
loop == <<ppc, listening, todo, at>>
counts == <<busy, navail, nchildren, skipped>>
children == <<child, passed, ready, conn>>

Slots == 0..(MaxChildren - 1)

Init ==
    /\ ppc = "top" /\ listening = TRUE /\ todo = {} /\ at = 0
    /\ busy = [i \in Slots |-> FALSE]
    /\ navail = MinChildren /\ nchildren = MinChildren /\ skipped = 0
    /\ child = [i \in Slots |-> IF i < MinChildren THEN "idle" ELSE "none"]
    /\ passed = [i \in Slots |-> <<>>]
    /\ ready = [i \in Slots |-> 0]
    /\ conn = [i \in Slots |-> NoClient]
    /\ backlog = <<>>
    /\ server = "up"

Used == {i \in Slots : child[i] # "none"}
Free == {i \in Used : ~busy[i]}
First(i, S) == i \in S /\ \A j \in S : i <= j

End(why) == server' = why /\ UNCHANGED <<loop, counts, children, backlog>>

-----------------------------------------------------------------------------
(* The parent: growing.                                                    *)

Watch(l) ==
    /\ ppc' = "select" /\ listening' = l
    /\ UNCHANGED <<todo, at>>

Enough ==
    /\ ppc = "top" /\ navail > 0
    /\ Watch(TRUE)
    /\ UNCHANGED <<counts, children, backlog, server>>

Full ==
    /\ ppc = "top" /\ navail <= 0 /\ nchildren = MaxChildren
    /\ Watch(FALSE)
    /\ UNCHANGED <<counts, children, backlog, server>>

\* Mutant of Grow: the new child is not counted in nchildren.
GrowUncounted ==
    /\ ppc = "top" /\ navail <= 0 /\ nchildren # MaxChildren
    /\ \E i \in Slots :
        /\ First(i, Slots \ Used)
        /\ child' = [child EXCEPT ![i] = "idle"]
        /\ busy' = [busy EXCEPT ![i] = FALSE]
    /\ navail' = navail + 1
    /\ Watch(TRUE)
    /\ UNCHANGED <<nchildren, skipped, passed, ready, conn, backlog, server>>

\* mode_child_make() in the first empty slot.
Grow ==
    /\ ppc = "top" /\ navail <= 0 /\ nchildren # MaxChildren
    /\ \E i \in Slots :
        /\ First(i, Slots \ Used)
        /\ child' = [child EXCEPT ![i] = "idle"]
        /\ busy' = [busy EXCEPT ![i] = FALSE]
    /\ navail' = navail + 1 /\ nchildren' = nchildren + 1
    /\ Watch(TRUE)
    /\ UNCHANGED <<skipped, passed, ready, conn, backlog, server>>

\* err_sys("can't allocate process resource").
NoSlot ==
    /\ ppc = "top" /\ navail <= 0 /\ nchildren # MaxChildren
    /\ Used = Slots
    /\ End("noslot")

-----------------------------------------------------------------------------
(* The parent: pselect() and shrinking.                                    *)

Readable == {i \in Used : ready[i] > 0}
Pending == listening /\ backlog # <<>>

Select ==
    /\ ppc = "select"
    /\ \/ Pending /\ ppc' = "accept"
       \/ ~Pending /\ Readable # {} /\ ppc' = "scan"
    /\ todo' = Readable
    /\ UNCHANGED <<listening, at, counts, children, backlog, server>>

\* Five seconds with nothing to read.
Timeout ==
    /\ ppc = "select" /\ ~Pending /\ Readable = {}
    /\ ppc' = IF nchildren > MinChildren /\ navail > 0 THEN "shrink" ELSE "top"
    /\ at' = 0 /\ todo' = {}
    /\ UNCHANGED <<listening, counts, children, backlog, server>>

\* The shrinking loop looks at the status alone.
Ahead == {i \in Slots : i >= at /\ ~busy[i]}

\* The child is terminated and its slot emptied.  "--navail == 0" leaves the
\* loop before nchildren is decremented.
ShrinkKill(i) ==
    /\ ppc = "shrink" /\ First(i, Ahead) /\ child[i] # "none"
    /\ child' = [child EXCEPT ![i] = "none"]
    /\ passed' = [passed EXCEPT ![i] = <<>>]
    /\ ready' = [ready EXCEPT ![i] = 0]
    /\ conn' = [conn EXCEPT ![i] = NoClient]
    /\ navail' = navail - 1
    /\ nchildren' = IF navail' = 0 THEN nchildren ELSE nchildren - 1
    /\ ppc' = IF navail' = 0 \/ nchildren' = MinChildren THEN "top" ELSE "shrink"
    /\ at' = i + 1
    /\ skipped' = IF navail' = 0 THEN skipped + 1 ELSE skipped
    /\ UNCHANGED <<listening, todo, busy, backlog, server>>

\* An empty slot has status 0 too: kill(0, SIGTERM) signals the process group of
\* the server, which its children have left, and sig_term() ends it.
ShrinkSelf(i) ==
    /\ ppc = "shrink" /\ First(i, Ahead) /\ child[i] = "none"
    /\ End("killed")

ShrinkDone ==
    /\ ppc = "shrink" /\ Ahead = {}
    /\ ppc' = "top"
    /\ UNCHANGED <<listening, todo, at, counts, children, backlog, server>>

-----------------------------------------------------------------------------
(* The parent: accepting, and reading what children report.                *)

\* Back to the top when nothing of the snapshot is left ("--nsel == 0").
Rest(left) ==
    /\ todo' = left
    /\ ppc' = IF left = {} THEN "top" ELSE "scan"
    /\ UNCHANGED <<listening, at>>

\* Mutant of Chosen: the first child, whatever its status.
ChosenFirst(i) == First(i, Used)

Chosen(i) == First(i, Free)

\* Accept, which blocks, and pass the descriptor to the first free child.
Accept ==
    /\ ppc = "accept" /\ backlog # <<>>
    /\ \E i \in Slots :
        /\ Chosen(i) /\ child[i] # "dead"
        /\ busy' = [busy EXCEPT ![i] = TRUE]
        /\ passed' = [passed EXCEPT ![i] = Append(@, Head(backlog))]
    /\ navail' = navail - 1
    /\ backlog' = Tail(backlog)
    /\ Rest(todo)
    /\ UNCHANGED <<nchildren, skipped, child, ready, conn, server>>

\* sendmsg() to a child that has died fails, and err_sys() ends the server.
AcceptForDead ==
    /\ ppc = "accept" /\ backlog # <<>>
    /\ \E i \in Slots : Chosen(i) /\ child[i] = "dead"
    /\ End("refused")

\* err_quit("no available children").
NoneAvailable ==
    /\ ppc = "accept" /\ backlog # <<>> /\ Free = {}
    /\ End("nochild")

\* Accept() ends the server on any error but an aborted connection, Fork() on any.
CallFails ==
    /\ ppc = "accept" \/ (ppc = "top" /\ navail <= 0)
    /\ End("error")

\* Mutant of ReadByte: the child is free again and not counted.
ReadByteUncounted(i) ==
    /\ ppc = "scan" /\ First(i, todo)
    /\ ready' = [ready EXCEPT ![i] = @ - 1]
    /\ busy' = [busy EXCEPT ![i] = FALSE]
    /\ Rest(todo \ {i})
    /\ UNCHANGED <<navail, nchildren, skipped, child, passed, conn, backlog, server>>

\* A byte: the child is free again, as far as the parent knows.
ReadByte(i) ==
    /\ ppc = "scan" /\ First(i, todo)
    /\ ready' = [ready EXCEPT ![i] = @ - 1]
    /\ busy' = [busy EXCEPT ![i] = FALSE]
    /\ navail' = navail + 1
    /\ Rest(todo \ {i})
    /\ UNCHANGED <<nchildren, skipped, child, passed, conn, backlog, server>>

-----------------------------------------------------------------------------
(* A child, mode_child_make().                                             *)

Take(i) ==
    /\ child[i] = "idle" /\ passed[i] # <<>>
    /\ child' = [child EXCEPT ![i] = "serve"]
    /\ conn' = [conn EXCEPT ![i] = Head(passed[i])]
    /\ passed' = [passed EXCEPT ![i] = Tail(@)]
    /\ UNCHANGED <<loop, counts, ready, backlog, server>>

\* mode_reply() returns when the client closes its side; Close(connfd).
Served(i) ==
    /\ child[i] = "serve"
    /\ child' = [child EXCEPT ![i] = "report"]
    /\ conn' = [conn EXCEPT ![i] = NoClient]
    /\ UNCHANGED <<loop, counts, passed, ready, backlog, server>>

Report(i) ==
    /\ child[i] = "report"
    /\ child' = [child EXCEPT ![i] = "idle"]
    /\ ready' = [ready EXCEPT ![i] = @ + 1]
    /\ UNCHANGED <<loop, counts, passed, conn, backlog, server>>

\* mode_reply() ends the process on a request out of range or a failed write, and
\* any child may be killed; sig_chld() only reaps it.
Die(i) ==
    /\ child[i] \notin {"none", "dead"}
    /\ child' = [child EXCEPT ![i] = "dead"]
    /\ conn' = [conn EXCEPT ![i] = NoClient]
    /\ UNCHANGED <<loop, counts, passed, ready, backlog, server>>

-----------------------------------------------------------------------------
(* Clients and kernel.                                                     *)

\* Clients in the hands of a living child, and on their way to it.
With(i) ==
    IF child[i] \in {"none", "dead"} THEN {}
    ELSE {conn[i]} \union {passed[i][k] : k \in DOMAIN passed[i]}

Connect(c) ==
    /\ \A k \in DOMAIN backlog : backlog[k] # c
    /\ \A i \in Slots : c \notin With(i)
    /\ backlog' = Append(backlog, c)
    /\ UNCHANGED <<loop, counts, children, server>>

\* The client at the head resets its connection before accept().
Abort ==
    /\ backlog # <<>>
    /\ backlog' = Tail(backlog)
    /\ UNCHANGED <<loop, counts, children, server>>

-----------------------------------------------------------------------------
ParentStep ==
    /\ server = "up"
    /\ \/ Enough \/ Full \/ Grow \/ NoSlot
       \/ Select \/ Timeout \/ ShrinkDone
       \/ Accept \/ AcceptForDead \/ NoneAvailable
       \/ \E i \in Slots : ShrinkKill(i) \/ ShrinkSelf(i) \/ ReadByte(i)

ChildStep(i) == server = "up" /\ (Take(i) \/ Served(i) \/ Report(i))

Environment ==
    /\ server = "up"
    /\ (\E i \in Slots : Die(i)) \/ (\E c \in Clients : Connect(c)) \/ Abort \/ CallFails

Exited == server # "up" /\ UNCHANGED vars

Next ==
    \/ ParentStep
    \/ \E i \in Slots : ChildStep(i)
    \/ Environment
    \/ Exited

Spec == Init /\ [][Next]_vars

\* Processes are scheduled, and every client closes its connection some day.
FairSpec ==
    /\ Spec
    /\ WF_vars(ParentStep)
    /\ \A i \in Slots : WF_vars(ChildStep(i))

-----------------------------------------------------------------------------
TypeOK ==
    /\ ppc \in {"top", "select", "shrink", "accept", "scan"}
    /\ listening \in BOOLEAN
    /\ todo \subseteq Slots
    /\ at \in 0..MaxChildren
    /\ busy \in [Slots -> BOOLEAN]
    /\ navail \in 0..MaxChildren
    /\ nchildren \in MinChildren..MaxChildren
    /\ skipped \in 0..MaxChildren
    /\ child \in [Slots -> {"none", "idle", "serve", "report", "dead"}]
    /\ passed \in [Slots -> Seq(Clients)]
    /\ ready \in [Slots -> Nat]
    /\ conn \in [Slots -> Clients \union {NoClient}]
    /\ backlog \in Seq(Clients)
    /\ server \in {"up", "noslot", "killed", "refused", "nochild", "error"}

\* A live child with status 0 is idle with nothing on its way either way, so
\* SIGTERM at 165 never breaks off a client, also after its slot was emptied and
\* used again; one with status 1 has one descriptor, client or byte.
StatusExact ==
    \A i \in Slots :
        child[i] # "dead" =>
            Len(passed[i]) + ready[i] + (IF child[i] \in {"none", "idle"} THEN 0 ELSE 1)
                = IF busy[i] THEN 1 ELSE 0

\* navail counts the children with status 0 through every growth, shrinkage and
\* death; listenfd is in rset only when there is one, so line 193 is unreachable.
AvailExact ==
    /\ navail = Cardinality(Free)
    /\ ppc = "accept" => Free # {}
    /\ server # "nochild"

\* nchildren is not the number of children: it is one too high for every time that
\* line 174 left the loop at "--navail == 0".  Nothing else makes it drift, and never
\* downwards, so that below maxchildren there is an empty slot and line 143 is
\* unreachable.
CountDrift ==
    /\ nchildren = Cardinality(Used) + skipped
    /\ server # "noslot"

\* What the parent believes of its children: the status of each and the number of those
\* available agree with what they are doing, although it hears neither of their deaths
\* nor, before it looks, of their being free again; and the number of all is wrong by what
\* line 174 has skipped and no more.
BeliefExact == StatusExact /\ AvailExact /\ CountDrift

\* The client of a living child, received or still in the socketpair.
Holds(i) ==
    IF child[i] \in {"none", "dead"} THEN NoClient
    ELSE IF passed[i] # <<>> THEN Head(passed[i]) ELSE conn[i]

\* The parent and its children are the pool of Dispatch.
Pool ==
    INSTANCE Dispatch WITH
        waiting <- backlog,
        holder <- [i \in Slots |-> Holds(i)],
        status <- server

\* A connection goes to one child that has no other, the oldest first (185-204), also
\* when slots are emptied and used again.
ImplementsDispatch == Pool!Spec

\* A queued client is accepted, or resets, unless the parent has ended or, with
\* nchildren at its maximum, no child is left alive to take it: the growing at
\* 134-149 and the statuses never leave a living child and a client apart.
ClientAccepted ==
    \A c \in Clients :
        (\E k \in DOMAIN backlog : backlog[k] = c)
            ~> \/ \A k \in DOMAIN backlog : backlog[k] # c
               \/ server # "up"
               \/ nchildren = MaxChildren /\ \A i \in Used : child[i] = "dead"
=============================================================================
