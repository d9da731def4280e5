----------------------------- MODULE PreforkLock -----------------------------
(***************************************************************************)
(* The servers of ch30_mode with a fixed number of children that all       *)
(* accept: mode_serv02 (no lock), 03 (fcntl), 04 (semaphore), 04b (process *)
(* shared mutex) and 07 (threads and a mutex).  They differ in what guards *)
(* accept() and in what becomes of it when its holder ends: the kernel     *)
(* takes back an fcntl lock, nobody posts the semaphore or unlocks the     *)
(* mutex of a process that has died, and the exit of one thread is the end *)
(* of all.                                                                 *)
(***************************************************************************)
EXTENDS Naturals, Sequences, FiniteSets

CONSTANTS
    NChildren,   \* argv[2]
    Clients,     \* client hosts, each with at most one connection at a time
    NoClient

ASSUME ChildrenAssumption == NChildren \in Nat \ {0}
ASSUME ClientsAssumption == NoClient \notin Clients

Pool == 1..NChildren
Free == 0

VARIABLES
    guard,     \* the server: what guards accept()
    parent,    \* "fork", "pause", "wait" (in sig_int) or "exited"
    nforked,   \* children made so far
    place,     \* each child: "unborn", "lock", "accept", "unlock", "reply" or "dead"
    lock,      \* the child that holds the lock, or Free
    conn,      \* the client a child serves
    killed,    \* children with a SIGTERM to come
    backlog    \* completed connections nobody has accepted

lock_vars == <<guard, parent, nforked, place, lock, conn, killed, backlog>>

Guards == {"none", "fcntl", "sem", "mutex", "thread"}

LockInit ==
    /\ guard \in Guards
    /\ parent = "fork" /\ nforked = 0
    /\ place = [c \in Pool |-> "unborn"]
    /\ lock = Free
    /\ conn = [c \in Pool |-> NoClient]
    /\ killed = {}
    /\ backlog = <<>>

Living == {c \in Pool : place[c] \notin {"unborn", "dead"}}

\* The head of the children's for(;;).
Loop == IF guard = "none" THEN "accept" ELSE "lock"

-----------------------------------------------------------------------------
(* The parent.                                                             *)

\* Mutant of ForkChild: i <= nchildren.
ForkOneMore ==
    /\ parent = "fork" /\ nforked <= NChildren
    /\ nforked' = nforked + 1
    /\ place' = [place EXCEPT ![nforked + 1] = Loop]
    /\ UNCHANGED <<guard, parent, lock, conn, killed, backlog>>

ForkChild ==
    /\ parent = "fork" /\ nforked < NChildren
    /\ nforked' = nforked + 1
    /\ place' = [place EXCEPT ![nforked + 1] = Loop]
    /\ UNCHANGED <<guard, parent, lock, conn, killed, backlog>>

\* sig_int is the handler from here on.
Forked ==
    /\ parent = "fork" /\ nforked = NChildren
    /\ parent' = "pause"
    /\ UNCHANGED <<guard, nforked, place, lock, conn, killed, backlog>>

\* exit() in the parent, or in a thread, is the end of all threads.
AllExit ==
    /\ parent' = "exited"
    /\ place' = [c \in Pool |-> IF place[c] = "unborn" THEN "unborn" ELSE "dead"]
    /\ conn' = [c \in Pool |-> NoClient]
    /\ UNCHANGED <<guard, nforked, lock, killed, backlog>>

\* SIGINT before its handler is there, or a fork that fails: the children stay.
ParentEnds ==
    /\ parent = "fork"
    /\ IF guard = "thread" THEN AllExit
       ELSE /\ parent' = "exited"
            /\ UNCHANGED <<guard, nforked, place, lock, conn, killed, backlog>>

\* Mutant of SigInt: kills all but the last.
SigIntButLast ==
    /\ parent = "pause"
    /\ IF guard = "thread" THEN AllExit
       ELSE /\ parent' = "wait"
            /\ killed' = Pool \ {NChildren}
            /\ UNCHANGED <<guard, nforked, place, lock, conn, backlog>>

SigInt ==
    /\ parent = "pause"
    /\ IF guard = "thread" THEN AllExit
       ELSE /\ parent' = "wait"
            /\ killed' = Pool
            /\ UNCHANGED <<guard, nforked, place, lock, conn, backlog>>

\* wait(NULL) until there are no children.
Reaped ==
    /\ parent = "wait" /\ Living = {}
    /\ parent' = "exited"
    /\ UNCHANGED <<guard, nforked, place, lock, conn, killed, backlog>>

\* The SIGALRM that serv03 catches interrupts wait(), and that is an error.
WaitFails ==
    /\ guard = "fcntl" /\ parent = "wait" /\ Living # {}
    /\ parent' = "exited"
    /\ UNCHANGED <<guard, nforked, place, lock, conn, killed, backlog>>

-----------------------------------------------------------------------------
(* A child.                                                                *)

\* Mutant of Acquire: F_SETLK where the code has F_SETLKW, its result ignored.
AcquireNoWait(c) ==
    /\ place[c] = "lock"
    /\ lock = Free \/ guard = "fcntl"
    /\ lock' = IF lock = Free THEN c ELSE lock
    /\ place' = [place EXCEPT ![c] = "accept"]
    /\ UNCHANGED <<guard, parent, nforked, conn, killed, backlog>>

\* An fcntl lock may be taken again by its holder.
Acquire(c) ==
    /\ place[c] = "lock"
    /\ lock = Free \/ (guard = "fcntl" /\ lock = c)
    /\ lock' = c
    /\ place' = [place EXCEPT ![c] = "accept"]
    /\ UNCHANGED <<guard, parent, nforked, conn, killed, backlog>>

Accept(c) ==
    /\ place[c] = "accept" /\ backlog # <<>>
    /\ conn' = [conn EXCEPT ![c] = Head(backlog)]
    /\ backlog' = Tail(backlog)
    /\ place' = [place EXCEPT ![c] = IF guard = "none" THEN "reply" ELSE "unlock"]
    /\ UNCHANGED <<guard, parent, nforked, lock, killed>>

\* Mutant of Release: the lock is not given back when nobody is in the queue.
ReleaseIfWanted(c) ==
    /\ place[c] = "unlock"
    /\ lock' = IF backlog = <<>> THEN lock ELSE Free
    /\ place' = [place EXCEPT ![c] = "reply"]
    /\ UNCHANGED <<guard, parent, nforked, conn, killed, backlog>>

Release(c) ==
    /\ place[c] = "unlock"
    /\ lock' = Free
    /\ place' = [place EXCEPT ![c] = "reply"]
    /\ UNCHANGED <<guard, parent, nforked, conn, killed, backlog>>

\* The client is done and mode_reply() returns.
Served(c) ==
    /\ place[c] = "reply"
    /\ conn' = [conn EXCEPT ![c] = NoClient]
    /\ place' = [place EXCEPT ![c] = Loop]
    /\ UNCHANGED <<guard, parent, nforked, lock, killed, backlog>>

\* serv03 catches SIGALRM, with no SA_RESTART: accept() fails with EINTR and the
\* child takes the lock again that it never gave back.
AlarmInAccept(c) ==
    /\ guard = "fcntl" /\ place[c] = "accept" /\ backlog = <<>>
    /\ place' = [place EXCEPT ![c] = "lock"]
    /\ UNCHANGED <<guard, parent, nforked, lock, conn, killed, backlog>>

Exit(c) ==
    IF guard = "thread" THEN AllExit
    ELSE /\ place' = [place EXCEPT ![c] = "dead"]
         /\ lock' = IF guard = "fcntl" /\ lock = c THEN Free ELSE lock
         /\ conn' = [conn EXCEPT ![c] = NoClient]
         /\ UNCHANGED <<guard, parent, nforked, killed, backlog>>

\* mode_lock_wait() goes round on EAGAIN only: EINTR is the end of the child.
AlarmInWait(c) ==
    /\ guard = "fcntl" /\ place[c] = "lock" /\ lock \notin {Free, c}
    /\ Exit(c)

AcceptFails(c) == place[c] = "accept" /\ Exit(c)

\* mode_reply(): a request out of range, or a write to a connection that was reset.
ReplyExits(c) == place[c] = "reply" /\ Exit(c)

\* A signal from elsewhere than sig_int().
Kill(c) ==
    /\ c \in Living \ killed
    /\ killed' = killed \union {c}
    /\ UNCHANGED <<guard, parent, nforked, place, lock, conn, backlog>>

SigTerm(c) == c \in killed /\ c \in Living /\ Exit(c)

-----------------------------------------------------------------------------
(* The clients.                                                            *)

\* The listening socket is open while one process has it.
Connect(n) ==
    /\ parent # "exited" \/ Living # {}
    /\ \A k \in DOMAIN backlog : backlog[k] # n
    /\ \A c \in Pool : conn[c] # n
    /\ backlog' = Append(backlog, n)
    /\ UNCHANGED <<guard, parent, nforked, place, lock, conn, killed>>

Abort ==
    /\ backlog # <<>>
    /\ backlog' = Tail(backlog)
    /\ UNCHANGED <<guard, parent, nforked, place, lock, conn, killed>>

-----------------------------------------------------------------------------
ParentStep == ForkChild \/ Forked \/ Reaped

ChildStep(c) == Acquire(c) \/ Accept(c) \/ Release(c) \/ Served(c) \/ SigTerm(c)

Failure ==
    \/ ParentEnds \/ WaitFails
    \/ \E c \in Pool : AlarmInAccept(c) \/ AlarmInWait(c) \/ AcceptFails(c) \/ ReplyExits(c)

Environment ==
    \/ SigInt \/ Abort
    \/ \E c \in Pool : Kill(c)
    \/ \E n \in Clients : Connect(n)

Exited == parent = "exited" /\ Living = {} /\ UNCHANGED lock_vars

LockNext ==
    \/ ParentStep
    \/ \E c \in Pool : ChildStep(c)
    \/ Failure
    \/ Environment
    \/ Exited

LockSpec == LockInit /\ [][LockNext]_lock_vars

\* Processes are scheduled, signals sent arrive and clients close some day.
LockFairSpec ==
    /\ LockSpec
    /\ WF_lock_vars(ParentStep)
    /\ \A c \in Pool : WF_lock_vars(ChildStep(c)) /\ WF_lock_vars(SigTerm(c))

-----------------------------------------------------------------------------
LockTypeOK ==
    /\ guard \in Guards
    /\ parent \in {"fork", "pause", "wait", "exited"}
    /\ nforked \in 0..NChildren
    /\ place \in [Pool -> {"unborn", "lock", "accept", "unlock", "reply", "dead"}]
    /\ lock \in Pool \union {Free}
    /\ conn \in [Pool -> Clients \union {NoClient}]
    /\ killed \subseteq Pool
    /\ backlog \in Seq(Clients)

\* Under a lock at most one child is between taking it and giving it back
\* (serv03:96-103), although an interrupted accept() takes it twice.
OneAcceptor ==
    guard # "none" =>
        \A c, d \in Pool :
            place[c] \in {"accept", "unlock"} /\ place[d] \in {"accept", "unlock"} => c = d

\* The lock is held by a process that has died and will never be given back.
Lost == guard \in {"sem", "mutex"} /\ lock # Free /\ place[lock] = "dead"

\* A client in the queue is accepted while a child lives and the lock is not Lost:
\* deaths, interrupted calls and the end of the parent in its loop stop nobody else.
\* With fcntl (serv03) the lock is never lost.
ClientAccepted ==
    \A n \in Clients :
        (\E k \in DOMAIN backlog : backlog[k] = n) ~>
            \/ ~\E k \in DOMAIN backlog : backlog[k] = n
            \/ Lost
            \/ Living = {} /\ parent # "fork"

\* sig_int() ends every child, those in a wait for the lock too, and the parent.
Shutdown == parent = "wait" ~> parent = "exited" /\ Living = {}
=============================================================================
