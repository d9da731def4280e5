------------------------------ MODULE AcceptRing ------------------------------
(***************************************************************************)
(* ch30_mode/mode_serv08.c: the main thread accepts and puts connected     *)
(* descriptors into the ring clifd[MAXNCLI]; a fixed pool of threads takes *)
(* them out.  iput = iget means empty, so the ring holds MAXNCLI - 1       *)
(* descriptors; one more and the server stops itself with err_quit.        *)
(*                                                                         *)
(* mlock is held for a few assignments only, never across a blocking call  *)
(* except pthread_cond_wait, which releases it: each of its critical       *)
(* sections is one action.  A thread woken from the wait takes mlock again *)
(* and tests iget = iput again, so it is back in "lock".                   *)
(***************************************************************************)
EXTENDS Integers, Sequences, FiniteSets

CONSTANTS
    Threads,   \* the pool
    Clients,   \* client hosts, each with at most one connection at a time
    MaxNCli,   \* MAXNCLI, the length of clifd[]
    NoClient   \* no descriptor

ASSUME PoolAssumption == IsFiniteSet(Threads) /\ NoClient \notin Clients
ASSUME RingAssumption == MaxNCli \in Nat \ {0}

VARIABLES
    connfd,      \* main's local: accepted, not yet in the ring
    clifd,       \* the ring; entries outside iget..iput are stale
    iget, iput,
    pc,          \* "lock", "wait" (in pthread_cond_wait) or "serve"
    fd,          \* the thread's local descriptor
    server       \* "up", or what ended the process

serv08_vars == <<connfd, clifd, iget, iput, pc, fd, server>>

Serv08Init ==
    /\ connfd = NoClient
    /\ clifd = [k \in 0..(MaxNCli - 1) |-> NoClient]
    /\ iget = 0 /\ iput = 0
    /\ pc = [t \in Threads |-> "lock"]
    /\ fd = [t \in Threads |-> NoClient]
    /\ server = "up"

\* Mutant of Advance: the index runs past the array.
AdvanceNoWrap(x) == x + 1

\* "if (++x == MAXNCLI) x = 0".
Advance(x) == IF x + 1 = MaxNCli THEN 0 ELSE x + 1

\* The descriptors in the ring, oldest first.
Length == IF iget <= iput THEN iput - iget ELSE iput - iget + MaxNCli
Index(k) == IF iget + k - 1 < MaxNCli THEN iget + k - 1 ELSE iget + k - 1 - MaxNCli
Ring == [k \in 1..Length |-> clifd[Index(k)]]

Waiting == {t \in Threads : pc[t] = "wait"}
Getting == {t \in Threads : pc[t] = "lock"}

Unconnected(c) ==
    /\ connfd # c
    /\ \A k \in 1..Length : Ring[k] # c
    /\ \A t \in Threads : fd[t] # c

-----------------------------------------------------------------------------
(* The main thread.                                                        *)

Accept(c) ==
    /\ connfd = NoClient
    /\ Unconnected(c)
    /\ connfd' = c
    /\ UNCHANGED <<clifd, iget, iput, pc, fd, server>>

AcceptFails ==
    /\ connfd = NoClient
    /\ server' = "error"
    /\ UNCHANGED <<connfd, clifd, iget, iput, pc, fd>>

\* pthread_cond_signal wakes one waiting thread, if there is one.
Signal ==
    \/ Waiting = {} /\ UNCHANGED pc
    \/ \E t \in Waiting : pc' = [pc EXCEPT ![t] = "lock"]

\* Store and advance, the part Put and Overflow share.
Store ==
    /\ connfd # NoClient
    /\ clifd' = [clifd EXCEPT ![iput] = connfd]
    /\ iput' = Advance(iput)
    /\ connfd' = NoClient

\* Mutants of Put: no overflow check; no signal; a signal only when the ring was
\* empty.
PutUnchecked ==
    /\ Store
    /\ Signal
    /\ UNCHANGED <<iget, fd, server>>

PutSilent ==
    /\ Store
    /\ Advance(iput) # iget
    /\ UNCHANGED <<iget, pc, fd, server>>

PutSignalWhenEmpty ==
    /\ Store
    /\ Advance(iput) # iget
    /\ IF iput = iget THEN Signal ELSE UNCHANGED pc
    /\ UNCHANGED <<iget, fd, server>>

Put ==
    /\ Store
    /\ Advance(iput) # iget
    /\ Signal
    /\ UNCHANGED <<iget, fd, server>>

\* err_quit("iput = iget = %d\n"), with mlock held.
Overflow ==
    /\ Store
    /\ Advance(iput) = iget
    /\ server' = "overflow"
    /\ UNCHANGED <<iget, pc, fd>>

-----------------------------------------------------------------------------
(* A pool thread, mode_doit().                                             *)

Wait(t) ==
    /\ pc[t] = "lock" /\ iget = iput
    /\ pc' = [pc EXCEPT ![t] = "wait"]
    /\ UNCHANGED <<connfd, clifd, iget, iput, fd, server>>

\* POSIX lets pthread_cond_wait return without a signal.
SpuriousWakeup(t) ==
    /\ pc[t] = "wait"
    /\ pc' = [pc EXCEPT ![t] = "lock"]
    /\ UNCHANGED <<connfd, clifd, iget, iput, fd, server>>

Get(t) ==
    /\ pc[t] = "lock" /\ iget # iput
    /\ fd' = [fd EXCEPT ![t] = clifd[iget]]
    /\ iget' = Advance(iget)
    /\ pc' = [pc EXCEPT ![t] = "serve"]
    /\ UNCHANGED <<connfd, clifd, iput, server>>

\* mode_reply() returns when the client closes its side; Close(fd).
Finish(t) ==
    /\ pc[t] = "serve"
    /\ fd' = [fd EXCEPT ![t] = NoClient]
    /\ pc' = [pc EXCEPT ![t] = "lock"]
    /\ UNCHANGED <<connfd, clifd, iget, iput, server>>

\* mode_reply() ends the process: err_quit on a request out of range, err_sys
\* when the peer is gone or a write fails.
ReplyExits(t) ==
    /\ pc[t] = "serve"
    /\ server' = "error"
    /\ UNCHANGED <<connfd, clifd, iget, iput, pc, fd>>

-----------------------------------------------------------------------------
MainStep == server = "up" /\ (Put \/ Overflow)
ThreadStep(t) == server = "up" /\ (Wait(t) \/ Get(t))
ClientStep(t) == server = "up" /\ Finish(t)

Serv08Environment ==
    /\ server = "up"
    /\ \/ \E c \in Clients : Accept(c)
       \/ AcceptFails
       \/ \E t \in Threads : SpuriousWakeup(t) \/ ReplyExits(t)

Exited == server # "up" /\ UNCHANGED serv08_vars

Serv08Next ==
    \/ MainStep
    \/ \E t \in Threads : ThreadStep(t) \/ ClientStep(t)
    \/ Serv08Environment
    \/ Exited

Serv08Spec == Serv08Init /\ [][Serv08Next]_serv08_vars

\* Threads are scheduled, and every client closes its connection some day.
Fairness ==
    /\ WF_serv08_vars(MainStep)
    /\ \A t \in Threads : WF_serv08_vars(ThreadStep(t)) /\ WF_serv08_vars(ClientStep(t))

Serv08FairSpec == Serv08Spec /\ Fairness

-----------------------------------------------------------------------------
Serv08TypeOK ==
    /\ connfd \in Clients \union {NoClient}
    /\ clifd \in [0..(MaxNCli - 1) -> Clients \union {NoClient}]
    /\ iget \in 0..(MaxNCli - 1)
    /\ iput \in 0..(MaxNCli - 1)
    /\ pc \in [Threads -> {"lock", "wait", "serve"}]
    /\ fd \in [Threads -> Clients \union {NoClient}]
    /\ server \in {"up", "overflow", "error"}

\* One signal per descriptor is enough (76): while a thread sleeps at 110, as many
\* threads are on their way to the ring as there are descriptors in it, whoever
\* gets there first.
NoIdleWhileQueued ==
    server = "up" /\ Waiting # {} => Length <= Cardinality(Getting)

\* The ring is the bounded queue of HandOff; the process takes what is in it along.
Queue ==
    INSTANCE HandOff WITH
        Capacity <- MaxNCli - 1,
        queue <- IF server = "up" THEN Ring ELSE <<>>,
        holder <- IF server = "up" THEN fd ELSE [t \in Threads |-> NoClient],
        status <- server

\* clifd[], iget and iput hand every accepted descriptor to exactly one thread, in
\* the order of accept(), and lines 74-75 stop the server only with MAXNCLI - 1
\* descriptors undelivered.
ImplementsHandOff == Queue!Spec

\* An accepted client gets a thread, or the process ends: no wakeup is lost and
\* no descriptor is stranded in the ring.
AcceptedIsServed == Queue!Served
=============================================================================
