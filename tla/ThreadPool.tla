------------------------------ MODULE ThreadPool ------------------------------
(***************************************************************************)
(* ch30_mode/mode_serv07_dyn.c: a prethreaded TCP server whose pool grows  *)
(* and shrinks between minthreads and maxthreads.                          *)
(*                                                                         *)
(* The main thread only grows the pool.  It sleeps on the condition        *)
(* variable ncond until every thread has a connection, then takes mlock,   *)
(* scans pThread[] for an entry whose tid is 0 and starts a thread on it.  *)
(* A pool thread takes mlock, waits in select() with the mutex held,       *)
(* accepts, releases mlock, and reports the connection in nconn, under     *)
(* nlock, before and after it serves the client.  After five idle seconds  *)
(* in select() it leaves the pool when there are more than minthreads.     *)
(*                                                                         *)
(* Two mutexes protect three variables, and not the way one would guess:   *)
(* nconn is only touched under nlock, tid[] is cleared and scanned under   *)
(* mlock but SET with no lock (line 116), nthreads is written under mlock  *)
(* and read under nlock (line 69).  Granularity: nlock is never held       *)
(* across a blocking call, so each of its critical sections is one action; *)
(* mlock is held inside select() and accept() and is a variable.  The scan *)
(* is one action per entry, because line 116 may write between two reads.  *)
(***************************************************************************)
EXTENDS Integers, Sequences, FiniteSets, SequencesExt

CONSTANTS
    Threads,     \* thread identities the system can hand out (they are reused)
    Clients,     \* client hosts, each with at most one connection at a time
    MinThreads,  \* argv[2]
    MaxThreads,  \* argv[3], the length of pThread[]
    Main,        \* the main thread, as owner of mlock
    Nobody,      \* a free mutex, and a tid of 0
    NoClient     \* no descriptor

ASSUME ThreadsAssumption ==
    /\ IsFiniteSet(Threads)
    /\ Main \notin Threads /\ Nobody \notin Threads /\ Main # Nobody
    /\ NoClient \notin Clients

ASSUME LimitsAssumption ==
    /\ MinThreads \in Nat /\ MaxThreads \in Nat
    /\ MinThreads <= MaxThreads

VARIABLES
    mpc,       \* where the main thread is
    i,         \* main's loop index into pThread[]
    nthreads,  \* size of the pool, as the program counts it
    nconn,     \* threads with a connection, as the program counts them
    mlock,     \* owner of mlock
    tid,       \* pThread[].tid
    pc,        \* where each pool thread is
    slot,      \* the entry of pThread[] a thread was started on (its "ptr")
    conn,      \* the client a thread is connected to (its "fd")
    backlog,   \* connections the kernel has completed and nobody has accepted
    running    \* the process exists

vars == <<mpc, i, nthreads, nconn, mlock, tid, pc, slot, conn, backlog, running>>
pool == <<tid, pc, slot, conn>>
kernel == <<backlog, running>>

Slots == 0..(MaxThreads - 1)

Live == {t \in Threads : pc[t] # "none"}
Connected == {t \in Threads : pc[t] \in {"serve", "leave"}}
Queued == {backlog[k] : k \in DOMAIN backlog}
Held == {conn[t] : t \in Threads}

Init ==
    /\ mpc = "start" /\ i = 0
    /\ nthreads = MinThreads /\ nconn = 0
    /\ mlock = Nobody
    /\ tid = [s \in Slots |-> Nobody]
    /\ pc = [t \in Threads |-> "none"]
    /\ slot = [t \in Threads |-> 0]
    /\ conn = [t \in Threads |-> NoClient]
    /\ backlog = <<>>
    /\ running = TRUE

-----------------------------------------------------------------------------
(* The main thread.                                                        *)

\* pthread_create(&mode_doit, &pThread[s]): the new thread has yet to run.
Create(t, s) ==
    /\ pc[t] = "none"
    /\ pc' = [pc EXCEPT ![t] = "new"]
    /\ slot' = [slot EXCEPT ![t] = s]

\* The first minthreads threads, one per entry; nthreads is already minthreads.
StartThread(t) ==
    /\ mpc = "start" /\ i < MinThreads
    /\ Create(t, i)
    /\ i' = i + 1
    /\ UNCHANGED <<mpc, nthreads, nconn, mlock, tid, conn, kernel>>

StartDone ==
    /\ mpc = "start" /\ i = MinThreads
    /\ mpc' = "test"
    /\ UNCHANGED <<i, nthreads, nconn, mlock, pool, kernel>>

\* The while loop around Pthread_cond_wait: sleep unless all threads are busy.
TestAllBusy ==
    /\ mpc = "test"
    /\ mpc' = IF nconn = nthreads THEN "grow" ELSE "asleep"
    /\ UNCHANGED <<i, nthreads, nconn, mlock, pool, kernel>>

\* POSIX lets pthread_cond_wait return without a signal.
SpuriousWakeup ==
    /\ mpc = "asleep"
    /\ mpc' = "test"
    /\ UNCHANGED <<i, nthreads, nconn, mlock, pool, kernel>>

\* Lock mlock; at maxthreads unlock it and start over.
PoolFull ==
    /\ mpc = "grow" /\ mlock = Nobody /\ nthreads >= MaxThreads
    /\ mpc' = "test"
    /\ UNCHANGED <<i, nthreads, nconn, mlock, pool, kernel>>

\* Lock mlock and begin the scan.
BeginScan ==
    /\ mpc = "grow" /\ mlock = Nobody /\ nthreads < MaxThreads
    /\ mlock' = Main
    /\ mpc' = "scan" /\ i' = 0
    /\ UNCHANGED <<nthreads, nconn, pool, kernel>>

ScanUsed ==
    /\ mpc = "scan" /\ i < MaxThreads /\ tid[i] # Nobody
    /\ i' = i + 1
    /\ UNCHANGED <<mpc, nthreads, nconn, mlock, pool, kernel>>

ScanFree(t) ==
    /\ mpc = "scan" /\ i < MaxThreads /\ tid[i] = Nobody
    /\ Create(t, i)
    /\ mpc' = "count"
    /\ UNCHANGED <<i, nthreads, nconn, mlock, tid, conn, kernel>>

\* nthreads++ after the thread exists, then unlock.
CountThread ==
    /\ mpc = "count"
    /\ nthreads' = nthreads + 1
    /\ mlock' = Nobody
    /\ mpc' = "test"
    /\ UNCHANGED <<i, nconn, pool, kernel>>

\* No entry with tid 0: err_quit("can't allocate threads resource").
ScanFailed ==
    /\ mpc = "scan" /\ i = MaxThreads
    /\ mpc' = "quit"
    /\ running' = FALSE
    /\ UNCHANGED <<i, nthreads, nconn, mlock, pool, backlog>>

-----------------------------------------------------------------------------
(* A pool thread, mode_doit().                                             *)

Goto(t, from, to) ==
    /\ pc[t] = from
    /\ pc' = [pc EXCEPT ![t] = to]

\* Mutant of Signal: an if in place of the while around Pthread_cond_wait.
SignalNoRetest == mpc' = IF mpc = "asleep" THEN "grow" ELSE mpc

\* Pthread_cond_signal(&ncond): only the main thread ever waits.
Signal == mpc' = IF mpc = "asleep" THEN "test" ELSE mpc

\* Detach, then publish the thread's identity in its entry: no lock is held.
Begin(t) ==
    /\ Goto(t, "new", "lock")
    /\ tid' = [tid EXCEPT ![slot[t]] = t]
    /\ UNCHANGED <<mpc, i, nthreads, nconn, mlock, slot, conn, kernel>>

LockAccept(t) ==
    /\ Goto(t, "lock", "select")
    /\ mlock = Nobody
    /\ mlock' = t
    /\ UNCHANGED <<mpc, i, nthreads, nconn, tid, slot, conn, kernel>>

\* select() reports a connection on listenfd.
SelectReady(t) ==
    /\ Goto(t, "select", "accept")
    /\ backlog # <<>>
    /\ UNCHANGED <<mpc, i, nthreads, nconn, mlock, tid, slot, conn, kernel>>

\* Mutant of TimeoutExit: the thread exits without unlocking.
TimeoutExitKeepsLock(t) ==
    /\ Goto(t, "select", "none")
    /\ backlog = <<>>
    /\ nthreads > MinThreads
    /\ tid' = [tid EXCEPT ![slot[t]] = Nobody]
    /\ nthreads' = nthreads - 1
    /\ UNCHANGED <<mpc, i, nconn, mlock, slot, conn, kernel>>

\* Five seconds without a connection, and the pool is above its minimum:
\* clear the entry, leave the count, unlock, pthread_exit.
TimeoutExit(t) ==
    /\ Goto(t, "select", "none")
    /\ backlog = <<>>
    /\ nthreads > MinThreads
    /\ tid' = [tid EXCEPT ![slot[t]] = Nobody]
    /\ nthreads' = nthreads - 1
    /\ mlock' = Nobody
    /\ UNCHANGED <<mpc, i, nconn, slot, conn, kernel>>

\* Mutant of TimeoutStay: goes round without unlocking.
TimeoutStayKeepsLock(t) ==
    /\ Goto(t, "select", "lock")
    /\ backlog = <<>>
    /\ nthreads <= MinThreads
    /\ UNCHANGED <<mpc, i, nthreads, nconn, mlock, tid, slot, conn, kernel>>

\* Five seconds without a connection, at the minimum: unlock and go round.
TimeoutStay(t) ==
    /\ Goto(t, "select", "lock")
    /\ backlog = <<>>
    /\ nthreads <= MinThreads
    /\ mlock' = Nobody
    /\ UNCHANGED <<mpc, i, nthreads, nconn, tid, slot, conn, kernel>>

\* accept() blocks, mlock held, while the queue is empty.
Accept(t) ==
    /\ Goto(t, "accept", "enter")
    /\ backlog # <<>>
    /\ conn' = [conn EXCEPT ![t] = Head(backlog)]
    /\ backlog' = Tail(backlog)
    /\ mlock' = Nobody
    /\ UNCHANGED <<mpc, i, nthreads, nconn, tid, slot, running>>

\* Mutant of Enter: ncond is not signalled.
EnterSilent(t) ==
    /\ Goto(t, "enter", "serve")
    /\ nconn' = nconn + 1
    /\ UNCHANGED <<mpc, i, nthreads, mlock, tid, slot, conn, kernel>>

\* nlock section: one more connection, wake the main thread.
Enter(t) ==
    /\ Goto(t, "enter", "serve")
    /\ nconn' = nconn + 1
    /\ Signal
    /\ UNCHANGED <<i, nthreads, mlock, tid, slot, conn, kernel>>

\* mode_reply() returns when the client closes its side; Close(fd).
Served(t) ==
    /\ Goto(t, "serve", "leave")
    /\ conn' = [conn EXCEPT ![t] = NoClient]
    /\ UNCHANGED <<mpc, i, nthreads, nconn, mlock, tid, slot, kernel>>

\* nlock section: one connection less, wake the main thread.
Leave(t) ==
    /\ Goto(t, "leave", "lock")
    /\ nconn' = nconn - 1
    /\ Signal
    /\ UNCHANGED <<i, nthreads, mlock, tid, slot, conn, kernel>>

\* mode_reply() ends the process, for every client: err_quit on a request out
\* of range, err_sys when the peer is gone or a write fails.
ReplyExits(t) ==
    /\ pc[t] = "serve"
    /\ running' = FALSE
    /\ UNCHANGED <<mpc, i, nthreads, nconn, mlock, pool, backlog>>

\* accept() returns -1 (ECONNABORTED and the like): err_sys.
AcceptFails(t) ==
    /\ pc[t] = "accept"
    /\ running' = FALSE
    /\ UNCHANGED <<mpc, i, nthreads, nconn, mlock, pool, backlog>>

-----------------------------------------------------------------------------
(* Clients and kernel.                                                     *)

\* The handshake completes: c's connection joins the listen queue.
Connect(c) ==
    /\ c \notin Queued \union Held
    /\ backlog' = Append(backlog, c)
    /\ UNCHANGED <<mpc, i, nthreads, nconn, mlock, pool, running>>

\* A client resets its connection before accept(): BSD kernels drop it.
Abort ==
    /\ \E k \in DOMAIN backlog : backlog' = RemoveAt(backlog, k)
    /\ UNCHANGED <<mpc, i, nthreads, nconn, mlock, pool, running>>

-----------------------------------------------------------------------------
MainStep ==
    /\ running
    /\ \/ \E t \in Threads : StartThread(t)
       \/ StartDone
       \/ TestAllBusy
       \/ PoolFull
       \/ BeginScan
       \/ ScanUsed
       \/ \E t \in Threads : ScanFree(t)
       \/ CountThread
       \/ ScanFailed

ThreadStep(t) ==
    /\ running
    /\ \/ Begin(t)
       \/ LockAccept(t)
       \/ SelectReady(t)
       \/ TimeoutExit(t)
       \/ TimeoutStay(t)
       \/ Accept(t)
       \/ Enter(t)
       \/ Leave(t)

ClientStep(t) == running /\ Served(t)

Environment ==
    /\ running
    /\ \/ SpuriousWakeup
       \/ \E t \in Threads : ReplyExits(t) \/ AcceptFails(t)
       \/ \E c \in Clients : Connect(c)
       \/ Abort

\* The process has ended.
Exited == ~running /\ UNCHANGED vars

Next ==
    \/ MainStep
    \/ \E t \in Threads : ThreadStep(t) \/ ClientStep(t)
    \/ Environment
    \/ Exited

Spec == Init /\ [][Next]_vars

\* Threads are scheduled, select()'s five seconds pass, and every client closes
\* its connection some day.  Nothing makes a client connect, abort or misbehave.
Fairness ==
    /\ WF_vars(MainStep)
    /\ \A t \in Threads : WF_vars(ThreadStep(t)) /\ WF_vars(ClientStep(t))

FairSpec == Spec /\ Fairness

-----------------------------------------------------------------------------
TypeOK ==
    /\ mpc \in {"start", "test", "asleep", "grow", "scan", "count", "quit"}
    /\ i \in Nat
    /\ nthreads \in Nat
    /\ nconn \in Nat
    /\ mlock \in Threads \union {Main, Nobody}
    /\ tid \in [Slots -> Threads \union {Nobody}]
    /\ pc \in [Threads -> {"none", "new", "lock", "select", "accept",
                           "enter", "serve", "leave"}]
    /\ slot \in [Threads -> Nat]
    /\ conn \in [Threads -> Clients \union {NoClient}]
    /\ backlog \in Seq(Clients)
    /\ running \in BOOLEAN

\* No two threads work on one entry of pThread[], and from line 116 until its
\* exit a thread finds its own identity there: the scan (84-90) never hands out
\* an entry whose thread has been created but has not yet stored its tid.
SlotExclusive ==
    /\ \A t, u \in Live : slot[t] = slot[u] => t = u
    /\ \A t \in Live : /\ slot[t] \in Slots
                       /\ pc[t] # "new" => tid[slot[t]] = t

\* The counters say what is: nconn the connected threads, nthreads the threads
\* that exist, except while main starts the first ones (57-65) and between
\* pthread_create and nthreads++ (87-92); the pool stays within its limits.
PoolAccounting ==
    /\ nconn = Cardinality(Connected)
    /\ mpc \notin {"start", "count"} => nthreads = Cardinality(Live)
    /\ MinThreads <= nthreads /\ nthreads <= MaxThreads

\* "can't allocate threads resource" (94) never ends the server: nthreads below
\* maxthreads always comes with an entry whose tid is 0.
ScanSucceeds == mpc # "quit"

\* pThread[] serves each thread with an entry of its own: one is found, and it is no
\* other's, although tid is stored (116) without the lock under which it is read; and
\* the counters on which main decides to grow are right, although nthreads is read
\* under one lock and written under the other.
PoolSound == SlotExclusive /\ ScanSucceeds /\ PoolAccounting

\* Once the first threads are started, a thread is only created when every
\* earlier one has stored its tid: what keeps line 116 and the scan apart,
\* although no lock does.
OneNewcomer ==
    [][\A t \in Threads :
         mpc # "start" /\ pc[t] = "none" /\ pc'[t] = "new"
             => \A u \in Threads : pc[u] # "new"]_vars

\* A client in the listen queue is accepted, or resets, or the process ends:
\* holding mlock inside select() and accept() starves nobody.
ClientAccepted ==
    \A c \in Clients : c \in Queued ~> c \notin Queued \/ ~running

\* When clients stop coming the pool returns to minthreads and stays there, unless
\* a thread is stuck in accept(): a client that resets between select() (128) and
\* accept() (152) leaves it there, mlock held, until another client connects.
Quiet ==
    /\ running /\ backlog = <<>> /\ Held = {NoClient}
    /\ \A t \in Threads : pc[t] # "accept"

PoolShrinks ==
    <>[]Quiet
        => <>[](nthreads = MinThreads)

\* The two signals (164, 174) make sure that main does not sleep when all threads have a
\* connection and it should grow the pool, but in one case: a thread that leaves (142)
\* makes the others all, and signals nobody.
Missed == mpc = "asleep" /\ nconn = nthreads

MissedOnlyByLeaving ==
    [][~Missed /\ Missed' => \E t \in Threads : pc[t] = "select" /\ pc'[t] = "none"]_vars
=============================================================================
