------------------------------- MODULE SigioEcho -------------------------------
(***************************************************************************)
(* ch25_sigio/sigio_dg_echo.c: a UDP echo server driven by SIGIO.  The     *)
(* signal handler reads every datagram the socket holds into the ring      *)
(* dg[QSIZE]; the main loop sends each back from the slot it was read      *)
(* into.  SIGIO is blocked while the main loop tests and decrements        *)
(* nqueue; it is not blocked while Sendto reads a slot and iget moves.     *)
(*                                                                         *)
(* Signals do not queue: one is pending or none.  While the handler runs   *)
(* the main loop does not; datagrams keep arriving.  Each system call of   *)
(* the main loop, with the assignments up to the next, is one action, and  *)
(* so is each turn of the handler's loop.  The socket is bound before it   *)
(* can raise SIGIO, and raises SIGIO before it is made non-blocking.       *)
(***************************************************************************)
EXTENDS Integers, Sequences

CONSTANTS
    Datagrams,   \* each one distinct, and in the system at most once at a time
    QSize,       \* QSIZE, the slots of dg[]
    SockMax,     \* datagrams the socket receive buffer holds; the rest are dropped
    NoDatagram   \* a slot whose contents and lengths are not a datagram's

ASSUME SizeAssumption == QSize \in Nat \ {0} /\ SockMax \in Nat
ASSUME DatagramAssumption == NoDatagram \notin Datagrams

VARIABLES
    sockbuf,   \* the socket receive buffer
    sigio,     \* "none" generated yet, "pending", or all "delivered"
    handling,  \* sig_io is running
    dg,        \* dg[]
    iget, iput, nqueue,
    pc,        \* where the main loop is
    echoed,    \* the datagram sent last
    status     \* "up", or what ended the process

sigio_vars == <<sockbuf, sigio, handling, dg, iget, iput, nqueue, pc, echoed, status>>
ring == <<dg, iget, iput, nqueue>>

Slots == 0..(QSize - 1)

SigioInit ==
    /\ sockbuf = <<>>
    /\ sigio = "none"
    /\ handling = FALSE
    /\ dg = [s \in Slots |-> NoDatagram]
    /\ iget = 0 /\ iput = 0 /\ nqueue = 0
    /\ pc = "start"
    /\ echoed = NoDatagram
    /\ status = "up"

\* "if (++x >= QSIZE) x = 0".
Advance(x) == IF x + 1 >= QSize THEN 0 ELSE x + 1

-----------------------------------------------------------------------------
(* From Bind to the main loop.  The handlers are set up with the first of  *)
(* these steps.                                                            *)

StartUp(from, to) ==
    /\ pc = from /\ pc' = to
    /\ UNCHANGED <<sockbuf, sigio, handling, ring, echoed, status>>

SetAsync == StartUp("start", "async")             \* FIOASYNC: arrivals raise SIGIO
SetNonblock == StartUp("async", "unblocked")      \* FIONBIO: recvfrom does not block
BlockSigio == StartUp("unblocked", "test")

-----------------------------------------------------------------------------
(* The main loop.  It runs while the handler does not.                     *)

\* SIGIO blocked: sigsuspend, which unblocks it, or unblock it and go on.
Test ==
    /\ pc = "test"
    /\ pc' = IF nqueue = 0 THEN "suspend" ELSE "send"
    /\ UNCHANGED <<sockbuf, sigio, handling, ring, echoed, status>>

Send ==
    /\ pc = "send"
    /\ echoed' = dg[iget]
    /\ pc' = "advance"
    /\ UNCHANGED <<sockbuf, sigio, handling, ring, status>>

AdvanceGet ==
    /\ pc = "advance"
    /\ iget' = Advance(iget)
    /\ pc' = "block"
    /\ UNCHANGED <<sockbuf, sigio, handling, dg, iput, nqueue, echoed, status>>

\* Block SIGIO, then nqueue--.
Unqueue ==
    /\ pc = "block"
    /\ nqueue' = nqueue - 1
    /\ pc' = "test"
    /\ UNCHANGED <<sockbuf, sigio, handling, dg, iget, iput, echoed, status>>

-----------------------------------------------------------------------------
(* SIGIO and its handler.                                                  *)

Blocked == pc = "test"

Deliver ==
    /\ sigio = "pending" /\ ~handling /\ ~Blocked
    /\ sigio' = "delivered"
    /\ handling' = TRUE
    /\ UNCHANGED <<sockbuf, ring, pc, echoed, status>>

\* Mutant of Full: one slot too many.
FullPlusOne == nqueue > QSize

Full == nqueue >= QSize

\* err_quit("receive overflow"): before recvfrom, so with nothing to read as well.
Overflow ==
    /\ handling /\ Full
    /\ status' = "overflow"
    /\ UNCHANGED <<sockbuf, sigio, handling, ring, pc, echoed>>

\* The handler returns; sigsuspend, when that is where main was, returns too.
Return ==
    /\ handling' = FALSE
    /\ pc' = IF pc = "suspend" THEN "test" ELSE pc

\* Mutants of Receive: iput stays; the handler returns after one datagram.
ReceiveInPlace ==
    /\ handling /\ ~Full /\ sockbuf # <<>>
    /\ dg' = [dg EXCEPT ![iput] = Head(sockbuf)]
    /\ sockbuf' = Tail(sockbuf)
    /\ nqueue' = nqueue + 1
    /\ UNCHANGED <<sigio, handling, iget, iput, pc, echoed, status>>

ReceiveOne ==
    /\ handling /\ ~Full /\ sockbuf # <<>>
    /\ dg' = [dg EXCEPT ![iput] = Head(sockbuf)]
    /\ sockbuf' = Tail(sockbuf)
    /\ iput' = Advance(iput)
    /\ nqueue' = nqueue + 1
    /\ Return
    /\ UNCHANGED <<sigio, iget, echoed, status>>

Receive ==
    /\ handling /\ ~Full /\ sockbuf # <<>>
    /\ dg' = [dg EXCEPT ![iput] = Head(sockbuf)]
    /\ sockbuf' = Tail(sockbuf)
    /\ iput' = Advance(iput)
    /\ nqueue' = nqueue + 1
    /\ UNCHANGED <<sigio, handling, iget, pc, echoed, status>>

\* EWOULDBLOCK: the slot's address length has been reset all the same.  A handler that
\* runs before FIONBIO waits in recvfrom, and with it the program, for what comes next.
Drained ==
    /\ handling /\ ~Full /\ sockbuf = <<>> /\ pc # "async"
    /\ dg' = [dg EXCEPT ![iput] = NoDatagram]
    /\ Return
    /\ UNCHANGED <<sockbuf, sigio, iget, iput, nqueue, echoed, status>>

-----------------------------------------------------------------------------
(* The kernel and other processes.                                         *)

\* Datagrams read into the ring and not yet sent, oldest first.
Unsent == IF pc \in {"advance", "block"} THEN nqueue - 1 ELSE nqueue
First == IF pc = "advance" THEN Advance(iget) ELSE iget
Index(k) == IF First + k - 1 < QSize THEN First + k - 1 ELSE First + k - 1 - QSize
Waiting == [k \in 1..Unsent |-> dg[Index(k)]]

InSystem(d) ==
    \/ \E k \in 1..Len(sockbuf) : sockbuf[k] = d
    \/ \E k \in 1..Unsent : Waiting[k] = d

Arrive(d) ==
    /\ ~InSystem(d)
    /\ Len(sockbuf) < SockMax
    /\ sockbuf' = Append(sockbuf, d)
    /\ sigio' = IF pc = "start" THEN sigio ELSE "pending"
    /\ UNCHANGED <<handling, ring, pc, echoed, status>>

\* SIGHUP prints the histogram; sigsuspend returns with nothing queued.  A SIGIO
\* pending at that moment is delivered as well, before sigsuspend returns.
Hangup ==
    /\ pc = "suspend" /\ ~handling /\ sigio # "pending"
    /\ pc' = "test"
    /\ UNCHANGED <<sockbuf, sigio, handling, ring, echoed, status>>

\* recvfrom(), Sendto() or one of the calls at the start reports an error: err_sys.  The
\* socket does not block, so a full send buffer is one.
CallFails ==
    /\ handling \/ pc \in {"start", "async", "unblocked", "send"}
    /\ status' = "error"
    /\ UNCHANGED <<sockbuf, sigio, handling, ring, pc, echoed>>

-----------------------------------------------------------------------------
MainStep ==
    /\ status = "up" /\ ~handling
    /\ SetAsync \/ SetNonblock \/ BlockSigio \/ Test \/ Send \/ AdvanceGet \/ Unqueue

HandlerStep ==
    /\ status = "up"
    /\ Deliver \/ Overflow \/ Receive \/ Drained

Environment ==
    /\ status = "up"
    /\ (\E d \in Datagrams : Arrive(d)) \/ Hangup \/ CallFails

Exited == status # "up" /\ UNCHANGED sigio_vars

SigioNext == MainStep \/ HandlerStep \/ Environment \/ Exited

SigioSpec == SigioInit /\ [][SigioNext]_sigio_vars

\* The process is scheduled and pending signals are delivered.
SigioFairSpec == SigioSpec /\ WF_sigio_vars(MainStep) /\ WF_sigio_vars(HandlerStep)

-----------------------------------------------------------------------------
SigioTypeOK ==
    /\ sockbuf \in Seq(Datagrams) /\ Len(sockbuf) <= SockMax
    /\ sigio \in {"none", "pending", "delivered"}
    /\ handling \in BOOLEAN
    /\ dg \in [Slots -> Datagrams \union {NoDatagram}]
    /\ iget \in Slots /\ iput \in Slots
    /\ nqueue \in 0..QSize
    /\ pc \in {"start", "async", "unblocked", "test", "suspend", "send", "advance", "block"}
    /\ echoed \in Datagrams \union {NoDatagram}
    /\ status \in {"up", "overflow", "error"}

\* The handler never touches the slot Sendto reads (64-65), although it may run
\* between any two instructions there and writes dg[iput] even when there is
\* nothing to receive (87).
SendSlotStable == [][pc = "send" => dg'[iget] = dg[iget]]_sigio_vars

\* The ring is the queue of EchoQueue: what the handler reads is echoed once, in
\* order, and line 84 ends the server only with every slot counted in nqueue.
Echo ==
    INSTANCE EchoQueue WITH
        Capacity <- QSize,
        queue <- Waiting

ImplementsEcho == Echo!Spec

\* No SIGIO is lost: a datagram in the socket buffer is echoed, or the process ends.  One
\* signal may stand for many datagrams, and one may come while the handler is about to
\* return (91-93) or before main sleeps (59-60).  But what has come before FIOASYNC (47)
\* is not announced, and stays until a later datagram is; and the handler of one that
\* comes between FIOASYNC and FIONBIO (49) may wait in recvfrom (88) for ever.
EveryDatagramEchoed ==
    \A d \in Datagrams :
        []((\E k \in 1..Len(sockbuf) : sockbuf[k] = d) =>
              \/ <>(echoed = d \/ status # "up")
              \/ [](sigio = "none")
              \/ <>[](handling /\ pc = "async" /\ sockbuf = <<>>))
=============================================================================
