----------------------------- MODULE IcmpDaemon -----------------------------
(***************************************************************************)
(* The ICMP daemon of ch28_icmpd (rawsockux_serv) and its clients.  A      *)
(* client connects over a Unix domain socket and passes its UDP socket;    *)
(* the daemon enters the descriptor and the port in cli_fd_port[] and      *)
(* tells the client of each ICMP error for that port.  Main enters, a      *)
(* thread reads ICMP and tells, and a SIGIO handler, in either of the two, *)
(* notes in idx the entry of a client that has closed.  A client stands    *)
(* for its descriptor, its port and its process (si_pid, from which the    *)
(* handler has the port); clients are numbered as they connect.            *)
(***************************************************************************)
EXTENDS Integers

CONSTANTS
    NClients,     \* clients that may connect
    MaxClient,    \* MAXCLIENT
    Lines         \* datagrams a client sends, each of which an ICMP error may answer

ASSUME BoundsAssumption == NClients \in Nat /\ MaxClient \in Nat \ {0} /\ Lines \in Nat

VARIABLES
    pc, clifd,          \* main, and the client it is accepting
    mutex,              \* main holds it; the thread does so within one step
    unixfd, sport,      \* cli_fd_port[]
    cursize, idx,
    at,                 \* the idx with which unixfd was stored
    connected, accepted,   \* how many clients have connected, and were accepted
    async,              \* clients whose events raise SIGIO
    passed, closed,     \* clients that have sent their descriptor, that have exited
    todo, errors,       \* datagrams a client still sends; ICMP errors on their way for it
    unread,             \* clients with a report they have not read
    pending,            \* the SIGIO that is pending: there is only one
    inMain, inThread,   \* the client for whose SIGIO the handler runs there
    found,              \* the entry that the handler in the thread is about to remember
    misled,             \* a client was told of an error for the port of another
    raced,              \* the handler in the thread interleaved with main: StoreFd, StorePort
    ended

mainVars == <<pc, clifd, at, mutex>>
table == <<unixfd, sport, cursize, raced>>
clientVars == <<connected, accepted, passed, closed, todo>>
signalVars == <<pending, inMain, inThread, found>>
reports == <<errors, unread, misled>>
vars == <<mainVars, table, idx, clientVars, async, signalVars, reports, ended>>

Slots == 0..(MaxClient - 1)
Clients == 1..NClients
NoClient == 0
NoEntry == -1

\* The entry at which a search from entry 0 for one of S ends.
First(i, S) == i \in S /\ \A j \in S : i <= j

Init ==
    /\ pc = "accept" /\ clifd = NoClient /\ at = 0 /\ mutex = FALSE
    /\ unixfd = [i \in Slots |-> NoClient] /\ sport = [i \in Slots |-> NoClient]
    /\ cursize = 0 /\ idx = -1 /\ raced = FALSE
    /\ connected = 0 /\ accepted = 0 /\ passed = {} /\ closed = {}
    /\ todo = [c \in Clients |-> Lines]
    /\ async = {}
    /\ pending = NoClient /\ inMain = NoClient /\ inThread = NoClient /\ found = NoEntry
    /\ errors = [c \in Clients |-> 0] /\ unread = {} /\ misled = FALSE
    /\ ended = "no"

Running == ended = "no"

End(how) ==
    /\ ended' = how
    /\ UNCHANGED <<mainVars, table, idx, clientVars, async, signalVars, reports>>

-----------------------------------------------------------------------------
(* The clients.                                                            *)

\* SIGIO for an event of client c.  While one is pending the next is lost.
Raise(c) == pending' = IF c \in async /\ pending = NoClient THEN c ELSE pending

clientUnchanged == <<mainVars, table, idx, async, inMain, inThread, found, misled, ended>>

\* raw_cli_conn().
Connects(c) ==
    /\ Running /\ c = connected + 1
    /\ connected' = c
    /\ UNCHANGED <<clientUnchanged, accepted, passed, closed, todo, pending, errors, unread>>

\* raw_send_fd().
Passes(c) ==
    /\ Running /\ c <= connected /\ c \notin passed \union closed
    /\ passed' = passed \union {c}
    /\ Raise(c)
    /\ UNCHANGED <<clientUnchanged, connected, accepted, closed, todo, errors, unread>>

\* Sendto(), to a port where nobody is: an ICMP error will come.
Sends(c) ==
    /\ Running /\ c \in passed /\ todo[c] > 0
    /\ todo' = [todo EXCEPT ![c] = @ - 1]
    /\ errors' = [errors EXCEPT ![c] = @ + 1]
    /\ UNCHANGED <<clientUnchanged, connected, accepted, passed, closed, pending, unread>>

\* Read() of what the daemon has written, which makes room at the daemon's end: SIGIO.
Reads(c) ==
    /\ Running /\ c \in unread
    /\ unread' = unread \ {c}
    /\ Raise(c)
    /\ UNCHANGED <<clientUnchanged, clientVars, errors>>

\* End of the input, a failure or a signal.
Exits(c) ==
    /\ Running /\ c <= connected /\ c \notin closed
    /\ closed' = closed \union {c}
    /\ todo' = [todo EXCEPT ![c] = 0]
    /\ unread' = unread \ {c}
    /\ Raise(c)
    /\ UNCHANGED <<clientUnchanged, connected, accepted, passed, errors>>

-----------------------------------------------------------------------------
(* sig_io().                                                               *)

Masked == pc \in {"lock", "test", "fd", "port", "reset", "unlock"}

handlerUnchanged == <<mainVars, table, clientVars, async, reports, ended>>

\* SIGIO is blocked in main while it changes the table, but not in the thread.
DeliverToMain ==
    /\ Running /\ pending # NoClient /\ inMain = NoClient /\ ~Masked
    /\ inMain' = pending /\ pending' = NoClient
    /\ UNCHANGED <<handlerUnchanged, idx, inThread, found>>

DeliverToThread ==
    /\ Running /\ pending # NoClient /\ inThread = NoClient
    /\ inThread' = pending /\ pending' = NoClient
    /\ UNCHANGED <<handlerUnchanged, idx, inMain, found>>

\* Mutant of Ended: any event of a client counts as its end.
EndedOrNot(p) == {i \in Slots : sport[i] = p}

\* Entries with port p whose read() gives an end of file.
Ended(p) == {i \in Slots : sport[i] = p /\ unixfd[i] \in closed}

HandlerInMain ==
    /\ Running /\ inMain # NoClient
    /\ IF Ended(inMain) = {} THEN UNCHANGED idx
       ELSE \E i \in Slots : First(i, Ended(inMain)) /\ idx' = i
    /\ inMain' = NoClient
    /\ UNCHANGED <<handlerUnchanged, pending, inThread, found>>

\* Main goes on between the read() of the handler in the thread and its idx = i.
ThreadFinds ==
    /\ Running /\ inThread # NoClient /\ found = NoEntry
    /\ \E i \in Slots : First(i, Ended(inThread)) /\ found' = i
    /\ UNCHANGED <<handlerUnchanged, idx, pending, inMain, inThread>>

ThreadFindsNothing ==
    /\ Running /\ inThread # NoClient /\ found = NoEntry /\ Ended(inThread) = {}
    /\ inThread' = NoClient
    /\ UNCHANGED <<handlerUnchanged, idx, pending, inMain, found>>

ThreadNotes ==
    /\ Running /\ found # NoEntry
    /\ idx' = found
    /\ inThread' = NoClient /\ found' = NoEntry
    /\ UNCHANGED <<handlerUnchanged, pending, inMain>>

HandlerInThread == ThreadFinds \/ ThreadFindsNothing \/ ThreadNotes

-----------------------------------------------------------------------------
(* raw_icmpd().                                                            *)

Of(p) == {i \in 0..cursize : sport[i] = p}

reporting == <<mainVars, table, idx, clientVars, async, signalVars>>

\* Mutant of ThreadReports: the mutex is not asked for.
ThreadReportsUnlocked(p) ==
    /\ Running /\ inThread = NoClient /\ errors[p] > 0
    /\ errors' = [errors EXCEPT ![p] = @ - 1]
    /\ IF Of(p) = {} THEN UNCHANGED <<unread, misled, ended>>
       ELSE \E i \in Slots :
              /\ First(i, Of(p))
              /\ IF unixfd[i] \in closed THEN ended' = "SIGPIPE" /\ UNCHANGED <<unread, misled>>
                 ELSE /\ misled' = (misled \/ unixfd[i] # p)
                      /\ unread' = unread \union {unixfd[i]}
                      /\ UNCHANGED ended
    /\ UNCHANGED reporting

\* An ICMP error for the port of p: the first entry with it is told, by a write() that
\* never blocks.  If the client has closed the write raises SIGPIPE, which ends the daemon.
ThreadReports(p) ==
    /\ Running /\ inThread = NoClient /\ ~mutex /\ errors[p] > 0
    /\ errors' = [errors EXCEPT ![p] = @ - 1]
    /\ IF Of(p) = {} THEN UNCHANGED <<unread, misled, ended>>
       ELSE \E i \in Slots :
              /\ First(i, Of(p))
              /\ IF unixfd[i] \in closed THEN ended' = "SIGPIPE" /\ UNCHANGED <<unread, misled>>
                 ELSE /\ misled' = (misled \/ unixfd[i] # p)
                      /\ unread' = unread \union {unixfd[i]}
                      /\ UNCHANGED ended
    /\ UNCHANGED reporting

-----------------------------------------------------------------------------
(* main().                                                                 *)

\* Main's next step, if it is not in the handler.
At(label) == Running /\ pc = label /\ inMain = NoClient

mainUnchanged == <<connected, passed, closed, todo, signalVars, reports, ended>>

\* raw_serv_accept(), and the socket is made nonblocking.
Accept ==
    /\ At("accept") /\ accepted < connected
    /\ clifd' = accepted + 1 /\ accepted' = clifd'
    /\ pc' = "async"
    /\ UNCHANGED <<mainUnchanged, at, mutex, table, idx, async>>

\* F_SETOWN and FIOASYNC.
Async ==
    /\ At("async")
    /\ async' = async \union {clifd}
    /\ pc' = "recv"
    /\ UNCHANGED <<mainUnchanged, clifd, at, mutex, table, idx, accepted>>

\* raw_recv_fd(), which does not block: a client that has not yet sent its descriptor
\* makes recvmsg() fail, and one that has exited without doing so is an end of file.
RecvFd ==
    /\ At("recv")
    /\ \/ /\ clifd \in passed
          /\ pc' = "lock"
          /\ UNCHANGED <<mainUnchanged, clifd, at, mutex, table, idx, async, accepted>>
       \/ /\ clifd \notin passed
          /\ End(IF clifd \in closed THEN "connection closed by server" ELSE "recvmsg error")

\* SIGIO has been blocked; pthread_mutex_lock().
Lock ==
    /\ At("lock") /\ ~mutex
    /\ mutex' = TRUE
    /\ pc' = "test"
    /\ UNCHANGED <<mainUnchanged, clifd, at, table, idx, async, accepted>>

\* No entry is remembered: the first that was never used is filled.  The handler finds
\* nothing in an entry without a port.
Fill ==
    LET unused == {i \in Slots : sport[i] = NoClient}
    IN  /\ At("test") /\ idx < 0
        /\ IF unused = {} THEN End("too many connection")
           ELSE /\ \E i \in Slots :
                     /\ First(i, unused)
                     /\ unixfd' = [unixfd EXCEPT ![i] = clifd]
                     /\ sport' = [sport EXCEPT ![i] = clifd]
                     /\ cursize' = IF i > cursize THEN i ELSE cursize
                /\ pc' = "unlock"
                /\ UNCHANGED <<mainUnchanged, clifd, at, mutex, raced, idx, async, accepted>>

\* if (idx >= 0).
Remembered ==
    /\ At("test") /\ idx >= 0
    /\ pc' = "fd"
    /\ UNCHANGED <<mainUnchanged, clifd, at, mutex, table, idx, async, accepted>>

\* An entry that the handler in the thread is about to remember is remembered again.
StoreFd ==
    /\ At("fd")
    /\ unixfd' = [unixfd EXCEPT ![idx] = clifd]
    /\ raced' = (raced \/ idx = found)
    /\ at' = idx
    /\ pc' = "port"
    /\ UNCHANGED <<mainUnchanged, clifd, mutex, sport, cursize, idx, async, accepted>>

\* idx may have changed meanwhile, by the handler in the thread, and may be read again.
StorePort ==
    /\ At("port")
    /\ \E i \in {at, idx} :
        /\ sport' = [sport EXCEPT ![i] = clifd]
        /\ raced' = (raced \/ i # at)
    /\ pc' = "reset" /\ at' = 0
    /\ UNCHANGED <<mainUnchanged, clifd, mutex, unixfd, cursize, idx, async, accepted>>

Reset ==
    /\ At("reset")
    /\ idx' = -1
    /\ pc' = "unlock"
    /\ UNCHANGED <<mainUnchanged, clifd, at, mutex, table, async, accepted>>

\* Mutant of Unlock: pthread_mutex_unlock() is forgotten.
UnlockNot ==
    /\ At("unlock")
    /\ pc' = "accept" /\ clifd' = NoClient
    /\ UNCHANGED <<mainUnchanged, at, mutex, table, idx, async, accepted>>

\* pthread_mutex_unlock(), and the mask is as before.
Unlock ==
    /\ At("unlock")
    /\ mutex' = FALSE
    /\ pc' = "accept" /\ clifd' = NoClient
    /\ UNCHANGED <<mainUnchanged, at, table, idx, async, accepted>>

-----------------------------------------------------------------------------
Client(c) == Connects(c) \/ Passes(c) \/ Sends(c) \/ Reads(c) \/ Exits(c)

Handler == DeliverToMain \/ DeliverToThread \/ HandlerInMain \/ HandlerInThread

Main == Accept \/ Async \/ RecvFd \/ Lock \/ Fill \/ Remembered \/ StoreFd \/ StorePort \/ Reset \/ Unlock

\* The daemon has ended, or has no client left.
Over == (~Running \/ closed = Clients) /\ UNCHANGED vars

Next ==
    \/ \E c \in Clients : Client(c) \/ ThreadReports(c)
    \/ Handler \/ Main \/ Over

Spec == Init /\ [][Next]_vars

\* Main runs, and handlers return.  Nobody has to connect, send or exit, and no ICMP error
\* to come.
FairSpec == Spec /\ WF_vars(Main) /\ WF_vars(HandlerInMain) /\ WF_vars(HandlerInThread)

-----------------------------------------------------------------------------
(* Properties.                                                             *)

TypeOK ==
    /\ pc \in {"accept", "async", "recv", "lock", "test", "fd", "port", "reset", "unlock"}
    /\ clifd \in Clients \union {NoClient}
    /\ unixfd \in [Slots -> Clients \union {NoClient}]
    /\ sport \in [Slots -> Clients \union {NoClient}]
    /\ cursize \in Slots /\ idx \in Slots \union {-1} /\ at \in Slots
    /\ connected \in 0..NClients /\ accepted \in 0..connected
    /\ async \subseteq Clients /\ passed \subseteq Clients /\ closed \subseteq Clients
    /\ todo \in [Clients -> 0..Lines] /\ errors \in [Clients -> 0..Lines]
    /\ unread \subseteq Clients /\ misled \in BOOLEAN
    /\ {pending, inMain, inThread} \subseteq Clients \union {NoClient}
    /\ raced \in BOOLEAN /\ found \in Slots \union {NoEntry} /\ mutex \in BOOLEAN
    /\ ended \in {"no", "SIGPIPE", "recvmsg error", "connection closed by server", "too many connection"}

\* Main has entered client c and gone on.
Entered(c) == c <= accepted /\ (c = clifd => pc = "unlock")

\* The entry that sig_io() remembers is that of a client that has closed, though its
\* SIGIO was perhaps for another event, is handled late, in either thread, or while main
\* fills an entry: main never overwrites the entry of a client that is there - unless the
\* handler in the thread has interleaved with main (106-108).
RememberedIsClosed ==
    ~raced /\ idx >= 0 /\ pc \notin {"port", "reset"} => unixfd[idx] \in closed

\* A client that is entered and has not closed has one entry, where raw_icmpd() looks, and
\* is told of errors for its own port and no other - unless the handler in the thread has
\* interleaved with main: port and descriptor may then belong to different clients.
ErrorsGoHome ==
    ~raced =>
        /\ ~misled
        /\ \A c \in Clients \ closed : Entered(c) =>
             \E i \in Of(c) : unixfd[i] = c /\ \A j \in Slots \ {i} : sport[j] # c

\* A client that connects is entered, whatever the others do and however often main is
\* interrupted, or the daemon ends.
ClientEntered == \A c \in Clients : c <= connected ~> Entered(c) \/ ~Running

=============================================================================
