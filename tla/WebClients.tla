----------------------------- MODULE WebClients -----------------------------
(***************************************************************************)
(* The three clients that fetch the files of a web page over parallel      *)
(* connections: "select" (ch16 web, nonblocking connect), "threads" (ch26  *)
(* web, a thread per file that main joins) and "fork" (ch16 web2, a        *)
(* process per file, the next one started by the SIGCHLD handler).  A      *)
(* reply is a number of reads before the end of file.                      *)
(***************************************************************************)
EXTENDS Integers, FiniteSets, FiniteSetsExt

CONSTANTS
    NFiles,    \* nfiles
    Reads      \* reads with data before the end of file

ASSUME FilesAssumption == NFiles \in Nat \ {0} /\ Reads \in Nat

VARIABLES
    kind,
    maxconn,     \* the first argument: atoi() makes 0 of what is no number, and it may be
                 \* more than the files there are
    pc,          \* main
    i,           \* main's index into file[]
    flags,       \* f_flags of file[]
    nconn, nlefttoconn, nlefttoread,
    rest,        \* reads with data to come for each file
    got,         \* "no", "read" to its end, or "failed"
    starts,      \* how often the fetch of a file was started
    ready,       \* select: the files whose descriptor select() has reported
    thread,      \* threads: where the thread of each file is
    ndone, locked,   \* threads: ndone, and main holds ndone_mutex
    kids,        \* fork: running children of each file
    ended

arguments == <<kind, maxconn>>
counters == <<nconn, nlefttoconn, nlefttoread>>
threadVars == <<thread, ndone, locked>>
vars == <<arguments, pc, i, flags, counters, rest, got, starts, ready, threadVars, kids, ended>>

Kinds == {"select", "threads", "fork"}
Files == 1..NFiles
\* file[] has room for more than the files named on the command line.
Slots == 1..(NFiles + 1)
Flags == {"0", "F_CONNECTING", "F_READING", "F_DONE", "F_JOINED"}

Init ==
    /\ kind \in Kinds /\ maxconn \in {0} \union Slots
    /\ pc = "home" /\ i = 1
    /\ flags = [f \in Slots |-> "0"]
    /\ nconn = 0 /\ nlefttoconn = NFiles /\ nlefttoread = NFiles
    /\ rest = [f \in Slots |-> Reads]
    /\ got = [f \in Slots |-> "no"]
    /\ starts = [f \in Slots |-> 0]
    /\ ready = {}
    /\ thread = [f \in Slots |-> "none"] /\ ndone = 0 /\ locked = FALSE
    /\ kids = [f \in Slots |-> 0]
    /\ ended = "no"

Running == ended = "no"

End(how) ==
    /\ Running
    /\ ended' = how
    /\ UNCHANGED <<arguments, pc, i, flags, counters, rest, got, starts, ready, threadVars, kids>>

\* home_page() reads the page itself over a blocking connection.
HomePage ==
    /\ pc = "home"
    /\ \/ End("error")
       \/ /\ Running
          /\ pc' = IF kind = "fork" THEN "fork" ELSE "fill"
          /\ UNCHANGED <<arguments, i, flags, counters, rest, got, starts, ready, threadVars, kids, ended>>

Unstarted == {f \in Files : flags[f] = "0"}

\* Mutant of CanConnect: one connection too many.
CanConnectOneMore == nconn <= maxconn /\ nlefttoconn > 0

CanConnect == nconn < maxconn /\ nlefttoconn > 0

\* A file to read is found, and counted as a connection.
Open(f, flag) ==
    /\ Running /\ pc = "fill" /\ nlefttoread > 0 /\ CanConnect
    /\ f = Min(Unstarted)
    /\ flags' = [flags EXCEPT ![f] = flag]
    /\ starts' = [starts EXCEPT ![f] = @ + 1]
    /\ nconn' = nconn + 1 /\ nlefttoconn' = nlefttoconn - 1
    /\ UNCHANGED <<arguments, pc, i, nlefttoread, rest, got, ready, ndone, locked, kids, ended>>

AllDone == pc = "fill" /\ nlefttoread <= 0 /\ End("normal")

-----------------------------------------------------------------------------
(* web: select() over nonblocking sockets.                                 *)

\* The connection is there at once, and the command written, or it is in progress.
StartConnect ==
    /\ kind = "select"
    /\ \E f \in Unstarted, flag \in {"F_CONNECTING", "F_READING"} : Open(f, flag)
    /\ UNCHANGED thread

ConnectError == kind = "select" /\ pc = "fill" /\ nlefttoread > 0 /\ CanConnect /\ End("error")

Select ==
    /\ Running /\ kind = "select" /\ pc = "fill" /\ nlefttoread > 0 /\ ~CanConnect
    /\ ready' \in SUBSET {f \in Files : flags[f] \in {"F_CONNECTING", "F_READING"}} \ {{}}
    /\ pc' = "scan"
    /\ UNCHANGED <<arguments, i, flags, counters, rest, got, starts, threadVars, kids, ended>>

\* On to the next file that select() has reported.
Scanned(f) ==
    /\ Running /\ kind = "select" /\ pc = "scan" /\ ready # {} /\ f = Min(ready)
    /\ ready' = ready \ {f}
    /\ pc' = IF ready' = {} THEN "fill" ELSE "scan"
    /\ UNCHANGED <<arguments, i, starts, threadVars, kids, ended>>

Connected(f) ==
    /\ flags[f] = "F_CONNECTING"
    /\ Scanned(f)
    /\ flags' = [flags EXCEPT ![f] = "F_READING"]        \* write_get_cmd()
    /\ UNCHANGED <<counters, rest, got>>

\* A connection that failed is reported, and the command then written to it all the same:
\* SIGPIPE.
ConnectFailed ==
    /\ kind = "select" /\ pc = "scan" /\ ready # {} /\ flags[Min(ready)] = "F_CONNECTING"
    /\ End("killed")

\* Mutant of SelectRead: every read counts as the end of the file.
SelectReadAny(f) ==
    /\ flags[f] = "F_READING"
    /\ Scanned(f)
    /\ flags' = [flags EXCEPT ![f] = "F_DONE"]
    /\ got' = IF rest[f] = 0 THEN [got EXCEPT ![f] = "read"] ELSE got
    /\ nconn' = nconn - 1 /\ nlefttoread' = nlefttoread - 1
    /\ UNCHANGED <<nlefttoconn, rest>>

SelectRead(f) ==
    /\ flags[f] = "F_READING"
    /\ Scanned(f)
    /\ IF rest[f] > 0
       THEN rest' = [rest EXCEPT ![f] = @ - 1] /\ UNCHANGED <<flags, got, counters>>
       ELSE /\ flags' = [flags EXCEPT ![f] = "F_DONE"]
            /\ got' = [got EXCEPT ![f] = "read"]
            /\ nconn' = nconn - 1 /\ nlefttoread' = nlefttoread - 1
            /\ UNCHANGED <<nlefttoconn, rest>>

-----------------------------------------------------------------------------
(* The web client of ch26: a thread for each file.                         *)

CreateThread ==
    /\ kind = "threads"
    /\ \E f \in Unstarted : Open(f, "F_CONNECTING") /\ thread' = [thread EXCEPT ![f] = "connect"]

\* Pthread_mutex_lock(&ndone_mutex).
MainLocks ==
    /\ Running /\ kind = "threads"
    /\ \/ pc = "fill" /\ nlefttoread > 0 /\ ~CanConnect
       \/ pc = "woken"
    /\ ~locked
    /\ locked' = TRUE /\ pc' = "check"
    /\ UNCHANGED <<arguments, i, flags, counters, rest, got, starts, ready, thread, ndone, kids, ended>>

\* Mutant of MainChecks: main waits without a look at ndone.
MainChecksNothing ==
    /\ Running /\ pc = "check"
    /\ pc' = "wait" /\ locked' = FALSE
    /\ UNCHANGED <<arguments, i, flags, counters, rest, got, starts, ready, thread, ndone, kids, ended>>

\* while (ndone == 0) Pthread_cond_wait().
MainChecks ==
    /\ Running /\ pc = "check"
    /\ IF ndone = 0 THEN pc' = "wait" /\ locked' = FALSE /\ UNCHANGED i
       ELSE pc' = "join" /\ i' = 1 /\ UNCHANGED locked
    /\ UNCHANGED <<arguments, flags, counters, rest, got, starts, ready, thread, ndone, kids, ended>>

NextIndex ==
    IF i < NFiles THEN i' = i + 1 /\ UNCHANGED <<pc, locked>>
    ELSE i' = 1 /\ pc' = "fill" /\ locked' = FALSE

MainSkips ==
    /\ Running /\ pc = "join" /\ flags[i] # "F_DONE"
    /\ NextIndex
    /\ UNCHANGED <<arguments, flags, counters, rest, got, starts, ready, thread, ndone, kids, ended>>

\* Pthread_join() returns when the thread has: main keeps ndone_mutex until then.
MainJoins ==
    /\ Running /\ pc = "join" /\ flags[i] = "F_DONE" /\ thread[i] = "exited"
    /\ flags' = [flags EXCEPT ![i] = "F_JOINED"]
    /\ ndone' = ndone - 1 /\ nconn' = nconn - 1 /\ nlefttoread' = nlefttoread - 1
    /\ NextIndex
    /\ UNCHANGED <<arguments, nlefttoconn, rest, got, starts, ready, thread, kids, ended>>

threadUnchanged == <<arguments, i, counters, starts, ready, locked, kids, ended>>

\* host_connect(), and the command is written.
ThreadConnects(f) ==
    /\ thread[f] = "connect"
    /\ \/ End("error")
       \/ /\ Running
          /\ thread' = [thread EXCEPT ![f] = "read"]
          /\ flags' = [flags EXCEPT ![f] = "F_READING"]
          /\ UNCHANGED <<threadUnchanged, pc, rest, got, ndone>>

\* At the end of file the thread says so in f_iFlags, without the mutex.
ThreadReads(f) ==
    /\ Running /\ thread[f] = "read"
    /\ IF rest[f] > 0
       THEN rest' = [rest EXCEPT ![f] = @ - 1] /\ UNCHANGED <<flags, got, thread>>
       ELSE /\ flags' = [flags EXCEPT ![f] = "F_DONE"]
            /\ got' = [got EXCEPT ![f] = "read"]
            /\ thread' = [thread EXCEPT ![f] = "lock"]
            /\ UNCHANGED rest
    /\ UNCHANGED <<threadUnchanged, pc, ndone>>

\* Under the mutex, which nobody asks for twice: ndone++, pthread_cond_signal().
ThreadCounts(f) ==
    /\ Running /\ thread[f] = "lock" /\ ~locked
    /\ ndone' = ndone + 1
    /\ pc' = IF pc = "wait" THEN "woken" ELSE pc
    /\ thread' = [thread EXCEPT ![f] = "exited"]
    /\ UNCHANGED <<threadUnchanged, flags, rest, got>>

-----------------------------------------------------------------------------
(* web2: a process for each file.                                          *)

forkUnchanged == <<arguments, nconn, nlefttoconn, rest, ready, threadVars>>

Fork(f) == kids' = [kids EXCEPT ![f] = @ + 1] /\ starts' = [starts EXCEPT ![f] = @ + 1]

\* maxnconn children are started one after another, whatever file[i].f_flags says.
MainForks ==
    /\ Running /\ pc = "fork" /\ i <= maxconn
    /\ Fork(i)
    /\ pc' = "mark"
    /\ UNCHANGED <<forkUnchanged, i, flags, nlefttoread, got, ended>>

MainMarks ==
    /\ Running /\ pc = "mark"
    /\ flags' = [flags EXCEPT ![i] = "F_DONE"]
    /\ i' = i + 1 /\ pc' = "fork"
    /\ UNCHANGED <<forkUnchanged, nlefttoread, got, starts, kids, ended>>

\* while (nlefttoread > 0).
MainTests ==
    /\ \/ pc = "fork" /\ i > maxconn
       \/ pc = "test"
    /\ \/ nlefttoread <= 0 /\ End("normal")
       \/ /\ Running /\ nlefttoread > 0
          /\ pc' = "tested"
          /\ UNCHANGED <<forkUnchanged, i, flags, nlefttoread, got, starts, kids, ended>>

MainPauses ==
    /\ Running /\ pc = "tested"
    /\ pc' = "pause"
    /\ UNCHANGED <<forkUnchanged, i, flags, nlefttoread, got, starts, kids, ended>>

\* Mutant of ChildExits: the handler starts no other child.
ChildExitsNoNext(f) ==
    /\ Running /\ kind = "fork" /\ kids[f] > 0
    /\ got' = [got EXCEPT ![f] = "read"]
    /\ nlefttoread' = nlefttoread - 1
    /\ pc' = IF pc = "pause" THEN "test" ELSE pc
    /\ kids' = [kids EXCEPT ![f] = @ - 1]
    /\ UNCHANGED <<forkUnchanged, i, flags, starts, ended>>

\* A child ends with the file read, or with an error, and sig_chld() reaps it and starts
\* the next one.  The handler interrupts main anywhere.  pause() returns after it; a
\* handler that runs before pause() does not keep main from it.
ChildExits(f) ==
    /\ Running /\ kind = "fork" /\ kids[f] > 0
    /\ \E how \in {"read", "failed"} : got' = [got EXCEPT ![f] = IF @ = "read" THEN @ ELSE how]
    /\ nlefttoread' = nlefttoread - 1
    /\ pc' = IF pc = "pause" THEN "test" ELSE pc
    /\ IF Unstarted = {}
       THEN kids' = [kids EXCEPT ![f] = @ - 1] /\ UNCHANGED <<flags, starts>>
       ELSE \E next \in Unstarted :
            /\ next = Min(Unstarted)
            /\ kids' = [[kids EXCEPT ![f] = @ - 1] EXCEPT ![next] = @ + 1]
            /\ starts' = [starts EXCEPT ![next] = @ + 1]
            /\ flags' = [flags EXCEPT ![next] = "F_DONE"]
    /\ UNCHANGED <<forkUnchanged, i, ended>>

-----------------------------------------------------------------------------
Main ==
    \/ HomePage \/ AllDone
    \/ StartConnect \/ ConnectError \/ Select \/ ConnectFailed
    \/ \E f \in Files : Connected(f) \/ SelectRead(f)
    \/ CreateThread \/ MainLocks \/ MainChecks \/ MainSkips \/ MainJoins
    \/ MainForks \/ MainMarks \/ MainTests \/ MainPauses

Thread(f) == ThreadConnects(f) \/ ThreadReads(f) \/ ThreadCounts(f)

Finished == ~Running /\ UNCHANGED vars

Next ==
    \/ Main
    \/ \E f \in Files : Thread(f)
    \/ \E f \in Slots : ChildExits(f)
    \/ Finished

Spec == Init /\ [][Next]_vars

\* Main and the threads run, and the server answers on every connection.
FairSpec ==
    /\ Spec
    /\ WF_vars(Main)
    /\ \A f \in Files : WF_vars(Thread(f)) /\ SF_vars(SelectRead(f)) /\ SF_vars(Connected(f))
    /\ \A f \in Slots : WF_vars(ChildExits(f))

-----------------------------------------------------------------------------
(* Properties.                                                             *)

TypeOK ==
    /\ kind \in Kinds /\ maxconn \in {0} \union Slots
    /\ pc \in {"home", "fill", "scan", "check", "wait", "woken", "join", "fork", "mark", "test",
              "tested", "pause"}
    /\ i \in 1..(NFiles + 2)
    /\ flags \in [Slots -> Flags]
    /\ nconn \in 0..maxconn /\ nlefttoconn \in 0..NFiles /\ nlefttoread \in Int
    /\ rest \in [Slots -> 0..Reads]
    /\ got \in [Slots -> {"no", "read", "failed"}]
    /\ starts \in [Slots -> 0..2]
    /\ ready \subseteq Files
    /\ thread \in [Slots -> {"none", "connect", "read", "lock", "exited"}]
    /\ ndone \in 0..NFiles /\ locked \in BOOLEAN
    /\ kids \in [Slots -> 0..2]
    /\ ended \in {"no", "normal", "error", "killed"}

\* Main and the SIGCHLD handler of web2 have started the same file, or main a file
\* that is none: then children are counted that stand for no file of their own.
Miscounted == kind = "fork" /\ (maxconn > NFiles \/ \E f \in Files : starts[f] > 1)

\* When the client says that it has finished, every file has been read to its end
\* (or its child has failed, which web2 does not ask) - unless children were
\* miscounted: nlefttoread then comes to 0 with files still being fetched.
AllRead ==
    ended = "normal" /\ ~Miscounted =>
        \A f \in Files : got[f] = "read" \/ (kind = "fork" /\ got[f] = "failed")

Children == UNION {{f} \X (1..kids[f]) : f \in Slots}

Counted(f) == flags[f] \in {"F_CONNECTING", "F_READING"} \/ (kind = "threads" /\ flags[f] = "F_DONE")

\* Never more than maxnconn connections at a time, and the counters that main keeps next
\* to file[] agree with it whatever the threads do to f_iFlags: the search at
\* thread_web_main.c:58-61 finds a file when nlefttoconn says so, as its assert() claims.
ConnLimit ==
    IF kind = "fork" THEN Cardinality(Children) <= maxconn
    ELSE /\ nconn <= maxconn
         /\ nconn = Cardinality({f \in Files : Counted(f)})
         /\ nlefttoconn = Cardinality(Unstarted)
         /\ kind = "threads" => nlefttoread = Cardinality({f \in Files : flags[f] # "F_JOINED"})

\* main, with ndone_mutex locked, joins a thread that has set F_DONE and waits for it.
JoinStuck == pc = "join" /\ locked /\ flags[i] = "F_DONE" /\ thread[i] = "lock"

\* The last SIGCHLD came between the test of nlefttoread and pause().
PauseStuck == pc = "pause" /\ nlefttoread <= 0 /\ \A f \in Slots : kids[f] = 0

\* Allowed no connection the client starts nothing, and waits in select(), for ndone or
\* for a signal.
NoneAllowed == maxconn = 0 /\ pc \in {"fill", "wait", "pause"}

\* The client comes to its end, but for two windows in the code, which it then never
\* leaves, and for a maxnconn of 0, which nobody refuses.
Completes ==
    \/ <>(~Running)
    \/ <>[](kind = "threads" /\ JoinStuck)
    \/ <>[](kind = "fork" /\ PauseStuck)
    \/ <>[]NoneAllowed

=============================================================================
