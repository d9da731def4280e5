----------------------------- MODULE PreforkDyn -----------------------------
(***************************************************************************)
(* The preforked servers of ch30_mode whose children all call accept() and *)
(* whose pool grows and shrinks: mode_serv02_dyn (v01 below), _v02, _v03.  *)
(* A child that has waited five seconds leaves by itself if nchildren,     *)
(* shared memory under an fcntl lock, allows it.  The parent of v01 learns *)
(* from a pipe to each child what it does and grows when all are busy; that*)
(* of v02 looks at the length of the listen queue and at SIGCHLD; that of  *)
(* v03 only watches.                                                       *)
(***************************************************************************)
EXTENDS Naturals, Sequences, FiniteSets, FiniteSetsExt

CONSTANTS
    MinConn,     \* minconn
    MaxConn,     \* maxconn
    NClients,    \* client hosts, each with at most one connection at a time
    PipeSize     \* bytes a pipe holds

ASSUME LimitsAssumption ==
    /\ MinConn \in Nat \ {0} /\ MaxConn \in Nat /\ MinConn <= MaxConn
    /\ NClients \in Nat \ {0} /\ PipeSize \in Nat \ {0}

VARIABLES
    kind,        \* the server
    parent,      \* "prefork", "select", "lock", "grow", "forked", "stored"; in _sig_int "wait"
                 \* or, when SIGINT came before a new child's pid was stored, "waitnew"
    locked,      \* the parent holds the lock; a child lets go of it in the step that takes it
    stray,       \* bits of the uninitialised masterset
    rset, nsel,  \* what select() reported
    deep,        \* v02: the listen queue held more than one
    at,          \* child_make()'s i
    known,       \* slots with child_pid # 0, be it that of a child long gone (v02)
    status,      \* child_status
    nconn,
    nchildren,
    child,       \* each slot: what its process does, "none", or how it died unnoticed
    pipe,        \* the bytes child_pipefd holds
    sigchld,     \* SIGCHLD is pending
    lost,        \* children that died without leaving
    backlog,     \* how many completed connections nobody has accepted
    ended        \* "no", or what ended the parent

selected == <<rset, nsel, deep>>
table == <<known, status, nconn>>
children == <<child, pipe, sigchld, lost>>
vars == <<kind, parent, locked, stray, selected, at, table, nchildren, children, backlog, ended>>

Kinds == {"v01", "v02", "v03"}
Slots == 0..(MaxConn - 1)
InSigInt == {"wait", "waitnew"}
Gone == {"left", "crashed"}
Alive == {i \in Slots : child[i] \notin Gone \union {"none"}}

\* The head of the child's for(;;): only v01 writes to a pipe.
Loop == IF kind = "v01" THEN "free" ELSE "accept"

\* FD_ZERO is missing in v01.  All descriptors up to maxfd are open, so what may be set
\* are those that are not pipes: lock_fd, always ready, and listenfd.
Init ==
    /\ kind \in Kinds
    /\ parent = "prefork" /\ locked = FALSE
    /\ stray \in IF kind = "v01" THEN SUBSET {"lock_fd", "listenfd"} ELSE {{}}
    /\ rset = {} /\ nsel = 0 /\ deep = FALSE /\ at = 0
    /\ known = {} /\ status = [i \in Slots |-> 0]
    /\ nconn = 0 /\ nchildren = MinConn
    /\ child = [i \in Slots |-> "none"]
    /\ pipe = [i \in Slots |-> <<>>]
    /\ sigchld = FALSE /\ lost = 0
    /\ backlog = 0
    /\ ended = "no"

Running == ended = "no"

End(why) ==
    /\ ended' = why
    /\ UNCHANGED <<kind, parent, locked, stray, selected, at, table, nchildren, children, backlog>>

-----------------------------------------------------------------------------
(* A child.                                                                *)

childUnchanged == <<kind, parent, locked, stray, selected, at, table, ended>>

\* The process in slot i ends.  Its parent hears of it, once SIGCHLD has a handler.
Dies(i, how) ==
    /\ child' = [child EXCEPT ![i] = how]
    /\ sigchld' = (sigchld \/ (kind # "v01" /\ parent \notin {"prefork"} \union InSigInt))
    /\ UNCHANGED pipe

\* err_sys() after a failure of accept() or in mode_reply(), or a signal.
Crash(i) ==
    /\ Running /\ i \in Alive /\ child[i] # "leaving"
    /\ Dies(i, "crashed")
    /\ lost' = lost + 1
    /\ UNCHANGED <<childUnchanged, nchildren, backlog>>

\* Write(): the pipe is non-blocking (163), and a full one is an error.
Writes(i, byte, next) ==
    /\ Running
    /\ Len(pipe[i]) < PipeSize
    /\ pipe' = [pipe EXCEPT ![i] = Append(@, byte)]
    /\ child' = [child EXCEPT ![i] = next]
    /\ UNCHANGED <<childUnchanged, nchildren, sigchld, lost, backlog>>

WriteFails(i) == child[i] \in {"free", "taken"} /\ Len(pipe[i]) = PipeSize /\ Crash(i)

WriteFree(i) == child[i] = "free" /\ Writes(i, "0", "accept")
WriteBusy(i) == child[i] = "taken" /\ Writes(i, "1", "busy")

\* The five seconds may pass before accept() is entered, which then waits without end.
AlarmMissed(i) ==
    /\ Running /\ child[i] = "accept"
    /\ child' = [child EXCEPT ![i] = "unarmed"]
    /\ UNCHANGED <<childUnchanged, nchildren, pipe, sigchld, lost, backlog>>

AcceptClient(i) ==
    /\ Running /\ child[i] \in {"accept", "unarmed"} /\ backlog > 0
    /\ backlog' = backlog - 1
    /\ child' = [child EXCEPT ![i] = IF kind = "v01" THEN "taken" ELSE "busy"]
    /\ UNCHANGED <<childUnchanged, nchildren, pipe, sigchld, lost>>

\* mode_reply() returns and Close().
Served(i) ==
    /\ Running /\ child[i] = "busy"
    /\ child' = [child EXCEPT ![i] = Loop]
    /\ UNCHANGED <<childUnchanged, nchildren, pipe, sigchld, lost, backlog>>

\* accept() is interrupted: it had nothing to return.
TimesOut(i) ==
    /\ Running /\ child[i] = "accept" /\ backlog = 0
    /\ child' = [child EXCEPT ![i] = "timeout"]
    /\ UNCHANGED <<childUnchanged, nchildren, pipe, sigchld, lost, backlog>>

\* Mutant of Leaves: the pool may shrink below its minimum.
LeavesBelowMinimum(i) ==
    /\ Running /\ child[i] = "timeout" /\ ~locked /\ nchildren >= MinConn
    /\ nchildren' = nchildren - 1
    /\ IF kind = "v02"
       THEN child' = [child EXCEPT ![i] = "leaving"] /\ UNCHANGED <<pipe, sigchld>>
       ELSE Dies(i, "left")
    /\ UNCHANGED <<childUnchanged, lost, backlog>>

\* With the lock.  v02 lets go of it before it kills itself, the others by their exit.
Leaves(i) ==
    /\ Running /\ child[i] = "timeout" /\ ~locked /\ nchildren > MinConn
    /\ nchildren' = nchildren - 1
    /\ IF kind = "v02"
       THEN child' = [child EXCEPT ![i] = "leaving"] /\ UNCHANGED <<pipe, sigchld>>
       ELSE Dies(i, "left")
    /\ UNCHANGED <<childUnchanged, lost, backlog>>

KillsItself(i) ==
    /\ Running /\ child[i] = "leaving"
    /\ Dies(i, "left")
    /\ UNCHANGED <<childUnchanged, nchildren, lost, backlog>>

\* Mutant of Stays: mode_lock_release() is forgotten.
StaysLocked(i) ==
    /\ Running /\ child[i] = "timeout" /\ ~locked /\ nchildren <= MinConn
    /\ child' = [child EXCEPT ![i] = Loop]
    /\ locked' = TRUE
    /\ UNCHANGED <<kind, parent, stray, selected, at, table, ended, nchildren, pipe,
                   sigchld, lost, backlog>>

Stays(i) ==
    /\ Running /\ child[i] = "timeout" /\ ~locked /\ nchildren <= MinConn
    /\ child' = [child EXCEPT ![i] = Loop]
    /\ UNCHANGED <<childUnchanged, nchildren, pipe, sigchld, lost, backlog>>

-----------------------------------------------------------------------------
(* The parent: child_make().                                               *)

\* pipe() and Fork() for slot i.
Forks(i) ==
    /\ child' = [child EXCEPT ![i] = Loop]
    /\ pipe' = [pipe EXCEPT ![i] = <<>>]
    /\ UNCHANGED <<sigchld, lost>>

Prefork ==
    /\ Running /\ parent = "prefork" /\ at < MinConn
    /\ Forks(at)
    /\ known' = known \union {at}
    /\ status' = [status EXCEPT ![at] = IF kind = "v01" THEN 0 ELSE 1]
    /\ at' = at + 1
    /\ UNCHANGED <<kind, parent, locked, stray, selected, nconn, nchildren, backlog, ended>>

\* _sig_int, and sig_chld but for v01, are handlers from here on.
Preforked ==
    /\ Running /\ parent = "prefork" /\ at = MinConn
    /\ parent' = "select" /\ at' = 0
    /\ UNCHANGED <<kind, locked, stray, selected, table, nchildren, children, backlog, ended>>

\* One more child, with the lock held, in the first of the slots S.
GrowInto(S) ==
    /\ \E i \in S : (\A j \in S : i <= j) /\ at' = i /\ Forks(i)
    /\ parent' = "forked" /\ locked' = TRUE
    /\ UNCHANGED <<kind, stray, selected, table, nchildren, backlog, ended>>

NotGrowing ==
    /\ parent' = "select" /\ locked' = FALSE
    /\ UNCHANGED <<kind, stray, selected, at, table, nchildren, children, backlog, ended>>

\* Mutant of Counted: ++(*nchildren) is forgotten.
CountedNot ==
    /\ parent' = "select" /\ locked' = FALSE /\ at' = 0
    /\ UNCHANGED <<nchildren, kind, stray, selected, nconn, children, backlog, ended>>

\* ++(*nchildren), and the lock is released.
Counted ==
    /\ parent' = "select" /\ locked' = FALSE /\ at' = 0
    /\ nchildren' = nchildren + 1
    /\ UNCHANGED <<kind, stray, selected, nconn, children, backlog, ended>>

\* v01 stores pid and status; v02 and v03 set the status to 1 in a second step.
StorePid ==
    /\ Running /\ parent = "forked"
    /\ known' = known \union {at}
    /\ \/ kind = "v01" /\ status' = [status EXCEPT ![at] = 0] /\ Counted
       \/ /\ kind = "v02" /\ parent' = "stored"
          /\ UNCHANGED <<kind, locked, stray, selected, at, status, nconn, nchildren, children,
                         backlog, ended>>

StoreStatus ==
    /\ Running /\ parent = "stored"
    /\ status' = [status EXCEPT ![at] = 1]
    /\ Counted
    /\ UNCHANGED known

-----------------------------------------------------------------------------
(* The parent of v01: bytes from the children.                             *)

Readable == {i \in known : pipe[i] # <<>> \/ child[i] \in Gone}
StrayReady == {s \in stray : s = "listenfd" => backlog > 0}

Select ==
    /\ Running /\ kind = "v01" /\ parent = "select"
    /\ Readable # {} \/ StrayReady # {}
    /\ rset' = Readable
    /\ nsel' = Cardinality(Readable) + Cardinality(StrayReady)
    /\ parent' = "lock"
    /\ UNCHANGED <<kind, locked, stray, deep, at, table, nchildren, children, backlog, ended>>

\* --nsel is done for every slot in use, ready or not: the loop ends after nsel of them.
Scanned == {i \in known : Cardinality({j \in known : j < i}) < nsel}

\* With the lock: a byte, or the end of file, from each of those that select() reported.
\* The status of a child that has ended is reset, nconn is not.  Below the minimum a new
\* child takes its slot.
Scan ==
    LET read == Scanned \intersect rset
        ends == {i \in read : pipe[i] = <<>>}
        again == {i \in ends : nchildren + Cardinality({j \in ends : j < i}) < MinConn}
        says(byte, was) == {i \in read \ ends : Head(pipe[i]) = byte /\ status[i] = was}
    IN  /\ Running /\ kind = "v01" /\ parent = "lock"
        /\ known' = (known \ ends) \union again
        /\ nchildren' = nchildren + Cardinality(again)
        /\ status' = [i \in Slots |->
               IF i \in says("1", 0) THEN 1
               ELSE IF i \in says("0", 1) \union ends THEN 0 ELSE status[i]]
        /\ nconn' = (nconn + Cardinality(says("1", 0))) - Cardinality(says("0", 1))
        /\ pipe' = [i \in Slots |-> IF i \in read \ ends THEN Tail(pipe[i]) ELSE pipe[i]]
        /\ child' = [i \in Slots |->
               IF i \in again THEN Loop ELSE IF i \in ends THEN "none" ELSE child[i]]
        /\ parent' = "grow" /\ locked' = TRUE
        /\ rset' = {} /\ nsel' = 0
        /\ UNCHANGED <<kind, stray, deep, at, sigchld, lost, backlog, ended>>

\* All the parent knows of are busy, and the pool may grow.
Grow ==
    /\ Running /\ parent = "grow"
    /\ IF nconn = nchildren /\ nchildren < MaxConn
       THEN IF known = Slots THEN End("no available resource") ELSE GrowInto(Slots \ known)
       ELSE NotGrowing

-----------------------------------------------------------------------------
(* The parent of v02: the listen queue, and SIGCHLD.  That of v03 prints   *)
(* what select() reports.                                                  *)

SelectQueue ==
    /\ Running /\ kind = "v02" /\ parent = "select" /\ backlog > 0
    /\ deep' = (backlog > 1)
    /\ parent' = "lock"
    /\ UNCHANGED <<kind, locked, stray, rset, nsel, at, table, nchildren, children, backlog, ended>>

\* Without a slot of status 0, i is maxconn and child_make() writes behind the table.
GrowQueue ==
    /\ Running /\ kind = "v02" /\ parent = "lock"
    /\ IF deep /\ nchildren < MaxConn
       THEN LET empty == {i \in Slots : status[i] = 0}
            IN  IF empty = {} THEN End("behind the table") ELSE GrowInto(empty)
       ELSE NotGrowing

\* sig_chld(): a child not in the table ends the server.
SigChld ==
    LET zombies == {i \in Slots : child[i] \in Gone}
    IN  /\ Running /\ sigchld /\ parent \notin InSigInt
        /\ IF parent = "forked" /\ at \in zombies THEN End("can't find the child")
           ELSE /\ sigchld' = FALSE
                /\ child' = [i \in Slots |-> IF i \in zombies THEN "none" ELSE child[i]]
                /\ status' = [i \in Slots |-> IF i \in zombies THEN 0 ELSE status[i]]
                /\ UNCHANGED <<kind, parent, locked, stray, selected, at, known, nconn, nchildren,
                               pipe, lost, backlog, ended>>

-----------------------------------------------------------------------------
(* _sig_int().                                                             *)

\* SIGTERM to the children in the slots S, which end.
Terminate(S) ==
    /\ child' = [i \in Slots |-> IF i \in S THEN "none" ELSE child[i]]
    /\ UNCHANGED <<kind, locked, stray, selected, at, table, nchildren, pipe, sigchld, lost, backlog>>

\* Slots whose child_pid is that of the process in them.  Between Fork() and the store a
\* slot used before still has the pid of its former child: kill() finds no process.
Told == IF parent = "forked" THEN known \ {at} ELSE known
Waits == parent' = IF parent = "forked" THEN "waitnew" ELSE "wait"

\* Mutant of Interrupt: the loop ends at *nchildren.
InterruptCounted ==
    /\ Running /\ parent \in {"select", "lock", "grow", "forked", "stored"}
    /\ LET empty == Slots \ known
       IN  IF kind = "v01" \/ empty = {}
           THEN Terminate({i \in Told : i < nchildren}) /\ Waits /\ UNCHANGED ended
           ELSE Terminate({i \in Told : i < Min(empty)}) /\ ended' = "quit" /\ UNCHANGED parent

\* v02 and v03 do not skip an empty slot: kill(0, SIGTERM) ends the parent too, and the
\* children are not in its process group (setsid).
Interrupt ==
    /\ Running /\ parent \in {"select", "lock", "grow", "forked", "stored"}
    /\ LET empty == Slots \ known
       IN  IF kind = "v01" \/ empty = {}
           THEN Terminate(Told) /\ Waits /\ UNCHANGED ended
           ELSE Terminate({i \in Told : i < Min(empty)}) /\ ended' = "quit" /\ UNCHANGED parent

\* wait() fails with ECHILD when there is no child left.
WaitReturns ==
    /\ Running /\ parent \in InSigInt /\ Alive = {}
    /\ End("quit")

-----------------------------------------------------------------------------
Serving == {i \in Slots : child[i] \in {"taken", "busy"}}

Connect ==
    /\ Running
    /\ backlog + Cardinality(Serving) < NClients
    /\ backlog' = backlog + 1
    /\ UNCHANGED <<childUnchanged, nchildren, children>>

ChildStep(i) ==
    \/ WriteFree(i) \/ WriteBusy(i) \/ WriteFails(i)
    \/ AcceptClient(i) \/ Served(i)
    \/ TimesOut(i) \/ Leaves(i) \/ KillsItself(i) \/ Stays(i)

ParentStep ==
    \/ Prefork \/ Preforked \/ StorePid \/ StoreStatus
    \/ Select \/ Scan \/ Grow
    \/ SelectQueue \/ GrowQueue
    \/ WaitReturns

Environment ==
    \/ \E i \in Slots : Crash(i) \/ AlarmMissed(i)
    \/ Interrupt
    \/ Connect

\* Of the children nothing more is said when the parent has ended.
Ended == ~Running /\ UNCHANGED vars

Next ==
    \/ \E i \in Slots : ChildStep(i)
    \/ ParentStep \/ SigChld
    \/ Environment
    \/ Ended

Spec == Init /\ [][Next]_vars

\* Processes run, the lock goes to those who wait for it, alarms go off, and clients close
\* their connections.  Nobody has to connect, crash or press the interrupt key.
FairSpec ==
    /\ Spec
    /\ WF_vars(ParentStep) /\ WF_vars(SigChld)
    /\ \A i \in Slots : WF_vars(ChildStep(i)) /\ SF_vars(Leaves(i) \/ Stays(i))

-----------------------------------------------------------------------------
(* Properties.                                                             *)

TypeOK ==
    /\ kind \in Kinds
    /\ parent \in {"prefork", "select", "lock", "grow", "forked", "stored"} \union InSigInt
    /\ locked \in BOOLEAN /\ deep \in BOOLEAN /\ sigchld \in BOOLEAN
    /\ stray \subseteq {"lock_fd", "listenfd"}
    /\ rset \subseteq Slots /\ known \subseteq Slots /\ nsel \in Nat /\ at \in 0..MaxConn
    /\ status \in [Slots -> {0, 1}]
    /\ nconn \in Nat /\ nchildren \in Nat /\ lost \in Nat
    /\ child \in [Slots -> Gone \union {"none", "free", "accept", "unarmed", "timeout", "leaving",
                                        "taken", "busy"}]
    /\ pipe \in [Slots -> Seq({"0", "1"})] /\ \A i \in Slots : Len(pipe[i]) <= PipeSize
    /\ backlog \in 0..NClients
    /\ ended \in {"no", "quit", "no available resource", "behind the table", "can't find the child"}

\* nchildren, written by parent and children under the lock, is the number of those that
\* live and have not said that they leave, and of those that crashed: a child that
\* crashes is counted for ever, and the test at 117, which would replace it, never
\* holds.  nconn of v01 counts the children known to be busy, and one more for some of
\* those that crashed.
Staying == {i \in Alive : child[i] # "leaving"}
PoolAccounting ==
    /\ MinConn <= nchildren /\ nchildren <= MaxConn
    /\ parent \notin {"prefork"} \union InSigInt /\ ended # "quit" =>
         nchildren + (IF parent \in {"forked", "stored"} THEN 1 ELSE 0) = Cardinality(Staying) + lost
    /\ kind = "v01" => nconn - Cardinality({i \in Slots : status[i] = 1}) \in 0..lost

\* The server runs out of slots, "no available resource" or without a word, only in a race:
\* a child has counted itself out and its slot is not yet free, because its end of file
\* is not read or its SIGCHLD not handled.
ShortageIsRace ==
    ended \in {"no available resource", "behind the table"} =>
        \E i \in Slots : child[i] \in {"leaving", "left"}

\* Clients in the listen queue, which is first in first out, go on being accepted as long as
\* there is a child: leaving, growing and the lock keep nobody from accept() for ever.
ClientAccepted ==
    \/ []<>(backlog = 0 \/ ~Running \/ parent \in InSigInt \/ Alive = {})
    \/ []<><<\E i \in Slots : AcceptClient(i)>>_vars

\* After SIGINT all end, with two exceptions.  A child whose pid is not stored when SIGINT
\* comes (v01: 153-200, v02: 161-200) is not told: where its slot is not taken for an
\* empty one the parent waits for it for ever, with the lock held.  And v02 and v03 do not
\* get beyond an empty slot: the children behind it live on.
Shutdown ==
    parent \in InSigInt \/ ended = "quit" ~>
        \/ ended = "quit" /\ \A i \in Alive :
               \/ kind # "v01" /\ \E j \in Slots \ known : j <= i
               \/ parent = "forked" /\ i = at
        \/ parent = "waitnew" /\ at \in Alive
=============================================================================
