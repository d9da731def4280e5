----------------------------- MODULE TimedRecv ------------------------------
(***************************************************************************)
(* Clients that wait for datagrams for a limited time, most of them with   *)
(* SIGALRM: the broadcast and multicast clients of ch20 and ch21, which    *)
(* print every reply until the alarm; the UDP clients of lib, ch08 and     *)
(* ch14, which take one answer to a line, with a timeout or without; the   *)
(* traceroute of ch28; and the one connect() of connect_timeo().           *)
(* Datagrams are lost, reordered and duplicated, may come after their time *)
(* and from hosts that were not asked.                                     *)
(***************************************************************************)
EXTENDS Naturals

CONSTANTS
    Lines,     \* lines of input, or probes
    Copies,    \* replies that may come to one line, from several hosts or as duplicates
    Strays     \* datagrams that answer no line and are on their way at a time

ASSUME LinesAssumption == Lines \in Nat \ {0} /\ Copies \in Nat \ {0} /\ Strays \in Nat

VARIABLES
    kind, pc,
    line,      \* the line, or probe, that was sent last
    inflight,  \* replies on their way: the line they answer, 0 if none, and which it is
    sockbuf,   \* replies at the socket
    reply,     \* the reply recvfrom() has returned, as a set
    shown,     \* <<l, r>>: reply r was taken for an answer to line l, where one is taken
    timedout,  \* lines reported as timed out
    armed,     \* the timer runs
    masked, pending,  \* SIGALRM is blocked; it has been generated and not delivered
    jmpbuf,    \* the line at which sigsetjmp() was called last, 0 before the first call
    pipe,      \* the handler has written to pipefd[1]
    late,      \* the pipe was readable too when select() returned
    missed,    \* the line in which the handler has run outside of the call it was to end
    ended

netVars == <<inflight, sockbuf>>
resultVars == <<shown, timedout>>
signalVars == <<armed, masked, pending, jmpbuf, pipe, missed>>
vars == <<kind, pc, line, netVars, reply, resultVars, signalVars, late, ended>>

-----------------------------------------------------------------------------
(* The programs.  timer: SIGALRM, a time limit of the call itself, or none. *)
(* loop: the first call of the loop around the receive.  handler: what that *)
(* of SIGALRM does.  takes: every reply until the timeout, or one.          *)

Bcast == [timer |-> "alarm", loop |-> "recv", handler |-> "returns", takes |-> "all"]
Mcast == Bcast
BcastErr == [Bcast EXCEPT !.loop = "unmask"]
BcastJmp == [Bcast EXCEPT !.loop = "setjmp", !.handler = "jumps"]
BcastIpc == [Bcast EXCEPT !.loop = "select", !.handler = "writes"]
BcastSel == [Bcast EXCEPT !.loop = "pselect"]
SelLib == BcastSel          \* with the pselect() of lib

MyDgCli == [Bcast EXCEPT !.takes = "one"]
MyDgCli2 == [timer |-> "call", loop |-> "blocked", handler |-> "none", takes |-> "one"]
MyDgCli3 == MyDgCli2
DgCli == [timer |-> "none", loop |-> "recv", handler |-> "none", takes |-> "one"]
PracDgCli02 == DgCli
Tracert == [timer |-> "alarm", loop |-> "setjmp", handler |-> "jumps", takes |-> "one"]
ConnectTimeo == MyDgCli
MyConnectTimeo == ConnectTimeo
Exer01ConnectTimeo == [ConnectTimeo EXCEPT !.handler = "default"]    \* SIGALRM is not caught

Programs ==
    [bcast |-> Bcast, mcast |-> Mcast, err |-> BcastErr, jmp |-> BcastJmp, ipc |-> BcastIpc,
     sel |-> BcastSel, sel_lib |-> SelLib,
     my_dg_cli |-> MyDgCli, my_dg_cli2 |-> MyDgCli2, my_dg_cli3 |-> MyDgCli3,
     dg_cli |-> DgCli, prac_dg_cli02 |-> PracDgCli02, tracert |-> Tracert,
     connect_timeo |-> ConnectTimeo, my_connect_timeo |-> MyConnectTimeo,
     exer01_connect_timeo |-> Exer01ConnectTimeo]

Kinds == DOMAIN Programs
program == Programs[kind]
Select == {"sel", "sel_lib"}
Connects == {"connect_timeo", "my_connect_timeo", "exer01_connect_timeo"}

Foreign == {0} \X (1..Strays)
Replies == ((1..Lines) \X (1..Copies)) \union Foreign

\* What may come after line l is sent: recvfrom() has no sender to compare with, and the
\* socket takes what anybody sends to its port, answer or not.  connect() is answered by TCP.
Coming(l) == IF kind \in Connects THEN {<<l, 1>>} ELSE ({l} \X (1..Copies)) \union Foreign

Init ==
    /\ kind \in Kinds /\ pc = "fgets" /\ line = 0
    /\ inflight = {} /\ sockbuf = {} /\ reply = {}
    /\ shown = {} /\ timedout = {}
    /\ armed = FALSE /\ masked = (kind = "err") /\ pending = FALSE
    /\ jmpbuf = 0 /\ pipe = FALSE /\ missed = 0 /\ late = FALSE
    /\ ended = "no"

Running == ended = "no"

\* A signal that is not blocked is delivered before the process takes its next step.
Runs == Running /\ (pending => masked)

End(how) ==
    /\ Running
    /\ ended' = how
    /\ UNCHANGED <<kind, pc, line, netVars, reply, resultVars, signalVars, late>>

-----------------------------------------------------------------------------
(* The network.                                                            *)

Arrives(r) ==
    /\ Running /\ r \in inflight
    /\ inflight' = inflight \ {r} /\ sockbuf' = sockbuf \union {r}
    /\ UNCHANGED <<kind, pc, line, reply, resultVars, signalVars, late, ended>>

-----------------------------------------------------------------------------
(* The client.                                                             *)

\* Fgets() and Sendto(), or the next probe.  What does not arrive is lost, or was never sent.
Send ==
    /\ Runs /\ pc = "fgets"
    /\ line < IF kind \in Connects THEN 1 ELSE Lines
    /\ line' = line + 1
    /\ inflight' = inflight \union Coming(line')
    /\ pc' = IF program.timer = "alarm" THEN "arm" ELSE program.loop
    /\ UNCHANGED <<kind, sockbuf, reply, resultVars, signalVars, late, ended>>

\* End of the input; traceroute has reached its destination.
NoMore ==
    /\ Runs /\ pc = "fgets"
    /\ \/ line = Lines
       \/ kind \in Connects /\ line = 1
       \/ kind = "tracert" /\ shown # {}
    /\ End("normal")

\* alarm() or setitimer(); sel has blocked the signal before.
Arm ==
    /\ Runs /\ pc = "arm"
    /\ armed' = TRUE
    /\ masked' = (kind \in Select \/ masked)
    /\ pc' = program.loop
    /\ UNCHANGED <<kind, line, netVars, reply, resultVars, pending, jmpbuf, pipe, missed, late, ended>>

Setjmp ==
    /\ Runs /\ pc = "setjmp"
    /\ jmpbuf' = line
    /\ pc' = "recv"
    /\ UNCHANGED <<kind, line, netVars, reply, resultVars, armed, masked, pending, pipe, missed, late, ended>>

\* sigprocmask(SIG_SETMASK): the signal can be delivered.
Unmask ==
    /\ Runs
    /\ \/ kind = "err" /\ pc = "unmask" /\ pc' = "pause"
       \/ kind = "sel_lib" /\ pc = "pselect" /\ pc' = "select"
    /\ masked' = FALSE
    /\ UNCHANGED <<kind, line, netVars, reply, resultVars, armed, pending, jmpbuf, pipe, missed, late, ended>>

\* A call that has nothing to return puts the process to sleep: pause() always does.
Sleep ==
    /\ Runs
    /\ \/ pc = "pause" /\ pc' = "paused"
       \/ /\ pc = "recv" \/ (pc = "select" /\ kind = "sel_lib")
          /\ sockbuf = {}
          /\ pc' = "blocked"
    /\ UNCHANGED <<kind, line, netVars, reply, resultVars, signalVars, late, ended>>

\* recvfrom() returns a reply; err blocks the signal again.
Recvfrom ==
    /\ Runs /\ pc \in {"recv", "blocked"} /\ (kind = "sel_lib" => pc = "recv")
    /\ \E r \in sockbuf : reply' = {r} /\ sockbuf' = sockbuf \ {r}
    /\ masked' = (kind = "err" \/ masked)
    /\ pc' = "reply"
    /\ UNCHANGED <<kind, line, inflight, resultVars, armed, pending, jmpbuf, pipe, missed, late, ended>>

\* select() and pselect() report the socket; the mask is as before the call.
SocketReady ==
    /\ Runs /\ sockbuf # {}
    /\ \/ kind = "sel" /\ pc = "pselect"
       \/ kind = "sel_lib" /\ pc \in {"select", "blocked"}
       \/ kind = "ipc" /\ pc = "select"
    /\ late' = (kind = "ipc" /\ pipe)
    /\ masked' = (kind \in Select)
    /\ pc' = "recv"
    /\ UNCHANGED <<kind, line, netVars, reply, resultVars, armed, pending, jmpbuf, pipe, missed, ended>>

\* The reply is an answer to line l.
Show ==
    /\ shown' = shown \union {<<line, CHOOSE r \in reply : TRUE>>}
    /\ reply' = {}
    /\ UNCHANGED timedout

\* printf(), and the loop goes on: in ipc to the pipe if that was readable too.
PrintReply ==
    /\ Runs /\ program.takes = "all" /\ pc = "reply"
    /\ reply' = {}
    /\ pc' = IF late THEN "pipe" ELSE program.loop
    /\ late' = FALSE
    /\ UNCHANGED <<kind, line, netVars, resultVars, signalVars, ended>>

\* Mutant of TakeAnswer: raw_recv() returns without alarm(0).
TakeAnswerArmed ==
    /\ Runs /\ program.takes = "one" /\ pc = "reply"
    /\ kind = "tracert" => \A r \in reply : r[1] = line
    /\ Show
    /\ armed' = (armed /\ kind = "tracert")
    /\ pc' = "fgets"
    /\ UNCHANGED <<kind, line, netVars, masked, pending, jmpbuf, pipe, missed, late, ended>>

\* Mutant of TakeAnswer: raw_recv() does not compare the port with seq.
TakeAnswerAny ==
    /\ Runs /\ program.takes = "one" /\ pc = "reply"
    /\ Show
    /\ armed' = FALSE
    /\ pc' = "fgets"
    /\ UNCHANGED <<kind, line, netVars, masked, pending, jmpbuf, pipe, missed, late, ended>>

\* One answer is enough: the timer is stopped.  In traceroute it must be to this probe.
\* prac_dg_cli02 compares two results of inet_ntoa(), which are one buffer, and so takes
\* what any host sends as the others do.
TakeAnswer ==
    /\ Runs /\ program.takes = "one" /\ pc = "reply"
    /\ kind = "tracert" => \A r \in reply : r[1] = line
    /\ Show
    /\ armed' = FALSE
    /\ pc' = "fgets"
    /\ UNCHANGED <<kind, line, netVars, masked, pending, jmpbuf, pipe, missed, late, ended>>

\* goto start_recv.
OtherProbe ==
    /\ Runs /\ kind = "tracert" /\ pc = "reply"
    /\ \A r \in reply : r[1] # line
    /\ reply' = {}
    /\ pc' = "setjmp"
    /\ UNCHANGED <<kind, line, netVars, resultVars, signalVars, late, ended>>

-----------------------------------------------------------------------------
(* The timeout.                                                            *)

TimedOut ==
    /\ timedout' = timedout \union {line} /\ UNCHANGED shown
    /\ reply' = {}
    /\ pc' = "fgets"

\* The limit of select() or SO_RCVTIMEO, and that of the kernel for connect().
CallTimesOut ==
    /\ Runs /\ pc = "blocked" /\ sockbuf = {}
    /\ program.timer = "call" \/ kind \in Connects
    /\ TimedOut
    /\ armed' = FALSE
    /\ UNCHANGED <<kind, line, netVars, masked, pending, jmpbuf, pipe, missed, late, ended>>

\* The timer expires: SIGALRM is generated.
Expires ==
    /\ Running /\ armed
    /\ armed' = FALSE /\ pending' = TRUE
    /\ UNCHANGED <<kind, pc, line, netVars, reply, resultVars, masked, jmpbuf, pipe, missed, late, ended>>

Deliverable == Running /\ pending /\ (~masked \/ (kind = "sel" /\ pc = "pselect"))

\* A handler that only returns: the call that sleeps gives EINTR, and the loop ends;
\* err and sel_lib block the signal again.
Interrupted ==
    /\ program.handler = "returns"
    /\ Deliverable
    /\ pc = "blocked" \/ (kind = "sel" /\ pc = "pselect")
    /\ TimedOut
    /\ pending' = FALSE
    /\ masked' = (kind \in Select \union {"err"})
    /\ UNCHANGED <<kind, line, netVars, armed, jmpbuf, pipe, missed, late, ended>>

\* The same anywhere else, or when the call has a reply to return: nothing but pause()
\* notices.
Unnoticed ==
    /\ program.handler = "returns" /\ kind # "sel"
    /\ Deliverable /\ (pc = "blocked" => sockbuf # {})
    /\ pending' = FALSE
    /\ missed' = line
    /\ pc' = IF pc = "paused" THEN "recv" ELSE pc
    /\ UNCHANGED <<kind, line, netVars, reply, resultVars, armed, masked, jmpbuf, pipe, late, ended>>

\* The handler of jmp and of traceroute: siglongjmp().  jmp stays in the function that has
\* called sigsetjmp(), raw_recv() is a new call for each probe.
Jumpable == IF kind = "jmp" THEN jmpbuf # 0 ELSE jmpbuf = line /\ pc # "fgets"

Jump ==
    /\ program.handler = "jumps"
    /\ Deliverable
    /\ IF Jumpable
       THEN /\ TimedOut
            /\ pending' = FALSE
            /\ UNCHANGED <<kind, line, netVars, armed, masked, jmpbuf, pipe, missed, late, ended>>
       ELSE End("stray")

\* Mutant of WritePipe: the handler only returns.
WritePipeNot ==
    /\ program.handler = "writes"
    /\ Deliverable
    /\ pending' = FALSE
    /\ UNCHANGED <<kind, pc, line, netVars, reply, resultVars, armed, masked, jmpbuf, pipe, missed, late, ended>>

\* The handler of ipc; select() is called again.
WritePipe ==
    /\ program.handler = "writes"
    /\ Deliverable
    /\ pending' = FALSE /\ pipe' = TRUE
    /\ UNCHANGED <<kind, pc, line, netVars, reply, resultVars, armed, masked, jmpbuf, missed, late, ended>>

\* The pipe is read, and the loop ends.
ReadPipe ==
    /\ Runs /\ kind = "ipc"
    /\ pc = "pipe" \/ (pc = "select" /\ pipe /\ sockbuf = {})
    /\ pipe' = FALSE
    /\ TimedOut
    /\ UNCHANGED <<kind, line, netVars, armed, masked, pending, jmpbuf, missed, late, ended>>

\* The default action of SIGALRM.
AlarmKills == program.handler = "default" /\ Deliverable /\ End("killed")

Handler == Interrupted \/ Unnoticed \/ Jump \/ WritePipe \/ AlarmKills

Client ==
    \/ Send \/ NoMore \/ Arm \/ Setjmp \/ Unmask \/ Sleep
    \/ Recvfrom \/ SocketReady \/ PrintReply \/ TakeAnswer \/ OtherProbe
    \/ CallTimesOut \/ ReadPipe

\* A process that waits for ever and one that has ended do nothing.
Finished == ~Running /\ UNCHANGED vars

Next ==
    \/ Client \/ Handler \/ Expires
    \/ \E r \in Replies : Arrives(r)
    \/ Finished

Spec == Init /\ [][Next]_vars

\* The process runs, the timer expires and the signal is delivered.  Nothing is asked of
\* the network.
FairSpec == Spec /\ WF_vars(Client) /\ WF_vars(Handler) /\ WF_vars(Expires)

-----------------------------------------------------------------------------
(* Properties.                                                             *)

TypeOK ==
    /\ kind \in Kinds
    /\ pc \in {"fgets", "arm", "setjmp", "unmask", "pause", "paused", "pselect", "select",
               "recv", "blocked", "reply", "pipe"}
    /\ line \in 0..Lines
    /\ inflight \subseteq Replies /\ sockbuf \subseteq Replies
    /\ IF pc = "reply" THEN \E r \in Replies : reply = {r} ELSE reply = {}
    /\ shown \subseteq (1..Lines) \X Replies
    /\ timedout \subseteq 1..Lines
    /\ armed \in BOOLEAN /\ masked \in BOOLEAN /\ pending \in BOOLEAN
    /\ jmpbuf \in 0..line /\ missed \in 0..line
    /\ pipe \in BOOLEAN /\ late \in BOOLEAN
    /\ ended \in {"no", "normal", "stray", "killed"}

\* Line l has got what its client cannot tell from an answer to it: a datagram of nobody
\* it asked, or one more answer to a line that had one, from another host or from UDP,
\* which may duplicate it.
Fooled(l) ==
    \E s \in shown :
        /\ s[1] = l
        /\ \/ s[2][1] = 0
           \/ \E t \in shown : t[1] < l /\ t[2][1] = s[2][1]

\* An answer of traceroute is the answer to the probe it is printed for, although late
\* answers, those of other probes and strange ones come to the same socket.  The UDP
\* clients do not compare (dg_cli.c:13; prac_dg_cli02.c:25 would, but lets every host
\* through): their answer may be that to an earlier line, never to a later one, and only
\* when some line up to that one was fooled or timed out, or this one is itself fooled.
\* From there on they may be an answer behind for good.
AnswerBelongs ==
    program.takes = "one" =>
        \A s \in shown :
            \/ s[2][1] = s[1]
            \/ /\ kind # "tracert" /\ s[2][1] < s[1]
               /\ \/ Fooled(s[1])
                  \/ \E l \in 1..s[2][1] : l \in timedout \/ Fooled(l)

\* siglongjmp() never goes to a function that has returned, or to no function at all, but
\* in the window between alarm() and sigsetjmp(): raw_tracert.c:144-146, and for the
\* first line only dg_cli_bcast_jmp.c:26-28.  In particular no alarm is left over from a
\* probe that was answered.
StrayJump == ended = "stray" => pc = "setjmp" /\ (kind = "jmp" => line = 1)

\* The process sleeps, and no signal is to come that would wake it.
Waits == (pc = "paused" \/ (pc = "blocked" /\ sockbuf = {})) /\ ~armed /\ ~pending

\* Every client comes to the end of its input whatever the network loses, but for two
\* kinds: one that has no timeout, and those whose handler only returns, when it did so
\* outside of the call it was to interrupt.  jmp, ipc, sel, traceroute, and those that
\* leave the timeout to the call, never wait for ever.
Completes ==
    \/ <>(~Running)
    \/ <>[](Waits /\ \/ program.timer = "none"
                     \/ program.handler = "returns" /\ kind # "sel" /\ missed = line)

=============================================================================
