------------------------------ MODULE Retransmit ------------------------------
(***************************************************************************)
(* ch22_advudp: adv_dg_cli.c sends each line of its input to a UDP echo    *)
(* server through adv_dg_send_recv(), which adds a sequence number,        *)
(* retransmits when SIGALRM interrupts recvmsg(), and adapts the timeout   *)
(* with the estimators of rtt_lib.c (the same code is in lib/rtt.c).       *)
(*                                                                         *)
(* Every transmission, a retransmission too, takes the next sequence       *)
(* number.  Datagrams may be lost, delayed, doubled and reordered, but     *)
(* none outlives Lifetime transmissions.  Times are integers, Second to    *)
(* the second, where the code has floats.                                  *)
(***************************************************************************)
EXTENDS Integers, Sequences

CONSTANTS
    SeqMod,        \* sequence numbers are kept modulo this (2^32 in the code)
    Lifetime,      \* how many transmissions later a datagram may still arrive
    MaxLines,      \* bound: lines of input
    Delays         \* how long after the last transmission an answer may come

ASSUME SeqAssumption == SeqMod \in Nat \ {0} /\ Lifetime \in 1..SeqMod
ASSUME LinesAssumption == MaxLines \in Nat /\ Delays \subseteq Nat

Second == 64
RXTMIN == 2
RXTMAX == 60
MAXNREXMT == 3

VARIABLES
    pc,        \* "read", "send", "armed", "wait", "got", "eof", "gaveup" or "crash"
    line,      \* lines read so far: the request
    jmpbuf,    \* "unset", "old" (of a call that has returned) or "set"
    attempt,   \* transmissions so far; sendhdr.seq is this modulo SeqMod
    nrexmt, srtt, rttvar, rto,   \* struct rtt_info
    timer,     \* seconds given to alarm(); 0 is no alarm
    requests, replies,           \* datagrams that may still arrive
    reply,     \* the datagram accepted
    delay,     \* how long it took
    printed

adv_vars == <<pc, line, jmpbuf, attempt, nrexmt, srtt, rttvar, rto, timer,
              requests, replies, reply, delay, printed>>
rtt == <<nrexmt, srtt, rttvar, rto>>
net == <<requests, replies>>

Datagrams == [attempt : Nat, line : Nat]
NoReply == [attempt |-> 0, line |-> 0]

Abs(x) == IF x < 0 THEN -x ELSE x

\* Mutant of MinMax: no lower bound.
MaxOnly(x) == IF x > RXTMAX * Second THEN RXTMAX * Second ELSE x

MinMax(x) ==
    IF x < RXTMIN * Second THEN RXTMIN * Second
    ELSE IF x > RXTMAX * Second THEN RXTMAX * Second ELSE x

RtoCalc(s, v) == MinMax(s + 4 * v)

AdvInit ==
    /\ pc = "read" /\ line = 0
    /\ jmpbuf = "unset"
    /\ attempt = 0
    /\ nrexmt = 0 /\ srtt = 0
    /\ rttvar = (3 * Second) \div 4
    /\ rto = RtoCalc(srtt, rttvar)
    /\ timer = 0
    /\ requests = {} /\ replies = {}
    /\ reply = NoReply /\ delay = 0
    /\ printed = <<>>

-----------------------------------------------------------------------------
(* The client.                                                             *)

\* Fgets, and the head of adv_dg_send_recv(): rtt_newpack().
Call ==
    /\ pc = "read" /\ line < MaxLines
    /\ line' = line + 1
    /\ nrexmt' = 0
    /\ jmpbuf' = IF jmpbuf = "set" THEN "old" ELSE jmpbuf
    /\ pc' = "send"
    /\ UNCHANGED <<attempt, srtt, rttvar, rto, timer, net, reply, delay, printed>>

EndOfFile ==
    /\ pc = "read"
    /\ pc' = "eof"
    /\ UNCHANGED <<line, jmpbuf, attempt, rtt, timer, net, reply, delay, printed>>

Alive(d) == attempt - d.attempt < Lifetime

\* rtt_start() rounds to seconds.
RttStart == (rto + Second \div 2) \div Second

\* A new sequence number; datagrams too old for the network are gone.
SendAgain ==
    /\ pc = "send"
    /\ attempt' = attempt + 1
    /\ requests' = {d \in requests : Alive(d)'} \union {[attempt |-> attempt', line |-> line]}
    /\ replies' = {d \in replies : Alive(d)'}
    /\ timer' = RttStart
    /\ pc' = "armed"
    /\ UNCHANGED <<line, jmpbuf, rtt, reply, delay, printed>>

SetJmp ==
    /\ pc = "armed"
    /\ jmpbuf' = "set"
    /\ pc' = "wait"
    /\ UNCHANGED <<line, attempt, rtt, timer, net, reply, delay, printed>>

\* Mutant of Matches: any answer will do.
MatchesAny(d) == TRUE

\* recvhdr.seq = sendhdr.seq.  What does not match is read and dropped.
Matches(d) == d.attempt % SeqMod = attempt % SeqMod

Receive ==
    /\ pc = "wait"
    /\ \E d \in replies, t \in Delays :
        /\ Matches(d)
        /\ timer > 0 => t <= timer * Second
        /\ reply' = d /\ delay' = t
    /\ pc' = "got"
    /\ UNCHANGED <<line, jmpbuf, attempt, rtt, timer, net, printed>>

RttStop ==
    LET error == delay - srtt IN
    /\ srtt' = srtt + error \div 8
    /\ rttvar' = rttvar + (Abs(error) - rttvar) \div 4
    /\ rto' = RtoCalc(srtt', rttvar')

\* alarm(0), rtt_stop(), and the line is printed.
Return ==
    /\ pc = "got"
    /\ timer' = 0
    /\ RttStop
    /\ printed' = Append(printed, reply.line)
    /\ pc' = "read"
    /\ UNCHANGED <<line, jmpbuf, attempt, nrexmt, net, reply, delay>>

\* rtt_timeout() doubles the timeout, with no regard to RXTMAX.
RttTimeout ==
    /\ rto' = 2 * rto
    /\ nrexmt' = nrexmt + 1

\* Mutant of Alarm: one retransmission too many (rtt_nrexmt++ tested).
AlarmPostIncrement ==
    /\ timer > 0
    /\ pc \in {"wait", "got"} \/ (pc = "armed" /\ jmpbuf # "unset")
    /\ timer' = 0
    /\ RttTimeout
    /\ pc' = IF nrexmt > MAXNREXMT THEN "gaveup" ELSE "send"
    /\ reply' = NoReply /\ delay' = 0
    /\ UNCHANGED <<line, jmpbuf, attempt, srtt, rttvar, net, printed>>

\* Mutant of Alarm: the handler returns and recvmsg() is restarted.
AlarmReturns ==
    /\ timer > 0 /\ pc \in {"armed", "wait", "got"}
    /\ timer' = 0
    /\ UNCHANGED <<pc, line, jmpbuf, attempt, rtt, net, reply, delay, printed>>

\* SIGALRM, also when an answer has been read and alarm(0) not yet called; back at
\* sigsetjmp() the client sends again or gives up, and Adv_dg_send_recv() exits.  The
\* jump may work through an old jmpbuf too: the new frame lies where the old one did.
Alarm ==
    /\ timer > 0
    /\ pc \in {"wait", "got"} \/ (pc = "armed" /\ jmpbuf # "unset")
    /\ timer' = 0
    /\ RttTimeout
    /\ pc' = IF nrexmt' > MAXNREXMT THEN "gaveup" ELSE "send"
    /\ reply' = NoReply /\ delay' = 0
    /\ UNCHANGED <<line, jmpbuf, attempt, srtt, rttvar, net, printed>>

\* SIGALRM between alarm() and the first sigsetjmp() of the call: jmpbuf was never
\* set, or names a frame that is gone (undefined).
AlarmTooEarly ==
    /\ timer > 0 /\ pc = "armed" /\ jmpbuf # "set"
    /\ pc' = "crash"
    /\ UNCHANGED <<line, jmpbuf, attempt, rtt, timer, net, reply, delay, printed>>

-----------------------------------------------------------------------------
(* Network and server: a datagram that is never taken is lost, one that is *)
(* taken twice was doubled.                                                *)

Echo ==
    /\ \E d \in requests : replies' = replies \union {d}
    /\ UNCHANGED <<pc, line, jmpbuf, attempt, rtt, timer, requests, reply, delay, printed>>

-----------------------------------------------------------------------------
ClientStep == SendAgain \/ SetJmp \/ Return \/ Alarm

Over == pc \in {"eof", "gaveup", "crash"}

AdvNext ==
    \/ ~Over /\ (ClientStep \/ Call \/ EndOfFile \/ Receive \/ AlarmTooEarly \/ Echo)
    \/ Over /\ UNCHANGED adv_vars

AdvSpec == AdvInit /\ [][AdvNext]_adv_vars

\* The client runs and alarms go off; input, network and server owe nothing.
AdvFairSpec == AdvSpec /\ WF_adv_vars(ClientStep)

-----------------------------------------------------------------------------
AdvTypeOK ==
    /\ pc \in {"read", "send", "armed", "wait", "got", "eof", "gaveup", "crash"}
    /\ line \in 0..MaxLines
    /\ jmpbuf \in {"unset", "old", "set"}
    /\ attempt \in Nat
    /\ nrexmt \in 0..(MAXNREXMT + 1)
    /\ srtt \in Nat /\ rttvar \in Nat /\ rto \in Nat
    /\ timer \in Nat
    /\ requests \subseteq Datagrams /\ replies \subseteq Datagrams
    /\ reply \in Datagrams /\ delay \in Nat
    /\ printed \in Seq(1..MaxLines)

\* The answer accepted is that of the transmission the timer runs for, although
\* sequence numbers wrap: the time rtt_stop() is given (78) is of one datagram's
\* round trip, not of the time since an earlier transmission of the request.
SampleOfThisTransmission == pc = "got" => reply.attempt = attempt

\* What alarm() is given (57) is never 0, which would switch the timer off and leave
\* recvmsg() waiting for ever, and stays within the maximum doubled once for each
\* retransmission.  (It may exceed RTT_RXTMAX: rtt_timeout() does not limit it.)
TimerBounded ==
    pc \in {"armed", "wait", "got"} =>
        timer >= RXTMIN /\ timer <= RXTMAX * 2^nrexmt

\* One print per line, each the echo of its own line, in order: a late answer to an
\* earlier line or transmission is never taken for this one.
Abstract ==
    INSTANCE RequestReply WITH asked <- line, state <- IF Over THEN "over" ELSE "run"

ImplementsRequestReply == Abstract!Spec

\* Every call ends, whatever the network does: with an answer or, after three
\* retransmissions, without one (or in AlarmTooEarly's crash).
CallEnds == pc = "send" ~> pc = "read" \/ Over
=============================================================================
