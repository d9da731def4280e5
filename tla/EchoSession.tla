----------------------------- MODULE EchoSession -----------------------------
(***************************************************************************)
(* One session of the TCP echo service: a client that copies its standard  *)
(* input to the socket and the socket to its standard output, and the      *)
(* process or thread of the server that echoes.  kind is the client:       *)
(* str_cli (lib, stop and wait), str_cli_select (ch06), strclikqueue       *)
(* (ch14, on a terminal or a regular file), strclinonb (ch16,              *)
(* nonblocking over select, with and without its traces), strclinonb03     *)
(* (ch16, a child reads) and thread_str_cli (ch26, a thread writes).  Data *)
(* is counted in lines; TCP keeps their order.  Buffers are bounded, so a  *)
(* write blocks, or is partial, when the other side does not read.         *)
(***************************************************************************)
EXTENDS Naturals

CONSTANTS
    Inputs,    \* how many lines there may be on standard input before its end of file
    MaxLine,   \* MAXLINE: the size of to[], fr[] and of the server's buf[]
    CapC2S,    \* what the buffers between client and server hold
    CapS2C     \* the same in the other direction

ASSUME InputAssumption == Inputs \subseteq Nat
ASSUME BufferAssumption ==
    MaxLine \in Nat \ {0} /\ CapC2S \in Nat \ {0} /\ CapS2C \in Nat \ {0}

VARIABLES
    kind,      \* the client
    input,     \* the lines on its standard input; it is text
    newline,   \* the last of them ends in a newline
    cpc,       \* the client's loop, or the reader where two processes share the work
    wpc,       \* the part that copies from stdin to the socket, where it is not in that loop
    ready,     \* the descriptors select() or kevent() has reported and that are not yet looked at
    stdineof,
    left,      \* lines of stdin not yet read
    toi, too,  \* toiptr - to and tooptr - to; where there is one sendline[]: its length, what is written
    fri, fro,  \* friptr - fr and froptr - fr
    out,       \* lines on standard output
    dropped,   \* lines read from stdin and written nowhere
    ended,     \* "no", or how the client ends
    c2s, s2c,  \* lines on their way
    srv,       \* lines the server has read and not yet written
    finC,      \* the client has sent its FIN
    finS,      \* the server has closed its end
    rst,       \* "none", or an RST is "sent" by the server's host or "here" at the client
    crashed    \* the server has ended before its time

netVars == <<c2s, s2c, srv, finC, finS, rst, crashed>>
toVars == <<left, toi, too, dropped>>
frVars == <<fri, fro, out>>
given == <<kind, input, newline>>
pcVars == <<given, cpc, wpc, ready, stdineof>>
vars == <<pcVars, toVars, frVars, ended, netVars>>

Kinds == {"str_cli", "str_cli_select", "kqueue_tty", "kqueue_file",
          "strclinonb", "strclinonb03", "thread_str_cli"}
Kqueue == {"kqueue_tty", "kqueue_file"}
TwoActors == {"strclinonb03", "thread_str_cli"}
Readers == {"str_cli"} \union TwoActors      \* who use Readline(), and look for newlines

Least(a, b) == IF a <= b THEN a ELSE b

Init ==
    /\ kind \in Kinds /\ input \in Inputs
    /\ newline \in (IF kind \in Readers /\ input > 0 THEN BOOLEAN ELSE {TRUE})
    /\ cpc = "connect" /\ wpc = "none" /\ ready = {} /\ stdineof = FALSE
    /\ left = input /\ toi = 0 /\ too = 0 /\ dropped = 0
    /\ fri = 0 /\ fro = 0 /\ out = 0
    /\ ended = "no"
    /\ c2s = 0 /\ s2c = 0 /\ srv = 0
    /\ finC = FALSE /\ finS = FALSE /\ rst = "none" /\ crashed = FALSE

Running == ended = "no"

End(how) == Running /\ ended' = how /\ UNCHANGED <<pcVars, toVars, frVars, netVars>>

-----------------------------------------------------------------------------
(* The connection.                                                         *)

\* Each main() connects and calls its copy function, which starts at cpc and wpc.
At(c, w) == cpc' = c /\ wpc' = w

StrCliMain == kind = "str_cli" /\ At("none", "fgets")
SelectMain == kind = "str_cli_select" /\ At("select", "none")
KqueueMain == kind \in Kqueue /\ At("kevent", "none")
NonbMain == kind = "strclinonb" /\ At("select", "none")
ForkMain == kind = "strclinonb03" /\ At("readline", "fgets")
ThreadMain == kind = "thread_str_cli" /\ At("readline", "fgets")

Start ==
    /\ StrCliMain \/ SelectMain \/ KqueueMain \/ NonbMain \/ ForkMain \/ ThreadMain
    /\ UNCHANGED <<given, ready, stdineof, toVars, frVars, ended, netVars>>

Connect == Running /\ cpc = "connect" /\ (Start \/ End("error"))

\* connect_nonb() with no time limit: done at once, failed at once, or in progress.
ConnectNonb ==
    /\ Running /\ kind = "strclinonb"
    /\ \/ cpc = "connect" /\ (Start \/ End("error"))
       \/ /\ cpc = "connect"
          /\ cpc' = "connecting"
          /\ UNCHANGED <<given, wpc, ready, stdineof, toVars, frVars, ended, netVars>>
       \/ cpc = "connecting" /\ (Start \/ End("error"))      \* SO_ERROR tells which

\* write() of k lines to the socket: they find room, or the server has gone and its
\* host answers with an RST.
Write(k) ==
    /\ rst # "here"
    /\ IF finS THEN rst' = "sent" /\ UNCHANGED c2s
       ELSE c2s + k <= CapC2S /\ c2s' = c2s + k /\ UNCHANGED rst

Readable == s2c > 0 \/ finS
AtEOF == s2c = 0 /\ finS /\ rst # "here"
Reset == s2c = 0 /\ rst = "here"       \* read() gives ECONNRESET

\* read() of k lines from the socket.
Take(k) == k <= s2c /\ s2c' = s2c - k /\ UNCHANGED <<c2s, srv, finC, finS, rst, crashed>>

\* shutdown(sockfd, SHUT_WR).
SendFin == finC' = TRUE /\ UNCHANGED <<c2s, s2c, srv, finS, rst, crashed>>

-----------------------------------------------------------------------------
(* The server: while ((n = read(sockfd, buf, MAXLINE)) > 0) Writen(...).   *)

ServerReads ==
    /\ Running /\ ~finS /\ srv = 0
    /\ \E n \in 1..Least(MaxLine, c2s) : c2s' = c2s - n /\ srv' = n
    /\ UNCHANGED <<s2c, finC, finS, rst, crashed, pcVars, toVars, frVars, ended>>

\* Mutant of ServerWrites: a short count of write() is taken for the whole.
ServerWritesOnce ==
    /\ Running /\ ~finS /\ srv > 0 /\ s2c < CapS2C
    /\ \E n \in 1..srv : s2c + n <= CapS2C /\ s2c' = s2c + n
    /\ srv' = 0
    /\ UNCHANGED <<c2s, finC, finS, rst, crashed, pcVars, toVars, frVars, ended>>

\* Writen() goes on until everything has found room.
ServerWrites ==
    /\ Running /\ ~finS /\ srv > 0 /\ s2c < CapS2C
    /\ s2c' = s2c + 1 /\ srv' = srv - 1
    /\ UNCHANGED <<c2s, finC, finS, rst, crashed, pcVars, toVars, frVars, ended>>

\* End of file: str_echo() returns and the connection is closed.
ServerEnds ==
    /\ Running /\ ~finS /\ srv = 0 /\ c2s = 0 /\ finC
    /\ finS' = TRUE
    /\ UNCHANGED <<c2s, s2c, srv, finC, rst, crashed, pcVars, toVars, frVars, ended>>

\* The server process is killed.  Lines it has not read make its kernel send an RST,
\* else a FIN.
ServerDies ==
    /\ Running /\ ~finS /\ cpc # "connect"
    /\ finS' = TRUE /\ crashed' = TRUE
    /\ srv' = 0 /\ c2s' = 0
    /\ rst' = IF c2s > 0 THEN "sent" ELSE "none"
    /\ UNCHANGED <<s2c, finC, pcVars, toVars, frVars, ended>>

RstArrives ==
    /\ Running /\ rst = "sent"
    /\ rst' = "here"
    /\ UNCHANGED <<c2s, s2c, srv, finC, finS, crashed, pcVars, toVars, frVars, ended>>

-----------------------------------------------------------------------------
(* Blocking clients: Fgets and Writen.                                     *)

\* Writen(): a line at a time finds room, until all have.
Writen ==
    /\ Running /\ "writen" \in {cpc, wpc}
    /\ Write(1) /\ UNCHANGED <<s2c, srv, finC, finS, crashed>>
    /\ too' = too + 1
    /\ IF too + 1 < toi THEN UNCHANGED <<cpc, wpc>>
       ELSE /\ cpc' = CASE cpc # "writen" -> cpc
                        [] kind \in Kqueue -> "events"
                        [] OTHER -> "select"
            /\ wpc' = CASE wpc # "writen" -> wpc
                        [] kind = "str_cli" -> "readline"
                        [] OTHER -> "fgets"
    /\ UNCHANGED <<given, ready, stdineof, left, toi, dropped, frVars, ended>>

\* Fgets() has a line.
Fgets ==
    /\ Running /\ wpc = "fgets" /\ left > 0
    /\ left' = left - 1 /\ toi' = 1 /\ too' = 0
    /\ wpc' = "writen"
    /\ UNCHANGED <<given, cpc, ready, stdineof, dropped, frVars, ended, netVars>>

\* Fgets() returns NULL: str_cli() returns, the others shut the socket down.
FgetsEOF ==
    /\ Running /\ wpc = "fgets" /\ left = 0
    /\ \/ kind = "str_cli" /\ End("normal")
       \/ /\ kind \in TwoActors
          /\ wpc' = "shutdown"
          /\ UNCHANGED <<given, cpc, ready, stdineof, toVars, frVars, ended, netVars>>

\* Readline() has read some of a line without newline: it goes on until the end of file.
Partial == s2c > 0 /\ ~newline /\ out + 1 = input

Readline == (Partial => finS /\ rst # "here") /\ Take(1)
ReadlineFails == Reset \/ (Partial /\ rst = "here")

\* str_cli(): the echo of the line, which is printed.
StrCliReads ==
    /\ Running /\ wpc = "readline"
    /\ \/ /\ Readline
          /\ out' = out + 1
          /\ wpc' = "fgets"
          /\ UNCHANGED <<given, cpc, ready, stdineof, toVars, fri, fro, ended>>
       \/ AtEOF /\ End("premature")
       \/ ReadlineFails /\ End("error")

\* SIGPIPE: a write after the RST.
BrokenPipe ==
    /\ rst = "here"
    /\ \/ "writen" \in {cpc, wpc}
       \/ cpc = "wsock" /\ too < toi
    /\ End("killed")

-----------------------------------------------------------------------------
(* strclinonb03: the parent writes, the child reads.  thread_str_cli: a    *)
(* thread writes, main reads.                                              *)

\* Shutdown(sockfd, SHUT_WR); the parent goes to wait(), the thread to the next line.
HalfClose ==
    /\ Running /\ wpc = "shutdown"
    /\ SendFin
    /\ wpc' = IF kind = "thread_str_cli" THEN "flag" ELSE "wait"
    /\ UNCHANGED <<given, cpc, ready, stdineof, toVars, frVars, ended>>

\* stdineof = 1.
ThreadFlags ==
    /\ Running /\ wpc = "flag"
    /\ stdineof' = TRUE /\ wpc' = "done"
    /\ UNCHANGED <<given, cpc, ready, toVars, frVars, ended, netVars>>

ReaderLine ==
    /\ Running /\ cpc = "readline"
    /\ Readline
    /\ out' = out + 1
    /\ UNCHANGED <<pcVars, toVars, fri, fro, ended>>

\* The child of strclinonb03 exits at the end of file, and on an error too.
ChildExits ==
    /\ Running /\ kind = "strclinonb03" /\ cpc = "readline"
    /\ AtEOF \/ ReadlineFails
    /\ cpc' = "exited"
    /\ UNCHANGED <<given, wpc, ready, stdineof, toVars, frVars, ended, netVars>>

ParentReturns == kind = "strclinonb03" /\ wpc = "wait" /\ cpc = "exited" /\ End("normal")

\* Mutant of MainReturns: the test of stdineof is the wrong way round.
MainReturnsInverted ==
    /\ kind = "thread_str_cli" /\ cpc = "readline"
    /\ \/ AtEOF /\ End(IF stdineof THEN "premature" ELSE "normal")
       \/ ReadlineFails /\ End("error")

MainReturns ==
    /\ kind = "thread_str_cli" /\ cpc = "readline"
    /\ \/ AtEOF /\ End(IF stdineof THEN "normal" ELSE "premature")
       \/ ReadlineFails /\ End("error")

-----------------------------------------------------------------------------
(* str_cli_select.                                                         *)

\* select() reports the socket when it is readable, stdin when the user has typed.
SelectReturns(typed) ==
    /\ Running /\ kind = "str_cli_select" /\ cpc = "select"
    /\ typed => ~stdineof
    /\ Readable \/ typed
    /\ ready' = (IF Readable THEN {"sock"} ELSE {}) \union (IF typed THEN {"stdin"} ELSE {})
    /\ cpc' = IF Readable THEN "sock" ELSE "stdin"
    /\ UNCHANGED <<given, wpc, stdineof, toVars, frVars, ended, netVars>>

\* Read(sockfd), and what was read goes to stdout.
SelectSocket ==
    /\ Running /\ kind = "str_cli_select" /\ cpc = "sock"
    /\ \/ /\ \E n \in 1..Least(MaxLine, s2c) : Take(n) /\ out' = out + n
          /\ cpc' = IF "stdin" \in ready THEN "stdin" ELSE "select"
          /\ UNCHANGED <<given, wpc, ready, stdineof, toVars, fri, fro, ended>>
       \/ AtEOF /\ End(IF stdineof THEN "normal" ELSE "premature")
       \/ Reset /\ End("error")

\* Mutant of SelectStdin: the socket is shut down with a Writen() still to come.
SelectStdinEarlyFin ==
    /\ Running /\ kind = "str_cli_select" /\ cpc = "stdin"
    /\ \/ /\ \E n \in 1..Least(MaxLine, left) : left' = left - n /\ toi' = n
          /\ too' = 0
          /\ cpc' = "writen"
          /\ IF left' = 0 THEN SendFin /\ stdineof' = TRUE ELSE UNCHANGED <<stdineof, netVars>>
          /\ UNCHANGED <<given, wpc, ready, dropped, frVars, ended>>
       \/ /\ left = 0
          /\ stdineof' = TRUE /\ SendFin
          /\ cpc' = "select"
          /\ UNCHANGED <<given, wpc, ready, toVars, frVars, ended>>

\* read() and Writen(), or shutdown() at the end of file.
SelectStdin ==
    /\ Running /\ kind = "str_cli_select" /\ cpc = "stdin"
    /\ \/ /\ \E n \in 1..Least(MaxLine, left) : left' = left - n /\ toi' = n
          /\ too' = 0
          /\ cpc' = "writen"
          /\ UNCHANGED <<given, wpc, ready, stdineof, dropped, frVars, ended, netVars>>
       \/ /\ left = 0
          /\ stdineof' = TRUE /\ SendFin
          /\ cpc' = "select"
          /\ UNCHANGED <<given, wpc, ready, toVars, frVars, ended>>

-----------------------------------------------------------------------------
(* strclikqueue.                                                           *)

\* A terminal is readable when the user has typed, a file while some of it is left.
KeventReturns(typed) ==
    /\ Running /\ kind \in Kqueue /\ cpc = "kevent"
    /\ typed => ~stdineof /\ (kind = "kqueue_file" => left > 0)
    /\ Readable \/ typed
    /\ ready' = (IF Readable THEN {"sock"} ELSE {}) \union (IF typed THEN {"stdin"} ELSE {})
    /\ cpc' = "events"
    /\ UNCHANGED <<given, wpc, stdineof, toVars, frVars, ended, netVars>>

EventsDone ==
    /\ Running /\ cpc = "events" /\ ready = {}
    /\ cpc' = "kevent"
    /\ UNCHANGED <<given, wpc, ready, stdineof, toVars, frVars, ended, netVars>>

\* The order of the events is the kernel's.
EventSocket ==
    /\ Running /\ cpc = "events" /\ "sock" \in ready
    /\ \/ /\ \E n \in 1..Least(MaxLine, s2c) : Take(n) /\ out' = out + n
          /\ ready' = ready \ {"sock"}
          /\ UNCHANGED <<given, cpc, wpc, stdineof, toVars, fri, fro, ended>>
       \/ AtEOF /\ End(IF stdineof THEN "normal" ELSE "premature")
       \/ Reset /\ End("error")

\* n lines are read.  When they are all that is left of a regular file, the socket is
\* shut down and the event deleted, and the lines are not written.
EventStdin ==
    /\ Running /\ cpc = "events" /\ "stdin" \in ready
    /\ ready' = ready \ {"stdin"}
    /\ \E n \in 0..Least(MaxLine, left) :
        /\ n = 0 => left = 0
        /\ kind = "kqueue_file" => n = Least(MaxLine, left)
        /\ left' = left - n
        /\ IF n = 0 \/ (kind = "kqueue_file" /\ n = left)
           THEN /\ stdineof' = TRUE /\ SendFin
                /\ dropped' = dropped + n
                /\ UNCHANGED <<cpc, toi, too>>
           ELSE /\ toi' = n /\ too' = 0
                /\ cpc' = "writen"
                /\ UNCHANGED <<stdineof, dropped, netVars>>
    /\ UNCHANGED <<given, wpc, frVars, ended>>

-----------------------------------------------------------------------------
(* strclinonb.  One iteration of its loop looks at stdin, the socket, the  *)
(* socket for writing and stdout.                                          *)

\* The first of the descriptors r in the order the iteration looks at them.
Stage(r) ==
    CASE "stdin" \in r -> "rstdin"
      [] "sock" \in r /\ "stdin" \notin r -> "rsock"
      [] "wsock" \in r /\ r \cap {"stdin", "sock"} = {} -> "wsock"
      [] r = {"wout"} -> "wout"
      [] OTHER -> "select"

\* On to the next stage with the descriptors r.
GoOn(r) == ready' = r /\ cpc' = Stage(r)

NonbSelect(typed, drained) ==
    LET sock == fri < MaxLine /\ Readable
        wsock == too # toi /\ (c2s < CapC2S \/ finS)
    IN  /\ Running /\ kind = "strclinonb" /\ cpc = "select"
        /\ typed => ~stdineof /\ toi < MaxLine
        /\ drained => fro # fri
        /\ typed \/ drained \/ sock \/ wsock
        /\ GoOn({d \in {"stdin", "sock", "wsock", "wout"} :
                    CASE d = "stdin" -> typed [] d = "sock" -> sock
                      [] d = "wsock" -> wsock [] d = "wout" -> drained})
        /\ UNCHANGED <<given, wpc, stdineof, toVars, frVars, ended, netVars>>

\* Mutant of NonbReadStdin: at the end of file the socket is shut down whatever is in to[].
NonbReadStdinEarlyFin ==
    /\ Running /\ cpc = "rstdin"
    /\ \/ /\ \E n \in 1..Least(MaxLine - toi, left) : toi' = toi + n /\ left' = left - n
          /\ GoOn((ready \ {"stdin"}) \union {"wsock"})
          /\ UNCHANGED <<given, wpc, stdineof, too, dropped, frVars, ended, netVars>>
       \/ /\ left = 0
          /\ stdineof' = TRUE
          /\ SendFin
          /\ GoOn(ready \ {"stdin"})
          /\ UNCHANGED <<given, wpc, toVars, frVars, ended>>

\* Mutant of NonbReadStdin: the FIN is left to NonbWriteSocket, also when to[] is empty.
NonbReadStdinNoFin ==
    /\ Running /\ cpc = "rstdin"
    /\ \/ /\ \E n \in 1..Least(MaxLine - toi, left) : toi' = toi + n /\ left' = left - n
          /\ GoOn((ready \ {"stdin"}) \union {"wsock"})
          /\ UNCHANGED <<stdineof, netVars>>
       \/ /\ left = 0
          /\ stdineof' = TRUE
          /\ GoOn(ready \ {"stdin"})
          /\ UNCHANGED <<left, toi, netVars>>
    /\ UNCHANGED <<given, wpc, too, dropped, frVars, ended>>

NonbReadStdin ==
    /\ Running /\ cpc = "rstdin"
    /\ \/ /\ \E n \in 1..Least(MaxLine - toi, left) : toi' = toi + n /\ left' = left - n
          /\ GoOn((ready \ {"stdin"}) \union {"wsock"})      \* try and write below
          /\ UNCHANGED <<given, wpc, stdineof, too, dropped, frVars, ended, netVars>>
       \/ /\ left = 0
          /\ stdineof' = TRUE
          /\ IF too = toi THEN SendFin ELSE UNCHANGED netVars
          /\ GoOn(ready \ {"stdin"})
          /\ UNCHANGED <<given, wpc, toVars, frVars, ended>>

NonbReadSocket ==
    /\ Running /\ cpc = "rsock"
    /\ \/ /\ \E n \in 1..Least(MaxLine - fri, s2c) : Take(n) /\ fri' = fri + n
          /\ GoOn((ready \ {"sock"}) \union {"wout"})
          /\ UNCHANGED <<given, wpc, stdineof, toVars, fro, out, ended>>
       \/ AtEOF /\ End(IF stdineof THEN "normal" ELSE "premature")
       \/ Reset /\ End("error")

\* EWOULDBLOCK.
NonbNoRoom ==
    /\ Running /\ cpc = "wsock" /\ ~finS /\ c2s = CapC2S
    /\ GoOn(ready \ {"wsock"})
    /\ UNCHANGED <<given, wpc, stdineof, toVars, frVars, ended, netVars>>

\* Part of to[] is written.  Empty, it starts from the front again, and after the end
\* of file on stdin the FIN follows.
NonbWriteSocket ==
    /\ Running /\ cpc = "wsock" /\ too < toi
    /\ \E n \in 1..(toi - too) :
        /\ Write(n)
        /\ IF too + n = toi THEN toi' = 0 /\ too' = 0 ELSE toi' = toi /\ too' = too + n
        /\ finC' = (finC \/ (too + n = toi /\ stdineof))
    /\ GoOn(ready \ {"wsock"})
    /\ UNCHANGED <<given, wpc, stdineof, left, dropped, frVars, ended, s2c, srv, finS, crashed>>

\* Mutant of NonbWriteOut: friptr is set back although froptr has not reached it.
NonbWriteOutReset(n) ==
    /\ Running /\ cpc = "wout" /\ n <= fri - fro /\ fro < fri
    /\ out' = out + n
    /\ fri' = 0 /\ fro' = 0
    /\ GoOn(ready \ {"wout"})
    /\ UNCHANGED <<given, wpc, stdineof, toVars, ended, netVars>>

\* Part of fr[] is written to stdout, or nothing (EWOULDBLOCK).
NonbWriteOut(n) ==
    /\ Running /\ cpc = "wout" /\ n <= fri - fro /\ fro < fri
    /\ out' = out + n
    /\ IF fro + n = fri THEN fri' = 0 /\ fro' = 0 ELSE fri' = fri /\ fro' = fro + n
    /\ GoOn(ready \ {"wout"})
    /\ UNCHANGED <<given, wpc, stdineof, toVars, ended, netVars>>

-----------------------------------------------------------------------------
Typed(typed) ==
    \/ SelectReturns(typed) \/ KeventReturns(typed)
    \/ \E drained \in BOOLEAN : NonbSelect(typed, drained)

Loop ==
    \/ Connect \/ ConnectNonb
    \/ Fgets \/ FgetsEOF \/ Writen \/ BrokenPipe
    \/ StrCliReads
    \/ ReaderLine \/ ChildExits \/ ParentReturns \/ MainReturns
    \/ SelectSocket \/ SelectStdin
    \/ EventsDone \/ EventSocket \/ EventStdin
    \/ NonbReadStdin \/ NonbReadSocket \/ NonbNoRoom \/ NonbWriteSocket
    \/ \E n \in 0..MaxLine : NonbWriteOut(n)
    \/ \E typed \in BOOLEAN : Typed(typed)

Closing == HalfClose \/ ThreadFlags

Client == Loop \/ Closing

Server == ServerReads \/ ServerWrites \/ ServerEnds \/ RstArrives

\* After the client has ended nothing of interest happens.
Finished == ~Running /\ UNCHANGED vars

Next == Client \/ Server \/ ServerDies \/ Finished

Spec == Init /\ [][Next]_vars

\* Processes run, the network delivers, the user comes to the end of the input and
\* whoever reads standard output goes on.  The server need not die.
FairSpec ==
    /\ Spec
    /\ WF_vars(Loop) /\ WF_vars(Closing) /\ WF_vars(Server)
    /\ SF_vars(Typed(TRUE))
    /\ SF_vars(\E typed \in BOOLEAN : NonbSelect(typed, TRUE))
    /\ SF_vars(\E n \in 1..MaxLine : NonbWriteOut(n))

-----------------------------------------------------------------------------
(* Properties.                                                             *)

TypeOK ==
    /\ kind \in Kinds /\ input \in Nat /\ newline \in BOOLEAN
    /\ cpc \in {"connect", "connecting", "none", "select", "kevent", "events", "sock", "stdin",
               "rstdin", "rsock", "wsock", "wout", "writen", "readline", "exited"}
    /\ wpc \in {"none", "fgets", "writen", "readline", "shutdown", "flag", "wait", "done"}
    /\ ready \subseteq {"stdin", "sock", "wsock", "wout"}
    /\ stdineof \in BOOLEAN
    /\ left \in Nat /\ dropped \in Nat /\ out \in Nat
    /\ toi \in 0..MaxLine /\ too \in 0..toi
    /\ fri \in 0..MaxLine /\ fro \in 0..fri
    /\ ended \in {"no", "normal", "premature", "error", "killed"}
    /\ c2s \in 0..CapC2S /\ s2c \in 0..CapS2C /\ srv \in 0..MaxLine
    /\ finC \in BOOLEAN /\ finS \in BOOLEAN /\ crashed \in BOOLEAN
    /\ rst \in {"none", "sent", "here"}

\* A client whose server was not killed and that returns normally has printed the echo
\* of the whole input - but for what the kqueue client drops at the end of a regular
\* file (strclikqueue.c:48-55) and what a nonblocking client still holds in fr[] when
\* it reads the end of file (strclinonb.c:74-76).
NothingLost ==
    ended = "normal" /\ ~crashed =>
        /\ out + dropped + (fri - fro) = input
        /\ dropped <= IF kind = "kqueue_file" THEN MaxLine ELSE 0
        /\ kind # "strclinonb" => fri = fro

\* The FIN is the last thing the client sends: when the socket is shut down nothing of
\* the input is left, in stdin or in to[], though it may take several iterations
\* after the end of file to write it.
FinLast == finC => left = 0 /\ too = toi

\* "server terminated prematurely" is true, but for the thread of ch26, which sends its
\* FIN before it sets stdineof (thread_str_cli.c:33-34): if the echo and the
\* server's FIN come in between, main takes a complete session for a failure.
PrematureMeansCrash ==
    ended = "premature" =>
        crashed \/ (kind = "thread_str_cli" /\ wpc = "flag" /\ out = input)

\* The client is in Writen(), the server in its own, and neither reads.
MutualWait ==
    /\ cpc = "writen" /\ c2s = CapC2S
    /\ srv > 0 /\ s2c = CapS2C

\* str_cli has the echo of a last line without newline and reads on: the FIN that would
\* end the read is to be sent after it.
WantsNewline == kind = "str_cli" /\ wpc = "readline" /\ Partial

\* Of an empty regular file there is no event, not even its end.
NoEvent == kind = "kqueue_file" /\ input = 0 /\ cpc = "kevent"

\* Every session comes to an end, also when the server dies, with three exceptions while
\* it lives.  A loop that reads and writes with blocking calls (select, kqueue) may be
\* writing when its echoes have filled the buffers, and the server then cannot read: the
\* nonblocking client and those with a process or thread for each direction are safe
\* from that.  str_cli waits for a newline (str_cli.c:12) its input does not have, and
\* strclikqueue for an event an empty file does not give.
SessionEnds ==
    \/ <>(~Running)
    \/ <>[](kind \in {"str_cli_select"} \union Kqueue /\ MutualWait)
    \/ <>[](WantsNewline \/ NoEvent)

=============================================================================
