---------------------------- MODULE TimedRecvProofs ----------------------------
(***************************************************************************)
(* Proofs about TimedRecv, for any number of lines, of replies to each and *)
(* of strange datagrams: to whom an answer belongs, and where siglongjmp() *)
(* goes.                                                                   *)
(*                                                                         *)
(* Nothing comes for a line before it is sent (Sent), and every line that  *)
(* is over was answered or timed out (Ended).  So when a reply of an       *)
(* earlier line k is taken now, line k timed out, or had a reply of its    *)
(* own, or took what belongs before it: and then the same holds of k.      *)
(***************************************************************************)
EXTENDS TimedRecv, TLAPS

Places ==
    {"fgets", "arm", "setjmp", "unmask", "pause", "paused", "pselect", "select",
     "recv", "blocked", "reply", "pipe"}

\* The two halves of TypeOK.
NetTypes ==
    /\ kind \in Kinds /\ pc \in Places /\ line \in 0..Lines
    /\ pc # "fgets" => line > 0
    /\ inflight \subseteq Replies /\ sockbuf \subseteq Replies
    /\ IF pc = "reply" THEN \E r \in Replies : reply = {r} ELSE reply = {}
    /\ shown \subseteq (1..Lines) \X Replies
    /\ timedout \subseteq 1..Lines

SignalTypes ==
    /\ armed \in BOOLEAN /\ masked \in BOOLEAN /\ pending \in BOOLEAN
    /\ jmpbuf \in 0..line /\ missed \in 0..line
    /\ pipe \in BOOLEAN /\ late \in BOOLEAN
    /\ ended \in {"no", "normal", "stray", "killed"}

Around == inflight \union sockbuf \union reply
Sent == \A r \in Around : r[1] <= line

One == program.takes = "one"

Ended ==
    One /\ kind # "tracert" =>
        \A l \in 1..line :
            l < line \/ pc = "fgets" => l \in timedout \/ \E r \in Replies : <<l, r>> \in shown

\* What AnswerBelongs says of one answer.
Excused(s) ==
    \/ s[2][1] = s[1]
    \/ /\ kind # "tracert" /\ s[2][1] < s[1]
       /\ \/ Fooled(s[1])
          \/ \E l \in 1..s[2][1] : l \in timedout \/ Fooled(l)

Replied == Sent /\ Ended /\ AnswerBelongs

\* Once the timer may have been started the buffer is that of a call still active, but
\* for the step between alarm() and sigsetjmp().
JmpBuf ==
    kind = "jmp" /\ jmpbuf = 0 =>
        \/ pc = "fgets" /\ line = 0 /\ ~armed /\ ~pending
        \/ pc = "arm" /\ line = 1 /\ ~armed /\ ~pending
        \/ pc = "setjmp" /\ line = 1
TraceBuf ==
    kind = "tracert" =>
        /\ pc \in {"fgets", "arm"} => ~armed /\ ~pending
        /\ ~(armed /\ pending)
        /\ pc \in {"fgets", "arm", "setjmp"} \/ (pc \in {"recv", "blocked", "reply"} /\ jmpbuf = line)
Jumpers == {"jmp", "tracert"}
Jumping ==
    /\ kind \in Jumpers => ~masked
    /\ ended = "stray" => kind \in Jumpers
    /\ JmpBuf /\ TraceBuf
    /\ StrayJump

IInv == NetTypes /\ SignalTypes /\ Replied /\ Jumping

-----------------------------------------------------------------------------
(* The table of the programs.                                              *)

AllKinds ==
    {"bcast", "mcast", "err", "jmp", "ipc", "sel", "sel_lib", "my_dg_cli", "my_dg_cli2",
     "my_dg_cli3", "dg_cli", "prac_dg_cli02", "tracert", "connect_timeo",
     "my_connect_timeo", "exer01_connect_timeo"}

Printers == {"bcast", "mcast", "err", "jmp", "ipc", "sel", "sel_lib"}

LEMMA KindsAre == Kinds = AllKinds
  BY DEF Kinds, Programs, AllKinds

LEMMA ProgramOf ==
    /\ kind \in {"bcast", "mcast"} => program = Bcast
    /\ kind = "err" => program = BcastErr
    /\ kind = "jmp" => program = BcastJmp
    /\ kind = "ipc" => program = BcastIpc
    /\ kind \in {"sel", "sel_lib"} => program = BcastSel
    /\ kind \in {"my_dg_cli", "connect_timeo", "my_connect_timeo"} => program = MyDgCli
    /\ kind \in {"my_dg_cli2", "my_dg_cli3"} => program = MyDgCli2
    /\ kind \in {"dg_cli", "prac_dg_cli02"} => program = DgCli
    /\ kind = "tracert" => program = Tracert
    /\ kind = "exer01_connect_timeo" => program = Exer01ConnectTimeo
  BY DEF program, Programs, Mcast, SelLib, MyDgCli3, PracDgCli02, ConnectTimeo, MyConnectTimeo

Loops == {"recv", "unmask", "setjmp", "select", "pselect", "blocked"}

LEMMA Programmed ==
    ASSUME kind \in Kinds
    PROVE  /\ kind \in Printers => program.takes = "all"
           /\ kind \notin Printers => program.takes = "one"
           /\ program.handler = "jumps" <=> kind \in Jumpers
           /\ kind \in Jumpers => program.timer = "alarm" /\ program.loop = "setjmp"
           /\ program.loop \in Loops
           /\ program.timer \in {"alarm", "call", "none"}
<1>1. /\ Bcast.takes = "all" /\ Bcast.handler = "returns" /\ Bcast.loop = "recv"
      /\ Bcast.timer = "alarm"
  BY DEF Bcast
<1>2. /\ BcastErr.takes = "all" /\ BcastErr.handler = "returns" /\ BcastErr.loop = "unmask"
      /\ BcastErr.timer = "alarm"
  BY DEF Bcast, BcastErr
<1>3. /\ BcastJmp.takes = "all" /\ BcastJmp.handler = "jumps" /\ BcastJmp.loop = "setjmp"
      /\ BcastJmp.timer = "alarm"
  BY DEF Bcast, BcastJmp
<1>4. /\ BcastIpc.takes = "all" /\ BcastIpc.handler = "writes" /\ BcastIpc.loop = "select"
      /\ BcastIpc.timer = "alarm"
  BY DEF Bcast, BcastIpc
<1>5. /\ BcastSel.takes = "all" /\ BcastSel.handler = "returns" /\ BcastSel.loop = "pselect"
      /\ BcastSel.timer = "alarm"
  BY DEF Bcast, BcastSel
<1>6. /\ MyDgCli.takes = "one" /\ MyDgCli.handler = "returns" /\ MyDgCli.loop = "recv"
      /\ MyDgCli.timer = "alarm"
  BY DEF Bcast, MyDgCli
<1>7. /\ MyDgCli2.takes = "one" /\ MyDgCli2.handler = "none" /\ MyDgCli2.loop = "blocked"
      /\ MyDgCli2.timer = "call"
  BY DEF MyDgCli2
<1>8. /\ DgCli.takes = "one" /\ DgCli.handler = "none" /\ DgCli.loop = "recv"
      /\ DgCli.timer = "none"
  BY DEF DgCli
<1>9. /\ Tracert.takes = "one" /\ Tracert.handler = "jumps" /\ Tracert.loop = "setjmp"
      /\ Tracert.timer = "alarm"
  BY DEF Tracert
<1>10. /\ Exer01ConnectTimeo.takes = "one" /\ Exer01ConnectTimeo.handler = "default"
       /\ Exer01ConnectTimeo.loop = "recv" /\ Exer01ConnectTimeo.timer = "alarm"
  BY DEF Bcast, MyDgCli, ConnectTimeo, Exer01ConnectTimeo
<1>11. kind \in AllKinds
  BY KindsAre
<1>12. CASE kind \in {"bcast", "mcast", "err", "jmp"}
  BY <1>1, <1>2, <1>3, <1>12, ProgramOf DEF Printers, Jumpers, Loops
<1>13. CASE kind \in {"ipc", "sel", "sel_lib"}
  BY <1>4, <1>5, <1>13, ProgramOf DEF Printers, Jumpers, Loops
<1>14. CASE kind \in {"my_dg_cli", "connect_timeo", "my_connect_timeo"}
  BY <1>6, <1>14, ProgramOf DEF Printers, Jumpers, Loops
<1>15. CASE kind \in {"my_dg_cli2", "my_dg_cli3"}
  BY <1>7, <1>15, ProgramOf DEF Printers, Jumpers, Loops
<1>16. CASE kind \in {"dg_cli", "prac_dg_cli02", "tracert", "exer01_connect_timeo"}
  BY <1>8, <1>9, <1>10, <1>16, ProgramOf DEF Printers, Jumpers, Loops
<1>17. QED
  BY <1>11, <1>12, <1>13, <1>14, <1>15, <1>16 DEF AllKinds

LEMMA Types == TypeOK /\ (pc # "fgets" => line > 0) <=> NetTypes /\ SignalTypes
  BY DEF TypeOK, NetTypes, SignalTypes, Places

LEMMA ComingReplies ==
    ASSUME NEW l \in 1..Lines
    PROVE  Coming(l) \subseteq Replies /\ \A r \in Coming(l) : r[1] \in {0, l}
  BY LinesAssumption DEF Coming, Replies, Foreign

LEMMA ReplyLine == ASSUME NEW r \in Replies PROVE r[1] \in 0..Lines /\ r[1] \in Nat
  BY LinesAssumption DEF Replies, Foreign

-----------------------------------------------------------------------------
(* Replies.                                                                *)

LEMMA NetInit == Init => NetTypes /\ Replied
<1> SUFFICES ASSUME Init PROVE NetTypes /\ Replied
  OBVIOUS
<1>1. NetTypes
  BY LinesAssumption DEF Init, NetTypes, Places
<1>2. Around = {} /\ shown = {} /\ line = 0
  BY DEF Init, Around
<1>3. Sent /\ AnswerBelongs
  BY <1>2 DEF Sent, AnswerBelongs
<1>4. Ended
  BY <1>2 DEF Ended
<1>5. QED
  BY <1>1, <1>3, <1>4 DEF Replied

\* What is excused once stays so: shown and timedout only grow.
LEMMA ExcusedStays ==
    ASSUME NEW s, Excused(s), kind' = kind, shown \subseteq shown', timedout \subseteq timedout'
    PROVE  Excused(s)'
<1>1. \A l : Fooled(l) => Fooled(l)'
  BY DEF Fooled
<1>2. QED
  BY <1>1 DEF Excused

LEMMA BelongsStays ==
    ASSUME AnswerBelongs, kind' = kind, shown' = shown, timedout \subseteq timedout'
    PROVE  AnswerBelongs'
<1>1. program' = program
  BY DEF program
<1>2. One => \A s \in shown : Excused(s)
  BY DEF AnswerBelongs, Excused, One
<1>3. One => \A s \in shown : Excused(s)'
  BY <1>2, ExcusedStays
<1>4. QED
  BY <1>1, <1>3 DEF AnswerBelongs, Excused, One

\* A step that touches no reply, and comes neither to fgets() nor from it.
Quiet ==
    /\ kind' = kind /\ line' = line
    /\ inflight' = inflight /\ sockbuf' = sockbuf /\ reply' = reply
    /\ shown' = shown /\ timedout' = timedout
    /\ pc' \in Places
    /\ pc' = "fgets" <=> pc = "fgets"
    /\ pc' = "reply" <=> pc = "reply"

LEMMA QuietKeeps ==
    ASSUME NetTypes, Replied, Quiet
    PROVE  NetTypes' /\ Replied'
<1>1. NetTypes'
  BY DEF NetTypes, Quiet
<1>2. Around' = Around /\ program' = program
  BY DEF Quiet, Around, program
<1>3. Sent'
  BY <1>2 DEF Replied, Quiet, Sent
<1>4. AnswerBelongs'
  BY BelongsStays DEF Replied, Quiet
<1>5. Ended'
  BY <1>2 DEF Replied, Quiet, Ended, One
<1>6. QED
  BY <1>1, <1>3, <1>4, <1>5 DEF Replied

\* The wait for a reply is over without one.
Gives ==
    /\ kind' = kind /\ line' = line /\ line > 0
    /\ inflight' = inflight /\ sockbuf' = sockbuf
    /\ TimedOut

LEMMA GivesKeeps ==
    ASSUME NetTypes, Replied, Gives
    PROVE  NetTypes' /\ Replied'
<1>1. timedout' = timedout \union {line} /\ shown' = shown /\ reply' = {} /\ pc' = "fgets"
  BY DEF Gives, TimedOut
<1>2. NetTypes'
  BY <1>1 DEF NetTypes, Gives, Places
<1>3. Around' \subseteq Around /\ program' = program
  BY <1>1 DEF Gives, Around, program
<1>4. Sent'
  BY <1>1, <1>3 DEF Replied, Gives, Sent
<1>5. AnswerBelongs'
  BY <1>1, BelongsStays DEF Replied, Gives
<1>6. Ended'
  <2>1. \A l \in 1..line : l < line \/ l = line
    BY DEF NetTypes
  <2>2. QED
    BY <1>1, <1>3, <2>1 DEF Replied, Gives, Ended, One
<1>7. QED
  BY <1>2, <1>4, <1>5, <1>6 DEF Replied

LEMMA ArrivesKeeps ==
    ASSUME NetTypes, Replied, NEW r \in Replies, Arrives(r)
    PROVE  NetTypes' /\ Replied'
<1>1. /\ inflight' = inflight \ {r} /\ sockbuf' = sockbuf \union {r} /\ r \in inflight
      /\ kind' = kind /\ line' = line /\ pc' = pc
      /\ reply' = reply /\ shown' = shown /\ timedout' = timedout
  BY DEF Arrives, resultVars
<1>2. NetTypes'
  BY <1>1 DEF NetTypes
<1>3. Around' = Around /\ program' = program
  BY <1>1 DEF Around, program
<1>4. Sent'
  BY <1>1, <1>3 DEF Replied, Sent
<1>5. AnswerBelongs'
  BY <1>1, BelongsStays DEF Replied
<1>6. Ended'
  BY <1>1, <1>3 DEF Replied, Ended, One
<1>7. QED
  BY <1>2, <1>4, <1>5, <1>6 DEF Replied

LEMMA SendKeeps ==
    ASSUME NetTypes, Replied, Send
    PROVE  NetTypes' /\ Replied'
<1>1. /\ kind' = kind /\ line' = line + 1 /\ pc = "fgets"
      /\ inflight' = inflight \union Coming(line')
      /\ sockbuf' = sockbuf /\ reply' = reply /\ shown' = shown /\ timedout' = timedout
  BY DEF Send, resultVars
<1>2. pc' \in Loops \union {"arm"}
  BY Programmed DEF NetTypes, Send, Loops
<1>3. line \in Nat /\ line < Lines /\ line' \in 1..Lines
  <2>1. line < Lines
    BY LinesAssumption DEF NetTypes, Send
  <2>2. QED
    BY <1>1, <2>1, LinesAssumption DEF NetTypes
<1>4. PICK n \in 1..Lines : n = line + 1 /\ n = line' /\ inflight' = inflight \union Coming(line')
  BY <1>1, <1>3
<1> DEFINE new == Coming(line')
<1>5. new \subseteq Replies /\ \A r \in new : r[1] \in {0, line'}
  <2>1. \A l \in 1..Lines : Coming(l) \subseteq Replies /\ \A r \in Coming(l) : r[1] \in {0, l}
    BY ComingReplies
  <2>2. QED
    BY <1>3, <2>1
<1> HIDE DEF new
<1>6. NetTypes'
  <2>1. pc' \in Places /\ pc' # "fgets" /\ pc' # "reply"
    BY <1>2 DEF Loops, Places
  <2>2. inflight' \subseteq Replies
    BY <1>4, <1>5 DEF NetTypes, new
  <2>3. line' \in 0..Lines /\ line' > 0
    BY <1>3, LinesAssumption
  <2>4. QED
    BY <1>1, <2>1, <2>2, <2>3 DEF NetTypes
<1>7. Around' = Around \union new /\ program' = program
  BY <1>1 DEF Around, program, new
<1>8. Sent'
  <2>1. \A r \in Around : r[1] <= line /\ r[1] \in Nat
    BY ReplyLine DEF Replied, Sent, NetTypes, Around
  <2>2. \A r \in Around : r[1] <= line'
    BY <1>1, <1>3, <2>1
  <2>3. \A r \in new : r[1] <= line'
    BY <1>3, <1>5, LinesAssumption
  <2>4. QED
    BY <1>7, <2>2, <2>3 DEF Sent
<1>9. AnswerBelongs'
  BY <1>1, BelongsStays DEF Replied
<1>10. Ended'
  <2>1. pc' # "fgets" /\ \A l \in 1..line' : l < line' => l \in 1..line
    BY <1>1, <1>2, <1>3 DEF Loops
  <2>2. QED
    BY <1>1, <1>7, <2>1 DEF Replied, Ended, One
<1>11. QED
  BY <1>6, <1>8, <1>9, <1>10 DEF Replied

LEMMA RecvfromKeeps ==
    ASSUME NetTypes, Replied, Recvfrom
    PROVE  NetTypes' /\ Replied'
<1>1. PICK r \in sockbuf : reply' = {r} /\ sockbuf' = sockbuf \ {r}
  BY DEF Recvfrom
<1>2. /\ kind' = kind /\ line' = line /\ pc' = "reply" /\ pc \in {"recv", "blocked"}
      /\ inflight' = inflight /\ shown' = shown /\ timedout' = timedout
  BY DEF Recvfrom, resultVars
<1>3. r \in Replies /\ reply = {}
  BY <1>2 DEF NetTypes
<1>4. NetTypes'
  BY <1>1, <1>2, <1>3 DEF NetTypes, Places
<1>5. Around' = Around /\ program' = program
  BY <1>1, <1>2, <1>3 DEF Around, program
<1>6. Sent'
  BY <1>2, <1>5 DEF Replied, Sent
<1>7. AnswerBelongs'
  BY <1>2, BelongsStays DEF Replied
<1>8. Ended'
  BY <1>2, <1>5 DEF Replied, Ended, One
<1>9. QED
  BY <1>4, <1>6, <1>7, <1>8 DEF Replied

\* printf() and a probe that is not the one sent last: the reply is gone.
Discards ==
    /\ kind' = kind /\ line' = line /\ inflight' = inflight /\ sockbuf' = sockbuf
    /\ shown' = shown /\ timedout' = timedout
    /\ pc = "reply" /\ reply' = {}
    /\ pc' \in Places \ {"fgets", "reply"}

LEMMA DiscardsKeep ==
    ASSUME NetTypes, Replied, Discards
    PROVE  NetTypes' /\ Replied'
<1>1. NetTypes'
  BY DEF NetTypes, Discards
<1>2. Around' \subseteq Around /\ program' = program
  BY DEF Around, program, Discards
<1>3. Sent'
  BY <1>2 DEF Replied, Sent, Discards
<1>4. AnswerBelongs'
  BY BelongsStays DEF Replied, Discards
<1>5. Ended'
  BY <1>2 DEF Replied, Ended, One, Discards
<1>6. QED
  BY <1>1, <1>3, <1>4, <1>5 DEF Replied

LEMMA PrintKeeps ==
    ASSUME NetTypes, Replied, PrintReply
    PROVE  NetTypes' /\ Replied'
<1>1. pc' \in Loops \union {"pipe"}
  BY Programmed DEF PrintReply, NetTypes
<1>2. Discards
  BY <1>1 DEF PrintReply, Discards, netVars, resultVars, Loops, Places
<1>3. QED
  BY <1>2, DiscardsKeep

LEMMA OtherKeeps ==
    ASSUME NetTypes, Replied, OtherProbe
    PROVE  NetTypes' /\ Replied'
<1>1. Discards
  BY DEF OtherProbe, Discards, netVars, resultVars, Places
<1>2. QED
  BY <1>1, DiscardsKeep

\* A reply taken for an answer in a later line: the argument of the header.
LEMMA Belongs ==
    ASSUME NetTypes, Replied, NEW r \in Replies, reply = {r}, One, kind # "tracert",
           kind' = kind, timedout' = timedout,
           NEW n, NEW p, n = line, p = <<n, r>>, shown' = shown \union {p}
    PROVE  Excused(p)'
<1> DEFINE k == r[1]
<1>1. /\ p[1] = n /\ p[2] = r /\ kind' # "tracert"
      /\ p \in shown' /\ shown \subseteq shown'
  OBVIOUS
<1>2. k \in Nat /\ n \in Nat /\ k <= n
  <2>1. r \in Around
    BY DEF Around
  <2>2. QED
    BY <2>1, ReplyLine, LinesAssumption DEF Replied, Sent, NetTypes
<1>3. CASE k = n
  BY <1>1, <1>3 DEF Excused
<1>4. CASE k # n /\ (k = 0 \/ \E t \in shown : t[1] = k /\ t[2][1] = k)
  <2>1. k < n
    BY <1>2, <1>4
  <2>2. \/ k = 0
        \/ \E t \in shown' : t[1] < n /\ t[2][1] = k
    BY <1>1, <1>4, <2>1
  <2>3. Fooled(n)'
    <3>1. \E s \in shown' : s[1] = n /\ (s[2][1] = 0 \/ \E t \in shown' : t[1] < n /\ t[2][1] = s[2][1])
      BY <1>1, <2>2
    <3>2. QED
      BY <3>1 DEF Fooled
  <2>4. QED
    BY <1>1, <2>1, <2>3 DEF Excused, Fooled
<1>5. CASE k # n /\ k # 0 /\ ~\E t \in shown : t[1] = k /\ t[2][1] = k
  <2>1. k < n /\ k \in 1..n /\ k \in 1..k
    BY <1>2, <1>5
  <2>2. k \in timedout \/ \E q \in Replies : <<k, q>> \in shown
    BY <2>1 DEF Replied, Ended
  <2>3. \E l \in 1..k : l \in timedout \/ Fooled(l)
    <3>1. CASE k \in timedout
      BY <2>1, <3>1
    <3>2. ASSUME NEW q \in Replies, <<k, q>> \in shown
          PROVE  \E l \in 1..k : l \in timedout \/ Fooled(l)
      <4>1. <<k, q>>[1] = k /\ <<k, q>>[2] = q
        OBVIOUS
      <4>2. q[1] # k
        BY <1>5, <3>2, <4>1
      <4>3. Excused(<<k, q>>)
        BY <3>2 DEF Replied, AnswerBelongs, Excused, One
      <4>4. q[1] < k /\ (Fooled(k) \/ \E l \in 1..q[1] : l \in timedout \/ Fooled(l))
        BY <4>1, <4>2, <4>3 DEF Excused
      <4>5. q[1] \in Nat /\ \A l \in 1..q[1] : l \in 1..k
        BY <1>2, <4>4, ReplyLine
      <4>6. QED
        BY <2>1, <4>4, <4>5
    <3>3. QED
      BY <2>2, <3>1, <3>2
  <2>4. \E l \in 1..k : l \in timedout' \/ Fooled(l)'
    BY <1>1, <2>3 DEF Fooled
  <2>5. QED
    BY <1>1, <2>1, <2>4 DEF Excused
<1>6. QED
  BY <1>3, <1>4, <1>5

LEMMA TakeKeeps ==
    ASSUME NetTypes, Replied, TakeAnswer
    PROVE  NetTypes' /\ Replied'
<1>1. /\ kind' = kind /\ line' = line /\ inflight' = inflight /\ sockbuf' = sockbuf
      /\ pc = "reply" /\ pc' = "fgets" /\ One /\ Show
      /\ kind = "tracert" => \A r \in reply : r[1] = line
  BY DEF TakeAnswer, netVars, One
<1>2. PICK r \in Replies : reply = {r}
  BY <1>1 DEF NetTypes
<1>3. shown' = shown \union {<<line, r>>} /\ reply' = {} /\ timedout' = timedout
  <2>1. (CHOOSE x \in reply : TRUE) = r
    BY <1>2
  <2>2. QED
    BY <1>1, <2>1 DEF Show
<1>4. line \in 1..Lines
  BY <1>1, LinesAssumption DEF NetTypes
<1>5. NetTypes'
  <2>1. <<line, r>> \in (1..Lines) \X Replies
    BY <1>4
  <2>2. shown' \subseteq (1..Lines) \X Replies
    BY <1>3, <2>1 DEF NetTypes
  <2>3. QED
    BY <1>1, <1>3, <2>2 DEF NetTypes, Places
<1>6. Around' \subseteq Around /\ program' = program
  BY <1>1, <1>3 DEF Around, program
<1>7. Sent'
  BY <1>1, <1>6 DEF Replied, Sent
<1>8. Ended'
  <2>1. \A l \in 1..line : l < line \/ l = line
    BY DEF NetTypes
  <2>2. QED
    BY <1>1, <1>3, <1>6, <2>1 DEF Replied, Ended, One
<1>9. AnswerBelongs'
  <2>1. \A n, p : n = line /\ p = <<n, r>> => Excused(p)'
    <3>0. SUFFICES ASSUME NEW n, NEW p, n = line, p = <<n, r>>  PROVE Excused(p)'
      OBVIOUS
    <3>1. CASE kind = "tracert"
      <4>1. p[2][1] = p[1]
        BY <1>1, <1>2, <3>0, <3>1
      <4>2. QED
        BY <4>1 DEF Excused
    <3>2. CASE kind # "tracert"
      BY <1>1, <1>2, <1>3, <3>0, <3>2, Belongs
    <3>3. QED
      BY <3>1, <3>2
  <2>2. \A s \in shown : Excused(s)
    BY <1>1 DEF Replied, AnswerBelongs, Excused, One
  <2>3. \A s \in shown : Excused(s)'
    BY <1>1, <1>3, <2>2, ExcusedStays
  <2>4. \A s \in shown' : Excused(s)'
    BY <1>3, <2>1, <2>3
  <2>5. QED
    BY <2>4 DEF AnswerBelongs, Excused
<1>10. QED
  BY <1>5, <1>7, <1>8, <1>9 DEF Replied

LEMMA QuietSteps ==
    ASSUME NetTypes, Running,
           \/ NoMore \/ Arm \/ Setjmp \/ Unmask \/ Sleep \/ SocketReady
           \/ Expires \/ Unnoticed \/ WritePipe \/ AlarmKills
           \/ (Jump /\ ~Jumpable)
    PROVE  Quiet
<1>1. CASE NoMore \/ AlarmKills \/ (Jump /\ ~Jumpable)
  BY <1>1 DEF NoMore, AlarmKills, Jump, End, NetTypes, Quiet, netVars, resultVars
<1>2. CASE Arm
  BY <1>2, Programmed DEF Arm, NetTypes, Quiet, netVars, resultVars, Loops, Places
<1>3. CASE Setjmp \/ Unmask
  BY <1>3 DEF Setjmp, Unmask, NetTypes, Quiet, netVars, resultVars, Places
<1>4. CASE Sleep
  BY <1>4 DEF Sleep, NetTypes, Quiet, netVars, resultVars, Places
<1>5. CASE SocketReady
  BY <1>5 DEF SocketReady, NetTypes, Quiet, netVars, resultVars, Places
<1>6. CASE Expires \/ WritePipe \/ Unnoticed
  BY <1>6 DEF Expires, WritePipe, Unnoticed, NetTypes, Quiet, netVars, resultVars, Places
<1>7. QED
  BY <1>1, <1>2, <1>3, <1>4, <1>5, <1>6

LEMMA GivesSteps ==
    ASSUME NetTypes, jmpbuf \in 0..line,
           CallTimesOut \/ Interrupted \/ (Jump /\ Jumpable) \/ ReadPipe
    PROVE  Gives
<1>1. CASE CallTimesOut
  BY <1>1 DEF CallTimesOut, NetTypes, Gives, netVars
<1>2. CASE Interrupted
  <2>1. pc # "fgets"
    BY <1>2 DEF Interrupted, NetTypes
  <2>2. QED
    BY <1>2, <2>1 DEF Interrupted, NetTypes, Gives, netVars
<1>3. CASE ReadPipe
  BY <1>3 DEF ReadPipe, NetTypes, Gives, netVars
<1>4. CASE Jump /\ Jumpable
  BY <1>4 DEF Jump, Jumpable, NetTypes, Gives, netVars
<1>5. QED
  BY <1>1, <1>2, <1>3, <1>4

-----------------------------------------------------------------------------
(* Signals.                                                                *)

LEMMA SignalInit == Init => SignalTypes /\ Jumping
<1> SUFFICES ASSUME Init PROVE SignalTypes /\ Jumping
  OBVIOUS
<1>1. SignalTypes
  <2>1. /\ armed \in BOOLEAN /\ pending \in BOOLEAN /\ pipe \in BOOLEAN /\ late \in BOOLEAN
        /\ line = 0 /\ jmpbuf = 0 /\ missed = 0 /\ ended = "no"
    BY DEF Init
  <2>2. masked \in BOOLEAN
    BY Zenon DEF Init
  <2>3. jmpbuf \in 0..line /\ missed \in 0..line
    BY <2>1
  <2>4. QED
    BY <2>1, <2>2, <2>3 DEF SignalTypes
<1>2. /\ pc = "fgets" /\ line = 0 /\ ended = "no"
      /\ ~armed /\ ~pending
      /\ masked <=> kind = "err"
  BY DEF Init
<1>3. Jumping
  BY <1>2 DEF Jumping, JmpBuf, TraceBuf, StrayJump, Jumpers
<1>4. QED
  BY <1>1, <1>3

LEMMA SignalTypesStep ==
    ASSUME NetTypes, SignalTypes, [Next]_vars
    PROVE  SignalTypes'
<1>1. CASE Send
  <2>1. line' = line + 1 /\ line \in Nat
    BY <1>1, LinesAssumption DEF NetTypes, Send
  <2>2. jmpbuf \in 0..line' /\ missed \in 0..line'
    BY <2>1 DEF SignalTypes
  <2>3. QED
    BY <1>1, <2>2 DEF SignalTypes, Send, signalVars
<1>2. CASE \/ Sleep \/ OtherProbe \/ (\E r \in Replies : Arrives(r)) \/ UNCHANGED vars
  BY <1>2 DEF SignalTypes, Sleep, OtherProbe, Arrives, vars, signalVars
<1>3. CASE PrintReply \/ NoMore \/ AlarmKills
  BY <1>3 DEF SignalTypes, PrintReply, NoMore, AlarmKills, End, signalVars
<1>4. CASE Arm \/ Unmask \/ Recvfrom
  BY <1>4 DEF SignalTypes, Arm, Unmask, Recvfrom
<1>5. CASE Setjmp
  BY <1>5, LinesAssumption DEF NetTypes, SignalTypes, Setjmp
<1>6. CASE SocketReady
  BY <1>6 DEF SignalTypes, SocketReady
<1>7. CASE TakeAnswer \/ CallTimesOut \/ Expires
  BY <1>7 DEF SignalTypes, TakeAnswer, CallTimesOut, Expires
<1>8. CASE Interrupted
  <2>1. masked' \in BOOLEAN
    <3>1. masked' = (kind \in Select \union {"err"})
      BY <1>8 DEF Interrupted
    <3>2. QED
      BY <3>1
  <2>2. pending' \in BOOLEAN
    BY <1>8 DEF Interrupted
  <2>3. UNCHANGED <<line, jmpbuf, missed, ended, armed, pipe, late>>
    BY <1>8 DEF Interrupted
  <2>4. QED
    BY <2>1, <2>2, <2>3 DEF SignalTypes
<1>9. CASE WritePipe \/ ReadPipe \/ Unnoticed
  <2>1. pipe' \in BOOLEAN /\ pending' \in BOOLEAN
    <3>1. CASE WritePipe
      BY <3>1 DEF WritePipe
    <3>2. CASE ReadPipe
      BY <3>2 DEF ReadPipe, SignalTypes
    <3>3. CASE Unnoticed
      BY <3>3 DEF Unnoticed, SignalTypes
    <3>4. QED
      BY <1>9, <3>1, <3>2, <3>3
  <2>6. UNCHANGED <<armed, masked, late>>
    BY <1>9 DEF WritePipe, ReadPipe, Unnoticed
  <2>2. UNCHANGED <<line, jmpbuf, ended>> /\ (missed' = missed \/ missed' = line)
    BY <1>9 DEF WritePipe, ReadPipe, Unnoticed
  <2>3. line \in 0..line
    BY LinesAssumption DEF NetTypes
  <2>4. jmpbuf' \in 0..line' /\ missed' \in 0..line'
    BY <2>2, <2>3 DEF SignalTypes
  <2>5. QED
    BY <2>1, <2>2, <2>4, <2>6 DEF SignalTypes
<1>10. CASE Jump
  BY <1>10 DEF SignalTypes, Jump, End, signalVars
<1>11. QED
  BY <1>1, <1>2, <1>3, <1>4, <1>5, <1>6, <1>7, <1>8, <1>9, <1>10
     DEF Next, Client, Handler, Finished

\* What has no jmpbuf does not get one.
LEMMA OthersJumpNot ==
    ASSUME Jumping, kind \notin Jumpers, kind' = kind, ended' = "stray" => ended = "stray"
    PROVE  Jumping'
  BY DEF Jumping, JmpBuf, TraceBuf, StrayJump, Jumpers

\* jmp and traceroute: the client's steps.
LEMMA JumperSteps ==
    ASSUME NetTypes, SignalTypes, Jumping, kind \in Jumpers, Running,
           Send \/ Arm \/ Setjmp \/ Sleep \/ Recvfrom \/ PrintReply \/ TakeAnswer \/ OtherProbe
    PROVE  Jumping'
<1>1. /\ kind = "jmp" \/ kind = "tracert"
      /\ program.timer = "alarm" /\ program.loop = "setjmp"
      /\ kind = "jmp" => program.takes = "all"
      /\ kind = "tracert" => program.takes = "one"
  BY Programmed DEF NetTypes, Jumpers, Printers
<1>2. ~masked
  BY DEF Jumping
<1>3. kind' = kind /\ ended' = ended /\ ended = "no"
  BY DEF Running, Send, Arm, Setjmp, Sleep, Recvfrom, PrintReply, TakeAnswer, OtherProbe
<1>4. ~masked'
  <2>1. CASE Send \/ Setjmp \/ Sleep \/ PrintReply \/ TakeAnswer \/ OtherProbe
    BY <1>2, <2>1 DEF Send, Setjmp, Sleep, PrintReply, TakeAnswer, OtherProbe, signalVars
  <2>2. CASE Arm \/ Recvfrom
    BY <1>1, <1>2, <2>2 DEF Arm, Recvfrom, Select
  <2>3. QED
    BY <2>1, <2>2
<1>5. ~pending
  BY <1>2 DEF Send, Arm, Setjmp, Sleep, Recvfrom, PrintReply, TakeAnswer, OtherProbe, Runs
<1>6. /\ kind = "jmp" => JmpBuf'
      /\ kind = "tracert" => TraceBuf'
  <2>1. CASE Send
    <3>1. /\ pc = "fgets" /\ pc' = "arm" /\ line' = line + 1
          /\ armed' = armed /\ pending' = pending /\ jmpbuf' = jmpbuf
      BY <1>1, <2>1 DEF Send, signalVars
    <3>2. QED
      BY <1>3, <3>1 DEF Jumping, JmpBuf, TraceBuf
  <2>2. CASE Arm
    <3>1. /\ pc = "arm" /\ pc' = "setjmp" /\ line' = line
          /\ pending' = pending /\ jmpbuf' = jmpbuf
      BY <1>1, <2>2 DEF Arm
    <3>2. QED
      BY <1>3, <1>5, <3>1 DEF Jumping, JmpBuf, TraceBuf
  <2>3. CASE Setjmp
    <3>1. pc' = "recv" /\ line' = line /\ jmpbuf' = line /\ pc = "setjmp"
      BY <2>3 DEF Setjmp
    <3>2. line # 0
      BY <3>1 DEF NetTypes
    <3>3. pending' = pending
      BY <2>3 DEF Setjmp
    <3>4. QED
      BY <1>3, <1>5, <3>1, <3>2, <3>3 DEF Jumping, JmpBuf, TraceBuf
  <2>4. CASE Sleep
    <3>1. /\ pc \in {"pause", "recv", "select"} /\ pc' \in {"paused", "blocked"} /\ line' = line
          /\ pc = "recv" => pc' = "blocked"
          /\ armed' = armed /\ pending' = pending /\ jmpbuf' = jmpbuf
      BY <2>4 DEF Sleep, signalVars
    <3>2. QED
      BY <1>3, <3>1 DEF Jumping, JmpBuf, TraceBuf
  <2>5. CASE Recvfrom
    <3>1. /\ pc \in {"recv", "blocked"} /\ pc' = "reply" /\ line' = line
          /\ armed' = armed /\ pending' = pending /\ jmpbuf' = jmpbuf
      BY <2>5 DEF Recvfrom
    <3>2. QED
      BY <1>3, <3>1 DEF Jumping, JmpBuf, TraceBuf
  <2>6. CASE PrintReply
    <3>1. kind = "jmp" /\ pc = "reply" /\ jmpbuf' = jmpbuf
      BY <1>1, <2>6 DEF PrintReply, signalVars
    <3>2. jmpbuf # 0
      BY <3>1 DEF Jumping, JmpBuf
    <3>3. QED
      BY <1>3, <3>1, <3>2 DEF JmpBuf
  <2>7. CASE TakeAnswer
    <3>1. kind = "tracert" /\ pc' = "fgets" /\ pending' = pending
      BY <1>1, <2>7 DEF TakeAnswer
    <3>2. ~armed'
      BY <2>7 DEF TakeAnswer
    <3>3. QED
      BY <1>3, <1>5, <3>1, <3>2 DEF TraceBuf
  <2>8. CASE OtherProbe
    <3>1. kind = "tracert" /\ pc' = "setjmp" /\ pending' = pending
      BY <2>8 DEF OtherProbe, signalVars
    <3>2. QED
      BY <1>3, <1>5, <3>1 DEF TraceBuf
  <2>9. QED
    BY <2>1, <2>2, <2>3, <2>4, <2>5, <2>6, <2>7, <2>8
<1>7. JmpBuf' /\ TraceBuf'
  BY <1>1, <1>3, <1>6 DEF JmpBuf, TraceBuf
<1>8. QED
  BY <1>3, <1>4, <1>7 DEF Jumping, StrayJump

LEMMA ExpiresJumping ==
    ASSUME NetTypes, Jumping, kind \in Jumpers, Expires
    PROVE  Jumping'
<1>1. kind' = kind /\ pc' = pc /\ line' = line /\ jmpbuf' = jmpbuf /\ ended' = ended
  BY DEF Expires
<1>2. masked' = masked
  BY DEF Expires
<1>3. armed /\ ~armed' /\ pending' /\ ended = "no"
  BY DEF Expires, Running
<1>4. JmpBuf'
  BY <1>1, <1>3 DEF Jumping, JmpBuf
<1>5. TraceBuf'
  BY <1>1, <1>3 DEF Jumping, TraceBuf
<1>6. QED
  BY <1>1, <1>2, <1>3, <1>4, <1>5 DEF Jumping, StrayJump

LEMMA JumpJumping ==
    ASSUME NetTypes, SignalTypes, Jumping, kind \in Jumpers, Jump
    PROVE  Jumping'
<1>1. pending /\ ended = "no" /\ (kind = "jmp" \/ kind = "tracert")
  BY DEF Jump, Deliverable, Running, Jumpers
<1>2. CASE Jumpable
  <2>1. /\ kind' = kind /\ pc' = "fgets" /\ line' = line /\ jmpbuf' = jmpbuf
        /\ ended' = ended
    BY <1>2 DEF Jump, TimedOut
  <2>2. (armed' <=> armed) /\ ~pending' /\ (masked' <=> masked)
    BY <1>2 DEF Jump
  <2>3. kind = "jmp" => jmpbuf # 0
    BY <1>2 DEF Jumpable
  <2>4. kind = "tracert" => ~armed
    BY <1>1 DEF Jumping, TraceBuf
  <2>5. QED
    BY <1>1, <2>1, <2>2, <2>3, <2>4 DEF Jumping, JmpBuf, TraceBuf, StrayJump
<1>3. CASE ~Jumpable
  <2>1. /\ kind' = kind /\ pc' = pc /\ line' = line /\ jmpbuf' = jmpbuf
        /\ ended' = "stray"
    BY <1>3 DEF Jump, End, signalVars
  <2>2. (armed' <=> armed) /\ (pending' <=> pending) /\ (masked' <=> masked)
    BY <1>3 DEF Jump, End, signalVars
  <2>3. pc = "setjmp" /\ (kind = "jmp" => line = 1)
    BY <1>1, <1>3 DEF Jumpable, Jumping, JmpBuf, TraceBuf
  <2>4. QED
    BY <1>1, <2>1, <2>2, <2>3 DEF Jumping, JmpBuf, TraceBuf, StrayJump, Jumpers
<1>4. QED
  BY <1>2, <1>3

\* What those two kinds have no part in.
LEMMA NotForJumpers ==
    ASSUME NetTypes, Jumping, kind \in Jumpers, ended # "stray",
           \/ Unmask \/ SocketReady \/ CallTimesOut \/ ReadPipe
           \/ Interrupted \/ Unnoticed \/ WritePipe \/ AlarmKills
    PROVE  FALSE
<1>1. program.handler = "jumps" /\ program.timer = "alarm"
  BY Programmed DEF NetTypes
<1>2. kind = "jmp" \/ kind = "tracert"
  BY DEF Jumpers
<1>3. QED
  BY <1>1, <1>2 DEF Unmask, SocketReady, CallTimesOut, ReadPipe, Interrupted, Unnoticed,
                    WritePipe, AlarmKills, Connects

\* Steps that end the program otherwise, or are the network's.
LEMMA ElseJumping ==
    ASSUME NetTypes, Jumping,
           NoMore \/ (\E r \in Replies : Arrives(r)) \/ UNCHANGED vars
    PROVE  Jumping'
<1>1. /\ kind' = kind /\ pc' = pc /\ line' = line /\ jmpbuf' = jmpbuf
      /\ ended' = ended \/ ended' = "normal"
  BY DEF NoMore, End, Arrives, vars, signalVars
<1>2. (armed' <=> armed) /\ (pending' <=> pending) /\ (masked' <=> masked)
  BY DEF NoMore, End, Arrives, vars, signalVars
<1>3. QED
  BY <1>1, <1>2 DEF Jumping, JmpBuf, TraceBuf, StrayJump

LEMMA OthersStep ==
    ASSUME NetTypes, kind \notin Jumpers, Next
    PROVE  kind' = kind /\ (ended' = "stray" => ended = "stray")
<1>1. ~Jump
  BY Programmed DEF NetTypes, Jump
<1>2. CASE Client
  BY <1>2 DEF Client, Send, NoMore, Arm, Setjmp, Unmask, Sleep, Recvfrom, SocketReady,
              PrintReply, TakeAnswer, OtherProbe, CallTimesOut, ReadPipe, End
<1>3. CASE Handler
  BY <1>1, <1>3 DEF Handler, Interrupted, Unnoticed, WritePipe, AlarmKills, End
<1>4. CASE Expires \/ (\E r \in Replies : Arrives(r)) \/ Finished
  BY <1>4 DEF Expires, Arrives, Finished, vars
<1>5. QED
  BY <1>2, <1>3, <1>4 DEF Next

LEMMA StepsRun == ASSUME Client \/ Handler \/ Expires PROVE Running
<1>1. CASE Client
  BY <1>1 DEF Client, Send, NoMore, Arm, Setjmp, Unmask, Sleep, Recvfrom, SocketReady,
              PrintReply, TakeAnswer, OtherProbe, CallTimesOut, ReadPipe, Runs
<1>2. CASE Handler \/ Expires
  BY <1>2 DEF Handler, Interrupted, Unnoticed, WritePipe, Jump, AlarmKills, Deliverable, Expires
<1>3. QED
  BY <1>1, <1>2

LEMMA JumpingStep ==
    ASSUME NetTypes, SignalTypes, Jumping, [Next]_vars
    PROVE  Jumping'
<1>1. CASE UNCHANGED vars
  BY <1>1, ElseJumping
<1>2. CASE kind \notin Jumpers /\ Next
  BY <1>2, OthersStep, OthersJumpNot
<1>3. CASE kind \in Jumpers /\ Next
  <2>1. CASE Client \/ Handler \/ Expires
    <3>1. Running /\ ended # "stray"
      BY <2>1, StepsRun DEF Running
    <3>2. QED
      BY <1>3, <2>1, <3>1, JumperSteps, ElseJumping, NotForJumpers, JumpJumping, ExpiresJumping
         DEF Client, Handler
  <2>2. CASE (\E r \in Replies : Arrives(r)) \/ Finished
    BY <2>2, ElseJumping DEF Finished
  <2>3. QED
    BY <1>3, <2>1, <2>2 DEF Next
<1>4. QED
  BY <1>1, <1>2, <1>3

-----------------------------------------------------------------------------
(* The results.                                                            *)

LEMMA RepliedStep ==
    ASSUME NetTypes, SignalTypes, Replied, [Next]_vars
    PROVE  NetTypes' /\ Replied'
<1>1. CASE UNCHANGED vars
  <2>1. Quiet
    BY <1>1 DEF vars, netVars, resultVars, NetTypes, Quiet
  <2>2. QED
    BY <2>1, QuietKeeps
<1>2. CASE Client \/ Handler \/ Expires
  <2>1. Running
    BY <1>2, StepsRun
  <2>2. jmpbuf \in 0..line
    BY DEF SignalTypes
  <2>3. CASE Quiet \/ Gives
    BY <2>3, QuietKeeps, GivesKeeps
  <2>4. CASE ~Quiet /\ ~Gives
    <3>1. Send \/ Recvfrom \/ PrintReply \/ TakeAnswer \/ OtherProbe
      BY <1>2, <2>1, <2>2, <2>4, QuietSteps, GivesSteps DEF Client, Handler
    <3>2. QED
      BY <3>1, SendKeeps, RecvfromKeeps, PrintKeeps, TakeKeeps, OtherKeeps
  <2>5. QED
    BY <2>3, <2>4
<1>3. CASE \E r \in Replies : Arrives(r)
  BY <1>3, ArrivesKeeps
<1>4. QED
  BY <1>1, <1>2, <1>3 DEF Next, Finished

LEMMA InvInit == Init => IInv
  BY NetInit, SignalInit DEF IInv

LEMMA InvStep == IInv /\ [Next]_vars => IInv'
  BY RepliedStep, SignalTypesStep, JumpingStep DEF IInv

LEMMA Inductive == Spec => []IInv
  BY InvInit, InvStep, PTL DEF Spec

\* Every variable keeps its type, for any number of lines and replies.
THEOREM Typing == Spec => []TypeOK
<1>1. IInv => TypeOK
  BY Types DEF IInv
<1>2. QED
  BY <1>1, Inductive, PTL

\* Whatever is lost, duplicated, reordered, late or sent by strangers, traceroute prints for
\* a probe the answer to that probe.  A UDP client never prints the answer to a later line,
\* and one to an earlier line only if a line up to that one timed out or was fooled by a
\* datagram that is no answer or one answer more, or if this is such a datagram itself.
THEOREM AnswersBelong == Spec => []AnswerBelongs
<1>1. IInv => AnswerBelongs
  BY DEF IInv, Replied
<1>2. QED
  BY <1>1, Inductive, PTL

\* The one window for a stray siglongjmp() is that between alarm() and sigsetjmp().
THEOREM JumpsAreBounded == Spec => []StrayJump
<1>1. IInv => StrayJump
  BY DEF IInv, Jumping
<1>2. QED
  BY <1>1, Inductive, PTL
=============================================================================
