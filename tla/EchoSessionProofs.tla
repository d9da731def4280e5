-------------------------- MODULE EchoSessionProofs --------------------------
(***************************************************************************)
(* Proofs about EchoSession, for every length of the input and every size  *)
(* of the buffers.  While the server lives every line of the input is in   *)
(* exactly one place; the FIN of the client means that all were written,   *)
(* that of the server that all were echoed; so a client that has read the  *)
(* server's FIN, and the last line before it, has everything.              *)
(* The second half of the module is about SigioEcho.                       *)
(***************************************************************************)
EXTENDS EchoSession, SigioEcho, SequenceTheorems, TLAPS

\* Where each client can be.
Places ==
    /\ cpc = "connect" => wpc = "none"
    /\ kind = "str_cli" =>
        /\ cpc \in {"connect", "none"} /\ wpc \in {"none", "fgets", "writen", "readline"}
        /\ ~finC
    /\ kind = "str_cli_select" => cpc \in {"connect", "select", "sock", "stdin", "writen"} /\ wpc = "none"
    /\ kind \in Kqueue => cpc \in {"connect", "kevent", "events", "writen"} /\ wpc = "none"
    /\ kind = "strclinonb" =>
        /\ cpc \in {"connect", "connecting", "select", "rstdin", "rsock", "wsock", "wout"}
        /\ wpc = "none"
    /\ kind \in TwoActors =>
        /\ cpc \in {"connect", "readline", "exited"}
        /\ wpc \in {"none", "fgets", "writen", "shutdown", "flag", "wait", "done"}
        /\ wpc \in {"flag", "done"} => kind = "thread_str_cli"
        /\ wpc = "wait" => kind = "strclinonb03"

\* Only the nonblocking client has fr[], and it alone comes back to a partly written to[].
Buffers ==
    /\ kind # "strclinonb" =>
        /\ fri = 0 /\ fro = 0
        /\ "writen" \in {cpc, wpc} <=> too < toi
    /\ dropped > 0 => kind = "kqueue_file" /\ left = 0

\* The end of file has been seen on stdin.
InputRead == (stdineof \/ wpc \in {"shutdown", "flag", "wait", "done"}) => left = 0

\* The FIN of the client is noted, except by the thread of ch26 for a moment.
FinNoted == finC => stdineof \/ wpc \in {"flag", "wait"}

\* A line is on its way only while str_cli waits for it.
StopAndWait ==
    kind = "str_cli" /\ ~crashed =>
        (toi - too) + c2s + srv + s2c = IF wpc \in {"writen", "readline"} THEN 1 ELSE 0

Conserved ==
    ~crashed => input = left + dropped + (toi - too) + c2s + srv + s2c + (fri - fro) + out

\* The server closes its end when it has echoed everything; RSTs come from dead ones.
ServerDone ==
    ~crashed => /\ finS => finC /\ c2s = 0 /\ srv = 0
                /\ rst = "none"
                /\ cpc = "exited" => finS /\ s2c = 0

\* A session that has ended as it should left nothing on its way.
NormalEnd ==
    ended = "normal" /\ ~crashed => left = 0 /\ toi = too /\ c2s = 0 /\ srv = 0 /\ s2c = 0

DroppedBound == dropped <= MaxLine

\* TypeOK in two parts.
Modes ==
    /\ kind \in Kinds /\ input \in Nat /\ newline \in BOOLEAN
    /\ cpc \in {"connect", "connecting", "none", "select", "kevent", "events", "sock", "stdin",
               "rstdin", "rsock", "wsock", "wout", "writen", "readline", "exited"}
    /\ wpc \in {"none", "fgets", "writen", "readline", "shutdown", "flag", "wait", "done"}
    /\ ready \subseteq {"stdin", "sock", "wsock", "wout"}
    /\ stdineof \in BOOLEAN
    /\ ended \in {"no", "normal", "premature", "error", "killed"}
    /\ finC \in BOOLEAN /\ finS \in BOOLEAN /\ crashed \in BOOLEAN
    /\ rst \in {"none", "sent", "here"}

Counts ==
    /\ left \in Nat /\ dropped \in Nat /\ out \in Nat
    /\ toi \in 0..MaxLine /\ too \in 0..toi
    /\ fri \in 0..MaxLine /\ fro \in 0..fri
    /\ c2s \in 0..CapC2S /\ s2c \in 0..CapS2C /\ srv \in 0..MaxLine

Shape == Modes /\ Counts /\ Places /\ Buffers
Ends == InputRead /\ FinNoted /\ FinLast
Flow == StopAndWait /\ Conserved /\ ServerDone
Verdict == NormalEnd /\ DroppedBound /\ PrematureMeansCrash

IInv == Shape /\ Ends /\ Flow /\ Verdict

-----------------------------------------------------------------------------
LEMMA InitIInv == Init => IInv
<1> SUFFICES ASSUME Init PROVE IInv
  OBVIOUS
<1> USE InputAssumption, BufferAssumption DEF Init
<1>1. Modes
  BY DEF Modes, Kinds
<1>2. Counts
  BY DEF Counts
<1>3. Places /\ Buffers
  BY DEF Places, Buffers, Kinds, Kqueue, TwoActors
<1>4. Ends /\ Flow /\ Verdict
  BY DEF Ends, Flow, Verdict, InputRead, FinNoted, FinLast, StopAndWait, Conserved,
         ServerDone, NormalEnd, DroppedBound, PrematureMeansCrash
<1>5. QED
  BY <1>1, <1>2, <1>3, <1>4 DEF IInv, Shape

-----------------------------------------------------------------------------
(* One lemma for each part of the invariant, with a case for each action.  *)

LEMMA ModesStep == IInv /\ [Next]_vars => Modes'
<1> SUFFICES ASSUME IInv, [Next]_vars PROVE Modes'
  OBVIOUS
<1> USE InputAssumption, BufferAssumption
    DEF IInv, Shape, Ends, Flow, Modes, Counts, Places, Buffers, InputRead, FinNoted,
        FinLast, StopAndWait, Conserved, ServerDone, Verdict, NormalEnd, DroppedBound,
        PrematureMeansCrash, End, Running, netVars, toVars, frVars, pcVars, Write, Take,
        SendFin, AtEOF, Reset, Readable, Start, At, StrCliMain, SelectMain, KqueueMain,
        NonbMain, ForkMain, ThreadMain, Stage, GoOn, Least, Kinds, Kqueue, TwoActors, given,
        Readline, Partial, ReadlineFails
<1>1. CASE Fgets
  BY <1>1 DEF Fgets
<1>2. CASE Writen
  BY <1>2 DEF Writen
<1>3. CASE HalfClose
  BY <1>3 DEF HalfClose
<1>4. CASE ThreadFlags
  BY <1>4 DEF ThreadFlags
<1>5. CASE ReaderLine
  BY <1>5 DEF ReaderLine
<1>6. CASE ChildExits
  BY <1>6 DEF ChildExits
<1>7. CASE SelectStdin
  BY <1>7 DEF SelectStdin
<1>8. CASE EventsDone
  BY <1>8 DEF EventsDone
<1>9. CASE EventStdin
  BY <1>9 DEF EventStdin
<1>10. CASE NonbReadStdin
  BY <1>10 DEF NonbReadStdin
<1>11. CASE NonbNoRoom
  BY <1>11 DEF NonbNoRoom
<1>12. CASE NonbWriteSocket
  BY <1>12 DEF NonbWriteSocket
<1>13. CASE ServerReads
  BY <1>13 DEF ServerReads
<1>14. CASE ServerWrites
  BY <1>14 DEF ServerWrites
<1>15. CASE ServerEnds
  BY <1>15 DEF ServerEnds
<1>16. CASE RstArrives
  BY <1>16 DEF RstArrives
<1>17. CASE ServerDies
  BY <1>17 DEF ServerDies
<1>18. CASE Connect
  BY <1>18 DEF Connect
<1>19. CASE ConnectNonb
  BY <1>19 DEF ConnectNonb
<1>20. CASE FgetsEOF
  BY <1>20 DEF FgetsEOF
<1>21. CASE StrCliReads
  BY <1>21 DEF StrCliReads
<1>22. CASE SelectSocket
  BY <1>22 DEF SelectSocket
<1>23. CASE EventSocket
  BY <1>23 DEF EventSocket
<1>24. CASE NonbReadSocket
  BY <1>24 DEF NonbReadSocket
<1>25. CASE BrokenPipe
  BY <1>25 DEF BrokenPipe
<1>26. CASE ParentReturns
  BY <1>26 DEF ParentReturns
<1>27. CASE MainReturns
  BY <1>27 DEF MainReturns
<1>28. ASSUME NEW typed \in BOOLEAN, SelectReturns(typed) PROVE Modes'
  BY <1>28 DEF SelectReturns
<1>29. ASSUME NEW typed \in BOOLEAN, KeventReturns(typed) PROVE Modes'
  BY <1>29 DEF KeventReturns
<1>30. ASSUME NEW typed \in BOOLEAN, NEW drained \in BOOLEAN, NonbSelect(typed, drained) PROVE Modes'
  BY <1>30 DEF NonbSelect
<1>31. ASSUME NEW n \in 0..MaxLine, NonbWriteOut(n) PROVE Modes'
  BY <1>31 DEF NonbWriteOut
<1>32. CASE UNCHANGED vars
  BY <1>32 DEF vars
<1> HIDE DEF IInv, Shape, Ends, Flow, Modes, Counts, Places, Buffers, InputRead, FinNoted,
      FinLast, StopAndWait, Conserved, ServerDone, Verdict, NormalEnd, DroppedBound,
      PrematureMeansCrash, End, Running, netVars, toVars, frVars, pcVars, Write, Take,
      SendFin, AtEOF, Reset, Readable, Start, At, StrCliMain, SelectMain, KqueueMain,
        NonbMain, ForkMain, ThreadMain, Stage, GoOn, Least, Kinds, Kqueue, TwoActors, given,
        Readline, Partial, ReadlineFails
<1>33. QED
  BY <1>1, <1>2, <1>3, <1>4, <1>5, <1>6, <1>7, <1>8, <1>9, <1>10, <1>11, <1>12, <1>13,
      <1>14, <1>15, <1>16, <1>17, <1>18, <1>19, <1>20, <1>21, <1>22, <1>23, <1>24, <1>25,
      <1>26, <1>27, <1>28, <1>29, <1>30, <1>31, <1>32
     DEF Next, Client, Loop, Closing, Server, Typed, Finished

\* The buffers are never overrun.
LEMMA CountsStep == IInv /\ [Next]_vars => Counts'
<1> SUFFICES ASSUME IInv, [Next]_vars PROVE Counts'
  OBVIOUS
<1> USE InputAssumption, BufferAssumption
    DEF IInv, Shape, Ends, Flow, Modes, Counts, Places, Buffers, InputRead, FinNoted,
        FinLast, StopAndWait, Conserved, ServerDone, Verdict, NormalEnd, DroppedBound,
        PrematureMeansCrash, End, Running, netVars, toVars, frVars, pcVars, Write, Take,
        SendFin, AtEOF, Reset, Readable, Start, At, StrCliMain, SelectMain, KqueueMain,
        NonbMain, ForkMain, ThreadMain, Stage, GoOn, Least, Kinds, Kqueue, TwoActors, given,
        Readline, Partial, ReadlineFails
<1>1. CASE Fgets
  BY <1>1 DEF Fgets
<1>2. CASE Writen
  BY <1>2 DEF Writen
<1>3. CASE HalfClose
  BY <1>3 DEF HalfClose
<1>4. CASE ThreadFlags
  BY <1>4 DEF ThreadFlags
<1>5. CASE ReaderLine
  BY <1>5 DEF ReaderLine
<1>6. CASE ChildExits
  BY <1>6 DEF ChildExits
<1>7. CASE SelectStdin
  BY <1>7 DEF SelectStdin
<1>8. CASE EventsDone
  BY <1>8 DEF EventsDone
<1>9. CASE EventStdin
  BY <1>9 DEF EventStdin
<1>10. CASE NonbReadStdin
  BY <1>10 DEF NonbReadStdin
<1>11. CASE NonbNoRoom
  BY <1>11 DEF NonbNoRoom
<1>12. CASE NonbWriteSocket
  BY <1>12 DEF NonbWriteSocket
<1>13. CASE ServerReads
  BY <1>13 DEF ServerReads
<1>14. CASE ServerWrites
  BY <1>14 DEF ServerWrites
<1>15. CASE ServerEnds
  BY <1>15 DEF ServerEnds
<1>16. CASE RstArrives
  BY <1>16 DEF RstArrives
<1>17. CASE ServerDies
  BY <1>17 DEF ServerDies
<1>18. CASE Connect
  BY <1>18 DEF Connect
<1>19. CASE ConnectNonb
  BY <1>19 DEF ConnectNonb
<1>20. CASE FgetsEOF
  BY <1>20 DEF FgetsEOF
<1>21. CASE StrCliReads
  BY <1>21 DEF StrCliReads
<1>22. CASE SelectSocket
  BY <1>22 DEF SelectSocket
<1>23. CASE EventSocket
  BY <1>23 DEF EventSocket
<1>24. CASE NonbReadSocket
  BY <1>24 DEF NonbReadSocket
<1>25. CASE BrokenPipe
  BY <1>25 DEF BrokenPipe
<1>26. CASE ParentReturns
  BY <1>26 DEF ParentReturns
<1>27. CASE MainReturns
  BY <1>27 DEF MainReturns
<1>28. ASSUME NEW typed \in BOOLEAN, SelectReturns(typed) PROVE Counts'
  BY <1>28 DEF SelectReturns
<1>29. ASSUME NEW typed \in BOOLEAN, KeventReturns(typed) PROVE Counts'
  BY <1>29 DEF KeventReturns
<1>30. ASSUME NEW typed \in BOOLEAN, NEW drained \in BOOLEAN, NonbSelect(typed, drained) PROVE Counts'
  BY <1>30 DEF NonbSelect
<1>31. ASSUME NEW n \in 0..MaxLine, NonbWriteOut(n) PROVE Counts'
  BY <1>31 DEF NonbWriteOut
<1>32. CASE UNCHANGED vars
  BY <1>32 DEF vars
<1> HIDE DEF IInv, Shape, Ends, Flow, Modes, Counts, Places, Buffers, InputRead, FinNoted,
      FinLast, StopAndWait, Conserved, ServerDone, Verdict, NormalEnd, DroppedBound,
      PrematureMeansCrash, End, Running, netVars, toVars, frVars, pcVars, Write, Take,
      SendFin, AtEOF, Reset, Readable, Start, At, StrCliMain, SelectMain, KqueueMain,
        NonbMain, ForkMain, ThreadMain, Stage, GoOn, Least, Kinds, Kqueue, TwoActors, given,
        Readline, Partial, ReadlineFails
<1>33. QED
  BY <1>1, <1>2, <1>3, <1>4, <1>5, <1>6, <1>7, <1>8, <1>9, <1>10, <1>11, <1>12, <1>13,
      <1>14, <1>15, <1>16, <1>17, <1>18, <1>19, <1>20, <1>21, <1>22, <1>23, <1>24, <1>25,
      <1>26, <1>27, <1>28, <1>29, <1>30, <1>31, <1>32
     DEF Next, Client, Loop, Closing, Server, Typed, Finished

LEMMA PlacesStep == IInv /\ [Next]_vars => Places' /\ Buffers'
<1> SUFFICES ASSUME IInv, [Next]_vars PROVE Places' /\ Buffers'
  OBVIOUS
<1> USE InputAssumption, BufferAssumption
    DEF IInv, Shape, Ends, Flow, Modes, Counts, Places, Buffers, InputRead, FinNoted,
        FinLast, StopAndWait, Conserved, ServerDone, Verdict, NormalEnd, DroppedBound,
        PrematureMeansCrash, End, Running, netVars, toVars, frVars, pcVars, Write, Take,
        SendFin, AtEOF, Reset, Readable, Start, At, StrCliMain, SelectMain, KqueueMain,
        NonbMain, ForkMain, ThreadMain, Stage, GoOn, Least, Kinds, Kqueue, TwoActors, given,
        Readline, Partial, ReadlineFails
<1>1. CASE Fgets
  BY <1>1 DEF Fgets
<1>2. CASE Writen
  BY <1>2 DEF Writen
<1>3. CASE HalfClose
  BY <1>3 DEF HalfClose
<1>4. CASE ThreadFlags
  BY <1>4 DEF ThreadFlags
<1>5. CASE ReaderLine
  BY <1>5 DEF ReaderLine
<1>6. CASE ChildExits
  BY <1>6 DEF ChildExits
<1>7. CASE SelectStdin
  BY <1>7 DEF SelectStdin
<1>8. CASE EventsDone
  BY <1>8 DEF EventsDone
<1>9. CASE EventStdin
  BY <1>9 DEF EventStdin
<1>10. CASE NonbReadStdin
  BY <1>10 DEF NonbReadStdin
<1>11. CASE NonbNoRoom
  BY <1>11 DEF NonbNoRoom
<1>12. CASE NonbWriteSocket
  BY <1>12 DEF NonbWriteSocket
<1>13. CASE ServerReads
  BY <1>13 DEF ServerReads
<1>14. CASE ServerWrites
  BY <1>14 DEF ServerWrites
<1>15. CASE ServerEnds
  BY <1>15 DEF ServerEnds
<1>16. CASE RstArrives
  BY <1>16 DEF RstArrives
<1>17. CASE ServerDies
  BY <1>17 DEF ServerDies
<1>18. CASE Connect
  BY <1>18 DEF Connect
<1>19. CASE ConnectNonb
  BY <1>19 DEF ConnectNonb
<1>20. CASE FgetsEOF
  BY <1>20 DEF FgetsEOF
<1>21. CASE StrCliReads
  BY <1>21 DEF StrCliReads
<1>22. CASE SelectSocket
  BY <1>22 DEF SelectSocket
<1>23. CASE EventSocket
  BY <1>23 DEF EventSocket
<1>24. CASE NonbReadSocket
  BY <1>24 DEF NonbReadSocket
<1>25. CASE BrokenPipe
  BY <1>25 DEF BrokenPipe
<1>26. CASE ParentReturns
  BY <1>26 DEF ParentReturns
<1>27. CASE MainReturns
  BY <1>27 DEF MainReturns
<1>28. ASSUME NEW typed \in BOOLEAN, SelectReturns(typed) PROVE Places' /\ Buffers'
  BY <1>28 DEF SelectReturns
<1>29. ASSUME NEW typed \in BOOLEAN, KeventReturns(typed) PROVE Places' /\ Buffers'
  BY <1>29 DEF KeventReturns
<1>30. ASSUME NEW typed \in BOOLEAN, NEW drained \in BOOLEAN, NonbSelect(typed, drained) PROVE Places' /\ Buffers'
  BY <1>30 DEF NonbSelect
<1>31. ASSUME NEW n \in 0..MaxLine, NonbWriteOut(n) PROVE Places' /\ Buffers'
  BY <1>31 DEF NonbWriteOut
<1>32. CASE UNCHANGED vars
  BY <1>32 DEF vars
<1> HIDE DEF IInv, Shape, Ends, Flow, Modes, Counts, Places, Buffers, InputRead, FinNoted,
      FinLast, StopAndWait, Conserved, ServerDone, Verdict, NormalEnd, DroppedBound,
      PrematureMeansCrash, End, Running, netVars, toVars, frVars, pcVars, Write, Take,
      SendFin, AtEOF, Reset, Readable, Start, At, StrCliMain, SelectMain, KqueueMain,
        NonbMain, ForkMain, ThreadMain, Stage, GoOn, Least, Kinds, Kqueue, TwoActors, given,
        Readline, Partial, ReadlineFails
<1>33. QED
  BY <1>1, <1>2, <1>3, <1>4, <1>5, <1>6, <1>7, <1>8, <1>9, <1>10, <1>11, <1>12, <1>13,
      <1>14, <1>15, <1>16, <1>17, <1>18, <1>19, <1>20, <1>21, <1>22, <1>23, <1>24, <1>25,
      <1>26, <1>27, <1>28, <1>29, <1>30, <1>31, <1>32
     DEF Next, Client, Loop, Closing, Server, Typed, Finished

\* The end of the input is seen when there is none left, and the FIN comes after everything.
LEMMA EndsStep == IInv /\ [Next]_vars => Ends'
<1> SUFFICES ASSUME IInv, [Next]_vars PROVE Ends'
  OBVIOUS
<1> USE InputAssumption, BufferAssumption
    DEF IInv, Shape, Ends, Flow, Modes, Counts, Places, Buffers, InputRead, FinNoted,
        FinLast, StopAndWait, Conserved, ServerDone, Verdict, NormalEnd, DroppedBound,
        PrematureMeansCrash, End, Running, netVars, toVars, frVars, pcVars, Write, Take,
        SendFin, AtEOF, Reset, Readable, Start, At, StrCliMain, SelectMain, KqueueMain,
        NonbMain, ForkMain, ThreadMain, Stage, GoOn, Least, Kinds, Kqueue, TwoActors, given,
        Readline, Partial, ReadlineFails
<1>1. CASE Fgets
  BY <1>1 DEF Fgets
<1>2. CASE Writen
  BY <1>2 DEF Writen
<1>3. CASE HalfClose
  BY <1>3 DEF HalfClose
<1>4. CASE ThreadFlags
  BY <1>4 DEF ThreadFlags
<1>5. CASE ReaderLine
  BY <1>5 DEF ReaderLine
<1>6. CASE ChildExits
  BY <1>6 DEF ChildExits
<1>7. CASE SelectStdin
  BY <1>7 DEF SelectStdin
<1>8. CASE EventsDone
  BY <1>8 DEF EventsDone
<1>9. CASE EventStdin
  BY <1>9 DEF EventStdin
<1>10. CASE NonbReadStdin
  BY <1>10 DEF NonbReadStdin
<1>11. CASE NonbNoRoom
  BY <1>11 DEF NonbNoRoom
<1>12. CASE NonbWriteSocket
  BY <1>12 DEF NonbWriteSocket
<1>13. CASE ServerReads
  BY <1>13 DEF ServerReads
<1>14. CASE ServerWrites
  BY <1>14 DEF ServerWrites
<1>15. CASE ServerEnds
  BY <1>15 DEF ServerEnds
<1>16. CASE RstArrives
  BY <1>16 DEF RstArrives
<1>17. CASE ServerDies
  BY <1>17 DEF ServerDies
<1>18. CASE Connect
  BY <1>18 DEF Connect
<1>19. CASE ConnectNonb
  BY <1>19 DEF ConnectNonb
<1>20. CASE FgetsEOF
  BY <1>20 DEF FgetsEOF
<1>21. CASE StrCliReads
  BY <1>21 DEF StrCliReads
<1>22. CASE SelectSocket
  BY <1>22 DEF SelectSocket
<1>23. CASE EventSocket
  BY <1>23 DEF EventSocket
<1>24. CASE NonbReadSocket
  BY <1>24 DEF NonbReadSocket
<1>25. CASE BrokenPipe
  BY <1>25 DEF BrokenPipe
<1>26. CASE ParentReturns
  BY <1>26 DEF ParentReturns
<1>27. CASE MainReturns
  BY <1>27 DEF MainReturns
<1>28. ASSUME NEW typed \in BOOLEAN, SelectReturns(typed) PROVE Ends'
  BY <1>28 DEF SelectReturns
<1>29. ASSUME NEW typed \in BOOLEAN, KeventReturns(typed) PROVE Ends'
  BY <1>29 DEF KeventReturns
<1>30. ASSUME NEW typed \in BOOLEAN, NEW drained \in BOOLEAN, NonbSelect(typed, drained) PROVE Ends'
  BY <1>30 DEF NonbSelect
<1>31. ASSUME NEW n \in 0..MaxLine, NonbWriteOut(n) PROVE Ends'
  BY <1>31 DEF NonbWriteOut
<1>32. CASE UNCHANGED vars
  BY <1>32 DEF vars
<1> HIDE DEF IInv, Shape, Ends, Flow, Modes, Counts, Places, Buffers, InputRead, FinNoted,
      FinLast, StopAndWait, Conserved, ServerDone, Verdict, NormalEnd, DroppedBound,
      PrematureMeansCrash, End, Running, netVars, toVars, frVars, pcVars, Write, Take,
      SendFin, AtEOF, Reset, Readable, Start, At, StrCliMain, SelectMain, KqueueMain,
        NonbMain, ForkMain, ThreadMain, Stage, GoOn, Least, Kinds, Kqueue, TwoActors, given,
        Readline, Partial, ReadlineFails
<1>33. QED
  BY <1>1, <1>2, <1>3, <1>4, <1>5, <1>6, <1>7, <1>8, <1>9, <1>10, <1>11, <1>12, <1>13,
      <1>14, <1>15, <1>16, <1>17, <1>18, <1>19, <1>20, <1>21, <1>22, <1>23, <1>24, <1>25,
      <1>26, <1>27, <1>28, <1>29, <1>30, <1>31, <1>32
     DEF Next, Client, Loop, Closing, Server, Typed, Finished

\* A line goes from one place to the next; only the death of a server loses any.
LEMMA FlowStep == IInv /\ [Next]_vars => Flow'
<1> SUFFICES ASSUME IInv, [Next]_vars PROVE Flow'
  OBVIOUS
<1> USE InputAssumption, BufferAssumption
    DEF IInv, Shape, Ends, Flow, Modes, Counts, Places, Buffers, InputRead, FinNoted,
        FinLast, StopAndWait, Conserved, ServerDone, Verdict, NormalEnd, DroppedBound,
        PrematureMeansCrash, End, Running, netVars, toVars, frVars, pcVars, Write, Take,
        SendFin, AtEOF, Reset, Readable, Start, At, StrCliMain, SelectMain, KqueueMain,
        NonbMain, ForkMain, ThreadMain, Stage, GoOn, Least, Kinds, Kqueue, TwoActors, given,
        Readline, Partial, ReadlineFails
<1>1. CASE Fgets
  BY <1>1 DEF Fgets
<1>2. CASE Writen
  BY <1>2 DEF Writen
<1>3. CASE HalfClose
  BY <1>3 DEF HalfClose
<1>4. CASE ThreadFlags
  BY <1>4 DEF ThreadFlags
<1>5. CASE ReaderLine
  BY <1>5 DEF ReaderLine
<1>6. CASE ChildExits
  BY <1>6 DEF ChildExits
<1>7. CASE SelectStdin
  BY <1>7 DEF SelectStdin
<1>8. CASE EventsDone
  BY <1>8 DEF EventsDone
<1>9. CASE EventStdin
  BY <1>9 DEF EventStdin
<1>10. CASE NonbReadStdin
  BY <1>10 DEF NonbReadStdin
<1>11. CASE NonbNoRoom
  BY <1>11 DEF NonbNoRoom
<1>12. CASE NonbWriteSocket
  BY <1>12 DEF NonbWriteSocket
<1>13. CASE ServerReads
  BY <1>13 DEF ServerReads
<1>14. CASE ServerWrites
  BY <1>14 DEF ServerWrites
<1>15. CASE ServerEnds
  BY <1>15 DEF ServerEnds
<1>16. CASE RstArrives
  BY <1>16 DEF RstArrives
<1>17. CASE ServerDies
  BY <1>17 DEF ServerDies
<1>18. CASE Connect
  <2>1. StopAndWait'
    BY <1>18 DEF Connect
  <2>2. Conserved'
    BY <1>18 DEF Connect
  <2>3. ServerDone'
    BY <1>18 DEF Connect
  <2> QED
    BY <2>1, <2>2, <2>3
<1>19. CASE ConnectNonb
  <2>1. StopAndWait'
    BY <1>19 DEF ConnectNonb
  <2>2. Conserved'
    BY <1>19 DEF ConnectNonb
  <2>3. ServerDone'
    BY <1>19 DEF ConnectNonb
  <2> QED
    BY <2>1, <2>2, <2>3
<1>20. CASE FgetsEOF
  BY <1>20 DEF FgetsEOF
<1>21. CASE StrCliReads
  <2>1. CASE ended' = ended
    <3>1. StopAndWait' /\ ServerDone'
      BY <1>21, <2>1 DEF StrCliReads
    <3>2. Conserved'
      BY <1>21, <2>1 DEF StrCliReads
    <3> QED
      BY <3>1, <3>2
  <2>2. CASE ended' # ended
    BY <1>21, <2>2 DEF StrCliReads
  <2> QED
    BY <2>1, <2>2
<1>22. CASE SelectSocket
  BY <1>22 DEF SelectSocket
<1>23. CASE EventSocket
  BY <1>23 DEF EventSocket
<1>24. CASE NonbReadSocket
  BY <1>24 DEF NonbReadSocket
<1>25. CASE BrokenPipe
  BY <1>25 DEF BrokenPipe
<1>26. CASE ParentReturns
  BY <1>26 DEF ParentReturns
<1>27. CASE MainReturns
  BY <1>27 DEF MainReturns
<1>28. ASSUME NEW typed \in BOOLEAN, SelectReturns(typed) PROVE Flow'
  BY <1>28 DEF SelectReturns
<1>29. ASSUME NEW typed \in BOOLEAN, KeventReturns(typed) PROVE Flow'
  BY <1>29 DEF KeventReturns
<1>30. ASSUME NEW typed \in BOOLEAN, NEW drained \in BOOLEAN, NonbSelect(typed, drained) PROVE Flow'
  BY <1>30 DEF NonbSelect
<1>31. ASSUME NEW n \in 0..MaxLine, NonbWriteOut(n) PROVE Flow'
  BY <1>31 DEF NonbWriteOut
<1>32. CASE UNCHANGED vars
  BY <1>32 DEF vars
<1> HIDE DEF IInv, Shape, Ends, Flow, Modes, Counts, Places, Buffers, InputRead, FinNoted,
      FinLast, StopAndWait, Conserved, ServerDone, Verdict, NormalEnd, DroppedBound,
      PrematureMeansCrash, End, Running, netVars, toVars, frVars, pcVars, Write, Take,
      SendFin, AtEOF, Reset, Readable, Start, At, StrCliMain, SelectMain, KqueueMain,
        NonbMain, ForkMain, ThreadMain, Stage, GoOn, Least, Kinds, Kqueue, TwoActors, given,
        Readline, Partial, ReadlineFails
<1>33. QED
  BY <1>1, <1>2, <1>3, <1>4, <1>5, <1>6, <1>7, <1>8, <1>9, <1>10, <1>11, <1>12, <1>13,
      <1>14, <1>15, <1>16, <1>17, <1>18, <1>19, <1>20, <1>21, <1>22, <1>23, <1>24, <1>25,
      <1>26, <1>27, <1>28, <1>29, <1>30, <1>31, <1>32
     DEF Next, Client, Loop, Closing, Server, Typed, Finished

\* How a session ends follows from the flow.
LEMMA VerdictStep == IInv /\ [Next]_vars => Verdict'
<1> SUFFICES ASSUME IInv, [Next]_vars PROVE Verdict'
  OBVIOUS
<1> USE InputAssumption, BufferAssumption
    DEF IInv, Shape, Ends, Flow, Modes, Counts, Places, Buffers, InputRead, FinNoted,
        FinLast, StopAndWait, Conserved, ServerDone, Verdict, NormalEnd, DroppedBound,
        PrematureMeansCrash, End, Running, netVars, toVars, frVars, pcVars, Write, Take,
        SendFin, AtEOF, Reset, Readable, Start, At, StrCliMain, SelectMain, KqueueMain,
        NonbMain, ForkMain, ThreadMain, Stage, GoOn, Least, Kinds, Kqueue, TwoActors, given,
        Readline, Partial, ReadlineFails
<1>1. CASE Fgets
  BY <1>1 DEF Fgets
<1>2. CASE Writen
  BY <1>2 DEF Writen
<1>3. CASE HalfClose
  BY <1>3 DEF HalfClose
<1>4. CASE ThreadFlags
  BY <1>4 DEF ThreadFlags
<1>5. CASE ReaderLine
  BY <1>5 DEF ReaderLine
<1>6. CASE ChildExits
  BY <1>6 DEF ChildExits
<1>7. CASE SelectStdin
  BY <1>7 DEF SelectStdin
<1>8. CASE EventsDone
  BY <1>8 DEF EventsDone
<1>9. CASE EventStdin
  BY <1>9 DEF EventStdin
<1>10. CASE NonbReadStdin
  BY <1>10 DEF NonbReadStdin
<1>11. CASE NonbNoRoom
  BY <1>11 DEF NonbNoRoom
<1>12. CASE NonbWriteSocket
  BY <1>12 DEF NonbWriteSocket
<1>13. CASE ServerReads
  BY <1>13 DEF ServerReads
<1>14. CASE ServerWrites
  BY <1>14 DEF ServerWrites
<1>15. CASE ServerEnds
  BY <1>15 DEF ServerEnds
<1>16. CASE RstArrives
  BY <1>16 DEF RstArrives
<1>17. CASE ServerDies
  BY <1>17 DEF ServerDies
<1>18. CASE Connect
  BY <1>18 DEF Connect
<1>19. CASE ConnectNonb
  BY <1>19 DEF ConnectNonb
<1>20. CASE FgetsEOF
  BY <1>20 DEF FgetsEOF
<1>21. CASE StrCliReads
  BY <1>21 DEF StrCliReads
<1>22. CASE SelectSocket
  BY <1>22 DEF SelectSocket
<1>23. CASE EventSocket
  BY <1>23 DEF EventSocket
<1>24. CASE NonbReadSocket
  BY <1>24 DEF NonbReadSocket
<1>25. CASE BrokenPipe
  BY <1>25 DEF BrokenPipe
<1>26. CASE ParentReturns
  BY <1>26 DEF ParentReturns
<1>27. CASE MainReturns
  BY <1>27 DEF MainReturns
<1>28. ASSUME NEW typed \in BOOLEAN, SelectReturns(typed) PROVE Verdict'
  BY <1>28 DEF SelectReturns
<1>29. ASSUME NEW typed \in BOOLEAN, KeventReturns(typed) PROVE Verdict'
  BY <1>29 DEF KeventReturns
<1>30. ASSUME NEW typed \in BOOLEAN, NEW drained \in BOOLEAN, NonbSelect(typed, drained) PROVE Verdict'
  BY <1>30 DEF NonbSelect
<1>31. ASSUME NEW n \in 0..MaxLine, NonbWriteOut(n) PROVE Verdict'
  BY <1>31 DEF NonbWriteOut
<1>32. CASE UNCHANGED vars
  BY <1>32 DEF vars
<1> HIDE DEF IInv, Shape, Ends, Flow, Modes, Counts, Places, Buffers, InputRead, FinNoted,
      FinLast, StopAndWait, Conserved, ServerDone, Verdict, NormalEnd, DroppedBound,
      PrematureMeansCrash, End, Running, netVars, toVars, frVars, pcVars, Write, Take,
      SendFin, AtEOF, Reset, Readable, Start, At, StrCliMain, SelectMain, KqueueMain,
        NonbMain, ForkMain, ThreadMain, Stage, GoOn, Least, Kinds, Kqueue, TwoActors, given,
        Readline, Partial, ReadlineFails
<1>33. QED
  BY <1>1, <1>2, <1>3, <1>4, <1>5, <1>6, <1>7, <1>8, <1>9, <1>10, <1>11, <1>12, <1>13,
      <1>14, <1>15, <1>16, <1>17, <1>18, <1>19, <1>20, <1>21, <1>22, <1>23, <1>24, <1>25,
      <1>26, <1>27, <1>28, <1>29, <1>30, <1>31, <1>32
     DEF Next, Client, Loop, Closing, Server, Typed, Finished

-----------------------------------------------------------------------------
LEMMA IInvStep == IInv /\ [Next]_vars => IInv'
BY ModesStep, CountsStep, PlacesStep, EndsStep, FlowStep, VerdictStep DEF IInv, Shape

LEMMA Invariant == Spec => []IInv
<1>1. Init => IInv
  BY InitIInv
<1>2. IInv /\ [Next]_vars => IInv'
  BY IInvStep
<1>3. QED
  BY <1>1, <1>2, PTL DEF Spec

\* Every variable keeps its type; in particular no index leaves to[] or fr[].
THEOREM TypeCorrect == Spec => []TypeOK
<1>1. IInv => TypeOK
  BY DEF IInv, Shape, Modes, Counts, TypeOK
<1>2. QED
  BY <1>1, Invariant, PTL

\* What a client returns with, for every input and all buffers: NothingLost of EchoSession.
THEOREM NothingIsLost == Spec => []NothingLost
<1>1. IInv => NothingLost
  BY InputAssumption DEF IInv, Shape, Counts, Buffers, Flow, Conserved, Verdict, NormalEnd,
     DroppedBound, NothingLost
<1>2. QED
  BY <1>1, Invariant, PTL

\* The FIN is the last thing sent: FinLast of EchoSession.
THEOREM FinIsLast == Spec => []FinLast
<1>1. IInv => FinLast
  BY DEF IInv, Ends
<1>2. QED
  BY <1>1, Invariant, PTL

\* A complete session is called a failure in the window of the ch26 client and nowhere else:
\* PrematureMeansCrash of EchoSession.
THEOREM PrematureIsTrue == Spec => []PrematureMeansCrash
<1>1. IInv => PrematureMeansCrash
  BY DEF IInv, Verdict
<1>2. QED
  BY <1>1, Invariant, PTL

-----------------------------------------------------------------------------
(***************************************************************************)
(* Proofs about SigioEcho, for any number of slots and any datagrams: the  *)
(* handler keeps off the slot Sendto reads, and the ring implements the    *)
(* queue of EchoQueue.                                                     *)
(*                                                                         *)
(* Both rest on one fact, Position: iput is always the slot behind the     *)
(* last unsent datagram.  iget and nqueue do not change together (iget     *)
(* moves at 67, SIGIO unblocked, nqueue at 72), so what is unsent depends  *)
(* on where the main loop is: that is what First and Unsent say.           *)
(***************************************************************************)
Position ==
    /\ pc \in {"send", "advance", "block"} => nqueue >= 1
    /\ iput = IF First + Unsent < QSize THEN First + Unsent ELSE First + Unsent - QSize

SigioIInv == SigioTypeOK /\ Position

-----------------------------------------------------------------------------
(* The unsent datagrams as a sequence.                                     *)

LEMMA WaitingShape ==
    ASSUME SigioIInv
    PROVE  /\ Unsent \in 0..QSize /\ Unsent <= nqueue /\ First \in Slots
           /\ \A k \in 1..Unsent : Index(k) \in Slots
           /\ Waiting \in Seq(Datagrams \union {NoDatagram})
           /\ Len(Waiting) = Unsent
           /\ \A k \in 1..Unsent : Waiting[k] = dg[Index(k)]
<1> USE SizeAssumption
<1>1. /\ Unsent \in 0..QSize
      /\ Unsent <= nqueue
      /\ First \in Slots
  BY DEF SigioIInv, SigioTypeOK, Position, Unsent, First, Advance, Slots
<1>2. \A k \in 1..Unsent : Index(k) \in Slots
  BY <1>1 DEF Index, Slots
<1>3. \A k \in 1..Unsent : Waiting[k] = dg[Index(k)]
  BY DEF Waiting
<1>4. Waiting \in [1..Unsent -> Datagrams \union {NoDatagram}]
  BY <1>2 DEF Waiting, SigioIInv, SigioTypeOK
<1>5. Waiting \in Seq(Datagrams \union {NoDatagram}) /\ Len(Waiting) = Unsent
  BY <1>1, <1>4
<1>6. QED
  BY <1>1, <1>2, <1>3, <1>5

LEMMA SlotBounds ==
    ASSUME SigioIInv, ~Full
    PROVE  /\ QSize \in Nat \ {0} /\ Unsent \in Nat /\ Unsent <= nqueue
           /\ nqueue \in Nat /\ nqueue < QSize
           /\ First \in Nat /\ First < QSize
           /\ iput = IF First + Unsent < QSize THEN First + Unsent ELSE First + Unsent - QSize
<1>1. Unsent \in 0..QSize /\ Unsent <= nqueue /\ First \in Slots
  BY WaitingShape
<1>2. QSize \in Nat \ {0}
  BY SizeAssumption
<1>3. nqueue \in 0..QSize /\ ~(nqueue >= QSize)
  BY DEF SigioIInv, SigioTypeOK, Full
<1>4. QED
  BY <1>1, <1>2, <1>3 DEF Slots, SigioIInv, Position

\* The handler's slot is not one of the unsent datagrams' while nqueue < QSIZE.
LEMMA PutSlotFree ==
    ASSUME SigioIInv, ~Full
    PROVE  /\ \A k \in 1..Unsent : Index(k) # iput
           /\ pc = "send" => iget # iput
<1>1. \A k \in 1..Unsent : Index(k) # iput
  BY SlotBounds DEF Index
<1>2. pc = "send" => iget # iput
  BY SizeAssumption, WaitingShape
     DEF SigioIInv, SigioTypeOK, Position, Full, First, Unsent, Slots
<1>3. QED
  BY <1>1, <1>2

\* Nothing but the contents of free slots changes.
LEMMA WaitingSame ==
    ASSUME First' = First, Unsent' = Unsent,
           \A k \in 1..Unsent : dg'[Index(k)] = dg[Index(k)]
    PROVE  Waiting' = Waiting
<1>1. \A k \in 1..Unsent : Index(k)' = Index(k)
  BY DEF Index
<1>2. QED
  BY <1>1 DEF Waiting

LEMMA WaitingAppend ==
    ASSUME SigioIInv, SigioIInv', ~Full, NEW d \in Datagrams,
           dg' = [dg EXCEPT ![iput] = d], First' = First, Unsent' = Unsent + 1
    PROVE  Waiting' = Append(Waiting, d)
<1> USE SizeAssumption
<1>1. \A k \in 1..Unsent : Index(k)' = Index(k) /\ Index(k) # iput
  BY PutSlotFree DEF Index
<1>2. \A k \in Nat : k = Unsent + 1 => Index(k)' = iput
  BY SlotBounds DEF Index
<1>3. \A k \in 1..(Unsent + 1) : Waiting'[k] = IF k <= Unsent THEN Waiting[k] ELSE d
  <2> SUFFICES ASSUME NEW k \in 1..(Unsent + 1)
               PROVE  Waiting'[k] = IF k <= Unsent THEN Waiting[k] ELSE d
    OBVIOUS
  <2>1. Unsent \in Nat /\ dg \in [Slots -> Datagrams \union {NoDatagram}] /\ iput \in Slots
    BY WaitingShape DEF SigioIInv, SigioTypeOK
  <2>2. Waiting'[k] = dg'[Index(k)']
    BY DEF Waiting
  <2>3. CASE k <= Unsent
    BY <1>1, <2>1, <2>2, <2>3, WaitingShape
  <2>4. CASE k = Unsent + 1
    <3>1. Index(k)' = iput
      BY <1>2, <2>1, <2>4
    <3>2. QED
      BY <2>1, <2>2, <2>4, <3>1
  <2>5. QED
    BY <2>1, <2>3, <2>4
<1>4. Waiting' \in Seq(Datagrams \union {NoDatagram}) /\ Len(Waiting') = Unsent + 1
  <2>1. Waiting' = [k \in 1..(Unsent + 1) |-> Waiting'[k]]
    BY DEF Waiting
  <2>2. \A k \in 1..(Unsent + 1) : Waiting'[k] \in Datagrams \union {NoDatagram}
    BY <1>3, WaitingShape, ElementOfSeq
  <2>3. QED
    BY <2>1, <2>2, WaitingShape
<1>5. /\ Append(Waiting, d) \in Seq(Datagrams \union {NoDatagram})
      /\ Len(Append(Waiting, d)) = Unsent + 1
      /\ \A k \in 1..(Unsent + 1) :
            Append(Waiting, d)[k] = IF k <= Unsent THEN Waiting[k] ELSE d
  BY WaitingShape, AppendProperties
<1>6. QED
  BY <1>3, <1>4, <1>5, SeqEqual

LEMMA WaitingTail ==
    ASSUME SigioIInv, SigioIInv', Unsent >= 1, dg' = dg,
           First' = Advance(First), Unsent' = Unsent - 1
    PROVE  /\ Waiting # <<>> /\ Head(Waiting) = dg[First]
           /\ Waiting' = Tail(Waiting)
<1> USE SizeAssumption
<1>1. Index(1) = First
  BY WaitingShape DEF Index, Slots
<1>2. Waiting # <<>> /\ Head(Waiting) = dg[First]
  BY <1>1, WaitingShape
<1>3. \A k \in 1..(Unsent - 1) : Index(k)' = Index(k + 1)
  BY WaitingShape DEF Index, Advance, Slots
<1>4. \A k \in 1..(Unsent - 1) : Waiting'[k] = Waiting[k + 1]
  <2> SUFFICES ASSUME NEW k \in 1..(Unsent - 1) PROVE Waiting'[k] = Waiting[k + 1]
    OBVIOUS
  <2>1. Waiting'[k] = dg[Index(k)']
    BY DEF Waiting
  <2>2. k + 1 \in 1..Unsent
    BY WaitingShape
  <2>3. QED
    BY <1>3, <2>1, <2>2, WaitingShape
<1>5. Waiting' \in Seq(Datagrams \union {NoDatagram}) /\ Len(Waiting') = Unsent - 1
  <2>1. Waiting' = [k \in 1..(Unsent - 1) |-> Waiting'[k]]
    BY DEF Waiting
  <2>2. \A k \in 1..(Unsent - 1) : Waiting'[k] \in Datagrams \union {NoDatagram}
    BY <1>4, WaitingShape, ElementOfSeq
  <2>3. QED
    BY <2>1, <2>2, WaitingShape
<1>6. /\ Tail(Waiting) \in Seq(Datagrams \union {NoDatagram})
      /\ Len(Tail(Waiting)) = Unsent - 1
      /\ \A k \in 1..(Unsent - 1) : Tail(Waiting)[k] = Waiting[k + 1]
  BY <1>2, WaitingShape, HeadTailProperties
<1>7. Waiting' = Tail(Waiting)
  BY <1>4, <1>5, <1>6, SeqEqual
<1>8. QED
  BY <1>2, <1>7

-----------------------------------------------------------------------------
(* The invariant.                                                          *)

LEMMA SigioInvStep == SigioIInv /\ [SigioNext]_sigio_vars => SigioIInv'
<1> SUFFICES ASSUME SigioIInv, [SigioNext]_sigio_vars PROVE SigioIInv'
  OBVIOUS
<1> USE SizeAssumption, DatagramAssumption DEF SigioIInv, Position, First, Unsent
<1>1. CASE Test
  BY <1>1 DEF Test, ring, SigioTypeOK
<1>2. CASE Send
  <2>1. SigioTypeOK'
    BY <1>2 DEF Send, ring, SigioTypeOK
  <2>2. QED
    BY <1>2, <2>1 DEF Send, ring, Advance, Slots, SigioTypeOK
<1>3. CASE AdvanceGet
  <2>1. SigioTypeOK'
    BY <1>3 DEF AdvanceGet, Advance, Slots, SigioTypeOK
  <2>2. QED
    BY <1>3, <2>1 DEF AdvanceGet
<1>4. CASE Unqueue
  BY <1>4 DEF Unqueue, SigioTypeOK
<1>5. CASE Deliver
  BY <1>5 DEF Deliver, ring, SigioTypeOK
<1>6. CASE Overflow
  BY <1>6 DEF Overflow, ring, SigioTypeOK
<1>7. CASE Receive
  <2>1. SigioTypeOK'
    <3>1. Head(sockbuf) \in Datagrams /\ Tail(sockbuf) \in Seq(Datagrams)
      BY <1>7 DEF Receive, SigioTypeOK
    <3>2. Len(Tail(sockbuf)) <= SockMax
      BY <1>7 DEF Receive, SigioTypeOK
    <3>3. iput' \in Slots /\ nqueue' \in 0..QSize
      BY <1>7 DEF Receive, Full, Advance, Slots, SigioTypeOK
    <3>4. QED
      BY <1>7, <3>1, <3>2, <3>3 DEF Receive, SigioTypeOK
  <2>2. QED
    BY <1>7, <2>1 DEF Receive, Full, Advance, Slots, SigioTypeOK
<1>8. CASE Drained
  <2>1. SigioTypeOK'
    BY <1>8 DEF Drained, Return, Slots, SigioTypeOK
  <2>2. QED
    BY <1>8, <2>1 DEF Drained, Return
<1>9. ASSUME NEW d \in Datagrams, Arrive(d) PROVE SigioIInv'
  BY <1>9 DEF Arrive, ring, SigioTypeOK
<1>10. CASE Hangup
  BY <1>10 DEF Hangup, ring, SigioTypeOK
<1>11. CASE CallFails
  BY <1>11 DEF CallFails, ring, SigioTypeOK
<1>12. CASE UNCHANGED sigio_vars
  BY <1>12 DEF sigio_vars, ring, SigioTypeOK
<1>13. CASE SetAsync \/ SetNonblock \/ BlockSigio
  BY <1>13 DEF SetAsync, SetNonblock, BlockSigio, StartUp, ring, SigioTypeOK
<1>14. QED
  BY <1>1, <1>2, <1>3, <1>4, <1>5, <1>6, <1>7, <1>8, <1>9, <1>10, <1>11, <1>12, <1>13
     DEF SigioNext, MainStep, HandlerStep, Environment, Exited

LEMMA SigioInductive == SigioSpec => []SigioIInv
<1>1. SigioInit => SigioIInv
  <2> SUFFICES ASSUME SigioInit PROVE SigioIInv
    OBVIOUS
  <2>1. sockbuf \in Seq(Datagrams) /\ Len(sockbuf) = 0
    BY DEF SigioInit
  <2>2. iget \in Slots /\ iput \in Slots /\ nqueue \in 0..QSize /\ Len(sockbuf) <= SockMax
    BY <2>1, SizeAssumption DEF SigioInit, Slots
  <2>3. dg \in [Slots -> Datagrams \union {NoDatagram}]
    BY DEF SigioInit
  <2>4. SigioTypeOK
    BY <2>1, <2>2, <2>3 DEF SigioInit, SigioTypeOK
  <2>5. QED
    BY <2>4, SizeAssumption DEF SigioInit, SigioIInv, Position, First, Unsent
<1>2. QED
  BY <1>1, SigioInvStep, PTL DEF SigioSpec

-----------------------------------------------------------------------------
\* Variables keep their types: nqueue never exceeds QSIZE and no index leaves dg[].
THEOREM SigioTyping == SigioSpec => []SigioTypeOK
<1>1. SigioIInv => SigioTypeOK
  BY DEF SigioIInv
<1>2. QED
  BY <1>1, SigioInductive, PTL

\* The handler keeps off the slot Sendto reads (64-65, 86-97).
THEOREM SendSafe == SigioSpec => SendSlotStable
<1>1. SigioIInv /\ [SigioNext]_sigio_vars => [pc = "send" => dg'[iget] = dg[iget]]_sigio_vars
  <2> SUFFICES ASSUME SigioIInv, [SigioNext]_sigio_vars, pc = "send" PROVE dg'[iget] = dg[iget]
    OBVIOUS
  <2>1. CASE Receive \/ Drained
    <3>1. iget # iput
      BY <2>1, PutSlotFree DEF Receive, Drained
    <3>2. QED
      BY <2>1, <3>1 DEF Receive, Drained, SigioIInv, SigioTypeOK
  <2>2. CASE dg' = dg
    BY <2>2
  <2>3. QED
    BY <2>1, <2>2
       DEF SigioNext, MainStep, HandlerStep, Environment, Exited, Test, Send, AdvanceGet,
           Unqueue, Deliver, Overflow, Arrive, Hangup, CallFails, sigio_vars, ring,
           SetAsync, SetNonblock, BlockSigio, StartUp
<1>2. QED
  BY <1>1, SigioInductive, PTL DEF SigioSpec, SendSlotStable

\* A step of the server is a step of the abstract queue, or none.
LEMMA StepRefines ==
    ASSUME SigioIInv, [SigioNext]_sigio_vars
    PROVE  [Echo!Next]_(Echo!vars)
<1> USE DEF Echo!vars
<1>0. SigioIInv'
  BY SigioInvStep
<1>1. CASE status = "up" /\ Send
  <2>1. /\ Unsent >= 1 /\ Unsent' = Unsent - 1
        /\ First = iget /\ First' = Advance(First)
    BY <1>1 DEF Send, ring, Unsent, First, SigioIInv, SigioTypeOK, Position
  <2>2. /\ Waiting # <<>> /\ Head(Waiting) = dg[iget]
        /\ Waiting' = Tail(Waiting)
    BY <1>0, <1>1, <2>1, WaitingTail DEF Send, ring
  <2>3. Echo!Echo
    BY <1>1, <2>2 DEF Send, Echo!Echo
  <2>4. QED
    BY <2>3 DEF Echo!Next
<1>2. CASE status = "up" /\ Receive
  <2>1. Head(sockbuf) \in Datagrams
    BY <1>2 DEF Receive, SigioIInv, SigioTypeOK
  <2>2. First' = First /\ Unsent' = Unsent + 1
    BY <1>2 DEF Receive, First, Unsent, Advance, SigioIInv, SigioTypeOK
  <2>3. Waiting' = Append(Waiting, Head(sockbuf))
    BY <1>0, <1>2, <2>1, <2>2, WaitingAppend DEF Receive
  <2>4. Len(Waiting) < QSize
    BY <1>2, WaitingShape, SizeAssumption DEF Receive, Full, SigioIInv, SigioTypeOK
  <2>5. Echo!Read(Head(sockbuf))
    BY <1>2, <2>3, <2>4 DEF Receive, Echo!Read
  <2>6. QED
    BY <2>1, <2>5 DEF Echo!Next
<1>3. CASE status = "up" /\ Overflow
  <2>1. Len(Waiting) >= QSize - 1
    BY <1>3, WaitingShape, SizeAssumption DEF Overflow, Full, Unsent, SigioIInv, SigioTypeOK
  <2>2. Waiting' = Waiting
    BY <1>3, WaitingSame DEF Overflow, ring, First, Unsent
  <2>3. Echo!Overflow
    BY <1>3, <2>1, <2>2 DEF Overflow, Echo!Overflow, Echo!Stop
  <2>4. QED
    BY <2>3 DEF Echo!Next
<1>4. CASE status = "up" /\ CallFails
  <2>1. Waiting' = Waiting
    BY <1>4, WaitingSame DEF CallFails, ring, First, Unsent
  <2>2. Echo!Fail
    BY <1>4, <2>1 DEF CallFails, Echo!Fail, Echo!Stop
  <2>3. QED
    BY <2>2 DEF Echo!Next
<1>5. CASE AdvanceGet \/ Unqueue
  <2>1. First' = First /\ Unsent' = Unsent
    BY <1>5 DEF AdvanceGet, Unqueue, First, Unsent
  <2>2. Waiting' = Waiting
    BY <1>5, <2>1, WaitingSame DEF AdvanceGet, Unqueue
  <2>3. QED
    BY <1>5, <2>2 DEF AdvanceGet, Unqueue
<1>6. CASE Drained
  <2>1. First' = First /\ Unsent' = Unsent
    BY <1>6 DEF Drained, Return, First, Unsent
  <2>2. \A k \in 1..Unsent : dg'[Index(k)] = dg[Index(k)]
    BY <1>6, PutSlotFree, WaitingShape DEF Drained, SigioIInv, SigioTypeOK
  <2>3. Waiting' = Waiting
    BY <2>1, <2>2, WaitingSame
  <2>4. QED
    BY <1>6, <2>3 DEF Drained
<1>7. CASE Test \/ Deliver \/ Hangup \/ SetAsync \/ SetNonblock \/ BlockSigio \/ (\E d \in Datagrams : Arrive(d))
  <2>1. First' = First /\ Unsent' = Unsent /\ dg' = dg
    BY <1>7 DEF Test, Deliver, Hangup, SetAsync, SetNonblock, BlockSigio, StartUp, Arrive, ring,
                First, Unsent
  <2>2. Waiting' = Waiting
    BY <2>1, WaitingSame
  <2>3. QED
    BY <1>7, <2>2 DEF Test, Deliver, Hangup, SetAsync, SetNonblock, BlockSigio, StartUp, Arrive
<1>8. CASE UNCHANGED sigio_vars
  <2>1. First' = First /\ Unsent' = Unsent /\ dg' = dg
    BY <1>8 DEF sigio_vars, First, Unsent
  <2>2. QED
    BY <1>8, <2>1, WaitingSame DEF sigio_vars
<1>9. QED
  BY <1>1, <1>2, <1>3, <1>4, <1>5, <1>6, <1>7, <1>8
     DEF SigioNext, MainStep, HandlerStep, Environment, Exited

\* Every datagram read is echoed once and in order, and the server stops itself
\* only when its slots are used up (line 83).
THEOREM RingIsEchoQueue == SigioSpec => ImplementsEcho
<1>1. SigioInit => Echo!Init
  <2> SUFFICES ASSUME SigioInit PROVE Echo!Init
    OBVIOUS
  <2>1. Waiting = <<>>
    BY DEF SigioInit, Waiting, Unsent
  <2>2. QED
    BY <2>1 DEF SigioInit, Echo!Init
<1>2. SigioIInv /\ [SigioNext]_sigio_vars => [Echo!Next]_(Echo!vars)
  BY StepRefines
<1>3. QED
  BY <1>1, <1>2, SigioInductive, PTL DEF SigioSpec, ImplementsEcho, Echo!Spec
=============================================================================
