-------------------------- MODULE IcmpDaemonProofs --------------------------
(***************************************************************************)
(* Proofs about IcmpDaemon, for any number of clients, entries and         *)
(* datagrams: the entry that is remembered is that of a client that has    *)
(* closed, and errors go to the client they are about.                     *)
(*                                                                         *)
(* Both are conditional on ~raced, and so is what carries them: Entries,   *)
(* that the two fields of an entry are one client's and every live client  *)
(* that is stored has one, and Closings, that the handler finds only       *)
(* clients that have closed.  Once the handler has interleaved with main   *)
(* nothing remains of them but Filled: an entry has both fields or none.   *)
(* Between main's two stores (106, 107) an entry is half the new client's  *)
(* and half the old one's, who has closed; pc = "port" stands for that.    *)
(***************************************************************************)
EXTENDS IcmpDaemon, TLAPS

\* TypeOK by the actor that changes the variables; a datagram is still to be sent, or its
\* error is on the way, or it is done with.
MainTypes ==
    /\ pc \in {"accept", "async", "recv", "lock", "test", "fd", "port", "reset", "unlock"}
    /\ clifd \in Clients \union {NoClient} /\ at \in Slots /\ mutex \in BOOLEAN
TableTypes ==
    /\ unixfd \in [Slots -> Clients \union {NoClient}]
    /\ sport \in [Slots -> Clients \union {NoClient}]
    /\ cursize \in Slots /\ idx \in Slots \union {NoEntry} /\ raced \in BOOLEAN
ClientTypes ==
    /\ connected \in 0..NClients /\ accepted \in 0..connected
    /\ async \subseteq Clients /\ passed \subseteq Clients /\ closed \subseteq Clients
SignalTypes ==
    /\ pending \in Clients \union {NoClient}
    /\ inMain \in Clients \union {NoClient} /\ inThread \in Clients \union {NoClient}
    /\ found \in Slots \union {NoEntry}
ReportTypes ==
    /\ todo \in [Clients -> Nat] /\ errors \in [Clients -> Nat]
    /\ \A c \in Clients : todo[c] + errors[c] <= Lines
    /\ unread \subseteq Clients /\ misled \in BOOLEAN
    /\ ended \in {"no", "SIGPIPE", "recvmsg error", "connection closed by server", "too many connection"}

Types == MainTypes /\ TableTypes /\ ClientTypes /\ SignalTypes /\ ReportTypes

\* Where main is says whom it is accepting, whether it has the mutex and blocks SIGIO, and
\* that an entry is remembered.
Control ==
    /\ pc = "accept" <=> clifd = NoClient
    /\ clifd # NoClient => clifd = accepted
    /\ mutex <=> pc \in {"test", "fd", "port", "reset", "unlock"}
    /\ Masked => inMain = NoClient
    /\ pc \in {"fd", "port", "reset"} => idx >= 0

\* An entry has both or neither, also after the handler has interleaved with main.
Filled ==
    /\ \A i \in Slots : unixfd[i] = NoClient <=> sport[i] = NoClient
    /\ idx >= 0 => sport[idx] # NoClient
    /\ found # NoEntry => sport[found] # NoClient
    /\ pc = "port" => sport[at] # NoClient

\* Which entries the handler has found, and which one main is filling.
Closings ==
    /\ idx >= 0 /\ pc \notin {"port", "reset"} => unixfd[idx] \in closed
    /\ found # NoEntry => unixfd[found] \in closed
    /\ pc = "port" => unixfd[at] = clifd

\* Main has stored the entry of client c.
Stored(c) == c <= accepted /\ (c = clifd => pc \in {"reset", "unlock"})

\* Descriptor and port of an entry are one client's, who has no other entry.
Entries ==
    /\ \A i \in Slots : unixfd[i] = sport[i] \/ (pc = "port" /\ i = at)
    /\ \A i \in Slots : sport[i] # NoClient => Stored(sport[i]) /\ i <= cursize
    /\ \A i, j \in Slots : sport[i] = sport[j] /\ sport[i] # NoClient => i = j
    /\ \A c \in Clients \ closed : Stored(c) => \E i \in Slots : unixfd[i] = c /\ sport[i] = c

IInv == Types /\ Control /\ Filled /\ (raced \/ (Closings /\ Entries /\ ~misled))

LEMMA Sets ==
    /\ Clients \subseteq Nat /\ NoClient \notin Clients
    /\ Slots \subseteq Nat /\ 0 \in Slots /\ NoEntry \notin Slots
  BY BoundsAssumption DEF Clients, NoClient, Slots, NoEntry

LEMMA InvInit == Init => IInv
<1> SUFFICES ASSUME Init PROVE IInv
  OBVIOUS
<1>1. MainTypes /\ TableTypes
  BY Sets DEF Init, MainTypes, TableTypes, NoEntry
<1>2. ClientTypes
  BY BoundsAssumption DEF Init, ClientTypes
<1>3. SignalTypes
  BY DEF Init, SignalTypes
<1>4. ReportTypes
  <2>1. todo = [c \in Clients |-> Lines] /\ errors = [c \in Clients |-> 0]
    BY DEF Init
  <2>2. unread = {} /\ misled = FALSE /\ ended = "no"
    BY DEF Init
  <2>3. todo \in [Clients -> Nat] /\ errors \in [Clients -> Nat]
    BY <2>1, BoundsAssumption
  <2>4. \A c \in Clients : todo[c] + errors[c] <= Lines
    BY <2>1, BoundsAssumption
  <2>5. QED
    BY <2>2, <2>3, <2>4 DEF ReportTypes
<1>5. Control
  BY DEF Init, Control, Masked
<1>6. Closings
  BY DEF Init, Closings, NoEntry
<1>7. Entries /\ ~misled
  <2>1. \A c \in Clients : ~Stored(c)
    BY DEF Init, Stored, Clients
  <2>2. \A i \in Slots : unixfd[i] = NoClient /\ sport[i] = NoClient
    BY DEF Init
  <2>3. QED
    BY <2>1, <2>2 DEF Init, Entries
<1>8. Filled
  BY DEF Init, Filled, NoEntry
<1>9. QED
  BY <1>1, <1>2, <1>3, <1>4, <1>5, <1>6, <1>7, <1>8 DEF IInv, Types

-----------------------------------------------------------------------------
(* Types.                                                                  *)

LEMMA ConnectsTyped == ASSUME Types, NEW c \in Clients, Connects(c) PROVE Types'
<1>1. UNCHANGED <<mainVars, table, idx, async, inMain, inThread, found, misled, ended>>
  BY DEF Connects, clientUnchanged
<1>2. UNCHANGED <<accepted, passed, closed, todo, pending, errors, unread>> /\ connected' = c /\ c = connected + 1
  BY DEF Connects
<1>3. connected' \in 0..NClients /\ accepted' \in 0..connected'
  <2>1. c \in Nat /\ c <= NClients
    BY BoundsAssumption DEF Clients
  <2>2. connected \in Nat /\ accepted \in 0..connected
    BY BoundsAssumption DEF Types, ClientTypes
  <2>3. QED
    BY <1>2, <2>1, <2>2, BoundsAssumption
<1>4. ClientTypes'
  BY <1>1, <1>2, <1>3 DEF Types, ClientTypes
<1>5. SignalTypes' /\ ReportTypes'
  BY <1>1, <1>2 DEF Types, SignalTypes, ReportTypes
<1>6. QED
  BY <1>1, <1>4, <1>5 DEF Types, MainTypes, TableTypes, mainVars, table

LEMMA PassesTyped == ASSUME Types, NEW c \in Clients, Passes(c) PROVE Types'
<1>1. UNCHANGED <<mainVars, table, idx, async, inMain, inThread, found, misled, ended>>
  BY DEF Passes, clientUnchanged
<1>2. UNCHANGED <<connected, accepted, closed, todo, errors, unread>> /\ passed' = passed \union {c}
  BY DEF Passes
<1>3. SignalTypes'
  BY <1>1 DEF Types, Passes, Raise, SignalTypes
<1>4. QED
  BY <1>1, <1>2, <1>3 DEF Types, MainTypes, TableTypes, ClientTypes, ReportTypes, mainVars, table

LEMMA SendsTyped == ASSUME Types, NEW c \in Clients, Sends(c) PROVE Types'
<1>1. UNCHANGED <<mainVars, table, idx, async, inMain, inThread, found, misled, ended>>
  BY DEF Sends, clientUnchanged
<1>2. UNCHANGED <<connected, accepted, passed, closed, pending, unread>>
  BY DEF Sends
<1>3. /\ todo[c] > 0 /\ todo' = [todo EXCEPT ![c] = @ - 1]
      /\ errors' = [errors EXCEPT ![c] = @ + 1]
  BY DEF Sends
<1>4. todo \in [Clients -> Nat] /\ errors \in [Clients -> Nat]
  BY DEF Types, ReportTypes
<1>5. \A d \in Clients : todo[d] + errors[d] <= Lines
  BY DEF Types, ReportTypes
<1>6. todo' \in [Clients -> Nat] /\ errors' \in [Clients -> Nat]
  BY <1>3, <1>4
<1>7. \A d \in Clients : todo'[d] + errors'[d] = todo[d] + errors[d]
  BY <1>3, <1>4
<1>8. ReportTypes'
  BY <1>1, <1>2, <1>5, <1>6, <1>7 DEF Types, ReportTypes
<1>9. QED
  BY <1>1, <1>2, <1>8 DEF Types, MainTypes, TableTypes, ClientTypes, SignalTypes, mainVars, table

LEMMA ReadsTyped == ASSUME Types, NEW c \in Clients, Reads(c) PROVE Types'
<1>1. UNCHANGED <<mainVars, table, idx, async, inMain, inThread, found, misled, ended>>
  BY DEF Reads, clientUnchanged
<1>2. UNCHANGED <<clientVars, errors>> /\ unread' = unread \ {c}
  BY DEF Reads
<1>3. SignalTypes'
  BY <1>1 DEF Types, Reads, Raise, SignalTypes
<1>4. QED
  BY <1>1, <1>2, <1>3 DEF Types, MainTypes, TableTypes, ClientTypes, ReportTypes, mainVars, table, clientVars

LEMMA ExitsTyped == ASSUME Types, NEW c \in Clients, Exits(c) PROVE Types'
<1>1. UNCHANGED <<mainVars, table, idx, async, inMain, inThread, found, misled, ended>>
  BY DEF Exits, clientUnchanged
<1>2. /\ UNCHANGED <<connected, accepted, passed, errors>>
      /\ closed' = closed \union {c} /\ unread' = unread \ {c}
      /\ todo' = [todo EXCEPT ![c] = 0]
  BY DEF Exits
<1>3. SignalTypes'
  BY <1>1 DEF Types, Exits, Raise, SignalTypes
<1>4. todo \in [Clients -> Nat] /\ errors \in [Clients -> Nat]
  BY DEF Types, ReportTypes
<1>5. \A d \in Clients : todo[d] + errors[d] <= Lines
  BY DEF Types, ReportTypes
<1>6. todo' \in [Clients -> Nat] /\ \A d \in Clients : todo'[d] \in Nat /\ todo'[d] <= todo[d]
  BY <1>2, <1>4
<1>7. ReportTypes'
  <2>1. \A d \in Clients : todo'[d] + errors[d] <= Lines
    BY <1>4, <1>5, <1>6, BoundsAssumption
  <2>2. QED
    BY <1>1, <1>2, <1>6, <2>1 DEF Types, ReportTypes
<1>8. QED
  BY <1>1, <1>2, <1>3, <1>7 DEF Types, MainTypes, TableTypes, ClientTypes, mainVars, table

LEMMA ClientTyped == ASSUME Types, NEW c \in Clients, Client(c) PROVE Types'
  BY ConnectsTyped, PassesTyped, SendsTyped, ReadsTyped, ExitsTyped DEF Client

LEMMA HandlerTyped == ASSUME Types, Handler PROVE Types'
<1>1. UNCHANGED <<mainVars, table, clientVars, async, reports, ended>>
  BY DEF Handler, HandlerInThread, DeliverToMain, DeliverToThread, HandlerInMain, ThreadFinds,
         ThreadFindsNothing, ThreadNotes, handlerUnchanged
<1>2. idx' \in Slots \union {NoEntry} /\ SignalTypes'
  <2> USE DEF Types, TableTypes, SignalTypes
  <2>1. CASE DeliverToMain \/ DeliverToThread
    BY <2>1 DEF DeliverToMain, DeliverToThread
  <2>2. CASE HandlerInMain
    BY <2>2 DEF HandlerInMain
  <2>3. CASE HandlerInThread
    BY <2>3 DEF HandlerInThread, ThreadFinds, ThreadFindsNothing, ThreadNotes
  <2>4. QED
    BY <2>1, <2>2, <2>3 DEF Handler
<1>3. QED
  BY <1>1, <1>2
     DEF Types, MainTypes, TableTypes, ClientTypes, ReportTypes, mainVars, table, clientVars, reports

LEMMA ReportTyped == ASSUME Types, Filled, NEW p \in Clients, ThreadReports(p) PROVE Types'
<1>1. UNCHANGED <<mainVars, table, idx, clientVars, async, signalVars>>
  BY DEF ThreadReports, reporting
<1>2. errors[p] > 0 /\ errors' = [errors EXCEPT ![p] = @ - 1]
  BY DEF ThreadReports
<1>3. unread' \subseteq Clients /\ misled' \in BOOLEAN /\ (ended' = ended \/ ended' = "SIGPIPE")
  <2>1. \A i \in Slots : First(i, Of(p)) => sport[i] = p
    BY DEF First, Of
  <2>2. \A i \in Slots : sport[i] = p => unixfd[i] \in Clients
    BY Sets DEF Types, TableTypes, Filled
  <2>3. unread \subseteq Clients /\ misled \in BOOLEAN
    BY DEF Types, ReportTypes
  <2>4. CASE Of(p) = {}
    BY <2>3, <2>4 DEF ThreadReports
  <2>5. CASE Of(p) # {}
    <3>1. PICK i \in Slots :
            /\ First(i, Of(p))
            /\ IF unixfd[i] \in closed THEN ended' = "SIGPIPE" /\ UNCHANGED <<unread, misled>>
               ELSE /\ misled' = (misled \/ unixfd[i] # p)
                    /\ unread' = unread \union {unixfd[i]}
                    /\ UNCHANGED ended
      BY <2>5 DEF ThreadReports
    <3>2. unixfd[i] \in Clients
      BY <2>1, <2>2, <3>1
    <3>3. CASE unixfd[i] \in closed
      BY <2>3, <3>1, <3>3
    <3>4. CASE unixfd[i] \notin closed
      <4>1. misled' = (misled \/ unixfd[i] # p) /\ unread' = unread \union {unixfd[i]} /\ ended' = ended
        BY <3>1, <3>4
      <4>2. QED
        BY <2>3, <3>2, <4>1
    <3>5. QED
      BY <3>3, <3>4
  <2>6. QED
    BY <2>4, <2>5
<1>4. todo \in [Clients -> Nat] /\ errors \in [Clients -> Nat]
  BY DEF Types, ReportTypes
<1>5. \A d \in Clients : todo[d] + errors[d] <= Lines
  BY DEF Types, ReportTypes
<1>6. errors' \in [Clients -> Nat] /\ \A d \in Clients : errors'[d] \in Nat /\ errors'[d] <= errors[d]
  BY <1>2, <1>4
<1>7. \A d \in Clients : todo[d] + errors'[d] <= Lines
  BY <1>4, <1>5, <1>6, BoundsAssumption
<1>8. ReportTypes'
  BY <1>1, <1>3, <1>6, <1>7 DEF Types, ReportTypes, clientVars
<1>9. QED
  BY <1>1, <1>8
     DEF Types, MainTypes, TableTypes, ClientTypes, SignalTypes, mainVars, table, clientVars, signalVars

\* What no step of main changes.
LEMMA MainLeaves ==
  ASSUME Main
  PROVE  /\ UNCHANGED <<connected, passed, closed, todo, pending, inMain, inThread, found>>
         /\ UNCHANGED <<errors, unread, misled>>
         /\ inMain = NoClient
  BY DEF Main, Accept, Async, RecvFd, Lock, Fill, Remembered, StoreFd, StorePort, Reset, Unlock, End,
         At, mainUnchanged, clientVars, signalVars, reports

LEMMA MainTyped == ASSUME Types, Control, Main PROVE Types'
<1>1. /\ UNCHANGED <<connected, passed, closed, todo, pending, inMain, inThread, found>>
      /\ UNCHANGED <<errors, unread, misled>>
  BY MainLeaves
<1>2. ended' \in {"no", "SIGPIPE", "recvmsg error", "connection closed by server", "too many connection"}
  <2>1. ended \in {"no", "SIGPIPE", "recvmsg error", "connection closed by server", "too many connection"}
    BY DEF Types, ReportTypes
  <2>2. CASE RecvFd
    BY <2>1, <2>2 DEF RecvFd, End, mainUnchanged
  <2>3. CASE Fill
    BY <2>1, <2>3 DEF Fill, End, mainUnchanged
  <2>4. QED
    BY <2>1, <2>2, <2>3 DEF Main, Accept, Async, Lock, Remembered, StoreFd, StorePort, Reset, Unlock,
           mainUnchanged
<1>3. SignalTypes' /\ ReportTypes'
  BY <1>1, <1>2 DEF Types, SignalTypes, ReportTypes
<1>4. CASE Accept
  <2>1. /\ accepted < connected /\ accepted' = accepted + 1 /\ clifd' = accepted'
        /\ pc' = "async" /\ UNCHANGED <<at, mutex, table, idx, async>>
    BY <1>4 DEF Accept
  <2>2. accepted \in Nat /\ connected \in Nat /\ connected <= NClients
    BY BoundsAssumption DEF Types, ClientTypes
  <2>3. accepted' \in 0..connected /\ accepted' \in 1..NClients
    BY <2>1, <2>2, BoundsAssumption
  <2>4. MainTypes'
    BY <2>1, <2>3 DEF Types, MainTypes, Clients
  <2>5. ClientTypes'
    BY <1>1, <2>1, <2>3 DEF Types, ClientTypes
  <2>6. QED
    BY <1>3, <2>1, <2>4, <2>5 DEF Types, TableTypes, table
<1>5. CASE Async
  <2>1. clifd \in Clients /\ UNCHANGED <<clifd, at, mutex, table, idx, accepted>>
    BY <1>5, Sets DEF Async, At, Control, Types, MainTypes
  <2>2. pc' = "recv" /\ async' = async \union {clifd}
    BY <1>5 DEF Async
  <2>3. QED
    BY <1>1, <1>3, <2>1, <2>2 DEF Types, MainTypes, TableTypes, ClientTypes, table
<1>6. CASE RecvFd \/ Lock \/ Remembered \/ Unlock
  <2>1. /\ UNCHANGED <<at, table, idx, async, accepted>>
        /\ clifd' \in {clifd, NoClient} /\ (mutex' = mutex \/ mutex' = TRUE \/ mutex' = FALSE)
        /\ pc' \in {pc, "lock", "test", "fd", "accept"}
    <3>1. CASE RecvFd
      <4>1. CASE clifd \in passed
        BY <3>1, <4>1 DEF RecvFd
      <4>2. CASE clifd \notin passed
        <5>1. UNCHANGED <<mainVars, table, idx, clientVars, async>>
          BY <3>1, <4>2 DEF RecvFd, End
        <5>2. QED
          BY <5>1 DEF mainVars, clientVars
      <4>3. QED
        BY <4>1, <4>2
    <3>2. CASE Lock
      <4>1. UNCHANGED <<clifd, at, table, idx, async, accepted>> /\ pc' = "test"
        BY <3>2 DEF Lock
      <4>2. mutex' = TRUE
        BY <3>2 DEF Lock
      <4>3. QED
        BY <4>1, <4>2
    <3>3. CASE Remembered
      BY <3>3 DEF Remembered
    <3>4. CASE Unlock
      <4>1. UNCHANGED <<at, table, idx, async, accepted>> /\ clifd' = NoClient /\ pc' = "accept"
        BY <3>4 DEF Unlock
      <4>2. mutex' = FALSE
        BY <3>4 DEF Unlock
      <4>3. QED
        BY <4>1, <4>2
    <3>5. QED
      BY <1>6, <3>1, <3>2, <3>3, <3>4
  <2>2. QED
    BY <1>1, <1>3, <2>1 DEF Types, MainTypes, TableTypes, ClientTypes, table
<1>7. CASE Fill
  <2>1. clifd \in Clients /\ UNCHANGED <<clifd, at, mutex, raced, idx, async, accepted>> /\ pc' \in {pc, "unlock"}
    <3>1. clifd \in Clients
      BY <1>7, Sets DEF Fill, At, Control, Types, MainTypes
    <3>2. CASE {i \in Slots : sport[i] = NoClient} = {}
      <4>1. UNCHANGED <<mainVars, table, idx, clientVars, async>>
        BY <1>7, <3>2 DEF Fill, End
      <4>2. QED
        BY <3>1, <4>1 DEF mainVars, table, clientVars
    <3>3. CASE {i \in Slots : sport[i] = NoClient} # {}
      BY <1>7, <3>1, <3>3 DEF Fill
    <3>4. QED
      BY <3>2, <3>3
  <2>2. /\ unixfd' \in [Slots -> Clients \union {NoClient}]
        /\ sport' \in [Slots -> Clients \union {NoClient}]
        /\ cursize' \in Slots
    BY <1>7, <2>1 DEF Fill, End, table, Types, TableTypes
  <2>3. QED
    BY <1>1, <1>3, <2>1, <2>2 DEF Types, MainTypes, TableTypes, ClientTypes
<1>8. CASE StoreFd
  <2>1. clifd \in Clients /\ idx \in Slots
    BY <1>8, Sets DEF StoreFd, At, Control, Types, MainTypes, TableTypes, NoEntry
  <2>2. /\ unixfd' = [unixfd EXCEPT ![idx] = clifd] /\ at' = idx /\ pc' = "port"
        /\ raced' = (raced \/ idx = found)
        /\ UNCHANGED <<clifd, mutex, sport, cursize, idx, async, accepted>>
    BY <1>8 DEF StoreFd
  <2>3. QED
    BY <1>1, <1>3, <2>1, <2>2 DEF Types, MainTypes, TableTypes, ClientTypes
<1>9. CASE StorePort
  <2>1. clifd \in Clients
    BY <1>9, Sets DEF StorePort, At, Control, Types, MainTypes
  <2>2. sport' \in [Slots -> Clients \union {NoClient}] /\ raced' \in BOOLEAN
    BY <1>9, <2>1 DEF StorePort, Types, TableTypes
  <2>3. /\ pc' = "reset" /\ at' = 0
        /\ UNCHANGED <<clifd, mutex, unixfd, cursize, idx, async, accepted>>
    BY <1>9 DEF StorePort
  <2>4. QED
    BY <1>1, <1>3, <2>2, <2>3, Sets DEF Types, MainTypes, TableTypes, ClientTypes
<1>10. CASE Reset
  <2>1. idx' = NoEntry /\ pc' = "unlock" /\ UNCHANGED <<clifd, at, mutex, table, async, accepted>>
    BY <1>10 DEF Reset, NoEntry
  <2>2. QED
    BY <1>1, <1>3, <2>1 DEF Types, MainTypes, TableTypes, ClientTypes, table
<1>11. QED
  BY <1>4, <1>5, <1>6, <1>7, <1>8, <1>9, <1>10 DEF Main

-----------------------------------------------------------------------------
(* Entries, descriptors and ports.                                         *)

Good == raced \/ (Closings /\ Entries /\ ~misled)

\* A step that leaves main, the table and what is remembered alone.
LEMMA Still ==
  ASSUME IInv, UNCHANGED <<mainVars, table, idx, accepted, found, misled>>, closed \subseteq closed',
         inMain' # NoClient => ~Masked
  PROVE  Control' /\ Filled' /\ Good'
<1>1. /\ UNCHANGED <<pc, clifd, at, mutex>> /\ UNCHANGED <<unixfd, sport, cursize, raced>>
      /\ UNCHANGED <<idx, accepted, found, misled>>
  BY DEF mainVars, table
<1>2. Control'
  BY <1>1 DEF IInv, Control, Masked
<1>3. Filled'
  BY <1>1 DEF IInv, Filled
<1>4. Closings => Closings'
  BY <1>1 DEF Closings
<1>5. \A c \in Clients : Stored(c)' <=> Stored(c)
  BY <1>1 DEF Stored
<1>6. \A i \in Slots : sport[i] # NoClient => sport[i] \in Clients
  BY DEF IInv, Types, TableTypes
<1>7. Entries => Entries'
  BY <1>1, <1>5, <1>6 DEF Entries
<1>8. QED
  BY <1>1, <1>2, <1>3, <1>4, <1>7 DEF IInv, Good

LEMMA ClientGood == ASSUME IInv, NEW c \in Clients, Client(c) PROVE Control' /\ Filled' /\ Good'
<1>1. UNCHANGED <<mainVars, table, idx, accepted, found, misled, inMain>>
  BY DEF Client, Connects, Passes, Sends, Reads, Exits, clientUnchanged, clientVars
<1>2. closed \subseteq closed'
  BY DEF Client, Connects, Passes, Sends, Reads, Exits, clientUnchanged, clientVars
<1>3. inMain' # NoClient => ~Masked
  BY <1>1 DEF IInv, Control
<1>4. QED
  BY <1>1, <1>2, <1>3, Still

LEMMA HandlerGood == ASSUME IInv, Handler PROVE Control' /\ Filled' /\ Good'
<1>1. /\ UNCHANGED <<pc, clifd, at, mutex>> /\ UNCHANGED <<unixfd, sport, cursize, raced>>
      /\ UNCHANGED <<accepted, closed, misled>>
  BY DEF Handler, HandlerInThread, DeliverToMain, DeliverToThread, HandlerInMain, ThreadFinds,
         ThreadFindsNothing, ThreadNotes, handlerUnchanged, mainVars, table, clientVars, reports
<1>2. CASE DeliverToMain \/ DeliverToThread \/ ThreadFindsNothing
  <2>1. UNCHANGED <<idx, found>> /\ (inMain' = inMain \/ ~Masked)
    BY <1>2 DEF DeliverToMain, DeliverToThread, ThreadFindsNothing
  <2>2. inMain' # NoClient => ~Masked
    BY <2>1 DEF IInv, Control
  <2>3. QED
    BY <1>1, <2>1, <2>2, Still DEF mainVars, table
<1>3. \A c \in Clients : Stored(c)' <=> Stored(c)
  BY <1>1 DEF Stored
<1>4. \A i \in Slots : sport[i] # NoClient => sport[i] \in Clients
  BY DEF IInv, Types, TableTypes
<1>5. Entries => Entries'
  BY <1>1, <1>3, <1>4 DEF Entries
<1>6. CASE HandlerInMain
  <2>1. CASE UNCHANGED idx
    <3>1. UNCHANGED <<idx, found>> /\ inMain' = NoClient
      BY <1>6, <2>1 DEF HandlerInMain
    <3>2. QED
      BY <1>1, <3>1, Still DEF mainVars, table
  <2>2. CASE ~UNCHANGED idx
    <3>1. PICK i \in Slots : First(i, Ended(inMain)) /\ idx' = i
      BY <1>6, <2>2 DEF HandlerInMain
    <3>2. sport[i] = inMain /\ unixfd[i] \in closed
      BY <3>1 DEF First, Ended
    <3>3. inMain # NoClient /\ inMain' = NoClient /\ found' = found
      BY <1>6 DEF HandlerInMain
    <3>4. Control'
      BY <1>1, <3>3 DEF IInv, Control, Masked
    <3>5. Filled'
      BY <1>1, <3>1, <3>2, <3>3 DEF IInv, Filled
    <3>6. Closings => Closings'
      BY <1>1, <3>1, <3>2, <3>3 DEF Closings
    <3>7. QED
      BY <1>1, <1>5, <3>4, <3>5, <3>6 DEF IInv, Good
  <2>3. QED
    BY <2>1, <2>2
<1>7. CASE ThreadFinds
  <2>1. PICK i \in Slots : First(i, Ended(inThread)) /\ found' = i
    BY <1>7 DEF ThreadFinds
  <2>2. sport[i] = inThread /\ unixfd[i] \in closed
    BY <2>1 DEF First, Ended
  <2>3. inThread # NoClient /\ inMain' = inMain /\ idx' = idx
    BY <1>7 DEF ThreadFinds
  <2>4. Control'
    BY <1>1, <2>3 DEF IInv, Control, Masked
  <2>5. Filled'
    BY <1>1, <2>1, <2>2, <2>3 DEF IInv, Filled
  <2>6. Closings => Closings'
    BY <1>1, <2>1, <2>2, <2>3 DEF Closings
  <2>7. QED
    BY <1>1, <1>5, <2>4, <2>5, <2>6 DEF IInv, Good
<1>8. CASE ThreadNotes
  <2>1. found # NoEntry /\ idx' = found /\ found' = NoEntry /\ inMain' = inMain
    BY <1>8 DEF ThreadNotes
  <2>2. found \in Nat
    BY <2>1, Sets DEF IInv, Types, SignalTypes
  <2>3. Control'
    BY <1>1, <2>1, <2>2 DEF IInv, Control, Masked
  <2>4. Filled'
    BY <1>1, <2>1 DEF IInv, Filled
  <2>5. Closings => Closings'
    BY <1>1, <2>1 DEF Closings
  <2>6. QED
    BY <1>1, <1>5, <2>3, <2>4, <2>5 DEF IInv, Good
<1>9. QED
  BY <1>2, <1>6, <1>7, <1>8 DEF Handler, HandlerInThread

\* The thread has the mutex, so that main is not between the descriptor and the port.
LEMMA ReportGood == ASSUME IInv, NEW p \in Clients, ThreadReports(p) PROVE Control' /\ Filled' /\ Good'
<1>1. /\ UNCHANGED <<mainVars, table, idx, accepted, found, inMain, closed>>
      /\ UNCHANGED <<pc, clifd, at, mutex>> /\ UNCHANGED <<unixfd, sport, cursize, raced>>
  BY DEF ThreadReports, reporting, mainVars, table, clientVars, signalVars
<1>2. inMain' # NoClient => ~Masked
  BY <1>1 DEF IInv, Control
<1>3. CASE raced
  <2>1. Control'
    BY <1>1 DEF IInv, Control, Masked
  <2>2. Filled'
    BY <1>1 DEF IInv, Filled
  <2>3. QED
    BY <1>1, <1>3, <2>1, <2>2 DEF Good
<1>4. CASE ~raced
  <2>1. pc # "port"
    BY DEF ThreadReports, IInv, Control
  <2>2. \A i \in Slots : First(i, Of(p)) => unixfd[i] = p
    BY <1>4, <2>1 DEF IInv, Entries, First, Of
  <2>3. ~misled /\ misled \in BOOLEAN
    BY <1>4 DEF IInv, Types, ReportTypes
  <2>4. misled' = misled
    BY <2>2, <2>3 DEF ThreadReports
  <2>5. QED
    BY <1>1, <1>2, <2>4, Still
<1>5. QED
  BY <1>3, <1>4

\* A step of main that leaves the table and what is remembered alone, and the entries stored.
LEMMA MainStill ==
  ASSUME IInv, Main, UNCHANGED <<unixfd, sport, cursize, raced, idx>>,
         pc' \notin {"port", "reset"}, pc \notin {"port", "reset"}, \A c \in Clients : Stored(c)' <=> Stored(c)
  PROVE  Filled' /\ Good'
<1>1. UNCHANGED <<closed, found, misled>>
  BY MainLeaves
<1>2. Filled'
  BY <1>1 DEF IInv, Filled
<1>3. Closings => Closings'
  BY <1>1 DEF Closings
<1>4. \A i \in Slots : sport[i] # NoClient => sport[i] \in Clients
  BY DEF IInv, Types, TableTypes
<1>5. Entries => Entries'
  BY <1>1, <1>4 DEF Entries
<1>6. QED
  BY <1>1, <1>2, <1>3, <1>5 DEF IInv, Good

LEMMA AcceptGood == ASSUME IInv, Accept PROVE Control' /\ Filled' /\ Good'
<1>1. /\ pc = "accept" /\ clifd' = accepted + 1 /\ accepted' = clifd' /\ pc' = "async"
      /\ UNCHANGED <<mutex, inMain, idx>> /\ UNCHANGED <<unixfd, sport, cursize, raced>>
  BY DEF Accept, At, mainUnchanged, table, signalVars
<1>2. clifd = NoClient /\ accepted \in Nat
  BY <1>1, BoundsAssumption DEF IInv, Control, Types, ClientTypes
<1>3. Control'
  BY <1>1, <1>2 DEF IInv, Control, Masked, NoClient
<1>4. \A c \in Clients : c \in Nat /\ c # NoClient
  BY Sets
<1>5. \A c \in Clients : Stored(c)' <=> Stored(c)
  BY <1>1, <1>2, <1>4 DEF Stored
<1>6. QED
  BY <1>1, <1>3, <1>5, MainStill DEF Main

\* Async, RecvFd, Lock, Remembered.
LEMMA StepGood == ASSUME IInv, Async \/ RecvFd \/ Lock \/ Remembered PROVE Control' /\ Filled' /\ Good'
<1>1. UNCHANGED <<table, clifd, accepted, idx, inMain>>
  <2>1. CASE Async
    BY <2>1 DEF Async, mainUnchanged, signalVars
  <2>2. CASE RecvFd
    BY <2>2 DEF RecvFd, mainUnchanged, signalVars, End, mainVars, clientVars
  <2>3. CASE Lock
    BY <2>3 DEF Lock, mainUnchanged, signalVars
  <2>4. CASE Remembered
    BY <2>4 DEF Remembered, mainUnchanged, signalVars
  <2>5. QED
    BY <2>1, <2>2, <2>3, <2>4
<1>2. UNCHANGED <<unixfd, sport, cursize, raced>> /\ inMain = NoClient
  BY <1>1 DEF table, Async, RecvFd, Lock, Remembered, At
<1>3. \/ pc = "async" /\ pc' = "recv" /\ mutex' = mutex
      \/ pc = "recv" /\ pc' \in {"recv", "lock"} /\ mutex' = mutex
      \/ pc = "lock" /\ pc' = "test" /\ mutex' = TRUE
      \/ pc = "test" /\ pc' = "fd" /\ mutex' = mutex /\ idx >= 0
  <2>1. CASE Async
    BY <2>1 DEF Async, At
  <2>2. CASE RecvFd
    BY <2>2 DEF RecvFd, At, End, mainVars
  <2>3. CASE Lock
    BY <2>3 DEF Lock, At
  <2>4. CASE Remembered
    BY <2>4 DEF Remembered, At
  <2>5. QED
    BY <2>1, <2>2, <2>3, <2>4
<1>4. Control'
  BY <1>1, <1>2, <1>3 DEF IInv, Control, Masked
<1>5. \A c \in Clients : Stored(c)' <=> Stored(c)
  BY <1>1, <1>3 DEF Stored
<1>6. QED
  BY <1>1, <1>2, <1>3, <1>4, <1>5, MainStill DEF Main

LEMMA ResetGood == ASSUME IInv, Reset PROVE Control' /\ Filled' /\ Good'
<1>1. /\ pc = "reset" /\ pc' = "unlock" /\ idx' = -1
      /\ UNCHANGED <<clifd, accepted, mutex, at, closed, found, misled, inMain>>
      /\ UNCHANGED <<unixfd, sport, cursize, raced>>
  BY DEF Reset, At, mainUnchanged, table, signalVars, reports
<1>2. Control'
  BY <1>1 DEF IInv, Control, Masked
<1>3. Filled'
  BY <1>1 DEF IInv, Filled
<1>4. Closings => Closings'
  BY <1>1 DEF Closings
<1>5. \A c \in Clients : Stored(c)' <=> Stored(c)
  BY <1>1 DEF Stored
<1>6. \A i \in Slots : sport[i] # NoClient => sport[i] \in Clients
  BY DEF IInv, Types, TableTypes
<1>7. Entries => Entries'
  BY <1>1, <1>5, <1>6 DEF Entries
<1>8. QED
  BY <1>1, <1>2, <1>3, <1>4, <1>7 DEF IInv, Good

LEMMA UnlockGood == ASSUME IInv, Unlock PROVE Control' /\ Filled' /\ Good'
<1>1. /\ pc = "unlock" /\ pc' = "accept" /\ clifd' = NoClient /\ inMain' = inMain
      /\ UNCHANGED <<accepted, idx>> /\ UNCHANGED <<unixfd, sport, cursize, raced>>
  BY DEF Unlock, At, mainUnchanged, table, signalVars
<1>2. mutex' = FALSE
  BY DEF Unlock
<1>3. Control'
  BY <1>1, <1>2 DEF IInv, Control, Masked
<1>4. \A c \in Clients : Stored(c)' <=> Stored(c)
  BY <1>1, Sets DEF Stored
<1>5. QED
  BY <1>1, <1>3, <1>4, MainStill DEF Main

\* The entry is free: neither main nor the handler has its index.
LEMMA FillGood == ASSUME IInv, Fill PROVE Control' /\ Filled' /\ Good'
<1> DEFINE unused == {i \in Slots : sport[i] = NoClient}
<1>1. pc = "test" /\ idx < 0
  BY DEF Fill, At
<1>2. CASE unused = {}
  <2>1. UNCHANGED <<mainVars, table, idx, clientVars, signalVars, reports>>
    BY <1>2 DEF Fill, End
  <2>2. UNCHANGED <<mainVars, table, idx, accepted, found, misled, inMain, closed>>
    BY <2>1 DEF clientVars, signalVars, reports
  <2>3. inMain' # NoClient => ~Masked
    BY <2>2 DEF IInv, Control
  <2>4. QED
    BY <2>2, <2>3, Still
<1>3. CASE unused # {}
  <2>1. PICK i \in Slots :
          /\ First(i, unused)
          /\ unixfd' = [unixfd EXCEPT ![i] = clifd]
          /\ sport' = [sport EXCEPT ![i] = clifd]
          /\ cursize' = IF i > cursize THEN i ELSE cursize
    BY <1>3 DEF Fill
  <2>2. /\ pc' = "unlock" /\ UNCHANGED <<clifd, at, raced, idx, accepted>>
        /\ UNCHANGED <<inMain, found, closed, misled>>
    BY <1>3 DEF Fill, mainUnchanged, signalVars, reports
  <2>3. mutex' = mutex
    BY <1>3 DEF Fill
  <2>4. sport[i] = NoClient /\ unixfd[i] = NoClient
    BY <2>1 DEF First, IInv, Filled
  <2>5. clifd \in Clients /\ clifd # NoClient /\ clifd = accepted
    BY <1>1, Sets DEF IInv, Control, Types, MainTypes
  <2>6. Control'
    BY <1>1, <2>2, <2>3 DEF IInv, Control, Masked
  <2>7. /\ unixfd \in [Slots -> Clients \union {NoClient}]
        /\ sport \in [Slots -> Clients \union {NoClient}]
        /\ found \in Slots \union {NoEntry}
        /\ cursize \in Nat /\ i \in Nat /\ idx \in Int
    BY Sets DEF IInv, Types, TableTypes, SignalTypes, NoEntry
  <2>8. \A k \in Slots \ {i} : unixfd'[k] = unixfd[k] /\ sport'[k] = sport[k]
    BY <2>1, <2>7
  <2>9. unixfd'[i] = clifd /\ sport'[i] = clifd
    BY <2>1, <2>7
  <2>10. found # NoEntry => found \in Slots \ {i}
    BY <2>4, <2>7 DEF IInv, Filled
  <2>11. Filled'
    <3>1. \A k \in Slots : unixfd'[k] = NoClient <=> sport'[k] = NoClient
      BY <2>5, <2>8, <2>9 DEF IInv, Filled
    <3>2. found # NoEntry => sport'[found] # NoClient
      BY <2>8, <2>10 DEF IInv, Filled
    <3>3. ~(idx >= 0)
      BY <1>1, <2>7
    <3>4. QED
      BY <2>2, <3>1, <3>2, <3>3 DEF Filled
  <2>12. Closings => Closings'
    <3>1. ~(idx >= 0)
      BY <1>1, <2>7
    <3>2. QED
      BY <1>1, <2>2, <2>8, <2>10, <3>1 DEF Closings
  <2>13. ~Stored(clifd) /\ Stored(clifd)'
    BY <1>1, <2>2, <2>5, Sets DEF Stored
  <2>14. \A c \in Clients \ {clifd} : Stored(c)' <=> Stored(c)
    BY <2>2 DEF Stored
  <2>15. Entries => Entries'
    <3> SUFFICES ASSUME Entries PROVE Entries'
      OBVIOUS
    <3>1. \A k \in Slots : sport[k] # clifd
      BY <2>5, <2>13 DEF Entries
    <3>2. \A k \in Slots : unixfd'[k] = sport'[k]
      BY <1>1, <2>8, <2>9 DEF Entries
    <3>3. \A k \in Slots : k <= cursize => k <= cursize'
      BY <2>1, <2>7, Sets
    <3>4. i <= cursize'
      BY <2>1, <2>7
    <3>5. \A k \in Slots : sport'[k] # NoClient => Stored(sport[k])' /\ k <= cursize'
      <4>1. SUFFICES ASSUME NEW k \in Slots, NEW c, c = sport'[k], c # NoClient
                     PROVE  Stored(c)' /\ k <= cursize'
        BY DEF Stored
      <4>2. CASE k = i
        BY <2>2, <2>9, <2>13, <3>4, <4>1, <4>2 DEF Stored
      <4>3. CASE k # i
        <5>1. c = sport[k] /\ c # clifd /\ c \in Clients
          BY <2>7, <2>8, <3>1, <4>1, <4>3
        <5>2. Stored(c) /\ k <= cursize
          BY <4>1, <5>1 DEF Entries
        <5>3. QED
          BY <2>14, <3>3, <5>1, <5>2
      <4>4. QED
        BY <4>2, <4>3
    <3>6. \A j, k \in Slots : sport'[j] = sport'[k] /\ sport'[j] # NoClient => j = k
      BY <2>8, <2>9, <3>1 DEF Entries
    <3>7. \A c \in Clients \ closed' : Stored(c)' => \E k \in Slots : unixfd'[k] = c /\ sport'[k] = c
      <4>1. \A c \in Clients \ closed : c # clifd /\ Stored(c)' => \E k \in Slots \ {i} : unixfd[k] = c /\ sport[k] = c
        BY <2>4, <2>14, Sets DEF Entries
      <4>2. QED
        BY <2>2, <2>8, <2>9, <4>1
    <3>8. QED
      BY <2>2, <3>2, <3>5, <3>6, <3>7 DEF Entries
  <2>16. QED
    BY <2>2, <2>6, <2>11, <2>12, <2>15 DEF IInv, Good
<1>4. QED
  BY <1>2, <1>3

\* The entry is that of a client that has closed, and not the one the handler has found.
LEMMA StoreFdGood == ASSUME IInv, StoreFd PROVE Control' /\ Filled' /\ Good'
<1>1. /\ pc = "fd" /\ unixfd' = [unixfd EXCEPT ![idx] = clifd] /\ at' = idx /\ pc' = "port"
      /\ UNCHANGED <<clifd, sport, cursize, idx, accepted, closed, found, misled, inMain>>
  BY DEF StoreFd, At, mainUnchanged, signalVars, reports
<1>2. raced' = (raced \/ idx = found)
  BY DEF StoreFd
<1>3. mutex' = mutex
  BY DEF StoreFd
<1>4. idx \in Slots /\ idx # NoEntry /\ idx >= 0
  BY <1>1, Sets DEF IInv, Control, Types, TableTypes, NoEntry
<1>5. /\ unixfd \in [Slots -> Clients \union {NoClient}]
      /\ sport \in [Slots -> Clients \union {NoClient}]
      /\ found \in Slots \union {NoEntry} /\ raced \in BOOLEAN
  BY DEF IInv, Types, TableTypes, SignalTypes
<1>6. clifd \in Clients /\ clifd # NoClient
  BY <1>1, Sets DEF IInv, Control, Types, MainTypes
<1>7. unixfd'[idx] = clifd /\ \A k \in Slots \ {idx} : unixfd'[k] = unixfd[k]
  BY <1>1, <1>4, <1>5
<1>8. Control'
  BY <1>1, <1>3, <1>4 DEF IInv, Control, Masked
<1>9. Filled'
  <2>1. sport[idx] # NoClient
    BY <1>4 DEF IInv, Filled
  <2>2. \A k \in Slots : unixfd'[k] = NoClient <=> sport[k] = NoClient
    BY <1>6, <1>7, <2>1 DEF IInv, Filled
  <2>3. QED
    BY <1>1, <2>1, <2>2 DEF IInv, Filled
<1>10. ASSUME Closings, Entries, idx # found
       PROVE  Closings' /\ Entries'
  <2>1. Closings'
    BY <1>1, <1>5, <1>7, <1>10 DEF Closings
  <2>2. \A c \in Clients : Stored(c)' <=> Stored(c)
    BY <1>1 DEF Stored
  <2>3. \A k \in Slots : sport[k] # NoClient => sport[k] \in Clients
    BY <1>5
  <2>4. \A k \in Slots : unixfd'[k] = sport'[k] \/ (pc' = "port" /\ k = at')
    BY <1>1, <1>7, <1>10 DEF Entries
  <2>5. unixfd[idx] \in closed
    BY <1>1, <1>4, <1>10 DEF Closings
  <2>6. \A c \in Clients \ closed' : Stored(c)' => \E k \in Slots : unixfd'[k] = c /\ sport'[k] = c
    BY <1>1, <1>7, <1>10, <2>2, <2>5 DEF Entries
  <2>7. QED
    BY <1>1, <1>10, <2>1, <2>2, <2>3, <2>4, <2>6 DEF Entries
<1>11. QED
  BY <1>1, <1>2, <1>5, <1>8, <1>9, <1>10 DEF IInv, Good

\* The port of the client whose descriptor is stored there, unless idx has changed.
LEMMA StorePortGood == ASSUME IInv, StorePort PROVE Control' /\ Filled' /\ Good'
<1>1. PICK i \in {at, idx} :
        /\ sport' = [sport EXCEPT ![i] = clifd]
        /\ raced' = (raced \/ i # at)
  BY DEF StorePort
<1>2. /\ pc = "port" /\ pc' = "reset"
      /\ UNCHANGED <<clifd, unixfd, cursize, idx, accepted, closed, found, misled, inMain>>
  BY DEF StorePort, At, mainUnchanged, signalVars, reports
<1>3. mutex' = mutex
  BY DEF StorePort
<1>4. i \in Slots /\ sport[i] # NoClient /\ idx >= 0 /\ idx \in Slots
  BY <1>2, Sets DEF IInv, Control, Filled, Types, MainTypes, TableTypes, NoEntry
<1>5. /\ unixfd \in [Slots -> Clients \union {NoClient}]
      /\ sport \in [Slots -> Clients \union {NoClient}]
      /\ found \in Slots \union {NoEntry} /\ raced \in BOOLEAN
  BY DEF IInv, Types, TableTypes, SignalTypes
<1>6. clifd \in Clients /\ clifd # NoClient /\ clifd = accepted
  BY <1>2, Sets DEF IInv, Control, Types, MainTypes
<1>7. sport'[i] = clifd /\ \A k \in Slots \ {i} : sport'[k] = sport[k]
  BY <1>1, <1>4, <1>5
<1>8. Control'
  BY <1>2, <1>3, <1>4 DEF IInv, Control, Masked
<1>9. Filled'
  <2>1. \A k \in Slots : sport'[k] = NoClient <=> sport[k] = NoClient
    BY <1>4, <1>6, <1>7
  <2>2. QED
    BY <1>2, <1>4, <1>5, <2>1 DEF IInv, Filled
<1>10. ASSUME Closings, Entries, i = at
       PROVE  Closings' /\ Entries'
  <2>1. Closings'
    BY <1>2, <1>10 DEF Closings
  <2>2. ~Stored(clifd) /\ Stored(clifd)'
    BY <1>2, <1>6, Sets DEF Stored
  <2>3. \A c \in Clients \ {clifd} : Stored(c)' <=> Stored(c)
    BY <1>2 DEF Stored
  <2>4. \A k \in Slots : sport[k] # clifd
    BY <1>10, <1>6, <2>2 DEF Entries
  <2>5. unixfd[i] = clifd
    BY <1>2, <1>10 DEF Closings
  <2>6. \A k \in Slots : unixfd'[k] = sport'[k]
    BY <1>2, <1>7, <1>10, <2>5 DEF Entries
  <2>7. \A k \in Slots : sport'[k] # NoClient => Stored(sport[k])' /\ k <= cursize'
    <3>1. SUFFICES ASSUME NEW k \in Slots, NEW c, c = sport'[k], c # NoClient
                   PROVE  Stored(c)' /\ k <= cursize'
      BY DEF Stored
    <3>2. CASE k = i
      BY <1>10, <1>2, <1>4, <1>7, <2>2, <3>1, <3>2 DEF Stored, Entries
    <3>3. CASE k # i
      <4>1. c = sport[k] /\ c # clifd /\ c \in Clients
        BY <1>5, <1>7, <2>4, <3>1, <3>3
      <4>2. QED
        BY <1>10, <1>2, <2>3, <3>1, <4>1 DEF Entries
    <3>4. QED
      BY <3>2, <3>3
  <2>8. \A j, k \in Slots : sport'[j] = sport'[k] /\ sport'[j] # NoClient => j = k
    BY <1>10, <1>7, <2>4 DEF Entries
  <2>9. \A c \in Clients \ closed' : Stored(c)' => \E k \in Slots : unixfd'[k] = c /\ sport'[k] = c
    <3>1. \A c \in Clients \ closed : c # clifd /\ Stored(c)' => \E k \in Slots \ {i} : unixfd[k] = c /\ sport[k] = c
      BY <1>10, <2>3, <2>5 DEF Entries
    <3>2. QED
      BY <1>2, <1>4, <1>7, <2>5, <3>1
  <2>10. QED
    BY <1>2, <2>1, <2>6, <2>7, <2>8, <2>9 DEF Entries
<1>11. QED
  BY <1>1, <1>2, <1>5, <1>8, <1>9, <1>10 DEF IInv, Good

-----------------------------------------------------------------------------
(* The invariant.                                                          *)

LEMMA InvStep == IInv /\ [Next]_vars => IInv'
<1> SUFFICES ASSUME IInv, [Next]_vars PROVE IInv'
  OBVIOUS
<1> USE DEF Good
<1>1. ASSUME NEW c \in Clients, Client(c) PROVE IInv'
  BY <1>1, ClientTyped, ClientGood DEF IInv
<1>2. ASSUME NEW c \in Clients, ThreadReports(c) PROVE IInv'
  BY <1>2, ReportTyped, ReportGood DEF IInv
<1>3. CASE Handler
  BY <1>3, HandlerTyped, HandlerGood DEF IInv
<1>4. CASE Main
  <2>1. Types'
    BY <1>4, MainTyped DEF IInv
  <2>2. Control' /\ Filled' /\ Good'
    BY <1>4, AcceptGood, StepGood, FillGood, StoreFdGood, StorePortGood, ResetGood, UnlockGood DEF Main
  <2>3. QED
    BY <2>1, <2>2 DEF IInv
<1>5. CASE UNCHANGED vars
  <2>1. UNCHANGED <<mainVars, table, idx, clientVars, async, signalVars, reports, ended>>
    BY <1>5 DEF vars
  <2>2. /\ UNCHANGED <<mainVars, table, idx, accepted, found, misled, inMain, closed>>
        /\ UNCHANGED <<connected, passed, todo, async, pending, inThread, errors, unread, ended>>
    BY <2>1 DEF clientVars, signalVars, reports
  <2>3. inMain' # NoClient => ~Masked
    BY <2>2 DEF IInv, Control
  <2>4. Control' /\ Filled' /\ Good'
    BY <2>2, <2>3, Still
  <2>5. MainTypes' /\ TableTypes'
    BY <2>2 DEF IInv, Types, MainTypes, TableTypes, mainVars, table
  <2>6. ClientTypes' /\ SignalTypes' /\ ReportTypes'
    BY <2>2 DEF IInv, Types, ClientTypes, SignalTypes, ReportTypes
  <2>7. QED
    BY <2>4, <2>5, <2>6 DEF IInv, Types
<1>6. QED
  BY <1>1, <1>2, <1>3, <1>4, <1>5 DEF Next, Over

LEMMA Inductive == Spec => []IInv
<1>1. Init => IInv
  BY InvInit
<1>2. IInv /\ [Next]_vars => IInv'
  BY InvStep
<1>3. QED
  BY <1>1, <1>2, PTL DEF Spec

\* Every variable keeps its type: an index that is remembered or found is one of
\* cli_fd_port[], and no more errors are on their way than datagrams were sent.
THEOREM Typing == Spec => []TypeOK
<1>1. IInv => TypeOK
  <2> SUFFICES ASSUME IInv PROVE TypeOK
    OBVIOUS
  <2>1. Types
    BY DEF IInv
  <2>2. todo \in [Clients -> 0..Lines] /\ errors \in [Clients -> 0..Lines]
    <3>1. /\ todo \in [Clients -> Nat] /\ errors \in [Clients -> Nat]
          /\ \A c \in Clients : todo[c] + errors[c] <= Lines
      BY <2>1 DEF Types, ReportTypes
    <3>2. \A c \in Clients : todo[c] \in 0..Lines /\ errors[c] \in 0..Lines
      BY <3>1, BoundsAssumption
    <3>3. QED
      BY <3>1, <3>2
  <2>3. {pending, inMain, inThread} \subseteq Clients \union {NoClient} /\ found \in Slots \union {NoEntry}
    BY <2>1 DEF Types, SignalTypes
  <2>4. unread \subseteq Clients /\ misled \in BOOLEAN
    BY <2>1 DEF Types, ReportTypes
  <2>5. ended \in {"no", "SIGPIPE", "recvmsg error", "connection closed by server", "too many connection"}
    BY <2>1 DEF Types, ReportTypes
  <2>6. MainTypes /\ TableTypes /\ ClientTypes
    BY <2>1 DEF Types
  <2>7. QED
    BY <2>2, <2>3, <2>4, <2>5, <2>6 DEF TypeOK, MainTypes, TableTypes, ClientTypes, NoEntry
<1>2. QED
  BY <1>1, Inductive, PTL

\* sig_io() remembers the entry of a client that has closed, and main overwrites no other,
\* for any number of clients and entries, unless the handler in the thread interleaved.
THEOREM RemembersClosed == Spec => []RememberedIsClosed
<1>1. IInv => RememberedIsClosed
  BY DEF IInv, Closings, RememberedIsClosed
<1>2. QED
  BY <1>1, Inductive, PTL

\* raw_icmpd() tells a client of the errors for its own port, and finds every client that
\* is entered and has not closed, unless the handler in the thread interleaved.
THEOREM ReportsGoHome == Spec => []ErrorsGoHome
<1>1. IInv => ErrorsGoHome
  <2> SUFFICES ASSUME IInv, ~raced PROVE ErrorsGoHome
    BY DEF ErrorsGoHome
  <2>1. Entries /\ ~misled
    BY DEF IInv
  <2>2. ASSUME NEW c \in Clients \ closed, Entered(c)
        PROVE  \E i \in Of(c) : unixfd[i] = c /\ \A j \in Slots \ {i} : sport[j] # c
    <3>1. Stored(c)
      BY <2>2 DEF Entered, Stored
    <3>2. PICK i \in Slots : unixfd[i] = c /\ sport[i] = c
      BY <2>1, <3>1 DEF Entries
    <3>3. c # NoClient
      BY Sets
    <3>4. i <= cursize /\ \A j \in Slots \ {i} : sport[j] # c
      BY <2>1, <3>2, <3>3 DEF Entries
    <3>5. i \in 0..cursize
      BY <3>4, BoundsAssumption DEF Slots, IInv, Types, TableTypes
    <3>6. QED
      BY <3>2, <3>4, <3>5 DEF Of
  <2>3. QED
    BY <2>1, <2>2 DEF ErrorsGoHome
<1>2. QED
  BY <1>1, Inductive, PTL

=============================================================================
