---------------------------- MODULE PassFdProofs ----------------------------
(***************************************************************************)
(* Proofs about PassFd, for any number of children and any clients: what   *)
(* the parent believes of its children is exact in the sense of            *)
(* StatusExact, and navail counts the children it believes free.           *)
(*                                                                         *)
(* The parent acts on a snapshot, so the invariant says why the snapshot   *)
(* stays good: only the parent takes bytes out of a pipe and death is for  *)
(* ever, so whatever select() reported is still there to be read, and an   *)
(* unread byte is always that of a child counted as busy, also when the    *)
(* child has died after writing it.                                        *)
(***************************************************************************)
EXTENDS PassFd, FiniteSetTheorems, TLAPS

Snapshot == \A i \in todo : ready[i] > 0 \/ child[i] = "dead"

ByteMeansBusy == \A i \in Slots : ready[i] > 0 => ready[i] = 1 /\ busy[i]

\* TypeOK, but for the bound on navail, which AvailExact implies.
Types ==
    /\ ppc \in {"select", "accept", "scan"}
    /\ todo \subseteq Slots
    /\ busy \in [Slots -> BOOLEAN]
    /\ navail \in Int
    /\ watched \subseteq Slots
    /\ child \in [Slots -> {"idle", "serve", "report", "dead"}]
    /\ passed \in [Slots -> Seq(Clients)]
    /\ ready \in [Slots -> Nat]
    /\ conn \in [Slots -> Clients \union {NoClient}]
    /\ backlog \in Seq(Clients)
    /\ server \in {"up", "sigpipe", "nochild", "error"}

IInv == Types /\ StatusExact /\ ByteMeansBusy /\ Snapshot /\ AvailExact

-----------------------------------------------------------------------------
LEMMA FreeFinite ==
    /\ IsFiniteSet(Free) /\ Cardinality(Free) \in 0..NChildren
<1>1. IsFiniteSet(Slots) /\ Cardinality(Slots) = NChildren
  BY FS_Interval, ChildrenAssumption DEF Slots
<1>2. Free \subseteq Slots
  BY DEF Free
<1>3. QED
  BY <1>1, <1>2, FS_Subset, FS_CardinalityType

LEMMA FreeGrows ==
    ASSUME Types, NEW i \in Slots, busy[i], busy' = [busy EXCEPT ![i] = FALSE]
    PROVE  Cardinality(Free') = Cardinality(Free) + 1 /\ i \in Free'
<1>1. Free' = Free \union {i} /\ i \notin Free
  BY DEF Free, Types
<1>2. QED
  BY <1>1, FreeFinite, FS_AddElement

LEMMA FreeShrinks ==
    ASSUME Types, NEW i \in Slots, ~busy[i], busy' = [busy EXCEPT ![i] = TRUE]
    PROVE  Cardinality(Free') = Cardinality(Free) - 1
<1>1. Free' = Free \ {i} /\ i \in Free
  BY DEF Free, Types
<1>2. QED
  BY <1>1, FreeFinite, FS_RemoveElement

LEMMA FreeSame ==
    ASSUME busy' = busy
    PROVE  Free' = Free
BY DEF Free

-----------------------------------------------------------------------------
(* One lemma for each conjunct.                                            *)

LEMMA TypesStep == Types /\ [Next]_vars => Types'
<1> SUFFICES ASSUME Types, [Next]_vars PROVE Types'
  OBVIOUS
<1> USE DEF Types, parent, children
<1>1. CASE Select
  BY <1>1 DEF Select, Readable
<1>2. CASE Accept
  <2>1. PICK i \in Slots :
           /\ busy' = [busy EXCEPT ![i] = TRUE]
           /\ passed' = [passed EXCEPT ![i] = Append(@, Head(backlog))]
    BY <1>2 DEF Accept
  <2>2. Head(backlog) \in Clients /\ Tail(backlog) \in Seq(Clients)
    BY <1>2 DEF Accept
  <2>3. passed' \in [Slots -> Seq(Clients)]
    BY <2>1, <2>2
  <2>4. QED
    BY <1>2, <2>1, <2>2, <2>3 DEF Accept, Rest
<1>3. CASE AcceptForDead \/ NoneAvailable
  BY <1>3 DEF AcceptForDead, NoneAvailable
<1>4. ASSUME NEW i \in Slots, ReadByte(i) PROVE Types'
  BY <1>4 DEF ReadByte, NextReadable, Rest
<1>5. ASSUME NEW i \in Slots, ReadEof(i) PROVE Types'
  BY <1>5 DEF ReadEof, NextReadable, Rest
<1>6. ASSUME NEW i \in Slots, Take(i) PROVE Types'
  <2>1. Head(passed[i]) \in Clients /\ Tail(passed[i]) \in Seq(Clients)
    BY <1>6 DEF Take
  <2>2. passed' \in [Slots -> Seq(Clients)] /\ conn' \in [Slots -> Clients \union {NoClient}]
    BY <1>6, <2>1 DEF Take
  <2>3. QED
    BY <1>6, <2>2 DEF Take
<1>7. ASSUME NEW i \in Slots, Served(i) PROVE Types'
  BY <1>7 DEF Served
<1>8. ASSUME NEW i \in Slots, Report(i) PROVE Types'
  BY <1>8 DEF Report
<1>9. ASSUME NEW i \in Slots, Die(i) PROVE Types'
  BY <1>9 DEF Die
<1>10. ASSUME NEW c \in Clients, Connect(c) PROVE Types'
  BY <1>10 DEF Connect
<1>11. CASE Abort
  BY <1>11 DEF Abort
<1>12. CASE Failure
  BY <1>12 DEF Failure, AcceptFails, ReadReset
<1>13. CASE UNCHANGED vars
  BY <1>13 DEF vars
<1>14. QED
  BY <1>1, <1>2, <1>3, <1>4, <1>5, <1>6, <1>7, <1>8, <1>9, <1>10, <1>11, <1>12, <1>13
     DEF Next, ParentStep, ChildStep, Environment, Exited

\* The token goes from the parent to the socketpair, to the child and back.
LEMMA StatusStep ==
    IInv /\ [Next]_vars => StatusExact' /\ ByteMeansBusy'
<1> SUFFICES ASSUME IInv, [Next]_vars PROVE StatusExact' /\ ByteMeansBusy'
  OBVIOUS
<1> USE DEF StatusExact, ByteMeansBusy, IInv
<1>0. Types /\ Types'
  BY TypesStep
<1>1. ASSUME UNCHANGED <<busy, child, passed, ready>>
      PROVE  StatusExact' /\ ByteMeansBusy'
  BY <1>1
<1>2. CASE Accept
  <2>1. PICK i \in Slots :
           /\ ~busy[i] /\ child[i] # "dead"
           /\ busy' = [busy EXCEPT ![i] = TRUE]
           /\ passed' = [passed EXCEPT ![i] = Append(@, Head(backlog))]
    BY <1>2 DEF Accept, Chosen, Free
  <2>2. Head(backlog) \in Clients
    BY <1>0, <1>2 DEF Accept, Types
  <2>3. Len(passed'[i]) = Len(passed[i]) + 1
    BY <1>0, <2>1, <2>2 DEF Types
  <2>4. Len(passed[i]) \in Nat /\ ready[i] \in Nat
    BY <1>0 DEF Types
  <2>5. child' = child /\ ready' = ready
    BY <1>2 DEF Accept
  <2>6. \A j \in Slots : j # i => passed'[j] = passed[j] /\ busy'[j] = busy[j]
    BY <1>0, <2>1 DEF Types
  <2>7. busy'[i] = TRUE
    BY <1>0, <2>1 DEF Types
  <2>8. QED
    BY <1>0, <2>1, <2>3, <2>4, <2>5, <2>6, <2>7 DEF Types
<1>3. ASSUME NEW i \in Slots, ReadByte(i) PROVE StatusExact' /\ ByteMeansBusy'
  <2>1. ready[i] = 1 /\ busy[i]
    BY <1>3 DEF ReadByte
  <2>2. child' = child /\ passed' = passed
    BY <1>3 DEF ReadByte
  <2>3. ready'[i] = 0 /\ busy'[i] = FALSE
    BY <1>0, <1>3, <2>1 DEF ReadByte, Types
  <2>4. \A j \in Slots : j # i => ready'[j] = ready[j] /\ busy'[j] = busy[j]
    BY <1>0, <1>3 DEF ReadByte, Types
  <2>5. Len(passed[i]) \in Nat
    BY <1>0 DEF Types
  <2>6. QED
    BY <2>1, <2>2, <2>3, <2>4, <2>5
<1>4. ASSUME NEW i \in Slots, ReadEof(i) PROVE StatusExact' /\ ByteMeansBusy'
  <2>1. child[i] = "dead"
    BY <1>4 DEF ReadEof, NextReadable, Snapshot
  <2>2. UNCHANGED <<child, passed, ready>>
    BY <1>4 DEF ReadEof, children
  <2>3. \A j \in Slots : j # i => busy'[j] = busy[j]
    BY <1>0, <1>4 DEF ReadEof, Types
  <2>4. ready[i] = 0
    BY <1>4 DEF ReadEof
  <2>5. QED
    BY <2>1, <2>2, <2>3, <2>4
<1>5. ASSUME NEW i \in Slots, Take(i) PROVE StatusExact' /\ ByteMeansBusy'
  <2>1. /\ Len(passed[i]) \in Nat /\ ready[i] \in Nat
        /\ Len(passed'[i]) = Len(passed[i]) - 1
    BY <1>0, <1>5 DEF Take, Types
  <2>2. child[i] = "idle" /\ child'[i] = "serve" /\ UNCHANGED <<busy, ready>>
    BY <1>0, <1>5 DEF Take, Types, parent
  <2>3. \A j \in Slots : j # i => passed'[j] = passed[j] /\ child'[j] = child[j]
    BY <1>0, <1>5 DEF Take, Types
  <2>4. QED
    BY <2>1, <2>2, <2>3
<1>6. ASSUME NEW i \in Slots, Served(i) PROVE StatusExact' /\ ByteMeansBusy'
  <2>1. child[i] = "serve" /\ child'[i] = "report" /\ UNCHANGED <<busy, passed, ready>>
    BY <1>0, <1>6 DEF Served, Types, parent
  <2>2. \A j \in Slots : j # i => child'[j] = child[j]
    BY <1>0, <1>6 DEF Served, Types
  <2>3. QED
    BY <2>1, <2>2
<1>7. ASSUME NEW i \in Slots, Report(i) PROVE StatusExact' /\ ByteMeansBusy'
  <2>1. child[i] = "report" /\ child'[i] = "idle" /\ UNCHANGED <<busy, passed>>
    BY <1>0, <1>7 DEF Report, Types, parent
  <2>2. ready[i] \in Nat /\ ready'[i] = ready[i] + 1 /\ Len(passed[i]) \in Nat
    BY <1>0, <1>7 DEF Report, Types
  <2>3. \A j \in Slots : j # i => child'[j] = child[j] /\ ready'[j] = ready[j]
    BY <1>0, <1>7 DEF Report, Types
  <2>4. Len(passed[i]) = 0 /\ ready[i] = 0 /\ busy[i]
    BY <2>1, <2>2
  <2>5. QED
    BY <2>1, <2>2, <2>3, <2>4
<1>8. ASSUME NEW i \in Slots, Die(i) PROVE StatusExact' /\ ByteMeansBusy'
  <2>1. child'[i] = "dead" /\ UNCHANGED <<busy, ready>>
    BY <1>0, <1>8 DEF Die, Types, parent
  <2>2. \A j \in Slots : j # i => passed'[j] = passed[j] /\ child'[j] = child[j]
    BY <1>0, <1>8 DEF Die, Types, children
  <2>3. QED
    BY <2>1, <2>2
<1>9. QED
  BY <1>1, <1>2, <1>3, <1>4, <1>5, <1>6, <1>7, <1>8
     DEF Next, ParentStep, ChildStep, Environment, Exited, Select, AcceptForDead,
         NoneAvailable, Connect, Abort, Failure, AcceptFails, ReadReset, vars, parent, children

\* What select() reported is still there when the parent comes to read it.
LEMMA SnapshotStep == IInv /\ [Next]_vars => Snapshot'
<1> SUFFICES ASSUME IInv, [Next]_vars PROVE Snapshot'
  OBVIOUS
<1> USE DEF Snapshot, IInv
<1>0. Types /\ Types'
  BY TypesStep
<1>1. ASSUME UNCHANGED <<todo, child, ready>> PROVE Snapshot'
  BY <1>1
<1>2. CASE Select
  BY <1>2 DEF Select, Readable, children
<1>3. CASE Accept
  BY <1>3 DEF Accept, Rest
<1>4. ASSUME NEW i \in Slots, ReadByte(i) PROVE Snapshot'
  BY <1>0, <1>4 DEF ReadByte, NextReadable, Rest, Types
<1>5. ASSUME NEW i \in Slots, ReadEof(i) PROVE Snapshot'
  BY <1>0, <1>5 DEF ReadEof, NextReadable, Rest, children, Types
<1>6. ASSUME NEW i \in Slots, Take(i) \/ Served(i) PROVE Snapshot'
  BY <1>0, <1>6 DEF Take, Served, Types, parent
<1>7. ASSUME NEW i \in Slots, Report(i) PROVE Snapshot'
  BY <1>0, <1>7 DEF Report, Types, parent
<1>8. ASSUME NEW i \in Slots, Die(i) PROVE Snapshot'
  BY <1>0, <1>8 DEF Die, Types, parent
<1>9. QED
  BY <1>1, <1>2, <1>3, <1>4, <1>5, <1>6, <1>7, <1>8
     DEF Next, ParentStep, ChildStep, Environment, Exited, AcceptForDead,
         NoneAvailable, Connect, Abort, Failure, AcceptFails, ReadReset, vars, parent, children

\* navail follows the statuses; in "accept" nobody but the parent could take the
\* free child away.
LEMMA AvailStep == IInv /\ [Next]_vars => AvailExact'
<1> SUFFICES ASSUME IInv, [Next]_vars PROVE AvailExact'
  OBVIOUS
<1> USE DEF AvailExact, IInv
<1>0. Types /\ Types' /\ Cardinality(Free) \in Nat
  BY TypesStep, FreeFinite
<1>1. ASSUME UNCHANGED <<busy, navail, ppc, server>> PROVE AvailExact'
  BY <1>1, FreeSame
<1>2. CASE Select
  <2>1. Free' = Free /\ navail' = navail /\ server' = server
    BY <1>2, FreeSame DEF Select
  <2>2. navail > 0 => Free # {}
    BY <1>0, FS_EmptySet
  <2>3. QED
    BY <1>2, <2>1, <2>2 DEF Select
<1>3. CASE Accept
  <2>1. PICK i \in Slots : ~busy[i] /\ busy' = [busy EXCEPT ![i] = TRUE]
    BY <1>3 DEF Accept, Chosen, Free
  <2>2. Cardinality(Free') = Cardinality(Free) - 1
    BY <1>0, <2>1, FreeShrinks
  <2>3. navail' = navail - 1 /\ ppc' # "accept" /\ server' = server
    BY <1>3 DEF Accept, Rest
  <2>4. QED
    BY <2>2, <2>3
<1>4. CASE AcceptForDead \/ Failure
  BY <1>4, FreeSame DEF AcceptForDead, Failure, AcceptFails, ReadReset, parent
<1>5. CASE NoneAvailable
  BY <1>5 DEF NoneAvailable
<1>6. ASSUME NEW i \in Slots, ReadByte(i) PROVE AvailExact'
  <2>1. busy[i] /\ busy' = [busy EXCEPT ![i] = FALSE]
    BY <1>6 DEF ReadByte, ByteMeansBusy
  <2>2. Cardinality(Free') = Cardinality(Free) + 1
    BY <1>0, <2>1, FreeGrows
  <2>3. navail' = navail + 1 /\ ppc' # "accept" /\ server' = server
    BY <1>6 DEF ReadByte, NextReadable, Rest
  <2>4. QED
    BY <2>2, <2>3
<1>7. ASSUME NEW i \in Slots, ReadEof(i) PROVE AvailExact'
  <2>1. ppc' # "accept" /\ server' = server
    BY <1>7 DEF ReadEof, NextReadable, Rest
  <2>2. CASE busy[i]
    <3>1. busy' = busy /\ navail' = navail
      BY <1>0, <1>7, <2>2 DEF ReadEof, Types
    <3>2. QED
      BY <2>1, <3>1, FreeSame
  <2>3. CASE ~busy[i]
    <3>1. busy' = [busy EXCEPT ![i] = TRUE] /\ navail' = navail - 1
      BY <1>7, <2>3 DEF ReadEof
    <3>2. Cardinality(Free') = Cardinality(Free) - 1
      BY <1>0, <2>3, <3>1, FreeShrinks
    <3>3. QED
      BY <2>1, <3>1, <3>2
  <2>4. QED
    BY <2>2, <2>3
<1>8. QED
  BY <1>1, <1>2, <1>3, <1>4, <1>5, <1>6, <1>7
     DEF Next, ParentStep, ChildStep, Environment, Exited, Take, Served, Report,
         Die, Connect, Abort, vars, parent

LEMMA Inductive == Spec => []IInv
<1>1. Init => IInv
  <2> SUFFICES ASSUME Init PROVE IInv
    OBVIOUS
  <2>1. Types
    BY ChildrenAssumption DEF Init, Types
  <2>2. StatusExact /\ ByteMeansBusy /\ Snapshot
    BY DEF Init, StatusExact, ByteMeansBusy, Snapshot
  <2>3. Free = Slots
    BY DEF Init, Free
  <2>4. Cardinality(Slots) = NChildren
    BY FS_Interval, ChildrenAssumption DEF Slots
  <2>5. AvailExact
    BY <2>3, <2>4 DEF Init, AvailExact
  <2>6. QED
    BY <2>1, <2>2, <2>5 DEF IInv
<1>2. IInv /\ [Next]_vars => IInv'
  BY TypesStep, StatusStep, SnapshotStep, AvailStep DEF IInv
<1>3. QED
  BY <1>1, <1>2, PTL DEF Spec

-----------------------------------------------------------------------------
\* Variables keep their types, and navail stays within 0..nchildren.
THEOREM Typing == Spec => []TypeOK
<1>1. IInv => TypeOK
  BY FreeFinite DEF IInv, Types, AvailExact, TypeOK
<1>2. QED
  BY <1>1, Inductive, PTL

\* A free child has nothing to do and a busy one has exactly one client or byte.
THEOREM StatusTold == Spec => []StatusExact
<1>1. IInv => StatusExact
  BY DEF IInv
<1>2. QED
  BY <1>1, Inductive, PTL

\* "no available children" (116) is unreachable, however children die.
THEOREM AvailCounted == Spec => []AvailExact
<1>1. IInv => AvailExact
  BY DEF IInv
<1>2. QED
  BY <1>1, Inductive, PTL

\* The parent's bookkeeping is exact, however children die and whenever it looks.
THEOREM BeliefTrue == Spec => []BeliefExact
<1>1. StatusExact /\ AvailExact => BeliefExact
  BY DEF BeliefExact
<1>2. QED
  BY <1>1, StatusTold, AvailCounted, PTL
-----------------------------------------------------------------------------
(* The pool implements Dispatch.                                           *)

\* A child has a descriptor open exactly while it serves.
Serving == \A i \in Slots : child[i] = "serve" <=> conn[i] # NoClient

LEMMA ServingStep == IInv /\ Serving /\ [Next]_vars => Serving'
<1> SUFFICES ASSUME IInv, Serving, [Next]_vars PROVE Serving'
  OBVIOUS
<1>0. Types /\ Types'
  BY TypesStep DEF IInv
<1>1. ASSUME UNCHANGED <<child, conn>> PROVE Serving'
  BY <1>1 DEF Serving
<1>2. ASSUME NEW i \in Slots, Take(i) PROVE Serving'
  <2>1. Head(passed[i]) # NoClient
    BY <1>0, <1>2, ClientsAssumption DEF Take, Types
  <2>2. /\ child'[i] = "serve" /\ conn'[i] = Head(passed[i])
        /\ \A j \in Slots : j # i => child'[j] = child[j] /\ conn'[j] = conn[j]
    BY <1>0, <1>2 DEF Take, Types
  <2>3. QED
    BY <2>1, <2>2 DEF Serving
<1>3. ASSUME NEW i \in Slots, Served(i) \/ Die(i) PROVE Serving'
  <2>1. /\ child'[i] # "serve" /\ conn'[i] = NoClient
        /\ \A j \in Slots : j # i => child'[j] = child[j] /\ conn'[j] = conn[j]
    BY <1>0, <1>3 DEF Served, Die, Types
  <2>2. QED
    BY <2>1 DEF Serving
<1>4. ASSUME NEW i \in Slots, Report(i) PROVE Serving'
  BY <1>0, <1>4 DEF Report, Types, Serving
<1>5. QED
  BY <1>1, <1>2, <1>3, <1>4
     DEF Next, ParentStep, ChildStep, Environment, Exited, Select, Accept, AcceptForDead,
         NoneAvailable, ReadByte, ReadEof, Connect, Abort, Failure, AcceptFails, ReadReset,
         vars, parent, children

LEMMA TailOfOne ==
    ASSUME NEW S, NEW s \in Seq(S), Len(s) = 1 PROVE Tail(s) = <<>>
<1>1. Tail(s) \in Seq(S) /\ Len(Tail(s)) = 0
  <2>1. s # <<>>
    OBVIOUS
  <2>2. QED
    BY <2>1
<1>2. \A t \in Seq(S) : Len(t) = 0 => t = <<>>
  OBVIOUS
<1>3. QED
  BY <1>1, <1>2

\* What StatusExact says of a living child, in terms of what it holds.
LEMMA HoldsFacts ==
    ASSUME IInv, Serving, NEW i \in Slots, child[i] # "dead"
    PROVE  /\ ~busy[i] => passed[i] = <<>> /\ conn[i] = NoClient
           /\ child[i] = "idle" /\ passed[i] # <<>> => Tail(passed[i]) = <<>>
           /\ child[i] # "idle" => passed[i] = <<>>
<1>1. passed[i] \in Seq(Clients) /\ Len(passed[i]) \in Nat /\ ready[i] \in Nat
  BY DEF IInv, Types
<1>2. Len(passed[i]) + ready[i] + (IF child[i] = "idle" THEN 0 ELSE 1)
        = IF busy[i] THEN 1 ELSE 0
  BY DEF IInv, StatusExact
<1>3. passed[i] = <<>> <=> Len(passed[i]) = 0
  BY <1>1
<1>4. ~busy[i] => Len(passed[i]) = 0 /\ child[i] = "idle"
  BY <1>1, <1>2
<1>5. child[i] # "idle" => Len(passed[i]) = 0
  BY <1>1, <1>2
<1>6. Len(passed[i]) <= 1
  BY <1>1, <1>2
<1>7. passed[i] # <<>> => Tail(passed[i]) = <<>>
  BY <1>1, <1>3, <1>6, TailOfOne
<1>8. QED
  BY <1>3, <1>4, <1>5, <1>7 DEF Serving

LEMMA StepRefines ==
    IInv /\ Serving /\ [Next]_vars => [Pool!Next]_(Pool!vars)
<1> SUFFICES ASSUME IInv, Serving, [Next]_vars PROVE [Pool!Next]_(Pool!vars)
  OBVIOUS
<1> DEFINE holder == [i \in Slots |-> Holds(i)]
<1>0. Types /\ Types'
  BY TypesStep DEF IInv
<1>1. ASSUME UNCHANGED <<child, passed, conn>>
      PROVE  holder' = holder
  BY <1>1 DEF Holds
<1>2. ASSUME NEW i \in Slots, \A j \in Slots : j # i => Holds(j)' = Holds(j)
      PROVE  holder' = [holder EXCEPT ![i] = Holds(i)']
  BY <1>2
<1>3. CASE UNCHANGED <<child, passed, conn, backlog, server>>
  BY <1>1, <1>3 DEF Pool!vars
<1>4. CASE server = "up" /\ Accept
  <2>1. PICK i \in Slots :
           /\ ~busy[i] /\ child[i] # "dead"
           /\ passed' = [passed EXCEPT ![i] = Append(@, Head(backlog))]
    BY <1>4 DEF Accept, Chosen, Free
  <2>2. backlog # <<>> /\ backlog' = Tail(backlog) /\ UNCHANGED <<child, conn, server>>
    BY <1>4 DEF Accept
  <2>3. passed[i] = <<>> /\ conn[i] = NoClient
    BY <2>1, HoldsFacts
  <2>4. passed'[i] = <<Head(backlog)>> /\ \A j \in Slots : j # i => passed'[j] = passed[j]
    BY <1>0, <2>1, <2>3 DEF Types
  <2>5. Holds(i) = NoClient
    BY <2>1, <2>3 DEF Holds
  <2>6. Holds(i)' = Head(backlog)
    BY <2>1, <2>2, <2>4 DEF Holds
  <2>7. \A j \in Slots : j # i => Holds(j)' = Holds(j)
    BY <2>2, <2>4 DEF Holds
  <2>8. holder' = [holder EXCEPT ![i] = Head(backlog)]
    BY <1>2, <2>6, <2>7
  <2>9. Pool!Give(i)
    BY <2>2, <2>5, <2>8 DEF Pool!Give
  <2>10. QED
    BY <1>4, <2>9 DEF Pool!Next
<1>5. CASE server = "up" /\ (AcceptForDead \/ NoneAvailable \/ Failure)
  <2>1. UNCHANGED <<child, passed, conn, backlog>> /\ server' # "up"
    BY <1>5 DEF AcceptForDead, NoneAvailable, Failure, AcceptFails, ReadReset, children
  <2>2. Pool!Stop
    BY <1>1, <2>1 DEF Pool!Stop
  <2>3. QED
    BY <1>5, <2>2 DEF Pool!Next
<1>6. ASSUME NEW i \in Slots, Take(i) PROVE [Pool!Next]_(Pool!vars)
  <2>1. /\ child[i] = "idle" /\ passed[i] # <<>> /\ UNCHANGED <<backlog, server>>
        /\ child'[i] = "serve" /\ conn'[i] = Head(passed[i]) /\ passed'[i] = Tail(passed[i])
        /\ \A j \in Slots : j # i =>
              child'[j] = child[j] /\ conn'[j] = conn[j] /\ passed'[j] = passed[j]
    BY <1>0, <1>6 DEF Take, Types
  <2>2. Tail(passed[i]) = <<>>
    BY <2>1, HoldsFacts
  <2>3. \A j \in Slots : Holds(j)' = Holds(j)
    BY <2>1, <2>2 DEF Holds
  <2>4. QED
    BY <2>1, <2>3 DEF Pool!vars
<1>7. ASSUME NEW i \in Slots, server = "up", Served(i) \/ Die(i)
      PROVE  [Pool!Next]_(Pool!vars)
  <2>1. /\ UNCHANGED <<passed, backlog, server>> /\ conn'[i] = NoClient
        /\ child'[i] = "dead" \/ (child[i] = "serve" /\ child'[i] = "report")
        /\ \A j \in Slots : j # i => child'[j] = child[j] /\ conn'[j] = conn[j]
    BY <1>0, <1>7 DEF Served, Die, Types
  <2>2. child[i] = "serve" => passed[i] = <<>>
    BY HoldsFacts
  <2>3. Holds(i)' = NoClient
    BY <2>1, <2>2 DEF Holds
  <2>4. \A j \in Slots : j # i => Holds(j)' = Holds(j)
    BY <2>1 DEF Holds
  <2>5. holder' = [holder EXCEPT ![i] = NoClient]
    BY <1>2, <2>3, <2>4
  <2>6. CASE Holds(i) = NoClient
    <3>1. holder' = holder
      BY <2>5, <2>6
    <3>2. QED
      BY <2>1, <3>1 DEF Pool!vars
  <2>7. CASE Holds(i) # NoClient
    <3>1. Pool!Finish(i)
      BY <2>1, <2>5, <2>7 DEF Pool!Finish
    <3>2. QED
      BY <1>7, <3>1 DEF Pool!Next
  <2>8. QED
    BY <2>6, <2>7
<1>8. ASSUME NEW i \in Slots, Report(i) PROVE [Pool!Next]_(Pool!vars)
  <2>1. /\ child[i] = "report" /\ UNCHANGED <<passed, conn, backlog, server>>
        /\ child'[i] = "idle" /\ \A j \in Slots : j # i => child'[j] = child[j]
    BY <1>0, <1>8 DEF Report, Types
  <2>2. \A j \in Slots : Holds(j)' = Holds(j)
    BY <2>1 DEF Holds
  <2>3. QED
    BY <2>1, <2>2 DEF Pool!vars
<1>9. ASSUME NEW c \in Clients, server = "up", Connect(c) PROVE [Pool!Next]_(Pool!vars)
  <2>1. /\ \A k \in DOMAIN backlog : backlog[k] # c
        /\ \A i \in Slots : c \notin With(i)
        /\ backlog' = Append(backlog, c) /\ UNCHANGED <<child, passed, conn, server>>
    BY <1>9 DEF Connect, children
  <2>2. ASSUME NEW i \in Slots PROVE Holds(i) # c
    <3>1. CASE child[i] = "dead"
      BY <3>1, ClientsAssumption DEF Holds
    <3>2. CASE child[i] # "dead" /\ passed[i] # <<>>
      <4>1. 1 \in DOMAIN passed[i] /\ Head(passed[i]) = passed[i][1]
        BY <1>0, <3>2 DEF Types
      <4>2. QED
        BY <2>1, <3>2, <4>1 DEF Holds, With
    <3>3. CASE child[i] # "dead" /\ passed[i] = <<>>
      BY <2>1, <3>3 DEF Holds, With
    <3>4. QED
      BY <3>1, <3>2, <3>3
  <2>3. Pool!Connect(c)
    BY <1>1, <2>1, <2>2 DEF Pool!Connect
  <2>4. QED
    BY <1>9, <2>3 DEF Pool!Next
<1>10. CASE server = "up" /\ Abort
  <2>1. Pool!Abort
    BY <1>1, <1>10 DEF Abort, Pool!Abort, children
  <2>2. QED
    BY <1>10, <2>1 DEF Pool!Next
<1>11. QED
  BY <1>3, <1>4, <1>5, <1>6, <1>7, <1>8, <1>9, <1>10
     DEF Next, ParentStep, ChildStep, Environment, Exited, Select, ReadByte, ReadEof, vars,
         children

\* Whatever the parent believes and whenever it looks, a connection it accepts goes to
\* one child that has no other, the oldest connection first.
THEOREM PoolDispatches == Spec => ImplementsDispatch
<1>1. Init => Serving /\ Pool!Init
  <2> SUFFICES ASSUME Init PROVE Serving /\ Pool!Init
    OBVIOUS
  <2>1. Serving
    BY DEF Init, Serving
  <2>2. \A i \in Slots : Holds(i) = NoClient
    BY DEF Init, Holds
  <2>3. QED
    BY <2>1, <2>2 DEF Init, Pool!Init
<1>2. IInv /\ Serving /\ [Next]_vars => Serving'
  BY ServingStep
<1>3. IInv /\ Serving /\ [Next]_vars => [Pool!Next]_(Pool!vars)
  BY StepRefines
<1>4. QED
  BY <1>1, <1>2, <1>3, Inductive, PTL DEF Spec, ImplementsDispatch, Pool!Spec
=============================================================================
