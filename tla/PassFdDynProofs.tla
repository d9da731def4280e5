--------------------------- MODULE PassFdDynProofs ---------------------------
(***************************************************************************)
(* Proofs about PassFdDyn, for any limits of the pool and any clients.     *)
(*                                                                         *)
(* Growing and shrinking empty and fill slots, so besides what the parent  *)
(* believes of its children (StatusExact) the invariant says that an empty *)
(* slot is clean, that shrinking goes on only above the minimum with a     *)
(* child free, and that listenfd is watched only with a child free.        *)
(* The second half of the module is about Retransmit.                      *)
(***************************************************************************)
EXTENDS PassFdDyn, Retransmit, FiniteSetTheorems, TLAPS

\* TypeOK, but for the bound on navail, which AvailExact implies.
Types ==
    /\ ppc \in {"top", "select", "shrink", "accept", "scan"}
    /\ listening \in BOOLEAN
    /\ todo \subseteq Slots
    /\ at \in 0..MaxChildren
    /\ busy \in [Slots -> BOOLEAN]
    /\ navail \in Int
    /\ nchildren \in Int
    /\ skipped \in Nat
    /\ child \in [Slots -> {"none", "idle", "serve", "report", "dead"}]
    /\ passed \in [Slots -> Seq(Clients)]
    /\ ready \in [Slots -> Nat]
    /\ conn \in [Slots -> Clients \union {NoClient}]
    /\ backlog \in Seq(Clients)
    /\ server \in {"up", "noslot", "killed", "refused", "nochild", "error"}

EmptyClean == \A i \in Slots : child[i] = "none" => ~busy[i]

ByteMeansBusy == \A i \in Slots : ready[i] > 0 => ready[i] = 1 /\ busy[i]

Snapshot == \A i \in todo : ready[i] > 0

Limits ==
    /\ nchildren \in MinChildren..MaxChildren
    /\ ppc = "shrink" => nchildren > MinChildren /\ navail > 0

Watched == ppc = "select" /\ listening => navail > 0

IInv ==
    /\ Types /\ StatusExact /\ EmptyClean /\ ByteMeansBusy /\ Snapshot
    /\ AvailExact /\ CountDrift /\ Limits /\ Watched

-----------------------------------------------------------------------------
(* The parent's sets.                                                      *)

LEMMA SetsFinite ==
    /\ IsFiniteSet(Slots) /\ Cardinality(Slots) = MaxChildren
    /\ IsFiniteSet(Used) /\ Cardinality(Used) \in 0..MaxChildren
    /\ IsFiniteSet(Free) /\ Cardinality(Free) \in 0..MaxChildren
<1>1. IsFiniteSet(Slots) /\ Cardinality(Slots) = MaxChildren
  BY FS_Interval, LimitsAssumption DEF Slots
<1>2. Used \subseteq Slots /\ Free \subseteq Slots
  BY DEF Used, Free
<1>3. QED
  BY <1>1, <1>2, FS_Subset, FS_CardinalityType

\* Below the maximum a slot is empty.
LEMMA SlotEmpty ==
    ASSUME CountDrift, Types, nchildren < MaxChildren PROVE Used # Slots
<1>1. Cardinality(Used) <= nchildren /\ Cardinality(Used) \in Nat /\ MaxChildren \in Nat
  BY SetsFinite, LimitsAssumption DEF CountDrift, Types
<1>2. Cardinality(Used) # MaxChildren
  BY <1>1 DEF Types
<1>3. QED
  BY <1>2, SetsFinite

LEMMA SetsSame ==
    ASSUME Types, busy' = busy, \A i \in Slots : child'[i] = "none" <=> child[i] = "none"
    PROVE  Used' = Used /\ Free' = Free
BY DEF Used, Free, Types

LEMMA SetsGrow ==
    ASSUME Types, NEW i \in Slots, child[i] = "none",
           child' = [child EXCEPT ![i] = "idle"], busy' = [busy EXCEPT ![i] = FALSE]
    PROVE  /\ Cardinality(Used') = Cardinality(Used) + 1
           /\ Cardinality(Free') = Cardinality(Free) + 1
<1>1. Used' = Used \union {i} /\ i \notin Used
  BY DEF Used, Types
<1>2. Free' = Free \union {i} /\ i \notin Free
  BY DEF Used, Free, Types
<1>3. QED
  BY <1>1, <1>2, SetsFinite, FS_AddElement

LEMMA SetsShrink ==
    ASSUME Types, NEW i \in Slots, child[i] # "none", ~busy[i],
           child' = [child EXCEPT ![i] = "none"], busy' = busy
    PROVE  /\ Cardinality(Used') = Cardinality(Used) - 1
           /\ Cardinality(Free') = Cardinality(Free) - 1
<1>1. Used' = Used \ {i} /\ i \in Used
  BY DEF Used, Types
<1>2. Free' = Free \ {i} /\ i \in Free
  BY DEF Used, Free, Types
<1>3. QED
  BY <1>1, <1>2, SetsFinite, FS_RemoveElement

LEMMA FreeGrows ==
    ASSUME Types, NEW i \in Slots, child[i] # "none", busy[i],
           busy' = [busy EXCEPT ![i] = FALSE], child' = child
    PROVE  Used' = Used /\ Cardinality(Free') = Cardinality(Free) + 1
<1>1. Used' = Used
  BY DEF Used
<1>2. Free' = Free \union {i} /\ i \notin Free
  BY DEF Used, Free, Types
<1>3. QED
  BY <1>1, <1>2, SetsFinite, FS_AddElement

LEMMA FreeShrinks ==
    ASSUME Types, NEW i \in Slots, child[i] # "none", ~busy[i],
           busy' = [busy EXCEPT ![i] = TRUE], child' = child
    PROVE  Used' = Used /\ Cardinality(Free') = Cardinality(Free) - 1
<1>1. Used' = Used
  BY DEF Used
<1>2. Free' = Free \ {i} /\ i \in Free
  BY DEF Used, Free, Types
<1>3. QED
  BY <1>1, <1>2, SetsFinite, FS_RemoveElement

-----------------------------------------------------------------------------
(* One lemma for each group of conjuncts.                                  *)

LEMMA TypesStep == Types /\ Snapshot /\ [Next]_vars => Types'
<1> SUFFICES ASSUME Types, Snapshot, [Next]_vars PROVE Types'
  OBVIOUS
<1> USE LimitsAssumption DEF Types, loop, counts, children
<1>1. CASE Enough \/ Full
  BY <1>1 DEF Enough, Full, Watch
<1>2. CASE Grow
  <2>1. PICK i \in Slots :
           /\ child' = [child EXCEPT ![i] = "idle"]
           /\ busy' = [busy EXCEPT ![i] = FALSE]
    BY <1>2 DEF Grow
  <2>2. QED
    BY <1>2, <2>1 DEF Grow, Watch
<1>3. CASE NoSlot \/ AcceptForDead \/ NoneAvailable \/ CallFails
  BY <1>3 DEF NoSlot, AcceptForDead, NoneAvailable, CallFails, End
<1>4. CASE Select \/ Timeout \/ ShrinkDone
  BY <1>4 DEF Select, Timeout, ShrinkDone, Readable, Used
<1>5. CASE Accept
  <2>1. PICK i \in Slots :
           /\ busy' = [busy EXCEPT ![i] = TRUE]
           /\ passed' = [passed EXCEPT ![i] = Append(@, Head(backlog))]
    BY <1>5 DEF Accept
  <2>2. Head(backlog) \in Clients /\ Tail(backlog) \in Seq(Clients)
    BY <1>5 DEF Accept
  <2>3. passed' \in [Slots -> Seq(Clients)]
    BY <2>1, <2>2
  <2>4. QED
    BY <1>5, <2>1, <2>2, <2>3 DEF Accept, Rest
<1>6. ASSUME NEW i \in Slots, ShrinkKill(i) PROVE Types'
  <2>1. at' \in 0..MaxChildren
    BY <1>6 DEF ShrinkKill, Slots
  <2>2. /\ child' \in [Slots -> {"none", "idle", "serve", "report", "dead"}]
        /\ conn' \in [Slots -> Clients \union {NoClient}]
        /\ ready' \in [Slots -> Nat]
    BY <1>6 DEF ShrinkKill
  <2>3. passed' \in [Slots -> Seq(Clients)]
    <3>1. <<>> \in Seq(Clients)
      OBVIOUS
    <3>2. QED
      BY <1>6, <3>1 DEF ShrinkKill
  <2>4. QED
    BY <1>6, <2>1, <2>2, <2>3 DEF ShrinkKill
<1>7. ASSUME NEW i \in Slots, ShrinkSelf(i) PROVE Types'
  BY <1>7 DEF ShrinkSelf, End
<1>8. ASSUME NEW i \in Slots, ReadByte(i) PROVE Types'
  BY <1>8 DEF ReadByte, Rest, First, Snapshot
<1>9. ASSUME NEW i \in Slots, Take(i) PROVE Types'
  <2>1. Head(passed[i]) \in Clients /\ Tail(passed[i]) \in Seq(Clients)
    BY <1>9 DEF Take
  <2>2. passed' \in [Slots -> Seq(Clients)] /\ conn' \in [Slots -> Clients \union {NoClient}]
    BY <1>9, <2>1 DEF Take
  <2>3. QED
    BY <1>9, <2>2 DEF Take
<1>10. ASSUME NEW i \in Slots, Served(i) PROVE Types'
  BY <1>10 DEF Served
<1>11. ASSUME NEW i \in Slots, Report(i) PROVE Types'
  BY <1>11 DEF Report
<1>12. ASSUME NEW i \in Slots, Die(i) PROVE Types'
  BY <1>12 DEF Die
<1>13. ASSUME NEW c \in Clients, Connect(c) PROVE Types'
  BY <1>13 DEF Connect
<1>14. CASE Abort
  BY <1>14 DEF Abort
<1>15. CASE UNCHANGED vars
  BY <1>15 DEF vars
<1>16. QED
  BY <1>1, <1>2, <1>3, <1>4, <1>5, <1>6, <1>7, <1>8, <1>9, <1>10, <1>11, <1>12,
     <1>13, <1>14, <1>15
     DEF Next, ParentStep, ChildStep, Environment, Exited

\* The descriptor goes to the child, the child serves it and sends a byte back.
LEMMA StatusStep ==
    IInv /\ [Next]_vars => StatusExact' /\ EmptyClean' /\ ByteMeansBusy'
<1> DEFINE Goal == StatusExact' /\ EmptyClean' /\ ByteMeansBusy'
<1> SUFFICES ASSUME IInv, [Next]_vars PROVE Goal
  OBVIOUS
<1> USE DEF StatusExact, EmptyClean, ByteMeansBusy, IInv
<1>0. Types /\ Types'
  BY TypesStep
<1>1. ASSUME UNCHANGED <<busy, child, passed, ready>> PROVE Goal
  BY <1>1
<1>2. CASE Grow
  <2>1. PICK i \in Slots :
           /\ child[i] = "none"
           /\ child' = [child EXCEPT ![i] = "idle"]
           /\ busy' = [busy EXCEPT ![i] = FALSE]
    BY <1>2 DEF Grow, First, Used
  <2>2. UNCHANGED <<passed, ready>> /\ ~busy[i]
    BY <1>2, <2>1 DEF Grow
  <2>3. child'[i] = "idle" /\ busy'[i] = FALSE
    BY <1>0, <2>1 DEF Types
  <2>4. \A j \in Slots : j # i => child'[j] = child[j] /\ busy'[j] = busy[j]
    BY <1>0, <2>1 DEF Types
  <2>5. QED
    BY <2>1, <2>2, <2>3, <2>4
<1>3. ASSUME NEW i \in Slots, ShrinkKill(i) PROVE Goal
  <2>1. child[i] # "none" /\ ~busy[i] /\ busy' = busy
    BY <1>3 DEF ShrinkKill, First, Ahead
  <2>2. child'[i] = "none" /\ passed'[i] = <<>> /\ ready'[i] = 0
    BY <1>0, <1>3 DEF ShrinkKill, Types
  <2>3. \A j \in Slots : j # i =>
           child'[j] = child[j] /\ passed'[j] = passed[j] /\ ready'[j] = ready[j]
    BY <1>0, <1>3 DEF ShrinkKill, Types
  <2>4. Len(passed'[i]) = 0
    BY <2>2
  <2>5. QED
    BY <2>1, <2>2, <2>3, <2>4
<1>4. CASE Accept
  <2>1. PICK i \in Slots :
           /\ ~busy[i] /\ child[i] \notin {"none", "dead"}
           /\ busy' = [busy EXCEPT ![i] = TRUE]
           /\ passed' = [passed EXCEPT ![i] = Append(@, Head(backlog))]
    BY <1>4 DEF Accept, Chosen, First, Free, Used
  <2>2. Head(backlog) \in Clients
    BY <1>0, <1>4 DEF Accept, Types
  <2>3. Len(passed'[i]) = Len(passed[i]) + 1
    BY <1>0, <2>1, <2>2 DEF Types
  <2>4. Len(passed[i]) \in Nat /\ ready[i] \in Nat
    BY <1>0 DEF Types
  <2>5. child' = child /\ ready' = ready
    BY <1>4 DEF Accept
  <2>6. \A j \in Slots : j # i => passed'[j] = passed[j] /\ busy'[j] = busy[j]
    BY <1>0, <2>1 DEF Types
  <2>7. busy'[i] = TRUE
    BY <1>0, <2>1 DEF Types
  <2>8. QED
    BY <2>1, <2>3, <2>4, <2>5, <2>6, <2>7
<1>5. ASSUME NEW i \in Slots, ReadByte(i) PROVE Goal
  <2>1. ready[i] = 1 /\ busy[i]
    BY <1>5 DEF ReadByte, First, Snapshot
  <2>2. child' = child /\ passed' = passed
    BY <1>5 DEF ReadByte
  <2>3. ready'[i] = 0 /\ busy'[i] = FALSE
    BY <1>0, <1>5, <2>1 DEF ReadByte, Types
  <2>4. \A j \in Slots : j # i => ready'[j] = ready[j] /\ busy'[j] = busy[j]
    BY <1>0, <1>5 DEF ReadByte, Types
  <2>5. Len(passed[i]) \in Nat
    BY <1>0 DEF Types
  <2>6. QED
    BY <2>1, <2>2, <2>3, <2>4, <2>5
<1>6. ASSUME NEW i \in Slots, Take(i) PROVE Goal
  <2>1. /\ Len(passed[i]) \in Nat /\ ready[i] \in Nat
        /\ Len(passed'[i]) = Len(passed[i]) - 1
    BY <1>0, <1>6 DEF Take, Types
  <2>2. child[i] = "idle" /\ child'[i] = "serve" /\ UNCHANGED <<busy, ready>>
    BY <1>0, <1>6 DEF Take, Types, counts
  <2>3. \A j \in Slots : j # i => passed'[j] = passed[j] /\ child'[j] = child[j]
    BY <1>0, <1>6 DEF Take, Types
  <2>4. QED
    BY <2>1, <2>2, <2>3
<1>7. ASSUME NEW i \in Slots, Served(i) PROVE Goal
  <2>1. child[i] = "serve" /\ child'[i] = "report" /\ UNCHANGED <<busy, passed, ready>>
    BY <1>0, <1>7 DEF Served, Types, counts
  <2>2. \A j \in Slots : j # i => child'[j] = child[j]
    BY <1>0, <1>7 DEF Served, Types
  <2>3. QED
    BY <2>1, <2>2
<1>8. ASSUME NEW i \in Slots, Report(i) PROVE Goal
  <2>1. child[i] = "report" /\ child'[i] = "idle" /\ UNCHANGED <<busy, passed>>
    BY <1>0, <1>8 DEF Report, Types, counts
  <2>2. ready[i] \in Nat /\ ready'[i] = ready[i] + 1 /\ Len(passed[i]) \in Nat
    BY <1>0, <1>8 DEF Report, Types
  <2>3. \A j \in Slots : j # i => child'[j] = child[j] /\ ready'[j] = ready[j]
    BY <1>0, <1>8 DEF Report, Types
  <2>4. Len(passed[i]) + ready[i] + 1 = IF busy[i] THEN 1 ELSE 0
    BY <2>1
  <2>5. Len(passed[i]) = 0 /\ ready[i] = 0 /\ busy[i]
    BY <2>2, <2>4
  <2>6. QED
    BY <2>1, <2>2, <2>3, <2>5
<1>9. ASSUME NEW i \in Slots, Die(i) PROVE Goal
  <2>1. child'[i] = "dead" /\ UNCHANGED <<busy, passed, ready>>
    BY <1>0, <1>9 DEF Die, Types, counts
  <2>2. \A j \in Slots : j # i => child'[j] = child[j]
    BY <1>0, <1>9 DEF Die, Types
  <2>3. QED
    BY <2>1, <2>2
<1>10. QED
  BY <1>1, <1>2, <1>3, <1>4, <1>5, <1>6, <1>7, <1>8, <1>9
     DEF Next, ParentStep, ChildStep, Environment, Exited, Enough, Full, NoSlot, Select,
         Timeout, ShrinkDone, ShrinkSelf, AcceptForDead, NoneAvailable, CallFails,
         Connect, Abort, End, Watch, vars, counts, children

\* What pselect() reported is still there when the parent comes to read it.
LEMMA SnapshotStep == IInv /\ [Next]_vars => Snapshot'
<1> SUFFICES ASSUME IInv, [Next]_vars PROVE Snapshot'
  OBVIOUS
<1> USE DEF Snapshot, IInv
<1>0. Types /\ Types'
  BY TypesStep
<1>1. ASSUME UNCHANGED <<todo, ready>> PROVE Snapshot'
  BY <1>1
<1>2. CASE Select
  BY <1>2 DEF Select, Readable, children
<1>3. CASE Timeout \/ Accept
  BY <1>3 DEF Timeout, Accept, Rest
<1>4. ASSUME NEW i \in Slots, ShrinkKill(i) PROVE Snapshot'
  <2>1. ~busy[i] /\ todo' = todo
    BY <1>4 DEF ShrinkKill, First, Ahead
  <2>2. i \notin todo
    BY <2>1 DEF ByteMeansBusy
  <2>3. QED
    BY <1>0, <1>4, <2>1, <2>2 DEF ShrinkKill, Types
<1>5. ASSUME NEW i \in Slots, ReadByte(i) PROVE Snapshot'
  BY <1>0, <1>5 DEF ReadByte, Rest, Types
<1>6. ASSUME NEW i \in Slots, Report(i) PROVE Snapshot'
  BY <1>0, <1>6 DEF Report, Types, loop
<1>7. QED
  BY <1>1, <1>2, <1>3, <1>4, <1>5, <1>6
     DEF Next, ParentStep, ChildStep, Environment, Exited, Enough, Full, Grow, NoSlot,
         ShrinkDone, ShrinkSelf, AcceptForDead, NoneAvailable, CallFails, Take, Served,
         Die, Connect, Abort, End, Watch, vars, loop, children

\* The counters follow the slots.
LEMMA CountStep ==
    IInv /\ [Next]_vars => AvailExact' /\ CountDrift' /\ Limits' /\ Watched'
<1> DEFINE Goal == AvailExact' /\ CountDrift' /\ Limits' /\ Watched'
<1> SUFFICES ASSUME IInv, [Next]_vars PROVE Goal
  OBVIOUS
<1> USE LimitsAssumption DEF AvailExact, CountDrift, Limits, Watched, IInv
<1>0. /\ Types /\ Types'
      /\ Cardinality(Free) \in Nat /\ Cardinality(Used) \in Nat
      /\ navail \in Int /\ nchildren \in Int /\ skipped \in Nat
  BY TypesStep, SetsFinite DEF Types
<1>1. ASSUME UNCHANGED <<busy, child>> PROVE Used' = Used /\ Free' = Free
  BY <1>1 DEF Used, Free
<1>2. CASE Enough \/ Full
  BY <1>1, <1>2 DEF Enough, Full, Watch, counts, children
<1>3. CASE Grow
  <2>1. PICK i \in Slots :
           /\ child[i] = "none"
           /\ child' = [child EXCEPT ![i] = "idle"]
           /\ busy' = [busy EXCEPT ![i] = FALSE]
    BY <1>3 DEF Grow, First, Used
  <2>2. /\ Cardinality(Used') = Cardinality(Used) + 1
        /\ Cardinality(Free') = Cardinality(Free) + 1
    BY <1>0, <2>1, SetsGrow
  <2>3. /\ navail' = navail + 1 /\ nchildren' = nchildren + 1 /\ nchildren # MaxChildren
        /\ skipped' = skipped
        /\ ppc' = "select" /\ server' = server
    BY <1>3 DEF Grow, Watch
  <2>4. QED
    BY <1>0, <2>2, <2>3
<1>4. CASE NoSlot
  BY <1>0, <1>4, SlotEmpty DEF NoSlot
<1>5. CASE Select
  <2>1. Free # {} <=> navail > 0
    BY <1>0, SetsFinite, FS_EmptySet
  <2>2. QED
    BY <1>1, <1>5, <2>1 DEF Select, Pending, counts, children
<1>6. CASE Timeout
  BY <1>1, <1>6 DEF Timeout, counts, children
<1>7. CASE ShrinkDone
  BY <1>1, <1>7 DEF ShrinkDone, counts, children
<1>8. ASSUME NEW i \in Slots, ShrinkKill(i) PROVE Goal
  <2>1. child[i] # "none" /\ ~busy[i] /\ busy' = busy
        /\ child' = [child EXCEPT ![i] = "none"]
    BY <1>8 DEF ShrinkKill, First, Ahead
  <2>2. /\ Cardinality(Used') = Cardinality(Used) - 1
        /\ Cardinality(Free') = Cardinality(Free) - 1
    BY <1>0, <2>1, SetsShrink
  <2>3. nchildren > MinChildren /\ navail > 0 /\ server' = server /\ navail' = navail - 1
    BY <1>8 DEF ShrinkKill
  <2>4. CASE navail' = 0
    <3>1. nchildren' = nchildren /\ skipped' = skipped + 1 /\ ppc' = "top"
      BY <1>8, <2>4 DEF ShrinkKill
    <3>2. QED
      BY <1>0, <2>2, <2>3, <3>1
  <2>5. CASE navail' # 0
    <3>1. nchildren' = nchildren - 1 /\ skipped' = skipped
      BY <1>8, <2>5 DEF ShrinkKill
    <3>2. ppc' = IF nchildren' = MinChildren THEN "top" ELSE "shrink"
      BY <1>8, <2>5 DEF ShrinkKill
    <3>3. QED
      BY <1>0, <2>2, <2>3, <2>5, <3>1, <3>2
  <2>6. QED
    BY <2>4, <2>5
<1>9. ASSUME NEW i \in Slots, ShrinkSelf(i) PROVE Goal
  BY <1>1, <1>9 DEF ShrinkSelf, End, loop, counts, children
<1>10. CASE Accept
  <2>1. PICK i \in Slots : ~busy[i] /\ child[i] # "none" /\ busy' = [busy EXCEPT ![i] = TRUE]
    BY <1>10 DEF Accept, Chosen, First, Free, Used
  <2>2. child' = child /\ navail' = navail - 1 /\ UNCHANGED <<nchildren, skipped>>
        /\ ppc' \notin {"accept", "select", "shrink"} /\ server' = server
    BY <1>10 DEF Accept, Rest
  <2>3. Used' = Used /\ Cardinality(Free') = Cardinality(Free) - 1
    BY <1>0, <2>1, <2>2, FreeShrinks
  <2>4. QED
    BY <2>2, <2>3
<1>11. CASE AcceptForDead \/ CallFails
  BY <1>1, <1>11 DEF AcceptForDead, CallFails, End, loop, counts, children
<1>12. CASE NoneAvailable
  BY <1>12 DEF NoneAvailable
<1>13. ASSUME NEW i \in Slots, ReadByte(i) PROVE Goal
  <2>1. ready[i] > 0
    BY <1>13 DEF ReadByte, First, Snapshot
  <2>2. busy[i] /\ child[i] # "none"
    BY <2>1 DEF ByteMeansBusy, EmptyClean
  <2>3. busy' = [busy EXCEPT ![i] = FALSE] /\ child' = child /\ navail' = navail + 1
        /\ UNCHANGED <<nchildren, skipped>> /\ ppc' \notin {"accept", "select", "shrink"}
        /\ server' = server
    BY <1>13 DEF ReadByte, Rest
  <2>4. Used' = Used /\ Cardinality(Free') = Cardinality(Free) + 1
    BY <1>0, <2>2, <2>3, FreeGrows
  <2>5. QED
    BY <2>3, <2>4
<1>14. ASSUME NEW i \in Slots, Take(i) \/ Served(i) \/ Report(i) \/ Die(i) PROVE Goal
  <2>1. UNCHANGED <<ppc, listening, busy, navail, nchildren, skipped, server>>
    BY <1>14 DEF Take, Served, Report, Die, loop, counts
  <2>2. \A j \in Slots : child'[j] = "none" <=> child[j] = "none"
    BY <1>0, <1>14 DEF Take, Served, Report, Die, Types
  <2>3. Used' = Used /\ Free' = Free
    BY <1>0, <2>1, <2>2, SetsSame
  <2>4. QED
    BY <2>1, <2>3
<1>15. ASSUME UNCHANGED <<ppc, listening, counts, child, server>> PROVE Goal
  BY <1>1, <1>15 DEF counts
<1>16. ASSUME NEW c \in Clients, Connect(c) PROVE Goal
  BY <1>15, <1>16 DEF Connect, loop, children
<1>17. CASE Abort \/ UNCHANGED vars
  BY <1>15, <1>17 DEF Abort, loop, counts, children, vars
<1> HIDE DEF Goal, IInv
<1>18. QED
  BY <1>2, <1>3, <1>4, <1>5, <1>6, <1>7, <1>8, <1>9, <1>10, <1>11, <1>12, <1>13,
     <1>14, <1>16, <1>17
     DEF Next, ParentStep, ChildStep, Environment, Exited

LEMMA Inductive == Spec => []IInv
<1>1. Init => IInv
  <2> SUFFICES ASSUME Init PROVE IInv
    OBVIOUS
  <2> USE LimitsAssumption
  <2>1. Types
    BY DEF Init, Types
  <2>2. StatusExact /\ EmptyClean /\ ByteMeansBusy /\ Snapshot /\ Limits /\ Watched
    BY DEF Init, StatusExact, EmptyClean, ByteMeansBusy, Snapshot, Limits, Watched
  <2>3. Used = 0..(MinChildren - 1) /\ Free = Used
    BY DEF Init, Used, Free, Slots
  <2>4. Cardinality(0..(MinChildren - 1)) = MinChildren
    BY FS_Interval
  <2>5. AvailExact /\ CountDrift
    BY <2>3, <2>4 DEF Init, AvailExact, CountDrift
  <2>6. QED
    BY <2>1, <2>2, <2>5 DEF IInv
<1>2. IInv /\ [Next]_vars => IInv'
  BY TypesStep, StatusStep, SnapshotStep, CountStep DEF IInv
<1>3. QED
  BY <1>1, <1>2, PTL DEF Spec

-----------------------------------------------------------------------------
\* Variables keep their types; navail and nchildren stay within the limits.
THEOREM Typing == Spec => []TypeOK
<1>1. ASSUME IInv PROVE navail \in 0..MaxChildren /\ skipped \in 0..MaxChildren
  BY <1>1, SetsFinite, LimitsAssumption DEF IInv, Types, AvailExact, CountDrift, Limits
<1>2. IInv => TypeOK
  BY <1>1 DEF IInv, Types, Limits, TypeOK
<1>3. QED
  BY <1>2, Inductive, PTL

\* Only idle children are terminated, and a child is given one client at a time.
THEOREM StatusTold == Spec => []StatusExact
<1>1. IInv => StatusExact
  BY DEF IInv
<1>2. QED
  BY <1>1, Inductive, PTL

\* "no available children" (193) is unreachable.
THEOREM AvailCounted == Spec => []AvailExact
<1>1. IInv => AvailExact
  BY DEF IInv
<1>2. QED
  BY <1>1, Inductive, PTL

\* nchildren is too high by the decrements that 174 skipped, and by nothing else;
\* "can't allocate process resource" (143) is unreachable.
THEOREM DriftIsSkips == Spec => []CountDrift
<1>1. IInv => CountDrift
  BY DEF IInv
<1>2. QED
  BY <1>1, Inductive, PTL

\* The parent's bookkeeping is exact through growth, shrinkage and unnoticed deaths.
THEOREM BeliefTrue == Spec => []BeliefExact
<1>1. StatusExact /\ AvailExact /\ CountDrift => BeliefExact
  BY DEF BeliefExact
<1>2. QED
  BY <1>1, StatusTold, AvailCounted, DriftIsSkips, PTL

-----------------------------------------------------------------------------
(* The pool implements Dispatch.                                           *)

\* A child has a descriptor open exactly while it serves.
Serving == \A i \in Slots : child[i] = "serve" <=> conn[i] # NoClient

LEMMA ServingStep == IInv /\ Serving /\ [Next]_vars => Serving'
<1> SUFFICES ASSUME IInv, Serving, [Next]_vars PROVE Serving'
  OBVIOUS
<1>0. Types /\ Types'
  BY TypesStep DEF IInv
<1>1. ASSUME UNCHANGED <<child, conn>> PROVE Serving'
  BY <1>1 DEF Serving
<1>2. ASSUME NEW i \in Slots, Take(i) PROVE Serving'
  <2>1. Head(passed[i]) # NoClient
    BY <1>0, <1>2, ClientsAssumption DEF Take, Types
  <2>2. /\ child'[i] = "serve" /\ conn'[i] = Head(passed[i])
        /\ \A j \in Slots : j # i => child'[j] = child[j] /\ conn'[j] = conn[j]
    BY <1>0, <1>2 DEF Take, Types
  <2>3. QED
    BY <2>1, <2>2 DEF Serving
<1>3. ASSUME NEW i \in Slots, Served(i) \/ Die(i) PROVE Serving'
  <2>1. /\ child'[i] # "serve" /\ conn'[i] = NoClient
        /\ \A j \in Slots : j # i => child'[j] = child[j] /\ conn'[j] = conn[j]
    BY <1>0, <1>3 DEF Served, Die, Types
  <2>2. QED
    BY <2>1 DEF Serving
<1>4. ASSUME NEW i \in Slots, Report(i) PROVE Serving'
  BY <1>0, <1>4 DEF Report, Types, Serving
<1>5. CASE Grow
  <2>1. PICK i \in Slots : child[i] = "none" /\ child' = [child EXCEPT ![i] = "idle"]
    BY <1>5 DEF Grow, First, Used
  <2>2. QED
    BY <1>0, <1>5, <2>1 DEF Grow, Types, Serving
<1>6. ASSUME NEW i \in Slots, ShrinkKill(i) PROVE Serving'
  BY <1>0, <1>6 DEF ShrinkKill, Types, Serving
<1>7. QED
  BY <1>1, <1>2, <1>3, <1>4, <1>5, <1>6
     DEF Next, ParentStep, ChildStep, Environment, Exited, Enough, Full, NoSlot, Select,
         Timeout, ShrinkDone, ShrinkSelf, Accept, AcceptForDead, NoneAvailable, ReadByte,
         Connect, Abort, CallFails, End, vars, children

LEMMA TailOfOne ==
    ASSUME NEW S, NEW s \in Seq(S), Len(s) = 1 PROVE Tail(s) = <<>>
<1>1. Tail(s) \in Seq(S) /\ Len(Tail(s)) = 0
  <2>1. s # <<>>
    OBVIOUS
  <2>2. QED
    BY <2>1
<1>2. \A t \in Seq(S) : Len(t) = 0 => t = <<>>
  OBVIOUS
<1>3. QED
  BY <1>1, <1>2

\* What StatusExact says of a living child, in terms of what it holds.
LEMMA HoldsFacts ==
    ASSUME IInv, Serving, NEW i \in Slots, child[i] # "dead"
    PROVE  /\ ~busy[i] => passed[i] = <<>> /\ conn[i] = NoClient
           /\ child[i] = "idle" /\ passed[i] # <<>> => Tail(passed[i]) = <<>>
           /\ child[i] # "idle" => passed[i] = <<>>
<1>1. passed[i] \in Seq(Clients) /\ Len(passed[i]) \in Nat /\ ready[i] \in Nat
  BY DEF IInv, Types
<1>2. Len(passed[i]) + ready[i] + (IF child[i] \in {"none", "idle"} THEN 0 ELSE 1)
        = IF busy[i] THEN 1 ELSE 0
  BY DEF IInv, StatusExact
<1>3. passed[i] = <<>> <=> Len(passed[i]) = 0
  BY <1>1
<1>4. ~busy[i] => Len(passed[i]) = 0 /\ child[i] \in {"none", "idle"}
  BY <1>1, <1>2
<1>5. child[i] # "idle" => Len(passed[i]) = 0
  BY <1>1, <1>2 DEF IInv, EmptyClean
<1>6. Len(passed[i]) <= 1
  BY <1>1, <1>2
<1>7. passed[i] # <<>> => Tail(passed[i]) = <<>>
  BY <1>1, <1>3, <1>6, TailOfOne
<1>8. QED
  BY <1>3, <1>4, <1>5, <1>7 DEF Serving

LEMMA PoolStepRefines ==
    IInv /\ Serving /\ [Next]_vars => [Pool!Next]_(Pool!vars)
<1> SUFFICES ASSUME IInv, Serving, [Next]_vars PROVE [Pool!Next]_(Pool!vars)
  OBVIOUS
<1> DEFINE holder == [i \in Slots |-> Holds(i)]
<1>0. Types /\ Types'
  BY TypesStep DEF IInv
<1>1. ASSUME UNCHANGED <<child, passed, conn>>
      PROVE  holder' = holder
  BY <1>1 DEF Holds
<1>2. ASSUME NEW i \in Slots, \A j \in Slots : j # i => Holds(j)' = Holds(j)
      PROVE  holder' = [holder EXCEPT ![i] = Holds(i)']
  BY <1>2
<1>3. CASE UNCHANGED <<child, passed, conn, backlog, server>>
  BY <1>1, <1>3 DEF Pool!vars
<1>4. CASE server = "up" /\ Accept
  <2>1. PICK i \in Slots :
           /\ ~busy[i] /\ child[i] \notin {"none", "dead"}
           /\ passed' = [passed EXCEPT ![i] = Append(@, Head(backlog))]
    BY <1>4 DEF Accept, Chosen, Free, Used, First
  <2>2. backlog # <<>> /\ backlog' = Tail(backlog) /\ UNCHANGED <<child, conn, server>>
    BY <1>4 DEF Accept
  <2>3. passed[i] = <<>> /\ conn[i] = NoClient
    BY <2>1, HoldsFacts
  <2>4. passed'[i] = <<Head(backlog)>> /\ \A j \in Slots : j # i => passed'[j] = passed[j]
    BY <1>0, <2>1, <2>3 DEF Types
  <2>5. Holds(i) = NoClient
    BY <2>1, <2>3 DEF Holds
  <2>6. Holds(i)' = Head(backlog)
    BY <2>1, <2>2, <2>4 DEF Holds
  <2>7. \A j \in Slots : j # i => Holds(j)' = Holds(j)
    BY <2>2, <2>4 DEF Holds
  <2>8. holder' = [holder EXCEPT ![i] = Head(backlog)]
    BY <1>2, <2>6, <2>7
  <2>9. Pool!Give(i)
    BY <2>2, <2>5, <2>8 DEF Pool!Give
  <2>10. QED
    BY <1>4, <2>9 DEF Pool!Next
<1>5. ASSUME NEW why \in {"noslot", "killed", "refused", "nochild", "error"},
             server = "up", End(why)
      PROVE  [Pool!Next]_(Pool!vars)
  <2>1. UNCHANGED <<child, passed, conn, backlog>> /\ server' # "up"
    BY <1>5 DEF End, children
  <2>2. Pool!Stop
    BY <1>1, <2>1 DEF Pool!Stop
  <2>3. QED
    BY <1>5, <2>2 DEF Pool!Next
<1>6. ASSUME NEW i \in Slots, Take(i) PROVE [Pool!Next]_(Pool!vars)
  <2>1. /\ child[i] = "idle" /\ passed[i] # <<>> /\ UNCHANGED <<backlog, server>>
        /\ child'[i] = "serve" /\ conn'[i] = Head(passed[i]) /\ passed'[i] = Tail(passed[i])
        /\ \A j \in Slots : j # i =>
              child'[j] = child[j] /\ conn'[j] = conn[j] /\ passed'[j] = passed[j]
    BY <1>0, <1>6 DEF Take, Types
  <2>2. Tail(passed[i]) = <<>>
    BY <2>1, HoldsFacts
  <2>3. \A j \in Slots : Holds(j)' = Holds(j)
    BY <2>1, <2>2 DEF Holds
  <2>4. QED
    BY <2>1, <2>3 DEF Pool!vars
<1>7. ASSUME NEW i \in Slots, server = "up", Served(i) \/ Die(i)
      PROVE  [Pool!Next]_(Pool!vars)
  <2>1. /\ UNCHANGED <<passed, backlog, server>> /\ conn'[i] = NoClient
        /\ child'[i] = "dead" \/ (child[i] = "serve" /\ child'[i] = "report")
        /\ \A j \in Slots : j # i => child'[j] = child[j] /\ conn'[j] = conn[j]
    BY <1>0, <1>7 DEF Served, Die, Types
  <2>2. child[i] = "serve" => passed[i] = <<>>
    BY HoldsFacts
  <2>3. Holds(i)' = NoClient
    BY <2>1, <2>2 DEF Holds
  <2>4. \A j \in Slots : j # i => Holds(j)' = Holds(j)
    BY <2>1 DEF Holds
  <2>5. holder' = [holder EXCEPT ![i] = NoClient]
    BY <1>2, <2>3, <2>4
  <2>6. CASE Holds(i) = NoClient
    <3>1. holder' = holder
      BY <2>5, <2>6
    <3>2. QED
      BY <2>1, <3>1 DEF Pool!vars
  <2>7. CASE Holds(i) # NoClient
    <3>1. Pool!Finish(i)
      BY <2>1, <2>5, <2>7 DEF Pool!Finish
    <3>2. QED
      BY <1>7, <3>1 DEF Pool!Next
  <2>8. QED
    BY <2>6, <2>7
<1>8. ASSUME NEW i \in Slots, Report(i) PROVE [Pool!Next]_(Pool!vars)
  <2>1. /\ child[i] = "report" /\ UNCHANGED <<passed, conn, backlog, server>>
        /\ child'[i] = "idle" /\ \A j \in Slots : j # i => child'[j] = child[j]
    BY <1>0, <1>8 DEF Report, Types
  <2>2. \A j \in Slots : Holds(j)' = Holds(j)
    BY <2>1 DEF Holds
  <2>3. QED
    BY <2>1, <2>2 DEF Pool!vars
<1>9. ASSUME NEW c \in Clients, server = "up", Connect(c) PROVE [Pool!Next]_(Pool!vars)
  <2>1. /\ \A k \in DOMAIN backlog : backlog[k] # c
        /\ \A i \in Slots : c \notin With(i)
        /\ backlog' = Append(backlog, c) /\ UNCHANGED <<child, passed, conn, server>>
    BY <1>9 DEF Connect, children
  <2>2. ASSUME NEW i \in Slots PROVE Holds(i) # c
    <3>1. CASE child[i] \in {"none", "dead"}
      BY <3>1, ClientsAssumption DEF Holds
    <3>2. CASE child[i] \notin {"none", "dead"} /\ passed[i] # <<>>
      <4>1. 1 \in DOMAIN passed[i] /\ Head(passed[i]) = passed[i][1]
        BY <1>0, <3>2 DEF Types
      <4>2. QED
        BY <2>1, <3>2, <4>1 DEF Holds, With
    <3>3. CASE child[i] \notin {"none", "dead"} /\ passed[i] = <<>>
      BY <2>1, <3>3 DEF Holds, With
    <3>4. QED
      BY <3>1, <3>2, <3>3
  <2>3. Pool!Connect(c)
    BY <1>1, <2>1, <2>2 DEF Pool!Connect
  <2>4. QED
    BY <1>9, <2>3 DEF Pool!Next
<1>10. CASE server = "up" /\ Abort
  <2>1. Pool!Abort
    BY <1>1, <1>10 DEF Abort, Pool!Abort, children
  <2>2. QED
    BY <1>10, <2>1 DEF Pool!Next
<1>11. CASE Grow
  <2>1. PICK i \in Slots : child[i] = "none" /\ child' = [child EXCEPT ![i] = "idle"]
    BY <1>11 DEF Grow, First, Used
  <2>2. passed[i] = <<>> /\ conn[i] = NoClient
    BY <2>1, HoldsFacts DEF IInv, EmptyClean
  <2>3. /\ UNCHANGED <<passed, conn, backlog, server>> /\ child'[i] = "idle"
        /\ \A j \in Slots : j # i => child'[j] = child[j]
    BY <1>0, <1>11, <2>1 DEF Grow, Types
  <2>4. \A j \in Slots : Holds(j)' = Holds(j)
    BY <2>1, <2>2, <2>3 DEF Holds
  <2>5. QED
    BY <2>3, <2>4 DEF Pool!vars
<1>12. ASSUME NEW i \in Slots, ShrinkKill(i) PROVE [Pool!Next]_(Pool!vars)
  <2>1. /\ ~busy[i] /\ child'[i] = "none" /\ UNCHANGED <<backlog, server>>
        /\ \A j \in Slots : j # i =>
              child'[j] = child[j] /\ conn'[j] = conn[j] /\ passed'[j] = passed[j]
    BY <1>0, <1>12 DEF ShrinkKill, First, Ahead, Types
  <2>2. Holds(i) = NoClient /\ Holds(i)' = NoClient
    BY <2>1, HoldsFacts DEF Holds
  <2>3. \A j \in Slots : j # i => Holds(j)' = Holds(j)
    BY <2>1 DEF Holds
  <2>4. QED
    BY <2>1, <2>2, <2>3 DEF Pool!vars
<1>13. QED
  BY <1>3, <1>4, <1>5, <1>6, <1>7, <1>8, <1>9, <1>10, <1>11, <1>12
     DEF Next, ParentStep, ChildStep, Environment, Exited, Enough, Full, NoSlot, Select,
         Timeout, ShrinkDone, ShrinkSelf, AcceptForDead, NoneAvailable, CallFails, ReadByte,
         vars, children

\* Whatever the parent believes, and however it grows and shrinks the pool, a connection
\* it accepts goes to one child that has no other, the oldest connection first.
THEOREM PoolDispatches == Spec => ImplementsDispatch
<1>1. Init => Serving /\ Pool!Init
  <2> SUFFICES ASSUME Init PROVE Serving /\ Pool!Init
    OBVIOUS
  <2>1. Serving
    BY DEF Init, Serving
  <2>2. \A i \in Slots : Holds(i) = NoClient
    BY DEF Init, Holds
  <2>3. QED
    BY <2>1, <2>2 DEF Init, Pool!Init
<1>2. IInv /\ Serving /\ [Next]_vars => Serving'
  BY ServingStep
<1>3. IInv /\ Serving /\ [Next]_vars => [Pool!Next]_(Pool!vars)
  BY PoolStepRefines
<1>4. QED
  BY <1>1, <1>2, <1>3, Inductive, PTL DEF Spec, ImplementsDispatch, Pool!Spec

-----------------------------------------------------------------------------
(***************************************************************************)
(* Proofs about Retransmit, for any modulus of the sequence numbers, any   *)
(* lifetime of datagrams up to it and any number of lines: an answer is    *)
(* taken for the transmission it answers and no other, and so adv_dg_cli() *)
(* implements RequestReply.                                                *)
(*                                                                         *)
(* The argument: a datagram in flight is younger than Lifetime             *)
(* transmissions (Fresh), hence one whose number equals the current one    *)
(* modulo SeqMod is of the current transmission (ModEqual), which carries  *)
(* the current line (Owner).                                               *)
(***************************************************************************)
InFlight == requests \union replies

Retries == pc # "gaveup" => nrexmt <= MAXNREXMT

Lines ==
    line = Len(printed) + (IF pc \in {"read", "eof"} THEN 0 ELSE 1)

Fresh == \A d \in InFlight : d.attempt <= attempt /\ Alive(d)

Owner ==
    pc \in {"armed", "wait", "got"} =>
        \A d \in InFlight : d.attempt = attempt => d.line = line

Accepted == pc = "got" => reply.attempt = attempt /\ reply.line = line

AdvIInv == AdvTypeOK /\ Retries /\ Lines /\ Fresh /\ Owner /\ Accepted

-----------------------------------------------------------------------------
(* Arithmetic.                                                             *)

\* Two numbers closer than m that agree modulo m are the same.
LEMMA ModEqual ==
    ASSUME NEW m \in Nat \ {0}, NEW a \in Nat, NEW b \in Nat,
           a <= b, b - a < m, a % m = b % m
    PROVE  a = b
<1>1. a = (m * (a \div m)) + (a % m) /\ b = (m * (b \div m)) + (b % m)
  OBVIOUS
<1> DEFINE k == (b \div m) - (a \div m)
<1>2. k \in Int /\ b - a = m * k
  BY <1>1
<1>3. CASE k >= 1
  <2>1. m * k >= m
    BY <1>2, <1>3
  <2>2. QED
    BY <1>2, <2>1
<1>4. CASE k <= 0
  <2>1. m * k <= 0
    BY <1>2, <1>4
  <2>2. QED
    BY <1>2, <2>1
<1>5. QED
  BY <1>2, <1>3, <1>4

LEMMA RtoNat == \A s, v \in Int : RtoCalc(s, v) \in Nat
  BY DEF RtoCalc, MinMax, RXTMIN, RXTMAX, Second

\* The estimators stay natural numbers: each moves a fraction of the way.
LEMMA EstimatorsNat ==
    ASSUME srtt \in Nat, rttvar \in Nat, delay \in Nat, RttStop
    PROVE  srtt' \in Nat /\ rttvar' \in Nat /\ rto' \in Nat
<1> DEFINE error == delay - srtt
<1>1. srtt + (error \div 8) \in Nat
  OBVIOUS
<1>2. Abs(error) \in Nat
  BY DEF Abs
<1>3. rttvar + ((Abs(error) - rttvar) \div 4) \in Nat
  BY <1>2
<1>4. QED
  BY <1>1, <1>3, RtoNat DEF RttStop

\* What Matches accepts (71) is the answer to the current transmission.
LEMMA MatchIsCurrent ==
    ASSUME AdvIInv, NEW d \in replies, Matches(d)
    PROVE  d.attempt = attempt
<1>1. /\ d.attempt \in Nat /\ attempt \in Nat
      /\ d.attempt <= attempt /\ attempt - d.attempt < SeqMod
  BY SeqAssumption DEF AdvIInv, AdvTypeOK, Fresh, InFlight, Alive, Datagrams
<1>2. QED
  BY <1>1, ModEqual, SeqAssumption DEF Matches

-----------------------------------------------------------------------------
(* The invariant.                                                          *)

LEMMA AdvInvInit == AdvInit => AdvIInv
<1> SUFFICES ASSUME AdvInit PROVE AdvIInv
  OBVIOUS
<1>1. srtt \in Nat /\ rttvar \in Nat
  BY DEF AdvInit, Second
<1>2. AdvTypeOK
  BY <1>1, RtoNat, LinesAssumption DEF AdvInit, AdvTypeOK, NoReply, Datagrams, MAXNREXMT
<1>3. QED
  BY <1>2 DEF AdvInit, AdvIInv, Retries, Lines, Fresh, Owner, Accepted, InFlight, MAXNREXMT

LEMMA CallStep == AdvIInv /\ Call => AdvIInv'
  BY LinesAssumption
     DEF AdvIInv, AdvTypeOK, Retries, Lines, Fresh, Owner, Accepted, InFlight, Alive,
         Call, net, MAXNREXMT

LEMMA SendStep == AdvIInv /\ SendAgain => AdvIInv'
<1> SUFFICES ASSUME AdvIInv, SendAgain PROVE AdvIInv'
  OBVIOUS
<1> DEFINE new == [attempt |-> attempt', line |-> line]
<1>1. /\ attempt \in Nat /\ attempt' = attempt + 1
      /\ line \in Nat /\ line' = line
  BY LinesAssumption DEF AdvIInv, AdvTypeOK, SendAgain
<1>2. /\ requests' \subseteq requests \union {new}
      /\ replies' \subseteq replies
      /\ \A d \in InFlight' : d \in InFlight \/ d = new
  BY DEF SendAgain, InFlight
<1>3. \A d \in InFlight : d.attempt \in Nat /\ d.attempt <= attempt
  BY DEF AdvIInv, AdvTypeOK, Fresh, InFlight, Datagrams
<1>4. \A d \in InFlight' : d.attempt <= attempt' /\ Alive(d)'
  <2> SUFFICES ASSUME NEW d \in InFlight' PROVE d.attempt <= attempt' /\ Alive(d)'
    OBVIOUS
  <2>1. CASE d = new
    BY <1>1, <2>1, SeqAssumption DEF Alive
  <2>2. CASE d # new
    BY <1>1, <1>2, <1>3, <2>2 DEF SendAgain, InFlight
  <2>3. QED
    BY <2>1, <2>2
<1>5. \A d \in InFlight' : d.attempt = attempt' => d.line = line'
  BY <1>1, <1>2, <1>3
<1>6. new \in Datagrams
  BY <1>1 DEF Datagrams
<1>7. RttStart \in Nat
  BY DEF RttStart, Second, AdvIInv, AdvTypeOK
<1>8. AdvTypeOK'
  BY <1>1, <1>2, <1>6, <1>7 DEF AdvIInv, AdvTypeOK, SendAgain, rtt
<1>9. QED
  BY <1>4, <1>5, <1>8
     DEF AdvIInv, Retries, Lines, Fresh, Owner, Accepted, SendAgain, rtt

LEMMA ReceiveStep == AdvIInv /\ Receive => AdvIInv'
<1> SUFFICES ASSUME AdvIInv, Receive PROVE AdvIInv'
  OBVIOUS
<1>1. PICK d \in replies, t \in Delays : Matches(d) /\ reply' = d /\ delay' = t
  BY DEF Receive
<1>2. d.attempt = attempt /\ d.line = line
  BY <1>1, MatchIsCurrent DEF AdvIInv, Owner, InFlight, Receive
<1>3. AdvTypeOK'
  BY <1>1, LinesAssumption DEF AdvIInv, AdvTypeOK, Receive, rtt, net
<1>4. QED
  BY <1>1, <1>2, <1>3
     DEF AdvIInv, Retries, Lines, Fresh, Owner, Accepted, InFlight, Alive, Receive, rtt, net

LEMMA ReturnStep == AdvIInv /\ Return => AdvIInv'
<1> SUFFICES ASSUME AdvIInv, Return PROVE AdvIInv'
  OBVIOUS
<1>1. reply.line = line /\ line = Len(printed) + 1 /\ printed \in Seq(1..MaxLines)
  BY DEF AdvIInv, AdvTypeOK, Lines, Accepted, Return
<1>2. line \in 1..MaxLines
  BY <1>1 DEF AdvIInv, AdvTypeOK
<1>3. printed' \in Seq(1..MaxLines) /\ Len(printed') = Len(printed) + 1
  BY <1>1, <1>2 DEF Return
<1>4. srtt' \in Nat /\ rttvar' \in Nat /\ rto' \in Nat
  BY EstimatorsNat DEF AdvIInv, AdvTypeOK, Return
<1>5. AdvTypeOK'
  BY <1>3, <1>4 DEF AdvIInv, AdvTypeOK, Return, net
<1>6. QED
  BY <1>1, <1>3, <1>5
     DEF AdvIInv, Retries, Lines, Fresh, Owner, Accepted, InFlight, Alive, Return, net

LEMMA AlarmStep == AdvIInv /\ Alarm => AdvIInv'
<1> SUFFICES ASSUME AdvIInv, Alarm PROVE AdvIInv'
  OBVIOUS
<1>1. /\ pc \in {"armed", "wait", "got"} /\ pc' \in {"gaveup", "send"}
      /\ nrexmt' \in 0..(MAXNREXMT + 1)
      /\ pc' # "gaveup" => nrexmt' <= MAXNREXMT
  BY DEF AdvIInv, AdvTypeOK, Retries, Alarm, RttTimeout, MAXNREXMT
<1>2. AdvTypeOK'
  BY <1>1 DEF AdvIInv, AdvTypeOK, Alarm, RttTimeout, net, NoReply, Datagrams
<1>3. QED
  BY <1>1, <1>2
     DEF AdvIInv, Retries, Lines, Fresh, Owner, Accepted, InFlight, Alive, Alarm, net

LEMMA EchoStep == AdvIInv /\ Echo => AdvIInv'
<1> SUFFICES ASSUME AdvIInv, Echo PROVE AdvIInv'
  OBVIOUS
<1>1. InFlight' = InFlight /\ replies' \subseteq Datagrams
  BY DEF AdvIInv, AdvTypeOK, Echo, InFlight
<1>2. QED
  BY <1>1
     DEF AdvIInv, AdvTypeOK, Retries, Lines, Fresh, Owner, Accepted, Alive, Echo, rtt

LEMMA AdvInvStep == AdvIInv /\ [AdvNext]_adv_vars => AdvIInv'
<1> SUFFICES ASSUME AdvIInv, [AdvNext]_adv_vars PROVE AdvIInv'
  OBVIOUS
<1>1. CASE SetJmp \/ EndOfFile \/ AlarmTooEarly
  BY <1>1
     DEF AdvIInv, AdvTypeOK, Retries, Lines, Fresh, Owner, Accepted, InFlight, Alive,
         SetJmp, EndOfFile, AlarmTooEarly, rtt, net
<1>2. CASE UNCHANGED adv_vars
  BY <1>2
     DEF AdvIInv, AdvTypeOK, Retries, Lines, Fresh, Owner, Accepted, InFlight, Alive,
         adv_vars, rtt, net
<1>3. QED
  BY <1>1, <1>2, CallStep, SendStep, ReceiveStep, ReturnStep, AlarmStep, EchoStep
     DEF AdvNext, ClientStep

LEMMA AdvInductive == AdvSpec => []AdvIInv
  BY AdvInvInit, AdvInvStep, PTL DEF AdvSpec

-----------------------------------------------------------------------------
(* The results.                                                            *)

\* The state keeps its type: at most four timeouts per call, and nothing is printed
\* that is not the number of a line read.
THEOREM AdvTyping == AdvSpec => []AdvTypeOK
<1>1. AdvIInv => AdvTypeOK
  BY DEF AdvIInv
<1>2. QED
  BY <1>1, AdvInductive, PTL

\* The round trip that rtt_stop() is given is that of the last transmission, for
\* any modulus at least as large as the lifetime of a datagram.
THEOREM SampleRight == AdvSpec => []SampleOfThisTransmission
<1>1. AdvIInv => SampleOfThisTransmission
  BY DEF AdvIInv, Accepted, SampleOfThisTransmission
<1>2. QED
  BY <1>1, AdvInductive, PTL

-----------------------------------------------------------------------------
(* The timer.  rtt_stop() brings the timeout back within its limits before *)
(* rtt_newpack() forgets how often it was doubled.                         *)

Backoff ==
    /\ pc = "read" => RXTMIN * Second <= rto /\ rto <= RXTMAX * Second
    /\ RXTMIN * Second <= rto /\ rto <= RXTMAX * Second * 2^nrexmt

TimerInv == Backoff /\ TimerBounded

LEMMA Powers ==
    /\ \A n \in 0..(MAXNREXMT + 1) : 2^n \in Nat /\ 2^n >= 1
    /\ \A n \in 0..MAXNREXMT : 2^(n + 1) = 2 * 2^n
<1>1. 2^0 = 1 /\ 2^1 = 2 /\ 2^2 = 4 /\ 2^3 = 8 /\ 2^4 = 16
  OBVIOUS
<1>2. ASSUME NEW n \in 0..(MAXNREXMT + 1) PROVE 2^n \in Nat /\ 2^n >= 1
  <2>1. n = 0 \/ n = 1 \/ n = 2 \/ n = 3 \/ n = 4
    BY DEF MAXNREXMT
  <2>2. 2^n = 1 \/ 2^n = 2 \/ 2^n = 4 \/ 2^n = 8 \/ 2^n = 16
    BY <1>1, <2>1
  <2>3. QED
    BY <2>2
<1>3. ASSUME NEW n \in 0..MAXNREXMT PROVE 2^(n + 1) = 2 * 2^n
  <2>1. \/ n = 0 /\ n + 1 = 1
        \/ n = 1 /\ n + 1 = 2
        \/ n = 2 /\ n + 1 = 3
        \/ n = 3 /\ n + 1 = 4
    BY DEF MAXNREXMT
  <2>2. \/ 2^n = 1 /\ 2^(n + 1) = 2
        \/ 2^n = 2 /\ 2^(n + 1) = 4
        \/ 2^n = 4 /\ 2^(n + 1) = 8
        \/ 2^n = 8 /\ 2^(n + 1) = 16
    BY <1>1, <2>1, Zenon
  <2>3. QED
    BY <2>2
<1>4. QED
  BY <1>2, <1>3

LEMMA RtoInLimits ==
    \A s, v \in Int :
        RXTMIN * Second <= RtoCalc(s, v) /\ RtoCalc(s, v) <= RXTMAX * Second
  BY DEF RtoCalc, MinMax, RXTMIN, RXTMAX, Second

LEMMA TimerInit == AdvInit => TimerInv
<1> SUFFICES ASSUME AdvInit PROVE TimerInv
  OBVIOUS
<1>1. RXTMIN * Second <= rto /\ rto <= RXTMAX * Second
  <2>1. srtt \in Int /\ rttvar \in Int
    BY DEF AdvInit, Second
  <2>2. QED
    BY <2>1, RtoInLimits DEF AdvInit
<1>2. 2^nrexmt = 1
  BY DEF AdvInit
<1>3. QED
  BY <1>1, <1>2 DEF AdvInit, TimerInv, Backoff, TimerBounded, RXTMAX, Second, RtoCalc, MinMax, RXTMIN

\* alarm() is given the timeout in whole seconds (rtt_lib.c's rtt_start()).
LEMMA SendTimer == AdvIInv /\ TimerInv /\ SendAgain => TimerInv'
<1> SUFFICES ASSUME AdvIInv, TimerInv, SendAgain PROVE TimerInv'
  OBVIOUS
<1>1. rto' = rto /\ nrexmt' = nrexmt /\ timer' = (rto + 32) \div 64 /\ pc' = "armed"
  BY DEF SendAgain, rtt, RttStart, Second
<1> DEFINE p == 2^nrexmt
<1>2. p \in Nat /\ rto \in Nat /\ 128 <= rto /\ rto <= 3840 * p
  BY Powers DEF AdvIInv, AdvTypeOK, TimerInv, Backoff, RXTMIN, RXTMAX, Second
<1> HIDE DEF p
<1>3. 2 <= (rto + 32) \div 64 /\ (rto + 32) \div 64 <= 60 * p
  BY <1>2
<1>4. QED
  BY <1>1, <1>2, <1>3 DEF TimerInv, Backoff, TimerBounded, RXTMIN, RXTMAX, Second, p

LEMMA AlarmTimer == AdvIInv /\ TimerInv /\ Alarm => TimerInv'
<1> SUFFICES ASSUME AdvIInv, TimerInv, Alarm PROVE TimerInv'
  OBVIOUS
<1>1. rto' = 2 * rto /\ nrexmt' = nrexmt + 1 /\ pc' \in {"gaveup", "send"}
  BY DEF Alarm, RttTimeout
<1>2. nrexmt \in 0..MAXNREXMT
  BY DEF AdvIInv, AdvTypeOK, Retries, Alarm, MAXNREXMT
<1> DEFINE p == 2^nrexmt
<1>3. 2^nrexmt' = 2 * p
  BY <1>1, <1>2, Powers
<1>4. p \in Nat /\ rto \in Nat /\ 128 <= rto /\ rto <= 3840 * p
  BY Powers DEF AdvIInv, AdvTypeOK, TimerInv, Backoff, RXTMIN, RXTMAX, Second
<1> HIDE DEF p
<1>5. 128 <= 2 * rto /\ 2 * rto <= 3840 * (2 * p)
  BY <1>4
<1>6. QED
  BY <1>1, <1>3, <1>5 DEF TimerInv, Backoff, TimerBounded, RXTMIN, RXTMAX, Second

LEMMA ReturnTimer == AdvIInv /\ TimerInv /\ Return => TimerInv'
<1> SUFFICES ASSUME AdvIInv, TimerInv, Return PROVE TimerInv'
  OBVIOUS
<1>1. 128 <= rto' /\ rto' <= 3840 /\ rto' \in Int
  BY EstimatorsNat, RtoInLimits DEF AdvIInv, AdvTypeOK, Return, RttStop, RXTMIN, RXTMAX, Second
<1> DEFINE p == 2^nrexmt
<1>2. p \in Nat /\ p >= 1 /\ nrexmt' = nrexmt /\ pc' = "read"
  BY Powers DEF AdvIInv, AdvTypeOK, Return
<1> HIDE DEF p
<1>3. rto' <= 3840 * p
  BY <1>1, <1>2
<1>4. QED
  BY <1>1, <1>2, <1>3 DEF TimerInv, Backoff, TimerBounded, RXTMIN, RXTMAX, Second, p

LEMMA CallTimer == AdvIInv /\ TimerInv /\ Call => TimerInv'
<1> SUFFICES ASSUME AdvIInv, TimerInv, Call PROVE TimerInv'
  OBVIOUS
<1>1. rto' = rto /\ nrexmt' = 0 /\ pc' = "send"
  BY DEF Call
<1>2. 2^nrexmt' = 1
  BY <1>1
<1>3. rto \in Nat /\ 128 <= rto /\ rto <= 3840
  BY DEF AdvIInv, AdvTypeOK, TimerInv, Backoff, Call, RXTMIN, RXTMAX, Second
<1>4. QED
  BY <1>1, <1>2, <1>3 DEF TimerInv, Backoff, TimerBounded, RXTMIN, RXTMAX, Second

LEMMA TimerStep == AdvIInv /\ TimerInv /\ [AdvNext]_adv_vars => TimerInv'
<1> SUFFICES ASSUME AdvIInv, TimerInv, [AdvNext]_adv_vars PROVE TimerInv'
  OBVIOUS
<1>1. CASE SetJmp \/ EndOfFile \/ AlarmTooEarly \/ Receive \/ Echo
  BY <1>1 DEF TimerInv, Backoff, TimerBounded,
              SetJmp, EndOfFile, AlarmTooEarly, Receive, Echo, rtt
<1>2. CASE UNCHANGED adv_vars
  BY <1>2 DEF TimerInv, Backoff, TimerBounded, adv_vars, rtt
<1>3. QED
  BY <1>1, <1>2, CallTimer, SendTimer, ReturnTimer, AlarmTimer DEF AdvNext, ClientStep

\* The timer that recvmsg() waits with is never 0, and each retransmission at most doubles
\* the maximum.
THEOREM TimerInBounds == AdvSpec => []TimerBounded
<1>1. TimerInv => TimerBounded
  BY DEF TimerInv
<1>2. QED
  BY <1>1, TimerInit, TimerStep, AdvInductive, PTL DEF AdvSpec

-----------------------------------------------------------------------------
(* The refinement.                                                         *)

LEMMA StepRefines ==
    AdvIInv /\ [AdvNext]_adv_vars => [Abstract!Next]_<<line, printed, IF Over THEN "over" ELSE "run">>
<1> SUFFICES ASSUME AdvIInv, [AdvNext]_adv_vars
             PROVE  \/ Abstract!Next
                    \/ line' = line /\ printed' = printed /\ Over' = Over
  BY DEF Over
<1>1. CASE Call
  <2>1. Abstract!Ask
    BY <1>1, LinesAssumption
       DEF AdvIInv, AdvTypeOK, Lines, Call, Over, Abstract!Ask, Abstract!Waiting
  <2>2. QED
    BY <2>1 DEF Abstract!Next
<1>2. CASE Return
  <2>1. Abstract!Answer
    BY <1>2 DEF AdvIInv, Lines, Accepted, Return, Over, Abstract!Answer, Abstract!Waiting
  <2>2. QED
    BY <2>1 DEF Abstract!Next
<1>3. CASE EndOfFile \/ AlarmTooEarly
  <2>1. Abstract!Finish
    BY <1>3 DEF EndOfFile, AlarmTooEarly, Over, Abstract!Finish
  <2>2. QED
    BY <2>1 DEF Abstract!Next
<1>4. CASE Alarm
  <2>1. CASE pc' = "gaveup"
    <3>1. Abstract!Finish
      BY <1>4, <2>1 DEF Alarm, Over, Abstract!Finish
    <3>2. QED
      BY <3>1 DEF Abstract!Next
  <2>2. CASE pc' = "send"
    BY <1>4, <2>2 DEF Alarm, Over
  <2>3. QED
    BY <1>4, <2>1, <2>2 DEF Alarm
<1>5. CASE SendAgain \/ SetJmp \/ Receive \/ Echo
  BY <1>5 DEF SendAgain, SetJmp, Receive, Echo, Over
<1>6. CASE UNCHANGED adv_vars
  BY <1>6 DEF adv_vars, Over
<1>7. QED
  BY <1>1, <1>2, <1>3, <1>4, <1>5, <1>6 DEF AdvNext, ClientStep

\* Whatever the network delays, doubles, loses or reorders, the lines printed are
\* those read, in order, each the answer to its own request.
THEOREM Implements == AdvSpec => ImplementsRequestReply
<1>1. AdvInit => Abstract!Init
  BY DEF AdvInit, Abstract!Init, Over
<1>2. AdvIInv /\ [AdvNext]_adv_vars => [Abstract!Next]_<<line, printed, IF Over THEN "over" ELSE "run">>
  BY StepRefines
<1>3. QED
  BY <1>1, <1>2, AdvInductive, PTL DEF AdvSpec, ImplementsRequestReply, Abstract!Spec
=============================================================================
