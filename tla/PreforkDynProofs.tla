--------------------------- MODULE PreforkDynProofs ---------------------------
(***************************************************************************)
(* Proofs about PreforkDyn, for any limits of the pool, any number of      *)
(* clients and any size of the pipes; the last part is about AcceptRing.   *)
(*                                                                         *)
(* The children that have not left are counted twice: in nchildren, which  *)
(* parent and children change under the lock, and by the parent in its     *)
(* table.  Count says what nchildren is late by, at every place of the     *)
(* parent; Table, that the table misses only the child that is being made; *)
(* Bytes, that what a pipe of v01 still holds says what its child is doing *)
(* now, so that nconn is, but for crashes, the number of busy children.    *)
(* Losses charges every difference to a crash: lost only grows.            *)
(*                                                                         *)
(* The parent finds no slot only if all are taken while nchildren is below *)
(* its maximum: by counting, some child has left and is still in its slot. *)
(***************************************************************************)
EXTENDS PreforkDyn, AcceptRing, FiniteSetTheorems, SequenceTheorems, TLAPS

USE DEF InSigInt

Working == parent \notin InSigInt /\ ended # "quit"
Growing == parent \in {"forked", "stored"}

\* The lock goes with the parent's place in child_make(), and nchildren stays in its bounds.
Control ==
    /\ MinConn <= nchildren /\ nchildren <= MaxConn
    /\ Growing => at \in Slots /\ nchildren < MaxConn /\ kind # "v03"
    /\ parent = "stored" => kind = "v02"
    /\ parent = "grow" => kind = "v01"
    /\ parent \notin InSigInt => (locked <=> parent \in {"grow", "forked", "stored"})
    /\ parent = "prefork" =>
         nchildren = MinConn /\ at <= MinConn /\ \A i \in Slots : i >= at => child[i] = "none"
    /\ kind = "v01" => ~sigchld /\ \A i \in Slots : child[i] # "leaving"

\* nchildren is late by the child that is being made.
Reckoned == IF parent = "prefork" THEN at ELSE IF Growing THEN nchildren + 1 ELSE nchildren
Count == Working => Cardinality(Staying) + lost = Reckoned

\* The parent's table has the children that there are, but for the one it is making; it
\* has learnt of none that it has not itself removed.
Filling(i) == Growing /\ i = at
Table ==
    /\ Growing => child[at] \notin {"leaving", "left"}
    /\ parent = "forked" => child[at] # "none"
    /\ kind = "v01" =>
         /\ Growing => at \notin known
         /\ \A i \in known : child[i] # "none"
         /\ \A i \in Slots \ known : status[i] = 0 /\ (~Filling(i) => child[i] = "none")
    /\ kind # "v01" => \A i \in Slots : status[i] = 0 /\ ~Filling(i) => child[i] = "none"

\* What the parent of v01 will believe of child i when it has read its pipe.
Latest(i) == IF pipe[i] = <<>> THEN status[i] = 1 ELSE pipe[i][Len(pipe[i])] = "1"
Bytes ==
    kind = "v01" =>
      /\ parent = "lock" => rset \subseteq known /\ \A i \in rset : pipe[i] # <<>> \/ child[i] \in Gone
      /\ parent # "lock" /\ Working => rset = {}
      /\ \A i \in Slots : child[i] \in {"accept", "unarmed", "timeout", "left", "taken"} => ~Latest(i)

\* Slots a crash has cost: the end of a child is not yet noticed, or (v02) it was noticed
\* before the status of the new child was stored.
Crashed == {i \in Slots : child[i] = "crashed"}
Busy == {i \in Slots : status[i] = 1}
Forgotten == {i \in Slots : child[i] = "none" /\ (status[i] = 1 \/ (parent = "stored" /\ i = at))}
Losses ==
    /\ kind = "v01" =>
         Cardinality(Busy) <= nconn /\ (nconn - Cardinality(Busy)) + Cardinality(Crashed) <= lost
    /\ kind # "v01" /\ Working => Cardinality(Crashed \union Forgotten) <= lost

IInv == TypeOK /\ Control /\ Count /\ (Working => Table) /\ Bytes /\ Losses /\ ShortageIsRace

-----------------------------------------------------------------------------
(* Sets of slots.                                                          *)

LEMMA SlotsFinite == IsFiniteSet(Slots) /\ Cardinality(Slots) = MaxConn /\ Slots \subseteq Nat
  BY FS_Interval, LimitsAssumption DEF Slots

LEMMA Finite ==
    ASSUME NEW S \in SUBSET Slots
    PROVE  IsFiniteSet(S) /\ Cardinality(S) \in Nat /\ Cardinality(S) <= MaxConn
  BY SlotsFinite, FS_Subset, FS_CardinalityType

LEMMA Smaller ==
    ASSUME NEW S \in SUBSET Slots, NEW T \in SUBSET S
    PROVE  Cardinality(T) <= Cardinality(S)
  BY Finite, FS_Subset

LEMMA OneMore ==
    ASSUME NEW S \in SUBSET Slots, NEW i \in Slots \ S
    PROVE  Cardinality(S \union {i}) = Cardinality(S) + 1
  BY Finite, FS_AddElement

LEMMA OneLess ==
    ASSUME NEW S \in SUBSET Slots, NEW i \in S
    PROVE  Cardinality(S \ {i}) = Cardinality(S) - 1
  BY Finite, FS_RemoveElement

\* Cardinalities of disjoint sets add up.
LEMMA Apart ==
    ASSUME NEW S \in SUBSET Slots, NEW T \in SUBSET Slots, S \intersect T = {}
    PROVE  Cardinality(S \union T) = Cardinality(S) + Cardinality(T)
<1>1. IsFiniteSet(S) /\ IsFiniteSet(T) /\ Cardinality(S) \in Nat /\ Cardinality(T) \in Nat
  BY Finite
<1>2. Cardinality(S \union T) = Cardinality(S) + Cardinality(T) - Cardinality(S \intersect T)
  BY <1>1, FS_Union
<1>3. Cardinality(S \intersect T) = 0
  BY FS_EmptySet
<1>4. QED
  BY <1>1, <1>2, <1>3

\* A child counts until it has left, crashed or said that it leaves.
Here(x) == x \notin {"none", "left", "crashed", "leaving"}

LEMMA StayingIs == Staying = {i \in Slots : Here(child[i])}
  BY DEF Staying, Alive, Gone, Here

LEMMA StayingMoves ==
    ASSUME TypeOK, NEW i \in Slots, NEW x, child' = [child EXCEPT ![i] = x]
    PROVE  /\ (Here(x) <=> Here(child[i])) => Cardinality(Staying)' = Cardinality(Staying)
           /\ Here(x) /\ ~Here(child[i]) => Cardinality(Staying)' = Cardinality(Staying) + 1
           /\ ~Here(x) /\ Here(child[i]) => Cardinality(Staying)' = Cardinality(Staying) - 1
<1>1. child'[i] = x /\ \A j \in Slots \ {i} : child'[j] = child[j]
  BY DEF TypeOK
<1>2. Staying \in SUBSET Slots /\ (i \in Staying <=> Here(child[i]))
  BY StayingIs
<1>3. Staying' = {j \in Slots : Here(child'[j])}
  BY DEF Staying, Alive, Gone, Here
<1>4. Staying' = IF Here(x) THEN Staying \union {i} ELSE Staying \ {i}
  BY <1>1, <1>3, StayingIs
<1>5. CASE Here(x) <=> Here(child[i])
  <2>1. Staying' = Staying
    BY <1>2, <1>4, <1>5
  <2>2. QED
    BY <1>5, <2>1
<1>6. CASE Here(x) /\ ~Here(child[i])
  BY <1>2, <1>4, <1>6, OneMore
<1>7. CASE ~Here(x) /\ Here(child[i])
  BY <1>2, <1>4, <1>7, OneLess
<1>8. QED
  BY <1>5, <1>6, <1>7

LEMMA CrashedMoves ==
    ASSUME TypeOK, NEW i \in Slots, child[i] # "crashed", NEW x, child' = [child EXCEPT ![i] = x]
    PROVE  /\ x # "crashed" => Crashed' = Crashed
           /\ x = "crashed" => Crashed' = Crashed \union {i} /\ i \notin Crashed
<1>1. child'[i] = x /\ \A j \in Slots \ {i} : child'[j] = child[j]
  BY DEF TypeOK
<1>2. QED
  BY <1>1 DEF Crashed

-----------------------------------------------------------------------------
(* A child takes a step.                                                   *)

States == {"left", "crashed", "free", "accept", "unarmed", "timeout", "leaving", "taken", "busy"}

\* What changes with the step of the child in slot i that is in x after it.
Moved(i, x) ==
    /\ Running /\ child[i] \notin {"none", "left", "crashed"} /\ x \in States
    /\ child' = [child EXCEPT ![i] = x]
    /\ UNCHANGED <<kind, parent, locked, stray, rset, nsel, deep, at, known, status, nconn, ended>>

\* How it changes the numbers: it goes on, ends having said so, says so, or crashes.
Numbers(i, x) ==
    \/ Here(x) /\ Here(child[i]) /\ nchildren' = nchildren /\ lost' = lost
    \/ x = "left" /\ child[i] = "leaving" /\ nchildren' = nchildren /\ lost' = lost
    \/ /\ x = (IF kind = "v02" THEN "leaving" ELSE "left") /\ Here(child[i]) /\ ~locked
       /\ nchildren > MinConn /\ nchildren' = nchildren - 1 /\ lost' = lost
    \/ x = "crashed" /\ Here(child[i]) /\ nchildren' = nchildren /\ lost' = lost + 1

Writing(i) ==
    \/ pipe' = pipe
    \/ Len(pipe[i]) < PipeSize /\ \E byte \in {"0", "1"} : pipe' = [pipe EXCEPT ![i] = Append(@, byte)]

LEMMA MoveKeeps ==
  ASSUME IInv, NEW i \in Slots, NEW x, Moved(i, x), Numbers(i, x), Writing(i),
         sigchld' \in BOOLEAN, kind = "v01" => ~sigchld', backlog' \in 0..NClients,
         kind = "v01" /\ x \in {"accept", "unarmed", "timeout", "left", "taken"} => ~Latest(i)'
  PROVE  IInv'
<1>1. /\ UNCHANGED <<kind, parent, locked, stray, rset, nsel, deep, at, known, status, nconn>>
      /\ ended' = ended /\ ended = "no"
  BY DEF Moved, Running
<1>2. child[i] \notin {"none", "left", "crashed"} /\ x \in States /\ child' = [child EXCEPT ![i] = x]
  BY DEF Moved
<1>3. TypeOK /\ child'[i] = x /\ \A j \in Slots \ {i} : child'[j] = child[j]
  BY <1>2 DEF IInv, TypeOK
<1>4. nchildren \in Nat /\ lost \in Nat /\ MinConn \in Nat /\ MaxConn \in Nat /\ at \in Nat
  <2>1. nchildren \in Nat /\ lost \in Nat /\ at \in 0..MaxConn
    BY <1>3 DEF TypeOK
  <2>2. MinConn \in Nat /\ MaxConn \in Nat
    BY LimitsAssumption
  <2>3. QED
    BY <2>1, <2>2
<1>5. Writing(i) => /\ pipe' \in [Slots -> Seq({"0", "1"})] /\ \A j \in Slots : Len(pipe'[j]) <= PipeSize
                    /\ \A j \in Slots \ {i} : pipe'[j] = pipe[j]
                    /\ pipe[i] # <<>> => pipe'[i] # <<>>
  <2>1. pipe \in [Slots -> Seq({"0", "1"})] /\ \A j \in Slots : Len(pipe[j]) <= PipeSize
    BY <1>3 DEF TypeOK
  <2>2. ASSUME NEW byte \in {"0", "1"}, pipe' = [pipe EXCEPT ![i] = Append(@, byte)], Len(pipe[i]) < PipeSize
        PROVE  /\ pipe' \in [Slots -> Seq({"0", "1"})] /\ \A j \in Slots : Len(pipe'[j]) <= PipeSize
               /\ \A j \in Slots \ {i} : pipe'[j] = pipe[j]
               /\ pipe'[i] # <<>>
    <3>1. Append(pipe[i], byte) \in Seq({"0", "1"}) /\ Len(Append(pipe[i], byte)) = Len(pipe[i]) + 1
      BY <2>1
    <3>2. pipe'[i] = Append(pipe[i], byte) /\ \A j \in Slots \ {i} : pipe'[j] = pipe[j]
      BY <2>1, <2>2
    <3>3. Len(pipe[i]) \in Nat /\ PipeSize \in Nat
      BY <2>1, LimitsAssumption
    <3>4. Len(pipe'[i]) <= PipeSize /\ pipe'[i] # <<>>
      BY <2>2, <3>1, <3>2, <3>3
    <3>5. pipe' \in [Slots -> Seq({"0", "1"})]
      BY <2>1, <2>2, <3>1
    <3>6. QED
      BY <2>1, <3>2, <3>4, <3>5
  <2>3. QED
    BY <2>1, <2>2 DEF Writing
<1>6. /\ nchildren' \in Nat /\ lost' \in Nat /\ MinConn <= nchildren' /\ nchildren' <= nchildren
      /\ nchildren' # nchildren => nchildren > MinConn
  BY <1>3, <1>4 DEF Numbers, IInv, Control
<1>7. TypeOK'
  <2>1. child' \in [Slots -> Gone \union {"none", "free", "accept", "unarmed", "timeout", "leaving",
                                        "taken", "busy"}]
    BY <1>2, <1>3 DEF TypeOK, States, Gone
  <2>2. QED
    BY <1>1, <1>3, <1>5, <1>6, <2>1 DEF TypeOK
<1>8. Control'
  <2>1. Control
    BY DEF IInv
  <2>2. nchildren' <= MaxConn /\ (nchildren < MaxConn => nchildren' < MaxConn)
    BY <1>4, <1>6, <2>1 DEF Control
  <2>3. parent = "prefork" => nchildren' = MinConn /\ \A j \in Slots : j >= at => child'[j] = "none"
    BY <1>2, <1>3, <1>4, <1>6, <2>1 DEF Control
  <2>4. kind = "v01" => x # "leaving"
    BY DEF Numbers, Here
  <2>5. kind = "v01" => \A j \in Slots : child'[j] # "leaving"
    BY <1>3, <2>1, <2>4 DEF Control
  <2>6. QED
    BY <1>1, <1>6, <2>1, <2>2, <2>3, <2>5 DEF Control, Growing
<1>9. Count'
  <2>1. SUFFICES ASSUME Working PROVE Cardinality(Staying)' + lost' = Reckoned'
    BY <1>1 DEF Count, Working
  <2>2. Cardinality(Staying) + lost = Reckoned /\ Cardinality(Staying) \in Nat
    BY <2>1, Finite, StayingIs DEF IInv, Count
  <2>3. nchildren' # nchildren => ~locked /\ parent \notin {"prefork", "forked", "stored"}
    BY <1>1, <1>4, <2>1 DEF Numbers, IInv, Control, Working
  <2>4. /\ (Here(x) <=> Here(child[i])) => Cardinality(Staying)' = Cardinality(Staying)
        /\ ~Here(x) /\ Here(child[i]) => Cardinality(Staying)' = Cardinality(Staying) - 1
    BY <1>2, <1>3, StayingMoves
  <2>5. ~Here("leaving") /\ ~Here("left") /\ ~Here("crashed")
    BY DEF Here
  <2>6. Reckoned' + nchildren = Reckoned + nchildren'
    <3>1. CASE nchildren' = nchildren
      <4>1. Reckoned' = Reckoned /\ Reckoned \in Nat
        BY <1>1, <1>4, <3>1 DEF Reckoned, Growing
      <4>2. QED
        BY <1>4, <3>1, <4>1
    <3>2. CASE nchildren' # nchildren
      <4>1. Reckoned = nchildren /\ Reckoned' = nchildren'
        BY <1>1, <2>3, <3>2 DEF Reckoned, Growing
      <4>2. QED
        BY <1>4, <1>6, <4>1
    <3>3. QED
      BY <3>1, <3>2
  <2>7. Reckoned \in Nat /\ Reckoned' \in Nat
    <3>1. Reckoned = at \/ Reckoned = nchildren \/ Reckoned = nchildren + 1
      BY DEF Reckoned
    <3>2. Reckoned' = at' \/ Reckoned' = nchildren' \/ Reckoned' = nchildren' + 1
      BY DEF Reckoned
    <3>3. at' = at
      BY <1>1
    <3>4. QED
      BY <1>4, <1>6, <3>1, <3>2, <3>3
  <2>8. QED
    BY <1>4, <2>2, <2>4, <2>5, <2>6, <2>7 DEF Numbers
<1>10. Working' => Table'
  <2>1. SUFFICES ASSUME Working PROVE Table'
    BY <1>1 DEF Working
  <2>2. Table
    BY <2>1 DEF IInv
  <2>3. x \in {"leaving", "left"} => ~locked \/ child[i] = "leaving"
    BY DEF Numbers, Here
  <2>4. Growing => child'[at] \notin {"leaving", "left"}
    BY <1>3, <2>1, <2>2, <2>3 DEF Table, IInv, Control, Growing, Working
  <2>5. x # "none"
    BY <1>2 DEF States
  <2>6. \A j \in Slots : child'[j] = "none" <=> child[j] = "none"
    BY <1>2, <1>3, <2>5
  <2>7. known \subseteq Slots /\ (Growing => at \in Slots)
    BY <1>3 DEF TypeOK, IInv, Control
  <2>8. QED
    BY <1>1, <2>2, <2>4, <2>6, <2>7 DEF Table, Growing, Filling
<1>11. Bytes'
  <2>1. SUFFICES ASSUME kind = "v01" PROVE Bytes'
    BY <1>1 DEF Bytes
  <2>2. Bytes
    BY DEF IInv
  <2>3. rset \subseteq Slots
    BY <1>3 DEF TypeOK
  <2>4. parent = "lock" => \A j \in rset : pipe'[j] # <<>> \/ child'[j] \in Gone
    BY <1>2, <1>3, <1>5, <2>1, <2>2, <2>3 DEF Bytes, Gone
  <2>5. \A j \in Slots \ {i} : Latest(j)' <=> Latest(j)
    BY <1>1, <1>5 DEF Latest
  <2>6. \A j \in Slots : child'[j] \in {"accept", "unarmed", "timeout", "left", "taken"} => ~Latest(j)'
    BY <1>3, <2>1, <2>2, <2>5 DEF Bytes
  <2>7. QED
    BY <1>1, <2>1, <2>2, <2>4, <2>6 DEF Bytes, Working
<1>12. Losses'
  <2>1. Busy' = Busy
    BY <1>1 DEF Busy
  <2>2. \A j \in Slots : child'[j] = "none" <=> child[j] = "none"
    BY <1>2, <1>3 DEF States
  <2>3. Forgotten' = Forgotten
    BY <1>1, <2>2 DEF Forgotten
  <2>4. Crashed \in SUBSET Slots /\ Forgotten \in SUBSET Slots /\ Busy \in SUBSET Slots
    BY DEF Crashed, Forgotten, Busy
  <2>5. Cardinality(Crashed) \in Nat /\ Cardinality(Crashed \union Forgotten) \in Nat /\ Cardinality(Busy) \in Nat
    BY <2>4, Finite
  <2>6. nconn \in Nat
    BY <1>3 DEF TypeOK
  <2>7. CASE x # "crashed"
    <3>1. Crashed' = Crashed /\ lost' = lost
      BY <1>2, <1>3, <2>7, CrashedMoves DEF Numbers
    <3>2. QED
      BY <1>1, <2>1, <2>3, <3>1 DEF IInv, Losses, Working
  <2>8. CASE x = "crashed"
    <3>1. Crashed' = Crashed \union {i} /\ i \notin Crashed /\ i \notin Forgotten
      BY <1>2, <1>3, <2>8, CrashedMoves DEF Forgotten
    <3>2. lost' = lost + 1
      BY <2>8 DEF Numbers, Here
    <3>3. Cardinality(Crashed \union {i}) = Cardinality(Crashed) + 1
      BY <2>4, <3>1, OneMore
    <3>4. Cardinality((Crashed \union Forgotten) \union {i}) = Cardinality(Crashed \union Forgotten) + 1
      BY <2>4, <3>1, OneMore
    <3>5. Crashed' \union Forgotten' = (Crashed \union Forgotten) \union {i}
      BY <2>3, <3>1
    <3>6. kind = "v01" => Cardinality(Busy') <= nconn' /\ (nconn' - Cardinality(Busy')) + Cardinality(Crashed') <= lost'
      BY <1>1, <1>4, <2>1, <2>5, <2>6, <3>1, <3>2, <3>3 DEF IInv, Losses
    <3>7. kind # "v01" /\ Working => Cardinality(Crashed' \union Forgotten') <= lost'
      BY <1>1, <1>4, <2>5, <3>2, <3>4, <3>5 DEF IInv, Losses
    <3>8. QED
      BY <1>1, <3>6, <3>7 DEF Losses, Working
  <2>9. QED
    BY <2>7, <2>8
<1>13. ShortageIsRace'
  BY <1>1 DEF ShortageIsRace
<1>14. QED
  BY <1>7, <1>8, <1>9, <1>10, <1>11, <1>12, <1>13 DEF IInv

LEMMA ChildStepKeeps == ASSUME IInv, NEW i \in Slots, ChildStep(i) \/ AlarmMissed(i) \/ Crash(i) PROVE IInv'
<1>1. TypeOK /\ (kind = "v01" => ~sigchld)
  BY DEF IInv, Control
<1>2. sigchld \in BOOLEAN /\ backlog \in 0..NClients /\ nchildren \in Nat
  BY <1>1 DEF TypeOK
<1>3. pipe \in [Slots -> Seq({"0", "1"})]
  BY <1>1 DEF TypeOK
<1>4. kind = "v01" /\ child[i] \in {"accept", "unarmed", "timeout", "left", "taken"} => ~Latest(i)
  BY DEF IInv, Bytes
<1>5. UNCHANGED <<pipe, status>> => (Latest(i)' <=> Latest(i))
  BY DEF Latest
<1> DEFINE Going(x) == /\ Moved(i, x) /\ Here(x) /\ Here(child[i])
                       /\ UNCHANGED <<nchildren, sigchld, lost>>
<1>6. ASSUME NEW x, Going(x), pipe' = pipe, backlog' \in 0..NClients,
             kind = "v01" /\ x \in {"accept", "unarmed", "timeout", "left", "taken"} => ~Latest(i)
      PROVE  IInv'
  <2>1. Numbers(i, x) /\ Writing(i) /\ status' = status
    BY <1>6 DEF Numbers, Writing, Moved
  <2>2. QED
    BY <1>1, <1>2, <1>5, <1>6, <2>1, MoveKeeps
<1> DEFINE Wrote == \E byte \in {"0", "1"}, x \in {"accept", "busy"} :
             Writes(i, byte, x) /\ (byte = "1" => x = "busy") /\ child[i] \in {"free", "taken"}
<1>7. CASE Wrote
  <2>1. PICK byte \in {"0", "1"}, x \in {"accept", "busy"} :
             Writes(i, byte, x) /\ (byte = "1" => x = "busy") /\ child[i] \in {"free", "taken"}
    BY <1>7
  <2>2. Moved(i, x) /\ Here(x) /\ Here(child[i]) /\ UNCHANGED <<nchildren, sigchld, lost, backlog>>
    BY <2>1 DEF Moved, Here, States, Writes, childUnchanged, selected, table
  <2>3. Len(pipe[i]) < PipeSize /\ pipe' = [pipe EXCEPT ![i] = Append(@, byte)] /\ status' = status
    BY <2>1 DEF Writes, childUnchanged, table
  <2>4. Numbers(i, x) /\ Writing(i)
    BY <2>2, <2>3 DEF Numbers, Writing
  <2>5. pipe'[i] = Append(pipe[i], byte) /\ pipe[i] \in Seq({"0", "1"})
    BY <1>3, <2>3
  <2>6. pipe'[i] # <<>> /\ pipe'[i][Len(pipe'[i])] = byte
    BY <2>5
  <2>7. x # "busy" => ~Latest(i)'
    BY <2>1, <2>6 DEF Latest
  <2>8. QED
    BY <1>1, <1>2, <2>2, <2>4, <2>7, MoveKeeps
<1>8. CASE Crash(i)
  <2>1. /\ Moved(i, "crashed") /\ Here(child[i]) /\ lost' = lost + 1
        /\ UNCHANGED <<nchildren, backlog, pipe>>
    BY <1>8 DEF Crash, Dies, Moved, Here, Alive, Gone, States, childUnchanged, selected, table
  <2>2. sigchld' = (sigchld \/ (kind # "v01" /\ parent \notin {"prefork"} \union InSigInt))
    BY <1>8 DEF Crash, Dies
  <2>3. Numbers(i, "crashed") /\ Writing(i)
    BY <2>1 DEF Numbers, Writing
  <2>4. sigchld' \in BOOLEAN /\ (kind = "v01" => ~sigchld')
    BY <1>1, <1>2, <2>2
  <2>5. QED
    BY <1>2, <2>1, <2>3, <2>4, MoveKeeps
<1>9. CASE AlarmMissed(i)
  <2>1. Going("unarmed") /\ UNCHANGED <<pipe, backlog>> /\ child[i] = "accept"
    BY <1>9 DEF AlarmMissed, Moved, Here, States, childUnchanged, selected, table
  <2>2. QED
    BY <1>2, <1>4, <1>6, <2>1
<1>10. CASE AcceptClient(i)
  <2>1. /\ child[i] \in {"accept", "unarmed"} /\ backlog > 0 /\ backlog' = backlog - 1 /\ pipe' = pipe
        /\ Going(IF kind = "v01" THEN "taken" ELSE "busy")
    BY <1>10 DEF AcceptClient, Moved, Here, States, childUnchanged, selected, table
  <2>2. backlog' \in 0..NClients
    BY <1>2, <2>1, LimitsAssumption
  <2>3. QED
    BY <1>4, <1>6, <2>1, <2>2
<1>11. CASE Served(i)
  <2>1. Going(Loop) /\ UNCHANGED <<pipe, backlog>> /\ (kind = "v01" => Loop = "free")
    BY <1>11 DEF Served, Moved, Here, States, Loop, childUnchanged, selected, table
  <2>2. QED
    BY <1>2, <1>6, <2>1
<1>12. CASE TimesOut(i)
  <2>1. Going("timeout") /\ UNCHANGED <<pipe, backlog>> /\ child[i] = "accept"
    BY <1>12 DEF TimesOut, Moved, Here, States, childUnchanged, selected, table
  <2>2. QED
    BY <1>2, <1>4, <1>6, <2>1
<1>13. CASE Stays(i)
  <2>1. Going(Loop) /\ UNCHANGED <<pipe, backlog>> /\ (kind = "v01" => Loop = "free")
    BY <1>13 DEF Stays, Moved, Here, States, Loop, childUnchanged, selected, table
  <2>2. QED
    BY <1>2, <1>6, <2>1
<1>14. CASE Leaves(i)
  <2> DEFINE x == IF kind = "v02" THEN "leaving" ELSE "left"
  <2>1. /\ Moved(i, x) /\ child[i] = "timeout" /\ Here(child[i]) /\ ~locked
        /\ nchildren > MinConn /\ nchildren' = nchildren - 1 /\ UNCHANGED <<lost, backlog, pipe>>
    BY <1>14 DEF Leaves, Dies, Moved, Here, States, childUnchanged, selected, table
  <2>2. \/ sigchld' = sigchld
        \/ sigchld' = (sigchld \/ (kind # "v01" /\ parent \notin {"prefork"} \union InSigInt))
    BY <1>14 DEF Leaves, Dies
  <2>3. sigchld' \in BOOLEAN /\ (kind = "v01" => ~sigchld')
    <3>1. CASE sigchld' = sigchld
      BY <1>1, <1>2, <3>1
    <3>2. CASE sigchld' = (sigchld \/ (kind # "v01" /\ parent \notin {"prefork"} \union InSigInt))
      BY <1>1, <1>2, <3>2
    <3>3. QED
      BY <2>2, <3>1, <3>2
  <2>4. Numbers(i, x) /\ Writing(i) /\ status' = status
    BY <2>1 DEF Numbers, Writing, Moved
  <2>5. QED
    BY <1>2, <1>4, <1>5, <2>1, <2>3, <2>4, MoveKeeps
<1>15. CASE KillsItself(i)
  <2>1. Moved(i, "left") /\ child[i] = "leaving" /\ UNCHANGED <<nchildren, lost, backlog, pipe>>
    BY <1>15 DEF KillsItself, Dies, Moved, Here, States, childUnchanged, selected, table
  <2>2. sigchld' = (sigchld \/ (kind # "v01" /\ parent \notin {"prefork"} \union InSigInt))
    BY <1>15 DEF KillsItself, Dies
  <2>3. sigchld' \in BOOLEAN /\ (kind = "v01" => ~sigchld')
    BY <1>1, <1>2, <2>2
  <2>4. Numbers(i, "left") /\ Writing(i)
    BY <2>1 DEF Numbers, Writing
  <2>5. kind = "v01" => ~Latest(i)'
    BY <2>1 DEF IInv, Control
  <2>6. QED
    BY <1>2, <2>1, <2>3, <2>4, <2>5, MoveKeeps
<1>16. WriteFree(i) \/ WriteBusy(i) => Wrote
  BY DEF WriteFree, WriteBusy
<1>17. WriteFails(i) => Crash(i)
  BY DEF WriteFails
<1>18. QED
  BY <1>7, <1>8, <1>9, <1>10, <1>11, <1>12, <1>13, <1>14, <1>15, <1>16, <1>17 DEF ChildStep

-----------------------------------------------------------------------------
(* The parent makes children.                                              *)

\* The slots of crashed children, noticed or not, and none more than there are.
LEMMA LostSets ==
    /\ Crashed \in SUBSET Slots /\ Forgotten \in SUBSET Slots /\ Busy \in SUBSET Slots
    /\ Cardinality(Crashed) \in Nat /\ Cardinality(Busy) \in Nat
    /\ Cardinality(Crashed \union Forgotten) \in Nat
<1>1. Crashed \in SUBSET Slots /\ Forgotten \in SUBSET Slots /\ Busy \in SUBSET Slots
  BY DEF Crashed, Forgotten, Busy
<1>2. QED
  BY <1>1, Finite

LEMMA LoopIs == Loop \in States /\ Here(Loop) /\ Loop # "crashed" /\ (kind = "v01" => Loop = "free")
  BY DEF Loop, States, Here

LEMMA PreforkKeeps == ASSUME IInv, Prefork PROVE IInv'
<1>1. /\ ended = "no" /\ ended' = "no" /\ parent = "prefork" /\ parent' = "prefork" /\ at < MinConn /\ at' = at + 1
      /\ UNCHANGED <<kind, locked, stray, rset, nsel, deep, nconn, nchildren, sigchld, lost, backlog>>
  BY DEF Prefork, Forks, Running, selected
<1>2. /\ child' = [child EXCEPT ![at] = Loop] /\ pipe' = [pipe EXCEPT ![at] = <<>>]
      /\ known' = known \union {at}
      /\ status' = [status EXCEPT ![at] = IF kind = "v01" THEN 0 ELSE 1]
  BY DEF Prefork, Forks
<1>3. TypeOK /\ Control /\ Table /\ Working
  BY <1>1 DEF IInv, Working
<1>4. /\ MinConn \in Nat \ {0} /\ MaxConn \in Nat /\ MinConn <= MaxConn /\ PipeSize \in Nat
      /\ at \in Nat /\ at \in Slots
  <2>1. MinConn \in Nat \ {0} /\ MaxConn \in Nat /\ MinConn <= MaxConn /\ PipeSize \in Nat
    BY LimitsAssumption
  <2>2. at \in 0..MaxConn
    BY <1>3 DEF TypeOK
  <2>3. QED
    BY <1>1, <2>1, <2>2 DEF Slots
<1>5. child[at] = "none" /\ (kind = "v01" => at \notin known /\ status[at] = 0)
  BY <1>1, <1>3, <1>4 DEF Control, Table, Growing
<1>6. /\ child'[at] = Loop /\ pipe'[at] = <<>> /\ status'[at] = (IF kind = "v01" THEN 0 ELSE 1)
      /\ \A j \in Slots \ {at} : child'[j] = child[j] /\ pipe'[j] = pipe[j] /\ status'[j] = status[j]
  BY <1>2, <1>3, <1>4 DEF TypeOK
<1>7. TypeOK'
  <2>1. child' \in [Slots -> Gone \union {"none", "free", "accept", "unarmed", "timeout", "leaving",
                                        "taken", "busy"}]
    BY <1>2, <1>3 DEF TypeOK, Loop
  <2>2. status' \in [Slots -> {0, 1}] /\ pipe' \in [Slots -> Seq({"0", "1"})]
    <3>1. status \in [Slots -> {0, 1}] /\ pipe \in [Slots -> Seq({"0", "1"})]
      BY <1>3 DEF TypeOK
    <3>2. <<>> \in Seq({"0", "1"}) /\ (IF kind = "v01" THEN 0 ELSE 1) \in {0, 1}
      OBVIOUS
    <3>3. QED
      BY <1>2, <3>1, <3>2
  <2>3. \A j \in Slots : Len(pipe'[j]) <= PipeSize
    <3>1. \A j \in Slots : Len(pipe[j]) <= PipeSize
      BY <1>3 DEF TypeOK
    <3>2. Len(<<>>) = 0
      OBVIOUS
    <3>3. QED
      BY <1>4, <1>6, <3>1, <3>2
  <2>4. at' \in 0..MaxConn /\ known' \subseteq Slots
    BY <1>1, <1>2, <1>3, <1>4 DEF TypeOK
  <2>5. QED
    BY <1>1, <1>3, <2>1, <2>2, <2>3, <2>4 DEF TypeOK
<1>8. Control'
  <2>1. at' <= MinConn /\ \A j \in Slots : j >= at' => j # at /\ j >= at
    <3>1. \A j \in Slots : j \in Nat
      BY SlotsFinite
    <3>2. QED
      BY <1>1, <1>4, <3>1
  <2>2. \A j \in Slots : j >= at' => child'[j] = "none"
    <3>1. \A j \in Slots : j >= at => child[j] = "none"
      BY <1>1, <1>3 DEF Control
    <3>2. QED
      BY <1>6, <2>1, <3>1
  <2>3. kind = "v01" => \A j \in Slots : child'[j] # "leaving"
    BY <1>3, <1>6, LoopIs DEF Control
  <2>4. QED
    BY <1>1, <1>3, <2>1, <2>2, <2>3 DEF Control, Growing
<1>9. Count'
  <2>1. Cardinality(Staying)' = Cardinality(Staying) + 1
    BY <1>2, <1>3, <1>4, <1>5, LoopIs, StayingMoves DEF Here
  <2>2. Cardinality(Staying) + lost = at /\ Cardinality(Staying) \in Nat /\ lost \in Nat
    <3>1. Cardinality(Staying) + lost = at
      BY <1>1, <1>3 DEF IInv, Count, Reckoned
    <3>2. QED
      BY <1>3, <3>1, Finite, StayingIs DEF TypeOK
  <2>3. Cardinality(Staying)' + lost' = at'
    <3>1. at' = at + 1 /\ lost' = lost
      BY <1>1
    <3>2. QED
      BY <2>1, <2>2, <3>1
  <2>4. QED
    BY <1>1, <2>3 DEF Count, Reckoned
<1>10. Table'
  <2>1. ~Growing' /\ ~Growing
    BY <1>1 DEF Growing
  <2>2. kind = "v01" => /\ \A j \in known' : child'[j] # "none"
                        /\ \A j \in Slots \ known' : status'[j] = 0 /\ child'[j] = "none"
    BY <1>2, <1>3, <1>6, <2>1, LoopIs DEF Table, TypeOK, Filling, Here
  <2>3. kind # "v01" => \A j \in Slots : status'[j] = 0 => child'[j] = "none"
    BY <1>3, <1>6, <2>1 DEF Table, Filling
  <2>4. QED
    BY <1>1, <2>1, <2>2, <2>3 DEF Table, Growing
<1>11. Bytes'
  <2>1. SUFFICES ASSUME kind = "v01" PROVE Bytes'
    BY <1>1 DEF Bytes
  <2>2. \A j \in Slots \ {at} : Latest(j)' <=> Latest(j)
    BY <1>6 DEF Latest
  <2>3. \A j \in Slots : child'[j] \in {"accept", "unarmed", "timeout", "left", "taken"} => ~Latest(j)'
    BY <1>6, <2>1, <2>2, LoopIs DEF IInv, Bytes
  <2>4. QED
    BY <1>1, <1>3, <2>1, <2>3 DEF IInv, Bytes
<1>12. Losses'
  <2>1. Crashed' = Crashed
    BY <1>2, <1>3, <1>4, <1>5, LoopIs, CrashedMoves
  <2>2. CASE kind = "v01"
    <3>1. Busy' = Busy
      BY <1>5, <1>6, <2>2 DEF Busy
    <3>2. QED
      BY <1>1, <2>1, <2>2, <3>1 DEF IInv, Losses
  <2>3. CASE kind # "v01"
    <3>1. Crashed' \union Forgotten' \in SUBSET (Crashed \union Forgotten)
      BY <1>1, <1>6, <2>1, LoopIs DEF Forgotten, Here
    <3>2. Cardinality(Crashed' \union Forgotten') <= Cardinality(Crashed \union Forgotten)
      BY <3>1, LostSets, Smaller
    <3>3. Cardinality(Crashed' \union Forgotten') \in Nat
      BY <3>1, LostSets, Finite
    <3>4. Cardinality(Crashed \union Forgotten) <= lost /\ lost \in Nat
      BY <1>3, <2>3 DEF IInv, Losses, TypeOK
    <3>5. Cardinality(Crashed' \union Forgotten') <= lost
      BY <3>2, <3>3, <3>4, LostSets
    <3>6. QED
      BY <1>1, <2>3, <3>5 DEF Losses
  <2>4. QED
    BY <2>2, <2>3
<1>13. ShortageIsRace'
  BY <1>1 DEF ShortageIsRace
<1>14. QED
  BY <1>7, <1>8, <1>9, <1>10, <1>11, <1>12, <1>13 DEF IInv

\* A step that leaves the children, their pipes and the table alone.
LEMMA Quiet ==
  ASSUME IInv, UNCHANGED <<kind, child, pipe, known, status, nconn, lost>>,
         Working' => Working /\ Reckoned' = Reckoned,
         (~Growing /\ ~Growing') \/ UNCHANGED <<parent, at>>
  PROVE  /\ Count' /\ (Working' => Table') /\ Losses'
         /\ \A j \in Slots : Latest(j)' <=> Latest(j)
<1>1. Staying' = Staying
  BY DEF Staying, Alive, Gone
<1>2. \A j : Filling(j)' <=> Filling(j)
  BY DEF Filling, Growing
<1>3. Crashed' = Crashed /\ Busy' = Busy /\ Forgotten' = Forgotten
  BY DEF Crashed, Busy, Forgotten, Growing
<1>4. Count'
  BY <1>1 DEF IInv, Count
<1>5. Growing' => UNCHANGED <<parent, at>>
  BY DEF Growing
<1>6. Working' => Table'
  BY <1>2, <1>5 DEF IInv, Table, Growing
<1>7. Losses'
  BY <1>3 DEF IInv, Losses
<1>8. QED
  BY <1>4, <1>6, <1>7 DEF Latest

\* What ends the parent and is not SIGINT leaves all else alone.
LEMMA EndKeeps ==
  ASSUME IInv, NEW why, End(why), ShortageIsRace',
         why \in {"quit", "no available resource", "behind the table", "can't find the child"},
         Running
  PROVE  IInv'
<1>1. /\ UNCHANGED <<kind, parent, locked, stray, rset, nsel, deep, at, known, status, nconn>>
      /\ UNCHANGED <<nchildren, child, pipe, sigchld, lost, backlog>>
      /\ ended' = why /\ ended = "no"
  BY DEF End, Running, selected, table, children
<1>2. TypeOK'
  <2>1. TypeOK
    BY DEF IInv
  <2>2. QED
    BY <1>1, <2>1 DEF TypeOK
<1>3. Control'
  BY <1>1 DEF IInv, Control, Growing
<1>4. Working' => Working /\ Reckoned' = Reckoned
  BY <1>1 DEF Working, Reckoned, Growing
<1>5. Count' /\ (Working' => Table') /\ Losses' /\ \A j \in Slots : Latest(j)' <=> Latest(j)
  BY <1>1, <1>4, Quiet
<1>6. Bytes'
  BY <1>1, <1>4, <1>5 DEF IInv, Bytes
<1>7. QED
  BY <1>2, <1>3, <1>5, <1>6 DEF IInv

\* The parent goes on to its select(), or away from it.
LEMMA PreforkedKeeps == ASSUME IInv, Preforked PROVE IInv'
<1>1. /\ UNCHANGED <<kind, locked, stray, rset, nsel, deep, known, status, nconn, nchildren>>
      /\ UNCHANGED <<child, pipe, sigchld, lost, backlog, ended>>
      /\ ended = "no" /\ parent = "prefork" /\ at = MinConn /\ parent' = "select" /\ at' = 0
  BY DEF Preforked, Running, selected, table, children
<1>2. TypeOK'
  <2>1. TypeOK /\ 0 \in 0..MaxConn
    BY LimitsAssumption DEF IInv
  <2>2. QED
    BY <1>1, <2>1 DEF TypeOK
<1>3. Control'
  BY <1>1 DEF IInv, Control, Growing
<1>4. Working' => Working /\ Reckoned' = Reckoned
  BY <1>1 DEF Working, Reckoned, Growing, IInv, Control
<1>5. Count' /\ (Working' => Table') /\ Losses' /\ \A j \in Slots : Latest(j)' <=> Latest(j)
  BY <1>1, <1>4, Quiet DEF Growing
<1>6. Bytes'
  BY <1>1, <1>4, <1>5 DEF IInv, Bytes, Working
<1>7. ShortageIsRace'
  BY <1>1 DEF ShortageIsRace
<1>8. QED
  BY <1>2, <1>3, <1>5, <1>6, <1>7 DEF IInv

LEMMA NotGrowingKeeps ==
  ASSUME IInv, Running, parent \in {"grow", "lock"}, parent = "lock" => kind # "v01", NotGrowing
  PROVE  IInv'
<1>1. /\ UNCHANGED <<kind, stray, rset, nsel, deep, at, known, status, nconn, nchildren>>
      /\ UNCHANGED <<child, pipe, sigchld, lost, backlog, ended>> /\ ended = "no" /\ parent' = "select"
  BY DEF NotGrowing, Running, selected, table, children
<1>2. locked' = FALSE
  BY DEF NotGrowing
<1>3. TypeOK'
  <2>1. TypeOK
    BY DEF IInv
  <2>2. QED
    BY <1>1, <1>2, <2>1 DEF TypeOK
<1>4. Control'
  BY <1>1, <1>2 DEF IInv, Control, Growing
<1>5. Working' => Working /\ Reckoned' = Reckoned
  BY <1>1 DEF Working, Reckoned, Growing
<1>6. Count' /\ (Working' => Table') /\ Losses' /\ \A j \in Slots : Latest(j)' <=> Latest(j)
  BY <1>1, <1>5, Quiet DEF Growing
<1>7. Bytes'
  BY <1>1, <1>5, <1>6 DEF IInv, Bytes, Working
<1>8. ShortageIsRace'
  BY <1>1 DEF ShortageIsRace
<1>9. QED
  BY <1>3, <1>4, <1>6, <1>7, <1>8 DEF IInv

LEMMA SelectKeeps == ASSUME IInv, Select \/ SelectQueue PROVE IInv'
<1>1. /\ UNCHANGED <<kind, stray, at, known, status, nconn, nchildren>>
      /\ UNCHANGED <<child, pipe, sigchld, lost, backlog, ended>>
      /\ ended = "no" /\ parent = "select" /\ parent' = "lock"
  BY DEF Select, SelectQueue, Running, table, children
<1>2. locked' = locked
  BY DEF Select, SelectQueue
<1>3. \/ kind = "v01" /\ rset' = Readable
      \/ kind = "v02" /\ rset' = rset
  BY DEF Select, SelectQueue
<1>4. TypeOK'
  <2>1. TypeOK
    BY DEF IInv
  <2>2. Readable \in SUBSET Slots
    BY <2>1 DEF TypeOK, Readable
  <2>3. Cardinality(Readable) \in Nat
    BY <2>2, Finite
  <2>4. Cardinality(StrayReady) \in Nat
    <3>1. StrayReady \subseteq {"lock_fd", "listenfd"}
      BY <2>1 DEF TypeOK, StrayReady
    <3>2. IsFiniteSet({"lock_fd"}) /\ IsFiniteSet({"lock_fd"} \union {"listenfd"})
      BY FS_Singleton, FS_AddElement
    <3>3. {"lock_fd"} \union {"listenfd"} = {"lock_fd", "listenfd"}
      OBVIOUS
    <3>4. IsFiniteSet(StrayReady)
      BY <3>1, <3>2, <3>3, FS_Subset
    <3>5. QED
      BY <3>4, FS_CardinalityType
  <2>5. nsel' \in Nat /\ deep' \in BOOLEAN /\ rset' \subseteq Slots
    <3>1. CASE Select
      <4>1. nsel' = Cardinality(Readable) + Cardinality(StrayReady) /\ rset' = Readable /\ deep' = deep
        BY <3>1 DEF Select
      <4>2. QED
        <5>1. nsel' \in Nat
          BY <2>3, <2>4, <4>1
        <5>2. QED
          BY <2>1, <2>2, <4>1, <5>1 DEF TypeOK
    <3>2. CASE SelectQueue
      <4>1. deep' = (backlog > 1) /\ UNCHANGED <<rset, nsel>>
        BY <3>2 DEF SelectQueue
      <4>2. deep' \in BOOLEAN
        BY <4>1
      <4>3. QED
        BY <2>1, <4>1, <4>2 DEF TypeOK
    <3>3. QED
      BY <3>1, <3>2
  <2>6. QED
    BY <1>1, <1>2, <2>1, <2>5 DEF TypeOK
<1>5. Control'
  BY <1>1, <1>2 DEF IInv, Control, Growing
<1>6. Working' => Working /\ Reckoned' = Reckoned
  BY <1>1 DEF Working, Reckoned, Growing
<1>7. Count' /\ (Working' => Table') /\ Losses' /\ \A j \in Slots : Latest(j)' <=> Latest(j)
  BY <1>1, <1>6, Quiet DEF Growing
<1>8. Bytes'
  BY <1>1, <1>3, <1>7 DEF IInv, Bytes, Readable
<1>9. ShortageIsRace'
  BY <1>1 DEF ShortageIsRace
<1>10. QED
  BY <1>4, <1>5, <1>7, <1>8, <1>9 DEF IInv

LEMMA ConnectKeeps == ASSUME IInv, Connect PROVE IInv'
<1>1. /\ UNCHANGED <<kind, parent, locked, stray, rset, nsel, deep, at, known, status, nconn>>
      /\ UNCHANGED <<nchildren, child, pipe, sigchld, lost, ended>> /\ ended = "no"
  BY DEF Connect, Running, childUnchanged, selected, table, children
<1>2. TypeOK'
  <2>1. TypeOK
    BY DEF IInv
  <2>2. backlog \in Nat /\ NClients \in Nat
    <3>1. backlog \in 0..NClients
      BY <2>1 DEF TypeOK
    <3>2. QED
      BY <3>1, LimitsAssumption
  <2>3. Serving \in SUBSET Slots
    BY DEF Serving
  <2>4. Cardinality(Serving) \in Nat
    BY <2>3, Finite
  <2>5. backlog + Cardinality(Serving) < NClients /\ backlog' = backlog + 1
    BY DEF Connect
  <2>6. backlog' \in 0..NClients
    <3>1. backlog + 1 <= NClients
      BY <2>2, <2>4, <2>5
    <3>2. QED
      BY <2>2, <2>5, <3>1
  <2>7. QED
    BY <1>1, <2>1, <2>6 DEF TypeOK
<1>3. Control'
  BY <1>1 DEF IInv, Control, Growing
<1>4. Working' => Working /\ Reckoned' = Reckoned
  BY <1>1 DEF Working, Reckoned, Growing
<1>5. Count' /\ (Working' => Table') /\ Losses' /\ \A j \in Slots : Latest(j)' <=> Latest(j)
  BY <1>1, <1>4, Quiet
<1>6. Bytes'
  BY <1>1, <1>4, <1>5 DEF IInv, Bytes
<1>7. ShortageIsRace'
  BY <1>1 DEF ShortageIsRace
<1>8. QED
  BY <1>2, <1>3, <1>5, <1>6, <1>7 DEF IInv

\* child_make(): the slot is free, and its old process and pipe are gone.
LEMMA GrowIntoKeeps ==
  ASSUME IInv, Running, NEW S \in SUBSET Slots, GrowInto(S), nchildren < MaxConn, kind # "v03",
         parent = (IF kind = "v01" THEN "grow" ELSE "lock"),
         \A i \in S : child[i] = "none" /\ status[i] = 0 /\ (kind = "v01" => i \notin known)
  PROVE  IInv'
<1>1. PICK i \in S : at' = i /\ Forks(i)
  BY DEF GrowInto
<1>2. /\ UNCHANGED <<kind, stray, rset, nsel, deep, known, status, nconn, nchildren>>
      /\ UNCHANGED <<sigchld, lost, backlog, ended>> /\ ended = "no" /\ parent' = "forked"
  BY <1>1 DEF GrowInto, Forks, Running, selected, table
<1>3. locked' = TRUE
  BY DEF GrowInto
<1>4. child' = [child EXCEPT ![i] = Loop] /\ pipe' = [pipe EXCEPT ![i] = <<>>] /\ i \in Slots
  BY <1>1 DEF Forks
<1>5. TypeOK /\ Table /\ Working /\ parent \in {"grow", "lock"} /\ ~Growing
  BY <1>2 DEF IInv, Working, Growing
<1>6. child[i] = "none" /\ status[i] = 0 /\ (kind = "v01" => i \notin known)
  OBVIOUS
<1>7. /\ child'[i] = Loop /\ pipe'[i] = <<>>
      /\ \A j \in Slots \ {i} : child'[j] = child[j] /\ pipe'[j] = pipe[j]
  BY <1>4, <1>5 DEF TypeOK
<1>8. TypeOK'
  <2>1. child' \in [Slots -> Gone \union {"none", "free", "accept", "unarmed", "timeout", "leaving",
                                        "taken", "busy"}]
    BY <1>4, <1>5 DEF TypeOK, Loop
  <2>2. pipe \in [Slots -> Seq({"0", "1"})] /\ <<>> \in Seq({"0", "1"})
    <3>1. <<>> \in Seq({"0", "1"})
      OBVIOUS
    <3>2. QED
      BY <1>5, <3>1 DEF TypeOK
  <2>3. pipe' \in [Slots -> Seq({"0", "1"})]
    BY <1>4, <2>2
  <2>4. \A j \in Slots : Len(pipe'[j]) <= PipeSize
    <3>1. Len(<<>>) = 0 /\ PipeSize \in Nat
      BY LimitsAssumption
    <3>2. \A j \in Slots : Len(pipe[j]) <= PipeSize
      BY <1>5 DEF TypeOK
    <3>3. QED
      BY <1>7, <3>1, <3>2
  <2>5. at' \in 0..MaxConn
    <3>1. i \in 0..(MaxConn - 1) /\ MaxConn \in Nat
      BY <1>4, LimitsAssumption DEF Slots
    <3>2. QED
      BY <1>1, <3>1
  <2>6. QED
    BY <1>2, <1>3, <1>5, <2>1, <2>3, <2>4, <2>5 DEF TypeOK
<1>9. Control'
  <2>1. kind = "v01" => \A j \in Slots : child'[j] # "leaving"
    BY <1>7, LoopIs DEF IInv, Control
  <2>2. QED
    BY <1>1, <1>2, <1>3, <2>1 DEF IInv, Control, Growing
<1>10. Count'
  <2>1. Cardinality(Staying)' = Cardinality(Staying) + 1
    BY <1>4, <1>5, <1>6, LoopIs, StayingMoves DEF Here
  <2>2. Cardinality(Staying) + lost = nchildren
    BY <1>5 DEF IInv, Count, Reckoned, Growing
  <2>3. Cardinality(Staying) \in Nat /\ lost \in Nat
    BY <1>5, Finite, StayingIs DEF TypeOK
  <2>4. lost' = lost /\ Reckoned' = nchildren + 1
    BY <1>2 DEF Reckoned, Growing
  <2>5. Cardinality(Staying)' + lost' = Reckoned'
    BY <2>1, <2>2, <2>3, <2>4
  <2>6. QED
    BY <2>5 DEF Count
<1>11. Table'
  <2>1. Growing' /\ Filling(i)' /\ \A j : j # i => ~Filling(j)' /\ ~Filling(j)
    BY <1>1, <1>2, <1>5 DEF Growing, Filling
  <2>2. child'[at'] \notin {"none", "leaving", "left"}
    BY <1>1, <1>7, LoopIs DEF Here
  <2>3. kind = "v01" => /\ at' \notin known'
                        /\ \A j \in known' : child'[j] # "none"
                        /\ \A j \in Slots \ known' : status'[j] = 0 /\ (~Filling(j)' => child'[j] = "none")
    <3>1. known \subseteq Slots
      BY <1>5 DEF TypeOK
    <3>2. SUFFICES ASSUME kind = "v01"
                   PROVE  /\ at' \notin known
                          /\ \A j \in known : child'[j] # "none"
                          /\ \A j \in Slots \ known : status[j] = 0 /\ (~Filling(j)' => child'[j] = "none")
      BY <1>2
    <3>3. QED
      BY <1>1, <1>5, <1>6, <1>7, <2>1, <3>1, <3>2 DEF Table
  <2>4. kind # "v01" => \A j \in Slots : status'[j] = 0 /\ ~Filling(j)' => child'[j] = "none"
    BY <1>2, <1>5, <1>7, <2>1 DEF Table
  <2>5. QED
    BY <1>2, <2>2, <2>3, <2>4 DEF Table
<1>12. Bytes'
  <2>1. SUFFICES ASSUME kind = "v01" PROVE Bytes'
    BY <1>2 DEF Bytes
  <2>2. \A j \in Slots \ {i} : Latest(j)' <=> Latest(j)
    BY <1>2, <1>7 DEF Latest
  <2>3. \A j \in Slots : child'[j] \in {"accept", "unarmed", "timeout", "left", "taken"} => ~Latest(j)'
    BY <1>7, <2>1, <2>2, LoopIs DEF IInv, Bytes
  <2>4. QED
    BY <1>2, <1>5, <2>1, <2>3 DEF IInv, Bytes
<1>13. Losses'
  <2>1. Crashed' = Crashed
    BY <1>4, <1>5, <1>6, LoopIs, CrashedMoves
  <2>2. Busy' = Busy
    BY <1>2 DEF Busy
  <2>3. Forgotten' = Forgotten
    BY <1>2, <1>5, <1>6, <1>7, LoopIs DEF Forgotten, Growing, Here
  <2>4. QED
    BY <1>2, <1>5, <2>1, <2>2, <2>3 DEF IInv, Losses
<1>14. ShortageIsRace'
  BY <1>2 DEF ShortageIsRace
<1>15. QED
  BY <1>8, <1>9, <1>10, <1>11, <1>12, <1>13, <1>14 DEF IInv

\* The pid is stored, and in v01 the status, and the child is counted.
LEMMA StorePidKeeps == ASSUME IInv, StorePid PROVE IInv'
<1>1. /\ UNCHANGED <<kind, stray, rset, nsel, deep, nconn>> /\ UNCHANGED <<child, pipe, sigchld, lost, backlog, ended>>
      /\ ended = "no" /\ parent = "forked" /\ known' = known \union {at}
  BY DEF StorePid, Counted, Running, selected, children
<1>2. TypeOK /\ Control /\ Table /\ Working /\ Growing /\ at \in Slots
  BY <1>1 DEF IInv, Working, Growing, Control
<1>3. known' \subseteq Slots
  BY <1>1, <1>2 DEF TypeOK
<1>4. CASE kind = "v01"
  <2>1. /\ status' = [status EXCEPT ![at] = 0] /\ parent' = "select" /\ at' = 0 /\ nchildren' = nchildren + 1
    BY <1>4 DEF StorePid, Counted
  <2>2. locked' = FALSE
    BY <1>4 DEF StorePid, Counted
  <2>3. status[at] = 0 /\ status \in [Slots -> {0, 1}]
    BY <1>2, <1>4 DEF Table, TypeOK
  <2>4. status' = status
    BY <2>1, <2>3
  <2>5. nchildren \in Nat /\ nchildren < MaxConn /\ MaxConn \in Nat /\ MinConn \in Nat /\ MinConn <= nchildren
    BY <1>2, LimitsAssumption DEF TypeOK, Control
  <2>6. nchildren' \in Nat /\ nchildren' <= MaxConn /\ MinConn <= nchildren' /\ 0 \in 0..MaxConn
    BY <2>1, <2>5
  <2>7. TypeOK'
    BY <1>1, <1>2, <1>3, <2>1, <2>2, <2>4, <2>6 DEF TypeOK
  <2>8. Control'
    BY <1>1, <1>2, <2>1, <2>2, <2>6 DEF Control, Growing
  <2>9. Count'
    <3>1. Staying' = Staying
      BY <1>1 DEF Staying, Alive, Gone
    <3>2. Reckoned' = Reckoned
      BY <1>1, <2>1 DEF Reckoned, Growing
    <3>3. QED
      BY <1>1, <1>2, <3>1, <3>2 DEF IInv, Count
  <2>10. Table'
    <3>1. \A j \in Slots \ known' : ~Filling(j)
      BY <1>1 DEF Filling
    <3>2. ~Growing'
      BY <2>1 DEF Growing
    <3>3. \A j \in known' : child'[j] # "none"
      BY <1>1, <1>2, <1>4 DEF Table
    <3>4. \A j \in Slots \ known' : status'[j] = 0 /\ child'[j] = "none"
      BY <1>1, <1>2, <1>4, <2>4, <3>1 DEF Table
    <3>5. QED
      BY <1>1, <1>4, <2>1, <3>2, <3>3, <3>4 DEF Table
  <2>11. Bytes'
    <3>1. \A j \in Slots : Latest(j)' <=> Latest(j)
      BY <1>1, <2>4 DEF Latest
    <3>2. QED
      BY <1>1, <1>2, <2>1, <3>1 DEF IInv, Bytes
  <2>12. Losses'
    <3>1. Crashed' = Crashed /\ Busy' = Busy
      BY <1>1, <2>4 DEF Crashed, Busy
    <3>2. QED
      BY <1>1, <1>4, <3>1 DEF IInv, Losses
  <2>13. ShortageIsRace'
    BY <1>1 DEF ShortageIsRace
  <2>14. QED
    BY <2>7, <2>8, <2>9, <2>10, <2>11, <2>12, <2>13 DEF IInv
<1>5. CASE kind # "v01"
  <2>1. /\ kind = "v02" /\ parent' = "stored" /\ UNCHANGED <<at, status, nchildren>>
    BY <1>5 DEF StorePid
  <2>2. locked' = locked
    BY <1>5 DEF StorePid
  <2>3. TypeOK'
    BY <1>1, <1>2, <1>3, <2>1, <2>2 DEF TypeOK
  <2>4. Control'
    BY <1>1, <1>2, <2>1, <2>2 DEF Control, Growing
  <2>5. Count'
    <3>1. Staying' = Staying
      BY <1>1 DEF Staying, Alive, Gone
    <3>2. Reckoned' = Reckoned
      BY <1>1, <2>1 DEF Reckoned, Growing
    <3>3. QED
      BY <1>1, <1>2, <3>1, <3>2 DEF IInv, Count
  <2>6. Growing' /\ \A j : Filling(j)' <=> Filling(j)
    BY <1>2, <2>1 DEF Growing, Filling
  <2>7. Table'
    BY <1>1, <1>2, <1>5, <2>1, <2>6 DEF Table
  <2>8. Bytes'
    BY <1>1, <1>5 DEF Bytes
  <2>9. Losses'
    <3>1. Crashed' = Crashed
      BY <1>1 DEF Crashed
    <3>2. Forgotten' = Forgotten
      BY <1>1, <1>2, <2>1 DEF Forgotten, Table
    <3>3. QED
      BY <1>1, <1>2, <1>5, <3>1, <3>2 DEF IInv, Losses
  <2>10. ShortageIsRace'
    BY <1>1 DEF ShortageIsRace
  <2>11. QED
    BY <2>3, <2>4, <2>5, <2>7, <2>8, <2>9, <2>10 DEF IInv
<1>6. QED
  BY <1>4, <1>5

\* The status of the new child of v02 is stored, though it may have crashed by then.
LEMMA StoreStatusKeeps == ASSUME IInv, StoreStatus PROVE IInv'
<1>1. /\ UNCHANGED <<kind, stray, rset, nsel, deep, nconn, known>> /\ UNCHANGED <<child, pipe, sigchld, lost, backlog, ended>>
      /\ ended = "no" /\ parent = "stored" /\ parent' = "select" /\ at' = 0 /\ nchildren' = nchildren + 1
      /\ status' = [status EXCEPT ![at] = 1]
  BY DEF StoreStatus, Counted, Running, selected, children
<1>2. locked' = FALSE
  BY DEF StoreStatus, Counted
<1>3. TypeOK /\ Control /\ Table /\ Working /\ Growing /\ at \in Slots /\ kind = "v02"
  BY <1>1 DEF IInv, Working, Growing, Control
<1>4. nchildren \in Nat /\ nchildren < MaxConn /\ MaxConn \in Nat /\ MinConn \in Nat /\ MinConn <= nchildren
  BY <1>3, LimitsAssumption DEF TypeOK, Control
<1>5. nchildren' \in Nat /\ nchildren' <= MaxConn /\ MinConn <= nchildren' /\ 0 \in 0..MaxConn
  BY <1>1, <1>4
<1>6. status'[at] = 1 /\ \A j \in Slots \ {at} : status'[j] = status[j]
  BY <1>1, <1>3 DEF TypeOK
<1>7. TypeOK'
  <2>1. status' \in [Slots -> {0, 1}]
    BY <1>1, <1>3 DEF TypeOK
  <2>2. QED
    BY <1>1, <1>2, <1>3, <1>5, <2>1 DEF TypeOK
<1>8. Control'
  BY <1>1, <1>2, <1>3, <1>5 DEF Control, Growing
<1>9. Count'
  <2>1. Staying' = Staying
    BY <1>1 DEF Staying, Alive, Gone
  <2>2. Reckoned' = Reckoned
    BY <1>1 DEF Reckoned, Growing
  <2>3. QED
    BY <1>1, <1>3, <2>1, <2>2 DEF IInv, Count
<1>10. Table'
  <2>1. \A j \in Slots : status'[j] = 0 => child'[j] = "none"
    BY <1>1, <1>3, <1>6 DEF Table, Filling
  <2>2. QED
    BY <1>1, <1>3, <2>1 DEF Table, Growing
<1>11. Bytes'
  BY <1>1, <1>3 DEF Bytes
<1>12. Losses'
  <2>1. Crashed' = Crashed
    BY <1>1 DEF Crashed
  <2>2. Forgotten' = Forgotten
    BY <1>1, <1>3, <1>6 DEF Forgotten
  <2>3. QED
    BY <1>1, <1>3, <2>1, <2>2 DEF IInv, Losses
<1>13. ShortageIsRace'
  BY <1>1 DEF ShortageIsRace
<1>14. QED
  BY <1>7, <1>8, <1>9, <1>10, <1>11, <1>12, <1>13 DEF IInv

\* If every slot is in use and the pool is not full, some slot is that of a child that has
\* counted itself out.
LEMMA SlotsAccounted ==
  ASSUME IInv, Working, parent \in {"grow", "lock"}, nchildren < MaxConn,
         NEW L \in SUBSET Slots, Cardinality(L) <= lost,
         \A i \in Slots : i \in L \/ child[i] \notin {"none", "crashed"}
  PROVE  \E i \in Slots : child[i] \in {"leaving", "left"}
<1> SUFFICES ASSUME \A i \in Slots : child[i] \notin {"leaving", "left"} PROVE FALSE
  OBVIOUS
<1>1. Staying \in SUBSET Slots
  BY StayingIs
<1>2. \A i \in Slots : i \in L \/ i \in Staying
  BY StayingIs DEF Here
<1>3. L \ Staying \in SUBSET Slots /\ Staying \union (L \ Staying) = Slots /\ Staying \intersect (L \ Staying) = {}
  BY <1>1, <1>2
<1>4. MaxConn = Cardinality(Staying) + Cardinality(L \ Staying)
  BY <1>1, <1>3, Apart, SlotsFinite
<1>5. Cardinality(L \ Staying) <= Cardinality(L)
  <2>1. L \ Staying \in SUBSET L
    OBVIOUS
  <2>2. QED
    BY <2>1, Smaller
<1>6. Cardinality(Staying) + lost = nchildren
  BY DEF IInv, Count, Reckoned, Growing
<1>7. /\ Cardinality(Staying) \in Nat /\ Cardinality(L \ Staying) \in Nat /\ Cardinality(L) \in Nat
      /\ lost \in Nat /\ nchildren \in Nat
  BY <1>1, <1>3, Finite DEF IInv, TypeOK
<1>8. QED
  BY <1>4, <1>5, <1>6, <1>7

LEMMA GrowKeeps == ASSUME IInv, Grow PROVE IInv'
<1>1. Running /\ parent = "grow" /\ kind = "v01" /\ Working
  BY DEF Grow, IInv, Control, Working, Running
<1>2. TypeOK /\ Table /\ ~Growing
  BY <1>1 DEF IInv, Growing
<1>3. CASE nconn = nchildren /\ nchildren < MaxConn /\ known = Slots
  <2>1. End("no available resource")
    BY <1>3 DEF Grow
  <2>2. Crashed \in SUBSET Slots /\ Cardinality(Crashed) <= lost
    <3>1. Cardinality(Busy) <= nconn /\ (nconn - Cardinality(Busy)) + Cardinality(Crashed) <= lost
      BY <1>1 DEF IInv, Losses
    <3>2. nconn \in Nat /\ lost \in Nat
      BY <1>2 DEF TypeOK
    <3>3. QED
      BY <3>1, <3>2, LostSets
  <2>3. \A i \in Slots : i \in Crashed \/ child[i] \notin {"none", "crashed"}
    BY <1>1, <1>2, <1>3 DEF Table, Crashed
  <2>4. \E i \in Slots : child[i] \in {"leaving", "left"}
    BY <1>1, <1>3, <2>2, <2>3, SlotsAccounted
  <2>5. child' = child
    BY <2>1 DEF End, children
  <2>6. ShortageIsRace'
    BY <2>4, <2>5 DEF ShortageIsRace
  <2>7. QED
    BY <1>1, <2>1, <2>6, EndKeeps
<1>4. CASE nconn = nchildren /\ nchildren < MaxConn /\ known # Slots
  <2>1. GrowInto(Slots \ known) /\ Slots \ known \in SUBSET Slots
    BY <1>4 DEF Grow
  <2>2. \A i \in Slots \ known : child[i] = "none" /\ status[i] = 0 /\ (kind = "v01" => i \notin known)
    BY <1>1, <1>2 DEF Table, Filling
  <2>3. QED
    BY <1>1, <1>4, <2>1, <2>2, GrowIntoKeeps
<1>5. CASE ~(nconn = nchildren /\ nchildren < MaxConn)
  BY <1>1, <1>5, NotGrowingKeeps DEF Grow
<1>6. QED
  BY <1>3, <1>4, <1>5

LEMMA GrowQueueKeeps == ASSUME IInv, GrowQueue PROVE IInv'
<1> DEFINE empty == {i \in Slots : status[i] = 0}
<1>1. Running /\ parent = "lock" /\ kind = "v02" /\ Working
  BY DEF GrowQueue, Working, Running
<1>2. TypeOK /\ Table /\ ~Growing
  BY <1>1 DEF IInv, Growing
<1>3. CASE deep /\ nchildren < MaxConn /\ empty = {}
  <2>1. End("behind the table")
    BY <1>3 DEF GrowQueue
  <2>2. Crashed \union Forgotten \in SUBSET Slots /\ Cardinality(Crashed \union Forgotten) <= lost
    BY <1>1, LostSets DEF IInv, Losses
  <2>3. \A i \in Slots : status[i] = 1
    BY <1>2, <1>3 DEF TypeOK
  <2>4. \A i \in Slots : i \in Crashed \union Forgotten \/ child[i] \notin {"none", "crashed"}
    BY <2>3 DEF Crashed, Forgotten
  <2>5. \E i \in Slots : child[i] \in {"leaving", "left"}
    BY <1>1, <1>3, <2>2, <2>4, SlotsAccounted
  <2>6. child' = child
    BY <2>1 DEF End, children
  <2>7. ShortageIsRace'
    BY <2>5, <2>6 DEF ShortageIsRace
  <2>8. QED
    BY <1>1, <2>1, <2>7, EndKeeps
<1>4. CASE deep /\ nchildren < MaxConn /\ empty # {}
  <2>1. GrowInto(empty) /\ empty \in SUBSET Slots
    BY <1>4 DEF GrowQueue
  <2>2. \A i \in empty : child[i] = "none" /\ status[i] = 0 /\ (kind = "v01" => i \notin known)
    BY <1>1, <1>2 DEF Table, Filling
  <2>3. QED
    BY <1>1, <1>4, <2>1, <2>2, GrowIntoKeeps
<1>5. CASE ~(deep /\ nchildren < MaxConn)
  BY <1>1, <1>5, NotGrowingKeeps DEF GrowQueue
<1>6. QED
  BY <1>3, <1>4, <1>5

-----------------------------------------------------------------------------
(* Children go: SIGCHLD and SIGINT.                                        *)

\* The handler frees the slots of those that have gone, except the one being filled, whose
\* status is stored afterwards.
LEMMA SigChldKeeps == ASSUME IInv, SigChld PROVE IInv'
<1> DEFINE zombies == {i \in Slots : child[i] \in Gone}
<1>1. Running /\ parent \notin InSigInt /\ Working /\ kind # "v01"
  BY DEF SigChld, Running, Working, IInv, Control
<1>2. CASE parent = "forked" /\ at \in zombies
  <2>1. End("can't find the child")
    BY <1>2 DEF SigChld
  <2>2. ended' = "can't find the child"
    BY <2>1 DEF End
  <2>3. ShortageIsRace'
    BY <2>2 DEF ShortageIsRace
  <2>4. QED
    BY <1>1, <2>1, <2>3, EndKeeps
<1>3. CASE ~(parent = "forked" /\ at \in zombies)
  <2>1. /\ UNCHANGED <<kind, parent, locked, stray, rset, nsel, deep, at, known, nconn>>
        /\ UNCHANGED <<nchildren, pipe, lost, backlog, ended>> /\ ended = "no"
    BY <1>3 DEF SigChld, selected, Running
  <2>2. /\ child' = [i \in Slots |-> IF i \in zombies THEN "none" ELSE child[i]]
        /\ status' = [i \in Slots |-> IF i \in zombies THEN 0 ELSE status[i]]
    BY <1>3 DEF SigChld
  <2>3. sigchld' = FALSE
    BY <1>3 DEF SigChld
  <2>4. TypeOK /\ Table
    BY <1>1 DEF IInv
  <2>5. TypeOK'
    <3>1. child' \in [Slots -> Gone \union {"none", "free", "accept", "unarmed", "timeout", "leaving",
                                        "taken", "busy"}]
      BY <2>2, <2>4 DEF TypeOK
    <3>2. status' \in [Slots -> {0, 1}]
      BY <2>2, <2>4 DEF TypeOK
    <3>3. QED
      BY <2>1, <2>3, <2>4, <3>1, <3>2 DEF TypeOK
  <2>6. Control'
    BY <1>1, <2>1, <2>2, <2>3 DEF IInv, Control, Growing
  <2>7. Count'
    <3>1. Staying' = Staying
      BY <2>2 DEF Staying, Alive, Gone
    <3>2. QED
      BY <1>1, <2>1, <3>1 DEF IInv, Count, Reckoned, Growing
  <2>8. Table'
    <3>1. Growing => child'[at] \notin {"leaving", "left"}
      BY <2>2, <2>4 DEF Table, IInv, Control, Growing
    <3>2. parent = "forked" => child'[at] # "none"
      BY <1>3, <2>2, <2>4 DEF Table, IInv, Control, Growing
    <3>3. \A i \in Slots : status'[i] = 0 /\ ~Filling(i) => child'[i] = "none"
      BY <1>1, <2>2, <2>4 DEF Table
    <3>4. QED
      BY <1>1, <2>1, <3>1, <3>2, <3>3 DEF Table, Growing, Filling
  <2>9. Bytes'
    BY <1>1, <2>1 DEF Bytes
  <2>10. Losses'
    <3>1. Crashed' = {}
      BY <2>2 DEF Crashed, Gone
    <3>2. Forgotten' \in SUBSET (Crashed \union Forgotten)
      BY <2>1, <2>2, <2>4 DEF Forgotten, Crashed, Gone, Table, Growing
    <3>3. Crashed' \union Forgotten' \in SUBSET (Crashed \union Forgotten)
      BY <3>1, <3>2
    <3>4. Cardinality(Crashed' \union Forgotten') <= Cardinality(Crashed \union Forgotten)
      BY <3>3, LostSets, Smaller
    <3>5. Cardinality(Crashed' \union Forgotten') \in Nat
      BY <3>3, LostSets, Finite
    <3>6. Cardinality(Crashed \union Forgotten) <= lost /\ lost \in Nat
      BY <1>1, <2>4 DEF IInv, Losses, TypeOK
    <3>7. Cardinality(Crashed' \union Forgotten') <= lost
      BY <3>4, <3>5, <3>6, LostSets
    <3>8. QED
      BY <1>1, <2>1, <3>7 DEF Losses
  <2>11. ShortageIsRace'
    BY <2>1 DEF ShortageIsRace
  <2>12. QED
    BY <2>5, <2>6, <2>7, <2>8, <2>9, <2>10, <2>11 DEF IInv
<1>4. QED
  BY <1>2, <1>3

\* SIGTERM to some; what the table says no longer matters.
LEMMA InterruptKeeps == ASSUME IInv, Interrupt PROVE IInv'
<1>1. PICK S : Terminate(S)
  BY DEF Interrupt
<1>2. /\ UNCHANGED <<kind, stray, rset, nsel, deep, at, known, status, nconn>>
      /\ UNCHANGED <<nchildren, pipe, lost, backlog>>
      /\ child' = [i \in Slots |-> IF i \in S THEN "none" ELSE child[i]]
  BY <1>1 DEF Terminate, selected, table
<1>3. UNCHANGED <<locked, sigchld>>
  BY <1>1 DEF Terminate
<1>4. \/ parent' \in InSigInt /\ ended' = ended
      \/ parent' = parent /\ ended' = "quit" /\ kind # "v01"
  BY DEF Interrupt, Waits
<1>5. ended = "no" /\ parent \in {"select", "lock", "grow", "forked", "stored"}
  BY DEF Interrupt, Running
<1>6. TypeOK'
  <2>1. TypeOK
    BY DEF IInv
  <2>2. child' \in [Slots -> Gone \union {"none", "free", "accept", "unarmed", "timeout", "leaving",
                                        "taken", "busy"}]
    BY <1>2, <2>1 DEF TypeOK
  <2>3. QED
    BY <1>2, <1>3, <1>4, <2>1, <2>2 DEF TypeOK
<1>7. Control'
  <2>1. \A i \in Slots : child'[i] = child[i] \/ child'[i] = "none"
    BY <1>2
  <2>2. QED
    BY <1>2, <1>3, <1>4, <1>5, <2>1 DEF IInv, Control, Growing
<1>8. ~Working'
  BY <1>4 DEF Working
<1>9. Bytes'
  <2>1. \A j \in Slots : Latest(j)' <=> Latest(j)
    BY <1>2 DEF Latest
  <2>2. QED
    BY <1>2, <1>4, <1>8, <2>1 DEF IInv, Bytes
<1>10. Losses'
  <2>1. SUFFICES ASSUME kind = "v01" PROVE Losses'
    BY <1>2, <1>8 DEF Losses
  <2>2. Busy' = Busy
    BY <1>2 DEF Busy
  <2>3. Crashed' \in SUBSET Crashed
    BY <1>2 DEF Crashed
  <2>4. Cardinality(Crashed') <= Cardinality(Crashed) /\ Cardinality(Crashed') \in Nat
    BY <2>3, LostSets, Smaller, Finite
  <2>5. Cardinality(Busy) <= nconn /\ (nconn - Cardinality(Busy)) + Cardinality(Crashed) <= lost
    BY <2>1 DEF IInv, Losses
  <2>6. nconn \in Nat /\ lost \in Nat
    BY DEF IInv, TypeOK
  <2>7. (nconn - Cardinality(Busy)) + Cardinality(Crashed') <= lost
    BY <2>4, <2>5, <2>6, LostSets
  <2>8. QED
    BY <1>2, <2>1, <2>2, <2>5, <2>7 DEF Losses
<1>11. ShortageIsRace'
  BY <1>4, <1>5 DEF ShortageIsRace
<1>12. QED
  BY <1>6, <1>7, <1>8, <1>9, <1>10, <1>11 DEF IInv, Count

LEMMA WaitReturnsKeeps == ASSUME IInv, WaitReturns PROVE IInv'
<1>1. Running /\ End("quit")
  BY DEF WaitReturns
<1>2. ended' = "quit"
  BY <1>1 DEF End
<1>3. ShortageIsRace'
  BY <1>2 DEF ShortageIsRace
<1>4. QED
  BY <1>1, <1>3, EndKeeps

-----------------------------------------------------------------------------
(* The parent of v01 reads bytes, and the ends of files.                   *)

LEMMA TailKeepsLast ==
  ASSUME NEW s \in Seq({"0", "1"}), s # <<>>
  PROVE  /\ Head(s) \in {"0", "1"} /\ Tail(s) \in Seq({"0", "1"}) /\ Len(Tail(s)) <= Len(s)
         /\ Tail(s) = <<>> => Head(s) = s[Len(s)]
         /\ Tail(s) # <<>> => Tail(s)[Len(Tail(s))] = s[Len(s)]
<1>1. Len(s) \in Nat /\ Len(s) >= 1
  OBVIOUS
<1>2. Head(s) = s[1] /\ Head(s) \in {"0", "1"}
  BY <1>1
<1>3. Tail(s) \in Seq({"0", "1"}) /\ Len(Tail(s)) = Len(s) - 1
  BY <1>1
<1>4. Tail(s) = <<>> => Len(s) = 1
  <2>1. Len(<<>>) = 0
    OBVIOUS
  <2>2. Tail(s) = <<>> => Len(s) - 1 = 0
    BY <1>3, <2>1
  <2>3. QED
    BY <1>1, <2>2
<1>5. ASSUME Tail(s) # <<>> PROVE Tail(s)[Len(Tail(s))] = s[Len(s)]
  <2>1. Len(Tail(s)) \in Nat /\ Len(Tail(s)) >= 1
    BY <1>3, <1>5
  <2>2. Tail(s)[Len(Tail(s))] = s[Len(Tail(s)) + 1]
    BY <1>1, <1>3, <2>1
  <2>3. Len(Tail(s)) + 1 = Len(s)
    BY <1>1, <1>3
  <2>4. QED
    BY <2>2, <2>3
<1>6. Tail(s) = <<>> => Head(s) = s[Len(s)]
  BY <1>2, <1>4
<1>7. Len(Tail(s)) <= Len(s)
  BY <1>1, <1>3
<1>8. QED
  BY <1>2, <1>3, <1>5, <1>6, <1>7

LEMMA ScanKeeps == ASSUME IInv, Scan PROVE IInv'
<1> DEFINE read == Scanned \intersect rset
           ends == {i \in read : pipe[i] = <<>>}
           again == {i \in ends : nchildren + Cardinality({j \in ends : j < i}) < MinConn}
           says(byte, was) == {i \in read \ ends : Head(pipe[i]) = byte /\ status[i] = was}
           up == says("1", 0)
           down == says("0", 1)
<1>1. Running /\ kind = "v01" /\ parent = "lock" /\ Working /\ ~Growing
  BY DEF Scan, Running, Working, Growing
<1>2. TypeOK /\ Control /\ Table /\ Bytes
  BY <1>1 DEF IInv
<1>3. /\ UNCHANGED <<kind, stray, deep, at, sigchld, lost, backlog, ended>> /\ parent' = "grow"
      /\ rset' = {} /\ nsel' = 0 /\ ended = "no"
  BY DEF Scan, Running
<1>4. locked' = TRUE
  BY DEF Scan
<1>5. /\ known' = (known \ ends) \union again /\ nchildren' = nchildren + Cardinality(again)
      /\ nconn' = (nconn + Cardinality(up)) - Cardinality(down)
      /\ status' = [i \in Slots |-> IF i \in up THEN 1 ELSE IF i \in down \union ends THEN 0 ELSE status[i]]
      /\ pipe' = [i \in Slots |-> IF i \in read \ ends THEN Tail(pipe[i]) ELSE pipe[i]]
      /\ child' = [i \in Slots |-> IF i \in again THEN Loop ELSE IF i \in ends THEN "none" ELSE child[i]]
  BY DEF Scan
<1>6. /\ read \in SUBSET known /\ known \in SUBSET Slots
      /\ ends \in SUBSET read /\ up \in SUBSET (read \ ends) /\ down \in SUBSET (read \ ends)
      /\ \A i \in ends : child[i] \in Gone
  BY <1>1, <1>2 DEF Bytes, TypeOK
<1>7. nchildren \in Nat /\ MinConn \in Nat /\ MinConn <= nchildren
  BY <1>2, LimitsAssumption DEF TypeOK, Control
<1>8. again = {}
  <2>1. SUFFICES ASSUME NEW i \in ends PROVE ~(nchildren + Cardinality({j \in ends : j < i}) < MinConn)
    OBVIOUS
  <2>2. {j \in ends : j < i} \in SUBSET Slots
    BY <1>6
  <2>3. Cardinality({j \in ends : j < i}) \in Nat
    BY <2>2, Finite
  <2>4. QED
    BY <1>7, <2>3
<1>9. nchildren' = nchildren /\ known' = known \ ends
  <2>1. Cardinality(again) = 0
    BY <1>8, FS_EmptySet
  <2>2. nchildren' = nchildren + Cardinality(again) /\ known' = (known \ ends) \union again
    BY <1>5
  <2>3. nchildren' = nchildren
    BY <1>7, <2>1, <2>2
  <2>4. known' = known \ ends
    BY <1>8, <2>2
  <2>5. QED
    BY <2>3, <2>4
<1>10. /\ \A i \in ends : child'[i] = "none" /\ status'[i] = 0
       /\ \A i \in Slots \ ends : child'[i] = child[i]
       /\ \A i \in Slots \ read : status'[i] = status[i] /\ pipe'[i] = pipe[i]
  BY <1>5, <1>6, <1>8
<1>11. \A i \in read \ ends : /\ pipe'[i] = Tail(pipe[i]) /\ pipe[i] # <<>>
                             /\ status'[i] = IF i \in up THEN 1 ELSE IF i \in down THEN 0 ELSE status[i]
  BY <1>5, <1>6
<1>12. pipe \in [Slots -> Seq({"0", "1"})] /\ status \in [Slots -> {0, 1}] /\ \A i \in Slots : Len(pipe[i]) <= PipeSize
  BY <1>2 DEF TypeOK
<1>13. Cardinality(Busy') <= nconn' /\ (nconn' - Cardinality(Busy')) + Cardinality(Crashed') <= lost /\ nconn' \in Nat
  <2> DEFINE kept == Busy \ (down \union ends)
             ended1 == ends \intersect Busy
  <2>1. Busy = (kept \union down) \union ended1 /\ (kept \union down) \intersect ended1 = {} /\ kept \intersect down = {}
    BY <1>6 DEF Busy
  <2>2. Busy' = kept \union up /\ kept \intersect up = {}
    BY <1>6, <1>10, <1>11 DEF Busy
  <2>3. kept \in SUBSET Slots /\ down \in SUBSET Slots /\ up \in SUBSET Slots /\ ended1 \in SUBSET Slots
    BY <1>6 DEF Busy
  <2>4. Cardinality(Busy) = (Cardinality(kept) + Cardinality(down)) + Cardinality(ended1)
    <3>1. Cardinality(kept \union down) = Cardinality(kept) + Cardinality(down)
      BY <2>1, <2>3, Apart
    <3>2. kept \union down \in SUBSET Slots
      BY <2>3
    <3>3. QED
      BY <2>1, <2>3, <3>1, <3>2, Apart
  <2>5. Cardinality(Busy') = Cardinality(kept) + Cardinality(up)
    BY <2>2, <2>3, Apart
  <2>6. Crashed' \in SUBSET Slots /\ Crashed' \union ended1 \in SUBSET Crashed /\ Crashed' \intersect ended1 = {}
    <3>1. Crashed' = Crashed \ ends
      BY <1>6, <1>10 DEF Crashed
    <3>2. \A i \in ended1 : Latest(i) /\ i \in Slots
      BY <1>6 DEF Latest, Busy
    <3>3. ended1 \in SUBSET Crashed
      BY <1>1, <1>2, <1>6, <3>2 DEF Bytes, Gone, Crashed
    <3>4. QED
      BY <3>1, <3>3, LostSets
  <2>7. Cardinality(Crashed') + Cardinality(ended1) <= Cardinality(Crashed)
    <3>1. Cardinality(Crashed' \union ended1) = Cardinality(Crashed') + Cardinality(ended1)
      BY <2>3, <2>6, Apart
    <3>2. QED
      BY <2>6, <3>1, LostSets, Smaller
  <2>8. Cardinality(Busy) <= nconn /\ (nconn - Cardinality(Busy)) + Cardinality(Crashed) <= lost
    BY <1>1 DEF IInv, Losses
  <2>9. nconn \in Nat /\ lost \in Nat
    BY <1>2 DEF TypeOK
  <2>10. /\ Cardinality(kept) \in Nat /\ Cardinality(down) \in Nat /\ Cardinality(up) \in Nat
         /\ Cardinality(ended1) \in Nat /\ Cardinality(Crashed') \in Nat
    BY <2>3, <2>6, Finite
  <2>11. nconn' = (nconn + Cardinality(up)) - Cardinality(down)
    BY <1>5
  <2>12. Cardinality(Crashed) \in Nat
    BY LostSets
  <2> HIDE DEF kept, ended1, up, down
  <2>13. QED
    BY <2>4, <2>5, <2>7, <2>8, <2>9, <2>10, <2>11, <2>12
<1>14. TypeOK'
  <2>1. \A i \in read \ ends : Tail(pipe[i]) \in Seq({"0", "1"}) /\ Len(Tail(pipe[i])) <= PipeSize
    <3>1. SUFFICES ASSUME NEW i \in read \ ends
                   PROVE  Tail(pipe[i]) \in Seq({"0", "1"}) /\ Len(Tail(pipe[i])) <= PipeSize
      OBVIOUS
    <3>2. pipe[i] \in Seq({"0", "1"}) /\ pipe[i] # <<>> /\ Len(pipe[i]) <= PipeSize
      BY <1>6, <1>11, <1>12
    <3>3. Tail(pipe[i]) \in Seq({"0", "1"}) /\ Len(Tail(pipe[i])) <= Len(pipe[i])
      BY <3>2, TailKeepsLast
    <3>4. Len(Tail(pipe[i])) \in Nat /\ Len(pipe[i]) \in Nat /\ PipeSize \in Nat
      BY <3>2, <3>3, LimitsAssumption
    <3>5. QED
      BY <3>2, <3>3, <3>4
  <2>2. pipe' \in [Slots -> Seq({"0", "1"})] /\ \A i \in Slots : Len(pipe'[i]) <= PipeSize
    BY <1>5, <1>12, <2>1
  <2>3. child' \in [Slots -> Gone \union {"none", "free", "accept", "unarmed", "timeout", "leaving",
                                        "taken", "busy"}]
    BY <1>2, <1>5, <1>8 DEF TypeOK
  <2>4. status' \in [Slots -> {0, 1}] /\ known' \subseteq Slots
    BY <1>5, <1>6, <1>9, <1>12
  <2>5. QED
    BY <1>2, <1>3, <1>4, <1>7, <1>9, <1>13, <2>2, <2>3, <2>4 DEF TypeOK
<1>15. Control'
  <2>1. \A i \in Slots : child'[i] # "leaving"
    BY <1>1, <1>2, <1>10 DEF Control
  <2>2. QED
    BY <1>1, <1>2, <1>3, <1>4, <1>9, <2>1 DEF Control, Growing
<1>16. Count'
  <2>1. Staying' = Staying
    BY <1>6, <1>10 DEF Staying, Alive, Gone
  <2>2. Reckoned' = Reckoned
    BY <1>1, <1>3, <1>9 DEF Reckoned, Growing
  <2>3. QED
    BY <1>1, <1>3, <2>1, <2>2 DEF IInv, Count
<1>17. Table'
  <2>1. \A i \in known' : child'[i] # "none"
    BY <1>1, <1>2, <1>6, <1>9, <1>10 DEF Table
  <2>2. \A i \in Slots \ known : status[i] = 0 /\ child[i] = "none"
    BY <1>1, <1>2 DEF Table, Filling
  <2>3. \A i \in Slots \ known' : status'[i] = 0 /\ child'[i] = "none"
    BY <1>6, <1>9, <1>10, <2>2
  <2>4. QED
    BY <1>1, <1>3, <2>1, <2>3 DEF Table, Growing
<1>18. Bytes'
  <2>1. \A i \in Slots \ read : Latest(i)' <=> Latest(i)
    BY <1>10 DEF Latest
  <2>2. ASSUME NEW i \in read \ ends PROVE Latest(i)' <=> Latest(i)
    <3>1. pipe[i] \in Seq({"0", "1"}) /\ pipe[i] # <<>> /\ pipe'[i] = Tail(pipe[i]) /\ status[i] \in {0, 1}
      BY <1>6, <1>11, <1>12
    <3>2. /\ Head(pipe[i]) \in {"0", "1"}
          /\ Tail(pipe[i]) = <<>> => Head(pipe[i]) = pipe[i][Len(pipe[i])]
          /\ Tail(pipe[i]) # <<>> => Tail(pipe[i])[Len(Tail(pipe[i]))] = pipe[i][Len(pipe[i])]
      BY <3>1, TailKeepsLast
    <3>3. status'[i] = 1 <=> Head(pipe[i]) = "1"
      BY <1>11, <3>1, <3>2
    <3>4. QED
      BY <3>1, <3>2, <3>3 DEF Latest
  <2>3. \A i \in Slots : child'[i] \in {"accept", "unarmed", "timeout", "left", "taken"} => ~Latest(i)'
    BY <1>1, <1>2, <1>10, <2>1, <2>2 DEF Bytes
  <2>4. QED
    BY <1>1, <1>3, <2>3 DEF Bytes
<1>19. Losses'
  BY <1>1, <1>3, <1>13 DEF Losses
<1>20. ShortageIsRace'
  BY <1>3 DEF ShortageIsRace
<1>21. QED
  BY <1>14, <1>15, <1>16, <1>17, <1>18, <1>19, <1>20 DEF IInv

-----------------------------------------------------------------------------
(* The invariant.                                                          *)

LEMMA InvInit == Init => IInv
<1> SUFFICES ASSUME Init PROVE IInv
  OBVIOUS
<1>1. /\ parent = "prefork" /\ at = 0 /\ ended = "no" /\ nconn = 0 /\ nchildren = MinConn /\ lost = 0
      /\ known = {} /\ rset = {} /\ nsel = 0 /\ backlog = 0 /\ kind \in Kinds
  BY DEF Init
<1>2. /\ status = [i \in Slots |-> 0] /\ child = [i \in Slots |-> "none"] /\ pipe = [i \in Slots |-> <<>>]
  BY DEF Init
<1>3. locked = FALSE /\ deep = FALSE /\ sigchld = FALSE /\ stray \subseteq {"lock_fd", "listenfd"}
  BY DEF Init
<1>4. /\ MinConn \in Nat \ {0} /\ MaxConn \in Nat /\ MinConn <= MaxConn
      /\ NClients \in Nat /\ PipeSize \in Nat
  BY LimitsAssumption
<1>5. TypeOK
  <2>1. 0 \in 0..MaxConn /\ 0 \in 0..NClients
    BY <1>4
  <2>2. pipe \in [Slots -> Seq({"0", "1"})]
    BY <1>2
  <2>3. \A i \in Slots : Len(pipe[i]) <= PipeSize
    <3>1. Len(<<>>) = 0
      OBVIOUS
    <3>2. QED
      BY <1>2, <1>4, <3>1
  <2>4. status \in [Slots -> {0, 1}]
    BY <1>2
  <2>5. child \in [Slots -> Gone \union {"none", "free", "accept", "unarmed", "timeout", "leaving",
                                        "taken", "busy"}]
    BY <1>2
  <2>6. QED
    BY <1>1, <1>3, <1>4, <2>1, <2>2, <2>3, <2>4, <2>5 DEF TypeOK
<1>6. Control
  <2>1. MinConn <= nchildren /\ nchildren <= MaxConn /\ at <= MinConn
    BY <1>1, <1>4
  <2>2. QED
    BY <1>1, <1>2, <1>3, <2>1 DEF Control, Growing
<1>7. Count
  <2>1. Staying = {}
    BY <1>2, StayingIs DEF Here
  <2>2. Cardinality(Staying) = 0
    BY <2>1, FS_EmptySet
  <2>3. QED
    BY <1>1, <2>2 DEF Count, Reckoned
<1>8. Table
  BY <1>1, <1>2 DEF Table, Growing
<1>9. Bytes
  BY <1>1, <1>2 DEF Bytes
<1>10. Losses
  <2>1. Busy = {} /\ Crashed = {} /\ Forgotten = {} /\ Crashed \union Forgotten = {}
    BY <1>1, <1>2 DEF Busy, Crashed, Forgotten
  <2>2. Cardinality(Busy) = 0 /\ Cardinality(Crashed) = 0 /\ Cardinality(Crashed \union Forgotten) = 0
    BY <2>1, FS_EmptySet
  <2>3. QED
    BY <1>1, <2>2 DEF Losses
<1>11. ShortageIsRace
  BY <1>1 DEF ShortageIsRace
<1>12. QED
  BY <1>5, <1>6, <1>7, <1>8, <1>9, <1>10, <1>11 DEF IInv

LEMMA InvStep == IInv /\ [Next]_vars => IInv'
<1> SUFFICES ASSUME IInv, [Next]_vars PROVE IInv'
  OBVIOUS
<1>1. ASSUME NEW i \in Slots, ChildStep(i) \/ AlarmMissed(i) \/ Crash(i) PROVE IInv'
  BY <1>1, ChildStepKeeps
<1>2. CASE ParentStep
  BY <1>2, PreforkKeeps, PreforkedKeeps, StorePidKeeps, StoreStatusKeeps, SelectKeeps, ScanKeeps,
     GrowKeeps, GrowQueueKeeps, WaitReturnsKeeps DEF ParentStep
<1>3. CASE SigChld
  BY <1>3, SigChldKeeps
<1>4. CASE Interrupt \/ Connect
  BY <1>4, InterruptKeeps, ConnectKeeps
<1>5. CASE UNCHANGED vars
  <2>1. /\ UNCHANGED <<kind, parent, locked, stray, rset, nsel, deep, at, known, status, nconn>>
        /\ UNCHANGED <<nchildren, child, pipe, sigchld, lost, backlog, ended>>
    BY <1>5 DEF vars, selected, table, children
  <2>2. TypeOK'
    <3>1. TypeOK
      BY DEF IInv
    <3>2. QED
      BY <2>1, <3>1 DEF TypeOK
  <2>3. Control'
    BY <2>1 DEF IInv, Control, Growing
  <2>4. Working' => Working /\ Reckoned' = Reckoned
    BY <2>1 DEF Working, Reckoned, Growing
  <2>5. Count' /\ (Working' => Table') /\ Losses' /\ \A j \in Slots : Latest(j)' <=> Latest(j)
    BY <2>1, <2>4, Quiet
  <2>6. Bytes'
    BY <2>1, <2>4, <2>5 DEF IInv, Bytes
  <2>7. ShortageIsRace'
    BY <2>1 DEF IInv, ShortageIsRace
  <2>8. QED
    BY <2>2, <2>3, <2>5, <2>6, <2>7 DEF IInv
<1>6. QED
  BY <1>1, <1>2, <1>3, <1>4, <1>5 DEF Next, Environment, Ended

LEMMA Inductive == Spec => []IInv
<1>1. Init => IInv
  BY InvInit
<1>2. IInv /\ [Next]_vars => IInv'
  BY InvStep
<1>3. QED
  BY <1>1, <1>2, PTL DEF Spec

\* Every variable keeps its type, and no pipe holds more than it can.
THEOREM Typing == Spec => []TypeOK
<1>1. IInv => TypeOK
  BY DEF IInv
<1>2. QED
  BY <1>1, Inductive, PTL

\* nchildren, which parent and children change under the lock, stays between minconn and
\* maxconn and is the number of children that live and of those that crashed, for any
\* limits of the pool; nconn is the number of busy children, but for crashes.
THEOREM PoolIsAccounted == Spec => []PoolAccounting
<1>1. IInv => PoolAccounting
  <2> SUFFICES ASSUME IInv PROVE PoolAccounting
    OBVIOUS
  <2>1. TypeOK
    BY DEF IInv
  <2>2. /\ nchildren \in Nat /\ lost \in Nat /\ nconn \in Nat /\ Cardinality(Staying) \in Nat
    BY <2>1, Finite, StayingIs DEF TypeOK
  <2>3. MinConn <= nchildren /\ nchildren <= MaxConn
    BY DEF IInv, Control
  <2>4. ASSUME parent \notin {"prefork"} \union InSigInt, ended # "quit"
        PROVE  nchildren + (IF parent \in {"forked", "stored"} THEN 1 ELSE 0) = Cardinality(Staying) + lost
    <3>1. Cardinality(Staying) + lost = Reckoned
      BY <2>4 DEF IInv, Count, Working
    <3>2. Reckoned = IF parent \in {"forked", "stored"} THEN nchildren + 1 ELSE nchildren
      BY <2>4 DEF Reckoned, Growing
    <3>3. QED
      BY <2>2, <3>1, <3>2
  <2>5. ASSUME kind = "v01" PROVE nconn - Cardinality({i \in Slots : status[i] = 1}) \in 0..lost
    <3>1. Cardinality(Busy) <= nconn /\ (nconn - Cardinality(Busy)) + Cardinality(Crashed) <= lost
      BY <2>5 DEF IInv, Losses
    <3>2. nconn - Cardinality(Busy) \in 0..lost
      BY <2>2, <3>1, LostSets
    <3>3. QED
      BY <3>2 DEF Busy
  <2>6. QED
    BY <2>3, <2>4, <2>5 DEF PoolAccounting
<1>2. QED
  BY <1>1, Inductive, PTL

\* A server that finds no slot for a new child has one whose child has counted itself out.
THEOREM ShortageOnlyInRace == Spec => []ShortageIsRace
<1>1. IInv => ShortageIsRace
  BY DEF IInv
<1>2. QED
  BY <1>1, Inductive, PTL

-----------------------------------------------------------------------------
(***************************************************************************)
(* Proofs about AcceptRing, for any finite pool, any clients and any       *)
(* length of clifd[]: the ring implements the bounded queue of HandOff,    *)
(* and no thread sleeps without need while a descriptor is queued.         *)
(*                                                                         *)
(* The arithmetic of the two indices is settled once, in the lemmas on     *)
(* Ring (an index after another, a store, a removal); the rest speaks of   *)
(* sequences.                                                              *)
(***************************************************************************)
\* What is in the ring and in main's hand.
RingInv ==
    /\ \A k \in 1..Length : Ring[k] \in Clients
    /\ \A t \in Threads : pc[t] = "serve" <=> fd[t] # NoClient
    /\ connfd # NoClient =>
          /\ \A k \in 1..Length : Ring[k] # connfd
          /\ \A t \in Threads : fd[t] # connfd

Serv08IInv == Serv08TypeOK /\ RingInv /\ NoIdleWhileQueued

-----------------------------------------------------------------------------
(* The ring as a sequence.                                                 *)

LEMMA RingShape ==
    ASSUME Serv08TypeOK
    PROVE  /\ Length \in 0..(MaxNCli - 1)
           /\ Length = 0 <=> iget = iput
           /\ Length = MaxNCli - 1 <=> Advance(iput) = iget
           /\ \A k \in 1..Length : Index(k) \in 0..(MaxNCli - 1)
           /\ \A k \in 1..Length : Ring[k] = clifd[Index(k)]
           /\ Ring \in Seq(Clients \union {NoClient})
           /\ Len(Ring) = Length
           /\ DOMAIN Ring = 1..Length
<1> USE RingAssumption DEF Serv08TypeOK
<1>1. Length \in 0..(MaxNCli - 1) /\ (Length = 0 <=> iget = iput)
  BY DEF Length
<1>2. Length = MaxNCli - 1 <=> Advance(iput) = iget
  BY DEF Length, Advance
<1>3. \A k \in 1..Length : Index(k) \in 0..(MaxNCli - 1)
  BY DEF Length, Index
<1>4. \A k \in 1..Length : Ring[k] = clifd[Index(k)]
  BY DEF Ring
<1>5. Ring \in [1..Length -> Clients \union {NoClient}]
  BY <1>3 DEF Ring
<1>6. Ring \in Seq(Clients \union {NoClient}) /\ Len(Ring) = Length /\ DOMAIN Ring = 1..Length
  BY <1>1, <1>5
<1>7. QED
  BY <1>1, <1>2, <1>3, <1>4, <1>6

LEMMA RingStore ==
    ASSUME Serv08TypeOK, Serv08TypeOK', NEW c \in Clients, Advance(iput) # iget,
           clifd' = [clifd EXCEPT ![iput] = c], iput' = Advance(iput), iget' = iget
    PROVE  /\ Ring' = Append(Ring, c)
           /\ Length' = Length + 1
           /\ \A k \in 1..Length : Ring'[k] = Ring[k]
           /\ Ring'[Length + 1] = c
<1> USE RingAssumption
<1>1. Length' = Length + 1
  BY DEF Length, Advance, Serv08TypeOK
<1>2. \A k \in 1..Length : Index(k)' = Index(k) /\ Index(k) # iput
  BY DEF Index, Length, Serv08TypeOK
<1>3. \A k \in Nat : k = Length + 1 => Index(k)' = iput
  BY DEF Index, Length, Serv08TypeOK
<1>4. \A k \in 1..(Length + 1) : Ring'[k] = IF k <= Length THEN Ring[k] ELSE c
  <2> SUFFICES ASSUME NEW k \in 1..(Length + 1)
               PROVE  Ring'[k] = IF k <= Length THEN Ring[k] ELSE c
    OBVIOUS
  <2>1. Length \in Nat
    BY RingShape
  <2>2. Ring'[k] = clifd'[Index(k)']
    BY <1>1 DEF Ring
  <2>3. CASE k <= Length
    BY <1>2, <2>1, <2>2, <2>3, RingShape DEF Serv08TypeOK
  <2>4. CASE k = Length + 1
    <3>1. Index(k)' = iput
      BY <1>3, <2>1, <2>4
    <3>2. QED
      BY <2>1, <2>2, <2>4, <3>1 DEF Serv08TypeOK
  <2>5. QED
    BY <2>1, <2>3, <2>4
<1>5. /\ Ring' \in Seq(Clients \union {NoClient})
      /\ Len(Ring') = Length + 1
  <2>1. Ring' = [k \in 1..(Length + 1) |-> Ring'[k]]
    BY <1>1 DEF Ring
  <2>2. \A k \in 1..(Length + 1) : Ring'[k] \in Clients \union {NoClient}
    BY <1>4, RingShape
  <2>3. QED
    BY <2>1, <2>2, RingShape
<1>6. /\ Append(Ring, c) \in Seq(Clients \union {NoClient})
      /\ Len(Append(Ring, c)) = Length + 1
      /\ \A k \in 1..(Length + 1) :
            Append(Ring, c)[k] = IF k <= Length THEN Ring[k] ELSE c
  BY RingShape, AppendProperties
<1>7. Ring' = Append(Ring, c)
  BY <1>4, <1>5, <1>6, SeqEqual
<1>8. QED
  BY <1>1, <1>4, <1>7, RingShape

LEMMA RingRemove ==
    ASSUME Serv08TypeOK, Serv08TypeOK', iget # iput,
           UNCHANGED <<clifd, iput>>, iget' = Advance(iget)
    PROVE  /\ Ring # <<>> /\ Head(Ring) = clifd[iget]
           /\ Length >= 1 /\ Ring[1] = clifd[iget]
           /\ Ring' = Tail(Ring)
           /\ Length' = Length - 1
           /\ \A k \in 1..Length' : Ring'[k] = Ring[k + 1]
<1> USE RingAssumption
<1>1. Length' = Length - 1 /\ Length >= 1
  BY DEF Length, Advance, Serv08TypeOK
<1>2. Index(1) = iget
  BY DEF Index, Serv08TypeOK
<1>3. \A k \in 1..Length' : Index(k)' = Index(k + 1)
  BY DEF Index, Length, Advance, Serv08TypeOK
<1>4. Ring # <<>> /\ Head(Ring) = clifd[iget] /\ Ring[1] = clifd[iget]
  BY <1>1, <1>2, RingShape
<1>5. \A k \in 1..Length' : Ring'[k] = Ring[k + 1]
  <2> SUFFICES ASSUME NEW k \in 1..Length' PROVE Ring'[k] = Ring[k + 1]
    OBVIOUS
  <2>1. Ring'[k] = clifd[Index(k)']
    BY DEF Ring
  <2>2. k + 1 \in 1..Length
    BY <1>1, RingShape
  <2>3. QED
    BY <1>3, <2>1, <2>2, RingShape
<1>6. /\ Ring' \in Seq(Clients \union {NoClient})
      /\ Len(Ring') = Length - 1
  <2>1. Ring' = [k \in 1..(Length - 1) |-> Ring'[k]]
    BY <1>1 DEF Ring
  <2>2. \A k \in 1..(Length - 1) : Ring'[k] \in Clients \union {NoClient}
    BY <1>1, <1>5, RingShape, ElementOfSeq
  <2>3. QED
    BY <1>1, <2>1, <2>2, RingShape
<1>7. /\ Tail(Ring) \in Seq(Clients \union {NoClient})
      /\ Len(Tail(Ring)) = Length - 1
      /\ \A k \in 1..(Length - 1) : Tail(Ring)[k] = Ring[k + 1]
  BY <1>4, RingShape, HeadTailProperties
<1>8. Ring' = Tail(Ring)
  BY <1>1, <1>5, <1>6, <1>7, SeqEqual
<1>9. QED
  BY <1>1, <1>4, <1>5, <1>8

LEMMA RingSame ==
    ASSUME UNCHANGED <<clifd, iget, iput>>
    PROVE  Ring' = Ring /\ Length' = Length
BY DEF Ring, Length, Index

LEMMA Members ==
    /\ IsFiniteSet(Getting) /\ Cardinality(Getting) \in Nat
    /\ \A t \in Threads : IsFiniteSet(Getting \union {t}) /\ IsFiniteSet(Getting \ {t})
<1>1. Getting \in SUBSET Threads
  BY DEF Getting
<1>2. IsFiniteSet(Getting)
  BY <1>1, PoolAssumption, FS_Subset
<1>3. QED
  BY <1>2, FS_CardinalityType, FS_AddElement, FS_RemoveElement

-----------------------------------------------------------------------------
(* The invariant.                                                          *)

LEMMA TypeStep == Serv08TypeOK /\ [Serv08Next]_serv08_vars => Serv08TypeOK'
<1> SUFFICES ASSUME Serv08TypeOK, [Serv08Next]_serv08_vars PROVE Serv08TypeOK'
  OBVIOUS
<1> USE RingAssumption DEF Serv08TypeOK
<1>1. Advance(iput) \in 0..(MaxNCli - 1) /\ Advance(iget) \in 0..(MaxNCli - 1)
  BY DEF Advance
<1>2. CASE Put
  BY <1>1, <1>2 DEF Put, Store, Signal, Waiting
<1>3. CASE Overflow
  BY <1>1, <1>3 DEF Overflow, Store
<1>4. ASSUME NEW t \in Threads, Wait(t) PROVE Serv08TypeOK'
  BY <1>4 DEF Wait
<1>5. ASSUME NEW t \in Threads, Get(t) PROVE Serv08TypeOK'
  BY <1>1, <1>5 DEF Get
<1>6. ASSUME NEW t \in Threads, Finish(t) PROVE Serv08TypeOK'
  BY <1>6 DEF Finish
<1>7. ASSUME NEW c \in Clients, Accept(c) PROVE Serv08TypeOK'
  BY <1>7 DEF Accept
<1>8. CASE AcceptFails
  BY <1>8 DEF AcceptFails
<1>9. ASSUME NEW t \in Threads, SpuriousWakeup(t) PROVE Serv08TypeOK'
  BY <1>9 DEF SpuriousWakeup
<1>10. ASSUME NEW t \in Threads, ReplyExits(t) PROVE Serv08TypeOK'
  BY <1>10 DEF ReplyExits
<1>11. CASE UNCHANGED serv08_vars
  BY <1>11 DEF serv08_vars
<1>12. QED
  BY <1>2, <1>3, <1>4, <1>5, <1>6, <1>7, <1>8, <1>9, <1>10, <1>11
     DEF Serv08Next, MainStep, ThreadStep, ClientStep, Serv08Environment, Exited

LEMMA RingStep == Serv08TypeOK /\ RingInv /\ [Serv08Next]_serv08_vars => RingInv'
<1> SUFFICES ASSUME Serv08TypeOK, RingInv, [Serv08Next]_serv08_vars PROVE RingInv'
  OBVIOUS
<1> USE PoolAssumption DEF RingInv
<1>0. Serv08TypeOK'
  BY TypeStep
<1>1. Length \in Nat
  BY RingShape
<1>2. CASE Put
  <2>1. connfd \in Clients
    BY <1>2 DEF Put, Store, Serv08TypeOK
  <2>2. /\ Length' = Length + 1
        /\ \A k \in 1..Length : Ring'[k] = Ring[k]
        /\ Ring'[Length + 1] = connfd
    BY <1>0, <1>2, <2>1, RingStore DEF Put, Store
  <2>3. \A k \in 1..(Length + 1) : Ring'[k] \in Clients
    BY <1>1, <2>1, <2>2
  <2>4. \A t \in Threads : (pc'[t] = "serve" <=> pc[t] = "serve") /\ fd'[t] = fd[t]
    BY <1>2 DEF Put, Signal, Waiting, Serv08TypeOK
  <2>5. connfd' = NoClient
    BY <1>2 DEF Put, Store
  <2>6. QED
    BY <2>2, <2>3, <2>4, <2>5
<1>3. CASE Overflow
  <2>1. Length' = 0
    BY <1>3 DEF Overflow, Store, Length, Serv08TypeOK
  <2>2. QED
    BY <1>3, <2>1 DEF Overflow, Store
<1>4. ASSUME NEW t \in Threads, Wait(t) PROVE RingInv'
  BY <1>4, RingSame DEF Wait, Serv08TypeOK
<1>5. ASSUME NEW t \in Threads, Get(t) PROVE RingInv'
  <2>1. /\ Length >= 1 /\ Ring[1] = clifd[iget]
        /\ Length' = Length - 1
        /\ \A k \in 1..Length' : Ring'[k] = Ring[k + 1]
    BY <1>0, <1>5, RingRemove DEF Get
  <2>2. clifd[iget] \in Clients /\ clifd[iget] # connfd
    BY <1>1, <2>1
  <2>3. \A k \in 1..Length' : k + 1 \in 1..Length
    BY <1>1, <2>1
  <2>4. QED
    BY <1>5, <2>1, <2>2, <2>3 DEF Get, Serv08TypeOK
<1>6. ASSUME NEW t \in Threads, Finish(t) PROVE RingInv'
  BY <1>6, RingSame DEF Finish, Serv08TypeOK
<1>7. ASSUME NEW c \in Clients, Accept(c) PROVE RingInv'
  BY <1>7, RingSame DEF Accept, Unconnected, Serv08TypeOK
<1>8. CASE AcceptFails
  BY <1>8, RingSame DEF AcceptFails
<1>9. ASSUME NEW t \in Threads, SpuriousWakeup(t) PROVE RingInv'
  BY <1>9, RingSame DEF SpuriousWakeup, Serv08TypeOK
<1>10. ASSUME NEW t \in Threads, ReplyExits(t) PROVE RingInv'
  BY <1>10, RingSame DEF ReplyExits
<1>11. CASE UNCHANGED serv08_vars
  BY <1>11, RingSame DEF serv08_vars
<1>12. QED
  BY <1>2, <1>3, <1>4, <1>5, <1>6, <1>7, <1>8, <1>9, <1>10, <1>11
     DEF Serv08Next, MainStep, ThreadStep, ClientStep, Serv08Environment, Exited

\* A put adds a descriptor and, if anyone sleeps, a thread on its way to it; a get
\* takes one of each; a thread only goes to sleep when the ring is empty.
LEMMA IdleStep == Serv08IInv /\ [Serv08Next]_serv08_vars => NoIdleWhileQueued'
<1> SUFFICES ASSUME Serv08IInv, [Serv08Next]_serv08_vars, server' = "up", Waiting' # {}
             PROVE  Length' <= Cardinality(Getting')
  BY DEF NoIdleWhileQueued
<1>0. Serv08TypeOK /\ Serv08TypeOK' /\ Length \in Nat
  BY TypeStep, RingShape DEF Serv08IInv
<1>1. server = "up" => (Waiting # {} => Length <= Cardinality(Getting))
  BY DEF Serv08IInv, NoIdleWhileQueued
<1>2. CASE server = "up" /\ Put
  <2>1. Length' = Length + 1
    <3>1. connfd \in Clients
      BY <1>0, <1>2 DEF Put, Store, Serv08TypeOK
    <3>2. QED
      BY <1>0, <1>2, <3>1, RingStore DEF Put, Store
  <2>2. PICK t \in Waiting : pc' = [pc EXCEPT ![t] = "lock"]
    BY <1>2 DEF Put, Signal, Waiting
  <2>3. Getting' = Getting \union {t} /\ t \notin Getting
    BY <1>0, <2>2 DEF Getting, Waiting, Serv08TypeOK
  <2>4. Cardinality(Getting') = Cardinality(Getting) + 1
    BY <2>3, Members, FS_AddElement
  <2>5. QED
    BY <1>0, <1>1, <1>2, <2>1, <2>2, <2>4, Members
<1>3. ASSUME NEW t \in Threads, server = "up", Wait(t)
      PROVE  Length' <= Cardinality(Getting')
  <2>1. Length' = 0
    BY <1>0, <1>3, RingSame, RingShape DEF Wait
  <2>2. Getting' \in SUBSET Threads
    BY DEF Getting
  <2>3. Cardinality(Getting') \in Nat
    BY <2>2, PoolAssumption, FS_Subset, FS_CardinalityType
  <2>4. QED
    BY <2>1, <2>3
<1>4. ASSUME NEW t \in Threads, server = "up", Get(t)
      PROVE  Length' <= Cardinality(Getting')
  <2>1. Length' = Length - 1
    BY <1>0, <1>4, RingRemove DEF Get
  <2>2. Getting' = Getting \ {t} /\ t \in Getting /\ Waiting' = Waiting
    BY <1>0, <1>4 DEF Get, Getting, Waiting, Serv08TypeOK
  <2>3. Cardinality(Getting') = Cardinality(Getting) - 1
    BY <2>2, Members, FS_RemoveElement
  <2>4. QED
    BY <1>0, <1>1, <1>4, <2>1, <2>2, <2>3, Members
<1>5. ASSUME NEW t \in Threads, server = "up", Finish(t) \/ SpuriousWakeup(t)
      PROVE  Length' <= Cardinality(Getting')
  <2>1. Getting' = Getting \union {t} /\ Waiting # {}
    BY <1>0, <1>5 DEF Finish, SpuriousWakeup, Getting, Waiting, Serv08TypeOK
  <2>2. Length' = Length
    BY <1>5, RingSame DEF Finish, SpuriousWakeup
  <2>3. Cardinality(Getting') >= Cardinality(Getting)
    <3>1. CASE t \in Getting
      <4>1. Getting' = Getting
        BY <2>1, <3>1
      <4>2. QED
        BY <4>1, Members
    <3>2. CASE t \notin Getting
      <4>1. Cardinality(Getting') = Cardinality(Getting) + 1
        BY <2>1, <3>2, Members, FS_AddElement
      <4>2. QED
        BY <4>1, Members
    <3>3. QED
      BY <3>1, <3>2
  <2>4. Cardinality(Getting') \in Nat
    BY <2>1, Members, FS_CardinalityType
  <2>5. QED
    BY <1>0, <1>1, <1>5, <2>1, <2>2, <2>3, <2>4, Members
<1>6. ASSUME NEW c \in Clients, server = "up", Accept(c)
      PROVE  Length' <= Cardinality(Getting')
  <2>1. Getting' = Getting /\ Waiting' = Waiting
    BY <1>6 DEF Accept, Getting, Waiting
  <2>2. QED
    BY <1>1, <1>6, <2>1, RingSame DEF Accept
<1>7. CASE UNCHANGED serv08_vars
  <2>1. Getting' = Getting /\ Waiting' = Waiting
    BY <1>7 DEF serv08_vars, Getting, Waiting
  <2>2. QED
    BY <1>1, <1>7, <2>1, RingSame DEF serv08_vars
<1>8. QED
  BY <1>2, <1>3, <1>4, <1>5, <1>6, <1>7
     DEF Serv08Next, MainStep, ThreadStep, ClientStep, Serv08Environment, Exited,
         Overflow, AcceptFails, ReplyExits

LEMMA Serv08Inductive == Serv08Spec => []Serv08IInv
<1>1. Serv08Init => Serv08IInv
  <2> SUFFICES ASSUME Serv08Init PROVE Serv08IInv
    OBVIOUS
  <2>1. Serv08TypeOK
    BY RingAssumption DEF Serv08Init, Serv08TypeOK
  <2>2. Length = 0 /\ Waiting = {}
    BY DEF Serv08Init, Length, Waiting
  <2>3. QED
    BY <2>1, <2>2, PoolAssumption DEF Serv08Init, Serv08IInv, RingInv, NoIdleWhileQueued
<1>2. Serv08IInv /\ [Serv08Next]_serv08_vars => Serv08IInv'
  BY TypeStep, RingStep, IdleStep DEF Serv08IInv
<1>3. QED
  BY <1>1, <1>2, PTL DEF Serv08Spec

-----------------------------------------------------------------------------
\* Variables keep their types; the indices never leave clifd[].
THEOREM Serv08Typing == Serv08Spec => []Serv08TypeOK
<1>1. Serv08IInv => Serv08TypeOK
  BY DEF Serv08IInv
<1>2. QED
  BY <1>1, Serv08Inductive, PTL

\* pthread_cond_signal once per descriptor (76) is enough.
THEOREM SignalsSuffice == Serv08Spec => []NoIdleWhileQueued
<1>1. Serv08IInv => NoIdleWhileQueued
  BY DEF Serv08IInv
<1>2. QED
  BY <1>1, Serv08Inductive, PTL

\* A step of the server is a step of the abstract queue, or none.
LEMMA StepRefines ==
    ASSUME Serv08IInv, [Serv08Next]_serv08_vars
    PROVE  [Queue!Next]_(Queue!vars)
<1> DEFINE q == IF server = "up" THEN Ring ELSE <<>>
           h == IF server = "up" THEN fd ELSE [t \in Threads |-> NoClient]
<1> USE DEF Queue!vars
<1>0. Serv08TypeOK /\ Serv08TypeOK' /\ RingInv /\ Length \in Nat /\ Len(Ring) = Length
  BY TypeStep, RingShape DEF Serv08IInv
<1>1. CASE server = "up" /\ Put
  <2>1. connfd \in Clients /\ server' = "up" /\ fd' = fd
    BY <1>0, <1>1 DEF Put, Store, Serv08TypeOK
  <2>2. Ring' = Append(Ring, connfd)
    BY <1>0, <1>1, <2>1, RingStore DEF Put, Store
  <2>3. Len(Ring) < MaxNCli - 1
    BY <1>0, <1>1, RingShape, RingAssumption DEF Put
  <2>4. /\ \A k \in 1..Len(Ring) : Ring[k] # connfd
        /\ \A t \in Threads : fd[t] # connfd
    BY <1>0, <1>1 DEF Put, Store, RingInv
  <2>5. Queue!Put(connfd)
    BY <1>1, <2>1, <2>2, <2>3, <2>4 DEF Queue!Put
  <2>6. QED
    BY <2>1, <2>5 DEF Queue!Next
<1>2. CASE server = "up" /\ Overflow
  <2>1. Len(Ring) = MaxNCli - 1
    BY <1>0, <1>2, RingShape DEF Overflow
  <2>2. Queue!Overflow
    BY <1>2, <2>1 DEF Overflow, Queue!Overflow, Queue!Stop
  <2>3. QED
    BY <2>2 DEF Queue!Next
<1>3. ASSUME NEW t \in Threads, server = "up", Get(t)
      PROVE  [Queue!Next]_(Queue!vars)
  <2>1. Ring # <<>> /\ Head(Ring) = clifd[iget] /\ Ring' = Tail(Ring)
    BY <1>0, <1>3, RingRemove DEF Get
  <2>2. fd[t] = NoClient /\ fd' = [fd EXCEPT ![t] = clifd[iget]] /\ server' = "up"
    BY <1>0, <1>3 DEF Get, RingInv
  <2>3. Queue!Take(t)
    BY <1>3, <2>1, <2>2 DEF Queue!Take
  <2>4. QED
    BY <2>3 DEF Queue!Next
<1>4. ASSUME NEW t \in Threads, server = "up", Finish(t)
      PROVE  [Queue!Next]_(Queue!vars)
  <2>1. fd[t] # NoClient
    BY <1>0, <1>4 DEF Finish, RingInv
  <2>2. Queue!Release(t)
    BY <1>4, <2>1, RingSame DEF Finish, Queue!Release
  <2>3. QED
    BY <2>2 DEF Queue!Next
<1>5. CASE server = "up" /\ (AcceptFails \/ \E t \in Threads : ReplyExits(t))
  <2>1. Queue!Fail
    BY <1>5 DEF AcceptFails, ReplyExits, Queue!Fail, Queue!Stop
  <2>2. QED
    BY <2>1 DEF Queue!Next
<1>6. CASE \/ \E c \in Clients : Accept(c)
           \/ \E t \in Threads : Wait(t) \/ SpuriousWakeup(t)
  <2>1. UNCHANGED <<clifd, iget, iput, fd, server>>
    BY <1>6 DEF Accept, Wait, SpuriousWakeup
  <2>2. QED
    BY <2>1, RingSame
<1>7. CASE UNCHANGED serv08_vars
  BY <1>7, RingSame DEF serv08_vars
<1>8. QED
  BY <1>1, <1>2, <1>3, <1>4, <1>5, <1>6, <1>7
     DEF Serv08Next, MainStep, ThreadStep, ClientStep, Serv08Environment, Exited

\* The ring is the bounded FIFO queue: every accepted descriptor reaches exactly
\* one thread, in order, and err_quit comes only with MAXNCLI - 1 in the ring.
THEOREM RingIsQueue == Serv08Spec => ImplementsHandOff
<1>1. Serv08Init => Queue!Init
  <2> SUFFICES ASSUME Serv08Init PROVE Queue!Init
    OBVIOUS
  <2>1. Length = 0
    BY DEF Serv08Init, Length
  <2>2. Ring = <<>>
    BY <2>1 DEF Ring
  <2>3. QED
    BY <2>2 DEF Serv08Init, Queue!Init
<1>2. Serv08IInv /\ [Serv08Next]_serv08_vars => [Queue!Next]_(Queue!vars)
  BY StepRefines
<1>3. QED
  BY <1>1, <1>2, Serv08Inductive, PTL DEF Serv08Spec, ImplementsHandOff, Queue!Spec
=============================================================================
