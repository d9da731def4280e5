--------------------------- MODULE WebClientsProofs ---------------------------
(***************************************************************************)
(* Proofs about WebClients, for any number of files, connections and       *)
(* reads: the counters agree with file[], and a client that says it has    *)
(* finished has read every file.                                           *)
(*                                                                         *)
(* The counters are cardinalities of sets of files (Counters, Reckoned);   *)
(* a file that has left the set main still waits for has been read         *)
(* (Fetched, Finish).                                                      *)
(* The last part of the module is about PreforkLock.                       *)
(***************************************************************************)
EXTENDS WebClients, PreforkLock, FiniteSetTheorems, TLAPS

Places ==
    /\ kind = "select" => pc \in {"home", "fill", "scan"}
    /\ kind = "threads" => pc \in {"home", "fill", "check", "wait", "woken", "join"}
    /\ kind = "fork" => pc \in {"home", "fork", "mark", "test", "tested", "pause"}
    /\ kind # "threads" => \A f \in Files : thread[f] = "none"

\* main's index; web2 has started the children of the files before it.
Index ==
    /\ kind = "threads" => i \in 1..NFiles
    /\ kind = "fork" => i \in 1..(maxconn + 1) /\ (pc = "mark" => i <= maxconn)

NotDone == {f \in Files : flags[f] # "F_DONE"}
NotJoined == {f \in Files : flags[f] # "F_JOINED"}
CountedFiles == {f \in Files : Counted(f)}
Returned == {f \in Files : thread[f] = "exited" /\ flags[f] = "F_DONE"}

\* The state of a thread is that of its file.
Fetched ==
    /\ kind = "select" =>
         \A f \in Files :
             /\ flags[f] # "F_JOINED"
             /\ flags[f] = "F_DONE" => got[f] = "read"
    /\ kind = "threads" =>
         \A f \in Files :
             /\ thread[f] = "connect" => flags[f] = "F_CONNECTING"
             /\ thread[f] = "read" => flags[f] = "F_READING"
             /\ thread[f] = "lock" => flags[f] = "F_DONE"
             /\ thread[f] = "exited" => flags[f] \in {"F_DONE", "F_JOINED"}
             /\ flags[f] \in {"F_DONE", "F_JOINED"} => got[f] = "read"
    /\ kind # "fork" =>
         \A f \in Slots : starts[f] <= 1 /\ (flags[f] = "0" => starts[f] = 0)

Counters ==
    kind # "fork" =>
        /\ nconn = Cardinality(CountedFiles) /\ nconn <= maxconn
        /\ nlefttoconn = Cardinality(Unstarted)
        /\ kind = "threads" =>
             nlefttoread = Cardinality(NotJoined) /\ ndone = Cardinality(Returned)
        /\ kind = "select" => nlefttoread = Cardinality(NotDone)

\* web2.  Main starts a file once, and so does the handler.
Marking(f) == pc = "mark" /\ i = f
Started ==
    kind = "fork" =>
        \A f \in Slots :
            /\ kids[f] <= starts[f]
            /\ flags[f] = "0" => starts[f] <= IF Marking(f) THEN 1 ELSE 0
            /\ i <= f /\ ~Marking(f) => starts[f] <= 1
            /\ f \notin Files /\ f > maxconn => kids[f] = 0

Forks == IF pc = "mark" THEN i ELSE i - 1
Ended == {f \in Files : starts[f] > 0 /\ kids[f] = 0}
Reckoned ==
    kind = "fork" =>
        /\ Cardinality(Children) <= Forks
        /\ \A f \in Ended : got[f] # "no"
        /\ ~Miscounted => nlefttoread + Cardinality(Ended) = NFiles

Finish == ended = "normal" => nlefttoread <= 0

IInv == TypeOK /\ Places /\ Index /\ Fetched /\ Counters /\ Started /\ Reckoned /\ Finish

-----------------------------------------------------------------------------
(* Sets of files.                                                          *)

LEMMA FilesFinite ==
    /\ NFiles \in Nat /\ NFiles > 0
    /\ IsFiniteSet(Files) /\ Cardinality(Files) = NFiles
    /\ Files \subseteq Slots /\ Files \subseteq Nat /\ Slots \subseteq Nat
    /\ IsFiniteSet(Slots)
<1>1. NFiles \in Nat /\ NFiles > 0
  BY FilesAssumption
<1>2. IsFiniteSet(1..NFiles) /\ IsFiniteSet(1..(NFiles + 1))
      /\ Cardinality(1..NFiles) = IF 1 > NFiles THEN 0 ELSE NFiles - 1 + 1
  BY <1>1, FS_Interval
<1>3. QED
  BY <1>1, <1>2 DEF Files, Slots

LEMMA Sub ==
    ASSUME NEW S \in SUBSET Files
    PROVE  IsFiniteSet(S) /\ Cardinality(S) \in 0..NFiles
  <1>1. IsFiniteSet(S) /\ Cardinality(S) <= Cardinality(Files)
    BY FilesFinite, FS_Subset
  <1>2. Cardinality(S) \in Nat
    BY <1>1, FS_CardinalityType
  <1>3. QED
    BY <1>1, <1>2, FilesFinite

LEMMA Added ==
    ASSUME NEW S \in SUBSET Files, NEW f \in Files, f \notin S
    PROVE  Cardinality(S \union {f}) = Cardinality(S) + 1
  BY Sub, FS_AddElement

LEMMA Removed ==
    ASSUME NEW S \in SUBSET Files, NEW f \in S
    PROVE  Cardinality(S) = Cardinality(S \ {f}) + 1
<1>1. Cardinality(S \ {f}) = Cardinality(S) - 1 /\ Cardinality(S) \in Nat
  BY Sub, FS_RemoveElement
<1>2. Cardinality(S \ {f}) \in Nat
  BY Sub
<1>3. QED
  BY <1>1, <1>2

\* None is missing when as many as there are have been counted.
LEMMA AllCounted ==
    ASSUME NEW S \in SUBSET Files, Cardinality(S) >= NFiles
    PROVE  S = Files
<1> SUFFICES ASSUME NEW f \in Files, f \notin S PROVE FALSE
  OBVIOUS
<1>1. Cardinality(S \union {f}) = Cardinality(S) + 1
  BY Added
<1>2. Cardinality(S \union {f}) \in 0..NFiles /\ Cardinality(S) \in 0..NFiles
  BY Sub
<1>3. QED
  BY <1>1, <1>2, FilesFinite

LEMMA NoneCounted ==
    ASSUME NEW S \in SUBSET Files, Cardinality(S) <= 0
    PROVE  S = {}
<1>1. IsFiniteSet(S) /\ Cardinality(S) \in Nat
  BY Sub, FilesFinite
<1>2. Cardinality(S) = 0
  BY <1>1
<1>3. QED
  BY <1>1, <1>2, FS_EmptySet

LEMMA FileSets ==
    /\ NotDone \subseteq Files /\ NotJoined \subseteq Files /\ CountedFiles \subseteq Files
    /\ Returned \subseteq Files /\ Unstarted \subseteq Files /\ Ended \subseteq Files
  BY DEF NotDone, NotJoined, CountedFiles, Returned, Unstarted, Ended

-----------------------------------------------------------------------------
(* The children of web2 as a set.                                          *)

LEMMA ChildrenAre ==
    ASSUME NEW k \in [Slots -> 0..2]
    PROVE  /\ UNION {{f} \X (1..k[f]) : f \in Slots} =
                {c \in Slots \X (1..2) : c[2] <= k[c[1]]}
           /\ IsFiniteSet(UNION {{f} \X (1..k[f]) : f \in Slots})
<1> DEFINE U == UNION {{f} \X (1..k[f]) : f \in Slots}
           C == {c \in Slots \X (1..2) : c[2] <= k[c[1]]}
<1>1. ASSUME NEW c \in U PROVE c \in C
  <2>1. PICK f \in Slots : c \in {f} \X (1..k[f])
    OBVIOUS
  <2>2. k[f] \in 0..2
    OBVIOUS
  <2>3. c = <<f, c[2]>> /\ c[1] = f /\ c[2] \in 1..k[f]
    BY <2>1
  <2>4. c[2] \in 1..2 /\ c[2] <= k[f]
    BY <2>2, <2>3
  <2>5. QED
    BY <2>3, <2>4
<1>2. ASSUME NEW c \in C PROVE c \in U
  <2>1. c = <<c[1], c[2]>> /\ c[1] \in Slots /\ c[2] \in 1..2 /\ c[2] <= k[c[1]]
    OBVIOUS
  <2>2. k[c[1]] \in 0..2
    BY <2>1
  <2>3. c[2] \in 1..k[c[1]]
    BY <2>1, <2>2
  <2>4. c \in {c[1]} \X (1..k[c[1]])
    BY <2>1, <2>3
  <2>5. QED
    BY <2>1, <2>4
<1>3. IsFiniteSet(C)
  <2>1. IsFiniteSet(1..2)
    <3>1. \A b \in Int : IsFiniteSet(1..b)
      BY FS_Interval
    <3>2. 2 \in Int
      OBVIOUS
    <3>3. QED
      BY <3>1, <3>2, Zenon
  <2>2. IsFiniteSet(Slots \X (1..2))
    BY <2>1, FilesFinite, FS_Product
  <2>3. QED
    BY <2>2, FS_Subset
<1>4. QED
  BY <1>1, <1>2, <1>3

Kin(k) == {c \in Slots \X (1..2) : c[2] <= k[c[1]]}

LEMMA ChildrenKin ==
    ASSUME kids \in [Slots -> 0..2]
    PROVE  Children = Kin(kids) /\ IsFiniteSet(Children)
  BY ChildrenAre DEF Children, Kin

\* One more child of f.
LEMMA KinMore ==
    ASSUME NEW k \in [Slots -> 0..2], NEW f \in Slots, k[f] < 2
    PROVE  /\ Kin([k EXCEPT ![f] = @ + 1]) = Kin(k) \union {<<f, k[f] + 1>>}
           /\ <<f, k[f] + 1>> \notin Kin(k)
<1> DEFINE m == [k EXCEPT ![f] = @ + 1]
           e == <<f, k[f] + 1>>
<1>1. k[f] \in 0..2 /\ k[f] + 1 \in 1..2 /\ m[f] = k[f] + 1
  OBVIOUS
<1>2. e \in Slots \X (1..2) /\ e[1] = f /\ e[2] = k[f] + 1
  BY <1>1
<1>3. e \notin Kin(k)
  <2>1. ~(k[f] + 1 <= k[f])
    BY <1>1
  <2>2. QED
    BY <1>2, <2>1 DEF Kin
<1>4. e \in Kin(m)
  <2>1. k[f] + 1 <= k[f] + 1
    BY <1>1
  <2>2. QED
    BY <1>1, <1>2, <2>1 DEF Kin
<1>5. ASSUME NEW c \in Slots \X (1..2), c # e PROVE c[2] <= m[c[1]] <=> c[2] <= k[c[1]]
  <2>1. CASE c[1] # f
    BY <2>1
  <2>2. CASE c[1] = f
    <3>1. c[2] # k[f] + 1 /\ c[2] \in 1..2
      BY <1>5, <2>2
    <3>2. c[2] <= k[f] + 1 <=> c[2] <= k[f]
      BY <1>1, <3>1
    <3>3. QED
      BY <1>1, <2>2, <3>2
  <2>3. QED
    BY <2>1, <2>2
<1>6. Kin(m) = Kin(k) \union {e}
  BY <1>2, <1>4, <1>5 DEF Kin
<1>7. QED
  BY <1>3, <1>6

LEMMA KinCount ==
    ASSUME NEW k \in [Slots -> 0..2], NEW f \in Slots, k[f] < 2
    PROVE  Cardinality(Kin([k EXCEPT ![f] = @ + 1])) = Cardinality(Kin(k)) + 1
           /\ Cardinality(Kin(k)) \in Nat
<1>1. IsFiniteSet(Kin(k))
  BY ChildrenAre DEF Kin
<1>2. Cardinality(Kin(k) \union {<<f, k[f] + 1>>}) = Cardinality(Kin(k)) + 1
  BY <1>1, KinMore, FS_AddElement
<1>3. Cardinality(Kin(k)) \in Nat
  BY <1>1, FS_CardinalityType
<1>4. Kin([k EXCEPT ![f] = @ + 1]) = Kin(k) \union {<<f, k[f] + 1>>}
  BY KinMore
<1>5. QED
  BY <1>2, <1>3, <1>4

-----------------------------------------------------------------------------
(* Initially.                                                              *)

LEMMA InvInit == Init => IInv
<1> SUFFICES ASSUME Init PROVE IInv
  OBVIOUS
<1>1. /\ flags = [f \in Slots |-> "0"] /\ nconn = 0 /\ nlefttoconn = NFiles
      /\ nlefttoread = NFiles /\ got = [f \in Slots |-> "no"]
      /\ starts = [f \in Slots |-> 0] /\ thread = [f \in Slots |-> "none"] /\ ndone = 0
      /\ kids = [f \in Slots |-> 0] /\ ended = "no" /\ pc = "home" /\ i = 1
      /\ kind \in Kinds /\ maxconn \in {0} \union Slots
  BY DEF Init
<1>2. TypeOK
  <2>1. /\ rest \in [Slots -> 0..Reads] /\ ready \subseteq Files /\ locked \in BOOLEAN
    <3>1. Reads \in 0..Reads
      BY FilesAssumption
    <3>2. rest = [f \in Slots |-> Reads] /\ ready = {} /\ locked = FALSE
      BY DEF Init
    <3>3. QED
      BY <3>1, <3>2
  <2>2. /\ flags \in [Slots -> Flags] /\ got \in [Slots -> {"no", "read", "failed"}]
        /\ thread \in [Slots -> {"none", "connect", "read", "lock", "exited"}]
    BY <1>1 DEF Flags
  <2>3. starts \in [Slots -> 0..2] /\ kids \in [Slots -> 0..2]
    BY <1>1
  <2>4. /\ i \in 1..(NFiles + 2) /\ nconn \in 0..maxconn /\ nlefttoconn \in 0..NFiles
        /\ nlefttoread \in Int /\ ndone \in 0..NFiles
    BY <1>1, FilesFinite DEF Slots
  <2>5. QED
    BY <1>1, <2>1, <2>2, <2>3, <2>4 DEF TypeOK
<1>3. Places
  BY <1>1, FilesFinite DEF Places
<1>9. Index /\ Finish
  BY <1>1, FilesFinite DEF Index, Finish, Slots
<1>4. Fetched
  BY <1>1, FilesFinite DEF Fetched
<1>5. Counters
  <2>1. Unstarted = Files /\ CountedFiles = {} /\ Returned = {} /\ NotJoined = Files /\ NotDone = Files
    BY <1>1, FilesFinite DEF Unstarted, CountedFiles, Returned, NotJoined, NotDone, Counted
  <2>2. Cardinality({}) = 0 /\ 0 <= maxconn
    BY <1>1, FS_EmptySet, FilesFinite
  <2>3. QED
    BY <1>1, <2>1, <2>2, FilesFinite DEF Counters
<1>6. Started
  BY <1>1 DEF Started, Marking
<1>7. Reckoned
  <2>1. Children = {} /\ Ended = {}
    <3>1. \A f \in Slots : 1..kids[f] = {}
      BY <1>1
    <3>2. QED
      BY <1>1, <3>1, FilesFinite DEF Children, Ended
  <2>2. Cardinality({}) = 0 /\ Forks = 0
    BY <1>1, FS_EmptySet DEF Forks
  <2>3. NFiles + 0 = NFiles
    BY FilesFinite
  <2>4. QED
    BY <1>1, <2>1, <2>2, <2>3 DEF Reckoned
<1>8. QED
  BY <1>2, <1>3, <1>4, <1>5, <1>6, <1>7, <1>9 DEF IInv

-----------------------------------------------------------------------------
(* Steps that leave the files and the processes as they are.               *)

Same ==
    /\ kind' = kind /\ maxconn' = maxconn /\ flags' = flags
    /\ nconn' = nconn /\ nlefttoconn' = nlefttoconn /\ nlefttoread' = nlefttoread
    /\ rest' = rest /\ got' = got /\ starts' = starts
    /\ thread' = thread /\ ndone' = ndone /\ kids' = kids
    /\ pc' = "mark" <=> pc = "mark"
    /\ kind = "fork" => i' = i
    /\ ended' = "normal" => ended = "normal" \/ nlefttoread <= 0

LEMMA SameKeeps ==
    ASSUME IInv, Same
    PROVE  Fetched' /\ Counters' /\ Started' /\ Reckoned' /\ Finish'
<1>1. Fetched'
  BY DEF IInv, Same, Fetched
<1>2. Counters'
  <2>1. /\ CountedFiles' = CountedFiles /\ Unstarted' = Unstarted /\ Returned' = Returned
        /\ NotJoined' = NotJoined /\ NotDone' = NotDone
    BY DEF Same, CountedFiles, Unstarted, Returned, NotJoined, NotDone, Counted
  <2>2. QED
    BY <2>1 DEF IInv, Same, Counters
<1>3. Started'
  BY DEF IInv, Same, Started, Marking
<1>4. Reckoned'
  <2>1. Children' = Children /\ Ended' = Ended
    BY DEF Same, Children, Ended
  <2>2. kind = "fork" => Forks' = Forks
    BY DEF Same, Forks
  <2>3. Miscounted' = Miscounted
    BY DEF Same, Miscounted
  <2>4. QED
    BY <2>1, <2>2, <2>3 DEF IInv, Same, Reckoned
<1>5. Finish'
  BY DEF IInv, Same, Finish
<1>6. QED
  BY <1>1, <1>2, <1>3, <1>4, <1>5

LEMMA EndKeeps ==
    ASSUME IInv, NEW how \in {"normal", "error", "killed"}, End(how),
           how = "normal" => nlefttoread <= 0
    PROVE  IInv'
<1>1. ended' = how
  BY DEF End
<1>2. /\ kind' = kind /\ maxconn' = maxconn /\ pc' = pc /\ i' = i /\ flags' = flags
      /\ nconn' = nconn /\ nlefttoconn' = nlefttoconn /\ nlefttoread' = nlefttoread
      /\ rest' = rest /\ got' = got /\ starts' = starts /\ ready' = ready
      /\ thread' = thread /\ ndone' = ndone /\ locked' = locked /\ kids' = kids
  BY DEF End, arguments, counters, threadVars
<1>3. Same
  BY <1>1, <1>2 DEF Same
<1>4. TypeOK'
  BY <1>1, <1>2 DEF IInv, TypeOK
<1>5. Places' /\ Index'
  BY <1>2 DEF IInv, Places, Index
<1>6. QED
  BY <1>3, <1>4, <1>5, SameKeeps DEF IInv

\* main moves on.
LEMMA MoveKeeps ==
    ASSUME IInv, HomePage \/ Select \/ MainLocks \/ MainChecks \/ MainSkips \/ MainTests \/ MainPauses,
           ended' = "no"
    PROVE  IInv'
<1>1. /\ kind' = kind /\ maxconn' = maxconn /\ flags' = flags
      /\ nconn' = nconn /\ nlefttoconn' = nlefttoconn /\ nlefttoread' = nlefttoread
      /\ rest' = rest /\ got' = got /\ starts' = starts
      /\ thread' = thread /\ ndone' = ndone /\ kids' = kids
  BY DEF HomePage, Select, MainLocks, MainChecks, MainSkips, MainTests, MainPauses, End,
         arguments, counters, threadVars, forkUnchanged
<1>2. kind \in {"select", "threads", "fork"} /\ NFiles \in Nat /\ NFiles > 0
  BY FilesFinite DEF IInv, TypeOK, Kinds
<1>3. /\ pc # "mark" /\ pc' # "mark" /\ Places'
      /\ pc' \in {"home", "fill", "scan", "check", "wait", "woken", "join", "fork", "mark",
                  "test", "tested", "pause"}
  <2>1. CASE HomePage
    BY <1>1, <1>2, <2>1 DEF IInv, Places, TypeOK, HomePage, End
  <2>2. CASE Select \/ MainLocks
    BY <1>1, <1>2, <2>2 DEF IInv, Places, TypeOK, Select, MainLocks
  <2>3. CASE MainChecks \/ MainSkips
    BY <1>1, <1>2, <2>3 DEF IInv, Places, TypeOK, MainChecks, MainSkips, NextIndex
  <2>4. CASE MainTests \/ MainPauses
    BY <1>1, <1>2, <2>4 DEF IInv, Places, TypeOK, MainTests, MainPauses, End
  <2>5. QED
    BY <2>1, <2>2, <2>3, <2>4
<1>4. /\ kind = "fork" => i' = i
      /\ kind = "threads" => i' \in 1..NFiles
      /\ i' \in 1..(NFiles + 2)
  <2>1. CASE HomePage \/ Select \/ MainLocks \/ MainTests \/ MainPauses
    <3>1. i' = i
      BY <2>1 DEF HomePage, Select, MainLocks, MainTests, MainPauses, End
    <3>2. QED
      BY <3>1 DEF IInv, Index, TypeOK
  <2>2. CASE MainChecks \/ MainSkips
    <3>1. kind = "threads"
      BY <1>2, <2>2 DEF IInv, Places, MainChecks, MainSkips
    <3>2. i \in 1..NFiles
      BY <3>1 DEF IInv, Index
    <3>3. i' = i \/ i' = 1 \/ (i < NFiles /\ i' = i + 1)
      BY <2>2 DEF MainChecks, MainSkips, NextIndex
    <3>4. QED
      BY <1>2, <3>1, <3>2, <3>3
  <2>3. QED
    BY <2>1, <2>2
<1>5. Index'
  BY <1>1, <1>3, <1>4 DEF IInv, Index
<1>6. ready' \subseteq Files
  <2>1. CASE Select
    <3>1. ready' \in SUBSET {f \in Files : flags[f] \in {"F_CONNECTING", "F_READING"}}
      BY <2>1 DEF Select
    <3>2. QED
      BY <3>1
  <2>2. CASE HomePage \/ MainLocks \/ MainChecks \/ MainSkips \/ MainTests \/ MainPauses
    <3>1. ready' = ready
      BY <2>2 DEF HomePage, MainLocks, MainChecks, MainSkips, MainTests, MainPauses, End, forkUnchanged
    <3>2. QED
      BY <3>1 DEF IInv, TypeOK
  <2>3. QED
    BY <2>1, <2>2
<1>7. locked' \in BOOLEAN
  <2>1. CASE HomePage \/ Select \/ MainTests \/ MainPauses
    BY <2>1 DEF IInv, TypeOK, HomePage, Select, MainTests, MainPauses, End, threadVars, forkUnchanged
  <2>2. CASE MainLocks \/ MainChecks \/ MainSkips
    BY <2>2 DEF IInv, TypeOK, MainLocks, MainChecks, MainSkips, NextIndex
  <2>3. QED
    BY <2>1, <2>2
<1>8. TypeOK'
  BY <1>1, <1>3, <1>4, <1>6, <1>7 DEF IInv, TypeOK
<1>9. Same
  BY <1>1, <1>3, <1>4 DEF Same
<1>10. QED
  BY <1>3, <1>5, <1>8, <1>9, SameKeeps DEF IInv

-----------------------------------------------------------------------------
(* select and threads.                                                     *)

LEMMA NotFork ==
    ASSUME kind # "fork", kind' = kind
    PROVE  Started' /\ Reckoned'
  BY DEF Started, Reckoned

LEMMA OpenKeeps ==
    ASSUME IInv, kind # "fork", NEW f \in Unstarted, NEW flag \in {"F_CONNECTING", "F_READING"},
           Open(f, flag),
           \/ kind = "select" /\ thread' = thread
           \/ kind = "threads" /\ flag = "F_CONNECTING" /\ thread' = [thread EXCEPT ![f] = "connect"]
    PROVE  IInv'
<1>1. /\ flags' = [flags EXCEPT ![f] = flag] /\ starts' = [starts EXCEPT ![f] = @ + 1]
      /\ nconn' = nconn + 1 /\ nlefttoconn' = nlefttoconn - 1
      /\ nconn < maxconn /\ nlefttoconn > 0 /\ ended = "no"
  BY DEF Open, CanConnect, Running
<1>2. /\ kind' = kind /\ maxconn' = maxconn /\ pc' = pc /\ i' = i
      /\ nlefttoread' = nlefttoread /\ rest' = rest /\ got' = got /\ ready' = ready
      /\ ndone' = ndone /\ locked' = locked /\ kids' = kids /\ ended' = ended
  BY DEF Open, arguments
<1>3. /\ f \in Files /\ f \in Slots /\ flags[f] = "0" /\ flags \in [Slots -> Flags]
      /\ starts \in [Slots -> 0..2]
      /\ thread \in [Slots -> {"none", "connect", "read", "lock", "exited"}]
  BY FilesFinite DEF Unstarted, IInv, TypeOK
<1>4. starts[f] = 0
  BY <1>3 DEF IInv, Fetched
<1>5. /\ flags' \in [Slots -> Flags] /\ starts' \in [Slots -> 0..2]
      /\ thread' \in [Slots -> {"none", "connect", "read", "lock", "exited"}]
  <2>1. flags' \in [Slots -> Flags]
    BY <1>1, <1>3 DEF Flags
  <2>2. starts' \in [Slots -> 0..2]
    BY <1>1, <1>3, <1>4
  <2>3. thread' \in [Slots -> {"none", "connect", "read", "lock", "exited"}]
    BY <1>3
  <2>4. QED
    BY <2>1, <2>2, <2>3
<1>6. nconn' \in 0..maxconn /\ nlefttoconn' \in 0..NFiles /\ nconn' <= maxconn
  <2>1. nconn \in Nat /\ maxconn \in Nat /\ nlefttoconn \in 0..NFiles
    BY FilesFinite DEF IInv, TypeOK
  <2>2. QED
    BY <1>1, <2>1, FilesFinite
<1>7. TypeOK'
  BY <1>2, <1>5, <1>6 DEF IInv, TypeOK
<1>8. Places' /\ Index' /\ Finish'
  BY <1>1, <1>2 DEF IInv, Places, Index, Finish
<1>9. Fetched'
  <2>1. \A g \in Files : g # f => flags'[g] = flags[g] /\ thread'[g] = thread[g]
    BY <1>1, <1>3, FilesFinite
  <2>2. flags'[f] = flag /\ (kind = "threads" => thread'[f] = "connect" /\ flag = "F_CONNECTING")
    BY <1>1, <1>3
  <2>3. kind = "select" => \A g \in Files : flags'[g] # "F_JOINED" /\ (flags'[g] = "F_DONE" => got'[g] = "read")
    BY <1>2, <2>1, <2>2 DEF IInv, Fetched
  <2>4. kind = "threads" =>
          \A g \in Files :
             /\ thread'[g] = "connect" => flags'[g] = "F_CONNECTING"
             /\ thread'[g] = "read" => flags'[g] = "F_READING"
             /\ thread'[g] = "lock" => flags'[g] = "F_DONE"
             /\ thread'[g] = "exited" => flags'[g] \in {"F_DONE", "F_JOINED"}
             /\ flags'[g] \in {"F_DONE", "F_JOINED"} => got'[g] = "read"
    BY <1>2, <2>1, <2>2 DEF IInv, Fetched
  <2>5. \A g \in Slots : starts'[g] <= 1 /\ (flags'[g] = "0" => starts'[g] = 0)
    <3>1. \A g \in Slots : g # f => flags'[g] = flags[g] /\ starts'[g] = starts[g]
      BY <1>1, <1>3
    <3>2. starts'[f] = 1 /\ flags'[f] # "0"
      BY <1>1, <1>3, <1>4
    <3>3. QED
      BY <3>1, <3>2 DEF IInv, Fetched
  <2>6. QED
    BY <1>2, <2>3, <2>4, <2>5 DEF Fetched
<1>10. Counters'
  <2>1. \A g \in Files : g # f => flags'[g] = flags[g] /\ thread'[g] = thread[g]
    BY <1>1, <1>3, FilesFinite
  <2>2. flags'[f] = flag
    BY <1>1, <1>3
  <2>3. CountedFiles' = CountedFiles \union {f} /\ f \notin CountedFiles
    BY <1>2, <1>3, <2>1, <2>2 DEF CountedFiles, Counted
  <2>4. Unstarted' = Unstarted \ {f} /\ f \in Unstarted
    BY <1>2, <1>3, <2>1, <2>2 DEF Unstarted
  <2>5. NotJoined' = NotJoined /\ NotDone' = NotDone
    BY <1>2, <1>3, <2>1, <2>2 DEF NotJoined, NotDone
  <2>6. Returned' = Returned
    BY <1>2, <1>3, <2>1, <2>2 DEF Returned
  <2>7. Cardinality(CountedFiles') = Cardinality(CountedFiles) + 1
    BY <1>3, <2>3, FileSets, Added
  <2>8. Cardinality(Unstarted) = Cardinality(Unstarted') + 1 /\ Cardinality(Unstarted') \in Int
    BY <2>4, FileSets, Removed, Sub
  <2>9. nconn' = Cardinality(CountedFiles')
    BY <1>1, <2>7 DEF IInv, Counters
  <2>10. nlefttoconn' = Cardinality(Unstarted')
    BY <1>1, <2>8 DEF IInv, Counters
  <2>11. QED
    BY <1>2, <1>6, <2>5, <2>6, <2>9, <2>10 DEF IInv, Counters
<1>11. QED
  BY <1>2, <1>7, <1>8, <1>9, <1>10, NotFork DEF IInv

LEMMA StartKeeps == IInv /\ (StartConnect \/ CreateThread) => IInv'
<1> SUFFICES ASSUME IInv, StartConnect \/ CreateThread PROVE IInv'
  OBVIOUS
<1>1. CASE StartConnect
  <2>1. PICK f \in Unstarted, flag \in {"F_CONNECTING", "F_READING"} : Open(f, flag)
    BY <1>1 DEF StartConnect
  <2>2. kind = "select" /\ thread' = thread
    BY <1>1 DEF StartConnect
  <2>3. QED
    BY <2>1, <2>2, OpenKeeps
<1>2. CASE CreateThread
  <2>1. PICK f \in Unstarted : Open(f, "F_CONNECTING") /\ thread' = [thread EXCEPT ![f] = "connect"]
    BY <1>2 DEF CreateThread
  <2>2. kind = "threads"
    BY <1>2 DEF CreateThread
  <2>3. QED
    BY <2>1, <2>2, OpenKeeps
<1>3. QED
  BY <1>1, <1>2

\* The steps of select() and of the threads on one file: its flag is v after them.
LEMMA FileKeeps ==
    ASSUME IInv, kind # "fork", NEW f \in Files, NEW v \in Flags, flags[f] # "0", v # "0",
           flags' = [flags EXCEPT ![f] = v],
           kind' = kind, maxconn' = maxconn, starts' = starts, nlefttoconn' = nlefttoconn,
           ended' = "no"
    PROVE  /\ \A g \in Files : g # f => flags'[g] = flags[g]
           /\ flags'[f] = v /\ flags' \in [Slots -> Flags]
           /\ \A g \in Slots : starts'[g] <= 1 /\ (flags'[g] = "0" => starts'[g] = 0)
           /\ nlefttoconn' = Cardinality(Unstarted')
           /\ Finish'
<1>1. flags \in [Slots -> Flags] /\ f \in Slots
  BY FilesFinite DEF IInv, TypeOK
<1>2. \A g \in Slots : g # f => flags'[g] = flags[g]
  BY <1>1
<1>3. flags'[f] = v /\ flags' \in [Slots -> Flags]
  BY <1>1
<1>4. \A g \in Slots : flags'[g] = "0" <=> flags[g] = "0"
  BY <1>2, <1>3
<1>5. Unstarted' = Unstarted
  BY <1>4, FilesFinite DEF Unstarted
<1>6. QED
  BY <1>2, <1>3, <1>4, <1>5, FilesFinite DEF IInv, Fetched, Counters, Finish

LEMMA ScannedMoves ==
    ASSUME IInv, NEW f \in Files, Scanned(f)
    PROVE  /\ kind = "select" /\ kind' = kind /\ maxconn' = maxconn /\ i' = i /\ starts' = starts
           /\ thread' = thread /\ ndone' = ndone /\ locked' = locked /\ kids' = kids
           /\ ended' = "no" /\ ready' \subseteq Files /\ pc' \in {"fill", "scan"}
           /\ Places' /\ Index'
<1>1. /\ kind = "select" /\ kind' = kind /\ maxconn' = maxconn /\ i' = i /\ starts' = starts
      /\ thread' = thread /\ ndone' = ndone /\ locked' = locked /\ kids' = kids
      /\ ended' = "no" /\ pc' \in {"fill", "scan"}
  BY DEF Scanned, Running, arguments, threadVars
<1>2. ready' \subseteq Files
  BY DEF IInv, TypeOK, Scanned
<1>3. Places' /\ Index'
  BY <1>1 DEF IInv, Places, Index
<1>4. QED
  BY <1>1, <1>2, <1>3

LEMMA ConnectedKeeps ==
    ASSUME IInv, NEW f \in Files, Connected(f)
    PROVE  IInv'
<1>1. /\ flags[f] = "F_CONNECTING" /\ Scanned(f)
      /\ flags' = [flags EXCEPT ![f] = "F_READING"]
      /\ nconn' = nconn /\ nlefttoconn' = nlefttoconn /\ nlefttoread' = nlefttoread
      /\ rest' = rest /\ got' = got
  BY DEF Connected, counters
<1>2. /\ kind = "select" /\ kind' = kind /\ maxconn' = maxconn /\ i' = i /\ starts' = starts
      /\ thread' = thread /\ ndone' = ndone /\ locked' = locked /\ kids' = kids
      /\ ended' = "no" /\ ready' \subseteq Files /\ pc' \in {"fill", "scan"}
      /\ Places' /\ Index'
  BY <1>1, ScannedMoves
<1>3. /\ \A g \in Files : g # f => flags'[g] = flags[g]
      /\ flags'[f] = "F_READING" /\ flags' \in [Slots -> Flags]
      /\ \A g \in Slots : starts'[g] <= 1 /\ (flags'[g] = "0" => starts'[g] = 0)
      /\ nlefttoconn' = Cardinality(Unstarted')
      /\ Finish'
  BY <1>1, <1>2, FileKeeps DEF Flags
<1>4. TypeOK'
  BY <1>1, <1>2, <1>3 DEF IInv, TypeOK
<1>5. Fetched'
  BY <1>1, <1>2, <1>3 DEF IInv, Fetched
<1>6. CountedFiles' = CountedFiles /\ NotDone' = NotDone
  BY <1>1, <1>2, <1>3 DEF CountedFiles, Counted, NotDone
<1>7. Counters'
  BY <1>1, <1>2, <1>3, <1>6 DEF IInv, Counters
<1>8. QED
  BY <1>2, <1>3, <1>4, <1>5, <1>7, NotFork DEF IInv

LEMMA SelectReadKeeps ==
    ASSUME IInv, NEW f \in Files, SelectRead(f)
    PROVE  IInv'
<1>1. flags[f] = "F_READING" /\ Scanned(f)
  BY DEF SelectRead
<1>2. /\ kind = "select" /\ kind' = kind /\ maxconn' = maxconn /\ i' = i /\ starts' = starts
      /\ thread' = thread /\ ndone' = ndone /\ locked' = locked /\ kids' = kids
      /\ ended' = "no" /\ ready' \subseteq Files /\ pc' \in {"fill", "scan"}
      /\ Places' /\ Index'
  BY <1>1, ScannedMoves
<1>3. /\ f \in Slots /\ rest \in [Slots -> 0..Reads]
      /\ got \in [Slots -> {"no", "read", "failed"}]
  BY FilesFinite DEF IInv, TypeOK
<1>4. CASE rest[f] > 0
  <2>1. /\ rest' = [rest EXCEPT ![f] = @ - 1] /\ flags' = flags /\ got' = got
        /\ nconn' = nconn /\ nlefttoconn' = nlefttoconn /\ nlefttoread' = nlefttoread
    BY <1>4 DEF SelectRead, counters
  <2>2. rest' \in [Slots -> 0..Reads]
    <3>1. rest[f] \in 0..Reads
      BY <1>3
    <3>2. rest[f] - 1 \in 0..Reads
      BY <1>4, <3>1, FilesAssumption
    <3>3. QED
      BY <1>3, <2>1, <3>2
  <2>3. TypeOK'
    BY <1>2, <2>1, <2>2 DEF IInv, TypeOK
  <2>4. /\ CountedFiles' = CountedFiles /\ NotDone' = NotDone /\ Unstarted' = Unstarted
    BY <1>2, <2>1 DEF CountedFiles, Counted, NotDone, Unstarted
  <2>5. Fetched'
    BY <1>2, <2>1 DEF IInv, Fetched
  <2>6. Counters'
    BY <1>2, <2>1, <2>4 DEF IInv, Counters
  <2>7. Finish'
    BY <1>2 DEF Finish
  <2>8. QED
    BY <1>2, <2>3, <2>5, <2>6, <2>7, NotFork DEF IInv
<1>5. CASE ~(rest[f] > 0)
  <2>1. /\ flags' = [flags EXCEPT ![f] = "F_DONE"] /\ got' = [got EXCEPT ![f] = "read"]
        /\ nconn' = nconn - 1 /\ nlefttoread' = nlefttoread - 1
        /\ nlefttoconn' = nlefttoconn /\ rest' = rest
    BY <1>5 DEF SelectRead
  <2>2. /\ \A g \in Files : g # f => flags'[g] = flags[g]
        /\ flags'[f] = "F_DONE" /\ flags' \in [Slots -> Flags]
        /\ \A g \in Slots : starts'[g] <= 1 /\ (flags'[g] = "0" => starts'[g] = 0)
        /\ nlefttoconn' = Cardinality(Unstarted')
        /\ Finish'
    BY <1>1, <1>2, <2>1, FileKeeps DEF Flags
  <2>3. /\ got' \in [Slots -> {"no", "read", "failed"}] /\ got'[f] = "read"
        /\ \A g \in Files : g # f => got'[g] = got[g]
    BY <1>3, <2>1, FilesFinite
  <2>4. CountedFiles' = CountedFiles \ {f} /\ f \in CountedFiles
    BY <1>1, <1>2, <2>2 DEF CountedFiles, Counted
  <2>5. NotDone' = NotDone \ {f} /\ f \in NotDone
    BY <1>1, <1>2, <2>2 DEF NotDone
  <2>6. /\ Cardinality(CountedFiles) = Cardinality(CountedFiles') + 1
        /\ Cardinality(CountedFiles') \in 0..NFiles
    BY <2>4, FileSets, Removed, Sub
  <2>7. /\ Cardinality(NotDone) = Cardinality(NotDone') + 1
        /\ Cardinality(NotDone') \in 0..NFiles
    BY <2>5, FileSets, Removed, Sub
  <2>8. nconn = Cardinality(CountedFiles) /\ nconn <= maxconn /\ nlefttoread = Cardinality(NotDone)
        /\ maxconn \in Nat
    BY <1>2, FilesFinite DEF IInv, Counters, TypeOK
  <2>9. /\ nconn' = Cardinality(CountedFiles') /\ nconn' \in 0..maxconn /\ nconn' <= maxconn
    BY <2>1, <2>6, <2>8, FilesFinite
  <2>10. nlefttoread' = Cardinality(NotDone') /\ nlefttoread' \in Int
    BY <2>1, <2>7, <2>8, FilesFinite
  <2>11. TypeOK'
    BY <1>2, <2>1, <2>2, <2>3, <2>9, <2>10 DEF IInv, TypeOK
  <2>12. Fetched'
    BY <1>2, <2>2, <2>3 DEF IInv, Fetched
  <2>13. Counters'
    BY <1>2, <2>2, <2>9, <2>10 DEF Counters
  <2>14. QED
    BY <1>2, <2>2, <2>11, <2>12, <2>13, NotFork DEF IInv
<1>6. QED
  BY <1>4, <1>5

LEMMA MainJoinsKeeps ==
    ASSUME IInv, MainJoins
    PROVE  IInv'
<1>1. pc = "join" /\ kind = "threads" /\ i \in Files
  BY DEF IInv, TypeOK, Kinds, Places, Index, MainJoins, Files
<1> DEFINE f == i
<1>2. /\ flags[f] = "F_DONE" /\ thread[f] = "exited"
      /\ flags' = [flags EXCEPT ![f] = "F_JOINED"]
      /\ ndone' = ndone - 1 /\ nconn' = nconn - 1 /\ nlefttoread' = nlefttoread - 1
      /\ kind' = kind /\ maxconn' = maxconn /\ nlefttoconn' = nlefttoconn /\ rest' = rest
      /\ got' = got /\ starts' = starts /\ ready' = ready /\ thread' = thread /\ kids' = kids
      /\ ended' = "no"
  BY DEF MainJoins, Running, arguments
<1>3. /\ pc' \in {"join", "fill"}
      /\ i' = 1 \/ (i < NFiles /\ i' = i + 1)
  BY <1>1 DEF MainJoins, NextIndex
<1>4. locked' \in BOOLEAN
  BY DEF IInv, TypeOK, MainJoins, NextIndex
<1>5. i' \in 1..NFiles /\ i' \in 1..(NFiles + 2)
  BY <1>1, <1>3, FilesFinite DEF Files
<1>6. Places' /\ Index'
  BY <1>1, <1>2, <1>3, <1>5 DEF Places, Index
<1> HIDE DEF f
<1>7. f \in Files
  BY <1>1 DEF f
<1>8. /\ \A g \in Files : g # f => flags'[g] = flags[g]
      /\ flags'[f] = "F_JOINED" /\ flags' \in [Slots -> Flags]
      /\ \A g \in Slots : starts'[g] <= 1 /\ (flags'[g] = "0" => starts'[g] = 0)
      /\ nlefttoconn' = Cardinality(Unstarted')
      /\ Finish'
  BY <1>1, <1>2, <1>7, FileKeeps DEF Flags
<1>9. CountedFiles' = CountedFiles \ {f} /\ f \in CountedFiles
  BY <1>1, <1>2, <1>7, <1>8 DEF CountedFiles, Counted
<1>10. NotJoined' = NotJoined \ {f} /\ f \in NotJoined
  BY <1>2, <1>7, <1>8 DEF NotJoined
<1>11. Returned' = Returned \ {f} /\ f \in Returned
  BY <1>2, <1>7, <1>8 DEF Returned
<1>12. /\ Cardinality(CountedFiles) = Cardinality(CountedFiles') + 1
       /\ Cardinality(CountedFiles') \in 0..NFiles
  BY <1>9, FileSets, Removed, Sub
<1>13. /\ Cardinality(NotJoined) = Cardinality(NotJoined') + 1
       /\ Cardinality(NotJoined') \in 0..NFiles
  BY <1>10, FileSets, Removed, Sub
<1>14. /\ Cardinality(Returned) = Cardinality(Returned') + 1
       /\ Cardinality(Returned') \in 0..NFiles
  BY <1>11, FileSets, Removed, Sub
<1>15. /\ nconn = Cardinality(CountedFiles) /\ nconn <= maxconn /\ maxconn \in Nat
       /\ nlefttoread = Cardinality(NotJoined) /\ ndone = Cardinality(Returned)
  BY <1>1, FilesFinite DEF IInv, Counters, TypeOK
<1>16. nconn' = Cardinality(CountedFiles') /\ nconn' \in 0..maxconn /\ nconn' <= maxconn
  BY <1>2, <1>12, <1>15, FilesFinite
<1>17. nlefttoread' = Cardinality(NotJoined') /\ nlefttoread' \in Int
  BY <1>2, <1>13, <1>15, FilesFinite
<1>18. ndone' = Cardinality(Returned') /\ ndone' \in 0..NFiles
  BY <1>2, <1>14, <1>15, FilesFinite
<1>19. TypeOK'
  BY <1>2, <1>3, <1>4, <1>5, <1>8, <1>16, <1>17, <1>18 DEF IInv, TypeOK
<1>20. Fetched'
  BY <1>1, <1>2, <1>7, <1>8 DEF IInv, Fetched
<1>21. Counters'
  BY <1>1, <1>2, <1>8, <1>16, <1>17, <1>18 DEF Counters
<1>22. QED
  BY <1>1, <1>2, <1>6, <1>8, <1>19, <1>20, <1>21, NotFork DEF IInv

LEMMA ThreadIs ==
    ASSUME IInv, NEW f \in Files, thread[f] # "none"
    PROVE  kind = "threads" /\ f \in Slots
  BY FilesFinite DEF IInv, Places

LEMMA ThreadConnectsKeeps ==
    ASSUME IInv, NEW f \in Files, ThreadConnects(f), ended' = "no"
    PROVE  IInv'
<1>1. thread[f] = "connect" /\ kind = "threads" /\ f \in Slots
  BY ThreadIs DEF ThreadConnects
<1>2. /\ thread' = [thread EXCEPT ![f] = "read"] /\ flags' = [flags EXCEPT ![f] = "F_READING"]
      /\ kind' = kind /\ maxconn' = maxconn /\ i' = i /\ pc' = pc
      /\ nconn' = nconn /\ nlefttoconn' = nlefttoconn /\ nlefttoread' = nlefttoread
      /\ rest' = rest /\ got' = got /\ starts' = starts /\ ready' = ready
      /\ ndone' = ndone /\ locked' = locked /\ kids' = kids
  BY DEF ThreadConnects, End, threadUnchanged, arguments, counters
<1>3. flags[f] = "F_CONNECTING"
  BY <1>1 DEF IInv, Fetched
<1>4. /\ \A g \in Files : g # f => flags'[g] = flags[g]
      /\ flags'[f] = "F_READING" /\ flags' \in [Slots -> Flags]
      /\ \A g \in Slots : starts'[g] <= 1 /\ (flags'[g] = "0" => starts'[g] = 0)
      /\ nlefttoconn' = Cardinality(Unstarted')
      /\ Finish'
  BY <1>1, <1>2, <1>3, FileKeeps DEF Flags
<1>5. /\ \A g \in Files : g # f => thread'[g] = thread[g]
      /\ thread'[f] = "read"
      /\ thread' \in [Slots -> {"none", "connect", "read", "lock", "exited"}]
  BY <1>1, <1>2, FilesFinite DEF IInv, TypeOK
<1>6. TypeOK' /\ Places' /\ Index'
  BY <1>1, <1>2, <1>4, <1>5 DEF IInv, TypeOK, Places, Index
<1>7. Fetched'
  BY <1>1, <1>2, <1>4, <1>5 DEF IInv, Fetched
<1>8. /\ CountedFiles' = CountedFiles /\ NotJoined' = NotJoined /\ Returned' = Returned
  BY <1>1, <1>2, <1>3, <1>4, <1>5 DEF CountedFiles, Counted, NotJoined, Returned
<1>9. Counters'
  BY <1>1, <1>2, <1>4, <1>8 DEF IInv, Counters
<1>10. QED
  BY <1>1, <1>2, <1>4, <1>6, <1>7, <1>9, NotFork DEF IInv

LEMMA ThreadReadsKeeps ==
    ASSUME IInv, NEW f \in Files, ThreadReads(f)
    PROVE  IInv'
<1>1. thread[f] = "read" /\ kind = "threads" /\ f \in Slots
  BY ThreadIs DEF ThreadReads
<1>2. /\ kind' = kind /\ maxconn' = maxconn /\ i' = i /\ pc' = pc
      /\ nconn' = nconn /\ nlefttoconn' = nlefttoconn /\ nlefttoread' = nlefttoread
      /\ starts' = starts /\ ready' = ready
      /\ ndone' = ndone /\ locked' = locked /\ kids' = kids /\ ended' = "no"
  BY DEF ThreadReads, Running, threadUnchanged, arguments, counters
<1>3. flags[f] = "F_READING"
  BY <1>1 DEF IInv, Fetched
<1>4. rest \in [Slots -> 0..Reads] /\ got \in [Slots -> {"no", "read", "failed"}]
  BY DEF IInv, TypeOK
<1>5. CASE rest[f] > 0
  <2>1. /\ rest' = [rest EXCEPT ![f] = @ - 1] /\ flags' = flags /\ got' = got
        /\ thread' = thread
    BY <1>5 DEF ThreadReads
  <2>2. rest' \in [Slots -> 0..Reads]
    <3>1. rest[f] \in 0..Reads
      BY <1>1, <1>4
    <3>2. rest[f] - 1 \in 0..Reads
      BY <1>5, <3>1, FilesAssumption
    <3>3. QED
      BY <1>4, <2>1, <3>2
  <2>3. TypeOK' /\ Places' /\ Index'
    BY <1>2, <2>1, <2>2 DEF IInv, TypeOK, Places, Index
  <2>4. /\ CountedFiles' = CountedFiles /\ NotJoined' = NotJoined /\ Unstarted' = Unstarted
        /\ Returned' = Returned
    BY <1>2, <2>1 DEF CountedFiles, Counted, NotJoined, Unstarted, Returned
  <2>5. Fetched'
    BY <1>2, <2>1 DEF IInv, Fetched
  <2>6. Counters'
    BY <1>1, <1>2, <2>1, <2>4 DEF IInv, Counters
  <2>7. Finish'
    BY <1>2 DEF Finish
  <2>8. QED
    BY <1>1, <1>2, <2>3, <2>5, <2>6, <2>7, NotFork DEF IInv
<1>6. CASE ~(rest[f] > 0)
  <2>1. /\ flags' = [flags EXCEPT ![f] = "F_DONE"] /\ got' = [got EXCEPT ![f] = "read"]
        /\ thread' = [thread EXCEPT ![f] = "lock"] /\ rest' = rest
    BY <1>6 DEF ThreadReads
  <2>2. /\ \A g \in Files : g # f => flags'[g] = flags[g]
        /\ flags'[f] = "F_DONE" /\ flags' \in [Slots -> Flags]
        /\ \A g \in Slots : starts'[g] <= 1 /\ (flags'[g] = "0" => starts'[g] = 0)
        /\ nlefttoconn' = Cardinality(Unstarted')
        /\ Finish'
    BY <1>1, <1>2, <1>3, <2>1, FileKeeps DEF Flags
  <2>3. /\ got' \in [Slots -> {"no", "read", "failed"}] /\ got'[f] = "read"
        /\ \A g \in Files : g # f => got'[g] = got[g]
    BY <1>1, <1>4, <2>1, FilesFinite
  <2>4. /\ \A g \in Files : g # f => thread'[g] = thread[g]
        /\ thread'[f] = "lock"
        /\ thread' \in [Slots -> {"none", "connect", "read", "lock", "exited"}]
    BY <1>1, <2>1, FilesFinite DEF IInv, TypeOK
  <2>5. TypeOK' /\ Places' /\ Index'
    BY <1>1, <1>2, <2>1, <2>2, <2>3, <2>4 DEF IInv, TypeOK, Places, Index
  <2>6. Fetched'
    BY <1>1, <1>2, <2>2, <2>3, <2>4 DEF IInv, Fetched
  <2>7. /\ CountedFiles' = CountedFiles /\ NotJoined' = NotJoined /\ Returned' = Returned
    BY <1>1, <1>2, <1>3, <2>2, <2>4 DEF CountedFiles, Counted, NotJoined, Returned
  <2>8. Counters'
    BY <1>1, <1>2, <2>2, <2>7 DEF IInv, Counters
  <2>9. QED
    BY <1>1, <1>2, <2>2, <2>5, <2>6, <2>8, NotFork DEF IInv
<1>7. QED
  BY <1>5, <1>6

LEMMA ThreadCountsKeeps ==
    ASSUME IInv, NEW f \in Files, ThreadCounts(f)
    PROVE  IInv'
<1>1. thread[f] = "lock" /\ kind = "threads" /\ f \in Slots
  BY ThreadIs DEF ThreadCounts
<1>2. /\ kind' = kind /\ maxconn' = maxconn /\ i' = i
      /\ pc' = pc \/ pc' = "woken"
      /\ nconn' = nconn /\ nlefttoconn' = nlefttoconn /\ nlefttoread' = nlefttoread
      /\ starts' = starts /\ ready' = ready /\ flags' = flags /\ rest' = rest /\ got' = got
      /\ locked' = locked /\ kids' = kids /\ ended' = "no"
      /\ ndone' = ndone + 1 /\ thread' = [thread EXCEPT ![f] = "exited"]
  BY DEF ThreadCounts, Running, threadUnchanged, arguments, counters
<1>3. flags[f] = "F_DONE"
  BY <1>1 DEF IInv, Fetched
<1>4. /\ \A g \in Files : g # f => thread'[g] = thread[g]
      /\ thread'[f] = "exited"
      /\ thread' \in [Slots -> {"none", "connect", "read", "lock", "exited"}]
  BY <1>1, <1>2, FilesFinite DEF IInv, TypeOK
<1>5. Returned' = Returned \union {f} /\ f \notin Returned
  BY <1>1, <1>2, <1>3, <1>4 DEF Returned
<1>6. /\ Cardinality(Returned') = Cardinality(Returned) + 1 /\ Cardinality(Returned') \in 0..NFiles
  BY <1>5, FileSets, Added, Sub
<1>7. ndone' = Cardinality(Returned') /\ ndone' \in 0..NFiles
  BY <1>1, <1>2, <1>6 DEF IInv, Counters
<1>8. TypeOK' /\ Places' /\ Index' /\ Finish'
  BY <1>1, <1>2, <1>4, <1>7 DEF IInv, TypeOK, Places, Index, Finish
<1>9. Fetched'
  BY <1>1, <1>2, <1>3, <1>4 DEF IInv, Fetched
<1>10. /\ CountedFiles' = CountedFiles /\ NotJoined' = NotJoined /\ Unstarted' = Unstarted
  BY <1>2 DEF CountedFiles, Counted, NotJoined, Unstarted
<1>11. Counters'
  BY <1>1, <1>2, <1>7, <1>10 DEF IInv, Counters
<1>12. QED
  BY <1>1, <1>2, <1>8, <1>9, <1>11, NotFork DEF IInv

-----------------------------------------------------------------------------
(* web2.                                                                   *)

LEMMA Fork2 ==
    ASSUME kind = "fork", kind' = kind
    PROVE  Fetched' /\ Counters'
  BY DEF Fetched, Counters

LEMMA ForkTypes ==
    ASSUME IInv
    PROVE  /\ kids \in [Slots -> 0..2] /\ starts \in [Slots -> 0..2] /\ flags \in [Slots -> Flags]
           /\ got \in [Slots -> {"no", "read", "failed"}]
           /\ maxconn \in 0..(NFiles + 1) /\ maxconn \in Nat /\ i \in Nat
           /\ Children = Kin(kids) /\ Cardinality(Kin(kids)) \in Nat
<1>1. /\ kids \in [Slots -> 0..2] /\ starts \in [Slots -> 0..2] /\ flags \in [Slots -> Flags]
      /\ got \in [Slots -> {"no", "read", "failed"}]
      /\ maxconn \in 0..(NFiles + 1) /\ maxconn \in Nat /\ i \in Nat
  BY FilesFinite DEF IInv, TypeOK, Slots
<1>2. Children = Kin(kids) /\ IsFiniteSet(Kin(kids))
  BY <1>1, ChildrenKin
<1>3. QED
  BY <1>1, <1>2, FS_CardinalityType

LEMMA MainForksKeeps ==
    ASSUME IInv, MainForks
    PROVE  IInv'
<1>1. kind = "fork" /\ pc = "fork" /\ i <= maxconn
  BY DEF IInv, TypeOK, Kinds, Places, MainForks
<1>2. /\ kids' = [kids EXCEPT ![i] = @ + 1] /\ starts' = [starts EXCEPT ![i] = @ + 1]
      /\ pc' = "mark" /\ kind' = kind /\ maxconn' = maxconn /\ i' = i /\ flags' = flags
      /\ nconn' = nconn /\ nlefttoconn' = nlefttoconn /\ nlefttoread' = nlefttoread
      /\ rest' = rest /\ got' = got /\ ready' = ready /\ thread' = thread /\ ndone' = ndone
      /\ locked' = locked /\ ended' = "no"
  BY DEF MainForks, Fork, Running, forkUnchanged, arguments, threadVars
<1>3. /\ kids \in [Slots -> 0..2] /\ starts \in [Slots -> 0..2]
      /\ maxconn \in 0..(NFiles + 1) /\ i \in Nat
      /\ Children = Kin(kids) /\ Cardinality(Kin(kids)) \in Nat
  BY ForkTypes
<1>4. i \in Slots /\ i <= i
  BY <1>1, <1>3, FilesFinite DEF IInv, TypeOK, Slots
<1>5. starts[i] <= 1 /\ kids[i] <= starts[i] /\ starts[i] \in 0..2 /\ kids[i] \in 0..2
  BY <1>1, <1>3, <1>4 DEF IInv, Started, Marking
<1>6. /\ starts' \in [Slots -> 0..2] /\ starts'[i] = starts[i] + 1
      /\ \A g \in Slots : g # i => starts'[g] = starts[g]
  <2>1. starts[i] + 1 \in 0..2
    BY <1>5
  <2>2. QED
    BY <1>2, <1>3, <1>4, <2>1
<1>7. /\ kids' \in [Slots -> 0..2] /\ kids'[i] = kids[i] + 1
      /\ \A g \in Slots : g # i => kids'[g] = kids[g]
  <2>1. kids[i] + 1 \in 0..2
    BY <1>5
  <2>2. QED
    BY <1>2, <1>3, <1>4, <2>1
<1>8. TypeOK' /\ Places' /\ Index' /\ Finish'
  BY <1>1, <1>2, <1>6, <1>7 DEF IInv, TypeOK, Places, Index, Finish
<1>9. Started'
  <2>1. /\ kids'[i] <= starts'[i] /\ Marking(i)'
        /\ flags'[i] = "0" => starts'[i] <= 1
        /\ ~(i \notin Files /\ i > maxconn)
    <3>1. flags[i] = "0" => starts[i] <= 0
      BY <1>1, <1>4 DEF IInv, Started, Marking
    <3>2. ~(i > maxconn)
      BY <1>1, <1>3
    <3>3. QED
      BY <1>2, <1>5, <1>6, <1>7, <3>1, <3>2 DEF Marking
  <2>2. ASSUME NEW g \in Slots, g # i
        PROVE  /\ kids'[g] <= starts'[g] /\ ~Marking(g)'
               /\ flags'[g] = "0" => starts'[g] <= 0
               /\ i' <= g => starts'[g] <= 1
               /\ g \notin Files /\ g > maxconn' => kids'[g] = 0
    BY <1>1, <1>2, <1>6, <1>7, <2>2 DEF IInv, Started, Marking
  <2>3. ASSUME NEW g \in Slots
        PROVE  /\ kids'[g] <= starts'[g]
               /\ flags'[g] = "0" => starts'[g] <= IF Marking(g)' THEN 1 ELSE 0
               /\ i' <= g /\ ~Marking(g)' => starts'[g] <= 1
               /\ g \notin Files /\ g > maxconn' => kids'[g] = 0
    <3>1. CASE g = i
      BY <1>2, <2>1, <3>1
    <3>2. CASE g # i
      BY <2>2, <3>2
    <3>3. QED
      BY <3>1, <3>2
  <2>4. QED
    BY <2>3 DEF Started, Marking
<1>10. Reckoned'
  <2>1. Cardinality(Children') <= Forks'
    <3>1. Cardinality(Kin(kids')) = Cardinality(Kin(kids)) + 1
      <4>1. kids[i] < 2
        BY <1>5
      <4>2. QED
        BY <1>2, <1>3, <1>4, <4>1, KinCount
    <3>2. Cardinality(Kin(kids)) <= i - 1
      BY <1>1, <1>3 DEF IInv, Reckoned, Forks
    <3>3. Children' = Kin(kids')
      BY <1>7, ChildrenAre DEF Children, Kin
    <3>4. Forks' = i
      BY <1>2 DEF Forks
    <3>5. QED
      BY <1>3, <3>1, <3>2, <3>3, <3>4
  <2>2. Ended' \subseteq Ended
    <3> SUFFICES ASSUME NEW g \in Files, starts'[g] > 0, kids'[g] = 0 PROVE g \in Ended
      BY DEF Ended
    <3>1. g # i /\ g \in Slots
      BY <1>5, <1>7, FilesFinite
    <3>2. QED
      BY <1>6, <1>7, <3>1 DEF Ended
  <2>3. \A g \in Ended' : got'[g] # "no"
    BY <1>1, <1>2, <2>2 DEF IInv, Reckoned
  <2>4. ~Miscounted' => ~Miscounted /\ Ended' = Ended
    <3> SUFFICES ASSUME ~Miscounted' PROVE ~Miscounted /\ Ended' = Ended
      OBVIOUS
    <3>1. ~(maxconn > NFiles) /\ \A g \in Files : ~(starts'[g] > 1)
      BY <1>1, <1>2 DEF Miscounted
    <3>2. i \in Files
      BY <1>1, <1>3, <1>4, <3>1, FilesFinite DEF Files, Slots
    <3>3. starts[i] = 0
      BY <1>5, <1>6, <3>1, <3>2
    <3>4. \A g \in Files : ~(starts[g] > 1)
      BY <1>6, <3>1, <3>3, FilesFinite
    <3>5. ~Miscounted
      BY <3>1, <3>4 DEF Miscounted
    <3>6. Ended \subseteq Ended'
      <4> SUFFICES ASSUME NEW g \in Files, starts[g] > 0, kids[g] = 0 PROVE g \in Ended'
        BY DEF Ended
      <4>1. g # i /\ g \in Slots
        BY <3>3, FilesFinite
      <4>2. QED
        BY <1>6, <1>7, <4>1 DEF Ended
    <3>7. QED
      BY <2>2, <3>5, <3>6
  <2>5. QED
    BY <1>1, <1>2, <2>1, <2>3, <2>4 DEF IInv, Reckoned
<1>11. QED
  BY <1>1, <1>2, <1>8, <1>9, <1>10, Fork2 DEF IInv

LEMMA MainMarksKeeps ==
    ASSUME IInv, MainMarks
    PROVE  IInv'
<1>1. kind = "fork" /\ pc = "mark" /\ i <= maxconn
  BY DEF IInv, TypeOK, Kinds, Places, Index, MainMarks
<1>2. /\ flags' = [flags EXCEPT ![i] = "F_DONE"] /\ i' = i + 1
      /\ pc' = "fork" /\ kind' = kind /\ maxconn' = maxconn /\ kids' = kids /\ starts' = starts
      /\ nconn' = nconn /\ nlefttoconn' = nlefttoconn /\ nlefttoread' = nlefttoread
      /\ rest' = rest /\ got' = got /\ ready' = ready /\ thread' = thread /\ ndone' = ndone
      /\ locked' = locked /\ ended' = "no"
  BY DEF MainMarks, Running, forkUnchanged, arguments, threadVars
<1>3. /\ flags \in [Slots -> Flags] /\ maxconn \in 0..(NFiles + 1) /\ i \in Nat
      /\ starts \in [Slots -> 0..2]
  BY ForkTypes
<1>4. /\ flags' \in [Slots -> Flags]
      /\ \A g \in Slots : flags'[g] = "0" => flags[g] = "0" /\ g # i
  BY <1>2, <1>3 DEF Flags
<1>5. i' \in 1..(maxconn + 1) /\ i' \in 1..(NFiles + 2)
  BY <1>1, <1>2, <1>3, FilesFinite
<1>6. TypeOK' /\ Places' /\ Index' /\ Finish'
  BY <1>1, <1>2, <1>4, <1>5 DEF IInv, TypeOK, Places, Index, Finish
<1>7. Started'
  <2> SUFFICES ASSUME NEW g \in Slots
               PROVE  /\ kids[g] <= starts[g]
                      /\ flags'[g] = "0" => starts[g] <= 0
                      /\ i + 1 <= g => starts[g] <= 1
                      /\ g \notin Files /\ g > maxconn => kids[g] = 0
    BY <1>2 DEF Started, Marking
  <2>1. kids[g] <= starts[g] /\ (g \notin Files /\ g > maxconn => kids[g] = 0)
    BY <1>1 DEF IInv, Started
  <2>2. flags'[g] = "0" => starts[g] <= 0
    BY <1>1, <1>4 DEF IInv, Started, Marking
  <2>3. i + 1 <= g => i <= g /\ g # i
    BY <1>3, FilesFinite
  <2>4. i + 1 <= g => starts[g] <= 1
    BY <1>1, <2>3 DEF IInv, Started, Marking
  <2>5. QED
    BY <2>1, <2>2, <2>4
<1>8. Reckoned'
  <2>1. Children' = Children /\ Ended' = Ended /\ Miscounted' = Miscounted
    BY <1>2 DEF Children, Ended, Miscounted
  <2>2. Forks' = Forks
    BY <1>1, <1>2, <1>3 DEF Forks
  <2>3. QED
    BY <1>2, <2>1, <2>2 DEF IInv, Reckoned
<1>9. QED
  BY <1>1, <1>2, <1>6, <1>7, <1>8, Fork2 DEF IInv

\* One child less of f.
LEMMA KinLess ==
    ASSUME NEW k \in [Slots -> 0..2], NEW f \in Slots, k[f] > 0
    PROVE  LET m == [k EXCEPT ![f] = @ - 1] IN
           /\ m \in [Slots -> 0..2] /\ m[f] = k[f] - 1 /\ \A g \in Slots : g # f => m[g] = k[g]
           /\ Cardinality(Kin(k)) = Cardinality(Kin(m)) + 1 /\ Cardinality(Kin(m)) \in Nat
<1> DEFINE m == [k EXCEPT ![f] = @ - 1]
<1>1. k[f] \in 0..2 /\ k[f] - 1 \in 0..2
  OBVIOUS
<1>2. m \in [Slots -> 0..2] /\ m[f] = k[f] - 1 /\ \A g \in Slots : g # f => m[g] = k[g]
  BY <1>1
<1>3. m[f] + 1 = k[f] /\ m[f] < 2
  BY <1>1, <1>2
<1>4. [m EXCEPT ![f] = @ + 1] = k
  BY <1>2, <1>3
<1> HIDE DEF m
<1>5. /\ Cardinality(Kin([m EXCEPT ![f] = @ + 1])) = Cardinality(Kin(m)) + 1
      /\ Cardinality(Kin(m)) \in Nat
  BY <1>2, <1>3, KinCount
<1>6. QED
  BY <1>2, <1>4, <1>5 DEF m

LEMMA ChildExitsKeeps ==
    ASSUME IInv, NEW f \in Slots, ChildExits(f)
    PROVE  IInv'
<1>1. kind = "fork" /\ kids[f] > 0 /\ f \in Slots
  BY DEF ChildExits
<1>2. /\ kind' = kind /\ maxconn' = maxconn /\ i' = i
      /\ nconn' = nconn /\ nlefttoconn' = nlefttoconn /\ nlefttoread' = nlefttoread - 1
      /\ rest' = rest /\ ready' = ready /\ thread' = thread /\ ndone' = ndone
      /\ locked' = locked /\ ended' = "no" /\ ended = "no"
  BY DEF ChildExits, Running, forkUnchanged, arguments, threadVars
<1>3. pc' = IF pc = "pause" THEN "test" ELSE pc
  BY DEF ChildExits
<1>4. /\ kids \in [Slots -> 0..2] /\ starts \in [Slots -> 0..2] /\ flags \in [Slots -> Flags]
      /\ got \in [Slots -> {"no", "read", "failed"}]
      /\ maxconn \in 0..(NFiles + 1) /\ i \in Nat
      /\ Children = Kin(kids) /\ Cardinality(Kin(kids)) \in Nat
  BY ForkTypes
<1>5. PICK how \in {"read", "failed"} : got' = [got EXCEPT ![f] = IF @ = "read" THEN @ ELSE how]
  BY DEF ChildExits
<1>6. /\ got' \in [Slots -> {"no", "read", "failed"}] /\ got'[f] # "no"
      /\ \A g \in Slots : g # f => got'[g] = got[g]
  BY <1>4, <1>5
<1> DEFINE less == [kids EXCEPT ![f] = @ - 1]
<1>7. /\ less \in [Slots -> 0..2] /\ less[f] = kids[f] - 1
      /\ \A g \in Slots : g # f => less[g] = kids[g]
      /\ Cardinality(Kin(kids)) = Cardinality(Kin(less)) + 1 /\ Cardinality(Kin(less)) \in Nat
  BY <1>1, <1>4, KinLess
<1>8. \A g \in Slots : less[g] <= kids[g] /\ less[g] \in 0..2 /\ kids[g] \in 0..2
  <2>1. kids[f] \in 0..2 /\ less[f] <= kids[f]
    BY <1>4, <1>7
  <2>2. QED
    BY <1>4, <1>7, <2>1
<1>9. /\ pc' \in {"home", "fork", "mark", "test", "tested", "pause"}
      /\ pc' = "mark" <=> pc = "mark"
      /\ Forks' = Forks
  BY <1>1, <1>2, <1>3 DEF IInv, Places, Forks
<1>10. Places' /\ Index' /\ Finish'
  BY <1>1, <1>2, <1>9 DEF IInv, Places, Index, Finish
<1>11. Cardinality(Kin(kids)) <= Forks /\ Forks \in Int
  BY <1>1, <1>4 DEF IInv, Reckoned, Forks
<1>12. nlefttoread \in Int /\ nlefttoread' \in Int /\ nlefttoread = nlefttoread' + 1
  BY <1>2 DEF IInv, TypeOK
\* What a child that ends is to the count, if it is the only one of its file.
<1>13. ASSUME Ended' = Ended \union {f}, f \in Files, f \notin Ended
       PROVE  Cardinality(Ended') = Cardinality(Ended) + 1 /\ Cardinality(Ended) \in 0..NFiles
  BY <1>13, FileSets, Added, Sub
<1>14. ~Miscounted => f \in Files /\ kids[f] = 1 /\ starts[f] = 1 /\ f \notin Ended
  <2> SUFFICES ASSUME ~Miscounted PROVE f \in Files /\ kids[f] = 1 /\ starts[f] = 1 /\ f \notin Ended
    OBVIOUS
  <2>1. ~(maxconn > NFiles) /\ \A g \in Files : ~(starts[g] > 1)
    BY <1>1 DEF Miscounted
  <2>2. f \in Files
    <3>1. CASE f \notin Files
      <4>1. f = NFiles + 1
        BY <3>1, FilesFinite DEF Files, Slots
      <4>2. f > maxconn
        BY <1>4, <2>1, <4>1, FilesFinite
      <4>3. kids[f] = 0
        BY <1>1, <3>1, <4>2 DEF IInv, Started
      <4>4. QED
        BY <1>1, <4>3
    <3>2. QED
      BY <3>1
  <2>3. kids[f] <= starts[f] /\ starts[f] \in 0..2 /\ kids[f] \in 0..2
    BY <1>1, <1>4 DEF IInv, Started
  <2>4. kids[f] = 1 /\ starts[f] = 1
    BY <1>1, <2>1, <2>2, <2>3
  <2>5. QED
    BY <2>2, <2>4 DEF Ended
<1>15. CASE Unstarted = {}
  <2>1. kids' = less /\ flags' = flags /\ starts' = starts
    BY <1>15 DEF ChildExits
  <2>2. TypeOK'
    BY <1>2, <1>6, <1>7, <1>9, <1>12, <2>1 DEF IInv, TypeOK
  <2>3. Started'
    <3> SUFFICES ASSUME NEW g \in Slots
                 PROVE  /\ less[g] <= starts[g]
                        /\ flags[g] = "0" => starts[g] <= IF Marking(g) THEN 1 ELSE 0
                        /\ i <= g /\ ~Marking(g) => starts[g] <= 1
                        /\ g \notin Files /\ g > maxconn => less[g] = 0
      BY <1>2, <1>9, <2>1 DEF Started, Marking
    <3>1. /\ kids[g] <= starts[g]
          /\ flags[g] = "0" => starts[g] <= IF Marking(g) THEN 1 ELSE 0
          /\ i <= g /\ ~Marking(g) => starts[g] <= 1
          /\ g \notin Files /\ g > maxconn => kids[g] = 0
      BY <1>1 DEF IInv, Started
    <3>2. less[g] <= kids[g] /\ less[g] \in 0..2 /\ kids[g] \in 0..2 /\ starts[g] \in 0..2
      BY <1>4, <1>8
    <3>3. less[g] <= starts[g] /\ (kids[g] = 0 => less[g] = 0)
      BY <3>1, <3>2
    <3>4. QED
      BY <3>1, <3>3
  <2>4. Reckoned'
    <3>1. Cardinality(Children') <= Forks'
      <4>1. Children' = Kin(kids')
        BY <1>7, <2>1, ChildrenAre DEF Children, Kin
      <4>2. QED
        BY <1>7, <1>9, <1>11, <2>1, <4>1
    <3>2. \A g \in Files : g # f => (g \in Ended' <=> g \in Ended)
      BY <1>7, <2>1, FilesFinite DEF Ended
    <3>3. \A g \in Ended' : got'[g] # "no"
      <4>1. \A g \in Ended' : g \in Files /\ g \in Slots
        BY FilesFinite DEF Ended
      <4>2. QED
        BY <1>1, <1>6, <3>2, <4>1 DEF IInv, Reckoned
    <3>4. ASSUME ~Miscounted' PROVE nlefttoread' + Cardinality(Ended') = NFiles
      <4>1. ~Miscounted
        BY <1>2, <2>1, <3>4 DEF Miscounted
      <4>2. f \in Files /\ kids[f] = 1 /\ starts[f] = 1 /\ f \notin Ended
        BY <1>14, <4>1
      <4>3. f \in Ended'
        BY <1>7, <2>1, <4>2 DEF Ended
      <4>4. Ended' = Ended \union {f}
        BY <3>2, <4>2, <4>3 DEF Ended
      <4>5. nlefttoread + Cardinality(Ended) = NFiles
        BY <1>1, <4>1 DEF IInv, Reckoned
      <4>6. Cardinality(Ended') = Cardinality(Ended) + 1 /\ Cardinality(Ended) \in 0..NFiles
        BY <1>13, <4>2, <4>4
      <4>7. QED
        BY <1>12, <4>5, <4>6, FilesFinite
    <3>5. QED
      BY <3>1, <3>3, <3>4 DEF Reckoned
  <2>5. QED
    BY <1>1, <1>2, <1>10, <2>2, <2>3, <2>4, Fork2 DEF IInv
<1>16. CASE Unstarted # {}
  <2>1. PICK next \in Unstarted :
            /\ kids' = [[kids EXCEPT ![f] = @ - 1] EXCEPT ![next] = @ + 1]
            /\ starts' = [starts EXCEPT ![next] = @ + 1]
            /\ flags' = [flags EXCEPT ![next] = "F_DONE"]
    BY <1>16 DEF ChildExits
  <2>2. next \in Files /\ next \in Slots /\ flags[next] = "0"
    BY FilesFinite DEF Unstarted
  <2>3. kids' = [less EXCEPT ![next] = @ + 1]
    BY <2>1
  <2>4. /\ starts[next] \in 0..2 /\ starts[next] <= 1 /\ less[next] <= 1 /\ less[next] \in 0..2
        /\ ~Marking(next) => starts[next] = 0
    <3>1. kids[next] <= starts[next] /\ starts[next] <= IF Marking(next) THEN 1 ELSE 0
      BY <1>1, <2>2 DEF IInv, Started
    <3>2. starts[next] \in 0..2 /\ less[next] \in 0..2 /\ kids[next] \in 0..2 /\ less[next] <= kids[next]
      BY <1>4, <1>8, <2>2
    <3>3. QED
      BY <3>1, <3>2
  <2> HIDE DEF less
  <2>5. /\ kids' \in [Slots -> 0..2] /\ kids'[next] = less[next] + 1
        /\ \A g \in Slots : g # next => kids'[g] = less[g]
    <3>1. less[next] + 1 \in 0..2
      BY <2>4
    <3>2. QED
      BY <1>7, <2>2, <2>3, <3>1
  <2>6. /\ starts' \in [Slots -> 0..2] /\ starts'[next] = starts[next] + 1
        /\ \A g \in Slots : g # next => starts'[g] = starts[g]
    <3>1. starts[next] + 1 \in 0..2
      BY <2>4
    <3>2. QED
      BY <1>4, <2>1, <2>2, <3>1
  <2>7. /\ flags' \in [Slots -> Flags] /\ flags'[next] = "F_DONE"
        /\ \A g \in Slots : g # next => flags'[g] = flags[g]
    BY <1>4, <2>1, <2>2 DEF Flags
  <2>8. TypeOK'
    BY <1>2, <1>6, <1>9, <1>12, <2>5, <2>6, <2>7 DEF IInv, TypeOK
  <2>9. Started'
    <3>1. \A g \in Slots : Marking(g)' = Marking(g)
      BY <1>2, <1>9 DEF Marking
    <3> SUFFICES ASSUME NEW g \in Slots
                 PROVE  /\ kids'[g] <= starts'[g]
                        /\ flags'[g] = "0" => starts'[g] <= IF Marking(g) THEN 1 ELSE 0
                        /\ i <= g /\ ~Marking(g) => starts'[g] <= 1
                        /\ g \notin Files /\ g > maxconn => kids'[g] = 0
      BY <1>2, <3>1 DEF Started
    <3>2. /\ kids[g] <= starts[g]
          /\ flags[g] = "0" => starts[g] <= IF Marking(g) THEN 1 ELSE 0
          /\ i <= g /\ ~Marking(g) => starts[g] <= 1
          /\ g \notin Files /\ g > maxconn => kids[g] = 0
      BY <1>1 DEF IInv, Started
    <3>3. less[g] <= kids[g] /\ less[g] \in 0..2 /\ kids[g] \in 0..2 /\ starts[g] \in 0..2
      BY <1>4, <1>8
    <3>4. CASE g = next
      <4>1. less[g] + 1 <= starts[g] + 1
        BY <3>2, <3>3
      <4>2. ~Marking(g) => starts[g] + 1 <= 1
        BY <2>4, <3>4
      <4>3. QED
        BY <2>2, <2>5, <2>6, <2>7, <3>4, <4>1, <4>2
    <3>5. CASE g # next
      <4>1. less[g] <= starts[g] /\ (kids[g] = 0 => less[g] = 0)
        BY <3>2, <3>3
      <4>2. QED
        BY <2>5, <2>6, <2>7, <3>2, <3>5, <4>1
    <3>6. QED
      BY <3>4, <3>5
  <2>10. Reckoned'
    <3>1. Cardinality(Children') <= Forks'
      <4>1. Children' = Kin(kids')
        BY <2>5, ChildrenAre DEF Children, Kin
      <4>2. less[next] < 2
        BY <2>4
      <4>3. Cardinality(Kin(kids')) = Cardinality(Kin(less)) + 1
        BY <1>7, <2>2, <2>3, <4>2, KinCount
      <4>4. QED
        BY <1>7, <1>9, <1>11, <4>1, <4>3
    <3>2. next \notin Ended'
      <4>1. kids'[next] > 0
        BY <2>4, <2>5
      <4>2. QED
        BY <4>1 DEF Ended
    <3>3. \A g \in Files : g # f /\ g # next => (g \in Ended' <=> g \in Ended)
      BY <1>7, <2>5, <2>6, FilesFinite DEF Ended
    <3>4. \A g \in Ended' : got'[g] # "no"
      <4>1. \A g \in Ended' : g \in Files /\ g \in Slots /\ g # next
        BY <3>2, FilesFinite DEF Ended
      <4>2. QED
        BY <1>1, <1>6, <3>3, <4>1 DEF IInv, Reckoned
    <3>5. ASSUME ~Miscounted' PROVE nlefttoread' + Cardinality(Ended') = NFiles
      <4>1. ~(maxconn > NFiles) /\ \A g \in Files : ~(starts'[g] > 1)
        BY <1>1, <1>2, <3>5 DEF Miscounted
      <4>2. starts[next] = 0
        BY <2>2, <2>4, <2>6, <4>1
      <4>3. \A g \in Files : ~(starts[g] > 1)
        BY <2>6, <4>1, <4>2, FilesFinite
      <4>4. ~Miscounted
        BY <4>1, <4>3 DEF Miscounted
      <4>5. f \in Files /\ kids[f] = 1 /\ starts[f] = 1 /\ f \notin Ended
        BY <1>14, <4>4
      <4>6. f # next
        BY <4>2, <4>5
      <4>7. f \in Ended' /\ next \notin Ended
        BY <1>1, <1>7, <2>5, <2>6, <4>2, <4>5, <4>6 DEF Ended
      <4>8. Ended' = Ended \union {f}
        BY <3>2, <3>3, <4>5, <4>7 DEF Ended
      <4>9. nlefttoread + Cardinality(Ended) = NFiles
        BY <1>1, <4>4 DEF IInv, Reckoned
      <4>10. Cardinality(Ended') = Cardinality(Ended) + 1 /\ Cardinality(Ended) \in 0..NFiles
        BY <1>13, <4>5, <4>8
      <4>11. QED
        BY <1>12, <4>9, <4>10, FilesFinite
    <3>6. QED
      BY <3>1, <3>4, <3>5 DEF Reckoned
  <2>11. QED
    BY <1>1, <1>2, <1>10, <2>8, <2>9, <2>10, Fork2 DEF IInv
<1>17. QED
  BY <1>15, <1>16

-----------------------------------------------------------------------------
(* The results.                                                            *)

LEMMA EndSteps ==
    ASSUME IInv, Main \/ (\E f \in Files : Thread(f)), ended' # "no"
    PROVE  IInv'
<1>1. \/ \E how \in {"error", "killed"} : End(how)
      \/ End("normal") /\ nlefttoread <= 0
  <2>1. CASE HomePage \/ AllDone \/ ConnectError \/ ConnectFailed \/ MainTests
    BY <2>1 DEF HomePage, AllDone, ConnectError, ConnectFailed, MainTests, Running
  <2>2. CASE \E f \in Files : ThreadConnects(f)
    BY <2>2 DEF ThreadConnects, Running, threadUnchanged
  <2>3. CASE \/ StartConnect \/ CreateThread \/ Select \/ MainLocks \/ MainChecks \/ MainSkips
             \/ MainJoins \/ MainForks \/ MainMarks \/ MainPauses
             \/ \E f \in Files : Connected(f) \/ SelectRead(f) \/ ThreadReads(f) \/ ThreadCounts(f)
    BY <2>3 DEF StartConnect, CreateThread, Open, Select, MainLocks, MainChecks, MainSkips,
                MainJoins, MainForks, MainMarks, MainPauses, forkUnchanged, Connected, SelectRead, Scanned, ThreadReads,
                ThreadCounts, Running, threadUnchanged
  <2>4. QED
    BY <2>1, <2>2, <2>3 DEF Main, Thread
<1>2. QED
  BY <1>1, EndKeeps

LEMMA InvStep == IInv /\ [Next]_vars => IInv'
<1> SUFFICES ASSUME IInv, [Next]_vars PROVE IInv'
  OBVIOUS
<1>1. CASE UNCHANGED vars
  <2>1. /\ kind' = kind /\ maxconn' = maxconn /\ pc' = pc /\ i' = i /\ flags' = flags
        /\ nconn' = nconn /\ nlefttoconn' = nlefttoconn /\ nlefttoread' = nlefttoread
        /\ rest' = rest /\ got' = got /\ starts' = starts /\ ready' = ready
        /\ thread' = thread /\ ndone' = ndone /\ locked' = locked /\ kids' = kids
        /\ ended' = ended
    BY <1>1 DEF vars, arguments, counters, threadVars
  <2>2. Same
    BY <2>1 DEF Same
  <2>3. TypeOK' /\ Places' /\ Index'
    BY <2>1 DEF IInv, TypeOK, Places, Index
  <2>4. QED
    BY <2>2, <2>3, SameKeeps DEF IInv
<1>2. CASE (Main \/ \E f \in Files : Thread(f)) /\ ended' # "no"
  BY <1>2, EndSteps
<1>3. CASE Main /\ ended' = "no"
  <2>1. ~AllDone /\ ~ConnectError /\ ~ConnectFailed
    BY <1>3 DEF AllDone, ConnectError, ConnectFailed, End
  <2>2. QED
    BY <1>3, <2>1, MoveKeeps, StartKeeps, ConnectedKeeps, SelectReadKeeps, MainJoinsKeeps,
       MainForksKeeps, MainMarksKeeps DEF Main
<1>4. CASE (\E f \in Files : Thread(f)) /\ ended' = "no"
  BY <1>4, ThreadConnectsKeeps, ThreadReadsKeeps, ThreadCountsKeeps DEF Thread
<1>5. CASE \E f \in Slots : ChildExits(f)
  BY <1>5, ChildExitsKeeps
<1>6. QED
  BY <1>1, <1>2, <1>3, <1>4, <1>5 DEF Next, Finished

LEMMA Inductive == Spec => []IInv
  BY InvInit, InvStep, PTL DEF Spec

\* Every variable keeps its type, for any number of files and of connections.
THEOREM Typing == Spec => []TypeOK
<1>1. IInv => TypeOK
  BY DEF IInv
<1>2. QED
  BY <1>1, Inductive, PTL

LEMMA LimitHolds == IInv => ConnLimit
<1> SUFFICES ASSUME IInv PROVE ConnLimit
  OBVIOUS
<1>1. CASE kind = "fork"
  <2>1. Cardinality(Children) <= Forks
    BY <1>1 DEF IInv, Reckoned
  <2>2. maxconn \in Nat /\ Cardinality(Children) \in Nat
    BY ForkTypes
  <2>3. Forks \in Int /\ Forks <= maxconn
    BY <1>1, <2>2 DEF IInv, Index, Forks
  <2>4. QED
    BY <1>1, <2>1, <2>2, <2>3 DEF ConnLimit
<1>2. CASE kind # "fork"
  BY <1>2 DEF IInv, Counters, ConnLimit, CountedFiles, NotJoined
<1>3. QED
  BY <1>1, <1>2

\* There are never more than maxnconn connections, or children, and the counters are right
\* whatever the threads do to f_iFlags.
THEOREM LimitIsKept == Spec => []ConnLimit
  BY Inductive, LimitHolds, PTL

LEMMA AllReadHolds == IInv => AllRead
<1> SUFFICES ASSUME IInv, ended = "normal", ~Miscounted, NEW f \in Files
             PROVE  got[f] = "read" \/ (kind = "fork" /\ got[f] = "failed")
  BY DEF AllRead
<1>1. nlefttoread <= 0 /\ nlefttoread \in Int
  BY DEF IInv, Finish, TypeOK
<1>2. CASE kind = "fork"
  <2>1. nlefttoread + Cardinality(Ended) = NFiles /\ Cardinality(Ended) \in 0..NFiles
    BY <1>2, FileSets, Sub DEF IInv, Reckoned
  <2>2. Cardinality(Ended) >= NFiles
    BY <1>1, <2>1, FilesFinite
  <2>3. Ended = Files
    BY <2>2, FileSets, AllCounted
  <2>4. got[f] # "no"
    BY <1>2, <2>3 DEF IInv, Reckoned
  <2>5. got[f] \in {"no", "read", "failed"}
    BY FilesFinite DEF IInv, TypeOK
  <2>6. QED
    BY <1>2, <2>4, <2>5
<1>3. CASE kind = "threads"
  <2>1. Cardinality(NotJoined) <= 0
    BY <1>1, <1>3 DEF IInv, Counters
  <2>2. NotJoined = {}
    BY <2>1, FileSets, NoneCounted
  <2>3. flags[f] = "F_JOINED"
    BY <2>2 DEF NotJoined
  <2>4. QED
    BY <1>3, <2>3 DEF IInv, Fetched
<1>4. CASE kind = "select"
  <2>1. Cardinality(NotDone) <= 0
    BY <1>1, <1>4 DEF IInv, Counters
  <2>2. NotDone = {}
    BY <2>1, FileSets, NoneCounted
  <2>3. flags[f] = "F_DONE"
    BY <2>2 DEF NotDone
  <2>4. QED
    BY <1>4, <2>3 DEF IInv, Fetched
<1>5. QED
  BY <1>2, <1>3, <1>4 DEF IInv, TypeOK, Kinds

\* A client that says it has finished has read every file, if its children were not
\* miscounted.
THEOREM FinishedHasRead == Spec => []AllRead
  BY Inductive, AllReadHolds, PTL

-----------------------------------------------------------------------------
(***************************************************************************)
(* Proofs about PreforkLock, for any number of children and clients: under *)
(* each of the locks one child at a time is in accept().  The invariant is *)
(* Held: who is in accept() holds the lock.  It outlives the deaths,       *)
(* because only the holder's own lock is ever given back by the kernel,    *)
(* and the EINTR of serv03, because the child goes back to ask for a lock  *)
(* it still has.                                                           *)
(***************************************************************************)
Held ==
    guard # "none" =>
        \A c \in Pool : place[c] \in {"accept", "unlock"} => lock = c

LockIInv == LockTypeOK /\ Held

LEMMA LockInvInit == LockInit => LockIInv
  BY ChildrenAssumption DEF LockInit, LockIInv, LockTypeOK, Held, Free

LEMMA ForkStep == LockIInv /\ (ForkChild \/ Forked) => LockIInv'
<1>1. LockIInv /\ ForkChild => LockTypeOK'
  BY ChildrenAssumption DEF LockIInv, LockTypeOK, ForkChild, Loop, Pool
<1>2. LockIInv /\ ForkChild => Held'
  BY DEF LockIInv, LockTypeOK, Held, ForkChild, Loop
<1>3. LockIInv /\ Forked => LockIInv'
  BY DEF LockIInv, LockTypeOK, Held, Forked
<1>4. QED
  BY <1>1, <1>2, <1>3 DEF LockIInv

LEMMA AllExitStep == LockIInv /\ AllExit => LockIInv'
  BY DEF LockIInv, LockTypeOK, Held, AllExit

LEMMA ExitStep ==
    ASSUME LockIInv, NEW c \in Pool, Exit(c)
    PROVE  LockIInv'
<1>1. CASE guard = "thread"
  BY <1>1, AllExitStep DEF Exit
<1>2. CASE guard # "thread"
  <2>1. LockTypeOK'
    BY <1>2 DEF LockIInv, LockTypeOK, Exit
  <2>2. Held'
    BY <1>2 DEF LockIInv, LockTypeOK, Held, Exit
  <2>3. QED
    BY <2>1, <2>2 DEF LockIInv
<1>3. QED
  BY <1>1, <1>2

LEMMA ParentLeaves == LockIInv /\ (SigInt \/ Reaped \/ WaitFails \/ ParentEnds) => LockIInv'
<1>1. CASE SigInt
  BY <1>1, AllExitStep DEF LockIInv, LockTypeOK, Held, SigInt
<1>2. CASE Reaped \/ WaitFails
  BY <1>2 DEF LockIInv, LockTypeOK, Held, Reaped, WaitFails
<1>3. CASE ParentEnds
  BY <1>3, AllExitStep DEF LockIInv, LockTypeOK, Held, ParentEnds
<1>4. QED
  BY <1>1, <1>2, <1>3

LEMMA LockStep ==
    ASSUME LockIInv, NEW c \in Pool, Acquire(c) \/ Release(c) \/ AlarmInAccept(c)
    PROVE  LockIInv'
<1>1. LockTypeOK'
  BY DEF LockIInv, LockTypeOK, Acquire, Release, AlarmInAccept
<1>2. CASE Acquire(c)
  BY <1>1, <1>2 DEF LockIInv, LockTypeOK, Held, Acquire, Free, Pool
<1>3. CASE Release(c)
  BY <1>1, <1>3 DEF LockIInv, LockTypeOK, Held, Release
<1>4. CASE AlarmInAccept(c)
  BY <1>1, <1>4 DEF LockIInv, LockTypeOK, Held, AlarmInAccept
<1>5. QED
  BY <1>2, <1>3, <1>4

LEMMA ServeStep ==
    ASSUME LockIInv, NEW c \in Pool, Accept(c) \/ Served(c) \/ Kill(c)
    PROVE  LockIInv'
<1>1. CASE Accept(c)
  <2>1. Head(backlog) \in Clients /\ Tail(backlog) \in Seq(Clients)
    BY <1>1 DEF LockIInv, LockTypeOK, Accept
  <2>2. LockTypeOK'
    BY <1>1, <2>1 DEF LockIInv, LockTypeOK, Accept
  <2>3. Held'
    BY <1>1 DEF LockIInv, LockTypeOK, Held, Accept
  <2>4. QED
    BY <2>2, <2>3 DEF LockIInv
<1>2. CASE Served(c)
  <2>1. LockTypeOK'
    BY <1>2 DEF LockIInv, LockTypeOK, Served, Loop
  <2>2. Held'
    BY <1>2 DEF LockIInv, LockTypeOK, Held, Served, Loop
  <2>3. QED
    BY <2>1, <2>2 DEF LockIInv
<1>3. CASE Kill(c)
  BY <1>3 DEF LockIInv, LockTypeOK, Held, Kill, Living
<1>4. QED
  BY <1>1, <1>2, <1>3

LEMMA ClientStep == LockIInv /\ (Abort \/ \E n \in Clients : Connect(n)) => LockIInv'
<1> SUFFICES ASSUME LockIInv, Abort \/ \E n \in Clients : Connect(n) PROVE LockIInv'
  OBVIOUS
<1>1. backlog' \in Seq(Clients)
  <2>1. backlog \in Seq(Clients)
    BY DEF LockIInv, LockTypeOK
  <2>2. CASE Abort
    BY <2>1, <2>2 DEF Abort
  <2>3. ASSUME NEW n \in Clients, Connect(n) PROVE backlog' \in Seq(Clients)
    BY <2>1, <2>3 DEF Connect
  <2>4. QED
    BY <2>2, <2>3
<1>2. UNCHANGED <<guard, parent, nforked, place, lock, conn, killed>>
  BY DEF Abort, Connect
<1>3. QED
  BY <1>1, <1>2 DEF LockIInv, LockTypeOK, Held

LEMMA LockInvStep == LockIInv /\ [LockNext]_lock_vars => LockIInv'
<1> SUFFICES ASSUME LockIInv, [LockNext]_lock_vars PROVE LockIInv'
  OBVIOUS
<1>1. CASE ParentStep
  BY <1>1, ForkStep, ParentLeaves DEF ParentStep
<1>2. CASE \E c \in Pool : ChildStep(c)
  BY <1>2, LockStep, ServeStep, ExitStep DEF ChildStep, SigTerm
<1>3. CASE Failure
  BY <1>3, ParentLeaves, LockStep, ExitStep
     DEF Failure, AlarmInWait, AcceptFails, ReplyExits
<1>4. CASE Environment
  BY <1>4, ParentLeaves, ServeStep, ClientStep DEF Environment
<1>5. CASE UNCHANGED lock_vars
  BY <1>5 DEF LockIInv, LockTypeOK, Held, lock_vars
<1>6. QED
  BY <1>1, <1>2, <1>3, <1>4, <1>5 DEF LockNext, Exited

LEMMA LockInductive == LockSpec => []LockIInv
  BY LockInvInit, LockInvStep, PTL DEF LockSpec

\* Every variable keeps its type, for any number of children.
THEOREM LockTyping == LockSpec => []LockTypeOK
<1>1. LockIInv => LockTypeOK
  BY DEF LockIInv
<1>2. QED
  BY <1>1, LockInductive, PTL

\* No two children are in accept() at once under any of the locks, whichever of
\* them die and whatever SIGALRM interrupts.
THEOREM Exclusion == LockSpec => []OneAcceptor
<1>1. LockIInv => OneAcceptor
  BY DEF LockIInv, Held, OneAcceptor
<1>2. QED
  BY <1>1, LockInductive, PTL
=============================================================================
