--------------------------- MODULE ThreadPoolProofs ---------------------------
(***************************************************************************)
(* Proofs about ThreadPool, for any set of threads and clients and any     *)
(* limits minthreads <= maxthreads.                                        *)
(*                                                                         *)
(* The properties follow from one inductive invariant, IInv.  Its heart is *)
(* a chain of three facts.  When main finds nconn = nthreads, every thread *)
(* that exists is connected, so none is still on its way to line 116       *)
(* (NoNewcomer).  Hence during the scan the entries whose tid is set are   *)
(* exactly the entries in use (EntryInv), and no two threads can be given  *)
(* the same one.  And as main holds mlock from the test nthreads <         *)
(* maxthreads on, no thread joins or leaves: a scan that found every tid   *)
(* set would have found maxthreads threads (ScanInv, pigeonhole).          *)
(***************************************************************************)
EXTENDS ThreadPool, FiniteSetTheorems, TLAPS

Started(t) == pc[t] \notin {"none", "new"}

\* pThread[] and the threads on it.
EntryInv ==
    /\ \A t \in Threads : pc[t] # "none" => slot[t] \in Slots
    /\ \A t, u \in Threads :
          pc[t] # "none" /\ pc[u] # "none" /\ slot[t] = slot[u] => t = u
    /\ \A t \in Threads : Started(t) => tid[slot[t]] = t
    /\ \A s \in Slots : tid[s] # Nobody => Started(tid[s]) /\ slot[tid[s]] = s

\* Who holds mlock.
LockInv ==
    /\ mlock = Main <=> mpc \in {"scan", "count"}
    /\ \A t \in Threads : mlock = t <=> pc[t] \in {"select", "accept"}

\* The counters.
CountInv ==
    /\ nconn = Cardinality(Connected)
    /\ MinThreads <= nthreads /\ nthreads <= MaxThreads
    /\ mpc \in {"scan", "count"} => nthreads < MaxThreads
    /\ mpc = "start" => nthreads = MinThreads /\ i <= MinThreads /\ i = Cardinality(Live)
    /\ mpc = "count" => nthreads + 1 = Cardinality(Live)
    /\ mpc \notin {"start", "count"} => nthreads = Cardinality(Live)

\* What main has established by the time it starts a thread.
NoNewcomer == mpc \in {"grow", "scan"} => \A t \in Threads : pc[t] # "new"
StartInv == mpc = "start" => \A t \in Threads : pc[t] # "none" => slot[t] < i
ScanInv ==
    /\ mpc = "scan" => /\ i <= MaxThreads
                       /\ \A s \in Slots : s < i => tid[s] # Nobody
    /\ mpc # "quit"

IInv ==
    /\ TypeOK
    /\ EntryInv
    /\ LockInv
    /\ CountInv
    /\ NoNewcomer
    /\ StartInv
    /\ ScanInv

-----------------------------------------------------------------------------
(* Counting threads.                                                       *)

LEMMA ThreadSets ==
    /\ IsFiniteSet(Live) /\ Cardinality(Live) \in Nat
    /\ IsFiniteSet(Connected) /\ Cardinality(Connected) \in Nat
<1>1. Live \in SUBSET Threads /\ Connected \in SUBSET Threads
  BY DEF Live, Connected
<1>2. QED
  BY <1>1, ThreadsAssumption, FS_Subset, FS_CardinalityType

\* One thread moves: what that does to the number of threads, and of connected ones.
LEMMA CountChange ==
    ASSUME TypeOK, NEW t \in Threads, pc' = [pc EXCEPT ![t] = pc'[t]]
    PROVE  /\ pc'[t] # "none" /\ pc[t] = "none" => Cardinality(Live)' = Cardinality(Live) + 1
           /\ pc'[t] = "none" /\ pc[t] # "none" => Cardinality(Live)' = Cardinality(Live) - 1
           /\ (pc'[t] = "none" <=> pc[t] = "none") => Cardinality(Live)' = Cardinality(Live)
           /\ pc'[t] \in {"serve", "leave"} /\ pc[t] \notin {"serve", "leave"}
                => Cardinality(Connected)' = Cardinality(Connected) + 1
           /\ pc'[t] \notin {"serve", "leave"} /\ pc[t] \in {"serve", "leave"}
                => Cardinality(Connected)' = Cardinality(Connected) - 1
           /\ (pc'[t] \in {"serve", "leave"} <=> pc[t] \in {"serve", "leave"})
                => Cardinality(Connected)' = Cardinality(Connected)
<1>1. Live' = IF pc'[t] = "none" THEN Live \ {t} ELSE Live \union {t}
  BY DEF Live, TypeOK
<1>2. Connected' = IF pc'[t] \in {"serve", "leave"} THEN Connected \union {t} ELSE Connected \ {t}
  BY DEF Connected, TypeOK
<1>3. /\ t \in Live <=> pc[t] # "none"
      /\ t \in Connected <=> pc[t] \in {"serve", "leave"}
  BY DEF Live, Connected
<1>4. /\ Cardinality(Live \union {t}) = IF t \in Live THEN Cardinality(Live) ELSE Cardinality(Live) + 1
      /\ Cardinality(Live \ {t}) = IF t \in Live THEN Cardinality(Live) - 1 ELSE Cardinality(Live)
  BY ThreadSets, FS_AddElement, FS_RemoveElement
<1>5. /\ Cardinality(Connected \union {t})
           = IF t \in Connected THEN Cardinality(Connected) ELSE Cardinality(Connected) + 1
      /\ Cardinality(Connected \ {t})
           = IF t \in Connected THEN Cardinality(Connected) - 1 ELSE Cardinality(Connected)
  BY ThreadSets, FS_AddElement, FS_RemoveElement
<1>6. Cardinality(Live)' = Cardinality(Live') /\ Cardinality(Connected)' = Cardinality(Connected')
  OBVIOUS
<1>7. QED
  BY <1>1, <1>2, <1>3, <1>4, <1>5, <1>6

LEMMA ConnectedPositive ==
    ASSUME NEW t \in Threads, pc[t] = "leave"
    PROVE  Cardinality(Connected) >= 1
<1>1. t \in Connected
  BY DEF Connected
<1>2. QED
  BY <1>1, ThreadSets, FS_EmptySet

LEMMA CountSame ==
    ASSUME UNCHANGED pc
    PROVE  Cardinality(Live)' = Cardinality(Live) /\ Cardinality(Connected)' = Cardinality(Connected)
BY DEF Live, Connected

\* nconn = nthreads means that every thread is connected.
LEMMA AllConnected ==
    ASSUME TypeOK, Cardinality(Connected) = Cardinality(Live)
    PROVE  \A t \in Threads : pc[t] # "new"
<1>1. Connected \in SUBSET Live
  BY DEF Connected, Live
<1>2. Connected = Live
  BY <1>1, ThreadSets, FS_Subset
<1>3. QED
  BY <1>2 DEF Connected, Live

\* A table full of identities belongs to as many threads as it has entries.
LEMMA FullTable ==
    ASSUME TypeOK, EntryInv, \A s \in Slots : tid[s] # Nobody
    PROVE  MaxThreads <= Cardinality(Live)
<1>1. tid \in Injection(Slots, Live)
  BY DEF Injection, IsInjective, Slots, TypeOK, EntryInv, Started, Live
<1>2. Cardinality(Slots) <= Cardinality(Live)
  BY <1>1, ThreadSets, FS_Injection
<1>3. Cardinality(Slots) = MaxThreads
  BY LimitsAssumption, FS_Interval DEF Slots
<1>4. QED
  BY <1>2, <1>3

\* The scan always finds an entry.
LEMMA NoScanFailed == IInv => ~ScanFailed
<1> SUFFICES ASSUME IInv, mpc = "scan", i = MaxThreads PROVE FALSE
  BY DEF ScanFailed
<1>1. nthreads < MaxThreads /\ nthreads = Cardinality(Live)
  BY DEF IInv, CountInv
<1>2. \A s \in Slots : tid[s] # Nobody
  BY LimitsAssumption DEF IInv, ScanInv, Slots
<1>3. MaxThreads <= Cardinality(Live)
  BY <1>2, FullTable DEF IInv
<1>4. QED
  BY <1>1, <1>3, LimitsAssumption DEF IInv, TypeOK

-----------------------------------------------------------------------------
(* Each conjunct of IInv is preserved by every step.                       *)
LEMMA TypeStep ==
    ASSUME IInv, [Next]_vars
    PROVE  TypeOK'
<1> USE DEF IInv, TypeOK, pool, kernel
<1>1. ASSUME NEW t \in Threads, StartThread(t) PROVE TypeOK'
  BY <1>1 DEF StartThread, Create
<1>2. ASSUME NEW t \in Threads, ScanFree(t) PROVE TypeOK'
  BY <1>2 DEF ScanFree, Create
<1>3. ASSUME NEW t \in Threads, Begin(t) PROVE TypeOK'
  BY <1>3 DEF Begin, Goto
<1>4. ASSUME NEW t \in Threads, LockAccept(t) PROVE TypeOK'
  BY <1>4 DEF LockAccept, Goto
<1>5. ASSUME NEW t \in Threads, SelectReady(t) PROVE TypeOK'
  BY <1>5 DEF SelectReady, Goto
<1>6. ASSUME NEW t \in Threads, TimeoutExit(t) PROVE TypeOK'
  <2>1. nthreads' \in Nat /\ mlock' \in Threads \union {Main, Nobody}
    BY <1>6, LimitsAssumption DEF TimeoutExit, Goto
  <2>2. QED
    BY <1>6, <2>1 DEF TimeoutExit, Goto
<1>7. ASSUME NEW t \in Threads, TimeoutStay(t) PROVE TypeOK'
  BY <1>7 DEF TimeoutStay, Goto
<1>8. ASSUME NEW t \in Threads, Accept(t) PROVE TypeOK'
  BY <1>8 DEF Accept, Goto
<1>9. ASSUME NEW t \in Threads, Enter(t) PROVE TypeOK'
  BY <1>9 DEF Enter, Goto, Signal
<1>10. ASSUME NEW t \in Threads, Leave(t) PROVE TypeOK'
  BY <1>10, ConnectedPositive DEF Leave, Goto, Signal, CountInv
<1>11. ASSUME NEW t \in Threads, Served(t) PROVE TypeOK'
  BY <1>11 DEF Served, Goto
<1>12. ASSUME NEW t \in Threads, ReplyExits(t) PROVE TypeOK'
  BY <1>12 DEF ReplyExits
<1>13. ASSUME NEW t \in Threads, AcceptFails(t) PROVE TypeOK'
  BY <1>13 DEF AcceptFails
<1>14. CASE StartDone
  BY <1>14 DEF StartDone
<1>15. CASE TestAllBusy
  BY <1>15 DEF TestAllBusy
<1>16. CASE PoolFull
  BY <1>16 DEF PoolFull
<1>17. CASE BeginScan
  BY <1>17 DEF BeginScan
<1>18. CASE ScanUsed
  BY <1>18 DEF ScanUsed
<1>19. CASE CountThread
  BY <1>19 DEF CountThread
<1>20. CASE ScanFailed
  BY <1>20, NoScanFailed
<1>21. CASE SpuriousWakeup
  BY <1>21 DEF SpuriousWakeup
<1>22. CASE Abort
  BY <1>22 DEF Abort, RemoveAt
<1>23. CASE Exited
  BY <1>23 DEF Exited, vars
<1>24. ASSUME NEW c \in Clients, Connect(c) PROVE TypeOK'
  BY <1>24 DEF Connect
<1>25. CASE UNCHANGED vars
  BY <1>25 DEF vars
<1>26. QED
  BY <1>1, <1>2, <1>3, <1>4, <1>5, <1>6, <1>7, <1>8, <1>9, <1>10, <1>11, <1>12, <1>13, <1>14, <1>15, <1>16, <1>17, <1>18, <1>19, <1>20, <1>21, <1>22, <1>23, <1>24, <1>25
     DEF Next, MainStep, ThreadStep, ClientStep, Environment

LEMMA EntryStep ==
    ASSUME IInv, [Next]_vars
    PROVE  EntryInv'
<1> USE ThreadsAssumption DEF IInv, TypeOK, EntryInv, Started, Slots, pool, kernel
<1>1. ASSUME NEW t \in Threads, StartThread(t) PROVE EntryInv'
  BY <1>1, LimitsAssumption DEF StartThread, Create, StartInv, CountInv
<1>2. ASSUME NEW t \in Threads, ScanFree(t) PROVE EntryInv'
  <2>1. i \in Slots
    BY <1>2, LimitsAssumption DEF ScanFree
  <2>2. \A u \in Threads : pc[u] # "none" => tid[slot[u]] = u
    BY <1>2 DEF ScanFree, NoNewcomer
  <2>3. \A u \in Threads : pc[u] # "none" => slot[u] # i
    BY <1>2, <2>2 DEF ScanFree
  <2>4. /\ pc' = [pc EXCEPT ![t] = "new"] /\ slot' = [slot EXCEPT ![t] = i]
        /\ tid' = tid /\ pc[t] = "none"
    BY <1>2 DEF ScanFree, Create
  <2>5. QED
    BY <2>1, <2>2, <2>3, <2>4
<1>3. ASSUME NEW t \in Threads, Begin(t) PROVE EntryInv'
  BY <1>3 DEF Begin, Goto
<1>4. ASSUME NEW t \in Threads, LockAccept(t) PROVE EntryInv'
  BY <1>4 DEF LockAccept, Goto
<1>5. ASSUME NEW t \in Threads, SelectReady(t) PROVE EntryInv'
  BY <1>5 DEF SelectReady, Goto
<1>6. ASSUME NEW t \in Threads, TimeoutExit(t) PROVE EntryInv'
  BY <1>6 DEF TimeoutExit, Goto
<1>7. ASSUME NEW t \in Threads, TimeoutStay(t) PROVE EntryInv'
  BY <1>7 DEF TimeoutStay, Goto
<1>8. ASSUME NEW t \in Threads, Accept(t) PROVE EntryInv'
  BY <1>8 DEF Accept, Goto
<1>9. ASSUME NEW t \in Threads, Enter(t) PROVE EntryInv'
  BY <1>9 DEF Enter, Goto, Signal
<1>10. ASSUME NEW t \in Threads, Leave(t) PROVE EntryInv'
  BY <1>10 DEF Leave, Goto, Signal
<1>11. ASSUME NEW t \in Threads, Served(t) PROVE EntryInv'
  BY <1>11 DEF Served, Goto
<1>12. ASSUME NEW t \in Threads, ReplyExits(t) PROVE EntryInv'
  BY <1>12 DEF ReplyExits
<1>13. ASSUME NEW t \in Threads, AcceptFails(t) PROVE EntryInv'
  BY <1>13 DEF AcceptFails
<1>14. CASE StartDone
  BY <1>14 DEF StartDone
<1>15. CASE TestAllBusy
  BY <1>15 DEF TestAllBusy
<1>16. CASE PoolFull
  BY <1>16 DEF PoolFull
<1>17. CASE BeginScan
  BY <1>17 DEF BeginScan
<1>18. CASE ScanUsed
  BY <1>18 DEF ScanUsed
<1>19. CASE CountThread
  BY <1>19 DEF CountThread
<1>20. CASE ScanFailed
  BY <1>20, NoScanFailed
<1>21. CASE SpuriousWakeup
  BY <1>21 DEF SpuriousWakeup
<1>22. CASE Abort
  BY <1>22 DEF Abort, RemoveAt
<1>23. CASE Exited
  BY <1>23 DEF Exited, vars
<1>24. ASSUME NEW c \in Clients, Connect(c) PROVE EntryInv'
  BY <1>24 DEF Connect
<1>25. CASE UNCHANGED vars
  BY <1>25 DEF vars
<1>26. QED
  BY <1>1, <1>2, <1>3, <1>4, <1>5, <1>6, <1>7, <1>8, <1>9, <1>10, <1>11, <1>12, <1>13, <1>14, <1>15, <1>16, <1>17, <1>18, <1>19, <1>20, <1>21, <1>22, <1>23, <1>24, <1>25
     DEF Next, MainStep, ThreadStep, ClientStep, Environment

LEMMA LockStep ==
    ASSUME IInv, [Next]_vars
    PROVE  LockInv'
<1> USE ThreadsAssumption DEF IInv, TypeOK, LockInv, pool, kernel
<1>1. ASSUME NEW t \in Threads, StartThread(t) PROVE LockInv'
  BY <1>1 DEF StartThread, Create
<1>2. ASSUME NEW t \in Threads, ScanFree(t) PROVE LockInv'
  BY <1>2 DEF ScanFree, Create
<1>3. ASSUME NEW t \in Threads, Begin(t) PROVE LockInv'
  BY <1>3 DEF Begin, Goto
<1>4. ASSUME NEW t \in Threads, LockAccept(t) PROVE LockInv'
  BY <1>4 DEF LockAccept, Goto
<1>5. ASSUME NEW t \in Threads, SelectReady(t) PROVE LockInv'
  BY <1>5 DEF SelectReady, Goto
<1>6. ASSUME NEW t \in Threads, TimeoutExit(t) PROVE LockInv'
  BY <1>6 DEF TimeoutExit, Goto
<1>7. ASSUME NEW t \in Threads, TimeoutStay(t) PROVE LockInv'
  BY <1>7 DEF TimeoutStay, Goto
<1>8. ASSUME NEW t \in Threads, Accept(t) PROVE LockInv'
  BY <1>8 DEF Accept, Goto
<1>9. ASSUME NEW t \in Threads, Enter(t) PROVE LockInv'
  BY <1>9 DEF Enter, Goto, Signal
<1>10. ASSUME NEW t \in Threads, Leave(t) PROVE LockInv'
  BY <1>10 DEF Leave, Goto, Signal
<1>11. ASSUME NEW t \in Threads, Served(t) PROVE LockInv'
  BY <1>11 DEF Served, Goto
<1>12. ASSUME NEW t \in Threads, ReplyExits(t) PROVE LockInv'
  BY <1>12 DEF ReplyExits
<1>13. ASSUME NEW t \in Threads, AcceptFails(t) PROVE LockInv'
  BY <1>13 DEF AcceptFails
<1>14. CASE StartDone
  BY <1>14 DEF StartDone
<1>15. CASE TestAllBusy
  BY <1>15 DEF TestAllBusy
<1>16. CASE PoolFull
  BY <1>16 DEF PoolFull
<1>17. CASE BeginScan
  BY <1>17 DEF BeginScan
<1>18. CASE ScanUsed
  BY <1>18 DEF ScanUsed
<1>19. CASE CountThread
  BY <1>19 DEF CountThread
<1>20. CASE ScanFailed
  BY <1>20, NoScanFailed
<1>21. CASE SpuriousWakeup
  BY <1>21 DEF SpuriousWakeup
<1>22. CASE Abort
  BY <1>22 DEF Abort, RemoveAt
<1>23. CASE Exited
  BY <1>23 DEF Exited, vars
<1>24. ASSUME NEW c \in Clients, Connect(c) PROVE LockInv'
  BY <1>24 DEF Connect
<1>25. CASE UNCHANGED vars
  BY <1>25 DEF vars
<1>26. QED
  BY <1>1, <1>2, <1>3, <1>4, <1>5, <1>6, <1>7, <1>8, <1>9, <1>10, <1>11, <1>12, <1>13, <1>14, <1>15, <1>16, <1>17, <1>18, <1>19, <1>20, <1>21, <1>22, <1>23, <1>24, <1>25
     DEF Next, MainStep, ThreadStep, ClientStep, Environment

LEMMA CountStep ==
    ASSUME IInv, [Next]_vars
    PROVE  CountInv'
<1> USE ThreadsAssumption
<1>1. ASSUME NEW t \in Threads, StartThread(t) PROVE CountInv'
  <2>1. /\ pc[t] = "none" /\ pc'[t] = "new"
        /\ pc' = [pc EXCEPT ![t] = pc'[t]]
    BY <1>1 DEF StartThread, Create, IInv, TypeOK
  <2>2. /\ Cardinality(Live)' = Cardinality(Live) + 1
        /\ Cardinality(Connected)' = Cardinality(Connected)
    BY <2>1, ThreadSets, CountChange DEF IInv
  <2>3. QED
    BY <1>1, <2>1, <2>2, LimitsAssumption, ThreadSets
       DEF StartThread, Create, IInv, TypeOK, CountInv, LockInv, pool, kernel
<1>2. ASSUME NEW t \in Threads, ScanFree(t) PROVE CountInv'
  <2>1. /\ pc[t] = "none" /\ pc'[t] = "new"
        /\ pc' = [pc EXCEPT ![t] = pc'[t]]
    BY <1>2 DEF ScanFree, Create, IInv, TypeOK
  <2>2. /\ Cardinality(Live)' = Cardinality(Live) + 1
        /\ Cardinality(Connected)' = Cardinality(Connected)
    BY <2>1, ThreadSets, CountChange DEF IInv
  <2>3. QED
    BY <1>2, <2>1, <2>2, LimitsAssumption, ThreadSets
       DEF ScanFree, Create, IInv, TypeOK, CountInv, LockInv, pool, kernel
<1>3. ASSUME NEW t \in Threads, Begin(t) PROVE CountInv'
  <2>1. /\ pc[t] = "new" /\ pc'[t] = "lock"
        /\ pc' = [pc EXCEPT ![t] = pc'[t]]
    BY <1>3 DEF Begin, Goto, IInv, TypeOK
  <2>2. /\ Cardinality(Live)' = Cardinality(Live)
        /\ Cardinality(Connected)' = Cardinality(Connected)
    BY <2>1, ThreadSets, CountChange DEF IInv
  <2>3. QED
    BY <1>3, <2>1, <2>2, LimitsAssumption, ThreadSets
       DEF Begin, Goto, IInv, TypeOK, CountInv, LockInv, pool, kernel
<1>4. ASSUME NEW t \in Threads, LockAccept(t) PROVE CountInv'
  <2>1. /\ pc[t] = "lock" /\ pc'[t] = "select"
        /\ pc' = [pc EXCEPT ![t] = pc'[t]]
    BY <1>4 DEF LockAccept, Goto, IInv, TypeOK
  <2>2. /\ Cardinality(Live)' = Cardinality(Live)
        /\ Cardinality(Connected)' = Cardinality(Connected)
    BY <2>1, ThreadSets, CountChange DEF IInv
  <2>3. QED
    BY <1>4, <2>1, <2>2, LimitsAssumption, ThreadSets
       DEF LockAccept, Goto, IInv, TypeOK, CountInv, LockInv, pool, kernel
<1>5. ASSUME NEW t \in Threads, SelectReady(t) PROVE CountInv'
  <2>1. /\ pc[t] = "select" /\ pc'[t] = "accept"
        /\ pc' = [pc EXCEPT ![t] = pc'[t]]
    BY <1>5 DEF SelectReady, Goto, IInv, TypeOK
  <2>2. /\ Cardinality(Live)' = Cardinality(Live)
        /\ Cardinality(Connected)' = Cardinality(Connected)
    BY <2>1, ThreadSets, CountChange DEF IInv
  <2>3. QED
    BY <1>5, <2>1, <2>2, LimitsAssumption, ThreadSets
       DEF SelectReady, Goto, IInv, TypeOK, CountInv, LockInv, pool, kernel
<1>6. ASSUME NEW t \in Threads, TimeoutExit(t) PROVE CountInv'
  <2>1. /\ pc[t] = "select" /\ pc'[t] = "none"
        /\ pc' = [pc EXCEPT ![t] = pc'[t]]
    BY <1>6 DEF TimeoutExit, Goto, IInv, TypeOK
  <2>2. /\ Cardinality(Live)' = Cardinality(Live) - 1
        /\ Cardinality(Connected)' = Cardinality(Connected)
    BY <2>1, ThreadSets, CountChange DEF IInv
  <2>3. QED
    BY <1>6, <2>1, <2>2, LimitsAssumption, ThreadSets
       DEF TimeoutExit, Goto, IInv, TypeOK, CountInv, LockInv, pool, kernel
<1>7. ASSUME NEW t \in Threads, TimeoutStay(t) PROVE CountInv'
  <2>1. /\ pc[t] = "select" /\ pc'[t] = "lock"
        /\ pc' = [pc EXCEPT ![t] = pc'[t]]
    BY <1>7 DEF TimeoutStay, Goto, IInv, TypeOK
  <2>2. /\ Cardinality(Live)' = Cardinality(Live)
        /\ Cardinality(Connected)' = Cardinality(Connected)
    BY <2>1, ThreadSets, CountChange DEF IInv
  <2>3. QED
    BY <1>7, <2>1, <2>2, LimitsAssumption, ThreadSets
       DEF TimeoutStay, Goto, IInv, TypeOK, CountInv, LockInv, pool, kernel
<1>8. ASSUME NEW t \in Threads, Accept(t) PROVE CountInv'
  <2>1. /\ pc[t] = "accept" /\ pc'[t] = "enter"
        /\ pc' = [pc EXCEPT ![t] = pc'[t]]
    BY <1>8 DEF Accept, Goto, IInv, TypeOK
  <2>2. /\ Cardinality(Live)' = Cardinality(Live)
        /\ Cardinality(Connected)' = Cardinality(Connected)
    BY <2>1, ThreadSets, CountChange DEF IInv
  <2>3. QED
    BY <1>8, <2>1, <2>2, LimitsAssumption, ThreadSets
       DEF Accept, Goto, IInv, TypeOK, CountInv, LockInv, pool, kernel
<1>9. ASSUME NEW t \in Threads, Enter(t) PROVE CountInv'
  <2>1. /\ pc[t] = "enter" /\ pc'[t] = "serve"
        /\ pc' = [pc EXCEPT ![t] = pc'[t]]
    BY <1>9 DEF Enter, Goto, Signal, IInv, TypeOK
  <2>2. /\ Cardinality(Live)' = Cardinality(Live)
        /\ Cardinality(Connected)' = Cardinality(Connected) + 1
    BY <2>1, ThreadSets, CountChange DEF IInv
  <2>3. QED
    BY <1>9, <2>1, <2>2, LimitsAssumption, ThreadSets
       DEF Enter, Goto, Signal, IInv, TypeOK, CountInv, LockInv, pool, kernel
<1>10. ASSUME NEW t \in Threads, Leave(t) PROVE CountInv'
  <2>1. /\ pc[t] = "leave" /\ pc'[t] = "lock"
        /\ pc' = [pc EXCEPT ![t] = pc'[t]]
    BY <1>10 DEF Leave, Goto, Signal, IInv, TypeOK
  <2>2. /\ Cardinality(Live)' = Cardinality(Live)
        /\ Cardinality(Connected)' = Cardinality(Connected) - 1
    BY <2>1, ThreadSets, CountChange DEF IInv
  <2>3. QED
    BY <1>10, <2>1, <2>2, LimitsAssumption, ThreadSets
       DEF Leave, Goto, Signal, IInv, TypeOK, CountInv, LockInv, pool, kernel
<1>11. ASSUME NEW t \in Threads, Served(t) PROVE CountInv'
  <2>1. /\ pc[t] = "serve" /\ pc'[t] = "leave"
        /\ pc' = [pc EXCEPT ![t] = pc'[t]]
    BY <1>11 DEF Served, Goto, IInv, TypeOK
  <2>2. /\ Cardinality(Live)' = Cardinality(Live)
        /\ Cardinality(Connected)' = Cardinality(Connected)
    BY <2>1, ThreadSets, CountChange DEF IInv
  <2>3. QED
    BY <1>11, <2>1, <2>2, LimitsAssumption, ThreadSets
       DEF Served, Goto, IInv, TypeOK, CountInv, LockInv, pool, kernel
<1>12. ASSUME NEW t \in Threads, ReplyExits(t) PROVE CountInv'
  BY <1>12, LimitsAssumption, CountSame DEF ReplyExits, IInv, TypeOK, CountInv, LockInv, pool, kernel
<1>13. ASSUME NEW t \in Threads, AcceptFails(t) PROVE CountInv'
  BY <1>13, LimitsAssumption, CountSame DEF AcceptFails, IInv, TypeOK, CountInv, LockInv, pool, kernel
<1>14. CASE StartDone
  BY <1>14, LimitsAssumption, CountSame DEF StartDone, IInv, TypeOK, CountInv, LockInv, pool, kernel
<1>15. CASE TestAllBusy
  BY <1>15, LimitsAssumption, CountSame DEF TestAllBusy, IInv, TypeOK, CountInv, LockInv, pool, kernel
<1>16. CASE PoolFull
  BY <1>16, LimitsAssumption, CountSame DEF PoolFull, IInv, TypeOK, CountInv, LockInv, pool, kernel
<1>17. CASE BeginScan
  BY <1>17, LimitsAssumption, CountSame DEF BeginScan, IInv, TypeOK, CountInv, LockInv, pool, kernel
<1>18. CASE ScanUsed
  BY <1>18, LimitsAssumption, CountSame DEF ScanUsed, IInv, TypeOK, CountInv, LockInv, pool, kernel
<1>19. CASE CountThread
  BY <1>19, LimitsAssumption, CountSame DEF CountThread, IInv, TypeOK, CountInv, LockInv, pool, kernel
<1>20. CASE ScanFailed
  BY <1>20, NoScanFailed
<1>21. CASE SpuriousWakeup
  BY <1>21, LimitsAssumption, CountSame DEF SpuriousWakeup, IInv, TypeOK, CountInv, LockInv, pool, kernel
<1>22. CASE Abort
  BY <1>22, LimitsAssumption, CountSame DEF Abort, RemoveAt, IInv, TypeOK, CountInv, LockInv, pool, kernel
<1>23. CASE Exited
  BY <1>23, LimitsAssumption, CountSame DEF Exited, vars, IInv, TypeOK, CountInv, LockInv, pool, kernel
<1>24. ASSUME NEW c \in Clients, Connect(c) PROVE CountInv'
  BY <1>24, LimitsAssumption, CountSame DEF Connect, IInv, TypeOK, CountInv, LockInv, pool, kernel
<1>25. CASE UNCHANGED vars
  BY <1>25, LimitsAssumption, CountSame DEF vars, IInv, TypeOK, CountInv, LockInv, pool, kernel
<1>26. QED
  BY <1>1, <1>2, <1>3, <1>4, <1>5, <1>6, <1>7, <1>8, <1>9, <1>10, <1>11, <1>12, <1>13, <1>14, <1>15, <1>16, <1>17, <1>18, <1>19, <1>20, <1>21, <1>22, <1>23, <1>24, <1>25
     DEF Next, MainStep, ThreadStep, ClientStep, Environment

LEMMA NewcomerStep ==
    ASSUME IInv, [Next]_vars
    PROVE  NoNewcomer'
<1> USE DEF IInv, TypeOK, NoNewcomer, pool, kernel
<1>1. ASSUME NEW t \in Threads, StartThread(t) PROVE NoNewcomer'
  BY <1>1 DEF StartThread, Create
<1>2. ASSUME NEW t \in Threads, ScanFree(t) PROVE NoNewcomer'
  BY <1>2 DEF ScanFree, Create
<1>3. ASSUME NEW t \in Threads, Begin(t) PROVE NoNewcomer'
  BY <1>3 DEF Begin, Goto
<1>4. ASSUME NEW t \in Threads, LockAccept(t) PROVE NoNewcomer'
  BY <1>4 DEF LockAccept, Goto
<1>5. ASSUME NEW t \in Threads, SelectReady(t) PROVE NoNewcomer'
  BY <1>5 DEF SelectReady, Goto
<1>6. ASSUME NEW t \in Threads, TimeoutExit(t) PROVE NoNewcomer'
  BY <1>6 DEF TimeoutExit, Goto
<1>7. ASSUME NEW t \in Threads, TimeoutStay(t) PROVE NoNewcomer'
  BY <1>7 DEF TimeoutStay, Goto
<1>8. ASSUME NEW t \in Threads, Accept(t) PROVE NoNewcomer'
  BY <1>8 DEF Accept, Goto
<1>9. ASSUME NEW t \in Threads, Enter(t) PROVE NoNewcomer'
  BY <1>9 DEF Enter, Goto, Signal
<1>10. ASSUME NEW t \in Threads, Leave(t) PROVE NoNewcomer'
  BY <1>10 DEF Leave, Goto, Signal
<1>11. ASSUME NEW t \in Threads, Served(t) PROVE NoNewcomer'
  BY <1>11 DEF Served, Goto
<1>12. ASSUME NEW t \in Threads, ReplyExits(t) PROVE NoNewcomer'
  BY <1>12 DEF ReplyExits
<1>13. ASSUME NEW t \in Threads, AcceptFails(t) PROVE NoNewcomer'
  BY <1>13 DEF AcceptFails
<1>14. CASE StartDone
  BY <1>14 DEF StartDone
<1>15. CASE TestAllBusy
  BY <1>15, AllConnected DEF TestAllBusy, CountInv
<1>16. CASE PoolFull
  BY <1>16 DEF PoolFull
<1>17. CASE BeginScan
  BY <1>17 DEF BeginScan
<1>18. CASE ScanUsed
  BY <1>18 DEF ScanUsed
<1>19. CASE CountThread
  BY <1>19 DEF CountThread
<1>20. CASE ScanFailed
  BY <1>20, NoScanFailed
<1>21. CASE SpuriousWakeup
  BY <1>21 DEF SpuriousWakeup
<1>22. CASE Abort
  BY <1>22 DEF Abort, RemoveAt
<1>23. CASE Exited
  BY <1>23 DEF Exited, vars
<1>24. ASSUME NEW c \in Clients, Connect(c) PROVE NoNewcomer'
  BY <1>24 DEF Connect
<1>25. CASE UNCHANGED vars
  BY <1>25 DEF vars
<1>26. QED
  BY <1>1, <1>2, <1>3, <1>4, <1>5, <1>6, <1>7, <1>8, <1>9, <1>10, <1>11, <1>12, <1>13, <1>14, <1>15, <1>16, <1>17, <1>18, <1>19, <1>20, <1>21, <1>22, <1>23, <1>24, <1>25
     DEF Next, MainStep, ThreadStep, ClientStep, Environment

LEMMA StartStep ==
    ASSUME IInv, [Next]_vars
    PROVE  StartInv'
<1> USE DEF IInv, TypeOK, StartInv, pool, kernel
<1>1. ASSUME NEW t \in Threads, StartThread(t) PROVE StartInv'
  BY <1>1 DEF StartThread, Create
<1>2. ASSUME NEW t \in Threads, ScanFree(t) PROVE StartInv'
  BY <1>2 DEF ScanFree, Create
<1>3. ASSUME NEW t \in Threads, Begin(t) PROVE StartInv'
  BY <1>3 DEF Begin, Goto
<1>4. ASSUME NEW t \in Threads, LockAccept(t) PROVE StartInv'
  BY <1>4 DEF LockAccept, Goto
<1>5. ASSUME NEW t \in Threads, SelectReady(t) PROVE StartInv'
  BY <1>5 DEF SelectReady, Goto
<1>6. ASSUME NEW t \in Threads, TimeoutExit(t) PROVE StartInv'
  BY <1>6 DEF TimeoutExit, Goto
<1>7. ASSUME NEW t \in Threads, TimeoutStay(t) PROVE StartInv'
  BY <1>7 DEF TimeoutStay, Goto
<1>8. ASSUME NEW t \in Threads, Accept(t) PROVE StartInv'
  BY <1>8 DEF Accept, Goto
<1>9. ASSUME NEW t \in Threads, Enter(t) PROVE StartInv'
  BY <1>9 DEF Enter, Goto, Signal
<1>10. ASSUME NEW t \in Threads, Leave(t) PROVE StartInv'
  BY <1>10 DEF Leave, Goto, Signal
<1>11. ASSUME NEW t \in Threads, Served(t) PROVE StartInv'
  BY <1>11 DEF Served, Goto
<1>12. ASSUME NEW t \in Threads, ReplyExits(t) PROVE StartInv'
  BY <1>12 DEF ReplyExits
<1>13. ASSUME NEW t \in Threads, AcceptFails(t) PROVE StartInv'
  BY <1>13 DEF AcceptFails
<1>14. CASE StartDone
  BY <1>14 DEF StartDone
<1>15. CASE TestAllBusy
  BY <1>15 DEF TestAllBusy
<1>16. CASE PoolFull
  BY <1>16 DEF PoolFull
<1>17. CASE BeginScan
  BY <1>17 DEF BeginScan
<1>18. CASE ScanUsed
  BY <1>18 DEF ScanUsed
<1>19. CASE CountThread
  BY <1>19 DEF CountThread
<1>20. CASE ScanFailed
  BY <1>20, NoScanFailed
<1>21. CASE SpuriousWakeup
  BY <1>21 DEF SpuriousWakeup
<1>22. CASE Abort
  BY <1>22 DEF Abort, RemoveAt
<1>23. CASE Exited
  BY <1>23 DEF Exited, vars
<1>24. ASSUME NEW c \in Clients, Connect(c) PROVE StartInv'
  BY <1>24 DEF Connect
<1>25. CASE UNCHANGED vars
  BY <1>25 DEF vars
<1>26. QED
  BY <1>1, <1>2, <1>3, <1>4, <1>5, <1>6, <1>7, <1>8, <1>9, <1>10, <1>11, <1>12, <1>13, <1>14, <1>15, <1>16, <1>17, <1>18, <1>19, <1>20, <1>21, <1>22, <1>23, <1>24, <1>25
     DEF Next, MainStep, ThreadStep, ClientStep, Environment

LEMMA ScanStep ==
    ASSUME IInv, [Next]_vars
    PROVE  ScanInv'
<1> USE ThreadsAssumption DEF IInv, TypeOK, LockInv, ScanInv, Slots, pool, kernel
<1>1. ASSUME NEW t \in Threads, StartThread(t) PROVE ScanInv'
  BY <1>1 DEF StartThread, Create
<1>2. ASSUME NEW t \in Threads, ScanFree(t) PROVE ScanInv'
  BY <1>2 DEF ScanFree, Create
<1>3. ASSUME NEW t \in Threads, Begin(t) PROVE ScanInv'
  BY <1>3 DEF Begin, Goto
<1>4. ASSUME NEW t \in Threads, LockAccept(t) PROVE ScanInv'
  BY <1>4 DEF LockAccept, Goto
<1>5. ASSUME NEW t \in Threads, SelectReady(t) PROVE ScanInv'
  BY <1>5 DEF SelectReady, Goto
<1>6. ASSUME NEW t \in Threads, TimeoutExit(t) PROVE ScanInv'
  BY <1>6 DEF TimeoutExit, Goto
<1>7. ASSUME NEW t \in Threads, TimeoutStay(t) PROVE ScanInv'
  BY <1>7 DEF TimeoutStay, Goto
<1>8. ASSUME NEW t \in Threads, Accept(t) PROVE ScanInv'
  BY <1>8 DEF Accept, Goto
<1>9. ASSUME NEW t \in Threads, Enter(t) PROVE ScanInv'
  BY <1>9 DEF Enter, Goto, Signal
<1>10. ASSUME NEW t \in Threads, Leave(t) PROVE ScanInv'
  BY <1>10 DEF Leave, Goto, Signal
<1>11. ASSUME NEW t \in Threads, Served(t) PROVE ScanInv'
  BY <1>11 DEF Served, Goto
<1>12. ASSUME NEW t \in Threads, ReplyExits(t) PROVE ScanInv'
  BY <1>12 DEF ReplyExits
<1>13. ASSUME NEW t \in Threads, AcceptFails(t) PROVE ScanInv'
  BY <1>13 DEF AcceptFails
<1>14. CASE StartDone
  BY <1>14 DEF StartDone
<1>15. CASE TestAllBusy
  BY <1>15 DEF TestAllBusy
<1>16. CASE PoolFull
  BY <1>16 DEF PoolFull
<1>17. CASE BeginScan
  BY <1>17, LimitsAssumption DEF BeginScan
<1>18. CASE ScanUsed
  BY <1>18, LimitsAssumption DEF ScanUsed
<1>19. CASE CountThread
  BY <1>19 DEF CountThread
<1>20. CASE ScanFailed
  BY <1>20, NoScanFailed
<1>21. CASE SpuriousWakeup
  BY <1>21 DEF SpuriousWakeup
<1>22. CASE Abort
  BY <1>22 DEF Abort, RemoveAt
<1>23. CASE Exited
  BY <1>23 DEF Exited, vars
<1>24. ASSUME NEW c \in Clients, Connect(c) PROVE ScanInv'
  BY <1>24 DEF Connect
<1>25. CASE UNCHANGED vars
  BY <1>25 DEF vars
<1>26. QED
  BY <1>1, <1>2, <1>3, <1>4, <1>5, <1>6, <1>7, <1>8, <1>9, <1>10, <1>11, <1>12, <1>13, <1>14, <1>15, <1>16, <1>17, <1>18, <1>19, <1>20, <1>21, <1>22, <1>23, <1>24, <1>25
     DEF Next, MainStep, ThreadStep, ClientStep, Environment

-----------------------------------------------------------------------------
LEMMA Inductive == Spec => []IInv
<1>1. Init => IInv
  <2> SUFFICES ASSUME Init PROVE IInv
    OBVIOUS
  <2>1. Live = {} /\ Connected = {}
    BY DEF Init, Live, Connected
  <2>2. Cardinality(Live) = 0 /\ Cardinality(Connected) = 0
    BY <2>1, FS_EmptySet
  <2>3. TypeOK
    BY LimitsAssumption DEF Init, TypeOK
  <2>4. EntryInv
    BY DEF Init, EntryInv, Started
  <2>5. LockInv
    BY ThreadsAssumption DEF Init, LockInv
  <2>6. CountInv
    BY <2>2, LimitsAssumption DEF Init, CountInv
  <2>7. NoNewcomer /\ StartInv /\ ScanInv
    BY DEF Init, NoNewcomer, StartInv, ScanInv
  <2>8. QED
    BY <2>3, <2>4, <2>5, <2>6, <2>7 DEF IInv
<1>2. IInv /\ [Next]_vars => IInv'
  BY TypeStep, EntryStep, LockStep, CountStep, NewcomerStep, StartStep, ScanStep DEF IInv
<1>3. QED
  BY <1>1, <1>2, PTL DEF Spec

\* Variables keep their types; in particular nconn never goes below zero.
THEOREM Typing == Spec => []TypeOK
<1>1. IInv => TypeOK
  BY DEF IInv
<1>2. QED
  BY <1>1, Inductive, PTL

\* No entry of pThread[] is given to two threads, whatever the interleaving of
\* the unlocked store of tid (116) with the scan (84-90).
THEOREM EntriesExclusive == Spec => []SlotExclusive
<1>1. IInv => SlotExclusive
  BY DEF IInv, EntryInv, SlotExclusive, Started, Live
<1>2. QED
  BY <1>1, Inductive, PTL

\* nconn and nthreads are what they are meant to count, within the limits.
THEOREM CountersExact == Spec => []PoolAccounting
<1>1. IInv => PoolAccounting
  BY DEF IInv, CountInv, PoolAccounting
<1>2. QED
  BY <1>1, Inductive, PTL

\* The server never stops with "can't allocate threads resource".
THEOREM EntryFound == Spec => []ScanSucceeds
<1>1. IInv => ScanSucceeds
  BY DEF IInv, ScanInv, ScanSucceeds
<1>2. QED
  BY <1>1, Inductive, PTL

\* Every thread that is to have an entry finds one and has it alone, and the counters
\* on which main decides to grow are right.
THEOREM PoolIsSound == Spec => []PoolSound
<1>1. SlotExclusive /\ ScanSucceeds /\ PoolAccounting => PoolSound
  BY DEF PoolSound
<1>2. QED
  BY <1>1, EntriesExclusive, EntryFound, CountersExact, PTL

\* After the start a thread is created only when no other is still starting.
THEOREM NewcomersOneByOne == Spec => OneNewcomer
<1>1. ASSUME IInv, [Next]_vars, NEW t \in Threads,
             mpc # "start", pc[t] = "none", pc'[t] = "new"
      PROVE  \A u \in Threads : pc[u] # "new"
  <2>1. mpc \in {"grow", "scan"}
    <3> USE <1>1 DEF IInv, TypeOK, pool, kernel
    <3>1. ASSUME NEW q \in Threads, StartThread(q) PROVE mpc \in {"grow", "scan"}
      BY <3>1 DEF StartThread, Create
    <3>2. ASSUME NEW q \in Threads, ScanFree(q) PROVE mpc \in {"grow", "scan"}
      BY <3>2 DEF ScanFree, Create
    <3>3. ASSUME NEW q \in Threads, Begin(q) PROVE mpc \in {"grow", "scan"}
      BY <3>3 DEF Begin, Goto
    <3>4. ASSUME NEW q \in Threads, LockAccept(q) PROVE mpc \in {"grow", "scan"}
      BY <3>4 DEF LockAccept, Goto
    <3>5. ASSUME NEW q \in Threads, SelectReady(q) PROVE mpc \in {"grow", "scan"}
      BY <3>5 DEF SelectReady, Goto
    <3>6. ASSUME NEW q \in Threads, TimeoutExit(q) PROVE mpc \in {"grow", "scan"}
      BY <3>6 DEF TimeoutExit, Goto
    <3>7. ASSUME NEW q \in Threads, TimeoutStay(q) PROVE mpc \in {"grow", "scan"}
      BY <3>7 DEF TimeoutStay, Goto
    <3>8. ASSUME NEW q \in Threads, Accept(q) PROVE mpc \in {"grow", "scan"}
      BY <3>8 DEF Accept, Goto
    <3>9. ASSUME NEW q \in Threads, Enter(q) PROVE mpc \in {"grow", "scan"}
      BY <3>9 DEF Enter, Goto, Signal
    <3>10. ASSUME NEW q \in Threads, Leave(q) PROVE mpc \in {"grow", "scan"}
      BY <3>10 DEF Leave, Goto, Signal
    <3>11. ASSUME NEW q \in Threads, Served(q) PROVE mpc \in {"grow", "scan"}
      BY <3>11 DEF Served, Goto
    <3>12. ASSUME NEW q \in Threads, ReplyExits(q) PROVE mpc \in {"grow", "scan"}
      BY <3>12 DEF ReplyExits
    <3>13. ASSUME NEW q \in Threads, AcceptFails(q) PROVE mpc \in {"grow", "scan"}
      BY <3>13 DEF AcceptFails
    <3>14. CASE StartDone
      BY <3>14 DEF StartDone
    <3>15. CASE TestAllBusy
      BY <3>15 DEF TestAllBusy
    <3>16. CASE PoolFull
      BY <3>16 DEF PoolFull
    <3>17. CASE BeginScan
      BY <3>17 DEF BeginScan
    <3>18. CASE ScanUsed
      BY <3>18 DEF ScanUsed
    <3>19. CASE CountThread
      BY <3>19 DEF CountThread
    <3>20. CASE ScanFailed
      BY <3>20 DEF ScanFailed
    <3>21. CASE SpuriousWakeup
      BY <3>21 DEF SpuriousWakeup
    <3>22. CASE Abort
      BY <3>22 DEF Abort, RemoveAt
    <3>23. CASE Exited
      BY <3>23 DEF Exited, vars
    <3>24. ASSUME NEW c \in Clients, Connect(c) PROVE mpc \in {"grow", "scan"}
      BY <3>24 DEF Connect
    <3>25. CASE UNCHANGED vars
      BY <3>25 DEF vars
    <3>26. QED
      BY <3>1, <3>2, <3>3, <3>4, <3>5, <3>6, <3>7, <3>8, <3>9, <3>10, <3>11, <3>12, <3>13, <3>14, <3>15, <3>16, <3>17, <3>18, <3>19, <3>20, <3>21, <3>22, <3>23, <3>24, <3>25
         DEF Next, MainStep, ThreadStep, ClientStep, Environment
  <2>2. QED
    BY <1>1, <2>1 DEF IInv, NoNewcomer
<1>2. IInv /\ [Next]_vars =>
        [\A t \in Threads :
           mpc # "start" /\ pc[t] = "none" /\ pc'[t] = "new"
               => \A u \in Threads : pc[u] # "new"]_vars
  BY <1>1
<1>3. QED
  BY <1>2, Inductive, PTL DEF Spec, OneNewcomer

\* Main comes to sleep with every thread connected only in the step of a thread that
\* leaves the pool.
THEOREM SleepsInTime == Spec => MissedOnlyByLeaving
<1>1. ASSUME TypeOK, [Next]_vars, ~Missed, Missed'
      PROVE  \E t \in Threads : pc[t] = "select" /\ pc'[t] = "none"
  <2> USE <1>1 DEF Missed, pool, kernel
  <2>1. ASSUME NEW q \in Threads, StartThread(q) PROVE ~Missed'
    BY <2>1 DEF StartThread
  <2>2. ASSUME NEW q \in Threads, ScanFree(q) PROVE ~Missed'
    BY <2>2 DEF ScanFree
  <2>3. ASSUME NEW q \in Threads, Begin(q) PROVE ~Missed'
    BY <2>3 DEF Begin
  <2>4. ASSUME NEW q \in Threads, LockAccept(q) PROVE ~Missed'
    BY <2>4 DEF LockAccept
  <2>5. ASSUME NEW q \in Threads, SelectReady(q) PROVE ~Missed'
    BY <2>5 DEF SelectReady
  <2>6. ASSUME NEW q \in Threads, TimeoutStay(q) PROVE ~Missed'
    BY <2>6 DEF TimeoutStay
  <2>7. ASSUME NEW q \in Threads, Accept(q) PROVE ~Missed'
    BY <2>7 DEF Accept
  <2>8. ASSUME NEW q \in Threads, Enter(q) PROVE ~Missed'
    BY <2>8 DEF Enter, Signal
  <2>9. ASSUME NEW q \in Threads, Leave(q) PROVE ~Missed'
    BY <2>9 DEF Leave, Signal
  <2>10. ASSUME NEW q \in Threads, Served(q) PROVE ~Missed'
    BY <2>10 DEF Served
  <2>11. ASSUME NEW q \in Threads, ReplyExits(q) PROVE ~Missed'
    BY <2>11 DEF ReplyExits
  <2>12. ASSUME NEW q \in Threads, AcceptFails(q) PROVE ~Missed'
    BY <2>12 DEF AcceptFails
  <2>13. ASSUME NEW c \in Clients, Connect(c) PROVE ~Missed'
    BY <2>13 DEF Connect
  <2>14. CASE StartDone
    BY <2>14 DEF StartDone
  <2>15. CASE TestAllBusy
    BY <2>15 DEF TestAllBusy
  <2>16. CASE PoolFull
    BY <2>16 DEF PoolFull
  <2>17. CASE BeginScan
    BY <2>17 DEF BeginScan
  <2>18. CASE ScanUsed
    BY <2>18 DEF ScanUsed
  <2>19. CASE CountThread
    BY <2>19 DEF CountThread
  <2>20. CASE ScanFailed
    BY <2>20 DEF ScanFailed
  <2>21. CASE SpuriousWakeup
    BY <2>21 DEF SpuriousWakeup
  <2>22. CASE Abort
    BY <2>22 DEF Abort
  <2>23. CASE Exited
    BY <2>23 DEF Exited, vars
  <2>24. CASE UNCHANGED vars
    BY <2>24 DEF vars
  <2>25. ASSUME NEW q \in Threads, TimeoutExit(q) PROVE pc[q] = "select" /\ pc'[q] = "none"
    BY <2>25 DEF TimeoutExit, Goto, TypeOK
  <2>26. QED
    BY <2>1, <2>2, <2>3, <2>4, <2>5, <2>6, <2>7, <2>8, <2>9, <2>10, <2>11, <2>12, <2>13, <2>14, <2>15, <2>16, <2>17, <2>18, <2>19, <2>20, <2>21, <2>22, <2>23, <2>24, <2>25
       DEF Next, MainStep, ThreadStep, ClientStep, Environment
<1>2. TypeOK /\ [Next]_vars =>
        [~Missed /\ Missed' =>
           \E t \in Threads : pc[t] = "select" /\ pc'[t] = "none"]_vars
  BY <1>1
<1>3. QED
  BY <1>2, Typing, PTL DEF Spec, MissedOnlyByLeaving
=============================================================================
