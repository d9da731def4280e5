# Formal models of the UNIX Network Programming programs

The repository holds one reader's programs for *UNIX Network Programming*, volume 1:
clients and servers by chapter (`ch01_intro` ... `ch30_mode`) and the library they share
(`lib`). Most are short loops around one system call. Some forty are not: they share a table,
a ring or a lock between threads, processes or a signal handler, and are right only if
every interleaving is. Those are what this project models in TLA+, model-checks with TLC
and, for the safety properties that matter most, proves with TLAPS for every size.

    tlc -workers 2 -config MCThreadPool.cfg MCThreadPool.tla     # a run
    tlapm ThreadPoolProofs.tla                                   # its proofs

`PROJECT.json` lists the components, the runs with their properties, for each property a
mutation of the code that breaks it, the source lines of each definition, the hazards and
the theorems.

## 1. Inventory

Parts with state that several actors share; "hard" is what a test would hardly reach.

| part | state | operations | actors and how they interact | hard | correct when |
|---|---|---|---|---|---|
| dynamic thread pool, `ch30_mode/mode_serv07_dyn.c` | `pThread[]` (tid), `nthreads`, `nconn`, two mutexes, one condition | main: wait, scan, create; thread: select, accept, serve, time out | main and threads; `tid` is *set* without a lock | `tid` stored while main scans; counters read under one lock and written under another | one thread per entry, exact counters, a scan always finds an entry, nobody starves, the pool shrinks |
| accept ring, `mode_serv08.c` | `clifd[]`, `iget`, `iput` | put, get, overflow | main and threads, mutex and condition | one signal per descriptor; wrap-around | bounded FIFO, each descriptor to one thread, no lost wakeup |
| descriptor passing, `mode_serv05.c` | `cptr[]` status, `navail`, pipes | select, accept and pass, read a byte or an end of file | parent and children over socketpairs | children write and die between `select` and the reads | status and count exact, service goes on |
| the same with a dynamic pool, `mode_serv05_dyn.c` | the same and `nchildren` | grow, shrink by SIGTERM on a timeout | the same; deaths are invisible | slots reused, miscounting | no busy child killed, a slot left, pool within limits |
| lock around `accept`, `mode_serv02/03/04/04b/07.c`, `mode_lock.c`, `sig_int.c` | the lock | fork, lock, accept, unlock, serve, die, SIGALRM, SIGINT | parent, children, kernel | death or EINTR with the lock held | one acceptor, nobody starves, all end |
| signal-driven echo, `ch25_sigio/sigio_dg_echo.c` | `dg[]`, `iget`, `iput`, `nqueue` | SIGIO handler fills, main loop sends | one process, handler between any two instructions | `iget` and `nqueue` change apart, signals do not queue, the socket receives before it is set up | no slot overwritten while sent, FIFO, nothing forgotten |
| reliable UDP, `ch22_advudp/adv_dg_send_recv.c`, `rtt_lib.c` | sequence number, estimators, jump buffer | send, time out, match, measure | client, SIGALRM, network | late, doubled, lost answers; wrap; the alarm anywhere | each line answered by its own echo, calls end |
| dynamic preforked servers, `mode_serv02_dyn.c`, `_v02`, `_v03` | shared `nchildren`, the parent's table, an fcntl lock, a pipe per child | children time out and leave by themselves, parent reads, grows; SIGCHLD, SIGINT | parent and children, through memory, pipes and the listen queue | two counts of the same children, changed at different times by different processes | `nchildren` exact, no growth without a slot, clients accepted, all end |
| stream clients, `lib/str_cli.c`, `ch06_select/str_cli_select.c`, `ch14_advio/strclikqueue.c`, `ch16_nonblock/strclinonb*.c`, `ch26_threads/thread_str_cli.c` | two buffers, flags for two ends of file | copy in two directions, half-close, return | client (one process, two, or two threads), echo server, TCP | ends of file in any order, partial writes, server death, full buffers | every line comes back, FIN after the last line, the verdict is true, the session ends |
| parallel web clients, `ch16_nonblock/web*.c`, `ch26_threads/thread_web*.c` | `file[]` flags, three counters, `ndone` | start, connect, read, join or reap | one process over `select`; main and threads; parent, children and SIGCHLD | join with a mutex held; `pause` after a test; the handler works on main's data | every file read, never too many connections, the client ends |
| timed receive: `ch20_bcast`, `ch21_mcast/dg_cli_mcast.c`, `ch14_advio`, `ch08_udpcliserv`, `ch28_traceroute`, `lib/pselect.c` | timer, signal mask, jump buffer, pipe | send, arm, receive, time out | one process, its SIGALRM handler, the network | SIGALRM between any two calls; late, doubled and foreign replies | answers belong to their questions, jumps land, nobody waits for ever |
| ICMP daemon, `ch28_icmpd` | `cli_fd_port[]`, `cursize`, the remembered entry `idx`, a mutex | accept, receive a descriptor, enter the client; report an ICMP error; remember a client that closed | main, the ICMP thread, the SIGIO handler in either, clients | the handler takes no mutex and is blocked in one thread only; one entry is remembered; signals do not queue | no entry of a live client is reused, errors reach their own client, every client is entered |
| request and line buffers, `mode_readline_r.c`, `mode_reply.c`, `lib/readline.c` | a buffer per process or thread | read a line | one | leftovers; `size_t` of -1 | not modelled |

The rest (simple clients and servers, socket options, names, interfaces, routing, data
link, formatting, third-party libraries, RCS histories) is listed in `PROJECT.json` with
the reason it is left out: sequential code around one call, byte layouts, or not this
repository's own.

## 2. What is modelled

One action is the code between two points where another actor can interfere: usually a
system call with the assignments that follow it, or a critical section whose lock is never
held across a blocking call. A lock that *is* held across one is a variable. A descriptor
stands for its client. `Mutant of X` definitions are not part of the specifications: they
are plausible bugs that the properties must catch.

**ThreadPool** (`mode_serv07_dyn.c`). `mpc` is main's place in 57-97, `pc[t]` a thread's
in `mode_doit`, `tid` and `slot` are `pThread[].tid` and the thread's `ptr`. `mlock` is a
variable, `nlock` is not. The scan is one action per entry because line 116 may store a tid
between two reads. `mode_reply` is one step that returns (`Served`) or ends the process
(`ReplyExits`).

**AcceptRing**, **HandOff** (`mode_serv08.c`). `AcceptRing` has the ring and its indices;
`HandOff` is the abstract specification: a bounded FIFO from which each descriptor goes to
one thread. `Queue == INSTANCE HandOff WITH queue <- Ring ...` relates them.

**PassFd** (`mode_serv05.c`, `mode_write_fd.c`, `mode_read_fd.c`). `todo` is what is left
of `select`'s snapshot, `passed` and `ready` the two directions of each socketpair. `Die`
may happen to a child at any moment; the parent sees it as an end of file (`ReadEof`), as
ECONNRESET when a descriptor was unread (`ReadReset`) or as SIGPIPE (`AcceptForDead`).

**PassFdDyn** (`mode_serv05_dyn.c`). The sockets are datagram sockets, so there is no end
of file. `Grow`, `Select`, `Timeout` and the three shrinking actions follow the loop at
132-226; `at` is the shrinking loop's index. `skipped` is a history variable: how often line
174 has left the loop without decrementing `nchildren`.

**Dispatch** is the abstract specification of both: connections wait in the order they
came, one that is accepted goes at once to a child that has none. How the parent knows such
a child is left open. `Pool == INSTANCE Dispatch WITH ...` maps a child to the client it
`Holds`, received or still in its socketpair; a dead child holds none.

**PreforkLock** (`mode_serv02, 03, 04, 04b, 07`). The variable `guard`, chosen in
`LockInit`, says which server it is: the five share their text but for the lock. `Exit` says what the
death of a child does to each lock; with threads it is `AllExit`. SIGALRM has a handler in
serv03 only, and `lib/signal.c` does not restart what it interrupts: `AlarmInAccept`,
`AlarmInWait`, `WaitFails`. An interrupted `accept` had no connection to return, hence the
guard `backlog = <<>>`.

**SigioEcho**, **EchoQueue** (`sigio_dg_echo.c`). `handling` is the handler's being on the
stack: while it is, the main loop stands still. `sigio` is one signal, pending or not.
The model starts when the socket is bound: datagrams arrive before `FIOASYNC` (`SetAsync`),
without a signal, and between it and `FIONBIO` (`SetNonblock`), where the handler's
`recvfrom` blocks (`Drained` is not enabled).
`EchoQueue` is the bounded FIFO echo it implements.

**Retransmit**, **RequestReply** (`adv_dg_cli.c`, `adv_dg_send_recv.c`, `rtt_lib.c`).
`attempt` counts transmissions; the number on the wire is it modulo `SeqMod`. `requests`
and `replies` are sets of datagrams, so anything may be lost (never taken), doubled (taken
twice) or reordered; a datagram older than `Lifetime` transmissions is gone. The estimators
are integers in 1/64 of a second (floats in the code, so rounding differs by less than
that). `RequestReply` says what a user sees: lines answered one by one by their own echo.

**PreforkDyn** (`mode_serv02_dyn.c`, `_v02`, `_v03`). `kind` is the server. `nchildren` is
the shared count, `known`, `status` and `nconn` are the parent's own view, `child[i]` what
the process in slot i really does. `rset` and `nsel` are what `select` reported; `Scan`, the
whole of 96-124, is one action because the parent alone reads the pipes: what `select`
reported is there until it does. A child takes and releases the lock in one step, the
parent holds it (`locked`) while it forks. Fork and the stores of pid and status are
separate (`StorePid`, `StoreStatus`), since SIGCHLD and SIGINT come in between: a slot used
before then still has the pid of a child long gone, and `kill` does not reach the new one
(`Told`); `parent` is "waitnew" when `_sig_int` waits after that. `stray` are
the bits of the set that nobody zeroed. Left out: the read end of an ended child's pipe is
never closed (114), a leak that ends the server after thousands of children.

**EchoSession** (the stream clients). `kind` is one of seven clients, `cpc` its loop or the
actor that reads, `wpc` the actor that writes where there is one. `toi, too, fri, fro` are
the four buffer pointers as distances; data is counted in lines, TCP keeps their order.
`input` is the number of lines there are, none included, and `newline` whether the last one
ends in a newline: for those who read with `Readline`, which waits for one (`Partial`). The
server is `str_echo` and may be killed at any moment, which makes a FIN or, with data
unread, an RST; buffers are bounded, so that `Writen` blocks and `write` is partial.

**WebClients** (`web.c`, `web2.c`, `thread_web*.c`). `flags` is `f_flags` or `f_iFlags`;
`thread` and `locked` the threads and main's hold on `ndone_mutex`; `kids` the children of
each file. `ChildExits` contains the whole SIGCHLD handler, which interrupts main between
any two of its steps, `MainForks` and `MainMarks` among them, and `MainTests` and
`MainPauses`: the test of `nlefttoread` and `pause`. `maxconn` may be 0, as `atoi` has it for
what is no number.

**TimedRecv**. Sixteen programs differ in what stops the wait (the alarm, the call, nothing),
in what the handler does (returns, jumps, writes to a pipe, kills) and in whether one answer
is enough: a record for each. `Expires` and the delivery of SIGALRM stand between any two
calls; a signal that is neither blocked nor delivered stops the process (`Runs`). Replies
are lost, reordered and late; a line may get several, from several hosts or because UDP
duplicates, and datagrams of hosts nobody asked (`Foreign`) come too, since the clients take
what comes to their port (`Coming`). `missed` notes a handler that ran where it woke nobody.

**IcmpDaemon** (`ch28_icmpd`). `unixfd` and `sport` are the two fields of `cli_fd_port[]`,
stored one after the other (`StoreFd`, `StorePort`). `Masked` is where main blocks SIGIO; the
ICMP thread never does, so that `DeliverToThread` is always possible, and there the handler
takes two steps (`ThreadFinds`, `ThreadNotes`), between which main may go on. In main it takes
one. The thread's own work under the mutex (174-185) is one step. `pending` is one signal:
what comes while it is there is lost. `si_pid` is taken for the client's process, as the code
does, and clients are numbered in the order in which they connect, which loses nothing since
they are alike. `raced` notes that one of two races has happened, `misled` that a client was
told of another's error. Left out: that descriptors are never closed, and a process number
or port that is used again.

In all of them the listen queue, signal delivery, the network and the clients are external:
modelled from how the code uses them.

`SigioEcho`, `AcceptRing`, `Retransmit` and `PreforkLock` have a prefix (`Sigio`, `Serv08`,
`Adv`, `Lock`) before `Init`, `Next`, `Spec` and `TypeOK`, and a few names of their own for
what other modules call `status`, `kind`, `pc`, so that a module can extend one of them
together with another component: their proofs are kept so (section 4).

## 3. Runs

Bounds are the sizes of the constant sets in each `.cfg`; there are no state constraints.

| run | instance | shows |
|---|---|---|
| `thread_pool` | 3 threads, 2 clients, pool 1..3 | `PoolSound` (`SlotExclusive`, although `tid` is stored without a lock, `ScanSucceeds` and `PoolAccounting`), `MissedOnlyByLeaving` (main sleeps through a full pool only after a thread has left), `ClientAccepted`, `PoolShrinks` |
| `accept_ring` | 3 threads, 4 clients, ring of 3 | `NoIdleWhileQueued`, refinement of `HandOff`, `AcceptedIsServed` |
| `pass_fd` | 3 children, 3 clients | `BeliefExact` (`StatusExact` and `AvailExact`), refinement of `Dispatch`, `ClientAccepted` with deaths at any moment |
| `pass_fd_dyn` | pool 1..3, 2 clients | `BeliefExact` (`StatusExact`, `AvailExact` and `CountDrift`: `nchildren` is wrong by exactly what line 174 has skipped, and never too low), refinement of `Dispatch`, `ClientAccepted`, with growth, shrinkage and reuse |
| `prefork_lock` | 3 children, 2 clients, five kinds | `OneAcceptor`, `ClientAccepted`, `Shutdown` |
| `prefork_dyn` | pool 1..2, 3 clients, pipes of 2 bytes, three kinds | `PoolAccounting`, `ShortageIsRace` (out of slots only in one race), `ClientAccepted`, `Shutdown` (all end but a child whose pid was not stored and those behind an empty slot) |
| `sigio_echo` | 5 datagrams, 3 slots, socket buffer of 2 | `SendSlotStable`, refinement of `EchoQueue`, `EveryDatagramEchoed` (but for two windows at the start) |
| `retransmit` | 4 lines, numbers and lifetime modulo 4, three delays | `SampleOfThisTransmission`, `TimerBounded`, refinement of `RequestReply`, `CallEnds` |
| `echo_session` | no line or 7, the last with and without newline, all buffers of 2, seven clients | `NothingLost`, `FinLast`, `PrematureMeansCrash`, `SessionEnds` |
| `web_clients` | 3 files, 0..4 connections, one read before the end of file, three clients | `AllRead`, `ConnLimit`, `Completes` |
| `timed_recv` | 3 lines, 2 replies to each and 1 foreign datagram at a time, sixteen programs | `AnswerBelongs`, `StrayJump`, `Completes` |
| `icmp_daemon` | 3 clients, a table of 2, one datagram each | `RememberedIsClosed`, `ErrorsGoHome`, `ClientEntered` |

Where the code has a flaw the property names it as an exception and says that it is the only
one: `ShortageIsRace`, `PrematureMeansCrash`, `AllRead`, `StrayJump`, the `Completes`, and with
`raced` `RememberedIsClosed` and `ErrorsGoHome`, `CountDrift`, `Shutdown` of `PreforkDyn`,
`EveryDatagramEchoed` and `SessionEnds` are of this kind, and section 5
lists what they name. The type invariants are all proved and not repeated in the runs.

Why the bounds are enough: three threads or children let one hold the lock or be chosen,
one be on its way and one be connected or dead, and let the pool stand at its minimum,
between and at its maximum; two or three clients fill it and leave one waiting. A ring of
three wraps, fills and overflows with one more client or datagram than it holds. Four
sequence numbers wrap several times within four lines with up to four transmissions each,
with old datagrams still in flight. The delays drive the timeout to both its limits. Every
one of these cases is needed by some listed mutant to be caught.

For the later five: a pool of 1..2 with three clients stands at its minimum and its maximum,
has both slots busy and a client waiting, and reuses a slot; the safety invariants were also
checked with a pool of 1..3. A mutual wait needs six
lines at least: two in each direction, one in the server and one in the client that is
writing; with seven the input is not yet at its end. Without any line the first read finds
the end of file. Three files and up to four connections are
fewer, as many and more connections than files. With three lines an answer can be late by
two, and the first, a middle and the last call differ; two replies are an answer and its
duplicate, or those of two hosts, and a foreign datagram can come to every line. With three
clients and a table of two an entry is reused, the table fills with clients that have closed, and both races happen.

**Fairness.** Weak fairness of each process's or thread's own steps: the system schedules
runnable threads, releases a mutex's waiters, and `select`'s timeouts pass. `Served`, the
end of a connection, is among them: a client that never closes holds its thread for ever,
in the code too. In `SigioEcho` pending signals are delivered; in `IcmpDaemon` a handler that
has begun returns; in `PreforkLock` a SIGTERM that was sent ends its child; in `Retransmit` the alarm goes off. Nothing is owed by
clients that might connect or reset, by the network, by spurious wakeups or by failures.
Where a liveness property excuses an end of the server, it names it. Fairness is strong in
three places, where a step is enabled again and again and not for ever: the fcntl lock in
`PreforkDyn` (the kernel queues its waiters), the descriptors of `EchoSession` and the
connections of `web.c` (each call of `select` reports whatever is ready, and the loop then
looks at it).

Deadlock is checked in nine of the twelve runs: an ended process is an explicit stuttering
disjunct (`Exited`, `Over`), so that no other state may be without a successor. It is off in
`web_clients`, `timed_recv` and `prefork_dyn`, where the program itself may stop for ever:
the join under the mutex, the missed SIGCHLD and a limit of 0, a receive without a timeout, a
server whose children have all crashed. Which stops those are is what their liveness properties say.

## 4. Proofs

Every safety invariant and action property the runs check, every refinement and every type
invariant is a theorem, for arbitrary constants under the named assumptions of the
component's module (finite sets of threads, limits in order, a sentinel outside its set).
A `...Proofs` module extends its component. Four of them extend a second component as well,
whose proofs are their last part; the two share no variable and no lemma.

* **ThreadPoolProofs**: `Typing`, `EntriesExclusive`, `CountersExact`, `EntryFound`,
  `PoolIsSound`, `NewcomersOneByOne`. No lock protects the store of `tid` against the
  scan. What does is a chain: main grows only when `nconn = nthreads`; then every thread is
  connected, so none is before line 116 (`NoNewcomer`); so during the scan set tids and used
  entries are the same (`EntryInv`); and since main has `mlock`, nobody joins or leaves
  (`LockInv`), so `nthreads < maxthreads` leaves an entry (`ScanInv`, by the pigeonhole
  principle). `SleepsInTime` is a statement about single steps and needs only the types.
* **PassFdProofs**: `Typing`, `StatusTold`, `AvailCounted`, `BeliefTrue`, `PoolDispatches`.
  `Snapshot`: what `select` reported is still there when it is read, since only the parent
  reads and death is final; `ByteMeansBusy`: a byte is that of a child with status 1, dead or
  alive. For the refinement `HoldsFacts` reads `StatusExact` as what a child holds: a free one
  nothing, and nobody a descriptor besides the client it serves (`Serving`).
* **PassFdDynProofs**: `Typing`, `StatusTold`, `AvailCounted`, `DriftIsSkips`, `BeliefTrue`,
  `PoolDispatches`; empty slots are clean (`EmptyClean`) and
  shrinking goes on only above the minimum with a child free (`Limits`). `CountDrift` is kept
  step by step: `skipped` takes up what `nchildren` does not.
  *Retransmit*: `AdvTyping`, `SampleRight`, `Implements`, `TimerInBounds`. Datagrams in
  flight are younger than `Lifetime <= SeqMod` (`Fresh`), so equal numbers are the same
  transmission (`ModEqual`), which carries the current line (`Owner`). The timer is bounded
  by `Backoff`: the timeout is at most `RXTMAX * 2^nrexmt` and `nrexmt` at most `MAXNREXMT`.
* **PreforkDynProofs**: `Typing`, `PoolIsAccounted`, `ShortageOnlyInRace`. `PoolAccounting`
  alone is not inductive, because the count, the table and the children are never right at
  the same time. `Control` has what each place of the parent implies for the lock, the slot
  being filled and the bounds; `Count`, by how much `nchildren` is late there; `Table`, that
  the parent's table misses only the child it is making; `Bytes`, that the last byte in a
  pipe of `mode_serv02_dyn` is what its child does now; `Losses` charges each difference
  between the counts to a crash. `ShortageOnlyInRace` follows by counting: all slots are
  taken and `nchildren` is below its maximum, so some child that has left still has its slot.
  *AcceptRing*: `Serv08Typing`, `SignalsSuffice`, `RingIsQueue`. `RingInv` says the ring
  holds descriptors that main and the threads do not; lemmas on `Advance`, a store and a
  removal turn indices into sequences once.
* **EchoSessionProofs**: `TypeCorrect`, `NothingIsLost`, `FinIsLast`, `PrematureIsTrue`, for
  all seven clients, any input and any buffer sizes. `Shape` says which places and which
  buffers each client uses (`Modes`, `Counts`, `Places`, `Buffers`); `Ends`, that the end of
  input is noted and the FIN sent only with nothing left (`InputRead`, `FinNoted`,
  `FinLast`); `Flow`, that while the server lives the lines of the input are all somewhere,
  read, in a buffer, on their way or printed (`Conserved`), and that a server which ends by
  itself has none (`ServerDone`); `Verdict` draws from these what the client's return means.
  `NothingLost` alone is not inductive: lines are conserved only as long as the server
  lives, and the client learns of its end later.
  *SigioEcho*: `SigioTyping`, `SendSafe`, `RingIsEchoQueue`, all from `Position`: `iput` is
  always the slot behind the last unsent datagram, wherever the main loop is between moving
  `iget` and decrementing `nqueue`.
* **WebClientsProofs**: `Typing`, `LimitIsKept`, `FinishedHasRead`, for any number of files,
  connections and reads. `Counters`: `nconn`, `nlefttoconn`, `nlefttoread` and `ndone` are
  cardinalities of sets of files; `Fetched`: what a flag says has happened to its file;
  `Places`, `Index`: where main can be. In `web2.c` the counters are wrong after a file was
  started twice (`Started`); until then `Reckoned` relates `nlefttoread` to the files whose
  children have ended, which have been read or have failed. `Finish`: a normal end has
  nothing left, so that the sets are empty.
  *PreforkLock*: `LockTyping`, `Exclusion`, from `Held`: who is in `accept` holds the lock,
  also across EINTR and deaths.
* **TimedRecvProofs**: `Typing`, `AnswersBelong`, `JumpsAreBounded`, for any number of lines,
  replies and foreign datagrams. `Sent`: nothing comes for a line before it is sent; `Ended`: a
  line that is over was answered or timed out. When an answer to line k is taken under a later
  one, either k has had its answer already, and this one is a duplicate that fools the later
  line (`Fooled`); or k timed out; or k took something else, which belongs before it, and the
  same holds of k. `JmpBuf` and `TraceBuf` say in which steps
  the jump buffer can be unset or an old one.
* **IcmpDaemonProofs**: `Typing`, `RemembersClosed`, `ReportsGoHome`, for any number of
  clients, entries and datagrams. `Control` and `Filled` (an entry has both fields or
  neither) hold always; `Closings` (the handler finds clients that have closed) and
  `Entries` (the fields of an entry are one client's, who has no other, and every live
  client that was stored has one) until the handler has interleaved with main (`raced`),
  after which neither they nor the properties hold.

Only model-checked: the liveness properties (`ClientAccepted`, `PoolShrinks`,
`AcceptedIsServed`, `EveryDatagramEchoed`, `Shutdown`, `CallEnds`, `SessionEnds`,
`Completes`, `ClientEntered`), since the prover does not reason about fairness and
`ENABLED`. The invariants above, strengthenings included, were passed by TLC on the runs'
instances before their proofs were begun.

## 5. Findings

* `mode_serv07_dyn.c:142`: a thread that leaves the pool signals nobody, and main can sleep
  with every thread connected; `MissedOnlyByLeaving` says that this is the only way.
* `mode_serv05_dyn.c:174`: the decrement of `nchildren` is skipped when the last free child
  is terminated (`CountDrift`); the loop can then take the pool below its minimum, down to no
  child (`ShrinkKill`).
* `mode_serv05_dyn.c:165`: the loop takes an empty slot for a free child and signals its own
  process group; `:237`: a child's death changes no slot, so a dead child is chosen later.
* `mode_serv05.c:120`: a child that dies between `select` and the accept takes the parent
  along, by SIGPIPE, although line 134 means to survive it.
* `mode_lock.c:20`: SIGALRM, which in serv03 only asks who has the lock, ends a child that
  waits for it.
* `adv_dg_send_recv.c:57`: `alarm` before `sigsetjmp`.
* `rtt_lib.c:84`: a timeout may exceed `RTT_RXTMAX`, "max retransmit timeout value".
* `mode_serv02_dyn.c:134`, `_v02:143`: a child has left the count but not yet the table, and
  growing finds no slot: the server ends, or writes behind the table (`ShortageIsRace`).
* `mode_serv02_dyn.c:117`: crashed children are never replaced; `:125`: `nsel` counts slots
  in use and not ready ones; `:78`: `masterset` is not zeroed.
* `mode_serv02_dyn_v02.c:212`: `kill(0, SIGTERM)` for an empty slot ends the parent before
  the children behind it; `:230`: a child that ends before its pid is stored ends the server;
  `:213`: SIGINT before the pid is stored signals the slot's former child, and `wait` never
  returns.
* `sigio_dg_echo.c:47`: what arrives between `Bind` and `FIOASYNC` raises no SIGIO; `:49`: the
  handler of what arrives between `FIOASYNC` and `FIONBIO` blocks in `recvfrom`.
* `str_cli.c:12`: a last line without newline makes client and server wait for each other;
  `strclikqueue.c:32`: an empty file gives no event, and the client waits for ever.
* `strclikqueue.c:48`: the last lines of a regular file are not sent.
* `strclinonb.c:75`: what waits in `fr[]` at the end of file is not printed.
* `thread_str_cli.c:33`: the FIN is sent before `stdineof` is set, so that a normal end may
  be called premature.
* `thread_web_main.c:73`: main joins, with the mutex, a thread that waits for the mutex.
* `web2.c:56`, `:60`: a file started twice, or one that is none; a SIGCHLD lost before
  `pause`. `web.c:53`: a connection that failed is written to; `:10`: with a limit of 0
  nothing is ever started.
* `dg_cli_bcast.c:26`, `my_dg_cli.c:26`, `dg_cli_bcast_err.c:34`: an alarm outside of the
  call it is to interrupt is lost. `raw_tracert.c:144`: `alarm` before `sigsetjmp`.
* `prac_dg_cli02.c:25`: two results of `inet_ntoa` share a buffer, and no reply is ignored: like
  `dg_cli.c:13`, `my_dg_cli*.c`, which look at no sender, it takes what anybody sends.
* `exer01_connect_timeo.c:16`: without a handler SIGALRM ends the program.

* `rawsockux_serv.c:84`: a client that has not yet sent its descriptor ends the daemon, for
  `clifd` no longer blocks; `:24`: only one closed client is remembered, the entries of others
  are lost and the table fills up; `:180`: an ICMP error for a client that has closed ends
  the daemon by SIGPIPE; `:95`: the handler, in the ICMP thread, interleaves with main and
  mixes two clients in an entry, or has a live client's entry overwritten.

What the models leave out on purpose: request parsing in `mode_reply`, the printing of
statistics, `getrusage`, the histogram of SIGHUP, files written for tracing, and signals
that do nothing but end the program where no other process depends on it.

## 6. Not modelled, and what could follow

`PROJECT.json` has the reason for each component. They are of four kinds, and between them
most of the repository's lines, which is why the modules stand for a small share of it:

* sequential programs around one call, without state that outlives a request: socket
  options, introductions, iterative and forking servers, UDP servers, the load client;
* one process with a table that changes only between two calls of `select` or `poll`: the
  servers of `ch06`. Nothing else changes the table; what can go wrong, a client's reset
  between `select` and a blocking `accept`, is in the modules of the pools that accept so;
* byte layouts: names and addresses, `ioctl` and routing structures, packets of the data
  link, IP options, SNTP, the parsing of a request. Their correctness is that of formats,
  which a model would have to take over as they are;
* code of others, generated code and revision histories (`libgai/old`, `libfree`,
  `libroute`, `RCS`, `configure`).

What would be worth adding first: the heartbeats of `ch24_oob`, whose counter the SIGALRM
and SIGURG handlers share; `ch28_ping`, which sends from its SIGALRM handler. Worth proving
next: that `PreforkLock` and `PreforkDyn` give each connection to one child, as refinements
of a specification like `Dispatch`. A proof is begun only when TLC has passed its invariant.
Modules to be proved about declare no recursive operator.

Order in which the modules are best read: `ThreadPool`, `AcceptRing` with `HandOff`,
`PassFd`, `PassFdDyn` with `Dispatch`, `PreforkLock`, `PreforkDyn`; then `SigioEcho` with `EchoQueue`,
`Retransmit` with `RequestReply`, `TimedRecv`; `EchoSession`, `WebClients` and
`IcmpDaemon` stand alone.
