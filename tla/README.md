# A TLA+ model of webserver_v1.1

The repository is a collection of small network servers in C and C++: two
servers that close idle clients with timers (a timing wheel and a sorted
list), a heartbeat server with two threads, an epoll reactor, and a number of
single-file examples (epoll, select, non-blocking connect, datagrams). They
share no code. This directory models every program that keeps state across
events, checks them with TLC on small instances, and proves with TLAPS, for
instances of any size, the safety properties of all of them.

Paths below are relative to the repository's root; `PROJECT.json` maps every
definition to the lines it models.

## Inventory

| Component | State | Operations | Works with | Hard behaviour | What makes it correct |
|---|---|---|---|---|---|
| Timing wheel, `timer/time_wheel_timer.hpp`, `timer_common.hpp` | one list of timers per slot, current slot, slot and rotation of each timer | addTimer, delTimer, resetTimer, tick, destructor | called by the timer echo server; tick runs the owner's callback | tick erases from the list it walks and increments its iterator twice | lists and nodes agree; no dead node is visited; a timer fires, at its time |
| Timer echo server, `timer/test.cpp` | Event per client, epoll interest, self pipe, loop flag | accept, read, write, timeout, SIGINT | owns a wheel; the wheel calls timeout_handle | Events deleted while a batch of events is handled; resets, EPIPE; SIGINT at any time | timer and connection live together; idle clients go; SIGINT stops it |
| Sorted timer list, `time_wheel/lst_timer.hpp` | doubly linked list, head, tail, expire | add_timer, adjust_timer, del_timer, tick, destructor | called by the timer list server | pointer surgery at both ends, equal expiries | the list is sorted and complete; tick fires exactly the timers due |
| Timer list server, `time_wheel/timer_list.cpp` | users[], edge-triggered epoll, signal pipe, alarm, flags | accept, recv, SIGALRM, SIGTERM, tick | owns a timer list; the list calls cb_func | edges that are not repeated; signals at any time; tick closing descriptors | one alarm at a time; idle clients go; SIGTERM stops it |
| Heartbeat server and client, `heartbeat/server.cpp`, `client.cpp` | mmap (count per client), master_set, max_fd, shared by two threads without a lock | select, accept, recv, count, close, erase; the client sends heartbeats and leaves | threads share memory; clients send HEART messages | every data race; reuse of a descriptor between close and erase | a silent client is closed, one that beats is not; the listening socket stays selected |
| Reactor, `reactor/server.c` | chain of blocks of ntyevent records, status, callback and mask of each | accept_cb, recv_cb, send_cb, event set/add/del | kernel's epoll set | status mirrors the kernel by hand; reuse of descriptors; buffer full | record and kernel agree; every byte is answered |
| Multi-threaded epoll server, `epoll_v2/server1.c` | worker threads, each with an epoll set, a mutex and an unsigned connection count | accept and hand over, worker loop, the user's message handler | threads share counts; descriptors pass from the acceptor to a worker | count changed after the hand-over; an index compared with a count; an edge-triggered, blocking listening socket with one accept | counts match connections; a descriptor has one owner; a peer that hung up is closed |
| epoll examples, `epoll_v1/` | epoll set, inner read loop | accept, read, close | clients | an edge is reported once; a loop that goes on after close; errors in read loops | no input is left without a wakeup; no event for a closed descriptor |
| select server and clients, `select/` | vector of descriptors, maxfd, fd_set | accept, recv, close; the clients' select loop | the clients of `bind/` and `asyn_connect/` use the same port | reuse of descriptors, failed accept, fd_set not set again | every open client is stored once and selected; who has sent or left is served |
| Non-blocking connect, `asyn_connect/` | a socket in progress | connect, select, SO_ERROR | any of the TCP servers, or none | timeout against a late answer; refused is writable too | what it prints is what happened |
| Blocking servers, local sockets, `bind/`, `local/` | the connection being served, descriptors kept | accept, one recv, echo | the TCP clients; the local clients | a silent client stops the server; descriptors run out; one accept only | a client is answered, or the server waits for a stated reason |
| Datagram examples, `broadcast/`, `multicast/` | none | one send or receive in a loop | - | - | pure I/O, not modelled |
| Byte order, `endian.c`, `hn_trans.c` | none | one number is taken apart and printed | - | - | not modelled |
| Scratch programs, `test/` | none | - | - | - | language exercises, not modelled |

The hazards, each at its line, with the properties that cover them, are listed
in `PROJECT.json`.

## Modules

| Module | Models | Composition |
|---|---|---|
| `TimeWheel` | TWTimerContainer | - |
| `TimerServer` | main and handlers of `timer/test.cpp` | `Wheel == INSTANCE TimeWheel` over the same variables |
| `TimerQueue` | what sort_timer_lst promises, without its list | abstract specification |
| `LstTimer` | sort_timer_lst, pointer by pointer | implements `TimerQueue` (refinement mapping at its end) |
| `TimerListServer` | main and handlers of `time_wheel/timer_list.cpp` | `Queue == INSTANCE TimerQueue` |
| `Heartbeat` | both threads of the heartbeat server and its clients | - |
| `Reactor` | the reactor | - |
| `EpollThreads` | acceptor and workers of `epoll_v2/server1.c` | - |
| `EpollEdge` | the three servers of `epoll_v1` | `prog`, chosen in Init, says which one runs |
| `EchoExamples` | the servers and clients of `select`, `bind`, `asyn_connect`, `local` | one server with any mix of the clients that can reach it |
| `TimeWheelProofs`, `LstTimerProofs`, `TimerListServerProofs`, `HeartbeatProofs`, `ReactorProofs`, `EpollThreadsProofs` | proofs | each EXTENDS the module it is named after |
| `ExampleProofs` | proofs about `EpollEdge` and `EchoExamples` | EXTENDS both, whose definitions have different names for that reason (`Spec`, `EchoSpec`) |
| `TimerServerProofs` | proofs about `TimerServer` | EXTENDS `TimerServer`; `W == INSTANCE TimeWheelProofs` for the server's wheel |
| `MCTimeWheel`, `MCLstTimer` | sets of timeouts and delays for TLC | EXTEND the module they are named after; the other runs use their module as it is |

The definitions whose comment begins "Seeded fault" are variants of the
definition behind them, each with a mistake the code could have had. No
specification uses them; `PROJECT.json` pairs each with the property that
detects it.

### State and actions against the code

*TimeWheel.* `slots`, `cur_slot`, `time_slot` and `rotation` are the fields of
the container and its nodes; `armed` is the set of nodes that exist. The loop
of `tick()` is one action per iteration: `TickBegin`, `TickSkip` (rotation is
decremented), `TickExpire` (callback, delete, erase) and `TickEnd`. `itr` is the
iterator as a position. `AfterErase` says where it stands after the `itr++` of
the erase and the `++itr` of the loop header: one element is jumped over, and if
the erased element was the last, the increment of `end()` leads to the first
element (libstdc++'s ring; formally undefined behaviour, and the makefile
builds with g++). `left`, `shared` and `long` are auxiliary: the ticks a timer
still has, whether it ever had company in its slot, and whether it was set to a
turn or more.

*TimerServer.* A client's Event, socket and timer share a name. Each handler
is an action for each result of its system call: `ReadData`, `ReadEOF`,
`WriteData`, `SigPipe`, `AcceptConn`, `AcceptFails`, `ReadSignal`. `buf_size` keeps
what the last read returned: after a read that failed, writeData calls write with
a length of (size_t)-1, which fails without a signal, sets the timer again and
has the next read return 0; only an answer with bytes raises SIGPIPE. `EpollEvents`
and `EpollTimeout` are the two outcomes of epoll_wait; only the second runs
tick(). `TimeoutHandle` is one expiry of the wheel together with the callback.

*LstTimer.* `next` and `prev` are the pointers; one action per branch of each
function. tick() is `TickBegin`, `TickFire` per expired head, `TickEnd`. As in
the code, tick() leaves `tail` dangling when it empties the list.

*TimerQueue.* A set of pending timers with the time they have left. `TickBegin`
fixes the timers that are due, `Fire` takes them in any order.

*TimerListServer.* `ready` is epoll's ready list with edge triggering: it gains
a descriptor when something arrives and is emptied by epoll_wait. `alarm`,
`pipe` and `timeout` are the three places the periodic SIGALRM passes through.
accept on a queue that has emptied returns -1, which the code does not test: it
writes to `users[-1]`. `AcceptFails` is the outcome in which it gets away with it,
`AcceptDies` the one in which the process dies.

*Heartbeat.* Every access to shared data is a step. `count += 1`, FD_SET, FD_CLR
and `max_fd--` are a load and a store. `mpc` and `hpc` are the places of the two
threads. recv that delivers nothing leaves `head` uninitialised: both outcomes
of the comparison with HEART are possible.

*Reactor.* `ev` is the record table, `reg` the kernel's epoll set. epoll_ctl
fails, changing nothing, when it adds what is there or modifies what is not.
`Length` models the terminating zero that recv_cb writes behind a completely
filled buffer, into the low byte of `length`. `Batches` is the cap of
MAX_EPOLL_EVENTS on what one epoll_wait returns; `passed` is what did not fit and
is reported before the others in the next call, as the kernel's ready list goes
round.

*EpollThreads.* `pc` is each thread's place. `CallAccept` and `AcceptConn` (the call
of the blocking accept and its return), one `Scan` per worker
(the read of its count under the mutex), `HandOver` (EPOLL_CTL_ADD) and `Count`
are the steps of serverRun between which a worker can run; a worker closes a
descriptor in one step and decrements its count in the next. `SERVER` serves
the connections itself when there are no workers, with the same actions.
`edge` is the ready list of the edge-triggered listening socket; `waiting` its
accept queue, which drops attempts when it is full.

*EpollEdge.* `ready` is epoll's ready list, `batch` what epoll_wait returned,
`cur` the descriptor of the inner read loop, or the listening socket while
singleThread's accept blocks (`AcceptBlocks`). The loop of server1 and server2 is
one action per result of read: `LoopData`, `LoopAgain`, `LoopEnd`, `LoopError`,
and `LoopClosed` for server2, which goes on after close. `ReadOnce` is the body
of singleThread. A reset connection reports ECONNRESET once and end of file
then; a write in between raises SIGPIPE.

*EchoExamples.* `cl[c]` is a client: the program it runs, its place `st`, the
descriptor the server has for it, the message under way in either direction,
the bit of its fd_set (`isset`), the state of a connection in progress (`net`)
and what it printed (`report`). `SelectReturns`, `SelectAccept`, `SelectRecv` and
`SelectNext` are a round of the select server; `BlockingAccept` and
`BlockingRecv` one of the blocking server; `LocalRecv` and `LocalEnds` the local
one. In half of the initial states no server runs, so that connects are refused.

*A connection reset while it waits to be accepted.* `IO模型.md:29-39` describes it:
the listening socket was reported, the client cancels with RST, the queue is
empty when accept is called. Every model of a TCP server has the action (`Abort`,
`AbortWaiting` in EpollEdge): the connection leaves the queue, the event stays.
What accept then does depends on the listening socket. It is non-blocking in
`timer/test.cpp`, `time_wheel/timer_list.cpp`, `reactor/server.c:164` and
`epoll_v1/server1.c`, `server2.c`: accept fails with EAGAIN. It is blocking in
`epoll_v2/server1.c`, `epoll_v1/singleThread.c`, `select/server.cpp` and
`heartbeat/server.cpp`: the thread waits in accept until somebody connects.

## Runs

Passing runs:

| Run | Checks | Shows |
|---|---|---|
| `wheel` | TypeOK, WheelOK, NeverEarly, LoneTimersOnTime, TickTerminates, EventuallyFires | lists and nodes agree; a timer below a turn is never early; a timer alone in its slot is exact; the iterator that is sent back does not loop for ever and no timer is skipped for ever |
| `timer_server` | ServerInv (TypeOK, TimerPerConnection, BatchLive), InterruptStops, IdleClosed | connection and timer live together, no handler meets a deleted Event; SIGINT stops the server; a silent client is closed as long as rounds without events go on |
| `list` | ListInv (TypeOK, SortedList), ImplementsQueue | one doubly linked sorted list through every operation, which implements TimerQueue |
| `list_server` | ServerInv (TypeOK, TimerPerConnection, BatchOpen), OneAlarm, IdleClosed, TerminateStops, QueueMoves | timers match descriptors, no stale event, the alarm is neither lost nor doubled; a silent client is closed however busy others are; SIGTERM ends the server; a connection that shared its edge with another leaves the accept queue as long as clients go on to connect |
| `heartbeat` | TypeOK, ListenWatched, CountBounded, RecvNeverBlocks, CountedClosed | the races never unwatch the listening socket nor carry a count past its limit; the main thread does not block in recv; a silent client with an entry in mmap is closed |
| `reactor` | RecordsInv (TypeOK, BlocksCover, StatusMirrorsEpoll), BatchCurrent, EchoExact, Answered | table and kernel agree, events stay valid, every byte is answered once; what is sent is read and answered |
| `epoll_threads` | TypeOK, CountExact, Owned, QueueMoves, HungUpClosed | counts are exact up to the connection in hand; no thread touches another's descriptor; as long as clients connect, connections are accepted; a peer that hung up is closed, unless the only thread sits in its blocking accept |
| `epoll_edge` | EventsInv (TypeOK, BatchOpen), NoLostEdge, Drained, QueueServed | the loops lose no edge and drain every client, unless one sends as fast as it is read for ever; no event and no read for a closed descriptor that could be another's; the accept queue moves |
| `examples` | ServerInv (EchoTypeOK, Tracked), ReportTrue, SelectServes, Answered, EndNoticed | the vector of descriptors is exact; the report of `asyn_connect/client1.cpp` is right; the select server serves, unless it sits in its blocking accept; a client that is not answered waits for one of the stated reasons; the end of a server is noticed |

Runs that show a disagreement between the code and what it says of itself
(each is quoted under "findings" in `PROJECT.json`):

| Run | Property | What TLC finds |
|---|---|---|
| `wheel_late` | NoTimerLate | two timers expire in one tick; the second is jumped over and comes up a turn later |
| `heartbeat_lost` | DeadDetected | a descriptor given out again between close and erase loses its entry; its client is never closed |
| `heartbeat_early` | OfflineMeansSilent | the store of `count += 1` undoes a reset; a client that beats is closed |

Each passing property also has a seeded fault that violates it.

The modelling also met weaknesses that no violation run is about. Where one of
them bears on a property, the property says in which case it does not hold, and
TLC finds it violated without that exception.

- `timer/test.cpp` calls tick() only when epoll_wait times out, so a client that
  keeps sending stops the wheel for all. IdleClosed therefore assumes that
  rounds without events go on.
- `IO模型.md:29-39` says of a blocking listening socket that the program then
  blocks in accept and serves no other socket ("程序阻塞在accept调用，无法响应其它已连接套接字的事件").
  The code that does not follow it has exactly this: `select/server.cpp:82`
  (exception of SelectServes), `epoll_v2/server1.c:167` without workers (exception
  of HungUpClosed), `epoll_v1/singleThread.c` and `heartbeat/server.cpp`. The next
  connection frees the thread.
- `time_wheel/timer_list.cpp`, `epoll_v2/server1.c` and `epoll_v1/server2.c` accept
  once per edge. Of two connections that arrive together one stays behind and
  raises no further event; each later arrival lets in one older one. QueueMoves
  and QueueServed claim only that. In `epoll_v2` and `server2` a queue that is full
  raises no edge any more, and the server is deaf until a queued client gives up.
- `time_wheel/timer_list.cpp:135` does not test accept's result; with a queue that
  has emptied it writes to `users[-1]`.
- `epoll_v1/server1.c:82` and `server2.c:100` read one client until EAGAIN. A client
  that sends as fast as it is read holds the only thread; it is the exception
  (`HeldBy`) of Drained and QueueServed.
- `epoll_v2/server1.c:193` compares the index of a thread with a count where it
  means to compare counts. 0 is greater than no unsigned count, so all
  connections go to the first worker, although `server1.h:34` says that the
  threads handle messages ("各个线程会调用该函数进行消息处理") and `:61` that the
  sub-threads serve the connected clients. No property asserts either; `Places` in
  `EpollThreadsProofs`, a part of an inductive invariant, contains it as a fact.
- The count of a worker is 2^32 - 1 for a moment when it closes a connection
  before serverRun has counted it (CountExact has it so).
- `asyn_connect/client.cpp:81` prints "connect to server successfully" for a refused
  connect too, because a socket with an error is writable; `client1.cpp:2` calls
  itself the correct way to write it, and asks for SO_ERROR. ReportTrue is stated
  for `client1.cpp` only; for `client.cpp` it is false.
- `epoll_v1/singleThread.c` reads one buffer per edge and leaves the batch at an
  end of file: NoLostEdge and Drained are stated for the other two programs.
- `select/client.cpp` and `client1.cpp` show what happens when fd_set is not set
  again: after a timeout they notice nothing any more (EndNoticed excepts them).
- The blocking server of `bind/` and `asyn_connect/` stops at a client that does
  not send, and when its descriptors are used up (Answered names both).

### Bounds

- *Wheel*: three slots, three timers, timeouts that are less than a slot, a
  whole number of slots, a whole turn, and a turn and a remainder. Three timers
  in a slot are what skipping, wrapping and visiting twice need.
- *TimerServer*: two clients; the 15000 ms are one of two slots, so that
  rotation stays 0 as with 150 of 600 slots in the source.
- *LstTimer*: four timers, three delays, time up to `MAX_TIME` = 5: an insertion
  hits front, middle, end and equal expiries, and a timer is set, moved and
  fired while others live and die around it.
- *TimerListServer*: two clients, an alarm period of one unit of time (a timer
  lives for three), `MAX_UNREAD` = 2 buffers, so that recv may leave input
  behind.
- *Heartbeat*: two descriptors, three connections (`MAX_CONNS`), so that a
  descriptor is reused while another is open; two missed rounds (`OFFLINE`)
  instead of 5, clients with a limit of one (`BEATS`) instead of 15.
- *Reactor*: blocks of two records, the descriptors 4, 5 and 6 so that accepting
  crosses a block; writes of half a buffer and of a whole buffer of 4096 bytes,
  `MAX_UNREAD` = 6144; accept queue of `MAX_WAITING` = 1. A batch has at most two of
  the three descriptors, so that it is cut short.
- *EpollThreads*: no worker and two workers, three descriptors, so that numbers
  are reused while others are open; `UINT_MOD` = 8 instead of 2^32, above anything
  the counts reach but by wrapping below 0; accept queue of `MAX_WAITING` = 2.
- *EpollEdge*: two descriptors, accept queue of two, at most `MAX_UNREAD` = 2 buffers
  in a socket: input left after a read, and input that arrives during the loop.
  How much a client sends in all is not bounded.
- *EchoExamples*: every multiset of programs for three clients, two descriptors,
  so that accept fails, and a queue of one, so that connects are dropped. Each
  client process runs once.

Every passing run checks temporal properties, so none uses symmetry.

### Fairness

- `TimeWheel!FairSpec`: tick(), once called, is run to its end, and the owner
  keeps calling it.
- `TimerServer`, `Reactor`: weak fairness of the server's single thread as a
  whole. Nothing is assumed of clients, network or user.
- `TimerListServer`: the thread, and time passes (the alarm goes off).
- `Heartbeat`: each of the two threads; sleeping and select with a timeout end
  by themselves.
- `EpollThreads`: each thread on its own. `EpollEdge`: the server's thread.
- `EchoExamples`: the server, and each client that was started and is not waiting
  for the other side. Starting and killing clients, the network's answers and
  timeouts are not forced.

### Deadlock

Deadlock is checked in every run but `examples`, whose programs come to rest: the
clients end, or client and server wait for each other in blocking calls (what
they may wait for is the subject of Answered). Servers that may end have a stuttering action
for it (`Gone`, `Out`, `Exited`, `Killed`, `Ended`).

## Proofs

Each component has a module of proofs. The theorems hold for every value of the
constants that satisfies the assumptions stated in the component's module, so
they remove the bounds of the runs: any number of clients, timers, descriptors
and workers, any queue lengths, delays and limits. All safety properties that
the passing runs check, invariants, action properties and the refinement, are
proved, in 30 theorems; the theorems without a run's property say in addition how the
components fit together and that no handler of a batch finds its call refused.

Every proof has the same shape: an invariant `IInv` that contains the property
and what it takes to make it inductive, one lemma that `Init` implies it, one
lemma or step per action that the action keeps it, and a temporal theorem that
combines them.

### Timing wheel (`TimeWheelProofs`)

From `WheelAssumption`: at least two slots, a positive slot length, integer
timeouts.

- `WheelCorrect`: `Spec => [](TypeOK /\ WheelOK)`, and `WheelTyped` for TypeOK
  alone. The conjunction is inductive as it stands: that a list holds only
  existing timers (ListsHoldArmed), that no timer is listed twice
  (NoDuplicates) and that every existing timer is listed where its node says
  (ArmedListed) each need the others, because std::list::remove and erase take
  out one occurrence. The lemmas `EraseConsistent` and `AppendConsistent` state
  it for arbitrary lists, so that resetTimer, a removal followed by an
  insertion, uses both.
- `ShortNeverEarly`: `Spec => []NeverEarly`, for every timer that was set to less
  than a turn, whatever its neighbours are set to. NeverEarly speaks only of
  the tick that fires; the invariant `ShortInv` carries the distance through all
  the others: rotation is 0, and the timer has at most as many ticks left as the
  wheel needs to reach its slot. "At most", because a timer that was jumped over
  is late. For a timer of a turn or more the statement is false: the iterator
  that is sent back to the first element may take two rotations from it in one
  tick, and it fires a turn early.
- `LoneOnTime`: `Spec => []LoneTimersOnTime`, for any timeout. `LoneInv` says that
  a timer outside `shared` is alone in its slot (`Alone`), and that rotation
  times the number of slots plus the distance is exactly the number of ticks
  left, plus a turn between the moment tick() takes a rotation away and the end
  of that tick (`Exact`).
- `TickProgress`: `Spec => []TickHasNext /\ [][TickFalls]_wheelVars`, what the
  termination of tick() rests on. The iterator alone is no measure, since an
  erase at the end of a list sends it back to the beginning; but then the list
  is shorter. Every step of the loop shortens the list, or moves the iterator
  towards the end of a list that stays as it is, and until the end is reached
  there is a step to take. What is left to TLC is that the thread is scheduled.

### Timer echo server (`TimerServerProofs`)

From `ServerAssumption` (the wheel's assumption, and the names of the listening
socket and the signal pipe are no client's); `NoEarlyTimeout` also from
`TimeoutAssumption`: the clients' timeout is less than a turn (150 of 600 slots).

The proof is compositional. `W == INSTANCE TimeWheelProofs` with clients for
timers; the lemmas `CallsAreSteps` and `ServerSteps` show that every step of the
server is a step of its wheel or leaves the wheel alone, so the wheel's
invariant `W!IInv` is kept by the wheel's own lemmas.

- `ServerCorrect`: `Spec => []ServerInv`. ServerInv needs `W!IInv` (the timer that
  tick() fires is armed, so its client is open) and `TickAfterBatch` (tick() runs
  only with an empty batch, so the Event it deletes is in no event to come).
- `NoEarlyTimeout`: every `TimeoutHandle(c)` step happens with no tick left. It
  follows from the wheel's `ShortInv` and from `AllShort`: the server never sets
  a timer to a turn or more. No run states it separately.
- `ServerUsesWheel`: `Spec => W!Spec`. The server is one of the users of the wheel
  that TimeWheel describes.
- `EventsAlwaysHandled`: `Spec => []Handled`. An action of the server that calls the
  wheel is guarded by what the wheel allows; a model in which such a guard
  blocks a handler that the code would run hides the fault. `Handled` says that
  no guard ever does: an event is only left while the wheel is idle, its client
  has a timer and, when it waits to be read, something to read, and who is about
  to be accepted has no timer. It needs `GoneAfterBatch` (the wheel is destroyed
  between batches) and `BatchReadable` (no handler takes from a socket what the
  event of another client reported).

### Sorted timer list (`LstTimerProofs`)

From `ListAssumption`: NULL is no timer, delays are natural numbers.

- `ListSorted`: `Spec => []ListInv`. `Chain` describes a list by the sequence of
  its elements, for pointers, ends and expiries that are parameters; `Shape` says
  that the objects that exist are a chain, and `DeadClear` that an object which
  does not exist has cleared pointers, which add_timer relies on because it does
  not clear them. Every operation takes an element out, puts one in, or does one
  after the other. `BypassKeeps` (from `Unlinked`) is the first for an element at
  any place, `Linked` the second; `InsertKeeps` combines `Linked` with what the loop
  of the private add_timer finds. That loop is a recursive function: `WalkExists`
  constructs the function on a chain, so that the definition means what it
  says, and `WalkStops` shows by descent from the tail where it stops.
- `ListIsQueue`: `Spec => ImplementsQueue`, step by step (`AddIsAdd` to
  `DestroyIsDestroy`). The step that needs the order is the end of tick(): it
  returns at the first timer that is not due, and `HeadFirst` says that then none
  is.

### Timer list server (`TimerListServerProofs`)

From `ServerAssumption` (TIMESLOT and MAX_UNREAD are positive) and
`DescriptorAssumption` (the listening socket and the pipe are no clients).

- `ListServerCorrect` (ServerInv) and `AlarmNeverLost` (OneAlarm), with
  `TickAfterBatch` and `NothingFires` (outside of tick() no timer is collected).
- `ServerUsesQueue`: `Spec => Queue!Spec`. With `ListIsQueue` of `LstTimerProofs` it
  closes the chain: the list implements TimerQueue, and the server relies on
  nothing else.
- `EventsAlwaysHandled`: `Spec => []Handled`, as for the wheel's server. A client's
  event finds a pending timer that is not moved to an earlier time (the guard
  of AdjustTimer) and a socket on which recv returns something; the listening
  socket's finds an empty queue or a connection without a timer. It needs `Waiting` (a client is in
  the accept queue once, and not accepted yet) and `BatchReportable`.

### Heartbeat (`HeartbeatProofs`)

From `HeartAssumption`: descriptors above the listening socket, a positive OFFLINE.

- `HeartTyped`, `ListenNeverLost` (ListenWatched), `CountNeverPasses` (CountBounded),
  `MainNeverBlocks` (RecvNeverBlocks). What makes them inductive is what each
  thread holds between a load and its store (`MainHolds`, `HeartHolds`): a word of
  master_set about to be written back contains the listening socket, a count
  about to be stored comes from below OFFLINE, a max_fd about to be lowered is
  above the listening socket. `RecvSafe` extends RecvNeverBlocks over the reset
  of a count, after which the main thread returns to its loop.

### Reactor (`ReactorProofs`)

From `ReactorAssumption` and `BufferAssumption`: the buffer's length is a multiple
of 256 (4096 in the source). Only EchoExact needs the latter: recv_cb writes a
zero behind a full buffer, into the low byte of `length`, which is harmless
because that byte is 0.

- `TableMirrorsEpoll` (RecordsInv), `BatchStaysCurrent` (BatchCurrent) and
  `EchoAlwaysExact` (EchoExact). The three together are inductive: a callback
  may rely on its record because its event is current, and the event is current
  because record and kernel agree. `SlotInjective` says that no two descriptors
  share a record, for any block size.
- `CallbacksReturn`: `Spec => []CallsReturn`. The listening socket is non-blocking
  (`reactor/server.c:164`), so an accept on a queue that has emptied returns
  (EAGAIN). The clients' sockets are blocking (the fcntl of accept_cb is commented
  out, `:148-152`) and the loop has one thread, so a recv without input would stop
  the server. It never happens, and accept is called for the listening socket only: `BatchReady` says that a socket whose input event is still to be
  handled stays readable, because only its own callback reads it, and a
  descriptor registered anew by another callback has no event in the batch;
  `AnswerWaits` that a record which waits to send has bytes to send. A client
  that does not read its answer can still stop send; the model leaves it out.

### Multi-threaded epoll server (`EpollThreadsProofs`)

From `ThreadsAssumption`: finitely many descriptors, fewer than the counts' range
(2^32 in the source) less one.

- `ThreadsTyped`, `CountAlwaysExact` (CountExact) and `OneOwner` (Owned). The
  invariant is stronger than Owned: `HomeOwns` says which thread owns a descriptor, the first worker or
  serverRun, which rests on the scan never leaving the first worker (`Places`);
  `EventsOwn` that a batch has one event per descriptor.

### Example programs (`ExampleProofs`)

The edge-triggered servers, from `EdgeAssumption`: the listening socket is no
client's descriptor.

- `EdgeEventsOpen` (EventsInv) and `EdgeNeverLost` (NoLostEdge), with `LoopOwner`
  (only server1 and server2 are ever inside a read loop).

The select, blocking and local servers and the clients, from `PortAssumption`:
descriptors above the listening socket and a queue of one or more.

- `EchoServerInv`: `EchoSpec => []ServerInv`. Tracked compares the server's
  vector with the descriptors of all clients. To be inductive it needs that a
  descriptor belongs to one client only (`FdOwner`), that the clients in the
  accept queue are there once and have no descriptor yet (`QueueNew`), and that
  the connection which a blocking server is serving is not in its vector
  already (`ServedNew`).
- `EchoReportTrue`: `EchoSpec => []ReportTrue`, from `Honest`: what a client can
  have printed at each of its places, and that the clients which do not block
  are never past the answer to connect. ReportTrue is about `client1.cpp`.

### Only model-checked

- Every liveness property, and anything under fairness: TickTerminates,
  EventuallyFires, InterruptStops, IdleClosed, TerminateStops, both QueueMoves,
  CountedClosed,
  Reactor's and EchoExamples' Answered, HungUpClosed, Drained, QueueServed,
  SelectServes, EndNoticed. The prover has no support for ENABLED. Of
  TickTerminates, the part without fairness is proved (`TickProgress`).
- The three properties of the violation runs, which are false.

## Not modelled

- Failures of malloc and new; objects leaked when accept fails in
  `timer/test.cpp`.
- What the write to `users[-1]` in `time_wheel/timer_list.cpp` destroys, if the
  process survives it, and the timer it adds, which is for descriptor -1: when it
  expires, epoll_ctl and close fail. And a corrupted std::map in `heartbeat/server.cpp`: calls on
  the map are atomic in the model, which is more than the code guarantees.
- EINTR of epoll_wait, after which the loops go around without effect, and, but for
  the reactor, the truncation of a batch at the size of the event array: what did
  not fit stays on the kernel's ready list.
- A wall clock that is set back: `adjust_timer` relies on expiry times that do
  not decrease, and `AdjustTimer` states it as its guard.
- What races on the fd_set words lose is modelled, and a connection that is
  missing from master_set or whose client left (recv at end of file reads an
  uninitialised head) may stay open; no property promises otherwise.
- Line 98 of `reactor/server.c` lacks a semicolon; the model takes it as present.
- Socket set-up before the loops, printing, payloads.
- In the examples: branches for EINTR (no program but the two timer servers
  installs a signal handler), results of write that the code ignores, lt() of
  `epoll_v1/server2.c`, which nothing calls, and the start of a worker before its
  mutex is initialised (`epoll_v2/server1.c:96`; nothing locks it before the
  first accept).
- The components marked so in the inventory: the datagram examples are a loop
  around one call each, `endian.c` and `hn_trans.c` print the bytes of one
  constant, `test/` holds language exercises. None keeps state between events or
  has a result another part uses.

## Plan

Done: 1 the wheel and its server, 2 the list, its abstract queue and its server,
3 the heartbeat threads, 4 the reactor, 5 the proofs about the wheel, 6 the
multi-threaded epoll server, 7 the edge-triggered servers, 8 the select,
blocking, local and non-blocking examples,
9 the proofs of the safety properties of the wheel's server, the list and its
refinement, the list server, the heartbeat threads, the reactor, the
multi-threaded server and the edge-triggered loops, 10 the proofs for the select,
blocking, local and non-blocking programs, 11 the proofs that the two timer
servers use their containers as these allow, that tick() makes progress, and
that no handler or callback is called in vain.
