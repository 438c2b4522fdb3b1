--------------------------- MODULE TimerListServer ---------------------------
(***************************************************************************)
(* The server of src/time_wheel/timer_list.cpp: one thread, an edge-       *)
(* triggered epoll loop over the listening socket, the signal pipe and the *)
(* clients, and a list of timers that closes idle clients.  SIGALRM only   *)
(* writes a byte into the pipe; the loop turns it into the flag timeout    *)
(* and runs tick() after the batch of events, then sets the next alarm.    *)
(*                                                                         *)
(* The list of timers is used through its specification, TimerQueue, which *)
(* LstTimer implements.  A client's descriptor, its users[] entry and its  *)
(* timer are created and destroyed together and named by one element of    *)
(* Client.  Time is counted in units of which TIMESLOT make the period of  *)
(* the alarm.                                                              *)
(*                                                                         *)
(* Edge-triggered epoll: a descriptor enters the ready list when something *)
(* arrives, epoll_wait hands out the ready descriptors that have something *)
(* to report and empties the list.                                         *)
(***************************************************************************)
EXTENDS Integers, Sequences

CONSTANTS
    Client,     \* descriptors accept can return
    TIMESLOT,   \* 5 seconds in the source
    MAX_UNREAD  \* bound on the input waiting in a socket, in buffers of recv

ASSUME ServerAssumption == TIMESLOT \in Nat \ {0} /\ MAX_UNREAD \in Nat \ {0}

VARIABLES
    pending, ttl, ticking, firing,  \* timer_lst, see TimerQueue
    conn,     \* "none", "backlog" (not accepted yet) or "open"
    unread,   \* input in the socket, in buffers of recv
    peer,     \* "up", "fin" or "rst"
    backlog,  \* the accept queue
    ready,    \* epoll's ready list
    batch,    \* descriptors epoll_wait returned that are not handled yet
    alarm,    \* time until SIGALRM, 0 if no alarm is set
    pipe,     \* signals whose byte is in the pipe
    timeout,  \* the flag of main
    stop      \* stop_server; "out" when main has returned

queueVars == <<pending, ttl, ticking, firing>>
sockVars == <<conn, unread, peer, backlog>>
vars == <<queueVars, sockVars, ready, batch, alarm, pipe, timeout, stop>>

EXPIRE == 3 * TIMESLOT

Queue == INSTANCE TimerQueue WITH Timer <- Client, Delays <- {EXPIRE}

Listen == "listen"
Pipe == "pipe"
ALRM == "SIGALRM"
TERM == "SIGTERM"

\* accept returns neither the listening socket nor the signal pipe.
ASSUME DescriptorAssumption == Client \cap {Listen, Pipe} = {}

Init ==
    /\ Queue!Init
    /\ conn = [c \in Client |-> "none"]
    /\ unread = [c \in Client |-> 0]
    /\ peer = [c \in Client |-> "up"]
    /\ backlog = <<>>
    /\ ready = {}
    /\ batch = {}
    /\ alarm = TIMESLOT
    /\ pipe = [s \in {ALRM, TERM} |-> 0]
    /\ timeout = FALSE
    /\ stop = "no"

Running == stop # "out"

-----------------------------------------------------------------------------
(* The clients, the network, the user and the clock                        *)

Connect(c) ==
    /\ Running /\ conn[c] = "none"
    /\ conn' = [conn EXCEPT ![c] = "backlog"]
    /\ backlog' = Append(backlog, c)
    /\ ready' = ready \cup {Listen}
    /\ UNCHANGED <<queueVars, unread, peer, batch, alarm, pipe, timeout, stop>>

\* A sequence without its i-th element.
Without(s, i) == [j \in 1 .. Len(s) - 1 |-> IF j < i THEN s[j] ELSE s[j + 1]]

(* The client resets a connection that waits to be accepted and the kernel *)
(* takes it out of the queue (the scenario of IO模型.md:29-39); an edge it *)
(* caused stays.  Where the kernel keeps it queued, HangUp is what         *)
(* happens.                                                                *)
Abort(c) ==
    /\ conn[c] = "backlog"
    /\ conn' = [conn EXCEPT ![c] = "none"]
    /\ \E i \in DOMAIN backlog : backlog[i] = c /\ backlog' = Without(backlog, i)
    /\ unread' = [unread EXCEPT ![c] = 0]
    /\ peer' = [peer EXCEPT ![c] = "up"]
    /\ UNCHANGED <<queueVars, ready, batch, alarm, pipe, timeout, stop>>

\* Something arrives on the connection of c: an edge, once c is in epoll.
Edge(c) == ready' = IF conn[c] = "open" THEN ready \cup {c} ELSE ready

Send(c) ==
    /\ conn[c] # "none" /\ peer[c] = "up" /\ unread[c] < MAX_UNREAD
    /\ unread' = [unread EXCEPT ![c] = @ + 1]
    /\ Edge(c)
    /\ UNCHANGED <<queueVars, conn, peer, backlog, batch, alarm, pipe, timeout, stop>>

HangUp(c, how) ==
    /\ conn[c] # "none" /\ peer[c] = "up"
    /\ peer' = [peer EXCEPT ![c] = how]
    /\ Edge(c)
    /\ UNCHANGED <<queueVars, conn, unread, backlog, batch, alarm, pipe, timeout, stop>>

\* sig_handler writes the byte of signal s.
Deliver(s) == pipe' = [pipe EXCEPT ![s] = @ + 1] /\ ready' = ready \cup {Pipe}

\* SIGTERM; one byte at a time is enough.
Terminate ==
    /\ Running /\ pipe[TERM] = 0
    /\ Deliver(TERM)
    /\ UNCHANGED <<queueVars, sockVars, batch, alarm, timeout, stop>>

\* A unit of time passes; the alarm goes off when its time is over.
Clock ==
    /\ Running
    /\ Queue!Elapse
    /\ alarm' = IF alarm = 0 THEN 0 ELSE alarm - 1
    /\ IF alarm = 1 THEN Deliver(ALRM) ELSE UNCHANGED <<pipe, ready>>
    /\ UNCHANGED <<sockVars, batch, timeout, stop>>

Environment ==
    \/ \E c \in Client :
          Connect(c) \/ Abort(c) \/ Send(c) \/ \E how \in {"fin", "rst"} : HangUp(c, how)
    \/ Terminate

-----------------------------------------------------------------------------
(* The event loop                                                          *)

\* What epoll finds when it polls descriptor x.
Reportable(x) ==
    CASE x = Listen -> backlog # <<>>
      [] x = Pipe   -> \E s \in DOMAIN pipe : pipe[s] > 0
      [] OTHER      -> conn[x] = "open" /\ (unread[x] > 0 \/ peer[x] # "up")

\* addfd asks for EPOLLET: what was reported leaves the ready list.
EpollWait ==
    /\ stop = "no" /\ batch = {} /\ ~timeout
    /\ batch' = {x \in ready : Reportable(x)}
    /\ batch' # {}
    /\ ready' = {}
    /\ UNCHANGED <<queueVars, sockVars, alarm, pipe, timeout, stop>>

Handling(x) == x \in batch /\ batch' = batch \ {x}

\* One connection is accepted per event of the listening socket.  addfd makes
\* it ready at once if something arrived before.
AcceptConn(c) ==
    /\ Handling(Listen)
    /\ backlog # <<>> /\ c = Head(backlog)
    /\ backlog' = Tail(backlog)
    /\ conn' = [conn EXCEPT ![c] = "open"]
    /\ ready' = IF unread[c] > 0 \/ peer[c] # "up" THEN ready \cup {c} ELSE ready
    /\ Queue!Add(c, EXPIRE)
    /\ UNCHANGED <<unread, peer, alarm, pipe, timeout, stop>>

(* The process ends with its sockets and its list: main returned or a      *)
(* memory error killed it.                                                 *)
Ends ==
    /\ stop' = "out"
    /\ Queue!Destroy
    /\ conn' = [c \in Client |-> "none"]
    /\ unread' = [c \in Client |-> 0]
    /\ peer' = [c \in Client |-> "up"]
    /\ backlog' = <<>>
    /\ ready' = {}

(* The queue is empty again: accept returns -1 (addfd made the socket non- *)
(* blocking), which the code does not look at.  It writes to users[-1], in *)
(* front of the array, and may die of it; if it goes on, the timer it adds *)
(* belongs to no descriptor and closes none.                               *)
AcceptFails ==
    /\ Handling(Listen)
    /\ backlog = <<>>
    /\ UNCHANGED <<queueVars, sockVars, ready, alarm, pipe, timeout, stop>>

AcceptDies ==
    /\ Listen \in batch /\ batch' = {}
    /\ backlog = <<>>
    /\ Ends
    /\ timeout' = FALSE
    /\ UNCHANGED <<alarm, pipe>>

\* Seeded fault: the loop over the events is left after the signals.
ReadPipeLeaves ==
    /\ Pipe \in batch /\ batch' = {}
    /\ pipe' = [s \in DOMAIN pipe |-> 0]
    /\ timeout' = (timeout \/ pipe[ALRM] > 0)
    /\ stop' = IF pipe[TERM] > 0 THEN "yes" ELSE stop
    /\ UNCHANGED <<queueVars, sockVars, ready, alarm>>

\* Seeded fault: the loop over the bytes ends with a SIGALRM.
ReadPipeOneSignal ==
    /\ Handling(Pipe)
    /\ pipe' = [s \in DOMAIN pipe |-> 0]
    /\ timeout' = (timeout \/ pipe[ALRM] > 0)
    /\ stop' = IF pipe[TERM] > 0 /\ pipe[ALRM] = 0 THEN "yes" ELSE stop
    /\ UNCHANGED <<queueVars, sockVars, ready, alarm>>

\* All bytes are read; each signal sets its flag.
ReadPipe ==
    /\ Handling(Pipe)
    /\ pipe' = [s \in DOMAIN pipe |-> 0]
    /\ timeout' = (timeout \/ pipe[ALRM] > 0)
    /\ stop' = IF pipe[TERM] > 0 THEN "yes" ELSE stop
    /\ UNCHANGED <<queueVars, sockVars, ready, alarm>>

\* recv returned data, at most one buffer of it: the timer is put off.
ReadData(c) ==
    /\ Handling(c)
    /\ unread[c] > 0
    /\ unread' = [unread EXCEPT ![c] = @ - 1]
    /\ Queue!Adjust(c, EXPIRE)
    /\ UNCHANGED <<conn, peer, backlog, ready, alarm, pipe, timeout, stop>>

\* cb_func: close the socket, which also takes it out of epoll.
Close(c) ==
    /\ conn' = [conn EXCEPT ![c] = "none"]
    /\ unread' = [unread EXCEPT ![c] = 0]
    /\ peer' = [peer EXCEPT ![c] = "up"]
    /\ ready' = ready \ {c}
    /\ UNCHANGED backlog

\* Seeded fault: the socket is closed but its timer stays in the list.
ReadEndKeepsTimer(c) ==
    /\ Handling(c)
    /\ unread[c] = 0 /\ peer[c] # "up"
    /\ Close(c)
    /\ UNCHANGED <<queueVars, alarm, pipe, timeout, stop>>

\* recv returned 0 or an error: cb_func, then del_timer.
ReadEnd(c) ==
    /\ Handling(c)
    /\ unread[c] = 0 /\ peer[c] # "up"
    /\ Close(c)
    /\ Queue!Del(c)
    /\ UNCHANGED <<alarm, pipe, timeout, stop>>

\* timer_handler, after the last event of the batch.
TickBegin ==
    /\ timeout /\ batch = {}
    /\ Queue!TickBegin
    /\ UNCHANGED <<sockVars, ready, batch, alarm, pipe, timeout, stop>>

TickFire(c) ==
    /\ Queue!Fire(c)
    /\ Close(c)
    /\ UNCHANGED <<batch, alarm, pipe, timeout, stop>>

\* Seeded fault: the next alarm is not set.
TickEndNoAlarm ==
    /\ Queue!TickEnd
    /\ timeout' = FALSE
    /\ UNCHANGED <<sockVars, ready, batch, alarm, pipe, stop>>

TickEnd ==
    /\ Queue!TickEnd
    /\ alarm' = TIMESLOT
    /\ timeout' = FALSE
    /\ UNCHANGED <<sockVars, ready, batch, pipe, stop>>

\* The loop ends and main returns.
Exit ==
    /\ stop = "yes" /\ batch = {} /\ ~timeout
    /\ Ends
    /\ UNCHANGED <<batch, alarm, pipe, timeout>>

Server ==
    \/ EpollWait \/ ReadPipe \/ AcceptFails \/ AcceptDies
    \/ \E c \in Client : AcceptConn(c) \/ ReadData(c) \/ ReadEnd(c) \/ TickFire(c)
    \/ TickBegin \/ TickEnd
    \/ Exit

Out == stop = "out" /\ UNCHANGED vars

Next == Environment \/ Clock \/ Server \/ Out

(* The server's thread is scheduled again and again and time passes;       *)
(* nothing is asked of the clients.                                        *)
Spec == Init /\ [][Next]_vars /\ WF_vars(Server) /\ WF_vars(Clock)

-----------------------------------------------------------------------------
(* Properties                                                              *)

\* The type of every variable of the server.
TypeOK ==
    /\ pending \in SUBSET Client
    /\ ttl \in [Client -> 0 .. EXPIRE]
    /\ ticking \in BOOLEAN
    /\ firing \in SUBSET pending
    /\ conn \in [Client -> {"none", "backlog", "open"}]
    /\ unread \in [Client -> 0 .. MAX_UNREAD]
    /\ peer \in [Client -> {"up", "fin", "rst"}]
    /\ backlog \in Seq(Client)
    /\ ready \in SUBSET (Client \cup {Listen, Pipe})
    /\ batch \in SUBSET (Client \cup {Listen, Pipe})
    /\ alarm \in 0 .. TIMESLOT
    /\ pipe \in [{ALRM, TERM} -> Nat]
    /\ timeout \in BOOLEAN
    /\ stop \in {"no", "yes", "out"}

(* Descriptors and timers live and die together: users[fd].timer of an     *)
(* open descriptor is never a deleted timer when recv's branches use it,   *)
(* and no timer is left that would close a descriptor given out again.     *)
TimerPerConnection == pending = {c \in Client : conn[c] = "open"}

(* No event of the batch is about a descriptor that tick() closed, because *)
(* tick() is put off to the end of the batch.                              *)
BatchOpen == batch \cap Client \subseteq {c \in Client : conn[c] = "open"}

(* Every descriptor the server acts on is open and has its timer: those of *)
(* the timers in the list and those of the events still to be handled.     *)
ServerInv == TypeOK /\ TimerPerConnection /\ BatchOpen

\* A truth value as a number.
One(b) == IF b THEN 1 ELSE 0

(* As long as the server runs the alarm is in exactly one place: counting  *)
(* down, as a byte in the pipe, or as the flag timeout.  It is never lost, *)
(* also when SIGTERM is read together with it, and never doubled.          *)
OneAlarm ==
    stop = "no" => One(alarm > 0) + pipe[ALRM] + One(timeout) = 1

(* A client that stays silent is closed, however busy the others keep the  *)
(* server, and although the edge-triggered recv may leave its end of file  *)
(* unread: the timer is only put off when "the client has data"            *)
(* (timer_list.cpp:214).                                                   *)
IdleClosed ==
    \A c \in Client : []<>(conn[c] # "open") \/ []<><<ReadData(c)>>_vars

\* SIGTERM ends the server.
TerminateStops == pipe[TERM] > 0 ~> stop = "out"

(* A connection that came in together with another one is left in the      *)
(* accept queue, because accept is called once for an edge of the          *)
(* listening socket (timer_list.cpp:131-135), but it does not starve: it   *)
(* leaves the queue as long as clients go on to connect, although they may *)
(* give up before they are accepted and although every batch may end with  *)
(* signals and with tick().                                                *)
QueueMoves ==
    \A c \in Client :
        []<>(conn[c] # "backlog") \/ <>[][\A d \in Client : ~Connect(d)]_vars

=============================================================================
