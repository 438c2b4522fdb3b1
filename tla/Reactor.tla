------------------------------- MODULE Reactor -------------------------------
(***************************************************************************)
(* The echo server of src/reactor/server.c: a table of ntyevent records in *)
(* a growing chain of blocks, found by descriptor, and an epoll loop that  *)
(* calls the callback of each ready record.  recv_cb and send_cb take      *)
(* turns: a descriptor waits for input, then for room to send the answer.  *)
(*                                                                         *)
(* The record's status says whether its descriptor is in the epoll set and *)
(* decides between EPOLL_CTL_ADD and EPOLL_CTL_MOD; the kernel has its own *)
(* opinion (reg), and refuses to add twice or to modify what is not there. *)
(*                                                                         *)
(* The model takes line 98 with the semicolon it lacks.  malloc does not   *)
(* fail, and a client reads its answer: send on the clients' sockets,      *)
(* which block, returns; the listening socket does not block (164).  A     *)
(* send to a socket that was reset after its FIN raises SIGPIPE, which     *)
(* ends the process.                                                       *)
(***************************************************************************)
EXTENDS Integers, FiniteSets

CONSTANTS
    LISTEN_FD,         \* the listening socket
    Fd,                \* descriptors accept can return
    MAX_EPOLL_EVENTS,  \* records per block and events per batch, 1024 in the source
    BUFFER_LENGTH,     \* 4096 in the source
    Sizes,             \* numbers of bytes a client writes at once
    MAX_UNREAD,        \* bound on the bytes waiting in a socket
    MAX_WAITING        \* bound on the accept queue

ASSUME ReactorAssumption ==
    /\ LISTEN_FD \in Nat /\ Fd \subseteq Nat /\ LISTEN_FD \notin Fd
    /\ MAX_EPOLL_EVENTS \in Nat \ {0}
    /\ BUFFER_LENGTH \in Nat \ {0}
    /\ Sizes \subseteq Nat \ {0}
    /\ MAX_UNREAD \in Nat /\ MAX_WAITING \in Nat

(* The 0 that recv_cb writes behind a full buffer falls on the low byte of *)
(* length, which is 0 already because BUFFER_LENGTH is a multiple of 256.  *)
ASSUME BufferAssumption == BUFFER_LENGTH % 256 = 0

VARIABLES
    blkcnt,   \* reactor->blkcnt
    ev,       \* the ntyevent records, by block and position
    reg,      \* the kernel's epoll set: mask and data.ptr of each descriptor
    open,     \* accepted, not closed
    waiting,  \* connections in the accept queue
    unread,   \* bytes in the socket
    peer,     \* "up", "fin", "rst", or "pipe": reset after FIN
    owed,     \* auxiliary: bytes received and not sent back yet
    batch,    \* data.ptr and mask of the events still to be handled
    passed,   \* descriptors that were ready but did not fit into the batch
    alive     \* FALSE when the process was killed

sockVars == <<open, waiting, unread, peer, owed>>
vars == <<blkcnt, ev, reg, sockVars, batch, passed, alive>>

AllFds == Fd \cup {LISTEN_FD}

\* ntyreactor_idx: the record of a descriptor.
SlotOf(fd) == <<fd \div MAX_EPOLL_EVENTS, fd % MAX_EPOLL_EVENTS>>

\* Its loop over ntyreactor_alloc: blocks are added until the record exists.
Grown(fd) == IF fd \div MAX_EPOLL_EVENTS >= blkcnt
             THEN (fd \div MAX_EPOLL_EVENTS) + 1 ELSE blkcnt

Slot == {SlotOf(fd) : fd \in AllFds}

NoFd == -1
NONE == "none"

\* A record after memset(0); callback and mask 0 are NONE.
Zero == [fd |-> NoFd, callback |-> NONE, events |-> NONE, status |-> 0, length |-> 0]

Unregistered == [mask |-> NONE, ptr |-> NONE]

-----------------------------------------------------------------------------
(* nty_event_del, nty_event_set and nty_event_add on a record r and an     *)
(* entry k of the kernel's set                                             *)

\* Seeded fault: status is not cleared.
DelKeepsStatus(r) == r

Del(r) == IF r.status = 1 THEN [r EXCEPT !.status = 0] ELSE r

KernelDel(r, k) == IF r.status = 1 THEN Unregistered ELSE k

Set(r, fd, callback) ==
    [r EXCEPT !.fd = fd, !.callback = callback, !.events = NONE]

Add(r, mask) == [r EXCEPT !.events = mask, !.status = 1]

\* epoll_ctl with EPOLL_CTL_MOD or EPOLL_CTL_ADD, as status says.
KernelAdd(r, k, slot, mask) ==
    IF (r.status = 1) = (k = Unregistered) THEN k
    ELSE [mask |-> mask, ptr |-> slot]

\* main up to ntyreactor_run: the listening socket is in the table.
Init ==
    /\ blkcnt = (LISTEN_FD \div MAX_EPOLL_EVENTS) + 1
    /\ ev = [s \in Slot |->
               IF s = SlotOf(LISTEN_FD)
               THEN Add(Set(Zero, LISTEN_FD, "accept_cb"), "IN") ELSE Zero]
    /\ reg = [f \in AllFds |->
               IF f = LISTEN_FD
               THEN [mask |-> "IN", ptr |-> SlotOf(LISTEN_FD)] ELSE Unregistered]
    /\ open = {}
    /\ waiting = 0
    /\ unread = [f \in Fd |-> 0]
    /\ peer = [f \in Fd |-> "up"]
    /\ owed = [f \in Fd |-> 0]
    /\ batch = {} /\ passed = {}
    /\ alive = TRUE

-----------------------------------------------------------------------------
(* Clients                                                                 *)

Connect ==
    /\ alive /\ waiting < MAX_WAITING
    /\ waiting' = waiting + 1
    /\ UNCHANGED <<blkcnt, ev, reg, open, unread, peer, owed, batch, passed, alive>>

\* A waiting connection is reset: the kernel takes it out of the queue.
Abort ==
    /\ alive /\ waiting > 0
    /\ waiting' = waiting - 1
    /\ UNCHANGED <<blkcnt, ev, reg, open, unread, peer, owed, batch, passed, alive>>

Send(f, size) ==
    /\ f \in open /\ peer[f] = "up" /\ unread[f] + size <= MAX_UNREAD
    /\ unread' = [unread EXCEPT ![f] = @ + size]
    /\ UNCHANGED <<blkcnt, ev, reg, open, waiting, peer, owed, batch, passed, alive>>

HangUp(f) ==
    /\ f \in open
    /\ \/ peer[f] = "up" /\ peer' = [peer EXCEPT ![f] = "fin"]
       \/ peer[f] = "up" /\ peer' = [peer EXCEPT ![f] = "rst"]
       \/ peer[f] = "fin" /\ peer' = [peer EXCEPT ![f] = "pipe"]
    /\ UNCHANGED <<blkcnt, ev, reg, open, waiting, unread, owed, batch, passed, alive>>

Clients ==
    \/ Connect \/ Abort
    \/ \E f \in Fd : HangUp(f) \/ \E size \in Sizes : Send(f, size)

-----------------------------------------------------------------------------
(* ntyreactor_run                                                          *)

Readable(f) ==
    IF f = LISTEN_FD THEN waiting > 0 ELSE unread[f] > 0 \/ peer[f] # "up"

\* Level-triggered: a registered descriptor is reported as long as it is ready.
Reported ==
    {f \in AllFds : \/ reg[f].mask = "IN" /\ Readable(f)
                    \/ reg[f].mask = "OUT"}

(* epoll_wait returns MAX_EPOLL_EVENTS of them at most.  The kernel goes   *)
(* round: what did not fit comes first in the next call.                   *)
Batches ==
    IF Cardinality(Reported) <= MAX_EPOLL_EVENTS THEN {Reported}
    ELSE {S \in SUBSET Reported :
            /\ Cardinality(S) = MAX_EPOLL_EVENTS
            /\ passed \cap Reported \subseteq S \/ S \subseteq passed}

EpollWait ==
    /\ alive /\ batch = {} /\ Reported # {}
    /\ \E S \in Batches : batch' = {reg[f] : f \in S} /\ passed' = Reported \ S
    /\ UNCHANGED <<blkcnt, ev, reg, sockVars, alive>>

\* Seeded fault: an input event is kept and handled again, to drain the socket.
DispatchDrains(e, callback) ==
    /\ alive /\ e \in batch
    /\ batch' = IF callback = "recv_cb" THEN batch ELSE batch \ {e}
    /\ ev[e.ptr].events = e.mask
    /\ ev[e.ptr].callback = callback
    /\ UNCHANGED passed

\* The loop takes event e and calls the callback its record holds now.
Dispatch(e, callback) ==
    /\ alive /\ e \in batch
    /\ batch' = batch \ {e}
    /\ ev[e.ptr].events = e.mask
    /\ ev[e.ptr].callback = callback
    /\ UNCHANGED passed

\* nty_event_set and nty_event_add on record r of fd.
Register(fd, r, k, callback, mask) ==
    /\ blkcnt' = Grown(fd)
    /\ ev' = [ev EXCEPT ![SlotOf(fd)] = Add(Set(r, fd, callback), mask)]
    /\ reg' = [reg EXCEPT ![fd] = KernelAdd(r, k, SlotOf(fd), mask)]

\* accept returns the lowest free descriptor.
AcceptCb(e) ==
    /\ Dispatch(e, "accept_cb")
    /\ waiting > 0 /\ Fd \ open # {}
    /\ \E f \in Fd \ open :
          /\ \A g \in Fd \ open : f <= g
          /\ open' = open \cup {f}
          /\ unread' = [unread EXCEPT ![f] = 0]
          /\ peer' = [peer EXCEPT ![f] = "up"]
          /\ owed' = [owed EXCEPT ![f] = 0]
          /\ Register(f, ev[SlotOf(f)], reg[f], "recv_cb", "IN")
    /\ waiting' = waiting - 1
    /\ UNCHANGED alive

\* accept fails: no descriptor is left (EMFILE), or the queue has emptied (EAGAIN).
AcceptFails(e) ==
    /\ Dispatch(e, "accept_cb")
    /\ Fd \ open = {} \/ waiting = 0
    /\ UNCHANGED <<blkcnt, ev, reg, sockVars, alive>>

\* Seeded fault: len is not stored when the buffer is filled completely.
LengthTruncated(len) == IF len >= BUFFER_LENGTH THEN 0 ELSE len

(* ev->length = len, then buffer[len] = 0: behind a full buffer that byte  *)
(* is the low byte of length (little endian).                              *)
Length(len) == IF len >= BUFFER_LENGTH THEN len - (len % 256) ELSE len

\* What recv returns: at most one buffer.
Received(f) == IF unread[f] < BUFFER_LENGTH THEN unread[f] ELSE BUFFER_LENGTH

\* recv_cb with data: the record changes over to sending.
RecvData(e) ==
    /\ Dispatch(e, "recv_cb")
    /\ LET f == ev[e.ptr].fd
           s == SlotOf(f)
       IN  /\ unread[f] > 0
           /\ unread' = [unread EXCEPT ![f] = @ - Received(f)]
           /\ owed' = [owed EXCEPT ![f] = @ + Received(f)]
           /\ Register(f, [Del(ev[s]) EXCEPT !.length = Length(Received(f))],
                       KernelDel(ev[s], reg[f]), "send_cb", "OUT")
    /\ UNCHANGED <<open, waiting, peer, alive>>

\* close(fd) also takes it out of the kernel's set; the record stays.
Close(f) ==
    /\ open' = open \ {f}
    /\ reg' = [reg EXCEPT ![f] = Unregistered]
    /\ ev' = [ev EXCEPT ![SlotOf(f)] = Del(@)]
    /\ unread' = [unread EXCEPT ![f] = 0]
    /\ peer' = [peer EXCEPT ![f] = "up"]
    /\ owed' = [owed EXCEPT ![f] = 0]

\* recv_cb at end of file or on an error: nty_event_del, close.
RecvEnd(e) ==
    /\ Dispatch(e, "recv_cb")
    /\ unread[ev[e.ptr].fd] = 0
    /\ Close(ev[e.ptr].fd)
    /\ UNCHANGED <<blkcnt, waiting, alive>>

\* send_cb: the answer goes out, the record changes back to receiving.
SendCb(e) ==
    /\ Dispatch(e, "send_cb")
    /\ LET f == ev[e.ptr].fd
           s == SlotOf(f)
       IN  /\ peer[f] \in {"up", "fin"} /\ ev[s].length > 0
           /\ owed' = [owed EXCEPT ![f] = @ - ev[s].length]
           /\ Register(f, Del(ev[s]), KernelDel(ev[s], reg[f]), "recv_cb", "IN")
    /\ UNCHANGED <<open, waiting, unread, peer, alive>>

\* send_cb on a reset connection: close, nty_event_del.
SendFails(e) ==
    /\ Dispatch(e, "send_cb")
    /\ peer[ev[e.ptr].fd] = "rst"
    /\ Close(ev[e.ptr].fd)
    /\ UNCHANGED <<blkcnt, waiting, alive>>

\* send_cb on a connection reset after its FIN: SIGPIPE.
SigPipe(e) ==
    /\ Dispatch(e, "send_cb")
    /\ peer[ev[e.ptr].fd] = "pipe"
    /\ alive' = FALSE
    /\ UNCHANGED <<blkcnt, ev, reg, sockVars>>

Server ==
    \/ EpollWait
    \/ \E e \in batch :
          \/ AcceptCb(e) \/ AcceptFails(e) \/ RecvData(e) \/ RecvEnd(e)
          \/ SendCb(e) \/ SendFails(e) \/ SigPipe(e)

Killed == ~alive /\ UNCHANGED vars

Next == Clients \/ Server \/ Killed

(* The server's thread is scheduled again and again; nothing is asked of   *)
(* the clients.                                                            *)
Spec == Init /\ [][Next]_vars /\ WF_vars(Server)

-----------------------------------------------------------------------------
(* Properties                                                              *)

Record == [fd : AllFds \cup {NoFd}, callback : {NONE, "accept_cb", "recv_cb", "send_cb"},
           events : {NONE, "IN", "OUT"}, status : {0, 1}, length : Nat]

Entry == [mask : {"IN", "OUT"}, ptr : Slot] \cup {Unregistered}

\* The type of every variable of the reactor.
TypeOK ==
    /\ blkcnt \in Nat
    /\ ev \in [Slot -> Record]
    /\ reg \in [AllFds -> Entry]
    /\ open \in SUBSET Fd
    /\ waiting \in Nat
    /\ unread \in [Fd -> Nat]
    /\ peer \in [Fd -> {"up", "fin", "rst", "pipe"}]
    /\ owed \in [Fd -> Int]
    /\ batch \in SUBSET [mask : {"IN", "OUT"}, ptr : Slot]
    /\ passed \subseteq AllFds
    /\ alive \in BOOLEAN

(* The record of an open descriptor and the kernel agree: it is in the     *)
(* epoll set with the mask and the record that ev holds, and the callback  *)
(* fits the mask.                                                          *)
OpenRegistered ==
    \A f \in open :
        LET r == ev[SlotOf(f)]
        IN  /\ r.fd = f /\ r.status = 1
            /\ reg[f] = [mask |-> r.events, ptr |-> SlotOf(f)]
            /\ <<r.callback, r.events>> \in {<<"recv_cb", "IN">>, <<"send_cb", "OUT">>}

\* A closed descriptor leaves neither a status of 1 nor a registration behind.
ClosedUnregistered ==
    \A f \in Fd \ open : ev[SlotOf(f)].status = 0 /\ reg[f] = Unregistered

\* The listening socket stays registered with its callback.
ListenRegistered ==
    LET r == ev[SlotOf(LISTEN_FD)]
    IN  /\ r.fd = LISTEN_FD /\ r.status = 1
        /\ r.callback = "accept_cb" /\ r.events = "IN"
        /\ reg[LISTEN_FD] = [mask |-> "IN", ptr |-> SlotOf(LISTEN_FD)]

(* status mirrors the kernel's epoll set at all times, however descriptors *)
(* are closed and given out again: no epoll_ctl of the server ever fails,  *)
(* so no connection is left that epoll no longer watches.                  *)
StatusMirrorsEpoll == OpenRegistered /\ ClosedUnregistered /\ ListenRegistered

(* An event still to be handled belongs to a descriptor that is registered *)
(* as it was when epoll_wait returned: no handler of the batch invalidates *)
(* the event of another.                                                   *)
BatchCurrent == alive => batch \subseteq {reg[f] : f \in open \cup {LISTEN_FD}}

\* Every record in use lies in a block that was allocated.
BlocksCover == \A f \in open \cup {LISTEN_FD} : SlotOf(f)[1] < blkcnt

(* The records stand for the descriptors in every state: they lie in       *)
(* allocated blocks and agree with the kernel's epoll set.                 *)
RecordsInv == TypeOK /\ BlocksCover /\ StatusMirrorsEpoll

(* The server sends back exactly what it received: while it waits for room *)
(* to send, length is what it owes, also after a completely filled buffer, *)
(* and while it waits for input it owes nothing.                           *)
EchoExact ==
    \A f \in open :
        owed[f] = IF ev[SlotOf(f)].events = "OUT" THEN ev[SlotOf(f)].length ELSE 0

\* What a client sent is read, and what was read is answered, or the
\* connection (or the process) ends.
Answered ==
    \A f \in Fd :
        /\ unread[f] > 0 ~> (owed[f] > 0 \/ f \notin open \/ ~alive)
        /\ owed[f] > 0 ~> (owed[f] = 0 \/ ~alive)

=============================================================================
