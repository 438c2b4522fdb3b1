----------------------------- MODULE EpollEdge -----------------------------
(***************************************************************************)
(* The single-threaded epoll servers of src/epoll_v1: server1.c, server2.c *)
(* (with et(), the workflow its main calls) and singleThread.c.  prog says *)
(* which one runs.  All three register their clients edge-triggered and    *)
(* non-blocking; they differ in the listening socket, in how often they    *)
(* read for an event, and in what they do at end of file and on errors.    *)
(* The listening socket of singleThread blocks, the others do not.         *)
(*                                                                         *)
(* Input is counted in read buffers.  What write returns is ignored by the *)
(* code, so an answer has no effect on the server, except that a write to  *)
(* a connection that was reset ends the process with SIGPIPE.  A reset     *)
(* connection fails one call with ECONNRESET and is at end of file then.   *)
(***************************************************************************)
EXTENDS Integers

CONSTANTS
    LISTEN_FD,     \* the listening socket
    Fd,            \* descriptors accept can return
    MAX_UNREAD,    \* bound on the buffers a socket holds
    MAX_WAITING    \* bound on the accept queue

ASSUME EdgeAssumption ==
    /\ Fd \subseteq Nat /\ LISTEN_FD \in Nat \ Fd
    /\ MAX_UNREAD \in Nat \ {0} /\ MAX_WAITING \in Nat

VARIABLES
    prog,     \* the program that runs
    waiting,  \* connections in the accept queue
    open,     \* accepted, not closed; exactly these are in the epoll set
    unread,   \* buffers in the socket
    peer,     \* "up", "fin", "rst", or "pipe": reset, the error was reported
    ready,    \* epoll's ready list: descriptors with a new edge
    batch,    \* events still to be handled
    cur,      \* descriptor of the inner read loop, or of an accept that blocks
    alive     \* FALSE when the process has ended

connVars == <<unread, peer>>
vars == <<prog, waiting, open, connVars, ready, batch, cur, alive>>

Programs == {"server1", "server2", "singleThread"}
NoFd == -1

Init ==
    /\ prog \in Programs
    /\ waiting = 0 /\ open = {} /\ ready = {} /\ batch = {}
    /\ unread = [f \in Fd |-> 0] /\ peer = [f \in Fd |-> "up"]
    /\ cur = NoFd /\ alive = TRUE

-----------------------------------------------------------------------------
(* Clients                                                                 *)

Connect ==
    /\ alive /\ waiting < MAX_WAITING
    /\ waiting' = waiting + 1 /\ ready' = ready \cup {LISTEN_FD}
    /\ UNCHANGED <<prog, open, connVars, batch, cur, alive>>

\* The accept queue is full: the kernel drops the attempt, without an event.
ConnectDropped == alive /\ waiting = MAX_WAITING /\ UNCHANGED vars

(* A waiting connection is reset: the kernel takes it out of the queue,    *)
(* also when it was reported already (IO模型.md:34-37).                    *)
AbortWaiting ==
    /\ alive /\ waiting > 0
    /\ waiting' = waiting - 1
    /\ UNCHANGED <<prog, open, connVars, ready, batch, cur, alive>>

Send(f) ==
    /\ f \in open /\ peer[f] = "up" /\ unread[f] < MAX_UNREAD
    /\ unread' = [unread EXCEPT ![f] = @ + 1]
    /\ ready' = ready \cup {f}
    /\ UNCHANGED <<prog, waiting, open, peer, batch, cur, alive>>

HangUp(f) ==
    /\ f \in open
    /\ \/ peer[f] = "up" /\ peer' = [peer EXCEPT ![f] = "fin"]
       \/ peer[f] = "up" /\ peer' = [peer EXCEPT ![f] = "rst"]
       \/ peer[f] = "fin" /\ peer' = [peer EXCEPT ![f] = "pipe"]
    /\ ready' = ready \cup {f}
    /\ UNCHANGED <<prog, waiting, open, unread, batch, cur, alive>>

Clients ==
    \/ Connect \/ ConnectDropped \/ AbortWaiting
    \/ \E f \in Fd : Send(f) \/ HangUp(f)

-----------------------------------------------------------------------------
(* epoll_wait and accept                                                   *)

Readable(f) == IF f = LISTEN_FD THEN waiting > 0 ELSE unread[f] > 0 \/ peer[f] # "up"

\* Seeded fault: every descriptor is added with EPOLLET.
EdgeTriggeredAll(f) == TRUE

\* The masks of EPOLL_CTL_ADD: only server2 has EPOLLET on the listening socket.
EdgeTriggered(f) == f # LISTEN_FD \/ prog = "server2"

Reported == {f \in open \cup {LISTEN_FD} : Readable(f) /\ (EdgeTriggered(f) => f \in ready)}

EpollWait ==
    /\ alive /\ batch = {} /\ cur = NoFd /\ Reported # {}
    /\ batch' = Reported /\ ready' = {}
    /\ UNCHANGED <<prog, waiting, open, connVars, cur, alive>>

\* The next event of the batch.
Take(f) == alive /\ cur = NoFd /\ f \in batch

(* The client may have sent something, or left, before accept; adding a    *)
(* readable descriptor to the set is an edge.                              *)
AcceptConn ==
    /\ alive /\ waiting > 0
    /\ cur = LISTEN_FD \/ Take(LISTEN_FD)
    /\ \E f \in Fd \ open, n \in {0, 1}, p \in {"up", "fin"} :
          /\ \A g \in Fd \ open : f <= g
          /\ open' = open \cup {f}
          /\ unread' = [unread EXCEPT ![f] = n]
          /\ peer' = [peer EXCEPT ![f] = p]
          /\ ready' = IF n = 0 /\ p = "up" THEN ready ELSE ready \cup {f}
    /\ batch' = batch \ {LISTEN_FD} /\ cur' = NoFd /\ waiting' = waiting - 1
    /\ UNCHANGED <<prog, alive>>

(* The queue has become empty: singleThread's accept waits for the next    *)
(* connection, with the rest of the batch behind it.                       *)
AcceptBlocks ==
    /\ prog = "singleThread" /\ Take(LISTEN_FD) /\ waiting = 0 /\ Fd \ open # {}
    /\ batch' = batch \ {LISTEN_FD} /\ cur' = LISTEN_FD
    /\ UNCHANGED <<prog, waiting, open, connVars, ready, alive>>

(* accept returns -1: no descriptor is free, or EAGAIN.  singleThread      *)
(* exits; the others pass -1 on to fcntl and epoll_ctl, which fail.        *)
AcceptFails ==
    /\ Take(LISTEN_FD)
    /\ Fd \subseteq open \/ (waiting = 0 /\ prog # "singleThread")
    /\ batch' = batch \ {LISTEN_FD}
    /\ alive' = (prog # "singleThread")
    /\ UNCHANGED <<prog, waiting, open, connVars, ready, cur>>

-----------------------------------------------------------------------------
(* What read returns for descriptor f, and what it leaves behind           *)

HasData(f) == unread[f] > 0
AtError(f) == unread[f] = 0 /\ peer[f] = "rst"
AtEnd(f) == unread[f] = 0 /\ peer[f] \in {"fin", "pipe"}

\* One buffer is read and, but for server2, written back.
ReadAndEcho(f) ==
    /\ HasData(f)
    /\ unread' = [unread EXCEPT ![f] = @ - 1]
    /\ peer' = [peer EXCEPT ![f] = IF @ = "rst" /\ prog # "server2" THEN "pipe" ELSE @]
    /\ alive' = ~(peer[f] = "pipe" /\ prog # "server2")
    /\ UNCHANGED <<prog, waiting, open, ready>>

\* A failed read of a reset connection that the code does not act on.
ReadReset(f) ==
    /\ AtError(f)
    /\ peer' = [peer EXCEPT ![f] = "pipe"]
    /\ UNCHANGED <<prog, waiting, open, unread, ready, alive>>

\* close takes the descriptor out of the epoll set.
Close(f) ==
    /\ open' = open \ {f} /\ ready' = ready \ {f}
    /\ unread' = [unread EXCEPT ![f] = 0]
    /\ peer' = [peer EXCEPT ![f] = "up"]
    /\ UNCHANGED <<prog, waiting, alive>>

-----------------------------------------------------------------------------
(* server1 and server2: read until EAGAIN                                  *)

Loops == prog \in {"server1", "server2"}

BeginLoop(f) ==
    /\ Loops /\ Take(f) /\ f # LISTEN_FD
    /\ cur' = f /\ batch' = batch \ {f}
    /\ UNCHANGED <<prog, waiting, open, connVars, ready, alive>>

InLoop(f) == alive /\ cur = f /\ f \in open

\* Seeded fault: one buffer per event, as level triggering would allow.
AfterDataOnce(f) == NoFd

\* The loop goes on after a buffer.
AfterData(f) == f

LoopData(f) == InLoop(f) /\ ReadAndEcho(f) /\ cur' = AfterData(f) /\ UNCHANGED batch

\* EAGAIN.
LoopAgain(f) ==
    /\ InLoop(f) /\ ~Readable(f)
    /\ cur' = NoFd
    /\ UNCHANGED <<prog, waiting, open, connVars, ready, batch, alive>>

\* Seeded fault: no break behind close in server1 either.
AfterEndStays(f) == f

AfterEnd(f) == IF prog = "server1" THEN NoFd ELSE f

\* End of file: server1 leaves the loop, server2 goes on with the closed descriptor.
LoopEnd(f) ==
    /\ InLoop(f) /\ AtEnd(f) /\ Close(f)
    /\ cur' = AfterEnd(f) /\ UNCHANGED batch

\* ECONNRESET: server1 reads on, server2 closes and leaves the loop.
LoopError(f) ==
    /\ InLoop(f) /\ AtError(f)
    /\ \/ prog = "server1" /\ ReadReset(f) /\ UNCHANGED cur
       \/ prog = "server2" /\ Close(f) /\ cur' = NoFd
    /\ UNCHANGED batch

\* Seeded fault: an error other than EAGAIN does not leave the loop.
LoopClosedOn(f) == alive /\ cur = f /\ f \notin open /\ UNCHANGED vars

\* server2 after end of file: recv and the second close fail with EBADF.
LoopClosed(f) ==
    /\ alive /\ cur = f /\ f \notin open
    /\ cur' = NoFd
    /\ UNCHANGED <<prog, waiting, open, connVars, ready, batch, alive>>

-----------------------------------------------------------------------------
(* singleThread: one read per event; end of file leaves the loop over the  *)
(* batch.  read cannot fail with EAGAIN after an event, the socket has one *)
(* reader.                                                                 *)

ReadOnce(f) ==
    /\ prog = "singleThread" /\ Take(f) /\ f # LISTEN_FD
    /\ \/ ReadAndEcho(f) /\ batch' = batch \ {f}
       \/ ReadReset(f) /\ batch' = batch \ {f}
       \/ AtEnd(f) /\ Close(f) /\ batch' = {}
    /\ UNCHANGED cur

Server ==
    \/ EpollWait \/ AcceptConn \/ AcceptBlocks \/ AcceptFails
    \/ \E f \in Fd :
          \/ BeginLoop(f) \/ LoopData(f) \/ LoopAgain(f) \/ LoopEnd(f)
          \/ LoopError(f) \/ LoopClosed(f) \/ ReadOnce(f)

Ended == ~alive /\ UNCHANGED vars

Next == Clients \/ Server \/ Ended

\* The only thread is scheduled again and again.
Spec == Init /\ [][Next]_vars /\ WF_vars(Server)

-----------------------------------------------------------------------------
(* Properties                                                              *)

\* The type of every variable; no socket is read below its input.
TypeOK ==
    /\ prog \in Programs
    /\ waiting \in 0 .. MAX_WAITING /\ open \subseteq Fd
    /\ unread \in [Fd -> 0 .. MAX_UNREAD]
    /\ peer \in [Fd -> {"up", "fin", "rst", "pipe"}]
    /\ ready \subseteq open \cup {LISTEN_FD}
    /\ batch \subseteq Fd \cup {LISTEN_FD}
    /\ cur \in Fd \cup {LISTEN_FD, NoFd} /\ alive \in BOOLEAN

(* server1 and server2 never forget a client: one that has input or has    *)
(* left is on the ready list, in the batch, or the one being read.  An     *)
(* edge is reported once, so a client outside of these is never looked at  *)
(* again unless it sends more.                                             *)
NoLostEdge ==
    alive /\ Loops =>
        \A f \in open : Readable(f) => f \in ready \cup batch \cup {cur}

(* No event is handled for a descriptor that was closed, or closed and     *)
(* given out again, since epoll_wait returned; the loop of server2 that    *)
(* goes on after close never reads from another client.                    *)
BatchOpen ==
    /\ batch \subseteq open \cup {LISTEN_FD}
    /\ cur \notin batch
    /\ cur \in Fd \ open => prog = "server2" /\ cur \notin ready

(* What the loops act on exists: types, and events of open descriptors.    *)
EventsInv == TypeOK /\ BatchOpen

(* The one way in which a client keeps server1 and server2 from all the    *)
(* others: it sends as fast as it is read, and the loop never meets EAGAIN *)
(* (server1.c:82, server2.c:100).                                          *)
HeldBy(g) == <>[](cur = g) /\ []<><<Send(g)>>_vars

(* server1 and server2: what a client sends is read to the end, and a      *)
(* client that left is closed, however read fails and whatever the others  *)
(* do, unless one of them holds the loop by sending for ever.              *)
Drained ==
    \A f \in Fd :
        []<>~(Loops /\ alive /\ f \in open /\ Readable(f)) \/ \E g \in Fd : HeldBy(g)

(* The accept queue moves as long as there are descriptors and no client   *)
(* holds a loop: always, with the level-triggered listening sockets of     *)
(* server1 and singleThread, and once for every new edge with that of      *)
(* server2.                                                                *)
QueueServed ==
    \/ \A n \in 1 .. MAX_WAITING :
          (waiting = n /\ (prog = "server2" => LISTEN_FD \in ready))
              ~> (waiting # n \/ Fd \subseteq open \/ ~alive)
    \/ \E g \in Fd : HeldBy(g)

=============================================================================
