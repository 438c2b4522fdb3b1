----------------------------- MODULE TimerServer -----------------------------
(***************************************************************************)
(* The echo server of src/timer/test.cpp: one thread, an epoll loop over   *)
(* the listening socket, the self pipe of the SIGINT handler and the       *)
(* client sockets, and a TimeWheel whose timers close idle clients.        *)
(*                                                                         *)
(* A client's Event object, its socket and its TimerNode are created       *)
(* together by acceptConn and named by one element of Client; a freed name *)
(* is used again, as the allocator and the kernel do.                      *)
(*                                                                         *)
(* The kernel is modelled by what the server sees of it: level-triggered   *)
(* epoll reports every descriptor that is ready when epoll_wait returns    *)
(* (MAX_EVENTS is taken to be large enough); read gives data, then end of  *)
(* file if a FIN came first, else the pending error once and end of file   *)
(* from then on; write on a socket whose error is consumed raises SIGPIPE, *)
(* which the server leaves at its default.  After a read that failed,      *)
(* writeData asks for (size_t)-1 bytes: the kernel refuses the buffer      *)
(* before it looks at the socket, without a signal.                        *)
(***************************************************************************)
EXTENDS Integers, Sequences

CONSTANTS
    Client,          \* names of Event objects, sockets and timers
    SLOTS_NUM, SI,   \* the wheel, see TimeWheel
    CLIENT_TIMEOUT   \* argument of addTimer and resetTimer, 15000 in the source

VARIABLES
    slots, cur_slot, time_slot, rotation, armed, phase, itr, left, shared, long,
    conn,      \* "none", "pending" (in the accept queue) or "open"
    data,      \* unread input in the socket
    peer,      \* "up", "fin" (end of file), "rst" (ECONNRESET pending),
               \* "pipe" (EPIPE pending: reset after FIN), "dead" (error read)
    stalled,   \* the peer does not drain: the socket is not writable
    buf_size,  \* Event::buf_size, the last result of read: 1 for any positive count, or -1
    interest,  \* Event::event.events, "IN" or "OUT"
    batch,     \* descriptors epoll_wait returned that are not handled yet
    sigint,    \* a SIGINT byte is in the self pipe
    running    \* the variable of main's loop

wheelVars == <<slots, cur_slot, time_slot, rotation, armed, phase, itr, left, shared, long>>
sockVars == <<conn, data, peer, stalled, buf_size, interest>>
vars == <<wheelVars, sockVars, batch, sigint, running>>

Wheel == INSTANCE TimeWheel WITH Timer <- Client, Timeouts <- {CLIENT_TIMEOUT}

Listen == "listen"
Signal == "signal"

\* The wheel can be built, and the descriptors have different names.
ASSUME ServerAssumption ==
    /\ SLOTS_NUM \in Nat /\ SLOTS_NUM >= 2
    /\ SI \in Nat \ {0} /\ CLIENT_TIMEOUT \in Int
    /\ Client \cap {Listen, Signal} = {}

(* The clients' timeout is less than a full turn of the wheel: 150 of 600  *)
(* slots in the source.                                                    *)
ASSUME TimeoutAssumption == CLIENT_TIMEOUT < SLOTS_NUM * SI

Init ==
    /\ Wheel!Init
    /\ conn = [c \in Client |-> "none"]
    /\ data = [c \in Client |-> FALSE]
    /\ peer = [c \in Client |-> "up"]
    /\ stalled = [c \in Client |-> FALSE]
    /\ buf_size = [c \in Client |-> 1]
    /\ interest = [c \in Client |-> "IN"]
    /\ batch = {}
    /\ sigint = FALSE
    /\ running = TRUE

-----------------------------------------------------------------------------
(* The clients, the network and the user at the terminal                   *)

Connect(c) ==
    /\ phase # "gone" /\ conn[c] = "none"
    /\ conn' = [conn EXCEPT ![c] = "pending"]
    /\ UNCHANGED <<wheelVars, data, peer, stalled, buf_size, interest, batch, sigint, running>>

\* The client gives up before it is accepted.
Abort(c) ==
    /\ conn[c] = "pending"
    /\ conn' = [conn EXCEPT ![c] = "none"]
    /\ UNCHANGED <<wheelVars, data, peer, stalled, buf_size, interest, batch, sigint, running>>

Send(c) ==
    /\ conn[c] = "open" /\ peer[c] = "up" /\ ~data[c]
    /\ data' = [data EXCEPT ![c] = TRUE]
    /\ UNCHANGED <<wheelVars, conn, peer, stalled, buf_size, interest, batch, sigint, running>>

(* A FIN or a reset arrives, or the reset that answers data sent after a   *)
(* FIN.  A reset also ends the wait for the client's receive window.       *)
HangUp(c) ==
    /\ conn[c] = "open"
    /\ \/ peer[c] = "up" /\ peer' = [peer EXCEPT ![c] = "fin"]
       \/ peer[c] = "up" /\ peer' = [peer EXCEPT ![c] = "rst"]
       \/ peer[c] = "fin" /\ peer' = [peer EXCEPT ![c] = "pipe"]
    /\ stalled' = [stalled EXCEPT ![c] = @ /\ peer'[c] = "fin"]
    /\ UNCHANGED <<wheelVars, conn, data, buf_size, interest, batch, sigint, running>>

\* The client stops draining its socket, or goes on.
ToggleStall(c) ==
    /\ conn[c] = "open" /\ peer[c] = "up"
    /\ stalled' = [stalled EXCEPT ![c] = ~@]
    /\ UNCHANGED <<wheelVars, conn, data, peer, buf_size, interest, batch, sigint, running>>

\* SIGINT: sig_handler writes a byte into the self pipe.
Interrupt ==
    /\ ~sigint /\ phase # "gone"
    /\ sigint' = TRUE
    /\ UNCHANGED <<wheelVars, sockVars, batch, running>>

Environment ==
    \/ \E c \in Client :
          Connect(c) \/ Abort(c) \/ Send(c) \/ ToggleStall(c) \/ HangUp(c)
    \/ Interrupt

-----------------------------------------------------------------------------
(* epoll_wait                                                              *)

Failed == {"rst", "pipe", "dead"}

Readable(c) == interest[c] = "IN" /\ (data[c] \/ peer[c] # "up")

\* A socket that was reset is writable: the error waits to be reported.
Writable(c) == interest[c] = "OUT" /\ ~stalled[c]

Ready ==
    {c \in Client : conn[c] = "open" /\ (Readable(c) \/ Writable(c))}
        \cup {Listen : c \in {d \in Client : conn[d] = "pending"}}
        \cup {Signal : b \in {TRUE} \cap {sigint}}

AtEpollWait == running /\ phase = "idle" /\ batch = {}

\* epoll_wait returned events.
EpollEvents ==
    /\ AtEpollWait
    /\ Ready # {}
    /\ batch' = Ready
    /\ UNCHANGED <<wheelVars, sockVars, sigint, running>>

\* epoll_wait timed out after getMinExpire() milliseconds: tick().
EpollTimeout ==
    /\ AtEpollWait
    /\ Ready = {}
    /\ Wheel!TickBegin
    /\ UNCHANGED <<sockVars, batch, sigint, running>>

-----------------------------------------------------------------------------
(* Handlers of the events in the batch, one at a time, in any order        *)

Handling(x) == phase = "idle" /\ x \in batch /\ batch' = batch \ {x}

\* Seeded fault: the byte is read and forgotten.
ReadSignalIgnored ==
    /\ Handling(Signal)
    /\ sigint' = FALSE
    /\ UNCHANGED <<wheelVars, sockVars, running>>

ReadSignal ==
    /\ Handling(Signal)
    /\ sigint' = FALSE
    /\ running' = FALSE
    /\ UNCHANGED <<wheelVars, sockVars>>

\* acceptConn, with a connection to accept.
AcceptConn(c) ==
    /\ Handling(Listen)
    /\ conn[c] = "pending"
    /\ Wheel!AddTimer(c, CLIENT_TIMEOUT)
    /\ conn' = [conn EXCEPT ![c] = "open"]
    /\ UNCHANGED <<data, peer, stalled, buf_size, interest, sigint, running>>

\* accept fails: the connection was aborted meanwhile.
AcceptFails ==
    /\ Handling(Listen)
    /\ \A c \in Client : conn[c] # "pending"
    /\ UNCHANGED <<wheelVars, sockVars, sigint, running>>

\* close of the sockets in C and delete of their Events.
Close(C) ==
    /\ conn' = [c \in Client |-> IF c \in C THEN "none" ELSE conn[c]]
    /\ data' = [c \in Client |-> c \notin C /\ data[c]]
    /\ peer' = [c \in Client |-> IF c \in C THEN "up" ELSE peer[c]]
    /\ stalled' = [c \in Client |-> c \notin C /\ stalled[c]]
    /\ buf_size' = [c \in Client |-> IF c \in C THEN 1 ELSE buf_size[c]]
    /\ interest' = [c \in Client |-> IF c \in C THEN "IN" ELSE interest[c]]

(* What a read that does not return 0 makes of socket and Event: it takes  *)
(* the data, or else the error.                                            *)
AfterRead(c) ==
    /\ data' = [data EXCEPT ![c] = FALSE]
    /\ peer' = [peer EXCEPT ![c] = IF ~data[c] /\ @ = "rst" THEN "dead" ELSE @]
    /\ buf_size' = [buf_size EXCEPT ![c] = IF data[c] THEN 1 ELSE -1]

\* read returns 0: the peer's FIN was received or its reset already reported.
EndOfFile(c) == ~data[c] /\ peer[c] \in {"fin", "pipe", "dead"}

\* readData when read returns a positive count or -1: answer next.
ReadData(c) ==
    /\ Handling(c)
    /\ interest[c] = "IN"
    /\ ~EndOfFile(c)
    /\ AfterRead(c)
    /\ interest' = [interest EXCEPT ![c] = "OUT"]
    /\ UNCHANGED <<wheelVars, conn, stalled, sigint, running>>

\* Seeded fault: the end of file closes the socket and frees the Event only.
ReadEOFKeepsTimer(c) ==
    /\ Handling(c)
    /\ interest[c] = "IN"
    /\ EndOfFile(c)
    /\ Close({c})
    /\ UNCHANGED <<wheelVars, sigint, running>>

\* readData when read returns 0: close, delTimer, delete the Event.
ReadEOF(c) ==
    /\ Handling(c)
    /\ interest[c] = "IN"
    /\ EndOfFile(c)
    /\ Wheel!DelTimer(c)
    /\ Close({c})
    /\ UNCHANGED <<sigint, running>>

\* The write of writeData would raise SIGPIPE.
Broken(c) == buf_size[c] = 1 /\ peer[c] \in {"pipe", "dead"}

(* writeData: the result of write is ignored, an error is consumed by it   *)
(* unless the length is that of a failed read.                             *)
WriteData(c) ==
    /\ Handling(c)
    /\ interest[c] = "OUT"
    /\ ~Broken(c)
    /\ peer' = [peer EXCEPT ![c] = IF buf_size[c] = 1 /\ @ = "rst" THEN "dead" ELSE @]
    /\ interest' = [interest EXCEPT ![c] = "IN"]
    /\ Wheel!ResetTimer(c, CLIENT_TIMEOUT)
    /\ UNCHANGED <<conn, data, stalled, buf_size, sigint, running>>

\* write raises SIGPIPE: the process ends and the kernel closes everything.
SigPipe(c) ==
    /\ phase = "idle" /\ c \in batch
    /\ interest[c] = "OUT"
    /\ Broken(c)
    /\ batch' = {}
    /\ running' = FALSE
    /\ Wheel!Destroy
    /\ Close(Client)
    /\ UNCHANGED sigint

-----------------------------------------------------------------------------
(* tick() of the wheel; an expired timer runs timeout_handle, which closes *)
(* the socket and deletes the Event                                        *)

\* Seeded fault: the timer is gone but its socket stays open.
TimeoutHandleKeeps(c) ==
    /\ Wheel!TickExpire(c)
    /\ UNCHANGED <<sockVars, batch, sigint, running>>

TimeoutHandle(c) ==
    /\ Wheel!TickExpire(c)
    /\ Close({c})
    /\ UNCHANGED <<batch, sigint, running>>

TickRest ==
    /\ Wheel!TickEnd \/ \E c \in Client : Wheel!TickSkip(c)
    /\ UNCHANGED <<sockVars, batch, sigint, running>>

\* The loop ends, the container is deleted and the process exits.
Shutdown ==
    /\ ~running /\ batch = {}
    /\ Wheel!Destroy
    /\ Close(Client)
    /\ UNCHANGED <<batch, sigint, running>>

Server ==
    \/ EpollEvents \/ EpollTimeout
    \/ ReadSignal \/ AcceptFails
    \/ \E c \in Client :
          \/ AcceptConn(c) \/ ReadData(c) \/ ReadEOF(c) \/ WriteData(c)
          \/ SigPipe(c) \/ TimeoutHandle(c)
    \/ TickRest
    \/ Shutdown

Gone == phase = "gone" /\ UNCHANGED vars

Next == Environment \/ Server \/ Gone

(* The server's thread is scheduled again and again; nothing is asked of   *)
(* the clients.                                                            *)
Spec == Init /\ [][Next]_vars /\ WF_vars(Server)

-----------------------------------------------------------------------------
(* Properties                                                              *)

\* The type of the server's variables (those of the wheel are in TimeWheel).
TypeOK ==
    /\ conn \in [Client -> {"none", "pending", "open"}]
    /\ data \in [Client -> BOOLEAN]
    /\ peer \in [Client -> {"up", "fin"} \cup Failed]
    /\ stalled \in [Client -> BOOLEAN]
    /\ buf_size \in [Client -> {-1, 1}]
    /\ interest \in [Client -> {"IN", "OUT"}]
    /\ batch \subseteq Client \cup {Listen, Signal}
    /\ sigint \in BOOLEAN /\ running \in BOOLEAN

(* Connections and timers live and die together: an open connection always *)
(* has its timer in the wheel, and no timer is left whose callback would   *)
(* be given a deleted Event (timeout_handle dereferences it).              *)
TimerPerConnection == armed = {c \in Client : conn[c] = "open"}

(* Every event of the batch still to be handled refers to a live Event:    *)
(* the handlers of a batch delete no Event but their own and tick() never  *)
(* runs between epoll_wait and the last handler of its batch.              *)
BatchLive == batch \cap Client \subseteq {c \in Client : conn[c] = "open"}

(* Every Event the server follows a pointer to exists: those of the timers *)
(* that tick() may fire and those of the events still to be handled.       *)
ServerInv == TypeOK /\ TimerPerConnection /\ BatchLive

\* SIGINT stops the server, whatever the clients do.
InterruptStops == sigint ~> phase = "gone"

(* A client that stays silent is closed, be it by its end of file or by    *)
(* its timer ("set the client's timeout to 15 seconds", test.cpp:175), as  *)
(* long as rounds without events go on: tick() only runs when epoll_wait   *)
(* times out, so a busy client can put the timeouts of all others off for  *)
(* ever.  An answer nobody reads, a peer that vanished and a reset socket  *)
(* leave no descriptor behind: after a read that failed, the answer of     *)
(* (size_t)-1 bytes goes nowhere and the next read returns 0.              *)
IdleClosed ==
    \A c \in Client :
        \/ <>[][~EpollTimeout]_vars
        \/ []<>(conn[c] # "open")
        \/ []<><<Send(c)>>_vars

=============================================================================
