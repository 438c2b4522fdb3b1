---------------------------- MODULE EpollThreads ----------------------------
(***************************************************************************)
(* The server of src/epoll_v2/server1.c.  serverRun accepts connections    *)
(* and hands each to one of socket_pthread_count worker threads, by adding *)
(* it to the worker's epoll set; without workers it serves them itself.  A *)
(* worker counts its connections in active_conection_cnt, an unsigned int  *)
(* that both threads change under the worker's mutex.                      *)
(*                                                                         *)
(* A section under the mutex is one access to the count, so it is one      *)
(* step.  The listening socket is edge-triggered and blocking, so accept   *)
(* is a step that may have to wait.  The clients are level-triggered.  The *)
(* message handler data_func belongs to the user of the server: it reads   *)
(* some of the input and returns 1, 0 or -1.  A batch is a set of events;  *)
(* there are at most 5 descriptors, so epoll_wait reports all of them.     *)
(***************************************************************************)
EXTENDS Integers, FiniteSets

CONSTANTS
    ThreadCounts,  \* values of socket_pthread_count
    LISTEN_FD,     \* server_socket
    Fd,            \* descriptors accept can return
    UINT_MOD,      \* 2^32 in the source
    MAX_WAITING    \* bound on the accept queue

ASSUME ThreadsAssumption ==
    /\ ThreadCounts \subseteq Nat
    /\ Fd \subseteq Nat /\ IsFiniteSet(Fd) /\ LISTEN_FD \in Nat \ Fd
    /\ UINT_MOD \in Nat /\ UINT_MOD > Cardinality(Fd) + 1
    /\ MAX_WAITING \in Nat

VARIABLES
    socket_pthread_count,
    active_conection_cnt,  \* of each worker
    waiting,   \* connections in the accept queue
    edge,      \* the listening socket is on the ready list of its epoll set
    open,      \* descriptors of accepted connections
    watched,   \* epoll set of each thread
    unread,    \* connections with input that was not read
    hungup,    \* connections whose peer sent FIN or RST
    batch,     \* events each thread still has to handle
    pc,        \* place of each thread in its loop
    scan       \* locals of serverRun: new_socket (from the call of accept on, as the
               \* kernel takes a descriptor first), tmp_index, mix_cnt_thread_id

connVars == <<waiting, edge, open, watched, unread, hungup>>
vars == <<socket_pthread_count, active_conection_cnt, connVars, batch, pc, scan>>

Worker == 0 .. socket_pthread_count - 1
SERVER == -1
Thread == Worker \cup {SERVER}
Event == [fd : Fd \cup {LISTEN_FD}, mask : {"IN", "HUP"}]

\* initServerStruct, then serverRun up to its loop.
Init ==
    /\ socket_pthread_count \in ThreadCounts
    /\ active_conection_cnt = [w \in Worker |-> 0]
    /\ waiting = 0 /\ edge = FALSE
    /\ open = {} /\ unread = {} /\ hungup = {}
    /\ watched = [t \in Thread |-> {}]
    /\ batch = [t \in Thread |-> {}]
    /\ pc = [t \in Thread |-> "loop"]
    /\ scan = [new_socket |-> LISTEN_FD, tmp_index |-> 0, mix_cnt_thread_id |-> 0]

-----------------------------------------------------------------------------
(* Clients                                                                 *)

Connect ==
    /\ waiting < MAX_WAITING
    /\ waiting' = waiting + 1 /\ edge' = TRUE
    /\ UNCHANGED <<socket_pthread_count, active_conection_cnt, open, watched, unread,
                   hungup, batch, pc, scan>>

(* A connection in the queue is reset by its client and the kernel takes   *)
(* it out again (the scenario of IO模型.md:29-39); the edge it caused and  *)
(* the event of it stay.                                                   *)
Abort ==
    /\ waiting > 0
    /\ waiting' = waiting - 1
    /\ UNCHANGED <<socket_pthread_count, active_conection_cnt, edge, open, watched, unread,
                   hungup, batch, pc, scan>>

\* The accept queue is full: the kernel drops the attempt, without an event.
ConnectDropped == waiting = MAX_WAITING /\ UNCHANGED vars

Send(f) ==
    /\ f \in open \ (hungup \cup unread)
    /\ unread' = unread \cup {f}
    /\ UNCHANGED <<socket_pthread_count, active_conection_cnt, waiting, edge, open,
                   watched, hungup, batch, pc, scan>>

HangUp(f) ==
    /\ f \in open \ hungup
    /\ hungup' = hungup \cup {f}
    /\ UNCHANGED <<socket_pthread_count, active_conection_cnt, waiting, edge, open,
                   watched, unread, batch, pc, scan>>

-----------------------------------------------------------------------------
(* What both loops do                                                      *)

\* EPOLLERR and EPOLLRDHUP are looked at before EPOLLIN.
MaskOf(f) == IF f \in hungup THEN "HUP" ELSE "IN"

Reported(t) ==
    {[fd |-> f, mask |-> MaskOf(f)] : f \in watched[t] \cap (unread \cup hungup)}
    \cup IF t = SERVER /\ edge /\ waiting > 0
         THEN {[fd |-> LISTEN_FD, mask |-> "IN"]} ELSE {}

\* epoll_wait takes the listening socket, which was added with EPOLLET, off its list.
EpollWait(t) ==
    /\ pc[t] = "loop" /\ batch[t] = {} /\ Reported(t) # {}
    /\ batch' = [batch EXCEPT ![t] = Reported(t)]
    /\ edge' = (edge /\ t # SERVER)
    /\ UNCHANGED <<socket_pthread_count, active_conection_cnt, waiting, open, watched,
                   unread, hungup, pc, scan>>

\* Seeded fault: the branches are not exclusive, EPOLLIN is looked at as well.
RestTwice(t, e) == IF e.mask = "HUP" THEN (batch[t] \ {e}) \cup {[e EXCEPT !.mask = "IN"]}
                   ELSE batch[t] \ {e}

\* Seeded fault: the loop over the events is left after the first of them.
RestDropped(t, e) == {}

\* The events left after e.
Rest(t, e) == batch[t] \ {e}

Take(t, e) ==
    /\ pc[t] = "loop" /\ e \in batch[t]
    /\ batch' = [batch EXCEPT ![t] = Rest(t, e)]

\* EPOLL_CTL_DEL and close; a worker then still has to count down.
CloseConnection(t, f) ==
    /\ open' = open \ {f} /\ unread' = unread \ {f} /\ hungup' = hungup \ {f}
    /\ watched' = [watched EXCEPT ![t] = @ \ {f}]
    /\ pc' = [pc EXCEPT ![t] = IF t = SERVER THEN "loop" ELSE "discount"]
    /\ UNCHANGED <<socket_pthread_count, active_conection_cnt, waiting, edge, scan>>

\* Seeded fault: a hang-up is only reported, the connection stays.
HangUpIgnored(t, e) ==
    /\ Take(t, e) /\ e.fd # LISTEN_FD /\ e.mask = "HUP"
    /\ UNCHANGED <<socket_pthread_count, active_conection_cnt, connVars, pc, scan>>

\* EPOLLERR or EPOLLRDHUP: input that was not read is dropped.
HangUpEvent(t, e) ==
    /\ Take(t, e) /\ e.fd # LISTEN_FD /\ e.mask = "HUP"
    /\ CloseConnection(t, e.fd)

\* EPOLLIN, data_func returns 1; it has read the input, or a part of it.
DataEvent(t, e) ==
    /\ Take(t, e) /\ e.fd # LISTEN_FD /\ e.mask = "IN"
    /\ unread' \in {unread, unread \ {e.fd}}
    /\ UNCHANGED <<socket_pthread_count, active_conection_cnt, waiting, edge, open,
                   watched, hungup, pc, scan>>

\* EPOLLIN, data_func returns 0 or -1.
DataEnd(t, e) ==
    /\ Take(t, e) /\ e.fd # LISTEN_FD /\ e.mask = "IN"
    /\ CloseConnection(t, e.fd)

-----------------------------------------------------------------------------
(* socketPthreadRun: active_conection_cnt-- under the mutex                *)

\* Seeded fault: the count is signed.
DecSigned(n) == n - 1

Dec(n) == (n - 1) % UINT_MOD

Discount(w) ==
    /\ pc[w] = "discount"
    /\ active_conection_cnt' = [active_conection_cnt EXCEPT ![w] = Dec(@)]
    /\ pc' = [pc EXCEPT ![w] = "loop"]
    /\ UNCHANGED <<socket_pthread_count, connVars, batch, scan>>

-----------------------------------------------------------------------------
(* serverRun: accept, choose a worker, hand over, count                    *)

\* accept is called, with a descriptor to spare.
CallAccept(e) ==
    /\ Take(SERVER, e) /\ e.fd = LISTEN_FD
    /\ \E f \in Fd \ open :
          /\ \A g \in Fd \ open : f <= g
          /\ scan' = [new_socket |-> f, tmp_index |-> 0, mix_cnt_thread_id |-> 0]
    /\ pc' = [pc EXCEPT ![SERVER] = "accept"]
    /\ UNCHANGED <<socket_pthread_count, active_conection_cnt, connVars>>

\* It returns a connection, and blocks as long as the queue is empty.
AcceptConn ==
    /\ pc[SERVER] = "accept" /\ waiting > 0
    /\ open' = open \cup {scan.new_socket}
    /\ IF socket_pthread_count = 0
       THEN /\ watched' = [watched EXCEPT ![SERVER] = @ \cup {scan.new_socket}]
            /\ pc' = [pc EXCEPT ![SERVER] = "loop"]
       ELSE /\ pc' = [pc EXCEPT ![SERVER] = "scan"]
            /\ UNCHANGED watched
    /\ waiting' = waiting - 1
    /\ UNCHANGED <<socket_pthread_count, active_conection_cnt, edge, unread, hungup, batch,
                   scan>>

\* accept finds no free descriptor; the connection stays in the queue.
AcceptFails(e) ==
    /\ Take(SERVER, e) /\ e.fd = LISTEN_FD /\ Fd \subseteq open
    /\ UNCHANGED <<socket_pthread_count, active_conection_cnt, connVars, pc, scan>>

\* if(mix_cnt_thread_id>act_cnts): the index of a thread against a count.
Mix(mix, w) == IF mix > active_conection_cnt[w] THEN w ELSE mix

\* One turn of the loop over the threads, its read under their mutex.
Scan ==
    /\ pc[SERVER] = "scan" /\ scan.tmp_index \in Worker
    /\ scan' = [scan EXCEPT !.tmp_index = @ + 1,
                            !.mix_cnt_thread_id = Mix(@, scan.tmp_index)]
    /\ UNCHANGED <<socket_pthread_count, active_conection_cnt, connVars, batch, pc>>

\* EPOLL_CTL_ADD to the worker's set: from here on the worker may close it.
HandOver ==
    /\ pc[SERVER] = "scan" /\ scan.tmp_index \notin Worker
    /\ watched' = [watched EXCEPT ![scan.mix_cnt_thread_id] = @ \cup {scan.new_socket}]
    /\ pc' = [pc EXCEPT ![SERVER] = "count"]
    /\ UNCHANGED <<socket_pthread_count, active_conection_cnt, waiting, edge, open,
                   unread, hungup, batch, scan>>

\* Seeded fault: a connection that is closed by now is not counted.
IncIfOpen(n) == IF scan.new_socket \in open THEN (n + 1) % UINT_MOD ELSE n

Inc(n) == (n + 1) % UINT_MOD

Count ==
    /\ pc[SERVER] = "count"
    /\ active_conection_cnt' =
          [active_conection_cnt EXCEPT ![scan.mix_cnt_thread_id] = Inc(@)]
    /\ pc' = [pc EXCEPT ![SERVER] = "loop"]
    /\ UNCHANGED <<socket_pthread_count, connVars, batch, scan>>

-----------------------------------------------------------------------------
Serve(t) ==
    EpollWait(t) \/ \E e \in batch[t] : HangUpEvent(t, e) \/ DataEvent(t, e) \/ DataEnd(t, e)

socketPthreadRun(w) == Serve(w) \/ Discount(w)

serverRun ==
    \/ Serve(SERVER) \/ AcceptConn \/ Scan \/ HandOver \/ Count
    \/ \E e \in batch[SERVER] : CallAccept(e) \/ AcceptFails(e)

Clients == Connect \/ Abort \/ ConnectDropped \/ \E f \in Fd : Send(f) \/ HangUp(f)

Next == Clients \/ serverRun \/ \E w \in Worker : socketPthreadRun(w)

\* Every thread is scheduled again and again; nothing is asked of the clients.
Spec == /\ Init /\ [][Next]_vars
        /\ WF_vars(serverRun)
        /\ \A w \in UNION {0 .. n - 1 : n \in ThreadCounts} :
              WF_vars(w \in Worker /\ socketPthreadRun(w))

-----------------------------------------------------------------------------
(* Properties                                                              *)

\* The type of every variable; the counts are unsigned.
TypeOK ==
    /\ socket_pthread_count \in ThreadCounts
    /\ active_conection_cnt \in [Worker -> 0 .. UINT_MOD - 1]
    /\ waiting \in Nat /\ edge \in BOOLEAN
    /\ open \subseteq Fd /\ unread \subseteq open /\ hungup \subseteq open
    /\ watched \in [Thread -> SUBSET Fd]
    /\ batch \in [Thread -> SUBSET Event]
    /\ pc \in [Thread -> {"loop", "accept", "scan", "count", "discount"}]
    /\ scan \in [new_socket : Fd \cup {LISTEN_FD}, tmp_index : Nat,
                 mix_cnt_thread_id : Nat]

(* active_conection_cnt against the connections of worker w: it lags       *)
(* behind by the one that serverRun has handed over and not counted, which *)
(* the worker may even have closed and discounted already (the count then  *)
(* is 2^32 - 1), and by the one the worker has closed and not discounted.  *)
Handed(w) == IF pc[SERVER] = "count" /\ scan.mix_cnt_thread_id = w THEN 1 ELSE 0
Closing(w) == IF pc[w] = "discount" THEN 1 ELSE 0
CountExact ==
    \A w \in Worker :
        active_conection_cnt[w] =
            (Cardinality(watched[w]) - Handed(w) + Closing(w)) % UINT_MOD

(* No thread meets a descriptor that is not its own: an open connection is *)
(* watched by one thread only, or is about to be handed over, and the      *)
(* events a thread has fetched belong to connections it still watches,     *)
(* although descriptors are closed and given out again by other threads    *)
(* all the time.                                                           *)
Owned ==
    /\ \A t \in Thread : \A e \in batch[t] : e.fd \in watched[t] \cup {LISTEN_FD}
    /\ \A f \in open :
          LET Owners == {t \in Thread : f \in watched[t]}
          IN  IF pc[SERVER] = "scan" /\ scan.new_socket = f
              THEN Owners = {} ELSE Cardinality(Owners) = 1

(* Connections that came in together leave some of them in the accept      *)
(* queue, because accept is called once for an event of the edge-triggered *)
(* listening socket (server1.c:134, :167); but the queue moves: as long as *)
(* clients go on to connect, one is accepted again and again, unless those *)
(* in the queue give up or the descriptors run out.  Also an accept that   *)
(* blocks, the queue having emptied before the call, ends that way.        *)
QueueMoves ==
    []<><<Connect>>_vars =>
        []<><<AcceptConn>>_vars \/ []<>(waiting = 0 \/ Fd \subseteq open)

(* A connection whose peer hung up is closed, by the thread it was handed  *)
(* to or after it is handed over.  The one way out is that of IO模型.md    *)
(* (29-39): without workers the only thread may be in a blocking accept    *)
(* for ever, called for a connection that was reset in the queue.          *)
HungUpClosed ==
    \A f \in Fd :
        \/ []<>(f \notin hungup)
        \/ <>[](socket_pthread_count = 0 /\ pc[SERVER] = "accept")

=============================================================================
