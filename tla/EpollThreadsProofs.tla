-------------------------- MODULE EpollThreadsProofs --------------------------
(***************************************************************************)
(* Proofs about EpollThreads, for any numbers of worker threads, any       *)
(* finite set of descriptors and any width of the counts: who owns a       *)
(* connection of src/epoll_v2/server1.c, and what active_conection_cnt     *)
(* counts.                                                                 *)
(***************************************************************************)
EXTENDS EpollThreads, FiniteSetTheorems, TLAPS

(* The thread every connection ends up with: serverRun itself without      *)
(* workers, else the first worker.                                         *)
Home == IF socket_pthread_count = 0 THEN SERVER ELSE 0

\* The connection serverRun has accepted and not handed over.
InHand == IF pc[SERVER] = "scan" THEN {scan.new_socket} ELSE {}

(* What the properties need to be inductive.  Places: which thread can be  *)
(* where, that accept is called with a descriptor that is closed, and that *)
(* the scan over the workers never leaves the first one.                   *)
(* HomeOwns: the home thread watches every open connection but the one in  *)
(* hand, the others watch none.  EventsOwn: a batch holds one event of a   *)
(* descriptor at most, of a watched one or, in serverRun, of the listening *)
(* socket.                                                                 *)
Places ==
    /\ pc[SERVER] \in {"loop", "accept", "scan", "count"}
    /\ \A w \in Worker : pc[w] \in {"loop", "discount"}
    /\ pc[SERVER] \in {"scan", "count"} => socket_pthread_count # 0
    /\ pc[SERVER] = "accept" => scan.new_socket \in Fd \ open
    /\ scan.mix_cnt_thread_id = 0

HomeOwns ==
    /\ InHand \subseteq open
    /\ watched[Home] = open \ InHand
    /\ \A t \in Thread \ {Home} : watched[t] = {}

EventsOwn ==
    \A t \in Thread : \A e \in batch[t] :
        /\ e.fd \in watched[t] \cup {LISTEN_FD}
        /\ e.fd = LISTEN_FD => t = SERVER /\ e.mask = "IN"
        /\ \A d \in batch[t] : d.fd = e.fd => d = e

IInv == TypeOK /\ CountExact /\ Places /\ HomeOwns /\ EventsOwn

-----------------------------------------------------------------------------
(* Threads, counts and events                                              *)

\* serverRun is no worker, and the first worker exists if there are any.
LEMMA ThreadFacts ==
    ASSUME TypeOK
    PROVE  /\ socket_pthread_count \in Nat
           /\ SERVER \in Thread /\ SERVER \notin Worker /\ Worker \subseteq Nat
           /\ Home \in Thread
           /\ socket_pthread_count # 0 => 0 \in Worker
           /\ socket_pthread_count = 0 => Worker = {}
  <1>1. socket_pthread_count \in Nat
    BY ThreadsAssumption DEF TypeOK
  <1>2. SERVER \notin Worker /\ Worker \subseteq Nat
    BY <1>1 DEF Worker, SERVER
  <1>3. /\ socket_pthread_count # 0 => 0 \in Worker
        /\ socket_pthread_count = 0 => Worker = {}
    BY <1>1 DEF Worker
  <1> QED
    BY <1>1, <1>2, <1>3 DEF Thread, Home

\* Arithmetic of an unsigned int next to its range.
LEMMA ModNear ==
    ASSUME NEW x \in -1 .. 2 * UINT_MOD - 1
    PROVE  x % UINT_MOD = IF x < 0 THEN x + UINT_MOD
                          ELSE IF x < UINT_MOD THEN x ELSE x - UINT_MOD
  <1> DEFINE m == UINT_MOD
             q == x \div m
             r == x % m
  <1>0. m \in Nat /\ m > 1
    BY ThreadsAssumption, FS_CardinalityType
  <1>1. q \in Int /\ r \in 0 .. m - 1 /\ x = q * m + r
    BY <1>0
  <1>2. x \in Int /\ x >= -1 /\ x < 2 * m
    BY <1>0
  <1> HIDE DEF q, r, m
  <1>3. CASE x < 0
    <2>1. ~(q >= 0) /\ ~(q <= -2)
      BY <1>0, <1>1, <1>2, <1>3
    <2>2. q = -1
      BY <1>1, <2>1
    <2> QED
      BY <1>0, <1>1, <1>2, <1>3, <2>2 DEF r, m
  <1>4. CASE x >= 0 /\ x < m
    <2>1. ~(q >= 1) /\ ~(q <= -1)
      BY <1>0, <1>1, <1>2, <1>4
    <2>2. q = 0
      BY <1>1, <2>1
    <2> QED
      BY <1>0, <1>1, <1>2, <1>4, <2>2 DEF r, m
  <1>5. CASE x >= m
    <2>1. ~(q >= 2) /\ ~(q <= 0)
      BY <1>0, <1>1, <1>2, <1>5
    <2>2. q = 1
      BY <1>1, <2>1
    <2> QED
      BY <1>0, <1>1, <1>2, <1>5, <2>2 DEF r, m
  <1> QED
    BY <1>0, <1>2, <1>3, <1>4, <1>5

\* The number the count of w stands for.
Net(w) == Cardinality(watched[w]) - Handed(w) + Closing(w)

(* That number is never below -1 nor above the range of an unsigned int:   *)
(* active_conection_cnt wraps around by one at most.                       *)
LEMMA NetRange ==
    ASSUME TypeOK, NEW w \in Worker
    PROVE  /\ IsFiniteSet(watched[w]) /\ Cardinality(watched[w]) \in Nat
           /\ Handed(w) \in {0, 1} /\ Closing(w) \in {0, 1}
           /\ Net(w) \in -1 .. UINT_MOD - 1
           /\ UINT_MOD \in Nat /\ UINT_MOD > 1
  <1>1. watched[w] \in SUBSET Fd
    BY DEF TypeOK, Thread
  <1>2. IsFiniteSet(watched[w]) /\ Cardinality(watched[w]) <= Cardinality(Fd)
    BY <1>1, FS_Subset, ThreadsAssumption
  <1>3. Cardinality(watched[w]) \in Nat /\ Cardinality(Fd) \in Nat
    BY <1>2, FS_CardinalityType, ThreadsAssumption
  <1>4. Handed(w) \in {0, 1} /\ Closing(w) \in {0, 1}
    BY DEF Handed, Closing
  <1> QED
    BY <1>2, <1>3, <1>4, ThreadsAssumption DEF Net

\* active_conection_cnt++ and active_conection_cnt-- follow the number it stands for.
LEMMA CountSteps ==
    ASSUME TypeOK, CountExact, NEW w \in Worker
    PROVE  /\ Net(w) < UINT_MOD - 1 => Inc(active_conection_cnt[w]) = (Net(w) + 1) % UINT_MOD
           /\ Net(w) >= 0 => Dec(active_conection_cnt[w]) = (Net(w) - 1) % UINT_MOD
  <1> DEFINE n == active_conection_cnt[w]
             x == Net(w)
             m == UINT_MOD
  <1>1. n = x % m /\ n \in 0 .. m - 1 /\ x \in -1 .. m - 1 /\ m \in Nat /\ m > 1
    BY NetRange DEF CountExact, Net, TypeOK
  <1> HIDE DEF n, x
  <1>2. \A y \in -1 .. 2 * m - 1 : y % m = IF y < 0 THEN y + m ELSE IF y < m THEN y ELSE y - m
    BY ModNear
  <1> HIDE DEF m
  <1>3. n = IF x < 0 THEN x + m ELSE x
    BY <1>1, <1>2
  <1>4. ASSUME x < m - 1 PROVE (n + 1) % m = (x + 1) % m
    <2>1. (n + 1) % m = IF n + 1 < m THEN n + 1 ELSE n + 1 - m
      BY <1>1, <1>2
    <2>2. (x + 1) % m = x + 1
      BY <1>1, <1>2, <1>4
    <2> QED
      BY <1>1, <1>3, <1>4, <2>1, <2>2
  <1>5. ASSUME x >= 0 PROVE (n - 1) % m = (x - 1) % m
    BY <1>1, <1>3, <1>5
  <1> QED
    BY <1>4, <1>5 DEF Inc, Dec, n, x, m

-----------------------------------------------------------------------------
(* The invariant                                                           *)

\* No thread has anything before its first epoll_wait.
LEMMA ThreadsInit == Init => IInv
  <1> SUFFICES ASSUME Init PROVE IInv
    OBVIOUS
  <1>1. UINT_MOD \in Nat /\ UINT_MOD > 1
    BY ThreadsAssumption, FS_CardinalityType
  <1>2. TypeOK
    <2>1. active_conection_cnt \in [Worker -> 0 .. UINT_MOD - 1]
      BY <1>1 DEF Init
    <2>2. scan \in [new_socket : Fd \cup {LISTEN_FD}, tmp_index : Nat, mix_cnt_thread_id : Nat]
      BY DEF Init
    <2> QED
      BY <2>1, <2>2 DEF Init, TypeOK
  <1>3. SERVER \in Thread /\ Worker \subseteq Thread /\ Home \in Thread
    BY <1>2, ThreadFacts DEF Thread
  <1>4. CountExact
    <2> SUFFICES ASSUME NEW w \in Worker
                 PROVE  active_conection_cnt[w] = Net(w) % UINT_MOD
      BY DEF CountExact, Net
    <2>1. watched[w] = {} /\ Handed(w) = 0 /\ Closing(w) = 0 /\ active_conection_cnt[w] = 0
      BY <1>3 DEF Init, Handed, Closing
    <2>2. Net(w) = 0
      BY <2>1, FS_EmptySet DEF Net
    <2>3. 0 % UINT_MOD = 0
      BY <1>1, ModNear
    <2> QED
      BY <2>1, <2>2, <2>3
  <1>5. Places /\ HomeOwns /\ EventsOwn
    BY <1>3 DEF Init, Places, HomeOwns, EventsOwn, InHand
  <1> QED
    BY <1>2, <1>4, <1>5 DEF IInv

\* Steps that open, close, hand over and count nothing.
LEMMA Unmoved ==
    ASSUME IInv,
           UNCHANGED <<socket_pthread_count, active_conection_cnt, open, watched, pc, scan>>
    PROVE  CountExact' /\ Places' /\ HomeOwns'
  <1>1. CountExact'
    BY DEF IInv, CountExact, Worker, Handed, Closing
  <1>2. Places' /\ HomeOwns'
    BY DEF IInv, Places, HomeOwns, Worker, Thread, Home, InHand
  <1> QED
    BY <1>1, <1>2

\* The same with the batches left alone.
LEMMA BatchesUnmoved ==
    ASSUME IInv, UNCHANGED <<socket_pthread_count, watched, batch>>
    PROVE  EventsOwn'
  BY DEF IInv, EventsOwn, Thread, Worker

\* Clients come, go, send and hang up.
LEMMA ThreadsClients == IInv /\ Clients => IInv'
  <1> SUFFICES ASSUME IInv, Clients PROVE IInv'
    OBVIOUS
  <1> DEFINE Quiet ==
                /\ UNCHANGED <<socket_pthread_count, active_conection_cnt, open, watched, pc,
                               scan, batch>>
                /\ waiting' \in Nat /\ edge' \in BOOLEAN
                /\ unread' \subseteq open /\ hungup' \subseteq open
  <1>1. Quiet
    <2>t. TypeOK
      BY DEF IInv
    <2>1. CASE Connect \/ Abort
      <3>1. UNCHANGED <<socket_pthread_count, active_conection_cnt, open, watched, pc, scan,
                        batch, unread, hungup>>
        BY <2>1 DEF Connect, Abort
      <3>2. edge' \in BOOLEAN
        BY <2>t, <2>1 DEF TypeOK, Connect, Abort
      <3>3. waiting' \in Nat
        BY <2>t, <2>1 DEF TypeOK, Connect, Abort
      <3> QED
        BY <2>t, <3>1, <3>2, <3>3 DEF TypeOK
    <2>2. CASE ConnectDropped
      BY <2>t, <2>2 DEF TypeOK, ConnectDropped, vars, connVars
    <2>3. ASSUME NEW f \in Fd, Send(f) \/ HangUp(f) PROVE Quiet
      BY <2>t, <2>3 DEF TypeOK, Send, HangUp
    <2> QED
      BY <2>1, <2>2, <2>3 DEF Clients
  <1>2. TypeOK'
    BY <1>1 DEF IInv, TypeOK, Worker, Thread
  <1> QED
    BY <1>1, <1>2, Unmoved, BatchesUnmoved DEF IInv

\* epoll_wait: one event per descriptor, of the thread's own ones.
LEMMA ThreadsWait == ASSUME IInv, NEW t \in Thread, EpollWait(t) PROVE IInv'
  <1>1. /\ batch[t] = {} /\ batch' = [batch EXCEPT ![t] = Reported(t)]
        /\ edge' = (edge /\ t # SERVER)
        /\ UNCHANGED <<socket_pthread_count, active_conection_cnt, waiting, open, watched,
                       unread, hungup, pc, scan>>
    BY DEF EpollWait
  <1>2. \A e \in Reported(t) :
           /\ e \in Event
           /\ e.fd \in watched[t] \cup {LISTEN_FD}
           /\ e.fd = LISTEN_FD => t = SERVER /\ e.mask = "IN" /\ edge /\ waiting > 0
           /\ \A d \in Reported(t) : d.fd = e.fd => d = e
    BY ThreadsAssumption DEF Reported, MaskOf, Event, IInv, TypeOK
  <1>3. TypeOK'
    <2>1. batch' \in [Thread -> SUBSET Event]
      BY <1>1, <1>2 DEF IInv, TypeOK
    <2> QED
      BY <1>1, <2>1 DEF IInv, TypeOK, Worker, Thread
  <1>4. EventsOwn'
    <2>1. Thread' = Thread /\ \A u \in Thread : batch'[u] = IF u = t THEN Reported(t) ELSE batch[u]
      BY <1>1 DEF Thread, Worker, IInv, TypeOK
    <2> QED
      BY <1>1, <1>2, <2>1 DEF EventsOwn, IInv
  <1>5. CountExact' /\ Places' /\ HomeOwns'
    BY <1>1, Unmoved
  <1> QED
    BY <1>3, <1>4, <1>5 DEF IInv

\* Handling an event: it leaves the batch, and the others stay.
LEMMA TakeEvent ==
    ASSUME IInv, NEW t \in Thread, NEW e, Take(t, e)
    PROVE  /\ e \in batch[t] /\ e \in Event /\ pc[t] = "loop"
           /\ batch' \in [Thread -> SUBSET Event]
           /\ \A u \in Thread : batch'[u] = IF u = t THEN batch[t] \ {e} ELSE batch[u]
           /\ e.fd # LISTEN_FD => e.fd \in watched[t]
           /\ \A d \in batch'[t] : d.fd # e.fd
  <1>1. e \in batch[t] /\ pc[t] = "loop" /\ batch' = [batch EXCEPT ![t] = batch[t] \ {e}]
    BY DEF Take, Rest
  <1>2. batch \in [Thread -> SUBSET Event] /\ SERVER \in Thread
    BY ThreadFacts DEF IInv, TypeOK
  <1>3. /\ batch' \in [Thread -> SUBSET Event]
        /\ \A u \in Thread : batch'[u] = IF u = t THEN batch[t] \ {e} ELSE batch[u]
    BY <1>1, <1>2
  <1>4. e.fd # LISTEN_FD => e.fd \in watched[t]
    BY <1>1 DEF IInv, EventsOwn
  <1>5. \A d \in batch'[t] : d.fd # e.fd
    BY <1>1, <1>3 DEF IInv, EventsOwn
  <1> QED
    BY <1>1, <1>2, <1>3, <1>4, <1>5

\* data_func returns 1: only the input changes.
LEMMA ThreadsData ==
    ASSUME IInv, NEW t \in Thread, NEW e, DataEvent(t, e)
    PROVE  IInv'
  <1>1. /\ Take(t, e) /\ e.fd # LISTEN_FD /\ unread' \subseteq unread
        /\ UNCHANGED <<socket_pthread_count, active_conection_cnt, waiting, edge, open,
                       watched, hungup, pc, scan>>
    BY DEF DataEvent
  <1>2. TypeOK'
    BY <1>1, TakeEvent DEF IInv, TypeOK, Worker, Thread
  <1>3. EventsOwn'
    <2>1. Thread' = Thread
      BY <1>1 DEF Thread, Worker
    <2>2. \A u \in Thread : batch'[u] \subseteq batch[u]
      BY <1>1, TakeEvent
    <2> QED
      BY <1>1, <2>1, <2>2 DEF EventsOwn, IInv
  <1>4. CountExact' /\ Places' /\ HomeOwns'
    BY <1>1, Unmoved
  <1> QED
    BY <1>2, <1>3, <1>4 DEF IInv

(* EPOLL_CTL_DEL and close: the closing thread is the one that watches the *)
(* descriptor, and it has no other event of it.                            *)
LEMMA ThreadsClose ==
    ASSUME IInv, NEW t \in Thread, NEW e, HangUpEvent(t, e) \/ DataEnd(t, e)
    PROVE  IInv'
  <1> DEFINE f == e.fd
  <1>1. Take(t, e) /\ f # LISTEN_FD /\ CloseConnection(t, f)
    BY DEF HangUpEvent, DataEnd
  <1>2. /\ open' = open \ {f} /\ unread' = unread \ {f} /\ hungup' = hungup \ {f}
        /\ watched' = [watched EXCEPT ![t] = @ \ {f}]
        /\ pc' = [pc EXCEPT ![t] = IF t = SERVER THEN "loop" ELSE "discount"]
        /\ UNCHANGED <<socket_pthread_count, active_conection_cnt, waiting, edge, scan>>
    BY <1>1 DEF CloseConnection
  <1>3. /\ pc[t] = "loop" /\ f \in watched[t]
        /\ batch' \in [Thread -> SUBSET Event]
        /\ \A u \in Thread : batch'[u] = IF u = t THEN batch[t] \ {e} ELSE batch[u]
        /\ \A d \in batch'[t] : d.fd # f
    BY <1>1, TakeEvent
  <1>4. t = Home /\ f \in open /\ f \notin InHand
    BY <1>3 DEF IInv, HomeOwns
  <1>5. Thread' = Thread /\ Worker' = Worker /\ Home' = Home
    BY <1>2 DEF Thread, Worker, Home
  <1>6. SERVER \in Thread /\ SERVER \notin Worker /\ Worker \subseteq Thread
        /\ socket_pthread_count \in Nat
    BY ThreadFacts DEF IInv, Thread
  <1> HIDE DEF f
  <1>7. TypeOK'
    <2>1. watched' \in [Thread -> SUBSET Fd]
      BY <1>2 DEF IInv, TypeOK
    <2>2. pc' \in [Thread -> {"loop", "accept", "scan", "count", "discount"}]
      BY <1>2 DEF IInv, TypeOK
    <2> QED
      BY <1>2, <1>3, <1>5, <2>1, <2>2 DEF IInv, TypeOK
  <1>8. pc'[SERVER] = pc[SERVER] /\ InHand' = InHand
    BY <1>2, <1>3, <1>6 DEF IInv, TypeOK, InHand
  <1>9. Places'
    BY <1>2, <1>5, <1>6, <1>8 DEF IInv, TypeOK, Places
  <1>10. HomeOwns'
    BY <1>2, <1>4, <1>5, <1>6, <1>8 DEF IInv, TypeOK, HomeOwns
  <1>11. EventsOwn'
    BY <1>2, <1>3, <1>5 DEF IInv, TypeOK, EventsOwn
  <1>12. CountExact'
    <2> SUFFICES ASSUME NEW w \in Worker
                 PROVE  active_conection_cnt[w] = Net(w)' % UINT_MOD
      BY <1>2, <1>5 DEF CountExact, Net
    <2>1. Handed(w)' = Handed(w) /\ active_conection_cnt[w] = Net(w) % UINT_MOD
      BY <1>2, <1>8 DEF Handed, IInv, CountExact, Net
    <2>2. CASE w # t
      <3>1. watched'[w] = watched[w] /\ pc'[w] = pc[w]
        BY <1>2, <1>6, <2>2 DEF IInv, TypeOK
      <3> QED
        BY <2>1, <3>1 DEF Net, Closing
    <2>3. CASE w = t
      <3>1. watched'[w] = watched[w] \ {f} /\ Closing(w) = 0 /\ Closing(w)' = 1
        BY <1>2, <1>3, <1>6, <2>3 DEF Closing, IInv, TypeOK
      <3>a. IsFiniteSet(watched[w]) /\ f \in watched[w]
        BY <1>3, <2>3, NetRange DEF IInv
      <3>b. Cardinality(watched[w] \ {f}) = Cardinality(watched[w]) - 1
        BY <3>a, FS_RemoveElement
      <3>2. Cardinality(watched'[w]) = Cardinality(watched[w]) - 1
        BY <3>1, <3>b
      <3>3. Cardinality(watched[w]) \in Nat /\ Handed(w) \in {0, 1}
        BY NetRange DEF IInv
      <3>4. Net(w)' = Net(w)
        BY <2>1, <3>1, <3>2, <3>3 DEF Net
      <3> QED
        BY <2>1, <3>4
    <2> QED
      BY <2>2, <2>3
  <1> QED
    BY <1>7, <1>9, <1>10, <1>11, <1>12 DEF IInv

\* active_conection_cnt-- for a connection that was closed.
LEMMA ThreadsDiscount == ASSUME IInv, NEW w \in Worker, Discount(w) PROVE IInv'
  <1>1. /\ pc[w] = "discount" /\ pc' = [pc EXCEPT ![w] = "loop"]
        /\ active_conection_cnt' =
              [active_conection_cnt EXCEPT ![w] = Dec(active_conection_cnt[w])]
        /\ UNCHANGED <<socket_pthread_count, waiting, edge, open, watched, unread, hungup,
                       batch, scan>>
    BY DEF Discount, connVars
  <1>2. /\ SERVER \in Thread /\ SERVER \notin Worker /\ Worker \subseteq Thread
        /\ Thread' = Thread /\ Worker' = Worker /\ Home' = Home
    BY <1>1, ThreadFacts DEF IInv, Thread, Worker, Home
  <1>3. /\ UINT_MOD \in Nat /\ UINT_MOD > 1 /\ Closing(w) = 1 /\ Closing(w)' = 0
        /\ Cardinality(watched[w]) \in Nat /\ Handed(w) \in {0, 1}
        /\ Net(w) \in -1 .. UINT_MOD - 1
    BY <1>1, <1>2, NetRange DEF Closing, IInv, TypeOK
  <1>4. Net(w) >= 0
    BY <1>3 DEF Net
  <1>5. Dec(active_conection_cnt[w]) = (Net(w) - 1) % UINT_MOD
    BY <1>4, CountSteps DEF IInv
  <1>6. Net(w) - 1 \in -1 .. UINT_MOD - 1
    BY <1>3, <1>4
  <1>7. (Net(w) - 1) % UINT_MOD \in 0 .. UINT_MOD - 1
    BY <1>3, <1>6
  <1>8. TypeOK'
    <2>1. active_conection_cnt' \in [Worker -> 0 .. UINT_MOD - 1]
      BY <1>1, <1>5, <1>7 DEF IInv, TypeOK
    <2>2. pc' \in [Thread -> {"loop", "accept", "scan", "count", "discount"}]
      BY <1>1 DEF IInv, TypeOK
    <2> QED
      BY <1>1, <1>2, <2>1, <2>2 DEF IInv, TypeOK
  <1>9. pc'[SERVER] = pc[SERVER]
    BY <1>1, <1>2 DEF IInv, TypeOK
  <1>10. Places' /\ HomeOwns'
    BY <1>1, <1>2, <1>9 DEF IInv, TypeOK, Places, HomeOwns, InHand
  <1>11. EventsOwn'
    BY <1>1, BatchesUnmoved
  <1>12. CountExact'
    <2> SUFFICES ASSUME NEW v \in Worker
                 PROVE  active_conection_cnt'[v] = Net(v)' % UINT_MOD
      BY <1>2 DEF CountExact, Net
    <2>1. Handed(v)' = Handed(v) /\ watched'[v] = watched[v]
      BY <1>1, <1>9 DEF Handed
    <2>2. CASE v = w
      <3>1. Net(v)' = Net(v) - 1
        BY <1>3, <2>1, <2>2 DEF Net
      <3>2. active_conection_cnt'[v] = Dec(active_conection_cnt[w])
        BY <1>1, <2>2 DEF IInv, TypeOK
      <3> QED
        BY <1>5, <2>2, <3>1, <3>2
    <2>3. CASE v # w
      <3>1. active_conection_cnt'[v] = active_conection_cnt[v] /\ Closing(v)' = Closing(v)
        BY <1>1, <1>2, <2>3 DEF IInv, TypeOK, Closing
      <3> QED
        BY <2>1, <3>1 DEF Net, IInv, CountExact
    <2> QED
      BY <2>2, <2>3
  <1> QED
    BY <1>8, <1>10, <1>11, <1>12 DEF IInv

(* The call of accept uses an event up, also if there is no descriptor     *)
(* left for it.                                                            *)
LEMMA ThreadsCallAccept ==
    ASSUME IInv, NEW e, CallAccept(e) \/ AcceptFails(e)
    PROVE  IInv'
  <1>1. SERVER \in Thread /\ SERVER \notin Worker /\ Worker \subseteq Thread
    BY ThreadFacts DEF IInv, Thread
  <1>2. /\ Take(SERVER, e)
        /\ UNCHANGED <<socket_pthread_count, active_conection_cnt, waiting, edge, open, watched,
                       unread, hungup>>
    BY DEF CallAccept, AcceptFails, connVars
  <1>3. /\ pc[SERVER] = "loop" /\ batch' \in [Thread -> SUBSET Event]
        /\ \A u \in Thread : batch'[u] \subseteq batch[u]
    BY <1>1, <1>2, TakeEvent
  <1>4. Thread' = Thread /\ Worker' = Worker /\ Home' = Home
    BY <1>2 DEF Thread, Worker, Home
  <1>5. EventsOwn'
    BY <1>2, <1>3, <1>4 DEF IInv, EventsOwn
  <1>6. CASE AcceptFails(e)
    <2>1. UNCHANGED <<pc, scan>>
      BY <1>6 DEF AcceptFails
    <2>2. TypeOK'
      BY <1>2, <1>3, <1>4, <2>1 DEF IInv, TypeOK
    <2> QED
      BY <1>2, <1>5, <2>1, <2>2, Unmoved DEF IInv
  <1>7. CASE CallAccept(e)
    <2>1. PICK f \in Fd \ open :
             scan' = [new_socket |-> f, tmp_index |-> 0, mix_cnt_thread_id |-> 0]
      BY <1>7 DEF CallAccept
    <2>2. /\ pc' \in [Thread -> {"loop", "accept", "scan", "count", "discount"}]
          /\ pc'[SERVER] = "accept" /\ \A w \in Worker : pc'[w] = pc[w]
          /\ scan' \in [new_socket : Fd \cup {LISTEN_FD}, tmp_index : Nat, mix_cnt_thread_id : Nat]
          /\ scan'.new_socket = f /\ scan'.mix_cnt_thread_id = 0
      BY <1>1, <1>7, <2>1 DEF CallAccept, IInv, TypeOK
    <2>3. TypeOK'
      BY <1>2, <1>3, <1>4, <2>2 DEF IInv, TypeOK
    <2>4. Places'
      BY <1>2, <1>4, <2>2 DEF IInv, Places
    <2>5. InHand = {} /\ InHand' = {}
      BY <1>3, <2>2 DEF InHand
    <2>6. HomeOwns'
      BY <1>2, <1>4, <2>5 DEF IInv, HomeOwns
    <2>7. \A w \in Worker : Handed(w)' = Handed(w) /\ Closing(w)' = Closing(w)
      BY <1>3, <2>2 DEF Handed, Closing
    <2>8. CountExact'
      BY <1>2, <1>4, <2>7 DEF IInv, CountExact
    <2> QED
      BY <1>5, <2>3, <2>4, <2>6, <2>8 DEF IInv
  <1> QED
    BY <1>6, <1>7

(* accept returns: the descriptor was closed until now, so no thread       *)
(* watches it or has an event of it.                                       *)
LEMMA ThreadsAccept == IInv /\ AcceptConn => IInv'
  <1> SUFFICES ASSUME IInv, AcceptConn PROVE IInv'
    OBVIOUS
  <1> DEFINE f == scan.new_socket
  <1>1. /\ SERVER \in Thread /\ SERVER \notin Worker /\ Worker \subseteq Thread
        /\ socket_pthread_count \in Nat /\ Home \in Thread
        /\ socket_pthread_count = 0 => Worker = {}
        /\ socket_pthread_count # 0 => 0 \in Worker
    BY ThreadFacts DEF IInv, Thread
  <1>2. /\ pc[SERVER] = "accept" /\ open' = open \cup {f} /\ waiting' \in Nat
        /\ UNCHANGED <<socket_pthread_count, active_conection_cnt, edge, unread, hungup, batch,
                       scan>>
    BY DEF AcceptConn, IInv, TypeOK
  <1>3. f \in Fd \ open /\ InHand = {}
    BY <1>2 DEF IInv, Places, InHand
  <1>4. Thread' = Thread /\ Worker' = Worker /\ Home' = Home
    BY <1>2 DEF Thread, Worker, Home
  <1>5. CASE socket_pthread_count = 0
    <2>1. /\ watched' = [watched EXCEPT ![SERVER] = @ \cup {f}]
          /\ pc' = [pc EXCEPT ![SERVER] = "loop"] /\ Worker = {} /\ Home = SERVER
      BY <1>1, <1>5 DEF AcceptConn, Home
    <2> HIDE DEF f
    <2>2. /\ watched' \in [Thread -> SUBSET Fd] /\ pc'[SERVER] = "loop" /\ InHand' = {}
          /\ pc' \in [Thread -> {"loop", "accept", "scan", "count", "discount"}]
          /\ \A u \in Thread : watched[u] \subseteq watched'[u]
      BY <1>1, <1>3, <2>1 DEF IInv, TypeOK, InHand
    <2>3. TypeOK'
      BY <1>2, <1>3, <1>4, <2>2 DEF IInv, TypeOK
    <2>4. CountExact' /\ Places'
      BY <1>2, <1>4, <2>1, <2>2 DEF CountExact, Places, IInv
    <2>5. HomeOwns'
      BY <1>1, <1>2, <1>3, <1>4, <2>1, <2>2 DEF IInv, TypeOK, HomeOwns
    <2>6. EventsOwn'
      BY <1>2, <1>4, <2>2 DEF IInv, EventsOwn
    <2> QED
      BY <2>3, <2>4, <2>5, <2>6 DEF IInv
  <1>6. CASE socket_pthread_count # 0
    <2>1. pc' = [pc EXCEPT ![SERVER] = "scan"] /\ UNCHANGED watched
      BY <1>6 DEF AcceptConn
    <2>2. /\ pc' \in [Thread -> {"loop", "accept", "scan", "count", "discount"}]
          /\ pc'[SERVER] = "scan" /\ \A w \in Worker : pc'[w] = pc[w]
      BY <1>1, <2>1 DEF IInv, TypeOK
    <2>3. TypeOK'
      BY <1>2, <1>3, <1>4, <2>1, <2>2 DEF IInv, TypeOK
    <2>4. Places'
      BY <1>2, <1>4, <1>6, <2>2 DEF IInv, Places
    <2>5. InHand' = {f}
      BY <1>2, <2>2 DEF InHand
    <2>6. HomeOwns'
      BY <1>2, <1>3, <1>4, <2>1, <2>5 DEF IInv, HomeOwns
    <2>7. EventsOwn'
      BY <1>2, <1>4, <2>1 DEF IInv, EventsOwn
    <2>8. \A w \in Worker : Handed(w)' = Handed(w) /\ Closing(w)' = Closing(w)
      BY <1>2, <2>2 DEF Handed, Closing
    <2>9. CountExact'
      BY <1>2, <1>4, <2>1, <2>8 DEF IInv, CountExact
    <2> QED
      BY <2>3, <2>4, <2>6, <2>7, <2>9 DEF IInv
  <1> QED
    BY <1>5, <1>6

(* The scan over the workers: an index that starts at 0 is never above a   *)
(* count, so the first worker stays chosen.                                *)
LEMMA ThreadsScan == IInv /\ Scan => IInv'
  <1> SUFFICES ASSUME IInv, Scan PROVE IInv'
    OBVIOUS
  <1>1. /\ scan.tmp_index \in Worker
        /\ scan' = [scan EXCEPT !.tmp_index = @ + 1,
                                !.mix_cnt_thread_id = Mix(@, scan.tmp_index)]
        /\ UNCHANGED <<socket_pthread_count, active_conection_cnt, waiting, edge, open, watched,
                       unread, hungup, batch, pc>>
    BY DEF Scan, connVars
  <1>2. Mix(0, scan.tmp_index) = 0
    BY <1>1 DEF Mix, IInv, TypeOK
  <1>3. scan'.mix_cnt_thread_id = 0 /\ scan'.new_socket = scan.new_socket
        /\ scan' \in [new_socket : Fd \cup {LISTEN_FD}, tmp_index : Nat, mix_cnt_thread_id : Nat]
    <2>1. /\ scan.mix_cnt_thread_id = 0 /\ scan.tmp_index + 1 \in Nat
          /\ scan \in [new_socket : Fd \cup {LISTEN_FD}, tmp_index : Nat,
                       mix_cnt_thread_id : Nat]
      BY DEF IInv, Places, TypeOK
    <2>2. scan' = [scan EXCEPT !.tmp_index = scan.tmp_index + 1, !.mix_cnt_thread_id = 0]
      BY <1>1, <1>2, <2>1
    <2> QED
      BY <2>1, <2>2
  <1>4. TypeOK'
    BY <1>1, <1>3 DEF IInv, TypeOK, Thread, Worker
  <1>5. Places' /\ HomeOwns'
    BY <1>1, <1>3 DEF IInv, Places, HomeOwns, InHand, Home, Thread, Worker
  <1>6. EventsOwn'
    BY <1>1, BatchesUnmoved
  <1>7. CountExact'
    BY <1>1, <1>3 DEF IInv, CountExact, Handed, Closing, Worker, Places
  <1> QED
    BY <1>4, <1>5, <1>6, <1>7 DEF IInv

\* EPOLL_CTL_ADD: the worker watches one more, which is not counted yet.
LEMMA ThreadsHandOver == IInv /\ HandOver => IInv'
  <1> SUFFICES ASSUME IInv, HandOver PROVE IInv'
    OBVIOUS
  <1> DEFINE f == scan.new_socket
  <1>1. /\ pc[SERVER] = "scan" /\ pc' = [pc EXCEPT ![SERVER] = "count"]
        /\ watched' = [watched EXCEPT ![0] = @ \cup {f}]
        /\ UNCHANGED <<socket_pthread_count, active_conection_cnt, waiting, edge, open,
                       unread, hungup, batch, scan>>
    BY DEF HandOver, IInv, Places
  <1>2. /\ SERVER \in Thread /\ SERVER \notin Worker /\ Worker \subseteq Thread
        /\ Thread' = Thread /\ Worker' = Worker /\ Home' = Home
        /\ socket_pthread_count # 0 /\ 0 \in Worker /\ Home = 0
    BY <1>1, ThreadFacts DEF IInv, Thread, Worker, Home, Places
  <1>3. f \in open /\ f \in Fd /\ InHand = {f} /\ f \notin watched[0]
    BY <1>1, <1>2 DEF IInv, HomeOwns, InHand, TypeOK
  <1> HIDE DEF f
  <1>4. /\ pc'[SERVER] = "count" /\ \A w \in Worker : pc'[w] = pc[w]
        /\ pc' \in [Thread -> {"loop", "accept", "scan", "count", "discount"}]
        /\ watched' \in [Thread -> SUBSET Fd]
        /\ watched'[0] = watched[0] \cup {f} /\ \A t \in Thread \ {0} : watched'[t] = watched[t]
    BY <1>1, <1>2, <1>3 DEF IInv, TypeOK
  <1>5. TypeOK'
    BY <1>1, <1>2, <1>4 DEF IInv, TypeOK
  <1>6. Places'
    BY <1>1, <1>2, <1>4 DEF IInv, Places
  <1>7. HomeOwns'
    <2>1. InHand' = {}
      BY <1>4 DEF InHand
    <2> QED
      BY <1>1, <1>2, <1>3, <1>4, <2>1 DEF IInv, HomeOwns
  <1>8. EventsOwn'
    BY <1>1, <1>2, <1>4 DEF IInv, EventsOwn
  <1>9. CountExact'
    <2> SUFFICES ASSUME NEW w \in Worker
                 PROVE  active_conection_cnt[w] = Net(w)' % UINT_MOD
      BY <1>1, <1>2 DEF CountExact, Net
    <2>1. Closing(w)' = Closing(w) /\ Handed(w) = 0
      BY <1>1, <1>4 DEF Closing, Handed
    <2>2. CASE w = 0
      <3>1. Handed(w)' = 1
        BY <1>1, <1>4, <2>2 DEF Handed, IInv, Places
      <3>2. IsFiniteSet(watched[0]) /\ Cardinality(watched[0]) \in Nat /\ Closing(w) \in {0, 1}
        BY <2>2, NetRange DEF IInv
      <3>3. Cardinality(watched[0] \cup {f}) = Cardinality(watched[0]) + 1
        BY <1>3, <3>2, FS_AddElement
      <3>4. Net(w)' = Net(w)
        <4>1. Cardinality(watched'[w]) = Cardinality(watched[w]) + 1
          BY <1>4, <2>2, <3>3
        <4>2. Cardinality(watched[w]) \in Nat
          BY <2>2, <3>2
        <4> QED
          BY <2>1, <3>1, <3>2, <4>1, <4>2 DEF Net
      <3> QED
        BY <3>4 DEF IInv, CountExact, Net
    <2>3. CASE w # 0
      <3>1. Handed(w)' = 0 /\ watched'[w] = watched[w]
        BY <1>1, <1>2, <1>4, <2>3 DEF Handed, IInv, Places
      <3> QED
        BY <2>1, <3>1 DEF IInv, CountExact, Net
    <2> QED
      BY <2>2, <2>3
  <1> QED
    BY <1>5, <1>6, <1>7, <1>8, <1>9 DEF IInv

\* active_conection_cnt++, after the worker may have closed and discounted it.
LEMMA ThreadsCount == IInv /\ Count => IInv'
  <1> SUFFICES ASSUME IInv, Count PROVE IInv'
    OBVIOUS
  <1>1. /\ pc[SERVER] = "count" /\ pc' = [pc EXCEPT ![SERVER] = "loop"]
        /\ active_conection_cnt' =
              [active_conection_cnt EXCEPT ![0] = Inc(active_conection_cnt[0])]
        /\ UNCHANGED <<socket_pthread_count, waiting, edge, open, watched, unread, hungup,
                       batch, scan>>
    BY DEF Count, connVars, IInv, Places
  <1>2. /\ SERVER \in Thread /\ SERVER \notin Worker /\ Worker \subseteq Thread
        /\ Thread' = Thread /\ Worker' = Worker /\ Home' = Home
        /\ 0 \in Worker
    BY <1>1, ThreadFacts DEF IInv, Thread, Worker, Home, Places
  <1>3. /\ UINT_MOD \in Nat /\ UINT_MOD > 1 /\ Handed(0) = 1
        /\ Cardinality(watched[0]) \in Nat /\ Closing(0) \in {0, 1}
        /\ Net(0) \in -1 .. UINT_MOD - 1
    BY <1>1, <1>2, NetRange DEF Handed, IInv, Places
  <1>4. Cardinality(watched[0]) < UINT_MOD - 1
    <2>1. watched[0] \in SUBSET Fd
      BY <1>2 DEF IInv, TypeOK
    <2>2. Cardinality(watched[0]) <= Cardinality(Fd) /\ Cardinality(Fd) \in Nat
      BY <2>1, FS_Subset, FS_CardinalityType, ThreadsAssumption
    <2> QED
      BY <1>3, <2>2, ThreadsAssumption
  <1>5. Net(0) < UINT_MOD - 1
    BY <1>3, <1>4 DEF Net
  <1>6. Inc(active_conection_cnt[0]) = (Net(0) + 1) % UINT_MOD
    BY <1>2, <1>5, CountSteps DEF IInv
  <1>7. (Net(0) + 1) % UINT_MOD \in 0 .. UINT_MOD - 1
    BY <1>3
  <1>8. TypeOK'
    <2>1. active_conection_cnt' \in [Worker -> 0 .. UINT_MOD - 1]
      BY <1>1, <1>6, <1>7 DEF IInv, TypeOK
    <2>2. pc' \in [Thread -> {"loop", "accept", "scan", "count", "discount"}]
      BY <1>1 DEF IInv, TypeOK
    <2> QED
      BY <1>1, <1>2, <2>1, <2>2 DEF IInv, TypeOK
  <1>9. pc'[SERVER] = "loop" /\ \A w \in Worker : pc'[w] = pc[w]
    BY <1>1, <1>2 DEF IInv, TypeOK
  <1>10. Places' /\ HomeOwns'
    BY <1>1, <1>2, <1>9 DEF IInv, Places, HomeOwns, InHand
  <1>11. EventsOwn'
    BY <1>1, BatchesUnmoved
  <1>12. CountExact'
    <2> SUFFICES ASSUME NEW w \in Worker
                 PROVE  active_conection_cnt'[w] = Net(w)' % UINT_MOD
      BY <1>2 DEF CountExact, Net
    <2>1. Closing(w)' = Closing(w) /\ Handed(w)' = 0
      BY <1>9 DEF Closing, Handed
    <2>2. CASE w = 0
      <3>1. Net(w)' = Net(w) + 1
        BY <1>1, <1>3, <2>1, <2>2 DEF Net
      <3>2. active_conection_cnt'[w] = Inc(active_conection_cnt[0])
        BY <1>1, <2>2 DEF IInv, TypeOK
      <3> QED
        BY <1>6, <2>2, <3>1, <3>2
    <2>3. CASE w # 0
      <3>1. active_conection_cnt'[w] = active_conection_cnt[w] /\ Handed(w) = 0
        BY <1>1, <2>3 DEF IInv, TypeOK, Handed, Places
      <3> QED
        BY <1>1, <2>1, <3>1 DEF Net, IInv, CountExact
    <2> QED
      BY <2>2, <2>3
  <1> QED
    BY <1>8, <1>10, <1>11, <1>12 DEF IInv

\* IInv is inductive.
LEMMA ThreadsStep == IInv /\ [Next]_vars => IInv'
  <1> SUFFICES ASSUME IInv, [Next]_vars PROVE IInv'
    OBVIOUS
  <1>1. CASE UNCHANGED vars
    <2>1. TypeOK'
      BY <1>1 DEF IInv, vars, connVars, TypeOK, Worker, Thread
    <2>2. CountExact' /\ Places' /\ HomeOwns' /\ EventsOwn'
      BY <1>1, Unmoved, BatchesUnmoved DEF vars, connVars
    <2> QED
      BY <2>1, <2>2 DEF IInv
  <1>2. ASSUME NEW t \in Thread, Serve(t) PROVE IInv'
    BY <1>2, ThreadsWait, ThreadsData, ThreadsClose DEF Serve
  <1>3. SERVER \in Thread /\ Worker \subseteq Thread
    BY ThreadFacts DEF IInv, Thread
  <1>4. CASE serverRun
    BY <1>2, <1>3, <1>4, ThreadsCallAccept, ThreadsAccept, ThreadsScan, ThreadsHandOver, ThreadsCount DEF serverRun
  <1>5. ASSUME NEW w \in Worker, socketPthreadRun(w) PROVE IInv'
    BY <1>2, <1>3, <1>5, ThreadsDiscount DEF socketPthreadRun
  <1> QED
    BY <1>1, <1>4, <1>5, ThreadsClients DEF Next

-----------------------------------------------------------------------------
(* The theorems                                                            *)

\* The variables keep their types; the counts stay unsigned.
THEOREM ThreadsTyped == Spec => []TypeOK
  <1>1. IInv => TypeOK
    BY DEF IInv
  <1> QED
    BY <1>1, ThreadsInit, ThreadsStep, PTL DEF Spec

(* active_conection_cnt is, modulo its width, the number of connections of *)
(* the worker, off by the one handed over and not counted and by the one   *)
(* closed and not discounted.                                              *)
THEOREM CountAlwaysExact == Spec => []CountExact
  <1>1. IInv => CountExact
    BY DEF IInv
  <1> QED
    BY <1>1, ThreadsInit, ThreadsStep, PTL DEF Spec

(* An open connection is watched by one thread or about to be handed over, *)
(* and no thread has an event of a connection it does not watch.           *)
THEOREM OneOwner == Spec => []Owned
  <1>1. IInv => Owned
    <2> SUFFICES ASSUME IInv PROVE Owned
      OBVIOUS
    <2>1. \A t \in Thread : \A e \in batch[t] : e.fd \in watched[t] \cup {LISTEN_FD}
      BY DEF IInv, EventsOwn
    <2>2. ASSUME NEW f \in open
          PROVE  LET Owners == {t \in Thread : f \in watched[t]}
                 IN  IF pc[SERVER] = "scan" /\ scan.new_socket = f
                     THEN Owners = {} ELSE Cardinality(Owners) = 1
      <3> DEFINE Owners == {t \in Thread : f \in watched[t]}
      <3>1. Home \in Thread
        BY ThreadFacts DEF IInv
      <3>2. CASE f \in InHand
        BY <3>1, <3>2 DEF IInv, HomeOwns, InHand
      <3>3. CASE f \notin InHand
        <4>1. Owners = {Home}
          BY <3>1, <3>3 DEF IInv, HomeOwns
        <4>2. Cardinality(Owners) = 1
          BY <4>1, FS_Singleton
        <4> QED
          BY <3>3, <4>2 DEF InHand
      <3> QED
        BY <3>2, <3>3
    <2> QED
      BY <2>1, <2>2 DEF Owned
  <1> QED
    BY <1>1, ThreadsInit, ThreadsStep, PTL DEF Spec

=============================================================================
