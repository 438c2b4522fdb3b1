---------------------------- MODULE ReactorProofs ----------------------------
(***************************************************************************)
(* Proofs about Reactor, for any set of descriptors, any number of records *)
(* per block and any buffer length that is a multiple of 256: the table of *)
(* src/reactor/server.c mirrors the kernel's epoll set, a batch holds      *)
(* nothing that is out of date, the echo is exact, and recv is not called  *)
(* for a client that has nothing to say, which would hold the only thread. *)
(***************************************************************************)
EXTENDS Reactor, TLAPS

\* The three properties support each other; no further part is needed.
IInv == RecordsInv /\ BatchCurrent /\ EchoExact

-----------------------------------------------------------------------------
(* The table                                                               *)

\* ntyreactor_idx gives different descriptors different records.
LEMMA SlotInjective ==
    ASSUME NEW f \in AllFds, NEW g \in AllFds, SlotOf(f) = SlotOf(g)
    PROVE  f = g
  <1> DEFINE m == MAX_EPOLL_EVENTS
  <1>1. f \in Nat /\ g \in Nat /\ m \in Nat \ {0}
    BY ReactorAssumption DEF AllFds
  <1>2. f \div m = g \div m /\ f % m = g % m
    BY DEF SlotOf
  <1>3. /\ f = m * (f \div m) + (f % m)
        /\ g = m * (g \div m) + (g % m)
    BY <1>1
  <1> QED
    BY <1>2, <1>3

\* The facts about descriptors and records that the steps use.
LEMMA ReactorFacts ==
    /\ \A f \in AllFds : f \in Nat /\ SlotOf(f) \in Slot
    /\ \A f \in AllFds : SlotOf(f)[1] = f \div MAX_EPOLL_EVENTS /\ SlotOf(f)[1] \in Nat
    /\ LISTEN_FD \in AllFds /\ LISTEN_FD \notin Fd /\ Fd \subseteq AllFds
    /\ \A f, g \in AllFds : SlotOf(f) = SlotOf(g) => f = g
  <1>1. \A f \in AllFds : f \in Nat /\ SlotOf(f) \in Slot
    BY ReactorAssumption DEF AllFds, Slot
  <1>2. \A f \in AllFds : f \div MAX_EPOLL_EVENTS \in Nat
    BY <1>1, ReactorAssumption
  <1>3. \A f \in AllFds : SlotOf(f)[1] = f \div MAX_EPOLL_EVENTS
    BY DEF SlotOf
  <1> QED
    BY <1>1, <1>2, <1>3, SlotInjective, ReactorAssumption DEF AllFds

(* What recv_cb stores in length is what recv returned, also when the      *)
(* buffer is full and its terminating 0 hits length itself.                *)
LEMMA LengthExact ==
    ASSUME NEW len \in Nat, len <= BUFFER_LENGTH
    PROVE  Length(len) = len
  BY ReactorAssumption, BufferAssumption DEF Length

\* epoll_ctl with EPOLL_CTL_ADD for a descriptor that is not in the set.
LEMMA AddSucceeds ==
    ASSUME NEW r, NEW slot, NEW mask, r.status = 0
    PROVE  KernelAdd(r, Unregistered, slot, mask) = [mask |-> mask, ptr |-> slot]
  BY DEF KernelAdd

\* What nty_event_set and nty_event_add leave in the table and in the kernel.
Registered(f, r, cb, mask) ==
    /\ ev' \in [Slot -> Record] /\ reg' \in [AllFds -> Entry]
    /\ ev'[SlotOf(f)].fd = f /\ ev'[SlotOf(f)].status = 1
    /\ ev'[SlotOf(f)].callback = cb /\ ev'[SlotOf(f)].events = mask
    /\ ev'[SlotOf(f)].length = r.length
    /\ reg'[f] = [mask |-> mask, ptr |-> SlotOf(f)]
    /\ \A g \in AllFds \ {f} : ev'[SlotOf(g)] = ev[SlotOf(g)] /\ reg'[g] = reg[g]
    /\ blkcnt' \in Nat /\ blkcnt' >= blkcnt /\ SlotOf(f)[1] < blkcnt'

\* nty_event_set and nty_event_add give an unused record and its entry their contents.
LEMMA RegisterEffect ==
    ASSUME TypeOK, NEW f \in Fd, NEW r \in Record, r.status = 0,
           NEW cb, NEW mask, <<cb, mask>> \in {<<"recv_cb", "IN">>, <<"send_cb", "OUT">>},
           Register(f, r, Unregistered, cb, mask)
    PROVE  Registered(f, r, cb, mask)
  <1> DEFINE n == Add(Set(r, f, cb), mask)
  <1>0. cb \in {"recv_cb", "send_cb"} /\ mask \in {"IN", "OUT"}
    OBVIOUS
  <1>1. f \in AllFds /\ SlotOf(f) \in Slot
    BY ReactorFacts
  <1>2. Set(r, f, cb) \in Record /\ Set(r, f, cb).fd = f /\ Set(r, f, cb).callback = cb
        /\ Set(r, f, cb).length = r.length
    BY <1>0, <1>1 DEF Set, Record, NONE
  <1>3. /\ n \in Record /\ n.fd = f /\ n.status = 1 /\ n.callback = cb /\ n.events = mask
        /\ n.length = r.length
    BY <1>0, <1>2 DEF Add, Record
  <1>4. ev' = [ev EXCEPT ![SlotOf(f)] = n]
    BY DEF Register
  <1>5. reg' = [reg EXCEPT ![f] = [mask |-> mask, ptr |-> SlotOf(f)]]
    BY AddSucceeds DEF Register
  <1>6. [mask |-> mask, ptr |-> SlotOf(f)] \in Entry
    BY <1>0, <1>1 DEF Entry
  <1> HIDE DEF n
  <1>7. ev' \in [Slot -> Record] /\ ev'[SlotOf(f)] = n
        /\ \A g \in AllFds \ {f} : ev'[SlotOf(g)] = ev[SlotOf(g)]
    BY <1>1, <1>3, <1>4, ReactorFacts DEF TypeOK
  <1>8. reg' \in [AllFds -> Entry] /\ reg'[f] = [mask |-> mask, ptr |-> SlotOf(f)]
        /\ \A g \in AllFds \ {f} : reg'[g] = reg[g]
    BY <1>1, <1>5, <1>6 DEF TypeOK
  <1>9. blkcnt' \in Nat /\ blkcnt' >= blkcnt /\ SlotOf(f)[1] < blkcnt'
    <2>1. f \div MAX_EPOLL_EVENTS \in Nat /\ SlotOf(f)[1] = f \div MAX_EPOLL_EVENTS
      BY <1>1, ReactorFacts
    <2> QED
      BY <2>1 DEF Register, Grown, TypeOK
  <1> QED
    BY <1>3, <1>7, <1>8, <1>9 DEF Registered

\* Registering descriptor f for recv_cb or send_cb keeps table and kernel in step.
LEMMA RegisterKeeps ==
    ASSUME RecordsInv, NEW f \in Fd, NEW r \in Record, r.status = 0,
           NEW cb, NEW mask, <<cb, mask>> \in {<<"recv_cb", "IN">>, <<"send_cb", "OUT">>},
           Register(f, r, Unregistered, cb, mask), open' = open \cup {f}
    PROVE  BlocksCover' /\ StatusMirrorsEpoll'
  <1>1. TypeOK /\ cb \in {"recv_cb", "send_cb"} /\ mask \in {"IN", "OUT"}
    BY DEF RecordsInv
  <1>1a. Registered(f, r, cb, mask)
    BY <1>1, RegisterEffect
  <1>2. /\ ev'[SlotOf(f)].fd = f /\ ev'[SlotOf(f)].status = 1
        /\ ev'[SlotOf(f)].callback = cb /\ ev'[SlotOf(f)].events = mask
        /\ reg'[f] = [mask |-> mask, ptr |-> SlotOf(f)]
        /\ \A g \in AllFds \ {f} : ev'[SlotOf(g)] = ev[SlotOf(g)] /\ reg'[g] = reg[g]
        /\ blkcnt' \in Nat /\ blkcnt' >= blkcnt /\ SlotOf(f)[1] < blkcnt'
    BY <1>1a DEF Registered
  <1>3. open \subseteq Fd /\ Fd \subseteq AllFds /\ LISTEN_FD \in AllFds \ {f} /\ blkcnt \in Nat
    BY ReactorFacts DEF RecordsInv, TypeOK
  <1>4. BlocksCover'
    BY <1>2, <1>3, ReactorFacts DEF RecordsInv, BlocksCover
  <1>5. OpenRegistered'
    <2> SUFFICES ASSUME NEW g \in open'
                 PROVE  /\ ev'[SlotOf(g)].fd = g /\ ev'[SlotOf(g)].status = 1
                        /\ reg'[g] = [mask |-> ev'[SlotOf(g)].events, ptr |-> SlotOf(g)]
                        /\ <<ev'[SlotOf(g)].callback, ev'[SlotOf(g)].events>>
                              \in {<<"recv_cb", "IN">>, <<"send_cb", "OUT">>}
      BY DEF OpenRegistered
    <2>1. CASE g = f
      BY <1>2, <2>1
    <2>2. CASE g # f
      <3>1. g \in open /\ ev'[SlotOf(g)] = ev[SlotOf(g)] /\ reg'[g] = reg[g]
        BY <1>2, <1>3, <2>2
      <3> QED
        BY <3>1 DEF RecordsInv, StatusMirrorsEpoll, OpenRegistered
    <2> QED
      BY <2>1, <2>2
  <1>6. ClosedUnregistered'
    BY <1>2, <1>3 DEF RecordsInv, StatusMirrorsEpoll, ClosedUnregistered
  <1>7. ListenRegistered'
    BY <1>2, <1>3 DEF RecordsInv, StatusMirrorsEpoll, ListenRegistered
  <1> QED
    BY <1>4, <1>5, <1>6, <1>7 DEF StatusMirrorsEpoll

(* An event of the batch is the current entry of an open descriptor or of  *)
(* the listening socket, and its record names that descriptor.             *)
LEMMA DispatchEvent ==
    ASSUME IInv, NEW e, NEW cb, Dispatch(e, cb)
    PROVE  /\ alive /\ e \in batch /\ batch' = batch \ {e} /\ passed' = passed
           /\ ev[e.ptr].fd \in open \cup {LISTEN_FD}
           /\ e.ptr = SlotOf(ev[e.ptr].fd) /\ e = reg[ev[e.ptr].fd]
           /\ ev[SlotOf(ev[e.ptr].fd)].callback = cb
           /\ ev[SlotOf(ev[e.ptr].fd)].events = e.mask
           /\ cb = "accept_cb" => ev[e.ptr].fd = LISTEN_FD
           /\ cb # "accept_cb" => ev[e.ptr].fd \in open
  <1>1. alive /\ e \in batch /\ batch' = batch \ {e} /\ passed' = passed
        /\ ev[e.ptr].events = e.mask /\ ev[e.ptr].callback = cb
    BY DEF Dispatch
  <1>2. PICK g \in open \cup {LISTEN_FD} : e = reg[g]
    BY <1>1 DEF IInv, BatchCurrent
  <1>3. CASE g = LISTEN_FD
    BY <1>1, <1>2, <1>3
    DEF IInv, RecordsInv, StatusMirrorsEpoll, ListenRegistered
  <1>4. CASE g \in open
    <2>1. /\ ev[SlotOf(g)].fd = g
          /\ reg[g] = [mask |-> ev[SlotOf(g)].events, ptr |-> SlotOf(g)]
          /\ <<ev[SlotOf(g)].callback, ev[SlotOf(g)].events>>
                \in {<<"recv_cb", "IN">>, <<"send_cb", "OUT">>}
      BY <1>4 DEF IInv, RecordsInv, StatusMirrorsEpoll, OpenRegistered
    <2>2. e.ptr = SlotOf(g)
      BY <1>2, <2>1
    <2>3. ev[SlotOf(g)].callback # "accept_cb"
      BY <2>1
    <2> QED
      BY <1>1, <1>2, <1>4, <2>1, <2>2, <2>3
  <1> QED
    BY <1>3, <1>4

(* Handling the event of f leaves the rest of the batch current, because   *)
(* only the entry of f changes and no other entry names its record.        *)
LEMMA BatchKept ==
    ASSUME IInv, NEW f \in Fd, NEW e, alive, batch' = batch \ {e},
           e = reg[f] \/ f \notin open, open \ {f} \subseteq open',
           \A g \in AllFds \ {f} : reg'[g] = reg[g]
    PROVE  BatchCurrent'
  <1> SUFFICES ASSUME NEW d \in batch', alive'
               PROVE  \E g \in open' \cup {LISTEN_FD} : d = reg'[g]
    BY DEF BatchCurrent
  <1>1. d \in batch /\ d # e
    OBVIOUS
  <1>2. PICK g \in open \cup {LISTEN_FD} : d = reg[g]
    BY <1>1 DEF IInv, BatchCurrent
  <1>3. g # f
    BY <1>1, <1>2, ReactorFacts
  <1>4. g \in open' \cup {LISTEN_FD} /\ reg'[g] = reg[g]
    BY <1>2, <1>3, ReactorFacts DEF IInv, RecordsInv, TypeOK
  <1> QED
    BY <1>2, <1>4

-----------------------------------------------------------------------------
(* The invariant                                                           *)

\* main registers the listening socket before it runs the loop.
LEMMA ReactorInit == Init => IInv
  <1> SUFFICES ASSUME Init PROVE IInv
    OBVIOUS
  <1> DEFINE z == Set(Zero, LISTEN_FD, "accept_cb")
             l == Add(z, "IN")
  <1>1. Zero \in Record /\ Zero.status = 0
    BY DEF Record, Zero, NONE
  <1>2. ev = [s \in Slot |-> IF s = SlotOf(LISTEN_FD) THEN l ELSE Zero]
    BY DEF Init
  <1>3. l \in Record /\ l.fd = LISTEN_FD /\ l.status = 1 /\ l.callback = "accept_cb"
        /\ l.events = "IN"
    <2>1. z \in Record /\ z.fd = LISTEN_FD /\ z.callback = "accept_cb"
      BY <1>1, ReactorFacts DEF Set, Record, NONE
    <2> HIDE DEF z
    <2> QED
      BY <2>1 DEF Add, Record
  <1>4. Unregistered \in Entry /\ [mask |-> "IN", ptr |-> SlotOf(LISTEN_FD)] \in Entry
    BY ReactorFacts DEF Entry
  <1> HIDE DEF l
  <1>5. ev \in [Slot -> Record] /\ ev[SlotOf(LISTEN_FD)] = l
        /\ \A f \in Fd : ev[SlotOf(f)] = Zero
    BY <1>1, <1>2, <1>3, ReactorFacts
  <1>6. /\ reg \in [AllFds -> Entry]
        /\ reg[LISTEN_FD] = [mask |-> "IN", ptr |-> SlotOf(LISTEN_FD)]
        /\ \A f \in Fd : reg[f] = Unregistered
    BY <1>4, ReactorFacts DEF Init
  <1>7. blkcnt \in Nat /\ SlotOf(LISTEN_FD)[1] < blkcnt
    BY ReactorFacts DEF Init
  <1>8. TypeOK
    <2>1. unread \in [Fd -> Nat] /\ owed \in [Fd -> Int]
      BY DEF Init
    <2>2. peer \in [Fd -> {"up", "fin", "rst", "pipe"}]
      BY DEF Init
    <2>3. open = {} /\ waiting = 0 /\ batch = {} /\ passed = {} /\ alive = TRUE
      BY DEF Init
    <2> QED
      BY <1>5, <1>6, <1>7, <2>1, <2>2, <2>3 DEF TypeOK
  <1>9. BlocksCover
    BY <1>7 DEF Init, BlocksCover
  <1>10. StatusMirrorsEpoll
    <2>1. open = {}
      BY DEF Init
    <2>2. ClosedUnregistered
      BY <1>1, <1>5, <1>6 DEF ClosedUnregistered
    <2>3. ListenRegistered
      <3>1. l.fd = LISTEN_FD /\ l.status = 1 /\ l.callback = "accept_cb" /\ l.events = "IN"
        BY <1>3
      <3> HIDE DEF l
      <3> QED
        BY <1>5, <1>6, <3>1 DEF ListenRegistered
    <2> QED
      BY <2>1, <2>2, <2>3 DEF StatusMirrorsEpoll, OpenRegistered
  <1> QED
    BY <1>8, <1>9, <1>10 DEF Init, IInv, RecordsInv, BatchCurrent, EchoExact

\* Steps that leave table, kernel and descriptors alone.
LEMMA TableUnmoved ==
    ASSUME IInv, UNCHANGED <<blkcnt, ev, reg, open, owed>>
    PROVE  BlocksCover' /\ StatusMirrorsEpoll' /\ EchoExact'
  BY DEF IInv, RecordsInv, BlocksCover, StatusMirrorsEpoll, OpenRegistered,
         ClosedUnregistered, ListenRegistered, EchoExact

\* The clients only add connections, input and hang-ups.
LEMMA ReactorClients == IInv /\ Clients => IInv'
  <1> SUFFICES ASSUME IInv, Clients PROVE IInv'
    OBVIOUS
  <1>1. UNCHANGED <<blkcnt, ev, reg, open, owed, batch, passed, alive>>
    BY DEF Clients, Connect, Abort, Send, HangUp
  <1>2. waiting' \in Nat /\ unread' \in [Fd -> Nat]
        /\ peer' \in [Fd -> {"up", "fin", "rst", "pipe"}]
    <2>1. CASE Connect \/ Abort
      BY <2>1 DEF Connect, Abort, IInv, RecordsInv, TypeOK
    <2>2. ASSUME NEW f \in Fd, NEW size \in Sizes, Send(f, size)
          PROVE  waiting' \in Nat /\ unread' \in [Fd -> Nat]
                 /\ peer' \in [Fd -> {"up", "fin", "rst", "pipe"}]
      BY <2>2, ReactorAssumption DEF Send, IInv, RecordsInv, TypeOK
    <2>3. ASSUME NEW f \in Fd, HangUp(f)
          PROVE  waiting' \in Nat /\ unread' \in [Fd -> Nat]
                 /\ peer' \in [Fd -> {"up", "fin", "rst", "pipe"}]
      BY <2>3 DEF HangUp, IInv, RecordsInv, TypeOK
    <2> QED
      BY <2>1, <2>2, <2>3 DEF Clients
  <1>3. TypeOK'
    BY <1>1, <1>2 DEF IInv, RecordsInv, TypeOK
  <1>4. BatchCurrent'
    BY <1>1 DEF IInv, BatchCurrent
  <1> QED
    BY <1>1, <1>3, <1>4, TableUnmoved DEF IInv, RecordsInv

\* epoll_wait reports entries of open descriptors and of the listening socket.
LEMMA ReactorWait == IInv /\ EpollWait => IInv'
  <1> SUFFICES ASSUME IInv, EpollWait PROVE IInv'
    OBVIOUS
  <1>1. UNCHANGED <<blkcnt, ev, reg, open, waiting, unread, peer, owed, alive>>
    BY DEF EpollWait, sockVars
  <1>w. PICK S \in SUBSET Reported : batch' = {reg[f] : f \in S} /\ passed' = Reported \ S
    BY DEF EpollWait, Batches
  <1>2. ASSUME NEW f \in Reported
        PROVE  f \in open \cup {LISTEN_FD} /\ reg[f] \in [mask : {"IN", "OUT"}, ptr : Slot]
    <2>1. f \in AllFds /\ reg[f].mask \in {"IN", "OUT"}
      BY DEF Reported
    <2>2. reg[f] # Unregistered
      BY <2>1 DEF Unregistered, NONE
    <2> QED
      BY <2>1, <2>2 DEF AllFds, IInv, RecordsInv, StatusMirrorsEpoll, ClosedUnregistered,
         TypeOK, Entry
  <1>3. TypeOK'
    <2>1. batch' \in SUBSET [mask : {"IN", "OUT"}, ptr : Slot] /\ passed' \subseteq AllFds
      BY <1>w, <1>2 DEF Reported
    <2> QED
      BY <1>1, <2>1 DEF IInv, RecordsInv, TypeOK
  <1>4. BatchCurrent'
    BY <1>1, <1>w, <1>2 DEF BatchCurrent
  <1> QED
    BY <1>1, <1>3, <1>4, TableUnmoved DEF IInv, RecordsInv

\* accept_cb: a closed descriptor has an unused record and no registration.
LEMMA ReactorAccept == ASSUME IInv, NEW e, AcceptCb(e) \/ AcceptFails(e) PROVE IInv'
  <1>1. Dispatch(e, "accept_cb")
    BY DEF AcceptCb, AcceptFails
  <1>2. alive /\ e \in batch /\ batch' = batch \ {e} /\ passed' = passed /\ e = reg[LISTEN_FD]
    BY <1>1, DispatchEvent
  <1>3. CASE AcceptFails(e)
    <2>1. UNCHANGED <<blkcnt, ev, reg, open, waiting, unread, peer, owed, alive>>
      BY <1>3 DEF AcceptFails, sockVars
    <2>2. TypeOK' /\ BatchCurrent'
      BY <1>2, <2>1 DEF IInv, RecordsInv, TypeOK, BatchCurrent
    <2> QED
      BY <2>1, <2>2, TableUnmoved DEF IInv, RecordsInv
  <1>4. CASE AcceptCb(e)
    <2>1. PICK f \in Fd \ open :
             /\ open' = open \cup {f}
             /\ unread' = [unread EXCEPT ![f] = 0]
             /\ peer' = [peer EXCEPT ![f] = "up"]
             /\ owed' = [owed EXCEPT ![f] = 0]
             /\ Register(f, ev[SlotOf(f)], reg[f], "recv_cb", "IN")
      BY <1>4 DEF AcceptCb
    <2>2. waiting > 0 /\ waiting' = waiting - 1 /\ alive' = alive
      BY <1>4 DEF AcceptCb
    <2>3. reg[f] = Unregistered /\ ev[SlotOf(f)] \in Record /\ ev[SlotOf(f)].status = 0
      BY ReactorFacts
      DEF IInv, RecordsInv, StatusMirrorsEpoll, ClosedUnregistered, TypeOK
    <2>4. Register(f, ev[SlotOf(f)], Unregistered, "recv_cb", "IN")
      BY <2>1, <2>3
    <2>5. /\ ev' \in [Slot -> Record] /\ reg' \in [AllFds -> Entry] /\ blkcnt' \in Nat
          /\ ev'[SlotOf(f)].events = "IN"
          /\ \A g \in AllFds \ {f} : ev'[SlotOf(g)] = ev[SlotOf(g)] /\ reg'[g] = reg[g]
      <3>1. TypeOK /\ f \in Fd
        BY DEF IInv, RecordsInv
      <3>2. <<"recv_cb", "IN">> \in {<<"recv_cb", "IN">>, <<"send_cb", "OUT">>}
        OBVIOUS
      <3>3. Registered(f, ev[SlotOf(f)], "recv_cb", "IN")
        BY <2>3, <2>4, <3>1, <3>2, RegisterEffect
      <3> QED
        BY <3>3 DEF Registered
    <2>6. TypeOK'
      BY <1>2, <2>1, <2>2, <2>5 DEF IInv, RecordsInv, TypeOK
    <2>7. BlocksCover' /\ StatusMirrorsEpoll'
      BY <2>1, <2>3, <2>4, RegisterKeeps DEF IInv
    <2>8. BatchCurrent'
      BY <1>2, <2>1, <2>2, <2>5, BatchKept
    <2>9. EchoExact'
      BY <2>1, <2>5, ReactorFacts DEF IInv, EchoExact, RecordsInv, TypeOK
    <2> QED
      BY <2>6, <2>7, <2>8, <2>9 DEF IInv, RecordsInv
  <1> QED
    BY <1>3, <1>4

(* Moving descriptor f between recv_cb and send_cb: nty_event_del, then    *)
(* nty_event_set and nty_event_add, with r the record in between.          *)
LEMMA ReactorTurn ==
    ASSUME IInv, NEW f \in open, NEW e, e = reg[f], alive, batch' = batch \ {e},
           NEW r \in Record, r.status = 0, NEW cb, NEW mask,
           <<cb, mask>> \in {<<"recv_cb", "IN">>, <<"send_cb", "OUT">>},
           Register(f, r, Unregistered, cb, mask),
           unread' \in [Fd -> Nat], owed' \in [Fd -> Int],
           \A g \in Fd \ {f} : owed'[g] = owed[g],
           owed'[f] = IF mask = "OUT" THEN r.length ELSE 0,
           UNCHANGED <<open, waiting, peer, passed, alive>>
    PROVE  IInv'
  <1>1. /\ TypeOK /\ f \in Fd /\ open' = open \cup {f}
        /\ cb \in {"recv_cb", "send_cb"} /\ mask \in {"IN", "OUT"}
    BY DEF IInv, RecordsInv, TypeOK
  <1>2. /\ ev' \in [Slot -> Record] /\ reg' \in [AllFds -> Entry] /\ blkcnt' \in Nat
        /\ ev'[SlotOf(f)].events = mask /\ ev'[SlotOf(f)].length = r.length
        /\ \A g \in AllFds \ {f} : ev'[SlotOf(g)] = ev[SlotOf(g)] /\ reg'[g] = reg[g]
    <2>1. Registered(f, r, cb, mask)
      BY <1>1, RegisterEffect
    <2> QED
      BY <2>1 DEF Registered
  <1>3. TypeOK'
    BY <1>2 DEF IInv, RecordsInv, TypeOK
  <1>4. BlocksCover' /\ StatusMirrorsEpoll'
    BY <1>1, RegisterKeeps DEF IInv
  <1>5. BatchCurrent'
    BY <1>1, <1>2, BatchKept
  <1>6. EchoExact'
    <2> SUFFICES ASSUME NEW g \in open
                 PROVE  owed'[g] = IF ev'[SlotOf(g)].events = "OUT" THEN ev'[SlotOf(g)].length
                                   ELSE 0
      BY DEF EchoExact
    <2>1. CASE g = f
      BY <1>2, <2>1
    <2>2. CASE g # f
      <3>1. g \in Fd /\ ev'[SlotOf(g)] = ev[SlotOf(g)] /\ owed'[g] = owed[g]
        BY <1>2, <2>2, ReactorFacts DEF IInv, RecordsInv, TypeOK
      <3> QED
        BY <3>1 DEF IInv, EchoExact
    <2> QED
      BY <2>1, <2>2
  <1> QED
    BY <1>3, <1>4, <1>5, <1>6 DEF IInv, RecordsInv

\* nty_event_del on the record and the entry of an open descriptor.
LEMMA DelOpen ==
    ASSUME IInv, NEW f \in open
    PROVE  /\ KernelDel(ev[SlotOf(f)], reg[f]) = Unregistered
           /\ Del(ev[SlotOf(f)]) \in Record /\ Del(ev[SlotOf(f)]).status = 0
           /\ Del(ev[SlotOf(f)]).length = ev[SlotOf(f)].length
           /\ ev[SlotOf(f)].length \in Nat
  <1>1. ev[SlotOf(f)] \in Record /\ ev[SlotOf(f)].status = 1
    BY ReactorFacts DEF IInv, RecordsInv, TypeOK, StatusMirrorsEpoll, OpenRegistered
  <1> QED
    BY <1>1 DEF KernelDel, Del, Record

\* recv_cb with data: the descriptor turns to sending what it received.
LEMMA ReactorRecv == ASSUME IInv, NEW e, RecvData(e) PROVE IInv'
  <1> DEFINE f == ev[e.ptr].fd
             s == SlotOf(f)
             n == Received(f)
             r == [Del(ev[s]) EXCEPT !.length = Length(n)]
  <1>1. /\ Dispatch(e, "recv_cb") /\ unread[f] > 0
        /\ unread' = [unread EXCEPT ![f] = @ - n]
        /\ owed' = [owed EXCEPT ![f] = @ + n]
        /\ Register(f, r, KernelDel(ev[s], reg[f]), "send_cb", "OUT")
        /\ UNCHANGED <<open, waiting, peer, alive>>
    BY DEF RecvData
  <1>2. /\ alive /\ e \in batch /\ batch' = batch \ {e} /\ f \in open
        /\ passed' = passed /\ e = reg[f] /\ ev[s].callback = "recv_cb"
    BY <1>1, DispatchEvent
  <1>3. KernelDel(ev[s], reg[f]) = Unregistered /\ Del(ev[s]) \in Record
        /\ Del(ev[s]).status = 0
    BY <1>2, DelOpen
  <1>4. f \in Fd /\ unread[f] \in Nat /\ owed[f] \in Int
    BY <1>2 DEF IInv, RecordsInv, TypeOK
  <1>5. n \in Nat /\ n <= BUFFER_LENGTH /\ n <= unread[f]
    BY <1>4, ReactorAssumption DEF Received
  <1>6. Length(n) = n
    BY <1>5, LengthExact
  <1>7. ev[s].events = "IN"
    BY <1>2 DEF IInv, RecordsInv, StatusMirrorsEpoll, OpenRegistered
  <1>8. owed[f] = 0
    BY <1>2, <1>7 DEF IInv, EchoExact
  <1>9. r \in Record /\ r.status = 0 /\ r.length = n
    BY <1>3, <1>5, <1>6 DEF Record
  <1> HIDE DEF f, s, n, r
  <1>10. unread' \in [Fd -> Nat]
    BY <1>1, <1>4, <1>5 DEF IInv, RecordsInv, TypeOK
  <1>11. owed' \in [Fd -> Int] /\ owed'[f] = n /\ \A g \in Fd \ {f} : owed'[g] = owed[g]
    BY <1>1, <1>4, <1>5, <1>8 DEF IInv, RecordsInv, TypeOK
  <1> QED
    BY <1>1, <1>2, <1>3, <1>9, <1>10, <1>11, ReactorTurn

\* send_cb: the answer goes out whole, the descriptor turns to receiving.
LEMMA ReactorSend == ASSUME IInv, NEW e, SendCb(e) PROVE IInv'
  <1> DEFINE f == ev[e.ptr].fd
             s == SlotOf(f)
             r == Del(ev[s])
  <1>1. /\ Dispatch(e, "send_cb")
        /\ owed' = [owed EXCEPT ![f] = @ - ev[s].length]
        /\ Register(f, r, KernelDel(ev[s], reg[f]), "recv_cb", "IN")
        /\ UNCHANGED <<open, waiting, unread, peer, alive>>
    BY DEF SendCb
  <1>2. /\ alive /\ e \in batch /\ batch' = batch \ {e} /\ f \in open
        /\ passed' = passed /\ e = reg[f] /\ ev[s].callback = "send_cb"
    BY <1>1, DispatchEvent
  <1>3. /\ KernelDel(ev[s], reg[f]) = Unregistered /\ r \in Record /\ r.status = 0
        /\ ev[s].length \in Nat
    BY <1>2, DelOpen
  <1>4. f \in Fd /\ owed[f] \in Int /\ unread \in [Fd -> Nat]
    BY <1>2 DEF IInv, RecordsInv, TypeOK
  <1>5. ev[s].events = "OUT"
    BY <1>2 DEF IInv, RecordsInv, StatusMirrorsEpoll, OpenRegistered
  <1>6. owed[f] = ev[s].length
    BY <1>2, <1>5 DEF IInv, EchoExact
  <1> HIDE DEF f, s, r
  <1>7. owed' \in [Fd -> Int] /\ owed'[f] = 0 /\ \A g \in Fd \ {f} : owed'[g] = owed[g]
    BY <1>1, <1>3, <1>4, <1>6 DEF IInv, RecordsInv, TypeOK
  <1> QED
    BY <1>1, <1>2, <1>3, <1>4, <1>7, ReactorTurn

\* close: record and kernel forget the descriptor together.
LEMMA ReactorClose == ASSUME IInv, NEW e, RecvEnd(e) \/ SendFails(e) PROVE IInv'
  <1> DEFINE f == ev[e.ptr].fd
             s == SlotOf(f)
  <1>1. /\ Dispatch(e, "recv_cb") \/ Dispatch(e, "send_cb")
        /\ Close(f) /\ UNCHANGED <<blkcnt, waiting, alive>>
    BY DEF RecvEnd, SendFails
  <1>2. /\ alive /\ e \in batch /\ batch' = batch \ {e} /\ passed' = passed
        /\ f \in open /\ e = reg[f]
    BY <1>1, DispatchEvent
  <1>3. Del(ev[s]) \in Record /\ Del(ev[s]).status = 0
    BY <1>2, DelOpen
  <1> HIDE DEF f, s
  <1>4. f \in Fd /\ f \in AllFds /\ f # LISTEN_FD /\ SlotOf(f) \in Slot
    BY <1>2, ReactorFacts DEF IInv, RecordsInv, TypeOK
  <1>5. /\ open' = open \ {f} /\ reg' = [reg EXCEPT ![f] = Unregistered]
        /\ ev' = [ev EXCEPT ![SlotOf(f)] = Del(ev[s])]
        /\ unread' = [unread EXCEPT ![f] = 0] /\ peer' = [peer EXCEPT ![f] = "up"]
        /\ owed' = [owed EXCEPT ![f] = 0]
    BY <1>1 DEF Close, s
  <1>6. ev' \in [Slot -> Record] /\ ev'[SlotOf(f)].status = 0
        /\ \A g \in AllFds \ {f} : ev'[SlotOf(g)] = ev[SlotOf(g)]
    BY <1>3, <1>4, <1>5, ReactorFacts DEF IInv, RecordsInv, TypeOK
  <1>7. reg' \in [AllFds -> Entry] /\ reg'[f] = Unregistered
        /\ \A g \in AllFds \ {f} : reg'[g] = reg[g]
    BY <1>4, <1>5 DEF IInv, RecordsInv, TypeOK, Entry
  <1>8. TypeOK'
    BY <1>1, <1>2, <1>4, <1>5, <1>6, <1>7 DEF IInv, RecordsInv, TypeOK
  <1>9. BlocksCover'
    BY <1>1, <1>5 DEF IInv, RecordsInv, BlocksCover
  <1>10. \A g \in open' : g \in open /\ g # f /\ g \in AllFds /\ g \in Fd
    BY <1>5, ReactorFacts DEF IInv, RecordsInv, TypeOK
  <1>11. OpenRegistered'
    BY <1>6, <1>7, <1>10 DEF IInv, RecordsInv, StatusMirrorsEpoll, OpenRegistered
  <1>12. ClosedUnregistered'
    BY <1>5, <1>6, <1>7, ReactorFacts
    DEF IInv, RecordsInv, StatusMirrorsEpoll, ClosedUnregistered
  <1>13. ListenRegistered'
    BY <1>4, <1>6, <1>7, ReactorFacts
    DEF IInv, RecordsInv, StatusMirrorsEpoll, ListenRegistered
  <1>14. BatchCurrent'
    BY <1>2, <1>4, <1>5, <1>7, BatchKept
  <1>15. EchoExact'
    BY <1>5, <1>6, <1>10 DEF IInv, RecordsInv, TypeOK, EchoExact
  <1> QED
    BY <1>8, <1>9, <1>11, <1>12, <1>13, <1>14, <1>15 DEF IInv, RecordsInv, StatusMirrorsEpoll

\* SIGPIPE ends the process and the loop with it.
LEMMA ReactorPipe == ASSUME IInv, NEW e, SigPipe(e) PROVE IInv'
  <1>1. /\ UNCHANGED <<blkcnt, ev, reg, open, waiting, unread, peer, owed>>
        /\ alive' = FALSE /\ batch' = batch \ {e} /\ passed' = passed
    BY DEF SigPipe, Dispatch, sockVars
  <1>2. TypeOK' /\ BatchCurrent'
    BY <1>1 DEF IInv, RecordsInv, TypeOK, BatchCurrent
  <1> QED
    BY <1>1, <1>2, TableUnmoved DEF IInv, RecordsInv

\* IInv is inductive.
LEMMA ReactorStep == IInv /\ [Next]_vars => IInv'
  <1>1. ASSUME IInv, UNCHANGED vars PROVE IInv'
    <2>1. UNCHANGED <<blkcnt, ev, reg, open, waiting, unread, peer, owed, batch, passed, alive>>
      BY <1>1 DEF vars, sockVars
    <2>2. TypeOK' /\ BatchCurrent'
      BY <1>1, <2>1 DEF IInv, RecordsInv, TypeOK, BatchCurrent
    <2> QED
      BY <1>1, <2>1, <2>2, TableUnmoved DEF IInv, RecordsInv
  <1>2. ASSUME IInv, Server PROVE IInv'
    BY <1>2, ReactorWait, ReactorAccept, ReactorRecv, ReactorSend, ReactorClose, ReactorPipe
    DEF Server
  <1> QED
    BY <1>1, <1>2, ReactorClients DEF Next, Killed

-----------------------------------------------------------------------------
(* The theorems                                                            *)

(* ev->status and the kernel's epoll set agree in every state, so that no  *)
(* epoll_ctl of the reactor fails, and every record in use lies in a block *)
(* that was allocated.                                                     *)
THEOREM TableMirrorsEpoll == Spec => []RecordsInv
  <1>1. IInv => RecordsInv
    BY DEF IInv
  <1> QED
    BY <1>1, ReactorInit, ReactorStep, PTL DEF Spec

\* No handler of a batch invalidates the event of another.
THEOREM BatchStaysCurrent == Spec => []BatchCurrent
  <1>1. IInv => BatchCurrent
    BY DEF IInv
  <1> QED
    BY <1>1, ReactorInit, ReactorStep, PTL DEF Spec

(* The reactor owes a client exactly what it is about to send, also after  *)
(* recv filled the whole buffer.                                           *)
THEOREM EchoAlwaysExact == Spec => []EchoExact
  <1>1. IInv => EchoExact
    BY DEF IInv
  <1> QED
    BY <1>1, ReactorInit, ReactorStep, PTL DEF Spec

-----------------------------------------------------------------------------
(* The loop never waits in a callback                                      *)

\* A client's socket whose input event is still to be handled has something to read.
BatchReady ==
    alive => \A f \in open :
        reg[f] \in batch /\ reg[f].mask = "IN" => Readable(f)

\* A descriptor that waits for room to send has something to send.
AnswerWaits == \A f \in open : ev[SlotOf(f)].events = "OUT" => ev[SlotOf(f)].length > 0

(* What the callbacks find: every event matches its record; accept is      *)
(* called on the listening socket only, which does not block; recv, on a   *)
(* client's socket, which does, has input, end of file or an error; send   *)
(* has bytes.                                                              *)
CallsReturn ==
    alive => \A e \in batch :
        LET r == ev[e.ptr]
        IN  /\ r.events = e.mask
            /\ \/ r.callback = "accept_cb" /\ r.fd = LISTEN_FD
               \/ r.callback = "recv_cb" /\ r.fd \in open /\ (unread[r.fd] > 0 \/ peer[r.fd] # "up")
               \/ r.callback = "send_cb" /\ r.fd \in open /\ r.length > 0

\* The entry of a descriptor in use names its record.
LEMMA EntryNamesSlot ==
    ASSUME IInv, NEW f \in open \cup {LISTEN_FD}
    PROVE  reg[f].ptr = SlotOf(f) /\ f \in AllFds
  <1>1. f \in AllFds
    BY ReactorFacts DEF IInv, RecordsInv, TypeOK
  <1>2. CASE f = LISTEN_FD
    <2>1. reg[f] = [mask |-> "IN", ptr |-> SlotOf(f)]
      BY <1>2 DEF IInv, RecordsInv, StatusMirrorsEpoll, ListenRegistered
    <2> QED
      BY <1>1, <2>1
  <1>3. CASE f \in open
    <2>1. reg[f] = [mask |-> ev[SlotOf(f)].events, ptr |-> SlotOf(f)]
      BY <1>3 DEF IInv, RecordsInv, StatusMirrorsEpoll, OpenRegistered
    <2> QED
      BY <1>1, <2>1
  <1> QED
    BY <1>2, <1>3

\* So the two parts are what CallsReturn needs, together with IInv.
LEMMA CallsReturnFollows == IInv /\ BatchReady /\ AnswerWaits => CallsReturn
  <1> SUFFICES ASSUME IInv, BatchReady, AnswerWaits, alive, NEW e \in batch
               PROVE  LET r == ev[e.ptr]
                      IN  /\ r.events = e.mask
                          /\ \/ r.callback = "accept_cb" /\ r.fd = LISTEN_FD
                             \/ /\ r.callback = "recv_cb" /\ r.fd \in open
                                /\ unread[r.fd] > 0 \/ peer[r.fd] # "up"
                             \/ r.callback = "send_cb" /\ r.fd \in open /\ r.length > 0
    BY DEF CallsReturn
  <1>1. PICK f \in open \cup {LISTEN_FD} : e = reg[f]
    BY DEF IInv, BatchCurrent
  <1>2. e.ptr = SlotOf(f)
    BY <1>1, EntryNamesSlot
  <1>3. CASE f = LISTEN_FD
    <2>1. /\ ev[e.ptr].callback = "accept_cb" /\ ev[e.ptr].fd = LISTEN_FD
          /\ ev[e.ptr].events = "IN" /\ e.mask = "IN"
      BY <1>1, <1>2, <1>3 DEF IInv, RecordsInv, StatusMirrorsEpoll, ListenRegistered
    <2> QED
      BY <2>1
  <1>4. CASE f \in open
    <2>1. /\ ev[e.ptr].fd = f /\ ev[e.ptr].events = e.mask
          /\ <<ev[e.ptr].callback, ev[e.ptr].events>> \in {<<"recv_cb", "IN">>, <<"send_cb", "OUT">>}
      <3>1. /\ ev[SlotOf(f)].fd = f
            /\ reg[f] = [mask |-> ev[SlotOf(f)].events, ptr |-> SlotOf(f)]
            /\ <<ev[SlotOf(f)].callback, ev[SlotOf(f)].events>>
                  \in {<<"recv_cb", "IN">>, <<"send_cb", "OUT">>}
        BY <1>4 DEF IInv, RecordsInv, StatusMirrorsEpoll, OpenRegistered
      <3>2. e.mask = ev[SlotOf(f)].events
        BY <1>1, <3>1
      <3> QED
        BY <1>2, <3>1, <3>2
    <2>2. f # LISTEN_FD
      BY <1>4, ReactorFacts DEF IInv, RecordsInv, TypeOK
    <2>3. CASE e.mask = "IN"
      BY <1>1, <1>4, <2>1, <2>2, <2>3 DEF BatchReady, Readable
    <2>4. CASE e.mask = "OUT"
      BY <1>2, <1>4, <2>1, <2>4 DEF AnswerWaits
    <2> QED
      BY <2>1, <2>3, <2>4
  <1> QED
    BY <1>3, <1>4

(* A callback takes its own event from the batch and touches the sockets   *)
(* of its own descriptor f only: a descriptor registered anew has no event *)
(* left in the batch, the others have theirs for the same reason as before.*)
LEMMA ReadyKept ==
    ASSUME IInv, BatchReady, NEW f \in Fd, NEW e, alive, batch' = batch \ {e},
           e = reg[f] \/ f \notin open, open' \subseteq open \cup {f},
           \A g \in AllFds \ {f} : reg'[g] = reg[g],
           \A g \in Fd \ {f} : unread'[g] = unread[g] /\ peer'[g] = peer[g],
           f \in open' => reg'[f].ptr = SlotOf(f)
    PROVE  BatchReady'
  <1> SUFFICES ASSUME NEW g \in open', reg'[g] \in batch', reg'[g].mask = "IN"
               PROVE  Readable(g)'
    BY DEF BatchReady
  <1>1. open \subseteq Fd /\ f \in AllFds /\ f # LISTEN_FD /\ LISTEN_FD \in AllFds
    BY ReactorFacts DEF IInv, RecordsInv, TypeOK
  <1>2. g # f
    <2> SUFFICES ASSUME g = f PROVE FALSE
      OBVIOUS
    <2>1. f \in open' /\ reg'[f] \in batch /\ reg'[f] # e
      BY <1>1
    <2>2. PICK h \in open \cup {LISTEN_FD} : reg'[f] = reg[h]
      BY <2>1 DEF IInv, BatchCurrent
    <2>3. h = f
      BY <1>1, <2>1, <2>2, EntryNamesSlot, ReactorFacts
    <2> QED
      BY <1>1, <2>1, <2>2, <2>3
  <1>3. g \in open /\ g \in AllFds /\ g # LISTEN_FD /\ reg'[g] = reg[g]
    BY <1>1, <1>2, ReactorFacts
  <1>4. Readable(g)
    BY <1>3 DEF BatchReady
  <1> QED
    BY <1>1, <1>2, <1>3, <1>4 DEF Readable

\* The same for what is to be sent.
LEMMA AnswerKept ==
    ASSUME IInv, AnswerWaits, NEW f \in Fd, open' \subseteq open \cup {f},
           \A g \in AllFds \ {f} : ev'[SlotOf(g)] = ev[SlotOf(g)],
           f \in open' /\ ev'[SlotOf(f)].events = "OUT" => ev'[SlotOf(f)].length > 0
    PROVE  AnswerWaits'
  <1> SUFFICES ASSUME NEW g \in open', ev'[SlotOf(g)].events = "OUT"
               PROVE  ev'[SlotOf(g)].length > 0
    BY DEF AnswerWaits
  <1>1. CASE g = f
    BY <1>1
  <1>2. CASE g # f
    <2>1. g \in open /\ g \in AllFds
      BY <1>2, ReactorFacts DEF IInv, RecordsInv, TypeOK
    <2> QED
      BY <1>2, <2>1 DEF AnswerWaits
  <1> QED
    BY <1>1, <1>2

\* What the clients do makes a socket no less ready; epoll_wait reports ready ones.
LEMMA ReadyClients ==
    ASSUME IInv, BatchReady, AnswerWaits, Clients \/ EpollWait
    PROVE  BatchReady' /\ AnswerWaits'
  <1> USE ReactorFacts
  <1>t. TypeOK
    BY DEF IInv, RecordsInv
  <1>o. open \subseteq Fd
    BY <1>t DEF TypeOK
  <1>1. UNCHANGED <<ev, reg, open, alive>>
    BY DEF Clients, Connect, Abort, HangUp, Send, EpollWait, sockVars
  <1>2. AnswerWaits'
    BY <1>1 DEF AnswerWaits
  <1>3. CASE Clients
    <2>1. batch' = batch
      BY <1>3 DEF Clients, Connect, Abort, HangUp, Send
    <2>2. ASSUME NEW f \in open, Readable(f) PROVE Readable(f)'
      <3>1. CASE Connect \/ Abort
        BY <1>o, <2>2, <3>1 DEF Connect, Abort, Readable
      <3>2. ASSUME NEW g \in Fd, HangUp(g) PROVE Readable(f)'
        BY <1>t, <1>o, <2>2, <3>2 DEF HangUp, Readable, TypeOK
      <3>3. ASSUME NEW g \in Fd, NEW size \in Sizes, Send(g, size) PROVE Readable(f)'
        <4>1. size \in Nat \ {0} /\ unread \in [Fd -> Nat]
          BY <1>t, ReactorAssumption DEF TypeOK
        <4>2. /\ unread' = [unread EXCEPT ![g] = @ + size] /\ UNCHANGED <<waiting, peer>>
          BY <3>3 DEF Send
        <4>3. \A h \in Fd : unread'[h] >= unread[h] /\ unread[h] \in Nat /\ unread'[h] \in Nat
          BY <4>1, <4>2
        <4> QED
          BY <1>o, <2>2, <4>2, <4>3 DEF Readable
      <3> QED
        BY <1>3, <3>1, <3>2, <3>3 DEF Clients
    <2>3. alive' = alive /\ reg' = reg /\ open' = open
      BY <1>1
    <2> SUFFICES ASSUME NEW f \in open, alive, reg[f] \in batch, reg[f].mask = "IN"
                 PROVE  Readable(f)'
      BY <1>2, <2>1, <2>3 DEF BatchReady
    <2>4. Readable(f)
      BY DEF BatchReady
    <2> QED
      BY <2>2, <2>4
  <1>4. CASE EpollWait
    <2>0. PICK S \in SUBSET Reported : batch' = {reg[f] : f \in S}
      BY <1>4 DEF EpollWait, Batches
    <2>1. UNCHANGED <<waiting, unread, peer>>
      BY <1>4 DEF EpollWait, sockVars
    <2>2. ASSUME NEW f \in open, reg[f] \in batch', reg[f].mask = "IN"
          PROVE  Readable(f)
      <3>1. PICK g \in Reported : reg[f] = reg[g]
        BY <2>0, <2>2
      <3>2. g \in AllFds /\ reg[g].mask = "IN" /\ Readable(g)
        BY <2>2, <3>1 DEF Reported
      <3>3. g \in open \cup {LISTEN_FD}
        <4>1. reg[g] # Unregistered
          BY <3>2 DEF Unregistered, NONE
        <4> QED
          BY <3>2, <4>1 DEF AllFds, IInv, RecordsInv, StatusMirrorsEpoll, ClosedUnregistered
      <3>4. f = g
        BY <3>1, <3>3, EntryNamesSlot
      <3> QED
        BY <3>2, <3>4
    <2>3. \A f \in open : Readable(f)' <=> Readable(f)
      BY <2>1 DEF Readable
    <2>4. reg' = reg /\ open' = open
      BY <1>1
    <2> SUFFICES ASSUME NEW f \in open, reg[f] \in batch', reg[f].mask = "IN"
                 PROVE  Readable(f)'
      BY <1>2, <2>4 DEF BatchReady
    <2> QED
      BY <2>2, <2>3
  <1> QED
    BY <1>3, <1>4

\* accept_cb: the new descriptor has no event in this batch.
LEMMA ReadyAccept ==
    ASSUME IInv, BatchReady, AnswerWaits, NEW e, AcceptCb(e) \/ AcceptFails(e)
    PROVE  BatchReady' /\ AnswerWaits'
  <1>t. TypeOK
    BY DEF IInv, RecordsInv
  <1>1. alive /\ batch' = batch \ {e} /\ e = reg[LISTEN_FD] /\ alive' = alive
    <2>1. Dispatch(e, "accept_cb") /\ alive' = alive
      BY DEF AcceptCb, AcceptFails
    <2> QED
      BY <2>1, DispatchEvent
  <1>2. CASE AcceptFails(e)
    <2>1. UNCHANGED <<ev, reg, open, waiting, unread, peer>>
      BY <1>2 DEF AcceptFails, sockVars
    <2>2. \A f \in open : Readable(f)' <=> Readable(f)
      BY <2>1 DEF Readable
    <2> QED
      BY <1>1, <2>1, <2>2 DEF BatchReady, AnswerWaits
  <1>3. CASE AcceptCb(e)
    <2>1. PICK f \in Fd \ open :
             /\ open' = open \cup {f} /\ unread' = [unread EXCEPT ![f] = 0]
             /\ peer' = [peer EXCEPT ![f] = "up"]
             /\ Register(f, ev[SlotOf(f)], reg[f], "recv_cb", "IN")
      BY <1>3 DEF AcceptCb
    <2>2. ev[SlotOf(f)] \in Record /\ ev[SlotOf(f)].status = 0 /\ reg[f] = Unregistered
      BY <1>t, ReactorFacts DEF TypeOK, IInv, RecordsInv, StatusMirrorsEpoll, ClosedUnregistered
    <2>3. PICK r \in Record : r = ev[SlotOf(f)] /\ r.status = 0
      BY <2>2
    <2>4. Register(f, r, Unregistered, "recv_cb", "IN")
      BY <2>1, <2>2, <2>3
    <2>5. Registered(f, r, "recv_cb", "IN")
      BY <1>t, <2>3, <2>4, RegisterEffect
    <2>6. /\ ev'[SlotOf(f)].events = "IN" /\ reg'[f].ptr = SlotOf(f)
          /\ \A g \in AllFds \ {f} : ev'[SlotOf(g)] = ev[SlotOf(g)] /\ reg'[g] = reg[g]
      BY <2>5 DEF Registered
    <2>7. \A g \in Fd \ {f} : unread'[g] = unread[g] /\ peer'[g] = peer[g]
      BY <1>t, <2>1 DEF TypeOK
    <2> QED
      BY <1>1, <2>1, <2>6, <2>7, ReadyKept, AnswerKept
  <1> QED
    BY <1>2, <1>3

\* recv_cb and send_cb: the descriptor changes over, or is closed.
LEMMA ReadyTurn ==
    ASSUME IInv, BatchReady, AnswerWaits, NEW e,
           RecvData(e) \/ SendCb(e) \/ RecvEnd(e) \/ SendFails(e)
    PROVE  BatchReady' /\ AnswerWaits'
  <1>t. TypeOK
    BY DEF IInv, RecordsInv
  <1>0. PICK f : f = ev[e.ptr].fd
    OBVIOUS
  <1>1. /\ alive /\ batch' = batch \ {e} /\ f \in open /\ e = reg[f] /\ alive' = alive
        /\ waiting' = waiting
    <2>1. (Dispatch(e, "recv_cb") \/ Dispatch(e, "send_cb")) /\ UNCHANGED <<alive, waiting>>
      BY DEF RecvData, SendCb, RecvEnd, SendFails
    <2> QED
      BY <1>0, <2>1, DispatchEvent
  <1>2. f \in Fd /\ f \in AllFds /\ SlotOf(f) \in Slot
    BY <1>t, <1>1, ReactorFacts DEF TypeOK
  <1>3. /\ KernelDel(ev[SlotOf(f)], reg[f]) = Unregistered
        /\ Del(ev[SlotOf(f)]) \in Record /\ Del(ev[SlotOf(f)]).status = 0
    BY <1>1, DelOpen
  <1>4. CASE RecvData(e)
    <2>1. /\ unread[f] > 0 /\ unread' = [unread EXCEPT ![f] = @ - Received(f)]
          /\ Register(f, [Del(ev[SlotOf(f)]) EXCEPT !.length = Length(Received(f))],
                      KernelDel(ev[SlotOf(f)], reg[f]), "send_cb", "OUT")
          /\ UNCHANGED <<open, peer>>
      BY <1>0, <1>4 DEF RecvData
    <2>2. Received(f) \in Nat /\ Received(f) > 0 /\ Received(f) <= BUFFER_LENGTH
      BY <1>t, <1>2, <2>1, ReactorAssumption DEF Received, TypeOK
    <2>3. Length(Received(f)) = Received(f)
      <3>1. PICK n \in Nat : n = Received(f) /\ n <= BUFFER_LENGTH
        BY <2>2
      <3> QED
        BY <3>1, LengthExact
    <2>4. PICK r \in Record : /\ r = [Del(ev[SlotOf(f)]) EXCEPT !.length = Length(Received(f))]
                              /\ r.status = 0 /\ r.length > 0
      <3>1. PICK d \in Record, n \in Nat :
               d = Del(ev[SlotOf(f)]) /\ d.status = 0 /\ n = Length(Received(f)) /\ n > 0
        BY <1>3, <2>2, <2>3
      <3>2. /\ [d EXCEPT !.length = n] \in Record
            /\ [d EXCEPT !.length = n].status = 0 /\ [d EXCEPT !.length = n].length > 0
        BY <3>1 DEF Record
      <3> QED
        BY <3>1, <3>2
    <2>5. Register(f, r, Unregistered, "send_cb", "OUT")
      BY <1>3, <2>1, <2>4
    <2>6. Registered(f, r, "send_cb", "OUT")
      <3>1. r.status = 0
        BY <2>4
      <3> QED
        BY <1>t, <1>2, <2>5, <3>1, RegisterEffect
    <2>7. /\ ev'[SlotOf(f)].length > 0 /\ reg'[f].ptr = SlotOf(f)
          /\ \A g \in AllFds \ {f} : ev'[SlotOf(g)] = ev[SlotOf(g)] /\ reg'[g] = reg[g]
      BY <2>4, <2>6 DEF Registered
    <2>8. \A g \in Fd \ {f} : unread'[g] = unread[g] /\ peer'[g] = peer[g]
      BY <1>t, <2>1 DEF TypeOK
    <2> QED
      BY <1>1, <1>2, <2>1, <2>7, <2>8, ReadyKept, AnswerKept
  <1>5. CASE SendCb(e)
    <2>1. /\ Register(f, Del(ev[SlotOf(f)]), KernelDel(ev[SlotOf(f)], reg[f]), "recv_cb", "IN")
          /\ UNCHANGED <<open, unread, peer>>
      BY <1>0, <1>5 DEF SendCb
    <2>2. PICK r \in Record : r = Del(ev[SlotOf(f)]) /\ r.status = 0
      BY <1>3
    <2>3. Register(f, r, Unregistered, "recv_cb", "IN")
      BY <1>3, <2>1, <2>2
    <2>4. Registered(f, r, "recv_cb", "IN")
      BY <1>t, <1>2, <2>2, <2>3, RegisterEffect
    <2>5. /\ ev'[SlotOf(f)].events = "IN" /\ reg'[f].ptr = SlotOf(f)
          /\ \A g \in AllFds \ {f} : ev'[SlotOf(g)] = ev[SlotOf(g)] /\ reg'[g] = reg[g]
      BY <2>4 DEF Registered
    <2> QED
      BY <1>1, <1>2, <2>1, <2>5, ReadyKept, AnswerKept
  <1>6. CASE RecvEnd(e) \/ SendFails(e)
    <2>1. Close(f)
      BY <1>0, <1>6 DEF RecvEnd, SendFails
    <2>2. /\ open' = open \ {f}
          /\ \A g \in AllFds \ {f} : ev'[SlotOf(g)] = ev[SlotOf(g)] /\ reg'[g] = reg[g]
      BY <1>t, <1>2, <2>1, ReactorFacts DEF Close, TypeOK
    <2>3. \A g \in Fd \ {f} : unread'[g] = unread[g] /\ peer'[g] = peer[g]
      BY <1>t, <2>1 DEF Close, TypeOK
    <2> QED
      BY <1>1, <1>2, <2>2, <2>3, ReadyKept, AnswerKept
  <1> QED
    BY <1>4, <1>5, <1>6

(* The sockets of the clients are blocking (the fcntl of accept_cb is      *)
(* commented out) and the loop has one thread, yet it never waits in recv  *)
(* for a client that has nothing to say, and never sends an empty answer   *)
(* (which send_cb would take for an error and close): no callback of a     *)
(* batch takes away what the event of another was about.  accept is called *)
(* on the listening socket only, which is not blocking, as the queue may   *)
(* have emptied by then.                                                   *)
THEOREM CallbacksReturn == Spec => []CallsReturn
  <1> DEFINE J == BatchReady /\ AnswerWaits
  <1>1. Init => J
    BY DEF Init, BatchReady, AnswerWaits
  <1>2. ASSUME IInv, J, [Next]_vars PROVE J'
    <2>1. CASE UNCHANGED vars \/ Killed
      <3>1. UNCHANGED <<ev, reg, open, waiting, unread, peer, batch, alive>>
        BY <2>1 DEF vars, sockVars, Killed
      <3>2. \A f \in open : Readable(f)' <=> Readable(f)
        BY <3>1 DEF Readable
      <3> QED
        BY <1>2, <3>1, <3>2 DEF BatchReady, AnswerWaits
    <2>2. CASE Clients \/ EpollWait
      BY <1>2, <2>2, ReadyClients
    <2>3. ASSUME NEW e \in batch, SigPipe(e) PROVE J'
      BY <1>2, <2>3 DEF SigPipe, sockVars, BatchReady, AnswerWaits
    <2>4. ASSUME NEW e \in batch, AcceptCb(e) \/ AcceptFails(e) PROVE J'
      BY <1>2, <2>4, ReadyAccept
    <2>5. ASSUME NEW e \in batch, RecvData(e) \/ SendCb(e) \/ RecvEnd(e) \/ SendFails(e) PROVE J'
      BY <1>2, <2>5, ReadyTurn
    <2> QED
      BY <1>2, <2>1, <2>2, <2>3, <2>4, <2>5 DEF Next, Server
  <1>3. IInv /\ J => CallsReturn
    BY CallsReturnFollows
  <1> HIDE DEF J
  <1>4. IInv /\ J /\ [Next]_vars => (IInv /\ J)'
    BY <1>2, ReactorStep
  <1> QED
    BY <1>1, <1>3, <1>4, ReactorInit, PTL DEF Spec

=============================================================================
