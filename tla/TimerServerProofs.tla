-------------------------- MODULE TimerServerProofs --------------------------
(***************************************************************************)
(* Proofs about TimerServer, for any set of clients and any wheel of two   *)
(* slots or more.                                                          *)
(*                                                                         *)
(* The server calls the wheel as TimeWheel allows, so what TimeWheelProofs *)
(* proves of the wheel holds in the server; with it, connections and       *)
(* timers are shown to live and die together, and every handler to be      *)
(* called with a timer the wheel has.                                      *)
(***************************************************************************)
EXTENDS TimerServer, TLAPS

W == INSTANCE TimeWheelProofs WITH Timer <- Client, Timeouts <- {CLIENT_TIMEOUT}

\* tick() runs only between two batches.
TickAfterBatch == phase = "tick" => batch = {}

IInv == ServerInv /\ TickAfterBatch /\ W!IInv

-----------------------------------------------------------------------------
(* The wheel in the server                                                 *)

\* The server's wheel is one of those that TimeWheelProofs is about.
LEMMA WheelHolds == W!WheelAssumption
  BY ServerAssumption DEF W!WheelAssumption

\* The steps of the server that call the wheel.
WheelCalls ==
    \/ Wheel!TickBegin \/ Wheel!TickEnd \/ Wheel!Destroy
    \/ \E c \in Client :
          \/ Wheel!AddTimer(c, CLIENT_TIMEOUT) \/ Wheel!ResetTimer(c, CLIENT_TIMEOUT)
          \/ Wheel!DelTimer(c) \/ Wheel!TickSkip(c) \/ Wheel!TickExpire(c)

\* Each of these calls is a step of the wheel.
LEMMA CallsAreSteps == WheelCalls => W!Next
  <1> SUFFICES ASSUME WheelCalls PROVE W!Next
    OBVIOUS
  <1>1. CASE Wheel!TickBegin \/ Wheel!TickEnd
    <2>1. W!TickBegin \/ W!TickEnd
      BY <1>1 DEF Wheel!TickBegin, W!TickBegin, Wheel!TickEnd, W!TickEnd
    <2> QED
      BY <2>1 DEF W!Next, W!TickStep
  <1>2. CASE Wheel!Destroy
    <2>1. W!Destroy
      BY <1>2 DEF Wheel!Destroy, W!Destroy, Wheel!Slot, W!Slot, Wheel!Free, W!Free,
                  Wheel!ListSet, W!ListSet
    <2> QED
      BY <2>1 DEF W!Next
  <1>3. ASSUME NEW c \in Client, Wheel!AddTimer(c, CLIENT_TIMEOUT) PROVE W!Next
    <2>1. W!AddTimer(c, CLIENT_TIMEOUT)
      BY <1>3 DEF Wheel!AddTimer, W!AddTimer, Wheel!Insert, W!Insert, Wheel!Ticks, W!Ticks,
                  Wheel!TargetSlot, W!TargetSlot, Wheel!ListSet, W!ListSet
    <2> QED
      BY <2>1 DEF W!Next
  <1>4. ASSUME NEW c \in Client, Wheel!ResetTimer(c, CLIENT_TIMEOUT) PROVE W!Next
    <2>1. Wheel!Unlink(c) = W!Unlink(c)
      BY DEF Wheel!Unlink, W!Unlink, Wheel!RemoveFrom, W!RemoveFrom, Wheel!Occurs, W!Occurs,
             Wheel!Erase, W!Erase
    <2>2. W!ResetTimer(c, CLIENT_TIMEOUT)
      BY <1>4, <2>1 DEF Wheel!ResetTimer, W!ResetTimer, Wheel!Insert, W!Insert, Wheel!Ticks,
                  W!Ticks, Wheel!TargetSlot, W!TargetSlot, Wheel!ListSet, W!ListSet
    <2> QED
      BY <2>2 DEF W!Next
  <1>5. ASSUME NEW c \in Client, Wheel!DelTimer(c) PROVE W!Next
    <2>1. Wheel!Unlink(c) = W!Unlink(c)
      BY DEF Wheel!Unlink, W!Unlink, Wheel!RemoveFrom, W!RemoveFrom, Wheel!Occurs, W!Occurs,
             Wheel!Erase, W!Erase
    <2>2. W!DelTimer(c)
      BY <1>5, <2>1 DEF Wheel!DelTimer, W!DelTimer, Wheel!Free, W!Free
    <2> QED
      BY <2>2 DEF W!Next
  <1>6. ASSUME NEW c \in Client, Wheel!TickSkip(c) \/ Wheel!TickExpire(c) PROVE W!Next
    <2>1. W!TickSkip(c) \/ W!TickExpire(c)
      BY <1>6 DEF Wheel!TickSkip, W!TickSkip, Wheel!TickExpire, W!TickExpire,
                  Wheel!AtIterator, W!AtIterator, Wheel!AfterErase, W!AfterErase,
                  Wheel!Erase, W!Erase, Wheel!Free, W!Free
    <2> QED
      BY <2>1 DEF W!Next, W!TickStep
  <1> QED
    BY <1>1, <1>2, <1>3, <1>4, <1>5, <1>6 DEF WheelCalls

\* Every step of the server calls the wheel once or leaves it alone.
LEMMA ServerSteps == [Next]_vars => WheelCalls \/ UNCHANGED wheelVars
  <1>1. ASSUME Environment PROVE UNCHANGED wheelVars
    BY <1>1 DEF Environment, Connect, Abort, Send, HangUp, ToggleStall, Interrupt
  <1>2. ASSUME Server PROVE WheelCalls \/ UNCHANGED wheelVars
    BY <1>2 DEF Server, EpollEvents, EpollTimeout, ReadSignal, AcceptConn, AcceptFails,
       ReadData, ReadEOF, WriteData, SigPipe, TimeoutHandle, TickRest, Shutdown, WheelCalls
  <1> QED
    BY <1>1, <1>2 DEF Next, Gone, vars

\* ... so the invariant of the wheel holds in the server.
LEMMA WheelKept == W!IInv /\ [Next]_vars => W!IInv'
  <1>1. [Next]_vars => [W!Next]_(W!wheelVars)
    BY ServerSteps, CallsAreSteps DEF wheelVars, W!wheelVars
  <1> QED
    BY <1>1, WheelHolds, W!NextIInv

\* The destructor of the wheel deletes every timer.
LEMMA DestroyAll == ASSUME W!IInv, Wheel!Destroy PROVE armed' = {}
  <1>1. /\ slots \in [W!Slot -> Seq(Client)] /\ time_slot \in [Client -> W!Slot]
        /\ armed \in SUBSET Client /\ \A c \in armed : W!Occurs(slots[time_slot[c]], c)
    BY DEF W!IInv, W!TypeOK, W!WheelOK, W!ArmedListed
  <1>2. armed' = armed \ UNION {W!ListSet(slots[s]) : s \in W!Slot}
    BY DEF Wheel!Destroy, Wheel!Free, Wheel!Slot, W!Slot, Wheel!ListSet, W!ListSet
  <1>3. ASSUME NEW c \in armed
        PROVE  c \in UNION {W!ListSet(slots[s]) : s \in W!Slot}
    <2>1. time_slot[c] \in W!Slot /\ W!Occurs(slots[time_slot[c]], c)
      BY <1>1
    <2>2. c \in W!ListSet(slots[time_slot[c]])
      BY <2>1 DEF W!Occurs, W!ListSet
    <2> QED
      BY <2>1, <2>2
  <1> QED
    BY <1>2, <1>3

-----------------------------------------------------------------------------
(* The invariant of the server                                             *)

\* Nothing is connected and the wheel is empty when main enters its loop.
LEMMA ServerInit == Init => IInv
  <1> SUFFICES ASSUME Init PROVE IInv
    OBVIOUS
  <1>1. W!Init
    BY DEF Init, Wheel!Init, W!Init, Wheel!Slot, W!Slot
  <1>2. W!IInv
    BY <1>1, WheelHolds, W!InitIInv
  <1>3. armed = {} /\ phase = "idle"
    BY <1>1 DEF W!Init
  <1>4. TypeOK
    BY DEF Init, TypeOK, Failed
  <1>5. TimerPerConnection /\ BatchLive
    BY <1>3 DEF Init, TimerPerConnection, BatchLive
  <1> QED
    BY <1>2, <1>3, <1>4, <1>5 DEF IInv, ServerInv, TickAfterBatch

\* Clients and the user neither open nor close a connection of the server.
LEMMA ServerEnvironment == IInv /\ Environment => ServerInv' /\ TickAfterBatch'
  <1> SUFFICES ASSUME IInv, Environment PROVE ServerInv' /\ TickAfterBatch'
    OBVIOUS
  <1> DEFINE SameOpen == /\ conn' \in [Client -> {"none", "pending", "open"}]
                         /\ \A c \in Client : conn'[c] = "open" <=> conn[c] = "open"
             InputOK == /\ data' \in [Client -> BOOLEAN] /\ sigint' \in BOOLEAN
                        /\ interest' = interest /\ buf_size' = buf_size
             PeersOK == /\ peer' \in [Client -> {"up", "fin"} \cup Failed]
                        /\ stalled' \in [Client -> BOOLEAN]
  <1>t. TypeOK
    BY DEF IInv, ServerInv
  <1>1. UNCHANGED <<armed, phase, batch, running>>
    BY DEF Environment, Connect, Abort, Send, HangUp, ToggleStall, Interrupt, wheelVars
  <1>2. SameOpen
    <2>1. CASE Interrupt
      BY <1>t, <2>1 DEF TypeOK, Interrupt, sockVars
    <2>2. ASSUME NEW d \in Client,
                 Connect(d) \/ Abort(d) \/ Send(d) \/ ToggleStall(d) \/ HangUp(d)
          PROVE  SameOpen
      BY <1>t, <2>2 DEF TypeOK, Connect, Abort, Send, ToggleStall, HangUp
    <2> QED
      BY <2>1, <2>2 DEF Environment
  <1>3. InputOK
    <2>1. CASE Interrupt
      BY <1>t, <2>1 DEF TypeOK, Interrupt, sockVars
    <2>2. ASSUME NEW d \in Client,
                 Connect(d) \/ Abort(d) \/ Send(d) \/ ToggleStall(d) \/ HangUp(d)
          PROVE  InputOK
      BY <1>t, <2>2 DEF TypeOK, Connect, Abort, Send, ToggleStall, HangUp
    <2> QED
      BY <2>1, <2>2 DEF Environment
  <1>4. PeersOK
    <2>1. CASE Interrupt
      BY <1>t, <2>1 DEF TypeOK, Interrupt, sockVars
    <2>2. ASSUME NEW d \in Client,
                 Connect(d) \/ Abort(d) \/ Send(d) \/ ToggleStall(d) \/ HangUp(d)
          PROVE  PeersOK
      BY <1>t, <2>2 DEF TypeOK, Failed, Connect, Abort, Send, ToggleStall, HangUp
    <2> QED
      BY <2>1, <2>2 DEF Environment
  <1>5. TypeOK'
    BY <1>t, <1>1, <1>2, <1>3, <1>4 DEF TypeOK
  <1>6. TimerPerConnection' /\ BatchLive' /\ TickAfterBatch'
    BY <1>1, <1>2 DEF IInv, ServerInv, TimerPerConnection, BatchLive, TickAfterBatch
  <1> QED
    BY <1>5, <1>6 DEF ServerInv

\* Steps that leave connections and timers alone and do not add to the batch.
LEMMA ConnectionsUnmoved ==
    ASSUME IInv, UNCHANGED <<conn, armed>>, batch' \subseteq batch,
           phase' = "tick" => batch' = {}
    PROVE  TimerPerConnection' /\ BatchLive' /\ TickAfterBatch'
  BY DEF IInv, ServerInv, TimerPerConnection, BatchLive, TickAfterBatch

\* epoll_wait: what it reports is open, and tick() starts with an empty batch.
LEMMA ServerEpoll == IInv /\ (EpollEvents \/ EpollTimeout) => ServerInv' /\ TickAfterBatch'
  <1> SUFFICES ASSUME IInv, EpollEvents \/ EpollTimeout PROVE ServerInv' /\ TickAfterBatch'
    OBVIOUS
  <1>1. UNCHANGED <<sockVars, armed, sigint, running>> /\ batch = {}
    BY DEF EpollEvents, EpollTimeout, AtEpollWait, Wheel!TickBegin, wheelVars
  <1>2. CASE EpollEvents
    <2>1. batch' = Ready /\ phase' = "idle"
      BY <1>2 DEF EpollEvents, AtEpollWait, wheelVars
    <2>2. Ready \subseteq Client \cup {Listen, Signal}
      BY DEF Ready
    <2>3. Ready \cap Client \subseteq {c \in Client : conn[c] = "open"}
      BY ServerAssumption DEF Ready
    <2>4. TypeOK'
      BY <1>1, <2>1, <2>2 DEF IInv, ServerInv, TypeOK, sockVars
    <2>5. TimerPerConnection' /\ BatchLive' /\ TickAfterBatch'
      BY <1>1, <2>1, <2>3
      DEF IInv, ServerInv, TimerPerConnection, BatchLive, TickAfterBatch, sockVars
    <2> QED
      BY <2>4, <2>5 DEF ServerInv
  <1>3. CASE EpollTimeout
    <2>1. batch' = batch
      BY <1>3 DEF EpollTimeout
    <2>2. TypeOK'
      BY <1>1, <2>1 DEF IInv, ServerInv, TypeOK, sockVars
    <2> QED
      BY <1>1, <2>1, <2>2, ConnectionsUnmoved DEF ServerInv, sockVars
  <1> QED
    BY <1>2, <1>3

\* The handlers that leave the connections alone.
LEMMA ServerHandlers ==
    ASSUME IInv,
           \/ ReadSignal \/ AcceptFails
           \/ \E c \in Client : ReadData(c) \/ WriteData(c)
    PROVE  ServerInv' /\ TickAfterBatch'
  <1> DEFINE SocketsOK == /\ data' \in [Client -> BOOLEAN] /\ interest' \in [Client -> {"IN", "OUT"}]
                          /\ peer' \in [Client -> {"up", "fin"} \cup Failed]
                          /\ buf_size' \in [Client -> {-1, 1}]
  <1>t. TypeOK
    BY DEF IInv, ServerInv
  <1>1. /\ UNCHANGED <<conn, armed, phase, stalled>> /\ phase = "idle"
        /\ batch' \subseteq batch /\ sigint' \in BOOLEAN /\ running' \in BOOLEAN
    BY <1>t DEF ReadSignal, AcceptFails, ReadData, WriteData, Handling, Wheel!ResetTimer,
       wheelVars, sockVars, TypeOK
  <1>2. SocketsOK
    <2>1. CASE ReadSignal \/ AcceptFails
      BY <1>t, <2>1 DEF ReadSignal, AcceptFails, sockVars, TypeOK
    <2>2. ASSUME NEW c \in Client, ReadData(c) PROVE SocketsOK
      BY <1>t, <2>2 DEF ReadData, AfterRead, TypeOK, Failed
    <2>3. ASSUME NEW c \in Client, WriteData(c) PROVE SocketsOK
      BY <1>t, <2>3 DEF WriteData, TypeOK, Failed
    <2> QED
      BY <2>1, <2>2, <2>3
  <1>3. TypeOK'
    BY <1>t, <1>1, <1>2 DEF TypeOK
  <1>4. TimerPerConnection' /\ BatchLive' /\ TickAfterBatch'
    BY <1>1, ConnectionsUnmoved
  <1> QED
    BY <1>3, <1>4 DEF ServerInv

\* acceptConn: the connection and its timer appear together.
LEMMA ServerAccept ==
    ASSUME IInv, NEW c \in Client, AcceptConn(c) PROVE ServerInv' /\ TickAfterBatch'
  <1>1. /\ armed' = armed \cup {c} /\ conn' = [conn EXCEPT ![c] = "open"]
        /\ batch' \subseteq batch /\ phase' = "idle"
        /\ UNCHANGED <<data, peer, stalled, buf_size, interest, sigint, running>>
    BY DEF AcceptConn, Handling, Wheel!AddTimer
  <1>2. conn \in [Client -> {"none", "pending", "open"}]
    BY DEF IInv, ServerInv, TypeOK
  <1>3. TypeOK'
    BY <1>1, <1>2 DEF IInv, ServerInv, TypeOK
  <1>4. {d \in Client : conn'[d] = "open"} = {d \in Client : conn[d] = "open"} \cup {c}
    BY <1>1, <1>2
  <1> QED
    BY <1>1, <1>3, <1>4 DEF IInv, ServerInv, TimerPerConnection, BatchLive, TickAfterBatch

\* Closing the sockets in C together with their timers.
LEMMA CloseTogether ==
    ASSUME IInv, NEW C, Close(C), armed' = armed \ C,
           batch' \subseteq batch \ (Client \cap C), UNCHANGED sigint, running' \in BOOLEAN,
           phase' = "tick" => batch' = {}
    PROVE  ServerInv' /\ TickAfterBatch'
  <1>t. TypeOK
    BY DEF IInv, ServerInv
  <1>1. conn' = [c \in Client |-> IF c \in C THEN "none" ELSE conn[c]]
    BY DEF Close
  <1>2. conn' \in [Client -> {"none", "pending", "open"}]
        /\ peer' \in [Client -> {"up", "fin"} \cup Failed]
        /\ interest' \in [Client -> {"IN", "OUT"}] /\ buf_size' \in [Client -> {-1, 1}]
    BY <1>t DEF Close, TypeOK
  <1>3. data' \in [Client -> BOOLEAN] /\ stalled' \in [Client -> BOOLEAN]
    BY <1>t DEF Close, TypeOK
  <1>4. TypeOK'
    BY <1>t, <1>2, <1>3 DEF TypeOK
  <1>5. {c \in Client : conn'[c] = "open"} = {c \in Client : conn[c] = "open"} \ C
    BY <1>1
  <1> QED
    BY <1>4, <1>5 DEF IInv, ServerInv, TimerPerConnection, BatchLive, TickAfterBatch

\* The end of file and the timeout of one client.
LEMMA ServerCloses ==
    ASSUME IInv, NEW c \in Client, ReadEOF(c) \/ TimeoutHandle(c)
    PROVE  ServerInv' /\ TickAfterBatch'
  <1>1. Close({c}) /\ armed' = armed \ {c} /\ UNCHANGED <<phase, sigint, running>>
    BY DEF ReadEOF, TimeoutHandle, Wheel!DelTimer, Wheel!TickExpire, Wheel!Free
  <1>2. batch' \subseteq batch \ {c} /\ (phase' = "tick" => batch' = {})
    <2>1. CASE ReadEOF(c)
      BY <2>1 DEF ReadEOF, Handling, Wheel!DelTimer
    <2>2. CASE TimeoutHandle(c)
      <3>1. phase = "tick" /\ batch' = batch
        BY <2>2 DEF TimeoutHandle, Wheel!TickExpire, Wheel!AtIterator
      <3> QED
        BY <3>1 DEF IInv, TickAfterBatch
    <2> QED
      BY <2>1, <2>2
  <1>3. running' \in BOOLEAN
    BY <1>1 DEF IInv, ServerInv, TypeOK
  <1> QED
    BY <1>1, <1>2, <1>3, CloseTogether

\* SIGPIPE and the regular end: everything is closed and freed.
LEMMA ServerEnds ==
    ASSUME IInv, Shutdown \/ \E c \in Client : SigPipe(c)
    PROVE  ServerInv' /\ TickAfterBatch'
  <1>1. Wheel!Destroy /\ Close(Client) /\ batch' = {} /\ running' \in BOOLEAN /\ sigint' = sigint
    BY DEF Shutdown, SigPipe, IInv, ServerInv, TypeOK
  <1>2. armed' = armed \ Client
    BY <1>1, DestroyAll DEF IInv, W!IInv, W!TypeOK
  <1> QED
    BY <1>1, <1>2, CloseTogether

\* The steps of tick() without a timeout.
LEMMA ServerTick == IInv /\ TickRest => ServerInv' /\ TickAfterBatch'
  <1> SUFFICES ASSUME IInv, TickRest PROVE ServerInv' /\ TickAfterBatch'
    OBVIOUS
  <1>1. UNCHANGED <<sockVars, batch, sigint, running, armed>> /\ phase = "tick"
    BY DEF TickRest, Wheel!TickEnd, Wheel!TickSkip, Wheel!AtIterator
  <1>2. TypeOK'
    BY <1>1 DEF IInv, ServerInv, TypeOK, sockVars
  <1>3. batch' = {}
    BY <1>1 DEF IInv, TickAfterBatch
  <1> QED
    BY <1>1, <1>2, <1>3, ConnectionsUnmoved DEF ServerInv, sockVars

\* IInv is inductive.
LEMMA ServerStep == IInv /\ [Next]_vars => IInv'
  <1> SUFFICES ASSUME IInv, [Next]_vars PROVE IInv'
    OBVIOUS
  <1>1. W!IInv'
    BY WheelKept DEF IInv
  <1>2. CASE UNCHANGED vars
    <2>1. UNCHANGED <<conn, data, peer, stalled, buf_size, interest, batch, sigint, running, armed, phase>>
      BY <1>2 DEF vars, sockVars, wheelVars
    <2> QED
      BY <1>1, <2>1 DEF IInv, ServerInv, TypeOK, TimerPerConnection, BatchLive, TickAfterBatch
  <1>3. CASE Server
    BY <1>1, <1>3, ServerEpoll, ServerHandlers, ServerAccept, ServerCloses, ServerEnds,
       ServerTick DEF Server, IInv
  <1> QED
    BY <1>1, <1>2, <1>3, ServerEnvironment DEF IInv, Next, Gone

-----------------------------------------------------------------------------
(* The theorems                                                            *)

(* Every Event the server follows a pointer to exists: an open connection  *)
(* has its timer in the wheel and no other timer is left there, and the    *)
(* events still to be handled belong to open connections.                  *)
THEOREM ServerCorrect == Spec => []ServerInv
  <1>1. IInv => ServerInv
    BY DEF IInv
  <1> QED
    BY <1>1, ServerInit, ServerStep, PTL DEF Spec

-----------------------------------------------------------------------------
(* No client is closed too early                                           *)

\* The timers of the server are set to less than a turn of the wheel.
AllShort == W!ShortInv /\ long = {}

\* A client's timeout takes fewer ticks than the wheel has slots.
LEMMA TimeoutShort == Wheel!Ticks(CLIENT_TIMEOUT) < SLOTS_NUM
  <1>1. /\ SLOTS_NUM \in Nat /\ SLOTS_NUM >= 2 /\ SI \in Nat \ {0} /\ CLIENT_TIMEOUT \in Int
        /\ CLIENT_TIMEOUT < SLOTS_NUM * SI
    BY ServerAssumption, TimeoutAssumption
  <1>2. CASE CLIENT_TIMEOUT < SI
    BY <1>1, <1>2 DEF Wheel!Ticks
  <1>3. CASE ~(CLIENT_TIMEOUT < SI)
    <2> DEFINE q == CLIENT_TIMEOUT \div SI
    <2>1. q \in Int /\ q * SI <= CLIENT_TIMEOUT
      BY <1>1
    <2> HIDE DEF q
    <2>2. q < SLOTS_NUM
      <3>1. SUFFICES ASSUME q >= SLOTS_NUM PROVE FALSE
        BY <1>1, <2>1
      <3>2. q * SI >= SLOTS_NUM * SI
        BY <1>1, <2>1, <3>1
      <3> QED
        BY <1>1, <2>1, <3>2
    <2> QED
      BY <1>3, <2>2 DEF Wheel!Ticks, q
  <1> QED
    BY <1>2, <1>3

\* AllShort is inductive relative to IInv.
LEMMA ShortKept == IInv /\ AllShort /\ [Next]_vars => AllShort'
  <1> SUFFICES ASSUME IInv, AllShort, [Next]_vars PROVE AllShort'
    OBVIOUS
  <1>1. [W!Next]_(W!wheelVars)
    BY ServerSteps, CallsAreSteps DEF wheelVars, W!wheelVars
  <1>2. W!ShortInv'
    BY <1>1, WheelHolds, W!NextShortInv DEF IInv, AllShort
  <1>3. ~(Wheel!Ticks(CLIENT_TIMEOUT) >= SLOTS_NUM)
    <2>1. Wheel!Ticks(CLIENT_TIMEOUT) \in Int /\ SLOTS_NUM \in Int
      BY ServerAssumption DEF Wheel!Ticks
    <2> QED
      BY <2>1, TimeoutShort
  <1>4. WheelCalls => long' \subseteq long
    BY <1>3 DEF WheelCalls, Wheel!TickBegin, Wheel!TickEnd, Wheel!Destroy, Wheel!Free,
       Wheel!AddTimer, Wheel!ResetTimer, Wheel!Insert, Wheel!DelTimer, Wheel!TickSkip,
       Wheel!TickExpire
  <1>5. long' = {}
    BY <1>4, ServerSteps DEF AllShort, wheelVars
  <1> QED
    BY <1>2, <1>5 DEF AllShort

(* timeout_handle closes no client before its fifteen seconds are over:    *)
(* left counts the ticks from the last writeData (or from acceptConn), and *)
(* is used up whenever tick() runs the callback, although the iterator of  *)
(* tick() skips and revisits the timers of a slot.                         *)
THEOREM NoEarlyTimeout == Spec => [][\A c \in Client : TimeoutHandle(c) => left[c] <= 0]_vars
  <1>1. Init => IInv /\ AllShort
    <2>1. Init => W!Init
      BY DEF Init, Wheel!Init, W!Init, Wheel!Slot, W!Slot
    <2>2. W!Init => AllShort
      BY DEF W!Init, W!ShortInv, AllShort
    <2> QED
      BY <2>1, <2>2, ServerInit
  <1>2. IInv /\ AllShort /\ [Next]_vars => IInv' /\ AllShort'
    BY ServerStep, ShortKept
  <1>3. IInv /\ AllShort /\ [Next]_vars
           => [\A c \in Client : TimeoutHandle(c) => left[c] <= 0]_vars
    <2> SUFFICES ASSUME IInv, AllShort, NEW c \in Client, TimeoutHandle(c)
                 PROVE  left[c] <= 0
      OBVIOUS
    <2>1. W!NeverEarly
      BY WheelHolds, W!ShortImpliesNeverEarly DEF IInv, AllShort
    <2>2. W!AtIterator(c) /\ rotation[c] <= 0
      BY DEF TimeoutHandle, Wheel!TickExpire, Wheel!AtIterator, W!AtIterator
    <2>3. cur_slot \in W!Slot /\ rotation[c] \in Nat
      BY DEF IInv, W!IInv, W!TypeOK
    <2>4. c \in armed
      BY <2>2, <2>3 DEF W!AtIterator, IInv, W!IInv, W!WheelOK, W!ListsHoldArmed
    <2>5. W!Expiring(c)
      BY <2>2, <2>3 DEF W!Expiring
    <2> QED
      BY <2>1, <2>4, <2>5 DEF W!NeverEarly, AllShort
  <1> QED
    BY <1>1, <1>2, <1>3, PTL DEF Spec

-----------------------------------------------------------------------------
(* The server and its wheel                                                *)

(* Every step of the server is a step of the wheel, or leaves it alone:    *)
(* test.cpp calls addTimer, resetTimer, delTimer and tick() only as        *)
(* TimeWheel allows, so whatever is true of the wheel alone holds in it.   *)
THEOREM ServerUsesWheel == Spec => W!Spec
  <1>1. Init => W!Init
    BY DEF Init, Wheel!Init, W!Init, Wheel!Slot, W!Slot
  <1>2. [Next]_vars => [W!Next]_(W!wheelVars)
    BY ServerSteps, CallsAreSteps DEF wheelVars, W!wheelVars
  <1> QED
    BY <1>1, <1>2, PTL DEF Spec, W!Spec

(* What no guard of the wheel ever refuses: events are only left while the *)
(* wheel exists and tick() is not running; a connection to be accepted has *)
(* no timer yet; a client with an event has one, and when it waits to be   *)
(* read, read has data, an end of file or an error to return.              *)
Handled ==
    /\ batch # {} => phase = "idle"
    /\ \A c \in Client : conn[c] = "pending" => c \notin armed
    /\ \A c \in batch \cap Client :
          c \in armed /\ (interest[c] = "IN" => data[c] \/ peer[c] # "up")

\* Nothing is left to be handled when the wheel is destroyed.
GoneAfterBatch == phase = "gone" => batch = {}

\* Only its own handler takes from a client what its event was about.
BatchReadable ==
    \A c \in batch \cap Client : interest[c] = "IN" => data[c] \/ peer[c] # "up"

\* A step that leaves the sockets of the batch's clients alone keeps it.
LEMMA ReadableKept ==
    ASSUME BatchReadable, batch' \subseteq batch,
           \A c \in batch' \cap Client :
              interest'[c] = interest[c] /\ (data[c] => data'[c]) /\ (peer[c] # "up" => peer'[c] # "up")
    PROVE  BatchReadable'
  BY DEF BatchReadable

\* What clients and network do makes no socket less readable.
LEMMA ReadableEnvironment ==
    ASSUME ServerInv, BatchReadable, Environment PROVE BatchReadable'
  <1>t. TypeOK
    BY DEF ServerInv
  <1>1. batch' = batch /\ interest' = interest
    BY DEF Environment, Connect, Abort, Send, HangUp, ToggleStall, Interrupt, sockVars
  <1>2. \A c \in Client : (data[c] => data'[c]) /\ (peer[c] # "up" => peer'[c] # "up")
    <2>1. CASE UNCHANGED <<data, peer>>
      BY <2>1
    <2>2. ASSUME NEW d \in Client, Send(d)
          PROVE  \A c \in Client : (data[c] => data'[c]) /\ (peer[c] # "up" => peer'[c] # "up")
      <3>1. data' = [data EXCEPT ![d] = TRUE] /\ peer' = peer
        BY <2>2 DEF Send
      <3>2. data \in [Client -> BOOLEAN]
        BY <1>t DEF TypeOK
      <3> QED
        BY <3>1, <3>2, Zenon
    <2>3. ASSUME NEW d \in Client, HangUp(d)
          PROVE  \A c \in Client : (data[c] => data'[c]) /\ (peer[c] # "up" => peer'[c] # "up")
      BY <1>t, <2>3 DEF HangUp, TypeOK
    <2> QED
      BY <2>1, <2>2, <2>3 DEF Environment, Connect, Abort, ToggleStall, Interrupt, sockVars
  <1> QED
    BY <1>1, <1>2, ReadableKept

\* epoll_wait reports what is readable, a handler changes the socket of its own client.
LEMMA ReadableServer ==
    ASSUME IInv, BatchReadable, Server PROVE BatchReadable'
  <1>t. TypeOK /\ TickAfterBatch
    BY DEF IInv, ServerInv
  <1>1. CASE EpollEvents
    <2>1. batch' = Ready /\ UNCHANGED <<interest, data, peer>>
      BY <1>1 DEF EpollEvents, sockVars
    <2>2. \A c \in Ready \cap Client : interest[c] = "IN" => data[c] \/ peer[c] # "up"
      BY ServerAssumption DEF Ready, Readable, Writable
    <2> QED
      BY <2>1, <2>2 DEF BatchReadable
  <1>2. CASE EpollTimeout \/ TickRest
    BY <1>2, ReadableKept DEF EpollTimeout, TickRest, sockVars
  <1>3. CASE ReadSignal \/ AcceptFails
    BY <1>3, ReadableKept DEF ReadSignal, AcceptFails, Handling, sockVars
  <1>4. ASSUME NEW d \in Client, AcceptConn(d) PROVE BatchReadable'
    BY <1>4, ReadableKept DEF AcceptConn, Handling
  <1>5. ASSUME NEW d \in Client, ReadData(d) \/ ReadEOF(d) \/ WriteData(d) PROVE BatchReadable'
    <2>1. batch' = batch \ {d}
      BY <1>5 DEF ReadData, ReadEOF, WriteData, Handling
    <2>2. \A c \in Client \ {d} : interest'[c] = interest[c] /\ data'[c] = data[c] /\ peer'[c] = peer[c]
      BY <1>t, <1>5 DEF ReadData, ReadEOF, WriteData, AfterRead, Close, TypeOK
    <2> QED
      BY <2>1, <2>2, ReadableKept
  <1>6. ASSUME NEW d \in Client, SigPipe(d) PROVE BatchReadable'
    BY <1>6 DEF SigPipe, BatchReadable
  <1>7. ASSUME NEW d \in Client, TimeoutHandle(d) PROVE BatchReadable'
    <2>1. batch' = {}
      BY <1>t, <1>7 DEF TimeoutHandle, TickAfterBatch, Wheel!TickExpire, Wheel!AtIterator
    <2> QED
      BY <2>1 DEF BatchReadable
  <1>8. CASE Shutdown
    BY <1>8 DEF Shutdown, BatchReadable
  <1> QED
    BY <1>1, <1>2, <1>3, <1>4, <1>5, <1>6, <1>7, <1>8 DEF Server

(* The handlers of test.cpp never give the wheel a timer it does not know  *)
(* or knows already, never while tick() walks its lists, and never read a  *)
(* socket in vain, for any number of clients and however their events are  *)
(* batched.                                                                *)
THEOREM EventsAlwaysHandled == Spec => []Handled
  <1>1. Init => GoneAfterBatch
    BY DEF Init, GoneAfterBatch
  <1>2. ASSUME IInv, GoneAfterBatch, [Next]_vars PROVE GoneAfterBatch'
    <2>1. CASE phase' # "gone"
      BY <2>1 DEF GoneAfterBatch
    <2>2. CASE phase = "gone"
      <3>1. ~Server
        BY <2>2 DEF Server, EpollEvents, EpollTimeout, AtEpollWait, ReadSignal, AcceptConn,
           AcceptFails, Handling, ReadData, ReadEOF, WriteData, SigPipe, TimeoutHandle,
           TickRest, Shutdown, Wheel!TickExpire, Wheel!TickSkip, Wheel!TickEnd,
           Wheel!AtIterator, Wheel!Destroy
      <3>2. batch' = batch
        BY <1>2, <3>1 DEF Next, Environment, Connect, Abort, Send, HangUp, ToggleStall,
           Interrupt, Gone, vars
      <3> QED
        BY <1>2, <2>2, <3>2 DEF GoneAfterBatch
    <2>3. CASE phase' = "gone" /\ phase # "gone"
      <3>1. ~Environment /\ ~Gone /\ ~UNCHANGED vars
        BY <2>3 DEF Environment, Connect, Abort, Send, HangUp, ToggleStall, Interrupt,
           Gone, vars, wheelVars
      <3>2. \A c \in Client : ~ReadEOF(c) /\ ~WriteData(c) /\ ~AcceptConn(c) /\ ~TimeoutHandle(c)
        BY <2>3 DEF ReadEOF, WriteData, AcceptConn, TimeoutHandle, Wheel!DelTimer,
           Wheel!ResetTimer, Wheel!AddTimer, Wheel!TickExpire
      <3>3. Shutdown \/ \E c \in Client : SigPipe(c)
        BY <1>2, <2>3, <3>1, <3>2 DEF Next, Server, EpollEvents, EpollTimeout, ReadSignal,
           AcceptFails, ReadData, TickRest, Wheel!TickBegin, Wheel!TickEnd, Wheel!TickSkip,
           wheelVars
      <3> QED
        BY <3>3 DEF Shutdown, SigPipe, GoneAfterBatch
    <2> QED
      BY <2>1, <2>2, <2>3
  <1>3. ASSUME IInv, GoneAfterBatch, BatchReadable PROVE Handled
    <2>1. batch # {} => phase = "idle"
      BY <1>3 DEF IInv, TickAfterBatch, GoneAfterBatch, W!IInv, W!TypeOK
    <2>2. \A c \in Client : conn[c] = "pending" => c \notin armed
      BY <1>3 DEF IInv, ServerInv, TimerPerConnection
    <2>3. \A c \in batch \cap Client : c \in armed
      BY <1>3 DEF IInv, ServerInv, TimerPerConnection, BatchLive
    <2> QED
      BY <1>3, <2>1, <2>2, <2>3 DEF Handled, BatchReadable
  <1>4. Init => BatchReadable
    BY DEF Init, BatchReadable
  <1>5. ASSUME IInv, BatchReadable, [Next]_vars PROVE BatchReadable'
    <2>1. CASE UNCHANGED vars \/ Gone
      BY <1>5, <2>1, ReadableKept DEF vars, sockVars, Gone
    <2>2. CASE Environment
      BY <1>5, <2>2, ReadableEnvironment DEF IInv
    <2>3. CASE Server
      BY <1>5, <2>3, ReadableServer
    <2> QED
      BY <1>5, <2>1, <2>2, <2>3 DEF Next
  <1> DEFINE J == GoneAfterBatch /\ BatchReadable
  <1>6. Init => J
    BY <1>1, <1>4
  <1>7. IInv /\ J => Handled
    BY <1>3
  <1>8. IInv /\ J /\ [Next]_vars => J'
    BY <1>2, <1>5
  <1> HIDE DEF J
  <1>9. IInv /\ J /\ [Next]_vars => (IInv /\ J)'
    BY <1>8, ServerStep
  <1> QED
    BY <1>6, <1>7, <1>9, ServerInit, PTL DEF Spec

=============================================================================
