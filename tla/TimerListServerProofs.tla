------------------------ MODULE TimerListServerProofs ------------------------
(***************************************************************************)
(* Proofs about TimerListServer, for any set of clients, any TIMESLOT and  *)
(* any bound on the input: descriptors and timers of the server of         *)
(* src/time_wheel/timer_list.cpp belong together, its alarm is never lost  *)
(* or doubled, and it calls its list of timers only as TimerQueue, which   *)
(* the list implements, allows.                                            *)
(***************************************************************************)
EXTENDS TimerListServer, SequenceTheorems, TLAPS

(* What the properties need to be inductive: tick() runs only while the    *)
(* flag timeout is set and the batch is done, and it leaves nothing to     *)
(* fire behind.                                                            *)
TickAfterBatch == ticking => timeout /\ batch = {}
NothingFires == ~ticking => firing = {}

IInv == ServerInv /\ OneAlarm /\ TickAfterBatch /\ NothingFires

\* The server starts with an alarm set, and with nothing else.
LEMMA ListInit == Init => IInv
  <1> SUFFICES ASSUME Init PROVE IInv
    OBVIOUS
  <1> USE ServerAssumption DEF Init, Queue!Init
  <1>1. backlog \in Seq(Client) /\ Len(backlog) = 0
    OBVIOUS
  <1>2. pipe \in [{ALRM, TERM} -> Nat] /\ pipe[ALRM] = 0
    OBVIOUS
  <1>3. ttl \in [Client -> 0 .. EXPIRE] /\ unread \in [Client -> 0 .. MAX_UNREAD]
        /\ conn \in [Client -> {"none", "backlog", "open"}]
        /\ peer \in [Client -> {"up", "fin", "rst"}]
    BY DEF EXPIRE
  <1>a. alarm \in 0 .. TIMESLOT
    OBVIOUS
  <1>b. TypeOK
    BY <1>1, <1>2, <1>3, <1>a DEF TypeOK
  <1>c. TimerPerConnection /\ BatchOpen
    BY DEF TimerPerConnection, BatchOpen
  <1>4. ServerInv
    BY <1>b, <1>c DEF ServerInv
  <1>5. OneAlarm
    BY <1>2 DEF OneAlarm, One
  <1> QED
    BY <1>4, <1>5 DEF IInv, TickAfterBatch, NothingFires

\* TIMESLOT and EXPIRE are positive, and the signals are two.
LEMMA ListFacts == /\ TIMESLOT \in Nat \ {0} /\ EXPIRE \in Nat \ {0}
                   /\ MAX_UNREAD \in Nat \ {0}
                   /\ Listen \notin Client /\ Pipe \notin Client /\ Listen # Pipe
                   /\ ALRM # TERM
  BY ServerAssumption, DescriptorAssumption DEF EXPIRE, ALRM, TERM, Listen, Pipe

\* A connection attempt is one more in the queue and at most one more edge.
LEMMA ListConnect == ASSUME IInv, NEW c \in Client, Connect(c) PROVE IInv'
  <1> USE ListFacts DEF Connect, IInv, queueVars, sockVars
  <1>1. backlog' \in Seq(Client) /\ Len(backlog') = Len(backlog) + 1 /\ Len(backlog) \in Nat
    BY DEF ServerInv, TypeOK
  <1>2. ServerInv'
    BY <1>1 DEF ServerInv, TypeOK, TimerPerConnection, BatchOpen
  <1>4. OneAlarm' /\ TickAfterBatch' /\ NothingFires'
    BY DEF OneAlarm, One, TickAfterBatch, NothingFires
  <1> QED
    BY <1>2, <1>4

\* Where the j-th element of Without(s, i) stands in s.
Old(j, i) == IF j < i THEN j ELSE j + 1

\* A sequence without one of its elements.
LEMMA WithoutElement ==
    ASSUME NEW S, NEW s \in Seq(S), NEW i \in DOMAIN s
    PROVE  /\ Without(s, i) \in Seq(S) /\ Len(Without(s, i)) = Len(s) - 1
           /\ \A j \in DOMAIN Without(s, i) :
                 Old(j, i) \in DOMAIN s /\ Old(j, i) # i /\ Without(s, i)[j] = s[Old(j, i)]
  <1>1. DOMAIN s = 1 .. Len(s) /\ Len(s) \in Nat /\ Len(s) >= 1 /\ i \in 1 .. Len(s)
    OBVIOUS
  <1>2. \A j \in 1 .. Len(s) - 1 : (j < i => j \in 1 .. Len(s)) /\ j + 1 \in 1 .. Len(s)
    BY <1>1
  <1>3. \A j \in 1 .. Len(s) - 1 : (IF j < i THEN s[j] ELSE s[j + 1]) \in S
    BY <1>1, <1>2
  <1>4. Without(s, i) \in [1 .. Len(s) - 1 -> S]
    BY <1>3 DEF Without
  <1>5. Without(s, i) \in Seq(S) /\ Len(Without(s, i)) = Len(s) - 1
        /\ DOMAIN Without(s, i) = 1 .. Len(s) - 1
    <2>1. Len(s) - 1 \in Nat
      BY <1>1
    <2> QED
      BY <1>4, <2>1
  <1>6. ASSUME NEW j \in DOMAIN Without(s, i)
        PROVE  Old(j, i) \in DOMAIN s /\ Old(j, i) # i /\ Without(s, i)[j] = s[Old(j, i)]
    <2>1. j \in 1 .. Len(s) - 1 /\ Without(s, i)[j] = IF j < i THEN s[j] ELSE s[j + 1]
      BY <1>5 DEF Without
    <2> QED
      BY <1>1, <1>2, <2>1 DEF Old
  <1> QED
    BY <1>5, <1>6

\* A connection that leaves the queue before it is accepted has no timer yet.
LEMMA ListAbort == ASSUME IInv, NEW c \in Client, Abort(c) PROVE IInv'
  <1> USE ListFacts DEF Abort, IInv, queueVars
  <1>1. PICK i \in DOMAIN backlog : backlog' = Without(backlog, i)
    OBVIOUS
  <1>2. backlog \in Seq(Client)
    BY DEF ServerInv, TypeOK
  <1>3. backlog' \in Seq(Client)
    BY <1>1, <1>2, WithoutElement
  <1>4. /\ conn' \in [Client -> {"none", "backlog", "open"}]
        /\ unread' \in [Client -> 0 .. MAX_UNREAD] /\ peer' \in [Client -> {"up", "fin", "rst"}]
        /\ \A d \in Client : conn'[d] = "open" <=> conn[d] = "open"
    BY DEF ServerInv, TypeOK
  <1>5. ServerInv'
    BY <1>3, <1>4 DEF ServerInv, TypeOK, TimerPerConnection, BatchOpen
  <1> QED
    BY <1>5 DEF OneAlarm, One, TickAfterBatch, NothingFires

\* Input and hang-ups leave timers, alarm and accept queue alone.
LEMMA ListPeer ==
    ASSUME IInv, NEW c \in Client, Send(c) \/ \E how \in {"fin", "rst"} : HangUp(c, how)
    PROVE  IInv'
  <1> USE ListFacts DEF IInv, queueVars, sockVars
  <1>1. /\ UNCHANGED <<queueVars, conn, backlog, batch, alarm, pipe, timeout, stop>>
        /\ ready' \in SUBSET (Client \cup {Listen, Pipe})
        /\ (Listen \in ready') = (Listen \in ready)
    BY DEF Send, HangUp, Edge, ServerInv, TypeOK
  <1>2. unread' \in [Client -> 0 .. MAX_UNREAD]
    <2>1. unread \in [Client -> 0 .. MAX_UNREAD]
      BY DEF ServerInv, TypeOK
    <2>2. CASE Send(c)
      <3>1. unread[c] + 1 \in 0 .. MAX_UNREAD /\ unread' = [unread EXCEPT ![c] = @ + 1]
        BY <2>1, <2>2 DEF Send
      <3> QED
        BY <2>1, <3>1
    <2>3. CASE unread' = unread
      BY <2>1, <2>3
    <2> QED
      BY <2>2, <2>3 DEF HangUp
  <1>3. peer' \in [Client -> {"up", "fin", "rst"}]
    BY DEF Send, HangUp, ServerInv, TypeOK
  <1>4. ServerInv'
    BY <1>1, <1>2, <1>3 DEF ServerInv, TypeOK, TimerPerConnection, BatchOpen
  <1> QED
    BY <1>1, <1>4 DEF OneAlarm, One, TickAfterBatch, NothingFires

\* A byte of SIGTERM in the pipe is not one of SIGALRM.
LEMMA ListTerminate == IInv /\ Terminate => IInv'
  <1> SUFFICES ASSUME IInv, Terminate PROVE IInv'
    OBVIOUS
  <1> USE ListFacts DEF IInv, Terminate, Deliver, queueVars, sockVars
  <1>1. pipe' \in [{ALRM, TERM} -> Nat] /\ pipe'[ALRM] = pipe[ALRM]
    BY DEF ServerInv, TypeOK
  <1>2. ServerInv'
    BY <1>1 DEF ServerInv, TypeOK, TimerPerConnection, BatchOpen
  <1> QED
    BY <1>1, <1>2 DEF OneAlarm, One, TickAfterBatch, NothingFires

\* The alarm goes off: it moves from the clock into the pipe.
LEMMA ListClock == IInv /\ Clock => IInv'
  <1> SUFFICES ASSUME IInv, Clock PROVE IInv'
    OBVIOUS
  <1> USE ListFacts DEF IInv, Clock, Deliver, Queue!Elapse, queueVars, sockVars
  <1>1. ttl' \in [Client -> 0 .. EXPIRE]
    BY DEF ServerInv, TypeOK
  <1>2. alarm' \in 0 .. TIMESLOT
    BY DEF ServerInv, TypeOK
  <1>3. pipe' \in [{ALRM, TERM} -> Nat]
        /\ pipe'[ALRM] = IF alarm = 1 THEN pipe[ALRM] + 1 ELSE pipe[ALRM]
    BY DEF ServerInv, TypeOK
  <1>4. ready' \in SUBSET (Client \cup {Listen, Pipe})
        /\ (Listen \in ready') = (Listen \in ready)
    BY DEF ServerInv, TypeOK
  <1>5. ServerInv'
    BY <1>1, <1>2, <1>3, <1>4 DEF ServerInv, TypeOK, TimerPerConnection, BatchOpen
  <1>7. One(alarm > 0) + pipe[ALRM] = One(alarm' > 0) + pipe'[ALRM]
    BY <1>3 DEF One, ServerInv, TypeOK
  <1>8. OneAlarm'
    BY <1>3, <1>7 DEF OneAlarm, One, ServerInv, TypeOK
  <1> QED
    BY <1>5, <1>8 DEF TickAfterBatch, NothingFires

(* epoll_wait: no timer fires as long as an event is to be handled, and an *)
(* edge of the listening socket moves into the batch.                      *)
LEMMA ListWait == IInv /\ EpollWait => IInv'
  <1> SUFFICES ASSUME IInv, EpollWait PROVE IInv'
    OBVIOUS
  <1> USE ListFacts DEF IInv, EpollWait, queueVars, sockVars
  <1>1. \A c \in Client : Reportable(c) => conn[c] = "open"
    BY DEF Reportable
  <1>2. ServerInv'
    BY <1>1 DEF ServerInv, TypeOK, TimerPerConnection, BatchOpen
  <1>3. Listen \in batch' => Listen \in ready
    OBVIOUS
  <1>4. Listen \notin ready' /\ Listen \notin batch /\ UNCHANGED backlog
    OBVIOUS
  <1>5. Len(backlog) \in Nat
    BY DEF ServerInv, TypeOK
  <1> QED
    BY <1>2 DEF OneAlarm, One, TickAfterBatch, NothingFires, ServerInv, TypeOK

\* accept and add_timer: the connection and its timer come to life together.
LEMMA ListAccept == ASSUME IInv, NEW c \in Client, AcceptConn(c) PROVE IInv'
  <1> USE ListFacts DEF IInv, AcceptConn, Handling, Queue!Add
  <1>1. /\ backlog' \in Seq(Client) /\ Len(backlog') = Len(backlog) - 1
        /\ Len(backlog) \in Nat
    BY DEF ServerInv, TypeOK
  <1>2. ttl' \in [Client -> 0 .. EXPIRE]
    BY DEF ServerInv, TypeOK
  <1>3. /\ ready' \in SUBSET (Client \cup {Listen, Pipe})
        /\ (Listen \in ready') = (Listen \in ready)
    BY DEF ServerInv, TypeOK
  <1>4. conn' \in [Client -> {"none", "backlog", "open"}]
        /\ {d \in Client : conn'[d] = "open"} = {d \in Client : conn[d] = "open"} \cup {c}
    BY DEF ServerInv, TypeOK
  <1>5. ServerInv'
    BY <1>1, <1>2, <1>3, <1>4 DEF ServerInv, TypeOK, TimerPerConnection, BatchOpen
  <1> QED
    BY <1>5 DEF OneAlarm, One, TickAfterBatch, NothingFires

\* Reading the pipe: a byte of SIGALRM becomes the flag timeout.
LEMMA ListReadPipe == IInv /\ ReadPipe => IInv'
  <1> SUFFICES ASSUME IInv, ReadPipe PROVE IInv'
    OBVIOUS
  <1> USE ListFacts DEF IInv, ReadPipe, Handling, queueVars, sockVars
  <1>1. pipe' \in [{ALRM, TERM} -> Nat] /\ pipe'[ALRM] = 0
    BY DEF ServerInv, TypeOK
  <1>2. ServerInv'
    BY <1>1 DEF ServerInv, TypeOK, TimerPerConnection, BatchOpen
  <1>4. ASSUME stop' = "no" PROVE One(alarm' > 0) + pipe'[ALRM] + One(timeout') = 1
    <2>1. stop = "no"
      BY <1>4
    <2>2. One(alarm > 0) + pipe[ALRM] + One(timeout) = 1 /\ pipe[ALRM] \in Nat
      BY <2>1 DEF OneAlarm, ServerInv, TypeOK
    <2>3. CASE pipe[ALRM] = 0
      <3>1. timeout' = timeout /\ alarm' = alarm
        BY <2>3 DEF ServerInv, TypeOK
      <3> QED
        BY <1>1, <2>2, <2>3, <3>1
    <2>4. CASE pipe[ALRM] > 0
      <3>1. timeout' = TRUE /\ alarm' = alarm /\ One(alarm > 0) = 0
        <4>1. timeout' = TRUE /\ alarm' = alarm
          BY <2>4
        <4>2. One(alarm > 0) \in {0, 1} /\ One(timeout) \in {0, 1}
          BY DEF One
        <4>3. One(alarm > 0) = 0
          BY <2>2, <2>4, <4>2
        <4> QED
          BY <4>1, <4>3
      <3> QED
        BY <1>1, <3>1 DEF One
    <2> QED
      BY <2>2, <2>3, <2>4
  <1> QED
    BY <1>2, <1>4 DEF OneAlarm, TickAfterBatch, NothingFires

\* recv returned data: the timer is put off and stays with its descriptor.
LEMMA ListReadData == ASSUME IInv, NEW c \in Client, ReadData(c) PROVE IInv'
  <1> USE ListFacts DEF IInv, ReadData, Handling, Queue!Adjust
  <1>1. ttl' \in [Client -> 0 .. EXPIRE] /\ unread' \in [Client -> 0 .. MAX_UNREAD]
    BY DEF ServerInv, TypeOK
  <1>2. ServerInv'
    BY <1>1 DEF ServerInv, TypeOK, TimerPerConnection, BatchOpen
  <1> QED
    BY <1>2 DEF OneAlarm, One, TickAfterBatch, NothingFires

(* cb_func closes the socket and the timer is deleted: from recv's branch  *)
(* or from tick(), with no event of the descriptor left in the batch.      *)
LEMMA ListClose ==
    ASSUME IInv, NEW c \in Client, Close(c), Queue!Remove(c),
           batch' \subseteq batch \ {c}, Listen \in batch => Listen \in batch',
           firing' \subseteq firing \ {c} \/ (firing' = {} /\ firing = {}),
           UNCHANGED <<ticking, alarm, pipe, timeout, stop>>
    PROVE  IInv'
  <1> USE ListFacts DEF IInv, Close, Queue!Remove
  <1>1. ttl' \in [Client -> 0 .. EXPIRE] /\ unread' \in [Client -> 0 .. MAX_UNREAD]
        /\ peer' \in [Client -> {"up", "fin", "rst"}]
    BY DEF ServerInv, TypeOK
  <1>2. conn' \in [Client -> {"none", "backlog", "open"}]
        /\ {d \in Client : conn'[d] = "open"} = {d \in Client : conn[d] = "open"} \ {c}
    BY DEF ServerInv, TypeOK
  <1>3. firing' \subseteq pending' /\ pending' = pending \ {c}
    BY DEF ServerInv, TypeOK
  <1>4. ServerInv'
    BY <1>1, <1>2, <1>3 DEF ServerInv, TypeOK, TimerPerConnection, BatchOpen
  <1>5. Len(backlog') = Len(backlog) /\ (Listen \in ready') = (Listen \in ready)
        /\ (Listen \in batch') = (Listen \in batch)
    OBVIOUS
  <1> QED
    BY <1>4 DEF OneAlarm, One, TickAfterBatch, NothingFires

\* The rest of the loop: end of file, tick() and the end of the process.
LEMMA ListReadEnd == ASSUME IInv, NEW c \in Client, ReadEnd(c) PROVE IInv'
  <1>1. batch' = batch \ {c} /\ Close(c) /\ Queue!Remove(c) /\ ~ticking
        /\ UNCHANGED <<ticking, firing, alarm, pipe, timeout, stop>>
    BY DEF ReadEnd, Handling, Queue!Del
  <1>2. firing = {}
    BY <1>1 DEF IInv, NothingFires
  <1> QED
    BY <1>1, <1>2, ListClose, ListFacts

\* tick() closes a descriptor whose timer is due.
LEMMA ListTickFire == ASSUME IInv, NEW c \in Client, TickFire(c) PROVE IInv'
  <1>1. batch' = batch /\ Close(c) /\ Queue!Remove(c) /\ ticking
        /\ firing' = firing \ {c} /\ UNCHANGED <<ticking, alarm, pipe, timeout, stop>>
    BY DEF TickFire, Queue!Fire
  <1>2. batch = {}
    BY <1>1 DEF IInv, TickAfterBatch
  <1> QED
    BY <1>1, <1>2, ListClose

\* timer_handler: tick() starts with the timers that are due, alarm() ends it.
LEMMA ListTick == IInv /\ (TickBegin \/ TickEnd) => IInv'
  <1> SUFFICES ASSUME IInv, TickBegin \/ TickEnd PROVE IInv'
    OBVIOUS
  <1> USE ListFacts DEF IInv, queueVars, sockVars
  <1>1. CASE TickBegin
    <2>1. ServerInv'
      BY <1>1 DEF TickBegin, Queue!TickBegin, ServerInv, TypeOK, TimerPerConnection, BatchOpen
    <2> QED
      BY <1>1, <2>1
      DEF TickBegin, Queue!TickBegin, OneAlarm, One, TickAfterBatch, NothingFires
  <1>2. CASE TickEnd
    <2>1. ServerInv'
      <3>1. alarm' \in 0 .. TIMESLOT
        BY <1>2 DEF TickEnd
      <3> QED
        BY <1>2, <3>1
        DEF TickEnd, Queue!TickEnd, ServerInv, TypeOK, TimerPerConnection, BatchOpen
    <2>3. timeout /\ ~timeout' /\ alarm' > 0 /\ UNCHANGED <<pipe, stop>>
      BY <1>2 DEF TickEnd, Queue!TickEnd, TickAfterBatch
    <2>4. OneAlarm'
      BY <2>3 DEF OneAlarm, One, ServerInv, TypeOK
    <2> QED
      BY <1>2, <2>1, <2>4 DEF TickEnd, Queue!TickEnd, TickAfterBatch, NothingFires
  <1> QED
    BY <1>1, <1>2

\* The process ends: everything it had open is gone.
LEMMA ListEnds ==
    ASSUME IInv, Ends, batch' = {}, timeout' \in BOOLEAN, UNCHANGED <<alarm, pipe>>
    PROVE  IInv'
  <1> USE ListFacts DEF IInv, Ends, Queue!Destroy
  <1>1. ttl' \in [Client -> 0 .. EXPIRE] /\ unread' \in [Client -> 0 .. MAX_UNREAD]
        /\ peer' \in [Client -> {"up", "fin", "rst"}]
        /\ conn' \in [Client -> {"none", "backlog", "open"}]
        /\ {d \in Client : conn'[d] = "open"} = {}
    OBVIOUS
  <1>2. firing' = {}
    BY DEF NothingFires
  <1>3. ServerInv'
    BY <1>1, <1>2 DEF ServerInv, TypeOK, TimerPerConnection, BatchOpen
  <1> QED
    BY <1>3 DEF OneAlarm, TickAfterBatch, NothingFires

\* main returns.
LEMMA ListExit == IInv /\ Exit => IInv'
  BY ListEnds DEF Exit, IInv, ServerInv, TypeOK

\* accept of an empty queue: the event is used up, or the process with it.
LEMMA ListAcceptFails == IInv /\ (AcceptFails \/ AcceptDies) => IInv'
  <1>1. ASSUME IInv, AcceptDies PROVE IInv'
    BY <1>1, ListEnds DEF AcceptDies
  <1>2. ASSUME IInv, AcceptFails PROVE IInv'
    <2>1. /\ UNCHANGED <<queueVars, sockVars, ready, alarm, pipe, timeout, stop>>
          /\ batch' \subseteq batch
      BY <1>2 DEF AcceptFails, Handling
    <2>2. ServerInv'
      BY <1>2, <2>1 DEF IInv, ServerInv, TypeOK, TimerPerConnection, BatchOpen, queueVars, sockVars
    <2> QED
      BY <1>2, <2>1, <2>2 DEF IInv, OneAlarm, One, TickAfterBatch, NothingFires, queueVars
  <1> QED
    BY <1>1, <1>2

\* IInv is inductive.
LEMMA ListStep == IInv /\ [Next]_vars => IInv'
  <1>1. ASSUME IInv, UNCHANGED vars PROVE IInv'
    BY <1>1 DEF vars, queueVars, sockVars, IInv, ServerInv, TypeOK, TimerPerConnection,
          BatchOpen, OneAlarm, One, TickAfterBatch, NothingFires
  <1>2. ASSUME IInv, Environment PROVE IInv'
    BY <1>2, ListConnect, ListAbort, ListPeer, ListTerminate DEF Environment
  <1>3. ASSUME IInv, Server PROVE IInv'
    BY <1>3, ListWait, ListReadPipe, ListAccept, ListReadData, ListReadEnd, ListTickFire,
       ListTick, ListAcceptFails, ListExit DEF Server
  <1> QED
    BY <1>1, <1>2, <1>3, ListClock DEF Next, Out

(* Descriptors and timers of timer_list.cpp live and die together, and no  *)
(* event of a batch is about a descriptor that was closed.                 *)
THEOREM ListServerCorrect == Spec => []ServerInv
  <1>1. IInv => ServerInv
    BY DEF IInv
  <1> QED
    BY <1>1, ListInit, ListStep, PTL DEF Spec

(* While the server runs its alarm is counting down, in the pipe or in the *)
(* flag timeout, and in one of these places only.                          *)
THEOREM AlarmNeverLost == Spec => []OneAlarm
  <1>1. IInv => OneAlarm
    BY DEF IInv
  <1> QED
    BY <1>1, ListInit, ListStep, PTL DEF Spec

-----------------------------------------------------------------------------
(* The server and its list of timers                                       *)

(* Every step of the server is a step of the list, or leaves it alone: it  *)
(* calls add_timer, adjust_timer, del_timer and tick() only as TimerQueue  *)
(* allows, which the list of lst_timer.hpp implements (ListIsQueue of      *)
(* LstTimerProofs).  The timers of no descriptor that AcceptFails leaves   *)
(* behind come on top of these.                                            *)
THEOREM ServerUsesQueue == Spec => Queue!Spec
  <1>1. Init => Queue!Init
    BY DEF Init
  <1>2. ASSUME [Next]_vars PROVE [Queue!Next]_Queue!queueVars
    <2> USE DEF queueVars, Queue!queueVars
    <2>1. CASE UNCHANGED vars
      BY <2>1 DEF vars
    <2>2. CASE Environment
      BY <2>2 DEF Environment, Connect, Abort, Send, HangUp, Terminate
    <2>3. CASE Clock
      BY <2>3 DEF Clock, Queue!Next
    <2>4. CASE EpollWait \/ ReadPipe \/ AcceptFails
      BY <2>4 DEF EpollWait, ReadPipe, AcceptFails
    <2>5. ASSUME NEW c \in Client, AcceptConn(c) \/ ReadData(c) \/ ReadEnd(c) \/ TickFire(c)
          PROVE  Queue!Next
      <3>1. Queue!Add(c, EXPIRE) \/ Queue!Adjust(c, EXPIRE) \/ Queue!Del(c) \/ Queue!Fire(c)
        BY <2>5 DEF AcceptConn, ReadData, ReadEnd, TickFire
      <3> QED
        BY <3>1 DEF Queue!Next
    <2>6. CASE TickBegin \/ TickEnd \/ AcceptDies \/ Exit
      BY <2>6 DEF TickBegin, TickEnd, AcceptDies, Exit, Ends, Queue!Next
    <2> QED
      BY <1>2, <2>1, <2>2, <2>3, <2>4, <2>5, <2>6 DEF Next, Server, Out, vars
  <1> QED
    BY <1>1, <1>2, PTL DEF Spec, Queue!Spec

(* What no guard of the list ever refuses: every event of the batch finds  *)
(* the list idle; a connection about to be accepted has no timer yet, and  *)
(* a client whose event is handled has one, which is not later than the    *)
(* time it is put off to, and has something recv will return.              *)
Handled ==
    /\ batch # {} => ~ticking
    /\ backlog # <<>> => Head(backlog) \in Client \ pending
    /\ \A c \in batch \cap Client :
          c \in pending /\ ttl[c] <= EXPIRE /\ (unread[c] > 0 \/ peer[c] # "up")

\* A client waits in the accept queue once, and is not accepted yet.
Waiting ==
    /\ \A i \in DOMAIN backlog : conn[backlog[i]] = "backlog"
    /\ \A i, j \in DOMAIN backlog : backlog[i] = backlog[j] => i = j

\* Only its own handler takes from a client what its event was about.
BatchReportable == \A c \in batch \cap Client : unread[c] > 0 \/ peer[c] # "up"

\* Together with IInv, these two are what Handled needs.
LEMMA HandledFollows == IInv /\ Waiting /\ BatchReportable => Handled
  <1> SUFFICES ASSUME IInv, Waiting, BatchReportable PROVE Handled
    OBVIOUS
  <1>1. TypeOK
    BY DEF IInv, ServerInv
  <1>2. batch # {} => ~ticking
    BY DEF IInv, TickAfterBatch
  <1>3. ASSUME backlog # <<>> PROVE Head(backlog) \in Client \ pending
    <2>2. 1 \in DOMAIN backlog /\ Head(backlog) = backlog[1] /\ backlog[1] \in Client
      BY <1>1, <1>3 DEF TypeOK
    <2>3. conn[backlog[1]] = "backlog"
      BY <2>2 DEF Waiting
    <2> QED
      BY <2>2, <2>3 DEF IInv, ServerInv, TimerPerConnection
  <1>4. ASSUME NEW c \in batch \cap Client
        PROVE  c \in pending /\ ttl[c] <= EXPIRE /\ (unread[c] > 0 \/ peer[c] # "up")
    <2>1. c \in pending
      BY DEF IInv, ServerInv, BatchOpen, TimerPerConnection
    <2>2. ttl[c] <= EXPIRE
      BY <1>1, ListFacts DEF TypeOK
    <2> QED
      BY <2>1, <2>2 DEF BatchReportable
  <1> QED
    BY <1>2, <1>3, <1>4 DEF Handled

\* Steps that leave the accept queue alone.
LEMMA WaitingKept ==
    ASSUME Waiting, backlog \in Seq(Client), backlog' = backlog,
           \A d \in Client : conn[d] = "backlog" => conn'[d] = "backlog"
    PROVE  Waiting'
  <1>1. \A i \in DOMAIN backlog : backlog[i] \in Client
    OBVIOUS
  <1> QED
    BY <1>1 DEF Waiting

\* Waiting and BatchReportable are inductive relative to IInv.
LEMMA WaitingStep ==
    IInv /\ Waiting /\ BatchReportable /\ [Next]_vars => Waiting' /\ BatchReportable'
  <1> SUFFICES ASSUME IInv, Waiting, BatchReportable, [Next]_vars
               PROVE  Waiting' /\ BatchReportable'
    OBVIOUS
  <1> USE ListFacts
  <1>t. TypeOK
    BY DEF IInv, ServerInv
  <1>b. backlog \in Seq(Client) /\ conn \in [Client -> {"none", "backlog", "open"}]
    BY <1>t DEF TypeOK
  <1>1. CASE UNCHANGED vars
    <2>1. UNCHANGED <<conn, unread, peer, backlog, batch>>
      BY <1>1 DEF vars, sockVars
    <2> QED
      BY <2>1 DEF Waiting, BatchReportable
  <1>2. ASSUME NEW c \in Client, Connect(c) PROVE Waiting' /\ BatchReportable'
    <2>1. conn[c] = "none" /\ conn' = [conn EXCEPT ![c] = "backlog"]
          /\ backlog' = Append(backlog, c) /\ UNCHANGED <<unread, peer, batch>>
      BY <1>2 DEF Connect
    <2>2. /\ DOMAIN backlog' = 1 .. Len(backlog) + 1 /\ DOMAIN backlog = 1 .. Len(backlog)
          /\ backlog'[Len(backlog) + 1] = c /\ Len(backlog) \in Nat
          /\ \A i \in 1 .. Len(backlog) : backlog'[i] = backlog[i] /\ backlog[i] \in Client
      BY <1>b, <2>1
    <2>3. \A i \in 1 .. Len(backlog) : backlog[i] # c
      BY <2>1, <2>2 DEF Waiting
    <2>4. \A i \in DOMAIN backlog' : conn'[backlog'[i]] = "backlog"
      BY <1>b, <2>1, <2>2 DEF Waiting
    <2>5. \A i, j \in DOMAIN backlog' : backlog'[i] = backlog'[j] => i = j
      BY <2>2, <2>3 DEF Waiting
    <2> QED
      BY <2>1, <2>4, <2>5 DEF Waiting, BatchReportable
  <1>a. ASSUME NEW c \in Client, Abort(c) PROVE Waiting' /\ BatchReportable'
    <2>1. PICK i \in DOMAIN backlog : backlog[i] = c /\ backlog' = Without(backlog, i)
      BY <1>a DEF Abort
    <2>2. /\ conn[c] = "backlog" /\ conn' = [conn EXCEPT ![c] = "none"] /\ batch' = batch
          /\ \A d \in Client \ {c} : unread'[d] = unread[d] /\ peer'[d] = peer[d]
      BY <1>a, <1>t DEF Abort, TypeOK
    <2>3. c \notin batch
      BY <2>2 DEF IInv, ServerInv, BatchOpen
    <2>4. BatchReportable'
      BY <2>2, <2>3 DEF BatchReportable
    <2>5. \A j \in DOMAIN backlog' :
             Old(j, i) \in DOMAIN backlog /\ Old(j, i) # i /\ backlog'[j] = backlog[Old(j, i)]
      <3>1. \A j \in DOMAIN Without(backlog, i) :
               Old(j, i) \in DOMAIN backlog /\ Old(j, i) # i /\ Without(backlog, i)[j] = backlog[Old(j, i)]
        BY <1>b, WithoutElement, Zenon
      <3> QED
        BY <2>1, <3>1, Zenon
    <2>6. DOMAIN backlog' \subseteq Int /\ i \in Int
      <3>1. backlog' \in Seq(Client)
        BY <1>b, <2>1, WithoutElement
      <3> QED
        BY <1>b, <3>1
    <2>7. \A j, k \in DOMAIN backlog' : Old(j, i) = Old(k, i) => j = k
      BY <2>6 DEF Old
    <2>8. ASSUME NEW j \in DOMAIN backlog' PROVE conn'[backlog'[j]] = "backlog"
      <3>1. backlog[Old(j, i)] # c /\ backlog[Old(j, i)] \in Client /\ conn[backlog[Old(j, i)]] = "backlog"
        BY <1>b, <2>1, <2>5 DEF Waiting
      <3> QED
        BY <1>b, <2>2, <2>5, <3>1
    <2>9. \A j, k \in DOMAIN backlog' : backlog'[j] = backlog'[k] => j = k
      BY <2>5, <2>7 DEF Waiting
    <2> QED
      BY <2>4, <2>8, <2>9 DEF Waiting
  <1>3. ASSUME NEW c \in Client, Send(c) \/ \E how \in {"fin", "rst"} : HangUp(c, how)
        PROVE  Waiting' /\ BatchReportable'
    <2>1. UNCHANGED <<conn, backlog, batch>>
      BY <1>3 DEF Send, HangUp
    <2>2. Waiting'
      BY <1>b, <2>1, WaitingKept
    <2>3. \A d \in Client : unread[d] > 0 \/ peer[d] # "up" => unread'[d] > 0 \/ peer'[d] # "up"
      BY <1>t, <1>3 DEF Send, HangUp, TypeOK
    <2> QED
      BY <2>1, <2>2, <2>3 DEF BatchReportable
  <1>4. CASE Terminate \/ Clock \/ ReadPipe \/ AcceptFails \/ TickBegin \/ TickEnd
    <2>1. UNCHANGED <<conn, backlog, unread, peer>> /\ batch' \subseteq batch
      BY <1>4 DEF Terminate, Clock, ReadPipe, AcceptFails, TickBegin, TickEnd, Handling, sockVars
    <2>2. Waiting'
      BY <1>b, <2>1, WaitingKept
    <2> QED
      BY <2>1, <2>2 DEF BatchReportable
  <1>5. CASE EpollWait
    <2>1. UNCHANGED <<conn, backlog, unread, peer>> /\ \A x \in batch' : Reportable(x)
      BY <1>5 DEF EpollWait, sockVars
    <2>2. Waiting'
      BY <1>b, <2>1, WaitingKept
    <2>3. \A c \in Client : Reportable(c) => unread[c] > 0 \/ peer[c] # "up"
      BY DEF Reportable
    <2> QED
      BY <2>1, <2>2, <2>3 DEF BatchReportable
  <1>6. ASSUME NEW c \in Client, AcceptConn(c) PROVE Waiting' /\ BatchReportable'
    <2>1. backlog # <<>> /\ c = Head(backlog) /\ backlog' = Tail(backlog)
          /\ conn' = [conn EXCEPT ![c] = "open"] /\ UNCHANGED <<unread, peer>>
          /\ batch' \subseteq batch
      BY <1>6 DEF AcceptConn, Handling
    <2>2. /\ DOMAIN backlog = 1 .. Len(backlog) /\ Len(backlog) \in Nat /\ Len(backlog) >= 1
          /\ DOMAIN backlog' = 1 .. Len(backlog) - 1 /\ c = backlog[1]
          /\ \A i \in DOMAIN backlog' : backlog'[i] = backlog[i + 1]
          /\ \A i \in DOMAIN backlog : backlog[i] \in Client
      BY <1>b, <2>1
    <2>3. \A i \in DOMAIN backlog' : i + 1 \in DOMAIN backlog /\ i + 1 # 1
      BY <2>2
    <2>4. ASSUME NEW i \in DOMAIN backlog' PROVE conn'[backlog'[i]] = "backlog"
      <3>1. backlog'[i] = backlog[i + 1] /\ backlog[i + 1] \in Client /\ 1 \in DOMAIN backlog
        BY <2>2, <2>3
      <3>2. backlog[i + 1] # c
        BY <2>2, <2>3, <3>1 DEF Waiting
      <3>3. conn[backlog[i + 1]] = "backlog"
        BY <2>3 DEF Waiting
      <3> QED
        BY <1>b, <2>1, <3>1, <3>2, <3>3
    <2>5. ASSUME NEW i \in DOMAIN backlog', NEW j \in DOMAIN backlog', backlog'[i] = backlog'[j]
          PROVE  i = j
      <3>1. backlog[i + 1] = backlog[j + 1] /\ i + 1 \in DOMAIN backlog /\ j + 1 \in DOMAIN backlog
        BY <2>2, <2>3, <2>5
      <3>2. i + 1 = j + 1
        BY <3>1 DEF Waiting
      <3> QED
        BY <2>2, <3>2
    <2> QED
      BY <2>1, <2>4, <2>5 DEF Waiting, BatchReportable
  <1>7. ASSUME NEW c \in Client, ReadData(c) PROVE Waiting' /\ BatchReportable'
    <2>1. UNCHANGED <<conn, backlog, peer>> /\ batch' = batch \ {c}
          /\ unread' = [unread EXCEPT ![c] = @ - 1]
      BY <1>7 DEF ReadData, Handling
    <2>2. Waiting'
      BY <1>b, <2>1, WaitingKept
    <2>3. \A d \in Client \ {c} : unread'[d] = unread[d]
      BY <1>t, <2>1 DEF TypeOK
    <2> QED
      BY <2>1, <2>2, <2>3 DEF BatchReportable
  <1>8. ASSUME NEW c \in Client, ReadEnd(c) \/ TickFire(c) PROVE Waiting' /\ BatchReportable'
    <2>1. Close(c) /\ c \in pending /\ batch' \subseteq batch \ {c}
      <3>1. CASE ReadEnd(c)
        BY <3>1 DEF ReadEnd, Handling, Queue!Del
      <3>2. CASE TickFire(c)
        BY <1>t, <3>2 DEF TickFire, Queue!Fire, IInv, TickAfterBatch, TypeOK
      <3> QED
        BY <1>8, <3>1, <3>2
    <2>2. conn[c] = "open"
      BY <2>1 DEF IInv, ServerInv, TimerPerConnection
    <2>3. backlog' = backlog /\ \A d \in Client : conn[d] = "backlog" => conn'[d] = "backlog"
      BY <1>b, <2>1, <2>2 DEF Close
    <2>4. \A d \in Client \ {c} : unread'[d] = unread[d] /\ peer'[d] = peer[d]
      BY <1>t, <2>1 DEF Close, TypeOK
    <2> QED
      BY <1>b, <2>1, <2>3, <2>4, WaitingKept DEF BatchReportable
  <1>9. CASE AcceptDies \/ Exit
    <2>1. backlog' = <<>> /\ batch' = {}
      BY <1>9 DEF AcceptDies, Exit, Ends
    <2> QED
      BY <2>1 DEF Waiting, BatchReportable
  <1> QED
    BY <1>1, <1>2, <1>3, <1>4, <1>5, <1>6, <1>7, <1>8, <1>9, <1>a
    DEF Next, Environment, Server, Out

(* The server's handlers are never called with a timer the list does not   *)
(* know, knows already or would have to move to an earlier time, for any   *)
(* number of clients and however their events are batched: the calls of    *)
(* ServerUsesQueue are all the calls the code makes.                       *)
THEOREM EventsAlwaysHandled == Spec => []Handled
  <1>1. Init => Waiting /\ BatchReportable
    BY DEF Init, Waiting, BatchReportable
  <1>2. IInv /\ Waiting /\ BatchReportable /\ [Next]_vars => (IInv /\ Waiting /\ BatchReportable)'
    BY ListStep, WaitingStep
  <1> QED
    BY <1>1, <1>2, HandledFollows, ListInit, PTL DEF Spec

=============================================================================
