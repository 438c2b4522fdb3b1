---------------------------- MODULE ExampleProofs ----------------------------
(***************************************************************************)
(* Proofs about the example programs, for any set of descriptors, any      *)
(* number of clients and any bounds.  EpollEdge: the three servers of      *)
(* src/epoll_v1 handle events of open descriptors only, and the two that   *)
(* read until EAGAIN never lose an edge.  EchoExamples: the servers of     *)
(* src/select, src/bind, src/asyn_connect and src/local keep track of      *)
(* every connection, and client1.cpp of src/asyn_connect, which asks for   *)
(* SO_ERROR, reports a connection exactly when there is one.               *)
(***************************************************************************)
EXTENDS EpollEdge, EchoExamples, SequenceTheorems, TLAPS

-----------------------------------------------------------------------------
(* EpollEdge                                                               *)

(* What EventsInv and NoLostEdge need to be inductive: only the servers    *)
(* that loop are ever inside of a loop over a client.                      *)
LoopOwner == cur \in Fd => Loops

IInv == EventsInv /\ NoLostEdge /\ LoopOwner

\* No server has fetched an event before its first epoll_wait.
LEMMA EdgeInit == Init => IInv
  BY EdgeAssumption
  DEF Init, IInv, EventsInv, TypeOK, BatchOpen, NoLostEdge, LoopOwner, Programs, NoFd

\* NoFd, the "no descriptor" of the model, and the listening socket are no client's.
LEMMA FdFacts == /\ LISTEN_FD \notin Fd /\ LISTEN_FD \in Nat
                 /\ NoFd \notin Fd /\ NoFd # LISTEN_FD
                 /\ Fd \subseteq Nat /\ MAX_UNREAD \in Nat \ {0} /\ MAX_WAITING \in Nat
  BY EdgeAssumption DEF NoFd

\* What the clients do: every change of a socket they cause is an edge.
LEMMA EdgeClients == IInv /\ Clients => IInv'
  <1> SUFFICES ASSUME IInv, Clients PROVE IInv'
    OBVIOUS
  <1> USE FdFacts DEF IInv, EventsInv, TypeOK, BatchOpen, NoLostEdge, LoopOwner, Loops
  <1>1. CASE Connect
    BY <1>1 DEF Connect, connVars, Readable
  <1>2. CASE ConnectDropped
    BY <1>2 DEF ConnectDropped, vars, connVars, Readable
  <1>a. CASE AbortWaiting
    BY <1>a DEF AbortWaiting, connVars, Readable
  <1>3. ASSUME NEW f \in Fd, Send(f) PROVE IInv'
    <2>1. unread[f] + 1 \in 0 .. MAX_UNREAD
      BY <1>3 DEF Send
    <2>2. TypeOK'
      BY <1>3, <2>1 DEF Send
    <2>3. NoLostEdge'
      BY <1>3 DEF Send, Readable
    <2> QED
      BY <1>3, <2>2, <2>3 DEF Send
  <1>4. ASSUME NEW f \in Fd, HangUp(f) PROVE IInv'
    <2>1. TypeOK'
      BY <1>4 DEF HangUp
    <2>2. NoLostEdge'
      BY <1>4 DEF HangUp, Readable
    <2> QED
      BY <1>4, <2>1, <2>2 DEF HangUp
  <1> QED
    BY <1>1, <1>2, <1>a, <1>3, <1>4 DEF Clients

\* epoll_wait: the batch holds every client that has an edge and is readable.
LEMMA EdgeWait == IInv /\ EpollWait => IInv'
  <1> SUFFICES ASSUME IInv, EpollWait PROVE IInv'
    OBVIOUS
  <1> USE FdFacts DEF IInv, EventsInv, TypeOK, BatchOpen, NoLostEdge, LoopOwner, Loops
  <1>1. TypeOK' /\ BatchOpen'
    BY DEF EpollWait, connVars, Reported, Readable
  <1>2. NoLostEdge'
    BY DEF EpollWait, connVars, Reported, Readable, EdgeTriggered
  <1> QED
    BY <1>1, <1>2 DEF EpollWait, connVars

(* accept: the descriptor it returns was closed, so no event of the batch  *)
(* is for it, and adding it to the set is an edge when it is readable.     *)
LEMMA EdgeAccept == IInv /\ (AcceptConn \/ AcceptBlocks \/ AcceptFails) => IInv'
  <1> SUFFICES ASSUME IInv, AcceptConn \/ AcceptBlocks \/ AcceptFails PROVE IInv'
    OBVIOUS
  <1> USE FdFacts DEF IInv, EventsInv, TypeOK, BatchOpen, NoLostEdge, LoopOwner, Loops
  <1>1. CASE AcceptConn
    <2>1. PICK f \in Fd \ open, n \in {0, 1}, p \in {"up", "fin"} :
             /\ open' = open \cup {f}
             /\ unread' = [unread EXCEPT ![f] = n]
             /\ peer' = [peer EXCEPT ![f] = p]
             /\ ready' = IF n = 0 /\ p = "up" THEN ready ELSE ready \cup {f}
      BY <1>1 DEF AcceptConn
    <2>2. /\ cur \in {NoFd, LISTEN_FD} /\ cur' = NoFd /\ waiting > 0
          /\ batch' = batch \ {LISTEN_FD} /\ waiting' = waiting - 1
          /\ UNCHANGED <<prog, alive>>
      BY <1>1 DEF AcceptConn, Take
    <2>3. TypeOK'
      BY <2>1, <2>2
    <2>4. BatchOpen' /\ LoopOwner'
      BY <2>1, <2>2
    <2>5. NoLostEdge'
      BY <2>1, <2>2 DEF Readable
    <2> QED
      BY <2>3, <2>4, <2>5
  <1>2. CASE AcceptFails
    BY <1>2 DEF AcceptFails, Take, connVars, Readable, Programs
  <1>3. CASE AcceptBlocks
    BY <1>3 DEF AcceptBlocks, Take, connVars, Readable
  <1> QED
    BY <1>1, <1>2, <1>3

\* close: the descriptor leaves the epoll set and takes its events with it.
LEMMA EdgeClose ==
    ASSUME IInv, NEW f \in Fd, Close(f), batch' \subseteq batch \ {f}
    PROVE  /\ TypeOK' <=> (cur' \in Fd \cup {LISTEN_FD, NoFd})
           /\ batch' \subseteq open' \cup {LISTEN_FD}
           /\ alive /\ Loops => \A g \in open' : Readable(g)' => g \in ready' \cup batch \cup {cur}
  <1> USE FdFacts DEF IInv, EventsInv, TypeOK, BatchOpen, NoLostEdge, LoopOwner, Loops, Close
  <1>1. /\ unread' \in [Fd -> 0 .. MAX_UNREAD]
        /\ peer' \in [Fd -> {"up", "fin", "rst", "pipe"}]
    OBVIOUS
  <1>2. TypeOK' <=> (cur' \in Fd \cup {LISTEN_FD, NoFd})
    BY <1>1
  <1>3. ASSUME alive, Loops, NEW g \in open', Readable(g)'
        PROVE  g \in ready' \cup batch \cup {cur}
    BY <1>3 DEF Readable
  <1> QED
    BY <1>2, <1>3

\* The loop of server1 and server2 over one descriptor.
LEMMA EdgeLoop ==
    ASSUME IInv, NEW f \in Fd,
           BeginLoop(f) \/ LoopData(f) \/ LoopAgain(f) \/ LoopEnd(f) \/ LoopError(f)
              \/ LoopClosed(f)
    PROVE  IInv'
  <1> USE FdFacts DEF IInv, EventsInv, TypeOK, BatchOpen, NoLostEdge, LoopOwner, Loops
  <1>1. CASE BeginLoop(f)
    BY <1>1 DEF BeginLoop, Take, connVars, Readable
  <1>2. CASE LoopData(f)
    <2>1. /\ unread' \in [Fd -> 0 .. MAX_UNREAD]
          /\ \A g \in Fd : unread'[g] <= unread[g]
          /\ \A g \in Fd \ {f} : unread'[g] = unread[g] /\ peer'[g] = peer[g]
          /\ peer' \in [Fd -> {"up", "fin", "rst", "pipe"}]
      BY <1>2 DEF LoopData, ReadAndEcho, HasData
    <2>2. alive' \in BOOLEAN /\ alive /\ cur = f /\ cur' = f
          /\ UNCHANGED <<prog, waiting, open, ready, batch>>
      BY <1>2 DEF LoopData, ReadAndEcho, InLoop, AfterData
    <2>3. TypeOK'
      BY <2>1, <2>2
    <2>4. NoLostEdge'
      BY <2>1, <2>2 DEF Readable
    <2> QED
      BY <2>2, <2>3, <2>4
  <1>3. CASE LoopAgain(f)
    BY <1>3 DEF LoopAgain, InLoop, connVars, Readable
  <1>4. CASE LoopEnd(f)
    <2>1. /\ alive /\ cur = f /\ Close(f) /\ batch' = batch /\ f \notin batch
          /\ cur' = AfterEnd(f) /\ prog' = prog /\ alive' = alive
      BY <1>4 DEF LoopEnd, InLoop, Close
    <2>2. cur' = NoFd \/ (prog = "server2" /\ cur' = f)
      BY <2>1 DEF AfterEnd
    <2>3. NoLostEdge'
      BY <2>1, EdgeClose DEF Close, Readable
    <2>4. BatchOpen'
      <3>1. batch' \subseteq open' \cup {LISTEN_FD}
        BY <2>1, EdgeClose
      <3>2. f \notin ready' /\ NoFd \notin batch
        BY <2>1 DEF Close
      <3> QED
        BY <2>1, <2>2, <3>1, <3>2
    <2> QED
      BY <2>1, <2>2, <2>3, <2>4, EdgeClose
  <1>5. CASE LoopError(f) /\ prog = "server1"
    <2>1. /\ peer' = [peer EXCEPT ![f] = "pipe"] /\ alive /\ cur = f
          /\ UNCHANGED <<prog, waiting, open, unread, ready, alive, cur, batch>>
      BY <1>5 DEF LoopError, InLoop, ReadReset
    <2> QED
      BY <2>1 DEF Readable
  <1>6. CASE LoopError(f) /\ prog = "server2"
    <2>1. /\ alive /\ cur = f /\ Close(f) /\ batch' = batch /\ f \notin batch
          /\ cur' = NoFd /\ prog' = prog /\ alive' = alive
      BY <1>6 DEF LoopError, InLoop, Close
    <2>2. NoLostEdge'
      BY <2>1, EdgeClose DEF Close, Readable
    <2>3. BatchOpen'
      BY <2>1, EdgeClose DEF Close
    <2> QED
      BY <2>1, <2>2, <2>3, EdgeClose
  <1>7. CASE LoopClosed(f)
    BY <1>7 DEF LoopClosed, connVars, Readable
  <1> QED
    BY <1>1, <1>2, <1>3, <1>4, <1>5, <1>6, <1>7 DEF LoopError

(* singleThread: one read; end of file drops the rest of the batch, so no  *)
(* event of it can be of a descriptor that was closed.                     *)
LEMMA EdgeReadOnce == ASSUME IInv, NEW f \in Fd, ReadOnce(f) PROVE IInv'
  <1> USE FdFacts DEF IInv, EventsInv, TypeOK, BatchOpen, NoLostEdge, LoopOwner, Loops
  <1>1. prog = "singleThread" /\ alive /\ cur = NoFd /\ f \in batch /\ cur' = cur
    BY DEF ReadOnce, Take
  <1>2. CASE ReadAndEcho(f) /\ batch' = batch \ {f}
    BY <1>1, <1>2 DEF ReadAndEcho, HasData
  <1>3. CASE ReadReset(f) /\ batch' = batch \ {f}
    BY <1>1, <1>3 DEF ReadReset
  <1>4. CASE AtEnd(f) /\ Close(f) /\ batch' = {}
    <2>1. prog' = prog /\ batch' \subseteq batch \ {f}
      BY <1>4 DEF Close
    <2> QED
      BY <1>1, <1>4, <2>1, EdgeClose
  <1> QED
    BY <1>2, <1>3, <1>4 DEF ReadOnce

\* IInv is inductive.
LEMMA EdgeStep == IInv /\ [Next]_vars => IInv'
  <1>1. ASSUME IInv, UNCHANGED vars PROVE IInv'
    BY <1>1 DEF vars, connVars, IInv, EventsInv, TypeOK, BatchOpen, NoLostEdge, LoopOwner, Loops, Readable
  <1>2. ASSUME IInv, Server PROVE IInv'
    BY <1>2, EdgeWait, EdgeAccept, EdgeLoop, EdgeReadOnce DEF Server
  <1> QED
    BY <1>1, <1>2, EdgeClients DEF Next, Ended

(* No server of src/epoll_v1 handles an event of a descriptor that was     *)
(* closed, or closed and given out again, since epoll_wait returned it,    *)
(* and server2's loop that goes on after close touches no other client.    *)
THEOREM EdgeEventsOpen == Spec => []EventsInv
  <1>1. IInv => EventsInv
    BY DEF IInv
  <1> QED
    BY <1>1, EdgeInit, EdgeStep, PTL DEF Spec

(* server1 and server2 with their edge-triggered clients: one that has     *)
(* input or has left is on the ready list, in the batch or being read.     *)
THEOREM EdgeNeverLost == Spec => []NoLostEdge
  <1>1. IInv => NoLostEdge
    BY DEF IInv
  <1> QED
    BY <1>1, EdgeInit, EdgeStep, PTL DEF Spec

-----------------------------------------------------------------------------
(* EchoExamples                                                            *)

\* The values of a client's record.
ClientRec ==
    [prog : Range(TcpPrograms) \cup {"local"},
     st : {"start", "progress", "send", "recv", "sleep", "select", "exit"},
     fd : SockFd \cup {INVALID_FD}, sent : BOOLEAN, answer : BOOLEAN, isset : BOOLEAN,
     net : {"none", "pending", "up", "refused"}, report : {"none", "ok", "error"}]

(* What Tracked and ReportTrue need to be inductive.  A descriptor belongs *)
(* to one client, which has a connection.                                  *)
FdOwner ==
    /\ \A c, d \in Client : cl[c].fd = cl[d].fd /\ cl[c].fd # INVALID_FD => c = d
    /\ \A c \in Client : cl[c].fd # INVALID_FD => cl[c].net = "up"

\* A client waits in the accept queue once, and has no descriptor yet.
QueueNew ==
    /\ \A i \in DOMAIN queue : cl[queue[i]].fd = INVALID_FD /\ cl[queue[i]].net = "up"
    /\ \A i, j \in DOMAIN queue : queue[i] = queue[j] => i = j

\* The connection a blocking server serves is not stored yet; the local one stores none.
ServedNew ==
    /\ server # "select" /\ spc = "recv" => clientfd \notin Stored
    /\ server = "local" => clifds = <<>>

(* A client has nothing to report before connect is answered, and those    *)
(* that do not block are never past that.                                  *)
Honest(r) ==
    /\ r.st = "start" => r.net = "none" /\ r.report = "none"
    /\ r.st = "progress" => r.net # "none" /\ r.report = "none"
    /\ r.prog \in {"async", "asyncErr"} => r.st \in {"start", "progress", "exit"}
    /\ r.prog = "asyncErr" => (r.report = "ok" <=> r.st = "exit" /\ r.net = "up")

\* The inductive invariant of EchoExamples.
EchoIInv ==
    /\ EchoTypeOK /\ Tracked /\ FdOwner /\ QueueNew /\ ServedNew
    /\ \A c \in Client : Honest(cl[c])

\* The programs, spelled out.
LEMMA EchoPrograms ==
    Range(TcpPrograms) = {"bind", "bindPort", "selOnce", "selReset", "async", "asyncErr"}
  BY DEF Range, TcpPrograms

\* INVALID_FD and the listening socket are not descriptors of connections.
LEMMA EchoFds ==
    /\ INVALID_FD \notin SockFd /\ LFD \notin SockFd /\ INVALID_FD # LFD
    /\ SockFd \subseteq Nat /\ LFD \in Nat /\ Client \subseteq Nat
  BY PortAssumption DEF INVALID_FD

\* No server has accepted, and no client was started.
LEMMA EchoStarts == ASSUME EchoInit PROVE EchoIInv
  <1> USE EchoFds, EchoPrograms
  <1>1. PICK p \in [Client -> DOMAIN ProgramsOf(server)] :
           cl = [c \in Client |-> Fresh(ProgramsOf(server)[p[c]])]
    BY DEF EchoInit
  <1>2. /\ server \in {"select", "blocking", "local"}
        /\ spc \in {"top", "ended"} /\ clifds = <<>> /\ maxfd = LFD /\ readset = {}
        /\ pos = 1 /\ clientfd = INVALID_FD /\ queue = <<>>
    BY DEF EchoInit
  <1>3. ASSUME NEW c \in Client
        PROVE  cl[c] \in ClientRec /\ cl[c].fd = INVALID_FD /\ Honest(cl[c])
    <2>1. PICK q \in Range(TcpPrograms) \cup {"local"} : cl[c] = Fresh(q)
      BY <1>1, <1>2, <1>3 DEF ProgramsOf, TcpPrograms, Range
    <2> QED
      BY <2>1 DEF Fresh, ClientRec, Honest
  <1>4. EchoTypeOK
    BY <1>1, <1>2, <1>3 DEF EchoTypeOK, ClientRec
  <1>5. Open = {} /\ Stored = {}
    BY <1>2, <1>3 DEF Open, Stored
  <1>6. Tracked
    BY <1>2, <1>5 DEF Tracked
  <1> QED
    BY <1>2, <1>3, <1>4, <1>5, <1>6 DEF EchoIInv, FdOwner, QueueNew, ServedNew

(* A step of a client: its descriptor and its program stay, a connection   *)
(* stays once there is one, a client enters the queue with its connection, *)
(* and may leave it again.                                                 *)
ClientStep(c, r) ==
    /\ r \in ClientRec /\ r.fd = cl[c].fd /\ r.prog = cl[c].prog /\ Honest(r)
    /\ cl[c].net = "up" => r.net = "up"
    /\ \/ queue' = queue
       \/ queue' = Append(queue, c) /\ cl[c].net # "up" /\ r.net = "up"
       \/ \E i \in DOMAIN queue : queue' = RemoveAt(queue, i)
    /\ Moves(c, r)

\* Where the element behind j stood before element i was taken out.
Before(j, i) == IF j < i THEN j ELSE j + 1

\* A sequence without one of its elements.
LEMMA EchoRemoveAt ==
    ASSUME NEW S, NEW s \in Seq(S), NEW i \in DOMAIN s
    PROVE  /\ RemoveAt(s, i) \in Seq(S)
           /\ \A j \in DOMAIN RemoveAt(s, i) :
                 Before(j, i) \in DOMAIN s /\ RemoveAt(s, i)[j] = s[Before(j, i)]
           /\ \A j, k \in DOMAIN RemoveAt(s, i) : Before(j, i) = Before(k, i) => j = k
  <1>1. DOMAIN s = 1 .. Len(s) /\ Len(s) \in Nat /\ i \in 1 .. Len(s)
    OBVIOUS
  <1> DEFINE a == SubSeq(s, 1, i - 1)
             b == SubSeq(s, i + 1, Len(s))
  <1>2. /\ a \in Seq(S) /\ Len(a) = i - 1
        /\ \A j \in 1 .. i - 1 : a[j] = s[j]
    BY <1>1
  <1>3. /\ b \in Seq(S) /\ Len(b) = Len(s) - i
        /\ \A j \in 1 .. Len(s) - i : b[j] = s[i + j]
    BY <1>1
  <1>4. RemoveAt(s, i) = a \o b
    BY DEF RemoveAt
  <1> HIDE DEF a, b
  <1>5. /\ a \o b \in Seq(S) /\ Len(a \o b) = Len(s) - 1
        /\ DOMAIN (a \o b) = 1 .. Len(s) - 1
    <2>1. a \o b \in Seq(S) /\ Len(a \o b) = Len(a) + Len(b)
      BY <1>2, <1>3, ConcatProperties
    <2>2. Len(a \o b) = Len(s) - 1
      BY <1>1, <1>2, <1>3, <2>1
    <2> QED
      BY <2>1, <2>2
  <1>6. \A j \in 1 .. Len(a) + Len(b) :
           (a \o b)[j] = IF j <= Len(a) THEN a[j] ELSE b[j - Len(a)]
    BY <1>2, <1>3, ConcatProperties
  <1>7. ASSUME NEW j \in 1 .. Len(s) - 1
        PROVE  Before(j, i) \in DOMAIN s /\ (a \o b)[j] = s[Before(j, i)]
    <2>1. CASE j < i
      <3>1. j \in 1 .. Len(a) /\ j \in 1 .. i - 1 /\ Before(j, i) = j /\ j \in DOMAIN s
        BY <1>1, <1>2, <2>1 DEF Before
      <3>2. j \in 1 .. Len(a) + Len(b) /\ j <= Len(a)
        BY <1>1, <1>2, <1>3, <2>1
      <3>3. (a \o b)[j] = a[j]
        BY <1>6, <3>2
      <3> QED
        BY <1>2, <3>1, <3>3
    <2>2. CASE j >= i
      <3>1. /\ j - Len(a) \in 1 .. Len(b) /\ j - Len(a) \in 1 .. Len(s) - i
            /\ Before(j, i) = j + 1 /\ j + 1 \in DOMAIN s /\ i + (j - Len(a)) = j + 1
            /\ j \in Len(a) + 1 .. Len(a) + Len(b)
        BY <1>1, <1>2, <1>3, <2>2 DEF Before
      <3>2. j \in 1 .. Len(a) + Len(b) /\ ~(j <= Len(a))
        BY <1>1, <1>2, <1>3, <2>2
      <3>3. (a \o b)[j] = b[j - Len(a)]
        BY <1>6, <3>2
      <3>4. b[j - Len(a)] = s[i + (j - Len(a))]
        BY <1>3, <3>1
      <3> QED
        BY <3>1, <3>3, <3>4
    <2>3. j < i \/ j >= i
      BY <1>1, <1>7
    <2> QED
      BY <2>1, <2>2, <2>3
  <1>8. \A j, k \in 1 .. Len(s) - 1 : Before(j, i) = Before(k, i) => j = k
    BY <1>1 DEF Before
  <1> QED
    BY <1>4, <1>5, <1>7, <1>8

\* A step of a client leaves the server's view of its connections alone.
LEMMA EchoMoves ==
    ASSUME EchoIInv, NEW c \in Client, NEW r, ClientStep(c, r)
    PROVE  EchoIInv'
  <1> USE EchoFds
  <1>1. cl \in [Client -> ClientRec] /\ queue \in Seq(Client)
    BY DEF EchoIInv, EchoTypeOK, ClientRec
  <1>2. cl' = [cl EXCEPT ![c] = r] /\ UNCHANGED <<server, spc, clifds, maxfd, readset, pos, clientfd>>
    BY DEF ClientStep, Moves, serverVars
  <1>3. /\ cl' \in [Client -> ClientRec] /\ cl'[c] = r
        /\ \A d \in Client : d # c => cl'[d] = cl[d]
        /\ \A d \in Client : cl'[d].fd = cl[d].fd /\ (cl[d].net = "up" => cl'[d].net = "up")
    BY <1>1, <1>2 DEF ClientStep
  <1>4. queue' \in Seq(Client)
    BY <1>1, EchoRemoveAt DEF ClientStep
  <1>5. EchoTypeOK'
    BY <1>2, <1>3, <1>4 DEF EchoIInv, EchoTypeOK, ClientRec
  <1>6. Open' = Open /\ Stored' = Stored
    <2> HIDE EchoFds
    <2>1. \A d \in Client : cl'[d].fd = cl[d].fd
      BY <1>3
    <2>2. {cl'[d].fd : d \in Client} = {cl[d].fd : d \in Client}
      BY <2>1, Zenon
    <2>3. Open' = Open
      BY <2>2 DEF Open
    <2>4. Stored' = Stored
      BY <1>2 DEF Stored
    <2> QED
      BY <2>3, <2>4
  <1>7. Tracked'
    BY <1>2, <1>6 DEF EchoIInv, Tracked
  <1>8. FdOwner'
    BY <1>3 DEF EchoIInv, FdOwner
  <1>9. QueueNew'
    <2>1. CASE queue' = queue
      <3>1. \A i \in DOMAIN queue : queue[i] \in Client
        BY <1>1
      <3> QED
        BY <1>3, <2>1, <3>1 DEF EchoIInv, QueueNew
    <2>2. CASE queue' = Append(queue, c) /\ cl[c].net # "up" /\ r.net = "up"
      <3>1. cl[c].fd = INVALID_FD
        BY <2>2 DEF EchoIInv, FdOwner
      <3>2. /\ DOMAIN queue' = 1 .. Len(queue) + 1 /\ DOMAIN queue = 1 .. Len(queue)
            /\ queue'[Len(queue) + 1] = c /\ Len(queue) \in Nat
            /\ \A i \in 1 .. Len(queue) : queue'[i] = queue[i] /\ queue[i] \in Client
        BY <1>1, <2>2
      <3>3. \A i \in 1 .. Len(queue) : queue[i] # c
        BY <2>2, <3>2 DEF EchoIInv, QueueNew
      <3>4. ASSUME NEW i \in DOMAIN queue'
            PROVE  cl'[queue'[i]].fd = INVALID_FD /\ cl'[queue'[i]].net = "up"
        <4>1. CASE i = Len(queue) + 1
          BY <1>3, <2>2, <3>1, <3>2, <4>1
        <4>2. CASE i \in 1 .. Len(queue)
          <5>1. queue'[i] \in Client /\ queue'[i] = queue[i] /\ i \in DOMAIN queue
            BY <3>2, <4>2
          <5> QED
            BY <1>3, <5>1 DEF EchoIInv, QueueNew
        <4> QED
          BY <3>2, <3>4, <4>1, <4>2
      <3>5. \A i, j \in DOMAIN queue' : queue'[i] = queue'[j] => i = j
        BY <3>2, <3>3 DEF EchoIInv, QueueNew
      <3> QED
        BY <3>4, <3>5 DEF QueueNew
    <2>3. CASE \E i \in DOMAIN queue : queue' = RemoveAt(queue, i)
      <3>1. PICK i \in DOMAIN queue : queue' = RemoveAt(queue, i)
        BY <2>3
      <3>2. /\ \A j \in DOMAIN queue' :
                  Before(j, i) \in DOMAIN queue /\ queue'[j] = queue[Before(j, i)]
            /\ \A j, k \in DOMAIN queue' : Before(j, i) = Before(k, i) => j = k
        BY <1>1, <3>1, EchoRemoveAt
      <3>3. \A j \in DOMAIN queue : queue[j] \in Client
        BY <1>1
      <3> QED
        BY <1>3, <3>2, <3>3 DEF EchoIInv, QueueNew
    <2> QED
      BY <2>1, <2>2, <2>3 DEF ClientStep
  <1>10. ServedNew'
    BY <1>2, <1>6 DEF EchoIInv, ServedNew
  <1>11. \A d \in Client : Honest(cl'[d])
    BY <1>3 DEF EchoIInv, ClientStep
  <1> QED
    BY <1>5, <1>7, <1>8, <1>9, <1>10, <1>11 DEF EchoIInv

\* connect of every program, and what the non-blocking ones make of its answer.
LEMMA EchoConnects ==
    ASSUME EchoIInv, NEW c \in Client,
           \/ ConnectBlocking(c) \/ ConnectFails(c) \/ ConnectAsync(c)
           \/ Establish(c) \/ Refuse(c) \/ AsyncDone(c) \/ AsyncTimeout(c)
    PROVE  EchoIInv'
  <1> USE EchoPrograms
  <1>1. cl[c] \in ClientRec /\ Honest(cl[c])
    BY DEF EchoIInv, EchoTypeOK, ClientRec
  <1>2. CASE ConnectBlocking(c)
    <2> DEFINE r == [cl[c] EXCEPT !.net = "up",
                     !.st = IF cl[c].prog \in {"selOnce", "selReset"} THEN "select" ELSE "send"]
    <2>1. ClientStep(c, r)
      BY <1>1, <1>2 DEF ConnectBlocking, Async, ClientStep, Honest, ClientRec
    <2> QED
      BY <2>1, EchoMoves
  <1>3. CASE ConnectFails(c)
    <2>1. ClientStep(c, [cl[c] EXCEPT !.st = "exit"])
      BY <1>1, <1>3 DEF ConnectFails, ClientStep, Honest, ClientRec
    <2> QED
      BY <2>1, EchoMoves
  <1>4. CASE ConnectAsync(c)
    <2>1. ClientStep(c, [cl[c] EXCEPT !.st = "progress", !.net = "pending"])
      BY <1>1, <1>4 DEF ConnectAsync, Async, ClientStep, Honest, ClientRec
    <2> QED
      BY <2>1, EchoMoves
  <1>5. CASE Establish(c)
    <2>1. ClientStep(c, [cl[c] EXCEPT !.net = "up"])
      BY <1>1, <1>5 DEF Establish, ClientStep, Honest, ClientRec
    <2> QED
      BY <2>1, EchoMoves
  <1>6. CASE Refuse(c)
    <2>1. ClientStep(c, [cl[c] EXCEPT !.net = "refused"])
      BY <1>1, <1>6 DEF Refuse, ClientStep, Honest, ClientRec
    <2> QED
      BY <2>1, EchoMoves
  <1>7. CASE AsyncDone(c)
    <2>1. ClientStep(c, [cl[c] EXCEPT !.st = "exit", !.report = Verdict(c)])
      BY <1>1, <1>7 DEF AsyncDone, Verdict, ClientStep, Honest, ClientRec
    <2> QED
      BY <2>1, EchoMoves
  <1>8. CASE AsyncTimeout(c)
    <2>1. ClientStep(c, [cl[c] EXCEPT !.st = "exit", !.report = "error"])
      BY <1>1, <1>8 DEF AsyncTimeout, ClientStep, Honest, ClientRec
    <2> QED
      BY <2>1, EchoMoves
  <1> QED
    BY <1>2, <1>3, <1>4, <1>5, <1>6, <1>7, <1>8

\* What the programs that are connected do.
LEMMA EchoConnected ==
    ASSUME EchoIInv, NEW c \in Client,
           \/ SendData(c) \/ SendFails(c) \/ RecvAnswer(c)
           \/ ClientTimeout(c) \/ ClientReads(c) \/ Kill(c) \/ Abort(c)
    PROVE  EchoIInv'
  <1> USE EchoPrograms
  <1>1. cl[c] \in ClientRec /\ Honest(cl[c])
    BY DEF EchoIInv, EchoTypeOK, ClientRec
  <1>2. CASE SendData(c)
    <2>1. ClientStep(c, [cl[c] EXCEPT !.st = "recv", !.sent = Listening])
      BY <1>1, <1>2 DEF SendData, Listening, ClientStep, Honest, ClientRec
    <2> QED
      BY <2>1, EchoMoves
  <1>3. CASE SendFails(c) \/ ClientReads(c) \/ Kill(c) \/ Abort(c)
    <2>1. ClientStep(c, [cl[c] EXCEPT !.st = "exit"])
      BY <1>1, <1>3 DEF SendFails, ClientReads, Kill, Abort, ClientStep, Honest, ClientRec
    <2> QED
      BY <2>1, EchoMoves
  <1>4. CASE RecvAnswer(c)
    <2>1. ClientStep(c, [cl[c] EXCEPT !.st = AfterRecv(c), !.answer = FALSE])
      BY <1>1, <1>4 DEF RecvAnswer, AfterRecv, ClientStep, Honest, ClientRec
    <2> QED
      BY <2>1, EchoMoves
  <1>5. CASE ClientTimeout(c)
    <2>1. ClientStep(c, [cl[c] EXCEPT !.isset = FALSE])
      BY <1>1, <1>5 DEF ClientTimeout, ClientStep, Honest, ClientRec
    <2> QED
      BY <2>1, EchoMoves
  <1> QED
    BY <1>2, <1>3, <1>4, <1>5

(* The servers change no more of a client's record than the descriptor and *)
(* what is in the sockets.                                                 *)
KeepsConn ==
    /\ cl' \in [Client -> ClientRec]
    /\ \A c \in Client : /\ cl'[c].prog = cl[c].prog /\ cl'[c].st = cl[c].st
                         /\ cl'[c].net = cl[c].net /\ cl'[c].report = cl[c].report

\* Such a step leaves what a client reports, and whether it may, as it is.
LEMMA EchoKeeps == EchoIInv /\ KeepsConn => \A c \in Client : Honest(cl'[c])
  BY DEF EchoIInv, KeepsConn, Honest

\* One descriptor given out or closed: the fields of the record c, otherwise as before.
LEMMA EchoSetFd ==
    ASSUME EchoIInv, NEW c \in Client, NEW f \in SockFd \cup {INVALID_FD},
           cl' = [cl EXCEPT ![c].fd = f]
    PROVE  /\ KeepsConn /\ cl'[c].fd = f
           /\ \A d \in Client \ {c} : cl'[d] = cl[d]
  <1>1. cl \in [Client -> ClientRec]
    BY DEF EchoIInv, EchoTypeOK, ClientRec
  <1>2. cl' = [cl EXCEPT ![c] = [cl[c] EXCEPT !.fd = f]]
    OBVIOUS
  <1>3. [cl[c] EXCEPT !.fd = f] \in ClientRec
    BY <1>1 DEF ClientRec
  <1>4. cl' \in [Client -> ClientRec] /\ cl'[c] = [cl[c] EXCEPT !.fd = f]
        /\ \A d \in Client \ {c} : cl'[d] = cl[d]
    BY <1>1, <1>2, <1>3
  <1> QED
    BY <1>1, <1>4 DEF KeepsConn, ClientRec

\* accept: the connection at the head of the queue gets a descriptor nobody has.
LEMMA EchoAccept ==
    ASSUME EchoIInv, NEW f \in SockFd, Accept(f)
    PROVE  /\ f \notin Open /\ Open' = Open \cup {f}
           /\ KeepsConn /\ queue' \in Seq(Client) /\ FdOwner' /\ QueueNew'
  <1> USE EchoFds
  <1>1. cl \in [Client -> ClientRec] /\ queue \in Seq(Client) /\ queue # <<>>
    BY DEF EchoIInv, EchoTypeOK, ClientRec, Accept
  <1>2. PICK h \in Client : h = Head(queue) /\ h = queue[1] /\ 1 \in DOMAIN queue
    <2> HIDE EchoFds
    <2>1. Head(queue) \in Client /\ Head(queue) = queue[1] /\ 1 \in DOMAIN queue
      BY <1>1
    <2> QED
      BY <2>1
  <1>3. cl[h].fd = INVALID_FD /\ cl[h].net = "up"
    BY <1>2 DEF EchoIInv, QueueNew
  <1>4. f \notin Open /\ cl' = [cl EXCEPT ![h].fd = f] /\ queue' = Tail(queue)
    BY <1>2 DEF Accept, Free
  <1>5. KeepsConn /\ cl'[h].fd = f /\ \A d \in Client \ {h} : cl'[d] = cl[d]
    BY <1>2, <1>4, EchoSetFd
  <1>6. Open' = Open \cup {f}
    <2> HIDE EchoFds
    <2>1. f # INVALID_FD
      BY EchoFds DEF Accept, Free
    <2>2. cl[h].fd = INVALID_FD /\ cl'[h].fd = f /\ \A d \in Client \ {h} : cl'[d].fd = cl[d].fd
      BY <1>3, <1>5
    <2>3. ASSUME NEW x, x \in Open' PROVE x \in Open \cup {f}
      BY <1>2, <2>2, <2>3 DEF Open
    <2>4. ASSUME NEW x, x \in Open PROVE x \in Open'
      BY <1>2, <2>2, <2>4 DEF Open
    <2>5. f \in Open'
      BY <1>2, <2>1, <2>2 DEF Open
    <2> QED
      BY <2>3, <2>4, <2>5
  <1>7. FdOwner'
    <2>1. \A d \in Client : cl[d].fd # f
      BY <1>4 DEF Open
    <2> QED
      BY <1>2, <1>3, <1>5, <2>1 DEF EchoIInv, FdOwner, KeepsConn
  <1>8. /\ queue' \in Seq(Client) /\ DOMAIN queue = 1 .. Len(queue) /\ Len(queue) \in Nat
        /\ DOMAIN queue' = 1 .. Len(queue) - 1
        /\ \A i \in DOMAIN queue' : queue'[i] = queue[i + 1]
        /\ \A i \in DOMAIN queue : queue[i] \in Client
    BY <1>1, <1>4
  <1>9. \A i \in DOMAIN queue' : i + 1 \in DOMAIN queue /\ i + 1 # 1
    BY <1>8
  <1>10. ASSUME NEW i \in DOMAIN queue'
         PROVE  cl'[queue'[i]].fd = INVALID_FD /\ cl'[queue'[i]].net = "up"
    <2>1. queue'[i] = queue[i + 1] /\ queue[i + 1] \in Client /\ i + 1 \in DOMAIN queue
      BY <1>8, <1>9
    <2>2. queue[i + 1] # h
      BY <1>2, <1>9, <2>1 DEF EchoIInv, QueueNew
    <2>3. cl[queue[i + 1]].fd = INVALID_FD /\ cl[queue[i + 1]].net = "up"
      BY <2>1 DEF EchoIInv, QueueNew
    <2> QED
      BY <1>5, <2>1, <2>2, <2>3
  <1>11. \A i, j \in DOMAIN queue' : queue'[i] = queue'[j] => i = j
    <2>1. ASSUME NEW i \in DOMAIN queue', NEW j \in DOMAIN queue', queue'[i] = queue'[j]
          PROVE  i = j
      <3>1. queue[i + 1] = queue[j + 1] /\ i + 1 \in DOMAIN queue /\ j + 1 \in DOMAIN queue
        BY <1>8, <1>9, <2>1
      <3>2. i + 1 = j + 1
        BY <3>1 DEF EchoIInv, QueueNew
      <3> QED
        BY <1>8, <3>2
    <2> QED
      BY <2>1
  <1> QED
    BY <1>4, <1>5, <1>6, <1>7, <1>8, <1>10, <1>11 DEF QueueNew

\* close: the descriptor leaves the open ones, and no other does.
LEMMA EchoClose ==
    ASSUME EchoIInv, NEW c \in Client,
           cl' = [cl EXCEPT ![c].fd = INVALID_FD]
    PROVE  /\ Open' = Open \ {cl[c].fd}
           /\ KeepsConn /\ FdOwner'
           /\ queue' = queue \/ queue' = <<>> => QueueNew'
  <1>1. KeepsConn /\ cl'[c].fd = INVALID_FD /\ \A d \in Client \ {c} : cl'[d] = cl[d]
    BY EchoSetFd
  <1>2. \A d \in Client \ {c} : cl[d].fd # cl[c].fd \/ cl[d].fd = INVALID_FD
    BY DEF EchoIInv, FdOwner
  <1>3. Open' = Open \ {cl[c].fd}
    BY <1>1, <1>2 DEF Open
  <1>4. FdOwner'
    BY <1>1 DEF EchoIInv, FdOwner
  <1>5. ASSUME queue' = queue PROVE QueueNew'
    <2>1. \A i \in DOMAIN queue : queue[i] \in Client
      BY DEF EchoIInv, EchoTypeOK
    <2> QED
      BY <1>1, <1>5, <2>1 DEF EchoIInv, QueueNew, KeepsConn
  <1>6. ASSUME queue' = <<>> PROVE QueueNew'
    BY <1>6 DEF QueueNew
  <1> QED
    BY <1>1, <1>3, <1>4, <1>5, <1>6

\* The descriptor of a connection leads to its client, and to no other.
LEMMA EchoClientOf ==
    ASSUME NEW f \in Open
    PROVE  ClientOf(f) \in Client /\ cl[ClientOf(f)].fd = f
  BY DEF Open, ClientOf

\* Input read or answered: the descriptors stay.
LEMMA EchoData ==
    ASSUME EchoIInv, NEW c \in Client, queue' = queue,
           cl' = [cl EXCEPT ![c].sent = FALSE] \/ cl' = Echo(c)
    PROVE  Open' = Open /\ KeepsConn /\ FdOwner' /\ QueueNew'
  <1>1. cl \in [Client -> ClientRec]
    BY DEF EchoIInv, EchoTypeOK, ClientRec
  <1>2. PICK a \in BOOLEAN : cl' = [cl EXCEPT ![c] = [cl[c] EXCEPT !.answer = a, !.sent = FALSE]]
    <2>1. CASE cl' = [cl EXCEPT ![c].sent = FALSE]
      <3>1. cl[c].answer \in BOOLEAN /\ cl[c] = [cl[c] EXCEPT !.answer = cl[c].answer]
        BY <1>1 DEF ClientRec
      <3>2. [cl[c] EXCEPT !.sent = FALSE] = [cl[c] EXCEPT !.answer = cl[c].answer, !.sent = FALSE]
        BY <1>1 DEF ClientRec
      <3> QED
        BY <2>1, <3>1, <3>2
    <2>2. CASE cl' = Echo(c)
      <3>1. (cl[c].answer \/ cl[c].sent) \in BOOLEAN
        BY <1>1 DEF ClientRec
      <3>2. cl' = [cl EXCEPT ![c] = [cl[c] EXCEPT !.answer = cl[c].answer \/ cl[c].sent, !.sent = FALSE]]
        BY <1>1, <2>2 DEF Echo
      <3> QED
        BY <3>1, <3>2
    <2> QED
      BY <2>1, <2>2
  <1>3. [cl[c] EXCEPT !.answer = a, !.sent = FALSE] \in ClientRec
    BY <1>1 DEF ClientRec
  <1>4. KeepsConn /\ \A d \in Client : cl'[d].fd = cl[d].fd
    BY <1>1, <1>2, <1>3 DEF KeepsConn, ClientRec
  <1>5. \A i \in DOMAIN queue : queue[i] \in Client
    BY DEF EchoIInv, EchoTypeOK
  <1> QED
    BY <1>4, <1>5 DEF Open, EchoIInv, FdOwner, QueueNew, KeepsConn

(* A server's step preserves the invariant when it preserves the parts     *)
(* about the server's own variables.                                       *)
LEMMA EchoServerParts ==
    ASSUME EchoIInv, KeepsConn, FdOwner', QueueNew', queue' \in Seq(Client),
           server' = server, spc' \in {"top", "accept", "recv", "ended"},
           clifds' \in Seq(SockFd \cup {INVALID_FD}), maxfd' \in SockFd \cup {LFD},
           readset' \subseteq SockFd \cup {LFD}, pos' \in Nat \ {0},
           clientfd' \in SockFd \cup {INVALID_FD}, Tracked', ServedNew'
    PROVE  EchoIInv'
  <1>1. EchoTypeOK'
    BY DEF EchoIInv, EchoTypeOK, KeepsConn, ClientRec
  <1> QED
    BY <1>1, EchoKeeps DEF EchoIInv

\* What the type invariant says, in the terms of the lemmas.
LEMMA EchoTypes ==
    EchoIInv =>
        /\ server \in {"select", "blocking", "local"} /\ spc \in {"top", "accept", "recv", "ended"}
        /\ clifds \in Seq(SockFd \cup {INVALID_FD}) /\ maxfd \in SockFd \cup {LFD}
        /\ readset \subseteq SockFd \cup {LFD} /\ pos \in Nat \ {0}
        /\ clientfd \in SockFd \cup {INVALID_FD} /\ queue \in Seq(Client)
        /\ cl \in [Client -> ClientRec]
  BY DEF EchoIInv, EchoTypeOK, ClientRec

\* A descriptor stored at the end of the vector.
LEMMA EchoStore ==
    ASSUME EchoIInv, NEW f \in SockFd \ Stored, clifds' = Append(clifds, f)
    PROVE  /\ Stored' = Stored \cup {f}
           /\ clifds' \in Seq(SockFd \cup {INVALID_FD})
           /\ \A i, j \in DOMAIN clifds' :
                 clifds'[i] = clifds'[j] /\ clifds'[i] # INVALID_FD => i = j
  <1> USE EchoFds, EchoTypes
  <1>1. /\ DOMAIN clifds' = 1 .. Len(clifds) + 1 /\ DOMAIN clifds = 1 .. Len(clifds)
        /\ clifds'[Len(clifds) + 1] = f /\ Len(clifds) \in Nat
        /\ \A i \in 1 .. Len(clifds) : clifds'[i] = clifds[i]
    OBVIOUS
  <1>2. Stored' = Stored \cup {f}
    <2>1. Stored = {clifds[i] : i \in 1 .. Len(clifds)} \ {INVALID_FD}
      BY <1>1 DEF Stored
    <2>2. Stored' = {clifds'[i] : i \in 1 .. Len(clifds) + 1} \ {INVALID_FD}
      BY <1>1 DEF Stored
    <2>3. 1 .. Len(clifds) + 1 = (1 .. Len(clifds)) \cup {Len(clifds) + 1}
      BY <1>1
    <2> QED
      BY <1>1, <2>1, <2>2, <2>3
  <1>3. \A i \in 1 .. Len(clifds) : clifds[i] # f
    BY <1>1 DEF Stored
  <1>4. \A i, j \in 1 .. Len(clifds) :
           clifds[i] = clifds[j] /\ clifds[i] # INVALID_FD => i = j
    BY <1>1 DEF EchoIInv, Tracked
  <1>5. \A i, j \in DOMAIN clifds' :
           clifds'[i] = clifds'[j] /\ clifds'[i] # INVALID_FD => i = j
    BY <1>1, <1>3, <1>4
  <1> QED
    BY <1>2, <1>5

(* The entry of a closed descriptor is overwritten: as it was stored once, *)
(* it is not stored any more.                                              *)
LEMMA EchoDrop ==
    ASSUME EchoIInv, NEW k \in DOMAIN clifds, NEW f \in SockFd, clifds[k] = f,
           clifds' = [clifds EXCEPT ![k] = INVALID_FD]
    PROVE  /\ Stored' = Stored \ {f}
           /\ clifds' \in Seq(SockFd \cup {INVALID_FD})
           /\ \A i, j \in DOMAIN clifds' :
                 clifds'[i] = clifds'[j] /\ clifds'[i] # INVALID_FD => i = j
  <1> USE EchoFds, EchoTypes
  <1>1. /\ DOMAIN clifds' = DOMAIN clifds /\ clifds'[k] = INVALID_FD
        /\ \A i \in DOMAIN clifds \ {k} : clifds'[i] = clifds[i]
        /\ clifds' \in Seq(SockFd \cup {INVALID_FD})
    OBVIOUS
  <1>2. \A i \in DOMAIN clifds \ {k} : clifds[i] # f
    BY DEF EchoIInv, Tracked
  <1>3. Stored' = Stored \ {f}
    BY <1>1, <1>2 DEF Stored
  <1>4. \A i, j \in DOMAIN clifds' :
           clifds'[i] = clifds'[j] /\ clifds'[i] # INVALID_FD => i = j
    BY <1>1 DEF EchoIInv, Tracked
  <1> QED
    BY <1>1, <1>3, <1>4

\* The rounds of the select server that accept.
LEMMA EchoSelectAccept ==
    ASSUME EchoIInv, NEW f \in SockFd, SelectAccept(f)
    PROVE  EchoIInv'
  <1> USE EchoFds, EchoTypes
  <1>1. /\ server = "select" /\ spc = "accept" /\ Accept(f)
        /\ clifds' = Append(clifds, f) /\ maxfd' = NewMax(f) /\ spc' = "top"
        /\ readset' = {} /\ UNCHANGED <<server, pos, clientfd>>
    BY DEF SelectAccept
  <1>2. Open = Stored /\ \A g \in Open : g <= maxfd
    BY <1>1 DEF EchoIInv, Tracked
  <1>3. f \in SockFd \ Stored /\ Open' = Stored \cup {f}
    BY <1>1, <1>2, EchoAccept
  <1>4. maxfd' \in SockFd \cup {LFD} /\ maxfd' >= maxfd /\ maxfd' >= f
    <2>1. maxfd \in Nat /\ f \in Nat /\ maxfd \in SockFd \cup {LFD}
      OBVIOUS
    <2> QED
      BY <1>1, <2>1 DEF NewMax
  <1>5. \A g \in Open' : g <= maxfd'
    <2>1. Open \subseteq Nat
      BY DEF Open, ClientRec
    <2>2. maxfd \in Nat /\ maxfd' \in Nat /\ f \in Nat
      BY <1>4
    <2>3. Open' = Open \cup {f}
      BY <1>2, <1>3
    <2> QED
      BY <1>2, <1>4, <2>1, <2>2, <2>3
  <1>6. Tracked'
    BY <1>1, <1>3, <1>5, EchoStore DEF Tracked
  <1>7. ServedNew'
    BY <1>1 DEF ServedNew
  <1> QED
    BY <1>1, <1>3, <1>4, <1>6, <1>7, EchoAccept, EchoStore, EchoServerParts

\* accept fails: every descriptor is closed.
LEMMA EchoSelectFails ==
    ASSUME EchoIInv, SelectAcceptFails PROVE EchoIInv'
  <1> USE EchoFds, EchoTypes
  <1>1. /\ server = "select" /\ spc = "accept" /\ spc' = "ended" /\ queue' = <<>>
        /\ cl' = [c \in Client |-> IF cl[c].fd \in Stored
                                   THEN [cl[c] EXCEPT !.fd = INVALID_FD] ELSE cl[c]]
        /\ UNCHANGED <<server, clifds, maxfd, readset, pos, clientfd>>
    BY DEF SelectAcceptFails
  <1>2. Open = Stored
    BY <1>1 DEF EchoIInv, Tracked
  <1>3. ASSUME NEW c \in Client
        PROVE  /\ cl'[c] \in ClientRec /\ cl'[c].fd = INVALID_FD
               /\ cl'[c].prog = cl[c].prog /\ cl'[c].st = cl[c].st
               /\ cl'[c].net = cl[c].net /\ cl'[c].report = cl[c].report
    <2>1. CASE cl[c].fd \in Stored
      BY <1>1, <2>1 DEF ClientRec
    <2>2. CASE cl[c].fd \notin Stored
      BY <1>1, <1>2, <2>2 DEF Open
    <2> QED
      BY <2>1, <2>2
  <1>4. KeepsConn
    BY <1>1, <1>3 DEF KeepsConn
  <1>5. FdOwner' /\ Open' = {}
    BY <1>3 DEF FdOwner, Open
  <1>6. Tracked' /\ ServedNew'
    BY <1>1, <1>5 DEF EchoIInv, Tracked, ServedNew, Stored
  <1>7. QueueNew' /\ queue' \in Seq(Client)
    BY <1>1 DEF QueueNew
  <1> QED
    BY <1>1, <1>4, <1>5, <1>6, <1>7, EchoServerParts

\* The rounds of the select server that receive.
LEMMA EchoSelectRecv ==
    ASSUME EchoIInv, SelectRecv PROVE EchoIInv'
  <1> USE EchoFds, EchoTypes
  <1>1. /\ server = "select" /\ spc = "recv" /\ pos <= Len(clifds) /\ pos' = pos + 1
        /\ UNCHANGED <<server, spc, maxfd, readset, clientfd, queue>>
    BY DEF SelectRecv
  <1>2. Open = Stored /\ \A g \in Open : g <= maxfd
    BY <1>1 DEF EchoIInv, Tracked
  <1>3. pos' \in Nat \ {0} /\ ServedNew'
    BY <1>1 DEF ServedNew
  <1>4. CASE UNCHANGED <<cl, clifds>>
    <2>1. KeepsConn /\ FdOwner' /\ QueueNew'
      BY <1>1, <1>4 DEF EchoIInv, KeepsConn, FdOwner, QueueNew
    <2>2. Open' = Open /\ Stored' = Stored
      BY <1>4 DEF Open, Stored
    <2>3. Tracked'
      BY <1>1, <1>4, <2>2 DEF EchoIInv, Tracked
    <2> QED
      BY <1>1, <1>3, <1>4, <2>1, <2>3, EchoServerParts
  <1>5. CASE clifds[pos] \in readset
    <2>1. PICK k \in DOMAIN clifds : k = pos /\ clifds[k] \in SockFd
      <3>1. pos \in DOMAIN clifds /\ clifds[pos] \in SockFd \cup {INVALID_FD}
        BY <1>1
      <3> QED
        BY <1>5, <3>1
    <2>2. PICK f \in SockFd : f = clifds[k]
      BY <2>1
    <2>3. f \in Open
      BY <1>2, <2>2 DEF Stored
    <2>4. PICK c \in Client : c = ClientOf(f) /\ cl[c].fd = f
      BY <2>3, EchoClientOf
    <2>5. CASE cl[c].sent
      <3>1. cl' = [cl EXCEPT ![c].sent = FALSE] /\ UNCHANGED clifds
        BY <1>5, <2>1, <2>2, <2>4, <2>5 DEF SelectRecv
      <3>2. Open' = Open /\ KeepsConn /\ FdOwner' /\ QueueNew'
        BY <1>1, <3>1, EchoData
      <3>3. Stored' = Stored
        BY <3>1 DEF Stored
      <3>4. Tracked'
        BY <1>1, <3>1, <3>2, <3>3 DEF EchoIInv, Tracked
      <3> QED
        BY <1>1, <1>3, <3>1, <3>2, <3>4, EchoServerParts
    <2>6. CASE ~cl[c].sent
      <3>1. cl' = [cl EXCEPT ![c].fd = INVALID_FD]
            /\ clifds' = [clifds EXCEPT ![k] = INVALID_FD]
        BY <1>5, <2>1, <2>2, <2>4, <2>6 DEF SelectRecv, Drop
      <3>2. Open' = Open \ {f} /\ KeepsConn /\ FdOwner' /\ QueueNew'
        BY <1>1, <2>4, <3>1, EchoClose
      <3>3. Tracked'
        BY <1>1, <1>2, <2>2, <3>1, <3>2, EchoDrop DEF Tracked
      <3> QED
        BY <1>1, <1>3, <2>2, <3>1, <3>2, <3>3, EchoDrop, EchoServerParts
    <2> QED
      BY <2>5, <2>6
  <1> QED
    BY <1>4, <1>5 DEF SelectRecv

\* select returns, or all of readset was looked at.
LEMMA EchoSelectRound ==
    ASSUME EchoIInv, SelectReturns \/ SelectNext PROVE EchoIInv'
  <1> USE EchoFds, EchoTypes
  <1>1. /\ server = "select" /\ spc \in {"top", "recv"} /\ spc' \in {"top", "accept", "recv"}
        /\ readset' \subseteq SockFd \cup {LFD} /\ pos' \in Nat \ {0}
        /\ UNCHANGED <<server, clifds, maxfd, clientfd, queue, cl>>
    <2>1. Stored \subseteq SockFd
      BY DEF Stored
    <2>2. CASE SelectReturns
      BY <2>1, <2>2 DEF SelectReturns
    <2>3. CASE SelectNext
      BY <2>3 DEF SelectNext
    <2> QED
      BY <2>2, <2>3
  <1>2. KeepsConn /\ FdOwner' /\ QueueNew'
    BY <1>1 DEF EchoIInv, KeepsConn, FdOwner, QueueNew
  <1>3. Tracked' /\ ServedNew'
    <2>1. Open' = Open /\ Stored' = Stored
      BY <1>1 DEF Open, Stored
    <2> QED
      BY <1>1, <2>1 DEF EchoIInv, Tracked, ServedNew
  <1> QED
    BY <1>1, <1>2, <1>3, EchoServerParts

\* The blocking and the local server.
LEMMA EchoBlockingAccept ==
    ASSUME EchoIInv, NEW f \in SockFd, BlockingAccept(f)
    PROVE  EchoIInv'
  <1> USE EchoFds, EchoTypes
  <1>1. /\ server \in {"blocking", "local"} /\ spc = "top" /\ Accept(f)
        /\ clientfd' = f /\ spc' = "recv"
        /\ UNCHANGED <<server, clifds, maxfd, readset, pos>>
    BY DEF BlockingAccept
  <1>2. Open = Stored
    BY <1>1 DEF EchoIInv, Tracked
  <1>3. f \notin Stored /\ Open' = Stored \cup {f} /\ Stored' = Stored
    BY <1>1, <1>2, EchoAccept DEF Stored
  <1>4. Tracked' /\ ServedNew'
    BY <1>1, <1>3 DEF EchoIInv, Tracked, ServedNew
  <1> QED
    BY <1>1, <1>4, EchoAccept, EchoServerParts

\* One recv of them, which the blocking server follows by storing the descriptor.
LEMMA EchoBlockingRecv ==
    ASSUME EchoIInv, BlockingRecv \/ LocalRecv
    PROVE  EchoIInv'
  <1> USE EchoFds, EchoTypes
  <1>1. /\ server # "select" /\ spc = "recv" /\ cl' = Echo(ClientOf(clientfd))
        /\ UNCHANGED <<server, maxfd, readset, pos, clientfd, queue>>
    BY DEF BlockingRecv, LocalRecv
  <1>2. Open = Stored \cup {clientfd} /\ clientfd \notin Stored
    BY <1>1 DEF EchoIInv, Tracked, ServedNew
  <1>3. PICK f \in SockFd : f = clientfd /\ f \in Open
    BY <1>2 DEF Open
  <1>4. PICK c \in Client : c = ClientOf(clientfd)
    BY <1>3, EchoClientOf
  <1>5. Open' = Open /\ KeepsConn /\ FdOwner' /\ QueueNew'
    BY <1>1, <1>4, EchoData
  <1>6. CASE BlockingRecv
    <2>1. server = "blocking" /\ spc' = "top" /\ clifds' = Append(clifds, f)
      BY <1>3, <1>6 DEF BlockingRecv, Served
    <2>2. Tracked' /\ ServedNew'
      BY <1>1, <1>2, <1>3, <1>5, <2>1, EchoStore DEF Tracked, ServedNew
    <2> QED
      BY <1>1, <1>2, <1>3, <1>5, <2>1, <2>2, EchoStore, EchoServerParts
  <1>7. CASE LocalRecv
    <2>1. server = "local" /\ spc' = "recv" /\ clifds' = clifds
      BY <1>7 DEF LocalRecv, Served
    <2>2. Tracked' /\ ServedNew'
      BY <1>1, <1>2, <1>5, <2>1 DEF EchoIInv, Tracked, ServedNew, Stored
    <2> QED
      BY <1>1, <1>5, <2>1, <2>2, EchoServerParts
  <1> QED
    BY <1>6, <1>7

\* The local server ends with the only connection it had.
LEMMA EchoLocalEnds ==
    ASSUME EchoIInv, LocalEnds PROVE EchoIInv'
  <1> USE EchoFds, EchoTypes
  <1>1. /\ server = "local" /\ spc = "recv" /\ spc' = "ended" /\ queue' = <<>>
        /\ cl' = [cl EXCEPT ![ClientOf(clientfd)].fd = INVALID_FD]
        /\ UNCHANGED <<server, clifds, maxfd, readset, pos, clientfd>>
    BY DEF LocalEnds
  <1>2. Open = {clientfd}
    BY <1>1 DEF EchoIInv, Tracked, ServedNew, Stored
  <1>3. PICK c \in Client : c = ClientOf(clientfd) /\ cl[c].fd = clientfd
    BY <1>2, EchoClientOf
  <1>4. Open' = {} /\ KeepsConn /\ FdOwner' /\ QueueNew'
    BY <1>1, <1>2, <1>3, EchoClose
  <1>5. Tracked' /\ ServedNew'
    BY <1>1, <1>4 DEF EchoIInv, Tracked, ServedNew
  <1> QED
    BY <1>1, <1>4, <1>5, EchoServerParts

\* EchoIInv is inductive.
LEMMA EchoStep == EchoIInv /\ [EchoNext]_echoVars => EchoIInv'
  <1>1. ASSUME EchoIInv, UNCHANGED echoVars PROVE EchoIInv'
    <2>1. UNCHANGED <<server, spc, clifds, maxfd, readset, pos, clientfd, queue, cl>>
      BY <1>1 DEF echoVars, serverVars
    <2>2. EchoTypeOK' /\ \A c \in Client : Honest(cl'[c])
      BY <1>1, <2>1 DEF EchoIInv, EchoTypeOK
    <2>3. Open' = Open /\ Stored' = Stored
      BY <2>1 DEF Open, Stored
    <2>4. Tracked' /\ FdOwner' /\ QueueNew' /\ ServedNew'
      BY <1>1, <2>1, <2>3 DEF EchoIInv, Tracked, FdOwner, QueueNew, ServedNew
    <2> QED
      BY <2>2, <2>4 DEF EchoIInv
  <1>2. ASSUME EchoIInv, ServerRuns PROVE EchoIInv'
    BY <1>2, EchoSelectRound, EchoSelectFails, EchoSelectRecv, EchoBlockingRecv, EchoLocalEnds,
       EchoSelectAccept, EchoBlockingAccept DEF ServerRuns
  <1>3. ASSUME EchoIInv, NEW c \in Client,
               \/ Runs(c) \/ ConnectBlocking(c) \/ ConnectFails(c) \/ ConnectAsync(c)
               \/ Establish(c) \/ Refuse(c) \/ ClientTimeout(c) \/ Kill(c) \/ Abort(c)
        PROVE  EchoIInv'
    BY <1>3, EchoConnects, EchoConnected DEF Runs
  <1> QED
    BY <1>1, <1>2, <1>3 DEF EchoNext

(* However many clients connect, leave and are killed, in whatever order,  *)
(* the servers' vectors hold every open connection once and no other, and  *)
(* select of src/select/server.cpp looks at all of them.                   *)
THEOREM EchoServerInv == EchoSpec => []ServerInv
  <1>1. EchoInit => EchoIInv
    BY EchoStarts
  <1>2. EchoIInv => ServerInv
    BY DEF EchoIInv, ServerInv
  <1> QED
    BY <1>1, <1>2, EchoStep, PTL DEF EchoSpec

(* client1.cpp of src/asyn_connect reports success exactly when there was  *)
(* a connection, for any number of clients, any length of the accept queue *)
(* and whenever the server's answer comes.                                 *)
THEOREM EchoReportTrue == EchoSpec => []ReportTrue
  <1>1. EchoInit => EchoIInv
    BY EchoStarts
  <1>2. EchoIInv => ReportTrue
    BY DEF EchoIInv, Honest, ReportTrue, Gone
  <1> QED
    BY <1>1, <1>2, EchoStep, PTL DEF EchoSpec

=============================================================================
