---------------------------- MODULE EchoExamples ----------------------------
(***************************************************************************)
(* The example programs without epoll: one of three servers, and a number  *)
(* of clients that each run one of the programs written against it.  All   *)
(* but the local ones meet on TCP port 3000, so every client can find      *)
(* itself connected to either of the first two servers.                    *)
(*                                                                         *)
(*   "select"    src/select/server.cpp                                     *)
(*   "blocking"  src/bind/server.cpp, src/asyn_connect/server.cpp (equal)  *)
(*   "local"     src/local/server.c: serves one client, then ends          *)
(*                                                                         *)
(*   "bind"      src/bind/client.cpp: connect, send, recv, sleep           *)
(*   "bindPort"  src/bind/client1.cpp: the same from local port 20000      *)
(*   "selOnce"   src/select/client.cpp, client1.cpp: fd_set is set once    *)
(*   "selReset"  src/select/client2.cpp: fd_set is set in each round       *)
(*   "async"     src/asyn_connect/client.cpp: connected when writable      *)
(*   "asyncErr"  src/asyn_connect/client1.cpp: asks for SO_ERROR as well   *)
(*   "local"     src/local/client.c: send and recv in turns                *)
(*                                                                         *)
(* The programs install no signal handlers, so no call fails with EINTR    *)
(* (its branches are not modelled).  A timeout of the server's select only *)
(* starts the next round.  A message is short and fits every buffer.       *)
(***************************************************************************)
EXTENDS Integers, SequencesExt

CONSTANTS
    Client,     \* client processes
    LFD,        \* the listening socket
    SockFd,     \* descriptors accept can return
    MAX_QUEUE   \* length of the accept queue

ASSUME PortAssumption ==
    /\ Client \subseteq Nat /\ SockFd \subseteq Nat /\ LFD \in Nat
    /\ \A f \in SockFd : f > LFD
    /\ MAX_QUEUE \in Nat \ {0}

VARIABLES
    server,    \* which server runs
    spc,       \* its place: "top" of the loop, "accept", "recv", "ended"
    clifds,    \* clifds, or clientfds: the descriptors it has stored
    maxfd,     \* first argument of select, less one
    readset,   \* what select returned
    pos,       \* index i of the loop over clifds
    clientfd,  \* local of the blocking server: the connection it serves
    queue,     \* clients in the accept queue
    cl         \* the clients: program, place, socket at either end

serverVars == <<spc, clifds, maxfd, readset, pos, clientfd>>
echoVars == <<server, serverVars, queue, cl>>

TcpPrograms == <<"bind", "bindPort", "selOnce", "selReset", "async", "asyncErr">>
ProgramsOf(s) == IF s = "local" THEN <<"local">> ELSE TcpPrograms
INVALID_FD == -1

\* A process that was not started yet.
Fresh(p) == [prog |-> p, st |-> "start", fd |-> INVALID_FD, sent |-> FALSE,
             answer |-> FALSE, isset |-> TRUE, net |-> "none", report |-> "none"]

\* The server is at the top of its loop, or does not run at all; clients are
\* numbered in the order of their programs.
EchoInit ==
    /\ server \in {"select", "blocking", "local"}
    /\ spc \in {"top", "ended"} /\ clifds = <<>> /\ maxfd = LFD /\ readset = {} /\ pos = 1
    /\ clientfd = INVALID_FD /\ queue = <<>>
    /\ \E p \in [Client -> DOMAIN ProgramsOf(server)] :
          /\ \A c, d \in Client : c < d => p[c] <= p[d]
          /\ cl = [c \in Client |-> Fresh(ProgramsOf(server)[p[c]])]

Listening == spc # "ended"
Gone(c) == cl[c].st = "exit"

\* Steps of a client: its record is changed by new, the server's state is not.
Moves(c, new) == cl' = [cl EXCEPT ![c] = new] /\ UNCHANGED <<server, serverVars>>

-----------------------------------------------------------------------------
(* connect, on a blocking socket and on one that is not                    *)

Async(c) == cl[c].prog \in {"async", "asyncErr"}

\* Local port 20000 is taken, or was used a short time ago (TIME_WAIT).
PortInUse(c) == \E d \in Client \ {c} : cl[d].prog = "bindPort" /\ cl[d].st \notin {"start", "exit"}
PortUsed(c) == \E d \in Client \ {c} : cl[d].prog = "bindPort" /\ cl[d].st # "start"

ConnectBlocking(c) ==
    /\ cl[c].st = "start" /\ ~Async(c)
    /\ Listening /\ Len(queue) < MAX_QUEUE
    /\ cl[c].prog = "bindPort" => ~PortInUse(c)
    /\ queue' = Append(queue, c)
    /\ Moves(c, [cl[c] EXCEPT !.net = "up",
                 !.st = IF cl[c].prog \in {"selOnce", "selReset"} THEN "select" ELSE "send"])

\* bind or connect fails at once: the program returns -1.
ConnectFails(c) ==
    /\ cl[c].st = "start"
    /\ ~Listening \/ (cl[c].prog = "bindPort" /\ PortUsed(c))
    /\ Moves(c, [cl[c] EXCEPT !.st = "exit"]) /\ UNCHANGED queue

\* EINPROGRESS.
ConnectAsync(c) ==
    /\ cl[c].st = "start" /\ Async(c)
    /\ Moves(c, [cl[c] EXCEPT !.st = "progress", !.net = "pending"]) /\ UNCHANGED queue

\* The network's answer, if it comes: a full queue drops the attempt.
Establish(c) ==
    /\ cl[c].st = "progress" /\ cl[c].net = "pending"
    /\ Listening /\ Len(queue) < MAX_QUEUE
    /\ queue' = Append(queue, c)
    /\ Moves(c, [cl[c] EXCEPT !.net = "up"])

Refuse(c) ==
    /\ cl[c].st = "progress" /\ cl[c].net = "pending" /\ ~Listening
    /\ Moves(c, [cl[c] EXCEPT !.net = "refused"]) /\ UNCHANGED queue

\* Seeded fault: a writable socket is taken for a connected one.
VerdictWritable(c) == "ok"

\* What the client prints when select finds the socket writable.
Verdict(c) == IF cl[c].prog = "asyncErr" /\ cl[c].net = "refused" THEN "error" ELSE "ok"

\* connect or select is answered; the client reports it and leaves.
AsyncDone(c) ==
    /\ cl[c].st = "progress" /\ cl[c].net # "pending"
    /\ Moves(c, [cl[c] EXCEPT !.st = "exit", !.report = Verdict(c)]) /\ UNCHANGED queue

\* select times out after 3 seconds.
AsyncTimeout(c) ==
    /\ cl[c].st = "progress" /\ cl[c].net = "pending"
    /\ Moves(c, [cl[c] EXCEPT !.st = "exit", !.report = "error"]) /\ UNCHANGED queue

-----------------------------------------------------------------------------
(* Connected clients                                                       *)

\* The server has ended, and with it every connection.
PeerClosed == ~Listening

\* A local socket, unlike TCP, tells the first send that the peer is gone.
SendData(c) ==
    /\ cl[c].st = "send" /\ (PeerClosed => cl[c].prog # "local")
    /\ Moves(c, [cl[c] EXCEPT !.st = "recv", !.sent = Listening]) /\ UNCHANGED queue

\* send fails: return -1, or SIGPIPE.
SendFails(c) ==
    /\ cl[c].st = "send" /\ PeerClosed
    /\ Moves(c, [cl[c] EXCEPT !.st = "exit"]) /\ UNCHANGED queue

(* recv returns.  The bind clients then sleep for ever with their socket   *)
(* open, whatever it returned; the local client sends again, or leaves at  *)
(* end of file.                                                            *)
AfterRecv(c) == IF cl[c].prog # "local" THEN "sleep"
                ELSE IF cl[c].answer THEN "send" ELSE "exit"

RecvAnswer(c) ==
    /\ cl[c].st = "recv" /\ (cl[c].answer \/ PeerClosed)
    /\ Moves(c, [cl[c] EXCEPT !.st = AfterRecv(c), !.answer = FALSE]) /\ UNCHANGED queue

\* Seeded fault: client2 waits with a timeout and sets its fd_set once, too.
TimesOutAll(c) == TRUE

\* client2 calls select without a timeout, and sets fd_set before each call.
TimesOut(c) == cl[c].prog = "selOnce"

\* select times out and clears the bit, which the program does not set again.
ClientTimeout(c) ==
    /\ cl[c].st = "select" /\ ~PeerClosed /\ TimesOut(c)
    /\ Moves(c, [cl[c] EXCEPT !.isset = FALSE]) /\ UNCHANGED queue

\* select finds end of file, recv returns 0, the loop is left.
ClientReads(c) ==
    /\ cl[c].st = "select" /\ cl[c].isset /\ PeerClosed
    /\ Moves(c, [cl[c] EXCEPT !.st = "exit"]) /\ UNCHANGED queue

\* The user ends a client; its socket is closed.
Kill(c) ==
    /\ cl[c].st \notin {"start", "progress", "exit"}
    /\ Moves(c, [cl[c] EXCEPT !.st = "exit"]) /\ UNCHANGED queue

(* The same, with a reset, before the server has accepted it: the kernel   *)
(* takes the connection out of the queue again (the scenario of            *)
(* IO模型.md:29-39).  Local sockets know no reset.                         *)
Abort(c) ==
    /\ server # "local" /\ cl[c].st \notin {"start", "progress", "exit"}
    /\ \E i \in DOMAIN queue : queue[i] = c /\ queue' = RemoveAt(queue, i)
    /\ Moves(c, [cl[c] EXCEPT !.st = "exit"])

Runs(c) ==
    \/ AsyncDone(c) \/ AsyncTimeout(c) \/ SendData(c) \/ SendFails(c)
    \/ RecvAnswer(c) \/ ClientReads(c)

-----------------------------------------------------------------------------
(* The servers' end of a connection                                        *)

Open == {cl[c].fd : c \in Client} \ {INVALID_FD}
Free == SockFd \ Open
ClientOf(f) == CHOOSE c \in Client : cl[c].fd = f

\* recv on f would not block.
SockReadable(f) == cl[ClientOf(f)].sent \/ Gone(ClientOf(f))

\* accept gives the first connection of the queue the lowest free descriptor f.
Accept(f) ==
    /\ queue # <<>> /\ f \in Free /\ \A g \in Free : f <= g
    /\ cl' = [cl EXCEPT ![Head(queue)].fd = f]
    /\ queue' = Tail(queue)

-----------------------------------------------------------------------------
(* select/server.cpp                                                       *)

Stored == {clifds[i] : i \in DOMAIN clifds} \ {INVALID_FD}

\* readset is built anew from clifds; select looks at descriptors up to maxfd.
SelectReturns ==
    LET ready == {f \in Stored : f <= maxfd /\ SockReadable(f)}
                 \cup (IF queue # <<>> THEN {LFD} ELSE {})
    IN  /\ server = "select" /\ spc = "top" /\ ready # {}
        /\ readset' = ready
        /\ spc' = IF LFD \in ready THEN "accept" ELSE "recv"
        /\ UNCHANGED <<server, clifds, maxfd, pos, clientfd, queue, cl>>

\* Seeded fault: maxfd is the descriptor that came last.
NewMaxLast(f) == f

NewMax(f) == IF f > maxfd THEN f ELSE maxfd

\* lfd is a blocking socket: accept waits as long as the queue is empty.
SelectAccept(f) ==
    /\ server = "select" /\ spc = "accept"
    /\ Accept(f)
    /\ clifds' = Append(clifds, f) /\ maxfd' = NewMax(f)
    /\ spc' = "top" /\ readset' = {}
    /\ UNCHANGED <<server, pos, clientfd>>

\* accept fails: the loop is left, every stored descriptor and lfd are closed.
SelectAcceptFails ==
    /\ server = "select" /\ spc = "accept" /\ Free = {}
    /\ cl' = [c \in Client |-> IF cl[c].fd \in Stored
                               THEN [cl[c] EXCEPT !.fd = INVALID_FD] ELSE cl[c]]
    /\ spc' = "ended" /\ queue' = <<>>
    /\ UNCHANGED <<server, clifds, maxfd, readset, pos, clientfd>>

\* Seeded fault: a descriptor that was closed stays in clifds.
DropKeeps(i) == clifds

Drop(i) == [clifds EXCEPT ![i] = INVALID_FD]

\* Entry pos of the loop over clifds: recv, and close if it returns 0.
SelectRecv ==
    /\ server = "select" /\ spc = "recv" /\ pos <= Len(clifds)
    /\ pos' = pos + 1
    /\ IF clifds[pos] \notin readset THEN UNCHANGED <<cl, clifds>>
       ELSE LET c == ClientOf(clifds[pos])
            IN  IF cl[c].sent
                THEN cl' = [cl EXCEPT ![c].sent = FALSE] /\ UNCHANGED clifds
                ELSE cl' = [cl EXCEPT ![c].fd = INVALID_FD] /\ clifds' = Drop(pos)
    /\ UNCHANGED <<server, spc, maxfd, readset, clientfd, queue>>

SelectNext ==
    /\ server = "select" /\ spc = "recv" /\ pos > Len(clifds)
    /\ spc' = "top" /\ readset' = {} /\ pos' = 1
    /\ UNCHANGED <<server, clifds, maxfd, clientfd, queue, cl>>

-----------------------------------------------------------------------------
(* bind/server.cpp, asyn_connect/server.cpp                                *)

\* A failed accept (no free descriptor) only starts the next round.
BlockingAccept(f) ==
    /\ server \in {"blocking", "local"} /\ spc = "top"
    /\ Accept(f)
    /\ clientfd' = f /\ spc' = "recv"
    /\ UNCHANGED <<server, clifds, maxfd, readset, pos>>

\* Seeded fault: the server goes on receiving until the client leaves.
ServedToEnd(c) == IF server = "blocking" /\ Gone(c) THEN "top" ELSE "recv"

\* The blocking server turns to the next connection, the local one stays.
Served(c) == IF server = "blocking" THEN "top" ELSE "recv"

\* recv returns data, which is sent back.
Echo(c) == [cl EXCEPT ![c].answer = @ \/ cl[c].sent, ![c].sent = FALSE]

\* One recv, whatever it returns; the descriptor is kept and never closed.
BlockingRecv ==
    /\ server = "blocking" /\ spc = "recv" /\ SockReadable(clientfd)
    /\ cl' = Echo(ClientOf(clientfd)) /\ spc' = Served(ClientOf(clientfd))
    /\ clifds' = Append(clifds, clientfd)
    /\ UNCHANGED <<server, maxfd, readset, pos, clientfd, queue>>

-----------------------------------------------------------------------------
(* local/server.c                                                          *)

LocalRecv ==
    /\ server = "local" /\ spc = "recv" /\ cl[ClientOf(clientfd)].sent
    /\ ~Gone(ClientOf(clientfd))
    /\ cl' = Echo(ClientOf(clientfd)) /\ spc' = Served(ClientOf(clientfd))
    /\ UNCHANGED <<server, clifds, maxfd, readset, pos, clientfd, queue>>

\* The client has left: end of file, ECONNRESET or SIGPIPE end the server.
LocalEnds ==
    /\ server = "local" /\ spc = "recv" /\ Gone(ClientOf(clientfd))
    /\ cl' = [cl EXCEPT ![ClientOf(clientfd)].fd = INVALID_FD]
    /\ spc' = "ended" /\ queue' = <<>>
    /\ UNCHANGED <<server, clifds, maxfd, readset, pos, clientfd>>

ServerRuns ==
    \/ SelectReturns \/ SelectAcceptFails \/ SelectRecv \/ SelectNext
    \/ BlockingRecv \/ LocalRecv \/ LocalEnds
    \/ \E f \in SockFd : SelectAccept(f) \/ BlockingAccept(f)

EchoNext ==
    \/ ServerRuns
    \/ \E c \in Client :
          \/ Runs(c) \/ ConnectBlocking(c) \/ ConnectFails(c) \/ ConnectAsync(c)
          \/ Establish(c) \/ Refuse(c) \/ ClientTimeout(c) \/ Kill(c) \/ Abort(c)

(* Server and clients run; when clients are started or killed, whether the *)
(* network answers, and when a wait for a message is over, is open.        *)
EchoSpec == /\ EchoInit /\ [][EchoNext]_echoVars /\ WF_echoVars(ServerRuns)
            /\ \A c \in Client : WF_echoVars(Runs(c))

-----------------------------------------------------------------------------
(* Properties                                                              *)

\* The type of every variable.
EchoTypeOK ==
    /\ server \in {"select", "blocking", "local"} /\ spc \in {"top", "accept", "recv", "ended"}
    /\ clifds \in Seq(SockFd \cup {INVALID_FD}) /\ maxfd \in SockFd \cup {LFD}
    /\ readset \subseteq SockFd \cup {LFD} /\ pos \in Nat \ {0}
    /\ clientfd \in SockFd \cup {INVALID_FD} /\ queue \in Seq(Client)
    /\ cl \in [Client ->
          [prog : Range(TcpPrograms) \cup {"local"},
           st : {"start", "progress", "send", "recv", "sleep", "select", "exit"},
           fd : SockFd \cup {INVALID_FD}, sent : BOOLEAN, answer : BOOLEAN, isset : BOOLEAN,
           net : {"none", "pending", "up", "refused"}, report : {"none", "ok", "error"}]]

(* The vector of descriptors stands for the open connections: each is      *)
(* stored once, nothing else is, and select looks at all of them, however  *)
(* descriptors are closed and given out again.                             *)
Tracked ==
    /\ Open = IF spc = "ended" THEN {}
              ELSE Stored \cup (IF server # "select" /\ spc = "recv" THEN {clientfd} ELSE {})
    /\ \A i, j \in DOMAIN clifds : clifds[i] = clifds[j] /\ clifds[i] # INVALID_FD => i = j
    /\ server = "select" => \A f \in Open : f <= maxfd

\* The server's view of its connections is right, with the types of all variables.
ServerInv == EchoTypeOK /\ Tracked

(* client1.cpp of asyn_connect, which asks for SO_ERROR, says              *)
(* "successfully" exactly when there was a connection.                     *)
ReportTrue ==
    \A c \in Client :
        cl[c].prog = "asyncErr" => (cl[c].report = "ok" <=> Gone(c) /\ cl[c].net = "up")

(* The select server closes the connection of a client that has left, and  *)
(* reads what a client has sent, although a round that accepts reads       *)
(* nothing: a round without a new connection must come, and does, as each  *)
(* client connects once.  The one way out is that of IO模型.md (29-39):    *)
(* select reported a connection that was reset before accept, and the      *)
(* server stays in the blocking accept (select/server.cpp:82).             *)
SelectServes ==
    \A f \in SockFd :
        \/ []<>~(server = "select" /\ f \in Open /\ SockReadable(f))
        \/ <>[](server = "select" /\ spc = "accept" /\ queue = <<>>)

(* The blocking and the local server answer a client, unless they wait for *)
(* ever elsewhere: the blocking server has run out of descriptors, which   *)
(* it never closes, or is connected to a client that never sends, as those *)
(* of the select examples; the local server has accepted another client.   *)
Stuck(c) ==
    \/ server = "blocking" /\ Free = {}
    \/ server = "blocking" /\ spc = "recv" /\ cl[ClientOf(clientfd)].st = "select"
    \/ server = "local" /\ spc = "recv" /\ clientfd # cl[c].fd
Answered ==
    \A c \in Client :
        [](server # "select" /\ cl[c].st = "recv"
             => <>(cl[c].answer \/ cl[c].st # "recv" \/ []Stuck(c)))

(* When a server ends, a client in its select loop notices and leaves, if  *)
(* the descriptor is still in its fd_set: client.cpp and client1.cpp do    *)
(* not set it again after a timeout, client2.cpp sets it in each round.  A *)
(* local client that waits in the queue or for an answer leaves as well.   *)
EndNoticed ==
    \A c \in Client :
        (/\ spc = "ended"
         /\ \/ cl[c].st = "select" /\ (cl[c].prog = "selReset" \/ cl[c].isset)
            \/ cl[c].prog = "local" /\ cl[c].st # "start") ~> Gone(c)

=============================================================================
