------------------------------ MODULE Heartbeat ------------------------------
(***************************************************************************)
(* The heartbeat server of src/heartbeat/server.cpp with its clients       *)
(* (client.cpp).  Two threads share mmap, master_set and max_fd without a  *)
(* lock: the main thread selects, accepts and receives heartbeats, the     *)
(* heart_handler thread counts the rounds a client missed and closes it.   *)
(*                                                                         *)
(* Every access to shared data is a step of its own.  The read-modify-     *)
(* writes count += 1, FD_SET, FD_CLR and max_fd-- are a load and a store,  *)
(* as compiled.  The calls on std::map are taken as atomic, which is more  *)
(* than the code guarantees.  All descriptors fit one word of the fd_set.  *)
(* A local that went out of scope reads END, {} or 0.                      *)
(*                                                                         *)
(* select checks its descriptors when it is called; a descriptor closed    *)
(* while it sleeps is no longer reported.  recv on a closed descriptor or  *)
(* at end of file leaves the local head uninitialised, so that its type    *)
(* may be HEART or not; recv on an open, silent connection blocks.         *)
(***************************************************************************)
EXTENDS Integers, FiniteSets

CONSTANTS
    LISTEN_FD,   \* listen_fd
    Fd,          \* descriptors accept can return
    OFFLINE,     \* missed rounds after which a client is closed, 5 in the source
    BEATS,       \* the client's limit for count, 15 in the source
    MAX_CONNS    \* bound on the connections made in a run

ASSUME HeartAssumption ==
    /\ LISTEN_FD \in Nat /\ LISTEN_FD > 0
    /\ Fd \subseteq {f \in Nat : f > LISTEN_FD}
    /\ OFFLINE \in Nat \ {0}
    /\ BEATS \in Nat /\ MAX_CONNS \in Nat

VARIABLES
    conns, backlog,    \* connections made so far, and not yet accepted
    open,              \* accepted connections not closed by the server
    inbox, fin, sent,  \* per connection: heartbeats in the socket, end of
                       \* file, heartbeats its client sent
    entry, count,      \* keys of mmap and their counts
    missed,            \* auxiliary: rounds counted since count was last set to 0
    master, max_fd,    \* master_set, max_fd
    working,           \* working_set, later the descriptors Recv still visits
    mpc, mfd, mword,   \* main thread: location, client_fd or fd, FD_SET's load
    hpc, it,           \* heart thread: location, iterator
    hword, hint        \* heart thread: FD_CLR's load, an integer's load

netVars == <<conns, backlog, open, inbox, fin, sent, missed>>
mapVars == <<entry, count>>
mainVars == <<working, mpc, mfd, mword>>
heartVars == <<hpc, it, hword, hint>>
vars == <<netVars, mapVars, master, max_fd, mainVars, heartVars>>

END == 0  \* mmap.end()

\* Run() up to its loop; the heart thread finds mmap empty until then.
Init ==
    /\ conns = 0 /\ backlog = 0 /\ open = {}
    /\ inbox = [f \in Fd |-> 0]
    /\ fin = [f \in Fd |-> FALSE]
    /\ sent = [f \in Fd |-> 0]
    /\ entry = {} /\ count = [f \in Fd |-> 0]
    /\ missed = [f \in Fd |-> 0]
    /\ master = {LISTEN_FD} /\ max_fd = LISTEN_FD
    /\ working = {} /\ mpc = "copy" /\ mfd = END /\ mword = {}
    /\ hpc = "sleep" /\ it = END /\ hword = {} /\ hint = 0

Least(S) == CHOOSE x \in S : \A y \in S : x <= y

Running == mpc # "exit"

-----------------------------------------------------------------------------
(* Clients                                                                 *)

Connect ==
    /\ Running /\ conns < MAX_CONNS
    /\ conns' = conns + 1
    /\ backlog' = backlog + 1
    /\ UNCHANGED <<open, inbox, fin, sent, missed, mapVars, master, max_fd, mainVars, heartVars>>

\* A connection that waits to be accepted is reset: the kernel drops it.
Abort ==
    /\ Running /\ backlog > 0
    /\ backlog' = backlog - 1
    /\ UNCHANGED <<conns, open, inbox, fin, sent, missed, mapVars, master, max_fd, mainVars, heartVars>>

\* send_heart: the loop sends, counts, and stops when count > BEATS.
SendHeart(f) ==
    /\ f \in open /\ ~fin[f] /\ sent[f] <= BEATS
    /\ sent' = [sent EXCEPT ![f] = @ + 1]
    /\ inbox' = [inbox EXCEPT ![f] = @ + 1]
    /\ UNCHANGED <<conns, backlog, open, fin, missed, mapVars, master, max_fd, mainVars, heartVars>>

\* The user types "exit".
Leave(f) ==
    /\ f \in open /\ ~fin[f]
    /\ fin' = [fin EXCEPT ![f] = TRUE]
    /\ UNCHANGED <<conns, backlog, open, inbox, sent, missed, mapVars, master, max_fd, mainVars, heartVars>>

Clients == Connect \/ Abort \/ \E f \in Fd : SendHeart(f) \/ Leave(f)

-----------------------------------------------------------------------------
(* The main thread: Run                                                    *)

Goto(l) == mpc' = l

Copy ==
    /\ mpc = "copy" /\ Goto("select")
    /\ working' = master
    /\ UNCHANGED <<netVars, mapVars, master, max_fd, mfd, mword, heartVars>>

Asked == {f \in working : f <= max_fd}

\* exit() ends both threads and closes every socket.
ExitProcess ==
    /\ Goto("exit")
    /\ hpc' = "exit"
    /\ open' = {} /\ backlog' = 0
    /\ UNCHANGED <<conns, inbox, fin, sent, missed, mapVars, master, max_fd>>
    /\ UNCHANGED <<working, mfd, mword, it, hword, hint>>

\* select meets a closed descriptor: EBADF.
SelectError ==
    /\ mpc = "select"
    /\ ~(Asked \subseteq open \cup {LISTEN_FD})
    /\ ExitProcess

SelectCall ==
    /\ mpc = "select" /\ Goto("blocked")
    /\ Asked \subseteq open \cup {LISTEN_FD}
    /\ working' = Asked
    /\ UNCHANGED <<netVars, mapVars, master, max_fd, mfd, mword, heartVars>>

Ready ==
    {f \in working : IF f = LISTEN_FD THEN backlog > 0
                     ELSE f \in open /\ (inbox[f] > 0 \/ fin[f])}

SelectReturn ==
    /\ mpc = "blocked" /\ Ready # {}
    /\ working' = Ready
    /\ Goto(IF LISTEN_FD \in Ready THEN "accept" ELSE "recv")
    /\ UNCHANGED <<netVars, mapVars, master, max_fd, mfd, mword, heartVars>>

SelectTimeout ==
    /\ mpc = "blocked" /\ Ready = {} /\ Goto("copy")
    /\ working' = {}
    /\ UNCHANGED <<netVars, mapVars, master, max_fd, mfd, mword, heartVars>>

-----------------------------------------------------------------------------
(* Accept.  The kernel hands out the lowest free descriptor.  listen_fd is *)
(* blocking: accept waits when the queue has become empty since select.    *)

AcceptCall ==
    /\ mpc = "accept" /\ Goto("insert")
    /\ backlog > 0 /\ Fd \ open # {}
    /\ LET f == Least(Fd \ open)
       IN  /\ mfd' = f
           /\ open' = open \cup {f}
           /\ inbox' = [inbox EXCEPT ![f] = 0]
           /\ fin' = [fin EXCEPT ![f] = FALSE]
           /\ sent' = [sent EXCEPT ![f] = 0]
           /\ missed' = [missed EXCEPT ![f] = 0]
    /\ backlog' = backlog - 1
    /\ UNCHANGED <<conns, mapVars, master, max_fd, working, mword, heartVars>>

\* No descriptor is left: EMFILE.
AcceptError ==
    /\ mpc = "accept"
    /\ Fd \ open = {}
    /\ ExitProcess

\* map::insert leaves an entry that is already there as it is.
MapInsert ==
    /\ mpc = "insert" /\ Goto("fd_set")
    /\ entry' = entry \cup {mfd}
    /\ count' = IF mfd \in entry THEN count ELSE [count EXCEPT ![mfd] = 0]
    /\ UNCHANGED <<netVars, master, max_fd, working, mfd, mword, heartVars>>

FdSetLoad ==
    /\ mpc = "fd_set" /\ Goto("fd_set_store")
    /\ mword' = master
    /\ UNCHANGED <<netVars, mapVars, master, max_fd, working, mfd, heartVars>>

FdSetStore ==
    /\ mpc = "fd_set_store" /\ Goto("raise")
    /\ master' = mword \cup {mfd}
    /\ mword' = {}
    /\ UNCHANGED <<netVars, mapVars, max_fd, working, mfd, heartVars>>

\* Seeded fault: Run receives after it has accepted, without the else.
RaiseMaxThenRecv ==
    /\ mpc = "raise" /\ Goto("recv")
    /\ max_fd' = IF mfd > max_fd THEN mfd ELSE max_fd
    /\ working' = working \ {LISTEN_FD} /\ mfd' = END
    /\ UNCHANGED <<netVars, mapVars, master, mword, heartVars>>

RaiseMax ==
    /\ mpc = "raise" /\ Goto("copy")
    /\ max_fd' = IF mfd > max_fd THEN mfd ELSE max_fd
    /\ working' = {} /\ mfd' = END
    /\ UNCHANGED <<netVars, mapVars, master, mword, heartVars>>

-----------------------------------------------------------------------------
(* Recv: the descriptors of the working set in ascending order             *)

Visits(f) == mpc = "recv" /\ f \in Asked /\ f = Least(Asked)

\* Seeded fault: a heartbeat is taken from an empty socket.
RecvBeatUntested(f) ==
    /\ Visits(f) /\ Goto("reset")
    /\ f \in open
    /\ inbox' = [inbox EXCEPT ![f] = @ - 1]
    /\ working' = working \ {f}
    /\ mfd' = f
    /\ UNCHANGED <<conns, backlog, open, fin, sent, missed, mapVars, master, max_fd, mword, heartVars>>

\* A heartbeat is received.
RecvBeat(f) ==
    /\ Visits(f) /\ Goto("reset")
    /\ f \in open /\ inbox[f] > 0
    /\ inbox' = [inbox EXCEPT ![f] = @ - 1]
    /\ working' = working \ {f}
    /\ mfd' = f
    /\ UNCHANGED <<conns, backlog, open, fin, sent, missed, mapVars, master, max_fd, mword, heartVars>>

\* Nothing is received: head.type is whatever the stack holds.
RecvNothing(f) ==
    /\ Visits(f)
    /\ f \notin open \/ (inbox[f] = 0 /\ fin[f])
    /\ \/ Goto("reset") /\ mfd' = f
       \/ Goto("recv") /\ mfd' = END
    /\ working' = working \ {f}
    /\ UNCHANGED <<netVars, mapVars, master, max_fd, mword, heartVars>>

\* mmap[fd].second = 0, which creates the entry if it is missing.
ResetCount ==
    /\ mpc = "reset" /\ Goto("recv")
    /\ entry' = entry \cup {mfd}
    /\ count' = [count EXCEPT ![mfd] = 0]
    /\ missed' = [missed EXCEPT ![mfd] = 0]
    /\ mfd' = END
    /\ UNCHANGED <<conns, backlog, open, inbox, fin, sent, master, max_fd, working, mword, heartVars>>

RecvDone ==
    /\ mpc = "recv" /\ Asked = {} /\ Goto("copy")
    /\ working' = {}
    /\ UNCHANGED <<netVars, mapVars, master, max_fd, mfd, mword, heartVars>>

Main ==
    \/ Copy \/ SelectError \/ SelectCall \/ SelectReturn \/ SelectTimeout
    \/ AcceptCall \/ AcceptError \/ MapInsert \/ FdSetLoad \/ FdSetStore \/ RaiseMax
    \/ \E f \in Fd : RecvBeat(f) \/ RecvNothing(f)
    \/ ResetCount \/ RecvDone

-----------------------------------------------------------------------------
(* The heart_handler thread                                                *)

HGoto(l) == hpc' = l

\* The iterator after position k.
After(k) == LET later == {f \in entry : f > k}
            IN  IF later = {} THEN END ELSE Least(later)

SweepBegin ==
    /\ hpc = "sleep" /\ HGoto("visit")
    /\ it' = After(END)
    /\ UNCHANGED <<netVars, mapVars, master, max_fd, mainVars, hword, hint>>

SweepEnd ==
    /\ hpc = "visit" /\ it = END /\ HGoto("sleep")
    /\ UNCHANGED <<netVars, mapVars, master, max_fd, mainVars, it, hword, hint>>

\* Seeded fault: both tests use a bound that is one too large.
CheckInclusive ==
    /\ hpc = "visit" /\ it # END
    /\ HGoto(IF count[it] = OFFLINE + 1 THEN "close" ELSE "count")
    /\ hint' = IF hpc' = "close" THEN 0 ELSE count[it]
    /\ UNCHANGED <<netVars, mapVars, master, max_fd, mainVars, it, hword>>

\* The tests of the count, and the load of count += 1; a count that is out of
\* range is passed over.
Check ==
    /\ hpc = "visit" /\ it # END
    /\ HGoto(IF count[it] = OFFLINE THEN "close"
             ELSE IF count[it] < OFFLINE THEN "count" ELSE "visit")
    /\ it' = IF count[it] > OFFLINE THEN After(it) ELSE it
    /\ hint' = IF count[it] < OFFLINE THEN count[it] ELSE 0
    /\ UNCHANGED <<netVars, mapVars, master, max_fd, mainVars, hword>>

\* The store of count += 1, and ++it.
CountStore ==
    /\ hpc = "count" /\ HGoto("visit")
    /\ count' = [count EXCEPT ![it] = hint + 1]
    /\ missed' = [missed EXCEPT ![it] = IF @ < OFFLINE THEN @ + 1 ELSE @]
    /\ it' = After(it) /\ hint' = 0
    /\ UNCHANGED <<conns, backlog, open, inbox, fin, sent, entry, master, max_fd, mainVars, hword>>

CloseConn ==
    /\ hpc = "close" /\ HGoto("fd_clr")
    /\ open' = open \ {it}
    /\ inbox' = [inbox EXCEPT ![it] = 0]
    /\ fin' = [fin EXCEPT ![it] = FALSE]
    /\ sent' = [sent EXCEPT ![it] = 0]
    /\ missed' = [missed EXCEPT ![it] = 0]
    /\ UNCHANGED <<conns, backlog, mapVars, master, max_fd, mainVars, it, hword, hint>>

FdClrLoad ==
    /\ hpc = "fd_clr" /\ HGoto("fd_clr_store")
    /\ hword' = master
    /\ UNCHANGED <<netVars, mapVars, master, max_fd, mainVars, it, hint>>

\* Seeded fault: FD_ZERO instead of FD_CLR.
FdZeroStore ==
    /\ hpc = "fd_clr_store" /\ HGoto("if_max")
    /\ master' = {}
    /\ hword' = {}
    /\ UNCHANGED <<netVars, mapVars, max_fd, mainVars, it, hint>>

FdClrStore ==
    /\ hpc = "fd_clr_store" /\ HGoto("if_max")
    /\ master' = hword \ {it}
    /\ hword' = {}
    /\ UNCHANGED <<netVars, mapVars, max_fd, mainVars, it, hint>>

TestMax ==
    /\ hpc = "if_max" /\ HGoto(IF it = max_fd THEN "while" ELSE "erase")
    /\ UNCHANGED <<netVars, mapVars, master, max_fd, mainVars, it, hword, hint>>

\* while (!FD_ISSET(max_fd)), and the load of max_fd--.
WhileTest ==
    /\ hpc = "while" /\ HGoto(IF max_fd \in master THEN "erase" ELSE "lower")
    /\ hint' = IF hpc' = "lower" THEN max_fd ELSE 0
    /\ UNCHANGED <<netVars, mapVars, master, max_fd, mainVars, it, hword>>

\* Seeded fault: max_fd is not lowered.
LowerMaxStuck ==
    /\ hpc = "lower" /\ HGoto("while")
    /\ hint' = 0
    /\ UNCHANGED <<netVars, mapVars, master, max_fd, mainVars, it, hword>>

LowerMax ==
    /\ hpc = "lower" /\ HGoto("while")
    /\ max_fd' = hint - 1
    /\ hint' = 0
    /\ UNCHANGED <<netVars, mapVars, master, mainVars, it, hword>>

\* mmap.erase(it++)
MapErase ==
    /\ hpc = "erase" /\ HGoto("visit")
    /\ entry' = entry \ {it}
    /\ count' = [count EXCEPT ![it] = 0]
    /\ it' = After(it)
    /\ UNCHANGED <<netVars, master, max_fd, mainVars, hword, hint>>

Heart ==
    \/ SweepBegin \/ SweepEnd \/ Check \/ CountStore
    \/ CloseConn \/ FdClrLoad \/ FdClrStore \/ TestMax \/ WhileTest \/ LowerMax
    \/ MapErase

Exited == mpc = "exit" /\ UNCHANGED vars

Next == Clients \/ Main \/ Heart \/ Exited

(* Both threads are scheduled again and again; nothing is asked of the     *)
(* clients.                                                                *)
Spec == Init /\ [][Next]_vars /\ WF_vars(Main) /\ WF_vars(Heart)

-----------------------------------------------------------------------------
(* Properties                                                              *)

\* The type of every variable of the two threads.
TypeOK ==
    /\ conns \in 0 .. MAX_CONNS /\ backlog \in 0 .. MAX_CONNS
    /\ open \in SUBSET Fd
    /\ inbox \in [Fd -> Nat] /\ fin \in [Fd -> BOOLEAN] /\ sent \in [Fd -> Nat]
    /\ entry \in SUBSET Fd /\ count \in [Fd -> Nat]
    /\ missed \in [Fd -> 0 .. OFFLINE]
    /\ master \in SUBSET (Fd \cup {LISTEN_FD}) /\ max_fd \in Nat
    /\ working \in SUBSET (Fd \cup {LISTEN_FD})
    /\ mfd \in Fd \cup {END} /\ mword \in SUBSET (Fd \cup {LISTEN_FD})
    /\ it \in Fd \cup {END}
    /\ hword \in SUBSET (Fd \cup {LISTEN_FD}) /\ hint \in Nat

(* Whatever the unsynchronised updates of the two threads lose, the main   *)
(* thread always selects on the listening socket: it is in master_set and  *)
(* not above max_fd.                                                       *)
ListenWatched == LISTEN_FD \in master /\ max_fd >= LISTEN_FD

(* No count passes OFFLINE: the equality by which heart_handler recognises *)
(* a silent client cannot be jumped over, although a reset and an          *)
(* increment of the same count can overtake each other.                    *)
CountBounded == \A f \in entry : count[f] <= OFFLINE

(* The main thread, which alone accepts, never blocks in recv: heart_      *)
(* handler may close a descriptor that select has reported, but the number *)
(* is not given out again before Recv is through with it, and recv on a    *)
(* closed descriptor returns at once.                                      *)
RecvNeverBlocks ==
    mpc = "recv" => \A f \in working : f \notin open \/ inbox[f] > 0 \/ fin[f]

(* A connection whose client goes silent without closing is closed by the  *)
(* server in the end (every client stops after its last heartbeat): "if    *)
(* 3s*5 do not accept hb, the client is outline" (server.cpp:205).         *)
DeadDetected ==
    \A f \in Fd : (f \in open /\ ~fin[f]) ~> (f \notin open \/ fin[f])

(* What does hold under every interleaving: a silent client is closed as   *)
(* long as its descriptor keeps its entry in mmap.  heart_handler reaches  *)
(* every entry again and again, whatever the main thread resets, and its   *)
(* loops end.  (At end of file recv may read the uninitialised head as a   *)
(* heartbeat for ever, so a client that left is excepted.)                 *)
CountedClosed == \A f \in Fd : []<>(f \notin open \/ fin[f] \/ f \notin entry)

(* A count of OFFLINE, on which heart_handler closes the client, stands    *)
(* for OFFLINE rounds in a row without a heartbeat: "if 3s*5 do not accept *)
(* hb, the client is outline" (server.cpp:205).                            *)
OfflineMeansSilent ==
    \A f \in entry \cap open :
        (~fin[f] /\ count[f] = OFFLINE) => missed[f] >= OFFLINE

=============================================================================
