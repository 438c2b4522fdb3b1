--------------------------- MODULE HeartbeatProofs ---------------------------
(***************************************************************************)
(* Proofs about Heartbeat, for any set of descriptors and any limits: what *)
(* holds of the two threads of src/heartbeat/server.cpp although they      *)
(* share mmap, master_set and max_fd without a lock.                       *)
(***************************************************************************)
EXTENDS Heartbeat, WellFoundedInduction, TLAPS

(* What the properties need to be inductive.  MainHolds and HeartHolds say *)
(* what the private copies of the threads hold between a load and the      *)
(* store that goes with it, which is where the threads interleave: a word  *)
(* of master_set that is about to be written back has the bit of the       *)
(* listening socket, a count about to be stored is below OFFLINE, and a    *)
(* max_fd about to be lowered is above the listening socket.               *)
MainHolds ==
    /\ mpc \in {"insert", "fd_set", "fd_set_store", "raise", "reset"} => mfd \in Fd
    /\ mpc = "fd_set_store" => LISTEN_FD \in mword

HeartHolds ==
    /\ hpc \in {"count", "close", "fd_clr", "fd_clr_store", "if_max", "while", "lower",
                "erase"} => it \in Fd
    /\ hpc = "fd_clr_store" => LISTEN_FD \in hword
    /\ hpc = "count" => hint < OFFLINE
    /\ hpc = "lower" => hint > LISTEN_FD

\* RecvNeverBlocks also holds while the count of a received beat is reset.
RecvSafe ==
    mpc \in {"recv", "reset"} => \A f \in working : f \notin open \/ inbox[f] > 0 \/ fin[f]

BacklogMade == backlog <= conns

IInv == /\ TypeOK /\ ListenWatched /\ CountBounded /\ RecvSafe
        /\ MainHolds /\ HeartHolds /\ BacklogMade

-----------------------------------------------------------------------------
(* Descriptors                                                             *)

\* A set of natural numbers that is not empty has a least element.
LEMMA LeastNat ==
    ASSUME NEW S \in SUBSET Nat, S # {}
    PROVE  \E x \in S : \A y \in S : x <= y
  <1> DEFINE R == OpToRel(<, Nat)
  <1>1. IsWellFoundedOn(R, Nat)
    BY NatLessThanWellFounded
  <1>2. \A x, y \in Nat : <<y, x>> \in R <=> y < x
    BY DEF OpToRel
  <1> HIDE DEF R
  <1>3. PICK x \in S : \A y \in S : ~(<<y, x>> \in R)
    BY <1>1, WFMin
  <1>4. ASSUME NEW y \in S PROVE x <= y
    <2>1. x \in Nat /\ y \in Nat
      OBVIOUS
    <2>2. ~(y < x)
      BY <1>2, <1>3, <2>1
    <2> QED
      BY <2>1, <2>2
  <1> QED
    BY <1>4

\* The facts about descriptors and limits that the steps use.
LEMMA HeartFacts == /\ LISTEN_FD \in Nat /\ LISTEN_FD > 0 /\ LISTEN_FD \notin Fd
                    /\ Fd \subseteq Nat /\ \A f \in Fd : f > LISTEN_FD
                    /\ END \notin Fd /\ END \in Nat /\ END # LISTEN_FD
                    /\ OFFLINE \in Nat \ {0} /\ BEATS \in Nat /\ MAX_CONNS \in Nat
  BY HeartAssumption DEF END

\* The lowest free descriptor is a free descriptor.
LEMMA LeastFd == ASSUME NEW S \in SUBSET Fd, S # {} PROVE Least(S) \in S
  <1>1. \E x \in S : \A y \in S : x <= y
    BY HeartFacts, LeastNat
  <1> QED
    BY <1>1 DEF Least

\* ++it ends at an entry of mmap or at mmap.end().
LEMMA AfterEntry == ASSUME TypeOK, NEW k PROVE After(k) \in Fd \cup {END}
  <1> DEFINE later == {f \in entry : f > k}
  <1>1. later \in SUBSET Fd
    BY DEF TypeOK
  <1>2. CASE later = {}
    BY <1>2 DEF After
  <1>3. CASE later # {}
    <2>1. Least(later) \in Fd
      BY <1>1, <1>3, LeastFd
    <2> QED
      BY <1>3, <2>1 DEF After
  <1> QED
    BY <1>2, <1>3

-----------------------------------------------------------------------------
(* The invariant                                                           *)

\* Run() before its first select; the heart thread sleeps.
LEMMA HeartInit == Init => IInv
  BY HeartFacts
  DEF Init, IInv, TypeOK, ListenWatched, CountBounded, RecvSafe, MainHolds, HeartHolds,
      BacklogMade

\* The clients add input, connections and resets, and touch nothing of the threads.
LEMMA HeartClients == IInv /\ Clients => IInv'
  <1> SUFFICES ASSUME IInv, Clients PROVE IInv'
    OBVIOUS
  <1> USE HeartFacts DEF IInv, mapVars, mainVars, heartVars
  <1>1. CASE Connect
    BY <1>1 DEF Connect, TypeOK, ListenWatched, CountBounded, RecvSafe, MainHolds, HeartHolds,
          BacklogMade
  <1>4. CASE Abort
    <2>1. backlog' \in Nat /\ backlog' <= conns'
      BY <1>4 DEF Abort, TypeOK, BacklogMade
    <2>2. UNCHANGED <<conns, open, inbox, fin, sent, missed, mapVars, master, max_fd, mainVars, heartVars>>
      BY <1>4 DEF Abort
    <2> QED
      BY <2>1, <2>2 DEF TypeOK, ListenWatched, CountBounded, RecvSafe, MainHolds, HeartHolds,
            BacklogMade
  <1>2. ASSUME NEW f \in Fd, SendHeart(f) PROVE IInv'
    <2>1. TypeOK'
      BY <1>2 DEF SendHeart, TypeOK
    <2>2. \A g \in Fd : inbox'[g] >= inbox[g]
      BY <1>2 DEF SendHeart, TypeOK
    <2>3. RecvSafe'
      BY <1>2, <2>2 DEF SendHeart, TypeOK, RecvSafe
    <2> QED
      BY <1>2, <2>1, <2>3
      DEF SendHeart, ListenWatched, CountBounded, MainHolds, HeartHolds, BacklogMade
  <1>3. ASSUME NEW f \in Fd, Leave(f) PROVE IInv'
    <2>1. TypeOK'
      BY <1>3 DEF Leave, TypeOK
    <2>2. \A g \in Fd : fin[g] => fin'[g]
      BY <1>3 DEF Leave, TypeOK
    <2>3. RecvSafe'
      BY <1>3, <2>2 DEF Leave, TypeOK, RecvSafe
    <2> QED
      BY <1>3, <2>1, <2>3
      DEF Leave, ListenWatched, CountBounded, MainHolds, HeartHolds, BacklogMade
  <1> QED
    BY <1>1, <1>2, <1>3, <1>4 DEF Clients

\* exit() leaves the threads nowhere and no socket open.
LEMMA HeartExit == IInv /\ ExitProcess => IInv'
  BY HeartFacts
  DEF IInv, ExitProcess, Goto, mapVars, TypeOK, ListenWatched, CountBounded, RecvSafe,
      MainHolds, HeartHolds, BacklogMade

\* select: what it returns is readable.
LEMMA HeartSelect ==
    IInv /\ (Copy \/ SelectCall \/ SelectReturn \/ SelectTimeout) => IInv'
  <1> SUFFICES ASSUME IInv, Copy \/ SelectCall \/ SelectReturn \/ SelectTimeout PROVE IInv'
    OBVIOUS
  <1> USE HeartFacts DEF IInv, Goto
  <1>1. /\ UNCHANGED <<netVars, mapVars, master, max_fd, mfd, mword, heartVars>>
        /\ working' \in SUBSET (Fd \cup {LISTEN_FD})
    BY DEF Copy, SelectCall, SelectReturn, SelectTimeout, Asked, Ready, TypeOK
  <1>2. TypeOK' /\ ListenWatched' /\ CountBounded' /\ HeartHolds' /\ BacklogMade'
    BY <1>1 DEF netVars, mapVars, heartVars, TypeOK, ListenWatched, CountBounded, HeartHolds,
          BacklogMade
  <1>3. mpc' \in {"select", "blocked", "accept", "recv", "copy"}
    BY DEF Copy, SelectCall, SelectReturn, SelectTimeout
  <1>5. MainHolds'
    BY <1>1, <1>3 DEF MainHolds, netVars
  <1>6. mpc' = "recv" => \A f \in working' : f \notin open \/ inbox[f] > 0 \/ fin[f]
    BY DEF Copy, SelectCall, SelectReturn, SelectTimeout, Ready
  <1>7. RecvSafe'
    BY <1>1, <1>3, <1>6 DEF RecvSafe, netVars
  <1> QED
    BY <1>2, <1>5, <1>7

\* accept returns a free descriptor; Recv is not under way.
LEMMA HeartAccept == IInv /\ AcceptCall => IInv'
  <1> SUFFICES ASSUME IInv, AcceptCall PROVE IInv'
    OBVIOUS
  <1> USE HeartFacts DEF IInv, Goto, mapVars, heartVars
  <1> DEFINE f == Least(Fd \ open)
  <1>1. f \in Fd
    BY LeastFd DEF AcceptCall
  <1>2. /\ mpc = "accept" /\ mpc' = "insert" /\ mfd' = f /\ backlog > 0
        /\ open' = open \cup {f}
        /\ inbox' = [inbox EXCEPT ![f] = 0]
        /\ fin' = [fin EXCEPT ![f] = FALSE]
        /\ sent' = [sent EXCEPT ![f] = 0]
        /\ missed' = [missed EXCEPT ![f] = 0]
        /\ backlog' = backlog - 1
        /\ UNCHANGED <<conns, entry, count, master, max_fd, working, mword, hpc, it, hword, hint>>
    BY DEF AcceptCall
  <1> HIDE DEF f
  <1>3. TypeOK'
    BY <1>1, <1>2 DEF TypeOK, MainHolds
  <1>4. RecvSafe' /\ MainHolds' /\ HeartHolds' /\ BacklogMade'
    BY <1>1, <1>2 DEF RecvSafe, MainHolds, HeartHolds, BacklogMade, TypeOK
  <1>5. ListenWatched' /\ CountBounded'
    BY <1>2 DEF ListenWatched, CountBounded
  <1> QED
    BY <1>3, <1>4, <1>5

\* The rest of Accept: mmap.insert, FD_SET as a load and a store, max_fd.
LEMMA HeartInsert == IInv /\ (MapInsert \/ FdSetLoad \/ FdSetStore \/ RaiseMax) => IInv'
  <1> SUFFICES ASSUME IInv, MapInsert \/ FdSetLoad \/ FdSetStore \/ RaiseMax PROVE IInv'
    OBVIOUS
  <1> USE HeartFacts DEF IInv, Goto, netVars, mapVars, heartVars
  <1>1. CASE MapInsert
    <2>1. mfd \in Fd
      BY <1>1 DEF MapInsert, MainHolds
    <2>2. TypeOK'
      BY <1>1, <2>1 DEF MapInsert, TypeOK
    <2>3. CountBounded'
      BY <1>1, <2>1 DEF MapInsert, CountBounded, TypeOK
    <2> QED
      BY <1>1, <2>1, <2>2, <2>3
      DEF MapInsert, ListenWatched, RecvSafe, MainHolds, HeartHolds, BacklogMade
  <1>2. CASE FdSetLoad
    BY <1>2 DEF FdSetLoad, TypeOK, ListenWatched, CountBounded, RecvSafe, MainHolds, HeartHolds,
          BacklogMade
  <1>3. CASE FdSetStore
    BY <1>3 DEF FdSetStore, TypeOK, ListenWatched, CountBounded, RecvSafe, MainHolds, HeartHolds,
          BacklogMade
  <1>4. CASE RaiseMax
    BY <1>4 DEF RaiseMax, TypeOK, ListenWatched, CountBounded, RecvSafe, MainHolds, HeartHolds,
          BacklogMade
  <1> QED
    BY <1>1, <1>2, <1>3, <1>4

(* Recv: the descriptor it visits leaves the working set, the others stay  *)
(* readable.                                                               *)
LEMMA HeartRecv ==
    IInv /\ ((\E f \in Fd : RecvBeat(f) \/ RecvNothing(f)) \/ ResetCount \/ RecvDone) => IInv'
  <1> SUFFICES ASSUME IInv,
                      (\E f \in Fd : RecvBeat(f) \/ RecvNothing(f)) \/ ResetCount \/ RecvDone
               PROVE  IInv'
    OBVIOUS
  <1> USE HeartFacts DEF IInv, Goto, netVars, mapVars, heartVars
  <1>1. ASSUME NEW f \in Fd, RecvBeat(f) PROVE IInv'
    <2>1. TypeOK'
      BY <1>1 DEF RecvBeat, TypeOK
    <2>2. /\ mpc = "recv" /\ working' = working \ {f} /\ open' = open /\ fin' = fin
          /\ \A g \in Fd \ {f} : inbox'[g] = inbox[g]
      BY <1>1 DEF RecvBeat, Visits, TypeOK
    <2>3. RecvSafe'
      BY <2>2 DEF RecvSafe, TypeOK
    <2> QED
      BY <1>1, <2>1, <2>3
      DEF RecvBeat, ListenWatched, CountBounded, MainHolds, HeartHolds, BacklogMade
  <1>2. ASSUME NEW f \in Fd, RecvNothing(f) PROVE IInv'
    BY <1>2 DEF RecvNothing, Visits, TypeOK, ListenWatched, CountBounded, RecvSafe, MainHolds,
          HeartHolds, BacklogMade
  <1>3. CASE ResetCount
    <2>1. mfd \in Fd
      BY <1>3 DEF ResetCount, MainHolds
    <2>2. TypeOK'
      BY <1>3, <2>1 DEF ResetCount, TypeOK
    <2>3. CountBounded'
      BY <1>3, <2>1 DEF ResetCount, CountBounded, TypeOK
    <2> QED
      BY <1>3, <2>2, <2>3
      DEF ResetCount, ListenWatched, RecvSafe, MainHolds, HeartHolds, BacklogMade
  <1>4. CASE RecvDone
    BY <1>4 DEF RecvDone, TypeOK, ListenWatched, CountBounded, RecvSafe, MainHolds, HeartHolds,
          BacklogMade
  <1> QED
    BY <1>1, <1>2, <1>3, <1>4

(* heart_handler walks over mmap: it counts, and its store may undo a      *)
(* reset but never lifts a count above OFFLINE.                            *)
LEMMA HeartSweep == IInv /\ (SweepBegin \/ SweepEnd \/ Check \/ CountStore \/ MapErase) => IInv'
  <1> SUFFICES ASSUME IInv, SweepBegin \/ SweepEnd \/ Check \/ CountStore \/ MapErase
               PROVE  IInv'
    OBVIOUS
  <1> USE HeartFacts DEF IInv, HGoto, netVars, mapVars, mainVars
  <1>0. \A k : After(k) \in Fd \cup {END}
    BY AfterEntry
  <1>1. CASE SweepBegin
    BY <1>0, <1>1 DEF SweepBegin, TypeOK, ListenWatched, CountBounded, RecvSafe, MainHolds,
          HeartHolds, BacklogMade
  <1>2. CASE SweepEnd
    BY <1>2 DEF SweepEnd, TypeOK, ListenWatched, CountBounded, RecvSafe, MainHolds,
          HeartHolds, BacklogMade
  <1>3. CASE Check
    <2>1. it \in Fd /\ count[it] \in Nat
      BY <1>3 DEF Check, TypeOK
    <2>2. /\ it' \in Fd \cup {END} /\ hint' \in Nat
          /\ hpc' \in {"close", "count", "visit"}
          /\ hpc' # "visit" => it' = it
          /\ hpc' = "count" => hint' < OFFLINE
      BY <1>0, <1>3, <2>1 DEF Check
    <2>3. TypeOK' /\ HeartHolds'
      BY <1>3, <2>1, <2>2 DEF Check, TypeOK, HeartHolds
    <2> QED
      BY <1>3, <2>3
      DEF Check, ListenWatched, CountBounded, RecvSafe, MainHolds, BacklogMade
  <1>4. CASE CountStore
    <2>1. it \in Fd /\ hint + 1 \in Nat /\ hint + 1 <= OFFLINE
      BY <1>4 DEF CountStore, HeartHolds, TypeOK
    <2>2. TypeOK'
      BY <1>0, <1>4, <2>1 DEF CountStore, TypeOK
    <2>3. CountBounded'
      BY <1>4, <2>1 DEF CountStore, CountBounded, TypeOK
    <2> QED
      BY <1>4, <2>2, <2>3
      DEF CountStore, ListenWatched, RecvSafe, MainHolds, HeartHolds, BacklogMade
  <1>5. CASE MapErase
    <2>1. it \in Fd
      BY <1>5 DEF MapErase, HeartHolds
    <2>2. TypeOK'
      BY <1>0, <1>5, <2>1 DEF MapErase, TypeOK
    <2>3. CountBounded'
      BY <1>5, <2>1 DEF MapErase, CountBounded, TypeOK
    <2> QED
      BY <1>5, <2>2, <2>3
      DEF MapErase, ListenWatched, RecvSafe, MainHolds, HeartHolds, BacklogMade
  <1> QED
    BY <1>1, <1>2, <1>3, <1>4, <1>5

(* heart_handler closes a client: the descriptor may be in Recv's hands,   *)
(* and a word that FD_SET has loaded may be overwritten by FD_CLR's, but   *)
(* both have the bit of the listening socket.                              *)
LEMMA HeartClose ==
    IInv /\ (CloseConn \/ FdClrLoad \/ FdClrStore \/ TestMax \/ WhileTest \/ LowerMax) => IInv'
  <1> SUFFICES ASSUME IInv,
                      CloseConn \/ FdClrLoad \/ FdClrStore \/ TestMax \/ WhileTest \/ LowerMax
               PROVE  IInv'
    OBVIOUS
  <1> USE HeartFacts DEF IInv, HGoto, netVars, mapVars, mainVars
  <1>1. CASE CloseConn
    <2>1. it \in Fd
      BY <1>1 DEF CloseConn, HeartHolds
    <2>2. TypeOK'
      BY <1>1, <2>1 DEF CloseConn, TypeOK
    <2>3. /\ open' = open \ {it}
          /\ \A g \in Fd \ {it} : inbox'[g] = inbox[g] /\ (fin'[g] <=> fin[g])
      BY <1>1, <2>1 DEF CloseConn, TypeOK
    <2>4. RecvSafe'
      BY <1>1, <2>3 DEF CloseConn, RecvSafe, TypeOK
    <2> QED
      BY <1>1, <2>2, <2>4
      DEF CloseConn, ListenWatched, CountBounded, MainHolds, HeartHolds, BacklogMade
  <1>2. CASE FdClrLoad
    BY <1>2 DEF FdClrLoad, TypeOK, ListenWatched, CountBounded, RecvSafe, MainHolds, HeartHolds,
          BacklogMade
  <1>3. CASE FdClrStore
    BY <1>3 DEF FdClrStore, TypeOK, ListenWatched, CountBounded, RecvSafe, MainHolds, HeartHolds,
          BacklogMade
  <1>4. CASE TestMax
    BY <1>4 DEF TestMax, TypeOK, ListenWatched, CountBounded, RecvSafe, MainHolds, HeartHolds,
          BacklogMade
  <1>5. CASE WhileTest
    BY <1>5 DEF WhileTest, TypeOK, ListenWatched, CountBounded, RecvSafe, MainHolds, HeartHolds,
          BacklogMade
  <1>6. CASE LowerMax
    BY <1>6 DEF LowerMax, TypeOK, ListenWatched, CountBounded, RecvSafe, MainHolds, HeartHolds,
          BacklogMade
  <1> QED
    BY <1>1, <1>2, <1>3, <1>4, <1>5, <1>6

\* IInv is inductive.
LEMMA HeartStep == IInv /\ [Next]_vars => IInv'
  <1>1. ASSUME IInv, UNCHANGED vars PROVE IInv'
    BY <1>1 DEF vars, netVars, mapVars, mainVars, heartVars, IInv, TypeOK, ListenWatched,
          CountBounded, RecvSafe, MainHolds, HeartHolds, BacklogMade
  <1>2. ASSUME IInv, Main PROVE IInv'
    BY <1>2, HeartSelect, HeartExit, HeartAccept, HeartInsert, HeartRecv
    DEF Main, SelectError, AcceptError
  <1>3. ASSUME IInv, Heart PROVE IInv'
    BY <1>3, HeartSweep, HeartClose DEF Heart
  <1> QED
    BY <1>1, <1>2, <1>3, HeartClients DEF Next, Exited

-----------------------------------------------------------------------------
(* The theorems                                                            *)

\* The variables of both threads keep their types under every interleaving.
THEOREM HeartTyped == Spec => []TypeOK
  <1>1. IInv => TypeOK
    BY DEF IInv
  <1> QED
    BY <1>1, HeartInit, HeartStep, PTL DEF Spec

(* The main thread never stops selecting on the listening socket, whatever *)
(* updates of master_set and max_fd the races lose.                        *)
THEOREM ListenNeverLost == Spec => []ListenWatched
  <1>1. IInv => ListenWatched
    BY DEF IInv
  <1> QED
    BY <1>1, HeartInit, HeartStep, PTL DEF Spec

(* No count passes OFFLINE, so the equality test of heart_handler cannot   *)
(* be jumped over.                                                         *)
THEOREM CountNeverPasses == Spec => []CountBounded
  <1>1. IInv => CountBounded
    BY DEF IInv
  <1> QED
    BY <1>1, HeartInit, HeartStep, PTL DEF Spec

(* recv is never called on an open and silent connection: the thread that  *)
(* alone accepts does not block, although the other thread closes          *)
(* descriptors under it.                                                   *)
THEOREM MainNeverBlocks == Spec => []RecvNeverBlocks
  <1>1. IInv => RecvNeverBlocks
    BY DEF IInv, RecvSafe, RecvNeverBlocks
  <1> QED
    BY <1>1, HeartInit, HeartStep, PTL DEF Spec

=============================================================================
