------------------------------- MODULE LstTimer -------------------------------
(***************************************************************************)
(* sort_timer_lst of src/time_wheel/lst_timer.hpp: a doubly linked list of *)
(* util_timer objects in ascending order of expire, at the level of its    *)
(* pointers.                                                               *)
(*                                                                         *)
(* Every public operation is an action; tick() is a loop whose iterations  *)
(* are actions.  In that loop the local tmp always equals head, so it is   *)
(* not a variable.  A deleted object's fields read NULL and 0; pointers to *)
(* it that the code leaves behind (tail, after tick() empties the list)    *)
(* are left behind here too.  The calls with a null argument return at     *)
(* once and are left out.                                                  *)
(***************************************************************************)
EXTENDS Integers, FiniteSets

CONSTANTS
    Timer,    \* util_timer objects the allocator can hand out
    NULL,
    Delays,   \* expire - now of the timers callers add and adjust
    MAX_TIME  \* bound on the clock

ASSUME ListAssumption ==
    /\ NULL \notin Timer
    /\ Delays \subseteq Nat
    /\ MAX_TIME \in Nat

VARIABLES
    head, tail,  \* the list's ends
    prev, next,  \* the pointers of each object
    expire,      \* util_timer::expire
    live,        \* objects that exist
    cur,         \* tick()'s local cur, NoTick outside tick()
    now          \* time(NULL)

vars == <<head, tail, prev, next, expire, live, cur, now>>

NoTick == -1

Init ==
    /\ head = NULL /\ tail = NULL
    /\ prev = [t \in Timer |-> NULL]
    /\ next = [t \in Timer |-> NULL]
    /\ expire = [t \in Timer |-> 0]
    /\ live = {}
    /\ cur = NoTick
    /\ now = 0

-----------------------------------------------------------------------------
(* The private add_timer: starting behind lst_head, find the first element *)
(* that expires later than e, and link t in front of it.                   *)

\* Seeded fault: the loop stops at the first element that expires earlier.
PredecessorReversed(e, lst_head, nxt) ==
    LET walk[p \in Timer] ==
            IF nxt[p] = NULL THEN p
            ELSE IF e > expire[nxt[p]] THEN p ELSE walk[nxt[p]]
    IN  walk[lst_head]

\* The local prev of the loop when it ends.
Predecessor(e, lst_head, nxt) ==
    LET walk[p \in Timer] ==
            IF nxt[p] = NULL THEN p
            ELSE IF e < expire[nxt[p]] THEN p ELSE walk[nxt[p]]
    IN  walk[lst_head]

LinkAfter(t, p, nxt, prv) ==
    /\ next' = [nxt EXCEPT ![p] = t, ![t] = nxt[p]]
    /\ prev' = [u \in Timer |-> IF u = t THEN p ELSE IF u = nxt[p] THEN t ELSE prv[u]]
    /\ tail' = IF nxt[p] = NULL THEN t ELSE tail

InsertFrom(t, e, lst_head, nxt, prv) ==
    /\ LinkAfter(t, Predecessor(e, lst_head, nxt), nxt, prv)
    /\ expire' = [expire EXCEPT ![t] = e]

-----------------------------------------------------------------------------
(* add_timer                                                               *)

AddFirst(t) ==
    /\ head = NULL
    /\ head' = t /\ tail' = t
    /\ UNCHANGED <<prev, next>>

AddFront(t, e) ==
    /\ head # NULL
    /\ e < expire[head]
    /\ next' = [next EXCEPT ![t] = head]
    /\ prev' = [prev EXCEPT ![head] = t]
    /\ head' = t
    /\ UNCHANGED tail

AddBehind(t, e) ==
    /\ head # NULL
    /\ e >= expire[head]
    /\ LinkAfter(t, Predecessor(e, head, next), next, prev)
    /\ UNCHANGED head

AddTimer(t, e) ==
    /\ cur = NoTick
    /\ t \notin live
    /\ live' = live \cup {t}
    /\ expire' = [expire EXCEPT ![t] = e]
    /\ AddFirst(t) \/ AddFront(t, e) \/ AddBehind(t, e)
    /\ UNCHANGED <<cur, now>>

-----------------------------------------------------------------------------
(* adjust_timer.  The caller has set expire to e; the function only ever   *)
(* looks towards the tail, so e must not be earlier than before.           *)

AdjustStays(t, e) ==
    /\ IF next[t] = NULL THEN TRUE ELSE e < expire[next[t]]
    /\ expire' = [expire EXCEPT ![t] = e]
    /\ UNCHANGED <<head, tail, prev, next>>

Overtakes(t, e) == IF next[t] = NULL THEN FALSE ELSE e >= expire[next[t]]

AdjustHead(t, e) ==
    /\ Overtakes(t, e)
    /\ t = head
    /\ head' = next[t]
    /\ InsertFrom(t, e, next[t], [next EXCEPT ![t] = NULL], [prev EXCEPT ![next[t]] = NULL])

AdjustInner(t, e) ==
    /\ Overtakes(t, e)
    /\ t # head
    /\ InsertFrom(t, e, next[t], [next EXCEPT ![prev[t]] = next[t]],
                                 [prev EXCEPT ![next[t]] = prev[t]])
    /\ UNCHANGED head

AdjustTimer(t, e) ==
    /\ cur = NoTick
    /\ t \in live
    /\ e >= expire[t]
    /\ AdjustStays(t, e) \/ AdjustHead(t, e) \/ AdjustInner(t, e)
    /\ UNCHANGED <<live, cur, now>>

-----------------------------------------------------------------------------
\* The object t is deleted; nxt and prv are the pointers after unlinking it.
Free(t, nxt, prv) ==
    /\ next' = [nxt EXCEPT ![t] = NULL]
    /\ prev' = [prv EXCEPT ![t] = NULL]
    /\ expire' = [expire EXCEPT ![t] = 0]
    /\ live' = live \ {t}

DelOnly(t) ==
    /\ t = head /\ t = tail
    /\ head' = NULL /\ tail' = NULL
    /\ Free(t, next, prev)

DelHead(t) ==
    /\ t = head /\ t # tail
    /\ head' = next[t]
    /\ UNCHANGED tail
    /\ Free(t, next, [prev EXCEPT ![next[t]] = NULL])

DelTail(t) ==
    /\ t # head /\ t = tail
    /\ tail' = prev[t]
    /\ UNCHANGED head
    /\ Free(t, [next EXCEPT ![prev[t]] = NULL], prev)

DelInner(t) ==
    /\ t # head /\ t # tail
    /\ UNCHANGED <<head, tail>>
    /\ Free(t, [next EXCEPT ![prev[t]] = next[t]], [prev EXCEPT ![next[t]] = prev[t]])

DelTimer(t) ==
    /\ cur = NoTick
    /\ t \in live
    /\ DelOnly(t) \/ DelHead(t) \/ DelTail(t) \/ DelInner(t)
    /\ UNCHANGED <<cur, now>>

-----------------------------------------------------------------------------
(* tick()                                                                  *)

\* The clock is read once; an empty list ends the call.
TickBegin ==
    /\ cur = NoTick
    /\ head # NULL
    /\ cur' = now
    /\ UNCHANGED <<head, tail, prev, next, expire, live, now>>

\* Seeded fault: the loop also fires the timer that is next to expire.
HeadDueEarly == head # NULL /\ cur >= expire[head] - 1

HeadDue == head # NULL /\ cur >= expire[head]

\* The head has expired: callback, unlink (tail is not touched), delete.
TickFire ==
    /\ cur # NoTick
    /\ HeadDue
    /\ head' = next[head]
    /\ Free(head, next,
            IF next[head] = NULL THEN prev ELSE [prev EXCEPT ![next[head]] = NULL])
    /\ UNCHANGED <<tail, cur, now>>

TickEnd ==
    /\ cur # NoTick
    /\ ~HeadDue
    /\ cur' = NoTick
    /\ UNCHANGED <<head, tail, prev, next, expire, live, now>>

\* ~sort_timer_lst: the objects go, head ends NULL.  What follows is the life
\* of the next list.
Destroy ==
    /\ cur = NoTick
    /\ head' = NULL
    /\ live' = {}
    /\ next' = [t \in Timer |-> NULL]
    /\ prev' = [t \in Timer |-> NULL]
    /\ expire' = [t \in Timer |-> 0]
    /\ UNCHANGED <<tail, cur, now>>

Clock ==
    /\ now < MAX_TIME
    /\ now' = now + 1
    /\ UNCHANGED <<head, tail, prev, next, expire, live, cur>>

Next ==
    \/ \E t \in Timer, d \in Delays : AddTimer(t, now + d) \/ AdjustTimer(t, now + d)
    \/ \E t \in Timer : DelTimer(t)
    \/ TickBegin \/ TickFire \/ TickEnd
    \/ Destroy
    \/ Clock

Spec == Init /\ [][Next]_vars

-----------------------------------------------------------------------------
(* Properties                                                              *)

\* The type of every variable of the list.
TypeOK ==
    /\ head \in Timer \cup {NULL} /\ tail \in Timer \cup {NULL}
    /\ prev \in [Timer -> Timer \cup {NULL}]
    /\ next \in [Timer -> Timer \cup {NULL}]
    /\ expire \in [Timer -> Nat]
    /\ live \in SUBSET Timer
    /\ cur \in NoTick .. now
    /\ now \in 0 .. MAX_TIME

\* l enumerates the list from head to tail, prev and next agree with it.
Enumerates(l, n) ==
    /\ \A i, j \in 1 .. n : l[i] = l[j] => i = j
    /\ head = l[1] /\ tail = l[n]
    /\ prev[head] = NULL /\ next[tail] = NULL
    /\ \A i \in 1 .. n - 1 : next[l[i]] = l[i + 1] /\ prev[l[i + 1]] = l[i]

(* Whatever sequence of add, adjust, delete and tick was called, the       *)
(* objects that exist form one doubly linked list from head to tail in     *)
(* ascending order of expire: none is lost, no pointer in the list leads   *)
(* to a deleted object, and tick() may stop at the first unexpired one.    *)
SortedList ==
    IF live = {} THEN head = NULL
    ELSE LET n == Cardinality(live)
         IN  \E l \in [1 .. n -> live] :
                /\ Enumerates(l, n)
                /\ \A i \in 1 .. n - 1 : expire[l[i]] <= expire[l[i + 1]]

(* The list's structure in every state, with the types of its fields; what *)
(* tick() has compared against, cur, never lies in the future.             *)
ListInv == TypeOK /\ SortedList

Queue == INSTANCE TimerQueue WITH
    pending <- live,
    ttl     <- [t \in Timer |-> IF expire[t] > now THEN expire[t] - now ELSE 0],
    ticking <- cur # NoTick,
    firing  <- IF cur = NoTick THEN {} ELSE {t \in live : expire[t] <= cur}

(* The list implements the queue: tick() runs the callback of exactly the  *)
(* timers that were due when it read the clock.                            *)
ImplementsQueue == Queue!Spec

=============================================================================
