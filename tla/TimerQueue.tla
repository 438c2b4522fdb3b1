------------------------------ MODULE TimerQueue ------------------------------
(***************************************************************************)
(* What sort_timer_lst (src/time_wheel/lst_timer.hpp) promises its user,   *)
(* without its list: a set of timers, each with the time it still has, and *)
(* a tick() that runs the callback of every timer that is due when tick()  *)
(* starts and of no other.                                                 *)
(*                                                                         *)
(* Time is relative, so that a server built on this module needs no clock: *)
(* ttl counts down to 0 and stays there.                                   *)
(***************************************************************************)
EXTENDS Integers

CONSTANTS
    Timer,   \* util_timer objects
    Delays   \* the distances from now at which timers are set

VARIABLES
    pending,  \* timers in the container
    ttl,      \* time left of each pending timer, 0 when due
    ticking,  \* tick() is running
    firing    \* timers that were due when tick() started and still have to fire

queueVars == <<pending, ttl, ticking, firing>>

Init ==
    /\ pending = {}
    /\ ttl = [t \in Timer |-> 0]
    /\ ticking = FALSE
    /\ firing = {}

Add(t, d) ==
    /\ ~ticking /\ t \notin pending
    /\ pending' = pending \cup {t}
    /\ ttl' = [ttl EXCEPT ![t] = d]
    /\ UNCHANGED <<ticking, firing>>

\* A timer is only ever moved to a later time.
Adjust(t, d) ==
    /\ ~ticking /\ t \in pending /\ d >= ttl[t]
    /\ ttl' = [ttl EXCEPT ![t] = d]
    /\ UNCHANGED <<pending, ticking, firing>>

Remove(t) ==
    /\ pending' = pending \ {t}
    /\ ttl' = [ttl EXCEPT ![t] = 0]

Del(t) ==
    /\ ~ticking /\ t \in pending
    /\ Remove(t)
    /\ UNCHANGED <<ticking, firing>>

\* One unit of time passes.
Elapse ==
    /\ ttl' = [t \in Timer |-> IF ttl[t] = 0 THEN 0 ELSE ttl[t] - 1]
    /\ UNCHANGED <<pending, ticking, firing>>

TickBegin ==
    /\ ~ticking
    /\ ticking' = TRUE
    /\ firing' = {t \in pending : ttl[t] = 0}
    /\ UNCHANGED <<pending, ttl>>

\* The callback of t runs and t is deleted.
Fire(t) ==
    /\ ticking /\ t \in firing
    /\ firing' = firing \ {t}
    /\ Remove(t)
    /\ UNCHANGED ticking

TickEnd ==
    /\ ticking /\ firing = {}
    /\ ticking' = FALSE
    /\ UNCHANGED <<pending, ttl, firing>>

\* The container is destroyed with the timers in it.
Destroy ==
    /\ ~ticking
    /\ pending' = {}
    /\ ttl' = [t \in Timer |-> 0]
    /\ UNCHANGED <<ticking, firing>>

Next ==
    \/ \E t \in Timer, d \in Delays : Add(t, d) \/ Adjust(t, d)
    \/ \E t \in Timer : Del(t) \/ Fire(t)
    \/ Elapse \/ TickBegin \/ TickEnd \/ Destroy

Spec == Init /\ [][Next]_queueVars

=============================================================================
