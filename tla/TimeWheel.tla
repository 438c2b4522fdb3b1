------------------------------ MODULE TimeWheel ------------------------------
(***************************************************************************)
(* TWTimerContainer, the timing wheel of src/timer/time_wheel_timer.hpp.   *)
(*                                                                         *)
(* A wheel of SLOTS_NUM slots, each a std::list of TimerNodes.  A timer    *)
(* set to k ticks goes into the slot k places ahead, with as many full     *)
(* turns to skip (rotation) as k needs.  tick() scans the list of the      *)
(* current slot and moves on to the next slot.                             *)
(*                                                                         *)
(* tick() is a loop over a list it erases from, so each iteration is an    *)
(* action: itr is the position of the iterator in the list of the current  *)
(* slot, one past the last position being end().  The container is not     *)
(* thread safe and its callbacks do not call it back, so every other       *)
(* operation waits for phase "idle".                                       *)
(*                                                                         *)
(* A slot whose list pointer is still nullptr is an empty list: tick and   *)
(* add_timer treat the two alike, and del_timer meets nullptr only for a   *)
(* timer that was never added.                                             *)
(***************************************************************************)
EXTENDS Integers, Sequences

CONSTANTS
    Timer,      \* TimerNode objects the allocator can hand out
    SLOTS_NUM,  \* _SLOTS_NUM, 600 in the source
    SI,         \* _SI, milliseconds per slot, 100 in the source
    Timeouts    \* the timeout arguments, in milliseconds, callers pass

ASSUME WheelAssumption ==
    /\ SLOTS_NUM \in Nat /\ SLOTS_NUM >= 2
    /\ SI \in Nat \ {0}
    /\ Timeouts \subseteq Int

VARIABLES
    slots,      \* _slots: the list of timers of each slot
    cur_slot,   \* _cur_slot: the slot the next tick scans
    time_slot,  \* TimerNode::_time_slot
    rotation,   \* TimerNode::_rotation
    armed,      \* the TimerNodes that exist (added, neither fired nor deleted)
    phase,      \* "idle", "tick" while tick() runs, "gone" after the destructor
    itr,        \* position of tick()'s iterator, 0 outside tick()
    left,       \* auxiliary: ticks still to complete before the timer is due
    shared,     \* auxiliary: timers that ever had company in their slot
    long        \* auxiliary: timers that were set to a full turn or more

wheelVars == <<slots, cur_slot, time_slot, rotation, armed, phase, itr, left, shared, long>>

Slot == 0 .. SLOTS_NUM - 1

-----------------------------------------------------------------------------
(* Lists.  A timer occurs at most once in a list (WheelOK), so             *)
(* std::list::remove erases one element.                                   *)

\* std::list::erase at position i.
Erase(s, i) == [j \in 1 .. Len(s) - 1 |-> IF j < i THEN s[j] ELSE s[j + 1]]

Occurs(s, t) == \E i \in DOMAIN s : s[i] = t

\* std::list::remove of t.
RemoveFrom(s, t) ==
    IF Occurs(s, t) THEN Erase(s, CHOOSE i \in DOMAIN s : s[i] = t) ELSE s

ListSet(s) == {s[i] : i \in DOMAIN s}

-----------------------------------------------------------------------------
Init ==
    /\ slots = [s \in Slot |-> <<>>]
    /\ cur_slot = 1
    /\ time_slot = [t \in Timer |-> 0]
    /\ rotation = [t \in Timer |-> 0]
    /\ armed = {}
    /\ phase = "idle"
    /\ itr = 0
    /\ left = [t \in Timer |-> 0]
    /\ shared = {}
    /\ long = {}

\* Slots a timeout has to pass: at least one, otherwise rounded down.
Ticks(timeout) == IF timeout < SI THEN 1 ELSE timeout \div SI

\* Seeded fault: the slot is counted from the slot after the current one.
TargetSlotOffByOne(ticks) == (cur_slot + 1 + (ticks % SLOTS_NUM)) % SLOTS_NUM

TargetSlot(ticks) == (cur_slot + (ticks % SLOTS_NUM)) % SLOTS_NUM

\* add_timer: put t, which no list of `lists' holds, into its slot.
Insert(t, timeout, lists) ==
    LET ticks == Ticks(timeout)
        ts    == TargetSlot(ticks)
    IN  /\ rotation' = [rotation EXCEPT ![t] = ticks \div SLOTS_NUM]
        /\ time_slot' = [time_slot EXCEPT ![t] = ts]
        /\ slots' = [lists EXCEPT ![ts] = Append(@, t)]
        /\ left' = [left EXCEPT ![t] = ticks]
        /\ shared' = IF lists[ts] = <<>>
                     THEN shared \ {t}
                     ELSE shared \cup {t} \cup ListSet(lists[ts])
        /\ long' = IF ticks >= SLOTS_NUM THEN long \cup {t} ELSE long \ {t}

\* del_timer: take t out of the list of its slot.
Unlink(t) == [slots EXCEPT ![time_slot[t]] = RemoveFrom(@, t)]

AddTimer(t, timeout) ==
    /\ phase = "idle"
    /\ t \notin armed
    /\ Insert(t, timeout, slots)
    /\ armed' = armed \cup {t}
    /\ UNCHANGED <<cur_slot, phase, itr>>

\* delete of the nodes in T; the fields of a deleted node read 0.
Free(T) ==
    /\ armed' = armed \ T
    /\ shared' = shared \ T
    /\ long' = long \ T
    /\ time_slot' = [t \in Timer |-> IF t \in T THEN 0 ELSE time_slot[t]]
    /\ rotation' = [t \in Timer |-> IF t \in T THEN 0 ELSE rotation[t]]
    /\ left' = [t \in Timer |-> IF t \in T THEN 0 ELSE left[t]]

\* Seeded fault: the node is freed but stays in its list.
DelTimerWithoutUnlink(t) ==
    /\ phase = "idle"
    /\ t \in armed
    /\ Free({t})
    /\ UNCHANGED <<slots, cur_slot, phase, itr>>

DelTimer(t) ==
    /\ phase = "idle"
    /\ t \in armed
    /\ slots' = Unlink(t)
    /\ Free({t})
    /\ UNCHANGED <<cur_slot, phase, itr>>

ResetTimer(t, timeout) ==
    /\ phase = "idle"
    /\ t \in armed
    /\ Insert(t, timeout, Unlink(t))
    /\ UNCHANGED <<cur_slot, armed, phase, itr>>

-----------------------------------------------------------------------------
(* tick()                                                                  *)

TickBegin ==
    /\ phase = "idle"
    /\ phase' = "tick"
    /\ itr' = 1
    /\ UNCHANGED <<slots, cur_slot, time_slot, rotation, armed, left, shared, long>>

\* The timer the iterator stands on.
AtIterator(t) ==
    /\ phase = "tick"
    /\ itr \in DOMAIN slots[cur_slot]
    /\ slots[cur_slot][itr] = t

\* Seeded fault: the turns left are not looked at.
TickSkipUnguarded(t) ==
    /\ AtIterator(t)
    /\ rotation' = [rotation EXCEPT ![t] = @ - 1]
    /\ itr' = itr + 1
    /\ UNCHANGED <<slots, cur_slot, time_slot, armed, phase, left, shared, long>>

\* Seeded fault: the loop goes on with the same element, unchanged.
TickSkipStuck(t) ==
    /\ AtIterator(t)
    /\ rotation[t] > 0
    /\ UNCHANGED wheelVars

\* A timer with turns left loses one and the loop goes on.
TickSkip(t) ==
    /\ AtIterator(t)
    /\ rotation[t] > 0
    /\ rotation' = [rotation EXCEPT ![t] = @ - 1]
    /\ itr' = itr + 1
    /\ UNCHANGED <<slots, cur_slot, time_slot, armed, phase, left, shared, long>>

(* Where the iterator stands after the element at position i of a list     *)
(* that now has n elements was erased.  itr++ moves it to the successor    *)
(* and then the loop header's ++itr moves it once more.  When the erased   *)
(* element was the last one the second increment leaves end(); libstdc++,  *)
(* the library of the makefile's g++, links end() back to the first        *)
(* element.                                                                *)
AfterErase(i, n) == IF i = n + 1 THEN 1 ELSE i + 1

\* An expired timer: its callback runs, the node is deleted and erased.
TickExpire(t) ==
    /\ AtIterator(t)
    /\ rotation[t] <= 0
    /\ slots' = [slots EXCEPT ![cur_slot] = Erase(@, itr)]
    /\ itr' = AfterErase(itr, Len(slots[cur_slot]) - 1)
    /\ Free({t})
    /\ UNCHANGED <<cur_slot, phase>>

\* The iterator is at end(): the wheel turns by one slot.
TickEnd ==
    /\ phase = "tick"
    /\ itr = Len(slots[cur_slot]) + 1
    /\ cur_slot' = (cur_slot + 1) % SLOTS_NUM
    /\ phase' = "idle"
    /\ itr' = 0
    /\ left' = [t \in Timer |-> IF t \in armed THEN left[t] - 1 ELSE left[t]]
    /\ UNCHANGED <<slots, time_slot, rotation, armed, shared, long>>

\* ~TWTimerContainer: every node of every list is deleted.
Destroy ==
    /\ phase = "idle"
    /\ phase' = "gone"
    /\ slots' = [s \in Slot |-> <<>>]
    /\ Free(UNION {ListSet(slots[s]) : s \in Slot})
    /\ UNCHANGED <<cur_slot, itr>>

TickStep == TickEnd \/ \E t \in Timer : TickSkip(t) \/ TickExpire(t)

Gone == phase = "gone" /\ UNCHANGED wheelVars

Next ==
    \/ \E t \in Timer, timeout \in Timeouts :
          AddTimer(t, timeout) \/ ResetTimer(t, timeout)
    \/ \E t \in Timer : DelTimer(t)
    \/ TickBegin
    \/ TickStep
    \/ Destroy
    \/ Gone

Spec == Init /\ [][Next]_wheelVars

(* tick() runs to its end, and the owner of the container goes on calling  *)
(* tick().                                                                 *)
FairSpec == Spec /\ WF_wheelVars(TickStep) /\ WF_wheelVars(TickBegin)

-----------------------------------------------------------------------------
(* Properties                                                              *)

\* The type of every variable of the container.
TypeOK ==
    /\ slots \in [Slot -> Seq(Timer)]
    /\ cur_slot \in Slot
    /\ time_slot \in [Timer -> Slot]
    /\ rotation \in [Timer -> Nat]
    /\ armed \in SUBSET Timer
    /\ phase \in {"idle", "tick", "gone"}
    /\ itr \in Nat
    /\ left \in [Timer -> Int]
    /\ shared \in SUBSET armed
    /\ long \in SUBSET armed

\* A list holds only existing timers whose _time_slot names that list ...
ListsHoldArmed ==
    \A s \in Slot : \A i \in DOMAIN slots[s] :
        slots[s][i] \in armed /\ time_slot[slots[s][i]] = s

\* ... none of them twice ...
NoDuplicates ==
    \A s \in Slot : \A i, j \in DOMAIN slots[s] : slots[s][i] = slots[s][j] => i = j

\* ... and every existing timer is in the list its _time_slot names.
ArmedListed == \A t \in armed : Occurs(slots[time_slot[t]], t)

\* The iterator of tick() is on an element of the current list or at end().
IteratorValid ==
    /\ phase = "tick" => itr \in 1 .. Len(slots[cur_slot]) + 1
    /\ phase # "tick" => itr = 0

(* The lists and the nodes agree: whatever sequence of add, reset, delete  *)
(* and tick was called, del_timer finds the node it is given, tick never   *)
(* dereferences a deleted node nor walks off a list, and the container     *)
(* loses no node.                                                          *)
WheelOK == ListsHoldArmed /\ NoDuplicates /\ ArmedListed /\ IteratorValid

\* tick() is about to run the callback of t.
Expiring(t) == AtIterator(t) /\ rotation[t] = 0

(* A timer that never shared its slot expires exactly on time: its         *)
(* callback runs in the tick after the `ticks' ticks it was set to, never  *)
(* earlier, and it is never still armed after that.                        *)
LoneTimersOnTime ==
    \A t \in armed \ shared : left[t] >= 0 /\ (Expiring(t) => left[t] = 0)

(* A timer set to less than a full turn (the server's are: 150 of 600      *)
(* slots) never runs its callback before its time, however often tick()'s  *)
(* iterator skips or revisits it and whatever its neighbours are set to.   *)
(* A longer timer may: the iterator, sent back to the first element, can   *)
(* take two rotations from it in one tick.                                 *)
NeverEarly == \A t \in armed \ long : Expiring(t) => left[t] <= 0

(* No timer outlives its time: the comment of tick() says that a timer     *)
(* without rotations left has expired and its callback is run.             *)
NoTimerLate == \A t \in armed : left[t] >= 0

(* tick() returns, although an erase at the end of a list sends its        *)
(* iterator back to the beginning.                                         *)
TickTerminates == phase = "tick" ~> phase = "idle"

(* A timer that is not set again forever is fired or deleted in the end,   *)
(* however often tick()'s iterator jumps over it.                          *)
EventuallyFires ==
    \A t \in Timer :
        \/ []<>(t \notin armed)
        \/ []<><<\E timeout \in Timeouts : ResetTimer(t, timeout)>>_wheelVars

=============================================================================
