--------------------------- MODULE TimeWheelProofs ---------------------------
(***************************************************************************)
(* Proofs about TimeWheel, for any number of timers and slots, any slot    *)
(* length and any set of timeouts.                                         *)
(*                                                                         *)
(* TypeOK and WheelOK are inductive together.  The exact expiry of lone    *)
(* timers rests on a third invariant, LoneInv, that says how rotation,     *)
(* time_slot and the position of the wheel make up the ticks left.  That   *)
(* tick() ends although its iterator is sent back rests on a pair that     *)
(* falls in each of its steps.                                             *)
(***************************************************************************)
EXTENDS TimeWheel, SequenceTheorems, TLAPS

-----------------------------------------------------------------------------
(* Lists                                                                   *)

\* Erase removes the element at i and keeps the order of the others.
LEMMA EraseProperties ==
    ASSUME NEW S, NEW s \in Seq(S), NEW i \in 1 .. Len(s)
    PROVE  /\ Erase(s, i) \in Seq(S)
           /\ Len(Erase(s, i)) = Len(s) - 1
           /\ DOMAIN Erase(s, i) = 1 .. Len(s) - 1
           /\ \A j \in 1 .. Len(s) - 1 :
                 Erase(s, i)[j] = IF j < i THEN s[j] ELSE s[j + 1]
  <1> DEFINE n == Len(s) - 1
  <1>1. n \in Nat
    OBVIOUS
  <1>2. Erase(s, i) \in [1 .. n -> S]
    BY DEF Erase
  <1>3. Erase(s, i) \in Seq(S)
    BY <1>1, <1>2, SeqDef
  <1>4. DOMAIN Erase(s, i) = 1 .. n
    BY <1>2
  <1>5. Len(Erase(s, i)) = n
    BY <1>1, <1>3, <1>4, LenProperties
  <1> QED
    BY <1>3, <1>4, <1>5 DEF Erase

(* WheelOK without the iterator, for lists L, slots ts and timers A that   *)
(* need not be the current ones.                                           *)
Consistent(L, ts, A) ==
    /\ \A s \in Slot : \A i \in DOMAIN L[s] : L[s][i] \in A /\ ts[L[s][i]] = s
    /\ \A s \in Slot : \A i, j \in DOMAIN L[s] : L[s][i] = L[s][j] => i = j
    /\ \A t \in A : Occurs(L[ts[t]], t)

\* Erasing t from its list makes the lists right for the timers without t.
LEMMA EraseConsistent ==
    ASSUME NEW L \in [Slot -> Seq(Timer)], NEW ts \in [Timer -> Slot],
           NEW A \in SUBSET Timer, NEW t \in A, Consistent(L, ts, A),
           NEW i \in DOMAIN L[ts[t]], L[ts[t]][i] = t
    PROVE  LET M == [L EXCEPT ![ts[t]] = Erase(@, i)]
           IN  M \in [Slot -> Seq(Timer)] /\ Consistent(M, ts, A \ {t})
  <1> DEFINE c == ts[t]
             M == [L EXCEPT ![c] = Erase(@, i)]
  <1>1. c \in Slot /\ L[c] \in Seq(Timer) /\ i \in 1 .. Len(L[c])
    OBVIOUS
  <1>2. /\ Erase(L[c], i) \in Seq(Timer)
        /\ DOMAIN Erase(L[c], i) = 1 .. Len(L[c]) - 1
        /\ \A j \in 1 .. Len(L[c]) - 1 :
              Erase(L[c], i)[j] = IF j < i THEN L[c][j] ELSE L[c][j + 1]
    BY <1>1, EraseProperties
  <1>3. M \in [Slot -> Seq(Timer)] /\ M[c] = Erase(L[c], i)
        /\ \A s \in Slot : s # c => M[s] = L[s]
    BY <1>1, <1>2
  <1>l. L[c][i] = t /\ DOMAIN L[c] = 1 .. Len(L[c]) /\ Len(L[c]) \in Nat
    BY <1>1
  <1>m. /\ \A j \in 1 .. Len(L[c]) - 1 : j < i => M[c][j] = L[c][j]
        /\ \A j \in 1 .. Len(L[c]) - 1 : ~(j < i) => M[c][j] = L[c][j + 1]
        /\ DOMAIN M[c] = 1 .. Len(L[c]) - 1
    <2> HIDE DEF M, c
    <2> QED
      BY <1>2, <1>3
  <1> HIDE DEF M, c
  <1>n. \A x \in 1 .. Len(L[c]) - 1 : \E k \in DOMAIN L[c] : M[c][x] = L[c][k] /\ k # i
    <2> TAKE x \in 1 .. Len(L[c]) - 1
    <2>1. CASE x < i
      <3>1. x \in DOMAIN L[c] /\ M[c][x] = L[c][x] /\ x # i
        BY <2>1, <1>1, <1>m, <1>l
      <3> QED
        BY <3>1
    <2>2. CASE ~(x < i)
      <3>1. x + 1 \in DOMAIN L[c] /\ M[c][x] = L[c][x + 1] /\ x + 1 # i
        BY <2>2, <1>1, <1>m, <1>l
      <3> QED
        BY <3>1
    <2> QED
      BY <2>1, <2>2
  <1>4. ASSUME NEW s \in Slot, NEW j \in DOMAIN M[s]
        PROVE  M[s][j] \in A \ {t} /\ ts[M[s][j]] = s
    <2>1. CASE s # c
      <3>1. j \in DOMAIN L[s] /\ M[s][j] = L[s][j]
        BY <2>1, <1>3
      <3>2. L[s][j] \in A /\ ts[L[s][j]] = s
        BY <3>1 DEF Consistent
      <3> QED
        BY <3>1, <3>2, <2>1 DEF c
    <2>2. CASE s = c
      <3>1. PICK k \in DOMAIN L[c] : M[c][j] = L[c][k] /\ k # i
        BY <2>2, <1>m, <1>n
      <3> QED
        BY <3>1, <2>2, <1>1, <1>l DEF Consistent
    <2> QED
      BY <2>1, <2>2
  <1>5. ASSUME NEW s \in Slot, NEW j \in DOMAIN M[s], NEW k \in DOMAIN M[s], M[s][j] = M[s][k]
        PROVE  j = k
    <2>1. CASE s # c
      BY <2>1, <1>3, <1>5 DEF Consistent
    <2>2. CASE s = c
      <3> DEFINE f(x) == IF x < i THEN x ELSE x + 1
      <3>1. \A x \in 1 .. Len(L[c]) - 1 : M[c][x] = L[c][f(x)] /\ f(x) \in DOMAIN L[c]
        <4> TAKE x \in 1 .. Len(L[c]) - 1
        <4>1. CASE x < i
          BY <4>1, <1>1, <1>m, <1>l
        <4>2. CASE ~(x < i)
          BY <4>2, <1>1, <1>m, <1>l
        <4> QED
          BY <4>1, <4>2
      <3>2. j \in 1 .. Len(L[c]) - 1 /\ k \in 1 .. Len(L[c]) - 1
        BY <2>2, <1>2, <1>3
      <3>3. L[c][f(j)] = L[c][f(k)] /\ f(j) \in DOMAIN L[c] /\ f(k) \in DOMAIN L[c]
        BY <3>1, <3>2, <2>2, <1>5
      <3>4. f(j) = f(k)
        <4> HIDE DEF f
        <4> QED
          BY <3>3, <1>1 DEF Consistent
      <3>5. j \in Int /\ k \in Int /\ i \in Int
        BY <3>2, <1>1
      <3> QED
        BY <3>4, <3>5
    <2> QED
      BY <2>1, <2>2
  <1>6. ASSUME NEW u \in A \ {t}
        PROVE  Occurs(M[ts[u]], u)
    <2>1. PICK k \in DOMAIN L[ts[u]] : L[ts[u]][k] = u
      BY DEF Consistent, Occurs
    <2>2. CASE ts[u] # c
      BY <2>1, <2>2, <1>3 DEF Occurs
    <2>3. CASE ts[u] = c
      <3>1. k # i /\ k \in 1 .. Len(L[c])
        BY <2>1, <2>3, <1>1, <1>l
      <3>2. CASE k < i
        <4>1. k \in 1 .. Len(L[c]) - 1
          BY <3>1, <3>2, <1>1, <1>l
        <4>2. M[c][k] = u /\ k \in DOMAIN M[c]
          BY <4>1, <3>2, <1>2, <1>3, <2>1, <2>3
        <4> QED
          BY <4>2, <2>3 DEF Occurs
      <3>3. CASE k > i
        <4>1. k - 1 \in 1 .. Len(L[c]) - 1 /\ ~(k - 1 < i) /\ (k - 1) + 1 = k
          BY <3>1, <3>3, <1>1, <1>l
        <4>2. M[c][k - 1] = u /\ k - 1 \in DOMAIN M[c]
          BY <4>1, <1>2, <1>3, <2>1, <2>3
        <4> QED
          BY <4>2, <2>3 DEF Occurs
      <3>4. k < i \/ k > i
        BY <3>1, <1>1
      <3> QED
        BY <3>2, <3>3, <3>4
    <2> QED
      BY <2>2, <2>3
  <1>7. Consistent(M, ts, A \ {t})
    BY <1>4, <1>5, <1>6 DEF Consistent
  <1> QED
    BY <1>3, <1>7 DEF M, c

\* Appending a new timer to the list that its slot names.
LEMMA AppendConsistent ==
    ASSUME NEW L \in [Slot -> Seq(Timer)], NEW ts \in [Timer -> Slot],
           NEW A \in SUBSET Timer, Consistent(L, ts, A),
           NEW t \in Timer \ A, NEW c \in Slot
    PROVE  LET M == [L EXCEPT ![c] = Append(@, t)]
           IN  /\ M \in [Slot -> Seq(Timer)]
               /\ Consistent(M, [ts EXCEPT ![t] = c], A \cup {t})
  <1> DEFINE M == [L EXCEPT ![c] = Append(@, t)]
             us == [ts EXCEPT ![t] = c]
  <1>1. L[c] \in Seq(Timer) /\ DOMAIN L[c] = 1 .. Len(L[c]) /\ Len(L[c]) \in Nat
    OBVIOUS
  <1>2. /\ M \in [Slot -> Seq(Timer)]
        /\ DOMAIN M[c] = 1 .. Len(L[c]) + 1
        /\ M[c][Len(L[c]) + 1] = t
        /\ \A j \in 1 .. Len(L[c]) : M[c][j] = L[c][j]
        /\ \A s \in Slot : s # c => M[s] = L[s]
    BY <1>1
  <1>3. us[t] = c /\ \A u \in A : us[u] = ts[u]
    OBVIOUS
  <1> HIDE DEF M, us
  <1>4. ASSUME NEW s \in Slot, NEW j \in DOMAIN M[s]
        PROVE  M[s][j] \in A \cup {t} /\ us[M[s][j]] = s
    <2>1. CASE s # c
      BY <2>1, <1>2, <1>3 DEF Consistent
    <2>2. CASE s = c /\ j = Len(L[c]) + 1
      BY <2>2, <1>2, <1>3
    <2>3. CASE s = c /\ j # Len(L[c]) + 1
      <3>1. j \in 1 .. Len(L[c]) + 1
        BY <2>3, <1>2
      <3>2. j \in 1 .. Len(L[c])
        BY <3>1, <2>3, <1>1
      <3>3. j \in DOMAIN L[c] /\ M[s][j] = L[c][j]
        BY <3>2, <2>3, <1>1, <1>2
      <3> QED
        BY <3>3, <2>3, <1>3 DEF Consistent
    <2> QED
      BY <2>1, <2>2, <2>3
  <1>5. ASSUME NEW s \in Slot, NEW j \in DOMAIN M[s], NEW k \in DOMAIN M[s], M[s][j] = M[s][k]
        PROVE  j = k
    <2>1. CASE s # c
      BY <2>1, <1>2, <1>5 DEF Consistent
    <2>2. CASE s = c
      <3>1. \A x \in 1 .. Len(L[c]) : L[c][x] # t
        BY <1>1 DEF Consistent
      <3>2. \A x, y \in 1 .. Len(L[c]) : L[c][x] = L[c][y] => x = y
        BY <1>1 DEF Consistent
      <3>3. j \in 1 .. Len(L[c]) + 1 /\ k \in 1 .. Len(L[c]) + 1 /\ M[c][j] = M[c][k]
        BY <2>2, <1>2, <1>5
      <3>4. CASE j = Len(L[c]) + 1 /\ k = Len(L[c]) + 1
        BY <3>4
      <3>5. CASE j # Len(L[c]) + 1 /\ k = Len(L[c]) + 1
        <4>1. j \in 1 .. Len(L[c])
          BY <3>3, <3>5, <1>1
        <4> QED
          BY <4>1, <3>1, <3>3, <3>5, <1>2
      <3>6. CASE j = Len(L[c]) + 1 /\ k # Len(L[c]) + 1
        <4>1. k \in 1 .. Len(L[c])
          BY <3>3, <3>6, <1>1
        <4> QED
          BY <4>1, <3>1, <3>3, <3>6, <1>2
      <3>7. CASE j # Len(L[c]) + 1 /\ k # Len(L[c]) + 1
        <4>1. j \in 1 .. Len(L[c]) /\ k \in 1 .. Len(L[c])
          BY <3>3, <3>7, <1>1
        <4> QED
          BY <4>1, <3>2, <3>3, <1>2
      <3> QED
        BY <3>4, <3>5, <3>6, <3>7
    <2> QED
      BY <2>1, <2>2
  <1>6. ASSUME NEW u \in A \cup {t}
        PROVE  Occurs(M[us[u]], u)
    <2>1. CASE u = t
      <3>1. Len(L[c]) + 1 \in DOMAIN M[c] /\ M[c][Len(L[c]) + 1] = t
        BY <1>1, <1>2
      <3> QED
        BY <3>1, <2>1, <1>3 DEF Occurs
    <2>2. CASE u # t
      <3>1. PICK k \in DOMAIN L[ts[u]] : L[ts[u]][k] = u
        BY <2>2 DEF Consistent, Occurs
      <3>2. k \in DOMAIN M[ts[u]] /\ M[ts[u]][k] = u
        <4>1. CASE ts[u] = c
          <5>1. k \in 1 .. Len(L[c]) /\ k \in 1 .. Len(L[c]) + 1
            BY <4>1, <3>1, <1>1
          <5> QED
            BY <5>1, <4>1, <3>1, <1>2
        <4>2. CASE ts[u] # c
          BY <4>2, <3>1, <2>2, <1>2
        <4> QED
          BY <4>1, <4>2
      <3> QED
        BY <3>2, <2>2, <1>3 DEF Occurs
    <2> QED
      BY <2>1, <2>2
  <1>7. Consistent(M, us, A \cup {t})
    BY <1>4, <1>5, <1>6 DEF Consistent
  <1> QED
    BY <1>2, <1>7 DEF M, us

\* The slots of timers that are not listed do not matter.
LEMMA SlotsOutside ==
    ASSUME NEW L, NEW ts, NEW us, NEW A, Consistent(L, ts, A), \A t \in A : us[t] = ts[t]
    PROVE  Consistent(L, us, A)
  BY DEF Consistent

-----------------------------------------------------------------------------
(* The wheel's arithmetic                                                  *)

\* A timeout is at least one tick.
LEMMA TicksNat == ASSUME NEW timeout \in Timeouts PROVE Ticks(timeout) \in Nat \ {0}
  BY WheelAssumption DEF Ticks

\* Full turns and remainder make up the ticks.
LEMMA DivMod ==
    ASSUME NEW k \in Nat
    PROVE  /\ k \div SLOTS_NUM \in Nat
           /\ k % SLOTS_NUM \in Slot
           /\ k = (k \div SLOTS_NUM) * SLOTS_NUM + (k % SLOTS_NUM)
  BY WheelAssumption DEF Slot

\* A remainder below two turns.
LEMMA ModOnce ==
    ASSUME NEW x \in Nat, x < 2 * SLOTS_NUM
    PROVE  x % SLOTS_NUM = IF x < SLOTS_NUM THEN x ELSE x - SLOTS_NUM
  <1>1. /\ x \div SLOTS_NUM \in Nat
        /\ x % SLOTS_NUM \in 0 .. SLOTS_NUM - 1
        /\ x = (x \div SLOTS_NUM) * SLOTS_NUM + (x % SLOTS_NUM)
    BY DivMod DEF Slot
  <1>2. x < SLOTS_NUM => x \div SLOTS_NUM = 0
    BY <1>1, WheelAssumption
  <1>3. x >= SLOTS_NUM => x \div SLOTS_NUM = 1
    BY <1>1, WheelAssumption
  <1> QED
    BY <1>1, <1>2, <1>3, WheelAssumption

\* One addition modulo the number of slots wraps around at most once.
LEMMA Wrap ==
    ASSUME NEW c \in Slot, NEW d \in Nat, d <= SLOTS_NUM
    PROVE  (c + d) % SLOTS_NUM = IF c + d < SLOTS_NUM THEN c + d ELSE c + d - SLOTS_NUM
  <1> DEFINE x == c + d
  <1>1. x \in Nat /\ x < 2 * SLOTS_NUM
    BY WheelAssumption DEF Slot
  <1>2. x % SLOTS_NUM = IF x < SLOTS_NUM THEN x ELSE x - SLOTS_NUM
    <2> HIDE DEF x
    <2> QED
      BY <1>1, ModOnce
  <1> QED
    BY <1>2, WheelAssumption DEF Slot

\* The slot a timer is put into is a slot of the wheel.
LEMMA TargetInWheel ==
    ASSUME cur_slot \in Slot, NEW k \in Nat
    PROVE  TargetSlot(k) \in Slot
  <1>1. k % SLOTS_NUM \in Nat /\ k % SLOTS_NUM < SLOTS_NUM
    BY DivMod, WheelAssumption DEF Slot
  <1> QED
    BY <1>1, Wrap, WheelAssumption DEF TargetSlot, Slot

-----------------------------------------------------------------------------
(* The inductive invariant of the lists                                    *)

IInv == TypeOK /\ WheelOK

\* WheelOK is Consistent for the current lists, with a valid iterator.
LEMMA WheelOKConsistent ==
    WheelOK <=> Consistent(slots, time_slot, armed) /\ IteratorValid
  BY DEF WheelOK, ListsHoldArmed, NoDuplicates, ArmedListed, Consistent

\* del_timer finds its timer and takes it out.
LEMMA UnlinkConsistent ==
    ASSUME IInv, NEW t \in armed
    PROVE  /\ Unlink(t) \in [Slot -> Seq(Timer)]
           /\ Consistent(Unlink(t), time_slot, armed \ {t})
  <1>1. Consistent(slots, time_slot, armed)
    BY WheelOKConsistent DEF IInv
  <1>2. /\ slots \in [Slot -> Seq(Timer)] /\ time_slot \in [Timer -> Slot]
        /\ armed \in SUBSET Timer
    BY DEF IInv, TypeOK
  <1> DEFINE i == CHOOSE j \in DOMAIN slots[time_slot[t]] : slots[time_slot[t]][j] = t
  <1>3. Occurs(slots[time_slot[t]], t)
    BY <1>1 DEF Consistent
  <1>4. i \in DOMAIN slots[time_slot[t]] /\ slots[time_slot[t]][i] = t
    BY <1>3 DEF Occurs
  <1>5. Unlink(t) = [slots EXCEPT ![time_slot[t]] = Erase(@, i)]
    BY <1>3 DEF Unlink, RemoveFrom
  <1> HIDE DEF i
  <1>6. /\ [slots EXCEPT ![time_slot[t]] = Erase(@, i)] \in [Slot -> Seq(Timer)]
        /\ Consistent([slots EXCEPT ![time_slot[t]] = Erase(@, i)], time_slot, armed \ {t})
    BY <1>1, <1>2, <1>4, EraseConsistent
  <1> QED
    BY <1>5, <1>6

\* add_timer puts a timer that no list holds into its slot.
LEMMA InsertConsistent ==
    ASSUME TypeOK, NEW L \in [Slot -> Seq(Timer)], NEW A \in SUBSET armed,
           Consistent(L, time_slot, A), NEW t \in Timer \ A,
           NEW timeout \in Timeouts, Insert(t, timeout, L)
    PROVE  /\ slots' \in [Slot -> Seq(Timer)]
           /\ time_slot' \in [Timer -> Slot]
           /\ rotation' \in [Timer -> Nat]
           /\ left' \in [Timer -> Int]
           /\ shared' \subseteq shared \cup A \cup {t}
           /\ long' \subseteq long \cup {t}
           /\ Consistent(slots', time_slot', A \cup {t})
  <1> DEFINE ticks == Ticks(timeout)
             ts == TargetSlot(ticks)
  <1>1. ticks \in Nat
    BY TicksNat
  <1>2. ts \in Slot
    BY <1>1, TargetInWheel DEF TypeOK
  <1>3. ticks \div SLOTS_NUM \in Nat
    BY <1>1, DivMod
  <1>4. /\ slots' = [L EXCEPT ![ts] = Append(@, t)]
        /\ time_slot' = [time_slot EXCEPT ![t] = ts]
        /\ rotation' = [rotation EXCEPT ![t] = ticks \div SLOTS_NUM]
        /\ left' = [left EXCEPT ![t] = ticks]
        /\ shared' \subseteq shared \cup {t} \cup ListSet(L[ts])
        /\ long' \subseteq long \cup {t}
    BY DEF Insert
  <1> HIDE DEF ticks, ts
  <1>5. ListSet(L[ts]) \subseteq A
    BY <1>2 DEF ListSet, Consistent
  <1>6. time_slot \in [Timer -> Slot] /\ A \in SUBSET Timer
    BY DEF TypeOK
  <1>7. slots' \in [Slot -> Seq(Timer)] /\ Consistent(slots', time_slot', A \cup {t})
    BY <1>2, <1>4, <1>6, AppendConsistent
  <1> QED
    BY <1>1, <1>2, <1>3, <1>4, <1>5, <1>7 DEF TypeOK

\* delete of nodes that are no longer in a list.
LEMMA FreeConsistent ==
    ASSUME TypeOK, NEW T \in SUBSET Timer, Free(T),
           Consistent(slots', time_slot, armed \ T)
    PROVE  /\ time_slot' \in [Timer -> Slot]
           /\ rotation' \in [Timer -> Nat]
           /\ left' \in [Timer -> Int]
           /\ armed' \in SUBSET Timer
           /\ shared' \subseteq armed' /\ long' \subseteq armed'
           /\ Consistent(slots', time_slot', armed')
  <1>1. 0 \in Slot
    BY WheelAssumption DEF Slot
  <1>2. \A t \in armed \ T : time_slot'[t] = time_slot[t]
    BY DEF Free, TypeOK
  <1>3. Consistent(slots', time_slot', armed \ T)
    BY <1>2, SlotsOutside
  <1> QED
    BY <1>1, <1>3 DEF Free, TypeOK

\* The empty wheel satisfies the invariant.
LEMMA InitIInv == Init => IInv
  <1> SUFFICES ASSUME Init PROVE IInv
    OBVIOUS
  <1>1. 0 \in Slot /\ 1 \in Slot
    BY WheelAssumption DEF Slot
  <1>2. <<>> \in Seq(Timer) /\ DOMAIN <<>> = {}
    OBVIOUS
  <1>3. TypeOK
    BY <1>1, <1>2 DEF Init, TypeOK
  <1>4. WheelOK
    BY <1>2 DEF Init, WheelOK, ListsHoldArmed, NoDuplicates, ArmedListed, IteratorValid
  <1> QED
    BY <1>3, <1>4 DEF IInv

\* Every operation of the container preserves the invariant.
LEMMA NextIInv == IInv /\ [Next]_wheelVars => IInv'
  <1> SUFFICES ASSUME IInv, [Next]_wheelVars PROVE IInv'
    OBVIOUS
  <1> USE DEF IInv
  <1>c. Consistent(slots, time_slot, armed) /\ IteratorValid
    BY WheelOKConsistent
  <1>w. Consistent(slots', time_slot', armed') /\ IteratorValid' => WheelOK'
    BY DEF WheelOK, ListsHoldArmed, NoDuplicates, ArmedListed, Consistent
  <1>t. /\ slots \in [Slot -> Seq(Timer)] /\ cur_slot \in Slot
        /\ time_slot \in [Timer -> Slot] /\ rotation \in [Timer -> Nat]
        /\ armed \in SUBSET Timer /\ phase \in {"idle", "tick", "gone"}
        /\ itr \in Nat /\ left \in [Timer -> Int] /\ shared \in SUBSET armed
        /\ long \in SUBSET armed
    BY DEF TypeOK
  <1>1. ASSUME NEW t \in Timer, NEW timeout \in Timeouts, AddTimer(t, timeout)
        PROVE  IInv'
    <2>1. /\ slots' \in [Slot -> Seq(Timer)] /\ time_slot' \in [Timer -> Slot]
          /\ rotation' \in [Timer -> Nat] /\ left' \in [Timer -> Int]
          /\ shared' \subseteq shared \cup armed \cup {t}
          /\ long' \subseteq long \cup {t}
          /\ Consistent(slots', time_slot', armed \cup {t})
      BY <1>1, <1>c, <1>t, InsertConsistent DEF AddTimer
    <2>2. /\ armed' = armed \cup {t} /\ cur_slot' = cur_slot /\ phase' = phase
          /\ itr' = itr /\ phase = "idle"
      BY <1>1 DEF AddTimer
    <2>3. TypeOK'
      BY <2>1, <2>2, <1>t DEF TypeOK
    <2>4. IteratorValid'
      BY <2>2, <1>c DEF IteratorValid
    <2> QED
      BY <2>1, <2>2, <2>3, <2>4, <1>w
  <1>2. ASSUME NEW t \in Timer, NEW timeout \in Timeouts, ResetTimer(t, timeout)
        PROVE  IInv'
    <2>0. t \in armed
      BY <1>2 DEF ResetTimer
    <2>a. Unlink(t) \in [Slot -> Seq(Timer)] /\ Consistent(Unlink(t), time_slot, armed \ {t})
      BY <2>0, UnlinkConsistent
    <2> DEFINE L == Unlink(t)
               A == armed \ {t}
    <2>b. Insert(t, timeout, L) /\ A \in SUBSET armed /\ t \in Timer \ A
      BY <1>2 DEF ResetTimer
    <2> HIDE DEF L
    <2>1. /\ slots' \in [Slot -> Seq(Timer)] /\ time_slot' \in [Timer -> Slot]
          /\ rotation' \in [Timer -> Nat] /\ left' \in [Timer -> Int]
          /\ shared' \subseteq shared \cup A \cup {t}
          /\ long' \subseteq long \cup {t}
          /\ Consistent(slots', time_slot', A \cup {t})
      <3>1. L \in [Slot -> Seq(Timer)] /\ Consistent(L, time_slot, A)
        BY <2>a DEF L
      <3> HIDE DEF A
      <3> QED
        BY <3>1, <2>b, InsertConsistent
    <2>2. /\ armed' = armed /\ cur_slot' = cur_slot /\ phase' = phase
          /\ itr' = itr /\ phase = "idle"
      BY <1>2 DEF ResetTimer
    <2>5. A \cup {t} = armed
      BY <2>0
    <2>3. TypeOK'
      BY <2>1, <2>2, <2>5, <1>t DEF TypeOK
    <2>4. IteratorValid'
      BY <2>2, <1>c DEF IteratorValid
    <2> QED
      BY <2>1, <2>2, <2>3, <2>4, <2>5, <1>w
  <1>3. ASSUME NEW t \in Timer, DelTimer(t)
        PROVE  IInv'
    <2>1. /\ t \in armed /\ slots' = Unlink(t) /\ Free({t})
          /\ cur_slot' = cur_slot /\ phase' = phase /\ itr' = itr /\ phase = "idle"
      BY <1>3 DEF DelTimer
    <2>2. slots' \in [Slot -> Seq(Timer)] /\ Consistent(slots', time_slot, armed \ {t})
      BY <2>1, UnlinkConsistent
    <2>3. /\ time_slot' \in [Timer -> Slot] /\ rotation' \in [Timer -> Nat]
          /\ left' \in [Timer -> Int] /\ armed' \in SUBSET Timer
          /\ shared' \subseteq armed' /\ long' \subseteq armed'
          /\ Consistent(slots', time_slot', armed')
      BY <2>1, <2>2, FreeConsistent
    <2>4. TypeOK'
      BY <2>1, <2>2, <2>3, <1>t DEF TypeOK
    <2>5. IteratorValid'
      BY <2>1, <1>c DEF IteratorValid
    <2> QED
      BY <2>3, <2>4, <2>5, <1>w
  <1>4. CASE TickBegin
    <2>1. TypeOK'
      BY <1>4, <1>t DEF TickBegin, TypeOK
    <2>2. IteratorValid'
      BY <1>4, <1>t DEF TickBegin, IteratorValid
    <2> QED
      BY <2>1, <2>2, <1>4, <1>c, <1>w DEF TickBegin
  <1>5. ASSUME NEW t \in Timer, TickSkip(t)
        PROVE  IInv'
    <2>1. TypeOK'
      BY <1>5, <1>t DEF TickSkip, TypeOK
    <2>2. IteratorValid'
      <3>1. itr \in 1 .. Len(slots[cur_slot]) /\ slots[cur_slot] \in Seq(Timer)
        BY <1>5, <1>t DEF TickSkip, AtIterator
      <3> QED
        BY <3>1, <1>5 DEF TickSkip, AtIterator, IteratorValid
    <2> QED
      BY <2>1, <2>2, <1>5, <1>c, <1>w DEF TickSkip
  <1>6. ASSUME NEW t \in Timer, TickExpire(t)
        PROVE  IInv'
    <2> DEFINE s == slots[cur_slot]
    <2>1. /\ phase = "tick" /\ phase' = "tick" /\ cur_slot' = cur_slot
          /\ itr \in DOMAIN s /\ s[itr] = t /\ Free({t})
          /\ slots' = [slots EXCEPT ![cur_slot] = Erase(@, itr)]
          /\ itr' = AfterErase(itr, Len(s) - 1)
      BY <1>6 DEF TickExpire, AtIterator
    <2>2. t \in armed /\ time_slot[t] = cur_slot
      BY <2>1, <1>c, <1>t DEF Consistent
    <2>3. slots' \in [Slot -> Seq(Timer)] /\ Consistent(slots', time_slot, armed \ {t})
      BY <2>1, <2>2, <1>c, <1>t, EraseConsistent
    <2>4. /\ time_slot' \in [Timer -> Slot] /\ rotation' \in [Timer -> Nat]
          /\ left' \in [Timer -> Int] /\ armed' \in SUBSET Timer
          /\ shared' \subseteq armed' /\ long' \subseteq armed'
          /\ Consistent(slots', time_slot', armed')
      BY <2>1, <2>3, FreeConsistent
    <2>5. s \in Seq(Timer) /\ itr \in 1 .. Len(s)
      BY <2>1, <1>t
    <2>6. Len(slots'[cur_slot]) = Len(s) - 1
      BY <2>1, <2>5, <1>t, EraseProperties
    <2>7. itr' \in 1 .. (Len(s) - 1) + 1
      BY <2>1, <2>5 DEF AfterErase
    <2>i. itr' \in Nat
      BY <2>5, <2>7
    <2>8. TypeOK'
      <3> HIDE DEF s
      <3> QED
        BY <2>1, <2>3, <2>4, <2>i, <1>t DEF TypeOK
    <2>9. IteratorValid'
      BY <2>1, <2>6, <2>7 DEF IteratorValid
    <2> QED
      BY <2>4, <2>8, <2>9, <1>w
  <1>7. CASE TickEnd
    <2>1. cur_slot' \in Slot
      BY <1>7, <1>t, WheelAssumption DEF TickEnd, Slot
    <2>2. left' \in [Timer -> Int]
      BY <1>7, <1>t DEF TickEnd
    <2>3. TypeOK'
      BY <1>7, <2>1, <2>2, <1>t DEF TickEnd, TypeOK
    <2>4. IteratorValid'
      BY <1>7 DEF TickEnd, IteratorValid
    <2> QED
      BY <2>3, <2>4, <1>7, <1>c, <1>w DEF TickEnd
  <1>8. CASE Destroy
    <2> DEFINE T == UNION {ListSet(slots[s]) : s \in Slot}
    <2>1. /\ phase = "idle" /\ phase' = "gone" /\ cur_slot' = cur_slot /\ itr' = itr
          /\ slots' = [s \in Slot |-> <<>>] /\ Free(T)
      BY <1>8 DEF Destroy
    <2>2. T \subseteq Timer
      BY <1>t DEF ListSet
    <2>3. armed \ T = {}
      <3> SUFFICES ASSUME NEW t \in armed PROVE t \in T
        OBVIOUS
      <3>1. time_slot[t] \in Slot /\ t \in ListSet(slots[time_slot[t]])
        BY <1>c, <1>t DEF Consistent, Occurs, ListSet
      <3> QED
        BY <3>1
    <2> HIDE DEF T
    <2>4. Consistent(slots', time_slot, armed \ T) /\ slots' \in [Slot -> Seq(Timer)]
      BY <2>1, <2>3 DEF Consistent
    <2>5. /\ time_slot' \in [Timer -> Slot] /\ rotation' \in [Timer -> Nat]
          /\ left' \in [Timer -> Int] /\ armed' \in SUBSET Timer
          /\ shared' \subseteq armed' /\ long' \subseteq armed'
          /\ Consistent(slots', time_slot', armed')
      BY <2>1, <2>2, <2>4, FreeConsistent
    <2>6. TypeOK'
      BY <2>1, <2>4, <2>5, <1>t DEF TypeOK
    <2>7. IteratorValid'
      BY <2>1, <1>c DEF IteratorValid
    <2> QED
      BY <2>5, <2>6, <2>7, <1>w
  <1>9. CASE UNCHANGED wheelVars
    BY <1>9 DEF wheelVars, TypeOK, WheelOK, ListsHoldArmed, NoDuplicates, ArmedListed,
                IteratorValid, Occurs
  <1> QED
    BY <1>1, <1>2, <1>3, <1>4, <1>5, <1>6, <1>7, <1>8, <1>9 DEF Next, TickStep, Gone

(* TypeOK and WheelOK hold in every state, whatever calls add, reset and   *)
(* delete timers between the ticks.                                        *)
THEOREM WheelCorrect == Spec => [](TypeOK /\ WheelOK)
  <1>1. Init => IInv
    BY InitIInv
  <1>2. IInv /\ [Next]_wheelVars => IInv'
    BY NextIInv
  <1> QED
    BY <1>1, <1>2, PTL DEF Spec, IInv

(* No sequence of calls takes a field of the container out of its range:   *)
(* cur_slot and every _time_slot name a slot, and _rotation, which tick()  *)
(* counts down, never falls below 0.                                       *)
THEOREM WheelTyped == Spec => []TypeOK
  BY WheelCorrect, PTL

-----------------------------------------------------------------------------
(* When timers expire                                                      *)

\* Ticks until the wheel, which stands at slot c, stands at slot a.
Dist(a, c) == IF a >= c THEN a - c ELSE a - c + SLOTS_NUM

\* A timer set to k ticks is put k ticks ahead, not counting full turns.
LEMMA DistTarget ==
    ASSUME cur_slot \in Slot, NEW k \in Nat
    PROVE  Dist(TargetSlot(k), cur_slot) = k % SLOTS_NUM
  <1> DEFINE d == k % SLOTS_NUM
  <1>1. d \in Nat /\ d < SLOTS_NUM
    BY DivMod, WheelAssumption DEF Slot
  <1>2. TargetSlot(k) = (cur_slot + d) % SLOTS_NUM
    BY DEF TargetSlot
  <1> HIDE DEF d
  <1>3. TargetSlot(k) = IF cur_slot + d < SLOTS_NUM THEN cur_slot + d ELSE cur_slot + d - SLOTS_NUM
    BY <1>1, <1>2, Wrap, WheelAssumption
  <1>4. cur_slot \in Nat /\ cur_slot < SLOTS_NUM /\ SLOTS_NUM \in Nat
    BY WheelAssumption DEF Slot
  <1>5. Dist(TargetSlot(k), cur_slot) = d
    <2>1. CASE cur_slot + d < SLOTS_NUM
      BY <2>1, <1>1, <1>3, <1>4 DEF Dist
    <2>2. CASE ~(cur_slot + d < SLOTS_NUM)
      BY <2>2, <1>1, <1>3, <1>4 DEF Dist
    <2> QED
      BY <2>1, <2>2
  <1> QED
    BY <1>5 DEF d

\* Every tick brings the wheel one slot closer, or once around.
LEMMA DistTick ==
    ASSUME NEW a \in Slot, NEW c \in Slot
    PROVE  /\ Dist(a, c) \in Slot
           /\ Dist(a, c) = 0 <=> a = c
           /\ Dist(a, (c + 1) % SLOTS_NUM) = IF a = c THEN SLOTS_NUM - 1 ELSE Dist(a, c) - 1
  <1>1. (c + 1) % SLOTS_NUM = IF c + 1 < SLOTS_NUM THEN c + 1 ELSE c + 1 - SLOTS_NUM
    BY Wrap, WheelAssumption
  <1>2. a \in Nat /\ c \in Nat /\ a < SLOTS_NUM /\ c < SLOTS_NUM /\ SLOTS_NUM \in Nat
    BY WheelAssumption DEF Slot
  <1> DEFINE e == (c + 1) % SLOTS_NUM
  <1>3. e = IF c + 1 < SLOTS_NUM THEN c + 1 ELSE c + 1 - SLOTS_NUM
    BY <1>1
  <1> HIDE DEF e
  <1>4. Dist(a, e) = IF a = c THEN SLOTS_NUM - 1 ELSE Dist(a, c) - 1
    BY <1>2, <1>3 DEF Dist
  <1>5. Dist(a, c) \in Slot /\ (Dist(a, c) = 0 <=> a = c)
    BY <1>2 DEF Dist, Slot
  <1> QED
    BY <1>4, <1>5 DEF e

\* A distance is a number of ticks.
LEMMA DistNat == ASSUME NEW a \in Slot, NEW c \in Slot PROVE Dist(a, c) \in Nat
  <1>1. Dist(a, c) \in Slot
    BY DistTick
  <1> QED
    BY <1>1, WheelAssumption DEF Slot

(* A timer set to less than a turn has no turns to skip and does not come  *)
(* up before its time.                                                     *)
ShortInv ==
    \A t \in armed \ long : rotation[t] = 0 /\ left[t] <= Dist(time_slot[t], cur_slot)

\* Every operation preserves ShortInv.
LEMMA NextShortInv ==
    ASSUME IInv, ShortInv, [Next]_wheelVars
    PROVE  ShortInv'
  <1>c. Consistent(slots, time_slot, armed) /\ IteratorValid
    BY WheelOKConsistent DEF IInv
  <1>t. /\ slots \in [Slot -> Seq(Timer)] /\ cur_slot \in Slot
        /\ time_slot \in [Timer -> Slot] /\ rotation \in [Timer -> Nat]
        /\ armed \in SUBSET Timer /\ left \in [Timer -> Int]
    BY DEF IInv, TypeOK
  <1>i. ASSUME NEW t \in Timer, NEW timeout \in Timeouts, NEW L, Insert(t, timeout, L),
               armed' \subseteq armed \cup {t}, cur_slot' = cur_slot
        PROVE  ShortInv'
    <2> DEFINE k == Ticks(timeout)
    <2>1. k \in Nat
      BY TicksNat
    <2>2. /\ rotation' = [rotation EXCEPT ![t] = k \div SLOTS_NUM]
          /\ time_slot' = [time_slot EXCEPT ![t] = TargetSlot(k)]
          /\ left' = [left EXCEPT ![t] = k]
          /\ long' = IF k >= SLOTS_NUM THEN long \cup {t} ELSE long \ {t}
      BY <1>i DEF Insert
    <2> HIDE DEF k
    <2> SUFFICES ASSUME NEW u \in armed' \ long'
                 PROVE  rotation'[u] = 0 /\ left'[u] <= Dist(time_slot'[u], cur_slot')
      BY DEF ShortInv
    <2>5. CASE u = t
      <3>1. k < SLOTS_NUM
        BY <2>5, <2>1, <2>2, WheelAssumption
      <3>2. k % SLOTS_NUM = k /\ k \div SLOTS_NUM = 0
        BY <2>1, <3>1, DivMod, ModOnce, WheelAssumption
      <3>3. Dist(TargetSlot(k), cur_slot) = k
        BY <2>1, <3>2, <1>t, DistTarget
      <3> QED
        BY <2>5, <2>1, <2>2, <3>2, <3>3, <1>t, <1>i
    <2>6. CASE u # t
      <3>1. u \in armed \ long /\ u \in Timer
        BY <2>6, <2>2, <1>i, <1>t
      <3>2. rotation'[u] = rotation[u] /\ left'[u] = left[u] /\ time_slot'[u] = time_slot[u]
        BY <3>1, <2>6, <2>2, <1>t
      <3> QED
        BY <3>1, <3>2, <1>i DEF ShortInv
    <2> QED
      BY <2>5, <2>6
  <1>f. ASSUME NEW T, Free(T), cur_slot' = cur_slot
        PROVE  ShortInv'
    BY <1>f, <1>t DEF Free, ShortInv
  <1>1. ASSUME NEW t \in Timer, NEW timeout \in Timeouts, AddTimer(t, timeout)
        PROVE  ShortInv'
    BY <1>1, <1>i DEF AddTimer
  <1>2. ASSUME NEW t \in Timer, NEW timeout \in Timeouts, ResetTimer(t, timeout)
        PROVE  ShortInv'
    BY <1>2, <1>i DEF ResetTimer
  <1>3. ASSUME NEW t \in Timer, DelTimer(t) PROVE ShortInv'
    BY <1>3, <1>f DEF DelTimer
  <1>4. CASE TickBegin
    BY <1>4 DEF TickBegin, ShortInv
  <1>5. ASSUME NEW t \in Timer, TickSkip(t) PROVE ShortInv'
    <2>1. t \in armed /\ rotation[t] > 0
      BY <1>5, <1>c, <1>t DEF TickSkip, AtIterator, Consistent
    <2>2. t \in long
      BY <2>1, <1>t DEF ShortInv
    <2>3. /\ rotation' = [rotation EXCEPT ![t] = @ - 1] /\ armed' = armed /\ long' = long
          /\ left' = left /\ time_slot' = time_slot /\ cur_slot' = cur_slot
      BY <1>5 DEF TickSkip
    <2> QED
      BY <2>2, <2>3, <1>t DEF ShortInv
  <1>6. ASSUME NEW t \in Timer, TickExpire(t) PROVE ShortInv'
    BY <1>6, <1>f DEF TickExpire
  <1>7. CASE TickEnd
    <2> SUFFICES ASSUME NEW u \in armed \ long
                 PROVE  /\ rotation[u] = 0
                        /\ left[u] - 1 <= Dist(time_slot[u], (cur_slot + 1) % SLOTS_NUM)
      BY <1>7, <1>t DEF TickEnd, ShortInv
    <2>1. rotation[u] = 0 /\ left[u] <= Dist(time_slot[u], cur_slot)
      BY DEF ShortInv
    <2>2. /\ Dist(time_slot[u], cur_slot) \in Slot
          /\ Dist(time_slot[u], cur_slot) = 0 <=> time_slot[u] = cur_slot
          /\ Dist(time_slot[u], (cur_slot + 1) % SLOTS_NUM)
                = IF time_slot[u] = cur_slot THEN SLOTS_NUM - 1
                                             ELSE Dist(time_slot[u], cur_slot) - 1
      BY <1>t, DistTick
    <2>3. left[u] \in Int
      BY <1>t
    <2> QED
      BY <2>1, <2>2, <2>3, WheelAssumption DEF Slot
  <1>8. CASE Destroy
    BY <1>8, <1>f DEF Destroy
  <1>9. CASE UNCHANGED wheelVars
    BY <1>9 DEF wheelVars, ShortInv
  <1> QED
    BY <1>1, <1>2, <1>3, <1>4, <1>5, <1>6, <1>7, <1>8, <1>9 DEF Next, TickStep, Gone

\* What ShortInv says of the timer tick() is about to fire.
LEMMA ShortImpliesNeverEarly == IInv /\ ShortInv => NeverEarly
  <1> SUFFICES ASSUME IInv, ShortInv, NEW t \in armed \ long, Expiring(t)
               PROVE  left[t] <= 0
    BY DEF NeverEarly
  <1>1. cur_slot \in Slot /\ time_slot[t] \in Slot /\ slots \in [Slot -> Seq(Timer)]
    BY DEF IInv, TypeOK
  <1>2. time_slot[t] = cur_slot
    BY <1>1 DEF Expiring, AtIterator, IInv, WheelOK, ListsHoldArmed
  <1>3. Dist(time_slot[t], cur_slot) = 0
    BY <1>1, <1>2, DistTick
  <1> QED
    BY <1>3 DEF ShortInv

(* A timer set to less than a turn of the wheel (a minute in the source,   *)
(* whose callers use fifteen seconds) never has its callback run by tick() *)
(* too early, although the iterator jumps over timers and revisits them.   *)
THEOREM ShortNeverEarly == Spec => []NeverEarly
  <1>1. Init => IInv /\ ShortInv
    BY InitIInv DEF Init, ShortInv
  <1>2. IInv /\ ShortInv /\ [Next]_wheelVars => IInv' /\ ShortInv'
    BY NextIInv, NextShortInv
  <1> QED
    BY <1>1, <1>2, ShortImpliesNeverEarly, PTL DEF Spec

-----------------------------------------------------------------------------
(* Timers that are alone in their slot                                     *)

\* tick() has passed the timers of slot a in the turn that is running.
Passed(a) == phase = "tick" /\ a = cur_slot /\ itr > 1

\* A lone timer shares its slot with no other ...
Alone == \A t \in armed \ shared : \A u \in armed : time_slot[u] = time_slot[t] => u = t

(* ... and its turns and its distance make up the ticks it has left, with  *)
(* one more turn between the tick that took a turn away and the end of     *)
(* that tick.                                                              *)
Exact ==
    \A t \in armed \ shared :
        left[t] = rotation[t] * SLOTS_NUM + Dist(time_slot[t], cur_slot)
                    + (IF Passed(time_slot[t]) THEN SLOTS_NUM ELSE 0)

LoneInv == Alone /\ Exact

\* A lone timer is the first of its list.
LEMMA LoneFirst ==
    ASSUME IInv, Alone, NEW t \in armed \ shared, NEW i \in DOMAIN slots[time_slot[t]]
    PROVE  slots[time_slot[t]][i] = t /\ i = 1
  <1>1. /\ slots \in [Slot -> Seq(Timer)] /\ time_slot[t] \in Slot
        /\ ListsHoldArmed /\ NoDuplicates
    BY DEF IInv, TypeOK, WheelOK
  <1> DEFINE L == slots[time_slot[t]]
  <1>2. L \in Seq(Timer) /\ i \in 1 .. Len(L) /\ DOMAIN L = 1 .. Len(L)
    BY <1>1
  <1>3. 1 \in DOMAIN L
    BY <1>2
  <1>4. L[i] \in armed /\ time_slot[L[i]] = time_slot[t] /\ L[1] \in armed /\ time_slot[L[1]] = time_slot[t]
    BY <1>1, <1>3 DEF ListsHoldArmed
  <1>5. L[i] = t /\ L[1] = t
    BY <1>4 DEF Alone
  <1> QED
    BY <1>1, <1>3, <1>5 DEF NoDuplicates

\* add_timer keeps the invariant: a timer in an empty list is alone.
LEMMA InsertLone ==
    ASSUME IInv, LoneInv, NEW L \in [Slot -> Seq(Timer)], NEW A \in SUBSET armed,
           Consistent(L, time_slot, A), NEW t \in Timer \ A,
           NEW timeout \in Timeouts, Insert(t, timeout, L),
           phase = "idle", phase' = "idle", cur_slot' = cur_slot,
           armed' = A \cup {t}
    PROVE  LoneInv'
  <1>t. /\ cur_slot \in Slot /\ time_slot \in [Timer -> Slot] /\ rotation \in [Timer -> Nat]
        /\ armed \in SUBSET Timer /\ left \in [Timer -> Int] /\ A \in SUBSET Timer
    BY DEF IInv, TypeOK
  <1> DEFINE k == Ticks(timeout)
             ts == TargetSlot(k)
  <1>1. k \in Nat
    BY TicksNat
  <1>2. ts \in Slot /\ Dist(ts, cur_slot) = k % SLOTS_NUM
    BY <1>1, <1>t, TargetInWheel, DistTarget
  <1>3. /\ time_slot' = [time_slot EXCEPT ![t] = ts]
        /\ rotation' = [rotation EXCEPT ![t] = k \div SLOTS_NUM]
        /\ left' = [left EXCEPT ![t] = k]
        /\ shared' = IF L[ts] = <<>> THEN shared \ {t}
                                     ELSE shared \cup {t} \cup ListSet(L[ts])
    BY DEF Insert
  <1> HIDE DEF k, ts
  <1>4. \A u \in A : /\ u # t /\ time_slot'[u] = time_slot[u] /\ rotation'[u] = rotation[u]
                     /\ left'[u] = left[u] /\ u \in armed /\ u \in Timer
    BY <1>3, <1>t
  <1>5. time_slot'[t] = ts /\ rotation'[t] = k \div SLOTS_NUM /\ left'[t] = k
    BY <1>3, <1>t
  <1>6. \A u \in A : u \notin shared' => u \notin shared
    BY <1>3, <1>4
  <1>7. ASSUME NEW u \in A, time_slot[u] = ts
        PROVE  u \in shared' /\ t \in shared'
    <2>1. PICK i \in DOMAIN L[ts] : L[ts][i] = u
      BY <1>7 DEF Consistent, Occurs
    <2>2. L[ts] # <<>> /\ u \in ListSet(L[ts])
      BY <2>1 DEF ListSet
    <2> QED
      BY <2>2, <1>3
  <1>8. Alone'
    <2> SUFFICES ASSUME NEW v \in armed' \ shared', NEW u \in armed', time_slot'[u] = time_slot'[v]
                 PROVE  u = v
      BY DEF Alone
    <2>1. CASE v \in A /\ u \in A
      BY <2>1, <1>4, <1>6 DEF LoneInv, Alone
    <2>2. CASE v = t /\ u \in A
      BY <2>2, <1>4, <1>5, <1>7
    <2>3. CASE v \in A /\ u = t
      BY <2>3, <1>4, <1>5, <1>7
    <2> QED
      BY <2>1, <2>2, <2>3
  <1>9. Exact'
    <2> SUFFICES ASSUME NEW v \in armed' \ shared'
                 PROVE  left'[v] = rotation'[v] * SLOTS_NUM + Dist(time_slot'[v], cur_slot) + 0
      BY DEF Exact, Passed
    <2>1. CASE v \in A
      <3>1. left[v] = rotation[v] * SLOTS_NUM + Dist(time_slot[v], cur_slot) + 0
        BY <2>1, <1>4, <1>6 DEF LoneInv, Exact, Passed
      <3> QED
        BY <3>1, <2>1, <1>4
    <2>2. CASE v = t
      BY <2>2, <1>1, <1>2, <1>5, DivMod, WheelAssumption DEF Slot
    <2> QED
      BY <2>1, <2>2
  <1> QED
    BY <1>8, <1>9 DEF LoneInv

\* Freeing timers leaves the others alone; they keep turns, slot and time.
LEMMA FreeLone ==
    ASSUME IInv, LoneInv, NEW T, Free(T), cur_slot' = cur_slot,
           \A u \in (armed \ shared) \ T : (Passed(time_slot[u]))' = Passed(time_slot[u])
    PROVE  LoneInv'
  <1>1. \A u \in armed' : /\ u \in armed \ T /\ time_slot'[u] = time_slot[u]
                          /\ rotation'[u] = rotation[u] /\ left'[u] = left[u]
    BY DEF Free, IInv, TypeOK
  <1>2. armed' \ shared' = (armed \ shared) \ T
    BY DEF Free
  <1>3. Alone'
    BY <1>1, <1>2 DEF LoneInv, Alone
  <1>4. Exact'
    BY <1>1, <1>2 DEF LoneInv, Exact
  <1> QED
    BY <1>3, <1>4 DEF LoneInv

\* Every operation keeps lone timers exact.
LEMMA NextLoneInv ==
    ASSUME IInv, LoneInv, [Next]_wheelVars
    PROVE  LoneInv'
  <1>c. Consistent(slots, time_slot, armed) /\ IteratorValid
    BY WheelOKConsistent DEF IInv
  <1>t. /\ slots \in [Slot -> Seq(Timer)] /\ cur_slot \in Slot
        /\ time_slot \in [Timer -> Slot] /\ rotation \in [Timer -> Nat]
        /\ armed \in SUBSET Timer /\ left \in [Timer -> Int] /\ itr \in Nat
    BY DEF IInv, TypeOK
  <1>1. ASSUME NEW t \in Timer, NEW timeout \in Timeouts, AddTimer(t, timeout)
        PROVE  LoneInv'
    <2>1. /\ t \in Timer \ armed /\ Insert(t, timeout, slots) /\ phase = "idle"
          /\ phase' = "idle" /\ cur_slot' = cur_slot /\ armed' = armed \cup {t}
      BY <1>1 DEF AddTimer
    <2> QED
      BY <2>1, <1>c, <1>t, InsertLone
  <1>2. ASSUME NEW t \in Timer, NEW timeout \in Timeouts, ResetTimer(t, timeout)
        PROVE  LoneInv'
    <2> DEFINE L == Unlink(t)
               A == armed \ {t}
    <2>1. /\ t \in armed /\ Insert(t, timeout, L) /\ phase = "idle"
          /\ phase' = "idle" /\ cur_slot' = cur_slot /\ armed' = armed
      BY <1>2 DEF ResetTimer
    <2>2. L \in [Slot -> Seq(Timer)] /\ Consistent(L, time_slot, A)
      BY <2>1, UnlinkConsistent
    <2>3. A \in SUBSET armed /\ t \in Timer \ A /\ armed' = A \cup {t}
      BY <2>1
    <2> HIDE DEF L, A
    <2> QED
      BY <2>1, <2>2, <2>3, InsertLone
  <1>3. ASSUME NEW t \in Timer, DelTimer(t) PROVE LoneInv'
    <2>1. Free({t}) /\ cur_slot' = cur_slot /\ phase = "idle" /\ phase' = "idle"
      BY <1>3 DEF DelTimer
    <2> QED
      BY <2>1, FreeLone DEF Passed
  <1>4. CASE TickBegin
    <2>1. Alone'
      BY <1>4 DEF TickBegin, LoneInv, Alone
    <2>2. ~(itr' > 1) /\ phase # "tick"
      BY <1>4 DEF TickBegin
    <2>3. Exact'
      BY <1>4, <2>2 DEF TickBegin, LoneInv, Exact, Passed
    <2> QED
      BY <2>1, <2>3 DEF LoneInv
  <1>5. ASSUME NEW t \in Timer, TickSkip(t) PROVE LoneInv'
    <2>1. /\ phase = "tick" /\ phase' = "tick" /\ cur_slot' = cur_slot /\ rotation[t] > 0
          /\ itr \in DOMAIN slots[cur_slot] /\ slots[cur_slot][itr] = t
          /\ rotation' = [rotation EXCEPT ![t] = @ - 1] /\ itr' = itr + 1
          /\ armed' = armed /\ shared' = shared /\ time_slot' = time_slot /\ left' = left
      BY <1>5 DEF TickSkip, AtIterator
    <2>2. t \in armed /\ time_slot[t] = cur_slot
      BY <2>1, <1>c, <1>t DEF Consistent
    <2>3. Alone'
      BY <2>1 DEF LoneInv, Alone
    <2>4. Exact'
      <3> SUFFICES ASSUME NEW u \in armed \ shared
                   PROVE  left[u] = rotation'[u] * SLOTS_NUM + Dist(time_slot[u], cur_slot)
                              + (IF time_slot[u] = cur_slot /\ itr + 1 > 1 THEN SLOTS_NUM ELSE 0)
        BY <2>1 DEF Exact, Passed
      <3>1. left[u] = rotation[u] * SLOTS_NUM + Dist(time_slot[u], cur_slot)
                        + (IF time_slot[u] = cur_slot /\ itr > 1 THEN SLOTS_NUM ELSE 0)
        BY <2>1 DEF LoneInv, Exact, Passed
      <3>2. CASE u = t
        <4>1. itr = 1
          BY <3>2, <2>1, <2>2, LoneFirst DEF LoneInv
        <4>d. time_slot[u] \in Slot /\ Dist(time_slot[u], cur_slot) \in Nat
          BY <1>t, DistNat
        <4>2. Dist(time_slot[u], cur_slot) \in Int /\ SLOTS_NUM \in Int /\ rotation[t] \in Int
          BY <4>d, <1>t, WheelAssumption
        <4>3. rotation'[t] = rotation[t] - 1
          BY <2>1, <1>t
        <4>4. (rotation[t] - 1) * SLOTS_NUM + SLOTS_NUM = rotation[t] * SLOTS_NUM
          BY <4>2
        <4>5. rotation[t] * SLOTS_NUM \in Int /\ (rotation[t] - 1) * SLOTS_NUM \in Int
          BY <4>2
        <4> QED
          BY <3>1, <3>2, <4>1, <4>2, <4>3, <4>4, <4>5, <2>2
      <3>3. CASE u # t
        <4>1. time_slot[u] # cur_slot
          BY <3>3, <2>2 DEF LoneInv, Alone
        <4>2. rotation'[u] = rotation[u]
          BY <3>3, <2>1, <1>t
        <4> QED
          BY <3>1, <4>1, <4>2
      <3> QED
        BY <3>2, <3>3
    <2> QED
      BY <2>3, <2>4 DEF LoneInv
  <1>6. ASSUME NEW t \in Timer, TickExpire(t) PROVE LoneInv'
    <2>1. /\ phase = "tick" /\ phase' = "tick" /\ cur_slot' = cur_slot /\ Free({t})
          /\ itr \in DOMAIN slots[cur_slot] /\ slots[cur_slot][itr] = t
      BY <1>6 DEF TickExpire, AtIterator
    <2>2. t \in armed /\ time_slot[t] = cur_slot
      BY <2>1, <1>c, <1>t DEF Consistent
    <2>3. \A u \in (armed \ shared) \ {t} : time_slot[u] # cur_slot /\ time_slot'[u] = time_slot[u]
      BY <2>1, <2>2, <1>t DEF LoneInv, Alone, Free
    <2>4. \A u \in (armed \ shared) \ {t} : (Passed(time_slot[u]))' = Passed(time_slot[u])
      BY <2>1, <2>3 DEF Passed
    <2> QED
      BY <2>1, <2>4, FreeLone
  <1>7. CASE TickEnd
    <2>1. /\ phase = "tick" /\ phase' = "idle" /\ itr = Len(slots[cur_slot]) + 1
          /\ cur_slot' = (cur_slot + 1) % SLOTS_NUM
          /\ armed' = armed /\ shared' = shared /\ time_slot' = time_slot /\ rotation' = rotation
          /\ \A u \in armed : left'[u] = left[u] - 1
      BY <1>7, <1>t DEF TickEnd
    <2>2. Alone'
      BY <2>1 DEF LoneInv, Alone
    <2>3. Exact'
      <3> SUFFICES ASSUME NEW u \in armed \ shared
                   PROVE  left[u] - 1 = rotation[u] * SLOTS_NUM
                                          + Dist(time_slot[u], (cur_slot + 1) % SLOTS_NUM) + 0
        BY <2>1 DEF Exact, Passed
      <3>1. left[u] = rotation[u] * SLOTS_NUM + Dist(time_slot[u], cur_slot)
                        + (IF time_slot[u] = cur_slot /\ itr > 1 THEN SLOTS_NUM ELSE 0)
        BY <2>1 DEF LoneInv, Exact, Passed
      <3> DEFINE d == Dist(time_slot[u], cur_slot)
                 e == Dist(time_slot[u], (cur_slot + 1) % SLOTS_NUM)
                 p == rotation[u] * SLOTS_NUM
      <3>2. /\ d \in Slot /\ (d = 0 <=> time_slot[u] = cur_slot)
            /\ e = IF time_slot[u] = cur_slot THEN SLOTS_NUM - 1 ELSE d - 1
        BY <1>t, DistTick
      <3>3. p \in Int /\ d \in Int /\ SLOTS_NUM \in Int
        BY <1>t, <3>2, WheelAssumption DEF Slot
      <3>4. time_slot[u] = cur_slot => itr > 1
        <4> SUFFICES ASSUME time_slot[u] = cur_slot PROVE itr > 1
          OBVIOUS
        <4>1. PICK i \in DOMAIN slots[cur_slot] : slots[cur_slot][i] = u
          BY <1>c DEF Consistent, Occurs
        <4>2. slots[cur_slot] \in Seq(Timer)
          BY <1>t
        <4> QED
          BY <4>1, <4>2, <2>1
      <3> HIDE DEF d, e, p
      <3>5. left[u] = p + d + (IF time_slot[u] = cur_slot /\ itr > 1 THEN SLOTS_NUM ELSE 0)
        BY <3>1 DEF p, d
      <3>6. left[u] - 1 = p + e + 0
        BY <3>2, <3>3, <3>4, <3>5
      <3> QED
        BY <3>6 DEF p, e
    <2> QED
      BY <2>2, <2>3 DEF LoneInv
  <1>8. CASE Destroy
    <2> DEFINE T == UNION {ListSet(slots[s]) : s \in Slot}
    <2>1. Free(T) /\ cur_slot' = cur_slot /\ phase = "idle" /\ phase' = "gone"
      BY <1>8 DEF Destroy
    <2> HIDE DEF T
    <2> QED
      BY <2>1, FreeLone DEF Passed
  <1>9. CASE UNCHANGED wheelVars
    BY <1>9 DEF wheelVars, LoneInv, Alone, Exact, Passed
  <1> QED
    BY <1>1, <1>2, <1>3, <1>4, <1>5, <1>6, <1>7, <1>8, <1>9 DEF Next, TickStep, Gone

(* A timer that never shared its slot expires in exactly the tick it was   *)
(* set to, for any timeout, any number of turns and any sequence of calls  *)
(* about it and the other timers.                                          *)
THEOREM LoneOnTime == Spec => []LoneTimersOnTime
  <1>1. Init => IInv /\ LoneInv
    BY InitIInv DEF Init, LoneInv, Alone, Exact
  <1>2. IInv /\ LoneInv /\ [Next]_wheelVars => IInv' /\ LoneInv'
    BY NextIInv, NextLoneInv
  <1>3. IInv /\ LoneInv => LoneTimersOnTime
    <2> SUFFICES ASSUME IInv, LoneInv, NEW t \in armed \ shared
                 PROVE  left[t] >= 0 /\ (Expiring(t) => left[t] = 0)
      BY DEF LoneTimersOnTime
    <2> DEFINE d == Dist(time_slot[t], cur_slot)
               p == rotation[t] * SLOTS_NUM
               x == IF Passed(time_slot[t]) THEN SLOTS_NUM ELSE 0
    <2>1. /\ cur_slot \in Slot /\ time_slot[t] \in Slot /\ rotation[t] \in Nat
          /\ slots \in [Slot -> Seq(Timer)] /\ ListsHoldArmed
      BY DEF IInv, TypeOK, WheelOK
    <2>2. left[t] = p + d + x
      BY DEF LoneInv, Exact
    <2>3. p \in Nat /\ d \in Nat /\ x \in Nat
      <3>1. p \in Nat
        BY <2>1, WheelAssumption
      <3>2. d \in Nat
        BY <2>1, DistNat
      <3>3. x \in Nat
        BY WheelAssumption
      <3> QED
        BY <3>1, <3>2, <3>3
    <2>4. ASSUME Expiring(t) PROVE p = 0 /\ d = 0 /\ x = 0
      <3>1. time_slot[t] = cur_slot /\ itr \in DOMAIN slots[cur_slot] /\ rotation[t] = 0
        BY <2>1, <2>4 DEF Expiring, AtIterator, ListsHoldArmed
      <3>2. itr = 1
        BY <3>1, LoneFirst DEF LoneInv
      <3>3. d = 0
        BY <3>1, <2>1, DistTick
      <3>4. p = 0
        BY <3>1, WheelAssumption
      <3> QED
        BY <3>2, <3>3, <3>4 DEF Passed
    <2> HIDE DEF d, p, x
    <2> QED
      BY <2>2, <2>3, <2>4
  <1> QED
    BY <1>1, <1>2, <1>3, PTL DEF Spec

-----------------------------------------------------------------------------
(* tick() comes to an end: the argument behind TickTerminates              *)

\* The iterator is at end() or on an existing timer, so the loop has a next step.
TickHasNext ==
    phase = "tick" => \/ itr = Len(slots[cur_slot]) + 1
                      \/ \E t \in armed : AtIterator(t) /\ rotation[t] \in Nat

(* A step of the loop erases a timer from the list, or moves the iterator  *)
(* towards the end of a list that stays as it is.                          *)
TickFalls ==
    phase = "tick" /\ phase' = "tick" =>
        \/ Len(slots'[cur_slot]) < Len(slots[cur_slot])
        \/ /\ slots'[cur_slot] = slots[cur_slot]
           /\ itr < itr' /\ itr' <= Len(slots[cur_slot]) + 1

(* Although an erase at the end of a list sends the iterator back to its   *)
(* beginning, no tick() goes around for ever: the pair of the list's       *)
(* length and the distance of the iterator from end() falls in each step,  *)
(* for any lists, and there is a step to take until end() is reached.      *)
THEOREM TickProgress == Spec => []TickHasNext /\ [][TickFalls]_wheelVars
  <1>1. ASSUME IInv PROVE TickHasNext
    <2> SUFFICES ASSUME phase = "tick", itr # Len(slots[cur_slot]) + 1
                 PROVE  \E t \in armed : AtIterator(t) /\ rotation[t] \in Nat
      BY DEF TickHasNext
    <2>1. /\ slots \in [Slot -> Seq(Timer)] /\ cur_slot \in Slot /\ armed \subseteq Timer
          /\ itr \in 1 .. Len(slots[cur_slot]) + 1 /\ rotation \in [Timer -> Nat]
      BY <1>1 DEF IInv, TypeOK, WheelOK, IteratorValid
    <2>2. itr \in DOMAIN slots[cur_slot]
      BY <2>1
    <2>3. slots[cur_slot][itr] \in armed
      BY <1>1, <2>1, <2>2 DEF IInv, WheelOK, ListsHoldArmed
    <2> QED
      BY <2>1, <2>2, <2>3 DEF AtIterator
  <1>2. ASSUME IInv, Next PROVE TickFalls
    <2> SUFFICES ASSUME phase = "tick", phase' = "tick"
                 PROVE  \/ Len(slots'[cur_slot]) < Len(slots[cur_slot])
                        \/ /\ slots'[cur_slot] = slots[cur_slot]
                           /\ itr < itr' /\ itr' <= Len(slots[cur_slot]) + 1
      BY DEF TickFalls
    <2>1. slots \in [Slot -> Seq(Timer)] /\ cur_slot \in Slot /\ itr \in Nat
      BY <1>2 DEF IInv, TypeOK
    <2>2. PICK t \in Timer : TickSkip(t) \/ TickExpire(t)
      BY <1>2 DEF Next, AddTimer, ResetTimer, DelTimer, TickBegin, TickStep, TickEnd, Destroy, Gone
    <2>3. itr \in 1 .. Len(slots[cur_slot]) /\ Len(slots[cur_slot]) \in Nat
      BY <2>1, <2>2 DEF TickSkip, TickExpire, AtIterator
    <2>4. CASE TickSkip(t)
      BY <2>3, <2>4 DEF TickSkip
    <2>5. CASE TickExpire(t)
      <3>1. slots'[cur_slot] = Erase(slots[cur_slot], itr)
        BY <2>1, <2>5 DEF TickExpire
      <3>2. Len(Erase(slots[cur_slot], itr)) = Len(slots[cur_slot]) - 1
        BY <2>1, <2>3, EraseProperties
      <3> QED
        BY <2>3, <3>1, <3>2
    <2> QED
      BY <2>2, <2>4, <2>5
  <1>3. IInv /\ [Next]_wheelVars => [TickFalls]_wheelVars
    BY <1>2
  <1> QED
    BY <1>1, <1>3, InitIInv, NextIInv, PTL DEF Spec

=============================================================================
