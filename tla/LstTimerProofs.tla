--------------------------- MODULE LstTimerProofs ---------------------------
(***************************************************************************)
(* Proofs about LstTimer, for any set of timers and any delays: the        *)
(* objects of src/time_wheel/lst_timer.hpp form one sorted doubly linked   *)
(* list in every state, and the list implements the abstract TimerQueue.   *)
(*                                                                         *)
(* Every operation takes one element out of a list, puts one element into  *)
(* it, or does one after the other.  The lemmas Unlinked and Linked say    *)
(* what that does to a list that need not be the current one.              *)
(***************************************************************************)
EXTENDS LstTimer, FiniteSetTheorems, WellFoundedInduction, TLAPS

(* The n elements of L, in the order of l, make up a list from hd to tl    *)
(* with the pointers nx and pv, in ascending order of ex.                  *)
Chain(l, n, L, hd, tl, nx, pv, ex) ==
    /\ n \in Nat \ {0} /\ l \in [1 .. n -> L]
    /\ \A i, j \in 1 .. n : l[i] = l[j] => i = j
    /\ \A t \in L : \E i \in 1 .. n : l[i] = t
    /\ hd = l[1] /\ tl = l[n] /\ pv[l[1]] = NULL /\ nx[l[n]] = NULL
    /\ \A i \in 1 .. n - 1 : nx[l[i]] = l[i + 1] /\ pv[l[i + 1]] = l[i]
    /\ \A i \in 1 .. n - 1 : ex[l[i]] <= ex[l[i + 1]]

\* The elements of L are such a list.
IsList(L, hd, tl, nx, pv, ex) == \E n, l : Chain(l, n, L, hd, tl, nx, pv, ex)

\* The current list.
Shape ==
    \/ live = {} /\ head = NULL
    \/ IsList(live, head, tail, next, prev, expire)

\* A deleted object is given out again with its pointers cleared.
DeadClear == \A t \in Timer \ live : next[t] = NULL /\ prev[t] = NULL

IInv == TypeOK /\ Shape /\ DeadClear

-----------------------------------------------------------------------------
(* Lists                                                                   *)

\* A set of natural numbers that is not empty has a least element.
LEMMA LeastNatural ==
    ASSUME NEW S \in SUBSET Nat, S # {}
    PROVE  \E x \in S : \A y \in S : x <= y
  <1> DEFINE R == OpToRel(<, Nat)
  <1>1. \A x, y \in Nat : <<y, x>> \in R <=> y < x
    BY DEF OpToRel
  <1>2. IsWellFoundedOn(R, Nat)
    BY NatLessThanWellFounded
  <1> HIDE DEF R
  <1>3. PICK x \in S : \A y \in S : ~(<<y, x>> \in R)
    BY <1>2, WFMin
  <1>4. \A y \in S : ~(y < x)
    BY <1>1, <1>3
  <1> QED
    BY <1>4

\* A list has as many elements as its set.
LEMMA ChainLength ==
    ASSUME NEW l, NEW n, NEW L, NEW hd, NEW tl, NEW nx, NEW pv, NEW ex,
           Chain(l, n, L, hd, tl, nx, pv, ex)
    PROVE  Cardinality(L) = n
  <1>1. /\ n \in Nat /\ l \in [1 .. n -> L]
        /\ \A i, j \in 1 .. n : l[i] = l[j] => i = j
        /\ \A t \in L : \E i \in 1 .. n : l[i] = t
    BY DEF Chain
  <1>2. l \in Surjection(1 .. n, L) /\ l \in Injection(1 .. n, L)
    BY <1>1 DEF Surjection, Injection, IsInjective
  <1>3. IsFiniteSet(1 .. n) /\ Cardinality(1 .. n) = n
    BY <1>1, FS_Interval
  <1> QED
    BY <1>2, <1>3, FS_Surjection

\* The head of a list expires first.
LEMMA HeadFirst ==
    ASSUME NEW l, NEW n, NEW L \in SUBSET Timer, NEW hd, NEW tl, NEW nx, NEW pv,
           NEW ex \in [Timer -> Nat], Chain(l, n, L, hd, tl, nx, pv, ex), NEW t \in L
    PROVE  ex[hd] <= ex[t]
  <1>1. /\ n \in Nat \ {0} /\ l \in [1 .. n -> L] /\ hd = l[1]
        /\ \A i \in 1 .. n - 1 : ex[l[i]] <= ex[l[i + 1]]
    BY DEF Chain
  <1>2. PICK k \in 1 .. n : l[k] = t
    BY DEF Chain
  <1>3. \A i \in 1 .. n : ex[l[i]] \in Nat
    BY <1>1
  <1> DEFINE S == {i \in 1 .. n : ~(ex[l[1]] <= ex[l[i]])}
  <1>4. SUFFICES ASSUME S # {} PROVE FALSE
    BY <1>1, <1>2
  <1>s. S \in SUBSET Nat
    BY <1>1
  <1>5. PICK m \in S : \A y \in S : m <= y
    <2> HIDE DEF S
    <2> QED
      BY <1>s, <1>4, LeastNatural
  <1>6. m # 1
    BY <1>1, <1>3
  <1>7. m - 1 \in 1 .. n - 1 /\ m - 1 \in 1 .. n /\ (m - 1) + 1 = m
    BY <1>1, <1>6
  <1>8. ex[l[1]] <= ex[l[m - 1]]
    BY <1>5, <1>7
  <1>9. ex[l[m - 1]] <= ex[l[m]]
    BY <1>1, <1>7
  <1> QED
    BY <1>1, <1>3, <1>7, <1>8, <1>9

(* The pointers of the neighbours of the element at position k skip it,    *)
(* and the ends hd2 and tl2 do not name it.                                *)
Skips(l, n, k, hd, tl, nx, pv, hd2, tl2, nx2, pv2) ==
    /\ hd2 = IF k = 1 THEN l[2] ELSE hd
    /\ tl2 = IF k = n THEN l[n - 1] ELSE tl
    /\ \A i \in 1 .. n : i # k =>
          /\ nx2[l[i]] = IF i = k - 1 THEN nx[l[k]] ELSE nx[l[i]]
          /\ pv2[l[i]] = IF i = k + 1 THEN pv[l[k]] ELSE pv[l[i]]

\* Taking the element at position k out of a list of two or more.
LEMMA Unlinked ==
    ASSUME NEW l, NEW n, NEW L \in SUBSET Timer, NEW hd, NEW tl, NEW nx, NEW pv,
           NEW ex \in [Timer -> Nat], Chain(l, n, L, hd, tl, nx, pv, ex),
           n >= 2, NEW k \in 1 .. n, NEW hd2, NEW tl2, NEW nx2, NEW pv2,
           NEW ex2 \in [Timer -> Nat], \A u \in L \ {l[k]} : ex2[u] = ex[u],
           Skips(l, n, k, hd, tl, nx, pv, hd2, tl2, nx2, pv2)
    PROVE  IsList(L \ {l[k]}, hd2, tl2, nx2, pv2, ex2)
  <1> DEFINE m == [i \in 1 .. n - 1 |-> IF i < k THEN l[i] ELSE l[i + 1]]
  <1>0. n \in Nat
    BY DEF Chain
  <1>1. /\ n \in Nat /\ k \in Nat /\ k >= 1 /\ k <= n /\ l \in [1 .. n -> L]
        /\ \A i, j \in 1 .. n : l[i] = l[j] => i = j
        /\ \A u \in L : \E i \in 1 .. n : l[i] = u
        /\ hd = l[1] /\ tl = l[n] /\ pv[l[1]] = NULL /\ nx[l[n]] = NULL
        /\ \A i \in 1 .. n - 1 : nx[l[i]] = l[i + 1] /\ pv[l[i + 1]] = l[i]
        /\ \A i \in 1 .. n - 1 : ex[l[i]] <= ex[l[i + 1]]
    BY <1>0 DEF Chain
  <1>2. \A i \in 1 .. n - 1 : i < k => m[i] = l[i] /\ i \in 1 .. n /\ i # k
    BY <1>1
  <1>3. \A i \in 1 .. n - 1 : i >= k => m[i] = l[i + 1] /\ i + 1 \in 1 .. n /\ i + 1 # k
    BY <1>1
  <1>4. m \in [1 .. n - 1 -> L \ {l[k]}]
    <2>1. \A i \in 1 .. n - 1 : m[i] \in L \ {l[k]}
      <3> TAKE i \in 1 .. n - 1
      <3>1. CASE i < k
        BY <1>1, <1>2, <3>1
      <3>2. CASE i >= k
        BY <1>1, <1>3, <3>2
      <3> QED
        BY <1>1, <3>1, <3>2
    <2> QED
      BY <2>1
  <1> HIDE DEF m
  <1>5. ASSUME NEW i \in 1 .. n - 1, NEW j \in 1 .. n - 1, m[i] = m[j] PROVE i = j
    <2> DEFINE s(x) == IF x < k THEN x ELSE x + 1
    <2>1. \A x \in 1 .. n - 1 : m[x] = l[s(x)] /\ s(x) \in 1 .. n
      BY <1>1, <1>2, <1>3
    <2>2. s(i) = s(j)
      <3> HIDE DEF s
      <3> QED
        BY <1>1, <1>5, <2>1
    <2>3. i \in Int /\ j \in Int /\ k \in Int
      BY <1>0
    <2> QED
      BY <2>2, <2>3
  <1>6. ASSUME NEW u \in L \ {l[k]} PROVE \E i \in 1 .. n - 1 : m[i] = u
    <2>1. PICK j \in 1 .. n : l[j] = u
      BY <1>1
    <2>2. CASE j < k
      <3>1. j \in 1 .. n - 1 /\ m[j] = u
        BY <1>1, <1>2, <2>1, <2>2
      <3> QED
        BY <3>1
    <2>3. CASE j > k
      <3>1. j - 1 \in 1 .. n - 1 /\ j - 1 >= k /\ (j - 1) + 1 = j
        BY <1>1, <2>3
      <3>2. m[j - 1] = u
        BY <1>3, <2>1, <3>1
      <3> QED
        BY <3>1, <3>2
    <2>4. j # k
      BY <2>1
    <2> QED
      BY <1>1, <2>2, <2>3, <2>4
  <1> USE DEF Skips
  <1>7. hd2 = m[1] /\ pv2[m[1]] = NULL
    <2>1. CASE k = 1
      <3>1. m[1] = l[2] /\ 2 \in 1 .. n /\ 2 # k /\ 2 = k + 1
        BY <1>1, <1>3, <2>1
      <3> QED
        BY <1>1, <2>1, <3>1
    <2>2. CASE k # 1
      <3>1. m[1] = l[1] /\ 1 \in 1 .. n /\ 1 # k /\ 1 # k + 1
        BY <1>1, <1>2, <2>2
      <3> QED
        BY <1>1, <2>2, <3>1
    <2> QED
      BY <2>1, <2>2
  <1>8. tl2 = m[n - 1] /\ nx2[m[n - 1]] = NULL
    <2>1. CASE k = n
      <3>1. m[n - 1] = l[n - 1] /\ n - 1 \in 1 .. n /\ n - 1 # k /\ n - 1 = k - 1
        BY <1>1, <1>2, <2>1
      <3> QED
        BY <1>1, <2>1, <3>1
    <2>2. CASE k # n
      <3>1. m[n - 1] = l[n] /\ n \in 1 .. n /\ n # k /\ n # k - 1
        BY <1>1, <1>3, <2>2
      <3> QED
        BY <1>1, <2>2, <3>1
    <2> QED
      BY <2>1, <2>2
  <1>9. ASSUME NEW i \in 1 .. (n - 1) - 1
        PROVE  /\ nx2[m[i]] = m[i + 1] /\ pv2[m[i + 1]] = m[i]
               /\ ex[m[i]] <= ex[m[i + 1]]
    <2>1. CASE i + 1 < k
      <3>1. /\ i \in 1 .. n - 1 /\ i \in 1 .. n /\ i + 1 \in 1 .. n - 1 /\ i + 1 \in 1 .. n
            /\ i < k /\ i # k /\ i # k - 1 /\ i + 1 # k /\ i + 1 # k + 1
        BY <1>0, <2>1
      <3>2. m[i] = l[i] /\ m[i + 1] = l[i + 1]
        BY <1>2, <2>1, <3>1
      <3> QED
        BY <1>1, <3>1, <3>2
    <2>2. CASE i + 1 = k
      <3>1. /\ m[i] = l[i] /\ m[i + 1] = l[k + 1] /\ i \in 1 .. n - 1 /\ i \in 1 .. n
            /\ k + 1 \in 1 .. n /\ k \in 1 .. n - 1 /\ i # k /\ i = k - 1 /\ k + 1 # k
        BY <1>1, <1>2, <1>3, <2>2
      <3>2. nx[l[k]] = l[k + 1] /\ pv[l[k]] = l[i]
        BY <1>1, <2>2, <3>1
      <3>3. ex[l[i]] <= ex[l[k]] /\ ex[l[k]] <= ex[l[k + 1]]
        BY <1>1, <2>2, <3>1
      <3>4. ex[l[i]] \in Nat /\ ex[l[k]] \in Nat /\ ex[l[k + 1]] \in Nat
        BY <1>1, <3>1
      <3>5. ex[m[i]] <= ex[m[i + 1]]
        BY <3>1, <3>3, <3>4
      <3> QED
        BY <3>1, <3>2, <3>5
    <2>3. CASE i + 1 > k
      <3> DEFINE j == i + 1
      <3>1. /\ i \in 1 .. n - 1 /\ i >= k /\ j >= k /\ j \in 1 .. n - 1 /\ j \in 1 .. n
            /\ j + 1 \in 1 .. n /\ j # k /\ j # k - 1 /\ j + 1 # k /\ j + 1 # k + 1
        BY <1>0, <2>3
      <3>2. m[i] = l[j]
        BY <1>3, <3>1
      <3> HIDE DEF j
      <3>3. m[j] = l[j + 1]
        BY <1>3, <3>1
      <3>4. nx2[l[j]] = nx[l[j]] /\ pv2[l[j + 1]] = pv[l[j + 1]]
        BY <3>1
      <3>5. nx[l[j]] = l[j + 1] /\ pv[l[j + 1]] = l[j] /\ ex[l[j]] <= ex[l[j + 1]]
        BY <1>1, <3>1
      <3>6. nx2[m[i]] = m[j] /\ pv2[m[j]] = m[i] /\ ex[m[i]] <= ex[m[j]]
        BY <3>2, <3>3, <3>4, <3>5
      <3> QED
        BY <3>6 DEF j
    <2> QED
      BY <1>1, <2>1, <2>2, <2>3
  <1>10. \A i \in 1 .. n - 1 : ex2[m[i]] = ex[m[i]]
    BY <1>4
  <1>11. \A i \in 1 .. (n - 1) - 1 : ex2[m[i]] <= ex2[m[i + 1]]
    <2> TAKE i \in 1 .. (n - 1) - 1
    <2>1. i \in 1 .. n - 1 /\ i + 1 \in 1 .. n - 1
      BY <1>1
    <2> QED
      BY <1>9, <1>10, <2>1
  <1>12. n - 1 \in Nat \ {0}
    BY <1>1
  <1>13. Chain(m, n - 1, L \ {l[k]}, hd2, tl2, nx2, pv2, ex2)
    BY <1>4, <1>5, <1>6, <1>7, <1>8, <1>9, <1>11, <1>12 DEF Chain
  <1> QED
    BY <1>13, Zenon DEF IsList

\* The pointers and the ends take up t behind position k, which is 0 for the front.
Takes(l, n, k, t, hd, tl, nx, pv, hd2, tl2, nx2, pv2) ==
    /\ hd2 = IF k = 0 THEN t ELSE hd
    /\ tl2 = IF k = n THEN t ELSE tl
    /\ nx2[t] = IF k = n THEN NULL ELSE l[k + 1]
    /\ pv2[t] = IF k = 0 THEN NULL ELSE l[k]
    /\ \A i \in 1 .. n : /\ nx2[l[i]] = IF i = k THEN t ELSE nx[l[i]]
                         /\ pv2[l[i]] = IF i = k + 1 THEN t ELSE pv[l[i]]

\* The place behind position k keeps the order.
Fits(l, n, k, t, ex2) ==
    (k > 0 => ex2[l[k]] <= ex2[t]) /\ (k < n => ex2[t] <= ex2[l[k + 1]])

\* Putting t into a list where it fits.
LEMMA Linked ==
    ASSUME NEW l, NEW n, NEW L \in SUBSET Timer, NEW hd, NEW tl, NEW nx, NEW pv,
           NEW ex \in [Timer -> Nat], Chain(l, n, L, hd, tl, nx, pv, ex),
           NEW k \in 0 .. n, NEW t \in Timer \ L, NEW hd2, NEW tl2, NEW nx2, NEW pv2,
           NEW ex2 \in [Timer -> Nat], \A u \in L : ex2[u] = ex[u], Fits(l, n, k, t, ex2),
           Takes(l, n, k, t, hd, tl, nx, pv, hd2, tl2, nx2, pv2)
    PROVE  IsList(L \cup {t}, hd2, tl2, nx2, pv2, ex2)
  <1> DEFINE m == [i \in 1 .. n + 1 |-> IF i <= k THEN l[i] ELSE IF i = k + 1 THEN t
                                        ELSE l[i - 1]]
  <1>1. /\ n \in Nat /\ n >= 1 /\ k \in Nat /\ k <= n /\ l \in [1 .. n -> L]
        /\ \A i, j \in 1 .. n : l[i] = l[j] => i = j
        /\ \A u \in L : \E i \in 1 .. n : l[i] = u
        /\ hd = l[1] /\ tl = l[n] /\ pv[l[1]] = NULL /\ nx[l[n]] = NULL
        /\ \A i \in 1 .. n - 1 : nx[l[i]] = l[i + 1] /\ pv[l[i + 1]] = l[i]
        /\ \A i \in 1 .. n - 1 : ex[l[i]] <= ex[l[i + 1]]
    BY DEF Chain
  <1>2. \A i \in 1 .. n + 1 : i <= k => m[i] = l[i] /\ i \in 1 .. n
    BY <1>1
  <1>3. m[k + 1] = t /\ k + 1 \in 1 .. n + 1
    BY <1>1
  <1>4. \A i \in 1 .. n + 1 : i > k + 1 => m[i] = l[i - 1] /\ i - 1 \in 1 .. n
    BY <1>1
  <1>5. m \in [1 .. n + 1 -> L \cup {t}]
    <2>1. \A i \in 1 .. n + 1 : m[i] \in L \cup {t}
      <3> TAKE i \in 1 .. n + 1
      <3>1. CASE i <= k
        BY <1>1, <1>2, <3>1
      <3>2. CASE i = k + 1
        BY <1>3, <3>2
      <3>3. CASE i > k + 1
        BY <1>1, <1>4, <3>3
      <3> QED
        BY <1>1, <3>1, <3>2, <3>3
    <2> QED
      BY <2>1
  <1> HIDE DEF m
  <1>6. ASSUME NEW i \in 1 .. n + 1, NEW j \in 1 .. n + 1, m[i] = m[j] PROVE i = j
    <2> DEFINE s(x) == IF x <= k THEN x ELSE x - 1
    <2>1. \A x \in 1 .. n + 1 : x # k + 1 => m[x] = l[s(x)] /\ s(x) \in 1 .. n
      BY <1>1, <1>2, <1>4
    <2>2. \A x \in 1 .. n + 1 : x # k + 1 => m[x] \in L
      <3> HIDE DEF s
      <3> QED
        BY <1>1, <2>1
    <2>3. CASE i = k + 1 \/ j = k + 1
      BY <1>3, <1>6, <2>2, <2>3
    <2>4. CASE i # k + 1 /\ j # k + 1
      <3>1. s(i) = s(j)
        <4> HIDE DEF s
        <4> QED
          BY <1>1, <1>6, <2>1, <2>4
      <3>2. i \in Int /\ j \in Int /\ k \in Int
        BY <1>1
      <3> QED
        BY <2>4, <3>1, <3>2
    <2> QED
      BY <2>3, <2>4
  <1>7. ASSUME NEW u \in L \cup {t} PROVE \E i \in 1 .. n + 1 : m[i] = u
    <2>1. CASE u = t
      BY <1>3, <2>1
    <2>2. CASE u \in L
      <3>1. PICK j \in 1 .. n : l[j] = u
        BY <1>1, <2>2
      <3>2. CASE j <= k
        <4>1. j \in 1 .. n + 1 /\ m[j] = u
          BY <1>1, <1>2, <3>1, <3>2
        <4> QED
          BY <4>1
      <3>3. CASE j > k
        <4>1. j + 1 \in 1 .. n + 1 /\ j + 1 > k + 1 /\ (j + 1) - 1 = j
          BY <1>1, <3>3
        <4>2. m[j + 1] = u
          BY <1>4, <3>1, <4>1
        <4> QED
          BY <4>1, <4>2
      <3> QED
        BY <1>1, <3>2, <3>3
    <2> QED
      BY <2>1, <2>2
  <1> USE DEF Takes, Fits
  <1>8. hd2 = m[1] /\ pv2[m[1]] = NULL
    <2>1. CASE k = 0
      BY <1>3, <2>1
    <2>2. CASE k # 0
      <3>1. m[1] = l[1] /\ 1 \in 1 .. n /\ 1 # k + 1
        BY <1>1, <1>2, <2>2
      <3> QED
        BY <1>1, <2>2, <3>1
    <2> QED
      BY <2>1, <2>2
  <1>9. tl2 = m[n + 1] /\ nx2[m[n + 1]] = NULL
    <2>1. CASE k = n
      BY <1>3, <2>1
    <2>2. CASE k # n
      <3>1. m[n + 1] = l[n] /\ n \in 1 .. n
        <4>1. n + 1 \in 1 .. n + 1 /\ n + 1 > k + 1 /\ (n + 1) - 1 = n
          BY <1>1, <2>2
        <4> QED
          BY <1>4, <4>1
      <3> QED
        BY <1>1, <2>2, <3>1
    <2> QED
      BY <2>1, <2>2
  <1>10. \A i \in 1 .. n - 1 : ex2[l[i]] <= ex2[l[i + 1]]
    <2> TAKE i \in 1 .. n - 1
    <2>1. i \in 1 .. n /\ i + 1 \in 1 .. n
      BY <1>1
    <2>2. ex2[l[i]] = ex[l[i]] /\ ex2[l[i + 1]] = ex[l[i + 1]]
      BY <1>1, <2>1
    <2> QED
      BY <1>1, <2>2
  <1>11. ASSUME NEW i \in 1 .. (n + 1) - 1
         PROVE  /\ nx2[m[i]] = m[i + 1] /\ pv2[m[i + 1]] = m[i]
                /\ ex2[m[i]] <= ex2[m[i + 1]]
    <2>1. CASE i < k
      <3>1. /\ m[i] = l[i] /\ m[i + 1] = l[i + 1] /\ i \in 1 .. n - 1 /\ i \in 1 .. n
            /\ i + 1 \in 1 .. n /\ i # k /\ i + 1 # k + 1
        BY <1>1, <1>2, <2>1
      <3> QED
        BY <1>1, <1>10, <3>1
    <2>2. CASE i = k
      <3>1. m[i] = l[k] /\ m[i + 1] = t /\ k \in 1 .. n /\ k # 0 /\ k > 0
        BY <1>1, <1>2, <1>3, <2>2
      <3> QED
        BY <3>1
    <2>3. CASE i = k + 1
      <3>1. m[i] = t /\ m[i + 1] = l[k + 1] /\ k + 1 \in 1 .. n /\ k # n /\ k < n
        <4>1. i + 1 \in 1 .. n + 1 /\ i + 1 > k + 1 /\ (i + 1) - 1 = k + 1
          BY <1>1, <2>3
        <4> QED
          BY <1>1, <1>3, <1>4, <2>3, <4>1
      <3> QED
        BY <3>1
    <2>4. CASE i > k + 1
      <3> DEFINE j == i - 1
      <3>1. /\ i \in 1 .. n + 1 /\ i + 1 \in 1 .. n + 1 /\ i + 1 > k + 1 /\ i = j + 1
            /\ j \in 1 .. n - 1 /\ j \in 1 .. n /\ j + 1 \in 1 .. n /\ j # k /\ j + 1 # k + 1
        BY <1>1, <2>4
      <3>2. m[i] = l[j]
        BY <1>4, <2>4, <3>1
      <3>3. m[i + 1] = l[i]
        <4>1. (i + 1) - 1 = i
          BY <3>1
        <4> QED
          BY <1>4, <3>1, <4>1
      <3> HIDE DEF j
      <3>4. l[i] = l[j + 1]
        BY <3>1
      <3>5. nx2[l[j]] = nx[l[j]] /\ pv2[l[j + 1]] = pv[l[j + 1]]
        BY <3>1
      <3>6. nx[l[j]] = l[j + 1] /\ pv[l[j + 1]] = l[j]
        BY <1>1, <3>1
      <3>7. ex2[l[j]] <= ex2[l[j + 1]]
        BY <1>10, <3>1
      <3> QED
        BY <3>2, <3>3, <3>4, <3>5, <3>6, <3>7
    <2> QED
      BY <1>1, <2>1, <2>2, <2>3, <2>4
  <1>12. n + 1 \in Nat \ {0}
    BY <1>1
  <1>13. Chain(m, n + 1, L \cup {t}, hd2, tl2, nx2, pv2, ex2)
    BY <1>5, <1>6, <1>7, <1>8, <1>9, <1>11, <1>12 DEF Chain
  <1> QED
    BY <1>13, Zenon DEF IsList

-----------------------------------------------------------------------------
(* The loop of the private add_timer                                       *)

\* One turn of the loop, with f for the turns that follow.
WalkBody(e, nx, f) ==
    [p \in Timer |-> IF nx[p] = NULL THEN p
                     ELSE IF e < expire[nx[p]] THEN p ELSE f[nx[p]]]

\* The pointers of objects outside the list L lead into it or nowhere.
Aside(L, nx) == \A p \in Timer \ L : nx[p] \in L \cup {NULL}

\* The loop has an end on the pointers nx.
WalkEnds(e, nx) == \E f : f = WalkBody(e, nx, f)

(* The loop ends on every list, so that the recursive function that stands *)
(* for it exists.                                                          *)
LEMMA WalkExists ==
    ASSUME NEW l, NEW n, NEW L \in SUBSET Timer, NEW hd, NEW tl, NEW nx, NEW pv,
           Chain(l, n, L, hd, tl, nx, pv, expire), Aside(L, nx), NEW e
    PROVE  WalkEnds(e, nx)
  <1>1. /\ n \in Nat \ {0} /\ l \in [1 .. n -> L]
        /\ \A i, j \in 1 .. n : l[i] = l[j] => i = j
        /\ \A u \in L : \E i \in 1 .. n : l[i] = u
        /\ nx[l[n]] = NULL
        /\ \A i \in 1 .. n - 1 : nx[l[i]] = l[i + 1]
    BY DEF Chain
  <1> DEFINE Stops(i) == i = n \/ e < expire[l[i + 1]]
             First(i, k) == k \in i .. n /\ Stops(k) /\ \A j \in i .. n : Stops(j) => k <= j
             stop(i) == CHOOSE k : First(i, k)
             idx(p) == CHOOSE i \in 1 .. n : l[i] = p
             f == [p \in Timer |-> IF p \in L THEN l[stop(idx(p))]
                                   ELSE IF nx[p] = NULL THEN p
                                   ELSE IF e < expire[nx[p]] THEN p ELSE l[stop(idx(nx[p]))]]
  <1>2. \A i \in 1 .. n : First(i, stop(i))
    <2> TAKE i \in 1 .. n
    <2> DEFINE S == {k \in i .. n : Stops(k)}
    <2>1. S \in SUBSET Nat /\ n \in S
      BY <1>1
    <2> HIDE DEF Stops
    <2>2. PICK k \in S : \A j \in S : k <= j
      <3> HIDE DEF S
      <3> QED
        BY <2>1, LeastNatural
    <2>3. First(i, k)
      BY <2>2
    <2> QED
      BY <2>3
  <1>3. \A i \in 1 .. n : idx(l[i]) = i
    BY <1>1
  <1>4. \A i \in 1 .. n : f[l[i]] = l[stop(i)]
    <2> HIDE DEF stop, idx
    <2> QED
      BY <1>1, <1>3
  <1>5. stop(n) = n
    <2>1. First(n, stop(n))
      BY <1>1, <1>2
    <2> HIDE DEF stop
    <2> QED
      BY <1>1, <2>1
  <1>6. ASSUME NEW i \in 1 .. n - 1
        PROVE  stop(i) = IF e < expire[l[i + 1]] THEN i ELSE stop(i + 1)
    <2>1. First(i, stop(i)) /\ First(i + 1, stop(i + 1)) /\ i # n
      <3>1. i \in 1 .. n /\ i + 1 \in 1 .. n /\ i # n
        BY <1>1
      <3> HIDE DEF First, stop
      <3> QED
        BY <1>2, <3>1
    <2> HIDE DEF stop
    <2>2. CASE e < expire[l[i + 1]]
      <3>1. Stops(i) /\ i \in i .. n
        BY <1>1, <2>2
      <3> HIDE DEF Stops
      <3> QED
        BY <1>1, <2>1, <2>2, <3>1
    <2>3. CASE ~(e < expire[l[i + 1]])
      <3>1. ~Stops(i)
        BY <2>1, <2>3
      <3> HIDE DEF Stops
      <3>2. stop(i) # i /\ stop(i) \in i .. n /\ Stops(stop(i))
        BY <2>1, <3>1
      <3>3. stop(i) \in i + 1 .. n /\ stop(i + 1) \in i .. n /\ Stops(stop(i + 1))
        BY <1>1, <2>1, <3>2
      <3>4. stop(i) <= stop(i + 1) /\ stop(i + 1) <= stop(i)
        BY <2>1, <3>2, <3>3
      <3> QED
        BY <1>1, <2>3, <3>3, <3>4
    <2> QED
      BY <2>2, <2>3
  <1>7. ASSUME NEW p \in Timer PROVE f[p] = WalkBody(e, nx, f)[p]
    <2>1. CASE p \in L
      <3>1. PICK i \in 1 .. n : p = l[i]
        BY <1>1, <2>1
      <3>2. f[p] = l[stop(i)]
        <4> HIDE DEF stop, f
        <4> QED
          BY <1>4, <3>1
      <3>3. CASE i = n
        <4> HIDE DEF stop, f
        <4> QED
          BY <1>1, <1>5, <3>1, <3>2, <3>3 DEF WalkBody
      <3>4. CASE i # n
        <4>1. i \in 1 .. n - 1 /\ i + 1 \in 1 .. n
          BY <1>1, <3>4
        <4>2. nx[p] = l[i + 1] /\ nx[p] # NULL
          BY <1>1, <3>1, <4>1, ListAssumption
        <4>3. f[nx[p]] = l[stop(i + 1)]
          <5> HIDE DEF stop, f
          <5> QED
            BY <1>4, <4>1, <4>2
        <4>4. stop(i) = IF e < expire[l[i + 1]] THEN i ELSE stop(i + 1)
          BY <1>6, <4>1
        <4> HIDE DEF stop, f
        <4> QED
          BY <3>1, <3>2, <4>2, <4>3, <4>4 DEF WalkBody
      <3> QED
        BY <3>3, <3>4
    <2>2. CASE p \notin L /\ nx[p] = NULL
      <3> HIDE DEF stop, idx
      <3> QED
        BY <2>2 DEF WalkBody
    <2>3. CASE p \notin L /\ nx[p] # NULL
      <3>1. nx[p] \in L
        BY <2>3 DEF Aside
      <3>2. f[nx[p]] = l[stop(idx(nx[p]))]
        <4> HIDE DEF stop, idx
        <4> QED
          BY <3>1
      <3>3. f[p] = IF e < expire[nx[p]] THEN p ELSE l[stop(idx(nx[p]))]
        <4> HIDE DEF stop, idx
        <4> QED
          BY <2>3
      <3> HIDE DEF stop, idx, f
      <3> QED
        BY <2>3, <3>2, <3>3 DEF WalkBody
    <2> QED
      BY <2>1, <2>2, <2>3
  <1>8. f = [p \in Timer |-> f[p]]
    <2> HIDE DEF stop, idx
    <2> QED
      OBVIOUS
  <1>9. f = WalkBody(e, nx, f)
    <2> HIDE DEF f
    <2> QED
      BY <1>7, <1>8 DEF WalkBody
  <1> QED
    BY <1>9 DEF WalkEnds

(* Starting at an element that does not expire later than e, the loop      *)
(* stops at an element that does not either, the last one or one whose     *)
(* successor does.                                                         *)
LEMMA WalkStops ==
    ASSUME NEW l, NEW n, NEW L \in SUBSET Timer, NEW hd, NEW tl, NEW nx, NEW pv,
           expire \in [Timer -> Nat],
           Chain(l, n, L, hd, tl, nx, pv, expire), Aside(L, nx), NEW e \in Nat,
           NEW h \in L, expire[h] <= e
    PROVE  \E k \in 1 .. n : /\ Predecessor(e, h, nx) = l[k] /\ expire[l[k]] <= e
                             /\ k = n \/ e < expire[l[k + 1]]
  <1> DEFINE w == CHOOSE g : g = WalkBody(e, nx, g)
  <1>1. WalkEnds(e, nx)
    BY WalkExists
  <1>2. w = WalkBody(e, nx, w)
    BY <1>1, Zenon DEF WalkEnds
  <1>3. Predecessor(e, h, nx) = w[h]
    BY Zenon DEF Predecessor, WalkBody
  <1> HIDE DEF w
  <1>4. /\ n \in Nat \ {0} /\ l \in [1 .. n -> L]
        /\ \A u \in L : \E i \in 1 .. n : l[i] = u
        /\ nx[l[n]] = NULL
        /\ \A i \in 1 .. n - 1 : nx[l[i]] = l[i + 1]
    BY DEF Chain
  <1> DEFINE Good(i) == expire[l[i]] <= e =>
                \E k \in 1 .. n : /\ w[l[i]] = l[k] /\ expire[l[k]] <= e
                                  /\ k = n \/ e < expire[l[k + 1]]
  <1>5. Good(n)
    <2>1. w[l[n]] = l[n] /\ n \in 1 .. n
      BY <1>2, <1>4 DEF WalkBody
    <2> QED
      BY <2>1
  <1>6. ASSUME NEW i \in 1 .. n - 1, Good(i + 1) PROVE Good(i)
    <2> SUFFICES ASSUME expire[l[i]] <= e
                 PROVE  \E k \in 1 .. n : /\ w[l[i]] = l[k] /\ expire[l[k]] <= e
                                          /\ k = n \/ e < expire[l[k + 1]]
      OBVIOUS
    <2>1. /\ i \in 1 .. n /\ i + 1 \in 1 .. n /\ nx[l[i]] = l[i + 1] /\ l[i] \in Timer
          /\ l[i + 1] # NULL /\ expire[l[i + 1]] \in Nat
      BY <1>4, ListAssumption
    <2>2. w[l[i]] = IF e < expire[l[i + 1]] THEN l[i] ELSE w[l[i + 1]]
      BY <1>2, <2>1 DEF WalkBody
    <2>3. CASE e < expire[l[i + 1]]
      BY <2>1, <2>2, <2>3
    <2>4. CASE ~(e < expire[l[i + 1]])
      <3>1. expire[l[i + 1]] <= e
        BY <2>1, <2>4
      <3> QED
        BY <1>6, <2>2, <2>4, <3>1
    <2> QED
      BY <2>3, <2>4
  <1> HIDE DEF Good
  <1>7. \A i \in 1 .. n : Good(i)
    <2> DEFINE S == {d \in 0 .. n - 1 : ~Good(n - d)}
    <2>1. S \in SUBSET Nat
      BY <1>4
    <2>2. SUFFICES ASSUME S # {} PROVE FALSE
      <3> TAKE i \in 1 .. n
      <3>1. n - i \in 0 .. n - 1 /\ n - (n - i) = i
        BY <1>4
      <3>2. n - i \notin S
        BY <2>2
      <3> QED
        BY <3>1, <3>2
    <2>3. PICK d \in S : \A x \in S : d <= x
      <3> HIDE DEF S
      <3> QED
        BY <2>1, <2>2, LeastNatural
    <2>4. d # 0
      BY <1>4, <1>5
    <2>5. d - 1 \in 0 .. n - 1 /\ ~(d <= d - 1) /\ n - d \in 1 .. n - 1 /\ n - (d - 1) = (n - d) + 1
      BY <1>4, <2>4
    <2>6. Good(n - (d - 1))
      BY <2>3, <2>5
    <2>7. Good((n - d) + 1)
      BY <2>5, <2>6
    <2>8. Good(n - d)
      BY <1>6, <2>5, <2>7
    <2> QED
      BY <2>8
  <1>8. PICK i \in 1 .. n : l[i] = h
    BY <1>4
  <1> QED
    BY <1>3, <1>7, <1>8 DEF Good

-----------------------------------------------------------------------------
(* The operations                                                          *)

\* What LinkAfter does to a list.
LEMMA LinkAfterTakes ==
    ASSUME NEW l, NEW n, NEW L \in SUBSET Timer, NEW hd,
           NEW nx \in [Timer -> Timer \cup {NULL}], NEW pv, NEW ex,
           Chain(l, n, L, hd, tail, nx, pv, ex), NEW k \in 1 .. n, NEW t \in Timer \ L,
           LinkAfter(t, l[k], nx, pv), head' = hd
    PROVE  Takes(l, n, k, t, hd, tail, nx, pv, head', tail', next', prev')
  <1>1. /\ n \in Nat \ {0} /\ l \in [1 .. n -> L]
        /\ \A i, j \in 1 .. n : l[i] = l[j] => i = j
        /\ nx[l[n]] = NULL
        /\ \A i \in 1 .. n - 1 : nx[l[i]] = l[i + 1]
    BY DEF Chain
  <1> DEFINE p == l[k]
  <1>2. p \in L /\ p \in Timer /\ p # t /\ k \in Nat /\ k >= 1 /\ k <= n
    BY <1>1
  <1>3. nx[p] = IF k = n THEN NULL ELSE l[k + 1]
    BY <1>1
  <1>4. \A i \in 1 .. n : l[i] = p <=> i = k
    BY <1>1
  <1>5. \A i \in 1 .. n : l[i] = nx[p] <=> i = k + 1
    <2> TAKE i \in 1 .. n
    <2>1. CASE k = n
      BY <1>1, <1>3, <2>1, ListAssumption
    <2>2. CASE k # n
      <3>1. k + 1 \in 1 .. n
        BY <1>1, <2>2
      <3> QED
        BY <1>1, <1>3, <2>2, <3>1
    <2> QED
      BY <2>1, <2>2
  <1>6. nx[p] = NULL <=> k = n
    <2>1. CASE k # n
      <3>1. k + 1 \in 1 .. n
        BY <1>1, <2>1
      <3> QED
        BY <1>1, <1>3, <2>1, <3>1, ListAssumption
    <2> QED
      BY <1>3, <2>1
  <1> HIDE DEF p
  <1>7. /\ next' = [nx EXCEPT ![p] = t, ![t] = nx[p]]
        /\ prev' = [u \in Timer |-> IF u = t THEN p ELSE IF u = nx[p] THEN t ELSE pv[u]]
        /\ tail' = IF nx[p] = NULL THEN t ELSE tail
    BY DEF LinkAfter, p
  <1>8. next'[t] = nx[p] /\ next'[p] = t /\ \A u \in L \ {p} : next'[u] = nx[u]
    BY <1>2, <1>7
  <1>9. prev'[t] = p /\ \A u \in L : prev'[u] = IF u = nx[p] THEN t ELSE pv[u]
    BY <1>2, <1>7
  <1>10. \A i \in 1 .. n : /\ next'[l[i]] = IF i = k THEN t ELSE nx[l[i]]
                           /\ prev'[l[i]] = IF i = k + 1 THEN t ELSE pv[l[i]]
    <2> TAKE i \in 1 .. n
    <2>1. l[i] \in L
      BY <1>1
    <2> QED
      BY <1>4, <1>5, <1>8, <1>9, <2>1
  <1>11. k # 0
    BY <1>2
  <1> QED
    BY <1>3, <1>6, <1>7, <1>8, <1>9, <1>10, <1>11 DEF Takes, p

(* The private add_timer on a list L without t whose element h does not    *)
(* expire later than t.                                                    *)
LEMMA InsertKeeps ==
    ASSUME NEW L \in SUBSET Timer, NEW hd, NEW nx \in [Timer -> Timer \cup {NULL}], NEW pv,
           IsList(L, hd, tail, nx, pv, expire), Aside(L, nx), NEW t \in Timer \ L,
           expire \in [Timer -> Nat], NEW e \in Nat, NEW h \in L, expire[h] <= e,
           LinkAfter(t, Predecessor(e, h, nx), nx, pv),
           expire' = [expire EXCEPT ![t] = e], head' = hd
    PROVE  IsList(L \cup {t}, head', tail', next', prev', expire')
  <1>1. PICK n, l : Chain(l, n, L, hd, tail, nx, pv, expire)
    BY DEF IsList
  <1>2. PICK k \in 1 .. n : /\ Predecessor(e, h, nx) = l[k] /\ expire[l[k]] <= e
                            /\ k = n \/ e < expire[l[k + 1]]
    BY <1>1, WalkStops
  <1>3. Takes(l, n, k, t, hd, tail, nx, pv, head', tail', next', prev')
    BY <1>1, <1>2, LinkAfterTakes
  <1>4. n \in Nat \ {0} /\ l \in [1 .. n -> L]
    BY <1>1 DEF Chain
  <1>5. /\ expire' \in [Timer -> Nat] /\ expire'[t] = e
        /\ \A u \in L : expire'[u] = expire[u]
    OBVIOUS
  <1>6. Fits(l, n, k, t, expire')
    <2>1. expire'[l[k]] <= expire'[t]
      BY <1>2, <1>4, <1>5
    <2>2. ASSUME k < n PROVE expire'[t] <= expire'[l[k + 1]]
      <3>1. k + 1 \in 1 .. n /\ k # n
        BY <1>4, <2>2
      <3>2. e < expire[l[k + 1]] /\ expire'[l[k + 1]] = expire[l[k + 1]]
            /\ expire[l[k + 1]] \in Nat
        BY <1>2, <1>4, <1>5, <3>1
      <3> QED
        BY <1>5, <3>2
    <2> QED
      BY <2>1, <2>2 DEF Fits
  <1>7. k \in 0 .. n
    BY <1>4
  <1> QED
    BY <1>1, <1>3, <1>5, <1>6, <1>7, Linked

(* What a reader of a list may rely on at any of its elements: where the   *)
(* pointers lead, which ones are NULL, and that the head expires first.    *)
Linkage(L, hd, tl, nx, pv, ex) ==
    /\ hd \in L /\ tl \in L
    /\ pv[hd] = NULL /\ nx[tl] = NULL
    /\ hd = tl => L = {hd}
    /\ \A u \in L : u # tl => nx[u] \in L /\ nx[u] # u /\ pv[nx[u]] = u
    /\ \A u \in L : u # hd => pv[u] \in L /\ pv[u] # u /\ nx[pv[u]] = u
    /\ \A u \in L : ex[hd] <= ex[u]
    /\ \A u \in L : u # tl => ex[u] <= ex[nx[u]]

\* Every list has these links.
LEMMA ListLinkage ==
    ASSUME NEW L \in SUBSET Timer, NEW hd, NEW tl, NEW nx, NEW pv, NEW ex \in [Timer -> Nat],
           IsList(L, hd, tl, nx, pv, ex)
    PROVE  Linkage(L, hd, tl, nx, pv, ex)
  <1>1. PICK n, l : Chain(l, n, L, hd, tl, nx, pv, ex)
    BY DEF IsList
  <1>2. /\ n \in Nat \ {0} /\ l \in [1 .. n -> L]
        /\ \A i, j \in 1 .. n : l[i] = l[j] => i = j
        /\ \A u \in L : \E i \in 1 .. n : l[i] = u
        /\ hd = l[1] /\ tl = l[n] /\ pv[l[1]] = NULL /\ nx[l[n]] = NULL
        /\ \A i \in 1 .. n - 1 : nx[l[i]] = l[i + 1] /\ pv[l[i + 1]] = l[i]
        /\ \A i \in 1 .. n - 1 : ex[l[i]] <= ex[l[i + 1]]
    BY <1>1 DEF Chain
  <1>3. 1 \in 1 .. n /\ n \in 1 .. n
    BY <1>2
  <1>4. hd \in L /\ tl \in L
    BY <1>2, <1>3
  <1>5. ASSUME hd = tl PROVE L = {hd}
    <2>1. l[1] = l[n]
      BY <1>2, <1>5
    <2>2. 1 = n
      BY <1>2, <1>3, <2>1
    <2> QED
      BY <1>2, <2>2
  <1>6. ASSUME NEW u \in L, u # tl
        PROVE  nx[u] \in L /\ nx[u] # u /\ pv[nx[u]] = u /\ ex[u] <= ex[nx[u]]
    <2>1. PICK i \in 1 .. n : l[i] = u
      BY <1>2
    <2>2. i \in 1 .. n - 1 /\ i + 1 \in 1 .. n /\ i + 1 # i
      BY <1>2, <1>6, <2>1
    <2> QED
      BY <1>2, <2>1, <2>2
  <1>7. ASSUME NEW u \in L, u # hd PROVE pv[u] \in L /\ pv[u] # u /\ nx[pv[u]] = u
    <2>1. PICK i \in 1 .. n : l[i] = u
      BY <1>2
    <2>2. PICK j \in 1 .. n - 1 : j + 1 = i
      <3>1. i - 1 \in 1 .. n - 1 /\ (i - 1) + 1 = i
        BY <1>2, <1>7, <2>1
      <3> QED
        BY <3>1
    <2>3. j \in 1 .. n /\ j # i
      BY <1>2, <2>2
    <2>4. pv[u] = l[j] /\ nx[l[j]] = u
      BY <1>2, <2>1, <2>2
    <2> QED
      BY <1>2, <2>1, <2>3, <2>4
  <1>8. \A u \in L : ex[hd] <= ex[u]
    BY <1>1, HeadFirst
  <1> QED
    BY <1>2, <1>4, <1>5, <1>6, <1>7, <1>8 DEF Linkage

\* The neighbours of t, and the ends if t is one, pass t by.
Bypasses(L, t, hd, tl, nx, pv, hd2, tl2, nx2, pv2) ==
    /\ hd2 = IF t = hd THEN nx[t] ELSE hd
    /\ tl2 = IF t = tl THEN pv[t] ELSE tl
    /\ \A u \in L \ {t} : /\ nx2[u] = IF u = pv[t] THEN nx[t] ELSE nx[u]
                          /\ pv2[u] = IF u = nx[t] THEN pv[t] ELSE pv[u]

\* Passing by an element that is not the only one leaves a list of the others.
LEMMA BypassKeeps ==
    ASSUME NEW L \in SUBSET Timer, NEW hd, NEW tl, NEW nx, NEW pv, NEW ex \in [Timer -> Nat],
           IsList(L, hd, tl, nx, pv, ex), NEW t \in L, L # {t},
           NEW hd2, NEW tl2, NEW nx2, NEW pv2,
           NEW ex2 \in [Timer -> Nat], \A u \in L \ {t} : ex2[u] = ex[u],
           Bypasses(L, t, hd, tl, nx, pv, hd2, tl2, nx2, pv2)
    PROVE  IsList(L \ {t}, hd2, tl2, nx2, pv2, ex2)
  <1>1. PICK n, l : Chain(l, n, L, hd, tl, nx, pv, ex)
    BY DEF IsList
  <1>2. /\ n \in Nat \ {0} /\ l \in [1 .. n -> L]
        /\ \A i, j \in 1 .. n : l[i] = l[j] => i = j
        /\ \A u \in L : \E i \in 1 .. n : l[i] = u
        /\ hd = l[1] /\ tl = l[n] /\ pv[l[1]] = NULL /\ nx[l[n]] = NULL
        /\ \A i \in 1 .. n - 1 : nx[l[i]] = l[i + 1] /\ pv[l[i + 1]] = l[i]
    BY <1>1 DEF Chain
  <1>3. PICK k \in 1 .. n : l[k] = t
    BY <1>2
  <1>4. n >= 2
    <2>1. SUFFICES ASSUME n = 1 PROVE FALSE
      BY <1>2
    <2> QED
      BY <1>2, <1>3, <2>1
  <1>5. /\ t = hd <=> k = 1
        /\ t = tl <=> k = n
        /\ k = 1 => nx[t] = l[2]
        /\ k = n => pv[t] = l[n - 1]
    BY <1>2, <1>3, <1>4
  <1>6. ASSUME NEW i \in 1 .. n, i # k
        PROVE  /\ l[i] \in L \ {t}
               /\ l[i] = pv[t] <=> i = k - 1
               /\ l[i] = nx[t] <=> i = k + 1
    <2>1. l[i] \in L \ {t} /\ l[i] \in Timer /\ l[i] # NULL
      BY <1>2, <1>3, <1>6, ListAssumption
    <2>2. l[i] = pv[t] <=> i = k - 1
      <3>1. CASE k = 1
        BY <1>2, <1>3, <2>1, <3>1
      <3>2. CASE k # 1
        <4>1. PICK j \in 1 .. n - 1 : j + 1 = k
          <5>1. k - 1 \in 1 .. n - 1 /\ (k - 1) + 1 = k
            BY <1>2, <3>2
          <5> QED
            BY <5>1
        <4>2. pv[t] = l[j] /\ j \in 1 .. n
          BY <1>2, <1>3, <4>1
        <4>3. l[i] = l[j] <=> i = j
          BY <1>2, <4>2
        <4>4. j = k - 1
          BY <1>2, <4>1
        <4> QED
          BY <4>2, <4>3, <4>4
      <3> QED
        BY <3>1, <3>2
    <2>3. l[i] = nx[t] <=> i = k + 1
      <3>1. CASE k = n
        BY <1>2, <1>3, <2>1, <3>1
      <3>2. CASE k # n
        <4>1. k \in 1 .. n - 1 /\ k + 1 \in 1 .. n
          BY <1>2, <3>2
        <4>2. nx[t] = l[k + 1]
          BY <1>2, <1>3, <4>1
        <4>3. l[i] = l[k + 1] <=> i = k + 1
          BY <1>2, <4>1
        <4> QED
          BY <4>2, <4>3
      <3> QED
        BY <3>1, <3>2
    <2> QED
      BY <2>1, <2>2, <2>3
  <1>7. Skips(l, n, k, hd, tl, nx, pv, hd2, tl2, nx2, pv2)
    BY <1>3, <1>5, <1>6 DEF Skips, Bypasses
  <1> QED
    BY <1>1, <1>3, <1>4, <1>7, Unlinked

\* The pointers stay typed, and those of objects outside L and t are left alone.
WritesInside(L, t, nx, pv) ==
    /\ next' \in [Timer -> Timer \cup {NULL}] /\ prev' \in [Timer -> Timer \cup {NULL}]
    /\ tail' \in Timer \cup {NULL}
    /\ \A u \in Timer \ (L \cup {t}) : next'[u] = nx[u] /\ prev'[u] = pv[u]

(* The element behind which the private add_timer links t belongs to the   *)
(* list, and what it writes besides t's own fields is inside the list.     *)
LEMMA InsertInside ==
    ASSUME NEW L \in SUBSET Timer, NEW hd, NEW nx \in [Timer -> Timer \cup {NULL}],
           NEW pv \in [Timer -> Timer \cup {NULL}],
           IsList(L, hd, tail, nx, pv, expire), Aside(L, nx), NEW t \in Timer \ L,
           expire \in [Timer -> Nat], NEW e \in Nat, NEW h \in L, expire[h] <= e,
           tail \in Timer \cup {NULL}, LinkAfter(t, Predecessor(e, h, nx), nx, pv)
    PROVE  WritesInside(L, t, nx, pv)
  <1>1. PICK n, l : Chain(l, n, L, hd, tail, nx, pv, expire)
    BY DEF IsList
  <1>2. PICK k \in 1 .. n : Predecessor(e, h, nx) = l[k]
    BY <1>1, WalkStops
  <1> DEFINE p == Predecessor(e, h, nx)
  <1>3. p \in L
    BY <1>1, <1>2 DEF Chain
  <1>4. nx[p] \in L \cup {NULL}
    <2>1. nx[tail] = NULL /\ \A u \in L : u # tail => nx[u] \in L
      BY ListLinkage DEF Linkage
    <2> QED
      BY <1>3, <2>1
  <1> HIDE DEF p
  <1>5. /\ next' = [nx EXCEPT ![p] = t, ![t] = nx[p]]
        /\ prev' = [u \in Timer |-> IF u = t THEN p ELSE IF u = nx[p] THEN t ELSE pv[u]]
        /\ tail' = IF nx[p] = NULL THEN t ELSE tail
    BY DEF LinkAfter, p
  <1> QED
    BY <1>3, <1>4, <1>5, ListAssumption DEF WritesInside

\* The list is empty exactly when head is NULL.
LEMMA HeadNull ==
    ASSUME IInv PROVE head = NULL <=> live = {}
  <1>1. CASE live = {} /\ head = NULL
    BY <1>1
  <1>2. CASE IsList(live, head, tail, next, prev, expire)
    <2>1. head \in live
      BY <1>2, ListLinkage DEF Linkage, IInv, TypeOK
    <2> QED
      BY <2>1, ListAssumption DEF IInv, TypeOK
  <1> QED
    BY <1>1, <1>2 DEF IInv, Shape

\* With an object in existence there is a list, and it has the links of one.
LEMMA LiveList ==
    ASSUME IInv, head # NULL \/ live # {}
    PROVE  /\ IsList(live, head, tail, next, prev, expire)
           /\ Linkage(live, head, tail, next, prev, expire)
  <1>1. IsList(live, head, tail, next, prev, expire)
    BY HeadNull DEF IInv, Shape
  <1> QED
    BY <1>1, ListLinkage DEF IInv, TypeOK

\* The empty list is sound.
LEMMA InitIInv == Init => IInv
  BY ListAssumption DEF Init, IInv, TypeOK, Shape, DeadClear, NoTick

\* add_timer into an empty list.
LEMMA AddFirstKeeps ==
    ASSUME IInv, NEW t \in Timer \ live, NEW e \in Nat,
           live' = live \cup {t}, expire' = [expire EXCEPT ![t] = e], AddFirst(t)
    PROVE  IsList(live', head', tail', next', prev', expire')
  <1>1. live' = {t}
    BY HeadNull DEF AddFirst
  <1>2. /\ head' = t /\ tail' = t /\ next' = next /\ prev' = prev
        /\ next[t] = NULL /\ prev[t] = NULL
    BY DEF AddFirst, IInv, DeadClear
  <1> DEFINE l == [i \in 1 .. 1 |-> t]
  <1>3. Chain(l, 1, live', head', tail', next', prev', expire')
    BY <1>1, <1>2 DEF Chain
  <1> QED
    BY <1>3, Zenon DEF IsList

\* add_timer before the head.
LEMMA AddFrontKeeps ==
    ASSUME IInv, NEW t \in Timer \ live, NEW e \in Nat,
           live' = live \cup {t}, expire' = [expire EXCEPT ![t] = e], AddFront(t, e)
    PROVE  IsList(live', head', tail', next', prev', expire')
  <1>1. head # NULL /\ e < expire[head] /\ head' = t /\ tail' = tail
        /\ next' = [next EXCEPT ![t] = head] /\ prev' = [prev EXCEPT ![head] = t]
    BY DEF AddFront
  <1>2. TypeOK /\ IsList(live, head, tail, next, prev, expire)
    BY <1>1, LiveList DEF IInv
  <1>3. PICK n, l : Chain(l, n, live, head, tail, next, prev, expire)
    BY <1>2 DEF IsList
  <1>4. /\ n \in Nat \ {0} /\ l \in [1 .. n -> live]
        /\ \A i, j \in 1 .. n : l[i] = l[j] => i = j
        /\ head = l[1] /\ head \in live
    BY <1>3 DEF Chain
  <1>5. /\ expire' \in [Timer -> Nat] /\ expire'[t] = e
        /\ \A u \in live : expire'[u] = expire[u]
    BY <1>2 DEF TypeOK
  <1>6. next'[t] = head /\ prev'[t] = NULL
    BY <1>1, <1>2, <1>4 DEF TypeOK, IInv, DeadClear
  <1>7. \A i \in 1 .. n : /\ next'[l[i]] = next[l[i]]
                          /\ prev'[l[i]] = IF i = 1 THEN t ELSE prev[l[i]]
    <2> TAKE i \in 1 .. n
    <2>1. l[i] \in live /\ l[i] \in Timer /\ l[i] # t /\ (l[i] = head <=> i = 1)
      BY <1>2, <1>4 DEF TypeOK
    <2> QED
      BY <1>1, <1>2, <1>4, <2>1 DEF TypeOK
  <1>8. Takes(l, n, 0, t, head, tail, next, prev, head', tail', next', prev')
    <2>1. 0 # n /\ 0 + 1 = 1 /\ \A i \in 1 .. n : i # 0
      BY <1>4
    <2> QED
      BY <1>1, <1>4, <1>6, <1>7, <2>1 DEF Takes
  <1>9. Fits(l, n, 0, t, expire')
    <2>1. expire[head] \in Nat
      BY <1>2, <1>4 DEF TypeOK
    <2> QED
      BY <1>1, <1>4, <1>5, <2>1 DEF Fits
  <1>10. 0 \in 0 .. n /\ live \in SUBSET Timer /\ expire \in [Timer -> Nat]
    BY <1>2, <1>4 DEF TypeOK
  <1> QED
    BY <1>3, <1>5, <1>8, <1>9, <1>10, Linked

\* add_timer keeps the list, wherever the new timer goes.
LEMMA AddKeeps ==
    ASSUME IInv, NEW t \in Timer, NEW e \in Nat, AddTimer(t, e)
    PROVE  IInv'
  <1>1. /\ t \in Timer \ live /\ live' = live \cup {t} /\ expire' = [expire EXCEPT ![t] = e]
        /\ cur' = cur /\ now' = now
    BY DEF AddTimer
  <1>2. TypeOK /\ DeadClear
    BY DEF IInv
  <1>3. /\ live' \in SUBSET Timer /\ expire' \in [Timer -> Nat]
        /\ cur' \in NoTick .. now' /\ now' \in 0 .. MAX_TIME
    BY <1>1, <1>2 DEF TypeOK
  <1> DEFINE Done ==
        /\ IsList(live', head', tail', next', prev', expire')
        /\ head' \in Timer \cup {NULL} /\ tail' \in Timer \cup {NULL}
        /\ next' \in [Timer -> Timer \cup {NULL}] /\ prev' \in [Timer -> Timer \cup {NULL}]
        /\ \A u \in Timer \ live' : next'[u] = next[u] /\ prev'[u] = prev[u]
  <1>4. ASSUME AddFirst(t) PROVE Done
    <2>1. IsList(live', head', tail', next', prev', expire')
      BY <1>1, <1>4, AddFirstKeeps
    <2> QED
      BY <1>1, <1>2, <1>4, <2>1 DEF AddFirst, TypeOK
  <1>5. ASSUME AddFront(t, e) PROVE Done
    <2>1. IsList(live', head', tail', next', prev', expire')
      BY <1>1, <1>5, AddFrontKeeps
    <2>2. head # NULL
      BY <1>5 DEF AddFront
    <2>3. head \in live
      BY <2>2, LiveList DEF Linkage
    <2> QED
      BY <1>1, <1>2, <1>5, <2>1, <2>3 DEF AddFront, TypeOK
  <1>6. ASSUME AddBehind(t, e) PROVE Done
    <2>1. /\ head # NULL /\ e >= expire[head] /\ head' = head
          /\ LinkAfter(t, Predecessor(e, head, next), next, prev)
      BY <1>6 DEF AddBehind
    <2>2. IsList(live, head, tail, next, prev, expire) /\ head \in live
      BY <2>1, LiveList DEF Linkage
    <2>3. /\ live \in SUBSET Timer /\ next \in [Timer -> Timer \cup {NULL}]
          /\ prev \in [Timer -> Timer \cup {NULL}] /\ expire \in [Timer -> Nat]
          /\ tail \in Timer \cup {NULL} /\ expire[head] <= e /\ Aside(live, next)
      BY <1>2, <2>1, <2>2 DEF TypeOK, Aside, DeadClear
    <2>4. IsList(live \cup {t}, head', tail', next', prev', expire')
      BY <1>1, <2>1, <2>2, <2>3, InsertKeeps
    <2>5. WritesInside(live, t, next, prev)
      BY <1>1, <2>1, <2>2, <2>3, InsertInside
    <2> QED
      BY <1>1, <1>2, <2>1, <2>4, <2>5 DEF TypeOK, WritesInside
  <1>7. Done
    BY <1>4, <1>5, <1>6 DEF AddTimer
  <1>8. TypeOK' /\ Shape'
    BY <1>3, <1>7 DEF TypeOK, Shape
  <1>9. DeadClear'
    BY <1>1, <1>2, <1>7 DEF DeadClear
  <1> QED
    BY <1>8, <1>9 DEF IInv

\* adjust_timer leaves a timer in place that does not overtake its successor.
LEMMA StaysKeeps ==
    ASSUME IInv, NEW t \in live, NEW e \in Nat, e >= expire[t], AdjustStays(t, e)
    PROVE  IsList(live, head', tail', next', prev', expire')
  <1>1. /\ IF next[t] = NULL THEN TRUE ELSE e < expire[next[t]]
        /\ expire' = [expire EXCEPT ![t] = e]
        /\ head' = head /\ tail' = tail /\ prev' = prev /\ next' = next
    BY DEF AdjustStays
  <1>2. TypeOK /\ IsList(live, head, tail, next, prev, expire)
    BY LiveList DEF IInv
  <1>3. PICK n, l : Chain(l, n, live, head, tail, next, prev, expire)
    BY <1>2 DEF IsList
  <1>4. /\ n \in Nat \ {0} /\ l \in [1 .. n -> live]
        /\ \A i, j \in 1 .. n : l[i] = l[j] => i = j
        /\ \A i \in 1 .. n - 1 : next[l[i]] = l[i + 1]
        /\ \A i \in 1 .. n - 1 : expire[l[i]] <= expire[l[i + 1]]
    BY <1>3 DEF Chain
  <1>5. ASSUME NEW i \in 1 .. n - 1 PROVE expire'[l[i]] <= expire'[l[i + 1]]
    <2>1. /\ i \in 1 .. n /\ i + 1 \in 1 .. n /\ i # i + 1 /\ l[i] \in Timer /\ l[i + 1] \in Timer
          /\ l[i] # l[i + 1] /\ expire[l[i]] \in Nat /\ expire[l[i + 1]] \in Nat
      BY <1>2, <1>4 DEF TypeOK
    <2>2. /\ expire'[l[i]] = IF l[i] = t THEN e ELSE expire[l[i]]
          /\ expire'[l[i + 1]] = IF l[i + 1] = t THEN e ELSE expire[l[i + 1]]
      BY <1>1, <1>2, <2>1 DEF TypeOK
    <2>3. expire[l[i]] <= expire[l[i + 1]] /\ next[l[i]] = l[i + 1] /\ next[l[i]] # NULL
      BY <1>4, <2>1, ListAssumption
    <2>4. CASE l[i] = t
      BY <1>1, <2>1, <2>2, <2>3, <2>4
    <2>5. CASE l[i + 1] = t
      BY <2>1, <2>2, <2>3, <2>5
    <2>6. CASE l[i] # t /\ l[i + 1] # t
      BY <2>2, <2>3, <2>6
    <2> QED
      BY <2>4, <2>5, <2>6
  <1>6. Chain(l, n, live, head', tail', next', prev', expire')
    BY <1>1, <1>3, <1>5 DEF Chain
  <1> QED
    BY <1>6, Zenon DEF IsList

(* adjust_timer takes a timer that overtakes its successor out of the list *)
(* and inserts it again behind that successor, keeping the list.           *)
LEMMA OvertakeKeeps ==
    ASSUME IInv, NEW t \in live, NEW e \in Nat, AdjustHead(t, e) \/ AdjustInner(t, e)
    PROVE  /\ IsList(live, head', tail', next', prev', expire')
           /\ head' \in Timer \cup {NULL} /\ expire' = [expire EXCEPT ![t] = e]
           /\ WritesInside(live, t, next, prev)
  <1> DEFINE L == live \ {t}
             s == next[t]
  <1>1. TypeOK /\ DeadClear /\ IsList(live, head, tail, next, prev, expire)
        /\ Linkage(live, head, tail, next, prev, expire) /\ t \in Timer
    BY LiveList DEF IInv, TypeOK
  <1>2. next[t] # NULL /\ e >= expire[next[t]]
    BY DEF AdjustHead, AdjustInner, Overtakes
  <1>3. t # tail /\ s \in L /\ live # {t} /\ prev[s] = t
    BY <1>1, <1>2 DEF Linkage
  <1>4. PICK hd \in Timer, nx \in [Timer -> Timer \cup {NULL}],
             pv \in [Timer -> Timer \cup {NULL}] :
          /\ InsertFrom(t, e, s, nx, pv)
          /\ head' = hd
          /\ Bypasses(live, t, head, tail, next, prev, hd, tail, nx, pv)
          /\ nx[t] \in L \cup {NULL}
          /\ \A u \in Timer \ live : nx[u] = next[u] /\ pv[u] = prev[u]
    <2>1. CASE AdjustHead(t, e)
      <3> DEFINE nx == [next EXCEPT ![t] = NULL]
                 pv == [prev EXCEPT ![s] = NULL]
      <3>1. t = head /\ head' = s /\ InsertFrom(t, e, s, nx, pv)
        BY <2>1 DEF AdjustHead
      <3>2. nx \in [Timer -> Timer \cup {NULL}] /\ pv \in [Timer -> Timer \cup {NULL}]
            /\ s \in Timer /\ nx[t] = NULL
            /\ \A u \in Timer \ live : nx[u] = next[u] /\ pv[u] = prev[u]
        BY <1>1, <1>3 DEF TypeOK
      <3>3. Bypasses(live, t, head, tail, next, prev, s, tail, nx, pv)
        <4>1. prev[t] = NULL /\ NULL \notin live
          BY <1>1, <3>1, ListAssumption DEF Linkage, TypeOK
        <4>2. \A u \in live \ {t} : nx[u] = next[u] /\ pv[u] = IF u = s THEN NULL ELSE prev[u]
          BY <1>1, <1>3 DEF TypeOK
        <4> QED
          BY <1>3, <3>1, <4>1, <4>2 DEF Bypasses
      <3> HIDE DEF nx, pv, s
      <3> QED
        BY <3>1, <3>2, <3>3
    <2>2. CASE AdjustInner(t, e)
      <3> DEFINE nx == [next EXCEPT ![prev[t]] = s]
                 pv == [prev EXCEPT ![s] = prev[t]]
      <3>1. t # head /\ head' = head /\ InsertFrom(t, e, s, nx, pv)
        BY <2>2 DEF AdjustInner
      <3>2. prev[t] \in live /\ prev[t] # t
        BY <1>1, <3>1 DEF Linkage
      <3>3. nx \in [Timer -> Timer \cup {NULL}] /\ pv \in [Timer -> Timer \cup {NULL}]
            /\ nx[t] = s
            /\ \A u \in Timer \ live : nx[u] = next[u] /\ pv[u] = prev[u]
        BY <1>1, <1>3, <3>2 DEF TypeOK
      <3>4. Bypasses(live, t, head, tail, next, prev, head, tail, nx, pv)
        <4>1. \A u \in live \ {t} : /\ nx[u] = IF u = prev[t] THEN s ELSE next[u]
                                    /\ pv[u] = IF u = s THEN prev[t] ELSE prev[u]
          BY <1>1, <1>3, <3>2 DEF TypeOK
        <4> QED
          BY <1>3, <3>1, <4>1 DEF Bypasses
      <3>5. head \in Timer
        BY <1>1 DEF TypeOK, Linkage
      <3> HIDE DEF nx, pv, s
      <3> QED
        BY <1>3, <3>1, <3>3, <3>4, <3>5
    <2> QED
      BY <2>1, <2>2
  <1>5. live \in SUBSET Timer /\ expire \in [Timer -> Nat] /\ tail \in Timer \cup {NULL}
    BY <1>1 DEF TypeOK
  <1>6. IsList(L, hd, tail, nx, pv, expire)
    BY <1>1, <1>3, <1>4, <1>5, BypassKeeps
  <1>7. L \in SUBSET Timer /\ t \in Timer \ L /\ L \cup {t} = live /\ s \in L /\ expire[s] <= e
    BY <1>1, <1>2, <1>3, <1>5
  <1>8. Aside(L, nx)
    BY <1>1, <1>4 DEF Aside, DeadClear
  <1>9. /\ LinkAfter(t, Predecessor(e, s, nx), nx, pv)
        /\ expire' = [expire EXCEPT ![t] = e]
    BY <1>4 DEF InsertFrom
  <1> HIDE DEF L, s
  <1>10. IsList(L \cup {t}, head', tail', next', prev', expire')
    BY <1>4, <1>5, <1>6, <1>7, <1>8, <1>9, InsertKeeps
  <1>11. WritesInside(L, t, nx, pv)
    BY <1>4, <1>5, <1>6, <1>7, <1>8, <1>9, InsertInside
  <1>12. WritesInside(live, t, next, prev)
    BY <1>4, <1>7, <1>11 DEF WritesInside
  <1> QED
    BY <1>4, <1>7, <1>9, <1>10, <1>12

\* adjust_timer keeps the list.
LEMMA AdjustKeeps ==
    ASSUME IInv, NEW t \in Timer, NEW e \in Nat, AdjustTimer(t, e)
    PROVE  IInv'
  <1>1. t \in live /\ e >= expire[t] /\ live' = live /\ cur' = cur /\ now' = now
    BY DEF AdjustTimer
  <1>2. TypeOK /\ DeadClear
    BY DEF IInv
  <1> DEFINE Done ==
        /\ IsList(live, head', tail', next', prev', expire')
        /\ head' \in Timer \cup {NULL} /\ expire' = [expire EXCEPT ![t] = e]
        /\ WritesInside(live, t, next, prev)
  <1>3. ASSUME AdjustStays(t, e) PROVE Done
    <2>1. IsList(live, head', tail', next', prev', expire')
      BY <1>1, <1>3, StaysKeeps
    <2> QED
      BY <1>2, <1>3, <2>1 DEF AdjustStays, TypeOK, WritesInside
  <1>4. ASSUME AdjustHead(t, e) \/ AdjustInner(t, e) PROVE Done
    BY <1>1, <1>4, OvertakeKeeps
  <1>5. Done
    BY <1>3, <1>4 DEF AdjustTimer
  <1>6. TypeOK' /\ Shape'
    BY <1>1, <1>2, <1>5 DEF TypeOK, Shape, WritesInside
  <1>7. DeadClear'
    BY <1>1, <1>2, <1>5 DEF DeadClear, WritesInside
  <1> QED
    BY <1>6, <1>7 DEF IInv

(* The object t is deleted after its neighbours have passed it by: the     *)
(* others are a list, and the objects that do not exist stay cleared.      *)
LEMMA FreeKeeps ==
    ASSUME IInv, NEW t \in live, live # {t},
           NEW nx \in [Timer -> Timer \cup {NULL}], NEW pv \in [Timer -> Timer \cup {NULL}],
           Free(t, nx, pv), head' \in Timer \cup {NULL}, tail' \in Timer \cup {NULL},
           Bypasses(live, t, head, tail, next, prev, head', tail', nx, pv),
           \A u \in Timer \ live : nx[u] = next[u] /\ pv[u] = prev[u],
           cur' = cur, now' = now
    PROVE  IInv'
  <1>1. TypeOK /\ DeadClear /\ IsList(live, head, tail, next, prev, expire)
    BY LiveList DEF IInv
  <1>2. /\ next' = [nx EXCEPT ![t] = NULL] /\ prev' = [pv EXCEPT ![t] = NULL]
        /\ expire' = [expire EXCEPT ![t] = 0] /\ live' = live \ {t}
    BY DEF Free
  <1>3. TypeOK'
    BY <1>1, <1>2 DEF TypeOK
  <1>4. DeadClear'
    BY <1>1, <1>2 DEF TypeOK, DeadClear
  <1>5. /\ Bypasses(live, t, head, tail, next, prev, head', tail', next', prev')
        /\ \A u \in live \ {t} : expire'[u] = expire[u]
    <2>1. \A u \in live \ {t} : next'[u] = nx[u] /\ prev'[u] = pv[u] /\ expire'[u] = expire[u]
      BY <1>1, <1>2 DEF TypeOK
    <2> QED
      BY <2>1 DEF Bypasses
  <1>6. IsList(live \ {t}, head', tail', next', prev', expire')
    BY <1>1, <1>3, <1>5, BypassKeeps DEF TypeOK
  <1> QED
    BY <1>2, <1>3, <1>4, <1>6 DEF IInv, Shape

\* The only object is deleted: the list is empty.
LEMMA FreeLast ==
    ASSUME IInv, NEW t \in live, live = {t}, Free(t, next, prev), head' = NULL,
           tail' \in Timer \cup {NULL}, cur' = cur, now' = now
    PROVE  IInv'
  <1>1. TypeOK /\ DeadClear
    BY DEF IInv
  <1>2. /\ next' = [next EXCEPT ![t] = NULL] /\ prev' = [prev EXCEPT ![t] = NULL]
        /\ expire' = [expire EXCEPT ![t] = 0] /\ live' = {}
    BY DEF Free
  <1> QED
    BY <1>1, <1>2 DEF IInv, TypeOK, Shape, DeadClear

\* del_timer keeps the list.
LEMMA DelKeeps ==
    ASSUME IInv, NEW t \in Timer, DelTimer(t)
    PROVE  IInv'
  <1>1. t \in live /\ cur' = cur /\ now' = now
    BY DEF DelTimer
  <1>2. TypeOK /\ Linkage(live, head, tail, next, prev, expire) /\ NULL \notin live
    BY <1>1, LiveList, ListAssumption DEF IInv, TypeOK
  <1>3. CASE DelOnly(t)
    <2>1. live = {t}
      BY <1>2, <1>3 DEF DelOnly, Linkage
    <2>2. Free(t, next, prev) /\ head' = NULL /\ tail' \in Timer \cup {NULL}
      BY <1>3 DEF DelOnly
    <2> QED
      BY <1>1, <2>1, <2>2, FreeLast
  <1>4. CASE DelHead(t)
    <2> DEFINE pv == [prev EXCEPT ![next[t]] = NULL]
    <2>1. t = head /\ t # tail /\ head' = next[t] /\ tail' = tail /\ Free(t, next, pv)
      BY <1>4 DEF DelHead
    <2>2. live # {t} /\ next[t] \in live /\ next[t] # t /\ prev[t] = NULL
      BY <1>1, <1>2, <2>1 DEF Linkage
    <2>3. /\ next \in [Timer -> Timer \cup {NULL}] /\ pv \in [Timer -> Timer \cup {NULL}]
          /\ head' \in Timer \cup {NULL} /\ tail' \in Timer \cup {NULL}
          /\ \A u \in Timer \ live : pv[u] = prev[u]
          /\ \A u \in live : pv[u] = IF u = next[t] THEN NULL ELSE prev[u]
      BY <1>2, <2>1, <2>2 DEF TypeOK
    <2> HIDE DEF pv
    <2>4. Bypasses(live, t, head, tail, next, prev, head', tail', next, pv)
      BY <1>2, <2>1, <2>2, <2>3 DEF Bypasses
    <2> QED
      BY <1>1, <2>1, <2>2, <2>3, <2>4, FreeKeeps
  <1>5. CASE DelTail(t)
    <2> DEFINE nx == [next EXCEPT ![prev[t]] = NULL]
    <2>1. t # head /\ t = tail /\ tail' = prev[t] /\ head' = head /\ Free(t, nx, prev)
      BY <1>5 DEF DelTail
    <2>2. live # {t} /\ prev[t] \in live /\ prev[t] # t /\ next[t] = NULL
      BY <1>1, <1>2, <2>1 DEF Linkage
    <2>3. /\ prev \in [Timer -> Timer \cup {NULL}] /\ nx \in [Timer -> Timer \cup {NULL}]
          /\ head' \in Timer \cup {NULL} /\ tail' \in Timer \cup {NULL}
          /\ \A u \in Timer \ live : nx[u] = next[u]
          /\ \A u \in live : nx[u] = IF u = prev[t] THEN NULL ELSE next[u]
      BY <1>2, <2>1, <2>2 DEF TypeOK
    <2> HIDE DEF nx
    <2>4. Bypasses(live, t, head, tail, next, prev, head', tail', nx, prev)
      BY <1>2, <2>1, <2>2, <2>3 DEF Bypasses
    <2> QED
      BY <1>1, <2>1, <2>2, <2>3, <2>4, FreeKeeps
  <1>6. CASE DelInner(t)
    <2> DEFINE nx == [next EXCEPT ![prev[t]] = next[t]]
               pv == [prev EXCEPT ![next[t]] = prev[t]]
    <2>1. t # head /\ t # tail /\ tail' = tail /\ head' = head /\ Free(t, nx, pv)
      BY <1>6 DEF DelInner
    <2>2. live # {t} /\ prev[t] \in live /\ prev[t] # t /\ next[t] \in live /\ next[t] # t
      BY <1>1, <1>2, <2>1 DEF Linkage
    <2>3. /\ nx \in [Timer -> Timer \cup {NULL}] /\ pv \in [Timer -> Timer \cup {NULL}]
          /\ head' \in Timer \cup {NULL} /\ tail' \in Timer \cup {NULL}
          /\ \A u \in Timer \ live : nx[u] = next[u] /\ pv[u] = prev[u]
          /\ \A u \in live : /\ nx[u] = IF u = prev[t] THEN next[t] ELSE next[u]
                             /\ pv[u] = IF u = next[t] THEN prev[t] ELSE prev[u]
      BY <1>2, <2>1, <2>2 DEF TypeOK
    <2> HIDE DEF nx, pv
    <2>4. Bypasses(live, t, head, tail, next, prev, head', tail', nx, pv)
      BY <1>2, <2>1, <2>2, <2>3 DEF Bypasses
    <2> QED
      BY <1>1, <2>1, <2>2, <2>3, <2>4, FreeKeeps
  <1> QED
    BY <1>3, <1>4, <1>5, <1>6 DEF DelTimer

\* tick() keeps the list after each timer it fires, though it leaves tail alone.
LEMMA FireKeeps ==
    ASSUME IInv, TickFire
    PROVE  IInv'
  <1>1. head # NULL /\ head' = next[head] /\ tail' = tail /\ cur' = cur /\ now' = now
    BY DEF TickFire, HeadDue
  <1>2. /\ TypeOK /\ Linkage(live, head, tail, next, prev, expire) /\ NULL \notin live
        /\ head \in live /\ head' \in Timer \cup {NULL} /\ tail' \in Timer \cup {NULL}
    BY <1>1, LiveList, ListAssumption DEF IInv, TypeOK, Linkage
  <1>3. CASE head = tail
    <2>1. next[head] = NULL /\ live = {head}
      BY <1>2, <1>3 DEF Linkage
    <2>2. Free(head, next, prev)
      BY <2>1 DEF TickFire
    <2> QED
      BY <1>1, <1>2, <2>1, <2>2, FreeLast
  <1>4. CASE head # tail
    <2> DEFINE pv == [prev EXCEPT ![next[head]] = NULL]
    <2>1. next[head] # NULL /\ live # {head} /\ next[head] \in live /\ prev[head] = NULL
      BY <1>2, <1>4 DEF Linkage
    <2>2. Free(head, next, pv)
      BY <2>1 DEF TickFire
    <2>3. /\ next \in [Timer -> Timer \cup {NULL}] /\ pv \in [Timer -> Timer \cup {NULL}]
          /\ \A u \in Timer \ live : pv[u] = prev[u]
          /\ \A u \in live : pv[u] = IF u = next[head] THEN NULL ELSE prev[u]
      BY <1>2, <2>1 DEF TypeOK
    <2> HIDE DEF pv
    <2>4. Bypasses(live, head, head, tail, next, prev, head', tail', next, pv)
      BY <1>1, <1>2, <1>4, <2>1, <2>3 DEF Bypasses
    <2> QED
      BY <1>1, <1>2, <2>1, <2>2, <2>3, <2>4, FreeKeeps
  <1> QED
    BY <1>3, <1>4

\* What callers pass as expire is a natural number.
LEMMA DelayNatural ==
    ASSUME TypeOK, NEW d \in Delays
    PROVE  now + d \in Nat
  BY ListAssumption DEF TypeOK

\* Every step keeps the list.
LEMMA NextIInv ==
    ASSUME IInv, [Next]_vars
    PROVE  IInv'
  <1>1. TypeOK
    BY DEF IInv
  <1>2. ASSUME NEW t \in Timer, NEW d \in Delays, AddTimer(t, now + d) PROVE IInv'
    BY <1>1, <1>2, DelayNatural, AddKeeps
  <1>3. ASSUME NEW t \in Timer, NEW d \in Delays, AdjustTimer(t, now + d) PROVE IInv'
    BY <1>1, <1>3, DelayNatural, AdjustKeeps
  <1>4. ASSUME NEW t \in Timer, DelTimer(t) PROVE IInv'
    BY <1>4, DelKeeps
  <1>5. CASE TickBegin
    <2>1. TypeOK'
      BY <1>1, <1>5 DEF TickBegin, TypeOK, NoTick
    <2>2. Shape' /\ DeadClear'
      BY <1>5 DEF TickBegin, IInv, Shape, DeadClear
    <2> QED
      BY <2>1, <2>2 DEF IInv
  <1>6. CASE TickFire
    BY <1>6, FireKeeps
  <1>7. CASE TickEnd
    <2>1. TypeOK'
      BY <1>1, <1>7 DEF TickEnd, TypeOK, NoTick
    <2>2. Shape' /\ DeadClear'
      BY <1>7 DEF TickEnd, IInv, Shape, DeadClear
    <2> QED
      BY <2>1, <2>2 DEF IInv
  <1>8. CASE Destroy
    BY <1>1, <1>8 DEF Destroy, IInv, TypeOK, Shape, DeadClear
  <1>9. CASE Clock
    <2>1. TypeOK'
      BY <1>1, <1>9, ListAssumption DEF Clock, TypeOK, NoTick
    <2>2. Shape' /\ DeadClear'
      BY <1>9 DEF Clock, IInv, Shape, DeadClear
    <2> QED
      BY <2>1, <2>2 DEF IInv
  <1>10. CASE UNCHANGED vars
    BY <1>10 DEF vars, IInv, TypeOK, Shape, DeadClear
  <1> QED
    BY <1>2, <1>3, <1>4, <1>5, <1>6, <1>7, <1>8, <1>9, <1>10 DEF Next

\* The list of IInv is the one SortedList speaks of.
LEMMA ShapeSorted ==
    ASSUME IInv
    PROVE  ListInv
  <1>1. CASE live = {}
    BY <1>1, HeadNull DEF ListInv, SortedList, IInv
  <1>2. CASE live # {}
    <2>1. PICK n, l : Chain(l, n, live, head, tail, next, prev, expire)
      BY <1>2, LiveList DEF IsList
    <2>2. n = Cardinality(live)
      BY <2>1, ChainLength
    <2>3. /\ l \in [1 .. n -> live] /\ Enumerates(l, n)
          /\ \A i \in 1 .. n - 1 : expire[l[i]] <= expire[l[i + 1]]
      BY <2>1 DEF Chain, Enumerates
    <2> HIDE DEF Enumerates
    <2> QED
      BY <1>2, <2>2, <2>3 DEF ListInv, SortedList, IInv
  <1> QED
    BY <1>1, <1>2

-----------------------------------------------------------------------------
(* Results                                                                 *)

\* The invariant holds in every state.
LEMMA Invariant == Spec => []IInv
  <1>1. Init => IInv
    BY InitIInv
  <1>2. IInv /\ [Next]_vars => IInv'
    BY NextIInv
  <1> QED
    BY <1>1, <1>2, PTL DEF Spec

(* Whatever sequence of add_timer, adjust_timer, del_timer and tick is     *)
(* called, the objects that exist form one doubly linked list from head to *)
(* tail in ascending order of expire, for any number of timers and any     *)
(* delays.                                                                 *)
THEOREM ListSorted == Spec => []ListInv
  <1>1. IInv => ListInv
    BY ShapeSorted
  <1> QED
    BY <1>1, Invariant, PTL

-----------------------------------------------------------------------------
(* The list implements the queue                                           *)

\* The queue's ttl and firing, as the refinement mapping of LstTimer has them.
Ttl == [t \in Timer |-> IF expire[t] > now THEN expire[t] - now ELSE 0]
Firing == IF cur = NoTick THEN {} ELSE {t \in live : expire[t] <= cur}

\* Setting the expiry of t to d from now sets its time left to d.
LEMMA TtlSet ==
    ASSUME TypeOK, NEW t \in Timer, NEW d \in Nat, now' = now,
           expire' = [expire EXCEPT ![t] = now + d]
    PROVE  Ttl' = [Ttl EXCEPT ![t] = d]
  <1>1. now \in Nat /\ expire \in [Timer -> Nat]
    BY ListAssumption DEF TypeOK
  <1>2. Ttl' = [u \in Timer |-> IF expire'[u] > now THEN expire'[u] - now ELSE 0]
    BY DEF Ttl
  <1>3. ASSUME NEW u \in Timer PROVE Ttl'[u] = [Ttl EXCEPT ![t] = d][u]
    <2>1. CASE u = t
      <3>1. expire'[u] = now + d
        BY <1>1, <2>1
      <3>2. (IF now + d > now THEN (now + d) - now ELSE 0) = d
        BY <1>1
      <3> QED
        BY <1>2, <2>1, <3>1, <3>2 DEF Ttl
    <2>2. CASE u # t
      <3>1. expire'[u] = expire[u]
        BY <1>1, <2>2
      <3> QED
        BY <1>2, <2>2, <3>1 DEF Ttl
    <2> QED
      BY <2>1, <2>2
  <1> QED
    BY <1>2, <1>3 DEF Ttl

\* A deleted timer has no time left.
LEMMA TtlCleared ==
    ASSUME TypeOK, NEW t \in Timer, now' = now, expire' = [expire EXCEPT ![t] = 0]
    PROVE  Ttl' = [Ttl EXCEPT ![t] = 0]
  <1>1. now \in Nat /\ expire \in [Timer -> Nat]
    BY ListAssumption DEF TypeOK
  <1>2. Ttl' = [u \in Timer |-> IF expire'[u] > now THEN expire'[u] - now ELSE 0]
    BY DEF Ttl
  <1>3. ASSUME NEW u \in Timer PROVE Ttl'[u] = [Ttl EXCEPT ![t] = 0][u]
    BY <1>1, <1>2 DEF Ttl
  <1> QED
    BY <1>2, <1>3 DEF Ttl

\* add_timer is the queue's Add.
LEMMA AddIsAdd ==
    ASSUME IInv, NEW t \in Timer, NEW d \in Delays, AddTimer(t, now + d)
    PROVE  Queue!Add(t, d)
  <1>1. /\ cur = NoTick /\ cur' = cur /\ now' = now /\ t \notin live /\ live' = live \cup {t}
        /\ expire' = [expire EXCEPT ![t] = now + d]
    BY DEF AddTimer
  <1>2. Ttl' = [Ttl EXCEPT ![t] = d]
    BY <1>1, TtlSet, ListAssumption DEF IInv
  <1> QED
    BY <1>1, <1>2 DEF Queue!Add, Ttl

\* adjust_timer is the queue's Adjust.
LEMMA AdjustIsAdjust ==
    ASSUME IInv, NEW t \in Timer, NEW d \in Delays, AdjustTimer(t, now + d)
    PROVE  Queue!Adjust(t, d)
  <1>1. /\ cur = NoTick /\ cur' = cur /\ now' = now /\ t \in live /\ live' = live
        /\ now + d >= expire[t]
    BY DEF AdjustTimer
  <1>2. expire' = [expire EXCEPT ![t] = now + d]
    BY DEF AdjustTimer, AdjustStays, AdjustHead, AdjustInner, InsertFrom
  <1>3. d \in Nat /\ now \in Nat /\ expire[t] \in Nat
    BY ListAssumption DEF IInv, TypeOK
  <1>4. Ttl' = [Ttl EXCEPT ![t] = d]
    BY <1>1, <1>2, <1>3, TtlSet DEF IInv
  <1>5. d >= Ttl[t]
    BY <1>1, <1>3 DEF Ttl
  <1> QED
    BY <1>1, <1>4, <1>5 DEF Queue!Adjust, Ttl

\* del_timer is the queue's Del.
LEMMA DelIsDel ==
    ASSUME IInv, NEW t \in Timer, DelTimer(t)
    PROVE  Queue!Del(t)
  <1>1. cur = NoTick /\ cur' = cur /\ now' = now /\ t \in live
    BY DEF DelTimer
  <1>2. live' = live \ {t} /\ expire' = [expire EXCEPT ![t] = 0]
    BY DEF DelTimer, DelOnly, DelHead, DelTail, DelInner, Free
  <1>3. Ttl' = [Ttl EXCEPT ![t] = 0]
    BY <1>1, <1>2, TtlCleared DEF IInv
  <1> QED
    BY <1>1, <1>2, <1>3 DEF Queue!Del, Queue!Remove, Ttl

\* The start of tick() is the queue's TickBegin: it collects the timers due now.
LEMMA TickBeginIsTickBegin ==
    ASSUME IInv, TickBegin
    PROVE  Queue!TickBegin
  <1>1. cur = NoTick /\ cur' = now /\ now' = now /\ live' = live /\ expire' = expire
    BY DEF TickBegin
  <1>2. now \in Nat /\ expire \in [Timer -> Nat] /\ live \in SUBSET Timer /\ now # NoTick
    BY ListAssumption DEF IInv, TypeOK, NoTick
  <1>3. \A t \in live : Ttl[t] = 0 <=> expire[t] <= now
    BY <1>2 DEF Ttl
  <1>4. Firing' = {t \in live : Ttl[t] = 0}
    BY <1>1, <1>2, <1>3 DEF Firing
  <1>5. Ttl' = Ttl
    BY <1>1 DEF Ttl
  <1> QED
    BY <1>1, <1>2, <1>4, <1>5 DEF Queue!TickBegin, Ttl, Firing

\* An iteration of tick() is the queue's Fire of the head.
LEMMA TickFireIsFire ==
    ASSUME IInv, TickFire, NEW t \in Timer, t = head
    PROVE  Queue!Fire(t)
  <1>1. /\ cur # NoTick /\ cur' = cur /\ now' = now /\ head # NULL /\ cur >= expire[t]
        /\ live' = live \ {t} /\ expire' = [expire EXCEPT ![t] = 0]
    BY DEF TickFire, HeadDue, Free
  <1>2. /\ now \in Nat /\ cur \in Int /\ expire \in [Timer -> Nat] /\ live \in SUBSET Timer
        /\ t \in live
    BY <1>1, LiveList, ListAssumption DEF IInv, TypeOK, NoTick, Linkage
  <1>3. Ttl' = [Ttl EXCEPT ![t] = 0]
    BY <1>1, <1>2, TtlCleared DEF IInv
  <1>4. t \in Firing /\ Firing' = Firing \ {t}
    BY <1>1, <1>2 DEF Firing
  <1> QED
    BY <1>1, <1>2, <1>3, <1>4 DEF Queue!Fire, Queue!Remove, Ttl, Firing

(* tick() returns when the head is not due, and then, the list being       *)
(* sorted, no timer is: the queue's TickEnd.                               *)
LEMMA TickEndIsTickEnd ==
    ASSUME IInv, TickEnd
    PROVE  Queue!TickEnd
  <1>1. /\ cur # NoTick /\ cur' = NoTick /\ now' = now /\ live' = live /\ expire' = expire
        /\ ~(head # NULL /\ cur >= expire[head])
    BY DEF TickEnd, HeadDue
  <1>2. cur \in Int /\ expire \in [Timer -> Nat] /\ live \in SUBSET Timer
    BY ListAssumption DEF IInv, TypeOK, NoTick
  <1>3. Firing = {}
    <2>1. CASE head = NULL
      BY <1>1, <2>1, HeadNull DEF Firing
    <2>2. CASE head # NULL
      <3>1. head \in live /\ \A u \in live : expire[head] <= expire[u]
        BY <2>2, LiveList DEF Linkage
      <3> QED
        BY <1>1, <1>2, <2>2, <3>1 DEF Firing
    <2> QED
      BY <2>1, <2>2
  <1>4. Ttl' = Ttl /\ Firing' = {}
    BY <1>1 DEF Ttl, Firing
  <1> QED
    BY <1>1, <1>3, <1>4 DEF Queue!TickEnd, Ttl, Firing

\* A second that passes is the queue's Elapse; what tick() fires is settled.
LEMMA ClockIsElapse ==
    ASSUME IInv, Clock
    PROVE  Queue!Elapse
  <1>1. now' = now + 1 /\ cur' = cur /\ live' = live /\ expire' = expire
    BY DEF Clock
  <1>2. now \in Nat /\ expire \in [Timer -> Nat]
    BY ListAssumption DEF IInv, TypeOK
  <1>3. Ttl' = [t \in Timer |-> IF Ttl[t] = 0 THEN 0 ELSE Ttl[t] - 1]
    BY <1>1, <1>2 DEF Ttl
  <1> QED
    BY <1>1, <1>3 DEF Queue!Elapse, Ttl

\* ~sort_timer_lst is the queue's Destroy.
LEMMA DestroyIsDestroy ==
    ASSUME IInv, Destroy
    PROVE  Queue!Destroy
  <1>1. /\ cur = NoTick /\ cur' = cur /\ now' = now /\ live' = {}
        /\ expire' = [t \in Timer |-> 0]
    BY DEF Destroy
  <1>2. Ttl' = [t \in Timer |-> 0]
    <2>1. now \in Nat
      BY ListAssumption DEF IInv, TypeOK
    <2> QED
      BY <1>1, <2>1 DEF Ttl
  <1> QED
    BY <1>1, <1>2 DEF Queue!Destroy, Ttl

\* Every step of the list is a step of the queue or leaves it as it is.
LEMMA ListSteps ==
    ASSUME IInv, [Next]_vars
    PROVE  [Queue!Next]_(Queue!queueVars)
  <1>1. ASSUME NEW t \in Timer, NEW d \in Delays, AddTimer(t, now + d) PROVE Queue!Next
    BY <1>1, AddIsAdd DEF Queue!Next
  <1>2. ASSUME NEW t \in Timer, NEW d \in Delays, AdjustTimer(t, now + d) PROVE Queue!Next
    BY <1>2, AdjustIsAdjust DEF Queue!Next
  <1>3. ASSUME NEW t \in Timer, DelTimer(t) PROVE Queue!Next
    BY <1>3, DelIsDel DEF Queue!Next
  <1>4. CASE TickBegin
    BY <1>4, TickBeginIsTickBegin DEF Queue!Next
  <1>5. CASE TickFire
    <2>1. head # NULL
      BY <1>5 DEF TickFire, HeadDue
    <2>2. PICK t \in Timer : t = head
      BY <2>1 DEF IInv, TypeOK
    <2>3. Queue!Fire(t)
      BY <1>5, <2>2, TickFireIsFire
    <2> QED
      BY <2>3 DEF Queue!Next
  <1>6. CASE TickEnd
    BY <1>6, TickEndIsTickEnd DEF Queue!Next
  <1>7. CASE Destroy
    BY <1>7, DestroyIsDestroy DEF Queue!Next
  <1>8. CASE Clock
    BY <1>8, ClockIsElapse DEF Queue!Next
  <1>9. CASE UNCHANGED vars
    BY <1>9 DEF vars, Queue!queueVars
  <1> QED
    BY <1>1, <1>2, <1>3, <1>4, <1>5, <1>6, <1>7, <1>8, <1>9 DEF Next

(* The sorted list implements the abstract queue: a call of tick() runs    *)
(* the callback of every timer that was due when it read the clock, of no  *)
(* other, and returns only when it has.                                    *)
THEOREM ListIsQueue == Spec => ImplementsQueue
  <1>1. Init => Queue!Init
    BY DEF Init, Queue!Init, NoTick
  <1>2. IInv /\ [Next]_vars => [Queue!Next]_(Queue!queueVars)
    BY ListSteps
  <1> QED
    BY <1>1, <1>2, Invariant, PTL DEF Spec, Queue!Spec, ImplementsQueue

=============================================================================
