----------------------------- MODULE TimersProofs -----------------------------
(***************************************************************************)
(* Proofs about the timers (base/timers.c), for every set of timers and    *)
(* whatever their timeouts are: what holds for every owner, and what holds *)
(* for careful ones.                                                       *)
(***************************************************************************)
EXTENDS Timers, ListLemmas

-----------------------------------------------------------------------------
(* The operations of the list.                                             *)

Sorted(s) ==
  \A i, j \in DOMAIN s : i < j => timeout[s[i]] <= timeout[s[j]] /\ s[i] # s[j]
(* x is the k-th timer of s, or NULL past the last one.                    *)
NodeAt(s, x, k) ==
  /\ k \in 1 .. Len(s) + 1
  /\ x = IF k <= Len(s) THEN s[k] ELSE NULL

LEMMA Indices ==
  ASSUME NEW s \in Seq(Timer)
  PROVE  /\ Len(s) \in Nat /\ DOMAIN s = 1 .. Len(s)
         /\ \A i \in 1 .. Len(s) : s[i] \in Timer /\ timeout[s[i]] \in Nat
         /\ \A t : Contains(s, t) <=> \E i \in 1 .. Len(s) : s[i] = t
         /\ \A t : Contains(s, t) => t \in Timer
<1>1. Len(s) \in Nat /\ DOMAIN s = 1 .. Len(s)
  BY LenProperties
<1>2. \A i \in 1 .. Len(s) : s[i] \in Timer /\ timeout[s[i]] \in Nat
  BY ElementOfSeq, TimersAssumption
<1>3. QED
  BY <1>1, <1>2 DEF Contains

LEMMA PositionFound ==
  ASSUME NEW s \in Seq(Timer), NEW k \in 1 .. Len(s), Sorted(s)
  PROVE  Position(s, s[k]) = k
<1>1. Len(s) \in Nat /\ DOMAIN s = 1 .. Len(s)
  BY Indices
<1>2. \A i \in 1 .. Len(s) : s[i] = s[k] => i = k
  BY <1>1 DEF Sorted
<1>3. QED
  BY <1>1, <1>2 DEF Position

(* The next node of the k-th one is the next of the list.                  *)
LEMMA SuccIsNext ==
  ASSUME NEW s \in Seq(Timer), NEW k \in 1 .. Len(s), Sorted(s)
  PROVE  NodeAt(s, Succ(s, s[k]), k + 1)
<1>1. Len(s) \in Nat
  BY Indices
<1>2. Position(s, s[k]) = k
  BY PositionFound
<1>3. k + 1 \in 1 .. Len(s) + 1 /\ (k < Len(s) <=> k + 1 <= Len(s))
  BY <1>1
<1>4. QED
  BY <1>2, <1>3 DEF Succ, NodeAt

LEMMA WithoutIsRemoveAt ==
  ASSUME NEW s \in Seq(Timer), NEW k \in 1 .. Len(s), Sorted(s)
  PROVE  /\ Without(s, s[k]) \in Seq(Timer)
         /\ Len(Without(s, s[k])) = Len(s) - 1
         /\ \A j \in 1 .. Len(s) - 1 :
              Without(s, s[k])[j] = IF j < k THEN s[j] ELSE s[j + 1]
<1>1. Without(s, s[k]) = RemoveAt(s, k)
  BY PositionFound, Indices DEF Without
<1>2. QED
  BY <1>1, RemoveAtIsSeq

(* Taking a timer out leaves the others, in order.                         *)
LEMMA WithoutKeepsOrder ==
  ASSUME NEW s \in Seq(Timer), NEW t, Sorted(s)
  PROVE  /\ Without(s, t) \in Seq(Timer)
         /\ Sorted(Without(s, t))
         /\ \A u : Contains(Without(s, t), u) <=> u # t /\ Contains(s, u)
<1>1. CASE ~Contains(s, t)
  BY <1>1 DEF Without
<1>2. CASE Contains(s, t)
  <2>1. PICK k \in 1 .. Len(s) : s[k] = t
    BY <1>2, Indices
  <2> DEFINE r == Without(s, t)
  <2>2. /\ r \in Seq(Timer) /\ Len(r) = Len(s) - 1
        /\ \A j \in 1 .. Len(s) - 1 : r[j] = IF j < k THEN s[j] ELSE s[j + 1]
    BY <2>1, WithoutIsRemoveAt
  <2> HIDE DEF r
  <2>3. /\ Len(s) \in Nat /\ DOMAIN s = 1 .. Len(s) /\ DOMAIN r = 1 .. Len(s) - 1
        /\ \A i, j \in 1 .. Len(s) : i < j => s[i] # s[j]
    BY <2>2, Indices DEF Sorted
  <2> DEFINE old(j) == IF j < k THEN j ELSE j + 1
  <2>o. \A j \in 1 .. Len(r) :
          old(j) \in 1 .. Len(s) /\ old(j) # k /\ r[j] = s[old(j)]
    BY <2>2, <2>3
  <2>m. \A i, j \in 1 .. Len(r) : i < j => old(i) < old(j)
    BY <2>2, <2>3
  <2>4. Sorted(r)
    <3> HIDE DEF old
    <3>1. DOMAIN r = 1 .. Len(r)
      BY <2>2, <2>3
    <3>2. QED
      BY <2>3, <2>o, <2>m, <3>1 DEF Sorted
  <2>5. ASSUME NEW j \in 1 .. Len(r)
        PROVE  r[j] # t /\ Contains(s, r[j])
    <3>1. PICK i \in 1 .. Len(s) : i # k /\ r[j] = s[i]
      BY <2>o
    <3>2. s[i] # s[k]
      BY <2>3, <3>1
    <3>3. QED
      BY <2>1, <3>1, <3>2, Indices
  <2>6. ASSUME NEW i \in 1 .. Len(s), s[i] # t
        PROVE  \E j \in 1 .. Len(r) : r[j] = s[i]
    <3>1. i # k
      BY <2>1, <2>6
    <3>2. CASE i < k
      <4>1. i \in 1 .. Len(s) - 1
        BY <2>3, <3>2
      <4>2. QED
        BY <2>2, <3>2, <4>1
    <3>3. CASE ~(i < k)
      <4>1. i - 1 \in 1 .. Len(s) - 1 /\ ~(i - 1 < k) /\ (i - 1) + 1 = i
        BY <2>3, <3>1, <3>3
      <4>2. QED
        BY <2>2, <4>1
    <3>4. QED
      BY <3>2, <3>3
  <2>7. \A u : Contains(r, u) <=> u # t /\ Contains(s, u)
    <3> SUFFICES ASSUME NEW u
                 PROVE  Contains(r, u) <=> u # t /\ Contains(s, u)
      OBVIOUS
    <3>1. /\ Contains(r, u) <=> \E j \in 1 .. Len(r) : r[j] = u
          /\ Contains(s, u) <=> \E i \in 1 .. Len(s) : s[i] = u
      BY <2>2, Indices
    <3>2. QED
      BY <2>5, <2>6, <3>1
  <2>8. QED
    BY <2>2, <2>4, <2>7 DEF r
<1>3. QED
  BY <1>1, <1>2

(* The place list_sorted_insert() finds.                                   *)
LEMMA InsertPosFound ==
  ASSUME NEW s \in Seq(Timer), NEW t \in Timer
  PROVE  /\ InsertPos(s, t) \in 1 .. Len(s) + 1
         /\ InsertPos(s, t) <= Len(s) => timeout[t] <= timeout[s[InsertPos(s, t)]]
         /\ \A j \in 1 .. InsertPos(s, t) - 1 : timeout[s[j]] < timeout[t]
<1> DEFINE ok == {i \in 1 .. Len(s) + 1 : i <= Len(s) => timeout[t] <= timeout[s[i]]}
           P(i) == /\ i <= Len(s) => timeout[t] <= timeout[s[i]]
                   /\ \A j \in 1 .. i - 1 : timeout[s[j]] < timeout[t]
<1>1. Len(s) \in Nat /\ \A i \in 1 .. Len(s) : timeout[s[i]] \in Nat
  BY Indices
<1>2. Len(s) + 1 \in ok /\ ok \subseteq Nat
  BY <1>1
<1>3. PICK m \in ok : \A i \in ok : m <= i
  <2> HIDE DEF ok
  <2>1. QED
    BY <1>2, LeastNatural
<1>4. ASSUME NEW j \in 1 .. m - 1
      PROVE  timeout[s[j]] < timeout[t]
  <2>1. j \in 1 .. Len(s) /\ j \in 1 .. Len(s) + 1 /\ ~(m <= j)
    BY <1>1
  <2>2. j \notin ok
    BY <1>3, <2>1
  <2>3. ~(timeout[t] <= timeout[s[j]])
    BY <2>1, <2>2
  <2>4. QED
    BY <1>1, <2>1, <2>3, TimersAssumption
<1>5. m \in 1 .. Len(s) + 1 /\ P(m)
  BY <1>4
<1>6. InsertPos(s, t) = CHOOSE i \in 1 .. Len(s) + 1 : P(i)
  BY DEF InsertPos
<1> HIDE DEF P
<1>7. InsertPos(s, t) \in 1 .. Len(s) + 1 /\ P(InsertPos(s, t))
  BY <1>5, <1>6
<1>8. QED
  BY <1>7 DEF P

(* Inserting a timer that is not on the list keeps it sorted.              *)
LEMMA InsertKeepsOrder ==
  ASSUME NEW s \in Seq(Timer), NEW t \in Timer, Sorted(s), ~Contains(s, t)
  PROVE  /\ SortedInsert(s, t) \in Seq(Timer)
         /\ Sorted(SortedInsert(s, t))
         /\ \A u : Contains(SortedInsert(s, t), u) <=> u = t \/ Contains(s, u)
<1> DEFINE k == InsertPos(s, t)  r == SortedInsert(s, t)
<1>1. /\ k \in 1 .. Len(s) + 1
      /\ k <= Len(s) => timeout[t] <= timeout[s[k]]
      /\ \A j \in 1 .. k - 1 : timeout[s[j]] < timeout[t]
  BY InsertPosFound
<1> HIDE DEF k
<1>2. r = InsertAt(s, k, t)
  BY DEF SortedInsert, k
<1>3. /\ r \in Seq(Timer) /\ Len(r) = Len(s) + 1
      /\ \A j \in 1 .. Len(s) + 1 :
           r[j] = IF j < k THEN s[j] ELSE IF j = k THEN t ELSE s[j - 1]
  <2>1. /\ InsertAt(s, k, t) \in Seq(Timer) /\ Len(InsertAt(s, k, t)) = Len(s) + 1
        /\ \A j \in 1 .. Len(s) + 1 :
             InsertAt(s, k, t)[j] = IF j < k THEN s[j] ELSE IF j = k THEN t ELSE s[j - 1]
    BY <1>1, InsertAtIsSeq
  <2>2. QED
    BY <1>2, <2>1
<1> HIDE DEF r
<1>4. /\ Len(s) \in Nat /\ DOMAIN s = 1 .. Len(s) /\ DOMAIN r = 1 .. Len(s) + 1
      /\ timeout[t] \in Nat
      /\ \A i \in 1 .. Len(s) : timeout[s[i]] \in Nat /\ s[i] # t
  BY <1>3, Indices, TimersAssumption
<1>5. \A i, j \in 1 .. Len(s) : i < j => timeout[s[i]] <= timeout[s[j]] /\ s[i] # s[j]
  BY <1>4 DEF Sorted
<1>6. \A j \in 1 .. Len(s) : j >= k => timeout[t] <= timeout[s[j]]
  <2> SUFFICES ASSUME NEW j \in 1 .. Len(s), j >= k
               PROVE  timeout[t] <= timeout[s[j]]
    OBVIOUS
  <2>1. k \in 1 .. Len(s) /\ timeout[t] <= timeout[s[k]]
    BY <1>1, <1>4
  <2>2. k = j \/ timeout[s[k]] <= timeout[s[j]]
    BY <1>5, <2>1
  <2>3. QED
    BY <1>4, <2>1, <2>2
<1>7. Sorted(r)
  <2> SUFFICES ASSUME NEW i \in 1 .. Len(s) + 1, NEW j \in 1 .. Len(s) + 1, i < j
               PROVE  timeout[r[i]] <= timeout[r[j]] /\ r[i] # r[j]
    BY <1>4 DEF Sorted
  <2>1. CASE j < k
    BY <1>1, <1>3, <1>4, <1>5, <2>1
  <2>2. CASE j = k
    <3>1. i \in 1 .. k - 1 /\ i \in 1 .. Len(s) /\ r[i] = s[i] /\ r[j] = t
      BY <1>1, <1>3, <1>4, <2>2
    <3>2. QED
      BY <1>1, <1>4, <3>1
  <2>3. CASE j > k
    <3>1. j - 1 \in 1 .. Len(s) /\ j - 1 >= k /\ r[j] = s[j - 1]
      BY <1>1, <1>3, <1>4, <2>3
    <3>2. CASE i < k
      <4>1. i \in 1 .. Len(s) /\ i < j - 1 /\ r[i] = s[i]
        BY <1>1, <1>3, <1>4, <3>1, <3>2
      <4>2. QED
        BY <1>5, <3>1, <4>1
    <3>3. CASE i = k
      BY <1>3, <1>4, <1>6, <3>1, <3>3
    <3>4. CASE i > k
      <4>1. i - 1 \in 1 .. Len(s) /\ i - 1 < j - 1 /\ r[i] = s[i - 1]
        BY <1>1, <1>3, <1>4, <3>4
      <4>2. QED
        BY <1>5, <3>1, <4>1
    <3>5. QED
      BY <1>1, <3>2, <3>3, <3>4
  <2>4. QED
    BY <1>1, <2>1, <2>2, <2>3
<1>8. ASSUME NEW j \in 1 .. Len(r)
      PROVE  r[j] = t \/ Contains(s, r[j])
  <2>1. j \in 1 .. Len(s) + 1
    BY <1>3
  <2>2. CASE j < k
    <3>1. j \in 1 .. Len(s) /\ r[j] = s[j]
      BY <1>1, <1>3, <1>4, <2>1, <2>2
    <3>2. QED
      BY <3>1, Indices
  <2>3. CASE j = k
    BY <1>3, <2>1, <2>3
  <2>4. CASE j > k
    <3>1. j - 1 \in 1 .. Len(s) /\ r[j] = s[j - 1]
      BY <1>1, <1>3, <1>4, <2>1, <2>4
    <3>2. QED
      BY <3>1, Indices
  <2>5. QED
    BY <1>1, <2>1, <2>2, <2>3, <2>4
<1>9. k \in 1 .. Len(r) /\ r[k] = t
  BY <1>1, <1>3, <1>4
<1>10. ASSUME NEW i \in 1 .. Len(s)
       PROVE  \E j \in 1 .. Len(r) : r[j] = s[i]
  <2>1. CASE i < k
    <3>1. i \in 1 .. Len(s) + 1
      BY <1>4
    <3>2. QED
      BY <1>3, <2>1, <3>1
  <2>2. CASE ~(i < k)
    <3>1. i + 1 \in 1 .. Len(s) + 1 /\ ~(i + 1 < k) /\ i + 1 # k /\ (i + 1) - 1 = i
      BY <1>1, <1>4, <2>2
    <3>2. QED
      BY <1>3, <3>1
  <2>3. QED
    BY <2>1, <2>2
<1>11. \A u : Contains(r, u) <=> u = t \/ Contains(s, u)
  <2> SUFFICES ASSUME NEW u
               PROVE  Contains(r, u) <=> u = t \/ Contains(s, u)
    OBVIOUS
  <2>1. /\ Contains(r, u) <=> \E j \in 1 .. Len(r) : r[j] = u
        /\ Contains(s, u) <=> \E i \in 1 .. Len(s) : s[i] = u
    BY <1>3, Indices
  <2>2. QED
    BY <1>8, <1>9, <1>10, <2>1
<1>12. QED
  BY <1>3, <1>7, <1>11 DEF r

(* A timer that shares its timeout with no other one is put back where it  *)
(* was taken out: an expiry of a periodic timer does not reorder the list. *)
LEMMA ReinsertRestores ==
  ASSUME NEW s \in Seq(Timer), NEW k \in 1 .. Len(s), Sorted(s),
         \A j \in 1 .. Len(s) : j # k => timeout[s[j]] # timeout[s[k]]
  PROVE  SortedInsert(Without(s, s[k]), s[k]) = s
<1> DEFINE t == s[k]  r == Without(s, t)  m == InsertPos(r, t)  n == SortedInsert(r, t)
<1>1. /\ Len(s) \in Nat /\ DOMAIN s = 1 .. Len(s) /\ t \in Timer
      /\ \A i \in 1 .. Len(s) : timeout[s[i]] \in Nat
      /\ \A i, j \in 1 .. Len(s) : i < j => timeout[s[i]] <= timeout[s[j]]
  BY Indices DEF Sorted
<1>2. /\ r \in Seq(Timer) /\ Len(r) = Len(s) - 1
      /\ \A j \in 1 .. Len(s) - 1 : r[j] = IF j < k THEN s[j] ELSE s[j + 1]
  BY WithoutIsRemoveAt
<1> HIDE DEF r
<1>3. /\ m \in 1 .. Len(r) + 1
      /\ m <= Len(r) => timeout[t] <= timeout[r[m]]
      /\ \A j \in 1 .. m - 1 : timeout[r[j]] < timeout[t]
  BY <1>1, <1>2, InsertPosFound
<1>4. n = InsertAt(r, m, t)
  BY DEF SortedInsert
<1> HIDE DEF m
<1>5. /\ n \in Seq(Timer) /\ Len(n) = Len(r) + 1
      /\ \A j \in 1 .. Len(r) + 1 :
           n[j] = IF j < m THEN r[j] ELSE IF j = m THEN t ELSE r[j - 1]
  <2> HIDE DEF n, t
  <2>1. /\ InsertAt(r, m, t) \in Seq(Timer) /\ Len(InsertAt(r, m, t)) = Len(r) + 1
        /\ \A j \in 1 .. Len(r) + 1 :
             InsertAt(r, m, t)[j] = IF j < m THEN r[j] ELSE IF j = m THEN t ELSE r[j - 1]
    BY <1>1, <1>2, <1>3, InsertAtIsSeq
  <2>2. QED
    BY <1>4, <2>1
<1> HIDE DEF n
<1>6. m = k
  <2>1. ~(m < k)
    <3> SUFFICES ASSUME m < k PROVE FALSE
      OBVIOUS
    <3>1. m \in 1 .. Len(s) - 1 /\ m <= Len(r) /\ r[m] = s[m] /\ m \in 1 .. Len(s)
      BY <1>1, <1>2, <1>3
    <3>2. timeout[s[m]] <= timeout[t] /\ timeout[t] <= timeout[s[m]]
      BY <1>1, <1>3, <3>1
    <3>3. timeout[s[m]] # timeout[t] /\ timeout[s[m]] \in Nat /\ timeout[t] \in Nat
      BY <1>1, <3>1
    <3>4. QED
      BY <3>2, <3>3
  <2>2. ~(k < m)
    <3> SUFFICES ASSUME k < m PROVE FALSE
      OBVIOUS
    <3>1. k \in 1 .. m - 1 /\ k \in 1 .. Len(s) - 1 /\ r[k] = s[k + 1] /\ k + 1 \in 1 .. Len(s)
      BY <1>1, <1>2, <1>3
    <3>2. timeout[s[k + 1]] < timeout[t] /\ timeout[t] <= timeout[s[k + 1]]
      BY <1>1, <1>3, <3>1
    <3>3. timeout[s[k + 1]] \in Nat /\ timeout[t] \in Nat
      BY <1>1, <3>1
    <3>4. QED
      BY <3>2, <3>3
  <2>3. QED
    BY <1>1, <1>2, <1>3, <2>1, <2>2
<1>7. \A j \in 1 .. Len(s) : n[j] = s[j]
  <2> SUFFICES ASSUME NEW j \in 1 .. Len(s)
               PROVE  n[j] = s[j]
    OBVIOUS
  <2>1. CASE j < k
    BY <1>1, <1>2, <1>5, <1>6, <2>1
  <2>2. CASE j = k
    BY <1>1, <1>2, <1>5, <1>6, <2>2
  <2>3. CASE j > k
    <3>1. j - 1 \in 1 .. Len(s) - 1 /\ ~(j - 1 < k) /\ (j - 1) + 1 = j
      BY <1>1, <2>3
    <3>2. n[j] = r[j - 1] /\ r[j - 1] = s[j]
      BY <1>1, <1>2, <1>5, <1>6, <2>3, <3>1
    <3>3. QED
      BY <3>2
  <2>4. QED
    BY <1>1, <2>1, <2>2, <2>3
<1>8. n = s
  BY <1>1, <1>2, <1>5, <1>7, SeqEqual
<1>9. QED
  BY <1>8 DEF n, r
-----------------------------------------------------------------------------
(* What holds for every owner.                                             *)

(* The walk stands at an installed timer or past the last one; while a     *)
(* callback is due, at the timer that expired, which is back on the list   *)
(* if it is periodic, and else leads to an installed one.                  *)
WalkThreaded ==
  /\ expired => isr /\ l # NULL
  /\ isr /\ ~expired /\ l # NULL => Installed(l)
  /\ expired => (l \in Periodic <=> Installed(l))
  /\ expired /\ l \notin Periodic => after = NULL \/ Installed(after)

IInv == TypeOK /\ ListSorted /\ WalkThreaded

SleepersTyped ==
  /\ drowsy \in SUBSET Sleeper /\ asleep \in SUBSET Sleeper
  /\ waitq \in [Sleeper -> Sleeper \cup {NULL}]

(* What is on the list, and what the operations make of it.                *)
LEMMA ListFacts ==
  ASSUME IInv
  PROVE  /\ list \in Seq(Timer) /\ Sorted(list)
         /\ \A t : Installed(t) => t \in Timer
         /\ \A t : /\ Without(list, t) \in Seq(Timer) /\ Sorted(Without(list, t))
                   /\ \A u : Contains(Without(list, t), u) <=> u # t /\ Installed(u)
         /\ \A t : Installed(t) => Succ(list, t) = NULL \/ (Installed(Succ(list, t)) /\ Succ(list, t) # t)
         /\ NULL \notin Timer
<1>1. list \in Seq(Timer) /\ Sorted(list)
  BY DEF IInv, TypeOK, ListSorted, Sorted
<1>2. \A t : Installed(t) => t \in Timer
  BY <1>1, Indices DEF Installed
<1>3. \A t : /\ Without(list, t) \in Seq(Timer) /\ Sorted(Without(list, t))
             /\ \A u : Contains(Without(list, t), u) <=> u # t /\ Installed(u)
  BY <1>1, WithoutKeepsOrder DEF Installed
<1>4. ASSUME NEW t, Installed(t)
      PROVE  Succ(list, t) = NULL \/ (Installed(Succ(list, t)) /\ Succ(list, t) # t)
  <2>1. PICK k \in 1 .. Len(list) : list[k] = t
    BY <1>1, <1>4, Indices DEF Installed
  <2>2. NodeAt(list, Succ(list, t), k + 1)
    BY <1>1, <2>1, SuccIsNext
  <2>3. CASE k + 1 <= Len(list)
    <3>1. k + 1 \in 1 .. Len(list) /\ k < k + 1 /\ Succ(list, t) = list[k + 1]
      BY <1>1, <2>2, <2>3, Indices DEF NodeAt
    <3>2. DOMAIN list = 1 .. Len(list)
      BY <1>1, Indices
    <3>3. QED
      BY <1>1, <2>1, <3>1, <3>2, Indices DEF Sorted, Installed
  <2>4. CASE ~(k + 1 <= Len(list))
    BY <2>2, <2>4 DEF NodeAt
  <2>5. QED
    BY <2>3, <2>4
<1>5. QED
  BY <1>1, <1>2, <1>3, <1>4, TimersAssumption

LEMMA InitInv == Init => IInv
<1> SUFFICES ASSUME Init PROVE IInv
  OBVIOUS
<1>1. <<>> \in Seq(Timer) /\ DOMAIN <<>> = {}
  OBVIOUS
<1>2. TypeOK
  <2>1. 0 \in 0 .. LatchMax
    BY TimersAssumption
  <2>2. [t \in Timer |-> 0] \in [Timer -> 0 .. LatchMax] /\ [t \in Timer |-> 0] \in [Timer -> Nat]
    BY <2>1
  <2>3. QED
    BY <1>1, <2>2 DEF Init, TypeOK
<1>3. ListSorted /\ WalkThreaded
  BY <1>1 DEF Init, ListSorted, WalkThreaded
<1>4. QED
  BY <1>2, <1>3 DEF IInv

LEMMA InstallTimerInv ==
  ASSUME IInv, NEW t \in Timer, InstallTimer(t), SleepersTyped'
  PROVE  IInv'
<1>1. list' = SortedInsert(list, t) /\ ~Installed(t) /\ ~isr
  BY DEF InstallTimer
<1>2. /\ SortedInsert(list, t) \in Seq(Timer) /\ Sorted(SortedInsert(list, t))
      /\ \A u : Contains(SortedInsert(list, t), u) <=> u = t \/ Contains(list, u)
  BY <1>1, ListFacts, InsertKeepsOrder DEF Installed
<1>3. /\ list' \in Seq(Timer) /\ ListSorted'
      /\ \A u : Installed(u)' <=> u = t \/ Installed(u)
  BY <1>1, <1>2 DEF ListSorted, Sorted, Installed
<1>4. /\ UNCHANGED <<isr, l, after, expired>>
      /\ latch' = [latch EXCEPT ![t] = timeout[t]] /\ age' = [age EXCEPT ![t] = 0]
  BY DEF InstallTimer, Reload
<1>5. timeout[t] \in 0 .. LatchMax
  BY TimersAssumption
<1>6. TypeOK'
  BY <1>3, <1>4, <1>5 DEF IInv, TypeOK, SleepersTyped
<1>7. WalkThreaded'
  BY <1>1, <1>3, <1>4 DEF IInv, WalkThreaded
<1>8. QED
  BY <1>3, <1>6, <1>7 DEF IInv

LEMMA InstallInv ==
  ASSUME IInv, NEW t \in Timer, Install(t)
  PROVE  IInv'
<1>1. InstallTimer(t) /\ UNCHANGED <<drowsy, asleep, waitq>>
  BY DEF Install, sleepers
<1>2. SleepersTyped'
  BY <1>1 DEF IInv, TypeOK, SleepersTyped
<1>3. QED
  BY <1>1, <1>2, InstallTimerInv

LEMMA SleepInv ==
  ASSUME IInv, NEW t \in Sleeper, Sleep(t)
  PROVE  IInv'
<1>1. /\ InstallTimer(t) /\ drowsy' = drowsy \cup {t} /\ asleep' = asleep
      /\ \E head \in Leftovers : waitq' = [waitq EXCEPT ![t] = head]
  BY DEF Sleep
<1>2. SleepersTyped'
  BY <1>1 DEF IInv, TypeOK, SleepersTyped, Leftovers
<1>3. t \in Timer
  BY TimersAssumption
<1>4. QED
  BY <1>1, <1>2, <1>3, InstallTimerInv

LEMMA NapInv ==
  ASSUME IInv, NEW t \in Sleeper, Nap(t)
  PROVE  IInv'
<1>1. /\ drowsy' = drowsy \ {t} /\ asleep' = asleep \cup {t}
      /\ waitq' = [waitq EXCEPT ![t] = IF waitq[t] = NULL THEN t ELSE waitq[t]]
      /\ UNCHANGED <<list, latch, isr, l, after, expired, age>>
  BY DEF Nap
<1>2. SleepersTyped'
  BY <1>1 DEF IInv, TypeOK, SleepersTyped
<1>3. QED
  BY <1>1, <1>2 DEF IInv, TypeOK, SleepersTyped, ListSorted, WalkThreaded, Installed

LEMMA RemoveTimerInv ==
  ASSUME IInv, NEW t \in Timer, RemoveTimer(t)
  PROVE  IInv'
<1>1. /\ list' = Without(list, t) /\ ~isr /\ t \notin Sleeper
      /\ UNCHANGED <<latch, isr, l, after, expired, drowsy, asleep, waitq, age>>
  BY DEF RemoveTimer, sleepers
<1>2. /\ list' \in Seq(Timer) /\ ListSorted'
      /\ \A u : Installed(u)' <=> u # t /\ Installed(u)
  BY <1>1, ListFacts DEF ListSorted, Sorted, Installed
<1>3. TypeOK'
  BY <1>1, <1>2 DEF IInv, TypeOK
<1>4. WalkThreaded'
  BY <1>1, <1>2 DEF IInv, WalkThreaded
<1>5. QED
  BY <1>2, <1>3, <1>4 DEF IInv

LEMMA TickInv ==
  ASSUME IInv, Tick
  PROVE  IInv'
<1>1. /\ ~isr /\ isr' = TRUE /\ l' = IF list = <<>> THEN NULL ELSE Head(list)
      /\ age' = [t \in Timer |-> IF Installed(t) THEN age[t] + 1 ELSE age[t]]
      /\ UNCHANGED <<list, latch, after, expired, drowsy, asleep, waitq>>
  BY DEF Tick, sleepers
<1>2. \A t : Installed(t)' <=> Installed(t)
  BY <1>1 DEF Installed
<1>3. l' = NULL \/ Installed(l')
  <2>1. CASE list # <<>>
    <3>1. 1 \in 1 .. Len(list) /\ Head(list) = list[1]
      BY <2>1, ListFacts, TailIsRemoveAt
    <3>2. QED
      BY <1>1, <2>1, <3>1, ListFacts, Indices DEF Installed
  <2>2. QED
    BY <1>1, <2>1
<1>4. ~expired
  BY <1>1 DEF IInv, WalkThreaded
<1>5. TypeOK'
  <2>1. l' \in Timer \cup {NULL}
    BY <1>3, ListFacts
  <2>2. age' \in [Timer -> Nat]
    BY <1>1 DEF IInv, TypeOK
  <2>3. QED
    BY <1>1, <2>1, <2>2 DEF IInv, TypeOK
<1>6. ListSorted' /\ WalkThreaded'
  BY <1>1, <1>2, <1>3, <1>4 DEF IInv, ListSorted, WalkThreaded
<1>7. QED
  BY <1>5, <1>6 DEF IInv

LEMMA CountDownInv ==
  ASSUME IInv, CountDown
  PROVE  IInv'
<1>1. /\ isr /\ l # NULL /\ ~expired /\ l' = Succ(list, l)
      /\ latch' = [latch EXCEPT ![l] = Decremented(l)]
      /\ UNCHANGED <<list, isr, after, expired, drowsy, asleep, waitq, age>>
  BY DEF CountDown, sleepers
<1>2. \A t : Installed(t)' <=> Installed(t)
  BY <1>1 DEF Installed
<1>3. Installed(l) /\ l \in Timer
  BY <1>1, ListFacts DEF IInv, WalkThreaded
<1>4. l' = NULL \/ Installed(l')
  BY <1>1, <1>3, ListFacts
<1>5. TypeOK'
  <2>1. l' \in Timer \cup {NULL}
    BY <1>4, ListFacts
  <2>2. Decremented(l) \in 0 .. LatchMax
    BY <1>3, TimersAssumption DEF IInv, TypeOK, Decremented
  <2>3. latch' \in [Timer -> 0 .. LatchMax]
    BY <1>1, <2>2 DEF IInv, TypeOK
  <2>4. QED
    BY <1>1, <2>1, <2>3 DEF IInv, TypeOK
<1>6. ListSorted' /\ WalkThreaded'
  BY <1>1, <1>2, <1>4 DEF IInv, ListSorted, WalkThreaded
<1>7. QED
  BY <1>5, <1>6 DEF IInv

LEMMA ExpireInv ==
  ASSUME IInv, Expire
  PROVE  IInv'
<1> DEFINE r == Without(list, l)
<1>1. /\ isr /\ l # NULL /\ ~expired /\ expired' = TRUE /\ after' = Succ(list, l)
      /\ list' = IF l \in Periodic THEN SortedInsert(r, l) ELSE r
      /\ latch' = [latch EXCEPT ![l] = IF l \in Periodic THEN timeout[l] ELSE 0]
      /\ UNCHANGED <<isr, l, drowsy, asleep, waitq, age>>
  BY DEF Expire, Reload, sleepers
<1>2. Installed(l) /\ l \in Timer
  BY <1>1, ListFacts DEF IInv, WalkThreaded
<1>3. /\ r \in Seq(Timer) /\ Sorted(r)
      /\ \A u : Contains(r, u) <=> u # l /\ Installed(u)
  BY ListFacts
<1> HIDE DEF r
<1>4. /\ SortedInsert(r, l) \in Seq(Timer) /\ Sorted(SortedInsert(r, l))
      /\ \A u : Contains(SortedInsert(r, l), u) <=> u = l \/ Contains(r, u)
  BY <1>2, <1>3, InsertKeepsOrder
<1>5. /\ list' \in Seq(Timer) /\ ListSorted'
      /\ \A u : Installed(u)' <=> (u = l /\ l \in Periodic) \/ (u # l /\ Installed(u))
  BY <1>1, <1>3, <1>4 DEF ListSorted, Sorted, Installed
<1>6. after' = NULL \/ (Installed(after') /\ after' # l)
  BY <1>1, <1>2, ListFacts
<1>7. TypeOK'
  <2>1. after' \in Timer \cup {NULL}
    BY <1>6, ListFacts
  <2>2. latch' \in [Timer -> 0 .. LatchMax]
    <3>1. timeout[l] \in 0 .. LatchMax /\ 0 \in 0 .. LatchMax
      BY <1>2, TimersAssumption
    <3>2. (IF l \in Periodic THEN timeout[l] ELSE 0) \in 0 .. LatchMax
      BY <3>1
    <3>3. QED
      BY <1>1, <3>2 DEF IInv, TypeOK
  <2>3. QED
    BY <1>1, <1>5, <2>1, <2>2 DEF IInv, TypeOK
<1>8. WalkThreaded'
  <2>1. l' \in Periodic <=> Installed(l)'
    BY <1>1, <1>5 DEF Installed
  <2>2. after' = NULL \/ Installed(after)'
    BY <1>1, <1>5, <1>6 DEF Installed
  <2>3. QED
    BY <1>1, <2>1, <2>2 DEF WalkThreaded
<1>9. QED
  BY <1>5, <1>7, <1>8 DEF IInv

(* Where the walk goes on after a callback.                                *)
LEMMA NextOfExpired ==
  ASSUME IInv, expired
  PROVE  LET n == IF Installed(l) THEN Succ(list, l) ELSE after
         IN  n = NULL \/ (Installed(n) /\ n # l)
<1>1. l \in Timer
  BY DEF IInv, TypeOK, WalkThreaded
<1>2. CASE Installed(l)
  BY <1>2, ListFacts
<1>3. CASE ~Installed(l)
  BY <1>3 DEF IInv, WalkThreaded
<1>4. QED
  BY <1>2, <1>3

LEMMA CallbackInv ==
  ASSUME IInv, Callback
  PROVE  IInv'
<1>1. /\ isr /\ expired /\ expired' = FALSE /\ age' = [age EXCEPT ![l] = 0]
      /\ asleep' \subseteq asleep /\ drowsy' = drowsy
      /\ waitq' = waitq \/ (l \in Sleeper /\ waitq' = [waitq EXCEPT ![l] = NULL])
      /\ l' = IF Installed(l) THEN Succ(list, l) ELSE after
      /\ UNCHANGED <<list, latch, isr, after>>
  BY DEF Callback, WakeHead, sleepers
<1>2. \A t : Installed(t)' <=> Installed(t)
  BY <1>1 DEF Installed
<1>3. l' = NULL \/ Installed(l')
  BY <1>1, NextOfExpired
<1>4. TypeOK'
  <2>1. l' \in Timer \cup {NULL}
    BY <1>3, ListFacts
  <2>2. waitq' \in [Sleeper -> Sleeper \cup {NULL}]
    BY <1>1 DEF IInv, TypeOK
  <2>3. QED
    BY <1>1, <2>1, <2>2 DEF IInv, TypeOK
<1>5. ListSorted' /\ WalkThreaded'
  BY <1>1, <1>2, <1>3 DEF IInv, ListSorted, WalkThreaded
<1>6. QED
  BY <1>4, <1>5 DEF IInv

LEMMA CallbackRemovesInv ==
  ASSUME IInv, CallbackRemoves
  PROVE  IInv'
<1>1. /\ isr /\ expired /\ expired' = FALSE /\ age' = [age EXCEPT ![l] = 0]
      /\ l \in Periodic /\ list' = Without(list, l)
      /\ l' = IF Installed(l) THEN Succ(list, l) ELSE after
      /\ UNCHANGED <<latch, isr, after, drowsy, asleep, waitq>>
  BY DEF CallbackRemoves, sleepers
<1>2. /\ list' \in Seq(Timer) /\ ListSorted'
      /\ \A u : Installed(u)' <=> u # l /\ Installed(u)
  BY <1>1, ListFacts DEF ListSorted, Sorted, Installed
<1>3. l' = NULL \/ (Installed(l') /\ l' # l)
  BY <1>1, NextOfExpired
<1>4. TypeOK'
  <2>1. l' \in Timer \cup {NULL}
    BY <1>3, ListFacts
  <2>2. QED
    BY <1>1, <1>2, <2>1 DEF IInv, TypeOK
<1>5. WalkThreaded'
  <2>1. l' # NULL => Installed(l)'
    BY <1>2, <1>3 DEF Installed
  <2>2. QED
    BY <1>1, <2>1 DEF WalkThreaded
<1>6. QED
  BY <1>2, <1>4, <1>5 DEF IInv

LEMMA NextInv ==
  ASSUME IInv, [Next]_vars
  PROVE  IInv'
<1>1. ASSUME NEW t \in Timer, Install(t)
      PROVE  IInv'
  BY <1>1, InstallInv
<1>s. ASSUME NEW t \in Sleeper, Sleep(t)
      PROVE  IInv'
  BY <1>s, SleepInv
<1>n. ASSUME NEW t \in Sleeper, Nap(t)
      PROVE  IInv'
  BY <1>n, NapInv
<1>2. ASSUME NEW t \in Timer, RemoveTimer(t)
      PROVE  IInv'
  BY <1>2, RemoveTimerInv
<1>3. CASE Tick
  BY <1>3, TickInv
<1>4. CASE CountDown
  BY <1>4, CountDownInv
<1>5. CASE Expire
  BY <1>5, ExpireInv
<1>6. CASE Callback
  BY <1>6, CallbackInv
<1>7. CASE CallbackRemoves
  BY <1>7, CallbackRemovesInv
<1>8. CASE TickDone
  <2>1. /\ isr /\ l = NULL /\ isr' = FALSE /\ after' = NULL
        /\ UNCHANGED <<list, latch, l, expired, drowsy, asleep, waitq, age>>
    BY <1>8 DEF TickDone, sleepers
  <2>2. QED
    BY <2>1 DEF IInv, TypeOK, ListSorted, WalkThreaded, Installed
<1>9. CASE UNCHANGED vars
  BY <1>9 DEF vars, sleepers, IInv, TypeOK, ListSorted, WalkThreaded, Installed
<1>10. QED
  BY <1>1, <1>s, <1>n, <1>2, <1>3, <1>4, <1>5, <1>6, <1>7, <1>8, <1>9 DEF Next

LEMMA Inductive == Spec => []IInv
<1>1. IInv /\ [Next]_vars => IInv'
  BY NextInv
<1>2. QED
  BY <1>1, InitInv, PTL DEF Spec

(* The type invariant: no node the walk reads is anything but a timer.     *)
THEOREM TypeCorrect == Spec => []TypeOK
<1>1. IInv => TypeOK
  BY DEF IInv
<1>2. QED
  BY <1>1, Inductive, PTL

(* Whatever is installed, removed or put back, and whoever owns it, the    *)
(* list stays sorted and holds no timer twice.                             *)
THEOREM ListStaysSorted == Spec => []ListSorted
<1>1. IInv => ListSorted
  BY DEF IInv
<1>2. QED
  BY <1>1, Inductive, PTL
-----------------------------------------------------------------------------
(* What careful owners can rely on.                                        *)

(* Who is on the list is there rightly.                                    *)
Suited ==
  /\ \A t : Installed(t) => timeout[t] > 0
  /\ \A t, u : /\ Installed(t) /\ Installed(u)
               /\ t # u /\ timeout[t] = timeout[u]
               => t \notin Periodic

(* Of the ticks since t was installed or expired, n are not counted yet.   *)
Uncounted(t, n) == latch[t] > 0 /\ latch[t] + age[t] = timeout[t] + n

(* The same of the next state, for a t of this one.                        *)
UncountedNext(t, n) == latch'[t] > 0 /\ latch'[t] + age'[t] = timeout[t] + n

(* The walk has counted the current tick for the first k - 1 timers.       *)
CountedTo(k) ==
  \A i \in 1 .. Len(list) :
    ~(expired /\ list[i] = l) => Uncounted(list[i], IF i < k THEN 0 ELSE 1)

(* Every timer is counted down once per tick: those before the walk have   *)
(* been, those from it on have not.                                        *)
WalkCounts ==
  /\ ~isr => CountedTo(Len(list) + 1)
  /\ isr /\ ~expired => \E k \in Nat : NodeAt(list, l, k) /\ CountedTo(k)
  /\ expired => age[l] = timeout[l]
  /\ expired /\ l \in Periodic =>
       /\ latch[l] = timeout[l]
       /\ \E k \in 1 .. Len(list) : list[k] = l /\ CountedTo(k)
  /\ expired /\ l \notin Periodic =>
       \E k \in Nat : NodeAt(list, after, k) /\ CountedTo(k)

CInv == IInv /\ Suited /\ WalkCounts

(* Arithmetic needs numbers.                                               *)
LEMMA Numbers ==
  ASSUME IInv, NEW t \in Timer
  PROVE  latch[t] \in Nat /\ age[t] \in Nat /\ timeout[t] \in Nat
<1>1. latch[t] \in 0 .. LatchMax /\ age[t] \in Nat /\ LatchMax \in Nat
  BY TimersAssumption DEF IInv, TypeOK
<1>2. QED
  BY <1>1, TimersAssumption

(* Every timer on the list has one place.                                  *)
LEMMA Places ==
  ASSUME NEW s \in Seq(Timer), Sorted(s)
  PROVE  /\ Len(s) \in Nat /\ DOMAIN s = 1 .. Len(s)
         /\ \A i \in 1 .. Len(s) : s[i] \in Timer /\ Contains(s, s[i])
         /\ \A i, j \in 1 .. Len(s) : s[i] = s[j] => i = j
         /\ \A t : Contains(s, t) <=> \E i \in 1 .. Len(s) : s[i] = t
<1>1. /\ Len(s) \in Nat /\ DOMAIN s = 1 .. Len(s)
      /\ \A i \in 1 .. Len(s) : s[i] \in Timer
      /\ \A t : Contains(s, t) <=> \E i \in 1 .. Len(s) : s[i] = t
  BY Indices
<1>2. \A i, j \in 1 .. Len(s) : s[i] = s[j] => i = j
  <2> SUFFICES ASSUME NEW i \in 1 .. Len(s), NEW j \in 1 .. Len(s), i # j
               PROVE  s[i] # s[j]
    OBVIOUS
  <2>1. i < j \/ j < i
    BY <1>1
  <2>2. QED
    BY <1>1, <2>1 DEF Sorted
<1>3. QED
  BY <1>1, <1>2

(* Outside a tick, and before the first one, all is counted.               *)
LEMMA BetweenTicks ==
  ASSUME IInv, WalkCounts, ~isr
  PROVE  ~expired /\ \A t : Installed(t) => Uncounted(t, 0)
<1>1. ~expired
  BY DEF IInv, WalkThreaded
<1>2. CountedTo(Len(list) + 1)
  BY DEF WalkCounts
<1>3. \A i \in 1 .. Len(list) : i < Len(list) + 1
  BY ListFacts, Places
<1>4. \A i \in 1 .. Len(list) : Uncounted(list[i], 0)
  BY <1>1, <1>2, <1>3 DEF CountedTo
<1>5. \A t : Installed(t) => \E i \in 1 .. Len(list) : list[i] = t
  BY ListFacts, Places DEF Installed
<1>6. QED
  BY <1>1, <1>4, <1>5

(* Conversely.                                                             *)
LEMMA AllCounted ==
  ASSUME IInv', ~isr', \A t : Installed(t)' => Uncounted(t, 0)'
  PROVE  WalkCounts'
<1>1. ~expired' /\ list' \in Seq(Timer) /\ Sorted(list')
  BY DEF IInv, WalkThreaded, TypeOK, ListSorted, Sorted
<1>2. \A i \in 1 .. Len(list') : i < Len(list') + 1 /\ Contains(list', list'[i])
  BY <1>1, Places
<1>3. CountedTo(Len(list) + 1)'
  BY <1>2 DEF CountedTo, Installed, Uncounted
<1>4. QED
  BY <1>1, <1>3 DEF WalkCounts

(* When the k-th timer leaves the list, the next one gets its place.       *)
LEMMA LeavesList ==
  ASSUME NEW s \in Seq(Timer), NEW k \in 1 .. Len(s), NEW x, Sorted(s),
         NodeAt(s, x, k + 1)
  PROVE  LET r == Without(s, s[k])
         IN  /\ Len(r) = Len(s) - 1
             /\ NodeAt(r, x, k)
             /\ \A i \in 1 .. Len(r) :
                  \E j \in 1 .. Len(s) : r[i] = s[j] /\ j # k /\ (i < k <=> j < k)
<1> DEFINE r == Without(s, s[k])
<1>1. /\ Len(r) = Len(s) - 1 /\ Len(s) \in Nat
      /\ \A j \in 1 .. Len(s) - 1 : r[j] = IF j < k THEN s[j] ELSE s[j + 1]
  BY WithoutIsRemoveAt, Indices
<1> HIDE DEF r
<1>2. NodeAt(r, x, k)
  <2>1. CASE k <= Len(r)
    <3>1. k \in 1 .. Len(s) - 1 /\ ~(k < k) /\ k + 1 <= Len(s)
      BY <1>1, <2>1
    <3>2. r[k] = s[k + 1] /\ x = s[k + 1]
      BY <1>1, <3>1 DEF NodeAt
    <3>3. QED
      BY <1>1, <2>1, <3>2 DEF NodeAt
  <2>2. CASE ~(k <= Len(r))
    <3>1. ~(k + 1 <= Len(s)) /\ k \in 1 .. Len(r) + 1
      BY <1>1, <2>2
    <3>2. QED
      BY <2>2, <3>1 DEF NodeAt
  <2>3. QED
    BY <2>1, <2>2
<1>3. ASSUME NEW i \in 1 .. Len(r)
      PROVE  \E j \in 1 .. Len(s) : r[i] = s[j] /\ j # k /\ (i < k <=> j < k)
  <2>1. i \in 1 .. Len(s) - 1
    BY <1>1
  <2>2. CASE i < k
    <3>1. i \in 1 .. Len(s) /\ r[i] = s[i] /\ i # k
      BY <1>1, <2>1, <2>2
    <3>2. QED
      BY <2>2, <3>1
  <2>3. CASE ~(i < k)
    <3>1. i + 1 \in 1 .. Len(s) /\ r[i] = s[i + 1] /\ i + 1 # k /\ ~(i + 1 < k)
      BY <1>1, <2>1, <2>3
    <3>2. QED
      BY <2>3, <3>1
  <2>4. QED
    BY <2>2, <2>3
<1>4. QED
  BY <1>1, <1>2, <1>3 DEF r

LEMMA InstallTimerCounts ==
  ASSUME Careful, CInv, NEW t \in Timer, InstallTimer(t), SleepersTyped'
  PROVE  CInv'
<1>1. IInv /\ Suited /\ WalkCounts
  BY DEF CInv
<1>2. IInv'
  BY <1>1, InstallTimerInv
<1>3. /\ ~isr /\ ~isr' /\ ~Installed(t) /\ Suitable(t)
      /\ latch' = [latch EXCEPT ![t] = timeout[t]] /\ age' = [age EXCEPT ![t] = 0]
      /\ list' = SortedInsert(list, t)
  BY DEF InstallTimer, Reload
<1>4. \A u : Installed(u)' <=> u = t \/ Installed(u)
  BY <1>1, <1>3, ListFacts, InsertKeepsOrder DEF Installed
<1>5. Suited'
  BY <1>1, <1>3, <1>4, ListFacts DEF Suited, Suitable
<1>6. ASSUME NEW u, Installed(u)'
      PROVE  Uncounted(u, 0)'
  <2>1. CASE u = t
    <3>1. latch'[t] = timeout[t] /\ age'[t] = 0 /\ timeout[t] \in Nat /\ timeout[t] > 0
      BY <1>1, <1>3, Numbers DEF IInv, TypeOK, Suitable
    <3>2. QED
      BY <2>1, <3>1 DEF Uncounted
  <2>2. CASE u # t
    <3>1. Installed(u) /\ u \in Timer
      BY <1>1, <1>4, <1>6, <2>2, ListFacts
    <3>2. latch'[u] = latch[u] /\ age'[u] = age[u]
      BY <1>1, <1>3, <2>2, <3>1 DEF IInv, TypeOK
    <3>3. Uncounted(u, 0)
      BY <1>1, <1>3, <3>1, BetweenTicks
    <3>4. QED
      BY <3>2, <3>3 DEF Uncounted
  <2>3. QED
    BY <2>1, <2>2
<1>7. WalkCounts'
  BY <1>2, <1>3, <1>6, AllCounted
<1>8. QED
  BY <1>2, <1>5, <1>7 DEF CInv

LEMMA RemoveTimerCounts ==
  ASSUME CInv, NEW t \in Timer, RemoveTimer(t)
  PROVE  CInv'
<1>1. IInv /\ Suited /\ WalkCounts
  BY DEF CInv
<1>2. IInv'
  BY <1>1, RemoveTimerInv
<1>3. /\ ~isr /\ ~isr' /\ list' = Without(list, t)
      /\ UNCHANGED <<latch, age>>
  BY DEF RemoveTimer
<1>4. \A u : Installed(u)' => Installed(u)
  BY <1>1, <1>3, ListFacts DEF Installed
<1>5. Suited'
  BY <1>1, <1>4 DEF Suited
<1>6. \A u : Installed(u)' => Uncounted(u, 0)'
  BY <1>1, <1>3, <1>4, BetweenTicks DEF Uncounted
<1>7. WalkCounts'
  BY <1>2, <1>3, <1>6, AllCounted
<1>8. QED
  BY <1>2, <1>5, <1>7 DEF CInv

LEMMA TickCounts ==
  ASSUME CInv, Tick
  PROVE  CInv'
<1>1. IInv /\ Suited /\ WalkCounts
  BY DEF CInv
<1>2. IInv'
  BY <1>1, TickInv
<1>3. /\ ~isr /\ isr' /\ l' = IF list = <<>> THEN NULL ELSE Head(list)
      /\ age' = [t \in Timer |-> IF Installed(t) THEN age[t] + 1 ELSE age[t]]
      /\ UNCHANGED <<list, latch, expired>>
  BY DEF Tick
<1>4. ~expired
  BY <1>1, <1>3, BetweenTicks
<1>5. Suited'
  BY <1>1, <1>3 DEF Suited, Installed
<1>6. list \in Seq(Timer) /\ Sorted(list)
  BY <1>1, ListFacts
<1>7. NodeAt(list, l', 1)
  <2>1. CASE list = <<>>
    BY <1>3, <2>1, EmptySeq DEF NodeAt
  <2>2. CASE list # <<>>
    <3>1. 1 \in 1 .. Len(list) /\ Head(list) = list[1] /\ Len(list) \in Nat
      BY <1>6, <2>2, TailIsRemoveAt, Places
    <3>2. QED
      BY <1>3, <2>2, <3>1 DEF NodeAt
  <2>3. QED
    BY <2>1, <2>2
<1>8. ASSUME NEW i \in 1 .. Len(list)
      PROVE  ~(i < 1) /\ UncountedNext(list[i], 1)
  <2>1. Installed(list[i]) /\ list[i] \in Timer
    BY <1>6, Places DEF Installed
  <2>2. Uncounted(list[i], 0)
    BY <1>1, <1>3, <2>1, BetweenTicks
  <2>3. age'[list[i]] = age[list[i]] + 1
    BY <1>3, <2>1
  <2>4. /\ latch[list[i]] \in Nat /\ age[list[i]] \in Nat /\ timeout[list[i]] \in Nat
    BY <1>1, <2>1, Numbers
  <2>5. QED
    BY <1>3, <2>2, <2>3, <2>4 DEF Uncounted, UncountedNext
<1>9. CountedTo(1)'
  BY <1>3, <1>8 DEF CountedTo, Uncounted, UncountedNext
<1>10. WalkCounts'
  BY <1>3, <1>4, <1>7, <1>9 DEF WalkCounts
<1>11. QED
  BY <1>2, <1>5, <1>10 DEF CInv

(* Where the walk stands when it is at a timer.                            *)
LEMMA AtTimer ==
  ASSUME CInv, isr, ~expired, l # NULL
  PROVE  \E k \in 1 .. Len(list) :
           /\ list[k] = l /\ CountedTo(k)
           /\ NodeAt(list, Succ(list, l), k + 1)
<1>1. IInv /\ WalkCounts
  BY DEF CInv
<1>2. PICK k \in Nat : NodeAt(list, l, k) /\ CountedTo(k)
  BY <1>1 DEF WalkCounts
<1>3. list \in Seq(Timer) /\ Sorted(list) /\ Len(list) \in Nat
  BY <1>1, ListFacts, Places
<1>4. k \in 1 .. Len(list) /\ list[k] = l
  BY <1>2, <1>3 DEF NodeAt
<1>5. NodeAt(list, Succ(list, l), k + 1)
  BY <1>3, <1>4, SuccIsNext
<1>6. QED
  BY <1>2, <1>4, <1>5

LEMMA CountDownCounts ==
  ASSUME CInv, CountDown
  PROVE  CInv'
<1>1. IInv /\ Suited /\ WalkCounts
  BY DEF CInv
<1>2. IInv'
  BY <1>1, CountDownInv
<1>3. /\ isr /\ l # NULL /\ ~expired /\ l' = Succ(list, l)
      /\ Decremented(l) >= 1
      /\ latch' = [latch EXCEPT ![l] = Decremented(l)]
      /\ UNCHANGED <<list, isr, expired, age>>
  BY DEF CountDown
<1>4. Suited'
  BY <1>1, <1>3 DEF Suited, Installed
<1>5. PICK k \in 1 .. Len(list) :
        list[k] = l /\ CountedTo(k) /\ NodeAt(list, Succ(list, l), k + 1)
  BY <1>3, AtTimer
<1>6. list \in Seq(Timer) /\ Sorted(list) /\ Len(list) \in Nat
  BY <1>1, ListFacts, Places
<1>7. /\ l \in Timer
      /\ \A i \in 1 .. Len(list) : list[i] \in Timer /\ (list[i] = l <=> i = k)
  BY <1>5, <1>6, Places
<1>8. ASSUME NEW i \in 1 .. Len(list)
      PROVE  UncountedNext(list[i], IF i < k + 1 THEN 0 ELSE 1)
  <2>1. Uncounted(list[i], IF i < k THEN 0 ELSE 1)
    BY <1>3, <1>5 DEF CountedTo
  <2>2. CASE i = k
    <3>1. Uncounted(l, 1) /\ ~(k < k) /\ k < k + 1
      BY <1>5, <2>1, <2>2
    <3>2. latch[l] \in Nat /\ age[l] \in Nat /\ timeout[l] \in Nat
      BY <1>1, <1>7, Numbers
    <3>3. latch'[l] = latch[l] - 1 /\ latch'[l] >= 1
      BY <1>1, <1>3, <1>7, <3>1, <3>2 DEF Uncounted, Decremented, IInv, TypeOK
    <3>4. UncountedNext(l, 0)
      BY <1>2, <1>3, <3>1, <3>2, <3>3 DEF Uncounted, UncountedNext
    <3>5. QED
      BY <1>3, <1>5, <2>2, <3>1, <3>4 DEF Uncounted, UncountedNext
  <2>3. CASE i # k
    <3>1. latch'[list[i]] = latch[list[i]]
      BY <1>1, <1>3, <1>7, <2>3 DEF IInv, TypeOK
    <3>2. i < k + 1 <=> i < k
      BY <1>6, <2>3
    <3>3. QED
      BY <1>3, <2>1, <3>1, <3>2 DEF Uncounted, UncountedNext
  <2>4. QED
    BY <2>2, <2>3
<1>9. CountedTo(k + 1)'
  BY <1>3, <1>8 DEF CountedTo, Uncounted, UncountedNext
<1>10. NodeAt(list, l, k + 1)' /\ k + 1 \in Nat
  BY <1>3, <1>5, <1>6 DEF NodeAt
<1>11. WalkCounts'
  BY <1>3, <1>9, <1>10 DEF WalkCounts
<1>12. QED
  BY <1>2, <1>4, <1>11 DEF CInv

LEMMA ExpireCounts ==
  ASSUME CInv, Expire
  PROVE  CInv'
<1>1. IInv /\ Suited /\ WalkCounts
  BY DEF CInv
<1>2. IInv'
  BY <1>1, ExpireInv
<1>3. /\ isr /\ l # NULL /\ ~expired /\ after' = Succ(list, l)
      /\ Decremented(l) < 1
      /\ list' = IF l \in Periodic THEN SortedInsert(Without(list, l), l)
                                   ELSE Without(list, l)
      /\ latch' = [latch EXCEPT ![l] = IF l \in Periodic THEN timeout[l] ELSE 0]
      /\ isr' /\ expired' /\ UNCHANGED <<l, age>>
  BY DEF Expire, Reload
<1>4. PICK k \in 1 .. Len(list) :
        list[k] = l /\ CountedTo(k) /\ NodeAt(list, Succ(list, l), k + 1)
  BY <1>3, AtTimer
<1>5. list \in Seq(Timer) /\ Sorted(list) /\ Len(list) \in Nat
  BY <1>1, ListFacts, Places
<1>6. /\ l \in Timer /\ Installed(l)
      /\ \A i \in 1 .. Len(list) : /\ list[i] \in Timer /\ Installed(list[i])
                                   /\ list[i] = l <=> i = k
  BY <1>4, <1>5, Places DEF Installed
<1>7. age'[l] = timeout[l]
  <2>1. Uncounted(l, 1)
    BY <1>3, <1>4 DEF CountedTo
  <2>2. latch[l] \in Nat /\ age[l] \in Nat /\ timeout[l] \in Nat
    BY <1>1, <1>6, Numbers
  <2>3. QED
    BY <1>3, <2>1, <2>2 DEF Uncounted, Decremented
<1>8. ASSUME NEW i \in 1 .. Len(list), i # k
      PROVE  UncountedNext(list[i], IF i < k THEN 0 ELSE 1)
  <2>1. Uncounted(list[i], IF i < k THEN 0 ELSE 1)
    BY <1>3, <1>4 DEF CountedTo
  <2>2. latch'[list[i]] = latch[list[i]]
    BY <1>1, <1>3, <1>6, <1>8 DEF IInv, TypeOK
  <2>3. QED
    BY <1>3, <2>1, <2>2 DEF Uncounted, UncountedNext
<1>9. CASE l \in Periodic
  <2>1. \A j \in 1 .. Len(list) : j # k => timeout[list[j]] # timeout[list[k]]
    BY <1>1, <1>4, <1>6, <1>9 DEF Suited
  <2>2. list' = list
    BY <1>3, <1>4, <1>5, <1>9, <2>1, ReinsertRestores
  <2>3. Suited'
    BY <1>1, <2>2 DEF Suited, Installed
  <2>4. latch'[l] = timeout[l]
    BY <1>1, <1>3, <1>6, <1>9 DEF IInv, TypeOK
  <2>5. CountedTo(k)'
    BY <1>3, <1>4, <1>8, <2>2 DEF CountedTo, Uncounted, UncountedNext
  <2>6. WalkCounts'
    BY <1>3, <1>4, <1>7, <1>9, <2>2, <2>4, <2>5 DEF WalkCounts
  <2>7. QED
    BY <1>2, <2>3, <2>6 DEF CInv
<1>10. CASE l \notin Periodic
  <2> DEFINE r == Without(list, list[k])
  <2>1. /\ NodeAt(r, Succ(list, l), k)
        /\ \A i \in 1 .. Len(r) :
             \E j \in 1 .. Len(list) : r[i] = list[j] /\ j # k /\ (i < k <=> j < k)
    BY <1>4, <1>5, LeavesList
  <2>2. list' = r
    BY <1>3, <1>4, <1>10
  <2> HIDE DEF r
  <2>3. Suited'
    <3>1. \A u : Installed(u)' => Installed(u)
      BY <1>1, <1>3, <1>10, ListFacts DEF Installed
    <3>2. QED
      BY <1>1, <3>1 DEF Suited
  <2>4. CountedTo(k)'
    <3> SUFFICES ASSUME NEW i \in 1 .. Len(r)
                 PROVE  UncountedNext(r[i], IF i < k THEN 0 ELSE 1)
      BY <2>2 DEF CountedTo, Uncounted, UncountedNext
    <3>1. PICK j \in 1 .. Len(list) : r[i] = list[j] /\ j # k /\ (i < k <=> j < k)
      BY <2>1
    <3>2. UncountedNext(list[j], IF j < k THEN 0 ELSE 1)
      BY <1>8, <3>1
    <3>3. QED
      BY <3>1, <3>2
  <2>5. NodeAt(list, after, k)'
    BY <1>3, <2>1, <2>2 DEF NodeAt
  <2>6. WalkCounts'
    BY <1>3, <1>7, <1>10, <2>4, <2>5 DEF WalkCounts
  <2>7. QED
    BY <1>2, <2>3, <2>6 DEF CInv
<1>11. QED
  BY <1>9, <1>10

(* Where the walk stands while a callback is due, and where it goes.       *)
LEMMA AtExpired ==
  ASSUME CInv, expired
  PROVE  LET n == IF Installed(l) THEN Succ(list, l) ELSE after
         IN  \E k \in Nat :
               /\ CountedTo(k)
               /\ l \in Periodic => /\ k \in 1 .. Len(list) /\ list[k] = l
                                    /\ latch[l] = timeout[l]
                                    /\ NodeAt(list, n, k + 1)
               /\ l \notin Periodic => /\ NodeAt(list, n, k)
                                       /\ \A i \in 1 .. Len(list) : list[i] # l
<1> DEFINE n == IF Installed(l) THEN Succ(list, l) ELSE after
<1>1. /\ IInv /\ WalkCounts /\ (l \in Periodic <=> Installed(l))
      /\ list \in Seq(Timer) /\ Sorted(list)
  BY ListFacts DEF CInv, IInv, WalkThreaded
<1>2. CASE l \in Periodic
  <2>1. PICK k \in 1 .. Len(list) : list[k] = l /\ CountedTo(k) /\ latch[l] = timeout[l]
    BY <1>1, <1>2 DEF WalkCounts
  <2>2. NodeAt(list, Succ(list, l), k + 1) /\ k \in Nat
    BY <1>1, <2>1, SuccIsNext, Places
  <2>3. QED
    BY <1>1, <1>2, <2>1, <2>2
<1>3. CASE l \notin Periodic
  <2>1. PICK k \in Nat : NodeAt(list, after, k) /\ CountedTo(k)
    BY <1>1, <1>3 DEF WalkCounts
  <2>2. \A i \in 1 .. Len(list) : list[i] # l
    BY <1>1, <1>3, Places DEF Installed
  <2>3. QED
    BY <1>1, <1>3, <2>1, <2>2
<1>4. QED
  BY <1>2, <1>3

LEMMA CallbackCounts ==
  ASSUME CInv, Callback
  PROVE  CInv'
<1>1. IInv /\ Suited /\ WalkCounts
  BY DEF CInv
<1>2. IInv'
  BY <1>1, CallbackInv
<1>3. /\ isr /\ isr' /\ expired /\ ~expired' /\ age' = [age EXCEPT ![l] = 0]
      /\ l' = IF Installed(l) THEN Succ(list, l) ELSE after
      /\ UNCHANGED <<list, latch>>
  BY DEF Callback
<1>4. Suited'
  BY <1>1, <1>3 DEF Suited, Installed
<1>5. /\ list \in Seq(Timer) /\ Sorted(list) /\ Len(list) \in Nat
      /\ l \in Timer /\ (l \in Periodic <=> Installed(l))
      /\ \A i \in 1 .. Len(list) : list[i] \in Timer
  BY <1>1, <1>3, ListFacts, Places DEF IInv, TypeOK, WalkThreaded
<1>6. PICK k \in Nat :
        /\ CountedTo(k)
        /\ l \in Periodic => /\ k \in 1 .. Len(list) /\ list[k] = l
                             /\ latch[l] = timeout[l] /\ NodeAt(list, l', k + 1)
        /\ l \notin Periodic => /\ NodeAt(list, l', k)
                                /\ \A i \in 1 .. Len(list) : list[i] # l
  BY <1>3, AtExpired
<1>7. ASSUME NEW i \in 1 .. Len(list), list[i] # l
      PROVE  UncountedNext(list[i], IF i < k THEN 0 ELSE 1)
  <2>1. Uncounted(list[i], IF i < k THEN 0 ELSE 1)
    BY <1>6, <1>7 DEF CountedTo
  <2>2. age'[list[i]] = age[list[i]]
    BY <1>1, <1>3, <1>5, <1>7 DEF IInv, TypeOK
  <2>3. QED
    BY <1>3, <2>1, <2>2 DEF Uncounted, UncountedNext
<1>8. CASE l \in Periodic
  <2>1. UncountedNext(l, 0)
    <3>1. age'[l] = 0 /\ latch'[l] = timeout[l] /\ timeout[l] > 0
      BY <1>1, <1>3, <1>5, <1>6, <1>8 DEF IInv, TypeOK, Suited
    <3>2. timeout[l] \in Nat
      BY <1>1, <1>5, Numbers
    <3>3. QED
      BY <3>1, <3>2 DEF UncountedNext
  <2>2. ASSUME NEW i \in 1 .. Len(list)
        PROVE  UncountedNext(list[i], IF i < k + 1 THEN 0 ELSE 1)
    <3>1. CASE list[i] = l
      <4>1. i = k
        BY <1>5, <1>6, <1>8, <3>1, Places
      <4>2. i < k + 1
        BY <1>5, <4>1
      <4>3. QED
        BY <2>1, <3>1, <4>2
    <3>2. CASE list[i] # l
      <4>1. i < k + 1 <=> i < k
        BY <1>5, <1>6, <1>8, <3>2
      <4>2. QED
        BY <1>7, <3>2, <4>1
    <3>3. QED
      BY <3>1, <3>2
  <2>3. CountedTo(k + 1)'
    BY <1>3, <2>2 DEF CountedTo, Uncounted, UncountedNext
  <2>4. NodeAt(list, l, k + 1)' /\ k + 1 \in Nat
    BY <1>3, <1>6, <1>8 DEF NodeAt
  <2>5. WalkCounts'
    BY <1>3, <2>3, <2>4 DEF WalkCounts
  <2>6. QED
    BY <1>2, <1>4, <2>5 DEF CInv
<1>9. CASE l \notin Periodic
  <2>1. CountedTo(k)'
    BY <1>3, <1>6, <1>7, <1>9 DEF CountedTo, Uncounted, UncountedNext
  <2>2. NodeAt(list, l, k)'
    BY <1>3, <1>6, <1>9 DEF NodeAt
  <2>3. WalkCounts'
    BY <1>3, <2>1, <2>2 DEF WalkCounts
  <2>4. QED
    BY <1>2, <1>4, <2>3 DEF CInv
<1>10. QED
  BY <1>8, <1>9

LEMMA CallbackRemovesCounts ==
  ASSUME CInv, CallbackRemoves
  PROVE  CInv'
<1>1. IInv /\ Suited /\ WalkCounts
  BY DEF CInv
<1>2. IInv'
  BY <1>1, CallbackRemovesInv
<1>3. /\ isr /\ isr' /\ expired /\ ~expired' /\ age' = [age EXCEPT ![l] = 0]
      /\ l \in Periodic /\ list' = Without(list, l)
      /\ l' = IF Installed(l) THEN Succ(list, l) ELSE after
      /\ UNCHANGED latch
  BY DEF CallbackRemoves
<1>4. Suited'
  <2>1. \A u : Installed(u)' => Installed(u)
    BY <1>1, <1>3, ListFacts DEF Installed
  <2>2. QED
    BY <1>1, <2>1 DEF Suited
<1>5. list \in Seq(Timer) /\ Sorted(list)
  BY <1>1, ListFacts
<1>6. PICK k \in 1 .. Len(list) :
        list[k] = l /\ CountedTo(k) /\ NodeAt(list, l', k + 1)
  BY <1>3, AtExpired
<1> DEFINE r == Without(list, list[k])
<1>7. /\ NodeAt(r, l', k)
      /\ \A i \in 1 .. Len(r) :
           \E j \in 1 .. Len(list) : r[i] = list[j] /\ j # k /\ (i < k <=> j < k)
  BY <1>5, <1>6, LeavesList
<1>8. list' = r
  BY <1>3, <1>6
<1> HIDE DEF r
<1>9. ASSUME NEW i \in 1 .. Len(r)
      PROVE  UncountedNext(r[i], IF i < k THEN 0 ELSE 1)
  <2>1. PICK j \in 1 .. Len(list) : r[i] = list[j] /\ j # k /\ (i < k <=> j < k)
    BY <1>7
  <2>2. list[j] # l /\ list[j] \in Timer
    BY <1>5, <1>6, <2>1, Places
  <2>3. Uncounted(list[j], IF j < k THEN 0 ELSE 1)
    BY <1>6, <2>2 DEF CountedTo
  <2>4. age'[list[j]] = age[list[j]]
    BY <1>1, <1>3, <2>2 DEF IInv, TypeOK
  <2>5. QED
    BY <1>3, <2>1, <2>3, <2>4 DEF Uncounted, UncountedNext
<1>10. CountedTo(k)'
  BY <1>8, <1>9 DEF CountedTo, Uncounted, UncountedNext
<1>11. NodeAt(list, l, k)' /\ k \in Nat
  BY <1>5, <1>7, <1>8, Places DEF NodeAt
<1>12. WalkCounts'
  BY <1>3, <1>10, <1>11 DEF WalkCounts
<1>13. QED
  BY <1>2, <1>4, <1>12 DEF CInv

LEMMA TickDoneCounts ==
  ASSUME CInv, TickDone
  PROVE  CInv'
<1>1. IInv /\ Suited /\ WalkCounts
  BY DEF CInv
<1>2. /\ isr /\ ~isr' /\ l = NULL
      /\ UNCHANGED <<list, latch, l, expired, age>>
  BY DEF TickDone
<1>3. IInv'
  BY <1>1, NextInv DEF Next
<1>4. ~expired
  BY <1>1, <1>2 DEF IInv, WalkThreaded
<1>5. PICK k \in Nat : NodeAt(list, l, k) /\ CountedTo(k)
  BY <1>1, <1>2, <1>4 DEF WalkCounts
<1>6. /\ Len(list) \in Nat
      /\ \A i \in 1 .. Len(list) : list[i] \in Timer /\ list[i] # NULL
  BY <1>1, ListFacts, Places
<1>7. k = Len(list) + 1
  BY <1>2, <1>5, <1>6 DEF NodeAt
<1>8. CountedTo(Len(list) + 1)'
  BY <1>2, <1>5, <1>7 DEF CountedTo, Uncounted
<1>9. Suited' /\ WalkCounts'
  BY <1>1, <1>2, <1>4, <1>8 DEF Suited, Installed, WalkCounts
<1>10. QED
  BY <1>3, <1>9 DEF CInv

LEMMA InitCounts == Init => CInv
<1> SUFFICES ASSUME Init PROVE CInv
  OBVIOUS
<1>1. list = <<>> /\ ~isr /\ ~expired
  BY DEF Init
<1>2. ~\E i : i \in 1 .. Len(<<>>)
  OBVIOUS
<1>3. Suited /\ WalkCounts
  BY <1>1, <1>2 DEF Suited, Installed, Contains, WalkCounts, CountedTo
<1>4. QED
  BY <1>3, InitInv DEF CInv

LEMMA NapCounts ==
  ASSUME CInv, NEW t \in Sleeper, Nap(t)
  PROVE  CInv'
<1>1. IInv /\ Suited /\ WalkCounts
  BY DEF CInv
<1>2. IInv'
  BY <1>1, NapInv
<1>3. UNCHANGED <<list, latch, isr, l, after, expired, age>>
  BY DEF Nap
<1>4. Suited'
  BY <1>1, <1>3 DEF Suited, Installed
<1>5. WalkCounts'
  BY <1>1, <1>3 DEF WalkCounts, CountedTo, Uncounted, NodeAt
<1>6. QED
  BY <1>2, <1>4, <1>5 DEF CInv

LEMMA NextCounts ==
  ASSUME Careful, CInv, [Next]_vars
  PROVE  CInv'
<1>i. IInv
  BY DEF CInv
<1>t. SleepersTyped'
  BY <1>i, NextInv DEF IInv, TypeOK, SleepersTyped
<1>1. ASSUME NEW t \in Timer, Install(t)
      PROVE  CInv'
  BY <1>t, <1>1, InstallTimerCounts DEF Install
<1>s. ASSUME NEW t \in Sleeper, Sleep(t)
      PROVE  CInv'
  <2>1. t \in Timer /\ InstallTimer(t)
    BY <1>s, TimersAssumption DEF Sleep
  <2>2. QED
    BY <1>t, <2>1, InstallTimerCounts
<1>n. ASSUME NEW t \in Sleeper, Nap(t)
      PROVE  CInv'
  BY <1>n, NapCounts
<1>2. ASSUME NEW t \in Timer, RemoveTimer(t)
      PROVE  CInv'
  BY <1>2, RemoveTimerCounts
<1>3. CASE Tick
  BY <1>3, TickCounts
<1>4. CASE CountDown
  BY <1>4, CountDownCounts
<1>5. CASE Expire
  BY <1>5, ExpireCounts
<1>6. CASE Callback
  BY <1>6, CallbackCounts
<1>7. CASE CallbackRemoves
  BY <1>7, CallbackRemovesCounts
<1>8. CASE TickDone
  BY <1>8, TickDoneCounts
<1>9. CASE UNCHANGED vars
  <2>1. IInv'
    BY <1>9, NextInv DEF CInv
  <2>2. Suited' /\ WalkCounts'
    BY <1>9 DEF vars, CInv, Suited, Installed, WalkCounts, CountedTo, Uncounted, NodeAt
  <2>3. QED
    BY <2>1, <2>2 DEF CInv
<1>10. QED
  BY <1>1, <1>s, <1>n, <1>2, <1>3, <1>4, <1>5, <1>6, <1>7, <1>8, <1>9 DEF Next

(* For careful owners every timer expires exactly its timeout after it was *)
(* installed or last expired, and none is overdue between ticks: the walk  *)
(* counts each timer once per tick although expiries, callbacks and        *)
(* removals change the list under it.                                      *)
THEOREM ExpiresOnTime ==
  ASSUME Careful
  PROVE  Spec => []OnTime
<1>1. CInv => OnTime
  <2> SUFFICES ASSUME CInv PROVE OnTime
    OBVIOUS
  <2>1. IInv /\ WalkCounts
    BY DEF CInv
  <2>2. expired => age[l] = timeout[l]
    BY <2>1 DEF WalkCounts
  <2>3. ASSUME ~isr, NEW t \in Timer, Installed(t)
        PROVE  age[t] <= timeout[t]
    <3>1. Uncounted(t, 0)
      BY <2>1, <2>3, BetweenTicks
    <3>2. latch[t] \in Nat /\ age[t] \in Nat /\ timeout[t] \in Nat
      BY <2>1, Numbers
    <3>3. QED
      BY <3>1, <3>2 DEF Uncounted
  <2>4. QED
    BY <2>2, <2>3 DEF OnTime
<1>2. CInv /\ [Next]_vars => CInv'
  BY NextCounts
<1>3. QED
  BY <1>1, <1>2, InitCounts, PTL DEF Spec
-----------------------------------------------------------------------------
(* What careful sleepers can rely on.                                      *)

(* Who is about to nap is in time, and will find nobody on his queue.      *)
InTime ==
  \A t \in drowsy : /\ Installed(t) /\ ~(expired /\ l = t)
                    /\ waitq[t] = NULL /\ age[t] < timeout[t]

(* No queue of a sleep leads to anybody else.                              *)
WakesOwn == \A t \in Sleeper : waitq[t] \in {NULL, t}

SInv == NoSleeperForgotten /\ InTime /\ WakesOwn

LEMMA InstallWakes ==
  ASSUME Careful, CInv, SInv, NEW t \in Timer, InstallTimer(t)
  PROVE  /\ \A u : Installed(u) => Installed(u)'
         /\ Installed(t)' /\ ~Installed(t) /\ ~expired /\ ~expired'
         /\ age'[t] = 0 /\ 0 < timeout[t]
         /\ \A u \in Timer \ {t} : age'[u] = age[u]
<1>1. IInv
  BY DEF CInv
<1>2. /\ ~isr /\ ~Installed(t) /\ Suitable(t) /\ age' = [age EXCEPT ![t] = 0]
      /\ list' = SortedInsert(list, t) /\ expired' = expired
  BY DEF InstallTimer
<1>3. \A u : Installed(u)' <=> u = t \/ Installed(u)
  BY <1>1, <1>2, ListFacts, InsertKeepsOrder DEF Installed
<1>4. ~expired
  BY <1>1, <1>2 DEF IInv, WalkThreaded
<1>5. 0 < timeout[t]
  BY <1>2 DEF Suitable
<1>6. QED
  BY <1>1, <1>2, <1>3, <1>4, <1>5 DEF IInv, TypeOK

LEMMA InstallKeepsSleepers ==
  ASSUME Careful, CInv, SInv, NEW t \in Timer, Install(t)
  PROVE  SInv'
<1>1. InstallTimer(t) /\ t \notin Sleeper /\ UNCHANGED <<drowsy, asleep, waitq>>
  BY DEF Install, sleepers
<1>2. /\ \A u : Installed(u) => Installed(u)'
      /\ ~expired /\ ~expired'
      /\ \A u \in Timer \ {t} : age'[u] = age[u]
  BY <1>1, InstallWakes
<1>3. drowsy \subseteq Timer \ {t} /\ drowsy \subseteq Sleeper
  BY <1>1, TimersAssumption DEF CInv, IInv, TypeOK
<1>4. QED
  BY <1>1, <1>2, <1>3 DEF SInv, NoSleeperForgotten, InTime, WakesOwn

LEMMA SleepKeepsSleepers ==
  ASSUME Careful, CInv, SInv, NEW t \in Sleeper, Sleep(t)
  PROVE  SInv'
<1>1. /\ InstallTimer(t) /\ t \notin drowsy \cup asleep /\ t \in Timer
      /\ drowsy' = drowsy \cup {t} /\ asleep' = asleep
      /\ waitq' = [waitq EXCEPT ![t] = NULL]
  BY TimersAssumption DEF Sleep, Leftovers
<1>2. /\ \A u : Installed(u) => Installed(u)'
      /\ Installed(t)' /\ ~expired /\ ~expired' /\ age'[t] = 0 /\ 0 < timeout[t]
      /\ \A u \in Timer \ {t} : age'[u] = age[u]
  BY <1>1, InstallWakes
<1>3. /\ drowsy \subseteq Sleeper /\ asleep \subseteq Sleeper /\ Sleeper \subseteq Timer
      /\ waitq'[t] = NULL /\ \A u \in Sleeper \ {t} : waitq'[u] = waitq[u]
  BY <1>1, TimersAssumption DEF CInv, IInv, TypeOK
<1>4. NoSleeperForgotten'
  BY <1>1, <1>2, <1>3 DEF SInv, NoSleeperForgotten
<1>5. InTime'
  BY <1>1, <1>2, <1>3 DEF SInv, InTime
<1>6. WakesOwn'
  BY <1>3 DEF SInv, WakesOwn
<1>7. QED
  BY <1>4, <1>5, <1>6 DEF SInv

LEMMA NapKeepsSleepers ==
  ASSUME CInv, SInv, NEW t \in Sleeper, Nap(t)
  PROVE  SInv'
<1>1. /\ t \in drowsy /\ drowsy' = drowsy \ {t} /\ asleep' = asleep \cup {t}
      /\ waitq' = [waitq EXCEPT ![t] = IF waitq[t] = NULL THEN t ELSE waitq[t]]
      /\ UNCHANGED <<list, latch, isr, l, after, expired, age>>
  BY DEF Nap
<1>2. waitq[t] = NULL /\ Installed(t)
  BY <1>1 DEF SInv, InTime
<1>3. /\ drowsy \subseteq Sleeper /\ asleep \subseteq Sleeper
      /\ waitq'[t] = t /\ \A u \in Sleeper \ {t} : waitq'[u] = waitq[u]
  BY <1>1, <1>2 DEF CInv, IInv, TypeOK
<1>4. NoSleeperForgotten'
  BY <1>1, <1>2, <1>3 DEF SInv, NoSleeperForgotten, Installed
<1>5. InTime'
  BY <1>1, <1>3 DEF SInv, InTime, Installed
<1>6. WakesOwn'
  BY <1>3 DEF SInv, WakesOwn
<1>7. QED
  BY <1>4, <1>5, <1>6 DEF SInv

LEMMA RemoveTimerKeepsSleepers ==
  ASSUME CInv, SInv, NEW t \in Timer, RemoveTimer(t)
  PROVE  SInv'
<1>1. /\ list' = Without(list, t) /\ t \notin Sleeper
      /\ UNCHANGED <<l, expired, drowsy, asleep, waitq, age>>
  BY DEF RemoveTimer, sleepers
<1>2. \A u : Installed(u)' <=> u # t /\ Installed(u)
  BY <1>1, ListFacts DEF CInv, Installed
<1>3. drowsy \subseteq Sleeper /\ asleep \subseteq Sleeper
  BY DEF CInv, IInv, TypeOK
<1>4. QED
  BY <1>1, <1>2, <1>3 DEF SInv, NoSleeperForgotten, InTime, WakesOwn

LEMMA TickKeepsSleepers ==
  ASSUME Careful, CInv, SInv, Tick
  PROVE  SInv'
<1>1. /\ ~isr /\ \A t \in drowsy : age[t] + 1 < timeout[t]
      /\ age' = [t \in Timer |-> IF Installed(t) THEN age[t] + 1 ELSE age[t]]
      /\ UNCHANGED <<list, expired, drowsy, asleep, waitq>>
  BY DEF Tick, sleepers
<1>2. ~expired
  BY <1>1 DEF CInv, IInv, WalkThreaded
<1>3. \A t \in drowsy : t \in Timer /\ Installed(t)
  BY TimersAssumption DEF CInv, IInv, TypeOK, SInv, InTime
<1>4. InTime'
  BY <1>1, <1>2, <1>3 DEF SInv, InTime, Installed
<1>5. QED
  BY <1>1, <1>2, <1>4 DEF SInv, NoSleeperForgotten, WakesOwn, Installed

(* A timer that has run out is not of a task about to nap: it is too old.  *)
LEMMA ExpireKeepsSleepers ==
  ASSUME CInv, SInv, Expire
  PROVE  SInv'
<1>1. /\ isr /\ l # NULL /\ ~expired /\ expired'
      /\ list' = IF l \in Periodic THEN SortedInsert(Without(list, l), l)
                                   ELSE Without(list, l)
      /\ UNCHANGED <<l, drowsy, asleep, waitq, age>>
  BY DEF Expire, sleepers
<1>2. IInv /\ l \in Timer
  BY <1>1 DEF CInv, IInv, TypeOK
<1>3. age[l] = timeout[l]
  BY <1>1, ExpireCounts DEF CInv, WalkCounts
<1>4. l \notin drowsy
  <2>1. timeout[l] \in Nat
    BY <1>2, TimersAssumption
  <2>2. QED
    BY <1>3, <2>1 DEF SInv, InTime
<1>5. \A u : u # l /\ Installed(u) => Installed(u)'
  <2>1. /\ Without(list, l) \in Seq(Timer) /\ Sorted(Without(list, l))
        /\ \A u : Contains(Without(list, l), u) <=> u # l /\ Installed(u)
    BY <1>2, ListFacts
  <2>2. \A u : Contains(SortedInsert(Without(list, l), l), u)
                <=> u = l \/ Contains(Without(list, l), u)
    BY <1>2, <2>1, InsertKeepsOrder
  <2>3. QED
    BY <1>1, <2>1, <2>2 DEF Installed
<1>6. QED
  BY <1>1, <1>4, <1>5 DEF SInv, NoSleeperForgotten, InTime, WakesOwn

(* The callback of a sleep wakes its sleeper and nobody else.              *)
LEMMA CallbackKeepsSleepers ==
  ASSUME CInv, SInv, Callback
  PROVE  SInv'
<1>1. /\ expired /\ ~expired' /\ list' = list /\ age' = [age EXCEPT ![l] = 0]
      /\ drowsy' = drowsy
  BY DEF Callback, WakeHead, sleepers
<1>2. /\ l \notin drowsy
      /\ \A t \in drowsy : age'[t] = age[t]
      /\ asleep \subseteq Sleeper /\ drowsy \subseteq Sleeper
      /\ waitq \in [Sleeper -> Sleeper \cup {NULL}]
  BY <1>1, TimersAssumption DEF CInv, IInv, TypeOK, SInv, InTime
<1>3. CASE l \in Sleeper
  <2>1. asleep' = asleep \ {waitq[l]} /\ waitq' = [waitq EXCEPT ![l] = NULL]
    BY <1>3, TimersAssumption DEF Callback, MayBeMasked, WakeHead
  <2>2. asleep' = asleep \ {l}
    BY <1>2, <1>3, <2>1, TimersAssumption DEF SInv, NoSleeperForgotten, WakesOwn
  <2>3. waitq'[l] = NULL /\ \A t \in Sleeper \ {l} : waitq'[t] = waitq[t]
    BY <1>2, <1>3, <2>1
  <2>4. NoSleeperForgotten'
    BY <1>1, <1>2, <2>2, <2>3 DEF SInv, NoSleeperForgotten, Installed
  <2>5. InTime'
    BY <1>1, <1>2, <2>3 DEF SInv, InTime, Installed
  <2>6. WakesOwn'
    BY <2>3 DEF SInv, WakesOwn
  <2>7. QED
    BY <2>4, <2>5, <2>6 DEF SInv
<1>4. CASE l \notin Sleeper
  <2>1. asleep' = asleep /\ waitq' = waitq
    BY <1>4 DEF Callback, WakeHead, sleepers
  <2>2. NoSleeperForgotten'
    BY <1>1, <1>2, <1>4, <2>1 DEF SInv, NoSleeperForgotten, Installed
  <2>3. InTime' /\ WakesOwn'
    BY <1>1, <1>2, <2>1 DEF SInv, InTime, WakesOwn, Installed
  <2>4. QED
    BY <2>2, <2>3 DEF SInv
<1>5. QED
  BY <1>3, <1>4

LEMMA CallbackRemovesKeepsSleepers ==
  ASSUME CInv, SInv, CallbackRemoves
  PROVE  SInv'
<1>1. /\ expired /\ ~expired' /\ l \in Periodic /\ list' = Without(list, l)
      /\ age' = [age EXCEPT ![l] = 0] /\ UNCHANGED <<drowsy, asleep, waitq>>
  BY DEF CallbackRemoves, sleepers
<1>2. \A u : Installed(u)' <=> u # l /\ Installed(u)
  BY <1>1, ListFacts DEF CInv, Installed
<1>3. /\ drowsy \subseteq Sleeper /\ asleep \subseteq Sleeper /\ l \notin Sleeper
      /\ \A t \in drowsy : age'[t] = age[t]
  BY <1>1, TimersAssumption DEF CInv, IInv, TypeOK
<1>4. QED
  BY <1>1, <1>2, <1>3 DEF SInv, NoSleeperForgotten, InTime, WakesOwn

LEMMA NextKeepsSleepers ==
  ASSUME Careful, CInv, SInv, [Next]_vars
  PROVE  SInv'
<1>1. ASSUME NEW t \in Timer, Install(t)
      PROVE  SInv'
  BY <1>1, InstallKeepsSleepers
<1>2. ASSUME NEW t \in Sleeper, Sleep(t)
      PROVE  SInv'
  BY <1>2, SleepKeepsSleepers
<1>3. ASSUME NEW t \in Sleeper, Nap(t)
      PROVE  SInv'
  BY <1>3, NapKeepsSleepers
<1>4. ASSUME NEW t \in Timer, RemoveTimer(t)
      PROVE  SInv'
  BY <1>4, RemoveTimerKeepsSleepers
<1>5. CASE Tick
  BY <1>5, TickKeepsSleepers
<1>6. CASE CountDown
  BY <1>6 DEF CountDown, sleepers, SInv, NoSleeperForgotten, InTime, WakesOwn, Installed
<1>7. CASE Expire
  BY <1>7, ExpireKeepsSleepers
<1>8. CASE Callback
  BY <1>8, CallbackKeepsSleepers
<1>9. CASE CallbackRemoves
  BY <1>9, CallbackRemovesKeepsSleepers
<1>10. CASE TickDone
  BY <1>10 DEF TickDone, sleepers, SInv, NoSleeperForgotten, InTime, WakesOwn, Installed
<1>11. CASE UNCHANGED vars
  BY <1>11 DEF vars, sleepers, SInv, NoSleeperForgotten, InTime, WakesOwn, Installed
<1>12. QED
  BY <1>1, <1>2, <1>3, <1>4, <1>5, <1>6, <1>7, <1>8, <1>9, <1>10, <1>11 DEF Next

(* In a careful system nobody sleeps without a timer that is installed or  *)
(* due, and it is he whom it wakes, however many sleep at a time: no timer *)
(* runs out before its task naps, and no queue leads to another task.      *)
THEOREM SleepersHaveTimers ==
  ASSUME Careful
  PROVE  Spec => []NoSleeperForgotten
<1>1. Init => CInv /\ SInv
  <2>1. Init => SInv
    BY DEF Init, SInv, NoSleeperForgotten, InTime, WakesOwn
  <2>2. QED
    BY <2>1, InitCounts
<1>2. CInv /\ SInv /\ [Next]_vars => (CInv /\ SInv)'
  BY NextCounts, NextKeepsSleepers
<1>3. CInv /\ SInv => NoSleeperForgotten
  BY DEF SInv
<1>4. QED
  BY <1>1, <1>2, <1>3, PTL DEF Spec
=============================================================================
