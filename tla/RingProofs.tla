----------------------------- MODULE RingProofs -----------------------------
(***************************************************************************)
(* The links of base/taskman.c against the sequences of Taskman, for every *)
(* finite set of tasks and any number of levels and wait queues: whatever  *)
(* enqueue_task(), dequeue_task() and delete_task() do to next, prev and   *)
(* the heads is what the sequences say.  Each of the three is a lemma on   *)
(* the rings of all queues; an action calls one or two of them.            *)
(***************************************************************************)
EXTENDS TaskRing, TaskmanProofs, FiniteSetTheorems

(* The queues of mixed priorities: those a task waits on.                  *)
Mixed == Queue \ (Prio \X {READY})

Links ==
  [head : [Queue -> Task \cup {NULL}], next : [Task -> Task \cup {NULL}],
   prev : [Task -> Task \cup {NULL}], parent : [Task -> Queue \cup {NULL}],
   mixed : [Task -> BOOLEAN]]

(* Each task of s leads to the next and to the previous one, the last to   *)
(* the first; one task alone leads to itself.                              *)
Cyclic(r, s) ==
  /\ \A i \in 1 .. Len(s) - 1 : r.next[s[i]] = s[i+1] /\ r.prev[s[i+1]] = s[i]
  /\ r.next[s[Len(s)]] = s[1]
  /\ r.prev[s[1]] = s[Len(s)]

(* The ring of queue q holds the tasks of s; one task alone leads nowhere, *)
(* unless q is in L.                                                       *)
RingOf(r, q, s, L) ==
  /\ s = <<>> => r.head[q] = NULL
  /\ s # <<>> => r.head[q] = s[1]
  /\ \A i \in 1 .. Len(s) : r.parent[s[i]] = q /\ (r.mixed[s[i]] <=> q \in Mixed)
  /\ (Len(s) = 1 /\ q \notin L) => r.next[s[1]] = NULL /\ r.prev[s[1]] = NULL
  /\ (Len(s) > 1 \/ (Len(s) = 1 /\ q \in L)) => Cyclic(r, s)

Rings(r, Q, L) ==
  /\ r \in Links
  /\ \A q \in Queue : /\ RingOf(r, q, Q[q], L)
                      /\ q \in L => Len(Q[q]) = 1

Distinct(s) == \A i, j \in 1 .. Len(s) : s[i] = s[j] => i = j

LEMMA InQueue ==
  ASSUME NEW Q \in [Queue -> Seq(Task)], Unique(Q), NEW q \in Queue
  PROVE  /\ Q[q] \in Seq(Task) /\ Distinct(Q[q])
         /\ Len(Q[q]) \in Nat /\ DOMAIN Q[q] = 1 .. Len(Q[q])
         /\ Q[q] = <<>> <=> Len(Q[q]) = 0
         /\ \A i \in 1 .. Len(Q[q]) : Q[q][i] \in Task /\ Q[q][i] # NULL
<1>1. Q[q] \in Seq(Task) /\ Len(Q[q]) \in Nat /\ DOMAIN Q[q] = 1 .. Len(Q[q])
  BY LenProperties
<1>2. Distinct(Q[q])
  BY <1>1 DEF Unique, Distinct
<1>3. QED
  BY <1>1, <1>2, EmptySeq, ElementOfSeq, TaskmanAssumption
-----------------------------------------------------------------------------
(* The walk along next meets the tasks of the ring and then NULL.          *)

StepOn(r, q, u) ==
  IF u = NULL THEN NULL ELSE IF r.next[u] = r.head[q] THEN NULL ELSE r.next[u]
Met(r, q, f) ==
  f = [k \in 1 .. Cardinality(Task) |->
         IF k = 1 THEN r.head[q] ELSE StepOn(r, q, f[k-1])]

LEMMA WalkMeets ==
  ASSUME NEW r, NEW q, NEW f, Met(r, q, f), \A g : Met(r, q, g) => g = f
  PROVE  Walk(r, q) = [k \in 1 .. Cardinality({k \in DOMAIN f : f[k] # NULL}) |-> f[k]]
<1> DEFINE met == CHOOSE g : Met(r, q, g)
<1>1. met = f
  <2>1. Met(r, q, met)
    OBVIOUS
  <2> HIDE DEF met
  <2>2. QED
    BY <2>1
<1>2. Walk(r, q) = [k \in 1 .. Cardinality({k \in DOMAIN met : met[k] # NULL}) |-> met[k]]
  BY DEF Walk, Met, StepOn
<1>3. QED
  BY <1>1, <1>2

LEMMA UpTo ==
  ASSUME NEW n \in Nat PROVE Cardinality(1 .. n) = n
  BY FS_Interval

(* No more tasks are on a queue than there are.                            *)
LEMMA LengthBound ==
  ASSUME NEW s \in Seq(Task), Distinct(s)
  PROVE  Cardinality(Task) \in Nat /\ Len(s) <= Cardinality(Task)
<1>1. Len(s) \in Nat /\ \A i \in 1 .. Len(s) : s[i] \in Task
  BY LenProperties, ElementOfSeq
<1> DEFINE f == [i \in 1 .. Len(s) |-> s[i]]
<1>2. f \in Injection(1 .. Len(s), Task)
  BY <1>1 DEF Distinct, Injection, IsInjective
<1>3. Cardinality(1 .. Len(s)) = Len(s)
  BY <1>1, UpTo
<1> HIDE DEF f
<1>4. QED
  BY <1>2, <1>3, FS_Injection, FS_CardinalityType, TaskRingAssumption

LEMMA WalkIsRing ==
  ASSUME NEW r \in Links, NEW q \in Queue, NEW s \in Seq(Task), Distinct(s),
         NEW L, RingOf(r, q, s, L)
  PROVE  Walk(r, q) = s
<1> DEFINE m == Cardinality(Task)
           f == [k \in 1 .. m |-> IF k <= Len(s) THEN s[k] ELSE NULL]
<1>1. /\ m \in Nat /\ Len(s) \in Nat /\ Len(s) <= m /\ DOMAIN s = 1 .. Len(s)
      /\ \A i \in 1 .. Len(s) : s[i] \in Task /\ s[i] # NULL
      /\ s = <<>> <=> Len(s) = 0
  BY LengthBound, LenProperties, ElementOfSeq, TaskmanAssumption, EmptySeq
<1> HIDE DEF m
<1>2. m > 0 => f[1] = r.head[q]
  BY <1>1 DEF RingOf
<1>3. ASSUME NEW k \in 1 .. m, k # 1 PROVE f[k] = StepOn(r, q, f[k-1])
  <2>1. k - 1 \in 1 .. m /\ k \in Nat
    BY <1>1, <1>3
  <2>2. CASE k <= Len(s)
    <3>1. k - 1 \in 1 .. Len(s) - 1 /\ k - 1 + 1 = k /\ Len(s) > 1
      BY <1>1, <1>3, <2>2
    <3>2. r.next[s[k-1]] = s[k]
      BY <3>1 DEF RingOf, Cyclic
    <3>3. s[k] # s[1]
      BY <1>1, <1>3, <2>2, <3>1 DEF Distinct
    <3>4. r.head[q] = s[1]
      BY <1>1, <3>1 DEF RingOf
    <3>5. f[k] = s[k] /\ f[k-1] = s[k-1] /\ s[k-1] # NULL
      BY <1>1, <2>1, <2>2, <3>1
    <3>6. QED
      BY <3>2, <3>3, <3>4, <3>5 DEF StepOn
  <2>3. CASE k = Len(s) + 1
    <3>1. Len(s) # 0 /\ k - 1 = Len(s) /\ s # <<>> /\ Len(s) \in 1 .. Len(s)
      BY <1>1, <1>3, <2>3
    <3>2. f[k] = NULL /\ f[k-1] = s[Len(s)] /\ s[Len(s)] # NULL
      BY <1>1, <2>1, <2>3, <3>1
    <3>3. r.head[q] = s[1]
      BY <3>1 DEF RingOf
    <3>4. r.next[s[Len(s)]] = s[1] \/ r.next[s[Len(s)]] = NULL
      <4>1. CASE Len(s) = 1 /\ q \notin L
        BY <4>1 DEF RingOf
      <4>2. CASE Len(s) > 1 \/ (Len(s) = 1 /\ q \in L)
        BY <4>2 DEF RingOf, Cyclic
      <4>3. QED
        BY <1>1, <3>1, <4>1, <4>2
    <3>5. QED
      BY <3>2, <3>3, <3>4 DEF StepOn
  <2>4. CASE k > Len(s) + 1
    <3>1. ~(k <= Len(s)) /\ ~(k - 1 <= Len(s))
      BY <1>1, <2>1, <2>4
    <3>2. f[k] = NULL /\ f[k-1] = NULL
      BY <2>1, <3>1
    <3>3. QED
      BY <3>2 DEF StepOn
  <2>5. QED
    BY <1>1, <2>1, <2>2, <2>3, <2>4
<1>4. f = [k \in 1 .. m |-> IF k <= Len(s) THEN s[k] ELSE NULL]
  OBVIOUS
<1> HIDE DEF f
<1>5. Met(r, q, f)
  <2>1. \A k \in 1 .. m : f[k] = IF k = 1 THEN r.head[q] ELSE StepOn(r, q, f[k-1])
    BY <1>1, <1>2, <1>3
  <2>2. f = [k \in 1 .. m |-> f[k]]
    BY <1>4
  <2>3. QED
    BY <2>1, <2>2 DEF Met, m
<1>6. ASSUME NEW g, Met(r, q, g) PROVE g = f
  <2>1. /\ g = [k \in 1 .. m |-> g[k]]
        /\ \A k \in 1 .. m : g[k] = IF k = 1 THEN r.head[q] ELSE StepOn(r, q, g[k-1])
    BY <1>6 DEF Met, m
  <2> DEFINE Wrong == {k \in 1 .. m : g[k] # f[k]}
  <2>2. SUFFICES ASSUME Wrong # {} PROVE FALSE
    BY <1>4, <2>1
  <2>3. PICK k \in Wrong : \A j \in Wrong : k <= j
    <3>1. Wrong \subseteq Nat
      BY <1>1
    <3> HIDE DEF Wrong
    <3>2. QED
      BY <2>2, <3>1, LeastNatural
  <2>4. k # 1
    <3>1. k \in 1 .. m /\ g[k] # f[k]
      OBVIOUS
    <3>2. ASSUME k = 1 PROVE g[k] = r.head[q] /\ f[k] = r.head[q]
      <4>1. m > 0
        BY <1>1, <3>1, <3>2
      <4>2. g[k] = IF k = 1 THEN r.head[q] ELSE StepOn(r, q, g[k-1])
        BY <2>1, <3>1, Zenon
      <4>3. QED
        BY <1>2, <3>2, <4>1, <4>2
    <3>3. QED
      BY <3>1, <3>2
  <2>5. k - 1 \in 1 .. m /\ ~(k <= k - 1)
    BY <1>1, <2>4
  <2>6. g[k-1] = f[k-1]
    BY <2>3, <2>5
  <2>7. QED
    BY <1>3, <2>1, <2>4, <2>6
<1>7. {k \in DOMAIN f : f[k] # NULL} = 1 .. Len(s)
  BY <1>1, <1>4
<1>8. Cardinality(1 .. Len(s)) = Len(s)
  BY <1>1, UpTo
<1>9. Walk(r, q) = [k \in 1 .. Len(s) |-> f[k]]
  BY <1>5, <1>6, <1>7, <1>8, WalkMeets
<1>10. \A k \in 1 .. Len(s) : f[k] = s[k]
  BY <1>1, <1>4
<1>11. s = [k \in 1 .. Len(s) |-> s[k]]
  BY <1>1
<1>12. QED
  BY <1>9, <1>10, <1>11
-----------------------------------------------------------------------------
(* What an operation on one ring leaves alone.                             *)

SameAt(r, f, u) ==
  /\ f.next[u] = r.next[u] /\ f.prev[u] = r.prev[u]
  /\ f.parent[u] = r.parent[u] /\ f.mixed[u] = r.mixed[u]

LEMMA RingKept ==
  ASSUME NEW r, NEW f, NEW q \in Queue, NEW s \in Seq(Task), NEW L,
         RingOf(r, q, s, L), f.head[q] = r.head[q],
         \A i \in 1 .. Len(s) : SameAt(r, f, s[i])
  PROVE  RingOf(f, q, s, L)
<1>1. Len(s) \in Nat
  BY LenProperties
<1>2. \A i \in 1 .. Len(s) :
        /\ f.next[s[i]] = r.next[s[i]] /\ f.prev[s[i]] = r.prev[s[i]]
        /\ f.parent[s[i]] = r.parent[s[i]] /\ f.mixed[s[i]] = r.mixed[s[i]]
  BY DEF SameAt
<1>3. ASSUME Cyclic(r, s), Len(s) > 0 PROVE Cyclic(f, s)
  <2>1. \A i \in 1 .. Len(s) - 1 : i \in 1 .. Len(s) /\ i + 1 \in 1 .. Len(s)
    BY <1>1
  <2>2. 1 \in 1 .. Len(s) /\ Len(s) \in 1 .. Len(s)
    BY <1>1, <1>3
  <2>3. QED
    BY <1>2, <1>3, <2>1, <2>2 DEF Cyclic
<1>4. Len(s) = 1 => 1 \in 1 .. Len(s)
  BY <1>1
<1>5. (Len(s) > 1 \/ (Len(s) = 1 /\ q \in L)) => Cyclic(f, s)
  BY <1>1, <1>3 DEF RingOf
<1>6. QED
  BY <1>2, <1>4, <1>5 DEF RingOf

(* From Q to R all queues but q stay, and their rings are left alone.      *)
Untouched(r, f, q, Q, R, L, M) ==
  \A p \in Queue : p # q =>
    /\ R[p] = Q[p]
    /\ p \in M <=> p \in L
    /\ f.head[p] = r.head[p]
    /\ \A i \in 1 .. Len(Q[p]) : SameAt(r, f, Q[p][i])

LEMMA RingsKept ==
  ASSUME NEW r, NEW f \in Links, NEW q \in Queue,
         NEW Q \in [Queue -> Seq(Task)], NEW R \in [Queue -> Seq(Task)],
         NEW L, NEW M, Rings(r, Q, L),
         Untouched(r, f, q, Q, R, L, M),
         RingOf(f, q, R[q], M), q \in M => Len(R[q]) = 1
  PROVE  Rings(f, R, M)
<1> SUFFICES ASSUME NEW p \in Queue
             PROVE  RingOf(f, p, R[p], M) /\ (p \in M => Len(R[p]) = 1)
  BY DEF Rings
<1>1. CASE p = q
  BY <1>1
<1>2. CASE p # q
  <2>1. RingOf(r, p, Q[p], L) /\ (p \in L => Len(Q[p]) = 1)
    BY DEF Rings
  <2>2. /\ R[p] = Q[p] /\ (p \in M <=> p \in L) /\ f.head[p] = r.head[p]
        /\ \A i \in 1 .. Len(Q[p]) : SameAt(r, f, Q[p][i])
    BY <1>2 DEF Untouched
  <2>3. RingOf(r, p, Q[p], M)
    BY <2>1, <2>2 DEF RingOf
  <2>4. RingOf(f, p, Q[p], M)
    BY <2>2, <2>3, RingKept
  <2>5. QED
    BY <2>1, <2>2, <2>4
<1>3. QED
  BY <1>1, <1>2
-----------------------------------------------------------------------------
(* enqueue_task puts t between behind and b.                               *)
Inserted(r, f, q, t, b, behind, hd) ==
  /\ f.head[q] = hd
  /\ f.next[t] = b /\ f.prev[t] = behind /\ f.parent[t] = q
  /\ \A u \in Task \ {t} :
       /\ f.next[u] = IF u = behind THEN t ELSE r.next[u]
       /\ f.prev[u] = IF u = b THEN t ELSE r.prev[u]

(* t fits into the ring of s at position i, between these two tasks.       *)
Fits(r, q, s, L, t, i) ==
  /\ Distinct(s) /\ s # <<>> /\ RingOf(r, q, s, L)
  /\ \A j \in 1 .. Len(s) : s[j] # t
  /\ i \in 1 .. Len(s) + 1
  /\ ~(i = 1 /\ Len(s) = 1 /\ q \notin L)
NextAt(s, i) == IF i = Len(s) + 1 THEN s[1] ELSE s[i]
PrevAt(s, i) == IF i = 1 THEN s[Len(s)] ELSE s[i-1]
HeadAt(s, i, t) == IF i = 1 THEN t ELSE s[1]

LEMMA InsertedIsCyclic ==
  ASSUME NEW r, NEW f, NEW q \in Queue, NEW s \in Seq(Task), NEW L,
         NEW t \in Task, NEW i, Fits(r, q, s, L, t, i),
         NEW b, NEW behind, NEW hd,
         b = NextAt(s, i), behind = PrevAt(s, i), hd = HeadAt(s, i, t),
         Inserted(r, f, q, t, b, behind, hd)
  PROVE  /\ Cyclic(f, InsertAt(s, i, t))
         /\ f.head[q] = InsertAt(s, i, t)[1]
         /\ Len(InsertAt(s, i, t)) > 1
<1>0. /\ Distinct(s) /\ s # <<>> /\ RingOf(r, q, s, L)
      /\ \A j \in 1 .. Len(s) : s[j] # t
      /\ i \in 1 .. Len(s) + 1
      /\ b = IF i = Len(s) + 1 THEN s[1] ELSE s[i]
      /\ behind = IF i = 1 THEN s[Len(s)] ELSE s[i-1]
      /\ hd = IF i = 1 THEN t ELSE s[1]
  BY DEF Fits, NextAt, PrevAt, HeadAt
<1>1. PICK n \in Nat : n = Len(s) /\ n > 0
  BY <1>0, LenProperties, EmptySeq
<1>2. \A j \in 1 .. n : s[j] \in Task \ {t}
  BY <1>0, <1>1, ElementOfSeq
<1>3. PICK v : v = InsertAt(s, i, t)
  OBVIOUS
<1>4. /\ Len(v) = n + 1
      /\ \A j \in 1 .. n + 1 : v[j] = IF j < i THEN s[j] ELSE IF j = i THEN t ELSE s[j-1]
  <2>1. /\ Len(InsertAt(s, i, t)) = Len(s) + 1
        /\ \A j \in 1 .. Len(s) + 1 :
             InsertAt(s, i, t)[j] = IF j < i THEN s[j] ELSE IF j = i THEN t ELSE s[j-1]
    BY <1>0, InsertAtIsSeq
  <2>2. QED
    BY <1>1, <1>3, <2>1, Zenon
<1>5. \A j, k \in 1 .. n : s[j] = s[k] => j = k
  BY <1>0, <1>1 DEF Distinct
<1>6. /\ n > 1 => /\ \A j \in 1 .. n - 1 : r.next[s[j]] = s[j+1] /\ r.prev[s[j+1]] = s[j]
                  /\ r.next[s[n]] = s[1] /\ r.prev[s[1]] = s[n]
  BY <1>0, <1>1 DEF RingOf, Cyclic
<1>7. /\ i \in 1 .. n + 1
      /\ b = IF i = n + 1 THEN s[1] ELSE s[i]
      /\ behind = IF i = 1 THEN s[n] ELSE s[i-1]
  BY <1>0, <1>1
<1>8. /\ f.next[t] = b /\ f.prev[t] = behind
      /\ \A j \in 1 .. n : /\ f.next[s[j]] = IF s[j] = behind THEN t ELSE r.next[s[j]]
                           /\ f.prev[s[j]] = IF s[j] = b THEN t ELSE r.prev[s[j]]
  BY <1>2 DEF Inserted
<1>9. ASSUME NEW j \in 1 .. n PROVE f.next[v[j]] = v[j+1] /\ f.prev[v[j+1]] = v[j]
  <2>1. j \in 1 .. n + 1 /\ j + 1 \in 1 .. n + 1
    BY <1>1
  <2>2. CASE j + 1 < i
    <3>1. v[j] = s[j] /\ v[j+1] = s[j+1] /\ j \in 1 .. n - 1 /\ j + 1 \in 1 .. n /\ n > 1
          /\ i - 1 \in 1 .. n /\ i # 1 /\ 1 \in 1 .. n
      BY <1>1, <1>4, <1>7, <2>1, <2>2
    <3>2. s[j] # behind
      BY <1>1, <1>5, <1>7, <2>2, <3>1
    <3>3. s[j+1] # b
      BY <1>1, <1>5, <1>7, <2>2, <3>1
    <3>4. QED
      BY <1>6, <1>8, <3>1, <3>2, <3>3
  <2>3. CASE j + 1 = i
    <3>1. v[j] = s[j] /\ v[j+1] = t /\ behind = s[j]
      BY <1>1, <1>4, <1>7, <2>1, <2>3
    <3>2. QED
      BY <1>8, <3>1
  <2>4. CASE j = i
    <3>1. v[j] = t /\ v[j+1] = s[j] /\ b = s[j]
      BY <1>1, <1>4, <1>7, <2>1, <2>4
    <3>2. QED
      BY <1>8, <3>1
  <2>5. CASE j > i
    <3>1. v[j] = s[j-1] /\ v[j+1] = s[j] /\ j - 1 \in 1 .. n - 1 /\ j - 1 \in 1 .. n /\ n > 1
          /\ j - 1 + 1 = j /\ i \in 1 .. n /\ i # n + 1 /\ n \in 1 .. n
      BY <1>1, <1>4, <1>7, <2>1, <2>5
    <3>2. s[j-1] # behind
      <4>1. CASE i = 1
        BY <1>1, <1>5, <1>7, <2>5, <3>1, <4>1
      <4>2. CASE i # 1
        <5>1. i - 1 \in 1 .. n /\ i - 1 # j - 1
          BY <1>1, <1>7, <2>5, <4>2
        <5>2. QED
          BY <1>5, <1>7, <3>1, <4>2, <5>1
      <4>3. QED
        BY <4>1, <4>2
    <3>3. s[j] # b
      BY <1>1, <1>5, <1>7, <2>5, <3>1
    <3>4. r.next[s[j-1]] = s[j] /\ r.prev[s[j]] = s[j-1]
      BY <1>6, <3>1
    <3>5. QED
      BY <1>8, <3>1, <3>2, <3>3, <3>4
  <2>6. QED
    BY <1>1, <1>7, <2>2, <2>3, <2>4, <2>5
<1>10. f.next[v[n+1]] = v[1] /\ f.prev[v[1]] = v[n+1]
  <2>1. 1 \in 1 .. n + 1 /\ n + 1 \in 1 .. n + 1 /\ 1 \in 1 .. n /\ n \in 1 .. n
    BY <1>1
  <2>2. CASE i = 1
    <3>1. v[1] = t /\ v[n+1] = s[n] /\ behind = s[n] /\ f.next[s[n]] = t
      BY <1>1, <1>4, <1>7, <1>8, <2>1, <2>2
    <3>2. QED
      BY <1>8, <3>1
  <2>3. CASE i = n + 1
    <3>1. v[1] = s[1] /\ v[n+1] = t /\ b = s[1]
      BY <1>1, <1>4, <1>7, <2>1, <2>3
    <3>2. QED
      BY <1>8, <2>1, <3>1
  <2>4. CASE i # 1 /\ i # n + 1
    <3>1. v[1] = s[1] /\ v[n+1] = s[n] /\ n > 1 /\ i \in 1 .. n /\ i - 1 \in 1 .. n
          /\ i - 1 # n
      BY <1>1, <1>4, <1>7, <2>1, <2>4
    <3>2. s[n] # behind /\ s[1] # b
      BY <1>5, <1>7, <2>1, <2>4, <3>1
    <3>3. QED
      BY <1>6, <1>8, <2>1, <3>1, <3>2
  <2>5. QED
    BY <2>2, <2>3, <2>4
<1>11. Cyclic(f, v)
  <2>1. n + 1 - 1 = n
    BY <1>1
  <2>2. QED
    BY <1>4, <1>9, <1>10, <2>1 DEF Cyclic
<1>12. f.head[q] = v[1]
  <2>1. 1 \in 1 .. n + 1 /\ (i # 1 => 1 < i)
    BY <1>1, <1>7
  <2>2. QED
    BY <1>0, <1>4, <2>1 DEF Inserted
<1>13. QED
  BY <1>1, <1>3, <1>4, <1>11, <1>12

(* Where the code inserts is where the sequence does.                      *)
Place(r, q, s, t, prio, i) ==
  /\ q \notin Mixed => i = Len(s) + 1
  /\ q \in Mixed =>
       /\ i <= Len(s) => prio[t] < prio[s[i]]
       /\ \A j \in 1 .. i - 1 : prio[s[j]] <= prio[t]

LEMMA WorsePosIs ==
  ASSUME NEW r \in Links, NEW q \in Queue, NEW s \in Seq(Task), Distinct(s), s # <<>>,
         NEW L, RingOf(r, q, s, L), NEW t \in Task, NEW prio \in [Task -> Nat],
         NEW i \in 1 .. Len(s) + 1, Place(r, q, s, t, prio, i)
  PROVE  WorsePos(r, q, t, prio) = IF i = Len(s) + 1 THEN 0 ELSE i
<1> DEFINE worse == {j \in 1 .. Len(s) : prio[t] < prio[s[j]]}
<1>1. /\ Len(s) \in Nat /\ Len(s) > 0 /\ DOMAIN s = 1 .. Len(s)
      /\ \A j \in 1 .. Len(s) : s[j] \in Task /\ prio[s[j]] \in Nat
      /\ prio[t] \in Nat
  BY LenProperties, EmptySeq, ElementOfSeq
<1>2. r.head[q] = s[1] /\ (r.mixed[s[1]] <=> q \in Mixed)
  BY <1>1 DEF RingOf
<1>3. WorsePos(r, q, t, prio) =
        IF r.mixed[r.head[q]] /\ worse # {}
        THEN CHOOSE k \in worse : \A j \in worse : k <= j
        ELSE 0
  <2> DEFINE walked == {k \in DOMAIN Walk(r, q) : prio[t] < prio[Walk(r, q)[k]]}
  <2>1. WorsePos(r, q, t, prio) =
          IF r.mixed[r.head[q]] /\ walked # {}
          THEN CHOOSE k \in walked : \A j \in walked : k <= j
          ELSE 0
    BY Zenon DEF WorsePos
  <2>2. Walk(r, q) = s
    BY WalkIsRing
  <2>3. walked = worse
    BY <1>1, <2>2, Zenon
  <2> HIDE DEF walked, worse
  <2>4. QED
    BY <2>1, <2>3
<1>4. worse \subseteq 1 .. Len(s) /\ \A j \in 1 .. Len(s) : j \in worse <=> prio[t] < prio[s[j]]
  OBVIOUS
<1> HIDE DEF worse
<1>5. CASE q \notin Mixed
  BY <1>2, <1>3, <1>5 DEF Place
<1>6. CASE q \in Mixed /\ i = Len(s) + 1
  <2>1. ASSUME NEW j \in worse PROVE FALSE
    <3>1. j \in 1 .. Len(s) /\ j \in 1 .. i - 1
      BY <1>1, <1>4, <1>6
    <3>2. prio[s[j]] <= prio[t] /\ prio[t] < prio[s[j]]
      BY <1>4, <1>6, <3>1 DEF Place
    <3>3. QED
      BY <1>1, <3>1, <3>2
  <2>2. QED
    BY <1>3, <1>6, <2>1
<1>7. CASE q \in Mixed /\ i # Len(s) + 1
  <2>1. i \in 1 .. Len(s) /\ i <= Len(s)
    BY <1>1, <1>7
  <2>2. i \in worse
    BY <1>4, <1>7, <2>1 DEF Place
  <2>3. ASSUME NEW j \in worse, j < i PROVE FALSE
    <3>1. j \in 1 .. Len(s) /\ j \in 1 .. i - 1
      BY <1>1, <1>4, <2>1, <2>3
    <3>2. prio[s[j]] <= prio[t] /\ prio[t] < prio[s[j]]
      BY <1>4, <1>7, <3>1 DEF Place
    <3>3. QED
      BY <1>1, <3>1, <3>2
  <2>4. \A j \in worse : i <= j
    BY <1>1, <1>4, <2>1, <2>3
  <2>5. \A k \in worse : (\A j \in worse : k <= j) => k = i
    BY <1>1, <1>4, <2>1, <2>2, <2>4
  <2>6. (CHOOSE k \in worse : \A j \in worse : k <= j) = i
    BY <2>2, <2>4, <2>5
  <2>7. QED
    BY <1>2, <1>3, <1>7, <2>2, <2>6
<1>8. QED
  BY <1>5, <1>6, <1>7

(* Nothing outside the ring of q changes, but t.                           *)
OnlyRing(r, f, q, s, t) ==
  /\ \A p \in Queue : p # q => f.head[p] = r.head[p]
  /\ \A u \in Task : u # t /\ (\A j \in 1 .. Len(s) : s[j] # u) => SameAt(r, f, u)

(* From r to f, t is put into the ring of q at position i.                 *)
Grown(r, f, q, s, t, i) ==
  /\ f \in Links
  /\ Inserted(r, f, q, t, NextAt(s, i), PrevAt(s, i), HeadAt(s, i, t))
  /\ f.mixed[t] = r.mixed[s[1]]
  /\ \A u \in Task : u # t => f.parent[u] = r.parent[u] /\ f.mixed[u] = r.mixed[u]
  /\ OnlyRing(r, f, q, s, t)

LEMMA EnqueueInserts ==
  ASSUME NEW r \in Links, NEW q \in Queue, NEW s \in Seq(Task), NEW L, NEW t \in Task,
         NEW prio \in [Task -> Nat], NEW mixed \in BOOLEAN, NEW i,
         Fits(r, q, s, L, t, i), Place(r, q, s, t, prio, i),
         NEW f, f = Enqueue(r, q, t, prio, mixed)
  PROVE  Grown(r, f, q, s, t, i)
<1>0. /\ Distinct(s) /\ s # <<>> /\ RingOf(r, q, s, L)
      /\ \A j \in 1 .. Len(s) : s[j] # t
      /\ i \in 1 .. Len(s) + 1
      /\ ~(i = 1 /\ Len(s) = 1 /\ q \notin L)
  BY DEF Fits
<1>1. PICK n \in Nat : n = Len(s) /\ n > 0
  BY <1>0, LenProperties, EmptySeq
<1>2. \A j \in 1 .. n : s[j] \in Task /\ s[j] # NULL /\ s[j] # t
  BY <1>0, <1>1, ElementOfSeq, TaskmanAssumption
<1>3. 1 \in 1 .. n /\ n \in 1 .. n /\ i \in 1 .. n + 1 /\ (i # 1 => i - 1 \in 1 .. n)
      /\ (i # n + 1 => i \in 1 .. n)
  BY <1>0, <1>1
<1>4. PICK b : b = IF i = n + 1 THEN s[1] ELSE s[i]
  OBVIOUS
<1>5. PICK behind : behind = IF i = 1 THEN s[n] ELSE s[i-1]
  OBVIOUS
<1>6. PICK hd : hd = IF i = 1 THEN t ELSE s[1]
  OBVIOUS
<1>7. b \in Task /\ b # NULL /\ b # t /\ behind \in Task /\ behind # NULL /\ behind # t
      /\ hd \in Task /\ t # NULL
  BY <1>2, <1>3, <1>4, <1>5, <1>6, TaskmanAssumption
<1>8. r.head[q] = s[1] /\ r.head[q] # NULL /\ r.head[q] \in Task
  BY <1>0, <1>2, <1>3 DEF RingOf
<1>9. WorsePos(r, q, t, prio) = IF i = n + 1 THEN 0 ELSE i
  BY <1>0, <1>1, WorsePosIs
<1>10. (IF WorsePos(r, q, t, prio) = 0 THEN r.head[q] ELSE Walk(r, q)[WorsePos(r, q, t, prio)]) = b
  <2>1. Walk(r, q) = s
    BY <1>0, WalkIsRing
  <2>2. i # 0 /\ i \in Nat
    BY <1>3
  <2>3. QED
    BY <1>4, <1>8, <1>9, <2>1, <2>2
<1>11. (IF WorsePos(r, q, t, prio) = 1 THEN t ELSE r.head[q]) = hd
  <2>1. i = 1 => i # n + 1
    BY <1>1
  <2>2. QED
    BY <1>6, <1>8, <1>9, <2>1
<1>12. (IF r.prev[b] # NULL THEN r.prev[b] ELSE IF b = r.head[q] THEN hd ELSE NULL) = behind
  <2>1. CASE n = 1 /\ q \notin L
    <3>1. i = n + 1 /\ i # 1 /\ i - 1 = 1
      BY <1>0, <1>1, <1>3, <2>1
    <3>2. b = s[1] /\ r.prev[b] = NULL /\ behind = s[1] /\ hd = s[1]
      BY <1>0, <1>1, <1>4, <1>5, <1>6, <2>1, <3>1 DEF RingOf
    <3>3. QED
      BY <1>8, <3>2
  <2>2. CASE n > 1 \/ (n = 1 /\ q \in L)
    <3>1. Cyclic(r, s)
      BY <1>0, <1>1, <2>2 DEF RingOf
    <3>2. r.prev[b] = behind
      <4>1. CASE i = 1
        <5>1. i # n + 1
          BY <1>1, <4>1
        <5>2. QED
          BY <1>1, <1>4, <1>5, <3>1, <4>1, <5>1 DEF Cyclic
      <4>2. CASE i = n + 1
        <5>1. i # 1 /\ i - 1 = n
          BY <1>1, <4>2
        <5>2. QED
          BY <1>1, <1>4, <1>5, <3>1, <4>2, <5>1 DEF Cyclic
      <4>3. CASE i # 1 /\ i # n + 1
        <5>1. i - 1 \in 1 .. n - 1 /\ i - 1 + 1 = i
          BY <1>1, <1>3, <4>3
        <5>2. r.prev[s[i]] = s[i-1]
          BY <1>1, <3>1, <5>1 DEF Cyclic
        <5>3. QED
          BY <1>4, <1>5, <4>3, <5>2
      <4>4. QED
        BY <4>1, <4>2, <4>3
    <3>3. QED
      BY <1>7, <3>2
  <2>3. QED
    BY <1>1, <2>1, <2>2
<1>13. f = [head |-> [r.head EXCEPT ![q] = hd],
            next |-> Put([r.next EXCEPT ![t] = b], behind, t),
            prev |-> [r.prev EXCEPT ![b] = t, ![t] = behind],
            parent |-> [r.parent EXCEPT ![t] = q],
            mixed |-> [r.mixed EXCEPT ![t] = r.mixed[r.head[q]]]]
  BY <1>8, <1>10, <1>11, <1>12 DEF Enqueue
<1>14. /\ f.head = [r.head EXCEPT ![q] = hd]
       /\ f.next = [[r.next EXCEPT ![t] = b] EXCEPT ![behind] = t]
       /\ f.prev = [r.prev EXCEPT ![b] = t, ![t] = behind]
       /\ f.parent = [r.parent EXCEPT ![t] = q]
       /\ f.mixed = [r.mixed EXCEPT ![t] = r.mixed[s[1]]]
  BY <1>7, <1>8, <1>13 DEF Put
<1>15. /\ r.head \in [Queue -> Task \cup {NULL}] /\ r.next \in [Task -> Task \cup {NULL}]
       /\ r.prev \in [Task -> Task \cup {NULL}] /\ r.parent \in [Task -> Queue \cup {NULL}]
       /\ r.mixed \in [Task -> BOOLEAN] /\ r.mixed[s[1]] \in BOOLEAN
  BY <1>2, <1>3 DEF Links
<1>16. f \in Links
  <2>1. /\ f.head \in [Queue -> Task \cup {NULL}] /\ f.next \in [Task -> Task \cup {NULL}]
        /\ f.prev \in [Task -> Task \cup {NULL}] /\ f.parent \in [Task -> Queue \cup {NULL}]
        /\ f.mixed \in [Task -> BOOLEAN]
    <3>1. f.head \in [Queue -> Task \cup {NULL}] /\ f.parent \in [Task -> Queue \cup {NULL}]
      BY <1>7, <1>14, <1>15
    <3>2. f.next \in [Task -> Task \cup {NULL}]
      <4>1. [r.next EXCEPT ![t] = b] \in [Task -> Task \cup {NULL}]
        BY <1>7, <1>15
      <4>2. QED
        BY <1>14, <4>1
    <3>3. f.prev \in [Task -> Task \cup {NULL}]
      <4>1. [r.prev EXCEPT ![b] = t] \in [Task -> Task \cup {NULL}]
        BY <1>7, <1>15
      <4>2. f.prev = [[r.prev EXCEPT ![b] = t] EXCEPT ![t] = behind]
        BY <1>14
      <4>3. QED
        BY <1>7, <4>1, <4>2
    <3>4. f.mixed \in [Task -> BOOLEAN]
      BY <1>14, <1>15
    <3>5. QED
      BY <3>1, <3>2, <3>3, <3>4
  <2>2. f = [head |-> f.head, next |-> f.next, prev |-> f.prev, parent |-> f.parent,
             mixed |-> f.mixed]
    BY <1>13
  <2>3. QED
    BY <2>1, <2>2 DEF Links
<1>17. /\ \A p \in Queue : f.head[p] = IF p = q THEN hd ELSE r.head[p]
       /\ \A u \in Task :
            /\ f.next[u] = IF u = behind THEN t ELSE IF u = t THEN b ELSE r.next[u]
            /\ f.prev[u] = IF u = t THEN behind ELSE IF u = b THEN t ELSE r.prev[u]
            /\ f.parent[u] = IF u = t THEN q ELSE r.parent[u]
            /\ f.mixed[u] = IF u = t THEN r.mixed[s[1]] ELSE r.mixed[u]
  BY <1>7, <1>14, <1>15
<1>18. Inserted(r, f, q, t, b, behind, hd)
  BY <1>7, <1>17 DEF Inserted
<1>19. OnlyRing(r, f, q, s, t)
  <2>1. ASSUME NEW u \in Task, u # t, \A j \in 1 .. Len(s) : s[j] # u
        PROVE  SameAt(r, f, u)
    <3>1. u # b /\ u # behind
      BY <1>1, <1>3, <1>4, <1>5, <2>1
    <3>2. QED
      BY <1>17, <2>1, <3>1 DEF SameAt
  <2>2. QED
    BY <1>17, <2>1 DEF OnlyRing
<1>20. QED
  BY <1>1, <1>4, <1>5, <1>6, <1>16, <1>17, <1>18, <1>19
     DEF Grown, NextAt, PrevAt, HeadAt

LEMMA EnqueueFirst ==
  ASSUME NEW r \in Links, NEW q \in Queue, r.head[q] = NULL, NEW t \in Task,
         NEW prio, NEW mixed \in BOOLEAN, NEW f, f = Enqueue(r, q, t, prio, mixed)
  PROVE  /\ f \in Links
         /\ f.head[q] = t /\ f.next[t] = NULL /\ f.prev[t] = NULL
         /\ f.parent[t] = q /\ f.mixed[t] = mixed
         /\ OnlyRing(r, f, q, <<>>, t)
<1>1. f = [head |-> [r.head EXCEPT ![q] = t],
           next |-> [r.next EXCEPT ![t] = NULL],
           prev |-> [r.prev EXCEPT ![t] = NULL],
           parent |-> [r.parent EXCEPT ![t] = q],
           mixed |-> [r.mixed EXCEPT ![t] = mixed]]
  BY DEF Enqueue
<1>2. /\ f.head = [r.head EXCEPT ![q] = t]
      /\ f.next = [r.next EXCEPT ![t] = NULL]
      /\ f.prev = [r.prev EXCEPT ![t] = NULL]
      /\ f.parent = [r.parent EXCEPT ![t] = q]
      /\ f.mixed = [r.mixed EXCEPT ![t] = mixed]
  BY <1>1
<1>3. /\ r.head \in [Queue -> Task \cup {NULL}] /\ r.next \in [Task -> Task \cup {NULL}]
      /\ r.prev \in [Task -> Task \cup {NULL}] /\ r.parent \in [Task -> Queue \cup {NULL}]
      /\ r.mixed \in [Task -> BOOLEAN]
  BY DEF Links
<1>4. f \in Links
  <2>1. f.head \in [Queue -> Task \cup {NULL}] /\ f.parent \in [Task -> Queue \cup {NULL}]
    BY <1>2, <1>3
  <2>2. f.next \in [Task -> Task \cup {NULL}] /\ f.prev \in [Task -> Task \cup {NULL}]
    BY <1>2, <1>3
  <2>3. f.mixed \in [Task -> BOOLEAN]
    BY <1>2, <1>3
  <2>4. QED
    BY <1>1, <2>1, <2>2, <2>3 DEF Links
<1>5. /\ \A p \in Queue : f.head[p] = IF p = q THEN t ELSE r.head[p]
      /\ \A u \in Task :
           /\ f.next[u] = IF u = t THEN NULL ELSE r.next[u]
           /\ f.prev[u] = IF u = t THEN NULL ELSE r.prev[u]
           /\ f.parent[u] = IF u = t THEN q ELSE r.parent[u]
           /\ f.mixed[u] = IF u = t THEN mixed ELSE r.mixed[u]
  BY <1>2, <1>3
<1>6. QED
  BY <1>4, <1>5 DEF OnlyRing, SameAt

(* The rings of all queues, and the queues they stand for.                 *)
RingState(r, Q, L) ==
  /\ Q \in [Queue -> Seq(Task)]
  /\ Unique(Q)
  /\ Rings(r, Q, L)

LEMMA OthersSame ==
  ASSUME NEW r, NEW f, NEW Q, NEW L, RingState(r, Q, L), NEW q \in Queue, NEW t,
         Absent(Q, t) \/ Contains(Q[q], t),
         OnlyRing(r, f, q, Q[q], t), NEW R, NEW M,
         \A p \in Queue : p # q => R[p] = Q[p] /\ (p \in M <=> p \in L)
  PROVE  Untouched(r, f, q, Q, R, L, M)
<1> SUFFICES ASSUME NEW p \in Queue, p # q
             PROVE  /\ f.head[p] = r.head[p]
                    /\ \A i \in 1 .. Len(Q[p]) : SameAt(r, f, Q[p][i])
  BY DEF Untouched
<1>1. Q \in [Queue -> Seq(Task)] /\ Unique(Q) /\ Q[p] \in Seq(Task) /\ Q[q] \in Seq(Task)
  BY DEF RingState
<1>2. ASSUME NEW i \in 1 .. Len(Q[p]) PROVE SameAt(r, f, Q[p][i])
  <2>1. Q[p][i] \in Task /\ i \in DOMAIN Q[p] /\ Contains(Q[p], Q[p][i])
    BY <1>1, LenProperties, ElementOfSeq DEF Contains
  <2>2. \A j \in 1 .. Len(Q[q]) : j \in DOMAIN Q[q]
    BY <1>1, LenProperties
  <2>3. \A j \in 1 .. Len(Q[q]) : Q[q][j] # Q[p][i]
    BY <1>1, <2>1, <2>2 DEF Unique
  <2>4. Q[p][i] # t
    <3>1. CASE Absent(Q, t)
      BY <2>1, <3>1 DEF Absent
    <3>2. CASE Contains(Q[q], t)
      BY <2>3, <3>2 DEF Contains
    <3>3. QED
      BY <3>1, <3>2
  <2>5. QED
    BY <2>1, <2>3, <2>4 DEF OnlyRing
<1>3. QED
  BY <1>2 DEF OnlyRing

(* R is Q with v for the contents of q.                                    *)
Changed(Q, R, q, v) ==
  /\ R[q] = v
  /\ \A p \in Queue : p # q => R[p] = Q[p]

(* t may enter queue q at position k.                                      *)
Enters(r, Q, L, q, t, prio, mixed, k) ==
  /\ Absent(Q, t)
  /\ k \in 1 .. Len(Q[q]) + 1
  /\ Place(r, q, Q[q], t, prio, k)
  /\ Q[q] = <<>> => (mixed <=> q \in Mixed)
  /\ ~(k = 1 /\ Len(Q[q]) = 1 /\ q \notin L)

(* enqueue_task: the ring of q gets t where the sequence does, the other   *)
(* rings are as they were.                                                 *)
LEMMA EnqueueRings ==
  ASSUME NEW r, NEW Q, NEW L, RingState(r, Q, L), NEW q \in Queue,
         NEW t \in Task, NEW prio \in [Task -> Nat], NEW mixed \in BOOLEAN,
         NEW k, Enters(r, Q, L, q, t, prio, mixed, k),
         NEW R \in [Queue -> Seq(Task)], Changed(Q, R, q, InsertAt(Q[q], k, t))
  PROVE  RingState(Enqueue(r, q, t, prio, mixed), R, L \ {q})
<1>1. PICK f : f = Enqueue(r, q, t, prio, mixed)
  OBVIOUS
<1>2. PICK s : s = Q[q]
  OBVIOUS
<1>0. PICK M : M = L \ {q}
  OBVIOUS
<1>3. /\ Q \in [Queue -> Seq(Task)] /\ Unique(Q) /\ Rings(r, Q, L)
      /\ r \in Links /\ RingOf(r, q, s, L)
  BY <1>2 DEF RingState, Rings
<1>4. /\ s \in Seq(Task) /\ Distinct(s) /\ Len(s) \in Nat
      /\ (s = <<>> <=> Len(s) = 0)
      /\ \A j \in 1 .. Len(s) : s[j] \in Task /\ s[j] # NULL
  BY <1>2, <1>3, InQueue
<1>5. /\ k \in 1 .. Len(s) + 1 /\ Place(r, q, s, t, prio, k)
      /\ ~(k = 1 /\ Len(s) = 1 /\ q \notin L)
      /\ s = <<>> => (mixed <=> q \in Mixed)
      /\ Absent(Q, t) /\ \A j \in 1 .. Len(s) : s[j] # t
  BY <1>2 DEF Enters, Absent, Contains
<1>6. PICK v : v = InsertAt(s, k, t)
  OBVIOUS
<1>7. /\ v \in Seq(Task) /\ Len(v) = Len(s) + 1
      /\ \A j \in 1 .. Len(s) + 1 : v[j] = IF j < k THEN s[j] ELSE IF j = k THEN t ELSE s[j-1]
  <2>1. /\ InsertAt(s, k, t) \in Seq(Task)
        /\ Len(InsertAt(s, k, t)) = Len(s) + 1
        /\ \A j \in 1 .. Len(s) + 1 :
             InsertAt(s, k, t)[j] = IF j < k THEN s[j] ELSE IF j = k THEN t ELSE s[j-1]
    BY <1>4, <1>5, InsertAtIsSeq
  <2>2. QED
    BY <1>6, <2>1, Zenon
<1>8. R[q] = v /\ \A p \in Queue : p # q => R[p] = Q[p]
  BY <1>2, <1>6 DEF Changed
<1>9. Unique(R)
  <2>1. R[q] = InsertAt(Q[q], k, t)
    BY <1>2, <1>6, <1>8
  <2>2. Gains(Q, R, q, t)
    BY <1>2, <1>3, <1>5, <1>8, <2>1, InsertedOnce
  <2>3. QED
    BY <2>2 DEF Gains
<1>10. CASE s = <<>>
  <2>1. r.head[q] = NULL
    BY <1>3, <1>10 DEF RingOf
  <2>2. /\ f \in Links
        /\ f.head[q] = t /\ f.next[t] = NULL /\ f.prev[t] = NULL
        /\ f.parent[t] = q /\ f.mixed[t] = mixed
        /\ OnlyRing(r, f, q, <<>>, t)
    BY <1>1, <1>3, <2>1, EnqueueFirst
  <2>3. Len(s) = 0 /\ k = 1 /\ 1 \in 1 .. Len(s) + 1
    BY <1>4, <1>5, <1>10
  <2>4. v[1] = t /\ Len(v) = 1 /\ v # <<>>
    <3>1. Len(v) = 1 /\ v[1] = t
      BY <1>7, <2>3
    <3>2. v # <<>>
      BY <1>7, <3>1, EmptySeq
    <3>3. QED
      BY <3>1, <3>2
  <2>5. RingOf(f, q, v, M)
    <3>1. (mixed <=> q \in Mixed) /\ q \notin M
      BY <1>0, <1>5, <1>10
    <3>2. \A j \in 1 .. Len(v) : v[j] = t
      BY <2>4
    <3>3. \A j \in 1 .. Len(v) : f.parent[v[j]] = q /\ (f.mixed[v[j]] <=> q \in Mixed)
      BY <2>2, <3>1, <3>2
    <3>4. f.head[q] = v[1] /\ f.next[v[1]] = NULL /\ f.prev[v[1]] = NULL
      BY <2>2, <2>4
    <3>5. QED
      BY <2>4, <3>1, <3>3, <3>4 DEF RingOf
  <2>6. OnlyRing(r, f, q, Q[q], t)
    BY <1>2, <1>10, <2>2
  <2>7. Untouched(r, f, q, Q, R, L, M)
    BY <1>0, <1>5, <1>8, <2>6, OthersSame
  <2>8. q \in M => Len(R[q]) = 1
    BY <1>0
  <2>9. RingOf(f, q, R[q], M)
    BY <1>8, <2>5
  <2>10. Rings(f, R, M)
    BY <1>3, <1>8, <2>2, <2>7, <2>8, <2>9, RingsKept
  <2>11. QED
    BY <1>1, <1>8, <1>9, <1>0, <2>10 DEF RingState
<1>11. CASE s # <<>>
  <2>1. Fits(r, q, s, L, t, k)
    BY <1>3, <1>4, <1>5, <1>11 DEF Fits
  <2>2. Grown(r, f, q, s, t, k)
    <3>1. r \in Links /\ s \in Seq(Task) /\ Place(r, q, s, t, prio, k)
      BY <1>3, <1>4, <1>5
    <3>2. QED
      BY <1>1, <2>1, <3>1, EnqueueInserts
  <2>3. /\ f \in Links
        /\ Inserted(r, f, q, t, NextAt(s, k), PrevAt(s, k), HeadAt(s, k, t))
        /\ f.mixed[t] = r.mixed[s[1]]
        /\ \A u \in Task : u # t => f.parent[u] = r.parent[u] /\ f.mixed[u] = r.mixed[u]
        /\ OnlyRing(r, f, q, s, t)
    BY <2>2 DEF Grown
  <2>4. /\ Cyclic(f, InsertAt(s, k, t))
        /\ f.head[q] = InsertAt(s, k, t)[1]
        /\ Len(InsertAt(s, k, t)) > 1
    BY <1>4, <2>1, <2>3, InsertedIsCyclic
  <2>5. Cyclic(f, v) /\ f.head[q] = v[1] /\ Len(v) > 1 /\ v # <<>>
    BY <1>6, <1>7, <2>4, EmptySeq
  <2>6. \A j \in 1 .. Len(s) : r.parent[s[j]] = q /\ (r.mixed[s[j]] <=> q \in Mixed)
    BY <1>3 DEF RingOf
  <2>7. ASSUME NEW j \in 1 .. Len(v)
        PROVE  f.parent[v[j]] = q /\ (f.mixed[v[j]] <=> q \in Mixed)
    <3>1. CASE v[j] = t
      <4>1. 1 \in 1 .. Len(s)
        BY <1>4, <1>11
      <4>2. f.parent[t] = q /\ (f.mixed[t] <=> q \in Mixed)
        BY <2>3, <2>6, <4>1 DEF Inserted
      <4>3. QED
        BY <3>1, <4>2
    <3>2. CASE v[j] # t
      <4>1. PICK m \in 1 .. Len(s) : v[j] = s[m]
        <5>1. j \in 1 .. Len(s) + 1 /\ j # k
          BY <1>7, <3>2
        <5>2. CASE j < k
          <6>1. j \in 1 .. Len(s)
            BY <1>4, <1>5, <5>1, <5>2
          <6>2. QED
            BY <1>7, <5>1, <5>2, <6>1
        <5>3. CASE ~(j < k)
          <6>1. j - 1 \in 1 .. Len(s)
            BY <1>4, <1>5, <5>1, <5>3
          <6>2. QED
            BY <1>7, <5>1, <5>3, <6>1
        <5>4. QED
          BY <5>2, <5>3
      <4>2. s[m] \in Task /\ s[m] # t
        BY <1>4, <1>5
      <4>3. f.parent[s[m]] = q /\ (f.mixed[s[m]] <=> q \in Mixed)
        BY <2>3, <2>6, <4>2
      <4>4. QED
        BY <4>1, <4>3
    <3>3. QED
      BY <3>1, <3>2
  <2>8. RingOf(f, q, v, M)
    <3>1. Len(v) # 1
      BY <1>4, <1>7, <2>5
    <3>2. QED
      BY <2>5, <2>7, <3>1 DEF RingOf
  <2>9. OnlyRing(r, f, q, Q[q], t)
    BY <1>2, <2>3
  <2>10. Untouched(r, f, q, Q, R, L, M)
    BY <1>0, <1>5, <1>8, <2>9, OthersSame
  <2>11. q \in M => Len(R[q]) = 1
    BY <1>0
  <2>12. RingOf(f, q, R[q], M)
    BY <1>8, <2>8
  <2>13. Rings(f, R, M)
    BY <1>3, <1>8, <2>3, <2>10, <2>11, <2>12, RingsKept
  <2>14. QED
    BY <1>1, <1>8, <1>9, <1>0, <2>13 DEF RingState
<1>12. QED
  BY <1>10, <1>11
-----------------------------------------------------------------------------
(* dequeue_task and delete_task link the neighbours of a task to each      *)
(* other and clear the task.                                               *)

LEMMA LinksFields ==
  ASSUME NEW r \in Links
  PROVE  /\ r.head \in [Queue -> Task \cup {NULL}] /\ r.next \in [Task -> Task \cup {NULL}]
         /\ r.prev \in [Task -> Task \cup {NULL}] /\ r.parent \in [Task -> Queue \cup {NULL}]
         /\ r.mixed \in [Task -> BOOLEAN]
         /\ r = [head |-> r.head, next |-> r.next, prev |-> r.prev,
                 parent |-> r.parent, mixed |-> r.mixed]
  BY DEF Links

LEMMA DetachedIs ==
  ASSUME NEW r \in Links, NEW t \in Task, NEW f, f = Detached(r, t)
  PROVE  /\ f \in Links
         /\ f.head = r.head
         /\ \A u \in Task : u # t => SameAt(r, f, u)
<1> DEFINE next == [r.next EXCEPT ![t] = NULL]
           prev == [r.prev EXCEPT ![t] = NULL]
           parent == [r.parent EXCEPT ![t] = NULL]
           mixed == [r.mixed EXCEPT ![t] = FALSE]
<1>1. f = [head |-> r.head, next |-> next, prev |-> prev, parent |-> parent, mixed |-> mixed]
  BY DEF Detached
<1>2. /\ next \in [Task -> Task \cup {NULL}] /\ prev \in [Task -> Task \cup {NULL}]
      /\ \A u \in Task : u # t => next[u] = r.next[u] /\ prev[u] = r.prev[u]
  BY LinksFields
<1>3. /\ parent \in [Task -> Queue \cup {NULL}] /\ mixed \in [Task -> BOOLEAN]
      /\ \A u \in Task : u # t => parent[u] = r.parent[u] /\ mixed[u] = r.mixed[u]
  BY LinksFields
<1> HIDE DEF next, prev, parent, mixed
<1>4. /\ f.head = r.head /\ f.next = next /\ f.prev = prev /\ f.parent = parent
      /\ f.mixed = mixed
  BY <1>1
<1>5. f \in Links
  BY <1>1, <1>2, <1>3, LinksFields DEF Links
<1>6. QED
  BY <1>2, <1>3, <1>4, <1>5 DEF SameAt

LEMMA BridgedIs ==
  ASSUME NEW r \in Links, NEW t \in Task, NEW p \in Task, NEW x \in Task,
         p = r.prev[t], x = r.next[t], p # t, NEW f, f = Bridged(r, t)
  PROVE  /\ f \in Links
         /\ f.head = r.head /\ f.parent = r.parent /\ f.mixed = r.mixed
         /\ \A u \in Task : /\ f.next[u] = IF u = p THEN x ELSE r.next[u]
                            /\ f.prev[u] = IF u = x THEN p ELSE r.prev[u]
<1> DEFINE next == [r.next EXCEPT ![p] = x]
           prev == [r.prev EXCEPT ![x] = p]
<1>1. /\ next \in [Task -> Task \cup {NULL}]
      /\ \A u \in Task : next[u] = IF u = p THEN x ELSE r.next[u]
  BY LinksFields
<1>2. /\ prev \in [Task -> Task \cup {NULL}]
      /\ \A u \in Task : prev[u] = IF u = x THEN p ELSE r.prev[u]
  BY LinksFields
<1>3. p # NULL /\ x # NULL
  BY TaskmanAssumption
<1>4. Put(r.next, r.prev[t], r.next[t]) = next
  BY <1>3 DEF Put
<1>5. Bridged(r, t) = [r EXCEPT !.next = next, !.prev = Put(@, next[t], r.prev[t])]
  BY <1>4 DEF Bridged
<1>6. next[t] = x
  BY <1>1
<1>7. Put(r.prev, next[t], r.prev[t]) = prev
  BY <1>3, <1>6 DEF Put
<1> HIDE DEF next, prev
<1>8. f = [head |-> r.head, next |-> next, prev |-> prev, parent |-> r.parent,
           mixed |-> r.mixed]
  BY <1>5, <1>7, LinksFields
<1>9. /\ f.head = r.head /\ f.next = next /\ f.prev = prev /\ f.parent = r.parent
      /\ f.mixed = r.mixed
  BY <1>8
<1>10. f \in Links
  BY <1>1, <1>2, <1>8, LinksFields DEF Links
<1>11. QED
  BY <1>1, <1>2, <1>9, <1>10

LEMMA BridgedAlone ==
  ASSUME NEW r \in Links, NEW t \in Task, r.prev[t] = NULL, r.next[t] = NULL
  PROVE  Bridged(r, t) = r
<1>1. Put(r.next, r.prev[t], r.next[t]) = r.next
  BY DEF Put
<1>2. Put(r.prev, r.next[t], r.prev[t]) = r.prev
  BY DEF Put
<1>3. Bridged(r, t) = [r EXCEPT !.next = r.next, !.prev = r.prev]
  BY <1>1, <1>2, Zenon DEF Bridged
<1>4. QED
  BY <1>3, LinksFields

SuccAt(s, i) == IF i = Len(s) THEN s[1] ELSE s[i+1]
Shrunk(r, f, s, i) ==
  \A j \in 1 .. Len(s) : j # i =>
    /\ f.next[s[j]] = IF s[j] = PrevAt(s, i) THEN SuccAt(s, i) ELSE r.next[s[j]]
    /\ f.prev[s[j]] = IF s[j] = SuccAt(s, i) THEN PrevAt(s, i) ELSE r.prev[s[j]]

LEMMA ShrunkIsCyclic ==
  ASSUME NEW r, NEW f, NEW s \in Seq(Task), Distinct(s), Cyclic(r, s),
         NEW i \in 1 .. Len(s), Len(s) > 1, Shrunk(r, f, s, i)
  PROVE  Cyclic(f, RemoveAt(s, i))
<1>1. PICK n \in Nat : n = Len(s) /\ n > 1
  BY LenProperties
<1>2. PICK v : v = RemoveAt(s, i)
  OBVIOUS
<1>3. /\ Len(v) = n - 1
      /\ \A j \in 1 .. n - 1 : v[j] = IF j < i THEN s[j] ELSE s[j+1]
  <2>1. /\ Len(RemoveAt(s, i)) = Len(s) - 1
        /\ \A j \in 1 .. Len(s) - 1 : RemoveAt(s, i)[j] = IF j < i THEN s[j] ELSE s[j+1]
    BY RemoveAtIsSeq
  <2>2. QED
    BY <1>1, <1>2, <2>1, Zenon
<1>4. \A j, k \in 1 .. n : s[j] = s[k] => j = k
  BY <1>1 DEF Distinct
<1>5. /\ \A j \in 1 .. n - 1 : r.next[s[j]] = s[j+1] /\ r.prev[s[j+1]] = s[j]
      /\ r.next[s[n]] = s[1] /\ r.prev[s[1]] = s[n]
  BY <1>1 DEF Cyclic
<1>6. PICK p : p = PrevAt(s, i)
  OBVIOUS
<1>7. PICK x : x = SuccAt(s, i)
  OBVIOUS
<1>8. /\ i \in 1 .. n
      /\ p = IF i = 1 THEN s[n] ELSE s[i-1]
      /\ x = IF i = n THEN s[1] ELSE s[i+1]
  BY <1>1, <1>6, <1>7 DEF PrevAt, SuccAt
<1>9. \A j \in 1 .. n : j # i => /\ f.next[s[j]] = IF s[j] = p THEN x ELSE r.next[s[j]]
                                 /\ f.prev[s[j]] = IF s[j] = x THEN p ELSE r.prev[s[j]]
  BY <1>1, <1>6, <1>7 DEF Shrunk
<1>10. ASSUME NEW j \in 1 .. n - 2 PROVE f.next[v[j]] = v[j+1] /\ f.prev[v[j+1]] = v[j]
  <2>1. j \in 1 .. n - 1 /\ j + 1 \in 1 .. n - 1 /\ j \in 1 .. n /\ j + 1 \in 1 .. n
        /\ j + 2 \in 1 .. n /\ j + 1 + 1 = j + 2
    BY <1>1
  <2>2. CASE j + 1 < i
    <3>1. v[j] = s[j] /\ v[j+1] = s[j+1] /\ i # 1 /\ i - 1 \in 1 .. n /\ 1 \in 1 .. n
      BY <1>1, <1>3, <1>8, <2>1, <2>2
    <3>2. s[j] # p
      BY <1>1, <1>4, <1>8, <2>1, <2>2, <3>1
    <3>3. s[j+1] # x
      <4>1. i # n => i + 1 \in 1 .. n /\ i + 1 # j + 1
        BY <1>1, <1>8, <2>2
      <4>2. j + 1 # 1
        BY <2>1
      <4>3. QED
        BY <1>4, <1>8, <2>1, <3>1, <4>1, <4>2
    <3>4. j # i /\ j + 1 # i
      BY <1>1, <1>8, <2>1, <2>2
    <3>5. QED
      BY <1>5, <1>9, <2>1, <3>1, <3>2, <3>3, <3>4
  <2>3. CASE j + 1 = i
    <3>1. v[j] = s[j] /\ v[j+1] = s[j+2] /\ j # i /\ j + 2 # i /\ i # 1 /\ i # n
          /\ i - 1 = j /\ i + 1 = j + 2
      BY <1>1, <1>3, <1>8, <2>1, <2>3
    <3>2. p = s[j] /\ x = s[j+2]
      BY <1>8, <3>1
    <3>3. QED
      BY <1>9, <2>1, <3>1, <3>2
  <2>4. CASE ~(j + 1 < i) /\ j + 1 # i
    <3>1. v[j] = s[j+1] /\ v[j+1] = s[j+2] /\ j + 1 # i /\ j + 2 # i /\ i # n
          /\ i + 1 \in 1 .. n /\ i + 1 # j + 2
      BY <1>1, <1>3, <1>8, <2>1, <2>4
    <3>2. s[j+1] # p
      <4>1. CASE i = 1
        <5>1. n \in 1 .. n /\ n # j + 1
          BY <1>1
        <5>2. QED
          BY <1>4, <1>8, <2>1, <4>1, <5>1
      <4>2. CASE i # 1
        <5>1. i - 1 \in 1 .. n /\ i - 1 # j + 1
          BY <1>1, <1>8, <2>1, <2>4, <4>2
        <5>2. QED
          BY <1>4, <1>8, <2>1, <4>2, <5>1
      <4>3. QED
        BY <4>1, <4>2
    <3>3. s[j+2] # x
      BY <1>4, <1>8, <2>1, <3>1
    <3>4. r.next[s[j+1]] = s[j+2] /\ r.prev[s[j+2]] = s[j+1]
      BY <1>5, <2>1
    <3>5. QED
      BY <1>9, <2>1, <3>1, <3>2, <3>3, <3>4
  <2>5. QED
    BY <2>2, <2>3, <2>4
<1>11. f.next[v[n-1]] = v[1] /\ f.prev[v[1]] = v[n-1]
  <2>1. 1 \in 1 .. n - 1 /\ n - 1 \in 1 .. n - 1 /\ 1 \in 1 .. n /\ n \in 1 .. n
        /\ n - 1 \in 1 .. n /\ n - 1 + 1 = n /\ 1 + 1 = 2 /\ 2 \in 1 .. n /\ 1 # n /\ n - 1 # n
    BY <1>1
  <2>2. CASE i = 1
    <3>1. v[1] = s[2] /\ v[n-1] = s[n] /\ p = s[n] /\ x = s[2]
      <4>1. ~(1 < i) /\ ~(n - 1 < i)
        BY <1>1, <2>2
      <4>2. QED
        BY <1>3, <1>8, <2>1, <2>2, <4>1
    <3>2. n # i /\ 2 # i
      BY <2>1, <2>2
    <3>3. QED
      BY <1>9, <2>1, <3>1, <3>2
  <2>3. CASE i = n
    <3>1. v[1] = s[1] /\ v[n-1] = s[n-1] /\ p = s[n-1] /\ x = s[1]
      <4>1. 1 < i /\ n - 1 < i /\ i # 1
        BY <1>1, <2>3
      <4>2. QED
        BY <1>3, <1>8, <2>1, <2>3, <4>1
    <3>2. QED
      BY <1>9, <2>1, <2>3, <3>1
  <2>4. CASE i # 1 /\ i # n
    <3>1. v[1] = s[1] /\ v[n-1] = s[n] /\ p = s[i-1] /\ x = s[i+1]
          /\ i - 1 \in 1 .. n /\ i + 1 \in 1 .. n /\ i - 1 # n /\ i + 1 # 1
      <4>1. 1 < i /\ ~(n - 1 < i) /\ i - 1 \in 1 .. n /\ i + 1 \in 1 .. n
            /\ i - 1 # n /\ i + 1 # 1
        BY <1>1, <1>8, <2>4
      <4>2. QED
        BY <1>3, <1>8, <2>1, <2>4, <4>1
    <3>2. s[n] # p /\ s[1] # x
      BY <1>4, <2>1, <3>1
    <3>3. QED
      BY <1>5, <1>9, <2>1, <2>4, <3>1, <3>2
  <2>5. QED
    BY <2>2, <2>3, <2>4
<1>12. n - 1 - 1 = n - 2
  BY <1>1
<1>13. Cyclic(f, v)
  BY <1>3, <1>10, <1>11, <1>12 DEF Cyclic
<1>14. QED
  BY <1>2, <1>13

(* The head of q is x, and nothing else is new.                            *)
HeadIs(g, f, q, x) ==
  /\ f \in Links
  /\ \A p \in Queue : f.head[p] = IF p = q THEN x ELSE g.head[p]
  /\ f.next = g.next /\ f.prev = g.prev /\ f.parent = g.parent /\ f.mixed = g.mixed

LEMMA HeadMoved ==
  ASSUME NEW g \in Links, NEW q \in Queue, NEW x \in Task \cup {NULL},
         NEW f, f = Headed(g, q, x)
  PROVE  HeadIs(g, f, q, x)
<1> DEFINE head == [g.head EXCEPT ![q] = x]
<1>1. /\ head \in [Queue -> Task \cup {NULL}]
      /\ \A p \in Queue : head[p] = IF p = q THEN x ELSE g.head[p]
  BY LinksFields
<1>2. f = [g EXCEPT !.head = head]
  BY DEF Headed
<1> HIDE DEF head
<1>3. f = [head |-> head, next |-> g.next, prev |-> g.prev, parent |-> g.parent,
           mixed |-> g.mixed]
  BY <1>2, LinksFields
<1>4. /\ f.head = head /\ f.next = g.next /\ f.prev = g.prev /\ f.parent = g.parent
      /\ f.mixed = g.mixed
  BY <1>3
<1>5. f \in Links
  BY <1>1, <1>3, LinksFields DEF Links
<1>6. QED
  BY <1>1, <1>4, <1>5 DEF HeadIs

(* The links of x are NULL, and nothing else is new.                       *)
LoneAt(g, f, x) ==
  /\ f \in Links
  /\ f.head = g.head /\ f.parent = g.parent /\ f.mixed = g.mixed
  /\ \A u \in Task : /\ f.next[u] = IF u = x THEN NULL ELSE g.next[u]
                     /\ f.prev[u] = IF u = x THEN NULL ELSE g.prev[u]

LEMMA LoneIs ==
  ASSUME NEW g \in Links, NEW x \in Task, NEW f, f = Unlinked(g, x)
  PROVE  LoneAt(g, f, x)
<1> DEFINE next == [g.next EXCEPT ![x] = NULL]
           prev == [g.prev EXCEPT ![x] = NULL]
<1>1. /\ next \in [Task -> Task \cup {NULL}]
      /\ \A u \in Task : next[u] = IF u = x THEN NULL ELSE g.next[u]
  BY LinksFields
<1>2. /\ prev \in [Task -> Task \cup {NULL}]
      /\ \A u \in Task : prev[u] = IF u = x THEN NULL ELSE g.prev[u]
  BY LinksFields
<1>3. f = [g EXCEPT !.next = next, !.prev = prev]
  BY LinksFields DEF Unlinked
<1> HIDE DEF next, prev
<1>4. f = [head |-> g.head, next |-> next, prev |-> prev, parent |-> g.parent,
           mixed |-> g.mixed]
  BY <1>3, LinksFields
<1>5. /\ f.head = g.head /\ f.next = next /\ f.prev = prev /\ f.parent = g.parent
      /\ f.mixed = g.mixed
  BY <1>4
<1>6. f \in Links
  BY <1>1, <1>2, <1>4, LinksFields DEF Links
<1>7. QED
  BY <1>1, <1>2, <1>5, <1>6 DEF LoneAt

(* From r to f, the task t at position i leaves the ring of q.             *)
Left(r, f, q, s, t, i) ==
  /\ f \in Links
  /\ f.head[q] = IF Len(s) = 1 THEN NULL ELSE IF i = 1 THEN s[2] ELSE s[1]
  /\ \A u \in Task : u # t => f.parent[u] = r.parent[u] /\ f.mixed[u] = r.mixed[u]
  /\ OnlyRing(r, f, q, s, t)
  /\ Len(s) = 2 /\ i = 1 => f.next[s[2]] = NULL /\ f.prev[s[2]] = NULL
  /\ Len(s) > 1 /\ ~(Len(s) = 2 /\ i = 1) => Shrunk(r, f, s, i)

LEMMA DeleteLast ==
  ASSUME NEW r \in Links, NEW q \in Queue, NEW s \in Seq(Task), NEW L,
         RingOf(r, q, s, L), Len(s) = 1, q \notin L,
         NEW t, t = s[1], NEW f, f = DeleteTask(r, q, t)
  PROVE  Left(r, f, q, s, t, 1)
<1>1. t \in Task /\ t # NULL
  BY ElementOfSeq, TaskmanAssumption
<1>2. r.next[t] = NULL /\ r.prev[t] = NULL
  BY DEF RingOf
<1>3. r.head[q] = t
  <2>1. s # <<>>
    BY EmptySeq
  <2>2. QED
    BY <2>1 DEF RingOf
<1>4. Bridged(r, t) = r
  BY <1>1, <1>2, BridgedAlone
<1> DEFINE g == Headed(r, q, NULL)
<1>5. f = Detached(g, t)
  <2>1. f = Dequeue(r, q)
    BY <1>3 DEF DeleteTask
  <2>2. QED
    BY <1>2, <1>3, <1>4, <2>1 DEF Dequeue
<1>6. PICK h : h = g
  OBVIOUS
<1>7. /\ h \in Links
      /\ \A p \in Queue : h.head[p] = IF p = q THEN NULL ELSE r.head[p]
      /\ h.next = r.next /\ h.prev = r.prev /\ h.parent = r.parent /\ h.mixed = r.mixed
  <2>1. g \in Links /\ HeadIs(r, h, q, NULL)
    BY <1>6, HeadMoved DEF HeadIs
  <2>2. QED
    BY <2>1 DEF HeadIs
<1> HIDE DEF g
<1>8. f \in Links /\ f.head = h.head /\ \A u \in Task : u # t => SameAt(h, f, u)
  BY <1>1, <1>5, <1>6, <1>7, DetachedIs
<1>9. \A u \in Task : u # t => SameAt(r, f, u)
  BY <1>7, <1>8 DEF SameAt
<1>10. OnlyRing(r, f, q, s, t)
  BY <1>7, <1>8, <1>9 DEF OnlyRing
<1>11. QED
  BY <1>7, <1>8, <1>9, <1>10 DEF Left, SameAt

LEMMA DeleteShrinks ==
  ASSUME NEW r \in Links, NEW q \in Queue, NEW s \in Seq(Task), NEW L,
         Distinct(s), RingOf(r, q, s, L), NEW i \in 1 .. Len(s), Len(s) > 1,
         NEW t, t = s[i], NEW f, f = DeleteTask(r, q, t)
  PROVE  Left(r, f, q, s, t, i)
<1>1. PICK n \in Nat : n = Len(s) /\ n > 1
  BY LenProperties
<1>2. i \in 1 .. n /\ 1 \in 1 .. n /\ n \in 1 .. n /\ 2 \in 1 .. n
      /\ (i # 1 => i - 1 \in 1 .. n /\ i - 1 # i) /\ (i # n => i + 1 \in 1 .. n /\ i + 1 # i)
  BY <1>1
<1>3. \A j \in 1 .. n : s[j] \in Task /\ s[j] # NULL
  BY <1>1, ElementOfSeq, TaskmanAssumption
<1>4. \A j, k \in 1 .. n : s[j] = s[k] => j = k
  BY <1>1 DEF Distinct
<1>5. Cyclic(r, s) /\ r.head[q] = s[1]
  BY <1>1, EmptySeq DEF RingOf
<1>6. PICK p : p = PrevAt(s, i)
  OBVIOUS
<1>7. PICK x : x = SuccAt(s, i)
  OBVIOUS
<1>8. /\ p = IF i = 1 THEN s[n] ELSE s[i-1]
      /\ x = IF i = n THEN s[1] ELSE s[i+1]
  BY <1>1, <1>6, <1>7 DEF PrevAt, SuccAt
<1>9. /\ t = s[i] /\ t \in Task /\ p \in Task /\ x \in Task /\ p # t /\ x # NULL
      /\ \E j \in 1 .. n : p = s[j]
      /\ \E j \in 1 .. n : x = s[j]
  <2>1. t \in Task /\ p \in Task /\ x \in Task /\ x # NULL
    BY <1>2, <1>3, <1>8
  <2>2. p # t
    BY <1>1, <1>2, <1>4, <1>8
  <2>3. (\E j \in 1 .. n : p = s[j]) /\ \E j \in 1 .. n : x = s[j]
    BY <1>2, <1>8
  <2>4. QED
    BY <2>1, <2>2, <2>3
<1>10. r.prev[t] = p /\ r.next[t] = x
  <2>1. /\ \A j \in 1 .. n - 1 : r.next[s[j]] = s[j+1] /\ r.prev[s[j+1]] = s[j]
        /\ r.next[s[n]] = s[1] /\ r.prev[s[1]] = s[n]
    BY <1>1, <1>5 DEF Cyclic
  <2>2. r.prev[t] = p
    <3>1. CASE i = 1
      BY <1>8, <1>9, <2>1, <3>1
    <3>2. CASE i # 1
      <4>1. i - 1 \in 1 .. n - 1 /\ i - 1 + 1 = i
        BY <1>1, <1>2, <3>2
      <4>2. QED
        BY <1>8, <1>9, <2>1, <3>2, <4>1
    <3>3. QED
      BY <3>1, <3>2
  <2>3. r.next[t] = x
    <3>1. CASE i = n
      BY <1>8, <1>9, <2>1, <3>1
    <3>2. CASE i # n
      <4>1. i \in 1 .. n - 1
        BY <1>1, <1>2, <3>2
      <4>2. QED
        BY <1>8, <1>9, <2>1, <3>2, <4>1
    <3>3. QED
      BY <3>1, <3>2
  <2>4. QED
    BY <2>2, <2>3
<1>11. PICK g : g = Bridged(r, t)
  OBVIOUS
<1>12. /\ g \in Links
       /\ g.head = r.head /\ g.parent = r.parent /\ g.mixed = r.mixed
       /\ \A u \in Task : /\ g.next[u] = IF u = p THEN x ELSE r.next[u]
                          /\ g.prev[u] = IF u = x THEN p ELSE r.prev[u]
  BY <1>9, <1>10, <1>11, BridgedIs
<1>13. ASSUME NEW u \in Task, \A j \in 1 .. Len(s) : s[j] # u
       PROVE  SameAt(r, g, u)
  BY <1>1, <1>9, <1>12, <1>13 DEF SameAt
<1>14. \A j \in 1 .. n : j # i => s[j] # t /\ s[j] \in Task
  BY <1>2, <1>3, <1>4, <1>9
<1>15. CASE i # 1
  <2>1. t # r.head[q]
    BY <1>2, <1>5, <1>14, <1>15
  <2>2. Contains(Walk(r, q), t)
    <3>1. Walk(r, q) = s
      BY WalkIsRing
    <3>2. QED
      BY <1>9, <3>1 DEF Contains
  <2>3. f = Detached(g, t)
    BY <1>11, <2>1, <2>2 DEF DeleteTask
  <2>4. f \in Links /\ f.head = g.head /\ \A u \in Task : u # t => SameAt(g, f, u)
    BY <1>9, <1>12, <2>3, DetachedIs
  <2>5. OnlyRing(r, f, q, s, t)
    BY <1>12, <1>13, <2>4 DEF OnlyRing, SameAt
  <2>6. Shrunk(r, f, s, i)
    BY <1>1, <1>6, <1>7, <1>12, <1>14, <2>4 DEF Shrunk, SameAt
  <2>7. \A u \in Task : u # t => f.parent[u] = r.parent[u] /\ f.mixed[u] = r.mixed[u]
    BY <1>12, <2>4 DEF SameAt
  <2>8. f.head[q] = s[1] /\ Len(s) # 1
    BY <1>1, <1>5, <1>12, <2>4
  <2>9. QED
    BY <1>15, <2>4, <2>5, <2>6, <2>7, <2>8 DEF Left
<1>16. CASE i = 1
  <2>1. t = r.head[q] /\ x = s[2] /\ p = s[n]
    BY <1>1, <1>5, <1>8, <1>9, <1>16
  <2>2. PICK m : m = Headed(g, q, x)
    OBVIOUS
  <2>3. PICK l : l = Unlinked(m, x)
    OBVIOUS
  <2>4. f = Detached(IF x # NULL /\ g.next[x] = x THEN l ELSE m, t)
    <3>1. f = Dequeue(r, q)
      BY <2>1 DEF DeleteTask
    <3>2. g.next[t] = x
      BY <1>9, <1>10, <1>12
    <3>3. QED
      BY <1>11, <2>1, <2>2, <2>3, <3>1, <3>2 DEF Dequeue
  <2>5. /\ m \in Links
        /\ \A k \in Queue : m.head[k] = IF k = q THEN x ELSE g.head[k]
        /\ m.next = g.next /\ m.prev = g.prev /\ m.parent = g.parent /\ m.mixed = g.mixed
    <3>1. g \in Links /\ x \in Task \cup {NULL}
      BY <1>9, <1>12
    <3>2. HeadIs(g, m, q, x)
      BY <2>2, <3>1, HeadMoved
    <3>3. QED
      BY <3>2 DEF HeadIs
  <2>6. /\ l \in Links
        /\ l.head = m.head /\ l.parent = m.parent /\ l.mixed = m.mixed
        /\ \A u \in Task : /\ l.next[u] = IF u = x THEN NULL ELSE m.next[u]
                           /\ l.prev[u] = IF u = x THEN NULL ELSE m.prev[u]
    <3>1. m \in Links /\ x \in Task
      BY <1>9, <2>5
    <3>2. LoneAt(m, l, x)
      BY <2>3, <3>1, LoneIs
    <3>3. QED
      BY <3>2 DEF LoneAt
  <2>7. CASE n = 2
    <3>1. g.next[x] = x
      BY <1>9, <1>12, <2>1, <2>7
    <3>2. f = Detached(l, t)
      BY <1>9, <2>4, <3>1
    <3>3. f \in Links /\ f.head = l.head /\ \A u \in Task : u # t => SameAt(l, f, u)
      BY <1>9, <2>6, <3>2, DetachedIs
    <3>4. x # t
      BY <1>2, <1>4, <1>9, <1>16, <2>1
    <3>5. f.next[x] = NULL /\ f.prev[x] = NULL
      BY <1>9, <2>6, <3>3, <3>4 DEF SameAt
    <3>6. ASSUME NEW u \in Task, u # t, \A j \in 1 .. Len(s) : s[j] # u
          PROVE  SameAt(r, f, u)
      <4>1. SameAt(r, g, u) /\ SameAt(l, f, u)
        BY <1>13, <3>3, <3>6
      <4>2. u # x
        BY <1>1, <1>9, <3>6
      <4>3. QED
        BY <2>5, <2>6, <3>6, <4>1, <4>2 DEF SameAt
    <3>7. OnlyRing(r, f, q, s, t)
      BY <1>12, <2>5, <2>6, <3>3, <3>6 DEF OnlyRing
    <3>8. \A u \in Task : u # t => f.parent[u] = r.parent[u] /\ f.mixed[u] = r.mixed[u]
      BY <1>12, <2>5, <2>6, <3>3 DEF SameAt
    <3>9. f.head[q] = s[2] /\ Len(s) # 1
      BY <1>1, <2>1, <2>5, <2>6, <3>3
    <3>10. QED
      BY <1>1, <1>16, <2>1, <2>7, <3>3, <3>5, <3>7, <3>8, <3>9 DEF Left
  <2>8. CASE n # 2
    <3>1. g.next[x] # x
      <4>1. 2 \in 1 .. n - 1 /\ 2 + 1 = 3 /\ 3 \in 1 .. n
        BY <1>1, <2>8
      <4>2. x # p /\ s[3] # x
        BY <1>1, <1>2, <1>4, <2>1, <2>8, <4>1
      <4>3. r.next[x] = s[3]
        BY <1>1, <1>5, <2>1, <4>1 DEF Cyclic
      <4>4. QED
        BY <1>9, <1>12, <4>2, <4>3
    <3>2. f = Detached(m, t)
      BY <2>4, <3>1
    <3>3. f \in Links /\ f.head = m.head /\ \A u \in Task : u # t => SameAt(m, f, u)
      BY <1>9, <2>5, <3>2, DetachedIs
    <3>4. OnlyRing(r, f, q, s, t)
      BY <1>12, <1>13, <2>5, <3>3 DEF OnlyRing, SameAt
    <3>5. Shrunk(r, f, s, i)
      BY <1>1, <1>6, <1>7, <1>12, <1>14, <2>5, <3>3 DEF Shrunk, SameAt
    <3>6. \A u \in Task : u # t => f.parent[u] = r.parent[u] /\ f.mixed[u] = r.mixed[u]
      BY <1>12, <2>5, <3>3 DEF SameAt
    <3>7. f.head[q] = s[2] /\ Len(s) # 1
      BY <1>1, <2>1, <2>5, <3>3
    <3>8. QED
      BY <1>1, <1>16, <2>8, <3>3, <3>4, <3>5, <3>6, <3>7 DEF Left
  <2>9. QED
    BY <2>7, <2>8
<1>17. QED
  BY <1>15, <1>16

LEMMA FewPositions ==
  \A n \in Nat : \A i \in 1 .. n :
    (n = 1 \/ n > 1) /\ (n = 2 => i = 1 \/ i = 2) /\ (n - 1 = 1 => n = 2)
  OBVIOUS

(* What is left of the ring of q when the task at position i is deleted.   *)
LEMMA LeftIsRing ==
  ASSUME NEW r, NEW f, NEW q \in Queue, NEW s \in Seq(Task), Distinct(s),
         NEW L, RingOf(r, q, s, L), q \in L => Len(s) = 1,
         NEW i \in 1 .. Len(s), ~(i = 1 /\ q \in L), Left(r, f, q, s, s[i], i),
         NEW M, q \in M <=> (i = 2 /\ Len(s) = 2)
  PROVE  RingOf(f, q, RemoveAt(s, i), M)
<1>1. PICK n \in Nat : n = Len(s) /\ n > 0
  BY LenProperties
<1>2. PICK v : v = RemoveAt(s, i)
  OBVIOUS
<1>3. /\ v \in Seq(Task) /\ Len(v) = n - 1
      /\ \A j \in 1 .. n - 1 : v[j] = IF j < i THEN s[j] ELSE s[j+1]
  <2>1. /\ RemoveAt(s, i) \in Seq(Task)
        /\ Len(RemoveAt(s, i)) = Len(s) - 1
        /\ \A j \in 1 .. Len(s) - 1 : RemoveAt(s, i)[j] = IF j < i THEN s[j] ELSE s[j+1]
    BY RemoveAtIsSeq
  <2>2. QED
    BY <1>1, <1>2, <2>1, Zenon
<1>4. v = <<>> <=> n = 1
  BY <1>1, <1>3, EmptySeq
<1>5. i \in 1 .. n /\ \A j, k \in 1 .. n : s[j] = s[k] => j = k
  BY <1>1 DEF Distinct
<1>6. \A j \in 1 .. n : s[j] \in Task
  BY <1>1, ElementOfSeq
<1>7. /\ f.head[q] = IF n = 1 THEN NULL ELSE IF i = 1 THEN s[2] ELSE s[1]
      /\ \A u \in Task : u # s[i] => f.parent[u] = r.parent[u] /\ f.mixed[u] = r.mixed[u]
      /\ n = 2 /\ i = 1 => f.next[s[2]] = NULL /\ f.prev[s[2]] = NULL
      /\ n > 1 /\ ~(n = 2 /\ i = 1) => Shrunk(r, f, s, i)
  BY <1>1 DEF Left
<1>8. ASSUME NEW j \in 1 .. n - 1
      PROVE  f.parent[v[j]] = q /\ (f.mixed[v[j]] <=> q \in Mixed)
  <2>1. PICK k \in 1 .. n : v[j] = s[k] /\ k # i
    <3>1. j \in 1 .. n /\ j + 1 \in 1 .. n
      BY <1>1
    <3>2. CASE j < i
      BY <1>3, <1>5, <3>1, <3>2
    <3>3. CASE ~(j < i)
      <4>1. j + 1 # i
        BY <1>5, <3>1, <3>3
      <4>2. QED
        BY <1>3, <3>1, <3>3, <4>1
    <3>4. QED
      BY <3>2, <3>3
  <2>2. s[k] \in Task /\ s[k] # s[i]
    BY <1>5, <1>6, <2>1
  <2>3. r.parent[s[k]] = q /\ (r.mixed[s[k]] <=> q \in Mixed)
    BY <1>1 DEF RingOf
  <2>4. QED
    BY <1>7, <2>1, <2>2, <2>3
<1>9. v # <<>> => f.head[q] = v[1]
  <2>1. ASSUME n # 1 PROVE f.head[q] = v[1]
    <3>1. 1 \in 1 .. n - 1 /\ 1 + 1 = 2 /\ (1 < i <=> i # 1)
      BY <1>1, <1>5, <2>1
    <3>2. QED
      BY <1>3, <1>7, <2>1, <3>1
  <2>2. QED
    BY <1>4, <2>1
<1>10. v = <<>> => f.head[q] = NULL
  BY <1>4, <1>7
<1>11. ASSUME n = 2, i = 1 PROVE f.next[v[1]] = NULL /\ f.prev[v[1]] = NULL
  <2>1. 1 \in 1 .. n - 1 /\ 1 + 1 = 2 /\ ~(1 < i)
    BY <1>11
  <2>2. QED
    BY <1>3, <1>7, <1>11, <2>1
<1>12. ASSUME n > 1, ~(n = 2 /\ i = 1) PROVE Cyclic(f, v)
  <2>1. Cyclic(r, s)
    BY <1>1, <1>12 DEF RingOf
  <2>2. Shrunk(r, f, s, i)
    BY <1>7, <1>12
  <2>3. QED
    BY <1>1, <1>2, <1>12, <2>1, <2>2, ShrunkIsCyclic
<1>13. (Len(v) = 1 /\ q \notin M) => n = 2 /\ i = 1
  <2>1. Len(v) = 1 => n = 2 /\ (i = 1 \/ i = 2)
    BY <1>3, <1>5, FewPositions, Zenon
  <2>2. n = 2 /\ i = 2 => q \in M
    BY <1>1
  <2>3. QED
    BY <2>1, <2>2
<1>14. (Len(v) > 1 \/ (Len(v) = 1 /\ q \in M)) => n > 1 /\ ~(n = 2 /\ i = 1)
  BY <1>1, <1>3
<1>15. RingOf(f, q, v, M)
  BY <1>3, <1>8, <1>9, <1>10, <1>11, <1>12, <1>13, <1>14 DEF RingOf
<1>16. QED
  BY <1>2, <1>15

(* Any task of a queue may be deleted, but the only one of a queue that is *)
(* linked to itself.                                                       *)
Exits(Q, L, q, i) == i \in 1 .. Len(Q[q]) /\ ~(i = 1 /\ q \in L)

(* delete_task: the ring of q loses t where the sequence does, the other   *)
(* rings are as they were.                                                 *)
LEMMA DeleteRings ==
  ASSUME NEW r, NEW Q, NEW L, RingState(r, Q, L), NEW q \in Queue,
         NEW i, Exits(Q, L, q, i), NEW t, t = Q[q][i],
         NEW R \in [Queue -> Seq(Task)], Changed(Q, R, q, RemoveAt(Q[q], i)),
         NEW M, M = IF i = 2 /\ Len(Q[q]) = 2 THEN L \cup {q} ELSE L
  PROVE  RingState(DeleteTask(r, q, t), R, M)
<1>1. PICK f : f = DeleteTask(r, q, t)
  OBVIOUS
<1>2. PICK s : s = Q[q]
  OBVIOUS
<1>3. /\ Q \in [Queue -> Seq(Task)] /\ Unique(Q) /\ Rings(r, Q, L)
      /\ r \in Links /\ RingOf(r, q, s, L) /\ (q \in L => Len(s) = 1)
  BY <1>2 DEF RingState, Rings
<1>4. s \in Seq(Task) /\ Distinct(s) /\ Len(s) \in Nat
  BY <1>2, <1>3, InQueue
<1>5. i \in 1 .. Len(s) /\ ~(i = 1 /\ q \in L) /\ t = s[i]
  BY <1>2 DEF Exits
<1>6. Left(r, f, q, s, t, i)
  <2>1. CASE Len(s) = 1
    <3>1. i = 1 /\ t = s[1] /\ q \notin L
      BY <1>5, <2>1
    <3>2. Left(r, f, q, s, t, 1)
      BY <1>1, <1>3, <1>4, <2>1, <3>1, DeleteLast
    <3>3. QED
      BY <3>1, <3>2
  <2>2. CASE Len(s) > 1
    BY <1>1, <1>3, <1>4, <1>5, <2>2, DeleteShrinks
  <2>3. Len(s) = 1 \/ Len(s) > 1
    BY <1>4, <1>5, FewPositions, Zenon
  <2>4. QED
    BY <2>1, <2>2, <2>3
<1>7. R[q] = RemoveAt(s, i) /\ \A p \in Queue : p # q => R[p] = Q[p]
  BY <1>2 DEF Changed
<1>8. Unique(R)
  <2>1. Loses(Q, R, t)
    BY <1>2, <1>3, <1>5, <1>7, RemovedOnce
  <2>2. QED
    BY <2>1 DEF Loses
<1>9. (q \in M <=> (i = 2 /\ Len(s) = 2)) /\ \A p \in Queue : p # q => (p \in M <=> p \in L)
  BY <1>2, <1>3, <1>5
<1>10. RingOf(f, q, RemoveAt(s, i), M)
  BY <1>3, <1>4, <1>5, <1>6, <1>9, LeftIsRing
<1>11. Untouched(r, f, q, Q, R, L, M)
  <2>1. Contains(Q[q], t)
    BY <1>2, <1>5 DEF Contains
  <2>2. OnlyRing(r, f, q, Q[q], t)
    BY <1>2, <1>6 DEF Left
  <2>3. QED
    BY <1>7, <1>9, <2>1, <2>2, OthersSame
<1>12. f \in Links
  BY <1>6 DEF Left
<1>13. q \in M => Len(R[q]) = 1
  <2>1. Len(RemoveAt(s, i)) = Len(s) - 1
    BY <1>4, <1>5, RemoveAtIsSeq
  <2>2. QED
    BY <1>7, <1>9, <2>1
<1>14. RingOf(f, q, R[q], M)
  BY <1>7, <1>10
<1>15. Rings(f, R, M)
  BY <1>3, <1>11, <1>12, <1>13, <1>14, RingsKept
<1>16. QED
  BY <1>1, <1>8, <1>15 DEF RingState
-----------------------------------------------------------------------------
(* The operations as the actions call them.                                *)

(* dequeue_task takes what the head of the ring leads to, and that is the  *)
(* head of the sequence.                                                   *)
LEMMA DequeueRings ==
  ASSUME NEW r, NEW Q, NEW L, RingState(r, Q, L), NEW q \in Queue,
         Q[q] # <<>>, q \notin L,
         NEW R \in [Queue -> Seq(Task)], Changed(Q, R, q, Tail(Q[q]))
  PROVE  /\ r.head[q] = Head(Q[q]) /\ Head(Q[q]) \in Task
         /\ Absent(R, Head(Q[q]))
         /\ RingState(Dequeue(r, q), R, L)
<1>1. PICK s : s = Q[q]
  OBVIOUS
<1>2. /\ Q \in [Queue -> Seq(Task)] /\ Unique(Q) /\ Rings(r, Q, L)
      /\ r \in Links /\ RingOf(r, q, s, L)
  BY <1>1 DEF RingState, Rings
<1>3. s \in Seq(Task) /\ s # <<>> /\ Len(s) \in Nat
  BY <1>1, <1>2, InQueue
<1>4. 1 \in 1 .. Len(s) /\ Tail(s) = RemoveAt(s, 1) /\ Head(s) = s[1] /\ s[1] \in Task
  BY <1>3, TailIsRemoveAt, NonEmpty
<1>5. PICK i \in 1 .. Len(s) : i = 1
  BY <1>4
<1>6. r.head[q] = s[1]
  BY <1>2, <1>3 DEF RingOf
<1>7. Exits(Q, L, q, i) /\ s[1] = Q[q][i]
  BY <1>1, <1>5 DEF Exits
<1>8. Changed(Q, R, q, RemoveAt(Q[q], i))
  BY <1>1, <1>4, <1>5 DEF Changed
<1>9. L = IF i = 2 /\ Len(Q[q]) = 2 THEN L \cup {q} ELSE L
  BY <1>5
<1>10. RingState(DeleteTask(r, q, s[1]), R, L)
  BY <1>7, <1>8, <1>9, DeleteRings
<1>11. DeleteTask(r, q, s[1]) = Dequeue(r, q)
  BY <1>6 DEF DeleteTask
<1>12. Absent(R, Head(Q[q]))
  <2>1. R[q] = Tail(Q[q]) /\ \A p \in Queue : p # q => R[p] = Q[p]
    BY DEF Changed
  <2>2. PICK h : h = Head(Q[q])
    OBVIOUS
  <2>3. Loses(Q, R, h)
    BY <1>1, <1>2, <1>3, <2>1, <2>2, Dequeued
  <2>4. QED
    BY <2>2, <2>3 DEF Loses
<1>13. QED
  BY <1>1, <1>4, <1>6, <1>10, <1>11, <1>12

(* enqueue_task on a ready queue.                                          *)
LEMMA AppendRings ==
  ASSUME NEW r, NEW Q, NEW L, RingState(r, Q, L), NEW q \in Queue, q \notin Mixed,
         NEW t \in Task, Absent(Q, t), NEW prio \in [Task -> Nat],
         NEW R \in [Queue -> Seq(Task)], Changed(Q, R, q, Append(Q[q], t))
  PROVE  RingState(Enqueue(r, q, t, prio, FALSE), R, L \ {q})
<1>1. Q[q] \in Seq(Task) /\ Len(Q[q]) \in Nat
  BY LenProperties DEF RingState
<1>2. PICK k : k = Len(Q[q]) + 1
  OBVIOUS
<1>3. k \in 1 .. Len(Q[q]) + 1 /\ Append(Q[q], t) = InsertAt(Q[q], k, t)
  BY <1>1, <1>2, AppendIsInsertAt
<1>4. Place(r, q, Q[q], t, prio, k)
  BY <1>2 DEF Place
<1>5. ~(k = 1 /\ Len(Q[q]) = 1)
  <2>1. \A n \in Nat : ~(n + 1 = 1 /\ n = 1)
    OBVIOUS
  <2>2. QED
    BY <1>1, <1>2, <2>1, Zenon
<1>6. Enters(r, Q, L, q, t, prio, FALSE, k)
  BY <1>3, <1>4, <1>5 DEF Enters
<1>7. Changed(Q, R, q, InsertAt(Q[q], k, t))
  BY <1>3 DEF Changed
<1>8. QED
  BY <1>6, <1>7, EnqueueRings

(* The time slice moves the head along the ring.                           *)
LEMMA RotateRings ==
  ASSUME NEW r, NEW Q, NEW L, RingState(r, Q, L), NEW q \in Queue, Q[q] # <<>>,
         NEW R \in [Queue -> Seq(Task)], Unique(R),
         Changed(Q, R, q, Append(Tail(Q[q]), Head(Q[q])))
  PROVE  RingState(Rotate(r, q), R, L)
<1>1. PICK s : s = Q[q]
  OBVIOUS
<1>2. /\ Q \in [Queue -> Seq(Task)] /\ Unique(Q) /\ Rings(r, Q, L)
      /\ r \in Links /\ RingOf(r, q, s, L) /\ (q \in L => Len(s) = 1)
  BY <1>1 DEF RingState, Rings
<1>3. s \in Seq(Task) /\ s # <<>>
  BY <1>1, <1>2, InQueue
<1>4. PICK n \in Nat : n = Len(s) /\ n > 0
  BY <1>3, LenProperties, EmptySeq
<1>5. PICK v : v = Append(Tail(s), Head(s))
  OBVIOUS
<1>6. /\ v \in Seq(Task) /\ Len(v) = n
      /\ \A j \in 1 .. n : v[j] = IF j = n THEN s[1] ELSE s[j+1]
  <2>1. /\ Tail(s) \in Seq(Task) /\ Len(Tail(s)) = n - 1
        /\ \A j \in 1 .. n - 1 : Tail(s)[j] = s[j+1]
    BY <1>3, <1>4, HeadTailProperties
  <2>2. Head(s) = s[1] /\ s[1] \in Task
    BY <1>3, NonEmpty
  <2>3. /\ Append(Tail(s), Head(s)) \in Seq(Task)
        /\ Len(Append(Tail(s), Head(s))) = Len(Tail(s)) + 1
        /\ \A j \in 1 .. Len(Tail(s)) : Append(Tail(s), Head(s))[j] = Tail(s)[j]
        /\ Append(Tail(s), Head(s))[Len(Tail(s)) + 1] = Head(s)
    BY <2>1, <2>2, AppendProperties
  <2>4. n - 1 + 1 = n /\ \A j \in 1 .. n : j = n \/ j \in 1 .. n - 1
    BY <1>4
  <2>5. v \in Seq(Task) /\ Len(v) = n /\ v[n] = s[1]
    BY <1>5, <2>1, <2>2, <2>3, <2>4
  <2>6. \A j \in 1 .. n - 1 : v[j] = s[j+1]
    BY <1>5, <2>1, <2>3
  <2>7. QED
    BY <2>4, <2>5, <2>6
<1>7. \A j \in 1 .. n : s[j] \in Task /\ s[j] # NULL
  BY <1>3, <1>4, ElementOfSeq, TaskmanAssumption
<1>8. r.head[q] = s[1]
  BY <1>2, <1>3 DEF RingOf
<1>9. \A j \in 1 .. n : r.parent[s[j]] = q /\ (r.mixed[s[j]] <=> q \in Mixed)
  BY <1>2, <1>4 DEF RingOf
<1>10. v # <<>>
  BY <1>4, <1>6, EmptySeq
<1>11. PICK f : f = Rotate(r, q)
  OBVIOUS
<1>12. /\ f \in Links
       /\ f.head[q] = v[1]
       /\ \A p \in Queue : p # q => f.head[p] = r.head[p]
       /\ \A u \in Task : SameAt(r, f, u)
  <2>1. CASE r.next[s[1]] = NULL
    <3>1. f = r
      BY <1>8, <1>11, <2>1 DEF Rotate
    <3>2. n = 1
      <4>1. n > 1 => r.next[s[1]] = s[2]
        <5>1. n > 1 => 1 \in 1 .. n - 1 /\ 1 + 1 = 2
          BY <1>4
        <5>2. QED
          BY <1>2, <1>4, <5>1 DEF RingOf, Cyclic
      <4>2. n > 1 => 2 \in 1 .. n
        BY <1>4
      <4>3. ~(n > 1)
        BY <1>7, <2>1, <4>1, <4>2
      <4>4. QED
        BY <1>4, <4>3
    <3>3. f.head[q] = v[1]
      BY <1>6, <1>8, <3>1, <3>2
    <3>4. QED
      BY <1>2, <3>1, <3>3 DEF SameAt
  <2>2. CASE r.next[s[1]] # NULL
    <3>1. r.next[s[1]] = v[1]
      <4>1. CASE n = 1
        <5>1. Cyclic(r, s)
          BY <1>2, <1>4, <2>2, <4>1 DEF RingOf
        <5>2. QED
          BY <1>4, <1>6, <4>1, <5>1 DEF Cyclic
      <4>2. CASE n # 1
        <5>1. n > 1 /\ 1 \in 1 .. n - 1 /\ 1 \in 1 .. n
          BY <1>4, <4>2
        <5>2. Cyclic(r, s)
          BY <1>2, <1>4, <5>1 DEF RingOf
        <5>3. QED
          BY <1>4, <1>6, <4>2, <5>1, <5>2 DEF Cyclic
      <4>3. QED
        BY <4>1, <4>2
    <3>2. f = Headed(r, q, v[1])
      BY <1>8, <1>11, <2>2, <3>1 DEF Rotate
    <3>3. v[1] \in Task
      BY <1>6, <1>10, NonEmpty
    <3>4. HeadIs(r, f, q, v[1])
      BY <1>2, <3>2, <3>3, HeadMoved
    <3>5. QED
      BY <3>4 DEF HeadIs, SameAt
  <2>3. QED
    BY <2>1, <2>2
<1>13. ASSUME NEW j \in 1 .. n
       PROVE  f.parent[v[j]] = q /\ (f.mixed[v[j]] <=> q \in Mixed)
  <2>1. PICK k \in 1 .. n : v[j] = s[k]
    <3>1. 1 \in 1 .. n /\ (j # n => j + 1 \in 1 .. n)
      BY <1>4
    <3>2. QED
      BY <1>6, <3>1
  <2>2. QED
    BY <1>7, <1>9, <1>12, <2>1 DEF SameAt
<1>14. RingOf(f, q, v, L)
  <2>1. ASSUME n = 1, q \notin L PROVE f.next[v[1]] = NULL /\ f.prev[v[1]] = NULL
    <3>1. r.next[s[1]] = NULL /\ r.prev[s[1]] = NULL
      BY <1>2, <1>4, <2>1 DEF RingOf
    <3>2. v[1] = s[1] /\ s[1] \in Task
      BY <1>6, <1>7, <2>1
    <3>3. QED
      BY <1>12, <3>1, <3>2 DEF SameAt
  <2>2. ASSUME n > 1 \/ (n = 1 /\ q \in L) PROVE Cyclic(f, v)
    <3>1. /\ \A j \in 1 .. n - 1 : r.next[s[j]] = s[j+1] /\ r.prev[s[j+1]] = s[j]
          /\ r.next[s[n]] = s[1] /\ r.prev[s[1]] = s[n]
      BY <1>2, <1>4, <2>2 DEF RingOf, Cyclic
    <3>2. \A j \in 1 .. n : /\ f.next[s[j]] = r.next[s[j]]
                            /\ f.prev[s[j]] = r.prev[s[j]]
      BY <1>7, <1>12 DEF SameAt
    <3>3. ASSUME NEW j \in 1 .. n - 1 PROVE f.next[v[j]] = v[j+1] /\ f.prev[v[j+1]] = v[j]
      <4>1. j \in 1 .. n /\ j + 1 \in 1 .. n /\ j # n
        BY <1>4
      <4>2. v[j] = s[j+1]
        BY <1>6, <4>1
      <4>3. CASE j + 1 = n
        BY <1>4, <1>6, <3>1, <3>2, <4>1, <4>2, <4>3
      <4>4. CASE j + 1 # n
        <5>1. j + 1 \in 1 .. n - 1 /\ j + 1 + 1 \in 1 .. n
          BY <1>4, <4>4
        <5>2. v[j+1] = s[j+1+1]
          BY <1>6, <4>1, <4>4
        <5>3. QED
          BY <3>1, <3>2, <4>1, <4>2, <5>1, <5>2
      <4>5. QED
        BY <4>3, <4>4
    <3>4. f.next[v[n]] = v[1] /\ f.prev[v[1]] = v[n]
      <4>1. 1 \in 1 .. n /\ n \in 1 .. n
        BY <1>4
      <4>2. CASE n = 1
        BY <1>6, <3>1, <3>2, <4>1, <4>2
      <4>3. CASE n # 1
        <5>1. 1 \in 1 .. n - 1 /\ 1 + 1 \in 1 .. n
          BY <1>4, <4>3
        <5>2. v[1] = s[1+1] /\ v[n] = s[1]
          BY <1>6, <4>1, <4>3
        <5>3. QED
          BY <3>1, <3>2, <4>1, <5>1, <5>2
      <4>4. QED
        BY <4>2, <4>3
    <3>5. QED
      BY <1>6, <3>3, <3>4 DEF Cyclic
  <2>3. QED
    BY <1>6, <1>10, <1>12, <1>13, <2>1, <2>2 DEF RingOf
<1>15. R[q] = v /\ \A p \in Queue : p # q => R[p] = Q[p]
  BY <1>1, <1>5 DEF Changed
<1>16. Untouched(r, f, q, Q, R, L, L)
  <2>1. \A p \in Queue : \A j \in 1 .. Len(Q[p]) : Q[p][j] \in Task
    BY <1>2, InQueue
  <2>2. QED
    BY <1>12, <1>15, <2>1 DEF Untouched
<1>17. q \in L => Len(R[q]) = 1
  BY <1>2, <1>4, <1>6, <1>15
<1>18. RingOf(f, q, R[q], L)
  BY <1>14, <1>15
<1>19. Rings(f, R, L)
  BY <1>2, <1>12, <1>16, <1>17, <1>18, RingsKept
<1>20. QED
  BY <1>11, <1>19 DEF RingState
-----------------------------------------------------------------------------
(* Every action keeps the rings and the sequences together.                *)

RingsNow == RingState(rings, queue, selfLinked)

LEMMA ReadyNotMixed ==
  \A p \in Prio : ReadyQ(p) \in Queue /\ ReadyQ(p) \notin Mixed
BY QueueNames DEF Mixed, ReadyQ

LEMMA PrioNat ==
  ASSUME NEW f \in [Task -> Prio] PROVE f \in [Task -> Nat]
BY TaskmanAssumption DEF Prio

LEMMA StartTaskRings ==
  ASSUME IInv, RingsNow, NEW t \in Task, NEW p \in Prio, NEW share \in BOOLEAN,
         RingStartTask(t, p, share)
  PROVE  RingsNow'
<1> DEFINE q == ReadyQ(p)
<1>1. StartTask(t, p, share) /\ rings' = Enqueue(rings, q, t, priority', FALSE)
  BY DEF RingStartTask
<1>2. /\ queue' \in [Queue -> Seq(Task)] /\ Absent(queue, t)
      /\ \A r \in Queue : r # q => queue'[r] = queue[r]
      /\ priority' \in [Task -> Nat]
  BY <1>1, StartTaskQueues, PrioNat
<1>3. q \in Queue /\ q \notin Mixed
  BY ReadyNotMixed
<1>4. queue'[q] = Append(queue[q], t) /\ selfLinked' = selfLinked \ {q}
  BY <1>1, <1>3, Facts DEF StartTask
<1> HIDE DEF q
<1>5. Changed(queue, queue', q, Append(queue[q], t))
  BY <1>2, <1>4 DEF Changed
<1>6. RingState(Enqueue(rings, q, t, priority', FALSE), queue', selfLinked \ {q})
  BY <1>2, <1>3, <1>5, AppendRings DEF RingsNow
<1>7. QED
  BY <1>1, <1>4, <1>6 DEF RingsNow

LEMMA TerminateRings ==
  ASSUME IInv, RingsNow, RingTerminate, ~fault'
  PROVE  RingsNow'
<1> DEFINE q == ReadyQ(priority[running_task])
<1>1. Terminate /\ rings' = Dequeue(rings, q)
  BY DEF RingTerminate
<1>2. ~Fault
  BY DEF Fault
<1>3. queue' \in [Queue -> Seq(Task)] /\ \A r \in Queue : r # q => queue'[r] = queue[r]
  BY <1>1, <1>2, TerminateQueues
<1>4. q \in Queue /\ queue[q] # <<>>
  BY <1>1, Facts DEF Terminate, InTask
<1>5. q \notin selfLinked /\ selfLinked' = selfLinked /\ queue'[q] = Tail(queue[q])
  BY <1>1, <1>2, <1>4, Facts DEF Terminate
<1> HIDE DEF q
<1>6. Changed(queue, queue', q, Tail(queue[q]))
  BY <1>3, <1>5 DEF Changed
<1>7. RingState(Dequeue(rings, q), queue', selfLinked)
  BY <1>3, <1>4, <1>5, <1>6, DequeueRings DEF RingsNow
<1>8. QED
  BY <1>1, <1>5, <1>7 DEF RingsNow

(* delete_task of another task than the running one.                       *)
LEMMA DeleteNow ==
  ASSUME IInv, RingsNow, InTask, NEW q \in Queue, NEW i \in DOMAIN queue[q],
         queue[q][i] # running_task, ~TornDelete(q, i),
         NEW R, R = Delete(queue, q, i)
  PROVE  /\ R \in [Queue -> Seq(Task)] /\ queue[q][i] \in Task
         /\ Absent(R, queue[q][i])
         /\ RingState(DeleteTask(rings, q, queue[q][i]), R, LinksAfterDelete(q, i))
<1>1. R \in [Queue -> Seq(Task)] /\ queue[q][i] \in Task /\ Loses(queue, R, queue[q][i])
  BY DeletedOther
<1>2. queue \in [Queue -> Seq(Task)] /\ queue[q] \in Seq(Task)
  BY Facts
<1>3. Changed(queue, R, q, RemoveAt(queue[q], i))
  BY <1>2 DEF Changed, Delete
<1>4. Exits(queue, selfLinked, q, i)
  BY <1>2, LenProperties DEF Exits, TornDelete
<1>5. LinksAfterDelete(q, i) =
        IF i = 2 /\ Len(queue[q]) = 2 THEN selfLinked \cup {q} ELSE selfLinked
  BY DEF LinksAfterDelete
<1>6. RingState(DeleteTask(rings, q, queue[q][i]), R, LinksAfterDelete(q, i))
  BY <1>1, <1>3, <1>4, <1>5, DeleteRings DEF RingsNow
<1>7. QED
  BY <1>1, <1>6 DEF Loses

LEMMA EndTaskRings ==
  ASSUME IInv, RingsNow, NEW q \in Queue, NEW i \in DOMAIN queue[q], RingEndTask(q, i),
         ~fault'
  PROVE  RingsNow'
<1>1. EndTask(q, i) /\ rings' = DeleteTask(rings, q, queue[q][i])
  BY DEF RingEndTask
<1>2. /\ InTask /\ queue[q][i] # running_task /\ ~TornDelete(q, i)
      /\ queue' = Delete(queue, q, i) /\ selfLinked' = LinksAfterDelete(q, i)
  BY <1>1 DEF EndTask, Fault
<1>3. RingState(DeleteTask(rings, q, queue[q][i]), queue', LinksAfterDelete(q, i))
  BY <1>2, DeleteNow
<1>4. QED
  BY <1>1, <1>2, <1>3 DEF RingsNow

(* The head of a leaves and v is what b becomes.                           *)
Shifted(Q, R, a, b, v) ==
  /\ R[a] = Tail(Q[a])
  /\ R[b] = v
  /\ \A p \in Queue : p # a /\ p # b => R[p] = Q[p]

(* Between dequeue_task and enqueue_task the task is on no queue.          *)
LEMMA Between ==
  ASSUME NEW r, NEW Q, NEW L, RingState(r, Q, L), NEW a \in Queue, NEW b \in Queue,
         a # b, Q[a] # <<>>, a \notin L,
         NEW R, NEW v, Shifted(Q, R, a, b, v)
  PROVE  /\ r.head[a] = Head(Q[a]) /\ Head(Q[a]) \in Task
         /\ \E M \in [Queue -> Seq(Task)] :
              /\ RingState(Dequeue(r, a), M, L)
              /\ Absent(M, Head(Q[a]))
              /\ M[b] = Q[b]
              /\ Changed(M, R, b, v)
<1>1. PICK M : M = [Q EXCEPT ![a] = Tail(@)]
  OBVIOUS
<1>2. Q \in [Queue -> Seq(Task)] /\ Q[a] \in Seq(Task)
  BY DEF RingState
<1>3. Tail(Q[a]) \in Seq(Task)
  BY <1>2, HeadTailProperties
<1>4. /\ M \in [Queue -> Seq(Task)] /\ M[a] = Tail(Q[a])
      /\ \A p \in Queue : p # a => M[p] = Q[p]
  BY <1>1, <1>2, <1>3
<1>5. Changed(Q, M, a, Tail(Q[a]))
  BY <1>4 DEF Changed
<1>6. /\ r.head[a] = Head(Q[a]) /\ Head(Q[a]) \in Task
      /\ Absent(M, Head(Q[a])) /\ RingState(Dequeue(r, a), M, L)
  BY <1>4, <1>5, DequeueRings
<1>7. Changed(M, R, b, v)
  BY <1>4 DEF Changed, Shifted
<1>8. M[b] = Q[b]
  BY <1>4
<1>9. QED
  BY <1>4, <1>6, <1>7, <1>8

(* dequeue_task of one queue and enqueue_task on a ready queue.            *)
ShiftedRings(r, a, b, t, prio, R, L) ==
  /\ r.head[a] = t
  /\ RingState(Enqueue(Dequeue(r, a), b, t, prio, FALSE), R, L)

LEMMA ShiftToReady ==
  ASSUME NEW r, NEW Q, NEW L, RingState(r, Q, L), NEW a \in Queue, NEW b \in Queue,
         a # b, Q[a] # <<>>, a \notin L, b \notin Mixed,
         NEW prio \in [Task -> Nat], NEW t, t = Head(Q[a]),
         NEW R \in [Queue -> Seq(Task)], Shifted(Q, R, a, b, Append(Q[b], t))
  PROVE  ShiftedRings(r, a, b, t, prio, R, L \ {b})
<1>1. PICK v : v = Append(Q[b], t)
  OBVIOUS
<1>2. Shifted(Q, R, a, b, v)
  BY <1>1
<1>3. r.head[a] = t /\ t \in Task
  BY <1>2, Between
<1>4. PICK M \in [Queue -> Seq(Task)] :
        /\ RingState(Dequeue(r, a), M, L) /\ Absent(M, t)
        /\ M[b] = Q[b] /\ Changed(M, R, b, v)
  BY <1>2, Between
<1>5. Changed(M, R, b, Append(M[b], t))
  BY <1>1, <1>4
<1>6. RingState(Enqueue(Dequeue(r, a), b, t, prio, FALSE), R, L \ {b})
  BY <1>3, <1>4, <1>5, AppendRings
<1>7. QED
  BY <1>3, <1>6 DEF ShiftedRings

LEMMA WakeRings ==
  ASSUME IInv, RingsNow, NEW q \in Queue, RingWake(q), ~fault'
  PROVE  RingsNow'
<1>1. PICK t : t = Head(queue[q])
  OBVIOUS
<1>2. PICK b : b = ReadyQ(priority[t])
  OBVIOUS
<1>3. Wake(q) /\ ~Fault
  BY DEF RingWake, Fault
<1>4. /\ queue[q] # <<>> /\ t \in Task /\ priority[t] \in Prio
      /\ \A r \in Prio : q # ReadyQ(r)
      /\ queue' \in [Queue -> Seq(Task)]
      /\ queue'[q] = Tail(queue[q])
      /\ \A r \in Queue : r # q /\ r # b => queue'[r] = queue[r]
      /\ selfLinked' = selfLinked \ {b}
  BY <1>1, <1>2, <1>3, WakeQueues
<1>5. b \in Queue /\ b \notin Mixed /\ q # b
  BY <1>2, <1>4, ReadyNotMixed
<1>6. q \notin selfLinked
  BY <1>3 DEF Wake
<1>7. queue'[b] = Append(queue[b], t)
  <2>1. queue' = [queue EXCEPT ![q] = Tail(@), ![b] = Append(@, t)]
    BY <1>1, <1>2, <1>3, <1>6 DEF Wake
  <2>2. QED
    BY <1>5, <2>1, Facts
<1>8. Shifted(queue, queue', q, b, Append(queue[b], t))
  BY <1>4, <1>7 DEF Shifted
<1>9. priority \in [Task -> Nat]
  BY Facts, PrioNat
<1>10. ShiftedRings(rings, q, b, t, priority, queue', selfLinked \ {b})
  BY <1>1, <1>4, <1>5, <1>6, <1>8, <1>9, ShiftToReady DEF RingsNow
<1>11. rings' = Enqueue(Dequeue(rings, q), b, t, priority, FALSE)
  BY <1>2, <1>10 DEF RingWake, ShiftedRings
<1>12. QED
  BY <1>4, <1>10, <1>11 DEF RingsNow, ShiftedRings

LEMMA SetRunningTaskPriorityRings ==
  ASSUME IInv, RingsNow, NEW p \in Prio, RingSetRunningTaskPriority(p), ~fault'
  PROVE  RingsNow'
<1>1. PICK t : t = running_task
  OBVIOUS
<1>2. PICK a : a = ReadyQ(priority[t])
  OBVIOUS
<1>3. PICK b : b = ReadyQ(p)
  OBVIOUS
<1>4. SetRunningTaskPriority(p) /\ ~Fault
  BY DEF RingSetRunningTaskPriority, Fault
<1>5. /\ t \in Task /\ a \in Queue /\ queue[a] # <<>> /\ t = Head(queue[a])
      /\ priority[t] \in Prio
  BY <1>1, <1>2, <1>4, Facts DEF SetRunningTaskPriority, InTask
<1>6. /\ priority[t] # p
      /\ queue' \in [Queue -> Seq(Task)]
      /\ queue'[b] = Append(queue[b], t)
      /\ \A q \in Queue : q # a /\ q # b => queue'[q] = queue[q]
      /\ priority' \in [Task -> Prio]
      /\ selfLinked' = selfLinked \ {b}
  BY <1>1, <1>2, <1>3, <1>4, SetRunningTaskPriorityQueues
<1>7. b \in Queue /\ b \notin Mixed /\ a # b
  BY <1>2, <1>3, <1>5, <1>6, QueueNames, ReadyNotMixed
<1>8. a \notin selfLinked
  BY <1>1, <1>2, <1>4 DEF SetRunningTaskPriority
<1>9. queue'[a] = Tail(queue[a])
  <2>1. queue' = [queue EXCEPT ![a] = Tail(@), ![b] = Append(@, Head(queue[a]))]
    BY <1>1, <1>2, <1>3, <1>4, <1>8 DEF SetRunningTaskPriority
  <2>2. QED
    BY <1>5, <1>7, <2>1, Facts
<1>10. Shifted(queue, queue', a, b, Append(queue[b], t))
  BY <1>6, <1>9 DEF Shifted
<1>11. priority' \in [Task -> Nat]
  BY <1>6, PrioNat
<1>12. ShiftedRings(rings, a, b, t, priority', queue', selfLinked \ {b})
  BY <1>5, <1>6, <1>7, <1>8, <1>10, <1>11, ShiftToReady DEF RingsNow
<1>13. rings' = Enqueue(Dequeue(rings, a), b, t, priority', FALSE)
  BY <1>1, <1>2, <1>3, <1>12 DEF RingSetRunningTaskPriority, ShiftedRings
<1>14. QED
  BY <1>6, <1>12, <1>13 DEF RingsNow, ShiftedRings

LEMMA SetTaskPriorityRings ==
  ASSUME IInv, RingsNow, NEW q \in Queue, NEW i \in DOMAIN queue[q], NEW p \in Prio,
         RingSetTaskPriority(q, i, p), ~fault'
  PROVE  RingsNow'
<1>1. PICK t : t = queue[q][i]
  OBVIOUS
<1>2. PICK b : b = ReadyQ(p)
  OBVIOUS
<1>3. PICK M : M = Delete(queue, q, i)
  OBVIOUS
<1>4. SetTaskPriority(q, i, p) /\ ~Fault
  BY DEF RingSetTaskPriority, Fault
<1>5. /\ InTask /\ t # running_task /\ ~TornDelete(q, i) /\ q \in Prio \X {READY}
      /\ queue' = [M EXCEPT ![b] = Append(@, t)]
      /\ selfLinked' = LinksAfterDelete(q, i) \ {b}
  BY <1>1, <1>2, <1>3, <1>4 DEF SetTaskPriority
<1>6. queue' \in [Queue -> Seq(Task)] /\ priority' \in [Task -> Prio]
  BY <1>1, <1>4, SetTaskPriorityQueues
<1>7. PICK L : L = LinksAfterDelete(q, i)
  OBVIOUS
<1>8. PICK r : r = DeleteTask(rings, q, t)
  OBVIOUS
<1>9. /\ M \in [Queue -> Seq(Task)] /\ t \in Task /\ Absent(M, t) /\ RingState(r, M, L)
  BY <1>1, <1>3, <1>5, <1>7, <1>8, DeleteNow
<1>10. b \in Queue /\ b \notin Mixed
  BY <1>2, ReadyNotMixed
<1>11. Changed(M, queue', b, Append(M[b], t))
  BY <1>5, <1>9, <1>10 DEF Changed
<1>12. priority' \in [Task -> Nat]
  BY <1>6, PrioNat
<1>13. RingState(Enqueue(r, b, t, priority', FALSE), queue', L \ {b})
  BY <1>6, <1>9, <1>10, <1>11, <1>12, AppendRings
<1>14. rings' = Enqueue(r, b, t, priority', FALSE)
  BY <1>1, <1>2, <1>5, <1>8 DEF RingSetTaskPriority
<1>15. QED
  BY <1>5, <1>7, <1>13, <1>14 DEF RingsNow

(* nap() passes nap's "best guess" MIXEDPRIO to an empty queue only: the   *)
(* task at the head of any other already has it.                           *)
LEMMA NapRings ==
  ASSUME IInv, RingsNow, NEW q \in Queue, RingNap(q), ~fault'
  PROVE  RingsNow'
<1>1. PICK t : t = running_task
  OBVIOUS
<1>2. PICK a : a = ReadyQ(priority[t])
  OBVIOUS
<1>3. Nap(q) /\ ~Fault
  BY DEF RingNap, Fault
<1>4. /\ t \in Task /\ a \in Queue /\ queue[a] # <<>> /\ t = Head(queue[a])
      /\ priority[t] \in Prio
  BY <1>1, <1>2, <1>3, Facts DEF Nap, InTask
<1>5. PICK v : v = InsertAt(queue[q], InsertPos(queue[q], t), t)
  OBVIOUS
<1>6. /\ queue' \in [Queue -> Seq(Task)]
      /\ \A p \in Prio : q # ReadyQ(p)
      /\ queue'[q] = v
      /\ \A r \in Queue : r # a /\ r # q => queue'[r] = queue[r]
      /\ selfLinked' = selfLinked \ {q}
  BY <1>1, <1>2, <1>3, <1>5, NapQueues
<1>7. q # a /\ q \in Mixed
  BY <1>2, <1>4, <1>6, QueueNames DEF Mixed
<1>8. a \notin selfLinked /\ ~Displaces(q, t)
  BY <1>1, <1>2, <1>3, <1>4 DEF Nap
<1>9. queue'[a] = Tail(queue[a])
  <2>1. queue' = [queue EXCEPT ![a] = Tail(@), ![q] = EnqueueWaiting(@, t)]
    BY <1>1, <1>2, <1>3, <1>4, <1>8 DEF Nap
  <2>2. QED
    BY <1>4, <1>7, <2>1, Facts
<1>10. Shifted(queue, queue', a, q, v)
  BY <1>6, <1>9 DEF Shifted
<1>11. rings.head[a] = t
  BY <1>4, <1>7, <1>8, <1>10, Between DEF RingsNow
<1>12. PICK M \in [Queue -> Seq(Task)] :
         /\ RingState(Dequeue(rings, a), M, selfLinked) /\ Absent(M, t)
         /\ M[q] = queue[q] /\ Changed(M, queue', q, v)
  BY <1>4, <1>7, <1>8, <1>10, Between DEF RingsNow
<1>13. queue[q] \in Seq(Task) /\ priority \in [Task -> Prio] /\ priority \in [Task -> Nat]
  BY Facts, PrioNat
<1>14. PICK k \in 1 .. Len(queue[q]) + 1 :
         /\ k = InsertPos(queue[q], t)
         /\ k <= Len(queue[q]) => priority[t] < priority[queue[q][k]]
         /\ \A j \in 1 .. k - 1 : priority[queue[q][j]] <= priority[t]
  BY <1>4, <1>13, InsertPosFound
<1>15. ~(k = 1 /\ Len(queue[q]) = 1 /\ q \notin selfLinked)
  BY <1>8, <1>14 DEF Displaces
<1>16. rings.head[q] = NULL <=> queue[q] = <<>>
  <2>1. RingOf(rings, q, queue[q], selfLinked)
    BY DEF RingsNow, RingState, Rings
  <2>2. queue[q] # <<>> => queue[q][1] # NULL
    BY <1>13, NonEmpty, TaskmanAssumption
  <2>3. QED
    BY <2>1, <2>2 DEF RingOf
<1>17. PICK g : g = Dequeue(rings, a)
  OBVIOUS
<1>18. Place(g, q, M[q], t, priority, k)
  BY <1>7, <1>12, <1>14 DEF Place
<1>19. PICK m \in BOOLEAN : m = (rings.head[q] = NULL)
  OBVIOUS
<1>20. Enters(g, M, selfLinked, q, t, priority, m, k)
  BY <1>7, <1>12, <1>14, <1>15, <1>16, <1>18, <1>19 DEF Enters
<1>21. Changed(M, queue', q, InsertAt(M[q], k, t))
  BY <1>5, <1>12, <1>14
<1>22. RingState(Enqueue(g, q, t, priority, m), queue', selfLinked \ {q})
  BY <1>4, <1>6, <1>12, <1>13, <1>17, <1>20, <1>21, EnqueueRings
<1>23. rings' = Enqueue(g, q, t, priority, m)
  BY <1>1, <1>2, <1>11, <1>17, <1>19 DEF RingNap
<1>24. QED
  BY <1>6, <1>22, <1>23 DEF RingsNow

LEMMA TimerHandlerRings ==
  ASSUME IInv, RingsNow, RingTimerHandler
  PROVE  RingsNow'
<1>1. TimerHandler /\ selfLinked' = selfLinked
  BY DEF RingTimerHandler, TimerHandler
<1>2. CASE running_task # NULL /\ running_task \in timeshare
  <2>1. PICK a : a = ReadyQ(priority[running_task])
    OBVIOUS
  <2>2. /\ queue' \in [Queue -> Seq(Task)] /\ Unique(queue')
        /\ \A q \in Queue : q # a => queue'[q] = queue[q]
    BY <1>1, <1>2, <2>1, TimerHandlerQueues
  <2>3. a \in Queue /\ queue[a] # <<>>
    BY <1>2, <2>1, Facts
  <2>4. queue'[a] = Append(Tail(queue[a]), Head(queue[a]))
    BY <1>1, <1>2, <2>1, <2>3, Facts DEF TimerHandler
  <2>5. Changed(queue, queue', a, Append(Tail(queue[a]), Head(queue[a])))
    BY <2>2, <2>4 DEF Changed
  <2>6. RingState(Rotate(rings, a), queue', selfLinked)
    BY <2>2, <2>3, <2>5, RotateRings DEF RingsNow
  <2>7. rings' = Rotate(rings, a)
    BY <1>2, <2>1 DEF RingTimerHandler
  <2>8. QED
    BY <1>1, <2>6, <2>7 DEF RingsNow
<1>3. CASE ~(running_task # NULL /\ running_task \in timeshare)
  <2>1. queue' = queue /\ rings' = rings
    BY <1>1, <1>3 DEF TimerHandler, RingTimerHandler
  <2>2. QED
    BY <1>1, <2>1 DEF RingsNow
<1>4. QED
  BY <1>2, <1>3
-----------------------------------------------------------------------------
(* The inductive invariant: Taskman's, and the rings of every queue hold   *)
(* its sequence as long as there was no fault.                             *)
RInv == IInv /\ (~fault => RingsNow)

LEMMA RingInitInv == RingInit => RInv
<1> SUFFICES ASSUME RingInit PROVE RInv
  OBVIOUS
<1>1. IInv
  BY InitInv DEF RingInit
<1>2. PICK t \in Task, p \in Prio :
        /\ queue = [q \in Queue |-> IF q = ReadyQ(p) THEN <<t>> ELSE <<>>]
        /\ priority = [u \in Task |-> IF u = t THEN p ELSE 0]
        /\ running_task = t
  BY DEF RingInit, Init
<1>3. priority[t] = p /\ selfLinked = {}
  BY <1>2 DEF RingInit, Init
<1>4. PICK b : b = ReadyQ(p)
  OBVIOUS
<1>5. b \in Queue /\ b \notin Mixed
  BY <1>4, ReadyNotMixed
<1>6. rings = Enqueue(NoRings, b, t, priority, FALSE)
  BY <1>2, <1>3, <1>4 DEF RingInit
<1>7. PICK Q : Q = [q \in Queue |-> <<>>]
  OBVIOUS
<1>8. /\ Q \in [Queue -> Seq(Task)]
      /\ \A q \in Queue : Q[q] = <<>> /\ Len(Q[q]) = 0 /\ DOMAIN Q[q] = {}
      /\ \A q \in Queue : 1 .. Len(Q[q]) = {}
  <2>1. <<>> \in Seq(Task) /\ Len(<<>>) = 0 /\ DOMAIN <<>> = {} /\ 1 .. 0 = {}
    BY EmptySeq
  <2>2. QED
    BY <1>7, <2>1
<1>9. Unique(Q) /\ Absent(Q, t)
  BY <1>8 DEF Unique, Absent, Contains
<1>10. NoRings \in Links /\ \A q \in Queue : NoRings.head[q] = NULL
  BY DEF NoRings, Links
<1>11. Rings(NoRings, Q, {})
  <2>1. PICK r : r = NoRings
    OBVIOUS
  <2> SUFFICES ASSUME NEW q \in Queue PROVE RingOf(r, q, Q[q], {})
    BY <1>10, <2>1 DEF Rings
  <2>2. QED
    BY <1>8, <1>10, <2>1 DEF RingOf
<1>12. RingState(NoRings, Q, {})
  BY <1>8, <1>9, <1>11 DEF RingState
<1>13. queue \in [Queue -> Seq(Task)] /\ priority \in [Task -> Nat]
  BY <1>1, Facts, PrioNat
<1>14. Changed(Q, queue, b, Append(Q[b], t))
  <2>1. queue[b] = <<t>> /\ \A q \in Queue : q # b => queue[q] = <<>>
    BY <1>2, <1>4, <1>5
  <2>2. Append(<<>>, t) = <<t>>
    OBVIOUS
  <2>3. QED
    BY <1>5, <1>8, <2>1, <2>2 DEF Changed
<1>15. RingState(Enqueue(NoRings, b, t, priority, FALSE), queue, {} \ {b})
  BY <1>5, <1>9, <1>12, <1>13, <1>14, AppendRings
<1>16. selfLinked = {} \ {b}
  BY <1>3
<1>17. QED
  BY <1>1, <1>6, <1>15, <1>16 DEF RInv, RingsNow

LEMMA RingNextIsNext == RingNext => Next
BY DEF RingNext, Next, RingStartTask, RingTerminate, RingEndTask, RingNap, RingWake,
   RingSetRunningTaskPriority, RingSetTaskPriority, RingTimerHandler

LEMMA RingNextInv ==
  ASSUME InversionFree, RInv, [RingNext]_ringVars
  PROVE  RInv'
<1>1. IInv'
  <2>1. [Next]_vars
    BY RingNextIsNext DEF ringVars
  <2>2. QED
    BY <2>1, NextInv DEF RInv
<1>2. ASSUME ~fault', RingNext
      PROVE  RingsNow'
  <2>1. ~fault
    BY <1>2 DEF RingNext, RingStartTask, StartTask, InCode, RingTerminate, Terminate,
       RingEndTask, EndTask, RingNap, Nap, RingWake, Wake, RingSetRunningTaskPriority,
       SetRunningTaskPriority, RingSetTaskPriority, SetTaskPriority, SetTaskOptions,
       IrqEnter, RingTimerHandler, TimerHandler, IrqExit, InTask
  <2>2. IInv /\ RingsNow
    BY <2>1 DEF RInv
  <2>3. ASSUME NEW t \in Task, NEW p \in Prio, NEW share \in BOOLEAN,
               RingStartTask(t, p, share)
        PROVE  RingsNow'
    BY <2>2, <2>3, StartTaskRings
  <2>4. CASE RingTerminate
    BY <1>2, <2>2, <2>4, TerminateRings
  <2>5. ASSUME NEW q \in Queue, NEW i \in DOMAIN queue[q], RingEndTask(q, i)
        PROVE  RingsNow'
    BY <1>2, <2>2, <2>5, EndTaskRings
  <2>6. ASSUME NEW q \in Queue, RingNap(q)
        PROVE  RingsNow'
    BY <1>2, <2>2, <2>6, NapRings
  <2>7. ASSUME NEW q \in Queue, RingWake(q)
        PROVE  RingsNow'
    BY <1>2, <2>2, <2>7, WakeRings
  <2>8. ASSUME NEW p \in Prio, RingSetRunningTaskPriority(p)
        PROVE  RingsNow'
    BY <1>2, <2>2, <2>8, SetRunningTaskPriorityRings
  <2>9. ASSUME NEW q \in Queue, NEW i \in DOMAIN queue[q], NEW p \in Prio,
               RingSetTaskPriority(q, i, p)
        PROVE  RingsNow'
    BY <1>2, <2>2, <2>9, SetTaskPriorityRings
  <2>10. CASE RingTimerHandler
    BY <2>2, <2>10, TimerHandlerRings
  <2>11. ASSUME UNCHANGED <<queue, selfLinked, rings>>
         PROVE  RingsNow'
    BY <2>2, <2>11 DEF RingsNow
  <2>12. ASSUME NEW t \in Task, SetTaskOptions(t), UNCHANGED rings
         PROVE  RingsNow'
    BY <2>11, <2>12 DEF SetTaskOptions
  <2>13. ASSUME NEW timer \in BOOLEAN, IrqEnter(timer), UNCHANGED rings
         PROVE  RingsNow'
    BY <2>11, <2>13 DEF IrqEnter, taskVars
  <2>14. CASE IrqExit /\ UNCHANGED rings
    BY <2>11, <2>14 DEF IrqExit, taskVars
  <2>15. QED
    BY <1>2, <2>3, <2>4, <2>5, <2>6, <2>7, <2>8, <2>9, <2>10, <2>12, <2>13, <2>14
       DEF RingNext
<1>3. ASSUME ~fault', UNCHANGED ringVars
      PROVE  RingsNow'
  BY <1>3 DEF RInv, RingsNow, ringVars, vars, taskVars
<1>4. QED
  BY <1>1, <1>2, <1>3 DEF RInv

LEMMA RingsNowMatch ==
  ASSUME RingsNow, NEW q \in Queue
  PROVE  LET s == queue[q]
         IN /\ Walk(rings, q) = s
            /\ \A i \in DOMAIN s : rings.parent[s[i]] = q
            /\ Len(s) > 1 =>
                 \A i \in DOMAIN s :
                   rings.prev[s[i]] = IF i = 1 THEN s[Len(s)] ELSE s[i - 1]
            /\ Len(s) = 1 =>
                 /\ rings.next[s[1]] = rings.prev[s[1]]
                 /\ (rings.next[s[1]] # NULL) <=> q \in selfLinked
<1>1. PICK s : s = queue[q]
  OBVIOUS
<1>2. /\ queue \in [Queue -> Seq(Task)] /\ Unique(queue) /\ rings \in Links
      /\ RingOf(rings, q, s, selfLinked)
  BY <1>1 DEF RingsNow, RingState, Rings
<1>3. PICK n \in Nat : n = Len(s)
  BY <1>1, <1>2, InQueue
<1>4. s \in Seq(Task) /\ Distinct(s) /\ DOMAIN s = 1 .. n
      /\ \A i \in 1 .. n : s[i] \in Task /\ s[i] # NULL
  BY <1>1, <1>2, <1>3, InQueue
<1>5. Walk(rings, q) = s
  BY <1>2, <1>4, WalkIsRing
<1>6. \A i \in 1 .. n : rings.parent[s[i]] = q
  BY <1>2, <1>3 DEF RingOf
<1>7. ASSUME n > 1, NEW i \in 1 .. n
      PROVE  rings.prev[s[i]] = IF i = 1 THEN s[n] ELSE s[i-1]
  <2>1. /\ \A j \in 1 .. n - 1 : rings.prev[s[j+1]] = s[j]
        /\ rings.prev[s[1]] = s[n]
    BY <1>2, <1>3, <1>7 DEF RingOf, Cyclic
  <2>2. i # 1 => i - 1 \in 1 .. n - 1 /\ i - 1 + 1 = i
    BY <1>7
  <2>3. QED
    BY <2>1, <2>2
<1>8. ASSUME n = 1
      PROVE  /\ rings.next[s[1]] = rings.prev[s[1]]
             /\ (rings.next[s[1]] # NULL) <=> q \in selfLinked
  <2>1. CASE q \in selfLinked
    <3>1. Cyclic(rings, s)
      BY <1>2, <1>3, <1>8, <2>1 DEF RingOf
    <3>2. rings.next[s[1]] = s[1] /\ rings.prev[s[1]] = s[1]
      BY <1>3, <1>8, <3>1 DEF Cyclic
    <3>3. 1 \in 1 .. n
      BY <1>8
    <3>4. QED
      BY <1>4, <2>1, <3>2, <3>3
  <2>2. CASE q \notin selfLinked
    BY <1>2, <1>3, <1>8, <2>2 DEF RingOf
  <2>3. QED
    BY <2>1, <2>2
<1>9. QED
  BY <1>1, <1>3, <1>4, <1>5, <1>6, <1>7, <1>8

(* What enqueue_task, dequeue_task and delete_task do to the links is what *)
(* the sequences say, until one of the three calls that corrupt a queue:   *)
(* along next the tasks are met in order, along prev in reverse, no task   *)
(* of a queue is lost, and only a lone task may lack links.                *)
THEOREM RingsImplementQueues ==
  ASSUME InversionFree
  PROVE  RingSpec => []RingsMatch
<1>1. RInv /\ [RingNext]_ringVars => RInv'
  BY RingNextInv
<1>2. RInv => RingsMatch
  BY RingsNowMatch DEF RInv, RingsMatch
<1>3. QED
  BY <1>1, <1>2, RingInitInv, PTL DEF RingSpec
=============================================================================
