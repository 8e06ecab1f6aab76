--------------------------- MODULE TaskmanProofs ---------------------------
(***************************************************************************)
(* Proofs about the task manager, for every set of tasks and wait queues   *)
(* and any number of priority levels.  First what its queues hold and who  *)
(* runs; then what it does for its callers: wait queues stay sorted, a     *)
(* wakeup takes the best waiter, and the queues, the pending reschedule    *)
(* and the time slices together implement the scheduler of PrioSched.      *)
(***************************************************************************)
EXTENDS Taskman, ListLemmas

-----------------------------------------------------------------------------
(* Queues of which no task is on twice, as functions of the contents.      *)
Unique(Q) ==
  \A q, r \in Queue : \A i \in DOMAIN Q[q], j \in DOMAIN Q[r] :
    Q[q][i] = Q[r][j] => q = r /\ i = j
Absent(Q, t) == \A q \in Queue : ~Contains(Q[q], t)

(* From Q to R, t leaves the queue it was on, and every other task stays.  *)
Loses(Q, R, t) ==
  /\ Unique(R)
  /\ Absent(R, t)
  /\ \A p \in Queue : \A u : u # t => (Contains(R[p], u) <=> Contains(Q[p], u))
(* From Q to R, t gets on q, and every task stays.                         *)
Gains(Q, R, q, t) ==
  /\ Unique(R)
  /\ \A p \in Queue : \A u : Contains(R[p], u) <=> (u = t /\ p = q) \/ Contains(Q[p], u)

(* Taking the task at one position out leaves every other task where it    *)
(* was, and takes it out altogether.                                       *)
LEMMA RemovedOnce ==
  ASSUME NEW Q \in [Queue -> Seq(Task)], NEW R \in [Queue -> Seq(Task)],
         NEW q \in Queue, NEW i \in 1 .. Len(Q[q]), NEW h,
         Unique(Q), h = Q[q][i],
         R[q] = RemoveAt(Q[q], i),
         \A p \in Queue : p # q => R[p] = Q[p]
  PROVE  Loses(Q, R, h)
<1>0. \A p, r \in Queue : \A m \in DOMAIN Q[p], n \in DOMAIN Q[r] :
        Q[p][m] = Q[r][n] => p = r /\ m = n
  BY DEF Unique
<1>1. Q[q] \in Seq(Task)
  OBVIOUS
<1>2. /\ R[q] \in Seq(Task)
      /\ Len(R[q]) = Len(Q[q]) - 1
      /\ \A j \in 1 .. Len(Q[q]) - 1 : R[q][j] = IF j < i THEN Q[q][j] ELSE Q[q][j+1]
  BY <1>1, RemoveAtIsSeq
<1>3. \A p \in Queue : p # q => R[p] = Q[p]
  OBVIOUS
<1>5. Len(Q[q]) \in Nat /\ h \in Task
  BY <1>1, LenProperties, ElementOfSeq
<1>6. \A p \in Queue : /\ DOMAIN Q[p] = 1 .. Len(Q[p]) /\ Len(Q[p]) \in Nat
                       /\ DOMAIN R[p] = 1 .. Len(R[p]) /\ Len(R[p]) \in Nat
  BY LenProperties
<1> DEFINE old(p, j) == IF p = q /\ j >= i THEN j+1 ELSE j
<1>7. ASSUME NEW p \in Queue, NEW j \in DOMAIN R[p]
      PROVE  /\ old(p, j) \in DOMAIN Q[p]
             /\ R[p][j] = Q[p][old(p, j)]
             /\ p = q => old(p, j) # i
  <2>1. CASE p # q
    BY <1>3, <2>1
  <2>2. CASE p = q
    <3>1. j \in 1 .. Len(Q[q]) - 1
      BY <1>2, <1>6, <2>2
    <3>2. CASE j < i
      BY <1>2, <1>5, <1>6, <2>2, <3>1, <3>2
    <3>3. CASE ~(j < i)
      BY <1>2, <1>5, <1>6, <2>2, <3>1, <3>3
    <3>4. QED
      BY <3>2, <3>3
  <2>3. QED
    BY <2>1, <2>2
<1>8. Unique(R)
  <2> SUFFICES ASSUME NEW p \in Queue, NEW r \in Queue,
                      NEW j \in DOMAIN R[p], NEW k \in DOMAIN R[r],
                      R[p][j] = R[r][k]
               PROVE  p = r /\ j = k
    BY DEF Unique
  <2>1. p = r /\ old(p, j) = old(r, k)
    <3>1. old(p, j) \in DOMAIN Q[p] /\ R[p][j] = Q[p][old(p, j)]
      BY <1>7
    <3>2. old(r, k) \in DOMAIN Q[r] /\ R[r][k] = Q[r][old(r, k)]
      BY <1>7
    <3> HIDE DEF old
    <3>3. Q[p][old(p, j)] = Q[r][old(r, k)]
      BY <3>1, <3>2
    <3>4. QED
      BY <1>0, <3>1, <3>2, <3>3
  <2>2. j \in Nat /\ k \in Nat /\ i \in Nat
    BY <1>5, <1>6
  <2>3. QED
    BY <2>1, <2>2
<1>9. Absent(R, h)
  <2> SUFFICES ASSUME NEW p \in Queue, NEW j \in 1 .. Len(R[p]), R[p][j] = h
               PROVE  FALSE
    BY DEF Absent, Contains
  <2>1. /\ old(p, j) \in DOMAIN Q[p]
        /\ R[p][j] = Q[p][old(p, j)]
        /\ p = q => old(p, j) # i
    BY <1>6, <1>7
  <2> HIDE DEF old
  <2>2. i \in DOMAIN Q[q]
    BY <1>6
  <2>3. PICK k \in DOMAIN Q[p] : k = old(p, j)
    BY <2>1
  <2>4. Q[p][k] = Q[q][i]
    BY <2>1, <2>3
  <2>5. p = q /\ k = i
    BY <1>0, <2>2, <2>4
  <2>6. QED
    BY <2>1, <2>3, <2>5
<1>10. ASSUME NEW p \in Queue, NEW t, t # h
       PROVE  Contains(R[p], t) <=> Contains(Q[p], t)
  <2>1. ASSUME Contains(R[p], t) PROVE Contains(Q[p], t)
    <3>1. PICK j \in 1 .. Len(R[p]) : R[p][j] = t
      BY <2>1 DEF Contains
    <3>2. old(p, j) \in DOMAIN Q[p] /\ R[p][j] = Q[p][old(p, j)]
      BY <1>6, <1>7
    <3> HIDE DEF old
    <3>3. QED
      BY <1>6, <3>1, <3>2 DEF Contains
  <2>2. ASSUME Contains(Q[p], t) PROVE Contains(R[p], t)
    <3>1. PICK j \in 1 .. Len(Q[p]) : Q[p][j] = t
      BY <2>2 DEF Contains
    <3>2. CASE p # q
      BY <1>3, <2>2, <3>2
    <3>3. CASE p = q /\ j < i
      <4>1. j \in 1 .. Len(R[p])
        BY <1>2, <1>5, <3>3
      <4>2. R[p][j] = t
        BY <1>2, <3>1, <3>3, <4>1
      <4>3. QED
        BY <4>1, <4>2 DEF Contains
    <3>4. CASE p = q /\ ~(j < i)
      <4>1. j # i
        BY <1>10, <3>1, <3>4
      <4>2. j-1 \in 1 .. Len(R[p]) /\ ~(j-1 < i) /\ (j-1)+1 = j
        BY <1>2, <1>5, <3>4, <4>1
      <4>3. R[p][j-1] = t
        BY <1>2, <3>1, <3>4, <4>2
      <4>4. QED
        BY <4>2, <4>3 DEF Contains
    <3>5. QED
      BY <3>2, <3>3, <3>4
  <2>3. QED
    BY <2>1, <2>2
<1>11. QED
  BY <1>8, <1>9, <1>10 DEF Loses

(* Inserting a task that is on no queue puts it on exactly that one.       *)
LEMMA InsertedOnce ==
  ASSUME NEW Q \in [Queue -> Seq(Task)], NEW R \in [Queue -> Seq(Task)],
         NEW q \in Queue, NEW e \in Task, NEW i \in 1 .. Len(Q[q]) + 1,
         Unique(Q), Absent(Q, e),
         R[q] = InsertAt(Q[q], i, e),
         \A p \in Queue : p # q => R[p] = Q[p]
  PROVE  Gains(Q, R, q, e)
<1>0. \A p, r \in Queue : \A m \in DOMAIN Q[p], n \in DOMAIN Q[r] :
        Q[p][m] = Q[r][n] => p = r /\ m = n
  BY DEF Unique
<1>1. Q[q] \in Seq(Task)
  OBVIOUS
<1>2. /\ R[q] \in Seq(Task)
      /\ Len(R[q]) = Len(Q[q]) + 1
      /\ \A j \in 1 .. Len(Q[q]) + 1 :
           R[q][j] = IF j < i THEN Q[q][j] ELSE IF j = i THEN e ELSE Q[q][j-1]
  <2>1. PICK s \in Seq(Task) : s = Q[q]
    BY <1>1
  <2>2. i \in 1 .. Len(s) + 1
    BY <2>1
  <2>3. /\ InsertAt(s, i, e) \in Seq(Task)
        /\ Len(InsertAt(s, i, e)) = Len(s) + 1
        /\ \A j \in 1 .. Len(s) + 1 :
             InsertAt(s, i, e)[j] =
               IF j < i THEN s[j] ELSE IF j = i THEN e ELSE s[j-1]
    BY <2>2, InsertAtIsSeq
  <2>4. R[q] = InsertAt(s, i, e)
    BY <2>1
  <2>5. QED
    BY <2>1, <2>3, <2>4
<1>3. \A p \in Queue : p # q => R[p] = Q[p]
  OBVIOUS
<1>5. Len(Q[q]) \in Nat
  BY <1>1, LenProperties
<1>6. \A p \in Queue : /\ DOMAIN Q[p] = 1 .. Len(Q[p]) /\ Len(Q[p]) \in Nat
                       /\ DOMAIN R[p] = 1 .. Len(R[p]) /\ Len(R[p]) \in Nat
  BY LenProperties
<1>e. \A p \in Queue : \A j \in DOMAIN Q[p] : Q[p][j] # e
  BY <1>6 DEF Absent, Contains
<1> DEFINE old(p, j) == IF p = q /\ j > i THEN j-1 ELSE j
<1>7. ASSUME NEW p \in Queue, NEW j \in DOMAIN R[p], p # q \/ j # i
      PROVE  /\ old(p, j) \in DOMAIN Q[p]
             /\ R[p][j] = Q[p][old(p, j)]
  <2>1. CASE p # q
    BY <1>3, <2>1
  <2>2. CASE p = q
    <3>1. j \in 1 .. Len(Q[q]) + 1
      BY <1>2, <1>6, <2>2
    <3>2. CASE j < i
      BY <1>2, <1>5, <1>6, <2>2, <3>1, <3>2
    <3>3. CASE ~(j < i)
      BY <1>2, <1>5, <1>6, <1>7, <2>2, <3>1, <3>3
    <3>4. QED
      BY <3>2, <3>3
  <2>3. QED
    BY <2>1, <2>2
<1>8. i \in DOMAIN R[q] /\ R[q][i] = e
  BY <1>2, <1>5, <1>6
<1>9. ASSUME NEW p \in Queue, NEW j \in DOMAIN R[p]
      PROVE  R[p][j] = e <=> p = q /\ j = i
  <2>1. CASE p # q \/ j # i
    <3>1. old(p, j) \in DOMAIN Q[p] /\ R[p][j] = Q[p][old(p, j)]
      BY <1>7, <2>1
    <3> HIDE DEF old
    <3>2. R[p][j] # e
      BY <1>e, <3>1
    <3>3. QED
      BY <2>1, <3>2
  <2>2. QED
    BY <1>8, <2>1
<1>10. Unique(R)
  <2> SUFFICES ASSUME NEW p \in Queue, NEW r \in Queue,
                      NEW j \in DOMAIN R[p], NEW k \in DOMAIN R[r],
                      R[p][j] = R[r][k]
               PROVE  p = r /\ j = k
    BY DEF Unique
  <2>1. CASE R[p][j] = e
    BY <1>9, <2>1
  <2>2. CASE R[p][j] # e
    <3>0. (p # q \/ j # i) /\ (r # q \/ k # i)
      BY <1>9, <2>2
    <3>1. old(p, j) \in DOMAIN Q[p] /\ R[p][j] = Q[p][old(p, j)]
      BY <1>7, <3>0
    <3>2. old(r, k) \in DOMAIN Q[r] /\ R[r][k] = Q[r][old(r, k)]
      BY <1>7, <3>0
    <3>3. p = r /\ old(p, j) = old(r, k)
      <4> HIDE DEF old
      <4>1. Q[p][old(p, j)] = Q[r][old(r, k)]
        BY <3>1, <3>2
      <4>2. QED
        BY <1>0, <3>1, <3>2, <4>1
    <3>4. j \in Nat /\ k \in Nat /\ i \in Nat
      BY <1>5, <1>6
    <3>5. QED
      BY <3>0, <3>3, <3>4
  <2>3. QED
    BY <2>1, <2>2
<1>11. ASSUME NEW p \in Queue, NEW t
       PROVE  Contains(R[p], t) <=> (t = e /\ p = q) \/ Contains(Q[p], t)
  <2>1. ASSUME Contains(R[p], t) PROVE (t = e /\ p = q) \/ Contains(Q[p], t)
    <3>1. PICK j \in 1 .. Len(R[p]) : R[p][j] = t
      BY <2>1 DEF Contains
    <3>2. CASE p = q /\ j = i
      BY <1>8, <3>1, <3>2
    <3>3. CASE p # q \/ j # i
      <4>1. old(p, j) \in DOMAIN Q[p] /\ R[p][j] = Q[p][old(p, j)]
        BY <1>6, <1>7, <3>3
      <4> HIDE DEF old
      <4>2. QED
        BY <1>6, <3>1, <4>1 DEF Contains
    <3>4. QED
      BY <3>2, <3>3
  <2>2. ASSUME t = e, p = q PROVE Contains(R[p], t)
    BY <1>6, <1>8, <2>2 DEF Contains
  <2>3. ASSUME Contains(Q[p], t) PROVE Contains(R[p], t)
    <3>1. PICK j \in 1 .. Len(Q[p]) : Q[p][j] = t
      BY <2>3 DEF Contains
    <3>2. CASE p # q
      BY <1>3, <2>3, <3>2
    <3>3. CASE p = q /\ j < i
      <4>1. j \in 1 .. Len(R[p])
        BY <1>2, <1>5, <3>3
      <4>2. R[p][j] = t
        BY <1>2, <3>1, <3>3, <4>1
      <4>3. QED
        BY <4>1, <4>2 DEF Contains
    <3>4. CASE p = q /\ ~(j < i)
      <4>1. j+1 \in 1 .. Len(R[p]) /\ ~(j+1 < i) /\ j+1 # i /\ (j+1)-1 = j
        BY <1>2, <1>5, <3>4
      <4>2. R[p][j+1] = t
        BY <1>2, <3>1, <3>4, <4>1
      <4>3. QED
        BY <4>1, <4>2 DEF Contains
    <3>5. QED
      BY <3>2, <3>3, <3>4
  <2>4. QED
    BY <2>1, <2>2, <2>3
<1>12. QED
  BY <1>10, <1>11 DEF Gains
-----------------------------------------------------------------------------
(* The queue operations of the code, in terms of who is where.             *)

LEMMA QueueNames ==
  /\ \A p \in Prio : ReadyQ(p) \in Queue /\ <<p, WAITING>> \in Queue
  /\ \A p, r \in Prio : ReadyQ(p) = ReadyQ(r) => p = r
  /\ \A p, r \in Prio : <<p, WAITING>> # ReadyQ(r)
  /\ \A q \in Queue : (q \notin Prio \X {READY}) <=> \A p \in Prio : q # ReadyQ(p)
  /\ \A q \in WaitQ : q \in Queue /\ \A p \in Prio : q # ReadyQ(p)
  BY TaskmanAssumption DEF Queue, SysQ, ReadyQ, READY, WAITING

LEMMA NonEmpty ==
  ASSUME NEW s \in Seq(Task)
  PROVE  /\ s # <<>> => Contains(s, s[1]) /\ s[1] \in Task /\ Head(s) = s[1]
         /\ (\E t : Contains(s, t)) => s # <<>>
<1>1. Len(s) \in Nat
  BY LenProperties
<1>2. ASSUME s # <<>> PROVE Contains(s, s[1]) /\ s[1] \in Task /\ Head(s) = s[1]
  <2>1. 1 \in 1 .. Len(s)
    BY <1>2, TailIsRemoveAt
  <2>2. QED
    BY <1>2, <2>1, TailIsRemoveAt, ElementOfSeq DEF Contains
<1>3. ASSUME NEW t, Contains(s, t) PROVE s # <<>>
  <2>1. PICK i \in 1 .. Len(s) : s[i] = t
    BY <1>3 DEF Contains
  <2>2. Len(s) # 0
    BY <1>1, <2>1
  <2>3. QED
    BY <2>2, EmptySeq
<1>4. QED
  BY <1>2, <1>3

(* dequeue_task on a queue that is not self-linked.                        *)
LEMMA Dequeued ==
  ASSUME NEW Q \in [Queue -> Seq(Task)], NEW R \in [Queue -> Seq(Task)],
         NEW q \in Queue, NEW h,
         Unique(Q), Q[q] # <<>>, h = Head(Q[q]),
         R[q] = Tail(Q[q]),
         \A p \in Queue : p # q => R[p] = Q[p]
  PROVE  Loses(Q, R, h)
<1>1. Q[q] \in Seq(Task)
  OBVIOUS
<1>2. 1 \in 1 .. Len(Q[q]) /\ Tail(Q[q]) = RemoveAt(Q[q], 1) /\ h = Q[q][1]
  BY <1>1, TailIsRemoveAt
<1>3. PICK i \in 1 .. Len(Q[q]) : i = 1
  BY <1>2
<1>4. R[q] = RemoveAt(Q[q], i) /\ h = Q[q][i]
  BY <1>2, <1>3
<1>5. QED
  BY <1>4, RemovedOnce

(* enqueue_task on a system queue.                                         *)
LEMMA Appended ==
  ASSUME NEW Q \in [Queue -> Seq(Task)], NEW R \in [Queue -> Seq(Task)],
         NEW q \in Queue, NEW e \in Task,
         Unique(Q), Absent(Q, e),
         R[q] = Append(Q[q], e),
         \A p \in Queue : p # q => R[p] = Q[p]
  PROVE  Gains(Q, R, q, e)
<1>1. Q[q] \in Seq(Task) /\ Len(Q[q]) \in Nat
  BY LenProperties
<1>2. Len(Q[q]) + 1 \in 1 .. Len(Q[q]) + 1 /\ Append(Q[q], e) = InsertAt(Q[q], Len(Q[q]) + 1, e)
  BY <1>1, AppendIsInsertAt
<1>3. PICK k \in 1 .. Len(Q[q]) + 1 : k = Len(Q[q]) + 1
  BY <1>2
<1>4. R[q] = InsertAt(Q[q], k, e)
  BY <1>2, <1>3
<1>5. QED
  BY <1>4, InsertedOnce

(* Appending changes the head of an empty queue only.                      *)
LEMMA AppendHead ==
  ASSUME NEW s \in Seq(Task), NEW e \in Task
  PROVE  /\ Append(s, e) \in Seq(Task) /\ Append(s, e) # <<>>
         /\ s # <<>> => Append(s, e)[1] = s[1]
         /\ s = <<>> => Append(s, e)[1] = e
<1>1. /\ Append(s, e) \in Seq(Task) /\ Len(Append(s, e)) = Len(s) + 1
      /\ \A j \in 1 .. Len(s) : Append(s, e)[j] = s[j]
      /\ Append(s, e)[Len(s)+1] = e
  BY AppendProperties
<1>2. Len(s) \in Nat /\ (s = <<>> <=> Len(s) = 0)
  BY LenProperties, EmptySeq
<1>3. Append(s, e) # <<>>
  BY <1>1, <1>2, EmptySeq
<1>4. QED
  BY <1>1, <1>2, <1>3

(* Deleting from behind the head keeps it.                                 *)
LEMMA RemoveKeepsHead ==
  ASSUME NEW s \in Seq(Task), NEW i \in 1 .. Len(s), i # 1
  PROVE  RemoveAt(s, i) # <<>> /\ RemoveAt(s, i)[1] = s[1]
<1>1. /\ RemoveAt(s, i) \in Seq(Task) /\ Len(RemoveAt(s, i)) = Len(s) - 1
      /\ \A j \in 1 .. Len(s) - 1 :
           RemoveAt(s, i)[j] = IF j < i THEN s[j] ELSE s[j+1]
  BY RemoveAtIsSeq
<1>2. Len(s) \in Nat
  BY LenProperties
<1>3. 1 \in 1 .. Len(s) - 1 /\ 1 < i /\ Len(s) - 1 # 0
  BY <1>2
<1>4. RemoveAt(s, i)[1] = s[1]
  BY <1>1, <1>3
<1>5. QED
  BY <1>1, <1>3, <1>4, EmptySeq

(* There is a place for a task on a wait queue: before the first task of a *)
(* worse priority.                                                         *)
LEMMA InsertPosFound ==
  ASSUME NEW s \in Seq(Task), NEW t \in Task, priority \in [Task -> Prio]
  PROVE  /\ InsertPos(s, t) \in 1 .. Len(s) + 1
         /\ InsertPos(s, t) <= Len(s) => priority[t] < priority[s[InsertPos(s, t)]]
         /\ \A j \in 1 .. InsertPos(s, t) - 1 : priority[s[j]] <= priority[t]
<1> DEFINE later == {i \in 1 .. Len(s) + 1 : i <= Len(s) => priority[t] < priority[s[i]]}
<1>1. Len(s) \in Nat
  BY LenProperties
<1>2. Len(s) + 1 \in later
  BY <1>1
<1>3. PICK i \in later : \A j \in later : i <= j
  <2>1. later \subseteq Nat /\ later # {}
    BY <1>1, <1>2
  <2> HIDE DEF later
  <2>2. QED
    BY <2>1, LeastNatural
<1>4. \A j \in 1 .. i-1 : j \in 1 .. Len(s) + 1 /\ j <= Len(s) /\ ~(i <= j)
  BY <1>1
<1>5. \A j \in 1 .. i-1 : ~(priority[t] < priority[s[j]])
  BY <1>3, <1>4
<1>6. \A j \in 1 .. i-1 : priority[s[j]] \in Nat /\ priority[t] \in Nat
  BY <1>1, <1>4, ElementOfSeq, TaskmanAssumption DEF Prio
<1>7. \A j \in 1 .. i-1 : priority[s[j]] <= priority[t]
  BY <1>5, <1>6
<1>8. i \in 1 .. Len(s) + 1 /\ (i <= Len(s) => priority[t] < priority[s[i]])
  OBVIOUS
<1> DEFINE P(n) == /\ n <= Len(s) => priority[t] < priority[s[n]]
                   /\ \A j \in 1 .. n - 1 : priority[s[j]] <= priority[t]
<1>9. \E n \in 1 .. Len(s) + 1 : P(n)
  BY <1>7, <1>8
<1>10. InsertPos(s, t) = CHOOSE n \in 1 .. Len(s) + 1 : P(n)
  BY DEF InsertPos
<1>11. InsertPos(s, t) \in 1 .. Len(s) + 1 /\ P(InsertPos(s, t))
  <2> HIDE DEF P
  <2>1. QED
    BY <1>9, <1>10
<1>12. QED
  BY <1>11

(* reschedule's scan finds the head of the best level from bound on.       *)
LEMMA FirstReadyIsBest ==
  ASSUME NEW Q \in [Queue -> Seq(Task)], NEW b \in Nat
  PROVE  \/ /\ FirstReady(Q, b) = NULL
            /\ \A p \in Prio : p >= b => Q[ReadyQ(p)] = <<>>
         \/ \E p \in Prio :
              /\ p >= b /\ Q[ReadyQ(p)] # <<>>
              /\ FirstReady(Q, b) = Head(Q[ReadyQ(p)])
              /\ \A r \in Prio : r >= b /\ Q[ReadyQ(r)] # <<>> => p <= r
<1> DEFINE busy == {p \in Prio : p >= b /\ Q[ReadyQ(p)] # <<>>}
           P(p) == /\ p >= b /\ Q[ReadyQ(p)] # <<>>
                   /\ \A r \in Prio : r >= b /\ Q[ReadyQ(r)] # <<>> => p <= r
<1>1. CASE busy = {}
  BY <1>1 DEF FirstReady
<1>2. CASE busy # {}
  <2>1. busy \subseteq Nat
    BY TaskmanAssumption DEF Prio
  <2>2. PICK p \in busy : \A r \in busy : p <= r
    BY <1>2, <2>1, LeastNatural
  <2>3. p \in Prio /\ P(p)
    BY <2>2
  <2>4. FirstReady(Q, b) = Head(Q[ReadyQ(CHOOSE x \in Prio : P(x))])
    BY <1>2 DEF FirstReady
  <2> DEFINE c == CHOOSE x \in Prio : P(x)
  <2>5. c \in Prio /\ P(c)
    <3> HIDE DEF P
    <3>1. QED
      BY <2>3
  <2>6. QED
    BY <2>4, <2>5
<1>3. QED
  BY <1>1, <1>2
-----------------------------------------------------------------------------
(* The inductive invariant, in three parts: where the tasks are, who has   *)
(* the CPU, and the rest.                                                  *)

(* A reschedule is pending only while an interrupt is handled, and never   *)
(* from a level worse than the interrupted task's.                         *)
PendingBound ==
  pending => /\ running_irq
             /\ running_task # NULL => pending_priority <= priority[running_task]

QueuesOK ==
  /\ queue \in [Queue -> Seq(Task)]
  /\ priority \in [Task -> Prio]
  /\ Unique(queue)
  /\ LevelsMatch

CpuOK ==
  /\ running_task \in Task \cup {NULL}
  /\ pending \in BOOLEAN
  /\ pending_priority \in 0 .. NumPriorityLevels
  /\ RunningIsHead
  /\ TopPriorityRuns
  /\ PendingCoversReady
  /\ PendingBound

RestOK ==
  /\ selfLinked \in SUBSET Queue
  /\ timeshare \in SUBSET Task
  /\ irqs_off \in SUBSET Task
  /\ running_irq \in BOOLEAN
  /\ slice_due \in BOOLEAN
  /\ slice_due => running_irq
  /\ fault \in BOOLEAN

IInv == QueuesOK /\ CpuOK /\ RestOK

(* f is the head of the best ready queue of Q, or nothing is ready.        *)
Dispatched(Q, prio, f) ==
  /\ f \in Task \cup {NULL}
  /\ f # NULL => /\ Contains(Q[ReadyQ(prio[f])], f)
                 /\ Q[ReadyQ(prio[f])][1] = f
  /\ \A t \in Task : Contains(Q[ReadyQ(prio[t])], t) =>
       f # NULL /\ prio[f] <= prio[t]

LEMMA PrioIsNat ==
  Prio \subseteq Nat /\ 0 \in Prio /\ \A p \in Prio : p \in 0 .. NumPriorityLevels
  BY TaskmanAssumption DEF Prio

(* reschedule's scan dispatches rightly when nothing ready is better than  *)
(* the level it starts from.                                               *)
LEMMA ScanDispatches ==
  ASSUME NEW Q \in [Queue -> Seq(Task)], NEW prio \in [Task -> Prio], NEW b \in Nat,
         \A p \in Prio, t \in Task : Contains(Q[ReadyQ(p)], t) => prio[t] = p,
         \A t \in Task : Contains(Q[ReadyQ(prio[t])], t) => b <= prio[t]
  PROVE  Dispatched(Q, prio, FirstReady(Q, b))
<1> DEFINE f == FirstReady(Q, b)
<1>1. \A t \in Task : Contains(Q[ReadyQ(prio[t])], t) =>
        prio[t] \in Prio /\ prio[t] >= b /\ Q[ReadyQ(prio[t])] # <<>>
  <2> SUFFICES ASSUME NEW t \in Task, Contains(Q[ReadyQ(prio[t])], t)
               PROVE  prio[t] \in Prio /\ prio[t] >= b /\ Q[ReadyQ(prio[t])] # <<>>
    OBVIOUS
  <2>1. prio[t] \in Prio /\ prio[t] \in Nat /\ b <= prio[t]
    BY PrioIsNat
  <2>2. Q[ReadyQ(prio[t])] \in Seq(Task)
    BY <2>1, QueueNames
  <2>3. QED
    BY <2>1, <2>2, NonEmpty
<1>2. CASE f = NULL /\ \A p \in Prio : p >= b => Q[ReadyQ(p)] = <<>>
  BY <1>1, <1>2 DEF Dispatched
<1>3. CASE \E p \in Prio :
              /\ p >= b /\ Q[ReadyQ(p)] # <<>>
              /\ f = Head(Q[ReadyQ(p)])
              /\ \A r \in Prio : r >= b /\ Q[ReadyQ(r)] # <<>> => p <= r
  <2>1. PICK p \in Prio :
              /\ p >= b /\ Q[ReadyQ(p)] # <<>>
              /\ f = Head(Q[ReadyQ(p)])
              /\ \A r \in Prio : r >= b /\ Q[ReadyQ(r)] # <<>> => p <= r
    BY <1>3
  <2> HIDE DEF f
  <2>2. Q[ReadyQ(p)] \in Seq(Task)
    BY QueueNames
  <2>3. f \in Task /\ f = Q[ReadyQ(p)][1] /\ Contains(Q[ReadyQ(p)], f)
    BY <2>1, <2>2, NonEmpty
  <2>4. prio[f] = p /\ f # NULL
    BY <2>3, TaskmanAssumption
  <2>5. Dispatched(Q, prio, f)
    BY <1>1, <2>1, <2>3, <2>4 DEF Dispatched
  <2>6. QED
    BY <2>5 DEF f
<1>4. QED
  BY <1>2, <1>3, FirstReadyIsBest

(* A reschedule outside a handler.                                         *)
LEMMA RescheduleNow ==
  ASSUME QueuesOK', NEW b \in Prio, Reschedule(b), ~running_irq, ~running_irq',
         \A t \in Task : Ready(t)' => b <= priority'[t]
  PROVE  CpuOK'
<1>1. /\ queue' \in [Queue -> Seq(Task)] /\ priority' \in [Task -> Prio]
      /\ \A p \in Prio, t \in Task : Contains(queue'[ReadyQ(p)], t) => priority'[t] = p
      /\ \A t \in Task : Contains(queue'[ReadyQ(priority'[t])], t) => b <= priority'[t]
      /\ b \in Nat
  BY PrioIsNat DEF QueuesOK, LevelsMatch, Ready, ReadyQ
<1>2. Dispatched(queue', priority', FirstReady(queue', b))
  BY <1>1, ScanDispatches
<1>3. /\ running_task' = FirstReady(queue', b)
      /\ pending' = FALSE
      /\ pending_priority' = NumPriorityLevels
  BY DEF Reschedule
<1>4. pending_priority' \in 0 .. NumPriorityLevels
  BY <1>3, TaskmanAssumption
<1>5. Dispatched(queue', priority', running_task')
  BY <1>2, <1>3
<1>6. QED
  BY <1>3, <1>4, <1>5 DEF CpuOK, Dispatched, RunningIsHead, TopPriorityRuns,
     PendingCoversReady, PendingBound, Ready, ReadyQ

(* A reschedule by a handler is pending from b or a better level.          *)
LEMMA RescheduleLater ==
  ASSUME QueuesOK, QueuesOK', CpuOK, NEW b \in Prio, Reschedule(b), running_irq, running_irq',
         running_task # NULL => /\ b <= priority[running_task]
                                /\ priority'[running_task] = priority[running_task]
                                /\ Contains(queue'[ReadyQ(priority[running_task])], running_task),
         \A t \in Task : Ready(t)' =>
           (Ready(t) /\ priority'[t] = priority[t]) \/ b <= priority'[t]
  PROVE  CpuOK'
<1>1. /\ pending' = TRUE
      /\ pending_priority' = IF b < pending_priority THEN b ELSE pending_priority
      /\ running_task' = running_task
  BY DEF Reschedule
<1>2. /\ b \in Nat /\ b \in 0 .. NumPriorityLevels
      /\ pending_priority \in Nat /\ pending_priority \in 0 .. NumPriorityLevels
  BY PrioIsNat, TaskmanAssumption DEF CpuOK
<1>3. /\ pending_priority' \in 0 .. NumPriorityLevels /\ pending_priority' \in Nat
      /\ pending_priority' <= b /\ pending_priority' <= pending_priority
  BY <1>1, <1>2
<1>4. \A t \in Task : priority[t] \in Nat /\ priority'[t] \in Nat
  BY PrioIsNat DEF QueuesOK
<1>5. running_task # NULL => running_task \in Task
  BY DEF CpuOK
<1>6. \A t \in Task : Ready(t)' /\ (running_task = NULL \/ priority'[t] < priority'[running_task])
         => pending_priority' <= priority'[t]
  <2> SUFFICES ASSUME NEW t \in Task, Ready(t)',
                      running_task = NULL \/ priority'[t] < priority'[running_task]
               PROVE  pending_priority' <= priority'[t]
    OBVIOUS
  <2>1. CASE b <= priority'[t]
    BY <1>2, <1>3, <1>4, <2>1
  <2>2. CASE Ready(t) /\ priority'[t] = priority[t]
    <3>1. pending_priority <= priority[t]
      BY <1>5, <2>2 DEF CpuOK, PendingCoversReady
    <3>2. QED
      BY <1>2, <1>3, <1>4, <2>2, <3>1
  <2>3. QED
    BY <2>1, <2>2
<1>7. running_task # NULL => pending_priority' <= priority'[running_task]
  BY <1>2, <1>3, <1>4, <1>5
<1>8. PendingCoversReady'
  BY <1>1, <1>6, <1>7 DEF PendingCoversReady
<1>9. RunningIsHead'
  BY <1>1 DEF RunningIsHead, Ready, ReadyQ
<1>10. QED
  BY <1>1, <1>3, <1>7, <1>8, <1>9 DEF CpuOK, TopPriorityRuns, PendingBound

(* The running task stays in place, and who becomes ready or changes its   *)
(* priority does not outrank it: no reschedule is needed.                  *)
LEMMA StillRunning ==
  ASSUME QueuesOK, QueuesOK', CpuOK, NoReschedule, running_irq' = running_irq,
         running_task # NULL,
         priority'[running_task] = priority[running_task],
         Contains(queue'[ReadyQ(priority[running_task])], running_task),
         queue'[ReadyQ(priority[running_task])][1] = queue[ReadyQ(priority[running_task])][1],
         \A t \in Task : Ready(t)' => \/ Ready(t) /\ priority'[t] = priority[t]
                                      \/ priority[running_task] <= priority'[t]
  PROVE  CpuOK'
<1>1. /\ running_task' = running_task /\ pending' = pending
      /\ pending_priority' = pending_priority
      /\ running_task \in Task
  BY DEF NoReschedule, pendVars, CpuOK
<1>2. \A t \in Task : priority[t] \in Nat /\ priority'[t] \in Nat
  BY PrioIsNat DEF QueuesOK
<1>3. RunningIsHead'
  BY <1>1 DEF RunningIsHead, CpuOK, Ready, ReadyQ
<1>4. TopPriorityRuns'
  BY <1>1 DEF TopPriorityRuns, CpuOK, Ready
<1>5. ASSUME running_irq, NEW t \in Task, Ready(t)', priority'[t] < priority'[running_task]
      PROVE  pending /\ pending_priority <= priority'[t]
  <2>1. ~(priority[running_task] <= priority'[t])
    BY <1>1, <1>2, <1>5
  <2>2. Ready(t) /\ priority'[t] = priority[t]
    BY <1>5, <2>1
  <2>3. QED
    BY <1>5, <2>2 DEF CpuOK, PendingCoversReady
<1>6. PendingCoversReady'
  BY <1>1, <1>5 DEF PendingCoversReady, CpuOK, ReadyQ
<1>7. QED
  BY <1>1, <1>3, <1>4, <1>6 DEF CpuOK, PendingBound
-----------------------------------------------------------------------------
(* Every action preserves the invariant.                                   *)

(* Where the running task and the ready ones are, read off the invariant.  *)
LEMMA Facts ==
  ASSUME IInv
  PROVE  /\ queue \in [Queue -> Seq(Task)] /\ priority \in [Task -> Prio]
         /\ Unique(queue)
         /\ \A p \in Prio, t \in Task : Contains(queue[ReadyQ(p)], t) => priority[t] = p
         /\ \A t \in Task : priority[t] \in Nat /\ priority[t] \in Prio /\ t # NULL
         /\ running_task # NULL =>
              /\ running_task \in Task
              /\ ReadyQ(priority[running_task]) \in Queue
              /\ Contains(queue[ReadyQ(priority[running_task])], running_task)
              /\ queue[ReadyQ(priority[running_task])] # <<>>
         /\ running_task # NULL /\ ~running_irq =>
              /\ Head(queue[ReadyQ(priority[running_task])]) = running_task
              /\ queue[ReadyQ(priority[running_task])][1] = running_task
              /\ \A t \in Task : Ready(t) => priority[running_task] <= priority[t]
         /\ \A q \in Queue : queue[q] \in Seq(Task)
<1>1. /\ queue \in [Queue -> Seq(Task)] /\ priority \in [Task -> Prio]
      /\ Unique(queue) /\ LevelsMatch
      /\ running_task \in Task \cup {NULL} /\ RunningIsHead /\ TopPriorityRuns
  BY DEF IInv, QueuesOK, CpuOK
<1>2. \A t \in Task : priority[t] \in Nat /\ priority[t] \in Prio /\ t # NULL
  BY <1>1, PrioIsNat, TaskmanAssumption
<1>3. running_task # NULL =>
              /\ running_task \in Task
              /\ ReadyQ(priority[running_task]) \in Queue
              /\ Contains(queue[ReadyQ(priority[running_task])], running_task)
  BY <1>1, <1>2, QueueNames DEF RunningIsHead, Ready
<1>4. running_task # NULL => queue[ReadyQ(priority[running_task])] \in Seq(Task)
  BY <1>1, <1>3
<1>5. running_task # NULL => queue[ReadyQ(priority[running_task])] # <<>>
  BY <1>3, <1>4, NonEmpty
<1>6. running_task # NULL /\ ~running_irq =>
         queue[ReadyQ(priority[running_task])][1] = running_task
  BY <1>1 DEF RunningIsHead
<1>7. running_task # NULL /\ ~running_irq =>
         Head(queue[ReadyQ(priority[running_task])]) = running_task
  BY <1>4, <1>5, <1>6, NonEmpty
<1>8. running_task # NULL /\ ~running_irq =>
         \A t \in Task : Ready(t) => priority[running_task] <= priority[t]
  BY <1>1 DEF TopPriorityRuns
<1>9. QED
  BY <1>1, <1>2, <1>3, <1>5, <1>6, <1>7, <1>8 DEF LevelsMatch

(* start_task() appends a task that is on no queue.                        *)
LEMMA StartTaskQueues ==
  ASSUME IInv, NEW t \in Task, NEW p \in Prio, NEW share \in BOOLEAN,
         StartTask(t, p, share)
  PROVE  /\ queue' \in [Queue -> Seq(Task)]
         /\ Absent(queue, t)
         /\ Gains(queue, queue', ReadyQ(p), t)
         /\ \A q \in Queue : q # ReadyQ(p) => queue'[q] = queue[q]
         /\ priority' \in [Task -> Prio] /\ priority'[t] = p
         /\ \A u \in Task : u # t => priority'[u] = priority[u]
         /\ running_task # NULL =>
              /\ running_task # t
              /\ queue'[ReadyQ(priority[running_task])][1]
                   = queue[ReadyQ(priority[running_task])][1]
<1> DEFINE rq == ReadyQ(p)
<1>1. rq \in Queue /\ \A r \in Prio : ReadyQ(r) = rq <=> r = p
  BY QueueNames
<1> HIDE DEF rq
<1>2. /\ queue' = [queue EXCEPT ![rq] = Append(@, t)]
      /\ priority' = [priority EXCEPT ![t] = p]
      /\ selfLinked' = selfLinked \ {rq}
  BY DEF StartTask, rq
<1>3. /\ queue[rq] \in Seq(Task) /\ queue'[rq] = Append(queue[rq], t)
      /\ \A q \in Queue : q # rq => queue'[q] = queue[q]
  BY <1>1, <1>2, Facts
<1>4. queue' \in [Queue -> Seq(Task)]
  BY <1>1, <1>2, <1>3, Facts, AppendHead
<1>5. Absent(queue, t)
  BY DEF StartTask, Queued, Absent
<1>6. Gains(queue, queue', rq, t)
  <2>1. queue \in [Queue -> Seq(Task)] /\ Unique(queue)
    BY Facts
  <2>2. QED
    BY <1>1, <1>3, <1>4, <1>5, <2>1, Appended
<1>7. \A u \in Task : u # t => priority'[u] = priority[u]
  BY <1>2, Facts
<1>8. priority'[t] = p /\ priority' \in [Task -> Prio]
  BY <1>2, Facts
<1>9. ASSUME running_task # NULL
      PROVE  /\ running_task # t
             /\ queue'[ReadyQ(priority[running_task])][1]
                  = queue[ReadyQ(priority[running_task])][1]
  <2> DEFINE c == ReadyQ(priority[running_task])
  <2>1. /\ c \in Queue /\ Contains(queue[c], running_task) /\ queue[c] # <<>>
    BY <1>9, Facts
  <2> HIDE DEF c
  <2>2. running_task # t
    BY <1>5, <2>1 DEF Absent
  <2>3. queue'[c][1] = queue[c][1]
    BY <1>3, <2>1, AppendHead
  <2>4. QED
    BY <2>2, <2>3 DEF c
<1>10. QED
  BY <1>3, <1>4, <1>5, <1>6, <1>7, <1>8, <1>9 DEF rq

LEMMA StartTaskInv ==
  ASSUME IInv, NEW t \in Task, NEW p \in Prio, NEW share \in BOOLEAN,
         StartTask(t, p, share)
  PROVE  IInv'
<1>4. queue' \in [Queue -> Seq(Task)] /\ Absent(queue, t)
  BY StartTaskQueues
<1>6. Gains(queue, queue', ReadyQ(p), t)
  BY StartTaskQueues
<1>7. \A u \in Task : u # t => priority'[u] = priority[u]
  BY StartTaskQueues
<1>8. priority' \in [Task -> Prio] /\ priority'[t] = p
  BY StartTaskQueues
<1>9. ASSUME NEW r \in Prio, NEW u \in Task, Contains(queue'[ReadyQ(r)], u)
      PROVE  \/ u = t /\ r = p
             \/ u # t /\ Contains(queue[ReadyQ(r)], u)
  <2>1. ReadyQ(r) \in Queue /\ (ReadyQ(r) = ReadyQ(p) => r = p)
    BY QueueNames
  <2>2. (u = t /\ ReadyQ(r) = ReadyQ(p)) \/ Contains(queue[ReadyQ(r)], u)
    BY <1>6, <1>9, <2>1 DEF Gains
  <2>3. ~Contains(queue[ReadyQ(r)], t)
    BY <1>4, <2>1 DEF Absent
  <2>4. QED
    BY <2>1, <2>2, <2>3
<1>10. QueuesOK'
  BY <1>4, <1>6, <1>7, <1>8, <1>9, Facts DEF QueuesOK, LevelsMatch, Gains, ReadyQ
<1>11. \A u \in Task : Ready(u)' => \/ u = t
                                    \/ u # t /\ Ready(u) /\ priority'[u] = priority[u]
  BY <1>7, <1>8, <1>9 DEF Ready, ReadyQ
<1>12. running_task # NULL =>
         /\ running_task \in Task /\ running_task # t
         /\ priority'[running_task] = priority[running_task]
         /\ Contains(queue'[ReadyQ(priority[running_task])], running_task)
         /\ queue'[ReadyQ(priority[running_task])][1]
              = queue[ReadyQ(priority[running_task])][1]
  <2>1. running_task # NULL =>
         /\ running_task \in Task /\ ReadyQ(priority[running_task]) \in Queue
         /\ Contains(queue[ReadyQ(priority[running_task])], running_task)
    BY Facts
  <2>2. running_task # NULL =>
          Contains(queue'[ReadyQ(priority[running_task])], running_task)
    BY <1>6, <2>1 DEF Gains
  <2>3. QED
    BY <1>7, <2>1, <2>2, StartTaskQueues
<1>14. running_irq' = running_irq /\ slice_due' = slice_due /\ fault' = fault
  BY DEF StartTask, irqVars
<1>15. CpuOK'
  <2>0. CpuOK /\ QueuesOK /\ p \in Nat
    BY PrioIsNat DEF IInv
  <2>1. CASE running_task = NULL \/ p < priority[running_task]
    <3>1. Reschedule(p)
      BY <2>1 DEF StartTask
    <3>2. CASE running_irq
      <4>1. \A u \in Task : Ready(u)' =>
              (Ready(u) /\ priority'[u] = priority[u]) \/ p <= priority'[u]
        BY <1>8, <1>11, <2>0
      <4>2. running_task # NULL => p <= priority[running_task]
        BY <2>0, <2>1, Facts
      <4>3. QED
        BY <1>10, <1>12, <1>14, <2>0, <3>1, <3>2, <4>1, <4>2, RescheduleLater
    <3>3. CASE ~running_irq
      <4>1. \A u \in Task : Ready(u) => p <= priority[u]
        <5> SUFFICES ASSUME NEW u \in Task, Ready(u) PROVE p <= priority[u]
          OBVIOUS
        <5>1. running_task # NULL /\ priority[running_task] <= priority[u]
          BY <2>0, <3>3 DEF CpuOK, TopPriorityRuns
        <5>2. priority[running_task] \in Nat /\ priority[u] \in Nat
          BY <5>1, Facts
        <5>3. QED
          BY <2>0, <2>1, <5>1, <5>2
      <4>2. \A u \in Task : Ready(u)' => p <= priority'[u]
        BY <1>8, <1>11, <2>0, <4>1
      <4>3. QED
        BY <1>10, <1>14, <3>1, <3>3, <4>2, RescheduleNow
    <3>4. QED
      BY <3>2, <3>3
  <2>2. CASE ~(running_task = NULL \/ p < priority[running_task])
    <3>1. NoReschedule /\ running_task # NULL
      BY <2>2 DEF StartTask
    <3>2. priority[running_task] <= p
      BY <2>0, <2>2, Facts
    <3>3. \A u \in Task : Ready(u)' => \/ Ready(u) /\ priority'[u] = priority[u]
                                       \/ priority[running_task] <= priority'[u]
      BY <1>8, <1>11, <3>2
    <3>4. QED
      BY <1>10, <1>12, <1>14, <2>0, <3>1, <3>3, StillRunning
  <2>3. QED
    BY <2>1, <2>2
<1>16. RestOK'
  BY <1>14 DEF IInv, RestOK, StartTask
<1>17. QED
  BY <1>10, <1>15, <1>16 DEF IInv

(* A step that only faults leaves the invariant as it is.                  *)
LEMMA FaultInv ==
  ASSUME IInv, Fault
  PROVE  IInv'
<1>1. /\ UNCHANGED <<queue, priority, selfLinked, timeshare, irqs_off, running_task>>
      /\ UNCHANGED <<running_irq, slice_due, pending, pending_priority>>
      /\ fault' = TRUE
  BY DEF Fault, taskVars, irqVars, pendVars
<1>2. QueuesOK'
  BY <1>1 DEF IInv, QueuesOK, LevelsMatch
<1>3. CpuOK'
  BY <1>1 DEF IInv, CpuOK, RunningIsHead, TopPriorityRuns, PendingCoversReady,
     PendingBound, Ready
<1>4. RestOK'
  BY <1>1 DEF IInv, RestOK
<1>5. QED
  BY <1>2, <1>3, <1>4 DEF IInv

(* terminate() takes the running task off the ready queue of its level.    *)
LEMMA TerminateQueues ==
  ASSUME IInv, Terminate
  PROVE  \/ Fault
         \/ /\ queue' \in [Queue -> Seq(Task)]
            /\ Loses(queue, queue', running_task)
            /\ \A q \in Queue : q # ReadyQ(priority[running_task]) =>
                 queue'[q] = queue[q]
            /\ priority' \in [Task -> Prio]
            /\ \A u \in Task : u # running_task => priority'[u] = priority[u]
            /\ timeshare' = timeshare \ {running_task}
            /\ irqs_off' = irqs_off \ {running_task}
            /\ Reschedule(priority[running_task])
            /\ UNCHANGED <<selfLinked, irqVars, fault>>
<1> DEFINE t == running_task
           rq == ReadyQ(priority[t])
<1>1. /\ t \in Task /\ rq \in Queue /\ queue[rq] \in Seq(Task) /\ queue[rq] # <<>>
      /\ t = Head(queue[rq])
  BY Facts DEF Terminate, InTask
<1>2. CASE rq \in selfLinked
  BY <1>2 DEF Terminate
<1>3. CASE rq \notin selfLinked
  <2>1. /\ queue' = [queue EXCEPT ![rq] = Tail(@)]
        /\ priority' = [priority EXCEPT ![t] = 0]
        /\ timeshare' = timeshare \ {t}
        /\ irqs_off' = irqs_off \ {t}
        /\ Reschedule(priority[t])
        /\ UNCHANGED <<selfLinked, irqVars, fault>>
    BY <1>3 DEF Terminate, Forget
  <2> HIDE DEF t, rq
  <2>2. /\ queue'[rq] = Tail(queue[rq])
        /\ \A q \in Queue : q # rq => queue'[q] = queue[q]
    BY <1>1, <2>1, Facts
  <2>3. queue' \in [Queue -> Seq(Task)]
    <3>1. Tail(queue[rq]) \in Seq(Task)
      BY <1>1, HeadTailProperties
    <3>2. QED
      BY <1>1, <2>1, <3>1, Facts
  <2>4. Loses(queue, queue', t)
    <3>1. queue \in [Queue -> Seq(Task)] /\ Unique(queue)
      BY Facts
    <3>2. QED
      BY <1>1, <2>2, <2>3, <3>1, Dequeued
  <2>5. /\ priority' \in [Task -> Prio]
        /\ \A u \in Task : u # t => priority'[u] = priority[u]
    BY <2>1, Facts, PrioIsNat
  <2>6. QED
    BY <2>1, <2>2, <2>3, <2>4, <2>5 DEF t, rq
<1>4. QED
  BY <1>2, <1>3

LEMMA TerminateInv ==
  ASSUME IInv, Terminate
  PROVE  IInv'
<1> DEFINE t == running_task
<1>1. /\ t \in Task /\ ~running_irq /\ priority[t] \in Prio
      /\ \A u \in Task : Ready(u) => priority[t] <= priority[u]
  BY Facts DEF Terminate, InTask
<1>2. CASE Fault
  BY <1>2, FaultInv
<1>3. CASE ~Fault
  <2>1. /\ queue' \in [Queue -> Seq(Task)] /\ Loses(queue, queue', t)
        /\ priority' \in [Task -> Prio]
        /\ \A u \in Task : u # t => priority'[u] = priority[u]
        /\ timeshare' = timeshare \ {t} /\ irqs_off' = irqs_off \ {t}
        /\ Reschedule(priority[t])
        /\ UNCHANGED <<selfLinked, irqVars, fault>>
    BY <1>3, TerminateQueues
  <2> HIDE DEF t
  <2>6. ASSUME NEW r \in Prio, NEW u \in Task, Contains(queue'[ReadyQ(r)], u)
        PROVE  u # t /\ Contains(queue[ReadyQ(r)], u)
    BY <2>1, <2>6, QueueNames DEF Loses, Absent
  <2>7. QueuesOK'
    BY <2>1, <2>6, Facts DEF QueuesOK, LevelsMatch, Loses, ReadyQ
  <2>8. \A u \in Task : Ready(u)' => priority[t] <= priority'[u]
    BY <1>1, <2>1, <2>6 DEF Ready, ReadyQ
  <2>9. CpuOK'
    <3>1. ~running_irq'
      BY <1>1, <2>1 DEF irqVars
    <3>2. QED
      BY <1>1, <2>1, <2>7, <2>8, <3>1, RescheduleNow
  <2>10. RestOK'
    BY <2>1 DEF IInv, RestOK, irqVars
  <2>11. QED
    BY <2>7, <2>9, <2>10 DEF IInv
<1>4. QED
  BY <1>2, <1>3

(* Deleting a task other than the running one, which stays in place.       *)
LEMMA DeletedOther ==
  ASSUME IInv, NEW Q, NEW q \in Queue, NEW i \in DOMAIN queue[q],
         Q = Delete(queue, q, i),
         InTask, queue[q][i] # running_task
  PROVE  /\ Q \in [Queue -> Seq(Task)]
         /\ queue[q][i] \in Task
         /\ Loses(queue, Q, queue[q][i])
         /\ Q[ReadyQ(priority[running_task])] # <<>>
         /\ Q[ReadyQ(priority[running_task])][1] = running_task
<1> DEFINE c == ReadyQ(priority[running_task])
<1>1. /\ queue \in [Queue -> Seq(Task)] /\ Unique(queue) /\ queue[q] \in Seq(Task)
      /\ running_task \in Task /\ c \in Queue
      /\ queue[c] # <<>> /\ queue[c][1] = running_task
  BY Facts DEF InTask
<1> HIDE DEF c
<1>2. i \in 1 .. Len(queue[q]) /\ queue[q][i] \in Task
  BY <1>1, LenProperties, ElementOfSeq
<1>3. Q = [queue EXCEPT ![q] = RemoveAt(@, i)]
  BY DEF Delete
<1>4. RemoveAt(queue[q], i) \in Seq(Task)
  BY <1>1, <1>2, RemoveAtIsSeq
<1>5. /\ Q \in [Queue -> Seq(Task)]
      /\ Q[q] = RemoveAt(queue[q], i)
      /\ \A p \in Queue : p # q => Q[p] = queue[p]
  BY <1>1, <1>3, <1>4
<1>6. PICK h \in Task : h = queue[q][i]
  BY <1>2
<1>7. Loses(queue, Q, h)
  BY <1>1, <1>2, <1>5, <1>6, RemovedOnce
<1>8. CASE c # q
  BY <1>1, <1>2, <1>5, <1>6, <1>7, <1>8 DEF c
<1>9. CASE c = q
  <2>1. i # 1
    BY <1>1, <1>9
  <2>2. RemoveAt(queue[q], i) # <<>> /\ RemoveAt(queue[q], i)[1] = queue[q][1]
    BY <1>1, <1>2, <2>1, RemoveKeepsHead
  <2>3. QED
    BY <1>1, <1>2, <1>5, <1>6, <1>7, <1>9, <2>2 DEF c
<1>10. QED
  BY <1>8, <1>9

LEMMA EndTaskInv ==
  ASSUME IInv, NEW q \in Queue, NEW i \in DOMAIN queue[q], EndTask(q, i)
  PROVE  IInv'
<1>1. CASE TornDelete(q, i)
  BY <1>1, FaultInv DEF EndTask
<1>2. CASE ~TornDelete(q, i)
  <2> DEFINE t == queue[q][i]
             c == ReadyQ(priority[running_task])
  <2>1. /\ queue' = Delete(queue, q, i)
        /\ selfLinked' = LinksAfterDelete(q, i)
        /\ priority' = [priority EXCEPT ![t] = 0]
        /\ timeshare' = timeshare \ {t}
        /\ irqs_off' = (irqs_off \ {t}) \cup {running_task}
        /\ NoReschedule
        /\ UNCHANGED <<irqVars, fault>>
        /\ InTask /\ t # running_task
    BY <1>2 DEF EndTask, Forget
  <2>2. /\ queue' \in [Queue -> Seq(Task)] /\ t \in Task
        /\ Loses(queue, queue', t)
        /\ queue'[c][1] = running_task
    BY <2>1, DeletedOther
  <2>3. /\ running_task \in Task /\ running_task # NULL
        /\ c \in Queue /\ Contains(queue[c], running_task)
        /\ queue[c][1] = running_task
    BY <2>1, Facts DEF InTask
  <2> HIDE DEF t, c
  <2>4. /\ priority' \in [Task -> Prio]
        /\ \A u \in Task : u # t => priority'[u] = priority[u]
    BY <2>1, Facts, PrioIsNat
  <2>5. ASSUME NEW r \in Prio, NEW u \in Task, Contains(queue'[ReadyQ(r)], u)
        PROVE  u # t /\ Contains(queue[ReadyQ(r)], u)
    BY <2>2, <2>5, QueueNames DEF Loses, Absent
  <2>6. QueuesOK'
    BY <2>2, <2>4, <2>5, Facts DEF QueuesOK, LevelsMatch, Loses, ReadyQ
  <2>7. \A u \in Task : Ready(u)' => Ready(u) /\ priority'[u] = priority[u]
    BY <2>4, <2>5 DEF Ready, ReadyQ
  <2>8. Contains(queue'[c], running_task) /\ queue'[c][1] = queue[c][1]
    BY <2>1, <2>2, <2>3 DEF Loses
  <2>9. CpuOK'
    <3>1. /\ running_irq' = running_irq /\ CpuOK /\ QueuesOK
          /\ priority'[running_task] = priority[running_task]
      BY <2>1, <2>3, <2>4 DEF irqVars, IInv
    <3>2. QED
      BY <2>1, <2>3, <2>6, <2>7, <2>8, <3>1, StillRunning DEF c
  <2>10. RestOK'
    BY <2>1, <2>3 DEF IInv, RestOK, irqVars, LinksAfterDelete
  <2>11. QED
    BY <2>6, <2>9, <2>10 DEF IInv
<1>3. QED
  BY <1>1, <1>2

(* From Q to R, t is moved to b, and every other task stays.               *)
Moves(Q, R, b, t) ==
  /\ Unique(R)
  /\ \A p \in Queue : /\ Contains(R[p], t) <=> p = b
                      /\ \A u : u # t => (Contains(R[p], u) <=> Contains(Q[p], u))

LEMMA LosesThenGains ==
  ASSUME NEW Q, NEW M, NEW R, NEW b \in Queue, NEW t,
         Loses(Q, M, t), Gains(M, R, b, t)
  PROVE  Moves(Q, R, b, t)
<1>1. ASSUME NEW p \in Queue
      PROVE  /\ Contains(R[p], t) <=> p = b
             /\ \A u : u # t => (Contains(R[p], u) <=> Contains(Q[p], u))
  <2>1. ~Contains(M[p], t)
    BY DEF Loses, Absent
  <2>2. \A u : Contains(R[p], u) <=> (u = t /\ p = b) \/ Contains(M[p], u)
    BY DEF Gains
  <2>3. \A u : u # t => (Contains(M[p], u) <=> Contains(Q[p], u))
    BY DEF Loses
  <2>4. QED
    BY <2>1, <2>2, <2>3
<1>2. QED
  BY <1>1 DEF Moves, Gains

(* Dequeuing the head of one queue and enqueuing it at the end of another. *)
LEMMA MovedToEnd ==
  ASSUME NEW Q \in [Queue -> Seq(Task)], NEW R, NEW a \in Queue, NEW b \in Queue, NEW t,
         Unique(Q), Q[a] # <<>>, t = Head(Q[a]), a # b,
         R = [Q EXCEPT ![a] = Tail(@), ![b] = Append(@, t)]
  PROVE  /\ R \in [Queue -> Seq(Task)]
         /\ Moves(Q, R, b, t)
         /\ R[b] = Append(Q[b], t)
         /\ \A p \in Queue : p # a /\ p # b => R[p] = Q[p]
<1> DEFINE M == [Q EXCEPT ![a] = Tail(@)]
<1>1. Q[a] \in Seq(Task) /\ t \in Task /\ Tail(Q[a]) \in Seq(Task) /\ Q[b] \in Seq(Task)
  <2>1. Q[a] \in Seq(Task) /\ Q[b] \in Seq(Task)
    OBVIOUS
  <2>2. QED
    BY <2>1, NonEmpty, HeadTailProperties
<1>2. /\ M \in [Queue -> Seq(Task)] /\ M[a] = Tail(Q[a])
      /\ \A p \in Queue : p # a => M[p] = Q[p]
  BY <1>1
<1>3. R = [M EXCEPT ![b] = Append(@, t)]
  OBVIOUS
<1> HIDE DEF M
<1>4. Append(M[b], t) \in Seq(Task)
  BY <1>1, <1>2, AppendHead
<1>5. /\ R \in [Queue -> Seq(Task)] /\ R[b] = Append(M[b], t)
      /\ \A p \in Queue : p # b => R[p] = M[p]
  BY <1>2, <1>3, <1>4
<1>6. Loses(Q, M, t)
  BY <1>2, Dequeued
<1>7. Absent(M, t) /\ Unique(M)
  BY <1>6 DEF Loses
<1>8. Gains(M, R, b, t)
  BY <1>1, <1>2, <1>5, <1>7, Appended
<1>9. Moves(Q, R, b, t)
  BY <1>6, <1>8, LosesThenGains
<1>10. QED
  BY <1>2, <1>5, <1>9

(* nap() moves the running task to its place on a wait queue.              *)
LEMMA NapQueues ==
  ASSUME IInv, NEW q \in Queue, Nap(q)
  PROVE  \/ Fault
         \/ /\ queue' \in [Queue -> Seq(Task)]
            /\ \A p \in Prio : q # ReadyQ(p)
            /\ Moves(queue, queue', q, running_task)
            /\ queue'[q] = InsertAt(queue[q], InsertPos(queue[q], running_task), running_task)
            /\ \A r \in Queue : r # q /\ r # ReadyQ(priority[running_task]) =>
                 queue'[r] = queue[r]
            /\ selfLinked' = selfLinked \ {q}
            /\ Reschedule(priority[running_task])
            /\ UNCHANGED <<priority, timeshare, irqs_off, irqVars, fault>>
<1> DEFINE rq == ReadyQ(priority[running_task])
           t == Head(queue[rq])
           M == [queue EXCEPT ![rq] = Tail(@)]
<1>1. /\ t \in Task /\ rq \in Queue /\ queue[rq] \in Seq(Task) /\ queue[rq] # <<>>
      /\ t = running_task /\ priority[t] \in Prio
  BY Facts DEF Nap, InTask
<1>2. CASE rq \in selfLinked \/ Displaces(q, t)
  BY <1>2 DEF Nap
<1>3. CASE ~(rq \in selfLinked \/ Displaces(q, t))
  <2>1. /\ queue' = [queue EXCEPT ![rq] = Tail(@), ![q] = EnqueueWaiting(@, t)]
        /\ selfLinked' = selfLinked \ {q}
        /\ Reschedule(priority[running_task])
        /\ UNCHANGED <<priority, timeshare, irqs_off, irqVars, fault>>
    BY <1>3 DEF Nap
  <2>0. \A p \in Prio : q # ReadyQ(p)
    BY <1>1, QueueNames DEF Nap
  <2>2. q # rq
    BY <1>1, <2>0
  <2>3. queue' = [M EXCEPT ![q] = EnqueueWaiting(@, t)]
    BY <2>1, <2>2
  <2>4. /\ M \in [Queue -> Seq(Task)] /\ M[rq] = Tail(queue[rq])
        /\ \A p \in Queue : p # rq => M[p] = queue[p]
    <3>1. Tail(queue[rq]) \in Seq(Task)
      BY <1>1, HeadTailProperties
    <3>2. QED
      BY <1>1, <3>1, Facts
  <2> HIDE DEF t, rq, M
  <2>5. Loses(queue, M, t)
    <3>1. queue \in [Queue -> Seq(Task)] /\ Unique(queue) /\ t = Head(queue[rq])
      BY Facts DEF t
    <3>2. QED
      BY <1>1, <2>4, <3>1, Dequeued
  <2>6. PICK k \in 1 .. Len(M[q]) + 1 : k = InsertPos(M[q], t)
    <3>1. M[q] \in Seq(Task) /\ priority \in [Task -> Prio]
      BY <2>4, Facts
    <3>2. QED
      BY <1>1, <3>1, InsertPosFound
  <2>7. EnqueueWaiting(M[q], t) = InsertAt(M[q], k, t)
    BY <2>6 DEF EnqueueWaiting
  <2>8. InsertAt(M[q], k, t) \in Seq(Task)
    BY <1>1, <2>4, <2>6, InsertAtIsSeq
  <2>9. /\ queue' \in [Queue -> Seq(Task)]
        /\ queue'[q] = InsertAt(M[q], k, t)
        /\ \A p \in Queue : p # q => queue'[p] = M[p]
    BY <2>3, <2>4, <2>7, <2>8
  <2>10. Absent(M, t) /\ Unique(M)
    BY <2>5 DEF Loses
  <2>11. Gains(M, queue', q, t)
    BY <1>1, <2>4, <2>9, <2>10, InsertedOnce
  <2>12. Moves(queue, queue', q, t)
    BY <2>5, <2>11, LosesThenGains
  <2>13. M[q] = queue[q]
    BY <2>2, <2>4
  <2>14. queue'[q] = InsertAt(queue[q], InsertPos(queue[q], t), t)
    BY <2>6, <2>9, <2>13
  <2>15. \A r \in Queue : r # q /\ r # rq => queue'[r] = queue[r]
    BY <2>4, <2>9
  <2>16. QED
    BY <1>1, <2>0, <2>1, <2>9, <2>12, <2>14, <2>15 DEF rq
<1>4. QED
  BY <1>2, <1>3

LEMMA NapInv ==
  ASSUME IInv, NEW q \in Queue, Nap(q)
  PROVE  IInv'
<1> DEFINE t == running_task
<1>1. /\ t \in Task /\ ~running_irq /\ priority[t] \in Prio
      /\ \A u \in Task : Ready(u) => priority[t] <= priority[u]
  BY Facts DEF Nap, InTask
<1>2. CASE Fault
  BY <1>2, FaultInv
<1>3. CASE ~Fault
  <2>1. /\ queue' \in [Queue -> Seq(Task)]
        /\ \A p \in Prio : q # ReadyQ(p)
        /\ Moves(queue, queue', q, t)
        /\ selfLinked' = selfLinked \ {q}
        /\ Reschedule(priority[t])
        /\ UNCHANGED <<priority, timeshare, irqs_off, irqVars, fault>>
    BY <1>3, NapQueues
  <2> HIDE DEF t
  <2>14. ASSUME NEW r \in Prio, NEW u \in Task, Contains(queue'[ReadyQ(r)], u)
         PROVE  u # t /\ Contains(queue[ReadyQ(r)], u)
    BY <2>1, <2>14, QueueNames DEF Moves
  <2>15. QueuesOK'
    BY <2>1, <2>14, Facts DEF QueuesOK, LevelsMatch, Moves, ReadyQ
  <2>16. \A u \in Task : Ready(u)' => priority[t] <= priority'[u]
    BY <1>1, <2>1, <2>14, Facts DEF Ready, ReadyQ
  <2>17. CpuOK'
    <3>1. ~running_irq'
      BY <1>1, <2>1 DEF irqVars
    <3>2. QED
      BY <1>1, <2>1, <2>15, <2>16, <3>1, RescheduleNow
  <2>18. RestOK'
    BY <2>1 DEF IInv, RestOK, irqVars
  <2>19. QED
    BY <2>15, <2>17, <2>18 DEF IInv
<1>4. QED
  BY <1>2, <1>3

(* wake() moves the head of a wait queue to the end of its ready queue,    *)
(* and displaces no head of a ready queue.                                 *)
LEMMA WakeQueues ==
  ASSUME IInv, NEW q \in Queue, Wake(q)
  PROVE  LET t == Head(queue[q])
             p == priority[t]
         IN /\ queue[q] # <<>> /\ t \in Task /\ p \in Prio
            /\ \A r \in Prio : q # ReadyQ(r)
            /\ \/ Fault
               \/ /\ queue' \in [Queue -> Seq(Task)]
                  /\ Moves(queue, queue', ReadyQ(p), t)
                  /\ queue'[q] = Tail(queue[q])
                  /\ \A r \in Queue : r # q /\ r # ReadyQ(p) => queue'[r] = queue[r]
                  /\ running_task # NULL =>
                       /\ running_task # t
                       /\ queue'[ReadyQ(priority[running_task])][1]
                            = queue[ReadyQ(priority[running_task])][1]
                  /\ selfLinked' = selfLinked \ {ReadyQ(p)}
                  /\ IF running_task = NULL \/ p <= priority[running_task]
                     THEN Reschedule(p) ELSE NoReschedule
                  /\ UNCHANGED <<priority, timeshare, irqs_off, irqVars, fault>>
<1> DEFINE t == Head(queue[q])
           p == priority[t]
           rq == ReadyQ(p)
<1>1. /\ queue[q] \in Seq(Task) /\ queue[q] # <<>> /\ t \in Task
      /\ p \in Prio /\ p \in Nat /\ rq \in Queue /\ q # rq
      /\ Contains(queue[q], t)
  <2>1. queue[q] \in Seq(Task) /\ queue[q] # <<>>
    BY Facts DEF Wake
  <2>2. t \in Task /\ Contains(queue[q], t)
    BY <2>1, NonEmpty
  <2>3. p \in Prio /\ p \in Nat
    BY <2>2, Facts
  <2>4. rq \in Queue /\ q # rq
    BY <2>3, QueueNames DEF Wake
  <2>5. QED
    BY <2>1, <2>2, <2>3, <2>4
<1>2. CASE q \in selfLinked
  <2>1. Fault
    BY <1>2 DEF Wake
  <2>2. \A r \in Prio : q # ReadyQ(r)
    BY QueueNames DEF Wake
  <2>3. QED
    BY <1>1, <2>1, <2>2
<1>3. CASE q \notin selfLinked
  <2>1. /\ queue' = [queue EXCEPT ![q] = Tail(@), ![rq] = Append(@, t)]
        /\ selfLinked' = selfLinked \ {rq}
        /\ IF running_task = NULL \/ p <= priority[running_task]
           THEN Reschedule(p) ELSE NoReschedule
        /\ UNCHANGED <<priority, timeshare, irqs_off, irqVars, fault>>
    BY <1>3 DEF Wake
  <2>2. rq = ReadyQ(p) /\ t = Head(queue[q]) /\ p = priority[t]
    OBVIOUS
  <2> HIDE DEF t, p, rq
  <2>3. /\ queue \in [Queue -> Seq(Task)] /\ Unique(queue)
    BY Facts
  <2>4. /\ queue' \in [Queue -> Seq(Task)]
        /\ Moves(queue, queue', rq, t)
        /\ queue'[rq] = Append(queue[rq], t)
        /\ \A r \in Queue : r # q /\ r # rq => queue'[r] = queue[r]
    BY <1>1, <2>1, <2>2, <2>3, MovedToEnd
  <2>5. queue'[q] = Tail(queue[q])
    BY <1>1, <2>1, <2>3
  <2>6. \A r \in Prio : q # ReadyQ(r)
    BY QueueNames DEF Wake
  <2>7. ASSUME running_task # NULL
        PROVE  /\ running_task # t
               /\ queue'[ReadyQ(priority[running_task])][1]
                    = queue[ReadyQ(priority[running_task])][1]
    <3> DEFINE c == ReadyQ(priority[running_task])
    <3>1. /\ running_task \in Task /\ c \in Queue /\ priority[running_task] \in Prio
          /\ Contains(queue[c], running_task) /\ queue[c] # <<>> /\ queue[c] \in Seq(Task)
      BY <2>7, Facts
    <3>2. q # c
      BY <3>1, QueueNames DEF Wake
    <3> HIDE DEF c
    <3>3. queue'[c][1] = queue[c][1]
      <4>1. CASE c = rq
        BY <1>1, <2>4, <3>1, <4>1, AppendHead
      <4>2. CASE c # rq
        BY <2>4, <3>1, <3>2, <4>2
      <4>3. QED
        BY <4>1, <4>2
    <3>4. running_task # t
      <4>1. running_task = t => q = c
        <5>1. PICK i \in 1 .. Len(queue[q]) : queue[q][i] = t
          BY <1>1 DEF Contains
        <5>2. PICK j \in 1 .. Len(queue[c]) : queue[c][j] = running_task
          BY <3>1 DEF Contains
        <5>3. i \in DOMAIN queue[q] /\ j \in DOMAIN queue[c]
          BY <1>1, <3>1, LenProperties
        <5>4. QED
          BY <2>3, <3>1, <5>1, <5>2, <5>3 DEF Unique
      <4>2. QED
        BY <3>2, <4>1
    <3>5. QED
      BY <3>3, <3>4 DEF c
  <2>8. QED
    BY <1>1, <2>1, <2>4, <2>5, <2>6, <2>7 DEF t, p, rq
<1>4. QED
  BY <1>2, <1>3

LEMMA WakeInv ==
  ASSUME IInv, NEW q \in Queue, Wake(q)
  PROVE  IInv'
<1> DEFINE t == Head(queue[q])
           p == priority[t]
<1>1. /\ queue[q] # <<>> /\ t \in Task /\ p \in Prio /\ p \in Nat
  BY WakeQueues, PrioIsNat
<1>2. CASE Fault
  BY <1>2, FaultInv
<1>3. CASE ~Fault
  <2>1. /\ queue' \in [Queue -> Seq(Task)]
        /\ Moves(queue, queue', ReadyQ(p), t)
        /\ selfLinked' = selfLinked \ {ReadyQ(p)}
        /\ IF running_task = NULL \/ p <= priority[running_task]
           THEN Reschedule(p) ELSE NoReschedule
        /\ UNCHANGED <<priority, timeshare, irqs_off, irqVars, fault>>
    BY <1>3, WakeQueues
  <2>3. running_task # NULL =>
          /\ running_task # t
          /\ queue'[ReadyQ(priority[running_task])][1]
               = queue[ReadyQ(priority[running_task])][1]
    BY <1>3, WakeQueues
  <2>2. p = priority[t] /\ ReadyQ(p) \in Queue
    BY <1>1, QueueNames
  <2> HIDE DEF t, p
  <2>5. priority' = priority /\ running_irq' = running_irq
    BY <2>1 DEF irqVars
  <2>6. ASSUME NEW r \in Prio, NEW u \in Task, Contains(queue'[ReadyQ(r)], u)
        PROVE  (u = t /\ r = p) \/ (u # t /\ Contains(queue[ReadyQ(r)], u))
    <3>1. ReadyQ(r) \in Queue /\ (ReadyQ(r) = ReadyQ(p) => r = p)
      BY <1>1, QueueNames
    <3>2. Contains(queue'[ReadyQ(r)], t) <=> ReadyQ(r) = ReadyQ(p)
      BY <2>1, <3>1 DEF Moves
    <3>3. u # t => Contains(queue[ReadyQ(r)], u)
      BY <2>1, <2>6, <3>1 DEF Moves
    <3>4. QED
      BY <2>6, <3>1, <3>2, <3>3
  <2>7. QueuesOK'
    BY <2>1, <2>2, <2>5, <2>6, Facts DEF QueuesOK, LevelsMatch, Moves, ReadyQ
  <2>8. \A u \in Task : Ready(u)' => u = t \/ Ready(u)
    BY <2>5, <2>6, Facts DEF Ready, ReadyQ
  <2>9. running_task # NULL =>
          /\ Contains(queue'[ReadyQ(priority[running_task])], running_task)
          /\ queue'[ReadyQ(priority[running_task])][1]
               = queue[ReadyQ(priority[running_task])][1]
    <3>1. running_task # NULL =>
            /\ running_task \in Task /\ ReadyQ(priority[running_task]) \in Queue
            /\ Contains(queue[ReadyQ(priority[running_task])], running_task)
      BY Facts
    <3>2. running_task # NULL =>
            Contains(queue'[ReadyQ(priority[running_task])], running_task)
      BY <2>1, <2>3, <3>1 DEF Moves
    <3>3. QED
      BY <2>3, <3>2
  <2>10. CpuOK'
    <3>0. CpuOK /\ QueuesOK
      BY DEF IInv
    <3>1. CASE running_task = NULL \/ p <= priority[running_task]
      <4>1. Reschedule(p)
        BY <2>1, <3>1
      <4>2. CASE running_irq
        <5>1. \A u \in Task : Ready(u)' =>
                (Ready(u) /\ priority'[u] = priority[u]) \/ p <= priority'[u]
          BY <1>1, <2>2, <2>5, <2>8
        <5>2. running_irq' /\ (running_task # NULL => p <= priority[running_task])
          BY <2>5, <3>1, <4>2
        <5>3. QED
          BY <1>1, <2>5, <2>7, <2>9, <3>0, <4>1, <4>2, <5>1, <5>2, RescheduleLater
      <4>3. CASE ~running_irq
        <5>1. \A u \in Task : Ready(u) => p <= priority[u]
          <6> SUFFICES ASSUME NEW u \in Task, Ready(u) PROVE p <= priority[u]
            OBVIOUS
          <6>1. running_task # NULL /\ priority[running_task] <= priority[u]
            BY <3>0, <4>3 DEF CpuOK, TopPriorityRuns
          <6>2. priority[running_task] \in Nat /\ priority[u] \in Nat
            BY <6>1, Facts
          <6>3. QED
            BY <1>1, <3>1, <6>1, <6>2
        <5>2. \A u \in Task : Ready(u)' => p <= priority'[u]
          BY <1>1, <2>2, <2>5, <2>8, <5>1
        <5>3. ~running_irq'
          BY <2>5, <4>3
        <5>4. QED
          BY <1>1, <2>7, <4>1, <4>3, <5>2, <5>3, RescheduleNow
      <4>4. QED
        BY <4>2, <4>3
    <3>2. CASE ~(running_task = NULL \/ p <= priority[running_task])
      <4>1. NoReschedule /\ running_task # NULL
        BY <2>1, <3>2
      <4>2. priority[running_task] <= p
        BY <1>1, <3>2, Facts
      <4>3. \A u \in Task : Ready(u)' => \/ Ready(u) /\ priority'[u] = priority[u]
                                         \/ priority[running_task] <= priority'[u]
        BY <2>2, <2>5, <2>8, <4>2
      <4>4. QED
        BY <2>5, <2>7, <2>9, <3>0, <4>1, <4>3, StillRunning
    <3>3. QED
      BY <3>1, <3>2
  <2>11. RestOK'
    BY <2>1 DEF IInv, RestOK, irqVars
  <2>12. QED
    BY <2>7, <2>10, <2>11 DEF IInv
<1>4. QED
  BY <1>2, <1>3

(* set_running_task_priority() moves the running task to the end of the    *)
(* ready queue of its new level.                                           *)
LEMMA SetRunningTaskPriorityQueues ==
  ASSUME IInv, NEW p \in Prio, SetRunningTaskPriority(p)
  PROVE  LET old == priority[running_task]
         IN /\ old # p
            /\ \/ Fault
               \/ /\ queue' \in [Queue -> Seq(Task)]
                  /\ Moves(queue, queue', ReadyQ(p), running_task)
                  /\ queue'[ReadyQ(p)] = Append(queue[ReadyQ(p)], running_task)
                  /\ \A q \in Queue : q # ReadyQ(old) /\ q # ReadyQ(p) =>
                       queue'[q] = queue[q]
                  /\ priority' \in [Task -> Prio] /\ priority'[running_task] = p
                  /\ \A u \in Task : u # running_task => priority'[u] = priority[u]
                  /\ selfLinked' = selfLinked \ {ReadyQ(p)}
                  /\ IF old < p THEN Reschedule(old) ELSE NoReschedule
                  /\ UNCHANGED <<timeshare, irqs_off, irqVars, fault>>
<1> DEFINE t == running_task
           old == priority[t]
           a == ReadyQ(old)
           b == ReadyQ(p)
<1>1. /\ t \in Task /\ a \in Queue /\ queue[a] \in Seq(Task) /\ queue[a] # <<>>
      /\ t = Head(queue[a]) /\ b \in Queue /\ a # b /\ p # old
  BY Facts, QueueNames DEF SetRunningTaskPriority, InTask
<1>2. CASE a \in selfLinked
  BY <1>1, <1>2 DEF SetRunningTaskPriority
<1>3. CASE a \notin selfLinked
  <2>1. /\ queue' = [queue EXCEPT ![a] = Tail(@), ![b] = Append(@, t)]
        /\ selfLinked' = selfLinked \ {b}
        /\ priority' = [priority EXCEPT ![t] = p]
        /\ IF old < p THEN Reschedule(old) ELSE NoReschedule
        /\ UNCHANGED <<timeshare, irqs_off, irqVars, fault>>
    BY <1>1, <1>3 DEF SetRunningTaskPriority
  <2>2. t = running_task /\ b = ReadyQ(p)
    OBVIOUS
  <2> HIDE DEF t, old, a, b
  <2>3. queue \in [Queue -> Seq(Task)] /\ Unique(queue)
    BY Facts
  <2>4. /\ queue' \in [Queue -> Seq(Task)]
        /\ Moves(queue, queue', b, t)
        /\ queue'[b] = Append(queue[b], t)
        /\ \A q \in Queue : q # a /\ q # b => queue'[q] = queue[q]
    BY <1>1, <2>1, <2>3, MovedToEnd
  <2>5. /\ priority' \in [Task -> Prio] /\ priority'[t] = p
        /\ \A u \in Task : u # t => priority'[u] = priority[u]
    BY <1>1, <2>1, Facts
  <2>6. QED
    BY <1>1, <2>1, <2>4, <2>5 DEF t, old, a, b
<1>4. QED
  BY <1>2, <1>3

LEMMA SetRunningTaskPriorityInv ==
  ASSUME IInv, NEW p \in Prio, SetRunningTaskPriority(p)
  PROVE  IInv'
<1> DEFINE t == running_task
           old == priority[t]
           a == ReadyQ(old)
           b == ReadyQ(p)
<1>1. /\ t \in Task /\ a \in Queue /\ queue[a] \in Seq(Task) /\ queue[a] # <<>>
      /\ t = Head(queue[a]) /\ ~running_irq /\ old \in Prio /\ old \in Nat /\ p \in Nat
      /\ \A u \in Task : Ready(u) => old <= priority[u]
      /\ b \in Queue /\ a # b /\ p # old /\ t # NULL
  BY Facts, QueueNames, PrioIsNat DEF SetRunningTaskPriority, InTask
<1>2. CASE Fault
  BY <1>2, FaultInv
<1>3. CASE ~Fault
  <2>1. /\ queue' \in [Queue -> Seq(Task)]
        /\ Moves(queue, queue', b, t)
        /\ queue'[b] = Append(queue[b], t)
        /\ selfLinked' = selfLinked \ {b}
        /\ priority' \in [Task -> Prio] /\ priority'[t] = p
        /\ \A u \in Task : u # t => priority'[u] = priority[u]
        /\ IF old < p THEN Reschedule(old) ELSE NoReschedule
        /\ UNCHANGED <<timeshare, irqs_off, irqVars, fault>>
    BY <1>3, SetRunningTaskPriorityQueues
  <2>2. t = running_task /\ b = ReadyQ(p)
    OBVIOUS
  <2> HIDE DEF t, old, a, b
  <2>3. queue \in [Queue -> Seq(Task)] /\ Unique(queue)
    BY Facts
  <2>4. queue' \in [Queue -> Seq(Task)] /\ Moves(queue, queue', b, t)
        /\ queue'[b] = Append(queue[b], t)
    BY <2>1
  <2>5. priority' \in [Task -> Prio] /\ priority'[t] = p
        /\ \A u \in Task : u # t => priority'[u] = priority[u]
    BY <2>1
  <2>6. ASSUME NEW r \in Prio, NEW u \in Task, Contains(queue'[ReadyQ(r)], u)
        PROVE  (u = t /\ r = p) \/ (u # t /\ Contains(queue[ReadyQ(r)], u))
    <3>1. ReadyQ(r) \in Queue /\ (ReadyQ(r) = b => r = p)
      BY <1>1, <2>2, QueueNames
    <3>2. Contains(queue'[ReadyQ(r)], t) <=> ReadyQ(r) = b
      BY <2>4, <3>1 DEF Moves
    <3>3. u # t => Contains(queue[ReadyQ(r)], u)
      BY <2>4, <2>6, <3>1 DEF Moves
    <3>4. QED
      BY <2>6, <3>1, <3>2, <3>3
  <2>7. QueuesOK'
    BY <2>4, <2>5, <2>6, Facts DEF QueuesOK, LevelsMatch, Moves, ReadyQ
  <2>8. \A u \in Task : Ready(u)' => u = t \/ (u # t /\ Ready(u) /\ priority'[u] = priority[u])
    BY <2>5, <2>6, Facts DEF Ready, ReadyQ
  <2>9. running_irq' = running_irq
    BY <2>1 DEF irqVars
  <2>10. CpuOK'
    <3>1. CASE old < p
      <4>1. \A u \in Task : Ready(u)' => old <= priority'[u]
        BY <1>1, <2>5, <2>8, <3>1
      <4>2. Reschedule(old)
        BY <2>1, <3>1
      <4>3. QED
        BY <1>1, <2>7, <2>9, <4>1, <4>2, RescheduleNow
    <3>2. CASE ~(old < p)
      <4>1. p < old
        BY <1>1, <3>2
      <4>2. /\ running_task' = t /\ pending' = pending
            /\ pending_priority' = pending_priority
        BY <2>1, <2>2, <3>2 DEF NoReschedule, pendVars
      <4>3. queue[b] = <<>>
        <5> SUFFICES ASSUME queue[b] # <<>> PROVE FALSE
          OBVIOUS
        <5>1. queue[b] \in Seq(Task)
          BY <1>1, <2>3
        <5>2. queue[b][1] \in Task /\ Contains(queue[b], queue[b][1])
          BY <5>1, NonEmpty
        <5>3. priority[queue[b][1]] = p
          BY <2>2, <5>2, Facts
        <5>4. Ready(queue[b][1])
          BY <2>2, <5>2, <5>3 DEF Ready
        <5>5. old <= p
          BY <1>1, <5>2, <5>3, <5>4
        <5>6. QED
          BY <1>1, <4>1, <5>5
      <4>4. queue[b] \in Seq(Task) /\ queue'[b][1] = t
        BY <1>1, <2>3, <2>4, <4>3, AppendHead
      <4>5. RunningIsHead'
        <5>1. Contains(queue'[b], t)
          BY <1>1, <2>4 DEF Moves
        <5>2. QED
          BY <2>2, <2>5, <4>2, <4>4, <5>1 DEF RunningIsHead, Ready, ReadyQ
      <4>6. \A u \in Task : Ready(u)' => p <= priority'[u]
        <5> SUFFICES ASSUME NEW u \in Task, Ready(u)' PROVE p <= priority'[u]
          OBVIOUS
        <5>1. CASE u = t
          BY <1>1, <2>5, <5>1
        <5>2. CASE u # t
          <6>1. Ready(u) /\ priority'[u] = priority[u] /\ priority[u] \in Nat
            BY <2>8, <5>2, Facts
          <6>2. old <= priority[u]
            BY <1>1, <6>1
          <6>3. QED
            BY <1>1, <4>1, <6>1, <6>2
        <5>3. QED
          BY <5>1, <5>2
      <4>7. TopPriorityRuns'
        BY <1>1, <2>5, <4>2, <4>6 DEF TopPriorityRuns
      <4>8. PendingCoversReady' /\ PendingBound' /\ pending' = FALSE
        BY <1>1, <2>9, <4>2 DEF IInv, CpuOK, PendingCoversReady, PendingBound
      <4>9. QED
        BY <1>1, <4>2, <4>5, <4>7, <4>8 DEF IInv, CpuOK
    <3>3. QED
      BY <3>1, <3>2
  <2>11. RestOK'
    BY <2>1 DEF IInv, RestOK, irqVars
  <2>12. QED
    BY <2>7, <2>10, <2>11 DEF IInv
<1>4. QED
  BY <1>2, <1>3

(* set_task_priority() moves a task other than the running one, which it   *)
(* found on a ready queue, to the end of the ready queue of its new level. *)
LEMMA SetTaskPriorityQueues ==
  ASSUME IInv, NEW q \in Queue, NEW i \in DOMAIN queue[q], NEW p \in Prio,
         SetTaskPriority(q, i, p)
  PROVE  LET t == queue[q][i]
             old == priority[t]
         IN /\ InTask /\ t \in Task /\ t # running_task
            /\ InversionFree => ~(priority[running_task] < p /\ p < old)
            /\ \/ Fault
               \/ /\ queue' \in [Queue -> Seq(Task)]
                  /\ Ready(t) /\ q = ReadyQ(old)
                  /\ Moves(queue, queue', ReadyQ(p), t)
                  /\ \A r \in Queue : r # q /\ r # ReadyQ(p) => queue'[r] = queue[r]
                  /\ queue'[ReadyQ(priority[running_task])][1] = running_task
                  /\ priority' \in [Task -> Prio] /\ priority'[t] = p
                  /\ \A u \in Task : u # t => priority'[u] = priority[u]
                  /\ selfLinked' = LinksAfterDelete(q, i) \ {ReadyQ(p)}
                  /\ IF p < old THEN Reschedule(p) ELSE NoReschedule
                  /\ UNCHANGED <<timeshare, irqs_off, irqVars, fault>>
<1> DEFINE t == queue[q][i]
           old == priority[t]
           b == ReadyQ(p)
           M == Delete(queue, q, i)
           c == ReadyQ(priority[running_task])
<1>0. InTask /\ t # running_task /\ (InversionFree => ~(priority[running_task] < p /\ p < old))
  BY DEF SetTaskPriority
<1>1. /\ M \in [Queue -> Seq(Task)] /\ t \in Task
      /\ Loses(queue, M, t)
      /\ M[c] # <<>> /\ M[c][1] = running_task
  BY <1>0, DeletedOther
<1>2. CASE TornDelete(q, i) \/ q \notin Prio \X {READY}
  BY <1>0, <1>1, <1>2 DEF SetTaskPriority
<1>3. CASE ~(TornDelete(q, i) \/ q \notin Prio \X {READY})
  <2>1. /\ queue' = [M EXCEPT ![b] = Append(@, t)]
        /\ selfLinked' = LinksAfterDelete(q, i) \ {b}
        /\ priority' = [priority EXCEPT ![t] = p]
        /\ IF p < old THEN Reschedule(p) ELSE NoReschedule
        /\ UNCHANGED <<timeshare, irqs_off, irqVars, fault>>
    BY <1>3 DEF SetTaskPriority
  <2>4. Contains(queue[q], t)
    <3>1. queue[q] \in Seq(Task)
      BY Facts
    <3>2. i \in 1 .. Len(queue[q])
      BY <3>1, LenProperties
    <3>3. QED
      BY <3>2 DEF Contains
  <2>5. Ready(t) /\ q = ReadyQ(old)
    <3>1. PICK l \in Prio : q = ReadyQ(l)
      BY <1>3 DEF ReadyQ
    <3>2. priority[t] = l
      BY <1>1, <2>4, <3>1, Facts
    <3>3. QED
      BY <2>4, <3>1, <3>2 DEF Ready
  <2>6. b \in Queue /\ M[b] \in Seq(Task)
    BY <1>1, QueueNames
  <2>3. c \in Queue
    BY <1>0, Facts DEF InTask
  <2>2. \A r \in Queue : r # q => M[r] = queue[r]
    BY Facts DEF Delete
  <2> HIDE DEF t, old, b, M, c
  <2>7. /\ queue' \in [Queue -> Seq(Task)]
        /\ queue'[b] = Append(M[b], t)
        /\ \A r \in Queue : r # b => queue'[r] = M[r]
    BY <1>1, <2>1, <2>6, AppendHead
  <2>8. Absent(M, t) /\ Unique(M)
    BY <1>1 DEF Loses
  <2>9. Gains(M, queue', b, t)
    BY <1>1, <2>6, <2>7, <2>8, Appended
  <2>10. Moves(queue, queue', b, t)
    BY <1>1, <2>6, <2>9, LosesThenGains
  <2>11. /\ priority' \in [Task -> Prio] /\ priority'[t] = p
         /\ \A u \in Task : u # t => priority'[u] = priority[u]
    BY <1>1, <2>1, Facts
  <2>12. queue'[c][1] = running_task
    <3>1. CASE c = b
      <4>1. Append(M[b], t)[1] = M[b][1]
        BY <1>1, <2>6, <3>1, AppendHead
      <4>2. QED
        BY <1>1, <2>7, <3>1, <4>1
    <3>2. CASE c # b
      BY <1>1, <2>3, <2>7, <3>2
    <3>3. QED
      BY <3>1, <3>2
  <2>13. \A r \in Queue : r # q /\ r # b => queue'[r] = queue[r]
    BY <2>2, <2>7
  <2>14. QED
    BY <1>0, <1>1, <2>1, <2>5, <2>7, <2>10, <2>11, <2>12, <2>13 DEF t, old, b, c
<1>4. QED
  BY <1>2, <1>3

LEMMA SetTaskPriorityInv ==
  ASSUME InversionFree, IInv, NEW q \in Queue, NEW i \in DOMAIN queue[q], NEW p \in Prio,
         SetTaskPriority(q, i, p)
  PROVE  IInv'
<1> DEFINE t == queue[q][i]
           old == priority[t]
           b == ReadyQ(p)
           c == ReadyQ(priority[running_task])
<1>1. CASE Fault
  BY <1>1, FaultInv
<1>2. CASE ~Fault
  <2>1. /\ queue' \in [Queue -> Seq(Task)]
        /\ Ready(t) /\ t \in Task /\ t # running_task /\ InTask
        /\ Moves(queue, queue', b, t)
        /\ queue'[c][1] = running_task
        /\ selfLinked' = LinksAfterDelete(q, i) \ {b}
        /\ IF p < old THEN Reschedule(p) ELSE NoReschedule
        /\ UNCHANGED <<timeshare, irqs_off, irqVars, fault>>
        /\ ~(priority[running_task] < p /\ p < old)
    BY <1>2, SetTaskPriorityQueues
  <2>11. /\ priority' \in [Task -> Prio] /\ priority'[t] = p
         /\ \A u \in Task : u # t => priority'[u] = priority[u]
    BY <1>2, SetTaskPriorityQueues
  <2>3. /\ running_task \in Task /\ running_task # NULL /\ ~running_irq
        /\ priority[running_task] \in Nat /\ priority[running_task] \in Prio
        /\ c \in Queue /\ Contains(queue[c], running_task)
        /\ queue[c][1] = running_task
        /\ \A u \in Task : Ready(u) => priority[running_task] <= priority[u]
    BY <2>1, Facts DEF InTask
  <2>5. old \in Nat /\ old \in Prio /\ p \in Nat
    BY <2>1, Facts, PrioIsNat
  <2>6. b \in Queue /\ b = ReadyQ(p) /\ old = priority[t]
    BY QueueNames
  <2> HIDE DEF t, old, b, c
  <2>12. ASSUME NEW r \in Prio, NEW u \in Task, Contains(queue'[ReadyQ(r)], u)
         PROVE  (u = t /\ r = p) \/ (u # t /\ Contains(queue[ReadyQ(r)], u))
    <3>1. ReadyQ(r) \in Queue /\ (ReadyQ(r) = b => r = p)
      BY <2>6, QueueNames
    <3>2. Contains(queue'[ReadyQ(r)], t) <=> ReadyQ(r) = b
      BY <2>1, <3>1 DEF Moves
    <3>3. u # t => Contains(queue[ReadyQ(r)], u)
      BY <2>1, <2>12, <3>1 DEF Moves
    <3>4. QED
      BY <2>12, <3>1, <3>2, <3>3
  <2>13. QueuesOK'
    <3>1. \A r \in Prio, u \in Task : Contains(queue'[ReadyQ(r)], u) => priority'[u] = r
      BY <2>11, <2>12, Facts
    <3>2. Unique(queue')
      BY <2>1 DEF Moves
    <3>3. QED
      BY <2>1, <2>11, <3>1, <3>2 DEF QueuesOK, LevelsMatch, ReadyQ
  <2>14. \A u \in Task : Ready(u)' => u = t \/ (u # t /\ Ready(u) /\ priority'[u] = priority[u])
    BY <2>11, <2>12, Facts DEF Ready, ReadyQ
  <2>15. running_irq' = running_irq /\ CpuOK /\ QueuesOK
    BY <2>1 DEF irqVars, IInv
  <2>16. CpuOK'
    <3>1. CASE p < old
      <4>1. p <= priority[running_task]
        BY <2>1, <2>3, <2>5, <3>1
      <4>2. \A u \in Task : Ready(u)' => p <= priority'[u]
        <5> SUFFICES ASSUME NEW u \in Task, Ready(u)' PROVE p <= priority'[u]
          OBVIOUS
        <5>1. CASE u = t
          BY <2>5, <2>11, <5>1
        <5>2. CASE u # t
          <6>1. Ready(u) /\ priority'[u] = priority[u] /\ priority[u] \in Nat
            BY <2>14, <5>2, Facts
          <6>2. priority[running_task] <= priority[u]
            BY <2>3, <6>1
          <6>3. QED
            BY <2>3, <2>5, <4>1, <6>1, <6>2
        <5>3. QED
          BY <5>1, <5>2
      <4>3. Reschedule(p) /\ ~running_irq'
        BY <2>1, <2>3, <2>15, <3>1
      <4>4. QED
        BY <2>3, <2>13, <4>2, <4>3, RescheduleNow
    <3>2. CASE ~(p < old)
      <4>1. NoReschedule
        BY <2>1, <3>2
      <4>2. Contains(queue'[c], running_task)
        BY <2>1, <2>3 DEF Moves
      <4>3. queue'[c][1] = queue[c][1]
        BY <2>1, <2>3
      <4>4. priority[running_task] <= p
        <5>1. priority[running_task] <= old
          BY <2>1, <2>3, <2>6
        <5>2. QED
          BY <2>3, <2>5, <3>2, <5>1
      <4>5. priority'[running_task] = priority[running_task]
        BY <2>1, <2>3, <2>11
      <4>6. \A u \in Task : Ready(u)' => \/ Ready(u) /\ priority'[u] = priority[u]
                                         \/ priority[running_task] <= priority'[u]
        BY <2>11, <2>14, <4>4
      <4>7. QED
        BY <2>3, <2>13, <2>15, <4>1, <4>2, <4>3, <4>5, <4>6, StillRunning DEF c
    <3>3. QED
      BY <3>1, <3>2
  <2>17. RestOK'
    BY <2>1, <2>6 DEF IInv, RestOK, irqVars, LinksAfterDelete
  <2>18. QED
    BY <2>13, <2>16, <2>17 DEF IInv
<1>3. QED
  BY <1>1, <1>2

LEMMA SetTaskOptionsInv ==
  ASSUME IInv, NEW t \in Task, SetTaskOptions(t)
  PROVE  IInv'
<1>1. /\ UNCHANGED <<queue, selfLinked, priority, irqs_off, running_task>>
      /\ UNCHANGED <<running_irq, slice_due, pending, pending_priority, fault>>
      /\ timeshare' \in SUBSET Task
  BY DEF SetTaskOptions, NoReschedule, irqVars, pendVars, IInv, RestOK
<1>2. QueuesOK'
  BY <1>1 DEF IInv, QueuesOK, LevelsMatch
<1>3. CpuOK'
  BY <1>1 DEF IInv, CpuOK, RunningIsHead, TopPriorityRuns, PendingCoversReady,
     PendingBound, Ready
<1>4. RestOK'
  BY <1>1 DEF IInv, RestOK
<1>5. QED
  BY <1>2, <1>3, <1>4 DEF IInv

(* When an interrupt is taken the running task is the best one: nothing    *)
(* has to be pending yet.                                                  *)
LEMMA IrqEnterInv ==
  ASSUME IInv, NEW timer \in BOOLEAN, IrqEnter(timer)
  PROVE  IInv'
<1>1. /\ UNCHANGED <<queue, selfLinked, priority, timeshare, irqs_off, running_task>>
      /\ UNCHANGED <<pending, pending_priority, fault>>
      /\ ~running_irq /\ running_irq' = TRUE /\ slice_due' \in BOOLEAN
  BY DEF IrqEnter, NoReschedule, taskVars, pendVars
<1>2. QueuesOK'
  BY <1>1 DEF IInv, QueuesOK, LevelsMatch
<1>3. CpuOK
  BY DEF IInv
<1>4. RunningIsHead' /\ TopPriorityRuns' /\ PendingBound'
  BY <1>1, <1>3 DEF CpuOK, RunningIsHead, TopPriorityRuns, PendingBound, Ready
<1>5. \A t \in Task : Ready(t) => running_task # NULL
                                  /\ ~(priority[t] < priority[running_task])
  <2> SUFFICES ASSUME NEW t \in Task, Ready(t)
               PROVE  running_task # NULL /\ ~(priority[t] < priority[running_task])
    OBVIOUS
  <2>1. running_task # NULL /\ priority[running_task] <= priority[t]
    BY <1>1, <1>3 DEF CpuOK, TopPriorityRuns
  <2>2. priority[running_task] \in Nat /\ priority[t] \in Nat
    BY <2>1, Facts
  <2>3. QED
    BY <2>1, <2>2
<1>6. running_task # NULL => queue[ReadyQ(priority[running_task])][1] = running_task
  BY <1>1, Facts
<1>7. PendingCoversReady'
  BY <1>1, <1>5, <1>6 DEF PendingCoversReady, Ready, ReadyQ
<1>8. CpuOK'
  BY <1>1, <1>3, <1>4, <1>7 DEF CpuOK
<1>9. RestOK'
  BY <1>1 DEF IInv, RestOK
<1>10. QED
  BY <1>2, <1>8, <1>9 DEF IInv

(* timer_handler() puts the head of the running level at its end: every    *)
(* queue keeps its tasks.                                                  *)
LEMMA TimerHandlerQueues ==
  ASSUME IInv, TimerHandler, running_task \in timeshare, running_task # NULL
  PROVE  /\ queue' \in [Queue -> Seq(Task)] /\ Unique(queue')
         /\ \A q \in Queue : \A u : Contains(queue'[q], u) <=> Contains(queue[q], u)
         /\ \A q \in Queue : q # ReadyQ(priority[running_task]) => queue'[q] = queue[q]
         /\ Reschedule(priority[running_task])
<1> DEFINE a == ReadyQ(priority[running_task])
           h == Head(queue[a])
           M == [queue EXCEPT ![a] = Tail(@)]
<1>1. /\ queue' = [queue EXCEPT ![a] = Append(Tail(@), h)]
      /\ Reschedule(priority[running_task])
  BY DEF TimerHandler
<1>2. /\ a \in Queue /\ queue \in [Queue -> Seq(Task)] /\ Unique(queue)
      /\ queue[a] \in Seq(Task) /\ queue[a] # <<>>
      /\ priority[running_task] \in Prio /\ priority[running_task] \in Nat
      /\ running_task \in Task /\ Contains(queue[a], running_task)
  BY Facts
<1>3. /\ h \in Task /\ Contains(queue[a], h) /\ Tail(queue[a]) \in Seq(Task)
      /\ h = Head(queue[a])
  BY <1>2, NonEmpty, HeadTailProperties
<1>4. /\ M \in [Queue -> Seq(Task)] /\ M[a] = Tail(queue[a])
      /\ \A p \in Queue : p # a => M[p] = queue[p]
  BY <1>2, <1>3
<1>5. queue' = [M EXCEPT ![a] = Append(@, h)]
  BY <1>1, <1>2, <1>4
<1> HIDE DEF a, h, M
<1>6. /\ queue' \in [Queue -> Seq(Task)] /\ queue'[a] = Append(M[a], h)
      /\ \A p \in Queue : p # a => queue'[p] = M[p]
  <2>1. Append(M[a], h) \in Seq(Task)
    BY <1>3, <1>4, AppendHead
  <2>2. QED
    BY <1>2, <1>4, <1>5, <2>1
<1>7. Loses(queue, M, h)
  BY <1>2, <1>3, <1>4, Dequeued
<1>8. Absent(M, h) /\ Unique(M)
  BY <1>7 DEF Loses
<1>9. Gains(M, queue', a, h)
  BY <1>2, <1>3, <1>4, <1>6, <1>8, Appended
<1>10. Moves(queue, queue', a, h)
  BY <1>2, <1>7, <1>9, LosesThenGains
<1>11. \A q \in Queue : \A u : Contains(queue'[q], u) <=> Contains(queue[q], u)
  <2>1. \A q \in Queue : Contains(queue[q], h) => q = a
    <3> SUFFICES ASSUME NEW q \in Queue, Contains(queue[q], h) PROVE q = a
      OBVIOUS
    <3>1. PICK i \in 1 .. Len(queue[q]) : queue[q][i] = h
      BY DEF Contains
    <3>2. PICK j \in 1 .. Len(queue[a]) : queue[a][j] = h
      BY <1>3 DEF Contains
    <3>3. i \in DOMAIN queue[q] /\ j \in DOMAIN queue[a]
      BY <1>2, LenProperties
    <3>4. QED
      BY <1>2, <3>1, <3>2, <3>3 DEF Unique
  <2>2. QED
    BY <1>3, <1>10, <2>1 DEF Moves
<1>12. Unique(queue') /\ \A q \in Queue : q # a => queue'[q] = queue[q]
  BY <1>4, <1>6, <1>10 DEF Moves
<1>13. QED
  BY <1>1, <1>6, <1>11, <1>12 DEF a

LEMMA TimerHandlerInv ==
  ASSUME IInv, TimerHandler
  PROVE  IInv'
<1>1. /\ UNCHANGED <<selfLinked, priority, timeshare, irqs_off, running_irq, fault>>
      /\ slice_due /\ slice_due' = FALSE
  BY DEF TimerHandler
<1>2. running_irq /\ running_irq' /\ CpuOK /\ QueuesOK
  BY <1>1 DEF IInv, RestOK
<1>3. RestOK'
  BY <1>1 DEF IInv, RestOK
<1>4. CASE running_task # NULL /\ running_task \in timeshare
  <2> DEFINE a == ReadyQ(priority[running_task])
  <2>1. /\ queue' \in [Queue -> Seq(Task)] /\ Unique(queue')
        /\ \A q \in Queue : \A u : Contains(queue'[q], u) <=> Contains(queue[q], u)
        /\ Reschedule(priority[running_task])
    BY <1>4, TimerHandlerQueues
  <2>2. /\ a \in Queue /\ running_task \in Task /\ Contains(queue[a], running_task)
        /\ priority[running_task] \in Prio /\ priority[running_task] \in Nat
    BY <1>4, Facts
  <2> HIDE DEF a
  <2>12. QueuesOK'
    BY <1>1, <2>1, Facts, QueueNames DEF QueuesOK, LevelsMatch, ReadyQ
  <2>13. Contains(queue'[a], running_task)
    BY <2>1, <2>2
  <2>14. \A u \in Task : Ready(u)' => Ready(u) /\ priority'[u] = priority[u]
    <3> SUFFICES ASSUME NEW u \in Task, Ready(u)'
                 PROVE  Ready(u) /\ priority'[u] = priority[u]
      OBVIOUS
    <3>1. Contains(queue'[ReadyQ(priority[u])], u)
      BY <1>1 DEF Ready, ReadyQ
    <3>2. ReadyQ(priority[u]) \in Queue
      BY Facts, QueueNames
    <3>3. QED
      BY <1>1, <2>1, <3>1, <3>2 DEF Ready
  <2>15. priority[running_task] <= priority[running_task]
    BY <2>2
  <2>16. CpuOK'
    BY <1>1, <1>2, <2>1, <2>2, <2>12, <2>13, <2>14, <2>15, RescheduleLater DEF a
  <2>17. QED
    BY <1>3, <2>12, <2>16 DEF IInv
<1>5. CASE ~(running_task # NULL /\ running_task \in timeshare)
  <2>1. UNCHANGED <<queue, running_task, pending, pending_priority>>
    BY <1>5 DEF TimerHandler, NoReschedule, pendVars
  <2>2. QueuesOK'
    BY <1>1, <2>1 DEF IInv, QueuesOK, LevelsMatch
  <2>3. CpuOK'
    BY <1>1, <2>1 DEF IInv, CpuOK, RunningIsHead, TopPriorityRuns, PendingCoversReady,
       PendingBound, Ready
  <2>4. QED
    BY <1>3, <2>2, <2>3 DEF IInv
<1>6. QED
  BY <1>4, <1>5

(* At the end of the interrupt what is pending covers everything better    *)
(* than the interrupted task, so the scan from pending_priority is enough. *)
LEMMA IrqExitInv ==
  ASSUME IInv, IrqExit
  PROVE  IInv'
<1>1. /\ UNCHANGED <<queue, selfLinked, priority, timeshare, irqs_off, slice_due, fault>>
      /\ running_irq /\ ~slice_due /\ running_irq' = FALSE /\ pending' = FALSE
  BY DEF IrqExit, taskVars
<1>2. QueuesOK'
  BY <1>1 DEF IInv, QueuesOK, LevelsMatch
<1>3. RestOK'
  BY <1>1 DEF IInv, RestOK
<1>4. CpuOK
  BY DEF IInv
<1>5. CASE pending
  <2>1. /\ pending_priority' = NumPriorityLevels
        /\ running_task' = FirstReady(queue, pending_priority)
    BY <1>5 DEF IrqExit
  <2>2. pending_priority \in Nat
    BY <1>4, TaskmanAssumption DEF CpuOK
  <2>3. \A t \in Task : Contains(queue[ReadyQ(priority[t])], t) => pending_priority <= priority[t]
    <3> SUFFICES ASSUME NEW t \in Task, Ready(t)
                 PROVE  pending_priority <= priority[t]
      BY DEF Ready
    <3>1. CASE running_task = NULL \/ priority[t] < priority[running_task]
      BY <1>1, <1>4, <3>1 DEF CpuOK, PendingCoversReady
    <3>2. CASE ~(running_task = NULL \/ priority[t] < priority[running_task])
      <4>1. pending_priority <= priority[running_task]
        BY <1>4, <1>5, <3>2 DEF CpuOK, PendingBound
      <4>2. priority[running_task] \in Nat /\ priority[t] \in Nat
        BY <3>2, Facts
      <4>3. QED
        BY <2>2, <3>2, <4>1, <4>2
    <3>3. QED
      BY <3>1, <3>2
  <2>4. Dispatched(queue, priority, running_task')
    <3>1. Dispatched(queue, priority, FirstReady(queue, pending_priority))
      BY <2>2, <2>3, Facts, ScanDispatches
    <3>2. QED
      BY <2>1, <3>1
  <2>5. pending_priority' \in 0 .. NumPriorityLevels
    BY <2>1, TaskmanAssumption
  <2>6. CpuOK'
    BY <1>1, <2>4, <2>5 DEF CpuOK, Dispatched, RunningIsHead, TopPriorityRuns,
       PendingCoversReady, PendingBound, Ready, ReadyQ
  <2>7. QED
    BY <1>2, <1>3, <2>6 DEF IInv
<1>6. CASE ~pending
  <2>1. UNCHANGED <<pending_priority, running_task>>
    BY <1>6 DEF IrqExit
  <2>2. \A t \in Task : Ready(t) =>
          running_task # NULL /\ ~(priority[t] < priority[running_task])
    BY <1>1, <1>4, <1>6 DEF CpuOK, PendingCoversReady
  <2>3. \A t \in Task : Ready(t) =>
          running_task # NULL /\ priority[running_task] <= priority[t]
    BY <2>2, Facts
  <2>4. RunningIsHead'
    BY <1>1, <1>4, <1>6, <2>1 DEF CpuOK, RunningIsHead, PendingCoversReady, Ready, ReadyQ
  <2>5. TopPriorityRuns' /\ PendingCoversReady' /\ PendingBound'
    BY <1>1, <2>1, <2>3 DEF TopPriorityRuns, PendingCoversReady, PendingBound, Ready
  <2>6. CpuOK'
    BY <1>1, <1>4, <2>1, <2>4, <2>5 DEF CpuOK
  <2>7. QED
    BY <1>2, <1>3, <2>6 DEF IInv
<1>7. QED
  BY <1>5, <1>6

LEMMA InitInv == Init => IInv
<1> SUFFICES ASSUME Init PROVE IInv
  OBVIOUS
<1>1. PICK t \in Task, p \in Prio :
        /\ queue = [q \in Queue |-> IF q = ReadyQ(p) THEN <<t>> ELSE <<>>]
        /\ priority = [u \in Task |-> IF u = t THEN p ELSE 0]
        /\ timeshare \in {{}, {t}}
        /\ running_task = t
  BY DEF Init
<1>2. /\ selfLinked = {} /\ irqs_off = {} /\ running_irq = FALSE /\ slice_due = FALSE
      /\ pending = FALSE /\ pending_priority = NumPriorityLevels /\ fault = FALSE
  BY DEF Init
<1>3. priority \in [Task -> Prio] /\ priority[t] = p
  BY <1>1, PrioIsNat
<1>4. /\ ReadyQ(p) \in Queue /\ queue[ReadyQ(p)] = <<t>>
      /\ \A q \in Queue : q # ReadyQ(p) => queue[q] = <<>>
  BY <1>1, QueueNames
<1>5. <<t>> \in Seq(Task) /\ <<>> \in Seq(Task) /\ <<t>>[1] = t
      /\ \A i : (i \in DOMAIN <<t>> => i = 1) /\ i \notin DOMAIN <<>>
  OBVIOUS
<1>6. queue \in [Queue -> Seq(Task)]
  BY <1>1, <1>5
<1>7. ASSUME NEW q \in Queue, NEW i \in DOMAIN queue[q]
      PROVE  q = ReadyQ(p) /\ i = 1 /\ queue[q][i] = t
  <2>1. CASE q = ReadyQ(p)
    BY <1>4, <1>5, <1>7, <2>1
  <2>2. CASE q # ReadyQ(p)
    BY <1>4, <1>5, <1>7, <2>2
  <2>3. QED
    BY <2>1, <2>2
<1>8. Unique(queue)
  BY <1>7 DEF Unique
<1>9. \A q \in Queue : \A u : Contains(queue[q], u) => q = ReadyQ(p) /\ u = t
  <2> SUFFICES ASSUME NEW q \in Queue, NEW u, Contains(queue[q], u)
               PROVE  q = ReadyQ(p) /\ u = t
    OBVIOUS
  <2>1. PICK i \in 1 .. Len(queue[q]) : queue[q][i] = u
    BY DEF Contains
  <2>2. i \in DOMAIN queue[q]
    BY <1>6, <2>1, LenProperties
  <2>3. QED
    BY <1>7, <2>1, <2>2
<1>10. LevelsMatch
  <2> SUFFICES ASSUME NEW r \in Prio, NEW u \in Task, Contains(queue[ReadyQ(r)], u)
               PROVE  priority[u] = r
    BY DEF LevelsMatch
  <2>1. ReadyQ(r) = ReadyQ(p) /\ u = t
    BY <1>9, QueueNames
  <2>2. QED
    BY <1>3, <2>1, QueueNames
<1>11. Contains(queue[ReadyQ(p)], t) /\ queue[ReadyQ(p)][1] = t
  BY <1>4, <1>5, <1>6, NonEmpty, EmptySeq
<1>12. RunningIsHead
  BY <1>1, <1>3, <1>11 DEF RunningIsHead, Ready
<1>13. TopPriorityRuns
  <2> SUFFICES ASSUME NEW u \in Task, Ready(u)
               PROVE  running_task # NULL /\ priority[running_task] <= priority[u]
    BY DEF TopPriorityRuns
  <2>1. u = t
    BY <1>3, <1>9, QueueNames DEF Ready
  <2>2. QED
    BY <1>1, <1>3, <2>1, PrioIsNat, TaskmanAssumption
<1>14. CpuOK
  <2>1. pending_priority \in 0 .. NumPriorityLevels
    BY <1>2, TaskmanAssumption
  <2>2. PendingCoversReady /\ PendingBound
    BY <1>2 DEF PendingCoversReady, PendingBound
  <2>3. QED
    BY <1>1, <1>2, <1>12, <1>13, <2>1, <2>2 DEF CpuOK
<1>15. QED
  BY <1>1, <1>2, <1>3, <1>6, <1>8, <1>10, <1>14 DEF IInv, QueuesOK, RestOK

LEMMA NextInv ==
  ASSUME InversionFree, IInv, [Next]_vars
  PROVE  IInv'
<1>1. ASSUME NEW t \in Task, NEW p \in Prio, NEW share \in BOOLEAN, StartTask(t, p, share)
      PROVE  IInv'
  BY <1>1, StartTaskInv
<1>2. CASE Terminate
  BY <1>2, TerminateInv
<1>3. ASSUME NEW q \in Queue, NEW i \in DOMAIN queue[q], EndTask(q, i)
      PROVE  IInv'
  BY <1>3, EndTaskInv
<1>4. ASSUME NEW q \in Queue, Nap(q)
      PROVE  IInv'
  BY <1>4, NapInv
<1>5. ASSUME NEW q \in Queue, Wake(q)
      PROVE  IInv'
  BY <1>5, WakeInv
<1>6. ASSUME NEW p \in Prio, SetRunningTaskPriority(p)
      PROVE  IInv'
  BY <1>6, SetRunningTaskPriorityInv
<1>7. ASSUME NEW q \in Queue, NEW i \in DOMAIN queue[q], NEW p \in Prio,
             SetTaskPriority(q, i, p)
      PROVE  IInv'
  BY <1>7, SetTaskPriorityInv
<1>8. ASSUME NEW t \in Task, SetTaskOptions(t)
      PROVE  IInv'
  BY <1>8, SetTaskOptionsInv
<1>9. ASSUME NEW timer \in BOOLEAN, IrqEnter(timer)
      PROVE  IInv'
  BY <1>9, IrqEnterInv
<1>10. CASE TimerHandler
  BY <1>10, TimerHandlerInv
<1>11. CASE IrqExit
  BY <1>11, IrqExitInv
<1>12. CASE UNCHANGED vars
  <2>1. /\ UNCHANGED <<queue, priority, selfLinked, timeshare, irqs_off, running_task>>
        /\ UNCHANGED <<running_irq, slice_due, pending, pending_priority, fault>>
    BY <1>12 DEF vars, taskVars, irqVars, pendVars
  <2>2. QueuesOK'
    BY <2>1 DEF IInv, QueuesOK, LevelsMatch
  <2>3. CpuOK'
    BY <2>1 DEF IInv, CpuOK, RunningIsHead, TopPriorityRuns, PendingCoversReady,
       PendingBound, Ready
  <2>4. RestOK'
    BY <2>1 DEF IInv, RestOK
  <2>5. QED
    BY <2>2, <2>3, <2>4 DEF IInv
<1>13. QED
  BY <1>1, <1>2, <1>3, <1>4, <1>5, <1>6, <1>7, <1>8, <1>9, <1>10, <1>11, <1>12 DEF Next

(* The inductive invariant holds in every run of the task manager whose    *)
(* callers never raise another task past its peers to a priority that is   *)
(* still worse than the running one.                                       *)
LEMMA Inductive ==
  ASSUME InversionFree
  PROVE  Spec => []IInv
<1>1. IInv /\ [Next]_vars => IInv'
  BY NextInv
<1>2. QED
  BY <1>1, InitInv, PTL DEF Spec

(* Every queue is a sequence of tasks, and every variable has its type:    *)
(* no operation takes the head of an empty queue, nor leaves the CPU with  *)
(* something that is not a task.                                           *)
THEOREM TypeCorrect ==
  ASSUME InversionFree
  PROVE  Spec => []TypeOK
<1>1. IInv => TypeOK
  BY DEF IInv, QueuesOK, CpuOK, RestOK, TypeOK
<1>2. QED
  BY <1>1, Inductive, PTL

(* No operation of the task manager puts a task on a second queue, or on   *)
(* one queue twice ("tasks may be only in one of two possible states").    *)
THEOREM QueuesAreDisjoint ==
  ASSUME InversionFree
  PROVE  Spec => []OnOneQueue
<1>1. IInv => OnOneQueue
  BY DEF IInv, QueuesOK, Unique, OnOneQueue
<1>2. QED
  BY <1>1, Inductive, PTL

(* The running task is ready, and outside handlers it is the head of its   *)
(* level: what nap(), terminate() and set_running_task_priority() dequeue  *)
(* is their caller.                                                        *)
THEOREM CallerIsDequeued ==
  ASSUME InversionFree
  PROVE  Spec => []RunningIsHead
<1>1. IInv => RunningIsHead
  BY DEF IInv, CpuOK
<1>2. QED
  BY <1>1, Inductive, PTL

(* The scheduling policy: outside handlers no ready task has a better      *)
(* priority than the running one, and the CPU idles only when no task is   *)
(* ready.                                                                  *)
THEOREM BestTaskRuns ==
  ASSUME InversionFree
  PROVE  Spec => []TopPriorityRuns
<1>1. IInv => TopPriorityRuns
  BY DEF IInv, CpuOK
<1>2. QED
  BY <1>1, Inductive, PTL

(* A reschedule that a handler asked for is never lost, and it will scan   *)
(* from a level good enough for every task that became ready.              *)
THEOREM NoRescheduleIsLost ==
  ASSUME InversionFree
  PROVE  Spec => []PendingCoversReady
<1>1. IInv => PendingCoversReady
  BY DEF IInv, CpuOK
<1>2. QED
  BY <1>1, Inductive, PTL
-----------------------------------------------------------------------------
(* The queues of tasks that wait: nap's, and the system's TASK_WAITING.    *)
Waiting == Queue \ (Prio \X {READY})

SortedBy(s, prio) ==
  \A i, j \in DOMAIN s : i < j => prio[s[i]] <= prio[s[j]]

LEMMA WaitingQueues ==
  \A w \in Waiting : w \in Queue /\ \A p \in Prio : w # ReadyQ(p)
  BY QueueNames DEF Waiting
-----------------------------------------------------------------------------
(* Removing, inserting in its place and leaving alone keep the order.      *)

LEMMA RemoveKeepsSorted ==
  ASSUME NEW s \in Seq(Task), NEW prio, NEW i \in 1 .. Len(s), SortedBy(s, prio)
  PROVE  SortedBy(RemoveAt(s, i), prio)
<1> DEFINE r == RemoveAt(s, i)
           old(j) == IF j < i THEN j ELSE j+1
<1>1. /\ r \in Seq(Task) /\ Len(r) = Len(s) - 1
      /\ \A j \in 1 .. Len(s) - 1 : r[j] = IF j < i THEN s[j] ELSE s[j+1]
  BY RemoveAtIsSeq
<1>2. Len(s) \in Nat /\ DOMAIN s = 1 .. Len(s) /\ DOMAIN r = 1 .. Len(s) - 1
  BY <1>1, LenProperties
<1> HIDE DEF r
<1>3. ASSUME NEW j \in DOMAIN r PROVE old(j) \in DOMAIN s /\ r[j] = s[old(j)]
  BY <1>1, <1>2
<1>4. ASSUME NEW j \in DOMAIN r, NEW k \in DOMAIN r, j < k PROVE old(j) < old(k)
  BY <1>2, <1>4
<1> HIDE DEF old
<1>5. \A j, k \in DOMAIN r : j < k => prio[r[j]] <= prio[r[k]]
  BY <1>3, <1>4 DEF SortedBy
<1>6. QED
  BY <1>5 DEF SortedBy, r

LEMMA RemovedFromContents ==
  ASSUME NEW s \in Seq(Task), NEW i \in 1 .. Len(s), NEW u,
         Contains(RemoveAt(s, i), u)
  PROVE  Contains(s, u)
<1>1. /\ Len(RemoveAt(s, i)) = Len(s) - 1
      /\ \A j \in 1 .. Len(s) - 1 :
           RemoveAt(s, i)[j] = IF j < i THEN s[j] ELSE s[j+1]
  BY RemoveAtIsSeq
<1>2. PICK j \in 1 .. Len(s) - 1 : RemoveAt(s, i)[j] = u
  BY <1>1 DEF Contains
<1>3. Len(s) \in Nat
  BY LenProperties
<1>4. j \in 1 .. Len(s) /\ j+1 \in 1 .. Len(s)
  BY <1>3
<1>5. QED
  BY <1>1, <1>2, <1>4 DEF Contains

LEMMA InsertKeepsSorted ==
  ASSUME NEW s \in Seq(Task), NEW t \in Task, priority \in [Task -> Prio],
         SortedBy(s, priority)
  PROVE  SortedBy(InsertAt(s, InsertPos(s, t), t), priority)
<1>1. /\ InsertPos(s, t) \in 1 .. Len(s) + 1
      /\ InsertPos(s, t) <= Len(s) => priority[t] < priority[s[InsertPos(s, t)]]
      /\ \A j \in 1 .. InsertPos(s, t) - 1 : priority[s[j]] <= priority[t]
  BY InsertPosFound
<1>2. PICK n \in 1 .. Len(s) + 1 : n = InsertPos(s, t)
  BY <1>1
<1>3. /\ n <= Len(s) => priority[t] < priority[s[n]]
      /\ \A j \in 1 .. n - 1 : priority[s[j]] <= priority[t]
  BY <1>1, <1>2
<1> DEFINE r == InsertAt(s, n, t)
<1>4. /\ r \in Seq(Task) /\ Len(r) = Len(s) + 1
      /\ \A j \in 1 .. Len(s) + 1 :
           r[j] = IF j < n THEN s[j] ELSE IF j = n THEN t ELSE s[j-1]
  BY InsertAtIsSeq
<1>5. Len(s) \in Nat /\ DOMAIN s = 1 .. Len(s) /\ DOMAIN r = 1 .. Len(s) + 1
  BY <1>4, LenProperties
<1> HIDE DEF r
<1>6. \A j \in 1 .. Len(s) : priority[s[j]] \in Nat
  BY <1>5, ElementOfSeq, PrioIsNat
<1>7. priority[t] \in Nat
  BY PrioIsNat
<1>8. \A j, k \in 1 .. Len(s) : j < k => priority[s[j]] <= priority[s[k]]
  BY <1>5 DEF SortedBy
<1>9. \A j \in 1 .. Len(s) : j >= n => priority[t] <= priority[s[j]]
  <2> SUFFICES ASSUME NEW j \in 1 .. Len(s), j >= n PROVE priority[t] <= priority[s[j]]
    OBVIOUS
  <2>1. n \in 1 .. Len(s) /\ priority[t] < priority[s[n]]
    BY <1>3, <1>5
  <2>2. priority[s[n]] <= priority[s[j]]
    BY <1>6, <1>8, <2>1
  <2>3. QED
    BY <1>6, <1>7, <2>1, <2>2
<1>10. ASSUME NEW j \in 1 .. Len(s) + 1, NEW k \in 1 .. Len(s) + 1, j < k
       PROVE  priority[r[j]] <= priority[r[k]]
  <2>1. CASE k < n
    <3>1. j \in 1 .. Len(s) /\ k \in 1 .. Len(s) /\ r[j] = s[j] /\ r[k] = s[k]
      BY <1>4, <1>5, <1>10, <2>1
    <3>2. QED
      BY <1>8, <1>10, <3>1
  <2>2. CASE k = n
    <3>1. j \in 1 .. n - 1 /\ r[j] = s[j] /\ r[k] = t
      BY <1>4, <1>5, <1>10, <2>2
    <3>2. QED
      BY <1>3, <3>1
  <2>3. CASE k > n /\ j < n
    <3>1. j \in 1 .. n - 1 /\ j \in 1 .. Len(s) /\ r[j] = s[j]
      BY <1>4, <1>5, <1>10, <2>3
    <3>2. k-1 \in 1 .. Len(s) /\ k-1 >= n /\ r[k] = s[k-1]
      BY <1>4, <1>5, <2>3
    <3>3. priority[s[j]] <= priority[t] /\ priority[t] <= priority[s[k-1]]
      BY <1>3, <1>9, <3>1, <3>2
    <3>4. priority[s[j]] \in Nat /\ priority[s[k-1]] \in Nat
      BY <1>6, <3>1, <3>2
    <3>5. QED
      BY <1>7, <3>1, <3>2, <3>3, <3>4
  <2>4. CASE k > n /\ j = n
    <3>1. k-1 \in 1 .. Len(s) /\ k-1 >= n /\ r[k] = s[k-1] /\ r[j] = t
      BY <1>4, <1>5, <2>4
    <3>2. QED
      BY <1>9, <3>1
  <2>5. CASE k > n /\ j > n
    <3>1. /\ k-1 \in 1 .. Len(s) /\ j-1 \in 1 .. Len(s) /\ j-1 < k-1
          /\ r[k] = s[k-1] /\ r[j] = s[j-1]
      BY <1>4, <1>5, <1>10, <2>5
    <3>2. QED
      BY <1>8, <3>1
  <2>6. QED
    BY <1>5, <2>1, <2>2, <2>3, <2>4, <2>5
<1>11. SortedBy(r, priority)
  BY <1>5, <1>10 DEF SortedBy
<1>12. QED
  BY <1>2, <1>11 DEF r

(* Only the priorities of the tasks on the queue matter.                   *)
LEMMA SamePrioritiesSorted ==
  ASSUME NEW s \in Seq(Task), NEW p1, NEW p2, SortedBy(s, p1),
         \A u : Contains(s, u) => p2[u] = p1[u]
  PROVE  SortedBy(s, p2)
<1>1. DOMAIN s = 1 .. Len(s)
  BY LenProperties
<1>2. \A i \in DOMAIN s : p2[s[i]] = p1[s[i]]
  BY <1>1 DEF Contains
<1>3. QED
  BY <1>2 DEF SortedBy
-----------------------------------------------------------------------------
(* What one step does to a wait queue w: it leaves it alone, takes one     *)
(* task out, or inserts one task in its place; who stays keeps its         *)
(* priority, and only the head becomes ready.                              *)
WaitersStep(w) ==
  /\ \/ queue'[w] = queue[w]
     \/ \E i \in 1 .. Len(queue[w]) : queue'[w] = RemoveAt(queue[w], i)
     \/ \E t \in Task : /\ UNCHANGED priority
                        /\ queue'[w] = InsertAt(queue[w], InsertPos(queue[w], t), t)
  /\ \A u \in Task : Contains(queue[w], u) /\ Contains(queue'[w], u) =>
       priority'[u] = priority[u]
  /\ \A u \in Task, p \in Prio :
       Contains(queue[w], u) /\ Contains(queue'[ReadyQ(p)], u) => u = Head(queue[w])

LEMMA OnOneQueueOnly ==
  ASSUME IInv, NEW q \in Queue, NEW r \in Queue, NEW u,
         Contains(queue[q], u), Contains(queue[r], u)
  PROVE  q = r
<1>1. PICK i \in 1 .. Len(queue[q]) : queue[q][i] = u
  BY DEF Contains
<1>2. PICK j \in 1 .. Len(queue[r]) : queue[r][j] = u
  BY DEF Contains
<1>3. i \in DOMAIN queue[q] /\ j \in DOMAIN queue[r]
  BY Facts, LenProperties
<1>4. QED
  BY <1>1, <1>2, <1>3, Facts DEF Unique

(* Who waits is not ready, and is not the running task.                    *)
LEMMA WaitersAreNotReady ==
  ASSUME IInv, NEW w \in Waiting, NEW u \in Task, Contains(queue[w], u)
  PROVE  /\ \A p \in Prio : ~Contains(queue[ReadyQ(p)], u)
         /\ ~Ready(u)
         /\ u # running_task
<1>1. \A p \in Prio : ~Contains(queue[ReadyQ(p)], u)
  BY OnOneQueueOnly, WaitingQueues, QueueNames
<1>2. ~Ready(u)
  BY <1>1, Facts DEF Ready
<1>3. QED
  BY <1>1, <1>2, Facts

(* Nothing happens to w or to a task on it.                                *)
LEMMA LeftAlone ==
  ASSUME NEW w \in Waiting, queue'[w] = queue[w],
         \A u \in Task : Contains(queue[w], u) =>
           /\ priority'[u] = priority[u]
           /\ \A p \in Prio : ~Contains(queue'[ReadyQ(p)], u)
  PROVE  WaitersStep(w)
  BY DEF WaitersStep

LEMMA WaitersUnchanged ==
  ASSUME IInv, NEW w \in Waiting, UNCHANGED <<queue, priority>>
  PROVE  WaitersStep(w)
<1>1. \A u \in Task : Contains(queue[w], u) =>
        \A p \in Prio : ~Contains(queue'[ReadyQ(p)], u)
  BY WaitersAreNotReady
<1>2. QED
  BY <1>1, LeftAlone

LEMMA StartTaskWaiters ==
  ASSUME IInv, NEW w \in Waiting, NEW t \in Task, NEW p \in Prio, NEW share \in BOOLEAN,
         StartTask(t, p, share)
  PROVE  WaitersStep(w)
<1>1. w \in Queue /\ ReadyQ(p) \in Queue /\ w # ReadyQ(p)
  BY WaitingQueues, QueueNames
<1>2. queue'[w] = queue[w]
  BY <1>1, StartTaskQueues
<1>3. ASSUME NEW u \in Task, Contains(queue[w], u), NEW r \in Prio
      PROVE  priority'[u] = priority[u] /\ ~Contains(queue'[ReadyQ(r)], u)
  <2>1. u # t
    BY <1>1, <1>3, StartTaskQueues DEF Absent
  <2>2. ~Contains(queue[ReadyQ(r)], u) /\ ReadyQ(r) \in Queue
    BY <1>3, WaitersAreNotReady, QueueNames
  <2>3. Gains(queue, queue', ReadyQ(p), t)
    BY StartTaskQueues
  <2>4. ~Contains(queue'[ReadyQ(r)], u)
    BY <2>1, <2>2, <2>3 DEF Gains
  <2>5. QED
    BY <2>1, <2>4, StartTaskQueues
<1>4. QED
  BY <1>2, <1>3, LeftAlone, PrioIsNat

LEMMA TerminateWaiters ==
  ASSUME IInv, NEW w \in Waiting, Terminate
  PROVE  WaitersStep(w)
<1>1. CASE Fault
  BY <1>1, WaitersUnchanged DEF Fault, taskVars
<1>2. CASE ~Fault
  <2>1. running_task \in Task /\ priority[running_task] \in Prio
    BY Facts DEF Terminate, InTask
  <2>2. w \in Queue /\ w # ReadyQ(priority[running_task])
    BY <2>1, WaitingQueues
  <2>3. queue'[w] = queue[w]
    BY <1>2, <2>2, TerminateQueues
  <2>4. ASSUME NEW u \in Task, Contains(queue[w], u), NEW r \in Prio
        PROVE  priority'[u] = priority[u] /\ ~Contains(queue'[ReadyQ(r)], u)
    <3>1. u # running_task /\ ~Contains(queue[ReadyQ(r)], u) /\ ReadyQ(r) \in Queue
      BY <2>4, WaitersAreNotReady, QueueNames
    <3>2. Loses(queue, queue', running_task)
      BY <1>2, TerminateQueues
    <3>3. ~Contains(queue'[ReadyQ(r)], u)
      BY <3>1, <3>2 DEF Loses
    <3>4. QED
      BY <1>2, <3>1, <3>3, TerminateQueues
  <2>5. QED
    BY <2>3, <2>4, LeftAlone, PrioIsNat
<1>3. QED
  BY <1>1, <1>2

LEMMA EndTaskWaiters ==
  ASSUME IInv, NEW w \in Waiting, NEW q \in Queue, NEW i \in DOMAIN queue[q], EndTask(q, i)
  PROVE  WaitersStep(w)
<1>1. CASE Fault
  BY <1>1, WaitersUnchanged DEF Fault, taskVars
<1>2. CASE ~Fault
  <2> DEFINE t == queue[q][i]
  <2>1. /\ queue' = Delete(queue, q, i) /\ InTask /\ t # running_task
        /\ priority' = [priority EXCEPT ![t] = 0]
    BY <1>2 DEF EndTask, Forget
  <2>2. t \in Task /\ Loses(queue, queue', t)
    BY <2>1, DeletedOther
  <2>3. queue'[q] = RemoveAt(queue[q], i) /\ \A r \in Queue : r # q => queue'[r] = queue[r]
    BY <2>1, Facts DEF Delete
  <2>4. i \in 1 .. Len(queue[q]) /\ w \in Queue
    BY Facts, LenProperties, WaitingQueues
  <2> HIDE DEF t
  <2>5. ASSUME NEW u \in Task, u # t, Contains(queue[w], u), NEW r \in Prio
        PROVE  priority'[u] = priority[u] /\ ~Contains(queue'[ReadyQ(r)], u)
    <3>1. ~Contains(queue[ReadyQ(r)], u) /\ ReadyQ(r) \in Queue
      BY <2>5, WaitersAreNotReady, QueueNames
    <3>2. ~Contains(queue'[ReadyQ(r)], u)
      BY <2>2, <2>5, <3>1 DEF Loses
    <3>3. QED
      BY <2>1, <2>5, <3>2, Facts
  <2>6. \A r \in Queue : ~Contains(queue'[r], t)
    BY <2>2 DEF Loses, Absent
  <2>7. \A u \in Task : Contains(queue[w], u) /\ Contains(queue'[w], u) =>
          priority'[u] = priority[u]
    BY <2>4, <2>5, <2>6, PrioIsNat
  <2>8. \A u \in Task, p \in Prio : Contains(queue[w], u) => ~Contains(queue'[ReadyQ(p)], u)
    <3> SUFFICES ASSUME NEW u \in Task, NEW p \in Prio, Contains(queue[w], u)
                 PROVE  ~Contains(queue'[ReadyQ(p)], u)
      OBVIOUS
    <3>1. CASE u = t
      BY <2>6, <3>1, QueueNames
    <3>2. CASE u # t
      BY <2>5, <3>2
    <3>3. QED
      BY <3>1, <3>2
  <2>9. \/ queue'[w] = queue[w]
        \/ \E j \in 1 .. Len(queue[w]) : queue'[w] = RemoveAt(queue[w], j)
    BY <2>3, <2>4
  <2>10. QED
    BY <2>7, <2>8, <2>9 DEF WaitersStep
<1>3. QED
  BY <1>1, <1>2

LEMMA NapWaiters ==
  ASSUME IInv, NEW w \in Waiting, NEW q \in Queue, Nap(q)
  PROVE  WaitersStep(w)
<1>1. CASE Fault
  BY <1>1, WaitersUnchanged DEF Fault, taskVars
<1>2. CASE ~Fault
  <2>1. running_task \in Task /\ priority[running_task] \in Prio
    BY Facts DEF Nap, InTask
  <2>2. w \in Queue /\ w # ReadyQ(priority[running_task])
    BY <2>1, WaitingQueues
  <2>3. /\ Moves(queue, queue', q, running_task)
        /\ queue'[q] = InsertAt(queue[q], InsertPos(queue[q], running_task), running_task)
        /\ \A r \in Queue : r # q /\ r # ReadyQ(priority[running_task]) =>
             queue'[r] = queue[r]
        /\ UNCHANGED priority
    BY <1>2, NapQueues
  <2>4. ASSUME NEW u \in Task, Contains(queue[w], u), NEW r \in Prio
        PROVE  ~Contains(queue'[ReadyQ(r)], u)
    <3>1. u # running_task /\ ~Contains(queue[ReadyQ(r)], u) /\ ReadyQ(r) \in Queue
      BY <2>4, WaitersAreNotReady, QueueNames
    <3>2. QED
      BY <2>3, <3>1 DEF Moves
  <2>5. \/ queue'[w] = queue[w]
        \/ \E t \in Task : /\ UNCHANGED priority
                           /\ queue'[w] = InsertAt(queue[w], InsertPos(queue[w], t), t)
    BY <2>1, <2>2, <2>3
  <2>6. QED
    BY <2>3, <2>4, <2>5 DEF WaitersStep
<1>3. QED
  BY <1>1, <1>2

LEMMA WakeWaiters ==
  ASSUME IInv, NEW w \in Waiting, NEW q \in Queue, Wake(q)
  PROVE  WaitersStep(w)
<1>1. CASE Fault
  BY <1>1, WaitersUnchanged DEF Fault, taskVars
<1>2. CASE ~Fault
  <2> DEFINE t == Head(queue[q])
             p == priority[t]
  <2>1. /\ t \in Task /\ p \in Prio /\ queue[q] # <<>>
        /\ Moves(queue, queue', ReadyQ(p), t)
        /\ queue'[q] = Tail(queue[q])
        /\ \A r \in Queue : r # q /\ r # ReadyQ(p) => queue'[r] = queue[r]
        /\ UNCHANGED priority
    BY <1>2, WakeQueues
  <2>2. w \in Queue /\ w # ReadyQ(p)
    BY <2>1, WaitingQueues
  <2>3. queue[q] \in Seq(Task)
    BY Facts
  <2>4. 1 \in 1 .. Len(queue[q]) /\ queue'[q] = RemoveAt(queue[q], 1)
    BY <2>1, <2>3, TailIsRemoveAt
  <2>5. Contains(queue[q], t)
    BY <2>1, <2>3, NonEmpty
  <2> HIDE DEF t, p
  <2>6. ASSUME NEW u \in Task, Contains(queue[w], u), NEW r \in Prio,
               Contains(queue'[ReadyQ(r)], u)
        PROVE  u = Head(queue[w])
    <3>1. ~Contains(queue[ReadyQ(r)], u) /\ ReadyQ(r) \in Queue
      BY <2>6, WaitersAreNotReady, QueueNames
    <3>2. u = t
      BY <2>1, <2>6, <3>1 DEF Moves
    <3>3. w = q
      BY <2>2, <2>5, <2>6, <3>2, OnOneQueueOnly
    <3>4. QED
      BY <3>2, <3>3 DEF t
  <2>7. \/ queue'[w] = queue[w]
        \/ \E i \in 1 .. Len(queue[w]) : queue'[w] = RemoveAt(queue[w], i)
    BY <2>1, <2>2, <2>4
  <2>8. QED
    BY <2>1, <2>6, <2>7 DEF WaitersStep
<1>3. QED
  BY <1>1, <1>2

LEMMA SetRunningTaskPriorityWaiters ==
  ASSUME IInv, NEW w \in Waiting, NEW p \in Prio, SetRunningTaskPriority(p)
  PROVE  WaitersStep(w)
<1>1. CASE Fault
  BY <1>1, WaitersUnchanged DEF Fault, taskVars
<1>2. CASE ~Fault
  <2>1. running_task \in Task /\ priority[running_task] \in Prio
    BY Facts DEF SetRunningTaskPriority, InTask
  <2>2. w \in Queue /\ w # ReadyQ(priority[running_task]) /\ w # ReadyQ(p)
    BY <2>1, WaitingQueues
  <2>3. /\ Moves(queue, queue', ReadyQ(p), running_task)
        /\ \A u \in Task : u # running_task => priority'[u] = priority[u]
        /\ \A r \in Queue : r # ReadyQ(priority[running_task]) /\ r # ReadyQ(p) =>
             queue'[r] = queue[r]
    BY <1>2, SetRunningTaskPriorityQueues
  <2>4. ASSUME NEW u \in Task, Contains(queue[w], u), NEW r \in Prio
        PROVE  priority'[u] = priority[u] /\ ~Contains(queue'[ReadyQ(r)], u)
    <3>1. u # running_task /\ ~Contains(queue[ReadyQ(r)], u) /\ ReadyQ(r) \in Queue
      BY <2>4, WaitersAreNotReady, QueueNames
    <3>2. QED
      BY <2>3, <3>1 DEF Moves
  <2>5. queue'[w] = queue[w]
    BY <2>2, <2>3
  <2>6. QED
    BY <2>4, <2>5, LeftAlone, PrioIsNat
<1>3. QED
  BY <1>1, <1>2

LEMMA SetTaskPriorityWaiters ==
  ASSUME IInv, NEW w \in Waiting, NEW q \in Queue, NEW i \in DOMAIN queue[q],
         NEW p \in Prio, SetTaskPriority(q, i, p)
  PROVE  WaitersStep(w)
<1>1. CASE Fault
  BY <1>1, WaitersUnchanged DEF Fault, taskVars
<1>2. CASE ~Fault
  <2> DEFINE t == queue[q][i]
  <2>1. /\ t \in Task /\ Ready(t) /\ q = ReadyQ(priority[t])
        /\ Moves(queue, queue', ReadyQ(p), t)
        /\ \A u \in Task : u # t => priority'[u] = priority[u]
        /\ \A r \in Queue : r # q /\ r # ReadyQ(p) => queue'[r] = queue[r]
    BY <1>2, SetTaskPriorityQueues
  <2>2. w \in Queue /\ w # q /\ w # ReadyQ(p)
    BY <2>1, WaitingQueues, Facts
  <2> HIDE DEF t
  <2>3. ASSUME NEW u \in Task, Contains(queue[w], u), NEW r \in Prio
        PROVE  priority'[u] = priority[u] /\ ~Contains(queue'[ReadyQ(r)], u)
    <3>1. u # t /\ ~Contains(queue[ReadyQ(r)], u) /\ ReadyQ(r) \in Queue
      BY <2>1, <2>3, WaitersAreNotReady, QueueNames
    <3>2. QED
      BY <2>1, <3>1 DEF Moves
  <2>4. queue'[w] = queue[w]
    BY <2>1, <2>2
  <2>5. QED
    BY <2>3, <2>4, LeftAlone, PrioIsNat
<1>3. QED
  BY <1>1, <1>2

LEMMA TimerHandlerWaiters ==
  ASSUME IInv, NEW w \in Waiting, TimerHandler
  PROVE  WaitersStep(w)
<1>1. UNCHANGED priority
  BY DEF TimerHandler
<1>2. CASE running_task \in timeshare /\ running_task # NULL
  <2>1. w \in Queue /\ w # ReadyQ(priority[running_task])
    BY <1>2, Facts, WaitingQueues
  <2>2. /\ \A q \in Queue : \A u : Contains(queue'[q], u) <=> Contains(queue[q], u)
        /\ \A q \in Queue : q # ReadyQ(priority[running_task]) => queue'[q] = queue[q]
    BY <1>2, TimerHandlerQueues
  <2>3. \A u \in Task : Contains(queue[w], u) =>
          \A p \in Prio : ~Contains(queue'[ReadyQ(p)], u)
    BY <2>2, WaitersAreNotReady, QueueNames
  <2>4. QED
    BY <1>1, <2>1, <2>2, <2>3, LeftAlone
<1>3. CASE ~(running_task \in timeshare /\ running_task # NULL)
  BY <1>1, <1>3, WaitersUnchanged DEF TimerHandler
<1>4. QED
  BY <1>2, <1>3

LEMMA NextWaiters ==
  ASSUME IInv, [Next]_vars, NEW w \in Waiting
  PROVE  WaitersStep(w)
<1>1. ASSUME NEW t \in Task, NEW p \in Prio, NEW share \in BOOLEAN, StartTask(t, p, share)
      PROVE  WaitersStep(w)
  BY <1>1, StartTaskWaiters
<1>2. CASE Terminate
  BY <1>2, TerminateWaiters
<1>3. ASSUME NEW q \in Queue, NEW i \in DOMAIN queue[q], EndTask(q, i)
      PROVE  WaitersStep(w)
  BY <1>3, EndTaskWaiters
<1>4. ASSUME NEW q \in Queue, Nap(q)
      PROVE  WaitersStep(w)
  BY <1>4, NapWaiters
<1>5. ASSUME NEW q \in Queue, Wake(q)
      PROVE  WaitersStep(w)
  BY <1>5, WakeWaiters
<1>6. ASSUME NEW p \in Prio, SetRunningTaskPriority(p)
      PROVE  WaitersStep(w)
  BY <1>6, SetRunningTaskPriorityWaiters
<1>7. ASSUME NEW q \in Queue, NEW i \in DOMAIN queue[q], NEW p \in Prio,
             SetTaskPriority(q, i, p)
      PROVE  WaitersStep(w)
  BY <1>7, SetTaskPriorityWaiters
<1>8. ASSUME NEW t \in Task, SetTaskOptions(t)
      PROVE  WaitersStep(w)
  BY <1>8, WaitersUnchanged DEF SetTaskOptions
<1>9. ASSUME NEW timer \in BOOLEAN, IrqEnter(timer)
      PROVE  WaitersStep(w)
  BY <1>9, WaitersUnchanged DEF IrqEnter, taskVars
<1>10. CASE TimerHandler
  BY <1>10, TimerHandlerWaiters
<1>11. CASE IrqExit
  BY <1>11, WaitersUnchanged DEF IrqExit, taskVars
<1>12. CASE UNCHANGED vars
  BY <1>12, WaitersUnchanged DEF vars, taskVars
<1>13. QED
  BY <1>1, <1>2, <1>3, <1>4, <1>5, <1>6, <1>7, <1>8, <1>9, <1>10, <1>11, <1>12 DEF Next
-----------------------------------------------------------------------------
LEMMA SortedQueues ==
  ASSUME IInv
  PROVE  WaitersSorted <=> \A w \in Waiting : SortedBy(queue[w], priority)
  BY DEF WaitersSorted, Waiting, SortedBy

(* A step keeps a sorted wait queue sorted.                                *)
LEMMA WaitersStaySorted ==
  ASSUME IInv, IInv', NEW w \in Waiting, WaitersStep(w), SortedBy(queue[w], priority)
  PROVE  SortedBy(queue'[w], priority')
<1>1. queue[w] \in Seq(Task) /\ queue'[w] \in Seq(Task) /\ priority \in [Task -> Prio]
  BY WaitingQueues DEF IInv, QueuesOK
<1>2. ASSUME SortedBy(queue'[w], priority), \A u : Contains(queue'[w], u) => Contains(queue[w], u)
      PROVE  SortedBy(queue'[w], priority')
  <2>1. \A u : Contains(queue'[w], u) => u \in Task
    BY <1>1, ElementOfSeq DEF Contains
  <2>2. \A u : Contains(queue'[w], u) => priority'[u] = priority[u]
    BY <1>2, <2>1 DEF WaitersStep
  <2>3. QED
    BY <1>1, <1>2, <2>2, SamePrioritiesSorted
<1>3. CASE queue'[w] = queue[w]
  BY <1>2, <1>3
<1>4. ASSUME NEW i \in 1 .. Len(queue[w]), queue'[w] = RemoveAt(queue[w], i)
      PROVE  SortedBy(queue'[w], priority')
  <2>1. SortedBy(queue'[w], priority)
    BY <1>1, <1>4, RemoveKeepsSorted
  <2>2. \A u : Contains(queue'[w], u) => Contains(queue[w], u)
    BY <1>1, <1>4, RemovedFromContents
  <2>3. QED
    BY <1>2, <2>1, <2>2
<1>5. ASSUME NEW t \in Task, UNCHANGED priority,
             queue'[w] = InsertAt(queue[w], InsertPos(queue[w], t), t)
      PROVE  SortedBy(queue'[w], priority')
  BY <1>1, <1>5, InsertKeepsSorted
<1>6. QED
  BY <1>3, <1>4, <1>5 DEF WaitersStep

LEMMA InductiveSorted ==
  ASSUME InversionFree
  PROVE  Spec => [](IInv /\ WaitersSorted)
<1>1. Init => WaitersSorted
  <2> SUFFICES ASSUME Init PROVE WaitersSorted
    OBVIOUS
  <2>1. PICK t \in Task, p \in Prio :
          queue = [q \in Queue |-> IF q = ReadyQ(p) THEN <<t>> ELSE <<>>]
    BY DEF Init
  <2>2. \A w \in Waiting : queue[w] = <<>>
    BY <2>1, WaitingQueues
  <2>3. \A w \in Waiting : DOMAIN queue[w] = {}
    BY <2>2
  <2>4. QED
    BY <2>3 DEF WaitersSorted, Waiting
<1>2. ASSUME IInv, WaitersSorted, [Next]_vars PROVE (IInv /\ WaitersSorted)'
  <2>1. IInv'
    BY <1>2, NextInv
  <2>2. ASSUME NEW w \in Waiting PROVE SortedBy(queue'[w], priority')
    BY <1>2, <2>1, NextWaiters, SortedQueues, WaitersStaySorted
  <2>3. WaitersSorted'
    BY <2>2 DEF WaitersSorted, Waiting, SortedBy
  <2>4. QED
    BY <2>1, <2>3
<1>3. QED
  BY <1>1, <1>2, InitInv, PTL DEF Spec

(* The "best guess" of nap() for a mixed-priority queue is right: whatever *)
(* is inserted, removed, killed or reprioritised, the waiters of a queue   *)
(* are in the order of their priorities.                                   *)
THEOREM WaitQueuesStaySorted ==
  ASSUME InversionFree
  PROVE  Spec => []WaitersSorted
<1>1. IInv /\ WaitersSorted => WaitersSorted
  OBVIOUS
<1>2. QED
  BY <1>1, InductiveSorted, PTL

(* A task leaves a wait queue for a ready one from its head only, so wake()*)
(* picks a waiter that no other one outranks and that waited longest among *)
(* its equals.                                                             *)
THEOREM BestWaiterWakes ==
  ASSUME InversionFree
  PROVE  Spec => WakesBestWaiter
<1> DEFINE Best1(q, i) ==
             queue'[ReadyQ(priority[queue[q][i]])] =
               Append(queue[ReadyQ(priority[queue[q][i]])], queue[q][i])
             => \A j \in DOMAIN queue[q] :
                  /\ priority[queue[q][i]] <= priority[queue[q][j]]
                  /\ j < i => priority[queue[q][i]] < priority[queue[q][j]]
<1>1. ASSUME IInv, WaitersSorted, [Next]_vars,
             NEW q \in Waiting, NEW i \in DOMAIN queue[q]
      PROVE  Best1(q, i)
  <2> DEFINE t == queue[q][i]
  <2>1. /\ q \in Queue /\ queue[q] \in Seq(Task)
        /\ DOMAIN queue[q] = 1 .. Len(queue[q]) /\ Len(queue[q]) \in Nat
    BY <1>1, Facts, WaitingQueues, LenProperties
  <2>2. t \in Task /\ Contains(queue[q], t)
    BY <1>1, <2>1, ElementOfSeq DEF Contains
  <2>3. priority[t] \in Prio /\ ReadyQ(priority[t]) \in Queue
    BY <1>1, <2>2, Facts, QueueNames
  <2> SUFFICES ASSUME queue'[ReadyQ(priority[t])] = Append(queue[ReadyQ(priority[t])], t)
               PROVE  \A j \in DOMAIN queue[q] :
                        /\ priority[t] <= priority[queue[q][j]]
                        /\ j < i => priority[t] < priority[queue[q][j]]
    OBVIOUS
  <2> HIDE DEF t
  <2>4. Contains(queue'[ReadyQ(priority[t])], t)
    <3> DEFINE s == queue[ReadyQ(priority[t])]
    <3>1. s \in Seq(Task)
      BY <1>1, <2>3, Facts
    <3> HIDE DEF s
    <3>2. Len(Append(s, t)) = Len(s) + 1 /\ Append(s, t)[Len(s) + 1] = t /\ Len(s) \in Nat
      BY <2>2, <3>1, AppendProperties, LenProperties
    <3>3. Len(s) + 1 \in 1 .. Len(Append(s, t))
      BY <3>2
    <3>4. QED
      BY <3>2, <3>3 DEF Contains, s
  <2>5. t = Head(queue[q])
    BY <1>1, <2>2, <2>3, <2>4, NextWaiters DEF WaitersStep
  <2>6. queue[q] # <<>> /\ Head(queue[q]) = queue[q][1] /\ 1 \in 1 .. Len(queue[q])
    BY <2>1, <2>2, NonEmpty, TailIsRemoveAt
  <2>7. i = 1
    <3>1. queue[q][i] = queue[q][1]
      BY <2>5, <2>6 DEF t
    <3>2. Unique(queue) /\ 1 \in DOMAIN queue[q]
      BY <1>1, <2>1, <2>6, Facts
    <3>3. QED
      BY <1>1, <2>1, <3>1, <3>2 DEF Unique
  <2>8. ASSUME NEW j \in DOMAIN queue[q] PROVE priority[t] <= priority[queue[q][j]]
    <3>1. CASE j = 1
      BY <2>2, <2>7, <3>1, <1>1, Facts DEF t
    <3>2. CASE j # 1
      <4>1. 1 < j /\ 1 \in DOMAIN queue[q]
        BY <2>1, <2>6, <3>2
      <4>2. QED
        BY <1>1, <2>7, <4>1 DEF WaitersSorted, Waiting, t
    <3>3. QED
      BY <3>1, <3>2
  <2>9. QED
    BY <2>1, <2>7, <2>8
<1>2. ASSUME IInv, WaitersSorted, [Next]_vars
      PROVE  [\A q \in Queue \ (Prio \X {READY}) : \A i \in DOMAIN queue[q] : Best1(q, i)]_vars
  BY <1>1, <1>2 DEF Waiting
<1>3. QED
  BY <1>2, InductiveSorted, PTL DEF Spec, WakesBestWaiter
-----------------------------------------------------------------------------
(* The refinement of PrioSched.  A task that does not share its time is    *)
(* still the head of its level when the interrupt that found it running    *)
(* ends; the others may have been put at the end of it.                    *)
SliceKeepsHead ==
  running_irq /\ running_task # NULL /\ running_task \notin timeshare =>
    queue[ReadyQ(priority[running_task])][1] = running_task

SInv == IInv /\ SliceKeepsHead

(* A handler runs on the interrupted task's time: it keeps the CPU.        *)
LEMMA HandlersKeepTask ==
  ASSUME IInv, [Next]_vars, running_irq'
  PROVE  running_task' = running_task
<1>1. ASSUME NEW b, Reschedule(b), running_irq PROVE running_task' = running_task
  BY <1>1 DEF Reschedule
<1>2. (Fault \/ NoReschedule) => running_task' = running_task
  BY DEF Fault, NoReschedule
<1>3. ASSUME NEW t \in Task, NEW p \in Prio, NEW share \in BOOLEAN, StartTask(t, p, share)
      PROVE  running_task' = running_task
  BY <1>1, <1>2, <1>3 DEF StartTask, irqVars
<1>4. Terminate => running_task' = running_task
  BY <1>2, TerminateQueues DEF Terminate, InTask, irqVars
<1>5. ASSUME NEW q \in Queue, NEW i \in DOMAIN queue[q], EndTask(q, i)
      PROVE  running_task' = running_task
  BY <1>2, <1>5 DEF EndTask
<1>6. ASSUME NEW q \in Queue, Nap(q)
      PROVE  running_task' = running_task
  BY <1>2, <1>6, NapQueues DEF Nap, InTask, irqVars
<1>7. ASSUME NEW q \in Queue, Wake(q)
      PROVE  running_task' = running_task
  <2>1. \/ Fault \/ NoReschedule
        \/ running_irq' = running_irq /\ Reschedule(priority[Head(queue[q])])
    BY <1>7, WakeQueues DEF irqVars
  <2>2. QED
    BY <1>1, <1>2, <2>1
<1>8. ASSUME NEW p \in Prio, SetRunningTaskPriority(p)
      PROVE  running_task' = running_task
  BY <1>2, <1>8, SetRunningTaskPriorityQueues DEF SetRunningTaskPriority, InTask, irqVars
<1>9. ASSUME NEW q \in Queue, NEW i \in DOMAIN queue[q], NEW p \in Prio,
             SetTaskPriority(q, i, p)
      PROVE  running_task' = running_task
  BY <1>2, <1>9, SetTaskPriorityQueues DEF InTask, irqVars
<1>10. ASSUME NEW t \in Task, SetTaskOptions(t)
       PROVE  running_task' = running_task
  BY <1>2, <1>10 DEF SetTaskOptions
<1>11. ASSUME NEW timer \in BOOLEAN, IrqEnter(timer)
       PROVE  running_task' = running_task
  BY <1>2, <1>11 DEF IrqEnter
<1>12. TimerHandler => running_task' = running_task
  BY <1>1, <1>2 DEF TimerHandler, IInv, RestOK
<1>13. ~IrqExit
  BY DEF IrqExit
<1>14. (UNCHANGED vars) => running_task' = running_task
  BY DEF vars
<1>15. QED
  BY <1>3, <1>4, <1>5, <1>6, <1>7, <1>8, <1>9, <1>10, <1>11, <1>12, <1>13, <1>14 DEF Next

(* What a step that ends outside handlers may do to the running task:      *)
(* leave it the CPU or the head of its level, take it off that level, or   *)
(* end an interrupt that cut its time slice.                               *)
HeadStep ==
  \/ running_task' = running_task
  \/ priority'[running_task] # priority[running_task]
  \/ ~Contains(queue'[ReadyQ(priority[running_task])], running_task)
  \/ queue'[ReadyQ(priority[running_task])][1] = running_task
  \/ running_irq /\ running_task \in timeshare

LEMMA NextHead ==
  ASSUME SInv, [Next]_vars, ~running_irq', running_task # NULL
  PROVE  HeadStep
<1>0. IInv
  BY DEF SInv
<1> DEFINE c == ReadyQ(priority[running_task])
<1>1. /\ running_task \in Task /\ c \in Queue /\ priority[running_task] \in Prio
      /\ ~running_irq => queue[c][1] = running_task
  BY <1>0, Facts
<1>2. (Fault \/ NoReschedule) => HeadStep
  BY DEF Fault, NoReschedule, HeadStep
<1>3. ASSUME NEW t \in Task, NEW p \in Prio, NEW share \in BOOLEAN, StartTask(t, p, share)
      PROVE  HeadStep
  BY <1>0, <1>1, <1>3, StartTaskQueues DEF StartTask, irqVars, HeadStep
<1>4. Terminate => HeadStep
  <2>1. Terminate => Fault \/ Absent(queue', running_task)
    BY <1>0, TerminateQueues DEF Loses
  <2>2. QED
    BY <1>1, <1>2, <2>1 DEF Absent, HeadStep
<1>5. ASSUME NEW q \in Queue, NEW i \in DOMAIN queue[q], EndTask(q, i)
      PROVE  HeadStep
  BY <1>2, <1>5 DEF EndTask
<1>6. ASSUME NEW q \in Queue, Nap(q)
      PROVE  HeadStep
  <2>1. Fault \/ (Moves(queue, queue', q, running_task) /\ q # c)
    BY <1>0, <1>1, <1>6, NapQueues
  <2>2. QED
    BY <1>1, <1>2, <2>1 DEF Moves, HeadStep
<1>7. ASSUME NEW q \in Queue, Wake(q)
      PROVE  HeadStep
  <2>1. Fault \/ (running_irq' = running_irq /\ queue'[c][1] = queue[c][1])
    BY <1>0, <1>7, WakeQueues DEF irqVars
  <2>2. QED
    BY <1>1, <1>2, <2>1 DEF HeadStep
<1>8. ASSUME NEW p \in Prio, SetRunningTaskPriority(p)
      PROVE  HeadStep
  BY <1>0, <1>2, <1>8, SetRunningTaskPriorityQueues DEF HeadStep
<1>9. ASSUME NEW q \in Queue, NEW i \in DOMAIN queue[q], NEW p \in Prio,
             SetTaskPriority(q, i, p)
      PROVE  HeadStep
  BY <1>0, <1>2, <1>9, SetTaskPriorityQueues DEF HeadStep
<1>10. ASSUME NEW t \in Task, SetTaskOptions(t)
       PROVE  HeadStep
  BY <1>2, <1>10 DEF SetTaskOptions
<1>11. ASSUME NEW timer \in BOOLEAN, IrqEnter(timer)
       PROVE  HeadStep
  BY <1>2, <1>11 DEF IrqEnter
<1>12. ~TimerHandler
  BY <1>0 DEF TimerHandler, IInv, RestOK
<1>13. IrqExit => HeadStep
  BY <1>1 DEF IrqExit, taskVars, SInv, SliceKeepsHead, HeadStep
<1>14. (UNCHANGED vars) => HeadStep
  BY DEF vars, HeadStep
<1>15. QED
  BY <1>3, <1>4, <1>5, <1>6, <1>7, <1>8, <1>9, <1>10, <1>11, <1>12, <1>13, <1>14 DEF Next

LEMMA NextSlice ==
  ASSUME SInv, [Next]_vars
  PROVE  SliceKeepsHead'
<1>0. IInv /\ SliceKeepsHead
  BY DEF SInv
<1> DEFINE c == ReadyQ(priority[running_task])
<1>1. running_task # NULL /\ ~running_irq => queue[c][1] = running_task
  BY <1>0, Facts
<1>2. SUFFICES ASSUME running_irq', running_task # NULL, running_task \notin timeshare'
               PROVE  /\ queue'[c][1] = running_task
                      /\ priority'[running_task] = priority[running_task]
  <2>1. running_irq' => running_task' = running_task
    BY <1>0, HandlersKeepTask
  <2>2. QED
    BY <2>1 DEF SliceKeepsHead, ReadyQ
<1> DEFINE Kept == /\ queue'[c][1] = running_task
                   /\ priority'[running_task] = priority[running_task]
<1>3. ASSUME NEW t \in Task, NEW p \in Prio, NEW share \in BOOLEAN, StartTask(t, p, share)
      PROVE  Kept
  <2>1. /\ running_task # t /\ queue'[c][1] = queue[c][1]
        /\ \A u \in Task : u # t => priority'[u] = priority[u]
    BY <1>0, <1>2, <1>3, StartTaskQueues
  <2>2. running_irq /\ running_task \notin timeshare /\ running_task \in Task
    BY <1>0, <1>2, <1>3, <2>1, Facts DEF StartTask, irqVars
  <2>3. QED
    BY <1>0, <1>2, <2>1, <2>2 DEF SliceKeepsHead
<1>4. ~(\E q \in Queue : \E i \in DOMAIN queue[q] : EndTask(q, i))
  BY <1>2 DEF EndTask, InTask, Fault, irqVars
<1>5. ~Terminate /\ ~(\E q \in Queue : Nap(q)) /\ ~(\E p \in Prio : SetRunningTaskPriority(p))
  BY <1>2 DEF Terminate, Nap, SetRunningTaskPriority, InTask, Fault, irqVars
<1>6. ~(\E q \in Queue : \E i \in DOMAIN queue[q] : \E p \in Prio : SetTaskPriority(q, i, p))
  BY <1>2 DEF SetTaskPriority, InTask, Fault, irqVars
<1>7. ~(\E t \in Task : SetTaskOptions(t))
  BY <1>2 DEF SetTaskOptions, InTask, irqVars
<1>8. ASSUME NEW q \in Queue, Wake(q) PROVE Kept
  <2>1. CASE Fault
    BY <1>0, <1>2, <2>1 DEF Fault, taskVars, irqVars, SliceKeepsHead
  <2>2. CASE ~Fault
    <3>1. /\ queue'[c][1] = queue[c][1]
          /\ UNCHANGED <<priority, timeshare, running_irq>>
      BY <1>0, <1>2, <1>8, <2>2, WakeQueues DEF irqVars
    <3>2. QED
      BY <1>0, <1>2, <3>1 DEF SliceKeepsHead
  <2>3. QED
    BY <2>1, <2>2
<1>9. ASSUME NEW timer \in BOOLEAN, IrqEnter(timer) PROVE Kept
  BY <1>1, <1>2, <1>9 DEF IrqEnter, taskVars
<1>10. ASSUME TimerHandler PROVE Kept
  BY <1>0, <1>2, <1>10 DEF TimerHandler, SliceKeepsHead
<1>11. ~IrqExit
  BY <1>2 DEF IrqExit
<1>12. ASSUME UNCHANGED vars PROVE Kept
  BY <1>0, <1>2, <1>12 DEF vars, taskVars, irqVars, SliceKeepsHead
<1>13. QED
  BY <1>3, <1>4, <1>5, <1>6, <1>7, <1>8, <1>9, <1>10, <1>11, <1>12 DEF Next

LEMMA InductiveSlice ==
  ASSUME InversionFree
  PROVE  Spec => []SInv
<1>1. Init => SInv
  BY InitInv DEF Init, SInv, SliceKeepsHead
<1>2. SInv /\ [Next]_vars => SInv'
  BY NextInv, NextSlice DEF SInv
<1>3. QED
  BY <1>1, <1>2, PTL DEF Spec

(* The initial states are initial states of the abstract scheduler...      *)
LEMMA InitRefines ==
  ASSUME Init
  PROVE  Sched!Init
<1>1. IInv
  BY InitInv
<1>2. running_task \in Task /\ running_task # NULL /\ running_irq = FALSE
  BY TaskmanAssumption DEF Init
<1>3. priority \in [Task -> Prio] /\ timeshare \in SUBSET Task
  BY <1>1 DEF IInv, QueuesOK, RestOK
<1>4. Ready(running_task) /\ \A t \in Task : Ready(t) => priority[running_task] <= priority[t]
  BY <1>1, <1>2 DEF IInv, CpuOK, RunningIsHead, TopPriorityRuns
<1>5. QED
  BY <1>2, <1>3, <1>4 DEF Sched!Init, Sched!Best

(* ... and every step is one of its steps, or leaves it alone.             *)
LEMMA StepRefines ==
  ASSUME SInv, SInv', [Next]_vars
  PROVE  Sched!Step
<1> DEFINE R == {t \in Task : Ready(t)'}
           on(t) == Contains(queue'[ReadyQ(priority'[t])], t)
<1>0. R = {t \in Task : on(t)}
  BY DEF Ready, ReadyQ
<1>1. IInv /\ IInv' /\ running_irq \in BOOLEAN /\ running_irq' \in BOOLEAN
  BY DEF SInv, IInv, RestOK
<1>2. R \in SUBSET Task /\ priority' \in [Task -> Prio] /\ timeshare' \in SUBSET Task
  BY <1>1 DEF IInv, QueuesOK, RestOK
<1>3. CASE running_irq'
  BY <1>1, <1>2, <1>3, HandlersKeepTask DEF Sched!Step
<1>4. CASE ~running_irq'
  <2>1. /\ running_task' # NULL =>
             /\ running_task' \in Task /\ on(running_task')
             /\ queue'[ReadyQ(priority'[running_task'])][1] = running_task'
        /\ \A t \in Task : on(t) =>
             running_task' # NULL /\ priority'[running_task'] <= priority'[t]
    BY <1>1, <1>4 DEF IInv, CpuOK, RunningIsHead, TopPriorityRuns, Ready, ReadyQ
  <2>2. on(running_task) = Contains(queue'[ReadyQ(priority'[running_task])], running_task)
    OBVIOUS
  <2> HIDE DEF R, on
  <2>3. IF R = {} THEN running_task' = NULL ELSE running_task' \in Sched!Best(R, priority')
    BY <1>0, <2>1 DEF Sched!Best
  <2>4. ASSUME running_task # NULL, running_task' # running_task,
               running_task \in Sched!Best(R, priority'),
               priority'[running_task] = priority[running_task],
               ~(running_irq /\ running_task \in timeshare)
        PROVE  FALSE
    <3>1. running_task \in Task /\ on(running_task)
      BY <1>0, <2>4 DEF Sched!Best
    <3>2. queue'[ReadyQ(priority[running_task])][1] = running_task
      BY <1>4, <2>2, <2>4, <3>1, NextHead DEF HeadStep
    <3>3. running_task' \in Task /\ running_task' \in R
          /\ priority'[running_task'] <= priority'[running_task]
      BY <1>0, <2>1, <3>1
    <3>4. priority'[running_task] <= priority'[running_task']
      BY <2>4, <3>3 DEF Sched!Best
    <3>5. priority'[running_task] \in Nat /\ priority'[running_task'] \in Nat
      BY <1>2, <3>1, <3>3, PrioIsNat
    <3>6. priority'[running_task'] = priority'[running_task]
      BY <3>3, <3>4, <3>5
    <3>7. queue'[ReadyQ(priority'[running_task'])][1] = running_task'
      BY <2>1, <3>3, TaskmanAssumption
    <3>8. QED
      BY <2>4, <3>2, <3>6, <3>7
  <2>5. QED
    BY <1>2, <1>4, <2>3, <2>4 DEF Sched!Step, Sched!Dispatch, Sched!MayLoseCPU, R
<1>5. QED
  BY <1>3, <1>4

(* The task manager implements the priority scheduler that its comments    *)
(* promise: no switch while a handler runs, the best ready task whenever   *)
(* none does, and an equal takes over only at the end of a time slice or   *)
(* when the running task gives its rank up.                                *)
THEOREM ImplementsScheduler ==
  ASSUME InversionFree
  PROVE  Spec => SchedSpec
<1>1. Init => Sched!Init
  BY InitRefines
<1>2. SInv /\ SInv' /\ [Next]_vars => [Sched!Step]_(Sched!schedVars)
  BY StepRefines
<1>3. QED
  BY <1>1, <1>2, InductiveSlice, PTL DEF Spec, SchedSpec, Sched!Spec
=============================================================================
