---------------------------- MODULE SwitchProofs ----------------------------
(***************************************************************************)
(* Proofs about Switch, for any number of tasks and priorities: when the   *)
(* handlers come where they are harmless, the best ready task runs and no  *)
(* task is lost.                                                           *)
(***************************************************************************)
EXTENDS Switch, ListLemmas

(* The queues r hold each task at most once, on its level.                 *)
Queues(r) ==
  /\ r \in [Levels -> Seq(Tasks)]
  /\ \A l \in Levels : IsInjective(r[l]) /\ \A t \in Range(r[l]) : Priority[t] = l
In(r) == UNION {Range(r[l]) : l \in Levels}
NoneAbove(r, p) == \A t \in In(r) : p <= Priority[t]
First(r, t) ==
  /\ t \in Tasks
  /\ r[Priority[t]] # <<>> /\ Head(r[Priority[t]]) = t
  /\ NoneAbove(r, Priority[t])

(* The context a task goes on with: the processor's, until it is saved.    *)
Unloaded == {"switching", "restoring", "loading"}
Live == [t \in Tasks |-> IF t = cpu.of /\ cpu.at \notin Unloaded THEN cpu ELSE saved[t]]

(* Contexts lv, with the tasks R ready and the tasks W waiting: each goes  *)
(* on in its own code, and who is on no queue is in the hands of one.      *)
Holding(lv) == {t \in Tasks : lv[t].at \in {"dequeued", "waking"}}
OwnCode(lv, R) ==
  /\ lv \in [Tasks -> Context]
  /\ \A t \in Tasks :
       /\ lv[t].of = t
       /\ lv[t].at = "rescheduling" => Priority[lv[t].to] <= Priority[t]
       /\ lv[t].at = "waking" => t \in R
OneHolder(lv, R, W) ==
  /\ R \subseteq Tasks /\ W \subseteq Tasks /\ R \cap W = {}
  /\ \A t \in Holding(lv) : lv[t].to \notin R \cup W
  /\ \A t, u \in Holding(lv) : lv[t].to = lv[u].to => t = u
  /\ \A x \in Tasks \ (R \cup W) : \E t \in Holding(lv) : lv[t].to = x
Contexts(lv, R, W) == OwnCode(lv, R) /\ OneHolder(lv, R, W)

(* Where the processor is in the calls, and what is known there.           *)
Resumable == {"app", "waking", "rescheduling"}
CpuOK ==
  /\ ~fault /\ running \in Tasks /\ cpu \in Context /\ saved \in [Tasks -> Context]
  /\ in_task_switch \in BOOLEAN /\ fault \in BOOLEAN
  /\ in_task_switch <=> cpu.at \in {"saving", "switching", "restoring"}
  /\ cpu.at \notin {"restoring", "loading"} => running = cpu.of
  /\ cpu.at \in {"restoring", "loading"} => running = cpu.to
  /\ cpu.at \in {"app", "waking"} => First(ready, running)
  /\ cpu.at = "dequeued" => /\ cpu.to = running /\ running # IdleTask
                            /\ NoneAbove(ready, Priority[running])
  /\ cpu.at = "rescheduling" => NoneAbove(ready, Priority[cpu.to])
  /\ cpu.at \in {"chosen", "saving"} \cup Unloaded => First(ready, cpu.to)
  /\ cpu.at \in Unloaded => saved[cpu.of].at = "app"
  /\ \A t \in Tasks : t # cpu.of \/ cpu.at \in Unloaded => Live[t].at \in Resumable

IInv ==
  /\ Queues(ready) /\ IdleTask \in In(ready)
  /\ Contexts(Live, In(ready), waiting)
  /\ CpuOK
-----------------------------------------------------------------------------
(* Queues as sequences.                                                    *)

LEMMA AppendRange ==
  ASSUME NEW S, NEW s \in Seq(S), NEW e \in S
  PROVE  /\ Append(s, e) \in Seq(S) /\ Append(s, e) # <<>>
         /\ Range(Append(s, e)) = Range(s) \cup {e}
         /\ IsInjective(s) /\ e \notin Range(s) => IsInjective(Append(s, e))
         /\ s # <<>> => Head(Append(s, e)) = Head(s)
         /\ s = <<>> => Head(Append(s, e)) = e
<1>1. /\ Append(s, e) \in Seq(S) /\ Append(s, e) # <<>>
      /\ Len(Append(s, e)) = Len(s) + 1
      /\ \A j \in 1 .. Len(s) : Append(s, e)[j] = s[j]
      /\ Append(s, e)[Len(s) + 1] = e
  BY AppendProperties
<1>2. Len(s) \in Nat /\ DOMAIN s = 1 .. Len(s)
      /\ DOMAIN Append(s, e) = 1 .. Len(s) + 1
  BY <1>1, LenProperties
<1>3. 1 .. Len(s) + 1 = 1 .. Len(s) \cup {Len(s) + 1}
  BY <1>2
<1>4. Range(Append(s, e)) = Range(s) \cup {e}
  BY <1>1, <1>2, <1>3 DEF Range
<1>5. ASSUME IsInjective(s), e \notin Range(s) PROVE IsInjective(Append(s, e))
  BY <1>1, <1>2, <1>3, <1>5 DEF IsInjective, Range
<1>6. ASSUME s # <<>> PROVE Head(Append(s, e)) = Head(s)
  <2>1. Len(s) > 0
    BY <1>2, <1>6, EmptySeq
  <2> QED BY <1>1, <1>2, <2>1, HeadTailProperties, <1>6
<1>7. ASSUME s = <<>> PROVE Head(Append(s, e)) = e
  BY <1>7
<1> QED BY <1>1, <1>4, <1>5, <1>6, <1>7

LEMMA TailRange ==
  ASSUME NEW S, NEW s \in Seq(S), s # <<>>
  PROVE  /\ Tail(s) \in Seq(S) /\ Head(s) \in S /\ Head(s) \in Range(s)
         /\ Range(s) = Range(Tail(s)) \cup {Head(s)}
         /\ IsInjective(s) => IsInjective(Tail(s)) /\ Head(s) \notin Range(Tail(s))
<1>1. /\ Head(s) \in S /\ Tail(s) \in Seq(S) /\ Len(Tail(s)) = Len(s) - 1
      /\ \A i \in 1 .. Len(Tail(s)) : Tail(s)[i] = s[i + 1]
  BY HeadTailProperties
<1>2. /\ Len(s) \in Nat /\ Len(s) > 0 /\ DOMAIN s = 1 .. Len(s)
      /\ DOMAIN Tail(s) = 1 .. Len(s) - 1 /\ Head(s) = s[1]
  BY <1>1, LenProperties, EmptySeq
<1>3. Head(s) \in Range(s)
  BY <1>2 DEF Range
<1>4. Range(s) = Range(Tail(s)) \cup {Head(s)}
  <2>1. ASSUME NEW x \in Range(s), x # Head(s) PROVE x \in Range(Tail(s))
    <3>1. PICK i \in 1 .. Len(s) : s[i] = x
      BY <1>2 DEF Range
    <3>2. i - 1 \in 1 .. Len(s) - 1 /\ (i - 1) + 1 = i
      BY <1>2, <2>1, <3>1
    <3>3. Tail(s)[i - 1] = x
      BY <1>1, <3>1, <3>2
    <3> QED BY <1>2, <3>2, <3>3 DEF Range
  <2>2. ASSUME NEW x \in Range(Tail(s)) PROVE x \in Range(s)
    <3>1. PICK i \in 1 .. Len(s) - 1 : Tail(s)[i] = x
      BY <1>2 DEF Range
    <3>2. i + 1 \in 1 .. Len(s) /\ s[i + 1] = x
      BY <1>1, <1>2, <3>1
    <3> QED BY <1>2, <3>2 DEF Range
  <2> QED BY <1>3, <2>1, <2>2
<1>5. ASSUME IsInjective(s) PROVE IsInjective(Tail(s)) /\ Head(s) \notin Range(Tail(s))
  <2>1. \A i \in 1 .. Len(s) - 1 : i + 1 \in 1 .. Len(s) /\ i + 1 # 1 /\ Tail(s)[i] = s[i + 1]
    BY <1>1, <1>2
  <2>2. \A a, b \in 1 .. Len(s) : s[a] = s[b] => a = b
    BY <1>2, <1>5 DEF IsInjective
  <2>3. ASSUME NEW a \in 1 .. Len(s) - 1, NEW b \in 1 .. Len(s) - 1, Tail(s)[a] = Tail(s)[b]
        PROVE  a = b
    <3>1. a + 1 = b + 1
      BY <2>1, <2>2, <2>3
    <3> QED BY <3>1
  <2>4. IsInjective(Tail(s))
    BY <1>2, <2>3 DEF IsInjective
  <2>5. \A i \in 1 .. Len(s) - 1 : Tail(s)[i] # Head(s)
    BY <1>2, <2>1, <2>2
  <2> QED BY <1>2, <2>4, <2>5 DEF Range
<1> QED BY <1>1, <1>3, <1>4, <1>5

LEMMA RotatedRange ==
  ASSUME NEW S, NEW s \in Seq(S), s # <<>>, IsInjective(s)
  PROVE  LET u == Append(Tail(s), Head(s)) IN
         /\ u \in Seq(S) /\ u # <<>> /\ Range(u) = Range(s) /\ IsInjective(u)
<1>1. /\ Tail(s) \in Seq(S) /\ Head(s) \in S /\ Head(s) \notin Range(Tail(s))
      /\ Range(s) = Range(Tail(s)) \cup {Head(s)} /\ IsInjective(Tail(s))
  BY TailRange
<1>2. PICK v, e : v = Tail(s) /\ e = Head(s)
  OBVIOUS
<1>3. v \in Seq(S) /\ e \in S /\ e \notin Range(v) /\ Range(s) = Range(v) \cup {e} /\ IsInjective(v)
  BY <1>1, <1>2
<1>4. /\ Append(v, e) \in Seq(S) /\ Append(v, e) # <<>>
      /\ Range(Append(v, e)) = Range(v) \cup {e}
      /\ IsInjective(Append(v, e))
  BY <1>3, AppendRange
<1> QED BY <1>2, <1>3, <1>4

(* What a call does to the ready queues.                                   *)

LEMMA TasksHaveLevels == \A t \in Tasks : Priority[t] \in Levels /\ Priority[t] \in Nat
BY SwitchAssumption DEF Levels

LEMMA OnItsLevel ==
  ASSUME NEW r, Queues(r)
  PROVE  /\ In(r) \subseteq Tasks
         /\ \A t \in In(r) : t \in Range(r[Priority[t]])
         /\ \A l \in Levels : Range(r[l]) \subseteq In(r)
<1>1. \A l \in Levels : r[l] \in Seq(Tasks)
  BY DEF Queues
<1>2. \A l \in Levels : Range(r[l]) \subseteq Tasks
  <2> SUFFICES ASSUME NEW l \in Levels PROVE Range(r[l]) \subseteq Tasks
    OBVIOUS
  <2>1. \A i \in DOMAIN r[l] : r[l][i] \in Tasks
    BY <1>1, ElementOfSeq, LenProperties
  <2> QED BY <2>1 DEF Range
<1>3. \A t \in In(r) : \E l \in Levels : t \in Range(r[l])
  BY DEF In
<1>4. \A t \in In(r) : t \in Range(r[Priority[t]])
  BY <1>3 DEF Queues
<1> QED BY <1>2, <1>3, <1>4 DEF In

(* Queues that differ on one level, where they hold the same tasks, or one *)
(* more, or one less.                                                      *)
Level(q, l) == q \in Seq(Tasks) /\ IsInjective(q) /\ \A t \in Range(q) : Priority[t] = l
Replaced(r2, r, l, q) == r2 = [r EXCEPT ![l] = q]

LEMMA LevelReplaced ==
  ASSUME NEW r, Queues(r), NEW l \in Levels, NEW q, Level(q, l),
         NEW r2, Replaced(r2, r, l, q)
  PROVE  /\ Queues(r2) /\ r2[l] = q /\ \A k \in Levels \ {l} : r2[k] = r[k]
         /\ In(r2) = (In(r) \ Range(r[l])) \cup Range(q)
<1>1. /\ r2 \in [Levels -> Seq(Tasks)] /\ r2[l] = q
      /\ \A k \in Levels \ {l} : r2[k] = r[k]
  BY DEF Queues, Level, Replaced
<1>2. Queues(r2)
  BY <1>1 DEF Queues, Level
<1>3. \A k \in Levels \ {l} : Range(r[k]) \cap Range(r[l]) = {}
  BY DEF Queues
<1>4. In(r2) = (In(r) \ Range(r[l])) \cup Range(q)
  BY <1>1, <1>3 DEF In
<1> QED BY <1>1, <1>2, <1>4

LEMMA Enqueued ==
  ASSUME NEW r, Queues(r), NEW w \in Tasks \ In(r),
         NEW r2, Replaced(r2, r, Priority[w], Append(r[Priority[w]], w))
  PROVE  /\ Queues(r2) /\ In(r2) = In(r) \cup {w}
         /\ \A p \in Nat : NoneAbove(r, p) /\ p <= Priority[w] => NoneAbove(r2, p)
         /\ \A t \in Tasks : First(r, t) /\ Priority[t] <= Priority[w] => First(r2, t)
<1>1. PICK l, old : l = Priority[w] /\ old = r[l]
  OBVIOUS
<1>2. l \in Levels /\ old \in Seq(Tasks) /\ IsInjective(old) /\ w \notin Range(old)
  BY <1>1, TasksHaveLevels, OnItsLevel DEF Queues
<1>3. PICK q : q = Append(old, w)
  OBVIOUS
<1>4. /\ q \in Seq(Tasks) /\ q # <<>> /\ Range(q) = Range(old) \cup {w} /\ IsInjective(q)
      /\ old # <<>> => Head(q) = Head(old)
  BY <1>2, <1>3, AppendRange
<1>5. Level(q, l)
  BY <1>1, <1>2, <1>4 DEF Queues, Level
<1>6. Replaced(r2, r, l, q)
  BY <1>1, <1>3
<1>7. /\ Queues(r2) /\ r2[l] = q /\ \A k \in Levels \ {l} : r2[k] = r[k]
      /\ In(r2) = (In(r) \ Range(old)) \cup Range(q)
  BY <1>1, <1>2, <1>5, <1>6, LevelReplaced
<1>8. In(r2) = In(r) \cup {w}
  BY <1>1, <1>2, <1>4, <1>7, OnItsLevel
<1>9. ASSUME NEW p \in Nat, NoneAbove(r, p), p <= Priority[w] PROVE NoneAbove(r2, p)
  BY <1>8, <1>9 DEF NoneAbove
<1>10. ASSUME NEW t \in Tasks, First(r, t), Priority[t] <= Priority[w] PROVE First(r2, t)
  <2>1. Priority[t] \in Levels /\ Priority[t] \in Nat
    BY TasksHaveLevels
  <2>2. NoneAbove(r2, Priority[t])
    BY <1>9, <1>10, <2>1 DEF First
  <2>3. r2[Priority[t]] # <<>> /\ Head(r2[Priority[t]]) = t
    <3>1. CASE Priority[t] = l
      BY <1>1, <1>4, <1>7, <1>10, <3>1 DEF First
    <3>2. CASE Priority[t] # l
      BY <1>7, <1>10, <2>1, <3>2 DEF First
    <3> QED BY <3>1, <3>2
  <2> QED BY <2>2, <2>3 DEF First
<1> QED BY <1>7, <1>8, <1>9, <1>10

LEMMA HeadDequeued ==
  ASSUME NEW r, Queues(r), NEW t, First(r, t),
         NEW r2, Replaced(r2, r, Priority[t], Tail(r[Priority[t]]))
  PROVE  Queues(r2) /\ t \in In(r) /\ In(r2) = In(r) \ {t}
<1>1. PICK l, old : l = Priority[t] /\ old = r[l]
  OBVIOUS
<1>2. /\ t \in Tasks /\ l \in Levels /\ old \in Seq(Tasks) /\ IsInjective(old)
      /\ old # <<>> /\ Head(old) = t
  BY <1>1, TasksHaveLevels DEF Queues, First
<1>3. PICK q : q = Tail(old)
  OBVIOUS
<1>4. /\ q \in Seq(Tasks) /\ Range(old) = Range(q) \cup {t} /\ IsInjective(q)
      /\ t \notin Range(q)
  BY <1>2, <1>3, TailRange
<1>5. Level(q, l)
  BY <1>1, <1>2, <1>4 DEF Queues, Level
<1>6. Replaced(r2, r, l, q)
  BY <1>1, <1>3
<1>7. Queues(r2) /\ In(r2) = (In(r) \ Range(old)) \cup Range(q)
  BY <1>1, <1>2, <1>5, <1>6, LevelReplaced
<1>8. Range(old) \subseteq In(r)
  BY <1>1, <1>2, OnItsLevel
<1>9. \A x \in Range(q) : x # t
  BY <1>4
<1> QED BY <1>4, <1>7, <1>8, <1>9

LEMMA LevelTurned ==
  ASSUME NEW r, Queues(r), NEW l \in Levels, r[l] # <<>>,
         NEW r2, Replaced(r2, r, l, Append(Tail(r[l]), Head(r[l])))
  PROVE  Queues(r2) /\ In(r2) = In(r)
<1>1. PICK old : old = r[l]
  OBVIOUS
<1>2. old \in Seq(Tasks) /\ IsInjective(old) /\ old # <<>>
  BY <1>1 DEF Queues
<1>3. PICK q : q = Append(Tail(old), Head(old))
  OBVIOUS
<1>4. q \in Seq(Tasks) /\ Range(q) = Range(old) /\ IsInjective(q)
  BY <1>2, <1>3, RotatedRange
<1>5. Level(q, l)
  BY <1>1, <1>4 DEF Queues, Level
<1>6. Replaced(r2, r, l, q)
  BY <1>1, <1>3
<1>7. Queues(r2) /\ In(r2) = (In(r) \ Range(old)) \cup Range(q)
  BY <1>1, <1>5, <1>6, LevelReplaced
<1>8. Range(old) \subseteq In(r)
  BY <1>1, OnItsLevel
<1> QED BY <1>4, <1>7, <1>8

(* The scan of the ready queues finds the first of the best level.         *)

LEMMA MinIsLeast ==
  ASSUME NEW S \in SUBSET Nat, S # {}
  PROVE  Min(S) \in S /\ \A k \in S : Min(S) <= k
BY LeastNatural DEF Min

LEMMA BestIsFirst ==
  ASSUME NEW r, Queues(r), IdleTask \in In(r),
         NEW bound \in Nat, NoneAbove(r, bound)
  PROVE  First(r, Best(r, bound)) /\ Best(r, bound) \in In(r)
<1> DEFINE F == {l \in Levels : l >= bound /\ r[l] # <<>>}  m == Min(F)
<1>1. Levels \subseteq Nat
  BY TasksHaveLevels DEF Levels
<1>2. \A t \in In(r) : t \in Tasks /\ Priority[t] \in F
  <2> SUFFICES ASSUME NEW t \in In(r) PROVE t \in Tasks /\ Priority[t] \in F
    OBVIOUS
  <2>1. t \in Tasks /\ t \in Range(r[Priority[t]])
    BY OnItsLevel
  <2>2. r[Priority[t]] # <<>>
    BY <2>1 DEF Range
  <2>3. Priority[t] \in Levels /\ Priority[t] >= bound
    BY <2>1, TasksHaveLevels DEF NoneAbove
  <2> QED BY <2>1, <2>2, <2>3
<1>3. m \in F /\ \A k \in F : m <= k
  <2>1. F \subseteq Nat /\ F # {}
    BY <1>1, <1>2
  <2> HIDE DEF F
  <2> QED BY <2>1, MinIsLeast
<1>4. m \in Levels /\ r[m] # <<>> /\ r[m] \in Seq(Tasks)
  BY <1>3 DEF Queues
<1>5. Best(r, bound) = Head(r[m])
  BY DEF Best
<1> HIDE DEF m, F
<1>6. Head(r[m]) \in Range(r[m]) /\ Head(r[m]) \in Tasks
  BY <1>4, TailRange
<1>7. Priority[Head(r[m])] = m
  BY <1>4, <1>6 DEF Queues
<1>8. Head(r[m]) \in In(r)
  BY <1>4, <1>6, OnItsLevel
<1>9. NoneAbove(r, m)
  BY <1>2, <1>3 DEF NoneAbove
<1> QED BY <1>4, <1>5, <1>6, <1>7, <1>8, <1>9 DEF First

LEMMA LowerBound ==
  ASSUME NEW r, Queues(r), NEW m \in Nat, NEW p \in Nat, NoneAbove(r, p), m <= p
  PROVE  NoneAbove(r, m)
BY OnItsLevel, SwitchAssumption DEF NoneAbove

(* There is only one.                                                      *)
LEMMA FirstIsUnique ==
  ASSUME NEW r, Queues(r), NEW t, NEW u, First(r, t), First(r, u)
  PROVE  t = u /\ t \in In(r)
<1>1. \A x \in {t, u} : /\ x \in Tasks /\ Priority[x] \in Levels /\ Priority[x] \in Nat
                        /\ r[Priority[x]] \in Seq(Tasks) /\ r[Priority[x]] # <<>>
                        /\ Head(r[Priority[x]]) = x
  BY TasksHaveLevels DEF First, Queues
<1>2. \A x \in {t, u} : x \in Range(r[Priority[x]])
  BY <1>1, TailRange
<1>3. t \in In(r) /\ u \in In(r)
  BY <1>1, <1>2, OnItsLevel
<1>4. Priority[t] <= Priority[u] /\ Priority[u] <= Priority[t]
  BY <1>3 DEF First, NoneAbove
<1>5. Priority[t] = Priority[u]
  BY <1>1, <1>4
<1> QED BY <1>1, <1>3, <1>5
-----------------------------------------------------------------------------
(* What the steps do to the contexts: the one of u becomes c.              *)
Moves(lv2, lv, u, c) ==
  /\ u \in Tasks /\ c \in Context /\ c.of = u
  /\ lv2 \in [Tasks -> Context] /\ lv2[u] = c
  /\ \A t \in Tasks \ {u} : lv2[t] = lv[t]
Neutral(c) ==
  /\ c.at \notin {"dequeued", "waking"}
  /\ c.at = "rescheduling" => Priority[c.to] <= Priority[c.of]

LEMMA OwnCodeKept ==
  ASSUME NEW lv, NEW R, NEW R2, OwnCode(lv, R), NEW u, NEW c, NEW lv2, Moves(lv2, lv, u, c),
         R \subseteq R2 \cup {u},
         c.at = "rescheduling" => Priority[c.to] <= Priority[u],
         c.at = "waking" => u \in R2
  PROVE  OwnCode(lv2, R2)
BY DEF OwnCode, Moves

LEMMA StepKeepsContexts ==
  ASSUME NEW lv, NEW R, NEW W, Contexts(lv, R, W),
         NEW u, NEW c, NEW lv2, Moves(lv2, lv, u, c), u \notin Holding(lv), Neutral(c)
  PROVE  Contexts(lv2, R, W)
<1>1. OwnCode(lv2, R)
  BY OwnCodeKept DEF Contexts, Moves, Neutral
<1>2. Holding(lv2) = Holding(lv) /\ \A t \in Holding(lv) : lv2[t] = lv[t]
  BY DEF Moves, Neutral, Holding
<1> QED BY <1>1, <1>2 DEF Contexts, OneHolder

(* The task w is taken from a queue into the hands of u,                   *)
LEMMA TakenInHand ==
  ASSUME NEW lv, NEW R, NEW W, Contexts(lv, R, W), NEW R2, NEW W2,
         NEW u, NEW c, NEW lv2, Moves(lv2, lv, u, c), u \notin Holding(lv),
         c.at \in {"dequeued", "waking"}, c.to \in R \cup W,
         R2 = R \ {c.to}, W2 = W \ {c.to},
         c.at = "waking" => u \in R2, R \subseteq R2 \cup {u}
  PROVE  Contexts(lv2, R2, W2)
<1>1. OwnCode(lv2, R2)
  BY OwnCodeKept DEF Contexts
<1>2. /\ Holding(lv2) = Holding(lv) \cup {u} /\ lv2[u].to = c.to
      /\ \A t \in Holding(lv) : t # u /\ lv2[t] = lv[t] /\ lv[t].to \notin R \cup W
  BY DEF Moves, Holding, Contexts, OneHolder
<1>3. \A x \in Tasks \ (R2 \cup W2) : \E t \in Holding(lv2) : lv2[t].to = x
  <2> SUFFICES ASSUME NEW x \in Tasks \ (R2 \cup W2) PROVE \E t \in Holding(lv2) : lv2[t].to = x
    OBVIOUS
  <2>1. CASE x = c.to
    BY <1>2, <2>1
  <2>2. CASE x # c.to
    <3>1. x \in Tasks \ (R \cup W)
      BY <2>2
    <3>2. PICK t \in Holding(lv) : lv[t].to = x
      BY <3>1 DEF Contexts, OneHolder
    <3> QED BY <1>2, <3>2
  <2> QED BY <2>1, <2>2
<1>4. /\ R2 \subseteq Tasks /\ W2 \subseteq Tasks /\ R2 \cap W2 = {}
      /\ \A t \in Holding(lv2) : lv2[t].to \notin R2 \cup W2
  BY <1>2 DEF Contexts, OneHolder
<1>5. \A t, v \in Holding(lv2) : lv2[t].to = lv2[v].to => t = v
  BY <1>2 DEF Contexts, OneHolder
<1> QED BY <1>1, <1>3, <1>4, <1>5 DEF Contexts, OneHolder

(* or from there onto a queue.                                             *)
LEMMA PutFromHand ==
  ASSUME NEW lv, NEW R, NEW W, Contexts(lv, R, W), NEW R2, NEW W2,
         NEW u, NEW c, NEW lv2, Moves(lv2, lv, u, c), u \in Holding(lv), Neutral(c),
         R \subseteq R2, W \subseteq W2, R2 \cap W2 = {},
         R2 \cup W2 = R \cup W \cup {lv[u].to}
  PROVE  Contexts(lv2, R2, W2)
<1>1. OwnCode(lv2, R2)
  BY OwnCodeKept DEF Contexts, Moves, Neutral
<1>2. Holding(lv2) = Holding(lv) \ {u} /\ \A t \in Holding(lv2) : lv2[t] = lv[t]
  BY DEF Moves, Neutral, Holding
<1>3. lv[u].to \in Tasks
  BY DEF Contexts, OwnCode, Moves, Context
<1>4. \A t \in Holding(lv2) : lv2[t].to # lv[u].to
  BY <1>2 DEF Contexts, OneHolder
<1>5. /\ R2 \subseteq Tasks /\ W2 \subseteq Tasks
      /\ \A t \in Holding(lv2) : lv2[t].to \notin R2 \cup W2
      /\ \A t, v \in Holding(lv2) : lv2[t].to = lv2[v].to => t = v
  BY <1>2, <1>3, <1>4 DEF Contexts, OneHolder
<1>6. \A x \in Tasks \ (R2 \cup W2) : \E t \in Holding(lv2) : lv2[t].to = x
  <2> SUFFICES ASSUME NEW x \in Tasks \ (R2 \cup W2) PROVE \E t \in Holding(lv2) : lv2[t].to = x
    OBVIOUS
  <2>1. x \in Tasks \ (R \cup W) /\ x # lv[u].to
    OBVIOUS
  <2>2. PICK t \in Holding(lv) : lv[t].to = x
    BY <2>1 DEF Contexts, OneHolder
  <2> QED BY <1>2, <2>1, <2>2
<1> QED BY <1>1, <1>5, <1>6 DEF Contexts, OneHolder

LEMMA MadeReady ==
  ASSUME NEW lv, NEW R, NEW W, Contexts(lv, R, W), NEW w \in W
  PROVE  Contexts(lv, R \cup {w}, W \ {w}) /\ w \in Tasks \ R
BY DEF Contexts, OwnCode, OneHolder
-----------------------------------------------------------------------------
(* The steps.  First those of a call that stays in its task.               *)

LEMMA AtIs ==
  ASSUME cpu \in Context, NEW step \in Steps, NEW t \in Tasks
  PROVE  At(step, t) \in Context /\ At(step, t) = [of |-> cpu.of, at |-> step, to |-> t]
BY DEF At, Context

Stays ==
  /\ cpu.at \notin Unloaded /\ saved' = saved
  /\ cpu' \in Context /\ cpu'.of = cpu.of /\ cpu'.at \notin Unloaded

LEMMA StaysMoves ==
  ASSUME IInv, Stays
  PROVE  /\ Moves(Live', Live, cpu.of, cpu') /\ Live[cpu.of] = cpu
         /\ \A t \in Tasks : t # cpu'.of \/ cpu'.at \in Unloaded => Live'[t].at \in Resumable
<1>1. cpu.of \in Tasks /\ saved \in [Tasks -> Context]
  BY DEF IInv, CpuOK, Context
<1>2. Live' \in [Tasks -> Context] /\ \A t \in Tasks : Live'[t] = IF t = cpu.of THEN cpu' ELSE saved[t]
  BY <1>1 DEF Live, Stays
<1>3. Live \in [Tasks -> Context] /\ \A t \in Tasks : Live[t] = IF t = cpu.of THEN cpu ELSE saved[t]
  BY <1>1 DEF Live, Stays, IInv, CpuOK
<1>4. \A t \in Tasks : t # cpu.of => Live[t].at \in Resumable
  BY DEF IInv, CpuOK
<1> QED BY <1>1, <1>2, <1>3, <1>4 DEF Moves, Stays

LEMMA NapDequeueStep ==
  ASSUME IInv, NapDequeue
  PROVE  IInv'
<1>1. PICK p : p = Priority[running]
  OBVIOUS
<1>2. /\ cpu.at = "app" /\ cpu.of # IdleTask /\ running = cpu.of /\ First(ready, running)
      /\ cpu \in Context /\ ~fault /\ running \in Tasks /\ IdleTask \in In(ready)
  BY DEF NapDequeue, IInv, CpuOK
<1>3. ready[p] # <<>> /\ Head(ready[p]) = running
  BY <1>1, <1>2 DEF First
<1>4. /\ Replaced(ready', ready, Priority[running], Tail(ready[Priority[running]]))
      /\ cpu' = At("dequeued", running)
      /\ UNCHANGED <<waiting, running, in_task_switch, saved, fault>>
  BY <1>1, <1>3 DEF NapDequeue, Replaced
<1>5. cpu' = [of |-> running, at |-> "dequeued", to |-> running] /\ cpu' \in Context
  BY <1>2, <1>4, AtIs DEF Steps
<1>6. Queues(ready') /\ running \in In(ready) /\ In(ready') = In(ready) \ {running}
  BY <1>2, <1>4, HeadDequeued DEF IInv
<1>7. /\ Moves(Live', Live, cpu.of, cpu') /\ Live[cpu.of] = cpu
      /\ \A t \in Tasks : t # cpu'.of \/ cpu'.at \in Unloaded => Live'[t].at \in Resumable
  BY <1>2, <1>4, <1>5, StaysMoves DEF Stays, Unloaded
<1>8. Contexts(Live', In(ready'), waiting')
  <2>1. Contexts(Live, In(ready), waiting) /\ In(ready) \cap waiting = {}
    BY DEF IInv, Contexts, OneHolder
  <2>2. cpu.of \notin Holding(Live)
    BY <1>2, <1>7 DEF Holding
  <2>3. /\ cpu'.at \in {"dequeued", "waking"} /\ cpu'.at # "waking" /\ cpu'.to = running
        /\ In(ready') = In(ready) \ {cpu'.to} /\ waiting' = waiting \ {cpu'.to}
        /\ In(ready) \subseteq In(ready') \cup {cpu.of} /\ cpu'.to \in In(ready) \cup waiting
    BY <1>2, <1>4, <1>5, <1>6, <2>1
  <2> QED BY <1>7, <2>1, <2>2, <2>3, TakenInHand
<1>9. NoneAbove(ready', Priority[running])
  BY <1>2, <1>6 DEF First, NoneAbove
<1>10. CpuOK'
  BY <1>2, <1>4, <1>5, <1>7, <1>9 DEF IInv, CpuOK, Unloaded
<1> QED BY <1>2, <1>6, <1>8, <1>10 DEF IInv

LEMMA NapEnqueueStep ==
  ASSUME IInv, NapEnqueue
  PROVE  IInv'
<1>1. /\ cpu.at = "dequeued" /\ running = cpu.of /\ cpu.to = running
      /\ cpu \in Context /\ running \in Tasks
      /\ waiting' = waiting \cup {cpu.to} /\ cpu' = At("rescheduling", cpu.to)
      /\ UNCHANGED <<ready, running, in_task_switch, saved, fault>>
  BY DEF NapEnqueue, IInv, CpuOK
<1>2. cpu' = [of |-> running, at |-> "rescheduling", to |-> running] /\ cpu' \in Context
  BY <1>1, AtIs DEF Steps
<1>3. /\ Moves(Live', Live, cpu.of, cpu') /\ Live[cpu.of] = cpu
      /\ \A t \in Tasks : t # cpu'.of \/ cpu'.at \in Unloaded => Live'[t].at \in Resumable
  BY <1>1, <1>2, StaysMoves DEF Stays, Unloaded
<1>4. Contexts(Live', In(ready'), waiting')
  <2>1. Contexts(Live, In(ready), waiting) /\ In(ready) \cap waiting = {}
    BY DEF IInv, Contexts, OneHolder
  <2>2. cpu.of \in Holding(Live) /\ Live[cpu.of].to = running
    BY <1>1, <1>3 DEF Holding
  <2>3. running \notin In(ready)
    BY <2>2 DEF IInv, Contexts, OneHolder
  <2>4. Neutral(cpu')
    BY <1>1, <1>2, SwitchAssumption DEF Neutral
  <2>5. /\ In(ready) \subseteq In(ready') /\ waiting \subseteq waiting'
        /\ In(ready') \cap waiting' = {}
        /\ In(ready') \cup waiting' = In(ready) \cup waiting \cup {Live[cpu.of].to}
    BY <1>1, <2>1, <2>2, <2>3
  <2> QED BY <1>3, <2>1, <2>2, <2>4, <2>5, PutFromHand
<1>5. CpuOK'
  BY <1>1, <1>2, <1>3 DEF IInv, CpuOK, Unloaded
<1> QED BY <1>1, <1>4, <1>5 DEF IInv

LEMMA WakeDequeueStep ==
  ASSUME IInv, NEW w, WakeDequeue(w)
  PROVE  IInv'
<1>1. /\ cpu.at = "app" /\ w \in waiting /\ running = cpu.of /\ First(ready, running)
      /\ cpu \in Context /\ running \in Tasks
      /\ waiting' = waiting \ {w} /\ cpu' = At("waking", w)
      /\ UNCHANGED <<ready, running, in_task_switch, saved, fault>>
  BY DEF WakeDequeue, IInv, CpuOK
<1>2. w \in Tasks /\ w \notin In(ready) /\ running \in In(ready)
  BY <1>1, FirstIsUnique DEF IInv, Contexts, OneHolder
<1>3. cpu' = [of |-> running, at |-> "waking", to |-> w] /\ cpu' \in Context
  BY <1>1, <1>2, AtIs DEF Steps
<1>4. /\ Moves(Live', Live, cpu.of, cpu') /\ Live[cpu.of] = cpu
      /\ \A t \in Tasks : t # cpu'.of \/ cpu'.at \in Unloaded => Live'[t].at \in Resumable
  BY <1>1, <1>3, StaysMoves DEF Stays, Unloaded
<1>5. Contexts(Live', In(ready'), waiting')
  <2>1. Contexts(Live, In(ready), waiting)
    BY DEF IInv
  <2>2. cpu.of \notin Holding(Live)
    BY <1>1, <1>4 DEF Holding
  <2>3. /\ cpu'.at \in {"dequeued", "waking"} /\ cpu'.to = w
        /\ In(ready') = In(ready) \ {cpu'.to} /\ waiting' = waiting \ {cpu'.to}
        /\ cpu.of \in In(ready') /\ In(ready) \subseteq In(ready') \cup {cpu.of}
        /\ cpu'.to \in In(ready) \cup waiting
    BY <1>1, <1>2, <1>3
  <2> QED BY <1>4, <2>1, <2>2, <2>3, TakenInHand
<1>6. CpuOK'
  BY <1>1, <1>3, <1>4 DEF IInv, CpuOK, Unloaded
<1> QED BY <1>1, <1>5, <1>6 DEF IInv

LEMMA WakeEnqueueStep ==
  ASSUME IInv, WakeEnqueue
  PROVE  IInv'
<1>1. PICK w : w = cpu.to
  OBVIOUS
<1>2. /\ cpu.at = "waking" /\ running = cpu.of /\ First(ready, running)
      /\ cpu \in Context /\ running \in Tasks /\ w \in Tasks
      /\ Replaced(ready', ready, Priority[w], Append(ready[Priority[w]], w))
      /\ cpu' = IF Priority[w] <= Priority[running] THEN At("rescheduling", w)
                                                     ELSE At("app", cpu.of)
      /\ UNCHANGED <<waiting, running, in_task_switch, saved, fault>>
  BY <1>1 DEF WakeEnqueue, IInv, CpuOK, Context, Woken, Replaced
<1>3. /\ cpu' = IF Priority[w] <= Priority[running]
                THEN [of |-> running, at |-> "rescheduling", to |-> w]
                ELSE [of |-> running, at |-> "app", to |-> running]
      /\ cpu' \in Context
  BY <1>2, AtIs DEF Steps
<1>4. /\ Moves(Live', Live, cpu.of, cpu') /\ Live[cpu.of] = cpu
      /\ \A t \in Tasks : t # cpu'.of \/ cpu'.at \in Unloaded => Live'[t].at \in Resumable
  <2>1. Stays
    BY <1>2, <1>3 DEF Stays, Unloaded
  <2> QED BY <2>1, StaysMoves
<1>5. cpu.of \in Holding(Live) /\ Live[cpu.of].to = w
  BY <1>1, <1>2, <1>4 DEF Holding
<1>6. w \notin In(ready) \cup waiting
  BY <1>5 DEF IInv, Contexts, OneHolder
<1>7. /\ Queues(ready') /\ In(ready') = In(ready) \cup {w}
      /\ \A p \in Nat : NoneAbove(ready, p) /\ p <= Priority[w] => NoneAbove(ready', p)
      /\ \A t \in Tasks : First(ready, t) /\ Priority[t] <= Priority[w] => First(ready', t)
  <2>1. Queues(ready) /\ w \in Tasks \ In(ready)
    BY <1>2, <1>6 DEF IInv
  <2> QED BY <1>2, <2>1, Enqueued
<1>8. Contexts(Live', In(ready'), waiting')
  <2>1. Contexts(Live, In(ready), waiting) /\ In(ready) \cap waiting = {}
    BY DEF IInv, Contexts, OneHolder
  <2>2. Neutral(cpu')
    BY <1>3 DEF Neutral
  <2>3. /\ In(ready) \subseteq In(ready') /\ waiting \subseteq waiting'
        /\ In(ready') \cap waiting' = {}
        /\ In(ready') \cup waiting' = In(ready) \cup waiting \cup {Live[cpu.of].to}
    BY <1>2, <1>5, <1>6, <1>7, <2>1
  <2> QED BY <1>4, <1>5, <2>1, <2>2, <2>3, PutFromHand
<1>9. Priority[w] \in Nat /\ Priority[running] \in Nat /\ NoneAbove(ready, Priority[running])
  BY <1>2, SwitchAssumption DEF First
<1>10. Priority[w] <= Priority[running] => NoneAbove(ready', Priority[w])
  <2>1. ASSUME Priority[w] <= Priority[running] PROVE NoneAbove(ready, Priority[w])
    BY <1>9, <2>1, LowerBound DEF IInv
  <2> QED BY <1>7, <1>9, <2>1
<1>11. ~(Priority[w] <= Priority[running]) => First(ready', running)
  <2>1. ~(Priority[w] <= Priority[running]) => Priority[running] <= Priority[w]
    BY <1>9
  <2> QED BY <1>2, <1>7, <2>1
<1>12. CpuOK'
  <2>1. CASE Priority[w] <= Priority[running]
    BY <1>2, <1>3, <1>4, <1>10, <2>1 DEF IInv, CpuOK, Unloaded
  <2>2. CASE ~(Priority[w] <= Priority[running])
    BY <1>2, <1>3, <1>4, <1>11, <2>2 DEF IInv, CpuOK, Unloaded
  <2> QED BY <2>1, <2>2
<1> QED BY <1>2, <1>7, <1>8, <1>12 DEF IInv


LEMMA RescheduleStep ==
  ASSUME IInv, Reschedule
  PROVE  IInv'
<1>1. PICK q : q = Best(ready, Priority[cpu.to])
  OBVIOUS
<1>2. /\ cpu.at = "rescheduling" /\ running = cpu.of /\ cpu \in Context /\ running \in Tasks
      /\ NoneAbove(ready, Priority[cpu.to]) /\ Priority[cpu.to] \in Nat
      /\ cpu' = At("chosen", q)
      /\ UNCHANGED <<ready, waiting, running, in_task_switch, saved, fault>>
  BY <1>1, SwitchAssumption DEF Reschedule, IInv, CpuOK, Context
<1>3. First(ready, q) /\ q \in Tasks
  BY <1>1, <1>2, BestIsFirst DEF IInv, First
<1>4. cpu' = [of |-> running, at |-> "chosen", to |-> q] /\ cpu' \in Context
  BY <1>2, <1>3, AtIs DEF Steps
<1>5. /\ Moves(Live', Live, cpu.of, cpu') /\ Live[cpu.of] = cpu
      /\ \A t \in Tasks : t # cpu'.of \/ cpu'.at \in Unloaded => Live'[t].at \in Resumable
  <2>1. Stays
    BY <1>2, <1>4 DEF Stays, Unloaded
  <2> QED BY <2>1, StaysMoves
<1>6. Contexts(Live', In(ready'), waiting')
  <2>1. cpu.of \notin Holding(Live) /\ Neutral(cpu')
    BY <1>2, <1>4, <1>5 DEF Holding, Neutral
  <2> QED BY <1>2, <1>5, <2>1, StepKeepsContexts DEF IInv
<1>7. CpuOK'
  BY <1>2, <1>3, <1>4, <1>5 DEF IInv, CpuOK, Unloaded
<1> QED BY <1>2, <1>6, <1>7 DEF IInv

LEMMA SwitchTaskStep ==
  ASSUME IInv, SwitchTask
  PROVE  IInv'
<1>1. /\ cpu.at = "chosen" /\ running = cpu.of /\ cpu \in Context /\ running \in Tasks
      /\ First(ready, cpu.to) /\ cpu.to \in Tasks
      /\ ~in_task_switch /\ in_task_switch' = TRUE /\ cpu' = At("saving", cpu.to)
      /\ UNCHANGED <<ready, waiting, running, saved, fault>>
  BY DEF SwitchTask, IInv, CpuOK, Context
<1>2. cpu' = [of |-> running, at |-> "saving", to |-> cpu.to] /\ cpu' \in Context
  BY <1>1, AtIs DEF Steps
<1>3. /\ Moves(Live', Live, cpu.of, cpu') /\ Live[cpu.of] = cpu
      /\ \A t \in Tasks : t # cpu'.of \/ cpu'.at \in Unloaded => Live'[t].at \in Resumable
  <2>1. Stays
    BY <1>1, <1>2 DEF Stays, Unloaded
  <2> QED BY <2>1, StaysMoves
<1>4. Contexts(Live', In(ready'), waiting')
  <2>1. cpu.of \notin Holding(Live) /\ Neutral(cpu')
    BY <1>1, <1>2, <1>3 DEF Holding, Neutral
  <2> QED BY <1>1, <1>3, <2>1, StepKeepsContexts DEF IInv
<1>5. CpuOK'
  BY <1>1, <1>2, <1>3 DEF IInv, CpuOK, Unloaded
<1> QED BY <1>1, <1>4, <1>5 DEF IInv

(* Then those of the switch: the context saved is that of the return.      *)

LEMMA SaveContextStep ==
  ASSUME IInv, SaveContext
  PROVE  IInv'
<1>1. PICK u : u = cpu.of
  OBVIOUS
<1>2. /\ cpu.at = "saving" /\ running = u /\ cpu \in Context /\ u \in Tasks
      /\ First(ready, cpu.to) /\ cpu.to \in Tasks /\ in_task_switch
      /\ saved \in [Tasks -> Context]
      /\ saved' = [saved EXCEPT ![u] = App(u)] /\ cpu' = At("switching", cpu.to)
      /\ UNCHANGED <<ready, waiting, running, in_task_switch, fault>>
  BY <1>1 DEF SaveContext, IInv, CpuOK, Context
<1>3. cpu' = [of |-> u, at |-> "switching", to |-> cpu.to] /\ cpu' \in Context
  BY <1>1, <1>2, AtIs DEF Steps
<1>4. App(u) \in Context /\ App(u).of = u /\ App(u).at = "app"
  BY <1>2 DEF App, Context, Steps
<1>5. /\ saved' \in [Tasks -> Context] /\ saved'[u] = App(u)
      /\ \A t \in Tasks \ {u} : saved'[t] = saved[t]
  BY <1>2, <1>4
<1>6. Live' \in [Tasks -> Context] /\ \A t \in Tasks : Live'[t] = saved'[t]
  BY <1>3, <1>5 DEF Live, Unloaded
<1>7. /\ Live[u] = cpu /\ \A t \in Tasks \ {u} : Live[t] = saved[t] /\ saved[t].at \in Resumable
  BY <1>1, <1>2 DEF Live, Unloaded, IInv, CpuOK
<1>8. Contexts(Live', In(ready'), waiting')
  <2>1. Moves(Live', Live, u, App(u))
    BY <1>2, <1>4, <1>5, <1>6, <1>7 DEF Moves
  <2>2. u \notin Holding(Live) /\ Neutral(App(u))
    BY <1>2, <1>4, <1>7 DEF Holding, Neutral
  <2> QED BY <1>2, <2>1, <2>2, StepKeepsContexts DEF IInv
<1>9. \A t \in Tasks : Live'[t].at \in Resumable
  BY <1>4, <1>5, <1>6, <1>7 DEF Resumable
<1>10. /\ UNCHANGED <<ready, running, in_task_switch, fault>> /\ running = u
       /\ cpu'.of = u /\ cpu'.at = "switching" /\ cpu'.to = cpu.to /\ cpu' \in Context
       /\ First(ready', cpu'.to) /\ saved'[cpu'.of].at = "app" /\ saved' \in [Tasks -> Context]
  BY <1>2, <1>3, <1>4, <1>5
<1>11. CpuOK'
  BY <1>9, <1>10, <1>2 DEF IInv, CpuOK, Unloaded
<1> QED BY <1>2, <1>8, <1>11 DEF IInv

LEMMA UnloadedLive ==
  ASSUME saved \in [Tasks -> Context], cpu.at \in Unloaded
  PROVE  Live = saved
BY DEF Live

LEMMA SwitchToStep ==
  ASSUME IInv, SwitchTo
  PROVE  IInv'
<1>1. /\ cpu.at = "switching" /\ cpu \in Context /\ saved \in [Tasks -> Context]
      /\ First(ready, cpu.to) /\ cpu.to \in Tasks /\ in_task_switch
      /\ running' = cpu.to /\ cpu' = At("restoring", cpu.to)
      /\ UNCHANGED <<ready, waiting, in_task_switch, saved, fault>>
  BY DEF SwitchTo, IInv, CpuOK, Context, Unloaded
<1>2. cpu' = [of |-> cpu.of, at |-> "restoring", to |-> cpu.to] /\ cpu' \in Context
  BY <1>1, AtIs DEF Steps
<1>3. Live = saved /\ Live' = saved
  BY <1>1, <1>2, UnloadedLive DEF Unloaded, Live
<1>4. Contexts(Live', In(ready'), waiting')
  BY <1>1, <1>3 DEF IInv
<1>5. CpuOK'
  BY <1>1, <1>2, <1>3 DEF IInv, CpuOK, Unloaded
<1> QED BY <1>1, <1>4, <1>5 DEF IInv

LEMMA RestoreContextStep ==
  ASSUME IInv, RestoreContext
  PROVE  IInv'
<1>1. /\ cpu.at = "restoring" /\ cpu \in Context /\ saved \in [Tasks -> Context]
      /\ First(ready, cpu.to) /\ cpu.to \in Tasks /\ running = cpu.to
      /\ ~in_task_switch' /\ in_task_switch' \in BOOLEAN /\ cpu' = At("loading", cpu.to)
      /\ UNCHANGED <<ready, waiting, running, saved, fault>>
  BY DEF RestoreContext, IInv, CpuOK, Context, Unloaded
<1>2. cpu' = [of |-> cpu.of, at |-> "loading", to |-> cpu.to] /\ cpu' \in Context
  BY <1>1, AtIs DEF Steps
<1>3. Live = saved /\ Live' = saved
  BY <1>1, <1>2, UnloadedLive DEF Unloaded, Live
<1>4. Contexts(Live', In(ready'), waiting')
  BY <1>1, <1>3 DEF IInv
<1>5. CpuOK'
  BY <1>1, <1>2, <1>3 DEF IInv, CpuOK, Unloaded
<1> QED BY <1>1, <1>4, <1>5 DEF IInv

(* The processor in the saved context of the first task.                   *)
LEMMA Resumed ==
  ASSUME NEW R, NEW W, Contexts(Live, R, W), Queues(ready'), \A t \in Tasks : Live[t].at \in Resumable,
         First(ready', running'), UNCHANGED <<fault, in_task_switch>>,
         ~fault, ~in_task_switch, fault \in BOOLEAN, in_task_switch \in BOOLEAN,
         saved' = Live, cpu' = Live[running']
  PROVE  Live' = Live /\ CpuOK'
<1>1. PICK q : q = running'
  OBVIOUS
<1>2. q \in Tasks /\ First(ready', q) /\ NoneAbove(ready', Priority[q])
  BY <1>1 DEF First
<1>3. /\ Live \in [Tasks -> Context] /\ Live[q] \in Context /\ Live[q].of = q
      /\ Live[q].at \in Resumable /\ Live[q].to \in Tasks
      /\ Live[q].at = "rescheduling" => Priority[Live[q].to] <= Priority[q]
  BY <1>2 DEF Contexts, OwnCode, Context
<1>4. Live' = [t \in Tasks |-> IF t = cpu'.of /\ cpu'.at \notin Unloaded THEN cpu' ELSE saved'[t]]
  BY DEF Live
<1>5. \A t \in Tasks : Live'[t] = Live[t]
  BY <1>1, <1>3, <1>4
<1>6. Live' = Live
  BY <1>3, <1>4, <1>5
<1>7. Live[q].at = "rescheduling" => NoneAbove(ready', Priority[Live[q].to])
  <2> SUFFICES ASSUME Live[q].at = "rescheduling" PROVE NoneAbove(ready', Priority[Live[q].to])
    OBVIOUS
  <2>1. /\ Priority[Live[q].to] \in Nat /\ Priority[q] \in Nat
        /\ Priority[Live[q].to] <= Priority[q]
    BY <1>2, <1>3, SwitchAssumption
  <2> QED BY <1>2, <2>1, LowerBound
<1>8. \A t \in Tasks : Live'[t].at \in Resumable
  BY <1>6
<1>9. CpuOK'
  BY <1>1, <1>2, <1>3, <1>7, <1>8 DEF CpuOK, Resumable, Unloaded
<1> QED BY <1>6, <1>9

LEMMA LoadContextStep ==
  ASSUME IInv, LoadContext
  PROVE  IInv'
<1>1. /\ cpu.at = "loading" /\ cpu \in Context /\ saved \in [Tasks -> Context]
      /\ First(ready, cpu.to) /\ cpu.to \in Tasks /\ running = cpu.to /\ ~fault /\ ~in_task_switch
      /\ fault \in BOOLEAN /\ in_task_switch \in BOOLEAN
      /\ cpu' = saved[running]
      /\ UNCHANGED <<ready, waiting, running, in_task_switch, saved, fault>>
  BY DEF LoadContext, IInv, CpuOK, Context, Unloaded
<1>2. Live = saved /\ \A t \in Tasks : Live[t].at \in Resumable
  BY <1>1, UnloadedLive DEF Unloaded, IInv, CpuOK
<1>3. Live' = Live /\ CpuOK'
  BY <1>1, <1>2, Resumed DEF IInv
<1> QED BY <1>1, <1>3 DEF IInv
-----------------------------------------------------------------------------
(* An interrupt: the switch it asks for is a whole one,                    *)

LEMMA Interrupted ==
  ASSUME IInv, cpu.at \in Resumable, saved' = [saved EXCEPT ![running] = cpu]
  PROVE  saved' = Live /\ \A t \in Tasks : Live[t].at \in Resumable
<1>1. /\ running = cpu.of /\ cpu \in Context /\ running \in Tasks
      /\ saved \in [Tasks -> Context] /\ cpu.at \notin Unloaded
  BY DEF IInv, CpuOK, Resumable, Unloaded
<1>2. Live = [t \in Tasks |-> IF t = running THEN cpu ELSE saved[t]]
  BY <1>1 DEF Live
<1>3. \A t \in Tasks : t # running => Live[t].at \in Resumable
  BY <1>1 DEF IInv, CpuOK
<1>4. Live[running] = cpu
  BY <1>1, <1>2
<1> QED BY <1>1, <1>2, <1>3, <1>4

LEMMA SwitchedByHandler ==
  ASSUME IInv, cpu.at \in Resumable, Queues(ready'), In(ready') = In(ready) \cup (waiting \ waiting'),
         NEW bound \in Nat, NoneAbove(ready', bound),
         IrqReschedule(ready', bound), UNCHANGED <<in_task_switch, fault>>
  PROVE  Live' = Live /\ CpuOK'
<1>1. PICK q : q = Best(ready', bound)
  OBVIOUS
<1>2. /\ ~in_task_switch /\ ~fault /\ in_task_switch \in BOOLEAN /\ fault \in BOOLEAN
      /\ saved \in [Tasks -> Context] /\ IdleTask \in In(ready')
  BY DEF IInv, CpuOK, Resumable
<1>3. /\ saved' = [saved EXCEPT ![running] = cpu]
      /\ running' = q /\ cpu' = saved'[q]
  BY <1>1, <1>2 DEF IrqReschedule
<1>4. First(ready', q)
  BY <1>1, <1>2, BestIsFirst
<1>5. saved' = Live /\ \A t \in Tasks : Live[t].at \in Resumable
  BY <1>3, Interrupted
<1>6. Contexts(Live, In(ready), waiting)
  BY DEF IInv
<1> QED BY <1>2, <1>3, <1>4, <1>5, <1>6, Resumed

(* or it is not made, and the interrupted code goes on.                    *)
LEMMA CpuKept ==
  ASSUME IInv, UNCHANGED <<running, cpu, saved, in_task_switch, fault>>,
         cpu.at \in {"app", "waking"} => First(ready', running),
         cpu.at = "dequeued" => NoneAbove(ready', Priority[running]),
         cpu.at = "rescheduling" => NoneAbove(ready', Priority[cpu.to]),
         cpu.at \in {"chosen", "saving"} \cup Unloaded => First(ready', cpu.to)
  PROVE  Live' = Live /\ CpuOK'
<1>1. Live' = Live
  BY DEF Live
<1> QED BY <1>1 DEF IInv, CpuOK

LEMMA IrqWakeStep ==
  ASSUME Careful, IInv, NEW w, IrqWake(w)
  PROVE  IInv'
<1>1. /\ w \in waiting /\ waiting' = waiting \ {w} /\ Harmless(w)
      /\ Replaced(ready', ready, Priority[w], Append(ready[Priority[w]], w))
      /\ UNCHANGED <<in_task_switch, fault>>
  BY DEF IrqWake, Woken, Replaced
<1>2. IF Priority[w] <= Priority[running] THEN IrqReschedule(ready', Priority[w])
                                          ELSE UNCHANGED <<running, cpu, saved>>
  BY DEF IrqWake
<1>3. Contexts(Live, In(ready) \cup {w}, waiting \ {w}) /\ w \in Tasks \ In(ready)
  BY <1>1, MadeReady DEF IInv
<1>4. /\ Queues(ready') /\ In(ready') = In(ready) \cup {w}
      /\ \A p \in Nat : NoneAbove(ready, p) /\ p <= Priority[w] => NoneAbove(ready', p)
      /\ \A t \in Tasks : First(ready, t) /\ Priority[t] <= Priority[w] => First(ready', t)
  BY <1>1, <1>3, Enqueued DEF IInv
<1>5. /\ running \in Tasks /\ cpu.to \in Tasks /\ cpu \in Context /\ w \in Tasks
      /\ Priority[running] \in Nat /\ Priority[cpu.to] \in Nat /\ Priority[w] \in Nat
      /\ in_task_switch <=> cpu.at \in {"saving", "switching", "restoring"}
  BY <1>3, SwitchAssumption DEF IInv, CpuOK, Context
<1>6. /\ cpu.at \in {"app", "waking"} => First(ready, running) /\ NoneAbove(ready, Priority[running])
      /\ cpu.at = "dequeued" => NoneAbove(ready, Priority[running])
      /\ cpu.at = "rescheduling" =>
           NoneAbove(ready, Priority[cpu.to]) /\ Priority[cpu.to] <= Priority[running]
      /\ cpu.at \in {"chosen", "saving"} \cup Unloaded => First(ready, cpu.to)
  <2>1. cpu.at = "rescheduling" => Priority[cpu.to] <= Priority[running]
    <3>1. cpu.at = "rescheduling" => running = cpu.of /\ Live[cpu.of] = cpu
      BY <1>5 DEF IInv, CpuOK, Live, Unloaded
    <3> QED BY <1>5, <3>1 DEF IInv, Contexts, OwnCode
  <2> QED BY <2>1 DEF IInv, CpuOK, First
<1>7. Live' = Live /\ CpuOK'
  <2>1. CASE Priority[w] <= Priority[running] /\ in_task_switch
    <3>1. UNCHANGED <<running, cpu, saved>>
      BY <1>2, <2>1 DEF IrqReschedule
    <3>2. cpu.at \in {"saving", "switching", "restoring"} /\ Priority[cpu.to] <= Priority[w]
      BY <1>1, <1>5, <2>1 DEF Harmless
    <3>3. First(ready', cpu.to)
      BY <1>4, <1>5, <1>6, <3>2 DEF Unloaded
    <3> QED BY <1>1, <3>1, <3>2, <3>3, CpuKept
  <2>2. CASE Priority[w] <= Priority[running] /\ ~in_task_switch
    <3>1. /\ cpu.at \in Resumable
          /\ cpu.at = "rescheduling" => Priority[w] <= Priority[cpu.to]
      BY <1>1, <1>5, <2>2 DEF Harmless, Resumable
    <3>2. NoneAbove(ready, Priority[w])
      <4>1. CASE cpu.at = "rescheduling"
        BY <1>5, <1>6, <3>1, <4>1, LowerBound DEF IInv
      <4>2. CASE cpu.at \in {"app", "waking"}
        BY <1>5, <1>6, <2>2, <4>2, LowerBound DEF IInv
      <4> QED BY <3>1, <4>1, <4>2 DEF Resumable
    <3>3. NoneAbove(ready', Priority[w])
      BY <1>4, <1>5, <3>2
    <3>4. In(ready') = In(ready) \cup (waiting \ waiting')
      BY <1>1, <1>4
    <3>5. IrqReschedule(ready', Priority[w])
      BY <1>2, <2>2
    <3> QED BY <1>1, <1>4, <1>5, <3>1, <3>3, <3>4, <3>5, SwitchedByHandler
  <2>3. CASE ~(Priority[w] <= Priority[running])
    <3>1. UNCHANGED <<running, cpu, saved>> /\ Priority[running] <= Priority[w]
      BY <1>2, <1>5, <2>3
    <3>2. /\ cpu.at \in {"chosen", "loading", "saving", "switching", "restoring"}
             => Priority[cpu.to] <= Priority[w]
          /\ cpu.at = "rescheduling" => Priority[cpu.to] <= Priority[w]
      BY <1>1, <1>5, <1>6, <3>1 DEF Harmless
    <3>3. /\ cpu.at \in {"app", "waking"} => First(ready', running)
          /\ cpu.at = "dequeued" => NoneAbove(ready', Priority[running])
          /\ cpu.at = "rescheduling" => NoneAbove(ready', Priority[cpu.to])
      BY <1>4, <1>5, <1>6, <3>1, <3>2
    <3>4. cpu.at \in {"chosen", "saving"} \cup Unloaded => First(ready', cpu.to)
      BY <1>4, <1>5, <1>6, <3>2 DEF Unloaded
    <3> QED BY <1>1, <3>1, <3>3, <3>4, CpuKept
  <2> QED BY <2>1, <2>2, <2>3
<1>8. IdleTask \in In(ready')
  BY <1>4 DEF IInv
<1> QED BY <1>1, <1>3, <1>4, <1>7, <1>8 DEF IInv

LEMMA SliceEndsStep ==
  ASSUME Careful, IInv, SliceEnds
  PROVE  IInv'
<1>1. PICK l : l = Priority[running]
  OBVIOUS
<1>2. running \in Tasks /\ l \in Nat /\ l \in Levels
  BY <1>1, TasksHaveLevels DEF IInv, CpuOK
<1>3. /\ cpu.at \in Resumable /\ ready[l] # <<>>
      /\ NoneAbove(ready, l)
  <2>1. \/ cpu.at \in {"app", "waking"}
        \/ cpu.at = "rescheduling" /\ Priority[cpu.to] = l /\ ready[l] # <<>>
    BY <1>1 DEF SliceEnds
  <2>2. /\ cpu.at \in {"app", "waking"} => First(ready, running)
        /\ cpu.at = "rescheduling" => NoneAbove(ready, Priority[cpu.to])
    BY DEF IInv, CpuOK
  <2> QED BY <1>1, <2>1, <2>2 DEF First, Resumable
<1>4. /\ Replaced(ready', ready, l, Append(Tail(ready[l]), Head(ready[l])))
      /\ IrqReschedule(ready', l) /\ UNCHANGED <<waiting, in_task_switch, fault>>
  BY <1>1, <1>3 DEF SliceEnds, Replaced
<1>5. Queues(ready') /\ In(ready') = In(ready)
  BY <1>2, <1>3, <1>4, LevelTurned DEF IInv
<1>6. NoneAbove(ready', l)
  BY <1>3, <1>5 DEF NoneAbove
<1>7. Live' = Live /\ CpuOK'
  <2>1. In(ready') = In(ready) \cup (waiting \ waiting')
    BY <1>4, <1>5
  <2> QED BY <1>2, <1>3, <1>4, <1>5, <1>6, <2>1, SwitchedByHandler
<1> QED BY <1>4, <1>5, <1>7 DEF IInv

LEMMA StutterStep ==
  ASSUME IInv, UNCHANGED vars
  PROVE  IInv'
<1>1. UNCHANGED <<ready, waiting, running, in_task_switch, cpu, saved, fault>>
  BY DEF vars
<1>2. Live' = Live
  BY <1>1 DEF Live
<1>3. CpuOK'
  BY <1>1, <1>2 DEF IInv, CpuOK
<1> QED BY <1>1, <1>2, <1>3 DEF IInv

(* The inductive invariant.                                                *)

LEMMA InitIInv == Init => IInv
<1> SUFFICES ASSUME Init PROVE IInv
  OBVIOUS
<1>1. /\ ready = [l \in Levels |-> IF l = Priority[IdleTask] THEN <<IdleTask>> ELSE <<>>]
      /\ waiting = Tasks \ {IdleTask} /\ running = IdleTask /\ in_task_switch = FALSE
      /\ cpu = App(IdleTask) /\ saved = [t \in Tasks |-> App(t)] /\ fault = FALSE
      /\ IdleTask \in Tasks /\ Priority[IdleTask] \in Levels
  BY SwitchAssumption, TasksHaveLevels DEF Init
<1>2. PICK p : p = Priority[IdleTask]
  OBVIOUS
<1>3. ready \in [Levels -> Seq(Tasks)] /\ ready[p] = <<IdleTask>>
      /\ \A l \in Levels \ {p} : ready[l] = <<>>
  BY <1>1, <1>2
<1>4. Range(ready[p]) = {IdleTask} /\ \A l \in Levels \ {p} : Range(ready[l]) = {}
  BY <1>3 DEF Range
<1>5. \A l \in Levels : IsInjective(ready[l])
  BY <1>3 DEF IsInjective
<1>6. Queues(ready)
  BY <1>2, <1>3, <1>4, <1>5 DEF Queues
<1>7. In(ready) = {IdleTask}
  BY <1>1, <1>2, <1>4 DEF In
<1>8. First(ready, IdleTask)
  BY <1>1, <1>2, <1>3, <1>7, SwitchAssumption DEF First, NoneAbove
<1>9. \A t \in Tasks : App(t) \in Context /\ App(t).of = t /\ App(t).at = "app" /\ App(t).to = t
  BY DEF App, Context, Steps
<1>10. Live \in [Tasks -> Context] /\ \A t \in Tasks : Live[t] = App(t)
  BY <1>1, <1>9 DEF Live
<1>11. Contexts(Live, In(ready), waiting)
  <2>1. OwnCode(Live, In(ready))
    BY <1>9, <1>10 DEF OwnCode
  <2>2. Holding(Live) = {}
    BY <1>9, <1>10 DEF Holding
  <2> QED BY <1>1, <1>7, <2>1, <2>2 DEF Contexts, OneHolder
<1>12. CpuOK
  <2>1. \A t \in Tasks : Live[t].at \in Resumable
    BY <1>9, <1>10 DEF Resumable
  <2> QED BY <1>1, <1>8, <1>9, <2>1 DEF CpuOK, Unloaded
<1> QED BY <1>1, <1>6, <1>7, <1>11, <1>12 DEF IInv

LEMMA StepIInv ==
  ASSUME Careful
  PROVE  IInv /\ [Next]_vars => IInv'
<1> SUFFICES ASSUME IInv, [Next]_vars PROVE IInv'
  OBVIOUS
<1>1. CASE NapDequeue
  BY <1>1, NapDequeueStep
<1>2. CASE NapEnqueue
  BY <1>2, NapEnqueueStep
<1>3. CASE WakeEnqueue
  BY <1>3, WakeEnqueueStep
<1>4. CASE Reschedule
  BY <1>4, RescheduleStep
<1>5. CASE SwitchTask
  BY <1>5, SwitchTaskStep
<1>6. CASE SaveContext
  BY <1>6, SaveContextStep
<1>7. CASE SwitchTo
  BY <1>7, SwitchToStep
<1>8. CASE RestoreContext
  BY <1>8, RestoreContextStep
<1>9. CASE LoadContext
  BY <1>9, LoadContextStep
<1>10. CASE SliceEnds
  BY <1>10, SliceEndsStep
<1>11. ASSUME NEW w \in Tasks, WakeDequeue(w) PROVE IInv'
  BY <1>11, WakeDequeueStep
<1>12. ASSUME NEW w \in Tasks, IrqWake(w) PROVE IInv'
  BY <1>12, IrqWakeStep
<1>13. CASE UNCHANGED vars
  BY <1>13, StutterStep
<1> QED
  BY <1>1, <1>2, <1>3, <1>4, <1>5, <1>6, <1>7, <1>8, <1>9, <1>10, <1>11, <1>12, <1>13 DEF Next

LEMMA SpecIInv ==
  ASSUME Careful
  PROVE  Spec => []IInv
BY InitIInv, StepIInv, PTL DEF Spec
-----------------------------------------------------------------------------
(* What the invariant says of the properties.                              *)

LEMMA ReadyOnes == ReadyTasks = In(ready)
BY DEF ReadyTasks, In

LEMMA BestIsRunning ==
  ASSUME IInv
  PROVE  BestTaskRuns
<1> SUFFICES ASSUME cpu.at = "app"
             PROVE  running = cpu.of /\ ~in_task_switch /\ running = Best(ready, Min(Levels))
  BY DEF BestTaskRuns
<1>1. running = cpu.of /\ ~in_task_switch /\ First(ready, running)
  BY DEF IInv, CpuOK
<1>2. Min(Levels) \in Nat /\ \A k \in Levels : Min(Levels) <= k
  <2>1. Levels \in SUBSET Nat /\ Levels # {}
    BY TasksHaveLevels, SwitchAssumption DEF Levels
  <2>2. PICK S : S = Levels
    OBVIOUS
  <2>3. Min(S) \in S /\ \A k \in S : Min(S) <= k
    BY <2>1, <2>2, MinIsLeast
  <2> QED BY <2>1, <2>2, <2>3
<1>3. PICK m \in Nat : m = Min(Levels)
  BY <1>2
<1>4. NoneAbove(ready, m)
  BY <1>2, <1>3, OnItsLevel, TasksHaveLevels DEF NoneAbove, IInv
<1>5. First(ready, Best(ready, m))
  BY <1>3, <1>4, BestIsFirst DEF IInv
<1>6. running = Best(ready, m)
  BY <1>1, <1>5, FirstIsUnique DEF IInv
<1> QED BY <1>1, <1>3, <1>6

LEMMA NobodyIsLost ==
  ASSUME IInv
  PROVE  NobodyLost
<1>1. /\ ~fault /\ cpu \in Context /\ saved \in [Tasks -> Context]
      /\ Contexts(Live, In(ready), waiting)
  BY DEF IInv, CpuOK
<1>2. \A t \in Tasks \ {cpu.of} : Live[t] = saved[t]
  BY DEF Live
<1>3. \A t \in Tasks : Live[t].of = t
  BY <1>1 DEF Contexts, OwnCode
<1>4. \A t \in Tasks \ {cpu.of} : saved[t].of = t
  BY <1>2, <1>3
<1> DEFINE contexts == {cpu} \cup {saved[t] : t \in ReadyTasks \ {cpu.of}}
           held == {c.to : c \in {x \in contexts : x.at \in {"dequeued", "waking"}}}
<1>5. /\ In(ready) \subseteq Tasks /\ waiting \subseteq Tasks /\ In(ready) \cap waiting = {}
      /\ \A x \in Tasks \ (In(ready) \cup waiting) : \E t \in Holding(Live) : Live[t].to = x
  BY <1>1 DEF Contexts, OneHolder
<1>6. held \subseteq Tasks
  <2>1. \A c \in contexts : c \in Context
    BY <1>1, <1>5, ReadyOnes
  <2> QED BY <2>1 DEF Context
<1>7. ASSUME NEW x \in Tasks \ (In(ready) \cup waiting) PROVE x \in held
  <2>1. PICK t \in Tasks : Live[t].at \in {"dequeued", "waking"} /\ Live[t].to = x
    BY <1>5 DEF Holding
  <2>2. Live[t] \in contexts
    <3>1. CASE t = cpu.of /\ cpu.at \notin Unloaded
      BY <2>1, <3>1 DEF Live
    <3>2. CASE t # cpu.of \/ cpu.at \in Unloaded
      <4>1. Live[t].at \in Resumable
        BY <3>2 DEF IInv, CpuOK
      <4>2. Live[t].at = "waking"
        BY <2>1, <4>1 DEF Resumable
      <4>3. t \in ReadyTasks
        BY <1>1, <4>2, ReadyOnes DEF Contexts, OwnCode
      <4>4. t # cpu.of
        BY <1>1, <3>2, <4>2 DEF IInv, CpuOK, Live
      <4> QED BY <1>2, <4>3, <4>4
    <3> QED BY <3>1, <3>2
  <2> QED BY <2>1, <2>2
<1> HIDE DEF held
<1>8. Tasks = ReadyTasks \cup waiting \cup held
  BY <1>5, <1>6, <1>7, ReadyOnes
<1> QED BY <1>1, <1>4, <1>5, <1>8, ReadyOnes DEF NobodyLost, held

LEMMA TypesRight ==
  ASSUME IInv
  PROVE  TypeOK
BY OnItsLevel DEF TypeOK, IInv, CpuOK, Contexts, OneHolder, Queues, In
-----------------------------------------------------------------------------
(* When handlers come where they are harmless, the code that runs is that  *)
(* of the best ready task.                                                 *)
THEOREM SwitchedToBest ==
  ASSUME Careful
  PROVE  Spec => []BestTaskRuns
BY SpecIInv, BestIsRunning, PTL

(* Then no task is lost in nap(), wake() or a switch, and each goes on in  *)
(* its own code; the code never goes through a NULL pointer.               *)
THEOREM TasksKept ==
  ASSUME Careful
  PROVE  Spec => []NobodyLost
BY SpecIInv, NobodyIsLost, PTL

(* The variables of the switch keep their types.                           *)
THEOREM TypeCorrect ==
  ASSUME Careful
  PROVE  Spec => []TypeOK
BY SpecIInv, TypesRight, PTL
=============================================================================
