------------------------------ MODULE TaskRing ------------------------------
(***************************************************************************)
(* The task queues of base/taskman.c as the code keeps them: rings of      *)
(* TASK_Q structures linked by next and prev, entered through a head; one  *)
(* task alone has NULL links.  Every action of Taskman is taken together   *)
(* with what its enqueue_task(), dequeue_task() and delete_task() calls do *)
(* to the links, also when Taskman sets fault.                             *)
(***************************************************************************)
EXTENDS Taskman, FiniteSets

ASSUME TaskRingAssumption == IsFiniteSet(Task)

VARIABLE
  rings     \* [head, next, prev, parent_queue_head, MIXEDPRIO of queue_flags]

ringVars == <<vars, rings>>

NoRings ==
  [head |-> [q \in Queue |-> NULL], next |-> [t \in Task |-> NULL],
   prev |-> [t \in Task |-> NULL], parent |-> [t \in Task |-> NULL],
   mixed |-> [t \in Task |-> FALSE]]

(* The tasks met from the head on, until the head comes again or a NULL.   *)
Walk(r, q) ==
  LET met[k \in 1 .. Cardinality(Task)] ==
        IF k = 1 THEN r.head[q]
        ELSE LET u == met[k - 1]
             IN IF u = NULL THEN NULL
                ELSE IF r.next[u] = r.head[q] THEN NULL ELSE r.next[u]
      length == Cardinality({k \in DOMAIN met : met[k] # NULL})
  IN [k \in 1 .. length |-> met[k]]

(* f with a new value at t, if t is a task.                                *)
Put(f, t, v) == IF t = NULL THEN f ELSE [f EXCEPT ![t] = v]

(* Where t is inserted: in a queue of mixed priorities, before the first   *)
(* task of a worse one; else (0) before the head, which makes t the last.  *)
WorsePos(r, q, t, prio) ==
  LET tasks == Walk(r, q)
      worse == {i \in DOMAIN tasks : prio[t] < prio[tasks[i]]}
  IN IF r.mixed[r.head[q]] /\ worse # {}
     THEN CHOOSE i \in worse : \A j \in worse : i <= j
     ELSE 0

(* enqueue_task, for a task whose queue_flags the caller set to mixed.     *)
Enqueue(r, q, t, prio, mixed) ==
  IF r.head[q] = NULL
  THEN [head |-> [r.head EXCEPT ![q] = t],
        next |-> [r.next EXCEPT ![t] = NULL],
        prev |-> [r.prev EXCEPT ![t] = NULL],
        parent |-> [r.parent EXCEPT ![t] = q],
        mixed |-> [r.mixed EXCEPT ![t] = mixed]]
  ELSE LET h == r.head[q]
           i == WorsePos(r, q, t, prio)
           b == IF i = 0 THEN h ELSE Walk(r, q)[i]
           newHead == IF i = 1 THEN t ELSE h
           behind == IF r.prev[b] # NULL THEN r.prev[b]
                     ELSE IF b = h THEN newHead ELSE NULL
       IN [head |-> [r.head EXCEPT ![q] = newHead],
           next |-> Put([r.next EXCEPT ![t] = b], behind, t),
           prev |-> [r.prev EXCEPT ![b] = t, ![t] = behind],
           parent |-> [r.parent EXCEPT ![t] = q],
           mixed |-> [r.mixed EXCEPT ![t] = r.mixed[h]]]

(* What dequeue_task() and delete_task() leave of t itself.                *)
Detached(r, t) ==
  [head |-> r.head, next |-> [r.next EXCEPT ![t] = NULL],
   prev |-> [r.prev EXCEPT ![t] = NULL],
   parent |-> [r.parent EXCEPT ![t] = NULL],
   mixed |-> [r.mixed EXCEPT ![t] = FALSE]]
(* The neighbours of t linked to each other.                               *)
Bridged(r, t) ==
  LET next == Put(r.next, r.prev[t], r.next[t])
  IN [r EXCEPT !.next = next, !.prev = Put(@, next[t], r.prev[t])]

Headed(r, q, t) == [r EXCEPT !.head = [@ EXCEPT ![q] = t]]
Unlinked(r, t) == [r EXCEPT !.next = [@ EXCEPT ![t] = NULL],
                            !.prev = [@ EXCEPT ![t] = NULL]]

DequeueLeavesRing(r, q) ==                 \* mutant: one task left in a ring
  LET t == r.head[q]  s == Bridged(r, t)
  IN Detached(Headed(s, q, s.next[t]), t)
(* dequeue_task of a queue that is not empty.                              *)
Dequeue(r, q) ==
  LET t == r.head[q]
      s == Bridged(r, t)
      n == s.next[t]
      moved == Headed(s, q, n)
      alone == n # NULL /\ s.next[n] = n
  IN Detached(IF alone THEN Unlinked(moved, n) ELSE moved, t)

(* delete_task.                                                            *)
DeleteTask(r, q, t) ==
  IF t = r.head[q] THEN Dequeue(r, q)
  ELSE IF Contains(Walk(r, q), t) THEN Detached(Bridged(r, t), t) ELSE r

Rotate(r, q) ==
  IF r.next[r.head[q]] = NULL THEN r
  ELSE Headed(r, q, r.next[r.head[q]])
-----------------------------------------------------------------------------
RingInit ==
  /\ Init
  /\ rings = Enqueue(NoRings, ReadyQ(priority[running_task]), running_task,
                     priority, FALSE)

RingStartTask(t, p, share) ==
  /\ StartTask(t, p, share)
  /\ rings' = Enqueue(rings, ReadyQ(p), t, priority', FALSE)

RingTerminate ==
  /\ Terminate
  /\ rings' = Dequeue(rings, ReadyQ(priority[running_task]))

RingEndTask(q, i) ==
  /\ EndTask(q, i)
  /\ rings' = DeleteTask(rings, q, queue[q][i])

RingNap(q) ==
  /\ Nap(q)
  /\ LET rq == ReadyQ(priority[running_task])
     IN rings' = Enqueue(Dequeue(rings, rq), q, rings.head[rq], priority,
                         rings.head[q] = NULL)

RingWake(q) ==
  /\ Wake(q)
  /\ LET t == rings.head[q]
     IN rings' = Enqueue(Dequeue(rings, q), ReadyQ(priority[t]), t, priority,
                         FALSE)

RingSetRunningTaskPriority(p) ==
  /\ SetRunningTaskPriority(p)
  /\ LET rq == ReadyQ(priority[running_task])
     IN rings' = Enqueue(Dequeue(rings, rq), ReadyQ(p), rings.head[rq],
                         priority', FALSE)

(* A waiting task goes through a NULL queue pointer after the delete.      *)
RingSetTaskPriority(q, i, p) ==
  /\ SetTaskPriority(q, i, p)
  /\ LET t == queue[q][i]
         rest == DeleteTask(rings, q, t)
     IN rings' = IF q \in Prio \X {READY}
                 THEN Enqueue(rest, ReadyQ(p), t, priority', FALSE) ELSE rest

RingTimerHandler ==
  /\ TimerHandler
  /\ rings' = IF running_task # NULL /\ running_task \in timeshare
              THEN Rotate(rings, ReadyQ(priority[running_task])) ELSE rings

RingNext ==
  \/ \E t \in Task, p \in Prio, share \in BOOLEAN : RingStartTask(t, p, share)
  \/ RingTerminate
  \/ \E q \in Queue : \E i \in DOMAIN queue[q] : RingEndTask(q, i)
  \/ \E q \in Queue : RingNap(q)
  \/ \E q \in Queue : RingWake(q)
  \/ \E p \in Prio : RingSetRunningTaskPriority(p)
  \/ \E q \in Queue : \E i \in DOMAIN queue[q] :
       \E p \in Prio : RingSetTaskPriority(q, i, p)
  \/ (\E t \in Task : SetTaskOptions(t)) /\ UNCHANGED rings
  \/ (\E timer \in BOOLEAN : IrqEnter(timer)) /\ UNCHANGED rings
  \/ RingTimerHandler
  \/ IrqExit /\ UNCHANGED rings

RingSpec == RingInit /\ [][RingNext]_ringVars
RingFairSpec == RingSpec /\ Fairness
-----------------------------------------------------------------------------
(* Until a fault, the rings are the sequences of Taskman: from the head    *)
(* the walk meets the tasks in order, backwards it meets them in reverse,  *)
(* only a lone task may lack links, and those of selfLinked do not.        *)
RingsMatch ==
  ~fault => \A q \in Queue :
    LET s == queue[q]
    IN /\ Walk(rings, q) = s
       /\ \A i \in DOMAIN s : rings.parent[s[i]] = q
       /\ Len(s) > 1 =>
            \A i \in DOMAIN s :
              rings.prev[s[i]] = IF i = 1 THEN s[Len(s)] ELSE s[i - 1]
       /\ Len(s) = 1 =>
            /\ rings.next[s[1]] = rings.prev[s[1]]
            /\ (rings.next[s[1]] # NULL) <=> q \in selfLinked

(* Who was put on a queue can be found on it: "custom wait queues may      *)
(* include tasks with different priorities" and "fix to make the queue     *)
(* cyclic" (taskman.c, enqueue_task).                                      *)
NobodyLost ==
  \A t \in Task : rings.parent[t] # NULL =>
    Contains(Walk(rings, rings.parent[t]), t)
=============================================================================
