------------------------------ MODULE Taskman ------------------------------
(***************************************************************************)
(* The task manager (base/taskman.c) with the interrupt dispatcher's end   *)
(* of interrupt (base/sosbasic.c), for a build whose callers keep the      *)
(* calls atomic towards interrupts: an interrupt is taken between two      *)
(* calls of the running task, never inside one.                            *)
(*                                                                         *)
(* A queue is the sequence of its tasks from the head on; TaskRing checks  *)
(* that the pointer rings of the code behave like these sequences, and     *)
(* where they do not.  Three calls set fault, because what follows them is *)
(* not a behaviour of queues any more and is not modelled:                 *)
(*   - dequeuing the only task of a queue whose second task was removed by *)
(*     delete_task(): the task is linked to itself (selfLinked) and stays  *)
(*     at the head of the queue;                                           *)
(*   - nap() in front of the only waiter of a queue: the waiter is lost;   *)
(*   - set_task_priority() of a waiting task: it is enqueued through a     *)
(*     NULL queue pointer.                                                 *)
(***************************************************************************)
EXTENDS Naturals, Sequences, SequencesExt

CONSTANTS
  Task,                 \* TASK_Q structures: the tasks that may exist
  NumPriorityLevels,    \* NUM_PRIORITY_LEVELS
  WaitQ,                \* wait queues owned by drivers, sockets, timers...
  NULL,
  InversionFree         \* callers never raise a ready task past other tasks
                        \* to a priority still worse than the running one

Prio == 0 .. NumPriorityLevels - 1
READY == "ready"        \* TASK_READY
WAITING == "waiting"    \* TASK_WAITING
SysQ == Prio \X {READY, WAITING}      \* task_q[][]
Queue == SysQ \cup WaitQ

ASSUME TaskmanAssumption ==
  /\ NumPriorityLevels \in Nat \ {0}
  /\ NULL \notin Task
  /\ WaitQ \cap SysQ = {}
  /\ InversionFree \in BOOLEAN

VARIABLES
  queue,        \* the contents of every queue
  selfLinked,   \* queues whose only task has next = prev = itself
  priority,     \* task.priority
  timeshare,    \* tasks with OPT_TIMESHARE
  irqs_off,     \* tasks that run with interrupts disabled
  running_task,
  running_irq,  \* an interrupt's handlers are being called
  slice_due,    \* ... and the task manager's timer is among them
  pending,      \* pending_reschedule
  pending_priority,
  fault

taskVars == <<queue, selfLinked, priority, timeshare, irqs_off>>
irqVars == <<running_irq, slice_due>>
pendVars == <<pending, pending_priority>>
vars == <<taskVars, running_task, irqVars, pendVars, fault>>

ReadyQ(p) == <<p, READY>>
Queued(t) == \E q \in Queue : Contains(queue[q], t)
Ready(t) == Contains(queue[ReadyQ(priority[t])], t)
-----------------------------------------------------------------------------
(* enqueue_task: a system queue takes the task last; a wait queue is       *)
(* MIXEDPRIO (nap's "best guess") and takes it before the first task of a  *)
(* worse priority.                                                         *)
InsertPosFifo(s, t) == Len(s) + 1          \* mutant: plain FIFO order
InsertPos(s, t) ==
  CHOOSE i \in 1 .. Len(s) + 1 :
    /\ i <= Len(s) => priority[t] < priority[s[i]]
    /\ \A j \in 1 .. i - 1 : priority[s[j]] <= priority[t]

EnqueueWaiting(s, t) == InsertAt(s, InsertPos(s, t), t)

(* reschedule's scan: the head of the first ready queue from bound on, or  *)
(* the idle loop.                                                          *)
FirstReadyBelow(Q, bound) ==               \* mutant: starts one level late
  IF \E p \in Prio : p > bound /\ Q[ReadyQ(p)] # <<>>
  THEN LET best == CHOOSE p \in Prio : p > bound /\ Q[ReadyQ(p)] # <<>>
       IN Head(Q[ReadyQ(best)])
  ELSE NULL
FirstReady(Q, bound) ==
  IF \E p \in Prio : p >= bound /\ Q[ReadyQ(p)] # <<>>
  THEN LET best == CHOOSE p \in Prio :
             /\ p >= bound /\ Q[ReadyQ(p)] # <<>>
             /\ \A r \in Prio : r >= bound /\ Q[ReadyQ(r)] # <<>> => p <= r
       IN Head(Q[ReadyQ(best)])
  ELSE NULL

RescheduleLatest(bound) ==                 \* mutant: forgets a better bound
  IF running_irq
  THEN pending' = TRUE /\ pending_priority' = bound /\ UNCHANGED running_task
  ELSE /\ pending' = FALSE
       /\ pending_priority' = NumPriorityLevels
       /\ running_task' = FirstReady(queue', bound)
(* reschedule() followed by switch_task().                                 *)
Reschedule(bound) ==
  IF running_irq
  THEN /\ pending' = TRUE
       /\ pending_priority' =
            IF bound < pending_priority THEN bound ELSE pending_priority
       /\ UNCHANGED running_task
  ELSE /\ pending' = FALSE
       /\ pending_priority' = NumPriorityLevels
       /\ running_task' = FirstReady(queue', bound)

NoReschedule == UNCHANGED <<running_task, pendVars>>

(* The CPU executes a task's code, not a handler's or the idle loop's.     *)
InTask == ~fault /\ ~running_irq /\ running_task # NULL
(* Code that may call the task manager is executing.                       *)
InCode == ~fault /\ (running_irq \/ running_task # NULL)

(* The call corrupted a queue, or reached a corrupt or a NULL one.         *)
Fault ==
  /\ fault' = TRUE
  /\ UNCHANGED <<taskVars, running_task, irqVars, pendVars>>

(* free() of a task structure: whatever it held is meaningless now.        *)
Forget(t) ==
  /\ priority' = [priority EXCEPT ![t] = 0]
  /\ timeshare' = timeshare \ {t}
-----------------------------------------------------------------------------
(* Boot: entry() starts init_task on an otherwise empty system.            *)
Init ==
  /\ \E t \in Task, p \in Prio :
       /\ queue = [q \in Queue |-> IF q = ReadyQ(p) THEN <<t>> ELSE <<>>]
       /\ priority = [u \in Task |-> IF u = t THEN p ELSE 0]
       /\ timeshare \in {{}, {t}}
       /\ running_task = t
  /\ selfLinked = {}
  /\ irqs_off = {}
  /\ running_irq = FALSE
  /\ slice_due = FALSE
  /\ pending = FALSE
  /\ pending_priority = NumPriorityLevels
  /\ fault = FALSE

(* start_task, start_task_ex: from a task or, "even if not desirable",     *)
(* from a handler.                                                         *)
StartTask(t, p, share) ==
  /\ InCode
  /\ ~Queued(t)
  /\ priority' = [priority EXCEPT ![t] = p]
  /\ timeshare' = IF share THEN timeshare \cup {t} ELSE timeshare \ {t}
  /\ irqs_off' = irqs_off \ {t}
  /\ queue' = [queue EXCEPT ![ReadyQ(p)] = Append(@, t)]
  /\ selfLinked' = selfLinked \ {ReadyQ(p)}
  /\ IF running_task = NULL \/ p < priority[running_task]
     THEN Reschedule(p) ELSE NoReschedule
  /\ UNCHANGED <<irqVars, fault>>

(* terminate: dequeues the head of the running task's level.               *)
Terminate ==
  /\ InTask
  /\ LET rq == ReadyQ(priority[running_task])
     IN IF rq \in selfLinked THEN Fault
        ELSE /\ queue' = [queue EXCEPT ![rq] = Tail(@)]
             /\ Forget(running_task)
             /\ irqs_off' = irqs_off \ {running_task}
             /\ Reschedule(priority[running_task])
             /\ UNCHANGED <<selfLinked, irqVars, fault>>

(* delete_task(queue, task) of the task at position i: i = 1 is            *)
(* dequeue_task().                                                         *)
TornDelete(q, i) == i = 1 /\ q \in selfLinked
Delete(Q, q, i) == [Q EXCEPT ![q] = RemoveAt(@, i)]
LinksAfterDelete(q, i) ==
  IF i = 2 /\ Len(queue[q]) = 2 THEN selfLinked \cup {q} ELSE selfLinked

(* end_task of another task, ready or waiting.  Its IRQ state is read      *)
(* after disable_irqs(), so the caller goes on with interrupts off.        *)
EndTask(q, i) ==
  /\ InTask
  /\ i \in DOMAIN queue[q]
  /\ queue[q][i] # running_task
  /\ IF TornDelete(q, i) THEN Fault
     ELSE /\ queue' = Delete(queue, q, i)
          /\ selfLinked' = LinksAfterDelete(q, i)
          /\ Forget(queue[q][i])
          /\ irqs_off' = (irqs_off \ {queue[q][i]}) \cup {running_task}
          /\ NoReschedule
          /\ UNCHANGED <<irqVars, fault>>

NapStaysReady(q) ==                        \* mutant: naps without dequeuing
  /\ InTask
  /\ q \in WaitQ \cup {<<priority[running_task], WAITING>>}
  /\ queue' = [queue EXCEPT ![q] = EnqueueWaiting(@, running_task)]
  /\ Reschedule(priority[running_task])
  /\ UNCHANGED <<selfLinked, priority, timeshare, irqs_off, irqVars, fault>>
(* enqueue_task() of t before the only task of q, unless that one is       *)
(* linked to itself: t is linked to itself and the other one is lost.      *)
Displaces(q, t) ==
  /\ Len(queue[q]) = 1
  /\ q \notin selfLinked
  /\ priority[t] < priority[queue[q][1]]

(* nap: the head of the running level, meant to be the caller, moves to a  *)
(* wait queue.  yield() naps on task_q[priority][TASK_WAITING].            *)
Nap(q) ==
  /\ InTask
  /\ q \in WaitQ \cup {<<priority[running_task], WAITING>>}
  /\ LET rq == ReadyQ(priority[running_task])
         t == Head(queue[rq])
     IN IF rq \in selfLinked \/ Displaces(q, t) THEN Fault
        ELSE /\ queue' = [queue EXCEPT ![rq] = Tail(@),
                                       ![q] = EnqueueWaiting(@, t)]
             /\ selfLinked' = selfLinked \ {q}
             /\ Reschedule(priority[running_task])
             /\ UNCHANGED <<priority, timeshare, irqs_off, irqVars, fault>>

(* wake: the head of a non-empty wait queue becomes ready.                 *)
Wake(q) ==
  /\ InCode
  /\ q \notin Prio \X {READY}
  /\ queue[q] # <<>>
  /\ LET t == Head(queue[q])
         p == priority[t]
     IN IF q \in selfLinked THEN Fault
        ELSE /\ queue' = [queue EXCEPT ![q] = Tail(@),
                                       ![ReadyQ(p)] = Append(@, t)]
             /\ selfLinked' = selfLinked \ {ReadyQ(p)}
             /\ IF running_task = NULL \/ p <= priority[running_task]
                THEN Reschedule(p) ELSE NoReschedule
             /\ UNCHANGED <<priority, timeshare, irqs_off, irqVars, fault>>

(* set_running_task_priority: requeues the head of the running level.      *)
SetRunningTaskPriority(p) ==
  /\ InTask
  /\ p # priority[running_task]
  /\ LET old == priority[running_task]
         t == Head(queue[ReadyQ(old)])
     IN IF ReadyQ(old) \in selfLinked THEN Fault
        ELSE /\ queue' = [queue EXCEPT ![ReadyQ(old)] = Tail(@),
                                       ![ReadyQ(p)] = Append(@, t)]
             /\ selfLinked' = selfLinked \ {ReadyQ(p)}
             /\ priority' = [priority EXCEPT ![t] = p]
             /\ IF old < p THEN Reschedule(old) ELSE NoReschedule
             /\ UNCHANGED <<timeshare, irqs_off, irqVars, fault>>

(* set_task_priority (pthread_setschedprio) of another task.  For a task   *)
(* on a wait queue delete_task() has cleared parent_queue_head before it   *)
(* is passed to enqueue_task().                                            *)
SetTaskPriority(q, i, p) ==
  /\ InTask
  /\ i \in DOMAIN queue[q]
  /\ queue[q][i] # running_task
  /\ LET t == queue[q][i]
         old == priority[t]
     IN /\ InversionFree => ~(priority[running_task] < p /\ p < old)
        /\ IF TornDelete(q, i) \/ q \notin Prio \X {READY} THEN Fault
           ELSE /\ queue' = [Delete(queue, q, i)
                               EXCEPT ![ReadyQ(p)] = Append(@, t)]
                /\ selfLinked' = LinksAfterDelete(q, i) \ {ReadyQ(p)}
                /\ priority' = [priority EXCEPT ![t] = p]
                /\ IF p < old THEN Reschedule(p) ELSE NoReschedule
                /\ UNCHANGED <<timeshare, irqs_off, irqVars, fault>>

(* set_task_options, set_running_task_options.                             *)
SetTaskOptions(t) ==
  /\ InTask
  /\ Queued(t)
  /\ \/ timeshare' = timeshare \cup {t}
     \/ timeshare' = timeshare \ {t}
  /\ NoReschedule
  /\ UNCHANGED <<queue, selfLinked, priority, irqs_off, irqVars, fault>>

(* An interrupt is taken: call_int_callbacks starts calling handlers.      *)
IrqEnterClaimed(timer) ==                  \* mutant: another handler claims it
  /\ ~fault /\ ~running_irq /\ running_task \notin irqs_off
  /\ running_irq' = TRUE /\ slice_due' = FALSE
  /\ NoReschedule
  /\ UNCHANGED <<taskVars, fault>>
IrqEnter(timer) ==
  /\ ~fault
  /\ ~running_irq
  /\ running_task \notin irqs_off
  /\ running_irq' = TRUE
  /\ slice_due' = timer
  /\ NoReschedule
  /\ UNCHANGED <<taskVars, fault>>

RotateOnly ==                              \* mutant: the slice ends, nobody switches
  /\ ~fault /\ slice_due /\ slice_due' = FALSE
  /\ queue' = IF running_task \in timeshare
              THEN [queue EXCEPT ![ReadyQ(priority[running_task])] =
                      Append(Tail(@), Head(@))]
              ELSE queue
  /\ NoReschedule
  /\ UNCHANGED <<selfLinked, priority, timeshare, irqs_off, running_irq, fault>>
RotateAnyone ==                            \* mutant: slices are cut for all tasks
  /\ ~fault /\ slice_due /\ slice_due' = FALSE
  /\ running_task # NULL
  /\ queue' = [queue EXCEPT ![ReadyQ(priority[running_task])] =
                 Append(Tail(@), Head(@))]
  /\ Reschedule(priority[running_task])
  /\ UNCHANGED <<selfLinked, priority, timeshare, irqs_off, running_irq, fault>>
(* timer_handler, the task manager's timer callback.                       *)
TimerHandler ==
  /\ ~fault
  /\ slice_due
  /\ slice_due' = FALSE
  /\ IF running_task # NULL /\ running_task \in timeshare
     THEN LET rq == ReadyQ(priority[running_task])
          IN /\ queue' = [queue EXCEPT ![rq] = Append(Tail(@), Head(@))]
             /\ Reschedule(priority[running_task])
     ELSE UNCHANGED queue /\ NoReschedule
  /\ UNCHANGED <<selfLinked, priority, timeshare, irqs_off, running_irq,
                 fault>>

(* The last handler returned: a pending reschedule happens now.            *)
IrqExit ==
  /\ ~fault
  /\ running_irq
  /\ ~slice_due
  /\ running_irq' = FALSE
  /\ pending' = FALSE
  /\ IF pending
     THEN /\ pending_priority' = NumPriorityLevels
          /\ running_task' = FirstReady(queue, pending_priority)
     ELSE UNCHANGED <<pending_priority, running_task>>
  /\ UNCHANGED <<taskVars, slice_due, fault>>

Next ==
  \/ \E t \in Task, p \in Prio, share \in BOOLEAN : StartTask(t, p, share)
  \/ Terminate
  \/ \E q \in Queue : \E i \in DOMAIN queue[q] : EndTask(q, i)
  \/ \E q \in Queue : Nap(q)
  \/ \E q \in Queue : Wake(q)
  \/ \E p \in Prio : SetRunningTaskPriority(p)
  \/ \E q \in Queue : \E i \in DOMAIN queue[q] :
       \E p \in Prio : SetTaskPriority(q, i, p)
  \/ \E t \in Task : SetTaskOptions(t)
  \/ \E timer \in BOOLEAN : IrqEnter(timer)
  \/ TimerHandler
  \/ IrqExit

Spec == Init /\ [][Next]_vars

(* The timer keeps interrupting whenever interrupts can be taken again and *)
(* again, and handlers return.                                             *)
Fairness ==
  /\ SF_vars(IrqEnter(TRUE))
  /\ WF_vars(TimerHandler)
  /\ WF_vars(IrqExit)

FairSpec == Spec /\ Fairness
-----------------------------------------------------------------------------
TypeOK ==
  /\ queue \in [Queue -> Seq(Task)]
  /\ selfLinked \in SUBSET Queue
  /\ priority \in [Task -> Prio]
  /\ timeshare \in SUBSET Task
  /\ irqs_off \in SUBSET Task
  /\ running_task \in Task \cup {NULL}
  /\ running_irq \in BOOLEAN
  /\ slice_due \in BOOLEAN
  /\ pending \in BOOLEAN
  /\ pending_priority \in 0 .. NumPriorityLevels
  /\ fault \in BOOLEAN

(* A task is on one queue at most, and once: "tasks may be only in one of  *)
(* two possible states".  Every dequeue in the code trusts it.             *)
OnOneQueue ==
  \A q, r \in Queue :
    \A i \in DOMAIN queue[q], j \in DOMAIN queue[r] :
      queue[q][i] = queue[r][j] => q = r /\ i = j

(* A ready queue holds tasks of its own level only.                        *)
LevelsMatch ==
  \A p \in Prio, t \in Task : Contains(queue[ReadyQ(p)], t) => priority[t] = p

(* nap(), terminate() and set_running_task_priority() dequeue the head of  *)
(* the running level and treat it as the caller: outside a handler the     *)
(* running task is that head, and it is ready all along.                   *)
RunningIsHead ==
  running_task # NULL =>
    /\ Ready(running_task)
    /\ ~running_irq => queue[ReadyQ(priority[running_task])][1] = running_task

(* "No tasks of some priority ever get CPU time if there is a task with    *)
(* higher priority ready to run"; and the idle loop runs only when nothing *)
(* is ready.  The switch may wait for the end of the interrupt.            *)
TopPriorityRuns ==
  ~running_irq =>
    \A t \in Task : Ready(t) =>
      running_task # NULL /\ priority[running_task] <= priority[t]

(* A task made ready by a handler, better than the one interrupted, is not *)
(* forgotten: the pending reschedule scans from its level or a better one. *)
(* The same holds for a time slice that a handler ended.                   *)
PendingCoversReady ==
  running_irq =>
    /\ \A t \in Task :
         /\ Ready(t)
         /\ running_task = NULL \/ priority[t] < priority[running_task]
         => pending /\ pending_priority <= priority[t]
    /\ running_task # NULL =>
         \/ queue[ReadyQ(priority[running_task])][1] = running_task
         \/ pending /\ pending_priority <= priority[running_task]

(* Wait queues stay sorted, whatever is inserted, removed or reprioritised.*)
WaitersSorted ==
  \A q \in Queue \ (Prio \X {READY}) :
    \A i, j \in DOMAIN queue[q] :
      i < j => priority[queue[q][i]] <= priority[queue[q][j]]

(* Who leaves a wait queue to become ready is a best waiter, and among     *)
(* equals nobody who was waiting before it stays behind.                   *)
WakesBestWaiter ==
  [][\A q \in Queue \ (Prio \X {READY}) :
       \A i \in DOMAIN queue[q] :
         queue'[ReadyQ(priority[queue[q][i]])] =
           Append(queue[ReadyQ(priority[queue[q][i]])], queue[q][i])
         => \A j \in DOMAIN queue[q] :
              /\ priority[queue[q][i]] <= priority[queue[q][j]]
              /\ j < i => priority[queue[q][i]] < priority[queue[q][j]]
    ]_vars

(* Implementation of the abstract scheduler, which lets a task that shares *)
(* its time lose the CPU at the end of a slice whatever its equals do, as  *)
(* timer_handler() does and the heading of taskman.c does not.             *)
Sched == INSTANCE PrioSched
           WITH ready <- {t \in Task : Ready(t)},
                running <- running_task,
                sharing <- timeshare,
                deferred <- running_irq
SchedSpec == Sched!Spec

(* "When there are time-sharing and non-time-sharing tasks on the same     *)
(* priority level, time sharing will be masked" (taskman.c): an interrupt  *)
(* passes the CPU from a ready task to an equal only if all tasks ready at *)
(* their level share their time.                                           *)
SharingMasked ==
  [][\A t \in Task :
       /\ running_irq /\ ~running_irq'
       /\ running_task \notin {NULL, t} /\ running_task' = t
       /\ Ready(running_task) /\ priority[t] = priority[running_task]
       => \A u \in Task :
            Ready(u) /\ priority[u] = priority[t] => u \in timeshare
    ]_vars

(* Round-robin: a task that stays ready at the best level, among tasks     *)
(* that all share their time and leave interrupts on, runs again and       *)
(* again, unless others keep requeueing it with set_task_priority().       *)
CanExpectTurn(t) ==
  /\ Ready(t)
  /\ irqs_off = {}
  /\ \A u \in Task : Ready(u) => \/ priority[t] < priority[u]
                                 \/ /\ priority[t] = priority[u]
                                    /\ u \in timeshare
Requeued(t) ==
  \E q \in Queue : \E i \in DOMAIN queue[q] :
    queue[q][i] = t /\ \E p \in Prio : SetTaskPriority(q, i, p)
RoundRobin ==
  \A t \in Task :
    <>[]CanExpectTurn(t) /\ <>[][~Requeued(t)]_vars
      => []<>(fault \/ running_task = t)
=============================================================================
