------------------------------- MODULE Switch -------------------------------
(***************************************************************************)
(* nap(), wake() and the task switch (base/taskman.c and the ARM board's   *)
(* tasks-arch.c), split wherever an interrupt may come between: Taskman    *)
(* has them as one step.  enqueue_task() and dequeue_task() disable the    *)
(* interrupts, nothing else does.  A handler and the switch it asked for   *)
(* run with interrupts off.                                                *)
(*                                                                         *)
(* A context is where in these calls the code of a task is; the switch     *)
(* saves that of the running task and loads another's.  With Careful, a    *)
(* handler does not come where the code breaks: see Harmless and HasSlice. *)
(***************************************************************************)
EXTENDS Integers, SequencesExt, FiniteSetsExt

CONSTANTS
  Tasks,
  Priority,     \* their priorities; 0 is the best
  Timeshare,    \* tasks with OPT_TIMESHARE
  IdleTask,     \* never naps (taskman.c:584)
  Careful

(* Applications start the idle task on the worst level.                    *)
ASSUME SwitchAssumption ==
  /\ Priority \in [Tasks -> Nat]
  /\ IdleTask \in Tasks /\ \A t \in Tasks : Priority[t] <= Priority[IdleTask]

VARIABLES
  ready,            \* task_q[level][TASK_READY], from the head on
  waiting,          \* tasks on wait queues, each on its own
  running,          \* running_task
  in_task_switch,
  cpu,              \* the context the processor is in
  saved,            \* reg_state: the context each task goes on with
  fault             \* the code went on through a NULL pointer

vars == <<ready, waiting, running, in_task_switch, cpu, saved, fault>>

Levels == {Priority[t] : t \in Tasks}
Steps == {"app", "dequeued", "waking", "rescheduling",
          "chosen", "saving", "switching", "restoring", "loading"}
App(t) == [of |-> t, at |-> "app", to |-> t]
At(step, t) == [of |-> cpu.of, at |-> step, to |-> t]

(* reschedule() scans the ready queues from bound on.                      *)
Best(r, bound) == Head(r[Min({l \in Levels : l >= bound /\ r[l] # <<>>})])
Woken(w) == [ready EXCEPT ![Priority[w]] = Append(@, w)]
-----------------------------------------------------------------------------
Init ==
  /\ ready = [l \in Levels |-> IF l = Priority[IdleTask] THEN <<IdleTask>> ELSE <<>>]
  /\ waiting = Tasks \ {IdleTask}
  /\ running = IdleTask
  /\ in_task_switch = FALSE
  /\ cpu = App(IdleTask)
  /\ saved = [t \in Tasks |-> App(t)]
  /\ fault = FALSE

(* nap() dequeues the head of the running task's level, then enqueues it   *)
(* on the wait queue.                                                      *)
NapDequeue ==
  /\ cpu.at = "app" /\ cpu.of # IdleTask /\ ~fault
  /\ LET l == Priority[running] IN
     IF ready[l] = <<>> THEN fault' = TRUE /\ UNCHANGED <<ready, cpu>>
     ELSE /\ ready' = [ready EXCEPT ![l] = Tail(@)]
          /\ cpu' = At("dequeued", Head(ready[l]))
          /\ UNCHANGED fault
  /\ UNCHANGED <<waiting, running, in_task_switch, saved>>

NapEnqueue ==
  /\ cpu.at = "dequeued" /\ ~fault
  /\ waiting' = waiting \cup {cpu.to}
  /\ cpu' = At("rescheduling", cpu.to)
  /\ UNCHANGED <<ready, running, in_task_switch, saved, fault>>

(* wake() by a task: the woken one is on no queue for a moment.            *)
WakeDequeue(w) ==
  /\ cpu.at = "app" /\ w \in waiting /\ ~fault
  /\ waiting' = waiting \ {w}
  /\ cpu' = At("waking", w)
  /\ UNCHANGED <<ready, running, in_task_switch, saved, fault>>

WakeEnqueue ==
  /\ cpu.at = "waking" /\ ~fault
  /\ ready' = Woken(cpu.to)
  /\ cpu' = IF Priority[cpu.to] <= Priority[running] THEN At("rescheduling", cpu.to)
                                                     ELSE At("app", cpu.of)
  /\ UNCHANGED <<waiting, running, in_task_switch, saved, fault>>

(* reschedule(), bounded by the level of the task that napped or woke.     *)
RescheduleFromOwn ==                       \* mutant: bounded by the caller's
  /\ cpu.at = "rescheduling" /\ ~fault
  /\ cpu' = At("chosen", Best(ready, Priority[running]))
  /\ UNCHANGED <<ready, waiting, running, in_task_switch, saved, fault>>
Reschedule ==
  /\ cpu.at = "rescheduling" /\ ~fault
  /\ cpu' = At("chosen", Best(ready, Priority[cpu.to]))
  /\ UNCHANGED <<ready, waiting, running, in_task_switch, saved, fault>>
-----------------------------------------------------------------------------
(* switch_task() does not nest; what it saves is the return to its caller. *)
SwitchTask ==
  /\ cpu.at = "chosen" /\ ~fault
  /\ in_task_switch' = TRUE
  /\ cpu' = IF in_task_switch THEN At("app", cpu.of) ELSE At("saving", cpu.to)
  /\ UNCHANGED <<ready, waiting, running, saved, fault>>

SaveContext ==
  /\ cpu.at = "saving" /\ ~fault
  /\ saved' = [saved EXCEPT ![running] = App(cpu.of)]
  /\ cpu' = At("switching", cpu.to)
  /\ UNCHANGED <<ready, waiting, running, in_task_switch, fault>>

SwitchTo ==
  /\ cpu.at = "switching" /\ ~fault
  /\ running' = cpu.to
  /\ cpu' = At("restoring", cpu.to)
  /\ UNCHANGED <<ready, waiting, in_task_switch, saved, fault>>

RestoreContext ==
  /\ cpu.at = "restoring" /\ ~fault
  /\ in_task_switch' = FALSE
  /\ cpu' = At("loading", cpu.to)
  /\ UNCHANGED <<ready, waiting, running, saved, fault>>

LoadContext ==
  /\ cpu.at = "loading" /\ ~fault
  /\ cpu' = saved[cpu.to]
  /\ UNCHANGED <<ready, waiting, running, in_task_switch, saved, fault>>
-----------------------------------------------------------------------------
(* The end of an interrupt that asked for reschedule(bound), the ready     *)
(* queues being r: inside another switch it is dropped, else it saves the  *)
(* interrupted context.                                                    *)
IrqRescheduleNested(r, bound) ==           \* mutant: switches inside a switch
  LET q == Best(r, bound) IN
  /\ saved' = [saved EXCEPT ![running] = cpu]
  /\ running' = q
  /\ cpu' = saved'[q]
IrqReschedule(r, bound) ==
  IF in_task_switch THEN UNCHANGED <<running, cpu, saved>>
  ELSE LET q == Best(r, bound) IN
       /\ saved' = [saved EXCEPT ![running] = cpu]
       /\ running' = q
       /\ cpu' = saved'[q]

(* Where a handler may wake w without harm: not so that the switch it asks *)
(* for finds the napping task on no queue, or the choice of the next task  *)
(* made; not one that takes the processor before a better one just woken   *)
(* got it; and not a better one than the task chosen, when its own switch  *)
(* would be dropped, or not asked for.                                     *)
Harmless(w) ==
  \/ cpu.at \in {"app", "waking"}
  \/ cpu.at = "rescheduling" /\ (Priority[w] > Priority[running] \/ Priority[w] <= Priority[cpu.to])
  \/ /\ cpu.at \in {"dequeued", "chosen", "loading"} /\ Priority[w] > Priority[running]
     /\ cpu.at = "dequeued" \/ Priority[w] >= Priority[cpu.to]
  \/ cpu.at \in {"saving", "switching", "restoring"} /\ Priority[w] >= Priority[cpu.to]

IrqWake(w) ==
  /\ w \in waiting /\ ~fault
  /\ Careful => Harmless(w)
  /\ waiting' = waiting \ {w}
  /\ ready' = Woken(w)
  /\ IF Priority[w] <= Priority[running] THEN IrqReschedule(Woken(w), Priority[w])
                                         ELSE UNCHANGED <<running, cpu, saved>>
  /\ UNCHANGED <<in_task_switch, fault>>

(* timer_handler() at the end of a slice rotates the running task's level, *)
(* through its head, and reschedules.                                      *)
SliceEnds ==
  /\ running \in Timeshare /\ ~fault
  /\ LET l == Priority[running]
         turned == Append(Tail(ready[l]), Head(ready[l]))
     IN /\ Careful => \/ cpu.at \in {"app", "waking"}
                      \/ cpu.at = "rescheduling" /\ Priority[cpu.to] = l /\ ready[l] # <<>>
        /\ IF ready[l] = <<>> THEN fault' = TRUE /\ UNCHANGED <<ready, running, cpu, saved>>
           ELSE /\ ready' = [ready EXCEPT ![l] = turned]
                /\ IrqReschedule([ready EXCEPT ![l] = turned], l)
                /\ UNCHANGED fault
  /\ UNCHANGED <<waiting, in_task_switch>>

Next ==
  \/ NapDequeue \/ NapEnqueue \/ WakeEnqueue \/ Reschedule
  \/ SwitchTask \/ SaveContext \/ SwitchTo \/ RestoreContext \/ LoadContext
  \/ SliceEnds
  \/ \E w \in Tasks : WakeDequeue(w) \/ IrqWake(w)

Spec == Init /\ [][Next]_vars
-----------------------------------------------------------------------------
Context == [of : Tasks, at : Steps, to : Tasks]
ReadyTasks == UNION {Range(ready[l]) : l \in Levels}

TypeOK ==
  /\ \A l \in Levels : IsInjective(ready[l]) /\ Range(ready[l]) \subseteq Tasks
  /\ waiting \subseteq Tasks /\ running \in Tasks
  /\ in_task_switch \in BOOLEAN /\ fault \in BOOLEAN
  /\ cpu \in Context /\ saved \in [Tasks -> Context]

(* The best ready task runs: when application code is executed it is the   *)
(* running task's own, the first of the best level, and no switch is left  *)
(* half done.                                                              *)
BestTaskRuns ==
  cpu.at = "app" =>
    /\ running = cpu.of /\ ~in_task_switch
    /\ running = Best(ready, Min(Levels))

(* No task is lost: it is ready, or waiting, or in the hands of a call     *)
(* that a ready task will go on with, or that is being executed; and it    *)
(* goes on in its own code.                                                *)
NobodyLost ==
  /\ ~fault
  /\ LET contexts == {cpu} \cup {saved[t] : t \in ReadyTasks \ {cpu.of}}
         held == {c.to : c \in {x \in contexts : x.at \in {"dequeued", "waking"}}}
     IN Tasks = ReadyTasks \cup waiting \cup held
  /\ waiting \cap ReadyTasks = {}
  /\ \A t \in Tasks \ {cpu.of} : saved[t].of = t
=============================================================================
