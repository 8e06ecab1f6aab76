----------------------------- MODULE PrioSched -----------------------------
(***************************************************************************)
(* What the task manager promises, without queues: the abstract            *)
(* specification that Taskman implements.                                  *)
(*                                                                         *)
(* Tasks become ready and stop being ready at any time.  While an          *)
(* interrupt is being handled the interrupted task keeps the CPU           *)
(* ("task switching activity must be postponed until the callback          *)
(* returns", taskman.c); whenever none is, the CPU belongs to a ready task *)
(* of the best (numerically smallest) priority, and it is idle only when   *)
(* no task is ready.  A task that stays ready and is not outranked keeps   *)
(* the CPU, unless it shares its time slices and an interrupt ends one.    *)
(*                                                                         *)
(* This is what the code promises of time sharing (timer_handler() asks    *)
(* the running task only) and less than its heading does (taskman.c:25,    *)
(* sharing is masked while an equal does not take part): SharingMasked of  *)
(* Taskman states that, and does not hold.                                 *)
(***************************************************************************)
EXTENDS Naturals

CONSTANTS Task, Prio, NULL

VARIABLES
  ready,      \* the tasks that could use the CPU
  priority,   \* their priority, smaller is better
  sharing,    \* the tasks that accept round-robin
  running,    \* the task that has the CPU, or NULL
  deferred    \* an interrupt is being handled: no switch now

schedVars == <<ready, priority, sharing, running, deferred>>

(* The ready tasks that no ready task outranks. *)
Best(R, prio) == {t \in R : \A u \in R : prio[t] <= prio[u]}

Init ==
  /\ ready \in SUBSET Task
  /\ priority \in [Task -> Prio]
  /\ sharing \in SUBSET Task
  /\ deferred = FALSE
  /\ running \in Best(ready, priority)

(* The CPU goes to one of the best tasks, if there is any. *)
Dispatch ==
  IF ready' = {} THEN running' = NULL
                 ELSE running' \in Best(ready', priority')

(* An equally good task takes over only at the end of an interrupt that    *)
(* cut a time slice, or because the running task gave its rank up.         *)
MayLoseCPU ==
  \/ running \notin Best(ready', priority')
  \/ priority'[running] # priority[running]
  \/ deferred /\ running \in sharing

Step ==
  /\ ready' \in SUBSET Task
  /\ priority' \in [Task -> Prio]
  /\ sharing' \in SUBSET Task
  /\ \/ /\ deferred' = TRUE
        /\ running' = running
     \/ /\ deferred' = FALSE
        /\ Dispatch
        /\ (running # NULL /\ running' # running) => MayLoseCPU

Spec == Init /\ [][Step]_schedVars
=============================================================================
