------------------------------- MODULE Threads -------------------------------
(***************************************************************************)
(* Threads (posix/pthread.c) and sleep() of base/taskman.c: the memory they*)
(* take and give back, what a new thread is told, and the timer that wakes *)
(* a sleeper.  Queues and switches are in Taskman, so that here any thread *)
(* that is not asleep may take the next step.                              *)
(*                                                                         *)
(* Careful applications give no stack in the attributes, which they have   *)
(* zeroed, leave either no memory or enough for all a call takes, and see  *)
(* no tick between install_timer() and nap().  The head of the queue that  *)
(* sleep() naps on is whatever malloc() left there, taskman.c:726 and 741: *)
(* the handler then wakes the stranger it names, and nobody the sleeper.   *)
(* The memory careful applications get there is zero.                      *)
(***************************************************************************)
EXTENDS Integers, FiniteSets

CONSTANTS
  Threads,        \* task structures; one of them is the first task
  Main,
  Priorities,
  Seconds,        \* arguments of sleep()
  TICKS_PER_SEC,
  Blocks,         \* pieces of memory there are
  MaxTicks,       \* bound on the tick counter
  MaxCreated,     \* bound on the threads created
  Careful

VARIABLES
  thread,         \* what a task structure holds
  prm,            \* the pthread_task_entry_prm of a thread not yet entered
  memory,         \* pieces of memory taken, named for what they hold
  latch,          \* of the timer of a sleeper, 0 when not installed
  now,            \* timer_counter
  created,        \* threads created (history), the argument of the last one
  asked,          \* what a thread was created with (history)
  ran,            \* what it ran with (history)
  waitq,          \* misc_sleep_struct.waitq, 0 when empty
  fault           \* freed memory was used, or memory not there

vars == <<thread, prm, memory, latch, now, created, asked, ran, waitq, fault>>

NoAttr == [prio |-> 0, policy |-> "none", stack |-> FALSE]
NoThread == [pc |-> "free", prio |-> 0, timeshare |-> FALSE, naptime |-> 0, secs |-> 0, due |-> 0]
NoArg == [arg |-> 0, prio |-> 0, timeshare |-> FALSE]
Live(t) == thread[t].pc # "free"
Free == Blocks - Cardinality(memory)
system_time == now \div TICKS_PER_SEC

Init ==
  /\ thread = [t \in Threads |-> IF t = Main THEN [NoThread EXCEPT !.pc = "run"] ELSE NoThread]
  /\ prm = [t \in Threads |-> 0]
  /\ memory = {}
  /\ latch = [t \in Threads |-> 0] /\ waitq = [t \in Threads |-> 0]
  /\ now = 0 /\ created = 0 /\ fault = FALSE
  /\ asked = [t \in Threads |-> NoArg] /\ ran = [t \in Threads |-> NoArg]
-----------------------------------------------------------------------------
(* pthread_attr_init() and the setters.                                    *)
Attrs == {NoAttr} \cup [prio : Priorities, policy : {"SCHED_RR", "SCHED_FIFO"},
                        stack : IF Careful THEN {FALSE} ELSE BOOLEAN]
Chosen(t, attr) ==
  IF attr = NoAttr THEN [prio |-> thread[t].prio, timeshare |-> thread[t].timeshare]
  ELSE [prio |-> attr.prio, timeshare |-> attr.policy = "SCHED_RR"]

(* pthread_create(): what start_task_ex() takes is the structure and, when *)
(* the attributes hold none, the stack; the parameters stay when it fails. *)
TaskBlocks(u, attr) == {<<"task", u>>} \cup (IF attr.stack THEN {} ELSE {<<"stack", u>>})
Create(t, u, attr) ==
  LET c == Chosen(t, attr) IN
  /\ thread[t].pc = "run" /\ ~Live(u) /\ created < MaxCreated
  /\ Careful => Free = 0 \/ Free > Cardinality(TaskBlocks(u, attr))
  /\ Free > 0
  /\ IF Free > Cardinality(TaskBlocks(u, attr))
     THEN /\ memory' = memory \cup TaskBlocks(u, attr) \cup {<<"prm", u>>}
          /\ thread' = [thread EXCEPT ![u] = [NoThread EXCEPT !.pc = "new", !.prio = c.prio,
                                                              !.timeshare = c.timeshare]]
          /\ created' = created + 1
          /\ prm' = [prm EXCEPT ![u] = created + 1]
          /\ asked' = [asked EXCEPT ![u] = [arg |-> created + 1, prio |-> c.prio, timeshare |-> c.timeshare]]
          /\ ran' = [ran EXCEPT ![u] = NoArg]
     ELSE /\ memory' = memory \cup {<<"prm", u>>}
          /\ UNCHANGED <<thread, created, prm, asked, ran>>
  /\ UNCHANGED <<latch, waitq, now, fault>>

(* pthread_task_entry() lets go of its parameters and calls the routine.   *)
Entry(t) ==
  /\ thread[t].pc = "new"
  /\ ran' = [ran EXCEPT ![t] = [arg |-> prm[t], prio |-> thread[t].prio, timeshare |-> thread[t].timeshare]]
  /\ memory' = memory \ {<<"prm", t>>}
  /\ prm' = [prm EXCEPT ![t] = 0]
  /\ thread' = [thread EXCEPT ![t].pc = "run"]
  /\ UNCHANGED <<latch, waitq, now, created, asked, fault>>

(* pthread_exit(), and the return of the routine: terminate() frees the    *)
(* stack whoever gave it.                                                  *)
Exit(t) ==
  /\ thread[t].pc = "run" /\ t # Main
  /\ memory' = memory \ {<<"task", t>>, <<"stack", t>>}
  /\ fault' = (fault \/ <<"stack", t>> \notin memory)
  /\ thread' = [thread EXCEPT ![t] = NoThread]
  /\ asked' = [asked EXCEPT ![t] = NoArg] /\ ran' = [ran EXCEPT ![t] = NoArg]
  /\ UNCHANGED <<prm, latch, waitq, now, created>>

(* pthread_setschedprio()                                                  *)
SetSchedPrio(t, u, prio) ==
  /\ thread[t].pc = "run" /\ Live(u)
  /\ thread' = [thread EXCEPT ![u].prio = prio]
  /\ asked' = IF thread[u].pc = "new" THEN [asked EXCEPT ![u].prio = prio] ELSE asked
  /\ UNCHANGED <<prm, memory, latch, waitq, now, created, ran, fault>>
-----------------------------------------------------------------------------
(* sleep(), up to install_timer(), which takes the third piece of memory   *)
(* and does not look whether it got it.                                    *)
SleepBlocks(t) == {<<"timer", t>>, <<"sleep", t>>, <<"node", t>>}
Leftovers == IF Careful THEN {0} ELSE Threads \cup {0}
Sleep(t, seconds) ==
  /\ thread[t].pc = "run" /\ seconds > 0
  /\ Free >= 2                      \* or else ENOMEM, nothing kept
  /\ Careful => Free >= 3
  /\ IF Free >= 3
     THEN /\ memory' = memory \cup SleepBlocks(t)
          /\ latch' = [latch EXCEPT ![t] = seconds * TICKS_PER_SEC]
          /\ thread' = [thread EXCEPT ![t].pc = "installed", ![t].secs = seconds,
                                           ![t].due = now + seconds * TICKS_PER_SEC]
          /\ \E head \in Leftovers : waitq' = [waitq EXCEPT ![t] = head]
          /\ fault' = fault
     ELSE /\ fault' = TRUE
          /\ UNCHANGED <<memory, latch, thread, waitq>>
  /\ UNCHANGED <<prm, now, created, asked, ran>>

(* ... and from there to nap(), on a queue in memory the timer's handler   *)
(* frees.  enqueue_task() keeps a head that is there.                      *)
Nap(t) ==
  /\ thread[t].pc = "installed"
  /\ fault' = (fault \/ <<"sleep", t>> \notin memory)
  /\ thread' = [thread EXCEPT ![t].pc = "asleep", ![t].naptime = system_time]
  /\ waitq' = [waitq EXCEPT ![t] = IF @ = 0 THEN t ELSE @]
  /\ UNCHANGED <<prm, memory, latch, now, created, asked, ran>>

Awake(t) ==
  /\ thread[t].pc = "woken"
  /\ thread' = [thread EXCEPT ![t].pc = "run", ![t].naptime = 0, ![t].secs = 0, ![t].due = 0]
  /\ UNCHANGED <<prm, memory, latch, waitq, now, created, asked, ran, fault>>

(* timer_isr(), and misc_sleep_timer_handler() of each timer that has run  *)
(* out: it gives the memory back and wakes the head of the queue, if any.  *)
Due == {t \in Threads : latch[t] = 1}
Heads == {waitq[t] : t \in Due} \ {0}
Tick ==
  /\ now < MaxTicks
  /\ Careful => \A t \in Threads : thread[t].pc # "installed"
  /\ now' = now + 1
  /\ latch' = [t \in Threads |-> IF latch[t] > 0 THEN latch[t] - 1 ELSE 0]
  /\ memory' = memory \ UNION {SleepBlocks(t) : t \in Due}
  /\ thread' = [t \in Threads |-> IF t \in Heads /\ thread[t].pc = "asleep"
                                  THEN [thread[t] EXCEPT !.pc = "woken"] ELSE thread[t]]
  /\ waitq' = [t \in Threads |-> IF t \in Due THEN 0 ELSE waitq[t]]
  /\ fault' = (fault \/ \E t \in Heads : ~Live(t))
  /\ UNCHANGED <<prm, created, asked, ran>>

Next ==
  \/ \E t, u \in Threads, attr \in Attrs : Create(t, u, attr)
  \/ \E t, u \in Threads, prio \in Priorities : SetSchedPrio(t, u, prio)
  \/ \E t \in Threads : Entry(t) \/ Exit(t) \/ Nap(t) \/ Awake(t)
  \/ \E t \in Threads, seconds \in Seconds : Sleep(t, seconds)
  \/ Tick

Spec == Init /\ [][Next]_vars
-----------------------------------------------------------------------------
TypeOK ==
  /\ \A t \in Threads : thread[t].pc \in {"free", "new", "run", "installed", "asleep", "woken"}
  /\ now \in 0 .. MaxTicks /\ created \in 0 .. MaxCreated /\ fault \in BOOLEAN
  /\ Cardinality(memory) <= Blocks

(* A thread runs with the argument, priority and policy it was created     *)
(* with, and every piece of memory belongs to a thread that still has a    *)
(* use for it (pthread_create, pthread_task_entry, terminate).             *)
InUse(t) ==
  (IF Live(t) /\ t # Main THEN {<<"task", t>>, <<"stack", t>>} ELSE {})
  \cup (IF thread[t].pc = "new" THEN {<<"prm", t>>} ELSE {})
  \cup (IF latch[t] > 0 THEN SleepBlocks(t) ELSE {})
ThreadsRunAsAsked ==
  /\ ~fault
  /\ memory = UNION {InUse(t) : t \in Threads}
  /\ \A t \in Threads : thread[t].pc = "run" /\ t # Main => ran[t] = asked[t]

(* A sleeper's timer runs and goes off when its time has come, not before, *)
(* and sleep(), which returns the seconds it slept too long as an unsigned *)
(* number, never slept too short by the system's clock.                    *)
(* The queue it naps on names it, so that its timer wakes it and not       *)
(* another.                                                                *)
SleepersWake ==
  \A t \in Threads :
    /\ thread[t].pc = "asleep" => latch[t] > 0 /\ now + latch[t] = thread[t].due /\ waitq[t] = t
    /\ thread[t].pc = "woken" => system_time - thread[t].naptime >= thread[t].secs
=============================================================================
