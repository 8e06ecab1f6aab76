--------------------------------- MODULE Exec ---------------------------------
(***************************************************************************)
(* The process layer, posix/exec.c: programs run as tasks that remember    *)
(* their parent; a parent naps in waitpid() and the child that ends writes *)
(* its status into the parent and wakes it.  Signals queue at their        *)
(* receiver, whose handlers run when it is next switched to.               *)
(*                                                                         *)
(* All processes have one priority.  Timeshare lets a time slice end       *)
(* between any two steps.  Careful assumes programs that wait for a child  *)
(* as soon as they have started it, and end after it; time slices that do  *)
(* not end in between; an execve() that finds its program and its memory;  *)
(* and signals with a number in range, other than SIGKILL, to processes    *)
(* that are there.                                                         *)
(*                                                                         *)
(* exit() is not a return from main(): it hands its status to nobody, and  *)
(* frees nothing (exec.c:435-470).  Its parent, awake, finds the status of *)
(* an earlier child, or 0; the properties ask no more of it than that.     *)
(***************************************************************************)
EXTENDS Integers, Sequences, SequencesExt, FiniteSets

CONSTANTS
  Tasks,        \* processes; 1 is there from the start
  Codes,        \* their exit statuses
  Exits,        \* programs may end in exit() as well as by returning
  Signals,      \* the signals sent
  QueueSize,    \* SIGNALS_QUEUE_SIZE
  Argc, Envc,   \* how many strings execve() is given
  MaxSent,      \* bound: signals sent
  Delivers,     \* the task switch calls call_sig_handlers()
  Timeshare,
  Careful

SIGKILL == 9
_NSIG == 64

VARIABLES
  state,        \* none, user, towait (about to nap), napping, woken, dead
  priv,         \* struct exec_task_priv
  running, ready,
  mem,          \* the blocks of each process that are not freed
  status,       \* how each process ended
  exited,       \* ... and those that ended in exit() (history)
  result,       \* <<pid, status>> that the last waitpid() returned
  sent, handled,
  fault         \* memory used after it was freed, or an endless loop

vars == <<state, priv, running, ready, mem, status, exited, result, sent, handled, fault>>

NewPriv(parent) == [parent |-> parent, waited_pid |-> 0, child_exit_code |-> 0,
                    handlers |-> {}, pending |-> <<>>]
Live(p) == state[p] \notin {"none", "dead"}
Children(p) == {c \in Tasks : Live(c) /\ priv[c].parent = p}

Init ==
  /\ state = [p \in Tasks |-> IF p = 1 THEN "user" ELSE "none"]
  /\ priv = [p \in Tasks |-> NewPriv(0)]
  /\ running = 1 /\ ready = <<>>
  /\ mem = [p \in Tasks |-> {}]
  /\ status = [p \in Tasks |-> -1] /\ exited = {}
  /\ result = [p \in Tasks |-> <<0, -1>>]
  /\ sent = 0 /\ handled = [p \in Tasks |-> <<>>]
  /\ fault = FALSE
-----------------------------------------------------------------------------
(* The blocks execve() allocates, in order.                                *)
Blocks == <<<<"v", -1>>>> \o [i \in 1 .. Argc |-> <<"v", i>>] \o
          <<<<"p", -1>>>> \o [i \in 1 .. Envc |-> <<"p", i>>] \o <<<<"prm", -1>>>>

Execve(p, c) ==
  /\ running = p /\ state[p] = "user" /\ state[c] = "none" /\ ~fault
  /\ Careful => Children(p) = {}
  /\ state' = [state EXCEPT ![c] = "user"]
  /\ priv' = [priv EXCEPT ![c] = NewPriv(p)]
  /\ ready' = Append(ready, c)
  /\ mem' = [mem EXCEPT ![c] = ToSet(Blocks) \cup {<<"priv", -1>>}]
  /\ UNCHANGED <<running, status, exited, result, sent, handled, fault>>

(* The n-th allocation fails, or (n past the last) the program is not      *)
(* found.  The error labels free the environment strings by the index the  *)
(* failing loop had, then v, and then go through v by that same index.     *)
FreedOnError(n) ==
  LET envs == {i \in 1 .. Envc : 2 + Argc + i < n}
      args == {i \in 1 .. Argc : 1 + i < n}
  IN CASE n <= Argc + 1 -> {<<"v", i>> : i \in args}
       [] n = Argc + 2 -> {<<"v", -1>>}
       [] OTHER -> {<<"p", i>> : i \in envs} \cup {<<"v", -1>>}
                     \cup (IF n > Argc + Envc + 3 THEN {<<"prm", -1>>} ELSE {})
ReadsFreed(n) == \/ n = Argc + 2 /\ Argc > 0
                 \/ n > Argc + 3 /\ Envc > 0

ExecveFails(p, n) ==
  /\ running = p /\ state[p] = "user" /\ ~fault
  /\ Careful => n = 1
  /\ mem' = [mem EXCEPT ![p] = @ \cup (ToSet(SubSeq(Blocks, 1, n - 1)) \ FreedOnError(n))]
  /\ fault' = ReadsFreed(n)
  /\ UNCHANGED <<state, priv, running, ready, status, exited, result, sent, handled>>

(* waitpid(), wait(): the wish is recorded, and then the caller naps.      *)
Waitpid(p, pid) ==
  /\ running = p /\ state[p] = "user" /\ ~fault
  /\ pid = -1 \/ pid \in Tasks
  /\ Careful => (IF pid = -1 THEN Children(p) # {} ELSE pid \in Children(p))
  /\ priv' = [priv EXCEPT ![p].waited_pid = pid]
  /\ state' = [state EXCEPT ![p] = "towait"]
  /\ UNCHANGED <<running, ready, mem, status, exited, result, sent, handled, fault>>

Nap(p) ==
  /\ running = p /\ state[p] = "towait" /\ ~fault
  /\ state' = [state EXCEPT ![p] = "napping"]
  /\ running' = 0
  /\ UNCHANGED <<priv, ready, mem, status, exited, result, sent, handled, fault>>

(* The child p of q ends; tell says whether it writes its exit code.  The  *)
(* wake-up of a parent that is not yet napping wakes nobody.               *)
Waited(q, p) == priv[q].waited_pid \in {-1, p}
AnyWaited(q, p) == priv[q].waited_pid = p     \* mutant: forgets wait() for any child
IsWaitedFor(q, p) == Waited(q, p)

TellParent(p, code, tell) ==
  LET q == priv[p].parent IN
  IF q = 0 \/ ~IsWaitedFor(q, p)
    THEN /\ state' = [state EXCEPT ![p] = "dead"]
         /\ UNCHANGED <<priv, ready>>
    ELSE /\ priv' = [priv EXCEPT ![q].waited_pid = p,
                                 ![q].child_exit_code = IF tell THEN code ELSE @]
         /\ state' = [state EXCEPT ![p] = "dead", ![q] = IF @ = "napping" THEN "woken" ELSE @]
         /\ ready' = IF state[q] = "napping" THEN Append(ready, q) ELSE ready

End(p, code, tell) ==
  /\ running = p /\ state[p] = "user" /\ ~fault
  /\ Careful => Children(p) = {}
  /\ TellParent(p, code, tell)
  /\ status' = [status EXCEPT ![p] = code]
  /\ running' = 0
  /\ fault' = (priv[p].parent # 0 /\ state[priv[p].parent] = "dead")
  /\ UNCHANGED <<result, sent, handled>>

(* main() returns to execve_task_entry(), which frees what it was given.   *)
Return(p, code) ==
  /\ End(p, code, TRUE)
  /\ mem' = [mem EXCEPT ![p] = @ \ (ToSet(Blocks) \cup {<<"priv", -1>>})]
  /\ UNCHANGED exited

(* exit() goes to terminate(): nothing is freed, no status is written.     *)
Exit(p, code) ==
  /\ Exits
  /\ End(p, code, FALSE)
  /\ exited' = exited \cup {p}
  /\ UNCHANGED mem

(* call_sig_handlers on the queue of p: the handled signals.  SIGKILL ends *)
(* the process there; a number out of range is never passed.               *)
Kills(q) == \E i \in 1 .. Len(q) : q[i] = SIGKILL
Handles(p, q) == SelectSeq(q, LAMBDA s : s \in priv[p].handlers)

(* switch_to(): the next task's handlers run, then the task; one that was  *)
(* woken leaves waitpid().                                                 *)
Switch(p) ==
  /\ running = 0 /\ ready # <<>> /\ p = Head(ready) /\ ~fault
  /\ ready' = Tail(ready)
  /\ LET q == IF Delivers THEN priv[p].pending ELSE <<>>
         woken == state[p] = "woken"
     IN /\ fault' = \E i \in 1 .. Len(q) : q[i] >= _NSIG
        /\ handled' = [handled EXCEPT ![p] = @ \o Handles(p, q)]
        /\ state' = [state EXCEPT ![p] = IF Kills(q) THEN "dead" ELSE IF woken THEN "user" ELSE @]
        /\ running' = IF Kills(q) THEN 0 ELSE p
        /\ priv' = [priv EXCEPT ![p].pending = IF Delivers THEN <<>> ELSE @,
                                ![p].waited_pid = IF woken THEN 0 ELSE @]
        /\ result' = IF woken THEN [result EXCEPT ![p] =
                       <<priv[p].waited_pid, priv[p].child_exit_code>>] ELSE result
  /\ UNCHANGED <<mem, status, exited, sent>>

Preempt(p) ==
  /\ Timeshare /\ running = p /\ state[p] \in {"user", "towait"} /\ ~fault
  /\ Careful => Children(p) = {}
  /\ running' = 0 /\ ready' = Append(ready, p)
  /\ UNCHANGED <<state, priv, mem, status, exited, result, sent, handled, fault>>
-----------------------------------------------------------------------------
Signal(p, s) ==
  /\ running = p /\ state[p] = "user" /\ s < _NSIG /\ ~fault
  /\ priv' = [priv EXCEPT ![p].handlers = @ \cup {s}]
  /\ UNCHANGED <<state, running, ready, mem, status, exited, result, sent, handled, fault>>

(* kill(): a full queue loses the signal; one to oneself is handled now.   *)
Kill(p, q, s) ==
  /\ running = p /\ state[p] = "user" /\ sent < MaxSent /\ state[q] # "none" /\ ~fault
  /\ Careful => Live(q) /\ s # SIGKILL /\ s < _NSIG
  /\ sent' = sent + 1
  /\ IF q = p
       THEN /\ handled' = [handled EXCEPT ![p] = @ \o Handles(p, <<s>>)]
            /\ UNCHANGED priv
            /\ state' = IF s = SIGKILL THEN [state EXCEPT ![p] = "dead"] ELSE state
            /\ running' = IF s = SIGKILL THEN 0 ELSE running
       ELSE /\ priv' = IF Len(priv[q].pending) = QueueSize - 1 THEN priv
                       ELSE [priv EXCEPT ![q].pending = Append(@, s)]
            /\ UNCHANGED <<handled, state, running>>
  /\ fault' = (~Live(q) \/ (q = p /\ s >= _NSIG))
  /\ UNCHANGED <<ready, mem, status, exited, result>>

Next == \E p \in Tasks :
  \/ \E c \in Tasks : Execve(p, c)
  \/ \E n \in 1 .. Len(Blocks) + 1 : ExecveFails(p, n)
  \/ \E pid \in Tasks \cup {-1} : Waitpid(p, pid)
  \/ Nap(p) \/ Switch(p) \/ Preempt(p)
  \/ \E code \in Codes : Return(p, code) \/ Exit(p, code)
  \/ \E s \in Signals : Signal(p, s) \/ \E q \in Tasks : Kill(p, q, s)

Spec == Init /\ [][Next]_vars
-----------------------------------------------------------------------------
TypeOK ==
  /\ state \in [Tasks -> {"none", "user", "towait", "napping", "woken", "dead"}]
  /\ running \in Tasks \cup {0} /\ ready \in Seq(Tasks)
  /\ \A p \in Tasks : Len(priv[p].pending) < QueueSize
  /\ fault \in BOOLEAN

(* A process that sleeps in waitpid() has a live child that will wake it,  *)
(* and what waitpid() returned is a child that ended, with the status it   *)
(* returned from main(), or, when it ended in exit(), one that a child that*)
(* did return could have left there, or none.                              *)
ProcessesReaped ==
  /\ \A p \in Tasks : state[p] = "napping" =>
       \E c \in Children(p) : Waited(p, c)
  /\ \A p \in Tasks, c \in Tasks : result[p][1] = c =>
       \/ c \notin exited /\ result[p][2] = status[c]
       \/ c \in exited /\ state[c] = "dead"
            /\ result[p][2] \in {0} \cup {status[d] : d \in {e \in Tasks \ exited : state[e] = "dead"}}

(* A process that returned from main() has left no memory, no error path   *)
(* reads freed memory, and a process runs with no signal waiting for it.   *)
NothingLeftOver ==
  /\ ~fault
  /\ \A p \in Tasks : state[p] = "dead" /\ p \notin exited => mem[p] = {}
  /\ running # 0 => priv[running].pending = <<>>
===============================================================================
