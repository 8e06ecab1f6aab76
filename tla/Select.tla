------------------------------- MODULE Select -------------------------------
(***************************************************************************)
(* Waiting for descriptors: select() of posix/io.c on the events selector  *)
(* of base/taskman.c, and the plain event sets (EVENTS_MUL).               *)
(*                                                                         *)
(* A select that finds nothing ready allocates a selector, arms a timer    *)
(* on its own stack, links the selector and naps on it.  Interrupts and    *)
(* other tasks run between these steps; nothing in the code excludes them. *)
(* Careful assumes what keeps the mechanism working: nothing else happens  *)
(* in those windows (Windows), and no event comes for a select with a      *)
(* timeout, because one that returns on an event leaves its timer, with    *)
(* pointers into its dead stack frame, on the timer list (fault).          *)
(***************************************************************************)
EXTENDS Naturals, Sequences, SequencesExt

CONSTANTS
  Tasks,        \* tasks that select
  Priority,     \* their priorities; 0 is the best
  Watches,      \* the <<descriptor, "r" or "w">> each task selects on
  Timed,        \* the tasks that give a timeout
  Members,      \* tasks that wait on the one EVENTS_MUL
  Masks,        \* the events send_events_mul() is called with
  events_mask,  \* the events the EVENTS_MUL takes
  Careful

VARIABLES
  status,       \* files[].status: descriptors that may be read or written
  pc,           \* where in select() a task is
  timed_out,    \* tasks whose select_timed_out is set
  timer,        \* tasks whose select_timer is on the timer list
  sel_q,        \* the global queue of selectors
  current,      \* current_events of the EVENTS_MUL
  waiting,      \* its wait_queue
  fault         \* a timer without a live select, or linked twice

vars == <<status, pc, timed_out, timer, sel_q, current, waiting, fault>>
mulVars == <<current, waiting>>

Pairs == UNION {Watches[t] : t \in Tasks}
Window == {t \in Tasks : pc[t] \in {"checked", "queued", "woken"}}
(* Nothing runs between the steps of another task's select().              *)
Quiet(t) == Careful => Window \subseteq {t}

(* remove_events_sel: a selector that is not linked has NULL neighbours,   *)
(* and unlinking it empties the queue.                                     *)
RemoveEventsSel(q, t) ==
  IF Contains(q, t) THEN SelectSeq(q, LAMBDA u : u # t) ELSE <<>>

(* The positions wait_events_sel can choose: it compares the queued tasks' *)
(* priorities with a variable that was never assigned.                     *)
Before(q, g) == {i \in 1 .. Len(q) : Priority[q[i]] > g}
InsertPositions(q) ==
  {IF Before(q, g) = {} THEN Len(q) + 1
   ELSE CHOOSE i \in Before(q, g) : \A j \in Before(q, g) : i <= j :
   g \in {Priority[t] : t \in Tasks} \cup {0}}
  \cup {1}
-----------------------------------------------------------------------------
Init ==
  /\ status = {}
  /\ pc = [t \in Tasks |-> "running"]
  /\ timed_out = {} /\ timer = {}
  /\ sel_q = <<>>
  /\ current = {} /\ waiting = <<>>
  /\ fault = FALSE

(* The check at the start of select() and after each wake-up.  A return    *)
(* leaves a timer that was armed where it is.                              *)
CheckState(t) ==
  /\ pc[t] \in {"running", "woken"} /\ ~fault /\ Quiet(t)
  /\ t \notin timed_out
  /\ pc' = [pc EXCEPT ![t] = IF status \cap Watches[t] # {} THEN "running"
                                                            ELSE "checked"]
  /\ UNCHANGED <<status, timed_out, timer, sel_q, mulVars, fault>>

ReturnTimedOut(t) ==
  /\ pc[t] = "woken" /\ t \in timed_out /\ ~fault /\ Quiet(t)
  /\ timed_out' = timed_out \ {t}
  /\ pc' = [pc EXCEPT ![t] = "running"]
  /\ UNCHANGED <<status, timer, sel_q, mulVars, fault>>

(* new_events_sel(), the timer, and the linking in wait_events_sel().      *)
WaitEventsSel(t) ==
  /\ pc[t] = "checked" /\ ~fault /\ Quiet(t)
  /\ timer' = IF t \in Timed THEN timer \cup {t} ELSE timer
  /\ \E i \in InsertPositions(sel_q) : sel_q' = InsertAt(sel_q, i, t)
  /\ pc' = [pc EXCEPT ![t] = "queued"]
  /\ fault' = (t \in timer)             \* linked into the timer list twice
  /\ UNCHANGED <<status, timed_out, mulVars>>

NapOnSelector(t) ==
  /\ pc[t] = "queued" /\ ~fault
  /\ pc' = [pc EXCEPT ![t] = "asleep"]
  /\ UNCHANGED <<status, timed_out, timer, sel_q, mulVars, fault>>

(* wake() of a selector nobody naps on yet fails.                          *)
WakeSelector(t) ==
  pc' = IF pc[t] = "asleep" THEN [pc EXCEPT ![t] = "woken"] ELSE pc

Interested(q, x) == {i \in 1 .. Len(q) : x \in Watches[q[i]]}
HeadInterested(q, x) ==                    \* mutant: looks at the head only
  {i \in 1 .. Len(q) : i = 1 /\ x \in Watches[q[i]]}
FirstInterested(q, x) == Interested(q, x)

(* A socket handler makes x ready and posts its event to the first         *)
(* selector that watches it.                                               *)
SendEventSel(x) ==
  /\ x \notin status /\ ~fault
  /\ Careful => Window = {} /\ \A t \in Timed : x \notin Watches[t] \/ pc[t] = "running"
  /\ status' = status \cup {x}
  /\ LET found == FirstInterested(sel_q, x) IN
     IF found = {} THEN UNCHANGED <<pc, sel_q>>
     ELSE LET i == CHOOSE k \in found : \A j \in found : k <= j
          IN /\ sel_q' = RemoveEventsSel(sel_q, sel_q[i])
             /\ WakeSelector(sel_q[i])
  /\ UNCHANGED <<timed_out, timer, mulVars, fault>>

(* recv(), accept() or send() uses up what made x ready.                   *)
Consume(t, x) ==
  /\ pc[t] = "running" /\ x \in status \cap Watches[t] /\ ~fault /\ Quiet(t)
  /\ status' = status \ {x}
  /\ UNCHANGED <<pc, timed_out, timer, sel_q, mulVars, fault>>

SelectTimerHandler(t) ==
  /\ t \in timer /\ ~fault
  /\ Careful => Window = {}
  /\ timer' = timer \ {t}
  /\ IF pc[t] = "running"
     THEN fault' = TRUE /\ UNCHANGED <<pc, timed_out, sel_q>>
     ELSE /\ timed_out' = timed_out \cup {t}
          /\ sel_q' = RemoveEventsSel(sel_q, t)
          /\ WakeSelector(t)
          /\ UNCHANGED fault
  /\ UNCHANGED <<status, mulVars>>
-----------------------------------------------------------------------------
(* EVENTS_MUL: wait_events_mul() returns at once when an event is current, *)
(* send_events_mul() wakes one waiter, the consumer clears what it takes.  *)
mulOnly == UNCHANGED <<status, pc, timed_out, timer, sel_q, fault>>

WaitEventsMul(m) ==
  /\ ~Contains(waiting, m) /\ current = {}
  /\ waiting' = Append(waiting, m)
  /\ UNCHANGED current /\ mulOnly

SendEventsMul(events) ==
  /\ current' = current \cup (events \cap events_mask)
  /\ waiting' = IF current' # {} /\ waiting # <<>> THEN Tail(waiting) ELSE waiting
  /\ mulOnly

ClearEventsMul(m) ==
  /\ ~Contains(waiting, m) /\ current # {}
  /\ \E e \in current : current' = current \ {e}
  /\ UNCHANGED waiting /\ mulOnly

Next ==
  \/ \E t \in Tasks : \/ CheckState(t) \/ ReturnTimedOut(t) \/ WaitEventsSel(t)
                      \/ NapOnSelector(t) \/ SelectTimerHandler(t)
                      \/ \E x \in Watches[t] : Consume(t, x)
  \/ \E x \in Pairs : SendEventSel(x)
  \/ \E m \in Members : WaitEventsMul(m) \/ ClearEventsMul(m)
  \/ \E events \in Masks : SendEventsMul(events)

Spec == Init /\ [][Next]_vars
-----------------------------------------------------------------------------
TypeOK ==
  /\ status \subseteq Pairs
  /\ pc \in [Tasks -> {"running", "checked", "queued", "asleep", "woken"}]
  /\ timed_out \subseteq Tasks /\ timer \subseteq Timed
  /\ IsInjective(sel_q)
  /\ current \subseteq events_mask
  /\ fault \in BOOLEAN

(* Nobody sleeps through a ready descriptor: while a task sleeps in        *)
(* select() and something it watches is ready, another task that watches   *)
(* it is awake and will see it.  Sleepers are on the queue, where events   *)
(* and timeouts find them.                                                 *)
ReadySelectorsWake ==
  \A t \in Tasks : pc[t] = "asleep" =>
    /\ Contains(sel_q, t)
    /\ \A x \in status \cap Watches[t] :
         \E u \in Tasks \ {t} : x \in Watches[u] /\ pc[u] # "asleep"

(* The one consumer of an EVENTS_MUL never waits while it has an event.    *)
EventsMulWakes == waiting # <<>> => current = {}

(* No timer outlives the select() on whose stack it lives.                 *)
NoStrayTimer == ~fault /\ \A t \in timer : pc[t] # "running"
=============================================================================
