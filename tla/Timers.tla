------------------------------- MODULE Timers -------------------------------
(***************************************************************************)
(* Timers (base/timers.c, include/queues.h) and sleep() (base/taskman.c).  *)
(*                                                                         *)
(* The list is the sequence of the installed timers.  timer_isr() walks it *)
(* one node per step; the node's own next pointer, which the walk reads    *)
(* after the node was unlinked and freed, is after.  Callbacks do what the *)
(* callbacks of the code do: wake a sleeper, or remove their own timer.    *)
(* None installs a timer, so a freed node keeps its contents until the     *)
(* walk has left it.                                                       *)
(*                                                                         *)
(* Careful owners never install a timer with a timeout of 0, nor a         *)
(* periodic timer together with another one of the same timeout.  sleep()  *)
(* takes the queue it naps on from malloc() and never initialises it: it   *)
(* may hold the head of an earlier sleep.  In a careful system the memory  *)
(* it gets there is zero, and nobody is kept from the CPU, between the     *)
(* installing of his timer and his nap(), for as long as he wants to sleep.*)
(***************************************************************************)
EXTENDS Naturals, Sequences, SequencesExt

CONSTANTS
  Timer,        \* timer_t structures
  timeout,      \* their timeouts, in ticks of the system timer
  Periodic,     \* those with TF_PERIODIC
  Maskable,     \* those with task_priority > 0
  Sleeper,      \* those of sleep()
  LatchMax,     \* ULONG_MAX
  Careful,
  NULL

ASSUME TimersAssumption ==
  /\ timeout \in [Timer -> Nat]
  /\ LatchMax \in Nat /\ \A t \in Timer : timeout[t] <= LatchMax
  /\ Periodic \subseteq Timer /\ Maskable \subseteq Timer
  /\ Sleeper \subseteq Timer \ (Periodic \cup Maskable)
  /\ NULL \notin Timer

VARIABLES
  list,     \* tl_head ... tl_tail
  latch,
  isr,      \* timer_isr() is running
  l,        \* ... at the node of this timer; NULL past the end
  after,    \* next pointer of that node while it is unlinked
  expired,  \* ... whose latch has run out: the callback is due
  drowsy,   \* sleep() timers whose task is between install_timer() and nap()
  asleep,   \* ... whose task naps
  waitq,    \* misc_sleep_struct.waitq: the head, named by the task's timer
  age       \* ticks since a timer was installed or last expired (history)

sleepers == <<drowsy, asleep, waitq>>
vars == <<list, latch, isr, l, after, expired, sleepers, age>>

Installed(t) == Contains(list, t)
Position(s, t) == CHOOSE i \in DOMAIN s : s[i] = t
Succ(s, t) ==
  IF Position(s, t) < Len(s) THEN s[Position(s, t) + 1] ELSE NULL
Without(s, t) == IF Contains(s, t) THEN RemoveAt(s, Position(s, t)) ELSE s

(* list_sorted_insert with cmp_timers: before the first timer that is not  *)
(* shorter.                                                                *)
SortedAppend(s, t) == Append(s, t)         \* mutant: at the tail
InsertPos(s, t) ==
  CHOOSE i \in 1 .. Len(s) + 1 :
    /\ i <= Len(s) => timeout[t] <= timeout[s[i]]
    /\ \A j \in 1 .. i - 1 : timeout[s[j]] < timeout[t]
SortedInsert(s, t) == InsertAt(s, InsertPos(s, t), t)

(* --t->latch of an unsigned long.                                         *)
Decremented(t) == IF latch[t] = 0 THEN LatchMax ELSE latch[t] - 1
ReloadLate(t) == timeout[t] + 1            \* mutant: one tick too many
Reload(t) == timeout[t]
-----------------------------------------------------------------------------
Init ==
  /\ list = <<>>
  /\ latch = [t \in Timer |-> 0]
  /\ isr = FALSE
  /\ l = NULL
  /\ after = NULL
  /\ expired = FALSE
  /\ drowsy = {} /\ asleep = {}
  /\ waitq = [t \in Sleeper |-> NULL]
  /\ age = [t \in Timer |-> 0]

Suitable(t) ==
  /\ timeout[t] > 0
  /\ \A u \in Timer : Installed(u) /\ timeout[u] = timeout[t] =>
       t \notin Periodic /\ u \notin Periodic

(* install_timer, with interrupts disabled.                                *)
InstallTimer(t) ==
  /\ ~isr
  /\ ~Installed(t)
  /\ Careful => Suitable(t)
  /\ latch' = [latch EXCEPT ![t] = Reload(t)]
  /\ age' = [age EXCEPT ![t] = 0]
  /\ list' = SortedInsert(list, t)
  /\ UNCHANGED <<isr, l, after, expired>>

Install(t) ==
  /\ t \notin Sleeper
  /\ InstallTimer(t)
  /\ UNCHANGED sleepers

(* sleep() up to install_timer(), with what malloc() left in waitq.        *)
Leftovers == IF Careful THEN {NULL} ELSE {NULL} \cup Sleeper
Sleep(t) ==
  /\ t \in Sleeper \ (drowsy \cup asleep)
  /\ InstallTimer(t)
  /\ drowsy' = drowsy \cup {t}
  /\ \E head \in Leftovers : waitq' = [waitq EXCEPT ![t] = head]
  /\ UNCHANGED asleep

(* ... and nap(), whose enqueue_task() leaves a head it finds.             *)
Nap(t) ==
  /\ ~isr
  /\ t \in drowsy
  /\ drowsy' = drowsy \ {t}
  /\ asleep' = asleep \cup {t}
  /\ waitq' = [waitq EXCEPT ![t] = IF waitq[t] = NULL THEN t ELSE waitq[t]]
  /\ UNCHANGED <<list, latch, isr, l, after, expired, age>>

(* remove_timer by a task; nobody but its callback ends a sleep.           *)
RemoveTimer(t) ==
  /\ ~isr
  /\ Installed(t)
  /\ t \notin Sleeper
  /\ list' = Without(list, t)
  /\ UNCHANGED <<latch, isr, l, after, expired, sleepers, age>>

(* timer_isr: ++timer_counter, and the walk starts at the head.            *)
Tick ==
  /\ ~isr
  /\ Careful => \A t \in drowsy : age[t] + 1 < timeout[t]
  /\ isr' = TRUE
  /\ l' = IF list = <<>> THEN NULL ELSE Head(list)
  /\ age' = [t \in Timer |-> IF Installed(t) THEN age[t] + 1 ELSE age[t]]
  /\ UNCHANGED <<list, latch, after, expired, sleepers>>

CountDown ==
  /\ isr /\ l # NULL /\ ~expired
  /\ Decremented(l) >= 1
  /\ latch' = [latch EXCEPT ![l] = Decremented(l)]
  /\ l' = Succ(list, l)
  /\ UNCHANGED <<list, isr, after, expired, sleepers, age>>

(* A latch has run out: unlink, and put a periodic timer back.             *)
Expire ==
  /\ isr /\ l # NULL /\ ~expired
  /\ Decremented(l) < 1
  /\ expired' = TRUE
  /\ after' = Succ(list, l)
  /\ list' = IF l \in Periodic THEN SortedInsert(Without(list, l), l)
                               ELSE Without(list, l)
  /\ latch' = [latch EXCEPT ![l] = IF l \in Periodic THEN Reload(l) ELSE 0]
  /\ UNCHANGED <<isr, l, sleepers, age>>

MayBeMaskedAlways(t) == TRUE               \* mutant: > for >= in the mask test
(* A better running task masks a timer with a task priority.               *)
MayBeMasked(t) == t \in Maskable

(* misc_sleep_timer_handler wakes the head of the queue; wake() of an      *)
(* empty one does nothing.  Who is not asleep is put where he was.         *)
WakeHead ==
  /\ l \in Sleeper
  /\ asleep' = asleep \ {waitq[l]}
  /\ waitq' = [waitq EXCEPT ![l] = NULL]
  /\ UNCHANGED drowsy

CallbackRestarts ==                        \* mutant: walks again from the head
  /\ isr /\ expired
  /\ \/ l \notin Sleeper /\ UNCHANGED sleepers
     \/ WakeHead
  /\ expired' = FALSE
  /\ age' = [age EXCEPT ![l] = 0]
  /\ l' = IF list = <<>> THEN NULL ELSE Head(list)
  /\ UNCHANGED <<list, latch, isr, after>>
(* Masked, or called without an effect on the list.                        *)
Callback ==
  /\ isr /\ expired
  /\ \/ (MayBeMasked(l) \/ l \notin Sleeper) /\ UNCHANGED sleepers
     \/ WakeHead
  /\ expired' = FALSE
  /\ age' = [age EXCEPT ![l] = 0]
  /\ l' = IF Installed(l) THEN Succ(list, l) ELSE after
  /\ UNCHANGED <<list, latch, isr, after>>

(* The callback of a periodic timer removes it (tcp, dhcp, udelay).        *)
CallbackRemoves ==
  /\ isr /\ expired
  /\ l \in Periodic
  /\ list' = Without(list, l)
  /\ expired' = FALSE
  /\ age' = [age EXCEPT ![l] = 0]
  /\ l' = IF Installed(l) THEN Succ(list, l) ELSE after
  /\ UNCHANGED <<latch, isr, after, sleepers>>

TickDone ==
  /\ isr /\ l = NULL
  /\ isr' = FALSE
  /\ after' = NULL
  /\ UNCHANGED <<list, latch, l, expired, sleepers, age>>

Next ==
  \/ \E t \in Timer : Install(t)
  \/ \E t \in Sleeper : Sleep(t)
  \/ \E t \in Sleeper : Nap(t)
  \/ \E t \in Timer : RemoveTimer(t)
  \/ Tick
  \/ CountDown
  \/ Expire
  \/ Callback
  \/ CallbackRemoves
  \/ TickDone

Spec == Init /\ [][Next]_vars

(* The timer interrupts for ever, its handler goes on while it can, and who*)
(* is about to nap gets to it.                                             *)
Fairness ==
  /\ \A t \in Sleeper : WF_vars(Nap(t))
  /\ WF_vars(Tick)
  /\ WF_vars(CountDown)
  /\ WF_vars(Expire)
  /\ WF_vars(Callback)
  /\ WF_vars(TickDone)

FairSpec == Spec /\ Fairness
-----------------------------------------------------------------------------
TypeOK ==
  /\ list \in Seq(Timer)
  /\ latch \in [Timer -> 0 .. LatchMax]
  /\ isr \in BOOLEAN
  /\ l \in Timer \cup {NULL}
  /\ after \in Timer \cup {NULL}
  /\ expired \in BOOLEAN
  /\ drowsy \in SUBSET Sleeper /\ asleep \in SUBSET Sleeper
  /\ waitq \in [Sleeper -> Sleeper \cup {NULL}]
  /\ age \in [Timer -> Nat]

(* The list stays sorted by timeout, with every timer once, whatever is    *)
(* installed, removed and put back during a walk.                          *)
ListSorted ==
  \A i, j \in DOMAIN list :
    i < j => /\ timeout[list[i]] <= timeout[list[j]]
             /\ list[i] # list[j]

(* A timer expires exactly its timeout after it was installed or last      *)
(* expired, and between ticks none is overdue ("0 - means polling          *)
(* (immediate timeout)" included): the walk counts every timer down once   *)
(* per tick although expiries reorder the list under it.                   *)
OnTime ==
  /\ expired => age[l] = timeout[l]
  /\ ~isr => \A t \in Timer : Installed(t) => age[t] <= timeout[t]

(* Nobody sleeps without a timer that is installed or due, and it is he    *)
(* whom it will wake (sleep, misc_sleep_timer_handler).                    *)
NoSleeperForgotten ==
  \A t \in asleep : /\ Installed(t) \/ (expired /\ l = t)
                    /\ waitq[t] = t

(* A periodic timer that is left installed expires again and again; in     *)
(* particular no tick goes on for ever.                                    *)
KeepsFiring ==
  \A t \in Periodic : <>[]Installed(t) => []<>(expired /\ l = t)

(* Every sleep ends, the nap that follows the timer included.              *)
SleepEnds ==
  \A t \in Sleeper : (t \in drowsy \cup asleep) ~> (t \notin drowsy \cup asleep)
=============================================================================
