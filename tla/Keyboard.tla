------------------------------- MODULE Keyboard -------------------------------
(***************************************************************************)
(* drivers/keyboard/keyboard.c: the handler assembles scan codes, keeps    *)
(* the state of the shift keys, queues the character keys, and wakes the   *)
(* napping reader on any code at all; the reader takes the head of the     *)
(* queue, after a nap without looking again.  Setting the lights for a     *)
(* lock key reads the data port until the keyboard acknowledges, and drops *)
(* the codes that were there.                                              *)
(*                                                                         *)
(* Careful assumes a user and a reader who wait until the last code has    *)
(* been taken by the handler, and a user who only presses character keys   *)
(* while the reader naps, and nothing between its look and its nap.        *)
(***************************************************************************)
EXTENDS Integers, Sequences

CONSTANTS
  scan_tbl,     \* the scan codes of the character keys
  Modifier,     \* scan code -> modifier, of the shift, ctrl and alt keys
  Lock,         \* scan code -> lock
  Extended,     \* keys whose codes follow 0xE0
  KBD_BUF_LEN,
  MaxEvents,    \* bound: keys pressed and released
  Blocking,     \* blocking_mode
  Careful

VARIABLES
  wire,         \* codes sent and not yet read from the data port
  held, locks,  \* the keys that are down, and the locks that are on
  num_bytes, scan_code,
  shift_status,
  kbd_q, head, tail,
  pc,           \* where in keyboard_read() the reader is
  kept,         \* the keys accepted, with the case the user meant
  got,          \* the keys read
  events

qVars == <<kbd_q, head, tail, kept, got>>
scanVars == <<num_bytes, scan_code, shift_status>>
userVars == <<held, locks, events>>
vars == <<wire, pc, qVars, scanVars, userVars>>

Upper == {"lshift", "rshift", "caps"}
Keys == scan_tbl \cup DOMAIN Modifier \cup DOMAIN Lock
NextOf(p) == IF p + 1 = KBD_BUF_LEN THEN 0 ELSE p + 1
q_is_full == NextOf(tail) = head
q_is_empty == head = tail
Toggle(S, x) == IF x \in S THEN S \ {x} ELSE S \cup {x}

Init ==
  /\ wire = <<>> /\ held = {} /\ locks = {} /\ events = 0
  /\ num_bytes = 0 /\ scan_code = <<>>
  /\ shift_status = {}
  /\ kbd_q = [i \in 0 .. KBD_BUF_LEN - 1 |-> <<0, FALSE>>] /\ head = 0 /\ tail = 0
  /\ pc = "out" /\ kept = <<>> /\ got = <<>>
-----------------------------------------------------------------------------
(* The user.                                                               *)
Calm == Careful => wire = <<>>
Codes(k, b) == IF k \in Extended THEN <<224, k + b>> ELSE <<k + b>>

Press(k) ==
  /\ k \notin held /\ events < MaxEvents /\ Calm
  /\ Careful /\ pc # "out" => k \in scan_tbl \ Extended /\ pc = "napping"
  /\ wire' = wire \o Codes(k, 0)
  /\ held' = held \cup {k}
  /\ locks' = IF k \in DOMAIN Lock THEN Toggle(locks, Lock[k]) ELSE locks
  /\ events' = events + 1
  /\ UNCHANGED <<pc, qVars, scanVars>>

Release(k) ==
  /\ k \in held /\ Calm
  /\ Careful => pc = "out"
  /\ wire' = wire \o Codes(k, 128)
  /\ held' = held \ {k}
  /\ UNCHANGED <<locks, events, pc, qVars, scanVars>>

MeansUpper ==
  \/ "caps" \in locks
  \/ \E k \in held \cap DOMAIN Modifier : k \notin Extended /\ Modifier[k] \in Upper
-----------------------------------------------------------------------------
(* The prefixes set the length and are not stored, so the next code starts *)
(* a one-byte sequence again.                                              *)
NumBytes(code) ==
  IF scan_code # <<>> \/ code >= 226 THEN num_bytes
  ELSE CASE code = 224 -> 2 [] code = 225 -> 3 [] OTHER -> 1
Stored(code) ==
  IF scan_code = <<>> /\ code >= 224 THEN scan_code ELSE Append(scan_code, code)

(* The modifier a complete sequence is about, its last byte stripped of    *)
(* the release bit.                                                        *)
ModifierOf(s) ==
  LET k == s[Len(s)] % 128 IN
  IF (Len(s) = 1 \/ s[1] = 224) /\ k \in DOMAIN Modifier THEN {Modifier[k]} ELSE {}

(* A lock key toggles its lock, and drops what is on the wire.             *)
LockOf(s) == IF Len(s) = 1 /\ s[1] \in DOMAIN Lock THEN {Lock[s[1]]} ELSE {}

Accepts(s) == ~q_is_full /\ Len(s) = 1 /\ s[1] \in scan_tbl
AcceptsFull(s) == Len(s) = 1 /\ s[1] \in scan_tbl    \* mutant: no check for room
Accepted(s) == Accepts(s)

(* enqueue_scan_code: the case comes from the shift keys and caps lock.    *)
Enqueue(s) ==
  IF Accepted(s)
    THEN /\ kbd_q' = [kbd_q EXCEPT ![tail] = <<s[1], shift_status \cap Upper # {}>>]
         /\ tail' = NextOf(tail)
         /\ kept' = Append(kept, <<s[1], MeansUpper>>)
    ELSE UNCHANGED <<kbd_q, tail, kept>>

Isr ==
  /\ wire # <<>>
  /\ LET n == NumBytes(Head(wire))
         s == Stored(Head(wire))
         complete == n \in {1, 2} /\ Len(s) = n
         make == complete /\ s[n] < 128
     IN /\ IF make THEN Enqueue(s) ELSE UNCHANGED <<kbd_q, tail, kept>>
        /\ shift_status' =
             CASE make -> LET m == shift_status \cup ModifierOf(s)
                          IN (m \cup LockOf(s)) \ (m \cap LockOf(s))
               [] complete /\ ~make -> shift_status \ ModifierOf(s)
               [] OTHER -> shift_status
        /\ wire' = IF make /\ LockOf(s) # {} THEN <<>> ELSE Tail(wire)
        /\ num_bytes' = IF n = Len(s) THEN 0 ELSE n
        /\ scan_code' = IF n = Len(s) THEN <<>> ELSE s
  /\ pc' = IF pc = "napping" THEN "woken" ELSE pc
  /\ UNCHANGED <<head, got, userVars>>

(* keyboard_read: not blocking, it returns 0 on an empty queue.            *)
ReadCheck ==
  /\ pc = "out" /\ (q_is_empty => Blocking) /\ Calm
  /\ pc' = IF q_is_empty THEN "checked" ELSE "woken"
  /\ UNCHANGED <<wire, qVars, scanVars, userVars>>

Nap ==
  /\ pc = "checked" /\ pc' = "napping"
  /\ UNCHANGED <<wire, qVars, scanVars, userVars>>

(* q_delete leaves an empty queue alone; the key is returned all the same. *)
Take ==
  /\ pc = "woken" /\ pc' = "out"
  /\ Len(got) < MaxEvents
  /\ got' = Append(got, kbd_q[head])
  /\ head' = IF q_is_empty THEN head ELSE NextOf(head)
  /\ UNCHANGED <<wire, kbd_q, tail, kept, scanVars, userVars>>

Next ==
  \/ \E k \in Keys : Press(k) \/ Release(k)
  \/ Isr \/ ReadCheck \/ Nap \/ Take

Spec == Init /\ [][Next]_vars
-----------------------------------------------------------------------------
TypeOK ==
  /\ num_bytes \in 0 .. 3 /\ Len(scan_code) <= 3
  /\ head \in 0 .. KBD_BUF_LEN - 1 /\ tail \in 0 .. KBD_BUF_LEN - 1
  /\ pc \in {"out", "checked", "napping", "woken"} /\ events \in 0 .. MaxEvents

Queued == LET n == IF tail >= head THEN tail - head ELSE tail + KBD_BUF_LEN - head
          IN [i \in 1 .. n |-> kbd_q[(head + i - 1) % KBD_BUF_LEN]]

(* The reader gets the keys in the order they were pressed, each once and  *)
(* in the case that the shift keys gave it at that moment; what is lost is *)
(* what was pressed while the queue was full.                              *)
KeysInOrder == got \o Queued = kept

(* When every code has been taken, the driver's idea of the shift keys and *)
(* of caps lock is what the user sees.                                     *)
ShiftAsHeld == wire = <<>> => (MeansUpper <=> shift_status \cap Upper # {})
===============================================================================
