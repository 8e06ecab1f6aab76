-------------------------------- MODULE Serial --------------------------------
(***************************************************************************)
(* The serial drivers: drivers/serial/16x50.c, with its interrupt or, on   *)
(* the board where that does not work, its poll timer, and pl011.c.        *)
(*                                                                         *)
(* Interrupts arrive between any two steps of a task.  A reader looks at   *)
(* the line status and then naps; the handler wakes one napping reader and *)
(* leaves the byte in the receive FIFO.  Careful assumes one reader and no *)
(* byte between its look and its nap; and that who writes to a 16x50 asks  *)
(* for one byte at a time, as serial_printf() does, for uart_write() writes*)
(* all it is given and returns 1 (16x50.c:204-229), so that a caller who   *)
(* goes on from there sends the rest again.  A newline takes two places of *)
(* the transmit FIFO: without the FIFO, which goes with CFG_UART_INT, the  *)
(* carriage return may be lost.                                            *)
(***************************************************************************)
EXTENDS Integers, Sequences, SequencesExt

CONSTANTS
  Kind,         \* "16x50", "poll" (16x50 with the timer) or "pl011"
  Readers,      \* tasks that read
  RxDepth,      \* size of the receive FIFO
  TxDepth,      \* size of the transmit FIFO
  MaxBytes,     \* bound: bytes that arrive
  Text,         \* what a task writes
  Length,       \* how much of it the task asks for in one call, at most
  Careful

VARIABLES
  rx,           \* the receive FIFO
  arrived,      \* number of bytes that have arrived; they are 1, 2, ...
  int,          \* an interrupt the processor has not taken
  rx_wait,      \* rx_wait[0]
  pc,           \* where in uart_read() each reader is
  got,          \* what the readers got, in order; 0 for a read of nothing
  tx, line,     \* the transmit FIFO, and what has left it
  wpos, wlen,   \* the writer: its place in Text, what the call asks for and
                \* what is left of that
  wpc           \* where in uart_write() it is

vars == <<rx, arrived, int, rx_wait, pc, got, tx, line, wpos, wlen, wpc>>
rxVars == <<rx, arrived, int, rx_wait, pc, got>>
txVars == <<tx, line, wpos, wlen, wpc>>

InWindow == \E t \in Readers : pc[t] = "checked"
Min2(a, b) == IF a < b THEN a ELSE b
-----------------------------------------------------------------------------
Init ==
  /\ rx = <<>> /\ arrived = 0 /\ int = FALSE /\ rx_wait = <<>>
  /\ pc = [t \in Readers |-> "out"] /\ got = <<>>
  /\ tx = <<>> /\ line = <<>>
  /\ wpos = 1 /\ wlen = [asked |-> 0, left |-> 0] /\ wpc = "out"

(* A byte comes in.  A full FIFO loses it.  The line of the 16x50 rises    *)
(* when the FIFO stops being empty, and the PC's interrupt controller sees *)
(* only that; the pl011 raises its interrupt on each byte.                 *)
Arrive ==
  /\ arrived < MaxBytes
  /\ Careful => ~InWindow
  /\ arrived' = arrived + 1
  /\ rx' = IF Len(rx) < RxDepth THEN Append(rx, arrived + 1) ELSE rx
  /\ int' = (int \/ Kind = "pl011" \/ (Kind = "16x50" /\ rx = <<>>))
  /\ UNCHANGED <<rx_wait, pc, got, txVars>>

WakeReader ==
  IF rx_wait = <<>> THEN UNCHANGED <<rx_wait, pc>>
  ELSE /\ rx_wait' = Tail(rx_wait)
       /\ pc' = [pc EXCEPT ![Head(rx_wait)] = "woken"]

(* uart_isr of the 16x50: it asks the line status, not the cause.          *)
Isr16x50 ==
  /\ Kind = "16x50" /\ int
  /\ int' = FALSE
  /\ IF rx # <<>> THEN WakeReader ELSE UNCHANGED <<rx_wait, pc>>
  /\ UNCHANGED <<rx, arrived, got, txVars>>

(* timer_handler, on every tick.                                           *)
PollTimer ==
  /\ Kind = "poll"
  /\ rx # <<>> /\ rx_wait # <<>>
  /\ WakeReader
  /\ UNCHANGED <<rx, arrived, int, got, txVars>>

(* uart_isr of the pl011: it clears the cause and wakes on it.             *)
IsrPl011 ==
  /\ Kind = "pl011" /\ int
  /\ int' = FALSE
  /\ WakeReader
  /\ UNCHANGED <<rx, arrived, got, txVars>>

(* uart_read: the look at the status.                                      *)
LooksOnce(t) == rx = <<>>
MustNap(t) == LooksOnce(t)
ReadCheck(t) ==
  /\ pc[t] = "out"
  /\ pc' = [pc EXCEPT ![t] = IF MustNap(t) THEN "checked" ELSE "woken"]
  /\ UNCHANGED <<rx, arrived, int, rx_wait, got, txVars>>

Nap(t) ==
  /\ pc[t] = "checked"
  /\ rx_wait' = Append(rx_wait, t)
  /\ pc' = [pc EXCEPT ![t] = "napping"]
  /\ UNCHANGED <<rx, arrived, int, got, txVars>>

(* The byte is taken with no second look.                                  *)
Take(t) ==
  /\ pc[t] = "woken"
  /\ Len(got) < MaxBytes
  /\ got' = Append(got, IF rx = <<>> THEN 0 ELSE Head(rx))
  /\ rx' = IF rx = <<>> THEN rx ELSE Tail(rx)
  /\ int' = (int /\ rx' # <<>>)       \* the read drops the interrupt line
  /\ pc' = [pc EXCEPT ![t] = "out"]
  /\ UNCHANGED <<arrived, rx_wait, txVars>>
-----------------------------------------------------------------------------
(* A byte written to a full FIFO is lost.                                  *)
Put(q, x) == IF Len(q) < TxDepth THEN Append(q, x) ELSE q

(* A task writes Text; like any caller of write(), it goes on from what    *)
(* the call returned.                                                      *)
CallWrite ==
  /\ wpc = "out" /\ wpos <= Len(Text)
  /\ \E n \in 1 .. Min2(Length, Len(Text) + 1 - wpos) :
       /\ Careful /\ Kind # "pl011" => n = 1
       /\ wlen' = [asked |-> n, left |-> n]
  /\ wpc' = "wait"
  /\ UNCHANGED <<rxVars, tx, line, wpos>>

Shift == wpos + wlen.asked - wlen.left

(* uart_write waits for the transmitter to be empty; for a newline it      *)
(* calls itself with a carriage return first, which waits again.           *)
WaitReady ==
  /\ wpc = "wait" /\ tx = <<>>
  /\ wpc' = IF Text[Shift] = "\n" THEN "cr" ELSE "char"
  /\ UNCHANGED <<rxVars, tx, line, wpos, wlen>>

PutReturn ==
  /\ wpc = "cr" /\ tx = <<>>
  /\ tx' = Put(tx, "\r")
  /\ wpc' = "char"
  /\ UNCHANGED <<rxVars, line, wpos, wlen>>

(* 16x50: all of length goes out; whatever it was, the call returns 1.     *)
Write16x50 ==
  /\ Kind # "pl011" /\ wpc = "char"
  /\ tx' = Put(tx, Text[Shift])
  /\ wlen' = [wlen EXCEPT !.left = @ - 1]
  /\ wpc' = IF wlen.left = 1 THEN "out" ELSE "wait"
  /\ wpos' = IF wlen.left = 1 THEN wpos + 1 ELSE wpos
  /\ UNCHANGED <<rxVars, line>>

(* pl011: one character, and the call returns 1.                           *)
WritePl011 ==
  /\ Kind = "pl011" /\ wpc = "char"
  /\ tx' = Put(tx, Text[Shift])
  /\ wlen' = [wlen EXCEPT !.left = 0] /\ wpc' = "out" /\ wpos' = wpos + 1
  /\ UNCHANGED <<rxVars, line>>

(* The device sends a byte.                                                *)
Transmit ==
  /\ tx # <<>>
  /\ line' = Append(line, Head(tx))
  /\ tx' = Tail(tx)
  /\ UNCHANGED <<rxVars, wpos, wlen, wpc>>

Next ==
  \/ Arrive \/ Isr16x50 \/ PollTimer \/ IsrPl011
  \/ \E t \in Readers : ReadCheck(t) \/ Nap(t) \/ Take(t)
  \/ CallWrite \/ WaitReady \/ PutReturn \/ Write16x50 \/ WritePl011
  \/ Transmit

Spec == Init /\ [][Next]_vars
-----------------------------------------------------------------------------
TypeOK ==
  /\ rx \in Seq(1 .. MaxBytes) /\ Len(rx) <= RxDepth
  /\ arrived \in 0 .. MaxBytes /\ int \in BOOLEAN
  /\ rx_wait \in Seq(Readers)
  /\ pc \in [Readers -> {"out", "checked", "napping", "woken"}]
  /\ got \in Seq(0 .. MaxBytes)
  /\ Len(tx) <= TxDepth /\ wpos \in 1 .. Len(Text) + 1 /\ wlen.left \in 0 .. wlen.asked

Expand(s) == FlattenSeq([i \in 1 .. Len(s) |-> IF s[i] = "\n" THEN <<"\r", "\n">> ELSE <<s[i]>>])

(* Serial bytes arrive in order: what the readers got are bytes that came  *)
(* in, in the order they came, none twice and none made up.                *)
BytesInOrder ==
  /\ \A i \in 1 .. Len(got) : got[i] # 0
  /\ \A i \in 1 .. Len(got) - 1 : got[i] < got[i + 1]

(* A reader does not sleep over a byte: when one naps and the FIFO holds a *)
(* byte, a wake-up is on its way.                                          *)
NobodySleepsOverData ==
  (rx_wait # <<>> /\ rx # <<>>) => (int \/ Kind = "poll" \/ \E t \in Readers : pc[t] = "woken")

(* What leaves the port is the text, every newline preceded by a carriage  *)
(* return: the wait before each character leaves room for both.            *)
SentInOrder ==
  /\ IsPrefix(line \o tx, Expand(Text))
  /\ wpos > Len(Text) => line \o tx = Expand(Text)
===============================================================================
