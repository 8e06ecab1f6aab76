------------------------------- MODULE Terminal -------------------------------
(***************************************************************************)
(* drivers/terminal/terminal.c: windows on pages of text-mode video        *)
(* memory.  Cells are numbered as the code numbers them, row after row of  *)
(* SCREEN_WIDTH; their attribute bytes are left out.                       *)
(***************************************************************************)
EXTENDS Integers, Sequences, FiniteSetsExt

CONSTANTS
  Terms,                        \* terminals, NUM_TERMINALS of them
  Left, Top, Width, Height,     \* their windows, in cells
  Page,                         \* the video page of each
  SCREEN_WIDTH, Cells,          \* a row and a page, in cells
  Unix,                         \* TERM_MODE_UNIX
  MaxChars                      \* bound: characters written

VARIABLES
  term,         \* term[]: cur_x, cur_y, busy
  buf,          \* video memory: 0 is a space, k the k-th character written,
                \* -1 what was there before
  cursor,       \* the hardware cursor
  written,      \* characters written so far
  text,         \* what each terminal should show: place in an endless text
                \* of rows as wide as the window -> character
  place,        \* the place of the next character in it
  bottom        \* the last row reached

vars == <<term, buf, cursor, written, text, place, bottom>>
refVars == <<written, text, place, bottom>>

Columns(t) == Left[t] .. Left[t] + Width[t] - 1
Rows(t) == Top[t] .. Top[t] + Height[t] - 1
Cell(t, x, y) == <<Page[t], y * SCREEN_WIDTH + x>>
Window(t) == {Cell(t, x, y) : x \in Columns(t), y \in Rows(t)}

SetCursor(t, x, y) ==
  cursor' = IF x \in Columns(t) /\ y \in Rows(t) THEN Cell(t, x, y) ELSE cursor

Init ==
  /\ term = [t \in Terms |-> [cur_x |-> 0, cur_y |-> 0, busy |-> FALSE]]
  /\ buf = [c \in {Page[t] : t \in Terms} \X (0 .. Cells - 1) |-> -1]
  /\ cursor = <<0, 0>> /\ written = 0
  /\ text = [t \in Terms |-> <<>>]
  /\ place = [t \in Terms |-> 0] /\ bottom = [t \in Terms |-> Height[t] - 1]
-----------------------------------------------------------------------------
(* The first open clears the window; a later one keeps it.                 *)
Open(t) ==
  /\ ~term[t].busy
  /\ term' = [term EXCEPT ![t] = [cur_x |-> Left[t], cur_y |-> Top[t], busy |-> TRUE]]
  /\ buf' = [c \in DOMAIN buf |-> IF c \in Window(t) THEN 0 ELSE buf[c]]
  /\ SetCursor(t, Left[t], Top[t])
  /\ UNCHANGED refVars

Reopen(t) ==
  /\ term[t].busy
  /\ SetCursor(t, term[t].cur_x, term[t].cur_y)
  /\ cursor' # cursor
  /\ UNCHANGED <<term, buf, refVars>>

(* term_down on a state <<x, y, buffer>>: one row on, scrolling the window *)
(* from its last row.                                                      *)
Scrolled(t, b) ==
  [c \in DOMAIN b |->
     CASE c \notin Window(t) -> b[c]
       [] c[2] \div SCREEN_WIDTH = Top[t] + Height[t] - 1 -> 0
       [] OTHER -> b[<<c[1], c[2] + SCREEN_WIDTH>>]]
Scroll(t, b) == Scrolled(t, b)

TermDown(t, s) ==
  IF s[2] + 1 = Top[t] + Height[t] THEN <<s[1], s[2], Scroll(t, s[3])>>
                                   ELSE <<s[1], s[2] + 1, s[3]>>

(* A full line wraps when the next character comes, whatever it is.        *)
Wrap(t, s) == IF s[1] = Left[t] + Width[t] THEN TermDown(t, <<Left[t], s[2], s[3]>>) ELSE s

PutTab(t, s) ==
  LET x == s[1] + 8 - (s[1] % 8)
  IN IF x >= Left[t] + Width[t] THEN TermDown(t, <<x - Width[t], s[2], s[3]>>)
     ELSE <<x, s[2], s[3]>>

Effect(t, c, s) ==
  CASE c = "\n" -> LET d == TermDown(t, s) IN IF Unix THEN <<Left[t], d[2], d[3]>> ELSE d
    [] c = "\r" -> <<Left[t], s[2], s[3]>>
    [] c = "\t" -> PutTab(t, s)
    [] OTHER -> LET i == Cell(t, s[1], s[2])
                IN <<s[1] + 1, s[2], IF i \in DOMAIN s[3] THEN [s[3] EXCEPT ![i] = written + 1]
                                     ELSE s[3]>>

(* What the text should become: the places are numbered on and on, and     *)
(* each character moves to a place as it would on paper.                   *)
RowOf(t, p) == p \div Width[t]
NextPlace(t, c, p) ==
  CASE c = "\n" -> IF Unix THEN (RowOf(t, p) + 1) * Width[t] ELSE p + Width[t]
    [] c = "\r" -> RowOf(t, p) * Width[t]
    [] c = "\t" -> p + 8 - ((Left[t] + (p % Width[t])) % 8)
    [] OTHER -> p + 1

Reached(t, c, p) ==
  LET q == NextPlace(t, c, p)
  IN Max({bottom[t], RowOf(t, p)} \cup (IF c \in {"\n", "\t"} THEN {RowOf(t, q)} ELSE {}))

(* terminal_write() of one character; of several, one after the other.     *)
Write(t, c) ==
  /\ term[t].busy /\ written < MaxChars
  /\ LET s == Effect(t, c, Wrap(t, <<term[t].cur_x, term[t].cur_y, buf>>))
     IN /\ term' = [term EXCEPT ![t].cur_x = s[1], ![t].cur_y = s[2]]
        /\ buf' = s[3]
        /\ SetCursor(t, s[1], s[2])
  /\ written' = written + 1
  /\ text' = IF c \in {"\n", "\r", "\t"} THEN text
             ELSE [text EXCEPT ![t] = [p \in DOMAIN text[t] \cup {place[t]} |->
                     IF p = place[t] THEN written + 1 ELSE text[t][p]]]
  /\ place' = [place EXCEPT ![t] = NextPlace(t, c, place[t])]
  /\ bottom' = [bottom EXCEPT ![t] = Reached(t, c, place[t])]

Next == \E t \in Terms :
  \/ Open(t) \/ Reopen(t)
  \/ \E c \in {"a", "\n", "\r", "\t"} : Write(t, c)

Spec == Init /\ [][Next]_vars
-----------------------------------------------------------------------------
TypeOK ==
  /\ \A t \in Terms : term[t].busy =>
       term[t].cur_x \in Left[t] .. Left[t] + Width[t] /\ term[t].cur_y \in Rows(t)
  /\ written \in 0 .. MaxChars

Shown(t, p) == IF p \in DOMAIN text[t] THEN text[t][p] ELSE 0

(* An open terminal shows the last rows of its text, each character where  *)
(* it belongs, and no terminal writes outside its window.                  *)
ShowsItsText ==
  /\ \A t \in Terms : term[t].busy =>
       \A x \in 0 .. Width[t] - 1, y \in 0 .. Height[t] - 1 :
         buf[Cell(t, Left[t] + x, Top[t] + y)] =
           Shown(t, (bottom[t] - Height[t] + 1 + y) * Width[t] + x)
  /\ \A c \in DOMAIN buf : (\A t \in Terms : c \notin Window(t)) => buf[c] = -1
===============================================================================
