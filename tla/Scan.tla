-------------------------------- MODULE Scan --------------------------------
(***************************************************************************)
(* What reads text: generic_scanf() of libc.c on a string, with several    *)
(* directives in one format, and the dotted addresses of socket.c.  A      *)
(* character is a digit's value or one of the signs below; a format is a   *)
(* sequence of directives; an address is its four bytes, the first the     *)
(* highest.  Format reads a single number, with its length and sign.       *)
(*                                                                         *)
(* Careful callers give the scan what it expects: it never ends before the *)
(* first conversion, a number is there where one is read, a character or a *)
(* word where one is, and nobody asks for the count (%n).  The parts of    *)
(* their addresses are numbers.                                            *)
(***************************************************************************)
EXTENDS Integers, SequencesExt, FiniteSetsExt

CONSTANTS Texts, Formats, Parts, Bytes, Careful

Minus == 100
Blank == 102
Percent == 103
Letter == 104
Dot == 105
EOF == -1

VARIABLES text, wrong
vars == <<text, wrong>>

Init == text = <<>> /\ wrong = FALSE

IsDigit(c) == c \in 0 .. 9
Ch(in) == IF in = <<>> THEN EOF ELSE Head(in)
Rest(in, k) == SubSeq(in, k + 1, Len(in))
Run(in, Good(_)) == Min({i \in 1 .. Len(in) : ~Good(in[i])} \cup {Len(in) + 1}) - 1
Number(s) == FoldLeft(LAMBDA d, c : (d * 10) + c, 0, s)
-----------------------------------------------------------------------------
(* The automaton: "len" characters taken, "cnt" conversions, what they     *)
(* stored in "out"; it is "on" until a directive fails or a conversion     *)
(* leaves it at the end of the text.                                       *)
Scanning(in) == [in |-> in, len |-> 0, cnt |-> 0, out |-> <<>>, on |-> TRUE]
get_next_char(r, k) == [r EXCEPT !.in = Rest(@, k), !.len = @ + k]
Failed(r) == [r EXCEPT !.on = FALSE]
Stored(r, v) == [r EXCEPT !.out = Append(@, v), !.cnt = @ + 1]
AtEnd(r) == [r EXCEPT !.on = r.in # <<>>]

ScanBlanks(r) == AtEnd(get_next_char(r, Run(r.in, LAMBDA c : c = Blank)))
ScanOrdinary(r, c) == IF Ch(r.in) = c THEN get_next_char(r, 1) ELSE Failed(r)
ScanDigits(r) == LET k == Run(r.in, IsDigit)
                 IN AtEnd(Stored(get_next_char(r, k), Number(SubSeq(r.in, 1, k))))
ScanSigned(r) ==
  LET neg == Ch(r.in) = Minus
      in == IF neg THEN Tail(r.in) ELSE r.in
      k == Run(in, IsDigit)
      d == Number(SubSeq(in, 1, k))
      skip == get_next_char(r, k + (IF neg THEN 1 ELSE 0))
  IN AtEnd(Stored([skip EXCEPT !.len = @ + 1], IF neg THEN 0 - d ELSE d))
ScanChar(r) == IF Ch(r.in) \in {Blank, EOF} THEN Failed(r)
               ELSE AtEnd(Stored(get_next_char(r, 1), Head(r.in)))
ScanWord(r) == LET k == Run(r.in, LAMBDA c : c # Blank)
               IN AtEnd(Stored(get_next_char(r, k), SubSeq(r.in, 1, k)))
ScanPercent(r) == IF Ch(r.in) = Percent THEN AtEnd(get_next_char(r, 1)) ELSE Failed(r)
ScanCount(r) == AtEnd(Stored(r, r.len))

Directive(r, f) ==
  CASE ~r.on -> r
    [] f = "blank" -> ScanBlanks(r)
    [] f = "letter" -> ScanOrdinary(r, Letter)
    [] f = "%d" -> ScanSigned(r)
    [] f = "%u" -> ScanDigits(r)
    [] f = "%c" -> ScanChar(r)
    [] f = "%s" -> ScanWord(r)
    [] f = "%%" -> ScanPercent(r)
    [] f = "%n" -> ScanCount(r)
generic_scanf(in, fmt) == FoldLeft(Directive, Scanning(in), fmt)

(* By the standard a directive takes a stretch of the text of its own form,*)
(* numbers and words after any blanks, and the scan ends where there is    *)
(* none; a scan that meets the end before it stored anything returns EOF.  *)
Conversions == {"%d", "%u", "%c", "%s"}
IsForm(f, s) ==
  CASE f = "blank" -> ToSet(s) \subseteq {Blank}
    [] f = "letter" -> s = <<Letter>>
    [] f = "%%" -> s = <<Percent>>
    [] f = "%u" -> s # <<>> /\ ToSet(s) \subseteq 0 .. 9
    [] f = "%d" -> LET n == IF Ch(s) = Minus THEN Tail(s) ELSE s IN n # <<>> /\ ToSet(n) \subseteq 0 .. 9
    [] f = "%c" -> Len(s) = 1
    [] f = "%s" -> s # <<>> /\ Blank \notin ToSet(s)
ValueOf(f, s) ==
  CASE f = "%u" -> Number(s)
    [] f = "%d" -> IF s[1] = Minus THEN 0 - Number(Tail(s)) ELSE Number(s)
    [] f = "%c" -> s[1]
    [] f = "%s" -> s
Takes(f, in) == {k \in 0 .. Len(in) : IsForm(f, SubSeq(in, 1, k))}
Standard(r, f) ==
  LET in == IF f \in {"%d", "%u", "%s", "%%"} THEN Rest(r.in, Run(r.in, LAMBDA c : c = Blank)) ELSE r.in
  IN IF ~r.on \/ Takes(f, in) = {} THEN [r EXCEPT !.on = FALSE, !.eof = r.eof \/ (r.on /\ in = <<>>)]
     ELSE LET s == SubSeq(in, 1, Max(Takes(f, in)))
          IN [r EXCEPT !.in = Rest(in, Len(s)),
                       !.out = IF f \in Conversions THEN Append(@, ValueOf(f, s)) ELSE @]
StandardScan(in, fmt) == FoldLeft(Standard, [in |-> in, out |-> <<>>, on |-> TRUE, eof |-> FALSE], fmt)

(* The directives the scan reaches find what they are for.                 *)
Expected(in, fmt) ==
  /\ "%n" \notin ToSet(fmt)
  /\ LET r == StandardScan(in, fmt) IN r.eof => r.out # <<>>
  /\ \A i \in DOMAIN fmt : fmt[i] \in {"%d", "%u", "%c", "%s", "%%"} =>
       LET r == generic_scanf(in, SubSeq(fmt, 1, i - 1))
       IN r.on => /\ Ch(r.in) # Blank
                  /\ fmt[i] # "%%" => Takes(fmt[i], r.in) # {}

sscanf(in, fmt) ==
  /\ Careful => Expected(in, fmt)
  /\ text' = in
  /\ LET r == generic_scanf(in, fmt)
         s == StandardScan(in, fmt)
     IN wrong' = (r.out # s.out \/ (s.out = <<>> /\ s.eof) \/ "%n" \in ToSet(fmt))
-----------------------------------------------------------------------------
(* An address of a text: its parts end at the dots, and of each sscanf()   *)
(* wants a number.                                                         *)
Joined(parts) == FoldLeft(LAMBDA s, p : s \o <<Dot>> \o p, Head(parts), Tail(parts))
PartIsByte(part) ==
  LET r == generic_scanf(part, <<"%u">>)
  IN Len(part) <= 3 /\ r.cnt = 1 /\ r.out[1] <= 255
Accepted(src, parts) == Len(src) <= 15 /\ Len(parts) = 4 /\ \A i \in 1 .. 4 : PartIsByte(parts[i])
inet_aton(src, parts) ==
  IF Accepted(src, parts) THEN [i \in 1 .. 4 |-> generic_scanf(parts[i], <<"%u">>).out[1]] ELSE <<>>
inet_addr(src, parts) ==
  LET a == inet_aton(src, parts) IN IF a = <<>> THEN <<255, 255, 255, 255>> ELSE a

Digits(n) == (IF n < 100 THEN <<>> ELSE <<n \div 100>>)
             \o (IF n < 10 THEN <<>> ELSE <<(n \div 10) % 10>>) \o <<n % 10>>
inet_ntoa(addr) == [i \in 1 .. 4 |-> Digits(addr[i])]

IsNumber(p) == p # <<>> /\ ToSet(p) \subseteq 0 .. 9
IsAddress(parts) == Len(parts) = 4 /\ \A i \in 1 .. 4 : Len(parts[i]) <= 3 /\ IsNumber(parts[i]) /\ Number(parts[i]) < 256

ReadAddress(parts) ==
  /\ Careful => \A i \in DOMAIN parts : IsNumber(parts[i])
  /\ text' = Joined(parts)
  /\ wrong' = (inet_addr(text', parts) #
               IF IsAddress(parts) THEN [i \in 1 .. 4 |-> Number(parts[i])] ELSE <<255, 255, 255, 255>>)
WriteAddress(addr) ==
  /\ text' = Joined(inet_ntoa(addr))
  /\ wrong' = (inet_aton(text', inet_ntoa(addr)) # addr)

Next ==
  /\ text = <<>> /\ ~wrong
  /\ \/ \E in \in Texts, fmt \in Formats : sscanf(in, fmt)
     \/ \E parts \in Parts : ReadAddress(parts)
     \/ \E addr \in [1 .. 4 -> Bytes] : WriteAddress(addr)

Spec == Init /\ [][Next]_vars
-----------------------------------------------------------------------------
TypeOK == text \in Seq(Nat) /\ wrong \in BOOLEAN

(* A scan stores the values the standard says, and as many; a dotted       *)
(* address is taken when it is one and only then, and one that was printed *)
(* reads back.                                                             *)
ScansAgree == ~wrong
=============================================================================
