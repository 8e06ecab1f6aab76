------------------------------ MODULE Format -------------------------------
(***************************************************************************)
(* The number conversions of libc.c: vsprintf() of one %d, %u or %x with   *)
(* its flags, field width, precision and length, and generic_scanf() of    *)
(* what was printed.  A character is a digit's value, or one of the signs  *)
(* and the blank below.  An int has IntBits bits, a long long Wide bits.   *)
(*                                                                         *)
(* Careful formats are those the code prints and reads as the C standard   *)
(* says: an unsigned int below half its range, no sign flag to it, none of *)
(* the zero flag with a sign or a precision, no zero of precision 0 with a *)
(* field or flags, and a blank before a conversion that reads.             *)
(***************************************************************************)
EXTENDS Integers, SequencesExt, FiniteSetsExt

CONSTANTS IntBits, Wide, Widths, Precisions, Careful

Minus == 100
Plus == 101
Blank == 102
INT_MAX == -1      \* no precision given

VARIABLES
  text,       \* what was printed
  printed,    \* the conversion and the number
  wrong

vars == <<text, printed, wrong>>
Nothing == [spec |-> "none"]

Bits(long) == IF long THEN Wide ELSE IntBits
Wrap(n, bits) == n % (2 ^ bits)
Signed(n, bits) == IF n >= 2 ^ (bits - 1) THEN n - 2 ^ bits ELSE n
Radix(spec) == IF spec = "x" THEN 16 ELSE 10
Repeat(c, n) == [i \in 1 .. (IF n > 0 THEN n ELSE 0) |-> c]

Init == text = <<>> /\ printed = Nothing /\ wrong = FALSE
-----------------------------------------------------------------------------
(* __itoa: the digits come out in reverse, from the value's magnitude.     *)
Digits(n, radix) ==
  LET f[k \in 0 .. Wide] == IF k = 0 THEN <<n % radix>>
        ELSE LET prev == f[k - 1]
                 left == n \div (radix ^ k)
             IN IF left = 0 THEN prev ELSE Append(prev, left % radix)
  IN Reverse(f[Wide])
itoa(n, radix, signed) ==
  IF signed /\ n >= 2 ^ (Wide - 1) THEN <<Minus>> \o Digits(2 ^ Wide - n, radix)
  ELSE Digits(n, radix)

(* The argument as vsprintf() takes it: an int is extended with its sign   *)
(* whatever the conversion.                                                *)
Argument(n, spec, long) == Wrap(IF long THEN n ELSE Signed(n, IntBits), Wide)

(* apply_mods: the sign, zeros up to the precision, and the field, filled  *)
(* on the left with zeros or blanks.                                       *)
WithPrecision(buf, plus, precision) ==
  LET neg == buf[1] = Minus
      digits == IF neg THEN Tail(buf) ELSE buf
  IN (IF neg THEN <<Minus>> ELSE IF plus THEN <<Plus>> ELSE <<>>)
     \o Repeat(0, precision - Len(digits)) \o digits
InField(s, flags, width) ==
  IF "-" \in flags THEN s \o Repeat(Blank, width - Len(s))
  ELSE Repeat(IF "0" \in flags THEN 0 ELSE Blank, width - Len(s)) \o s

Converted(n, spec, long, flags, width, precision) ==
  LET d == Argument(n, spec, long)
      p == IF precision = INT_MAX THEN 1 ELSE precision
  IN IF p = 0 /\ d = 0 THEN <<>>
     ELSE InField(WithPrecision(itoa(d, Radix(spec), spec = "d"), "+" \in flags, p), flags, width)

(* The same by the standard.                                               *)
Value(n, spec, long) == IF spec = "d" THEN Signed(n, Bits(long)) ELSE n
Magnitude(v) == IF v < 0 THEN 0 - v ELSE v
NumDigits(v, radix) == CHOOSE k \in 1 .. Wide + 1 :
  v < radix ^ k /\ (k = 1 \/ v >= radix ^ (k - 1))
Standard(n, spec, long, flags, width, precision) ==
  LET v == Value(n, spec, long)
      m == Magnitude(v)
      k == IF m = 0 /\ precision = 0 THEN 0 ELSE NumDigits(m, Radix(spec))
      sign == IF v < 0 THEN <<Minus>> ELSE IF "+" \in flags /\ spec = "d" THEN <<Plus>> ELSE <<>>
      zeros == IF precision # INT_MAX THEN precision - k
               ELSE IF "0" \in flags /\ "-" \notin flags THEN width - k - Len(sign) ELSE 0
      number == sign \o Repeat(0, zeros) \o
                [i \in 1 .. k |-> (m \div (Radix(spec) ^ (k - i))) % Radix(spec)]
      pad == Repeat(Blank, width - Len(number))
  IN IF "-" \in flags THEN number \o pad ELSE pad \o number

sprintf(n, spec, long, flags, width, precision) ==
  /\ text = <<>> /\ ~wrong
  /\ Careful => /\ spec = "d" \/ long \/ n < 2 ^ (IntBits - 1)
                /\ "+" \in flags => spec = "d"
                /\ "0" \in flags => precision = INT_MAX /\ Value(n, spec, long) >= 0 /\ "+" \notin flags
                /\ precision = 0 /\ n = 0 => width = 0 /\ flags = {}
  /\ text' = Converted(n, spec, long, flags, width, precision)
  /\ wrong' = (text' # Standard(n, spec, long, flags, width, precision))
  /\ printed' = IF text' = <<>> THEN Nothing ELSE [spec |-> spec, long |-> long, n |-> n, flags |-> flags]
-----------------------------------------------------------------------------
(* generic_scanf: blanks are skipped only for a blank in the format, a     *)
(* minus is a sign and a plus is not, and the digits are taken as they     *)
(* come and cut to the size of what they are stored in.                    *)
Skipped(s, blank) ==
  LET rest == {i \in 1 .. Len(s) : s[i] # Blank}
  IN IF blank THEN SubSeq(s, IF rest = {} THEN Len(s) + 1 ELSE Min(rest), Len(s)) ELSE s
Leading(s, radix) ==
  LET good(i) == \A j \in 1 .. i : s[j] < radix
      f[k \in 0 .. Len(s)] == IF k = 0 THEN 0
        ELSE LET prev == f[k - 1] IN IF good(k) THEN (prev * radix) + s[k] ELSE prev
  IN f[Len(s)]

sscanf(spec, long, blank) ==
  /\ text # <<>> /\ ~wrong
  /\ spec = printed.spec /\ long = printed.long
  /\ Careful => blank /\ "+" \notin printed.flags
  /\ LET s == Skipped(text, blank)
         neg == spec = "d" /\ s # <<>> /\ s[1] = Minus
         d == Leading(IF neg THEN Tail(s) ELSE s, Radix(spec))
     IN wrong' = (Wrap(IF neg THEN 0 - d ELSE d, Bits(long)) # printed.n)
  /\ text' = <<>> /\ printed' = Nothing

Next ==
  \/ \E long \in BOOLEAN : \E n \in 0 .. 2 ^ Bits(long) - 1, spec \in {"d", "u", "x"},
         flags \in SUBSET {"-", "+", "0"}, width \in Widths, precision \in Precisions \cup {INT_MAX} :
       sprintf(n, spec, long, flags, width, precision)
  \/ \E spec \in {"d", "u", "x"}, long, blank \in BOOLEAN : sscanf(spec, long, blank)

Spec == Init /\ [][Next]_vars
-----------------------------------------------------------------------------
TypeOK == text \in Seq(Nat) /\ wrong \in BOOLEAN

(* A number is printed as the standard says, and what was printed is read  *)
(* back as the same number.                                                *)
CallsAgree == ~wrong
=============================================================================
