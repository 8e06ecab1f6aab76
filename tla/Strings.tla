------------------------------ MODULE Strings ------------------------------
(***************************************************************************)
(* The memory and string functions of libc.c, each against what the C      *)
(* standard says of it, on every memory of a few cells.  One action is one *)
(* call: the loop of the code on one side, the standard on the other.      *)
(*                                                                         *)
(* Careful callers ask nothing the code answers differently: no comparison *)
(* of no characters, no search for the NUL, none in an empty string, none  *)
(* for a set or a text that is not there.                                  *)
(***************************************************************************)
EXTENDS Integers, Sequences, FiniteSetsExt

CONSTANTS Cells, Chars, UpperOf, Counts, Careful

VARIABLES mem, wrong
vars == <<mem, wrong>>

Addr == 0 .. Cells - 1
NULL == -1
Sign(n) == IF n < 0 THEN -1 ELSE IF n > 0 THEN 1 ELSE 0

IsString(p) == \E i \in p .. Cells - 1 : mem[i] = 0
strlen(p) == Min({i \in p .. Cells - 1 : mem[i] = 0}) - p
Fits(p, n) == p + n <= Cells
Apart(p, n, q, k) == p + n <= q \/ q + k <= p

(* The loops: forwards and backwards, a byte at a time.                    *)
Copied(p, q, n) ==
  LET f[k \in 0 .. n] == IF k = 0 THEN mem
                         ELSE LET prev == f[k - 1] IN [prev EXCEPT ![p + k - 1] = prev[q + k - 1]]
  IN f[n]
CopiedForwards(p, q, n) == Copied(p, q, n)     \* mutant: memmove() always goes forwards
CopiedBack(p, q, n) ==
  LET f[k \in 0 .. n] == IF k = 0 THEN mem
                         ELSE LET prev == f[k - 1] IN [prev EXCEPT ![p + n - k] = prev[q + n - k]]
  IN f[n]
Filled(m, p, n, c) == [i \in Addr |-> IF i \in p .. p + n - 1 THEN c ELSE m[i]]

(* What the standard wants: a block as a whole, a string as a sequence and *)
(* the order of sequences.                                                 *)
Moved(p, q, n) == [i \in Addr |-> IF i \in p .. p + n - 1 THEN mem[q + i - p] ELSE mem[i]]
Block(p, n) == [i \in 1 .. n |-> mem[p + i - 1]]
Str(p) == Block(p, strlen(p))
Upper(s) == [i \in DOMAIN s |-> UpperOf[s[i]]]
First(s, n) == SubSeq(s, 1, IF n < Len(s) THEN n ELSE Len(s))
Order(s, t) ==
  CASE s = t -> 0
    [] \E k \in 1 .. Len(t) : /\ k > Len(s) \/ s[k] < t[k]
                              /\ \A j \in 1 .. k - 1 : j <= Len(s) /\ s[j] = t[j] -> -1
    [] OTHER -> 1
Found(S) == IF S = {} THEN NULL ELSE Min(S)

Returns(new, want, result, wanted) ==
  /\ ~wrong
  /\ mem' = new
  /\ wrong' = (new # want \/ result # wanted)

Init == mem = [i \in Addr |-> 0] /\ wrong = FALSE
-----------------------------------------------------------------------------
memcpy(p, q, n) ==
  /\ Fits(p, n) /\ Fits(q, n) /\ Apart(p, n, q, n)
  /\ Returns(Copied(p, q, n), Moved(p, q, n), p, p)

memmove(p, q, n) ==
  /\ Fits(p, n) /\ Fits(q, n)
  /\ Returns(IF p > q /\ p - q < n THEN CopiedBack(p, q, n) ELSE Copied(p, q, n),
             Moved(p, q, n), p, p)

memset(p, c, n) ==
  /\ Fits(p, n)
  /\ Returns(Filled(mem, p, n, c), [i \in Addr |-> IF p <= i /\ i < p + n THEN c ELSE mem[i]], p, p)

(* strcpy copies the text twice: after the first loop only the NUL is left.*)
strcpy(p, q) ==
  /\ IsString(q) /\ Fits(p, strlen(q) + 1) /\ Apart(p, strlen(q) + 1, q, strlen(q) + 1)
  /\ Returns(Filled(Copied(p, q, strlen(q) + 1), p + strlen(q), 1, 0),
             Moved(p, q, strlen(q) + 1), p, p)

(* The padding starts on the NUL the loop stopped at.                      *)
strncpy(p, q, n) ==
  /\ IsString(q) /\ Fits(p, n) /\ Apart(p, n, q, strlen(q) + 1)
  /\ LET k == IF strlen(q) < n THEN strlen(q) ELSE n
     IN Returns(Filled(Copied(p, q, IF k < n THEN k + 1 ELSE n), p + k, n - k, 0),
                [i \in Addr |-> IF i \notin p .. p + n - 1 THEN mem[i]
                                ELSE IF i - p < k THEN mem[q + i - p] ELSE 0], p, p)

strcat(p, q) ==
  /\ IsString(p) /\ IsString(q) /\ Fits(p, strlen(p) + strlen(q) + 1)
  /\ Apart(p, strlen(p) + strlen(q) + 1, q, strlen(q) + 1)
  /\ Returns(Copied(p + strlen(p), q, strlen(q) + 1), Moved(p + strlen(p), q, strlen(q) + 1), p, p)

strncat(p, q, n) ==
  /\ IsString(p) /\ IsString(q)
  /\ LET k == IF strlen(q) < n THEN strlen(q) ELSE n
         end == p + strlen(p)
     IN /\ Fits(end, k + 1) /\ Apart(p, strlen(p) + k + 1, q, strlen(q) + 1)
        /\ Returns(Filled(Copied(end, q, k), end + k, 1, 0),
                   [i \in Addr |-> IF i \in end .. end + k - 1 THEN mem[q + i - end]
                                   ELSE IF i = end + k THEN 0 ELSE mem[i]], p, p)
-----------------------------------------------------------------------------
(* The comparisons stop at the first difference; those of strings at the   *)
(* end of either too, and compare what they stopped at.                    *)
Stops(p, q) == Min({k \in Addr : Fits(p, k + 1) /\ Fits(q, k + 1) /\
                                 (mem[p + k] = 0 \/ mem[q + k] = 0 \/ mem[p + k] # mem[q + k])})
StopsCase(p, q) == Min({k \in Addr : Fits(p, k + 1) /\ Fits(q, k + 1) /\
                          (mem[p + k] = 0 \/ mem[q + k] = 0 \/ UpperOf[mem[p + k]] # UpperOf[mem[q + k]])})
CompareAt(p, q, k) == Sign(mem[p + k] - mem[q + k])

memcmp(p, q, n) ==
  /\ Fits(p, n) /\ Fits(q, n)
  /\ LET d == {k \in 0 .. n - 1 : mem[p + k] # mem[q + k]}
     IN Returns(mem, mem, IF d = {} THEN 0 ELSE CompareAt(p, q, Min(d)), Order(Block(p, n), Block(q, n)))

strcmp(p, q) ==
  /\ IsString(p) /\ IsString(q)
  /\ Returns(mem, mem, CompareAt(p, q, Stops(p, q)), Order(Str(p), Str(q)))

strcasecmp(p, q) ==
  /\ IsString(p) /\ IsString(q)
  /\ LET k == StopsCase(p, q)
         inside == mem[p + k] # 0 /\ mem[q + k] # 0
     IN Returns(mem, mem, IF inside THEN Sign(UpperOf[mem[p + k]] - UpperOf[mem[q + k]])
                                    ELSE CompareAt(p, q, k), Order(Upper(Str(p)), Upper(Str(q))))

(* strncmp counts down after a match, so a count of 0 is no bound.         *)
strncmp(p, q, n) ==
  /\ IsString(p) /\ IsString(q)
  /\ Careful => n > 0
  /\ LET k == Stops(p, q)
     IN Returns(mem, mem, IF n > 0 /\ n <= k THEN 0 ELSE CompareAt(p, q, k),
                Order(First(Str(p), n), First(Str(q), n)))
-----------------------------------------------------------------------------
memchr(p, c, n) ==
  /\ Fits(p, n)
  /\ Returns(mem, mem, Found({i \in p .. p + n - 1 : mem[i] = c}),
             IF \E i \in 1 .. n : Block(p, n)[i] = c
               THEN p - 1 + (CHOOSE i \in 1 .. n : Block(p, n)[i] = c /\
                               \A j \in 1 .. i - 1 : Block(p, n)[j] # c) ELSE NULL)

(* strchr does not look at the NUL, strrchr starts before it.              *)
At(p, c) == {i \in p .. p + strlen(p) - 1 : mem[i] = c}
strchr(p, c) ==
  /\ IsString(p) /\ (Careful => c # 0)
  /\ Returns(mem, mem, Found(At(p, c)), Found({i \in p .. p + strlen(p) : mem[i] = c}))

strrchr(p, c) ==
  /\ IsString(p) /\ (Careful => c # 0 /\ strlen(p) > 0)
  /\ Returns(mem, mem, IF At(p, c) = {} THEN NULL ELSE Max(At(p, c)),
             LET all == {i \in p .. p + strlen(p) : mem[i] = c}
             IN IF all = {} THEN NULL ELSE Max(all))

Members(q) == {mem[i] : i \in q .. q + strlen(q) - 1}
Span(p, S) == Min({k \in 0 .. strlen(p) : k = strlen(p) \/ mem[p + k] \notin S})

strcspn(p, q) ==
  /\ IsString(p) /\ IsString(q)
  /\ Returns(mem, mem, Span(p, Chars \ Members(q)),
             Max({k \in 0 .. strlen(p) : \A i \in 0 .. k - 1 : mem[p + i] \notin Members(q)}))

strspn(p, q) ==
  /\ IsString(p) /\ IsString(q)
  /\ Returns(mem, mem, Span(p, Members(q)),
             Max({k \in 0 .. strlen(p) : \A i \in 0 .. k - 1 : mem[p + i] \in Members(q)}))

(* strpbrk returns the end of the string where it should return NULL.      *)
strpbrk(p, q) ==
  /\ IsString(p) /\ IsString(q)
  /\ LET there == {i \in p .. p + strlen(p) - 1 : mem[i] \in Members(q)}
     IN /\ Careful => there # {}
        /\ Returns(mem, mem, p + Span(p, Chars \ Members(q)), Found(there))

(* strstr: a search that runs off the end returns nothing at all.          *)
strstr(p, q) ==
  /\ IsString(p) /\ IsString(q)
  /\ LET n == strlen(q)
         there == {i \in p .. p + strlen(p) - n : \A k \in 0 .. n - 1 : mem[i + k] = mem[q + k]}
         lost == n > 0 /\ (there = {} \/ Min(there) = p + strlen(p)) /\ (n = 1 \/ strlen(p) = 0)
     IN /\ Careful => ~lost
        /\ Returns(mem, mem, IF n = 0 THEN p ELSE IF lost THEN -2 ELSE Found(there),
                   Found({i \in p .. p + strlen(p) : First(Block(i, p + strlen(p) - i), n) = Str(q)}))

Next == \E p \in Addr :
  \/ \E q \in Addr :
       \/ \E n \in Counts : memcpy(p, q, n) \/ memmove(p, q, n) \/ strncpy(p, q, n)
                            \/ strncat(p, q, n) \/ memcmp(p, q, n) \/ strncmp(p, q, n)
       \/ strcpy(p, q) \/ strcat(p, q) \/ strcmp(p, q) \/ strcasecmp(p, q)
       \/ strcspn(p, q) \/ strspn(p, q) \/ strpbrk(p, q) \/ strstr(p, q)
  \/ \E c \in Chars : \/ \E n \in Counts : memset(p, c, n) \/ memchr(p, c, n)
                      \/ strchr(p, c) \/ strrchr(p, c)

Spec == Init /\ [][Next]_vars
-----------------------------------------------------------------------------
TypeOK == mem \in [Addr -> Chars] /\ wrong \in BOOLEAN

(* Every call leaves in memory and returns what the standard says.         *)
CallsAgree == ~wrong
=============================================================================
