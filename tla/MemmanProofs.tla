---------------------------- MODULE MemmanProofs ----------------------------
(***************************************************************************)
(* Proofs about dynamic memory (base/memman.c), for every amount of memory *)
(* and whatever sizes the clients request: careful clients never share a   *)
(* unit nor lose one, and the walk of malloc() and free() meets headers    *)
(* only.  The invariant is that the chain's blocks tile memory; every      *)
(* operation cuts a block in two (SplitSound) or joins a block with those  *)
(* behind it (JoinSound), or both.                                         *)
(***************************************************************************)
EXTENDS Memman, ListLemmas, FiniteSetTheorems

-----------------------------------------------------------------------------
(* The walk, whose function of the number of steps is recursive, unfolded. *)

StepFrom(h, a) == IF IsHeader(h, a) THEN After(h, a) ELSE a
Walk(h, n, f) == f = [k \in 0 .. n |-> IF k = 0 THEN 0 ELSE StepFrom(h, f[k-1])]

LEMMA WalkExists ==
  ASSUME NEW h, NEW n \in Nat
  PROVE  \E f : Walk(h, n, f)
<1> DEFINE Missing == {k \in Nat : ~\E f : Walk(h, k, f)}
<1>1. SUFFICES ASSUME Missing # {} PROVE FALSE
  OBVIOUS
<1>2. PICK k \in Missing : \A j \in Missing : k <= j
  <2>1. Missing \subseteq Nat
    OBVIOUS
  <2> HIDE DEF Missing
  <2>2. QED
    BY <1>1, <2>1, LeastNatural
<1>3. CASE k = 0
  <2>1. Walk(h, 0, [j \in 0 .. 0 |-> 0])
    BY DEF Walk
  <2>2. QED
    BY <1>3, <2>1
<1>4. CASE k # 0
  <2>1. k-1 \in Nat /\ k-1 \notin Missing
    BY <1>2, <1>4
  <2>2. PICK f : Walk(h, k-1, f)
    BY <2>1
  <2> DEFINE g == [j \in 0 .. k |-> IF j <= k-1 THEN f[j] ELSE StepFrom(h, f[k-1])]
  <2>3. \A j \in 0 .. k-1 : f[j] = IF j = 0 THEN 0 ELSE StepFrom(h, f[j-1])
    BY <2>2 DEF Walk
  <2>4. \A j \in 0 .. k : g[j] = IF j = 0 THEN 0 ELSE StepFrom(h, g[j-1])
    <3> SUFFICES ASSUME NEW j \in 0 .. k
                 PROVE  g[j] = IF j = 0 THEN 0 ELSE StepFrom(h, g[j-1])
      OBVIOUS
    <3>1. CASE j <= k-1
      <4>1. j \in 0 .. k-1 /\ (j # 0 => j-1 \in 0 .. k /\ j-1 <= k-1)
        BY <2>1, <3>1
      <4>2. g[j] = f[j] /\ (j # 0 => g[j-1] = f[j-1])
        BY <4>1
      <4>3. QED
        BY <2>3, <4>1, <4>2
    <3>2. CASE ~(j <= k-1)
      <4>1. j = k /\ j # 0 /\ k-1 \in 0 .. k
        BY <1>4, <2>1, <3>2
      <4>2. g[j] = StepFrom(h, f[k-1]) /\ g[k-1] = f[k-1]
        BY <3>2, <4>1
      <4>3. QED
        BY <4>1, <4>2
    <3>3. QED
      BY <3>1, <3>2
  <2>5. Walk(h, k, g)
    <3>1. g = [j \in 0 .. k |-> g[j]]
      OBVIOUS
    <3> HIDE DEF g
    <3>2. QED
      BY <2>4, <3>1 DEF Walk
  <2>6. QED
    BY <2>5
<1>5. QED
  BY <1>3, <1>4

LEMMA ChainIsWalk ==
  ASSUME NEW h
  PROVE  \E f : Walk(h, N, f) /\ Chain(h) = {f[k] : k \in 0 .. N} \cap Unit
<1> DEFINE met == CHOOSE f : Walk(h, N, f)
<1>1. N \in Nat
  BY MemmanAssumption
<1>2. Walk(h, N, met)
  BY <1>1, WalkExists
<1>3. Chain(h) = {met[k] : k \in 0 .. N} \cap Unit
  BY DEF Chain, Walk, StepFrom
<1>4. QED
  BY <1>2, <1>3

(* C are the headers of blocks that tile memory, from unit 0 to its end.   *)
Tiles(h, C) ==
  /\ 0 \in C /\ C \subseteq Unit
  /\ \A a \in C : /\ h[a] # Data
                  /\ h[a].size \in Nat
                  /\ After(h, a) \in C \cup {N}
                  /\ \A b \in C : b > a => b >= After(h, a)

LEMMA TilesAreChain ==
  ASSUME NEW h, NEW C, Tiles(h, C)
  PROVE  Chain(h) = C
<1>1. N \in Nat /\ C \subseteq Unit /\ C \subseteq Nat /\ N \notin Unit /\ 0 \in C
      /\ \A a \in C : a \in Nat /\ a < N
  BY MemmanAssumption DEF Tiles, Unit
<1>2. PICK f : Walk(h, N, f) /\ Chain(h) = {f[k] : k \in 0 .. N} \cap Unit
  BY ChainIsWalk
<1>3. f[0] = 0 /\ \A k \in 1 .. N : f[k] = StepFrom(h, f[k-1])
  <2>1. \A k \in 0 .. N : f[k] = IF k = 0 THEN 0 ELSE StepFrom(h, f[k-1])
    BY <1>2 DEF Walk
  <2>2. 0 \in 0 .. N /\ \A k \in 1 .. N : k \in 0 .. N /\ k # 0
    BY <1>1
  <2>3. QED
    BY <2>1, <2>2
<1>4. ASSUME NEW a \in C
      PROVE  /\ StepFrom(h, a) = After(h, a) /\ After(h, a) \in C \cup {N}
             /\ After(h, a) \in Nat /\ After(h, a) > a
             /\ \A b \in C : b > a => b >= After(h, a)
  BY <1>1 DEF Tiles, StepFrom, IsHeader, After
<1>5. StepFrom(h, N) = N
  BY <1>1 DEF StepFrom, IsHeader
<1> DEFINE Good(k) == /\ f[k] \in C \cup {N}
                      /\ f[k] = N \/ f[k] >= k
                      /\ \A c \in C : c < f[k] => \E j \in 0 .. N : f[j] = c
           Bad == {k \in 0 .. N : ~Good(k)}
<1>6. Good(0)
  BY <1>1, <1>3
<1>7. ASSUME NEW k \in 1 .. N, Good(k-1) PROVE Good(k)
  <2>1. k-1 \in 0 .. N /\ f[k] = StepFrom(h, f[k-1])
    BY <1>1, <1>3
  <2>2. CASE f[k-1] = N
    BY <1>5, <1>7, <2>1, <2>2
  <2>3. CASE f[k-1] # N
    <3>1. PICK a \in C : a = f[k-1] /\ a >= k-1
      BY <1>7, <2>3
    <3>2. /\ f[k] = After(h, a) /\ f[k] \in C \cup {N}
          /\ f[k] \in Nat /\ f[k] > a
          /\ \A b \in C : b > a => b >= f[k]
      BY <1>4, <2>1, <3>1
    <3>3. f[k] >= k
      BY <1>1, <3>1, <3>2
    <3>4. ASSUME NEW c \in C, c < f[k] PROVE \E j \in 0 .. N : f[j] = c
      <4>1. CASE c < a
        BY <1>7, <3>1, <4>1
      <4>2. CASE c = a
        BY <2>1, <3>1, <4>2
      <4>3. CASE c > a
        BY <1>1, <3>2, <3>4, <4>3
      <4>4. QED
        BY <1>1, <4>1, <4>2, <4>3
    <3>5. QED
      BY <3>2, <3>3, <3>4
  <2>4. QED
    BY <2>2, <2>3
<1>8. Bad = {}
  <2> SUFFICES ASSUME Bad # {} PROVE FALSE
    OBVIOUS
  <2>1. Bad \subseteq Nat
    BY <1>1
  <2>2. PICK k \in Bad : \A j \in Bad : k <= j
    <3> HIDE DEF Bad
    <3>1. QED
      BY <2>1, LeastNatural
  <2>3. k \in 0 .. N /\ ~Good(k)
    OBVIOUS
  <2> HIDE DEF Good
  <2>4. k # 0
    BY <1>6, <2>3
  <2>5. k \in 1 .. N /\ k-1 \in 0 .. N /\ ~(k <= k-1)
    BY <1>1, <2>3, <2>4
  <2>6. Good(k-1)
    BY <2>2, <2>5
  <2>7. QED
    BY <1>7, <2>3, <2>5, <2>6
<1>9. \A k \in 0 .. N : Good(k)
  BY <1>8
<1>10. \A k \in 0 .. N : f[k] \in Unit => f[k] \in C
  BY <1>1, <1>9
<1>11. \A c \in C : \E j \in 0 .. N : f[j] = c
  <2> SUFFICES ASSUME NEW c \in C PROVE \E j \in 0 .. N : f[j] = c
    OBVIOUS
  <2>1. N \in 0 .. N /\ Good(N)
    BY <1>1, <1>9
  <2>2. f[N] = N
    <3>1. ASSUME NEW x \in C PROVE ~(x >= N)
      BY <1>1
    <3>2. QED
      BY <2>1, <3>1
  <2>3. c < f[N]
    BY <1>1, <2>2
  <2>4. QED
    BY <2>1, <2>3
<1>12. QED
  BY <1>1, <1>2, <1>10, <1>11
-----------------------------------------------------------------------------
Block == [size : 0 .. N - 1, prev : 0 .. N - 1, alloc : BOOLEAN, last : BOOLEAN]
Memory == [Unit -> Block \cup {Data}]

(* Memory h is the chain of the blocks C, and their links are right.       *)
Sound(h, C) ==
  /\ h \in Memory
  /\ Tiles(h, C)
  /\ h[0].prev = 0
  /\ \A a \in C : /\ h[a].last <=> After(h, a) = N
                  /\ After(h, a) < N => h[After(h, a)].prev = h[a].size

LEMMA NIsNat ==
  /\ N \in Nat /\ N > 1 /\ 0 \in Unit /\ N \notin Unit
  /\ \A a \in Unit : a \in Nat /\ a < N
  /\ \A a \in Nat : a < N => a \in Unit
  BY MemmanAssumption DEF Unit

LEMMA DataIsNoBlock ==
  \A b \in Block : b # Data
<1>1. Block \subseteq [size : Nat, prev : Nat, alloc : BOOLEAN, last : BOOLEAN]
  BY NIsNat DEF Block
<1>2. QED
  BY <1>1, MemmanAssumption

(* What the definitions say of one block of a sound memory.                *)
LEMMA SoundBlock ==
  ASSUME NEW h, NEW C, Sound(h, C), NEW a \in C
  PROVE  /\ a \in Unit /\ a \in Nat /\ a < N
         /\ h[a] \in Block /\ h[a] # Data
         /\ h[a].size \in 0 .. N - 1 /\ h[a].prev \in 0 .. N - 1
         /\ h[a].size \in Nat /\ h[a].prev \in Nat
         /\ h[a].alloc \in BOOLEAN /\ h[a].last \in BOOLEAN
         /\ After(h, a) = a + 1 + h[a].size
         /\ After(h, a) \in C \cup {N} /\ After(h, a) \in Nat
         /\ After(h, a) > a /\ After(h, a) <= N
         /\ \A b \in C : b > a => b >= After(h, a)
         /\ h[a].last <=> After(h, a) = N
         /\ After(h, a) < N => h[After(h, a)].prev = h[a].size
<1>1. a \in Unit /\ h[a] # Data /\ h[a] \in Block \cup {Data} /\ C \subseteq Unit
  BY DEF Sound, Tiles, Memory
<1>2. h[a] \in Block
  BY <1>1
<1>3. /\ h[a].size \in 0 .. N - 1 /\ h[a].prev \in 0 .. N - 1
      /\ h[a].alloc \in BOOLEAN /\ h[a].last \in BOOLEAN
  BY <1>2 DEF Block
<1>4. After(h, a) \in C \cup {N} /\ \A b \in C : b > a => b >= After(h, a)
  BY DEF Sound, Tiles
<1>5. After(h, a) = a + 1 + h[a].size
  BY DEF After
<1>6. \A x \in C \cup {N} : x <= N
  BY <1>1, NIsNat
<1>7. a \in Nat /\ a < N /\ N \in Nat
  BY <1>1, NIsNat
<1>8. h[a].size \in Nat /\ h[a].prev \in Nat /\ After(h, a) \in Nat /\ After(h, a) > a
  BY <1>3, <1>5, <1>7
<1>9. After(h, a) <= N
  BY <1>4, <1>6
<1>10. (h[a].last <=> After(h, a) = N) /\ (After(h, a) < N => h[After(h, a)].prev = h[a].size)
  BY DEF Sound
<1>11. QED
  BY <1>1, <1>2, <1>3, <1>4, <1>5, <1>7, <1>8, <1>9, <1>10

(* The block before a is found "directly by negative offsetting".          *)
LEMMA BlockBefore ==
  ASSUME NEW h, NEW C, Sound(h, C), NEW a \in C, a # 0
  PROVE  \E p \in C : /\ After(h, p) = a /\ p < a
                      /\ h[a].prev = h[p].size /\ p = a - 1 - h[a].prev
<1>1. 0 \in C /\ a \in Nat /\ a < N /\ N \in Nat
  BY SoundBlock, NIsNat DEF Sound, Tiles
<1>2. \A b \in C : b \in Nat
  BY SoundBlock
<1> DEFINE Gaps == {k \in Nat : \E b \in C : b < a /\ k = a - b}
<1>3. a \in Gaps
  BY <1>1
<1>4. PICK k \in Gaps : \A j \in Gaps : k <= j
  <2>1. Gaps \subseteq Nat /\ Gaps # {}
    BY <1>3
  <2> HIDE DEF Gaps
  <2>2. QED
    BY <2>1, LeastNatural
<1>5. PICK p \in C : p < a /\ k = a - p
  OBVIOUS
<1>6. /\ p \in Nat /\ h[p].size \in Nat /\ After(h, p) = p + 1 + h[p].size
      /\ After(h, p) \in C \cup {N} /\ After(h, p) > p /\ After(h, p) <= a
      /\ After(h, p) < N => h[After(h, p)].prev = h[p].size
  BY <1>1, <1>5, SoundBlock
<1>7. After(h, p) = a
  <2> SUFFICES ASSUME After(h, p) < a PROVE FALSE
    BY <1>1, <1>6
  <2>1. PICK b \in C : b = After(h, p)
    BY <1>1, <1>6
  <2>2. a - b \in Gaps
    BY <1>1, <1>2, <2>1
  <2>3. k <= a - b
    BY <1>4, <2>2
  <2>4. QED
    BY <1>1, <1>2, <1>5, <1>6, <2>1, <2>3
<1>8. QED
  BY <1>1, <1>5, <1>6, <1>7

(* Neither flags nor data inside blocks matter.                            *)
LEMMA KeepsSound ==
  ASSUME NEW h, NEW C, Sound(h, C), NEW g \in Memory,
         \A c \in C : /\ g[c] # Data
                      /\ g[c].size = h[c].size /\ g[c].prev = h[c].prev
                      /\ g[c].last = h[c].last
  PROVE  Sound(g, C)
<1>1. \A c \in C : After(g, c) = After(h, c)
  BY DEF After
<1>2. 0 \in C /\ C \subseteq Unit
  BY DEF Sound, Tiles
<1>3. Tiles(g, C)
  BY <1>1, <1>2 DEF Sound, Tiles
<1>4. ASSUME NEW a \in C
      PROVE  /\ g[a].last <=> After(g, a) = N
             /\ After(g, a) < N => g[After(g, a)].prev = g[a].size
  <2>1. After(h, a) < N => After(h, a) \in C
    BY SoundBlock, NIsNat
  <2>2. QED
    BY <1>1, <2>1, SoundBlock
<1>5. QED
  BY <1>2, <1>3, <1>4 DEF Sound

(* Block a is cut behind its first n units; the rest, at m, is a block.    *)
CutOff(h, C, a, n, m, g) ==
  /\ g[a] # Data /\ g[a].size = n /\ g[a].prev = h[a].prev /\ g[a].last = FALSE
  /\ g[m] # Data /\ g[m].size = h[a].size - n - 1 /\ g[m].prev = n
  /\ g[m].last = h[a].last
  /\ \A c \in C \ {a} :
       /\ g[c] # Data /\ g[c].size = h[c].size /\ g[c].last = h[c].last
       /\ c # After(h, a) => g[c].prev = h[c].prev
       /\ c = After(h, a) => g[c].prev = h[a].size - n - 1

LEMMA SplitSound ==
  ASSUME NEW h, NEW C, Sound(h, C), NEW a \in C, NEW n \in Nat, NEW m, m = a + 1 + n,
         h[a].size > n, NEW g \in Memory, CutOff(h, C, a, n, m, g)
  PROVE  m \in Unit /\ m \notin C /\ Sound(g, C \cup {m})
<1> USE DEF CutOff
<1> DEFINE z == After(h, a)
<1>1. /\ a \in Nat /\ a < N /\ h[a].size \in Nat /\ z = a + 1 + h[a].size
      /\ z \in C \cup {N} /\ z \in Nat /\ z <= N /\ N \in Nat
      /\ \A b \in C : b > a => b >= z
      /\ h[a].last <=> z = N
  BY SoundBlock, NIsNat
<1>2. \A c \in C : c \in Nat /\ c < N /\ h[c].size \in Nat /\ After(h, c) \in Nat
                   /\ After(h, c) = c + 1 + h[c].size
                   /\ After(h, c) \in C \cup {N} /\ After(h, c) > c
                   /\ \A b \in C : b > c => b >= After(h, c)
  BY SoundBlock
<1>3. m \in Nat /\ a < m /\ m < z
  BY <1>1
<1>4. m \in Unit
  BY <1>1, <1>3, NIsNat
<1>5. m \notin C
  BY <1>1, <1>3
<1> HIDE DEF z
<1>6. After(g, a) = m /\ After(g, m) = z /\ g[m].size \in Nat
  BY <1>1 DEF After
<1>7. \A c \in C \ {a} : After(g, c) = After(h, c)
  BY DEF After
<1>8. \A c \in C \ {a} : After(h, c) # z
  <2> SUFFICES ASSUME NEW c \in C \ {a}, After(h, c) = z PROVE FALSE
    OBVIOUS
  <2>1. CASE c < a
    BY <1>1, <1>2, <1>3, <2>1
  <2>2. CASE c > a
    BY <1>1, <1>2, <2>2
  <2>3. QED
    BY <1>1, <1>2, <2>1, <2>2
<1>9. Tiles(g, C \cup {m})
  <2>1. 0 \in C /\ C \subseteq Unit
    BY DEF Sound, Tiles
  <2>2. ASSUME NEW c \in C \cup {m}
        PROVE  /\ g[c] # Data /\ g[c].size \in Nat
               /\ After(g, c) \in C \cup {m, N}
               /\ \A b \in C \cup {m} : b > c => b >= After(g, c)
    <3>1. CASE c = a
      BY <1>1, <1>2, <1>3, <1>6, <3>1
    <3>2. CASE c = m
      BY <1>1, <1>2, <1>3, <1>6, <3>2
    <3>3. CASE c # a /\ c # m
      <4>1. c \in C \ {a} /\ g[c] # Data /\ g[c].size \in Nat
            /\ After(g, c) = After(h, c) /\ After(h, c) \in C \cup {N}
        BY <1>2, <1>7, <3>3
      <4>2. m > c => m >= After(h, c)
        <5>1. c \in Nat /\ After(h, c) \in Nat /\ After(h, c) > c
          BY <1>2, <4>1
        <5>2. CASE c < a
          <6>1. a >= After(h, c)
            BY <1>2, <4>1, <5>2
          <6>2. QED
            BY <1>1, <1>3, <5>1, <6>1
        <5>3. CASE c > a
          <6>1. c >= z
            BY <1>1, <4>1, <5>3
          <6>2. QED
            BY <1>1, <1>3, <5>1, <6>1
        <5>4. QED
          BY <1>1, <4>1, <5>1, <5>2, <5>3
      <4>3. QED
        BY <1>2, <4>1, <4>2
    <3>4. QED
      BY <3>1, <3>2, <3>3
  <2>3. QED
    BY <1>4, <2>1, <2>2 DEF Tiles
<1>10. g[0].prev = 0
  <2>1. h[0].prev = 0 /\ 0 \in C
    BY DEF Sound, Tiles
  <2>2. 0 # z
    BY <1>1, <1>3
  <2>3. QED
    BY <2>1, <2>2 DEF z
<1>11. ASSUME NEW c \in C \cup {m}
       PROVE  /\ g[c].last <=> After(g, c) = N
              /\ After(g, c) < N => g[After(g, c)].prev = g[c].size
  <2>1. CASE c = a
    BY <1>1, <1>3, <1>6, <2>1
  <2>2. CASE c = m
    <3>1. z < N => z \in C \ {a}
      BY <1>1, <1>3
    <3>2. QED
      BY <1>1, <1>6, <2>2, <3>1 DEF z
  <2>3. CASE c # a /\ c # m
    <3>1. c \in C \ {a} /\ After(g, c) = After(h, c) /\ After(h, c) # z
      BY <1>7, <1>8, <2>3
    <3>2. /\ h[c].last <=> After(h, c) = N
          /\ After(h, c) < N => h[After(h, c)].prev = h[c].size
          /\ After(h, c) < N => After(h, c) \in C
      BY <1>1, <3>1, SoundBlock
    <3>3. After(h, c) < N => g[After(h, c)].prev = h[After(h, c)].prev
      BY <3>1, <3>2 DEF z
    <3>4. QED
      BY <3>1, <3>2, <3>3
  <2>4. QED
    BY <2>1, <2>2, <2>3
<1>12. QED
  BY <1>4, <1>5, <1>9, <1>10, <1>11 DEF Sound

(* Block a takes in the blocks behind it, up to e.                         *)
JoinedUp(h, C, a, e, g) ==
  /\ g[a] # Data /\ g[a].size = e - a - 1 /\ g[a].prev = h[a].prev
  /\ g[a].last <=> e = N
  /\ \A c \in C : c < a \/ c >= e =>
       /\ g[c] # Data /\ g[c].size = h[c].size /\ g[c].last = h[c].last
       /\ c # e => g[c].prev = h[c].prev
       /\ c = e => g[c].prev = e - a - 1

LEMMA JoinSound ==
  ASSUME NEW h, NEW C, Sound(h, C), NEW a \in C, NEW e \in C \cup {N}, e > a,
         NEW g \in Memory, JoinedUp(h, C, a, e, g)
  PROVE  Sound(g, {c \in C : c <= a \/ c >= e})
<1> USE DEF JoinedUp
<1> DEFINE D == {c \in C : c <= a \/ c >= e}
<1>1. a \in Nat /\ a < N /\ N \in Nat /\ e \in Nat /\ e <= N
  BY SoundBlock, NIsNat
<1>2. \A c \in C : /\ c \in Nat /\ c < N /\ h[c].size \in Nat /\ After(h, c) \in Nat
                   /\ After(h, c) = c + 1 + h[c].size
                   /\ After(h, c) \in C \cup {N} /\ After(h, c) > c
                   /\ \A b \in C : b > c => b >= After(h, c)
                   /\ h[c].last <=> After(h, c) = N
                   /\ After(h, c) < N => h[After(h, c)].prev = h[c].size
  BY SoundBlock
<1>3. After(g, a) = e /\ g[a].size \in Nat
  BY <1>1 DEF After
<1>4. \A c \in C : c < a \/ c >= e => After(g, c) = After(h, c)
  BY DEF After
<1>5. \A c \in D : c # a => c \in C /\ (c < a \/ c >= e)
  BY <1>1, <1>2
<1>6. ASSUME NEW c \in D, c # a
      PROVE  /\ After(g, c) = After(h, c)
             /\ After(h, c) \in D \cup {N} /\ After(h, c) # e
             /\ After(h, c) < N => After(h, c) \in C
  <2>1. CASE c < a
    BY <1>1, <1>2, <1>4, <1>6, <2>1
  <2>2. CASE c >= e
    BY <1>1, <1>2, <1>4, <1>6, <2>2
  <2>3. QED
    BY <1>5, <1>6, <2>1, <2>2
<1>7. Tiles(g, D)
  <2>1. 0 \in D /\ D \subseteq Unit
    <3>1. 0 \in C /\ C \subseteq Unit
      BY DEF Sound, Tiles
    <3>2. 0 <= a
      BY <1>1
    <3>3. QED
      BY <3>1, <3>2
  <2>2. ASSUME NEW c \in D
        PROVE  /\ g[c] # Data /\ g[c].size \in Nat
               /\ After(g, c) \in D \cup {N}
               /\ \A b \in D : b > c => b >= After(g, c)
    <3>1. CASE c = a
      BY <1>1, <1>2, <1>3, <3>1
    <3>2. CASE c # a
      BY <1>2, <1>5, <1>6, <3>2
    <3>3. QED
      BY <3>1, <3>2
  <2> HIDE DEF D
  <2>3. QED
    BY <2>1, <2>2 DEF Tiles
<1>8. g[0].prev = 0
  <2>1. h[0].prev = 0 /\ 0 \in C
    BY DEF Sound, Tiles
  <2>2. QED
    BY <1>1, <2>1
<1>9. ASSUME NEW c \in D
      PROVE  /\ g[c].last <=> After(g, c) = N
             /\ After(g, c) < N => g[After(g, c)].prev = g[c].size
  <2>1. CASE c = a
    BY <1>1, <1>3, <2>1
  <2>2. CASE c # a
    <3>1. /\ c \in C /\ After(g, c) = After(h, c) /\ After(h, c) # e
          /\ g[c].last = h[c].last /\ g[c].size = h[c].size
      BY <1>5, <1>6, <2>2
    <3>2. After(h, c) < N => g[After(h, c)].prev = h[After(h, c)].prev
      <4> SUFFICES ASSUME After(h, c) < N
                   PROVE  g[After(h, c)].prev = h[After(h, c)].prev
        OBVIOUS
      <4>1. PICK y \in D : y = After(h, c) /\ y # e
        BY <1>1, <1>6, <2>2, <3>1
      <4>2. QED
        BY <1>5, <4>1
    <3>3. QED
      BY <1>2, <3>1, <3>2
  <2>3. QED
    BY <2>1, <2>2
<1> HIDE DEF D
<1>10. Sound(g, D)
  BY <1>7, <1>8, <1>9 DEF Sound
<1>11. QED
  BY <1>10 DEF D
-----------------------------------------------------------------------------
(* The blocks of the chain C marked allocated.                             *)
Allocated(h, C) == {c \in C : h[c].alloc}

LEMMA Put ==
  ASSUME NEW h \in Memory, NEW a \in Unit, NEW b \in Block
  PROVE  [h EXCEPT ![a] = b] \in Memory
  BY DEF Memory

LEMMA WriteKeeps ==
  ASSUME NEW h \in Memory, NEW a, NEW n
  PROVE  /\ Write(h, a, n) \in Memory
         /\ \A u \in Unit : u \notin a + 1 .. a + n => Write(h, a, n)[u] = h[u]
  BY DEF Memory, Write

LEMMA Resized ==
  ASSUME NEW b \in Block, NEW s, NEW l
  PROVE  LET c == [[b EXCEPT !.size = s] EXCEPT !.last = l]
         IN /\ c.size = s /\ c.last = l /\ c.prev = b.prev /\ c.alloc = b.alloc
            /\ s \in 0 .. N - 1 /\ l \in BOOLEAN => c \in Block
  BY DEF Block

(* The updates free() and realloc() are made of.                           *)
Resize(f, a, s, l) == [f EXCEPT ![a].size = s, ![a].last = l]
Clear(f, a) == [f EXCEPT ![a].alloc = FALSE]
Tell(f, a, s) == [f EXCEPT ![a].prev = s]

LEMMA ResizedAt ==
  ASSUME NEW f \in Memory, NEW a \in Unit, f[a] \in Block, NEW s, NEW l
  PROVE  /\ Resize(f, a, s, l)[a].size = s /\ Resize(f, a, s, l)[a].last = l
         /\ Resize(f, a, s, l)[a].prev = f[a].prev
         /\ Resize(f, a, s, l)[a].alloc = f[a].alloc
         /\ s \in 0 .. N - 1 /\ l \in BOOLEAN =>
              Resize(f, a, s, l) \in Memory /\ Resize(f, a, s, l)[a] \in Block
         /\ \A u \in Unit : u # a => Resize(f, a, s, l)[u] = f[u]
<1> DEFINE c == [[f[a] EXCEPT !.size = s] EXCEPT !.last = l]
<1>1. Resize(f, a, s, l) = [f EXCEPT ![a] = c]
  BY DEF Memory, Resize
<1>2. /\ c.size = s /\ c.last = l /\ c.prev = f[a].prev /\ c.alloc = f[a].alloc
      /\ s \in 0 .. N - 1 /\ l \in BOOLEAN => c \in Block
  BY Resized
<1> HIDE DEF c
<1>3. /\ Resize(f, a, s, l)[a] = c
      /\ \A u \in Unit : u # a => Resize(f, a, s, l)[u] = f[u]
      /\ c \in Block => Resize(f, a, s, l) \in Memory
  BY <1>1 DEF Memory
<1>4. QED
  BY <1>2, <1>3

ResizeUpTo(f, a, s, e) == Resize(f, a, s, e = N)

LEMMA ResizedUpTo ==
  ASSUME NEW f \in Memory, NEW a \in Unit, f[a] \in Block, NEW s \in 0 .. N - 1, NEW e
  PROVE  /\ ResizeUpTo(f, a, s, e) \in Memory /\ ResizeUpTo(f, a, s, e)[a] \in Block
         /\ ResizeUpTo(f, a, s, e)[a].size = s
         /\ ResizeUpTo(f, a, s, e)[a].prev = f[a].prev
         /\ ResizeUpTo(f, a, s, e)[a].alloc = f[a].alloc
         /\ ResizeUpTo(f, a, s, e)[a].last <=> e = N
         /\ \A u \in Unit : u # a => ResizeUpTo(f, a, s, e)[u] = f[u]
<1>1. \A k : /\ Resize(f, a, s, k)[a].size = s
             /\ Resize(f, a, s, k)[a].last = k
             /\ Resize(f, a, s, k)[a].prev = f[a].prev
             /\ Resize(f, a, s, k)[a].alloc = f[a].alloc
             /\ k \in BOOLEAN => /\ Resize(f, a, s, k) \in Memory
                                 /\ Resize(f, a, s, k)[a] \in Block
             /\ \A u \in Unit : u # a => Resize(f, a, s, k)[u] = f[u]
  BY ResizedAt
<1>2. CASE e = N
  <2>1. (e = N) = TRUE
    BY <1>2
  <2>2. ResizeUpTo(f, a, s, e) = Resize(f, a, s, TRUE)
    BY <2>1 DEF ResizeUpTo
  <2>3. QED
    BY <1>1, <1>2, <2>2
<1>3. CASE e # N
  <2>1. (e = N) = FALSE
    BY <1>3
  <2>2. ResizeUpTo(f, a, s, e) = Resize(f, a, s, FALSE)
    BY <2>1 DEF ResizeUpTo
  <2>3. QED
    BY <1>1, <1>3, <2>2
<1>4. QED
  BY <1>2, <1>3

LEMMA Cleared ==
  ASSUME NEW f \in Memory, NEW a \in Unit, f[a] \in Block
  PROVE  /\ Clear(f, a) \in Memory /\ Clear(f, a)[a] \in Block /\ ~Clear(f, a)[a].alloc
         /\ Clear(f, a)[a].size = f[a].size /\ Clear(f, a)[a].prev = f[a].prev
         /\ Clear(f, a)[a].last = f[a].last
         /\ \A u \in Unit : u # a => Clear(f, a)[u] = f[u]
<1> DEFINE c == [f[a] EXCEPT !.alloc = FALSE]
<1>1. /\ c \in Block /\ ~c.alloc
      /\ c.size = f[a].size /\ c.prev = f[a].prev /\ c.last = f[a].last
  BY DEF Block
<1>2. Clear(f, a) = [f EXCEPT ![a] = c]
  BY DEF Clear
<1> HIDE DEF c
<1>3. /\ Clear(f, a)[a] = c /\ Clear(f, a) \in Memory
      /\ \A u \in Unit : u # a => Clear(f, a)[u] = f[u]
  BY <1>1, <1>2 DEF Memory
<1>4. QED
  BY <1>1, <1>3

LEMMA Told ==
  ASSUME NEW f \in Memory, NEW a \in Unit, f[a] \in Block, NEW s \in 0 .. N - 1
  PROVE  /\ Tell(f, a, s) \in Memory /\ Tell(f, a, s)[a] \in Block
         /\ Tell(f, a, s)[a].prev = s /\ Tell(f, a, s)[a].size = f[a].size
         /\ Tell(f, a, s)[a].alloc = f[a].alloc /\ Tell(f, a, s)[a].last = f[a].last
         /\ \A u \in Unit : u # a => Tell(f, a, s)[u] = f[u]
<1> DEFINE c == [f[a] EXCEPT !.prev = s]
<1>1. /\ c \in Block /\ c.prev = s
      /\ c.size = f[a].size /\ c.alloc = f[a].alloc /\ c.last = f[a].last
  BY DEF Block
<1>2. Tell(f, a, s) = [f EXCEPT ![a] = c]
  BY DEF Tell
<1> HIDE DEF c
<1>3. /\ Tell(f, a, s)[a] = c /\ Tell(f, a, s) \in Memory
      /\ \A u \in Unit : u # a => Tell(f, a, s)[u] = f[u]
  BY <1>1, <1>2 DEF Memory
<1>4. QED
  BY <1>1, <1>3

(* What free() reads when it merges the next block.                        *)
LEMMA MergedNext ==
  ASSUME NEW f, NEW a
  PROVE  MergeNext(f, a) =
           IF ~f[a].last /\ ~f[After(f, a)].alloc
           THEN Resize(f, a, f[a].size + 1 + f[After(f, a)].size, f[After(f, a)].last)
           ELSE f
  BY DEF MergeNext, Resize

(* A walk over the block at a meets headers only, when the other blocks    *)
(* are as they were or have been handed out.                               *)
LEMMA LinksLeadOn ==
  ASSUME NEW h, NEW C, Sound(h, C), NEW a \in C, NEW g \in Memory,
         \A c \in C : g[c] # Data, g[a] = h[a],
         \A c \in C : g[c] = h[c] \/ g[c].alloc
  PROVE  LinksLead(g, a)
<1> DEFINE z == After(g, a)
           f == Clear(g, a)
<1>1. C \subseteq Unit /\ a \in Unit /\ N \in Nat
  BY NIsNat DEF Sound, Tiles
<1>2. \A c \in C : IsHeader(g, c)
  BY <1>1 DEF IsHeader
<1>3. /\ z = After(h, a) /\ z \in C \cup {N} /\ z \in Nat /\ z > a /\ a \in Nat
      /\ g[a].last <=> z = N
  BY SoundBlock DEF After
<1>4. ASSUME ~g[a].last
      PROVE  /\ z \in C
             /\ ~MergeNext(f, a)[a].last => IsHeader(g, After(MergeNext(f, a), a))
  <2>1. z \in C /\ z # a /\ z \in Unit
    BY <1>1, <1>3, <1>4
  <2>2. g[a] \in Block
    BY SoundBlock
  <2>3. /\ f \in Memory /\ f[a] \in Block /\ f[z] = g[z]
        /\ f[a].size = g[a].size /\ f[a].last = g[a].last
    BY <1>1, <2>1, <2>2, Cleared
  <2> HIDE DEF f
  <2>4. After(f, a) = z
    BY <2>3 DEF After
  <2> HIDE DEF z
  <2>5. CASE g[z].alloc
    <3>1. MergeNext(f, a) = f
      BY <2>3, <2>4, <2>5, MergedNext
    <3>2. QED
      BY <1>2, <2>1, <2>4, <3>1
  <2>6. CASE ~g[z].alloc
    <3>1. g[z] = h[z]
      BY <2>1, <2>6
    <3>2. MergeNext(f, a) = Resize(f, a, g[a].size + 1 + g[z].size, g[z].last)
      BY <1>4, <2>3, <2>4, <2>6, MergedNext
    <3>3. MergeNext(f, a)[a].size = g[a].size + 1 + g[z].size
          /\ MergeNext(f, a)[a].last = g[z].last
      BY <1>1, <2>3, <3>2, ResizedAt
    <3>4. After(MergeNext(f, a), a) = After(h, z)
      <4>1. g[a].size \in Nat /\ h[z].size \in Nat /\ z = a + 1 + g[a].size
        BY <2>1, SoundBlock DEF After, z
      <4>2. QED
        BY <1>3, <3>1, <3>3, <4>1 DEF After
    <3>5. ~h[z].last => After(h, z) \in C
      BY <2>1, SoundBlock
    <3>6. QED
      BY <1>2, <2>1, <3>1, <3>3, <3>4, <3>5
  <2>7. QED
    BY <2>5, <2>6
<1>5. g[a].prev # 0 => IsHeader(g, a - 1 - g[a].prev)
  <2>1. h[a].prev # 0 => a # 0
    BY DEF Sound
  <2>2. h[a].prev # 0 => a - 1 - h[a].prev \in C
    BY <2>1, BlockBefore
  <2>3. QED
    BY <1>2, <2>2
<1>6. QED
  BY <1>2, <1>4, <1>5 DEF LinksLead, Clear
-----------------------------------------------------------------------------
(* Where the block at a ends once free() has merged the next one.          *)
MergeEnd(h, a) == IF ~h[a].last /\ ~h[After(h, a)].alloc
                  THEN After(h, After(h, a)) ELSE After(h, a)

LEMMA MergeNextEnds ==
  ASSUME NEW h, NEW C, Sound(h, C), NEW a \in C, NEW f \in Memory, f[a] \in Block,
         f[a].size = h[a].size, f[a].prev = h[a].prev, f[a].last = h[a].last,
         \A u \in Unit : u # a => f[u] = h[u]
  PROVE  /\ MergeNext(f, a) \in Memory /\ MergeNext(f, a)[a] \in Block
         /\ MergeNext(f, a)[a].size = MergeEnd(h, a) - a - 1
         /\ MergeNext(f, a)[a].last <=> MergeEnd(h, a) = N
         /\ MergeNext(f, a)[a].prev = h[a].prev
         /\ MergeNext(f, a)[a].alloc = f[a].alloc
         /\ \A u \in Unit : u # a => MergeNext(f, a)[u] = h[u]
         /\ MergeEnd(h, a) \in C \cup {N} /\ MergeEnd(h, a) \in Nat
         /\ MergeEnd(h, a) > a /\ MergeEnd(h, a) <= N
         /\ \A c \in C : a < c /\ c < MergeEnd(h, a) => ~h[c].alloc
<1> DEFINE z == After(h, a)
<1>1. /\ a \in Unit /\ a \in Nat /\ h[a].size \in Nat /\ z = a + 1 + h[a].size
      /\ z \in C \cup {N} /\ z \in Nat /\ z > a /\ z <= N /\ N \in Nat
      /\ \A b \in C : b > a => b >= z
      /\ h[a].last <=> z = N
  BY SoundBlock, NIsNat
<1>2. \A c \in C : c \in Nat /\ c < N
  BY SoundBlock
<1>3. After(f, a) = z
  BY DEF After
<1> HIDE DEF z
<1>4. CASE ~h[a].last /\ ~h[z].alloc
  <2>1. /\ z \in C /\ z \in Unit /\ h[z].size \in Nat /\ After(h, z) = z + 1 + h[z].size
        /\ After(h, z) \in C \cup {N} /\ After(h, z) \in Nat
        /\ After(h, z) > z /\ After(h, z) <= N
        /\ \A b \in C : b > z => b >= After(h, z)
        /\ h[z].last <=> After(h, z) = N
        /\ h[z].last \in BOOLEAN
    BY <1>1, <1>4, SoundBlock
  <2>2. f[z] = h[z] /\ MergeEnd(h, a) = After(h, z)
    BY <1>1, <1>4, <2>1 DEF MergeEnd, z
  <2>3. MergeNext(f, a) = Resize(f, a, h[a].size + 1 + h[z].size, h[z].last)
    BY <1>3, <1>4, <2>2, MergedNext
  <2>4. h[a].size + 1 + h[z].size = After(h, z) - a - 1
        /\ h[a].size + 1 + h[z].size \in 0 .. N - 1
    BY <1>1, <2>1
  <2>5. \A c \in C : a < c /\ c < After(h, z) => c = z
    BY <1>1, <1>2, <2>1
  <2>6. QED
    BY <1>1, <1>4, <2>1, <2>2, <2>3, <2>4, <2>5, ResizedAt
<1>5. CASE ~(~h[a].last /\ ~h[z].alloc)
  <2>1. ~h[a].last => z \in Unit /\ z # a
    BY <1>1, NIsNat
  <2>2. MergeNext(f, a) = f
    BY <1>3, <1>5, <2>1, MergedNext
  <2>3. MergeEnd(h, a) = z
    BY <1>5 DEF MergeEnd, z
  <2>4. \A c \in C : ~(a < c /\ c < z)
    BY <1>1, <1>2
  <2>5. QED
    BY <1>1, <2>2, <2>3, <2>4
<1>6. QED
  BY <1>4, <1>5

LEMMA ReleaseSound ==
  ASSUME NEW h, NEW C, Sound(h, C), NEW a \in C, ~MergesInside(h, a)
  PROVE  \E D : /\ D \subseteq C /\ Sound(Release(h, a), D)
                /\ Allocated(Release(h, a), D) = Allocated(h, C) \ {a}
                /\ \A c \in Allocated(Release(h, a), D) :
                     Release(h, a)[c].size = h[c].size
<1> DEFINE e == MergeEnd(h, a)
           f == Clear(h, a)
           f1 == MergeNext(f, a)
           f2 == MergePrev(f1, a)
           g == TellNext(f2, a)
<1>1. /\ a \in Unit /\ a \in Nat /\ a < N /\ N \in Nat /\ h \in Memory /\ h[a] \in Block
      /\ C \subseteq Unit /\ C \subseteq Nat
  BY SoundBlock, NIsNat DEF Sound, Tiles
<1>2. /\ f \in Memory /\ f[a] \in Block /\ ~f[a].alloc
      /\ f[a].size = h[a].size /\ f[a].prev = h[a].prev /\ f[a].last = h[a].last
      /\ \A u \in Unit : u # a => f[u] = h[u]
  BY <1>1, Cleared
<1>3. /\ e \in C \cup {N} /\ e \in Nat /\ e > a /\ e <= N
      /\ \A c \in C : a < c /\ c < e => ~h[c].alloc
      /\ MergeNext(h, a)[a].last <=> e = N
  BY <1>1, MergeNextEnds
<1> HIDE DEF f, e
<1>4. /\ f1 \in Memory /\ f1[a] \in Block /\ f1[a].size = e - a - 1
      /\ f1[a].last <=> e = N
      /\ f1[a].prev = h[a].prev /\ ~f1[a].alloc
      /\ \A u \in Unit : u # a => f1[u] = h[u]
  BY <1>2, MergeNextEnds DEF e
<1> HIDE DEF f1
<1>5. \A c \in C : h[c] \in Block /\ h[c] # Data
  BY SoundBlock
<1>6. CASE h[a].prev # 0 /\ ~h[a - 1 - h[a].prev].alloc
  <2>1. e = N
    BY <1>3, <1>6 DEF MergesInside
  <2>2. a # 0
    BY <1>6 DEF Sound
  <2>3. PICK p \in C : After(h, p) = a /\ p < a /\ h[a].prev = h[p].size /\ p = a - 1 - h[a].prev
    BY <2>2, BlockBefore
  <2>4. /\ p \in Unit /\ p \in Nat /\ p # a /\ f1[p] = h[p] /\ h[p] \in Block
        /\ h[p].size \in Nat /\ a = p + 1 + h[p].size /\ ~h[p].alloc
        /\ \A b \in C : b > p => b >= a
    BY <1>1, <1>4, <1>6, <2>3, SoundBlock
  <2> DEFINE s == f1[p].size + 1 + f1[a].size
             l == f1[p].last \/ f1[a].last
  <2>5. f2 = Resize(f1, p, s, l)
    <3>1. f1[a].prev # 0 /\ ~f1[p].alloc /\ p = a - 1 - f1[a].prev /\ p # a
      BY <1>4, <1>6, <2>3, <2>4
    <3>2. QED
      BY <3>1 DEF MergePrev, Resize
  <2>6. s = N - p - 1 /\ s \in 0 .. N - 1
    BY <1>1, <1>4, <2>1, <2>4
  <2>7. l /\ l \in BOOLEAN
    BY <1>4, <2>1
  <2> HIDE DEF s, l, f2
  <2>8. /\ f2 \in Memory /\ f2[p] \in Block /\ f2[p].size = N - p - 1 /\ f2[p].last
        /\ f2[p].prev = h[p].prev /\ f2[p].alloc = h[p].alloc
        /\ \A u \in Unit : u # p => f2[u] = f1[u]
    <3>1. f1 \in Memory /\ p \in Unit /\ f1[p] \in Block
      BY <1>4, <2>4
    <3>2. \A k : /\ Resize(f1, p, s, k)[p].size = s
                 /\ Resize(f1, p, s, k)[p].last = k
                 /\ Resize(f1, p, s, k)[p].prev = f1[p].prev
                 /\ Resize(f1, p, s, k)[p].alloc = f1[p].alloc
                 /\ s \in 0 .. N - 1 /\ k \in BOOLEAN =>
                      /\ Resize(f1, p, s, k) \in Memory
                      /\ Resize(f1, p, s, k)[p] \in Block
                 /\ \A u \in Unit : u # p => Resize(f1, p, s, k)[u] = f1[u]
      BY <3>1, ResizedAt
    <3>3. f2 = Resize(f1, p, s, TRUE)
      BY <2>5, <2>7
    <3>4. QED
      BY <2>4, <2>6, <3>2, <3>3
  <2>9. g = f2
    BY <1>1, <1>4, <2>1, <2>4, <2>8 DEF TellNext
  <2>10. f2[p] # Data
    BY <2>8, DataIsNoBlock
  <2>11. \A c \in C : c < p \/ c >= N => c < p /\ c # N /\ c # a /\ f2[c] = h[c]
    <3> SUFFICES ASSUME NEW c \in C, c < p \/ c >= N
                 PROVE  c < p /\ c # N /\ c # a /\ f2[c] = h[c]
      OBVIOUS
    <3>1. c \in Unit /\ c \in Nat /\ c < N
      BY <1>1, NIsNat
    <3>2. c < p /\ c # N /\ c # a /\ c # p
      BY <1>1, <2>4, <3>1
    <3>3. QED
      BY <1>4, <2>8, <3>1, <3>2
  <2> DEFINE D == {c \in C : c <= p \/ c >= N}
  <2>12. Sound(f2, D)
    <3>1. \A c \in C : c < p \/ c >= N =>
            /\ f2[c] # Data /\ f2[c].size = h[c].size /\ f2[c].last = h[c].last
            /\ c # N => f2[c].prev = h[c].prev
            /\ c = N => f2[c].prev = N - p - 1
      BY <1>5, <2>11
    <3>2. N > p /\ N \in C \cup {N} /\ (f2[p].last <=> N = N)
      BY <1>1, <2>4, <2>8
    <3>3. QED
      BY <2>8, <2>10, <3>1, <3>2, JoinSound DEF JoinedUp
  <2>13. \A c \in D : c # p => c \in C /\ c # a /\ f2[c] = h[c]
    <3> SUFFICES ASSUME NEW c \in D, c # p
                 PROVE  c \in C /\ c # a /\ f2[c] = h[c]
      OBVIOUS
    <3>1. c \in C /\ c \in Nat /\ (c <= p \/ c >= N)
      BY <1>1
    <3>2. c < p \/ c >= N
      BY <2>4, <3>1
    <3>3. QED
      BY <2>11, <3>1, <3>2
  <2>14. Allocated(f2, D) = Allocated(h, C) \ {a}
    <3>1. ASSUME NEW c \in C, h[c].alloc, c # a PROVE c \in D
      <4>1. ~(c > a)
        BY <1>1, <1>3, <2>1, <3>1, NIsNat
      <4>2. c < a /\ ~(c > p)
        BY <1>1, <2>4, <3>1, <4>1
      <4>3. QED
        BY <1>1, <2>4, <3>1, <4>2
    <3>2. \A c \in D : f2[c].alloc <=> h[c].alloc
      BY <2>8, <2>13
    <3>3. a \notin D /\ D \subseteq C
      BY <1>1, <2>4, NIsNat
    <3> HIDE DEF D
    <3>4. QED
      BY <3>1, <3>2, <3>3 DEF Allocated
  <2>15. \A c \in Allocated(f2, D) : f2[c].size = h[c].size
    BY <2>4, <2>8, <2>13 DEF Allocated
  <2>18. D \subseteq C
    OBVIOUS
  <2> HIDE DEF D
  <2>16. g = Release(h, a)
    BY DEF g, f2, f1, f, Release, Clear
  <2>17. QED
    BY <2>9, <2>12, <2>14, <2>15, <2>16, <2>18
<1>7. CASE ~(h[a].prev # 0 /\ ~h[a - 1 - h[a].prev].alloc)
  <2>1. f2 = f1
    <3>1. h[a].prev # 0 => f1[a - 1 - h[a].prev] = h[a - 1 - h[a].prev]
      <4> SUFFICES ASSUME h[a].prev # 0
                   PROVE  f1[a - 1 - h[a].prev] = h[a - 1 - h[a].prev]
        OBVIOUS
      <4>1. a # 0
        BY DEF Sound
      <4>2. PICK p \in C : p < a /\ p = a - 1 - h[a].prev
        BY <4>1, BlockBefore
      <4>3. QED
        BY <1>1, <1>4, <4>2
    <3>2. QED
      BY <1>4, <1>7, <3>1 DEF MergePrev
  <2>2. After(f1, a) = e
    BY <1>1, <1>3, <1>4 DEF After
  <2>3. e - a - 1 \in 0 .. N - 1
    BY <1>1, <1>3
  <2>4. /\ g \in Memory /\ g[a] \in Block /\ g[a].size = e - a - 1
        /\ g[a].last <=> e = N
        /\ g[a].prev = h[a].prev /\ ~g[a].alloc
        /\ \A u \in Unit : u # a /\ u # e => g[u] = h[u]
        /\ e # N => /\ g[e] \in Block /\ g[e].prev = e - a - 1
                    /\ g[e].size = h[e].size /\ g[e].alloc = h[e].alloc
                    /\ g[e].last = h[e].last
    <3>1. CASE e = N
      <4>1. g = f1
        BY <1>4, <2>1, <3>1 DEF TellNext
      <4>2. QED
        BY <1>4, <3>1, <4>1
    <3>2. CASE e # N
      <4>1. g = Tell(f1, e, e - a - 1)
        BY <1>4, <2>1, <2>2, <3>2 DEF TellNext, Tell
      <4>2. e \in C /\ e \in Unit /\ e # a /\ f1[e] = h[e] /\ h[e] \in Block
        BY <1>1, <1>3, <1>4, <1>5, <3>2
      <4>3. QED
        BY <1>1, <1>4, <2>3, <3>2, <4>1, <4>2, Told
    <3>3. QED
      BY <3>1, <3>2
  <2>5. g = Release(h, a)
    BY DEF g, f2, f1, f, Release, Clear
  <2> HIDE DEF g
  <2> DEFINE D == {c \in C : c <= a \/ c >= e}
  <2>6. \A c \in C : c # a => /\ g[c] # Data /\ g[c].size = h[c].size
                              /\ g[c].last = h[c].last /\ g[c].alloc = h[c].alloc
                              /\ c # e => g[c].prev = h[c].prev
                              /\ c = e => g[c].prev = e - a - 1
    <3> SUFFICES ASSUME NEW c \in C, c # a
                 PROVE  /\ g[c] # Data /\ g[c].size = h[c].size
                        /\ g[c].last = h[c].last /\ g[c].alloc = h[c].alloc
                        /\ c # e => g[c].prev = h[c].prev
                        /\ c = e => g[c].prev = e - a - 1
      OBVIOUS
    <3>1. CASE c = e
      BY <1>1, <2>4, <3>1, DataIsNoBlock, NIsNat
    <3>2. CASE c # e
      BY <1>1, <1>5, <2>4, <3>2
    <3>3. QED
      BY <3>1, <3>2
  <2>7. g[a] # Data
    BY <2>4, DataIsNoBlock
  <2>8. \A c \in C : c < a \/ c >= e => c # a
    BY <1>1, <1>3
  <2>9. Sound(g, D)
    <3>1. \A c \in C : c < a \/ c >= e =>
            /\ g[c] # Data /\ g[c].size = h[c].size /\ g[c].last = h[c].last
            /\ c # e => g[c].prev = h[c].prev
            /\ c = e => g[c].prev = e - a - 1
      BY <2>6, <2>8
    <3>2. JoinedUp(h, C, a, e, g)
      BY <2>4, <2>7, <3>1 DEF JoinedUp
    <3>3. QED
      BY <1>3, <2>4, <3>2, JoinSound
  <2>10. Allocated(g, D) = Allocated(h, C) \ {a}
    <3>1. ASSUME NEW c \in C, h[c].alloc PROVE c \in D
      BY <1>1, <1>3, <3>1
    <3>2. D \subseteq C
      OBVIOUS
    <3> HIDE DEF D
    <3>3. QED
      BY <2>4, <2>6, <3>1, <3>2 DEF Allocated
  <2>11. \A c \in Allocated(g, D) : g[c].size = h[c].size
    BY <2>4, <2>6 DEF Allocated
  <2>12. D \subseteq C
    OBVIOUS
  <2> HIDE DEF D
  <2>13. QED
    BY <2>5, <2>9, <2>10, <2>11, <2>12
<1>8. QED
  BY <1>6, <1>7
-----------------------------------------------------------------------------
LEMMA HeaderFields ==
  ASSUME NEW s, NEW p, NEW x, NEW y
  PROVE  /\ Header(s, p, x, y).size = s /\ Header(s, p, x, y).prev = p
         /\ Header(s, p, x, y).alloc = x /\ Header(s, p, x, y).last = y
         /\ s \in 0 .. N - 1 /\ p \in 0 .. N - 1 /\ x \in BOOLEAN /\ y \in BOOLEAN
              => Header(s, p, x, y) \in Block /\ Header(s, p, x, y) # Data
<1>1. s \in 0 .. N - 1 /\ p \in 0 .. N - 1 /\ x \in BOOLEAN /\ y \in BOOLEAN
        => Header(s, p, x, y) \in Block
  BY DEF Header, Block
<1>2. QED
  BY <1>1, DataIsNoBlock DEF Header

(* Two headers are written, one at a and one behind its first n units.     *)
Cut(h, a, m, b, c) == [h EXCEPT ![a] = b, ![m] = c]

(* What malloc() makes of the block at b, whatever flags it finds.         *)
TookBlock(h, C, b, n, flags, m, g) ==
  /\ g \in Memory
  /\ \A c \in C : g[c] # Data /\ (c # b => g[c] = h[c])
  /\ g[b].alloc /\ g[b].prev = h[b].prev
  /\ Crops(h, b, n) =>
       /\ g[b].size = n /\ g[b].last = FALSE
       /\ m \in Unit /\ g[m] # Data /\ g[m].size = h[b].size - n - 1
       /\ g[m].prev = n
       /\ g[m].alloc = flags.alloc /\ g[m].last = flags.last
  /\ ~Crops(h, b, n) => g[b].size = h[b].size /\ g[b].last = h[b].last

LEMMA Taken ==
  ASSUME NEW h, NEW C, Sound(h, C), NEW b \in C, ~h[b].alloc,
         NEW n \in Nat, n <= h[b].size, NEW flags \in RestFlags(h, b, n),
         NEW g, g = Write(Take(h, b, n, flags), b, n), NEW m, m = b + 1 + n
  PROVE  TookBlock(h, C, b, n, flags, m, g)
<1> DEFINE t == Take(h, b, n, flags)
<1>1. /\ b \in Unit /\ b \in Nat /\ b < N /\ N \in Nat /\ h \in Memory /\ h[b] \in Block
      /\ h[b].size \in 0 .. N - 1 /\ h[b].prev \in 0 .. N - 1
      /\ After(h, b) = b + 1 + h[b].size /\ After(h, b) <= N
      /\ \A c \in C : c > b => c >= After(h, b)
  BY SoundBlock, NIsNat DEF Sound
<1>2. \A c \in C : c \in Unit /\ c \in Nat /\ h[c] # Data
  BY SoundBlock
<1>3. ASSUME NEW c \in C
      PROVE  c \notin b + 1 .. b + n /\ (Crops(h, b, n) => c # m)
  <2>1. c \in Nat /\ (c > b => c >= b + 1 + h[b].size) /\ h[b].size \in Nat
    BY <1>1, <1>2
  <2>2. Crops(h, b, n) => h[b].size >= n + 2
    BY DEF Crops
  <2>3. CASE c > b
    BY <1>1, <2>1, <2>2, <2>3
  <2>4. CASE ~(c > b)
    BY <1>1, <2>1, <2>4
  <2>5. QED
    BY <2>3, <2>4
<1>4. CASE Crops(h, b, n)
  <2>1. /\ m \in Unit /\ m # b /\ m \notin b + 1 .. b + n
        /\ h[b].size - n - 1 \in 0 .. N - 1 /\ n \in 0 .. N - 1
    BY <1>1, <1>4, NIsNat DEF Crops
  <2>2. flags.alloc \in BOOLEAN /\ flags.last \in BOOLEAN
    <3>1. h[m] = Data \/ h[m] \in Block
      BY <1>1, <2>1 DEF Memory
    <3>2. CASE h[b].last
      <4>1. flags = [alloc |-> FALSE, last |-> TRUE]
        BY <3>2 DEF RestFlags
      <4>2. QED
        BY <4>1
    <3>3. CASE ~h[b].last
      <4>1. flags \in FlagsFound(h, m)
        BY <1>4, <3>3 DEF RestFlags
      <4>2. CASE h[m] = Data
        BY <4>1, <4>2 DEF FlagsFound, Flags
      <4>3. CASE h[m] # Data
        BY <3>1, <4>1, <4>3 DEF FlagsFound, FlagsOf, Block
      <4>4. QED
        BY <4>2, <4>3
    <3>4. QED
      BY <3>2, <3>3
  <2> DEFINE x == Header(n, h[b].prev, TRUE, FALSE)
             y == Header(h[b].size - n - 1, n, flags.alloc, flags.last)
  <2>3. t = Cut(h, b, m, x, y)
    BY <1>4, <2>1 DEF Take, Cut
  <2>4. /\ x \in Block /\ x # Data /\ x.size = n /\ x.prev = h[b].prev
        /\ x.alloc = TRUE /\ x.last = FALSE
    <3>1. x \in Block
      BY <1>1, <2>1 DEF Header, Block
    <3>2. QED
      BY <3>1, DataIsNoBlock DEF Header
  <2>5. /\ y \in Block /\ y # Data /\ y.size = h[b].size - n - 1 /\ y.prev = n
        /\ y.alloc = flags.alloc /\ y.last = flags.last
    BY <2>1, <2>2, HeaderFields
  <2> HIDE DEF x, y, t
  <2>6. /\ t \in Memory /\ t[b] = x /\ t[m] = y
        /\ \A u \in Unit : u # b /\ u # m => t[u] = h[u]
    BY <1>1, <2>1, <2>3, <2>4, <2>5 DEF Cut, Memory
  <2>7. g = Write(t, b, n)
    BY DEF t
  <2>8. g \in Memory /\ \A u \in Unit : u \notin b + 1 .. b + n => g[u] = t[u]
    BY <2>6, <2>7, WriteKeeps
  <2>9. g[b] = x /\ g[m] = y
    BY <1>1, <1>3, <2>1, <2>6, <2>8
  <2>10. \A c \in C : c # b => g[c] = h[c]
    BY <1>2, <1>3, <1>4, <2>6, <2>8
  <2>11. QED
    BY <1>2, <1>4, <2>1, <2>4, <2>5, <2>8, <2>9, <2>10 DEF TookBlock
<1>5. CASE ~Crops(h, b, n)
  <2> DEFINE x == [h[b] EXCEPT !.alloc = TRUE]
  <2>1. /\ x \in Block /\ x.size = h[b].size /\ x.prev = h[b].prev
        /\ x.alloc = TRUE /\ x.last = h[b].last
    BY <1>1 DEF Block
  <2>2. t = [h EXCEPT ![b] = x]
    BY <1>5 DEF Take
  <2> HIDE DEF x, t
  <2>3. t \in Memory /\ t[b] = x /\ \A u \in Unit : u # b => t[u] = h[u]
    BY <1>1, <2>1, <2>2 DEF Memory
  <2>4. g = Write(t, b, n)
    BY DEF t
  <2>5. g \in Memory /\ \A u \in Unit : u \notin b + 1 .. b + n => g[u] = t[u]
    BY <2>3, <2>4, WriteKeeps
  <2>6. g[b] = x /\ \A c \in C : c # b => g[c] = h[c]
    BY <1>1, <1>2, <1>3, <2>3, <2>5
  <2>7. x # Data
    BY <2>1, DataIsNoBlock
  <2>8. QED
    BY <1>2, <1>5, <2>1, <2>5, <2>6, <2>7 DEF TookBlock
<1>6. QED
  BY <1>4, <1>5

(* The last block is cut, or a whole block taken: the chain stays sound.   *)
LEMMA TakeSound ==
  ASSUME NEW h, NEW C, Sound(h, C), NEW b \in C, ~h[b].alloc,
         NEW n \in Nat, n <= h[b].size, NEW flags \in RestFlags(h, b, n),
         ~SplitsInside(h, b, n), NEW g, g = Write(Take(h, b, n, flags), b, n)
  PROVE  \E D : /\ D \subseteq C \cup {b + 1 + n} /\ Sound(g, D)
                /\ Allocated(g, D) = Allocated(h, C) \cup {b}
                /\ \A c \in Allocated(h, C) : g[c].size = h[c].size
                /\ g[b].size >= n /\ g[b].size <= n + 1
<1>0. PICK m : m = b + 1 + n
  OBVIOUS
<1>1. TookBlock(h, C, b, n, flags, m, g)
  BY <1>0, Taken
<1>2. h[b].size \in Nat /\ (h[b].last <=> After(h, b) = N) /\ h[b].last \in BOOLEAN
      /\ N \notin C
  BY SoundBlock, NIsNat DEF Sound, Tiles
<1>3. \A c \in Allocated(h, C) : c \in C /\ c # b /\ g[c].size = h[c].size
  BY <1>1 DEF Allocated, TookBlock
<1>4. CASE Crops(h, b, n)
  <2>1. h[b].last /\ h[b].size > n
    BY <1>2, <1>4 DEF SplitsInside, Crops
  <2>2. flags.alloc = FALSE /\ flags.last = TRUE
    BY <2>1 DEF RestFlags
  <2>3. After(h, b) \notin C
    BY <1>2, <2>1
  <2>4. CutOff(h, C, b, n, m, g)
    <3>1. g[m].last = h[b].last
      BY <1>1, <1>2, <1>4, <2>1, <2>2 DEF TookBlock
    <3>2. QED
      BY <1>1, <1>4, <2>3, <3>1 DEF TookBlock, CutOff
  <2>5. m \in Unit /\ m \notin C /\ Sound(g, C \cup {m})
    <3>1. g \in Memory
      BY <1>1 DEF TookBlock
    <3>2. QED
      BY <1>0, <2>1, <2>4, <3>1, SplitSound
  <2>6. Allocated(g, C \cup {m}) = Allocated(h, C) \cup {b}
    BY <1>1, <1>4, <2>2, <2>5 DEF Allocated, TookBlock
  <2>7. g[b].size >= n /\ g[b].size <= n + 1
    BY <1>1, <1>4 DEF TookBlock
  <2>8. QED
    BY <1>0, <1>3, <2>5, <2>6, <2>7
<1>5. CASE ~Crops(h, b, n)
  <2>1. Sound(g, C)
    BY <1>1, <1>5, KeepsSound DEF TookBlock
  <2>2. Allocated(g, C) = Allocated(h, C) \cup {b}
    BY <1>1 DEF Allocated, TookBlock
  <2>3. g[b].size >= n /\ g[b].size <= n + 1
    BY <1>1, <1>2, <1>5 DEF TookBlock, Crops
  <2>4. QED
    BY <1>3, <2>1, <2>2, <2>3
<1>6. QED
  BY <1>4, <1>5
-----------------------------------------------------------------------------
(* Memory after realloc() to at most the block's size,                     *)
Shrunk(h, a, n) ==
  LET rest == h[a].size - n - 1
      cut == [h EXCEPT ![a] = Header(n, @.prev, TRUE, FALSE),
                       ![a + 1 + n] = Header(rest, n, FALSE, h[a].last)]
  IN IF rest <= 0 THEN Write(h, a, n)
     ELSE IF h[a].last THEN cut
     ELSE [cut EXCEPT ![After(h, a)].prev = rest]
(* and to more, when there is room up to e.                                *)
Larger(h, a, n, e) ==
  IF e - a - 1 - n > 1
  THEN [h EXCEPT ![a].size = n,
                 ![a + 1 + n] = Header(e - a - 1 - n - 1, n, FALSE, e = N)]
  ELSE [h EXCEPT ![a].size = n, ![a].last = @ \/ e = N]
Grown(h, a, n, e) ==
  LET rest == e - a - 1 - n
      larger == Larger(h, a, n, e)
  IN Write(IF e = N THEN larger ELSE Tell(larger, e, IF rest > 1 THEN rest - 1 ELSE n),
           a, n)

(* A client writes to its block only.                                      *)
LEMMA WriteInside ==
  ASSUME NEW h, NEW C, Sound(h, C), NEW a \in C, NEW n \in Nat, n <= h[a].size,
         NEW g, g = Write(h, a, n)
  PROVE  Sound(g, C) /\ \A c \in C : g[c] = h[c]
<1>1. /\ a \in Nat /\ N \in Nat /\ h \in Memory
      /\ h[a].size \in Nat /\ After(h, a) = a + 1 + h[a].size
      /\ \A c \in C : c > a => c >= After(h, a)
  BY SoundBlock, NIsNat DEF Sound
<1>2. \A c \in C : c \in Unit /\ c \in Nat /\ h[c] # Data
  BY SoundBlock
<1>3. g \in Memory /\ \A u \in Unit : u \notin a + 1 .. a + n => g[u] = h[u]
  BY <1>1, WriteKeeps
<1>4. \A c \in C : g[c] = h[c]
  <2> SUFFICES ASSUME NEW c \in C PROVE g[c] = h[c]
    OBVIOUS
  <2>1. c \notin a + 1 .. a + n
    BY <1>1, <1>2
  <2>2. QED
    BY <1>2, <1>3, <2>1
<1>5. QED
  BY <1>2, <1>3, <1>4, KeepsSound

LEMMA ShrinkSound ==
  ASSUME NEW h, NEW C, Sound(h, C), NEW a \in C, h[a].alloc,
         NEW n \in Nat, n <= h[a].size, NEW g, g = Shrunk(h, a, n)
  PROVE  \E D : /\ Sound(g, D)
                /\ Allocated(g, D) = Allocated(h, C)
                /\ \A c \in Allocated(h, C) : c # a => g[c].size = h[c].size
                /\ g[a].size >= n
<1> DEFINE z == After(h, a)
           rest == h[a].size - n - 1
<1>1. /\ a \in Unit /\ a \in Nat /\ a < N /\ N \in Nat /\ h \in Memory /\ h[a] \in Block
      /\ h[a].size \in 0 .. N - 1 /\ h[a].prev \in 0 .. N - 1 /\ h[a].last \in BOOLEAN
      /\ h[a].size \in Nat
      /\ z = a + 1 + h[a].size /\ z \in Nat /\ z <= N /\ z \in C \cup {N}
      /\ h[a].last <=> z = N
      /\ \A c \in C : c > a => c >= z
  BY SoundBlock, NIsNat DEF Sound
<1>2. \A c \in C : c \in Unit /\ c \in Nat /\ c < N /\ h[c] \in Block /\ h[c] # Data
  BY SoundBlock
<1> HIDE DEF z
<1>3. CASE rest <= 0
  <2>1. g = Write(h, a, n)
    BY <1>3 DEF Shrunk
  <2>2. Sound(g, C) /\ \A c \in C : g[c] = h[c]
    BY <2>1, WriteInside
  <2>3. Allocated(g, C) = Allocated(h, C) /\ \A c \in Allocated(h, C) : g[c].size = h[c].size
    BY <2>2 DEF Allocated
  <2>4. QED
    BY <2>2, <2>3
<1>4. CASE rest > 0
  <2>0. PICK m : m = a + 1 + n
    OBVIOUS
  <2>1. /\ m \in Unit /\ m # a /\ m \in Nat /\ m < z /\ h[a].size > n
        /\ rest \in 0 .. N - 1 /\ n \in 0 .. N - 1 /\ rest = h[a].size - n - 1
    BY <1>1, <1>4, <2>0, NIsNat
  <2>2. m \notin C
    BY <1>1, <1>2, <2>0, <2>1
  <2> DEFINE x == Header(n, h[a].prev, TRUE, FALSE)
             y == Header(rest, n, FALSE, h[a].last)
             f == Cut(h, a, m, x, y)
  <2>3. /\ x \in Block /\ x.size = n /\ x.prev = h[a].prev
        /\ x.alloc = TRUE /\ x.last = FALSE
    BY <1>1, <2>1 DEF Header, Block
  <2>4. /\ y \in Block /\ y.size = rest /\ y.prev = n
        /\ y.alloc = FALSE /\ y.last = h[a].last
    <3> HIDE DEF rest
    <3>1. QED
      BY <1>1, <2>1 DEF Header, Block
  <2>5. g = IF h[a].last THEN f ELSE Tell(f, z, rest)
    BY <1>4, <2>0, <2>1 DEF Shrunk, Cut, Tell, z
  <2> HIDE DEF x, y, rest
  <2>6. /\ f \in Memory /\ f[a] = x /\ f[m] = y
        /\ \A u \in Unit : u # a /\ u # m => f[u] = h[u]
    BY <1>1, <2>1, <2>3, <2>4 DEF Cut, Memory
  <2> HIDE DEF f
  <2>7. /\ g \in Memory /\ g[a] = x /\ g[m] = y
        /\ \A u \in Unit : u # a /\ u # m /\ u # z => g[u] = h[u]
        /\ z \in C => /\ g[z] \in Block /\ g[z].prev = rest /\ g[z].size = h[z].size
                      /\ g[z].alloc = h[z].alloc /\ g[z].last = h[z].last
    <3>1. CASE h[a].last
      <4>1. g = f /\ z \notin C
        BY <1>1, <1>2, <2>5, <3>1
      <4>2. QED
        BY <2>6, <4>1
    <3>2. CASE ~h[a].last
      <4>1. g = Tell(f, z, rest) /\ z \in C
        BY <1>1, <2>5, <3>2
      <4>2. z \in Unit /\ z # a /\ z # m /\ h[z] \in Block
        BY <1>1, <1>2, <2>1, <2>2, <4>1
      <4>3. f[z] = h[z] /\ f[z] \in Block
        BY <2>6, <4>2
      <4>4. /\ g \in Memory /\ g[z] \in Block /\ g[z].prev = rest
            /\ g[z].size = f[z].size /\ g[z].alloc = f[z].alloc /\ g[z].last = f[z].last
            /\ \A u \in Unit : u # z => g[u] = f[u]
        <5>1. f \in Memory /\ z \in Unit /\ f[z] \in Block /\ rest \in 0 .. N - 1
          BY <2>1, <2>6, <4>2, <4>3
        <5>2. QED
          BY <4>1, <5>1, Told
      <4>5. QED
        BY <1>1, <2>1, <2>6, <4>2, <4>3, <4>4
    <3>3. QED
      BY <3>1, <3>2
  <2>8. x # Data /\ y # Data /\ (z \in C => g[z] # Data)
    BY <2>3, <2>4, <2>7, DataIsNoBlock
  <2>9. \A c \in C : c # a /\ c # z => g[c] = h[c]
    BY <1>2, <2>2, <2>7
  <2>10. CutOff(h, C, a, n, m, g)
    BY <1>2, <2>1, <2>3, <2>4, <2>7, <2>8, <2>9 DEF CutOff, z
  <2>11. m \in Unit /\ m \notin C /\ Sound(g, C \cup {m})
    BY <2>0, <2>1, <2>7, <2>10, SplitSound
  <2>12. \A c \in C : c # a => g[c].alloc = h[c].alloc /\ g[c].size = h[c].size
    BY <2>7, <2>9
  <2>13. Allocated(g, C \cup {m}) = Allocated(h, C)
    BY <2>3, <2>4, <2>7, <2>12 DEF Allocated
  <2>14. \A c \in Allocated(h, C) : c # a => g[c].size = h[c].size
    BY <2>12 DEF Allocated
  <2>15. g[a].size >= n
    BY <2>3, <2>7
  <2>16. QED
    BY <2>11, <2>13, <2>14, <2>15
<1>5. QED
  BY <1>1, <1>3, <1>4

(* What the growing block at a takes in: the free blocks up to e.          *)
LEMMA GrowSound ==
  ASSUME NEW h, NEW C, Sound(h, C), NEW a \in C, h[a].alloc,
         NEW n \in Nat, h[a].size < n, NEW e \in C \cup {N},
         e - a - 1 - n >= 0, e - a - 1 - n # 1,
         \A c \in C : a < c /\ c < e => ~h[c].alloc,
         NEW g, g = Grown(h, a, n, e)
  PROVE  \E D : /\ Sound(g, D)
                /\ Allocated(g, D) = Allocated(h, C)
                /\ \A c \in Allocated(h, C) : c # a => g[c].size = h[c].size
                /\ g[a].size >= n
<1> DEFINE rest == e - a - 1 - n
           D == {c \in C : c <= a \/ c >= e}
<1>1. /\ a \in Unit /\ a \in Nat /\ a < N /\ N \in Nat /\ h \in Memory /\ h[a] \in Block
      /\ h[a].size \in Nat /\ h[a].prev \in 0 .. N - 1 /\ h[a].last \in BOOLEAN
      /\ After(h, a) = a + 1 + h[a].size
      /\ h[a].last <=> After(h, a) = N
  BY SoundBlock, NIsNat DEF Sound
<1>2. \A c \in C : c \in Unit /\ c \in Nat /\ c < N /\ h[c] \in Block /\ h[c] # Data
  BY SoundBlock
<1>3. e \in Nat /\ e <= N /\ e > a /\ n <= N - 1 /\ n \in 0 .. N - 1
      /\ (e \in C => e \in Unit) /\ (e \in C <=> e # N) /\ e >= a + 1 + n
      /\ rest \in Nat /\ rest # 1 /\ e - a - 1 = n + rest /\ e - a - 1 \in 0 .. N - 1
  BY <1>1, <1>2
<1>4. ~h[a].last
  BY <1>1, <1>3
<1> HIDE DEF rest
<1>5. \A c \in C : c < a \/ c >= e => c # a
  BY <1>1, <1>3
<1>6. \A c \in C : c < a \/ c >= e => c \notin a + 1 .. a + n
  BY <1>1, <1>2, <1>3
<1>7. \A c \in C : h[c].alloc => c \in D
  <2> SUFFICES ASSUME NEW c \in C, h[c].alloc PROVE c <= a \/ c >= e
    OBVIOUS
  <2>1. c \in Nat /\ ~(a < c /\ c < e)
    BY <1>2
  <2>2. QED
    BY <1>1, <1>3, <2>1
<1>8. \A c \in D : c # a => c \in C /\ (c < a \/ c >= e)
  BY <1>1, <1>2
<1>9. CASE rest > 1
  <2>0. PICK m : m = a + 1 + n
    OBVIOUS
  <2>1. /\ m \in Unit /\ m # a /\ m \in Nat /\ m < e /\ m # e
        /\ m \notin a + 1 .. a + n
        /\ rest - 1 \in 0 .. N - 1 /\ e - a - 1 > n
    BY <1>1, <1>3, <1>9, <2>0, NIsNat
  <2> DEFINE x == [h[a] EXCEPT !.size = n]
             y == Header(rest - 1, n, FALSE, e = N)
             f == Cut(h, a, m, x, y)
             f1 == IF e = N THEN f ELSE Tell(f, e, rest - 1)
  <2>2. /\ x \in Block /\ x.size = n /\ x.prev = h[a].prev
        /\ x.alloc = h[a].alloc /\ x.last = h[a].last
    BY <1>1, <1>3 DEF Block
  <2>3. /\ y \in Block /\ y.size = rest - 1 /\ y.prev = n
        /\ ~y.alloc /\ (y.last <=> e = N)
    <3>1. CASE e = N
      <4>1. (e = N) = TRUE
        BY <3>1
      <4>2. y = Header(rest - 1, n, FALSE, TRUE)
        BY <4>1
      <4>3. QED
        BY <1>3, <2>1, <3>1, <4>2 DEF Header, Block
    <3>2. CASE e # N
      <4>1. (e = N) = FALSE
        BY <3>2
      <4>2. y = Header(rest - 1, n, FALSE, FALSE)
        BY <4>1
      <4>3. QED
        BY <1>3, <2>1, <3>2, <4>2 DEF Header, Block
    <3>3. QED
      BY <3>1, <3>2
  <2>4. g = Write(f1, a, n)
    <3>1. Larger(h, a, n, e) = f
      BY <1>9, <2>0 DEF Larger, Cut, rest
    <3> HIDE DEF f
    <3>2. QED
      BY <1>9, <3>1 DEF Grown, rest
  <2> HIDE DEF x, y
  <2>5. /\ f \in Memory /\ f[a] = x /\ f[m] = y
        /\ \A u \in Unit : u # a /\ u # m => f[u] = h[u]
    BY <1>1, <2>1, <2>2, <2>3 DEF Cut, Memory
  <2> HIDE DEF f
  <2>6. /\ f1 \in Memory /\ f1[a] = x /\ f1[m] = y
        /\ \A u \in Unit : u # a /\ u # m /\ u # e => f1[u] = h[u]
        /\ e # N => /\ f1[e] \in Block /\ f1[e].prev = rest - 1 /\ f1[e].size = h[e].size
                    /\ f1[e].alloc = h[e].alloc /\ f1[e].last = h[e].last
    <3>1. CASE e = N
      BY <2>5, <3>1
    <3>2. CASE e # N
      <4>1. f1 = Tell(f, e, rest - 1)
        BY <3>2
      <4> HIDE DEF f1
      <4>2. e \in Unit /\ e # a /\ f[e] = h[e] /\ f[e] \in Block
        BY <1>2, <1>3, <1>1, <2>1, <2>5, <3>2
      <4>3. /\ f1 \in Memory /\ f1[e] \in Block /\ f1[e].prev = rest - 1
            /\ f1[e].size = f[e].size /\ f1[e].alloc = f[e].alloc /\ f1[e].last = f[e].last
            /\ \A u \in Unit : u # e => f1[u] = f[u]
        BY <2>1, <2>5, <4>1, <4>2, Told
      <4>4. QED
        BY <1>1, <2>1, <2>5, <4>2, <4>3
    <3>3. QED
      BY <3>1, <3>2
  <2> HIDE DEF f1
  <2>7. g \in Memory /\ \A u \in Unit : u \notin a + 1 .. a + n => g[u] = f1[u]
    BY <2>4, <2>6, WriteKeeps
  <2>8. g[a] = x /\ g[m] = y
    BY <1>1, <2>1, <2>6, <2>7
  <2>9. \A c \in C : c < a \/ c >= e =>
          /\ g[c] # Data /\ g[c].size = h[c].size /\ g[c].last = h[c].last
          /\ g[c].alloc = h[c].alloc
          /\ c # e => g[c].prev = h[c].prev
          /\ c = e => g[c].prev = rest - 1
    <3> SUFFICES ASSUME NEW c \in C, c < a \/ c >= e
                 PROVE  /\ g[c] # Data /\ g[c].size = h[c].size /\ g[c].last = h[c].last
                        /\ g[c].alloc = h[c].alloc
                        /\ c # e => g[c].prev = h[c].prev
                        /\ c = e => g[c].prev = rest - 1
      OBVIOUS
    <3>1. c \in Unit /\ c \in Nat /\ c # a /\ g[c] = f1[c]
      BY <1>2, <1>5, <1>6, <2>7
    <3>4. c # m
      BY <1>1, <1>3, <2>0, <2>1, <3>1
    <3>2. CASE c = e
      BY <1>2, <1>3, <2>6, <3>1, <3>2, <3>4, DataIsNoBlock
    <3>3. CASE c # e
      BY <1>2, <2>6, <3>1, <3>3, <3>4
    <3>5. QED
      BY <3>2, <3>3
  (* As if a had taken in everything up to e, and been cut then.           *)
  <2> DEFINE s == e - a - 1
             w == ResizeUpTo(h, a, s, e)
             w1 == IF e = N THEN w ELSE Tell(w, e, s)
  <2>22. s = e - a - 1 /\ s \in 0 .. N - 1
    BY <1>3
  <2> HIDE DEF s
  <2>10. /\ w \in Memory /\ w[a] \in Block /\ w[a].size = s /\ w[a].prev = h[a].prev
         /\ w[a].last <=> e = N
         /\ \A u \in Unit : u # a => w[u] = h[u]
    BY <1>1, <2>22, ResizedUpTo
  <2> HIDE DEF w
  <2>11. /\ w1 \in Memory /\ w1[a] = w[a]
         /\ \A u \in Unit : u # a /\ u # e => w1[u] = h[u]
         /\ e # N => /\ w1[e] \in Block /\ w1[e].prev = s /\ w1[e].size = h[e].size
                     /\ w1[e].last = h[e].last
    <3>1. CASE e = N
      BY <2>10, <3>1
    <3>2. CASE e # N
      <4>1. w1 = Tell(w, e, s)
        BY <3>2
      <4> HIDE DEF w1
      <4>2. e \in Unit /\ e # a /\ w[e] = h[e] /\ w[e] \in Block
        BY <1>2, <1>3, <1>1, <2>10, <3>2
      <4>3. /\ w1 \in Memory /\ w1[e] \in Block /\ w1[e].prev = s
            /\ w1[e].size = w[e].size /\ w1[e].last = w[e].last
            /\ \A u \in Unit : u # e => w1[u] = w[u]
        BY <2>10, <2>22, <4>1, <4>2, Told
      <4>4. QED
        BY <1>1, <2>10, <4>2, <4>3
    <3>3. QED
      BY <3>1, <3>2
  <2> HIDE DEF w1
  <2>12. Sound(w1, D)
    <3>1. \A c \in C : c < a \/ c >= e =>
            /\ w1[c] # Data /\ w1[c].size = h[c].size /\ w1[c].last = h[c].last
            /\ c # e => w1[c].prev = h[c].prev
            /\ c = e => w1[c].prev = e - a - 1
      <4> SUFFICES ASSUME NEW c \in C, c < a \/ c >= e
                   PROVE  /\ w1[c] # Data /\ w1[c].size = h[c].size
                          /\ w1[c].last = h[c].last
                          /\ c # e => w1[c].prev = h[c].prev
                          /\ c = e => w1[c].prev = e - a - 1
        OBVIOUS
      <4>1. c \in Unit /\ c # a /\ h[c] # Data /\ c # N
        BY <1>2, <1>5, NIsNat
      <4>2. CASE c = e
        BY <2>11, <2>22, <4>1, <4>2, DataIsNoBlock
      <4>3. CASE c # e
        BY <2>11, <4>1, <4>3
      <4>4. QED
        BY <4>2, <4>3
    <3>2. w1[a] # Data /\ w1[a].size = e - a - 1 /\ w1[a].prev = h[a].prev
          /\ (w1[a].last <=> e = N)
      BY <2>10, <2>11, <2>22, DataIsNoBlock
    <3>3. JoinedUp(h, C, a, e, w1)
      BY <3>1, <3>2 DEF JoinedUp
    <3>4. QED
      BY <1>3, <2>11, <3>3, JoinSound
  <2>13. a \in D /\ w1[a].size = e - a - 1 /\ After(w1, a) = e
    BY <1>1, <1>3, <2>10, <2>11, <2>22 DEF After
  <2>14. CutOff(w1, D, a, n, m, g)
    <3>1. g[a] # Data /\ g[m] # Data
      BY <2>2, <2>3, <2>8, DataIsNoBlock
    <3>2. /\ g[a].size = n /\ g[a].prev = w1[a].prev /\ g[a].last = FALSE
      BY <1>4, <2>2, <2>8, <2>10, <2>11
    <3>3. /\ g[m].size = w1[a].size - n - 1 /\ g[m].prev = n
      BY <1>3, <2>3, <2>8, <2>13
    <3>4. g[m].last = w1[a].last
      <4>1. g[m].last \in BOOLEAN /\ w1[a].last \in BOOLEAN
        BY <2>3, <2>8, <2>10, <2>11 DEF Block
      <4>2. g[m].last <=> w1[a].last
        BY <2>3, <2>8, <2>10, <2>11
      <4>3. QED
        BY <4>1, <4>2
    <3>5. ASSUME NEW c \in D \ {a}
          PROVE  /\ g[c] # Data /\ g[c].size = w1[c].size /\ g[c].last = w1[c].last
                 /\ c # e => g[c].prev = w1[c].prev
                 /\ c = e => g[c].prev = w1[a].size - n - 1
      <4>1. c \in C /\ (c < a \/ c >= e) /\ c # a /\ c \in Unit
        BY <1>2, <1>8
      <4>2. CASE c = e
        <5>1. w1[a].size - n - 1 = rest - 1 /\ e # N
          BY <1>2, <1>3, <2>13, <4>1, <4>2
        <5>2. QED
          BY <2>9, <2>11, <4>1, <4>2, <5>1
      <4>3. CASE c # e
        BY <2>9, <2>11, <4>1, <4>3
      <4>4. QED
        BY <4>2, <4>3
    <3> HIDE DEF D
    <3>6. QED
      BY <2>13, <3>1, <3>2, <3>3, <3>4, <3>5 DEF CutOff
  <2>15. m \notin D /\ Sound(g, D \cup {m})
    <3>1. w1[a].size > n
      BY <2>1, <2>13
    <3> HIDE DEF D
    <3>2. QED
      BY <2>0, <2>7, <2>12, <2>13, <2>14, <3>1, SplitSound
  <2>16. \A c \in D : g[c].alloc <=> h[c].alloc
    BY <1>8, <2>2, <2>8, <2>9
  <2>17. \A c \in D : c \in C /\ (c # a => g[c].size = h[c].size)
    BY <1>8, <2>9
  <2> HIDE DEF D
  <2>18. Allocated(g, D \cup {m}) = Allocated(h, C)
    BY <1>7, <2>3, <2>8, <2>16, <2>17 DEF Allocated
  <2>19. \A c \in Allocated(h, C) : c # a => g[c].size = h[c].size
    BY <1>7, <2>17 DEF Allocated
  <2>20. g[a].size >= n
    BY <2>2, <2>8
  <2>21. QED
    BY <2>15, <2>18, <2>19, <2>20
<1>10. CASE rest = 0
  <2> DEFINE l == h[a].last \/ e = N
             f == Resize(h, a, n, l)
             f1 == IF e = N THEN f ELSE Tell(f, e, n)
  <2>1. g = Write(f1, a, n)
    <3>1. ~(rest > 1) /\ ~(e - a - 1 - n > 1)
      BY <1>10 DEF rest
    <3>2. Larger(h, a, n, e) = f
      BY <3>1 DEF Larger, Resize
    <3> HIDE DEF f
    <3>3. QED
      BY <3>1, <3>2 DEF Grown
  <2>2. /\ f \in Memory /\ f[a] \in Block /\ f[a].size = n /\ f[a].prev = h[a].prev
        /\ f[a].alloc = h[a].alloc
        /\ f[a].last <=> e = N
        /\ \A u \in Unit : u # a => f[u] = h[u]
    <3>1. l = (e = N)
      BY <1>4
    <3>2. f = ResizeUpTo(h, a, n, e)
      BY <3>1 DEF ResizeUpTo
    <3> HIDE DEF f
    <3>3. h \in Memory /\ a \in Unit /\ h[a] \in Block /\ n \in 0 .. N - 1
      BY <1>1, <1>3
    <3>4. /\ f \in Memory /\ f[a] \in Block /\ f[a].size = n /\ f[a].prev = h[a].prev
          /\ f[a].last <=> e = N
          /\ \A u \in Unit : u # a => f[u] = h[u]
      BY <3>2, <3>3, ResizedUpTo
    <3>5. f[a].alloc = h[a].alloc
      BY <3>2, <3>3, ResizedUpTo, Zenon
    <3>6. QED
      BY <3>4, <3>5
  <2> HIDE DEF f, l
  <2>3. /\ f1 \in Memory /\ f1[a] = f[a]
        /\ \A u \in Unit : u # a /\ u # e => f1[u] = h[u]
        /\ e # N => /\ f1[e] \in Block /\ f1[e].prev = n /\ f1[e].size = h[e].size
                    /\ f1[e].alloc = h[e].alloc /\ f1[e].last = h[e].last
    <3>1. CASE e = N
      BY <2>2, <3>1
    <3>2. CASE e # N
      <4>1. f1 = Tell(f, e, n)
        BY <3>2
      <4> HIDE DEF f1
      <4>2. e \in Unit /\ e # a /\ f[e] = h[e] /\ f[e] \in Block
        BY <1>2, <1>3, <1>1, <2>2, <3>2
      <4>3. /\ f1 \in Memory /\ f1[e] \in Block /\ f1[e].prev = n
            /\ f1[e].size = f[e].size /\ f1[e].alloc = f[e].alloc /\ f1[e].last = f[e].last
            /\ \A u \in Unit : u # e => f1[u] = f[u]
        BY <1>3, <2>2, <4>1, <4>2, Told
      <4>4. QED
        BY <1>1, <2>2, <4>2, <4>3
    <3>3. QED
      BY <3>1, <3>2
  <2> HIDE DEF f1
  <2>4. g \in Memory /\ \A u \in Unit : u \notin a + 1 .. a + n => g[u] = f1[u]
    BY <2>1, <2>3, WriteKeeps
  <2>5. g[a] = f[a] /\ g[a] # Data
    BY <1>1, <2>2, <2>3, <2>4, DataIsNoBlock
  <2>6. e - a - 1 = n
    BY <1>3, <1>10
  <2>7. \A c \in C : c < a \/ c >= e =>
          /\ g[c] # Data /\ g[c].size = h[c].size /\ g[c].last = h[c].last
          /\ g[c].alloc = h[c].alloc
          /\ c # e => g[c].prev = h[c].prev
          /\ c = e => g[c].prev = e - a - 1
    <3> SUFFICES ASSUME NEW c \in C, c < a \/ c >= e
                 PROVE  /\ g[c] # Data /\ g[c].size = h[c].size /\ g[c].last = h[c].last
                        /\ g[c].alloc = h[c].alloc
                        /\ c # e => g[c].prev = h[c].prev
                        /\ c = e => g[c].prev = e - a - 1
      OBVIOUS
    <3>1. c \in Unit /\ c # a /\ g[c] = f1[c]
      BY <1>2, <1>5, <1>6, <2>4
    <3>2. CASE c = e
      BY <1>2, <1>3, <2>3, <2>6, <3>1, <3>2, DataIsNoBlock
    <3>3. CASE c # e
      BY <1>2, <2>3, <3>1, <3>3
    <3>4. QED
      BY <3>2, <3>3
  <2>8. Sound(g, D)
    <3>1. \A c \in C : c < a \/ c >= e =>
            /\ g[c] # Data /\ g[c].size = h[c].size /\ g[c].last = h[c].last
            /\ c # e => g[c].prev = h[c].prev
            /\ c = e => g[c].prev = e - a - 1
      BY <2>7
    <3>2. g[a].size = e - a - 1 /\ g[a].prev = h[a].prev /\ (g[a].last <=> e = N)
      BY <2>2, <2>5, <2>6
    <3>3. JoinedUp(h, C, a, e, g)
      BY <2>5, <3>1, <3>2 DEF JoinedUp
    <3>4. QED
      BY <1>3, <2>4, <3>3, JoinSound
  <2>9. \A c \in D : g[c].alloc <=> h[c].alloc
    BY <1>8, <2>2, <2>5, <2>7
  <2>10. \A c \in D : c \in C /\ (c # a => g[c].size = h[c].size)
    BY <1>8, <2>7
  <2> HIDE DEF D
  <2>11. Allocated(g, D) = Allocated(h, C)
    BY <1>7, <2>9, <2>10 DEF Allocated
  <2>12. \A c \in Allocated(h, C) : c # a => g[c].size = h[c].size
    BY <1>7, <2>10 DEF Allocated
  <2>13. g[a].size >= n
    BY <2>2, <2>5
  <2>14. QED
    BY <2>8, <2>11, <2>12, <2>13
<1>11. QED
  BY <1>3, <1>9, <1>10
-----------------------------------------------------------------------------
(* The blocks the clients hold are the allocated ones, and large enough.   *)
Holds(h, C, hd) ==
  /\ hd \in [Unit -> Nat \cup {NotHeld}]
  /\ {a \in Unit : hd[a] # NotHeld} = Allocated(h, C)
  /\ \A a \in Allocated(h, C) : hd[a] <= h[a].size

MInv ==
  /\ profile \in Profile /\ fault \in BOOLEAN
  /\ profile.careful => /\ ~fault
                        /\ Sound(hdr, Chain(hdr))
                        /\ Holds(hdr, Chain(hdr), held)

LEMMA SoundIsChain ==
  ASSUME NEW h, NEW C, Sound(h, C) PROVE Chain(h) = C
  BY TilesAreChain DEF Sound

LEMMA Refound ==
  ASSUME profile \in Profile, profile' = profile, fault' = FALSE, NEW D,
         Sound(hdr', D), Holds(hdr', D, held')
  PROVE  MInv'
<1>1. Chain(hdr') = D
  BY SoundIsChain
<1>2. QED
  BY <1>1 DEF MInv, Chain, Sound, Tiles, Holds, Allocated, After, IsHeader

LEMMA FirstFits ==
  ASSUME NEW h, NEW C, Sound(h, C), NEW n, Fits(h, n) # {}
  PROVE  /\ FirstFit(h, n) \in C /\ ~h[FirstFit(h, n)].alloc
         /\ h[FirstFit(h, n)].size >= n
<1>1. Chain(h) = C
  BY SoundIsChain
<1>2. Fits(h, n) \subseteq Nat
  BY <1>1, SoundBlock DEF Fits
<1>3. \E a \in Fits(h, n) : \A b \in Fits(h, n) : a <= b
  BY <1>2, LeastNatural
<1>4. FirstFit(h, n) \in Fits(h, n)
  BY <1>3 DEF FirstFit
<1>5. QED
  BY <1>1, <1>4 DEF Fits

LEMMA RoomEnds ==
  ASSUME Sound(hdr, Chain(hdr)), NEW a \in Chain(hdr), NEW n
  PROVE  /\ RoomEnd(a, n) \in Chain(hdr) \cup {N}
         /\ \A c \in Chain(hdr) : a < c /\ c < RoomEnd(a, n) => ~hdr[c].alloc
<1> DEFINE Stop == {e \in Chain(hdr) \cup {N} :
                      /\ e > a
                      /\ e = N \/ e - a - 1 >= n \/ hdr[e].alloc}
<1>1. N \in Nat /\ a < N /\ \A c \in Chain(hdr) : c \in Nat /\ c < N
  BY SoundBlock, NIsNat
<1>2. Stop \subseteq Nat /\ N \in Stop
  BY <1>1
<1>3. \A c \in Chain(hdr) : a < c /\ hdr[c].alloc => c \in Stop
  BY <1>1
<1>4. RoomEnd(a, n) = CHOOSE e \in Stop : \A f \in Stop : e <= f
  BY DEF RoomEnd
<1>5. Stop \subseteq Chain(hdr) \cup {N}
  OBVIOUS
<1> HIDE DEF Stop
<1>6. \E e \in Stop : \A f \in Stop : e <= f
  BY <1>2, LeastNatural
<1>7. RoomEnd(a, n) \in Stop /\ \A f \in Stop : RoomEnd(a, n) <= f
  BY <1>4, <1>6
<1>8. \A c \in Chain(hdr) : a < c /\ c < RoomEnd(a, n) => ~hdr[c].alloc
  <2> SUFFICES ASSUME NEW c \in Chain(hdr), a < c, c < RoomEnd(a, n), hdr[c].alloc
               PROVE  FALSE
    OBVIOUS
  <2>1. RoomEnd(a, n) <= c /\ c \in Nat /\ RoomEnd(a, n) \in Nat
    BY <1>1, <1>2, <1>3, <1>7
  <2>2. QED
    BY <2>1
<1>9. QED
  BY <1>5, <1>7, <1>8

LEMMA SizesAreNat ==
  ASSUME profile \in Profile PROVE profile.sizes \subseteq Nat
  BY MemmanAssumption

LEMMA InitChain ==
  ASSUME Init
  PROVE  Sound(hdr, {0}) /\ Chain(hdr) = {0} /\ ~hdr[0].alloc
<1>1. N \in Nat /\ N > 1 /\ 0 \in Unit /\ NotHeld \notin Int
  BY NIsNat, MemmanAssumption
<1> DEFINE x == Header(N - 1, 0, FALSE, TRUE)
           y == Header(0, 0, FALSE, FALSE)
<1>2. x \in Block /\ y \in Block
  BY <1>1 DEF Header, Block
<1>3. x.size = N - 1 /\ x.prev = 0 /\ x.last = TRUE /\ x.alloc = FALSE
  BY DEF Header
<1>4. hdr = [u \in Unit |-> IF u = 0 THEN x ELSE y]
  BY DEF Init
<1> HIDE DEF x, y
<1>5. hdr \in Memory /\ hdr[0] = x
  BY <1>1, <1>2, <1>4 DEF Memory
<1>6. After(hdr, 0) = N /\ hdr[0] # Data
  BY <1>1, <1>2, <1>3, <1>5, DataIsNoBlock DEF After
<1>7. Tiles(hdr, {0})
  BY <1>1, <1>3, <1>5, <1>6 DEF Tiles
<1>8. Sound(hdr, {0})
  BY <1>1, <1>3, <1>5, <1>6, <1>7 DEF Sound
<1>9. Chain(hdr) = {0}
  BY <1>8, SoundIsChain
<1>10. QED
  BY <1>3, <1>5, <1>8, <1>9

LEMMA InitSound ==
  ASSUME Init PROVE MInv
<1>1. Sound(hdr, {0}) /\ Chain(hdr) = {0} /\ Allocated(hdr, {0}) = {}
  BY InitChain DEF Allocated
<1>2. Holds(hdr, {0}, held)
  BY <1>1 DEF Holds, Init
<1>3. QED
  BY <1>1, <1>2 DEF MInv, Init

LEMMA MallocKeeps ==
  ASSUME MInv, profile.careful, NEW n \in profile.sizes, Malloc(n)
  PROVE  MInv'
<1> DEFINE C == Chain(hdr)
           b == FirstFit(hdr, n)
<1>1. /\ profile \in Profile /\ fault = FALSE /\ Sound(hdr, C) /\ Holds(hdr, C, held)
      /\ n \in Nat /\ profile' = profile /\ fault' = FALSE
  BY SizesAreNat DEF MInv, Malloc
<1> HIDE DEF C
<1>2. b \in C /\ ~hdr[b].alloc /\ hdr[b].size >= n
  BY <1>1, FirstFits DEF Malloc
<1>3. PICK flags \in RestFlags(hdr, b, n) :
        hdr' = Write(Take(hdr, b, n, flags), b, n)
  BY DEF Malloc
<1>4. ~SplitsInside(hdr, b, n) /\ held' = [held EXCEPT ![b] = n]
  BY DEF Malloc
<1> HIDE DEF b
<1>5. n <= hdr[b].size /\ b \in Unit
  BY <1>1, <1>2, SoundBlock
<1>6. PICK D : /\ Sound(hdr', D)
               /\ Allocated(hdr', D) = Allocated(hdr, C) \cup {b}
               /\ \A c \in Allocated(hdr, C) : hdr'[c].size = hdr[c].size
               /\ hdr'[b].size >= n
  BY <1>1, <1>2, <1>3, <1>4, <1>5, TakeSound
<1>7. b \notin Allocated(hdr, C) /\ n # NotHeld
  BY <1>1, <1>2, MemmanAssumption DEF Allocated
<1>8. held' \in [Unit -> Nat \cup {NotHeld}]
      /\ held'[b] = n /\ \A u \in Unit : u # b => held'[u] = held[u]
  BY <1>1, <1>4, <1>5 DEF Holds
<1>9. {u \in Unit : held'[u] # NotHeld} = Allocated(hdr', D)
  BY <1>1, <1>5, <1>6, <1>7, <1>8 DEF Holds
<1>10. \A u \in Allocated(hdr', D) : held'[u] <= hdr'[u].size
  <2> SUFFICES ASSUME NEW u \in Allocated(hdr', D) PROVE held'[u] <= hdr'[u].size
    OBVIOUS
  <2>1. CASE u = b
    <3>1. hdr'[b].size \in Nat
      BY <1>6, <2>1, SoundBlock DEF Allocated
    <3>2. QED
      BY <1>1, <1>6, <1>8, <2>1, <3>1
  <2>2. CASE u # b
    <3>1. u \in Allocated(hdr, C) /\ u \in Unit
      BY <1>1, <1>6, <2>2 DEF Holds
    <3>2. QED
      BY <1>1, <1>6, <1>8, <2>2, <3>1 DEF Holds
  <2>3. QED
    BY <2>1, <2>2
<1>11. Holds(hdr', D, held')
  BY <1>8, <1>9, <1>10 DEF Holds
<1>12. QED
  BY <1>1, <1>6, <1>11, Refound

LEMMA FreeKeeps ==
  ASSUME MInv, profile.careful, NEW a \in Unit, Free(a)
  PROVE  MInv'
<1> DEFINE C == Chain(hdr)
<1>1. profile \in Profile /\ fault = FALSE /\ Sound(hdr, C) /\ Holds(hdr, C, held)
  BY DEF MInv
<1> HIDE DEF C
<1>2. a \in Allocated(hdr, C) /\ a \in C /\ held \in [Unit -> Nat \cup {NotHeld}]
  BY <1>1 DEF Free, Holds, Allocated
<1>3. LinksLead(hdr, a)
  BY <1>1, <1>2, LinksLeadOn, SoundBlock DEF Sound
<1>4. /\ ~MergesInside(hdr, a) /\ hdr' = Release(hdr, a)
      /\ held' = [held EXCEPT ![a] = NotHeld]
      /\ profile' = profile /\ fault' = FALSE
  BY <1>1, <1>3 DEF Free
<1>5. PICK D : /\ Sound(hdr', D)
               /\ Allocated(hdr', D) = Allocated(hdr, C) \ {a}
               /\ \A c \in Allocated(hdr', D) : hdr'[c].size = hdr[c].size
  BY <1>1, <1>2, <1>4, ReleaseSound
<1>6. Holds(hdr', D, held')
  BY <1>1, <1>2, <1>4, <1>5 DEF Holds
<1>7. QED
  BY <1>1, <1>4, <1>5, <1>6, Refound

(* A client's block changes its size in place.                             *)
LEMMA ResizeKeeps ==
  ASSUME MInv, profile.careful, NEW a \in Allocated(hdr, Chain(hdr)), NEW n \in Nat,
         held' = [held EXCEPT ![a] = n], UNCHANGED <<profile, fault>>,
         \E D : /\ Sound(hdr', D)
                /\ Allocated(hdr', D) = Allocated(hdr, Chain(hdr))
                /\ \A c \in Allocated(hdr, Chain(hdr)) :
                     c # a => hdr'[c].size = hdr[c].size
                /\ hdr'[a].size >= n
  PROVE  MInv'
<1> DEFINE C == Chain(hdr)
<1>1. /\ profile \in Profile /\ fault = FALSE /\ Sound(hdr, C) /\ Holds(hdr, C, held)
      /\ profile' = profile /\ fault' = FALSE /\ a \in Allocated(hdr, C)
  BY DEF MInv
<1>2. PICK D : /\ Sound(hdr', D)
               /\ Allocated(hdr', D) = Allocated(hdr, C)
               /\ \A c \in Allocated(hdr, C) : c # a => hdr'[c].size = hdr[c].size
               /\ hdr'[a].size >= n
  OBVIOUS
<1> HIDE DEF C
<1>3. a \in Unit /\ n # NotHeld
  BY <1>1, MemmanAssumption DEF Holds
<1>4. /\ held' \in [Unit -> Nat \cup {NotHeld}]
      /\ held'[a] = n /\ \A u \in Unit : u # a => held'[u] = held[u]
  BY <1>1, <1>3 DEF Holds
<1>5. {u \in Unit : held'[u] # NotHeld} = Allocated(hdr', D)
  BY <1>1, <1>2, <1>3, <1>4 DEF Holds
<1>6. \A u \in Allocated(hdr', D) : held'[u] <= hdr'[u].size
  <2>1. hdr'[a].size \in Nat
    BY <1>1, <1>2, SoundBlock DEF Allocated
  <2>2. n <= hdr'[a].size
    BY <1>2, <2>1
  <2>3. \A u \in Allocated(hdr, C) : u \in Unit /\ held[u] <= hdr[u].size
    BY <1>1 DEF Holds
  <2>4. QED
    BY <1>2, <1>4, <2>2, <2>3
<1>7. Holds(hdr', D, held')
  BY <1>4, <1>5, <1>6 DEF Holds
<1>8. QED
  BY <1>1, <1>2, <1>7, Refound

LEMMA ShrinkKeeps ==
  ASSUME MInv, profile.careful, NEW a \in Unit, NEW n \in profile.sizes, Shrink(a, n)
  PROVE  MInv'
<1> DEFINE C == Chain(hdr)
<1>1. /\ profile \in Profile /\ Sound(hdr, C) /\ Holds(hdr, C, held) /\ n \in Nat
  BY SizesAreNat DEF MInv
<1>2. a \in Allocated(hdr, C) /\ a \in C /\ hdr[a].alloc
  BY <1>1 DEF Shrink, Holds, Allocated
<1>3. hdr' = Shrunk(hdr, a, n)
  BY DEF Shrink, Shrunk
<1>4. /\ n <= hdr[a].size /\ held' = [held EXCEPT ![a] = n]
      /\ UNCHANGED <<profile, fault>>
  BY DEF Shrink
<1>5. \E D : /\ Sound(hdr', D)
             /\ Allocated(hdr', D) = Allocated(hdr, C)
             /\ \A c \in Allocated(hdr, C) : c # a => hdr'[c].size = hdr[c].size
             /\ hdr'[a].size >= n
  <2> HIDE DEF C
  <2>1. QED
    BY <1>1, <1>2, <1>3, <1>4, ShrinkSound
<1>6. QED
  BY <1>1, <1>2, <1>4, <1>5, ResizeKeeps

LEMMA GrowKeeps ==
  ASSUME MInv, profile.careful, NEW a \in Unit, NEW n \in profile.sizes, Grow(a, n)
  PROVE  MInv'
<1> DEFINE C == Chain(hdr)
           e == RoomEnd(a, n)
<1>1. /\ profile \in Profile /\ Sound(hdr, C) /\ Holds(hdr, C, held) /\ n \in Nat
  BY SizesAreNat DEF MInv
<1>2. a \in Allocated(hdr, C) /\ a \in C /\ hdr[a].alloc
  BY <1>1 DEF Grow, Holds, Allocated
<1>3. /\ e \in C \cup {N}
      /\ \A c \in C : a < c /\ c < e => ~hdr[c].alloc
  BY <1>1, <1>2, RoomEnds
<1>4. hdr' = Grown(hdr, a, n, e)
  BY DEF Grow, Grown, Larger, Tell
<1>5. /\ hdr[a].size < n /\ e - a - 1 - n >= 0 /\ e - a - 1 - n # 1
      /\ held' = [held EXCEPT ![a] = n] /\ UNCHANGED <<profile, fault>>
  BY DEF Grow
<1>6. \E D : /\ Sound(hdr', D)
             /\ Allocated(hdr', D) = Allocated(hdr, C)
             /\ \A c \in Allocated(hdr, C) : c # a => hdr'[c].size = hdr[c].size
             /\ hdr'[a].size >= n
  <2> HIDE DEF C, e
  <2>1. QED
    BY <1>1, <1>2, <1>3, <1>4, <1>5, GrowSound
<1>7. QED
  BY <1>1, <1>2, <1>5, <1>6, ResizeKeeps

LEMMA MoveKeeps ==
  ASSUME MInv, profile.careful, NEW a \in Unit, NEW n \in profile.sizes, Move(a, n)
  PROVE  MInv'
<1> DEFINE C == Chain(hdr)
           b == FirstFit(hdr, n)
<1>1. /\ profile \in Profile /\ fault = FALSE /\ Sound(hdr, C) /\ Holds(hdr, C, held)
      /\ n \in Nat
  BY SizesAreNat DEF MInv
<1>2. a \in Allocated(hdr, C) /\ a \in C /\ hdr[a].alloc
  BY <1>1 DEF Move, Holds, Allocated
<1>3. PICK flags \in RestFlags(hdr, b, n) :
        LET h == Write(Take(hdr, b, n, flags), b, n)
        IN IF ~LinksLead(h, a) THEN Fault
           ELSE /\ profile.careful => /\ ~SplitsInside(hdr, b, n)
                                      /\ ~MergesInside(h, a)
                /\ hdr' = Release(h, a)
                /\ held' = [held EXCEPT ![a] = NotHeld, ![b] = n]
                /\ UNCHANGED <<profile, fault>>
  BY DEF Move
<1> DEFINE h == Write(Take(hdr, b, n, flags), b, n)
<1> HIDE DEF C
<1>4. b \in C /\ ~hdr[b].alloc /\ hdr[b].size >= n
  BY <1>1, FirstFits DEF Move
<1> HIDE DEF b
<1>5. n <= hdr[b].size /\ b \in Unit /\ a # b
  BY <1>1, <1>2, <1>4, SoundBlock
<1>6. TookBlock(hdr, C, b, n, flags, b + 1 + n, h)
  BY <1>1, <1>4, <1>5, Taken
<1> HIDE DEF h
<1>7. LinksLead(h, a)
  <2>1. /\ h \in Memory /\ \A c \in C : h[c] # Data /\ (c # b => h[c] = hdr[c])
        /\ h[b].alloc
    BY <1>6 DEF TookBlock
  <2>2. QED
    BY <1>1, <1>2, <1>5, <2>1, LinksLeadOn
<1>8. /\ ~SplitsInside(hdr, b, n) /\ ~MergesInside(h, a) /\ hdr' = Release(h, a)
      /\ held' = [held EXCEPT ![a] = NotHeld, ![b] = n]
      /\ profile' = profile /\ fault' = FALSE
  BY <1>1, <1>3, <1>7 DEF h
<1>9. PICK D : /\ Sound(h, D)
               /\ Allocated(h, D) = Allocated(hdr, C) \cup {b}
               /\ \A c \in Allocated(hdr, C) : h[c].size = hdr[c].size
               /\ h[b].size >= n
  <2>1. h = Write(Take(hdr, b, n, flags), b, n)
    BY DEF h
  <2>2. QED
    BY <1>1, <1>4, <1>5, <1>8, <2>1, TakeSound
<1>10. a \in D
  BY <1>2, <1>9 DEF Allocated
<1>11. PICK E : /\ Sound(hdr', E)
                /\ Allocated(hdr', E) = Allocated(h, D) \ {a}
                /\ \A c \in Allocated(hdr', E) : hdr'[c].size = h[c].size
  BY <1>8, <1>9, <1>10, ReleaseSound
<1>12. b \notin Allocated(hdr, C) /\ n # NotHeld
  BY <1>1, <1>4, MemmanAssumption DEF Allocated
<1>13. /\ held' \in [Unit -> Nat \cup {NotHeld}]
       /\ held'[b] = n /\ held'[a] = NotHeld
       /\ \A u \in Unit : u # a /\ u # b => held'[u] = held[u]
  BY <1>1, <1>5, <1>8 DEF Holds
<1>14. {u \in Unit : held'[u] # NotHeld} = Allocated(hdr', E)
  BY <1>1, <1>5, <1>9, <1>11, <1>12, <1>13 DEF Holds
<1>15. \A u \in Allocated(hdr', E) : held'[u] <= hdr'[u].size
  <2> SUFFICES ASSUME NEW u \in Allocated(hdr', E) PROVE held'[u] <= hdr'[u].size
    OBVIOUS
  <2>1. u # a /\ hdr'[u].size = h[u].size /\ hdr'[u].size \in Nat
    BY <1>11, SoundBlock DEF Allocated
  <2>2. CASE u = b
    BY <1>1, <1>9, <1>13, <2>1, <2>2
  <2>3. CASE u # b
    <3>1. u \in Allocated(hdr, C) /\ u \in Unit
      BY <1>1, <1>9, <1>11, <2>3 DEF Holds
    <3>2. QED
      BY <1>1, <1>9, <1>13, <2>1, <2>3, <3>1 DEF Holds
  <2>4. QED
    BY <2>2, <2>3
<1>16. Holds(hdr', E, held')
  BY <1>13, <1>14, <1>15 DEF Holds
<1>17. QED
  BY <1>1, <1>8, <1>11, <1>16, Refound

LEMMA NextKeeps ==
  ASSUME MInv, [Next]_vars PROVE MInv'
<1>1. CASE UNCHANGED vars
  BY <1>1 DEF MInv, vars, Sound, Tiles, Holds, Allocated, Chain, After, IsHeader
<1>2. CASE Next /\ ~profile.careful
  <2>1. profile' = profile /\ (fault' = fault \/ fault' = TRUE)
    BY <1>2 DEF Next, Malloc, Free, Shrink, Grow, Move, Fault
  <2>2. QED
    BY <1>2, <2>1 DEF MInv
<1>3. CASE Next /\ profile.careful
  <2>1. CASE \E n \in profile.sizes : Malloc(n)
    BY <1>3, <2>1, MallocKeeps
  <2>2. CASE \E a \in Unit : Free(a)
    BY <1>3, <2>2, FreeKeeps
  <2>3. CASE \E a \in Unit, n \in profile.sizes : Shrink(a, n)
    BY <1>3, <2>3, ShrinkKeeps
  <2>4. CASE \E a \in Unit, n \in profile.sizes : Grow(a, n)
    BY <1>3, <2>4, GrowKeeps
  <2>5. CASE \E a \in Unit, n \in profile.sizes : Move(a, n)
    BY <1>3, <2>5, MoveKeeps
  <2>6. QED
    BY <1>3, <2>1, <2>2, <2>3, <2>4, <2>5 DEF Next
<1>4. QED
  BY <1>1, <1>2, <1>3

LEMMA InvariantHolds == Spec => []MInv
<1>1. Init => MInv
  BY InitSound
<1>2. MInv /\ [Next]_vars => MInv'
  BY NextKeeps
<1>3. QED
  BY <1>1, <1>2, PTL DEF Spec
-----------------------------------------------------------------------------
LEMMA LastBlock ==
  ASSUME NEW h, NEW C, Sound(h, C) PROVE \E a \in C : After(h, a) = N
<1> DEFINE Left == {N - a : a \in C}
<1>1. \A a \in C : a \in Nat /\ a < N /\ N \in Nat
  BY SoundBlock, NIsNat
<1>2. 0 \in C
  BY DEF Sound, Tiles
<1>3. Left \subseteq Nat /\ Left # {}
  BY <1>1, <1>2
<1>4. PICK k \in Left : \A j \in Left : k <= j
  <2> HIDE DEF Left
  <2>1. QED
    BY <1>3, LeastNatural
<1>5. PICK a \in C : k = N - a
  OBVIOUS
<1>6. After(h, a) \in C \cup {N} /\ After(h, a) > a /\ After(h, a) \in Nat
  BY SoundBlock
<1>7. After(h, a) \notin C
  <2> SUFFICES ASSUME After(h, a) \in C PROVE FALSE
    OBVIOUS
  <2>1. N - After(h, a) \in Left
    OBVIOUS
  <2>2. k <= N - After(h, a)
    BY <1>4, <2>1
  <2>3. QED
    BY <1>1, <1>5, <1>6, <2>2
<1>8. QED
  BY <1>6, <1>7

(* No two blocks overlap, and neither do what two clients hold.            *)
LEMMA SoundApart ==
  ASSUME NEW h, NEW C, Sound(h, C), NEW hd, Holds(h, C, hd),
         NEW a \in Unit, hd[a] # NotHeld
  PROVE  /\ a + hd[a] < N
         /\ \A u \in a + 1 .. a + hd[a] :
              /\ u \notin C
              /\ \A b \in Unit \ {a} : hd[b] # NotHeld => u \notin b .. b + hd[b]
<1>1. \A c \in C : /\ c \in Nat /\ h[c].size \in Nat /\ After(h, c) = c + 1 + h[c].size
                   /\ After(h, c) <= N
                   /\ \A b \in C : b > c => b >= After(h, c)
  BY SoundBlock
<1>2. \A b \in Unit : hd[b] # NotHeld => b \in C /\ hd[b] <= h[b].size /\ hd[b] \in Nat
  BY DEF Holds, Allocated
<1>3. a \in C /\ hd[a] <= h[a].size /\ hd[a] \in Nat /\ a \in Nat /\ N \in Nat
  BY <1>1, <1>2, NIsNat
<1>4. a + hd[a] < N
  BY <1>1, <1>3
<1>5. ASSUME NEW u \in a + 1 .. a + hd[a] PROVE u \notin C
  <2>1. u > a /\ u < After(h, a) /\ u \in Nat
    BY <1>1, <1>3
  <2>2. After(h, a) \in Nat
    BY <1>1, <1>3
  <2>3. QED
    BY <1>1, <1>3, <2>1, <2>2
<1>6. ASSUME NEW u \in a + 1 .. a + hd[a], NEW b \in Unit \ {a}, hd[b] # NotHeld
      PROVE  u \notin b .. b + hd[b]
  <2>1. b \in C /\ b # a /\ b \in Nat /\ hd[b] <= h[b].size /\ hd[b] \in Nat
        /\ h[b].size \in Nat /\ After(h, b) = b + 1 + h[b].size
    BY <1>1, <1>2, <1>6
  <2>2. h[a].size \in Nat /\ After(h, a) = a + 1 + h[a].size
    BY <1>1, <1>3
  <2>3. CASE b < a
    <3>1. a >= After(h, b)
      BY <1>1, <1>3, <2>1, <2>3
    <3>2. QED
      BY <1>3, <2>1, <3>1
  <2>4. CASE b > a
    <3>1. b >= After(h, a)
      BY <1>1, <1>3, <2>1, <2>4
    <3>2. QED
      BY <1>3, <2>1, <2>2, <3>1
  <2>5. QED
    BY <1>3, <2>1, <2>3, <2>4
<1>7. QED
  BY <1>4, <1>5, <1>6

LEMMA InvariantSuffices ==
  ASSUME MInv, profile.careful
  PROVE  /\ TypeOK /\ BlocksTile /\ ClientsApart /\ NoBlockLost /\ PrevSizeHolds
<1> DEFINE C == Chain(hdr)
<1>1. /\ ~fault /\ Sound(hdr, C) /\ Holds(hdr, C, held)
  BY DEF MInv
<1>2. BlocksTile
  <2>1. \A a \in C : hdr[a] # Data /\ After(hdr, a) <= N
    BY <1>1, SoundBlock
  <2>2. \E a \in C : After(hdr, a) = N
    BY <1>1, LastBlock
  <2>3. QED
    BY <1>1, <2>1, <2>2 DEF BlocksTile, Walkable
<1>3. ClientsApart
  BY <1>1, SoundApart DEF ClientsApart
<1>4. NoBlockLost
  BY <1>1 DEF NoBlockLost, Holds, Allocated
<1>5. PrevSizeHolds
  BY <1>1, SoundBlock DEF PrevSizeHolds
<1>6. TypeOK
  <2>1. hdr \in [Unit -> [size : 0 .. N - 1, prev : 0 .. N - 1,
                          alloc : BOOLEAN, last : BOOLEAN] \cup {Data}]
    BY <1>1 DEF Sound, Memory, Block
  <2>2. ASSUME NEW a \in Unit, held[a] # NotHeld PROVE held[a] \in 0 .. N - 1
    <3>1. a \in C /\ held[a] <= hdr[a].size /\ held[a] \in Nat
      BY <1>1, <2>2 DEF Holds, Allocated
    <3>2. hdr[a].size \in 0 .. N - 1
      BY <1>1, <3>1, SoundBlock
    <3>3. QED
      BY <3>1, <3>2, NIsNat
  <2>3. held \in [Unit -> (0 .. N - 1) \cup {NotHeld}]
    <3>1. held \in [Unit -> Nat \cup {NotHeld}]
      BY <1>1 DEF Holds
    <3>2. QED
      BY <2>2, <3>1
  <2>4. fault \in BOOLEAN
    BY <1>1 DEF MInv
  <2>5. QED
    BY <2>1, <2>3, <2>4 DEF TypeOK
<1>7. QED
  BY <1>2, <1>3, <1>4, <1>5, <1>6
-----------------------------------------------------------------------------
(* Clients of one size: blocks start at multiples of the size and a header,*)
(* and an allocated one exceeds the size by one unit at most, which was too*)
(* small to be cut off.                                                    *)
Spaced(h, C, n) ==
  /\ \A a \in C : \E k \in Nat : a = k * (n + 1)
  /\ \A a \in Allocated(h, C) : n <= h[a].size /\ h[a].size <= n + 1

SpacedInv ==
  profile.careful =>
    \A n \in profile.sizes \ {0} :
      profile.sizes = {n} => Spaced(hdr, Chain(hdr), n)

(* Two multiples are a whole size and header apart.                        *)
LEMMA Multiples ==
  ASSUME NEW n \in Nat, NEW i \in Nat, NEW j \in Nat, i * (n + 1) < j * (n + 1)
  PROVE  i * (n + 1) + n + 1 <= j * (n + 1)
<1>1. i < j
  <2> SUFFICES ASSUME i >= j PROVE FALSE
    OBVIOUS
  <2>1. PICK d \in Nat : i = j + d
    <3>1. i - j \in Nat /\ i = j + (i - j)
      OBVIOUS
    <3>2. QED
      BY <3>1
  <2>2. i * (n + 1) = j * (n + 1) + d * (n + 1) /\ d * (n + 1) \in Nat
    BY <2>1
  <2>3. i * (n + 1) \in Nat /\ j * (n + 1) \in Nat
    OBVIOUS
  <2>4. QED
    BY <2>2, <2>3
<1>2. PICK d \in Nat : j = i + 1 + d
  <2>1. j - i - 1 \in Nat /\ j = i + 1 + (j - i - 1)
    BY <1>1
  <2>2. QED
    BY <2>1
<1>3. j * (n + 1) = i * (n + 1) + (n + 1) + d * (n + 1) /\ d * (n + 1) \in Nat
  BY <1>2
<1>4. i * (n + 1) \in Nat
  OBVIOUS
<1>5. QED
  BY <1>3, <1>4

LEMMA SpacedAtFirst ==
  ASSUME Init PROVE SpacedInv
<1>1. Chain(hdr) = {0} /\ Allocated(hdr, {0}) = {}
  BY InitChain DEF Allocated
<1>2. \A n \in profile.sizes : 0 = 0 * (n + 1)
  BY SizesAreNat DEF Init
<1>3. QED
  BY <1>1, <1>2 DEF Spaced, SpacedInv

(* malloc() cuts off whole multiples; a block too small to be cut keeps    *)
(* its size, and free() and realloc() to the one size add no block.        *)
LEMMA NextSpaced ==
  ASSUME MInv, SpacedInv, [Next]_vars PROVE SpacedInv'
<1> SUFFICES ASSUME profile'.careful, NEW n \in profile'.sizes \ {0},
                    profile'.sizes = {n}
             PROVE  Spaced(hdr', Chain(hdr'), n)
  BY DEF SpacedInv, Spaced, Chain, Allocated, IsHeader, After
<1> DEFINE C == Chain(hdr)
<1>1. profile' = profile
  BY DEF Next, Malloc, Free, Shrink, Grow, Move, Fault, vars
<1>2. /\ profile.careful /\ profile.sizes = {n} /\ n \in Nat /\ n # 0
      /\ Sound(hdr, C) /\ Holds(hdr, C, held) /\ Spaced(hdr, C, n)
  BY <1>1, SizesAreNat DEF MInv, SpacedInv
<1>3. \A a \in Unit : held[a] # NotHeld =>
        /\ a \in C /\ a \in Allocated(hdr, C)
        /\ n <= hdr[a].size /\ hdr[a].size <= n + 1 /\ hdr[a].size \in Nat
  <2> HIDE DEF C
  <2>1. \A a \in Unit : held[a] # NotHeld => a \in Allocated(hdr, C)
    BY <1>2 DEF Holds
  <2>2. \A a \in Allocated(hdr, C) : a \in C /\ hdr[a].size \in Nat
    BY <1>2, SoundBlock DEF Allocated
  <2>3. QED
    BY <1>2, <2>1, <2>2 DEF Spaced
<1> HIDE DEF C
<1>4. ASSUME UNCHANGED hdr PROVE Spaced(hdr', Chain(hdr'), n)
  BY <1>2, <1>4 DEF C
<1>5. ASSUME NEW D, Sound(hdr', D), D \subseteq C,
             \A c \in Allocated(hdr', D) :
               c \in Allocated(hdr, C) /\ hdr'[c].size = hdr[c].size
      PROVE  Spaced(hdr', Chain(hdr'), n)
  <2>1. Chain(hdr') = D
    BY <1>5, SoundIsChain
  <2>2. Spaced(hdr', D, n)
    BY <1>2, <1>5 DEF Spaced
  <2>3. QED
    BY <2>1, <2>2
<1>6. CASE Malloc(n)
  <2> DEFINE b == FirstFit(hdr, n)
  <2>1. b \in C /\ ~hdr[b].alloc /\ hdr[b].size >= n
    BY <1>2, <1>6, FirstFits DEF Malloc
  <2>2. PICK flags \in RestFlags(hdr, b, n) :
          hdr' = Write(Take(hdr, b, n, flags), b, n)
    BY <1>6 DEF Malloc
  <2>3. ~SplitsInside(hdr, b, n)
    BY <1>2, <1>6 DEF Malloc
  <2> HIDE DEF b
  <2>4. n <= hdr[b].size
    BY <1>2, <2>1, SoundBlock
  <2>5. PICK D : /\ D \subseteq C \cup {b + 1 + n} /\ Sound(hdr', D)
                 /\ Allocated(hdr', D) = Allocated(hdr, C) \cup {b}
                 /\ \A c \in Allocated(hdr, C) : hdr'[c].size = hdr[c].size
                 /\ hdr'[b].size >= n /\ hdr'[b].size <= n + 1
    BY <1>2, <2>1, <2>2, <2>3, <2>4, TakeSound
  <2>6. Chain(hdr') = D
    BY <2>5, SoundIsChain
  <2>7. \E k \in Nat : b + 1 + n = k * (n + 1)
    <3>1. PICK k \in Nat : b = k * (n + 1)
      BY <1>2, <2>1 DEF Spaced
    <3>2. b + 1 + n = (k + 1) * (n + 1) /\ k + 1 \in Nat
      BY <1>2, <3>1
    <3>3. QED
      BY <3>2
  <2>8. hdr'[b].size \in Nat
    BY <2>5, SoundBlock DEF Allocated
  <2>9. n <= hdr'[b].size
    BY <1>2, <2>5, <2>8
  <2>10. Spaced(hdr', D, n)
    <3>1. \A a \in D : \E k \in Nat : a = k * (n + 1)
      BY <1>2, <2>5, <2>7 DEF Spaced
    <3>2. \A a \in Allocated(hdr', D) : n <= hdr'[a].size /\ hdr'[a].size <= n + 1
      BY <1>2, <2>5, <2>9 DEF Spaced
    <3>3. QED
      BY <3>1, <3>2 DEF Spaced
  <2>11. QED
    BY <2>6, <2>10
<1>7. ASSUME NEW a \in Unit, Free(a) PROVE Spaced(hdr', Chain(hdr'), n)
  <2>1. held[a] # NotHeld /\ a \in C
    BY <1>3, <1>7 DEF Free
  <2>2. CASE UNCHANGED hdr
    BY <1>4, <2>2
  <2>3. CASE ~MergesInside(hdr, a) /\ hdr' = Release(hdr, a)
    <3>1. PICK D : /\ D \subseteq C /\ Sound(hdr', D)
                   /\ Allocated(hdr', D) = Allocated(hdr, C) \ {a}
                   /\ \A c \in Allocated(hdr', D) : hdr'[c].size = hdr[c].size
      BY <1>2, <2>1, <2>3, ReleaseSound
    <3>2. QED
      BY <1>5, <3>1
  <2>4. QED
    BY <1>2, <1>7, <2>2, <2>3 DEF Free, Fault
<1>8. ASSUME NEW a \in Unit, Shrink(a, n) PROVE Spaced(hdr', Chain(hdr'), n)
  <2>1. a \in C /\ hdr[a].size \in Nat /\ n <= hdr[a].size /\ hdr[a].size <= n + 1
    BY <1>3, <1>8 DEF Shrink
  <2>2. hdr' = Write(hdr, a, n)
    <3>1. hdr[a].size - n - 1 <= 0
      BY <1>2, <2>1
    <3>2. QED
      BY <1>8, <3>1 DEF Shrink
  <2>3. Sound(hdr', C) /\ \A c \in C : hdr'[c] = hdr[c]
    BY <1>2, <2>1, <2>2, WriteInside
  <2>4. \A c \in Allocated(hdr', C) :
          c \in Allocated(hdr, C) /\ hdr'[c].size = hdr[c].size
    BY <2>3 DEF Allocated
  <2>5. QED
    BY <1>5, <2>3, <2>4
<1>9. ASSUME NEW a \in Unit PROVE ~Grow(a, n) /\ ~Move(a, n)
  BY <1>2, <1>3 DEF Grow, Move
<1>10. CASE UNCHANGED vars
  BY <1>4, <1>10 DEF vars
<1>11. QED
  BY <1>2, <1>6, <1>7, <1>8, <1>9, <1>10 DEF Next

(* If nothing fits, only the last block can be free, and the others follow *)
(* each other without a gap.                                               *)
LEMMA NoGaps ==
  ASSUME NEW h, NEW C, Sound(h, C), NEW n \in Nat \ {0}, Spaced(h, C, n),
         \A a \in C : ~h[a].alloc => h[a].size < n,
         NEW a \in C, After(h, a) # N
  PROVE  a \in Allocated(h, C) /\ a + n + 1 \in C
<1>1. /\ a \in Nat /\ h[a].size \in Nat /\ After(h, a) = a + 1 + h[a].size
      /\ After(h, a) \in C
  BY SoundBlock DEF Sound, Tiles
<1>2. PICK i \in Nat, j \in Nat : a = i * (n + 1) /\ After(h, a) = j * (n + 1)
  BY <1>1 DEF Spaced
<1>3. a < After(h, a)
  BY <1>1
<1>4. a + n + 1 <= After(h, a)
  BY <1>2, <1>3, Multiples
<1>5. h[a].size >= n
  BY <1>1, <1>4
<1>6. a \in Allocated(h, C)
  BY <1>1, <1>5 DEF Allocated
<1>7. h[a].size <= n + 1
  BY <1>6 DEF Spaced
<1>8. CASE h[a].size = n
  BY <1>1, <1>6, <1>8
<1>9. CASE h[a].size # n
  <2>1. After(h, a) = a + n + 2 /\ h[a].size = n + 1
    BY <1>1, <1>5, <1>7, <1>9
  <2>2. (i + 1) * (n + 1) = a + n + 1 /\ i + 1 \in Nat
    BY <1>2
  <2>3. (i + 1) * (n + 1) < j * (n + 1)
    BY <1>1, <1>2, <2>1, <2>2
  <2>4. (i + 1) * (n + 1) + n + 1 <= j * (n + 1)
    BY <2>2, <2>3, Multiples
  <2>5. QED
    BY <1>1, <1>2, <2>1, <2>2, <2>4
<1>10. QED
  BY <1>8, <1>9

(* ... so memory is full.                                                  *)
LEMMA MemoryIsFull ==
  ASSUME NEW h, NEW C, Sound(h, C), NEW n \in Nat \ {0}, Spaced(h, C, n),
         \A a \in C : ~h[a].alloc => h[a].size < n
  PROVE  \A k \in Nat : k * (n + 1) + n + 1 <= N => k * (n + 1) \in Allocated(h, C)
<1> DEFINE Missing == {k \in Nat : /\ k * (n + 1) + n + 1 <= N
                                   /\ k * (n + 1) \notin Allocated(h, C)}
<1> SUFFICES ASSUME Missing # {} PROVE FALSE
  OBVIOUS
<1>1. PICK k \in Missing : \A j \in Missing : k <= j
  <2>1. Missing \subseteq Nat
    OBVIOUS
  <2> HIDE DEF Missing
  <2>2. QED
    BY <2>1, LeastNatural
<1>2. PICK s \in Nat : s = k * (n + 1)
  OBVIOUS
<1>3. N \in Nat /\ s + n + 1 <= N /\ s \notin Allocated(h, C)
  BY <1>1, <1>2, NIsNat
<1>4. s \notin C
  <2> SUFFICES ASSUME s \in C PROVE FALSE
    OBVIOUS
  <2>1. After(h, s) = N /\ ~h[s].alloc
    BY <1>3, NoGaps DEF Allocated
  <2>2. h[s].size \in Nat /\ After(h, s) = s + 1 + h[s].size /\ h[s].size < n
    BY <2>1, SoundBlock
  <2>3. QED
    BY <1>3, <2>1, <2>2
<1>5. k # 0
  <2>1. 0 \in C
    BY DEF Sound, Tiles
  <2>2. QED
    BY <1>2, <1>4, <2>1
<1>6. PICK j \in Nat : k = j + 1
  <2>1. k - 1 \in Nat /\ k = (k - 1) + 1
    BY <1>5
  <2>2. QED
    BY <2>1
<1>7. PICK r \in Nat : r = j * (n + 1)
  OBVIOUS
<1>8. s = r + n + 1
  BY <1>2, <1>6, <1>7
<1>9. r \in Allocated(h, C)
  <2>1. r + n + 1 <= N
    BY <1>3, <1>8
  <2>2. j \notin Missing
    BY <1>1, <1>6
  <2>3. QED
    BY <1>7, <2>1, <2>2
<1>10. r \in C /\ h[r].size <= n + 1
  BY <1>9 DEF Allocated, Spaced
<1>11. After(h, r) = N
  BY <1>4, <1>8, <1>10, NoGaps
<1>12. h[r].size \in Nat /\ After(h, r) = r + 1 + h[r].size
  BY <1>10, SoundBlock
<1>13. QED
  BY <1>3, <1>8, <1>10, <1>11, <1>12

LEMMA SpacedSuffices ==
  ASSUME MInv, profile.careful, SpacedInv PROVE NeverStarves
<1> DEFINE C == Chain(hdr)
           held_ == {a \in Unit : held[a] # NotHeld}
<1> SUFFICES ASSUME NEW n \in profile.sizes \ {0}, profile.sizes = {n},
                    Cardinality(held_) < N \div (n + 1), Fits(hdr, n) = {}
             PROVE  FALSE
  BY DEF NeverStarves
<1>1. /\ n \in Nat \ {0} /\ Sound(hdr, C) /\ Holds(hdr, C, held)
      /\ Spaced(hdr, C, n) /\ N \in Nat
  BY SizesAreNat, NIsNat DEF MInv, SpacedInv
<1>2. \A a \in C : ~hdr[a].alloc => hdr[a].size < n
  <2>1. \A a \in C : hdr[a].size \in Nat
    BY <1>1, SoundBlock
  <2>2. QED
    BY <1>1, <2>1 DEF Fits
<1>3. held_ = Allocated(hdr, C)
  BY <1>1 DEF Holds
<1> HIDE DEF C
<1>4. \A k \in Nat : k * (n + 1) + n + 1 <= N => k * (n + 1) \in held_
  BY <1>1, <1>2, <1>3, MemoryIsFull
<1>5. PICK d \in Nat : d = N \div (n + 1) /\ d * (n + 1) <= N
  <2>1. N \div (n + 1) \in Nat /\ (N \div (n + 1)) * (n + 1) <= N
    BY <1>1
  <2>2. QED
    BY <2>1
<1> DEFINE f == [k \in 1 .. d |-> (k - 1) * (n + 1)]
<1>6. \A k \in 1 .. d : (k - 1) * (n + 1) \in held_
  <2> SUFFICES ASSUME NEW k \in 1 .. d PROVE (k - 1) * (n + 1) \in held_
    OBVIOUS
  <2>1. k - 1 \in Nat /\ k \in Nat
    BY <1>5
  <2>2. PICK j \in Nat : k + j = d
    <3>1. d - k \in Nat /\ k + (d - k) = d
      BY <1>5
    <3>2. QED
      BY <3>1
  <2>3. /\ d * (n + 1) = (k - 1) * (n + 1) + (n + 1) + j * (n + 1)
        /\ j * (n + 1) \in Nat /\ (k - 1) * (n + 1) \in Nat
    BY <1>1, <2>1, <2>2
  <2>4. (k - 1) * (n + 1) + n + 1 <= N
    BY <1>1, <1>5, <2>3
  <2>5. QED
    BY <1>4, <2>1, <2>4
<1>7. \A i, j \in 1 .. d : f[i] = f[j] => i = j
  <2> SUFFICES ASSUME NEW i \in 1 .. d, NEW j \in 1 .. d,
                      (i - 1) * (n + 1) = (j - 1) * (n + 1), i < j
               PROVE  FALSE
    <3>1. \A i, j \in 1 .. d : (i - 1) * (n + 1) = (j - 1) * (n + 1) => ~(i < j)
      BY Zenon
    <3>2. QED
      BY <1>5, <3>1
  <2>1. PICK e \in Nat : j - 1 = (i - 1) + 1 + e
    <3>1. j - i - 1 \in Nat /\ j - 1 = (i - 1) + 1 + (j - i - 1)
      BY <1>5
    <3>2. QED
      BY <3>1
  <2>2. /\ (j - 1) * (n + 1) = (i - 1) * (n + 1) + (n + 1) + e * (n + 1)
        /\ e * (n + 1) \in Nat /\ (i - 1) * (n + 1) \in Nat
    BY <1>1, <1>5, <2>1
  <2>3. QED
    BY <1>1, <2>2
<1>8. f \in Injection(1 .. d, held_)
  BY <1>6, <1>7 DEF Injection, IsInjective
<1>9. IsFiniteSet(held_)
  <2>1. IsFiniteSet(Unit)
    BY <1>1, FS_Interval DEF Unit
  <2>2. QED
    BY <2>1, FS_Subset
<1>10. Cardinality(1 .. d) = d
  BY <1>5, FS_Interval
<1> HIDE DEF f, held_
<1>11. Cardinality(1 .. d) <= Cardinality(held_) /\ Cardinality(held_) \in Nat
  BY <1>8, <1>9, FS_Injection, FS_CardinalityType
<1>12. QED
  BY <1>5, <1>10, <1>11
-----------------------------------------------------------------------------
(* Every client is careful.                                                *)
Careful == \A p \in Profile : p.careful

LEMMA CarefulOnes ==
  ASSUME Careful, MInv PROVE profile.careful
  BY DEF Careful, MInv

(* Whatever careful clients request, free and resize, and in any order,    *)
(* the walk of malloc() and free() meets headers only and ends exactly at  *)
(* the end of memory: a header is never client data.                       *)
THEOREM ChainTilesMemory ==
  ASSUME Careful PROVE Spec => []BlocksTile
<1>1. MInv => BlocksTile
  BY CarefulOnes, InvariantSuffices
<1>2. QED
  BY <1>1, InvariantHolds, PTL

(* ... no two clients share a unit, and none holds a block's header.       *)
THEOREM BlocksStayApart ==
  ASSUME Careful PROVE Spec => []ClientsApart
<1>1. MInv => ClientsApart
  BY CarefulOnes, InvariantSuffices
<1>2. QED
  BY <1>1, InvariantHolds, PTL

(* ... splitting, merging and moving blocks lose no memory: what is marked *)
(* allocated is what some client holds.                                    *)
THEOREM NothingLost ==
  ASSUME Careful PROVE Spec => []NoBlockLost
<1>1. MInv => NoBlockLost
  BY CarefulOnes, InvariantSuffices
<1>2. QED
  BY <1>1, InvariantHolds, PTL

(* Among clients of both kinds: as long as they are careful, prev_size is  *)
(* the size of the block before, which free() merges by.                   *)
THEOREM BackLinksHold == Spec => []CarefulLinksHold
<1>1. MInv => CarefulLinksHold
  BY InvariantSuffices DEF CarefulLinksHold
<1>2. QED
  BY <1>1, InvariantHolds, PTL

(* ... and every header, with its sizes and flags, has its type.           *)
THEOREM TypeCorrect ==
  ASSUME Careful PROVE Spec => []TypeOK
<1>1. MInv => TypeOK
  BY CarefulOnes, InvariantSuffices
<1>2. QED
  BY <1>1, InvariantHolds, PTL

(* "If an application allocates fixed amounts of memory, this case is      *)
(* avoided": careful clients of one size get a block while they hold fewer *)
(* than memory can hold, in whatever order blocks came and went.           *)
THEOREM OneSizeNeverStarves ==
  ASSUME Careful PROVE Spec => []NeverStarves
<1>1. Init => MInv /\ SpacedInv
  BY InitSound, SpacedAtFirst
<1>2. MInv /\ SpacedInv /\ [Next]_vars => (MInv /\ SpacedInv)'
  BY NextKeeps, NextSpaced
<1>3. MInv /\ SpacedInv => NeverStarves
  BY CarefulOnes, SpacedSuffices
<1>4. QED
  BY <1>1, <1>2, <1>3, PTL DEF Spec
=============================================================================
