------------------------------- MODULE Memman -------------------------------
(***************************************************************************)
(* Dynamic memory (base/memman.c): malloc, free and realloc over one chain *)
(* of blocks.  Memory is counted in units of BLOCK_ALIGN bytes; a block is *)
(* a header of one unit (sizeof(BLOCK_HDR) = BLOCK_ALIGN) and its payload. *)
(* hdr gives what a unit holds: a header, current or left behind by a      *)
(* merge, or data of a client.  A flag the code reads out of client data   *)
(* may be anything.                                                        *)
(*                                                                         *)
(* profile is the way the clients use the memory.  A careful client never  *)
(* makes malloc() split a block that is not the last one, never frees a    *)
(* block into a free block before it unless nothing follows, and never     *)
(* grows a block to one unit less than the room there is; the code is not  *)
(* right for clients that do.                                              *)
(***************************************************************************)
EXTENDS Integers, FiniteSets

CONSTANTS
  N,          \* dyn_mem_size in units
  Profile,    \* [sizes: the sizes requested, careful, resizes: BOOLEAN]
  Data,       \* a unit of client data
  NotHeld     \* no client holds the block of this unit

Unit == 0 .. N - 1
Flags == [alloc : BOOLEAN, last : BOOLEAN]     \* BLOCK_ALLOCATED, BLOCK_LAST

ASSUME MemmanAssumption ==
  /\ N \in Nat /\ N > 1
  /\ NotHeld \notin Int
  /\ Data \notin [size : Nat, prev : Nat, alloc : BOOLEAN, last : BOOLEAN]
  /\ \A p \in Profile : p.sizes \subseteq Nat

VARIABLES
  hdr,        \* the contents of every unit
  held,       \* the units a client asked for at the block of each unit
  profile,
  fault       \* the code took client data for a header

vars == <<hdr, held, profile, fault>>

Header(size, prev, alloc, last) ==
  [size |-> size, prev |-> prev, alloc |-> alloc, last |-> last]
FlagsOf(h) == [alloc |-> h.alloc, last |-> h.last]
(* The flags found at a unit: whatever is there.                           *)
FlagsFound(h, a) == IF h[a] = Data THEN Flags ELSE {FlagsOf(h[a])}

IsHeader(h, a) == a \in Unit /\ h[a] # Data
After(h, a) == a + 1 + h[a].size
(* The headers met from the first one on; the walk stops at client data.   *)
Chain(h) ==
  LET met[k \in 0 .. N] ==
        IF k = 0 THEN 0
        ELSE LET a == met[k - 1] IN IF IsHeader(h, a) THEN After(h, a) ELSE a
  IN {met[k] : k \in 0 .. N} \cap Unit
Walkable(h) == \A a \in Chain(h) : h[a] # Data

Write(h, a, n) == [u \in Unit |-> IF u \in a + 1 .. a + n THEN Data ELSE h[u]]
-----------------------------------------------------------------------------
(* malloc: the first free block that is large enough,                      *)
FitsLoosely(h, n) ==                       \* mutant: forgets the header
  {a \in Chain(h) : ~h[a].alloc /\ 1 + h[a].size >= n}
Fits(h, n) == {a \in Chain(h) : ~h[a].alloc /\ h[a].size >= n}
FirstFit(h, n) == CHOOSE a \in Fits(h, n) : \A b \in Fits(h, n) : a <= b
(* split if the rest can hold a header and one unit.                       *)
CropsNever(h, a, n) == FALSE               \* mutant: hands out the whole block
Crops(h, a, n) == h[a].size >= n + 2
(* The rest's flags are set only if the block was the last one.            *)
RestFlags(h, a, n) ==
  IF ~Crops(h, a, n) \/ h[a].last THEN {[alloc |-> FALSE, last |-> TRUE]}
  ELSE FlagsFound(h, a + 1 + n)
Take(h, a, n, flags) ==
  IF Crops(h, a, n)
  THEN [h EXCEPT ![a] = Header(n, @.prev, TRUE, FALSE),
                 ![a + 1 + n] = Header(h[a].size - n - 1, n,
                                       flags.alloc, flags.last)]
  ELSE [h EXCEPT ![a].alloc = TRUE]

(* free: merge the next block, then into the previous one, then tell the   *)
(* next one - the size of the freed block, whatever it was merged into.    *)
MergeNextShort(h, a) ==                    \* mutant: forgets the merged header
  LET n == After(h, a)
  IN IF ~h[a].last /\ ~h[n].alloc
     THEN [h EXCEPT ![a].size = @ + h[n].size, ![a].last = h[n].last] ELSE h
MergeNext(h, a) ==
  LET n == After(h, a)
  IN IF ~h[a].last /\ ~h[n].alloc
     THEN [h EXCEPT ![a].size = @ + 1 + h[n].size, ![a].last = h[n].last]
     ELSE h
MergePrev(h, a) ==
  LET p == a - 1 - h[a].prev
  IN IF h[a].prev # 0 /\ ~h[p].alloc
     THEN [h EXCEPT ![p].size = @ + 1 + h[a].size,
                    ![p].last = @ \/ h[a].last]
     ELSE h
TellNextNothing(h, a) == h                 \* mutant: the back link is not kept
TellNext(h, a) ==
  IF h[a].last THEN h ELSE [h EXCEPT ![After(h, a)].prev = h[a].size]
ReleaseStaysAllocated(h, a) ==             \* mutant: the flag is not cleared
  TellNext(h, a)
Release(h, a) ==
  TellNext(MergePrev(MergeNext([h EXCEPT ![a].alloc = FALSE], a), a), a)

(* Following the links of the block at a leads to headers only.            *)
LinksLead(h, a) ==
  /\ IsHeader(h, a)
  /\ ~h[a].last => /\ IsHeader(h, After(h, a))
                   /\ LET g == MergeNext([h EXCEPT ![a].alloc = FALSE], a)
                      IN ~g[a].last => IsHeader(h, After(g, a))
  /\ h[a].prev # 0 => IsHeader(h, a - 1 - h[a].prev)

(* What careful clients avoid.                                             *)
SplitsInside(h, a, n) == Crops(h, a, n) /\ ~h[a].last
MergesInside(h, a) ==
  /\ h[a].prev # 0 /\ ~h[a - 1 - h[a].prev].alloc
  /\ ~MergeNext(h, a)[a].last
-----------------------------------------------------------------------------
(* init_memman.                                                            *)
Init ==
  /\ hdr = [u \in Unit |-> IF u = 0 THEN Header(N - 1, 0, FALSE, TRUE)
                                    ELSE Header(0, 0, FALSE, FALSE)]
  /\ held = [u \in Unit |-> NotHeld]
  /\ profile \in Profile
  /\ fault = FALSE

Fault == fault' = TRUE /\ UNCHANGED <<hdr, held, profile>>

(* malloc and calloc; the client then writes what it asked for.            *)
Malloc(n) ==
  /\ ~fault
  /\ Fits(hdr, n) # {}
  /\ LET a == FirstFit(hdr, n)
     IN /\ profile.careful => ~SplitsInside(hdr, a, n)
        /\ \E flags \in RestFlags(hdr, a, n) :
             hdr' = Write(Take(hdr, a, n, flags), a, n)
        /\ held' = [held EXCEPT ![a] = n]
  /\ UNCHANGED <<profile, fault>>

Free(a) ==
  /\ ~fault
  /\ held[a] # NotHeld
  /\ IF ~LinksLead(hdr, a) THEN Fault
     ELSE /\ profile.careful => ~MergesInside(hdr, a)
          /\ hdr' = Release(hdr, a)
          /\ held' = [held EXCEPT ![a] = NotHeld]
          /\ UNCHANGED <<profile, fault>>

(* realloc within the block: the rest becomes a free block if it can hold *)
(* a header and one unit.                                                  *)
Shrink(a, n) ==
  /\ ~fault /\ profile.resizes
  /\ held[a] # NotHeld /\ 0 < n /\ n <= hdr[a].size
  /\ held' = [held EXCEPT ![a] = n]
  /\ LET b == hdr[a]
         rest == b.size - n - 1
         cut == [hdr EXCEPT ![a] = Header(n, @.prev, TRUE, FALSE),
                            ![a + 1 + n] = Header(rest, n, FALSE, b.last)]
     IN hdr' = IF rest <= 0 THEN Write(hdr, a, n)
               ELSE IF b.last THEN cut
               ELSE [cut EXCEPT ![After(hdr, a)].prev = rest]
  /\ UNCHANGED <<profile, fault>>

(* realloc to a larger size walks over the free blocks behind, up to       *)
(* RoomEnd.                                                                *)
RoomEnd(a, n) ==
  LET Stop == {e \in Chain(hdr) \cup {N} :
                 /\ e > a
                 /\ e = N \/ e - a - 1 >= n \/ hdr[e].alloc}
  IN CHOOSE e \in Stop : \A f \in Stop : e <= f
Grow(a, n) ==
  /\ ~fault /\ profile.resizes
  /\ held[a] # NotHeld /\ hdr[a].size < n
  /\ LET e == RoomEnd(a, n)
         rest == e - a - 1 - n
     IN /\ rest >= 0
        /\ profile.careful => rest # 1
        /\ LET larger ==
                 IF rest > 1
                 THEN [hdr EXCEPT ![a].size = n,
                        ![a + 1 + n] = Header(rest - 1, n, FALSE, e = N)]
                 ELSE [hdr EXCEPT ![a].size = n, ![a].last = @ \/ e = N]
           IN hdr' = Write(IF e = N THEN larger
                           ELSE [larger EXCEPT ![e].prev =
                                   IF rest > 1 THEN rest - 1 ELSE n], a, n)
  /\ held' = [held EXCEPT ![a] = n]
  /\ UNCHANGED <<profile, fault>>
(* ... or, without the room, moves the block.                              *)
Move(a, n) ==
  /\ ~fault /\ profile.resizes
  /\ held[a] # NotHeld /\ hdr[a].size < n
  /\ RoomEnd(a, n) - a - 1 < n
  /\ Fits(hdr, n) # {}
  /\ LET b == FirstFit(hdr, n)
     IN \E flags \in RestFlags(hdr, b, n) :
          LET h == Write(Take(hdr, b, n, flags), b, n)
          IN IF ~LinksLead(h, a) THEN Fault
             ELSE /\ profile.careful => /\ ~SplitsInside(hdr, b, n)
                                        /\ ~MergesInside(h, a)
                  /\ hdr' = Release(h, a)
                  /\ held' = [held EXCEPT ![a] = NotHeld, ![b] = n]
                  /\ UNCHANGED <<profile, fault>>

Next ==
  \/ \E n \in profile.sizes : Malloc(n)
  \/ \E a \in Unit : Free(a)
  \/ \E a \in Unit, n \in profile.sizes : Shrink(a, n)
  \/ \E a \in Unit, n \in profile.sizes : Grow(a, n)
  \/ \E a \in Unit, n \in profile.sizes : Move(a, n)

Spec == Init /\ [][Next]_vars
-----------------------------------------------------------------------------
TypeOK ==
  /\ hdr \in [Unit -> [size : 0 .. N - 1, prev : 0 .. N - 1,
                       alloc : BOOLEAN, last : BOOLEAN] \cup {Data}]
  /\ held \in [Unit -> (0 .. N - 1) \cup {NotHeld}]
  /\ fault \in BOOLEAN

(* The walk malloc() makes meets headers only, ends exactly at the end of  *)
(* memory, and no client data was ever taken for a header.                 *)
BlocksTile ==
  /\ ~fault
  /\ Walkable(hdr)
  /\ \E a \in Chain(hdr) : After(hdr, a) = N
  /\ \A a \in Chain(hdr) : After(hdr, a) <= N

(* What one client holds overlaps neither another's memory nor the header  *)
(* of any block.                                                           *)
ClientsApart ==
  \A a \in Unit : held[a] # NotHeld =>
    /\ a + held[a] < N
    /\ \A u \in a + 1 .. a + held[a] :
         /\ u \notin Chain(hdr)
         /\ \A b \in Unit \ {a} :
              held[b] # NotHeld => u \notin b .. b + held[b]

(* The blocks marked allocated are those some client holds: no memory is   *)
(* lost by a split or a merge, and none is held and free.                  *)
NoBlockLost ==
  {a \in Chain(hdr) : hdr[a].alloc} = {a \in Unit : held[a] # NotHeld}

(* "prev_size ... will hold size of the previous block so that it may be   *)
(* found directly by negative offsetting" (memman.c, "melting").           *)
PrevSizeHolds ==
  \A a \in Chain(hdr) : After(hdr, a) < N =>
    hdr[After(hdr, a)].prev = hdr[a].size
CarefulLinksHold == profile.careful => PrevSizeHolds

(* "If an application allocates fixed amounts of memory, this case [running*)
(* out of fit blocks] is avoided": while fewer blocks are held than the    *)
(* memory can hold, another request of the one size succeeds.  (Requests   *)
(* of nothing are left aside: a last block of one unit is not split.)      *)
NeverStarves ==
  \A n \in profile.sizes \ {0} :
    /\ profile.sizes = {n}
    /\ Cardinality({a \in Unit : held[a] # NotHeld}) < N \div (n + 1)
    => Fits(hdr, n) # {}
=============================================================================
