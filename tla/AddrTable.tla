----------------------------- MODULE AddrTable -----------------------------
(***************************************************************************)
(* The address tables of the network: the ARP table (network/arp.c) and    *)
(* the Ethernet table of a device (network/ethernet.c), whose comment says *)
(* that its implementation is copied from the ARP tables.  A table is open *)
(* addressed: an address is looked for, and put, in the slots from the one *)
(* of its hash to the last one, without wrapping.  A slot is free when its *)
(* address is all zeros, and a search does not stop at free slots.         *)
(***************************************************************************)
EXTENDS Integers, FiniteSetsExt

CONSTANTS
  Addr,      \* IP and Ethernet addresses
  NoAddr,    \* the one of zeros
  TblSize,   \* ARP_TBL_SIZE, ETH_TBL_SIZE
  Home       \* slot of an address: the sum of its bytes % TblSize

ASSUME AddrTableAssumption ==
  /\ NoAddr \in Addr
  /\ TblSize \in Nat \ {0}
  /\ Home \in [Addr -> 0..TblSize - 1]
  /\ Home[NoAddr] = 0

Slot == 0..TblSize - 1
Table == [Slot -> [key : Addr, val : Addr]]
EmptyTable == [i \in Slot |-> [key |-> NoAddr, val |-> NoAddr]]

Probed(a) == Home[a]..TblSize - 1
SlotsOf(tbl, a) == {i \in Probed(a) : tbl[i].key = a}
Known(tbl, a) == SlotsOf(tbl, a) # {}

(* find_arp_entry and find_eth_entry, for a known address.                 *)
Find(tbl, a) == Min(SlotsOf(tbl, a))

(* add_arp_entry and add_eth_entry: the first free slot from the hash on,  *)
(* or the one of the hash if none is free.                                 *)
FreeFor(tbl, a) == {i \in Probed(a) : tbl[i].key = NoAddr}
SlotOfHash(tbl, a) == Home[a]                    \* mutant: no probing
SlotFor(tbl, a) ==
  IF FreeFor(tbl, a) # {} THEN Min(FreeFor(tbl, a)) ELSE Home[a]
Add(tbl, a, v) == [tbl EXCEPT ![SlotFor(tbl, a)] = [key |-> a, val |-> v]]

(* Both callers add an address only if it is not found: a second claim of  *)
(* an address is ignored.                                                  *)
LearnAlways(tbl, a, v) == Add(tbl, a, v)         \* mutant: no test
LearnLast(tbl, a, v) ==                          \* mutant: newcomer wins
  IF Known(tbl, a) THEN [tbl EXCEPT ![Find(tbl, a)].val = v] ELSE Add(tbl, a, v)
Learn(tbl, a, v) == IF Known(tbl, a) THEN tbl ELSE Add(tbl, a, v)

-----------------------------------------------------------------------------
(* Every entry is where a search for it passes, and it is the only one of  *)
(* its address.                                                            *)
Consistent(tbl) ==
  /\ \A i \in Slot : i >= Home[tbl[i].key]
  /\ \A i, j \in Slot :
       tbl[i].key = tbl[j].key => tbl[i].key = NoAddr \/ i = j

(* What changes from tbl to new is one slot at most, and an address is     *)
(* forgotten only if a new one finds none of its slots free.               *)
ForgetsOnlyWhenFull(tbl, new) ==
  tbl # new => \A a \in Addr \ {NoAddr} :
    Known(tbl, a) /\ ~Known(new, a) =>
      \E b \in Addr : /\ ~Known(tbl, b) /\ Known(new, b)
                      /\ FreeFor(tbl, b) = {}
                      /\ Home[b] = Find(tbl, a)

(* An address that stays known keeps its value.                            *)
FirstClaimStands(tbl, new) ==
  tbl # new => \A a \in Addr \ {NoAddr} :
    Known(tbl, a) /\ Known(new, a) =>
      new[Find(new, a)] = tbl[Find(tbl, a)]
=============================================================================
