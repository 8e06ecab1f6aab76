--------------------------- MODULE EthernetProofs ---------------------------
(***************************************************************************)
(* Proofs about Ethernet, for every number of tasks, buffers and table     *)
(* slots.  The tables need no care of the callers; the lock and the        *)
(* buffers do.                                                             *)
(***************************************************************************)
EXTENDS Ethernet, ListLemmas

(* What learning an address does to an address table, for every size of    *)
(* the table and every hash.                                               *)

(* A non-empty set of naturals has a least element.                        *)
LEMMA MinIsLeast ==
  ASSUME NEW S \in SUBSET Nat, S # {}
  PROVE  Min(S) \in S /\ \A k \in S : Min(S) <= k
BY LeastNatural DEF Min

(* The slots probed for an address are slots.                              *)
LEMMA ProbedAreSlots ==
  ASSUME NEW a \in Addr
  PROVE  /\ Home[a] \in Slot /\ Home[a] \in Probed(a)
         /\ Probed(a) \subseteq Slot /\ Probed(a) \subseteq Nat
BY AddrTableAssumption DEF Slot, Probed

(* A known address is found in a slot that holds it.                       *)
LEMMA FindHoldsIt ==
  ASSUME NEW tbl, NEW a \in Addr, Known(tbl, a)
  PROVE  Find(tbl, a) \in Slot /\ tbl[Find(tbl, a)].key = a
<1>1. SlotsOf(tbl, a) \in SUBSET Nat /\ SlotsOf(tbl, a) # {}
  BY ProbedAreSlots DEF Known, SlotsOf
<1>2. Find(tbl, a) \in SlotsOf(tbl, a)
  BY <1>1, MinIsLeast DEF Find
<1> QED BY <1>2, ProbedAreSlots DEF SlotsOf

(* A new address gets one of the slots probed for it: a free one, or that  *)
(* of its hash if none is free.                                            *)
LEMMA SlotForIsProbed ==
  ASSUME NEW tbl, NEW a \in Addr
  PROVE  /\ SlotFor(tbl, a) \in Probed(a) /\ SlotFor(tbl, a) \in Slot
         /\ \/ tbl[SlotFor(tbl, a)].key = NoAddr
            \/ FreeFor(tbl, a) = {} /\ SlotFor(tbl, a) = Home[a]
<1>1. CASE FreeFor(tbl, a) # {}
  <2>1. FreeFor(tbl, a) \in SUBSET Nat
    BY ProbedAreSlots DEF FreeFor
  <2>2. SlotFor(tbl, a) \in FreeFor(tbl, a)
    BY <1>1, <2>1, MinIsLeast DEF SlotFor
  <2> QED BY <2>2, ProbedAreSlots DEF FreeFor
<1>2. CASE FreeFor(tbl, a) = {}
  BY <1>2, ProbedAreSlots DEF SlotFor
<1> QED BY <1>1, <1>2

(* Adding changes one slot.                                                *)
LEMMA AddChangesOneSlot ==
  ASSUME NEW tbl \in Table, NEW a \in Addr, NEW v \in Addr
  PROVE  /\ Add(tbl, a, v) \in Table
         /\ Add(tbl, a, v)[SlotFor(tbl, a)].key = a
         /\ \A i \in Slot : i # SlotFor(tbl, a) => Add(tbl, a, v)[i] = tbl[i]
BY SlotForIsProbed DEF Add, Table

(* The empty table is consistent.                                          *)
LEMMA EmptyTableConsistent == EmptyTable \in Table /\ Consistent(EmptyTable)
BY AddrTableAssumption DEF EmptyTable, Table, Consistent, Slot

(* Learning yields a table that knows the address (so that a handler that  *)
(* answers its sender finds it).                                           *)
LEMMA LearntIsKnown ==
  ASSUME NEW tbl \in Table, NEW a \in Addr, NEW v \in Addr
  PROVE  Learn(tbl, a, v) \in Table /\ Known(Learn(tbl, a, v), a)
<1>1. CASE Known(tbl, a)
  BY <1>1 DEF Learn
<1>2. CASE ~Known(tbl, a)
  <2>1. Learn(tbl, a, v) = Add(tbl, a, v)
    BY <1>2 DEF Learn
  <2>2. SlotFor(tbl, a) \in SlotsOf(Add(tbl, a, v), a)
    BY SlotForIsProbed, AddChangesOneSlot DEF SlotsOf
  <2> QED BY <2>1, <2>2, AddChangesOneSlot DEF Known
<1> QED BY <1>1, <1>2

(* Learning keeps a table searchable and without duplicates.               *)
LEMMA LearnKeepsConsistent ==
  ASSUME NEW tbl \in Table, Consistent(tbl), NEW a \in Addr, NEW v \in Addr
  PROVE  Consistent(Learn(tbl, a, v))
<1>1. CASE Known(tbl, a)
  BY <1>1 DEF Learn
<1>2. CASE ~Known(tbl, a)
  <2> DEFINE new == Add(tbl, a, v)
             s == SlotFor(tbl, a)
  <2>1. Learn(tbl, a, v) = new
    BY <1>2 DEF Learn
  <2>2. /\ s \in Slot /\ s >= Home[a] /\ new[s].key = a
        /\ \A i \in Slot : i # s => new[i] = tbl[i]
    BY SlotForIsProbed, AddChangesOneSlot, AddrTableAssumption DEF Probed
  <2>3. \A i \in Slot : tbl[i].key # a \/ i < Home[a]
    BY <1>2, AddrTableAssumption DEF Known, SlotsOf, Probed, Slot
  <2> HIDE DEF new, s
  <2>4. \A i \in Slot : i >= Home[new[i].key]
    BY <2>2 DEF Consistent
  <2>5. ASSUME NEW i \in Slot, NEW j \in Slot, new[i].key = new[j].key
        PROVE  new[i].key = NoAddr \/ i = j
    <3>1. \A k \in Slot : k # s => new[k].key # a
      <4> SUFFICES ASSUME NEW k \in Slot, k # s, tbl[k].key = a
                   PROVE  FALSE
        BY <2>2
      <4>1. k >= Home[a]
        BY DEF Consistent
      <4> QED BY <4>1, <2>3, AddrTableAssumption DEF Slot
    <3>2. CASE i = s \/ j = s
      BY <2>2, <2>5, <3>1, <3>2
    <3>3. CASE i # s /\ j # s
      BY <2>2, <2>5, <3>3 DEF Consistent
    <3> QED BY <3>2, <3>3
  <2> QED BY <2>1, <2>4, <2>5 DEF Consistent
<1> QED BY <1>1, <1>2

(* Learning leaves every other known address where it is, but for the one  *)
(* in the slot of the hash when no slot is free.                           *)
LEMMA LearnForgetsOnlyWhenFull ==
  ASSUME NEW tbl \in Table, NEW a \in Addr, NEW v \in Addr
  PROVE  ForgetsOnlyWhenFull(tbl, Learn(tbl, a, v))
<1> DEFINE new == Learn(tbl, a, v)
           s == SlotFor(tbl, a)
<1> SUFFICES ASSUME NEW b \in Addr, b # NoAddr, Known(tbl, b), ~Known(new, b)
             PROVE  /\ ~Known(tbl, a) /\ Known(new, a)
                    /\ FreeFor(tbl, a) = {} /\ Home[a] = Find(tbl, b)
  BY DEF ForgetsOnlyWhenFull
<1>1. ~Known(tbl, a) /\ new = Add(tbl, a, v)
  BY DEF Learn
<1>2. PICK i \in Probed(b) : i = Find(tbl, b) /\ tbl[i].key = b
  <2>1. SlotsOf(tbl, b) \in SUBSET Nat /\ SlotsOf(tbl, b) # {}
    BY ProbedAreSlots DEF Known, SlotsOf
  <2>2. Find(tbl, b) \in SlotsOf(tbl, b)
    BY <2>1, MinIsLeast DEF Find
  <2> QED BY <2>2 DEF SlotsOf
<1>3. i = s
  <2> SUFFICES ASSUME i # s
               PROVE  Known(new, b)
    OBVIOUS
  <2>1. i \in Slot
    BY <1>2, ProbedAreSlots
  <2>2. new[i] = tbl[i]
    BY <1>1, <2>1, AddChangesOneSlot
  <2>3. new[i].key = b
    BY <1>2, <2>2
  <2> QED BY <2>3 DEF Known, SlotsOf
<1>4. FreeFor(tbl, a) = {} /\ s = Home[a]
  BY <1>2, <1>3, SlotForIsProbed
<1> QED BY <1>1, <1>2, <1>3, <1>4, LearntIsKnown

(* Learning never changes the value of an address that stays known.        *)
LEMMA LearnKeepsFirstClaim ==
  ASSUME NEW tbl \in Table, Consistent(tbl), NEW a \in Addr, NEW v \in Addr
  PROVE  FirstClaimStands(tbl, Learn(tbl, a, v))
<1> DEFINE new == Learn(tbl, a, v)
           s == SlotFor(tbl, a)
<1> SUFFICES ASSUME NEW b \in Addr, b # NoAddr, Known(tbl, b), Known(new, b),
                    ~Known(tbl, a)
             PROVE  new[Find(new, b)] = tbl[Find(tbl, b)]
  BY DEF FirstClaimStands, Learn
<1>1. new = Add(tbl, a, v) /\ a # b
  BY DEF Learn
<1>2. /\ Find(tbl, b) \in Slot /\ tbl[Find(tbl, b)].key = b
      /\ Find(new, b) \in Slot /\ new[Find(new, b)].key = b
  BY FindHoldsIt
<1>3. new[s].key = a /\ \A i \in Slot : i # s => new[i] = tbl[i]
  BY <1>1, AddChangesOneSlot
<1>4. new[Find(new, b)] = tbl[Find(new, b)]
  BY <1>1, <1>2, <1>3
<1>5. Find(new, b) = Find(tbl, b)
  BY <1>2, <1>4 DEF Consistent
<1> QED BY <1>4, <1>5

-----------------------------------------------------------------------------
(* A task that sends knows what it was asked to send.                      *)
Types ==
  TypeOK /\ \A t \in Task : pc[t] # "idle" => call[t] \in Call

(* First invariant: what holds for any callers.                            *)
TInv == Types /\ TablesConsistent /\ NoDiscoveryInHandler

(* A task that holds the lock, and one that may write to the driver's      *)
(* buffer without it.                                                      *)
Holds(t) == pc[t] \in BehindLock /\ part[t] = 0
Unsure(t) ==
  \/ pc[t] = "resolve" /\ ~Known(arp_tbl, call[t].to)
  \/ pc[t] \in {"udp_discover", "udp_request"}

(* Second invariant, for careful callers, as long as the driver has had a  *)
(* buffer whenever it was asked for one.  A task that asks for its peer   *)
(* and one that sends fragments are alone,                                 *)
Solo ==
  \A t \in Task :
    Unsure(t) \/ (pc[t] # "idle" /\ call[t].long) => Alone(t)

(* further fragments are those of long datagrams, behind the lock,         *)
Fragments ==
  \A t \in Task : part[t] = 1 => pc[t] \in BehindLock /\ call[t].long

(* nobody is behind the lock without knowing its peer,                     *)
PeersKnown ==
  \A t \in Task :
    /\ pc[t] \notin {"set", "ip_discover", "ip_request", "ip_await"}
    /\ pc[t] \in {"test", "fragment", "fill", "find", "transmit"} =>
         Known(arp_tbl, call[t].to)

(* the lock has one holder, if any,                                        *)
LockHeld ==
  /\ send_locked => \E t \in Task : Holds(t)
  /\ \A t \in Task : Holds(t) =>
       send_locked /\ \A u \in Task : Holds(u) => u = t

(* and the driver's buffer is the holder's.                                *)
BufferHeld ==
  \A t \in Task : Holds(t) =>
    /\ pc[t] = "fill" => buf[t] = curr_td
    /\ pc[t] \in {"find", "transmit"} => xmit[curr_td] = Datagram(t)

SInv ==
  /\ Solo /\ Fragments /\ PeersKnown
  /\ LockHeld /\ BufferHeld

-----------------------------------------------------------------------------
(* Types, tables and handlers, whatever the callers do.                    *)

LEMMA PacketTypes ==
  ASSUME Types, NEW t \in Task, pc[t] # "idle"
  PROVE  Request(t) \in Packet /\ Datagram(t) \in Packet
<1>1. call[t].to \in Peer
  <2>1. call[t] \in Call
    BY DEF Types
  <2> QED BY <2>1 DEF Call
<1>2. part[t] \in {0, 1}
  BY DEF Types, TypeOK
<1> QED BY <1>1, <1>2 DEF Request, Datagram, Packet

(* What the driver does with its buffers keeps their types.                *)
LEMMA DriverTypes ==
  ASSUME TypeOK, Sends \/ Refuses
  PROVE  curr_td' \in Td /\ xmit' \in [Td -> Packet \cup {Other}]
<1>1. curr_td \in Td /\ xmit \in [Td -> Packet \cup {Other}]
  BY DEF TypeOK
<1>2. (curr_td + 1) % NumTd \in Td
  <2>1. curr_td + 1 \in Nat /\ NumTd \in Nat \ {0}
    BY <1>1, EthernetAssumption DEF Td
  <2>2. \A i \in Nat, n \in Nat \ {0} : i % n \in 0..n - 1
    OBVIOUS
  <2> QED BY <2>1, <2>2 DEF Td
<1>3. CASE Sends
  BY <1>1, <1>2, <1>3 DEF Sends
<1>4. CASE Refuses
  BY <1>1, <1>4 DEF Refuses, driver
<1> QED BY <1>3, <1>4

LEMMA AnswerTypes ==
  ASSUME TypeOK, SendAnswer \/ UNCHANGED <<driver, lock>>
  PROVE  /\ curr_td' \in Td /\ xmit' \in [Td -> Packet \cup {Other}]
         /\ send_locked' \in BOOLEAN /\ dry' \in BOOLEAN
<1>1. ASSUME Sends \/ UNCHANGED driver
      PROVE  curr_td' \in Td /\ xmit' \in [Td -> Packet \cup {Other}]
  BY <1>1, DriverTypes DEF Refuses
<1>2. ASSUME xmit' = [xmit EXCEPT ![curr_td] = Other], UNCHANGED curr_td
      PROVE  curr_td' \in Td /\ xmit' \in [Td -> Packet \cup {Other}]
  BY <1>2 DEF TypeOK
<1>3. send_locked' \in BOOLEAN /\ dry' \in BOOLEAN
  BY DEF SendAnswer, TypeOK, lock
<1> QED BY <1>1, <1>2, <1>3 DEF SendAnswer, driver, lock

LEMMA ReturnTypes ==
  ASSUME Types, NEW t \in Task, Return(t)
  PROVE  /\ pc' \in [Task -> BeforeLock \cup BehindLock \cup {"idle"}]
         /\ call' \in [Task -> Call \cup {NoCall}] /\ part' \in [Task -> {0, 1}]
         /\ buf' \in [Task -> Td \cup {NoBuffer}]
         /\ \A u \in Task : pc'[u] # "idle" => call'[u] \in Call
BY EthernetAssumption, AddrTableAssumption
   DEF Types, TypeOK, Return, Goto, Td, Slot

(* Learning keeps the tables.                                              *)
LEMMA SourceLearnt ==
  ASSUME Types, NEW src \in Mac, LearnSource(src)
  PROVE  eth_tbl' \in Table /\ (Consistent(eth_tbl) => Consistent(eth_tbl'))
<1>1. src \in Addr /\ eth_tbl \in Table
  BY EthernetAssumption DEF Types, TypeOK
<1> QED BY <1>1, LearntIsKnown, LearnKeepsConsistent DEF LearnSource

LEMMA PeerLearnt ==
  ASSUME Types, NEW ip \in Ip, NEW hw \in Mac,
         arp_tbl' = Learn(arp_tbl, ip, hw)
  PROVE  /\ arp_tbl' \in Table /\ Known(arp_tbl', ip)
         /\ Consistent(arp_tbl) => Consistent(arp_tbl')
         /\ ForgetsOnlyWhenFull(arp_tbl, arp_tbl')
         /\ Consistent(arp_tbl) => FirstClaimStands(arp_tbl, arp_tbl')
<1>1. ip \in Addr /\ hw \in Addr /\ arp_tbl \in Table
  BY EthernetAssumption DEF Types, TypeOK
<1> QED
  BY <1>1, LearntIsKnown, LearnKeepsConsistent, LearnForgetsOnlyWhenFull,
     LearnKeepsFirstClaim

LEMMA HandlerKeepsTypes ==
  ASSUME TInv, Handler
  PROVE  TInv'
<1> USE DEF TInv
<1>1. PICK src \in Mac :
        \/ ArpRequest(src)
        \/ \E ip \in Ip, hw \in Mac : ArpReply(src, ip, hw)
        \/ \E ip \in Ip : IpPacket(src, ip)
  BY DEF Handler
<1>2. CASE ArpRequest(src)
  <2>1. eth_tbl' \in Table /\ Consistent(eth_tbl')
    BY <1>2, SourceLearnt DEF ArpRequest, TablesConsistent
  <2>2. /\ curr_td' \in Td /\ xmit' \in [Td -> Packet \cup {Other}]
        /\ send_locked' \in BOOLEAN /\ dry' \in BOOLEAN
    BY <1>2, AnswerTypes DEF ArpRequest, Types
  <2> QED
    BY <1>2, <2>1, <2>2
       DEF ArpRequest, Types, TypeOK, locals, TablesConsistent,
           NoDiscoveryInHandler
<1>3. ASSUME NEW ip \in Ip, NEW hw \in Mac, ArpReply(src, ip, hw)
      PROVE  TInv'
  <2>1. eth_tbl' \in Table /\ Consistent(eth_tbl')
    BY <1>3, SourceLearnt DEF ArpReply, TablesConsistent
  <2>2. arp_tbl' \in Table /\ Consistent(arp_tbl')
    BY <1>3, PeerLearnt DEF ArpReply, TablesConsistent
  <2> QED
    BY <1>3, <2>1, <2>2
       DEF ArpReply, Types, TypeOK, locals, driver, lock, TablesConsistent,
           NoDiscoveryInHandler
<1>4. ASSUME NEW ip \in Ip, IpPacket(src, ip)
      PROVE  TInv'
  <2>1. eth_tbl' \in Table /\ Consistent(eth_tbl')
    BY <1>4, SourceLearnt DEF IpPacket, TablesConsistent
  <2>2. arp_tbl' \in Table /\ Consistent(arp_tbl') /\ Known(arp_tbl', ip)
    BY <1>4, PeerLearnt DEF IpPacket, TablesConsistent
  <2>3. (SendAnswer \/ UNCHANGED <<driver, lock>>) /\ UNCHANGED irq_discovers
    BY <1>4, <2>2 DEF IpPacket, IpAnswer
  <2>4. /\ curr_td' \in Td /\ xmit' \in [Td -> Packet \cup {Other}]
        /\ send_locked' \in BOOLEAN /\ dry' \in BOOLEAN
    BY <2>3, AnswerTypes DEF Types
  <2> QED
    BY <1>4, <2>1, <2>2, <2>3, <2>4
       DEF IpPacket, Types, TypeOK, locals, TablesConsistent,
           NoDiscoveryInHandler
<1> QED BY <1>1, <1>2, <1>3, <1>4

LEMMA TaskKeepsTypes ==
  ASSUME Types, NEW t \in Task, Step(t) \/ \E c \in Call : Send(t, c)
  PROVE  Types' /\ UNCHANGED <<tables, irq_discovers>>
<1> USE DEF Types, TypeOK, tables, driver, lock, Goto
<1>1. ASSUME NEW c \in Call, Send(t, c)
      PROVE  Types' /\ UNCHANGED <<tables, irq_discovers>>
  BY <1>1 DEF Send, BeforeLock
<1>2. CASE Resolve(t)
  BY <1>2 DEF Resolve, BeforeLock
<1>3. CASE Discover(t)
  <2>1. Request(t) \in Packet
    BY <1>3, PacketTypes DEF Discover, DiscoverFrom
  <2> QED BY <1>3, <2>1 DEF Discover, DiscoverFrom, BeforeLock, BehindLock
<1>4. CASE SendRequest(t)
  <2>1. curr_td' \in Td /\ xmit' \in [Td -> Packet \cup {Other}]
    BY <1>4, DriverTypes DEF SendRequest
  <2> QED BY <1>4, <2>1 DEF SendRequest, BeforeLock, BehindLock
<1>5. CASE Discovered(t)
  <2>1. CASE Return(t)
    BY <1>5, <2>1, ReturnTypes DEF Discovered
  <2>2. CASE pc[t] = "udp_await" /\ Known(arp_tbl, call[t].to)
    BY <1>5, <2>2 DEF Discovered, BeforeLock
  <2>3. CASE pc[t] = "ip_await" /\ Known(arp_tbl, call[t].to)
    BY <1>5, <2>3 DEF Discovered, BehindLock
  <2> QED BY <1>5, <2>1, <2>2, <2>3 DEF Discovered
<1>6. CASE TestLock(t)
  <2>1. CASE Return(t)
    BY <1>6, <2>1, ReturnTypes DEF TestLock
  <2>2. CASE Goto(t, "set") /\ UNCHANGED <<call, part, buf>>
    BY <1>6, <2>2 DEF TestLock, BeforeLock
  <2> QED BY <1>6, <2>1, <2>2 DEF TestLock
<1>7. CASE SetLock(t)
  <2>1. CASE Return(t)
    BY <1>7, <2>1, ReturnTypes DEF SetLock
  <2>2. CASE ~Return(t)
    BY <1>7, <2>2 DEF SetLock, BehindLock
  <2> QED BY <2>1, <2>2
<1>8. CASE Fragment(t)
  BY <1>8 DEF Fragment, BehindLock
<1>9. CASE Fill(t)
  <2>1. Datagram(t) \in Packet
    BY <1>9, PacketTypes DEF Fill
  <2> QED BY <1>9, <2>1 DEF Fill, BehindLock
<1>10. CASE FindPeer(t)
  BY <1>10 DEF FindPeer, BehindLock
<1>11. CASE Transmit(t)
  <2>1. curr_td' \in Td /\ xmit' \in [Td -> Packet \cup {Other}]
    BY <1>11, DriverTypes DEF Transmit
  <2>2. CASE Return(t)
    BY <1>11, <2>1, <2>2, ReturnTypes DEF Transmit
  <2>3. CASE ~Return(t)
    BY <1>11, <2>1, <2>3 DEF Transmit, Transmitted, BehindLock
  <2> QED BY <2>2, <2>3
<1> QED
  BY <1>1, <1>2, <1>3, <1>4, <1>5, <1>6, <1>7, <1>8, <1>9, <1>10, <1>11
     DEF Step

LEMMA InitTypes ==
  ASSUME Init
  PROVE  TInv
<1>1. EmptyTable \in Table /\ Consistent(EmptyTable)
  BY EmptyTableConsistent
<1>2. 0 \in Td /\ 0 \in Slot
  BY EthernetAssumption, AddrTableAssumption DEF Td, Slot
<1>3. TablesConsistent /\ NoDiscoveryInHandler
  BY <1>1 DEF Init, TablesConsistent, NoDiscoveryInHandler
<1>4. TypeOK
  BY <1>1, <1>2 DEF Init, TypeOK
<1>5. \A t \in Task : pc[t] = "idle"
  BY DEF Init
<1> QED BY <1>3, <1>4, <1>5 DEF TInv, Types

LEMMA NextKeepsTypes ==
  ASSUME TInv, [Next]_vars
  PROVE  TInv'
<1>1. CASE Handler
  BY <1>1, HandlerKeepsTypes
<1>2. ASSUME NEW t \in Task, Step(t) \/ \E c \in Call : Send(t, c)
      PROVE  TInv'
  BY <1>2, TaskKeepsTypes
     DEF TInv, TablesConsistent, NoDiscoveryInHandler, tables
<1>3. CASE UNCHANGED vars
  BY <1>3 DEF vars, TInv, Types, TypeOK, TablesConsistent,
              NoDiscoveryInHandler
<1> QED BY <1>1, <1>2, <1>3 DEF Next

(* The ARP table changes only where a handler learns.                      *)
LEMMA OnlyHandlersLearn ==
  ASSUME TInv, [Next]_vars
  PROVE  \/ UNCHANGED arp_tbl
         \/ \E ip \in Ip, hw \in Mac : arp_tbl' = Learn(arp_tbl, ip, hw)
<1>1. CASE Handler
  BY <1>1 DEF Handler, ArpRequest, ArpReply, IpPacket
<1>2. ASSUME NEW t \in Task, Step(t) \/ \E c \in Call : Send(t, c)
      PROVE  UNCHANGED arp_tbl
  BY <1>2, TaskKeepsTypes DEF TInv, tables
<1>3. CASE UNCHANGED vars
  BY <1>3 DEF vars
<1> QED BY <1>1, <1>2, <1>3 DEF Next

(* Every variable has its type, for any callers.                           *)
THEOREM TypeCorrect == Spec => []TypeOK
<1>1. Init => TInv
  BY InitTypes
<1>2. TInv /\ [Next]_vars => TInv'
  BY NextKeepsTypes
<1>3. TInv => TypeOK
  BY DEF TInv, Types
<1> QED BY <1>1, <1>2, <1>3, PTL DEF Spec

(* The address tables stay searchable and without duplicates, for any hash *)
(* and any size, whatever is received.                                     *)
THEOREM TablesStayConsistent == Spec => []TablesConsistent
<1>1. Init => TInv
  BY InitTypes
<1>2. TInv /\ [Next]_vars => TInv'
  BY NextKeepsTypes
<1>3. TInv => TablesConsistent
  BY DEF TInv
<1> QED BY <1>1, <1>2, <1>3, PTL DEF Spec

(* No handler that answers a packet calls arp_discover().                  *)
THEOREM HandlersFindTheirPeer == Spec => []NoDiscoveryInHandler
<1>1. Init => TInv
  BY InitTypes
<1>2. TInv /\ [Next]_vars => TInv'
  BY NextKeepsTypes
<1>3. TInv => NoDiscoveryInHandler
  BY DEF TInv
<1> QED BY <1>1, <1>2, <1>3, PTL DEF Spec

(* An address is forgotten only by one that finds all of its slots taken.  *)
THEOREM OnlyFullTablesForget == Spec => PeersAreKept
<1>1. Init => TInv
  BY InitTypes
<1>2. TInv /\ [Next]_vars => TInv'
  BY NextKeepsTypes
<1>3. TInv /\ [Next]_vars => [ForgetsOnlyWhenFull(arp_tbl, arp_tbl')]_vars
  <2> SUFFICES ASSUME TInv, [Next]_vars
               PROVE  ForgetsOnlyWhenFull(arp_tbl, arp_tbl')
    OBVIOUS
  <2>1. CASE UNCHANGED arp_tbl
    BY <2>1 DEF ForgetsOnlyWhenFull
  <2>2. CASE ~UNCHANGED arp_tbl
    <3>1. PICK ip \in Ip, hw \in Mac : arp_tbl' = Learn(arp_tbl, ip, hw)
      BY <2>2, OnlyHandlersLearn
    <3> QED BY <3>1, PeerLearnt DEF TInv
  <2> QED BY <2>1, <2>2
<1> QED BY <1>1, <1>2, <1>3, PTL DEF Spec, PeersAreKept

(* A second claim of a known address is ignored.                           *)
THEOREM FirstClaimWins == Spec => NewcomerIgnored
<1>1. Init => TInv
  BY InitTypes
<1>2. TInv /\ [Next]_vars => TInv'
  BY NextKeepsTypes
<1>3. TInv /\ [Next]_vars => [FirstClaimStands(arp_tbl, arp_tbl')]_vars
  <2> SUFFICES ASSUME TInv, [Next]_vars
               PROVE  FirstClaimStands(arp_tbl, arp_tbl')
    OBVIOUS
  <2>1. CASE UNCHANGED arp_tbl
    BY <2>1 DEF FirstClaimStands
  <2>2. CASE ~UNCHANGED arp_tbl
    <3>1. PICK ip \in Ip, hw \in Mac : arp_tbl' = Learn(arp_tbl, ip, hw)
      BY <2>2, OnlyHandlersLearn
    <3> QED BY <3>1, PeerLearnt DEF TInv, TablesConsistent
  <2> QED BY <2>1, <2>2
<1> QED BY <1>1, <1>2, <1>3, PTL DEF Spec, NewcomerIgnored
-----------------------------------------------------------------------------
(* The lock and the buffers, for careful callers.                          *)

LEMMA InitShares ==
  ASSUME Init
  PROVE  SInv
BY DEF Init, SInv, Solo, Unsure, Fragments, PeersKnown, LockHeld,
       BufferHeld, Holds, BehindLock

LEMMA StutterShares ==
  ASSUME SInv, UNCHANGED vars
  PROVE  SInv'
BY DEF vars, SInv, Solo, Alone, Unsure, Fragments, PeersKnown, LockHeld,
       BufferHeld, Holds, Datagram

(* A handler sends nothing while the lock is set, changes nothing of a     *)
(* task, and leaves the peers of those that send where they are.           *)
LEMMA HandlerShares ==
  ASSUME Careful, TInv, SInv, ~dry', Handler
  PROVE  SInv'
<1>1. UNCHANGED <<send_locked, locals>>
  BY DEF Handler, ArpRequest, ArpReply, IpPacket, IpAnswer, SendAnswer, lock
<1>2. send_locked => UNCHANGED driver
  BY DEF Handler, ArpRequest, ArpReply, IpPacket, IpAnswer, SendAnswer
<1>3. \A t \in Task :
        pc[t] # "idle" /\ Known(arp_tbl, call[t].to)
          => Known(arp_tbl', call[t].to)
  BY DEF Handler, ArpRequest, ArpReply, IpPacket, RoomForPeers
<1>4. \/ UNCHANGED arp_tbl
      \/ \E ip \in Ip, hw \in Mac : arp_tbl' = Learn(arp_tbl, ip, hw)
  BY OnlyHandlersLearn DEF Next
<1>5. Solo'
  BY <1>1, <1>3 DEF SInv, Solo, Unsure, Alone, locals
<1>6. Fragments'
  BY <1>1 DEF SInv, Fragments, locals
<1>7. PeersKnown'
  BY <1>1, <1>3 DEF SInv, PeersKnown, locals
<1>8. LockHeld'
  BY <1>1 DEF SInv, LockHeld, Holds, locals
<1>9. BufferHeld'
  <2> SUFFICES ASSUME NEW t \in Task, Holds(t)'
               PROVE  /\ (pc[t] = "fill" => buf[t] = curr_td)'
                      /\ (pc[t] \in {"find", "transmit"} =>
                            xmit[curr_td] = Datagram(t))'
    BY DEF BufferHeld
  <2>1. Holds(t) /\ send_locked
    BY <1>1 DEF SInv, LockHeld, Holds, locals
  <2>2. UNCHANGED driver
    BY <1>2, <2>1
  <2> QED
    BY <1>1, <2>1, <2>2 DEF SInv, BufferHeld, Datagram, locals, driver
<1> QED BY <1>5, <1>6, <1>7, <1>8, <1>9 DEF SInv

(* A task that may write to a buffer is the only one that sends, or the    *)
(* only one that holds the lock.                                           *)
LEMMA WritersAreAlone ==
  ASSUME TInv, SInv, NEW t \in Task, NEW u \in Task \ {t},
         Unsure(t) \/ pc[t] \in BehindLock
  PROVE  ~Holds(u)
<1>1. CASE Unsure(t) \/ (pc[t] # "idle" /\ call[t].long)
  <2>1. pc[u] = "idle"
    BY <1>1 DEF SInv, Solo, Alone
  <2> QED BY <2>1 DEF Holds, BehindLock
<1>2. CASE Holds(t)
  BY <1>2 DEF SInv, LockHeld
<1>3. CASE pc[t] \in BehindLock /\ part[t] = 1
  BY <1>1, <1>3 DEF SInv, Fragments, BehindLock
<1>4. part[t] \in {0, 1}
  BY DEF TInv, Types, TypeOK
<1> QED
  BY <1>1, <1>2, <1>3, <1>4 DEF Holds

(* What a step of one task leaves to the others.                           *)
Others(t) ==
  /\ \A u \in Task \ {t} :
       /\ pc'[u] = pc[u] /\ call'[u] = call[u] /\ part'[u] = part[u]
       /\ buf'[u] = buf[u]
  /\ UNCHANGED arp_tbl

LEMMA StepLeavesOthers ==
  ASSUME TInv, NEW t \in Task, Step(t) \/ \E c \in Call : Send(t, c)
  PROVE  Others(t)
<1> USE DEF TInv, Types, TypeOK, Goto, Others, tables
<1>1. ASSUME NEW c \in Call, Send(t, c)
      PROVE  Others(t)
  BY <1>1 DEF Send
<1>2. CASE Resolve(t)
  BY <1>2 DEF Resolve
<1>3. CASE Discover(t)
  BY <1>3 DEF Discover, DiscoverFrom
<1>4. CASE SendRequest(t)
  BY <1>4 DEF SendRequest
<1>5. CASE Discovered(t)
  BY <1>5 DEF Discovered, Return
<1>6. CASE TestLock(t)
  BY <1>6 DEF TestLock, Return
<1>7. CASE SetLock(t)
  BY <1>7 DEF SetLock, Return
<1>8. CASE Fragment(t)
  BY <1>8 DEF Fragment
<1>9. CASE Fill(t)
  BY <1>9 DEF Fill
<1>10. CASE FindPeer(t)
  BY <1>10 DEF FindPeer
<1>11. CASE Transmit(t)
  BY <1>11 DEF Transmit, Transmitted, Return
<1> QED
  BY <1>1, <1>2, <1>3, <1>4, <1>5, <1>6, <1>7, <1>8, <1>9, <1>10, <1>11
     DEF Step

(* A step of a task that sends keeps what it sends, or ends it; it becomes *)
(* unsure of its peer only if it was before.                               *)
LEMMA StepKeepsCall ==
  ASSUME TInv, NEW t \in Task, Step(t)
  PROVE  /\ pc[t] # "idle"
         /\ pc'[t] # "idle" => call'[t] = call[t]
         /\ pc'[t] # "resolve"
         /\ pc'[t] \in {"udp_discover", "udp_request"} => Unsure(t)
<1> USE DEF TInv, Types, TypeOK, Goto
<1>2. CASE Resolve(t)
  BY <1>2 DEF Resolve, Unsure
<1>3. CASE Discover(t)
  BY <1>3 DEF Discover, DiscoverFrom, Unsure
<1>4. CASE SendRequest(t)
  BY <1>4 DEF SendRequest
<1>5. CASE Discovered(t)
  BY <1>5 DEF Discovered, Return
<1>6. CASE TestLock(t)
  BY <1>6 DEF TestLock, Return
<1>7. CASE SetLock(t)
  BY <1>7 DEF SetLock, Return
<1>8. CASE Fragment(t)
  BY <1>8 DEF Fragment
<1>9. CASE Fill(t)
  BY <1>9 DEF Fill
<1>10. CASE FindPeer(t)
  BY <1>10 DEF FindPeer
<1>11. CASE Transmit(t)
  BY <1>11 DEF Transmit, Transmitted, Return
<1> QED
  BY <1>2, <1>3, <1>4, <1>5, <1>6, <1>7, <1>8, <1>9, <1>10, <1>11 DEF Step

LEMMA TaskStaysSolo ==
  ASSUME Careful, TInv, SInv, ~dry', NEW t \in Task,
         Step(t) \/ \E c \in Call : Send(t, c)
  PROVE  Solo'
<1>1. Others(t)
  BY StepLeavesOthers
<1> SUFFICES ASSUME NEW u \in Task,
                    Unsure(u)' \/ (pc'[u] # "idle" /\ call'[u].long),
                    NEW w \in Task \ {u}
             PROVE  pc'[w] = "idle"
  BY DEF Solo, Alone
<1>2. ASSUME u # t, Unsure(u) \/ (pc[u] # "idle" /\ call[u].long)
      PROVE  FALSE
  <2>1. pc[t] = "idle"
    BY <1>2 DEF SInv, Solo, Alone
  <2>2. PICK c \in Call : Send(t, c)
    BY <2>1, StepKeepsCall
  <2>3. MaySend(t, c)
    BY <2>2 DEF Send
  <2> QED BY <1>2, <2>3 DEF MaySend, Unsure
<1>3. CASE u # t
  <2>1. Unsure(u) \/ (pc[u] # "idle" /\ call[u].long)
    BY <1>1, <1>3 DEF Others, Unsure
  <2> QED BY <1>2, <1>3, <2>1
<1>4. CASE u = t /\ Step(t)
  <2>1. Unsure(t) \/ (pc[t] # "idle" /\ call[t].long)
    BY <1>4, StepKeepsCall DEF Unsure
  <2>2. pc[w] = "idle"
    BY <1>4, <2>1 DEF SInv, Solo, Alone
  <2> QED BY <1>1, <1>4, <2>2 DEF Others
<1>5. ASSUME u = t, NEW c \in Call, Send(t, c)
      PROVE  pc'[w] = "idle"
  <2>1. call'[t] = c /\ pc'[t] \in {"resolve", "test"} /\ UNCHANGED arp_tbl
    BY <1>5 DEF Send, TInv, Types, TypeOK, Goto, tables
  <2>2. NeedsAlone(c)
    BY <1>5, <2>1 DEF Unsure, NeedsAlone
  <2>3. MaySend(t, c)
    BY <1>5 DEF Send
  <2> QED BY <1>1, <1>5, <2>2, <2>3 DEF MaySend, Alone, Others
<1> QED BY <1>3, <1>4, <1>5

LEMMA TaskKeepsFragments ==
  ASSUME Careful, TInv, SInv, ~dry', NEW t \in Task,
         Step(t) \/ \E c \in Call : Send(t, c)
  PROVE  Fragments'
<1> USE DEF TInv, Types, TypeOK, SInv, Goto, Fragments, BehindLock
<1>0. Others(t)
  BY StepLeavesOthers
<1> SUFFICES part'[t] = 1 => pc'[t] \in BehindLock /\ call'[t].long
  BY <1>0 DEF Others
<1>1. ASSUME NEW c \in Call, Send(t, c)
      PROVE  part'[t] # 1
  BY <1>1 DEF Send
<1>2. CASE Resolve(t)
  BY <1>2 DEF Resolve
<1>3. CASE Discover(t)
  BY <1>3 DEF Discover, DiscoverFrom
<1>4. CASE SendRequest(t)
  BY <1>4 DEF SendRequest
<1>5. CASE Discovered(t)
  BY <1>5 DEF Discovered, Return
<1>6. CASE TestLock(t)
  BY <1>6 DEF TestLock, Return
<1>7. CASE SetLock(t)
  BY <1>7 DEF SetLock, Return
<1>8. CASE Fragment(t)
  BY <1>8 DEF Fragment
<1>9. CASE Fill(t)
  BY <1>9 DEF Fill
<1>10. CASE FindPeer(t)
  BY <1>10 DEF FindPeer
<1>11. CASE Transmit(t)
  BY <1>11 DEF Transmit, Transmitted, Return
<1> QED
  BY <1>1, <1>2, <1>3, <1>4, <1>5, <1>6, <1>7, <1>8, <1>9, <1>10, <1>11
     DEF Step

LEMMA TaskKnowsPeer ==
  ASSUME Careful, TInv, SInv, ~dry', NEW t \in Task,
         Step(t) \/ \E c \in Call : Send(t, c)
  PROVE  PeersKnown'
<1> USE DEF TInv, Types, TypeOK, SInv, Goto, PeersKnown
<1>0. Others(t)
  BY StepLeavesOthers
<1> SUFFICES
      /\ pc'[t] \notin {"set", "ip_discover", "ip_request", "ip_await"}
      /\ pc'[t] \in {"test", "fragment", "fill", "find", "transmit"} =>
           Known(arp_tbl, call'[t].to)
  BY <1>0 DEF Others
<1>1. ASSUME NEW c \in Call, Send(t, c)
      PROVE  /\ pc'[t] \in {"resolve", "test"}
             /\ pc'[t] = "test" => Known(arp_tbl, call'[t].to)
  <2>1. c.proto = "tcp" => Known(arp_tbl, c.to)
    BY <1>1 DEF Send, MaySend
  <2>2. c.proto # "udp" => c.proto = "tcp"
    BY DEF Call
  <2> QED BY <1>1, <2>1, <2>2 DEF Send
<1>2. CASE Resolve(t)
  BY <1>2 DEF Resolve
<1>3. CASE Discover(t)
  BY <1>3 DEF Discover, DiscoverFrom
<1>4. CASE SendRequest(t)
  BY <1>4 DEF SendRequest
<1>5. CASE Discovered(t)
  BY <1>5 DEF Discovered, Return
<1>6. CASE TestLock(t)
  BY <1>6 DEF TestLock, Return
<1>7. CASE SetLock(t)
  BY <1>7 DEF SetLock, Return
<1>8. CASE Fragment(t)
  BY <1>8 DEF Fragment
<1>9. CASE Fill(t)
  BY <1>9 DEF Fill
<1>10. CASE FindPeer(t)
  BY <1>10 DEF FindPeer
<1>11. CASE Transmit(t)
  BY <1>11 DEF Transmit, Transmitted, Return
<1> QED
  BY <1>1, <1>2, <1>3, <1>4, <1>5, <1>6, <1>7, <1>8, <1>9, <1>10, <1>11
     DEF Step

(* The lock changes only where it is set and where a frame is sent.        *)
LEMMA LockUntouched ==
  ASSUME Careful, TInv, SInv, ~dry', NEW t \in Task,
         Step(t) \/ \E c \in Call : Send(t, c), ~SetLock(t), ~Transmit(t)
  PROVE  /\ UNCHANGED send_locked
         /\ Holds(t)' <=> Holds(t)
<1> USE DEF TInv, Types, TypeOK, SInv, PeersKnown, Goto, Holds, BehindLock, lock
<1>1. ASSUME NEW c \in Call, Send(t, c)
      PROVE  UNCHANGED send_locked /\ (Holds(t)' <=> Holds(t))
  BY <1>1 DEF Send
<1>2. CASE Resolve(t)
  BY <1>2 DEF Resolve
<1>3. CASE Discover(t)
  BY <1>3 DEF Discover, DiscoverFrom
<1>4. CASE SendRequest(t)
  BY <1>4 DEF SendRequest
<1>5. CASE Discovered(t)
  BY <1>5 DEF Discovered, Return
<1>6. CASE TestLock(t)
  BY <1>6 DEF TestLock, Return
<1>8. CASE Fragment(t)
  BY <1>8 DEF Fragment
<1>9. CASE Fill(t)
  BY <1>9 DEF Fill
<1>10. CASE FindPeer(t)
  BY <1>10 DEF FindPeer
<1> QED
  BY <1>1, <1>2, <1>3, <1>4, <1>5, <1>6, <1>8, <1>9, <1>10 DEF Step

LEMMA TaskKeepsLock ==
  ASSUME Careful, TInv, SInv, ~dry', NEW t \in Task,
         Step(t) \/ \E c \in Call : Send(t, c)
  PROVE  LockHeld'
<1>0. Others(t)
  BY StepLeavesOthers
<1>1. \A u \in Task \ {t} : Holds(u)' <=> Holds(u)
  BY <1>0 DEF Others, Holds
<1>2. CASE ~SetLock(t) /\ ~Transmit(t)
  <2>1. UNCHANGED send_locked /\ (Holds(t)' <=> Holds(t))
    BY <1>2, LockUntouched
  <2>2. \A u \in Task : Holds(u)' <=> Holds(u)
    BY <1>1, <2>1
  <2> QED BY <2>1, <2>2 DEF SInv, LockHeld
<1>3. CASE SetLock(t)
  <2>1. ~send_locked /\ send_locked'
    BY <1>3 DEF SetLock, SInv, PeersKnown
  <2>2. \A u \in Task : ~Holds(u)
    BY <2>1 DEF SInv, LockHeld
  <2>3. part[t] = 0
    BY <1>3 DEF SetLock, SInv, Fragments, BehindLock, TInv, Types, TypeOK
  <2>4. Holds(t)'
    BY <1>3, <2>3 DEF SetLock, Goto, Holds, BehindLock, TInv, Types, TypeOK
  <2> QED
    BY <1>1, <2>1, <2>2, <2>4 DEF LockHeld, Holds
<1>4. CASE Transmit(t)
  <2>1. pc[t] = "transmit" /\ ~send_locked'
    BY <1>4 DEF Transmit
  <2>2. \A u \in Task \ {t} : ~Holds(u)
    BY <2>1, WritersAreAlone DEF BehindLock
  <2>3. ~Holds(t)'
    BY <1>4 DEF Transmit, Transmitted, Return, Goto, Holds, BehindLock,
                TInv, Types, TypeOK
  <2> QED BY <1>1, <2>1, <2>2, <2>3 DEF LockHeld
<1> QED BY <1>2, <1>3, <1>4

(* Whoever holds the lock keeps its buffer while others take their steps,  *)
LEMMA OthersKeepBuffer ==
  ASSUME TInv, SInv, NEW t \in Task, Step(t) \/ \E c \in Call : Send(t, c),
         NEW u \in Task \ {t}, Holds(u)
  PROVE  UNCHANGED driver
<1>0. ~Unsure(t) /\ pc[t] \notin BehindLock
  BY WritersAreAlone
<1>1. pc[t] \notin {"udp_discover", "udp_request", "ip_discover", "ip_request",
                    "fill", "transmit"}
  BY <1>0 DEF Unsure, BehindLock
<1> QED
  BY <1>1 DEF Step, Resolve, Discover, DiscoverFrom, SendRequest, Discovered,
              TestLock, SetLock, Fragment, Fill, FindPeer, Transmit, Send

(* and its own steps put the datagram there.                               *)
LEMMA TaskKeepsBuffer ==
  ASSUME Careful, TInv, SInv, ~dry', NEW t \in Task,
         Step(t) \/ \E c \in Call : Send(t, c)
  PROVE  BufferHeld'
<1>0. Others(t)
  BY StepLeavesOthers
<1>1. ASSUME NEW u \in Task \ {t}, Holds(u)'
      PROVE  /\ (pc[u] = "fill" => buf[u] = curr_td)'
             /\ (pc[u] \in {"find", "transmit"} =>
                   xmit[curr_td] = Datagram(u))'
  <2>1. Holds(u)
    BY <1>0, <1>1 DEF Others, Holds
  <2>2. UNCHANGED driver
    BY <2>1, OthersKeepBuffer
  <2> QED
    BY <1>0, <2>1, <2>2 DEF Others, driver, SInv, BufferHeld, Datagram
<1>2. ASSUME Holds(t)'
      PROVE  /\ (pc[t] = "fill" => buf[t] = curr_td)'
             /\ (pc[t] \in {"find", "transmit"} =>
                   xmit[curr_td] = Datagram(t))'
  <2> USE <1>2 DEF TInv, Types, TypeOK, Goto, Holds, BehindLock, Datagram,
                   driver
  <2>1. CASE SetLock(t)
    BY <2>1 DEF SetLock, Return
  <2>2. CASE Fragment(t)
    BY <2>2 DEF Fragment
  <2>3. CASE Fill(t)
    <3>1. buf[t] = curr_td /\ curr_td # NoBuffer
      BY <2>3, EthernetAssumption DEF Fill, SInv, BufferHeld, Td, NoBuffer
    <3> QED BY <2>3, <3>1 DEF Fill
  <2>4. CASE FindPeer(t)
    BY <2>4 DEF FindPeer, SInv, BufferHeld
  <2>5. CASE Transmit(t)
    BY <2>5 DEF Transmit, Transmitted, Return
  <2>6. CASE Discovered(t)
    BY <2>6 DEF Discovered, Return, SInv, PeersKnown
  <2>7. CASE ~Step(t) \/ Resolve(t) \/ Discover(t) \/ SendRequest(t)
             \/ TestLock(t)
    BY <2>7 DEF Send, Resolve, Discover, DiscoverFrom, SendRequest, TestLock,
                Return, SInv, PeersKnown
  <2> QED
    BY <2>1, <2>2, <2>3, <2>4, <2>5, <2>6, <2>7 DEF Step
<1> QED BY <1>1, <1>2 DEF BufferHeld

LEMMA NextShares ==
  ASSUME Careful, TInv, SInv, ~dry', [Next]_vars
  PROVE  SInv'
<1>1. ASSUME NEW t \in Task, Step(t) \/ \E c \in Call : Send(t, c)
      PROVE  SInv'
  BY <1>1, TaskStaysSolo, TaskKeepsFragments, TaskKnowsPeer, TaskKeepsLock,
     TaskKeepsBuffer DEF SInv
<1> QED BY <1>1, HandlerShares, StutterShares DEF Next

(* A buffer that was missed is not forgotten.                              *)
LEMMA DryStays ==
  ASSUME [Next]_vars, ~dry'
  PROVE  ~dry
<1>1. CASE Handler
  BY <1>1 DEF Handler, ArpRequest, ArpReply, IpPacket, IpAnswer, SendAnswer, lock
<1>2. ASSUME NEW t \in Task, Step(t) \/ \E c \in Call : Send(t, c)
      PROVE  ~dry
  BY <1>2 DEF Step, Resolve, Discover, DiscoverFrom, SendRequest, Discovered,
              TestLock, SetLock, Fragment, Fill, FindPeer, Transmit, Send, lock
<1> QED BY <1>1, <1>2 DEF Next, vars

LEMMA SharedSafely ==
  ASSUME Careful
  PROVE  Spec => [](TInv /\ (~dry => SInv))
<1>1. Init => TInv /\ (~dry => SInv)
  BY InitTypes, InitShares
<1>2. TInv /\ (~dry => SInv) /\ [Next]_vars => TInv' /\ (~dry => SInv)'
  BY NextKeepsTypes, NextShares, DryStays
<1> QED BY <1>1, <1>2, PTL DEF Spec

(* While the lock is set, the task that will release it is on its way, for *)
(* as long as the driver has had a buffer whenever it was asked for one.   *)
THEOREM LockIsGivenBack ==
  ASSUME Careful
  PROVE  Spec => []LockHasHolder
<1>1. TInv /\ (~dry => SInv) => LockHasHolder
  BY DEF SInv, LockHeld, LockHasHolder, Holds
<1> QED BY <1>1, SharedSafely, PTL

(* What the driver is told to send under the lock is the caller's datagram,*)
(* for as long as it has had a buffer whenever it was asked for one.       *)
THEOREM DatagramIsSent ==
  ASSUME Careful
  PROVE  Spec => []PacketReady
<1>1. TInv /\ (~dry => SInv) => PacketReady
  <2> SUFFICES ASSUME TInv, SInv, NEW t \in Task, pc[t] = "transmit",
                      send_locked
               PROVE  xmit[curr_td] = Datagram(t)
    BY DEF PacketReady
  <2>1. PICK h \in Task : Holds(h)
    BY DEF SInv, LockHeld
  <2>2. h = t
    BY <2>1, WritersAreAlone DEF BehindLock
  <2> QED BY <2>1, <2>2 DEF SInv, BufferHeld
<1> QED BY <1>1, SharedSafely, PTL
=============================================================================
