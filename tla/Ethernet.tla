------------------------------ MODULE Ethernet ------------------------------
(***************************************************************************)
(* Sending and receiving on one network interface (network/ethernet.c,     *)
(* arp.c, ip.c, and udp.c, tcp.c, icmp.c for how they send).               *)
(*                                                                         *)
(* A handler receives a frame, learns addresses from it and may answer:    *)
(* one step, interrupts being off.  A task sends in many steps, and an     *)
(* interrupt or another task may come between any two of them: find the    *)
(* peer (UDP only), test and set the lock, fill the buffer the driver      *)
(* gave, find the peer, hand the frame to the driver.  A peer that is not  *)
(* found is asked for by arp_discover(), which takes the driver's buffer   *)
(* without the lock.                                                       *)
(*                                                                         *)
(* The driver may have no buffer to give, all of them being with the chip. *)
(* eth_get_send_packet() has set the lock then, and its caller returns     *)
(* with EBUSY: nobody will release it.  arp_discover() and the fragments   *)
(* do not look, and write to address 0.  This happens in every run; dry    *)
(* remembers it, and what is said of the lock and of the buffers is said   *)
(* of the time before.                                                     *)
(*                                                                         *)
(* Careful callers send to unknown peers only with UDP, and this and long  *)
(* datagrams only while no other task sends; no task switch comes between  *)
(* the test and the setting of the lock; and the tables have room for the  *)
(* peers in use.                                                           *)
(***************************************************************************)
EXTENDS AddrTable

CONSTANTS
  Task,
  Ip, Mac,    \* addresses met on this network
  Peer,       \* those tasks send to
  HighBit,    \* Ethernet addresses with src_addr[0] & 0x80
  NumTd,      \* NUM_XMIT_BUFFERS
  Other,      \* a handler's answer, or a frame already sent
  Careful

ASSUME EthernetAssumption ==
  /\ Ip \subseteq Addr /\ Mac \subseteq Addr /\ HighBit \subseteq Mac
  /\ Peer \subseteq Ip \ {NoAddr}
  /\ NumTd \in Nat \ {0}
  /\ Careful \in BOOLEAN

VARIABLES
  eth_tbl, arp_tbl,
  send_locked,    \* flags & ETH_DEV_SEND_LOCKED
  curr_td,        \* the driver's current transmit buffer
  xmit,           \* what the buffers hold
  pc,             \* where in its call a task is
  call,           \* its arguments
  part,           \* fragments sent: 0, or 1 for any more
  buf,            \* transmit_data
  irq_discovers,  \* a handler has called arp_discover() (history)
  dry             \* the driver was asked for a buffer and had none (history)

vars == <<eth_tbl, arp_tbl, send_locked, curr_td, xmit, pc, call, part, buf,
          irq_discovers, dry>>
tables == <<eth_tbl, arp_tbl>>
driver == <<curr_td, xmit>>
lock == <<send_locked, dry>>
locals == <<pc, call, part, buf>>

Td == 0..NumTd - 1
NoBuffer == NumTd
Call == [to : Peer, proto : {"udp", "tcp"}, long : BOOLEAN]
NoCall == [to |-> NoAddr, proto |-> "udp", long |-> FALSE]
Packet == [by : Task, kind : {"ip", "arp"}, to : Peer, part : {0, 1}]
Datagram(t) == [by |-> t, kind |-> "ip", to |-> call[t].to, part |-> part[t]]
Request(t) == [by |-> t, kind |-> "arp", to |-> call[t].to, part |-> 0]

(* A task that has called arp_discover() from udp_send_to_netif() is before *)
(* the lock, one that called it from ip_send_packet() is behind it.        *)
BeforeLock == {"resolve", "udp_discover", "udp_request", "udp_await", "test",
               "set"}
BehindLock == {"fragment", "fill", "find", "ip_discover", "ip_request",
               "ip_await", "transmit"}

TypeOK ==
  /\ eth_tbl \in Table /\ arp_tbl \in Table
  /\ send_locked \in BOOLEAN
  /\ curr_td \in Td /\ xmit \in [Td -> Packet \cup {Other}]
  /\ pc \in [Task -> BeforeLock \cup BehindLock \cup {"idle"}]
  /\ call \in [Task -> Call \cup {NoCall}] /\ part \in [Task -> {0, 1}]
  /\ buf \in [Task -> Td \cup {NoBuffer}]
  /\ irq_discovers \in BOOLEAN /\ dry \in BOOLEAN

Init ==
  /\ eth_tbl = EmptyTable /\ arp_tbl = EmptyTable
  /\ send_locked = FALSE
  /\ curr_td = 0 /\ xmit = [d \in Td |-> Other]
  /\ pc = [t \in Task |-> "idle"]
  /\ call = [t \in Task |-> NoCall]
  /\ part = [t \in Task |-> 0]
  /\ buf = [t \in Task |-> 0]
  /\ irq_discovers = FALSE /\ dry = FALSE

-----------------------------------------------------------------------------
(* Handlers.                                                               *)

RoomForPeers ==
  Careful => \A t \in Task :
    pc[t] # "idle" /\ Known(arp_tbl, call[t].to) => Known(arp_tbl', call[t].to)

(* eth_parse_packet before it looks at the protocol.                       *)
LearnSource(src) ==
  eth_tbl' = IF src \in HighBit THEN eth_tbl ELSE Learn(eth_tbl, src, src)

(* The driver sends the current buffer and moves on, or refuses to.        *)
Sends ==
  /\ xmit' = [xmit EXCEPT ![curr_td] = Other]
  /\ curr_td' = (curr_td + 1) % NumTd
Refuses == UNCHANGED driver

(* eth_get_send_packet() ... eth_send_packet() of a handler.               *)
SendAnswerAnyway ==                        \* mutant: lock not tested
  xmit' = [xmit EXCEPT ![curr_td] = Other] /\ UNCHANGED <<curr_td, lock>>
SendAnswer ==
  \/ send_locked /\ UNCHANGED <<driver, lock>>
  \/ ~send_locked /\ Sends /\ UNCHANGED lock
  \/ /\ ~send_locked
     /\ xmit' = [xmit EXCEPT ![curr_td] = Other]
     /\ UNCHANGED <<curr_td, lock>>
  \/ /\ ~send_locked                       \* no buffer: the lock stays set
     /\ send_locked' = TRUE /\ dry' = TRUE
     /\ UNCHANGED driver

(* parse_arp of a request, for this interface or for another one.          *)
ArpRequest(src) ==
  /\ LearnSource(src)
  /\ SendAnswer \/ UNCHANGED <<driver, lock>>
  /\ UNCHANGED <<arp_tbl, irq_discovers, locals>>

ArpReply(src, ip, hw) ==
  /\ LearnSource(src)
  /\ arp_tbl' = Learn(arp_tbl, ip, hw)
  /\ RoomForPeers
  /\ UNCHANGED <<lock, driver, irq_discovers, locals>>

(* An IP packet that is answered (an echo request, a TCP segment) or not.  *)
(* The answer goes through ip_send_packet(), which must find the peer.     *)
IpAnswer(ip) ==
  IF send_locked \/ Known(arp_tbl', ip)
  THEN SendAnswer /\ UNCHANGED irq_discovers
  ELSE irq_discovers' = TRUE /\ UNCHANGED <<driver, lock>>

IpPacketNotLearnt(src, ip) ==              \* mutant: update_arp_tbl missing
  /\ LearnSource(src)
  /\ UNCHANGED arp_tbl
  /\ IpAnswer(ip)
  /\ UNCHANGED locals
IpPacket(src, ip) ==
  /\ LearnSource(src)
  /\ arp_tbl' = Learn(arp_tbl, ip, src)
  /\ RoomForPeers
  /\ IpAnswer(ip) \/ UNCHANGED <<driver, lock, irq_discovers>>
  /\ UNCHANGED locals

-----------------------------------------------------------------------------
(* Tasks.                                                                  *)

Goto(t, l) == pc' = [pc EXCEPT ![t] = l]

(* The call returns, and its local variables are gone.                     *)
Return(t) ==
  /\ Goto(t, "idle")
  /\ call' = [call EXCEPT ![t] = NoCall]
  /\ part' = [part EXCEPT ![t] = 0]
  /\ buf' = [buf EXCEPT ![t] = 0]

Alone(t) == \A u \in Task \ {t} : pc[u] = "idle"
NeedsAlone(c) == c.long \/ ~Known(arp_tbl, c.to)
MaySend(t, c) ==
  /\ NeedsAlone(c) => Alone(t)
  /\ \A u \in Task \ {t} :
       /\ pc[u] # "idle" => ~call[u].long
       /\ pc[u] = "resolve" => Known(arp_tbl, call[u].to)
       /\ pc[u] \notin {"udp_discover", "udp_request"}
  /\ c.proto = "tcp" => Known(arp_tbl, c.to)

(* udp_send_to_netif(), tcp_send_packet() or tcp_send_syn() is called.     *)
Send(t, c) ==
  /\ pc[t] = "idle"
  /\ Careful => MaySend(t, c)
  /\ call' = [call EXCEPT ![t] = c]
  /\ Goto(t, IF c.proto = "udp" THEN "resolve" ELSE "test")
  /\ UNCHANGED <<tables, lock, driver, part, buf, irq_discovers>>

(* udp_send_to_netif asks for an unknown peer first.                       *)
Resolve(t) ==
  /\ pc[t] = "resolve"
  /\ Goto(t, IF Known(arp_tbl, call[t].to) THEN "test" ELSE "udp_discover")
  /\ UNCHANGED <<tables, lock, driver, call, part, buf, irq_discovers>>

(* arp_discover: fill the driver's buffer, send it, wait for any reply or  *)
(* a second.                                                               *)
DiscoverFrom(t, discover, request) ==
  /\ pc[t] = discover
  /\ \/ xmit' = [xmit EXCEPT ![curr_td] = Request(t)] /\ UNCHANGED dry
     \/ dry' = TRUE /\ UNCHANGED xmit
  /\ Goto(t, request)
  /\ UNCHANGED <<tables, send_locked, curr_td, call, part, buf,
                 irq_discovers>>
Discover(t) ==
  \/ DiscoverFrom(t, "udp_discover", "udp_request")
  \/ DiscoverFrom(t, "ip_discover", "ip_request")

SendRequest(t) ==
  /\ \/ pc[t] = "udp_request" /\ Goto(t, "udp_await")
     \/ pc[t] = "ip_request" /\ Goto(t, "ip_await")
  /\ Sends \/ Refuses
  /\ UNCHANGED <<tables, lock, call, part, buf, irq_discovers>>

(* The caller of arp_discover looks again.  ip_send_packet returns without *)
(* releasing the lock if the peer is still unknown.                        *)
Discovered(t) ==
  /\ \/ /\ pc[t] = "udp_await" /\ Known(arp_tbl, call[t].to)
        /\ Goto(t, "test")
        /\ UNCHANGED <<call, part, buf>>
     \/ /\ pc[t] = "ip_await" /\ Known(arp_tbl, call[t].to)
        /\ Goto(t, "transmit")
        /\ UNCHANGED <<call, part, buf>>
     \/ /\ pc[t] \in {"udp_await", "ip_await"} /\ ~Known(arp_tbl, call[t].to)
        /\ Return(t)
  /\ UNCHANGED <<tables, lock, driver, irq_discovers>>

(* eth_get_send_packet: EBUSY if another one has the lock.  The flag is    *)
(* tested, and set later; careful callers are not preempted in between.    *)
TestLockWaits(t) ==                        \* mutant: waits for the lock
  /\ pc[t] = "test"
  /\ ~Careful /\ ~send_locked /\ Goto(t, "set")
  /\ UNCHANGED <<tables, lock, driver, call, part, buf, irq_discovers>>
TestLock(t) ==
  /\ pc[t] = "test"
  /\ \/ send_locked /\ Return(t)
     \/ ~Careful /\ ~send_locked /\ Goto(t, "set")
        /\ UNCHANGED <<call, part, buf>>
  /\ UNCHANGED <<tables, lock, driver, irq_discovers>>

(* ... and asks the driver for its buffer: EBUSY if it has none.           *)
SetLock(t) ==
  /\ \/ pc[t] = "set"
     \/ Careful /\ pc[t] = "test" /\ ~send_locked
  /\ send_locked' = TRUE
  /\ \/ /\ buf' = [buf EXCEPT ![t] = curr_td]
        /\ Goto(t, IF call[t].long THEN "fragment" ELSE "fill")
        /\ UNCHANGED <<call, part, dry>>
     \/ Return(t) /\ dry' = TRUE
  /\ UNCHANGED <<tables, driver, irq_discovers>>

(* ip_send_packet_frag takes the driver's buffer again for each fragment.  *)
Fragment(t) ==
  /\ pc[t] = "fragment"
  /\ \/ buf' = [buf EXCEPT ![t] = curr_td] /\ UNCHANGED dry
     \/ buf' = [buf EXCEPT ![t] = NoBuffer] /\ dry' = TRUE
  /\ Goto(t, "fill")
  /\ UNCHANGED <<tables, send_locked, driver, call, part, irq_discovers>>

Fill(t) ==
  /\ pc[t] = "fill"
  /\ xmit' = IF buf[t] = NoBuffer THEN xmit
                                  ELSE [xmit EXCEPT ![buf[t]] = Datagram(t)]
  /\ Goto(t, "find")
  /\ UNCHANGED <<tables, lock, curr_td, call, part, buf, irq_discovers>>

FindPeer(t) ==
  /\ pc[t] = "find"
  /\ Goto(t, IF Known(arp_tbl, call[t].to) THEN "transmit" ELSE "ip_discover")
  /\ UNCHANGED <<tables, lock, driver, call, part, buf, irq_discovers>>

(* eth_send_packet.  The lock is released whatever the driver says; without*)
(* the lock nothing is sent.  A long datagram goes on, size being what it  *)
(* was.                                                                    *)
Transmitted(t) ==
  IF call[t].long
  THEN /\ Goto(t, "fragment")
       /\ part' = [part EXCEPT ![t] = 1]
       /\ UNCHANGED <<call, buf>>
  ELSE Return(t)

TransmitNoUnlock(t) ==                     \* mutant: locked after a refusal
  /\ pc[t] = "transmit"
  /\ \/ send_locked /\ Sends /\ Transmitted(t) /\ send_locked' = FALSE
     \/ Refuses /\ Return(t) /\ UNCHANGED send_locked
  /\ UNCHANGED <<tables, irq_discovers, dry>>
Transmit(t) ==
  /\ pc[t] = "transmit"
  /\ send_locked' = FALSE
  /\ \/ send_locked /\ Sends /\ Transmitted(t)
     \/ Refuses /\ Return(t)        \* by the driver, or without the lock
  /\ UNCHANGED <<tables, irq_discovers, dry>>

Step(t) ==
  \/ Resolve(t) \/ Discover(t) \/ SendRequest(t) \/ Discovered(t)
  \/ TestLock(t) \/ SetLock(t) \/ Fragment(t) \/ Fill(t) \/ FindPeer(t)
  \/ Transmit(t)

Handler ==
  \E src \in Mac :
    \/ ArpRequest(src)
    \/ \E ip \in Ip, hw \in Mac : ArpReply(src, ip, hw)
    \/ \E ip \in Ip : IpPacket(src, ip)

Next ==
  \/ Handler
  \/ \E t \in Task : Step(t) \/ \E c \in Call : Send(t, c)

Spec == Init /\ [][Next]_vars

(* Handlers return and every task gets its turn (RoundRobin of Taskman).   *)
FairSpec == Spec /\ \A t \in Task : WF_vars(Step(t))
-----------------------------------------------------------------------------
(* In both tables every entry is where a search for its address passes,    *)
(* and no address has two entries (add_arp_entry, add_eth_entry).          *)
TablesConsistent == Consistent(arp_tbl) /\ Consistent(eth_tbl)

(* ARP knows an address until one that finds all of its slots taken gets   *)
(* the slot of its hash (arp.c, "If the table is full").                   *)
PeersAreKept == [][ForgetsOnlyWhenFull(arp_tbl, arp_tbl')]_vars

(* A second Ethernet address that claims a known IP address is ignored     *)
(* (update_arp_tbl: "for now, ignore the newcomer").                       *)
NewcomerIgnored == [][FirstClaimStands(arp_tbl, arp_tbl')]_vars

(* A handler that answers a packet never waits in arp_discover(): the      *)
(* sender has just been learnt (icmp.c, before ip_send_packet).            *)
NoDiscoveryInHandler == ~irq_discovers

(* When a task is about to hand its datagram to the driver under the lock, *)
(* the driver's current buffer holds that datagram (eth_get_send_packet:   *)
(* the buffer "will not be distributed to another client"), for as long as *)
(* the driver has had a buffer whenever it was asked for one.              *)
PacketReady ==
  ~dry => \A t \in Task :
    pc[t] = "transmit" /\ send_locked => xmit[curr_td] = Datagram(t)

(* While the send lock is set there is a task that will release it: it is  *)
(* behind eth_get_send_packet() with its first frame not yet sent.  Only a *)
(* driver without a buffer leaves the lock set for ever.                   *)
LockHasHolder ==
  send_locked =>
    dry \/ \E t \in Task : pc[t] \in BehindLock /\ part[t] = 0

(* Every call of a send function returns, fragments or not, whatever       *)
(* handlers and the driver do; but a long datagram, whose size is never    *)
(* counted down, can go on for as long as handlers leave the lock set.     *)
SendEnds ==
  \A t \in Task :
    pc[t] # "idle" ~> pc[t] = "idle" \/ (dry /\ call[t].long)
=============================================================================
