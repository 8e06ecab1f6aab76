--------------------------------- MODULE Ip ---------------------------------
(***************************************************************************)
(* Packets of network/ip.c and icmp.c: choosing the interface, the header  *)
(* and its checksum, parse_ip() and the answer to an echo request.  Finding*)
(* the peer's Ethernet address and the driver's buffers is in Ethernet.    *)
(*                                                                         *)
(* A byte has ByteBits bits and a word two bytes, so that sums carry often *)
(* in small packets; an address is one word.  What is sent is judged as a  *)
(* host that follows RFC 791 and 1071 judges it.                           *)
(*                                                                         *)
(* Careful traffic is what the code handles rightly: no option in the      *)
(* header of an echo request, and where char has a sign none of odd length *)
(* that ends in a byte with the high bit.                                  *)
(***************************************************************************)
EXTENDS Integers, SequencesExt

CONSTANTS
  Netif,        \* net_interfaces: sequence of [ip_addr, hostbits]
  Hosts,        \* other hosts' addresses
  ByteBits,
  Data,         \* what is sent: sequences of bytes
  CharIsSigned,
  MaxPackets,   \* bound on the packets of a run
  Careful

Byte == 2 ^ ByteBits
Word == Byte * Byte
HdrLen == 16          \* sizeof(struct ip_hdr): eight words here
EchoLen == 8          \* sizeof(struct icmp_echo_msg)

VARIABLES
  ip_id,
  sent,         \* [netif, hdr, payload, meant] of each packet handed to a driver
  parsed,       \* [proto, payload] of each packet handed to a transport protocol
  arrived       \* packets that arrived

vars == <<ip_id, sent, parsed, arrived>>

None == 0
Room == Len(sent) + Len(arrived) < MaxPackets
Init == ip_id = Word - 2 /\ sent = <<>> /\ parsed = <<>> /\ arrived = <<>>
-----------------------------------------------------------------------------
(* Data goes on the wire as bytes; calc_ip_checksum() takes them in pairs. *)
Bytes(words) == FlattenSeq([i \in DOMAIN words |-> <<words[i] \div Byte, words[i] % Byte>>])
Pairs(bytes) == [i \in 1 .. Len(bytes) \div 2 |-> Byte * bytes[2 * i - 1] + bytes[2 * i]]
LastByte(b) == Byte * b + (IF CharIsSigned /\ 2 * b >= Byte THEN Byte - 1 ELSE 0)

AddCarry(sum, w) == ((sum + w) + ((sum + w) \div Word)) % Word
calc_ip_checksum(bytes) ==
  LET pairs == FoldLeft(AddCarry, 0, Pairs(bytes))
  IN Word - 1 - (IF Len(bytes) % 2 = 1 THEN AddCarry(pairs, LastByte(Last(bytes))) ELSE pairs)

(* find_ip_addr(): an interface with this very address, for bind().        *)
find_ip_addr(addr) == \E i \in DOMAIN Netif : Netif[i].ip_addr = addr

(* get_net_interface(): the first whose network the address is in.         *)
OnNet(i, addr) == addr \div (2 ^ Netif[i].hostbits) = Netif[i].ip_addr \div (2 ^ Netif[i].hostbits)
get_net_interface(addr) ==
  LET on == {i \in DOMAIN Netif : OnNet(i, addr)}
  IN IF on = {} THEN None ELSE CHOOSE i \in on : \A j \in on : i <= j

(* struct ip_hdr; ver_ihl counts words of two bytes.                       *)
HdrWords(h) == <<Byte * h.ihl, h.len, h.id, h.frag_offs, Byte + h.proto, h.sum, h.src, h.dst>>
prep_ip_hdr(len, proto, src, dst) ==
  LET h == [ihl |-> HdrLen \div 2, len |-> len, id |-> ip_id, frag_offs |-> 0, proto |-> proto,
            sum |-> 0, src |-> src, dst |-> dst]
  IN [h EXCEPT !.sum = calc_ip_checksum(Bytes(HdrWords(h)))]

Sends(i, proto, src, dst, payload, meant) ==
  /\ sent' = Append(sent, [netif |-> i, payload |-> payload, meant |-> meant,
                           hdr |-> prep_ip_hdr(HdrLen + Len(payload), proto, src, dst)])
  /\ ip_id' = (ip_id + 1) % Word

UDP == 2
ICMP == 1
(* udp_send(): the socket is bound to one of the addresses of this host.   *)
Send(src, dst, data) ==
  /\ Room /\ find_ip_addr(src) /\ get_net_interface(dst) # None
  /\ Sends(get_net_interface(dst), UDP, src, dst, data, data)
  /\ UNCHANGED <<parsed, arrived>>

(* parse_icmp() copies what lies 28 bytes behind the start of the packet.  *)
Echo(fields, data) == fields \o data       \* type, code, checksum, id, number, data
Reply(packet, id) ==
  LET fields(sum) == Bytes(<<0, sum, id, 0>>)
      data == SubSeq(packet, HdrLen + EchoLen + 1, Len(packet))
  IN Echo(fields(calc_ip_checksum(Echo(fields(0), data))), data)

(* parse_ip() looks at neither the checksum nor the destination.           *)
ParseIp(i, p) ==
  LET packet == Bytes(HdrWords(p.hdr)) \o p.options \o p.payload
      payload == SubSeq(packet, 2 * p.hdr.ihl + 1, Len(packet))
  IN CASE p.hdr.proto = ICMP ->
            /\ Sends(i, ICMP, Netif[i].ip_addr, p.hdr.src, Reply(packet, p.id), payload)
            /\ parsed' = parsed
       [] p.hdr.proto = UDP ->
            /\ parsed' = Append(parsed, payload)
            /\ UNCHANGED <<sent, ip_id>>
       [] OTHER -> UNCHANGED <<parsed, sent, ip_id>>
-----------------------------------------------------------------------------
(* Other hosts: whole packets, with a right header.                        *)
PeerPacket(i, proto, src, options, id, data) ==
  LET payload == IF proto = ICMP THEN Echo(Bytes(<<Byte * 4, 0, id, 0>>), data) ELSE data
  IN [id |-> id, options |-> options, payload |-> payload,
      hdr |-> [ihl |-> (HdrLen + Len(options)) \div 2, len |-> HdrLen + Len(options) + Len(payload),
               id |-> 0, frag_offs |-> 0, proto |-> proto, sum |-> 0,
               src |-> src, dst |-> Netif[i].ip_addr]]

Harmless(p, data) ==
  p.hdr.proto = ICMP =>
    /\ p.options = <<>>
    /\ ~(CharIsSigned /\ Len(data) % 2 = 1 /\ 2 * Last(data) >= Byte)

Arrives(i, proto, src, options, id, data) ==
  LET p == PeerPacket(i, proto, src, options, id, data)
  IN /\ Room /\ OnNet(i, src)
     /\ Careful => Harmless(p, data)
     /\ ParseIp(i, p)
     /\ arrived' = Append(arrived, p)

Next ==
  \/ \E src \in {Netif[i].ip_addr : i \in DOMAIN Netif}, dst \in Hosts, data \in Data : Send(src, dst, data)
  \/ \E i \in DOMAIN Netif, src \in Hosts, proto \in {ICMP, UDP, 3}, options \in {<<>>, <<1, 1>>},
        id \in {0, Word - 1}, data \in Data : Arrives(i, proto, src, options, id, data)

Spec == Init /\ [][Next]_vars
-----------------------------------------------------------------------------
TypeOK ==
  /\ ip_id \in 0 .. Word - 1 /\ Len(sent) <= MaxPackets + 1 /\ Len(parsed) <= Len(arrived)
  /\ \A k \in DOMAIN sent : sent[k].netif \in DOMAIN Netif

(* By RFC 1071 a block with its checksum sums to zero, modulo Word - 1.    *)
SumsToZero(bytes) ==
  LET even == IF Len(bytes) % 2 = 1 THEN Append(bytes, 0) ELSE bytes
  IN FoldLeft(LAMBDA s, w : s + w, 0, Pairs(even)) % (Word - 1) = 0

(* A host that gets a packet of ours takes it and finds in it what it was  *)
(* meant to carry, an answer to an echo the very data of the request; two  *)
(* packets have different ids; and a datagram that comes reaches UDP whole.*)
PacketsWhole ==
  /\ \A k \in DOMAIN sent :
       LET p == sent[k] IN
       /\ SumsToZero(Bytes(HdrWords(p.hdr)))
       /\ p.hdr.len = HdrLen + Len(p.payload)
       /\ OnNet(p.netif, p.hdr.dst)
       /\ IF p.hdr.proto = ICMP
          THEN /\ SumsToZero(p.payload)
               /\ SubSeq(p.payload, 5, Len(p.payload)) = SubSeq(p.meant, 5, Len(p.meant))
          ELSE p.payload = p.meant
       /\ \A l \in DOMAIN sent : l # k => sent[l].hdr.id # p.hdr.id
  /\ parsed = LET datagrams == SelectSeq(arrived, LAMBDA p : p.hdr.proto = UDP)
              IN [k \in DOMAIN datagrams |-> datagrams[k].payload]
=============================================================================
