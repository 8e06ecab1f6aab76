-------------------------------- MODULE Dhcp --------------------------------
(***************************************************************************)
(* network/dhcp.c: the client that configures the network interfaces.  A   *)
(* message that was sent is kept in one list with a periodic timer that    *)
(* sends it again, until an answer with its transaction id comes or its    *)
(* tries run out; answers are parsed inside the network interrupt.         *)
(*                                                                         *)
(* Servers and the network are the environment: messages may be lost,      *)
(* repeated and reordered, and several servers may answer.  An answer      *)
(* names the message type first and reaches the interface it is for.  The  *)
(* code relies on transaction ids, taken from the tick counter, being      *)
(* different (dhcp.c:105): the counter moves on between two discoveries.   *)
(***************************************************************************)
EXTENDS Integers, Sequences, FiniteSets, SequencesExt

CONSTANTS Ifs,          \* network interfaces
          Servers,      \* DHCP servers; a server's settings are its own
          MaxRetries,   \* MAX_DHCP_RETRIES
          MaxTicks      \* bound on the tick counter

VARIABLES state,        \* dhcp_state of each interface
          addr,         \* ip_addr: the server that gave it, or 0
          srv,          \* dhcp_srv_id
          config,       \* mask, router, DNS servers, lease: whose they are
          list,         \* messages waiting for an answer
          ticks,        \* timer_counter
          sent,         \* messages sent
          replies,      \* answers of the servers
          gaveUp        \* history: interfaces whose tries ran out, or whose send failed

vars == <<state, addr, srv, config, list, ticks, sent, replies, gaveUp>>

None == "none"
Entry(i, xid, type) == [netif |-> i, xid |-> xid, type |-> type, tries |-> MaxRetries]

\* the interface's view, passed on from call to call
If(i) == [state |-> state[i], addr |-> addr[i], srv |-> srv[i], config |-> config[i],
          list |-> list, sent |-> sent, failed |-> FALSE]
Become(i, v) ==
    /\ state' = [state EXCEPT ![i] = v.state] /\ addr' = [addr EXCEPT ![i] = v.addr]
    /\ srv' = [srv EXCEPT ![i] = v.srv] /\ config' = [config EXCEPT ![i] = v.config]
    /\ list' = v.list /\ sent' = v.sent
    /\ gaveUp' = IF v.failed THEN gaveUp \cup {i} ELSE gaveUp

\* "goes" says whether udp_send_to_netif() sent the message
DhcpDiscover(v, i, xid, goes) ==
    IF goes
    THEN [v EXCEPT !.state = "SELECTING", !.list = Append(@, Entry(i, xid, "DISCOVER")),
                   !.sent = @ \cup {[netif |-> i, xid |-> xid, type |-> "DISCOVER", srv |-> None]}]
    ELSE [v EXCEPT !.state = "INIT"]

DhcpRequest(v, i, xid, goes) ==
    IF goes
    THEN [v EXCEPT !.list = Append(@, Entry(i, xid, "REQUEST")),
                   !.sent = @ \cup {[netif |-> i, xid |-> xid, type |-> "REQUEST", srv |-> v.srv]}]
    ELSE [v EXCEPT !.failed = TRUE]

Fresh == \A m \in sent : m.xid # ticks

Discover(i, goes) ==
    /\ state[i] = "INIT" /\ Fresh
    /\ Become(i, DhcpDiscover(If(i), i, ticks, goes))
    /\ UNCHANGED <<ticks, replies>>

\* dhcp_timer_callback(): it sends again whatever the result
Again(k) ==
    /\ IF list[k].tries > 1
       THEN list' = [list EXCEPT ![k].tries = @ - 1] /\ gaveUp' = gaveUp
       ELSE list' = RemoveAt(list, k) /\ gaveUp' = gaveUp \cup {list[k].netif}
    /\ UNCHANGED <<state, addr, srv, config, ticks, sent, replies>>

\* the options of an answer, the message type first; what is left of the
\* message is not read when its type does not fit
Expects(s, type) ==
    \/ s = "SELECTING" /\ type = "OFFER"
    \/ s = "REQUESTING" /\ type \in {"ACK", "NAK"}

Options(v, m) == [v EXCEPT !.srv = m.srv, !.config = m.srv]

Typed(v, m) ==
    CASE m.type = "OFFER" -> [v EXCEPT !.state = "REQUESTING", !.addr = m.srv]
      [] m.type = "ACK" -> [v EXCEPT !.state = "BOUND", !.addr = m.srv]
      [] m.type = "NAK" -> [v EXCEPT !.state = "INIT"]

Answered(v, i, m, goes) ==
    CASE m.type = "OFFER" -> DhcpRequest(v, i, m.xid, goes)
      [] m.type = "ACK" -> v
      [] m.type = "NAK" -> DhcpDiscover(v, i, ticks, goes)

\* the first entry with the transaction id, whichever interface it is of
ParseDhcpClient(i, m, goes) ==
    LET found == {k \in DOMAIN list : list[k].xid = m.xid}
        k == CHOOSE x \in found : \A y \in found : x <= y
        v == Answered(Options(Typed(If(i), m), m), i, m, goes)
    IN /\ m.netif = i /\ found # {} /\ Expects(state[i], m.type)
       /\ m.type = "NAK" => Fresh
       /\ Become(i, [v EXCEPT !.list = RemoveAt(@, k)])
       /\ UNCHANGED <<ticks, replies>>

Tick ==
    /\ ticks < MaxTicks
    /\ ticks' = ticks + 1
    /\ UNCHANGED <<state, addr, srv, config, list, sent, replies, gaveUp>>

---------------------------------------------------------------------------
(* The servers: any of them offers, the one asked acknowledges or refuses.  *)

Reply(m, s) ==
    /\ \/ m.type = "DISCOVER" /\ replies' = replies \cup {[netif |-> m.netif, xid |-> m.xid, srv |-> s, type |-> "OFFER"]}
       \/ m.type = "REQUEST" /\ m.srv = s
          /\ \E type \in {"ACK", "NAK"} :
                replies' = replies \cup {[netif |-> m.netif, xid |-> m.xid, srv |-> s, type |-> type]}
    /\ UNCHANGED <<state, addr, srv, config, list, ticks, sent, gaveUp>>

Init ==
    /\ state = [i \in Ifs |-> "INIT"]
    /\ addr = [i \in Ifs |-> None] /\ srv = addr /\ config = addr
    /\ list = <<>> /\ ticks = 0 /\ sent = {} /\ replies = {} /\ gaveUp = {}

Next ==
    \/ Tick
    \/ \E i \in Ifs, goes \in BOOLEAN : Discover(i, goes)
    \/ \E i \in Ifs, m \in replies, goes \in BOOLEAN : ParseDhcpClient(i, m, goes)
    \/ \E k \in DOMAIN list : Again(k)
    \/ \E m \in sent, s \in Servers : Reply(m, s)

Spec == Init /\ [][Next]_vars

---------------------------------------------------------------------------

TypeOK ==
    /\ \A i \in Ifs : state[i] \in {"INIT", "SELECTING", "REQUESTING", "BOUND"} /\ addr[i] \in Servers \cup {None}
    /\ \A k \in DOMAIN list : list[k].tries \in 1..MaxRetries /\ list[k].netif \in Ifs

\* An interface that is configured has the address one server acknowledged to
\* it, with that server's settings, whatever other servers answered and
\* however late.
BoundAsAcknowledged ==
    \A i \in Ifs : state[i] = "BOUND" =>
        /\ \E m \in replies : m.netif = i /\ m.type = "ACK" /\ m.srv = addr[i]
        /\ srv[i] = addr[i] /\ config[i] = addr[i]

\* An interface that waits for an answer is not forgotten: its message is in
\* the list, once, unless its tries ran out or it could not be sent.
WaitingIsRetried ==
    \A i \in Ifs : i \notin gaveUp /\ state[i] \in {"SELECTING", "REQUESTING"} =>
        Cardinality({k \in DOMAIN list : list[k].netif = i}) = 1
=============================================================================
