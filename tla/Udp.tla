-------------------------------- MODULE Udp --------------------------------
(***************************************************************************)
(* Datagram sockets: network/udp.c, and the part of network/socket.c that  *)
(* concerns them.  A socket keeps its datagrams in one buffer, one behind  *)
(* the other, each behind a header with its length and sender; parse_udp() *)
(* appends inside the network interrupt, recvfrom() takes the first and    *)
(* moves the rest up, in the task, with interrupts on.                     *)
(*                                                                         *)
(* A cell of the buffer holds a header or a piece of the data of one       *)
(* datagram.  The code relies on its callers for one thing: with HoldsOff, *)
(* the network interrupt is disabled from recvfrom()'s move to its count   *)
(* (the TODO of socket.c:400).  connect() would make parse_udp() pass over *)
(* a socket for the datagrams of other hosts than its peer, but returns    *)
(* EINVAL for a socket that is not TCP's (socket.c:581) before it comes to *)
(* that: SOCK_ATTR_CONN is never set, and no socket is passed over.        *)
(***************************************************************************)
EXTENDS Integers, SequencesExt

CONSTANTS Sockets,       \* 1..MAX_SOCKETS
          Ports,         \* ports used, 0 is that of a socket not bound
          Addrs,         \* addresses of the interfaces
          Hosts,         \* addresses of those who send datagrams
          Size,          \* SOCKBUF_LEN, in cells
          Lengths,       \* lengths of datagrams
          OptionsUsed,   \* the options the application sets
          MaxDatagrams,  \* bound on the datagrams that arrive
          HoldsOff

\* The bit of bool_opts that stands for an option (SO_..._MASK), and the
\* one setsockopt() shifts a value to.
Mask == [DEBUG |-> 0, BROADCAST |-> 1, REUSEADDR |-> 2, KEEPALIVE |-> 3, OOBINLINE |-> 4, DONTROUTE |-> 5]
Shift == [DEBUG |-> 0, BROADCAST |-> 1, REUSEADDR |-> 2, KEEPALIVE |-> 3, OOBINLINE |-> 4, DONTROUTE |-> 5]
Options == DOMAIN Mask

VARIABLES sock,      \* psockets
          arrived,   \* history: datagrams that arrived, in order
          taken,     \* history, per socket: datagrams put into its buffer
          got        \* history, per socket: datagrams recvfrom() returned

vars == <<sock, arrived, taken, got>>

Hdr(d, len) == [kind |-> "header", of |-> d, n |-> len]
Piece(d, k) == [kind |-> "data", of |-> d, n |-> k]
Junk == [kind |-> "junk", of |-> 0, n |-> 0]

None == "none"

Unused == [used |-> FALSE, bound |-> FALSE, addr |-> "any", port |-> 0, peer |-> None, bool_opts |-> {}, asked |-> {},
           buf |-> [c \in 0..Size - 1 |-> Junk], len |-> 0, step |-> "idle", taking |-> 0]

Open ==
    LET free == {i \in Sockets : ~sock[i].used} IN
    /\ free # {}
    /\ sock' = [sock EXCEPT ![Min(free)] = [Unused EXCEPT !.used = TRUE]]
    /\ taken' = [taken EXCEPT ![Min(free)] = <<>>]
    /\ got' = [got EXCEPT ![Min(free)] = <<>>]
    /\ UNCHANGED arrived

\* check_bound()
InUse(i, addr, port) ==
    \E k \in Sockets \ {i} :
        sock[k].used /\ sock[k].bound /\ sock[k].port = port /\ sock[k].addr \in {addr, "any"}

Bind(i, addr, port) ==
    /\ sock[i].used /\ ~InUse(i, addr, port)
    /\ sock' = [sock EXCEPT ![i].bound = TRUE, ![i].addr = addr, ![i].port = port]
    /\ UNCHANGED <<arrived, taken, got>>

\* connect(): EINVAL before the peer is recorded
Connect(i, host) == sock[i].used /\ UNCHANGED vars

\* setsockopt(); "asked" is history: the options that were last set
SetOption(i, option, on) ==
    /\ sock[i].used
    /\ sock' = [sock EXCEPT ![i].bool_opts = (@ \ {Mask[option]}) \cup
                                   (IF on THEN {Shift[option]} \cap {Mask[option]} ELSE {}),
                            ![i].asked = IF on THEN @ \cup {option} ELSE @ \ {option}]
    /\ UNCHANGED <<arrived, taken, got>>

GetOption(i, option) == Mask[option] \in sock[i].bool_opts

Close(i) ==
    /\ sock[i].used /\ sock[i].step = "idle"
    /\ sock' = [sock EXCEPT ![i] = Unused]
    /\ UNCHANGED <<arrived, taken, got>>

---------------------------------------------------------------------------
(* Receiving.                                                               *)

FitsUnheaded(s, len) == s.len + len <= Size   \* mutant: no room for the header
Fits(s, len) == s.len + 1 + len <= Size

\* copy_data_to_sock()
Appended(s, d, len) ==
    [s EXCEPT !.buf = [c \in DOMAIN @ |-> IF c = s.len THEN Hdr(d, len)
                                          ELSE IF c \in s.len + 1..s.len + len THEN Piece(d, c - s.len)
                                          ELSE @[c]],
              !.len = @ + 1 + len]

\* "peer" is None while SOCK_ATTR_CONN is clear
Elsewhere(s, from) == s.peer # None /\ s.peer # from

\* the first socket with the port that is not connected to another host
\* takes the datagram, or drops it
ParseUdp(from, port, len) ==
    LET d == Len(arrived) + 1
        takers == {i \in Sockets : sock[i].used /\ sock[i].port = port /\ ~Elsewhere(sock[i], from)}
        i == Min(takers)
    IN /\ d <= MaxDatagrams
       /\ HoldsOff => \A k \in Sockets : sock[k].step # "moved"
       /\ arrived' = Append(arrived, len)
       /\ IF takers # {} /\ Fits(sock[i], len)
          THEN /\ sock' = [sock EXCEPT ![i] = Appended(@, d, len)]
               /\ taken' = [taken EXCEPT ![i] = Append(@, d)]
          ELSE UNCHANGED <<sock, taken>>
       /\ UNCHANGED got

\* recvfrom(): what the first cell says is what is believed
RecvCopy(i) ==
    LET s == sock[i]
        h == s.buf[0]
        whole == h.kind = "header" /\ \A k \in 1..h.n : s.buf[k] = Piece(h.of, k)
    IN /\ s.used /\ s.step = "idle" /\ s.len > 0
       /\ sock' = [sock EXCEPT ![i].step = "copied", ![i].taking = 1 + h.n]
       /\ got' = [got EXCEPT ![i] = Append(@, IF whole THEN h.of ELSE 0)]
       /\ UNCHANGED <<arrived, taken>>

RecvMove(i) ==
    LET s == sock[i] IN
    /\ s.step = "copied"
    /\ sock' = [sock EXCEPT ![i].step = "moved",
                            ![i].buf = [c \in DOMAIN @ |-> IF c + s.taking < Size THEN @[c + s.taking] ELSE @[c]]]
    /\ UNCHANGED <<arrived, taken, got>>

RecvCount(i) ==
    /\ sock[i].step = "moved"
    /\ sock' = [sock EXCEPT ![i].step = "idle", ![i].taking = 0, ![i].len = @ - sock[i].taking]
    /\ UNCHANGED <<arrived, taken, got>>

---------------------------------------------------------------------------

Init ==
    /\ sock = [i \in Sockets |-> Unused]
    /\ arrived = <<>>
    /\ taken = [i \in Sockets |-> <<>>]
    /\ got = [i \in Sockets |-> <<>>]

Next ==
    \/ Open
    \/ \E i \in Sockets :
          \/ \E addr \in Addrs, port \in Ports \ {0} : Bind(i, addr, port)
          \/ \E host \in Hosts : Connect(i, host)
          \/ \E option \in OptionsUsed, on \in BOOLEAN : SetOption(i, option, on)
          \/ Close(i) \/ RecvCopy(i) \/ RecvMove(i) \/ RecvCount(i)
    \/ \E from \in Hosts, port \in Ports, len \in Lengths : ParseUdp(from, port, len)

Spec == Init /\ [][Next]_vars

---------------------------------------------------------------------------

TypeOK ==
    \A i \in Sockets : sock[i].len \in 0..Size /\ sock[i].bool_opts \subseteq 0..5 /\ sock[i].port \in Ports

\* A socket hands out each datagram it took once, whole and in the order of
\* arrival, whatever arrives while recvfrom() copies and moves.
DatagramsWhole == \A i \in Sockets : IsPrefix(got[i], taken[i])

\* getsockopt() tells of every option what setsockopt() last said of it,
\* and a socket starts with none.
OptionsKept == \A i \in Sockets, option \in Options : GetOption(i, option) <=> option \in sock[i].asked

\* No two sockets are bound to one address and port.
OneOwnerPerPort ==
    \A i, k \in Sockets :
        i # k /\ sock[i].bound /\ sock[k].bound => <<sock[i].addr, sock[i].port>> # <<sock[k].addr, sock[k].port>>
=============================================================================
