-------------------------------- MODULE Tcp --------------------------------
(***************************************************************************)
(* network/tcp.c and the TCP calls of network/socket.c: the socket table,  *)
(* the segments it answers inside the network interrupt, the list of       *)
(* segments to send again, and the descriptors that posix/io.c gives to    *)
(* sockets.  All sockets that have a port have the same one, as a listener *)
(* and the sockets accepted from it do.                                    *)
(*                                                                         *)
(* A byte of a peer's stream is its sequence number.  The peers and the    *)
(* network between are the environment: a segment once sent may arrive     *)
(* late, several times, out of order or never.  Memory does not run out,   *)
(* and a segment is never longer than an Ethernet frame.                   *)
(*                                                                         *)
(* The code relies on the others for this much:                            *)
(*  - KeepsUp: the application has read what came before the next data     *)
(*    arrive (tcp.c:667 overwrites data_len, and the buffer with it);      *)
(*  - a peer has at most Reach bytes on their way, so few that the memmove *)
(*    of the acknowledgement bitmap (tcp.c:658) leaves no stale bits, and  *)
(*    its FIN carries no data (tcp.c:687 would not count them);            *)
(*  - a reset comes only while no other connection waits for anything:     *)
(*    kill_all_retransmit_timers() ends the retries of all (tcp.c:123), so *)
(*    Resets belongs to instances whose peers do not get in each other's   *)
(*    way;                                                                 *)
(*  - OwnNumber: a connected socket is closed while its descriptor is      *)
(*    its number, since close_socket() calls shutdown() with the number of *)
(*    the socket where a descriptor is expected (socket.c:243).            *)
(***************************************************************************)
EXTENDS Integers, Sequences, FiniteSets, SequencesExt

CONSTANTS Sockets,     \* 1..MAX_SOCKETS
          Peers,       \* remote address and port
          Isn,         \* the initial sequence number of each peer
          PeerWin,     \* peer_win_size: the window peers announce
          ThisWin,     \* SOCKBUF_LEN: the window announced to peers
          ByteBits,    \* bits in a byte of the acknowledgement bitmap (8)
          MaxTries,    \* MAX_TCP_RETRANSMISSIONS
          MaxPending,  \* MAX_PENDING_CONN
          Backlog,     \* what the application passes to listen()
          Listens,     \* whether the application listens or connects
          Stream,      \* bytes each peer sends
          Message,     \* bytes the application sends on a socket
          Reach,       \* bytes a peer has on their way at a time
          MaxRetries,  \* bound: SYNs are sent and taken up to so many entries of the list
          Ends,        \* whether connections are also ended, on either side
          Resets,      \* whether a peer may reset its connection
          BusyCalls    \* whether the calls of the application may find no buffer

VARIABLES sock,        \* psockets
          fds,         \* files: descriptor -> socket, 0 when free
          mayread,     \* descriptors with FD_STAT_MAYREAD
          rtx,         \* the retransmission list
          in, out,     \* segments sent by the peers, and to them
          peer,        \* what the peers did and got
          delivered,   \* history: what recv() returned, per socket
          gaveUp       \* history: sockets one of whose segments ran out of tries

vars == <<sock, fds, mayread, rtx, in, out, peer, delivered, gaveUp>>

NoPeer == "nobody"
Finished == {"FINRECVED", "FINSENT", "FINACKRECVED", "FINACKSENT"}
Established == Finished \cup {"SYNSENT", "SYNACKRECVED", "SYNRECVED", "SYNACKSENT", "CONNECTED"}
States == Established \cup {"LISTEN", "RESET", "ABORTED"}
NoRecv == {"FINRECVED", "RESET", "ABORTED"}
Negotiated == {"LISTEN", "SYNRECVED", "SYNSENT", "SYNACKSENT"}

NoConn == [peer |-> NoPeer, this |-> 0, seq |-> 0]
Unused == [used |-> FALSE, fd |-> 0, bound |-> FALSE, port |-> FALSE, st |-> {}, stat |-> {}, peer |-> NoPeer,
           thisSeq |-> 0, thisAck |-> 0, peerSeq |-> 0, peerIsn |-> 0,
           bits |-> {}, buf |-> <<>>, len |-> 0, moving |-> 0, toSend |-> 0,
           first |-> 0, num |-> 0, pend |-> [n \in 0..MaxPending - 1 |-> NoConn]]

(***************************************************************************)
(* The handler's view of the state: it is passed on from call to call.     *)
(***************************************************************************)
World == [sock |-> sock, rtx |-> rtx, out |-> out, ready |-> mayread]
Become(w) == sock' = w.sock /\ rtx' = w.rtx /\ out' = w.out /\ mayread' = w.ready
Put(w, i, s) == [w EXCEPT !.sock[i] = s]

Segment(p, flags, seq, ack, len) == [peer |-> p, flags |-> flags, seq |-> seq, ack |-> ack, len |-> len]

---------------------------------------------------------------------------
(* Sending.  "net" says what came of it: eth_get_send_packet() had no buffer *)
(* ("busy"), the frame did not go out ("unsent"), or it did ("sent").  Only  *)
(* a SYN tells the last two apart; any other segment that does not go out is *)
(* one that is sent and lost.                                                *)

Outcomes(flags) == IF "SYN" \in flags THEN {"busy", "unsent", "sent"} ELSE {"busy", "sent"}
CallOutcomes == IF BusyCalls THEN {"busy", "sent"} ELSE {"sent"}
Out(w, seg, net) == IF net = "sent" THEN w.out \cup {seg} ELSE w.out

Retry(i, seg) == [sock |-> i, seg |-> seg, tries |-> MaxTries]

Allowed(s, n) ==
    IF "CONNECTED" \in s.st /\ s.thisAck + PeerWin - s.thisSeq \in 0..n - 1
    THEN s.thisAck + PeerWin - s.thisSeq ELSE n

SendPacket(w, i, flags, n, net) ==
    LET s == w.sock[i]
        len == Allowed(s, n)
        seg == Segment(s.peer, flags, s.thisSeq, s.peerSeq, len)
    IN IF net = "busy" THEN w
       ELSE [w EXCEPT !.sock[i].thisSeq = @ + len, !.out = Out(w, seg, net),
                      !.rtx = IF len = 0 THEN @ ELSE Append(@, Retry(i, seg))]

SendAck(w, i, net) == SendPacket(w, i, {"ACK"}, 0, net)

SendRst(w, i, net) ==
    [SendPacket(w, i, {"RST", "ACK"}, 0, net) EXCEPT
        !.sock[i].st = IF "LISTEN" \in @ THEN {"LISTEN"} ELSE @ \cup {"ABORTED"}]

SendFin(w, i, net) ==
    IF net # "busy" THEN [SendPacket(w, i, {"FIN", "ACK"}, 0, net) EXCEPT !.sock[i].st = @ \cup {"FINSENT"}] ELSE w

\* total_len counts 4 bytes of options as if they were data; a SYN that did
\* not go out is sent again too, but leaves no trace in the state
SendSyn(w, i, p, flags, net) ==
    LET s == w.sock[i]
        seg == Segment(p, {"SYN"} \cup flags, s.thisSeq, s.peerSeq, 4)
    IN IF net = "busy" THEN w
       ELSE [w EXCEPT !.sock[i].st = IF net = "sent" THEN @ \cup {"SYNSENT"} ELSE @,
                      !.out = Out(w, seg, net), !.rtx = Append(@, Retry(i, seg))]

KillAll(w) == [w EXCEPT !.rtx = <<>>]

---------------------------------------------------------------------------
(* Closing.  Shutdown() is given a descriptor.                              *)

Shutdown(w, f, how, net) ==
    LET i == fds[f]
        s == w.sock[i]
        rd == [s EXCEPT !.stat = @ \cup {"SHUT_RD"}]
        wr == [(IF how = "WR" THEN s ELSE rd) EXCEPT !.stat = @ \cup {"SHUT_WR"}]
    IN IF s.st \cap {"CONNECTED", "FINSENT"} = {} THEN w
       ELSE IF how = "RD" THEN Put(w, i, rd)
       ELSE IF "FINSENT" \in s.st THEN Put(w, i, wr)
       ELSE SendFin(Put(w, i, wr), i, net)

CloseSocket(w, i, net) ==
    LET down == IF w.sock[i].st \cap Established # {} /\ ~(Finished \subseteq w.sock[i].st)
                THEN Shutdown(w, i, "RDWR", net) ELSE w
    IN IF Finished \subseteq down.sock[i].st THEN Put(down, i, Unused)
       ELSE [down EXCEPT !.sock[i].stat = @ \cup {"CLOSING"}]

---------------------------------------------------------------------------
(* Receiving: one iteration of the loop of parse_tcp() over the sockets.    *)
(* The result says whether the loop stops there.                            *)

Stop(w) == [w |-> w, stop |-> TRUE]
Pass(w) == [w |-> w, stop |-> FALSE]

Reset(w, i, seg) ==
    LET s == w.sock[i]
    IN IF s.st \cap {"CONNECTED", "SYNSENT", "FINSENT"} # {} /\ s.peerSeq # seg.seq THEN Stop(w)
       ELSE Stop(KillAll([w EXCEPT !.sock[i].st = IF "LISTEN" \in @ THEN {"LISTEN"} ELSE @ \cup {"RESET"}]))

Refuse(w, i, seg, net) ==
    Stop(KillAll(SendRst([w EXCEPT !.sock[i].peer = seg.peer, !.sock[i].st = {}], i, net)))

Connecting(w, i, seg, net) ==
    LET s == w.sock[i]
        acked == [s EXCEPT !.st = @ \cup {"SYNACKRECVED"}]
        seen == [(IF "ACK" \in seg.flags THEN acked ELSE s) EXCEPT
                   !.peerSeq = seg.seq + 1, !.peerIsn = seg.seq, !.peer = seg.peer,
                   !.thisSeq = seg.ack, !.thisAck = seg.ack]
        answered == SendAck(Put(w, i, seen), i, net)
    IN IF seg.flags \cap {"SYN", "ACK"} = {} THEN Refuse(w, i, seg, net)
       ELSE IF "ACK" \in seg.flags /\ seg.ack # s.thisSeq + 1
       THEN Stop(Put(w, i, [s EXCEPT !.st = {}, !.peer = seg.peer]))
       ELSE IF "SYN" \notin seg.flags THEN Pass(Put(w, i, acked))
       ELSE IF "ACK" \notin seg.flags THEN Pass(answered)
       ELSE Pass([answered EXCEPT !.sock[i].st = {"CONNECTED"}, !.sock[i].bits = {},
                                  !.sock[i].buf = [o \in 0..PeerWin - 1 |-> 0]])

Listening(w, i, seg, net) ==
    LET s == w.sock[i]
        v == Put(w, i, [s EXCEPT !.st = @ \cup {"SYNRECVED"}, !.peerSeq = seg.seq + 1, !.peerIsn = seg.seq])
    IN IF s.num = Backlog THEN Stop(w)
       ELSE IF "SYN" \notin seg.flags THEN Pass(w)
       ELSE IF net = "busy" THEN Pass(v)
       ELSE Pass([SendSyn(v, i, seg.peer, {"ACK"}, net) EXCEPT !.sock[i].st = @ \cup {"SYNACKSENT"}])

Negotiating(w, i, seg) ==
    LET s == w.sock[i]
        n == (s.first + s.num) % MaxPending
        conn == [peer |-> seg.peer, this |-> s.thisSeq + 1, seq |-> seg.seq]
    IN IF "ACK" \notin seg.flags \/ seg.ack # s.thisSeq + 1 THEN Pass(w)
       ELSE Pass([w EXCEPT !.sock[i] = [s EXCEPT !.pend[n] = conn, !.num = @ + 1, !.st = {"LISTEN"},
                                                 !.thisSeq = 0, !.thisAck = 0, !.peerSeq = 0],
                           !.ready = @ \cup {s.fd}])

\* an acknowledgement inside the window ends the retries of what it covers
CoversAll(seg, i, e) == e.sock = i           \* mutant: ends all retries of the socket
Covers(seg, i, e) == e.sock = i /\ seg.ack - (e.seg.seq + e.seg.len) \in 0..PeerWin
Acknowledge(w, i, seg) ==
    LET s == w.sock[i]
    IN IF "ACK" \notin seg.flags \/ seg.ack - s.thisAck \notin 0..PeerWin THEN w
       ELSE [w EXCEPT !.rtx = SelectSeq(@, LAMBDA e : ~Covers(seg, i, e)),
                      !.sock[i].thisAck = seg.ack,
                      !.sock[i].st = IF "FINSENT" \in @ THEN @ \cup {"FINACKRECVED"} ELSE @]

ShiftedByBytes(bits, j) ==                   \* mutant: only the memmove
    {b - (j \div ByteBits) * ByteBits : b \in {c \in bits : c \div ByteBits >= j \div ByteBits}}

\* memmove of whole bytes, then a shift inside each byte
Shifted(bits, j) ==
    LET size == PeerWin \div ByteBits + 1
        moved == {b \in 0..size * ByteBits - 1 :
                    IF b \div ByteBits < size - j \div ByteBits
                    THEN b + (j \div ByteBits) * ByteBits \in bits ELSE b \in bits}
    IN {b \in 0..size * ByteBits - 1 :
          IF b \div ByteBits < size - j \div ByteBits
          THEN (b % ByteBits) + (j % ByteBits) < ByteBits /\ b + (j % ByteBits) \in moved
          ELSE b \in moved}

Receives(s, seg) == seg.len > 0 /\ "SHUT_RD" \notin s.stat /\ s.st \cap NoRecv = {}
Outside(s, seg) == seg.seq + seg.len < s.peerSeq \/ seg.seq - s.peerSeq > ThisWin

Data(w, i, seg, net) ==
    LET s == w.sock[i]
        offs == seg.seq - s.peerSeq
        skip == IF offs < 0 THEN -offs ELSE 0
        buf == IF offs + seg.len > PeerWin THEN s.buf
               ELSE [o \in DOMAIN s.buf |-> IF o \in offs + skip..offs + seg.len - 1 THEN s.peerSeq + o ELSE s.buf[o]]
        \* j < 0 is a large number in the comparison of the loop: no bit is set
        bits == s.bits \cup {b \in 0..PeerWin - 1 : offs >= 0 /\ b \in offs..offs + seg.len - 1}
        j == CHOOSE k \in 0..PeerWin : 0..k - 1 \subseteq bits /\ (k = PeerWin \/ k \notin bits)
        got == [s EXCEPT !.buf = buf, !.bits = Shifted(bits, j), !.peerSeq = seg.seq + j]
        told == SendAck(Put(w, i, got), i, net)
    IN IF Outside(s, seg) THEN Stop(SendRst(w, i, net))
       ELSE IF j = 0 THEN Stop(Put(w, i, [s EXCEPT !.buf = buf, !.bits = bits]))
       ELSE Pass([told EXCEPT !.sock[i].len = j, !.sock[i].stat = @ \cup {"HASDATA"}, !.ready = @ \cup {s.fd}])

Fin(w, i, seg, net) ==
    LET v == [w EXCEPT !.sock[i].st = @ \cup {"FINRECVED"}, !.sock[i].peerSeq = seg.seq + 1]
    IN IF "FIN" \notin seg.flags THEN w
       ELSE IF net # "busy" THEN [SendAck(v, i, net) EXCEPT !.sock[i].st = @ \cup {"FINACKSENT"}]
       ELSE IF "FINSENT" \in v.sock[i].st THEN [v EXCEPT !.sock[i].st = @ \ {"CONNECTED"}] ELSE v

Complete(w, i, net) ==
    IF Finished \subseteq w.sock[i].st /\ "CLOSING" \in w.sock[i].stat THEN CloseSocket(w, i, net) ELSE w

Connected(w, i, seg, net) ==
    LET acked == Acknowledge(w, i, seg)
        data == IF Receives(acked.sock[i], seg) THEN Data(acked, i, seg, net) ELSE Pass(acked)
    IN IF data.stop THEN data
       ELSE Stop(Complete(Fin(data.w, i, seg, net), i, net))

Handle(w, i, seg, net) ==
    LET s == w.sock[i]
        exact == s.st \in {{"LISTEN"}, {"CONNECTED"}}
    IN IF ~s.used \/ ~s.port THEN Pass(w)
       ELSE IF "RST" \in seg.flags THEN Reset(w, i, seg)
       ELSE IF s.st = {} THEN Refuse(w, i, seg, net)
       ELSE IF ~exact /\ s.peerIsn # 0 /\ seg.seq \notin {s.peerIsn, s.peerSeq} THEN Stop(w)
       ELSE IF s.st = {"CONNECTED"} /\ s.peer # seg.peer THEN Pass(w)
       ELSE IF "SYNSENT" \in s.st /\ "LISTEN" \notin s.st THEN Connecting(w, i, seg, net)
       ELSE IF s.st = {"LISTEN"} THEN Listening(w, i, seg, net)
       ELSE IF s.st = Negotiated THEN Negotiating(w, i, seg)
       ELSE IF "CONNECTED" \in s.st \/ s.st \cap Finished # {} THEN Connected(w, i, seg, net)
       ELSE Pass(w)

ParseTcp(w, seg, net) ==
    FoldLeft(LAMBDA r, i : IF r.stop THEN r ELSE Handle(r.w, i, seg, net),
             Pass(w), SetToSortSeq(Sockets, <)).w

---------------------------------------------------------------------------
(* The calls of the application, and the retransmission timer.              *)

Least(S) == CHOOSE x \in S : \A y \in S : x <= y
Unopened == {i \in Sockets : ~sock[i].used}
FreeFds == {f \in DOMAIN fds : fds[f] = 0}
New(i) == [Unused EXCEPT !.used = TRUE, !.fd = Least(FreeFds), !.buf = [o \in 0..PeerWin - 1 |-> 0]]
Opened(f) == fds[f] # 0

\* socket(): the lowest free slot and the lowest free descriptor
Socket ==
    /\ Unopened # {} /\ FreeFds # {}
    /\ \A i \in Sockets : ~sock[i].used
    /\ LET i == Least(Unopened)
       IN /\ sock' = [sock EXCEPT ![i] = New(i)]
          /\ fds' = [fds EXCEPT ![Least(FreeFds)] = i]
          /\ delivered' = [delivered EXCEPT ![i] = <<>>]
          /\ gaveUp' = gaveUp \ {i}
    /\ UNCHANGED <<mayread, rtx, in, out, peer>>

Bind(f) ==
    /\ Opened(f) /\ \A k \in Sockets : ~sock[k].bound
    /\ sock' = [sock EXCEPT ![fds[f]].bound = TRUE, ![fds[f]].port = TRUE]
    /\ UNCHANGED <<fds, mayread, rtx, in, out, peer, delivered, gaveUp>>

Listen(f) ==
    /\ Listens /\ Opened(f) /\ sock[fds[f]].bound /\ sock[fds[f]].st = {}
    /\ sock' = [sock EXCEPT ![fds[f]].st = {"LISTEN"}]
    /\ UNCHANGED <<fds, mayread, rtx, in, out, peer, delivered, gaveUp>>

Connect(f, p, net) ==
    /\ ~Listens /\ Opened(f) /\ sock[fds[f]].bound /\ sock[fds[f]].st = {} /\ Len(rtx) < MaxRetries
    /\ Become(SendSyn(World, fds[f], p, {}, net))
    /\ UNCHANGED <<fds, in, peer, delivered, gaveUp>>

\* the new socket is not bound, but answers to the listener's port
Accept(f) ==
    /\ Opened(f) /\ sock[fds[f]].st = {"LISTEN"} /\ sock[fds[f]].num > 0
    /\ Unopened # {} /\ FreeFds # {}
    /\ LET l == fds[f]
           i == Least(Unopened)
           c == sock[l].pend[sock[l].first]
           conn == [New(i) EXCEPT !.port = TRUE, !.st = {"CONNECTED"}, !.peer = c.peer,
                                  !.thisSeq = c.this, !.thisAck = c.this, !.peerSeq = c.seq, !.peerIsn = c.seq - 1]
       IN /\ sock' = [sock EXCEPT ![i] = conn, ![l].num = @ - 1, ![l].first = (@ + 1) % MaxPending]
          /\ fds' = [fds EXCEPT ![Least(FreeFds)] = i]
          /\ mayread' = IF sock[l].num = 1 THEN mayread \ {sock[l].fd} ELSE mayread
          /\ delivered' = [delivered EXCEPT ![i] = <<>>]
          /\ gaveUp' = gaveUp \ {i}
    /\ UNCHANGED <<rtx, in, out, peer>>

\* recvfrom() copies, and may be interrupted before it moves the rest up
Recv(f) ==
    /\ Opened(f)
    /\ LET s == sock[fds[f]]
       IN /\ s.len > 0 /\ s.moving = 0
          /\ sock' = [sock EXCEPT ![fds[f]].moving = s.len]
          /\ delivered' = [delivered EXCEPT ![fds[f]] = @ \o [n \in 1..s.len |-> s.buf[n - 1]]]
    /\ UNCHANGED <<fds, mayread, rtx, in, out, peer, gaveUp>>

RecvMove(i) ==
    /\ sock[i].moving > 0
    /\ LET s == sock[i]
           rest == s.len - s.moving
           buf == [o \in DOMAIN s.buf |-> IF o + s.moving < PeerWin THEN s.buf[o + s.moving] ELSE s.buf[o]]
       IN /\ sock' = [sock EXCEPT ![i].buf = buf, ![i].len = rest, ![i].moving = 0,
                                  ![i].stat = IF rest = 0 THEN @ \ {"HASDATA"} ELSE @]
          /\ mayread' = IF rest = 0 THEN mayread \ {s.fd} ELSE mayread
    /\ UNCHANGED <<fds, rtx, in, out, peer, delivered, gaveUp>>

MaySend(s) == "CONNECTED" \in s.st /\ s.st \cap {"RESET", "ABORTED"} = {} /\ "SHUT_WR" \notin s.stat

\* sendto(): one message per connection here, in segments of one byte; the
\* loop sleeps while the window is closed.  tcp_send() returns -1 without a
\* buffer, which "sent", a size_t, never is below 0: the loop counts it as
\* one byte less and goes on from the byte before (socket.c:533-549).
\* Bound: one such failure, after which Message + 1 bytes go out.
Send(f) ==
    /\ Opened(f) /\ MaySend(sock[fds[f]]) /\ sock[fds[f]].thisSeq = 1 /\ sock[fds[f]].toSend = 0
    /\ sock' = [sock EXCEPT ![fds[f]].toSend = Message]
    /\ UNCHANGED <<fds, mayread, rtx, in, out, peer, delivered, gaveUp>>

SendMore(i, net) ==
    /\ sock[i].toSend > 0 /\ (net = "busy" => sock[i].thisSeq + sock[i].toSend <= Message + 1)
    /\ LET n == IF net = "busy" THEN -1 ELSE Allowed(sock[i], 1)
       IN Become([SendPacket(World, i, {"ACK", "PUSH"}, 1, net) EXCEPT !.sock[i].toSend = @ - n])
    /\ UNCHANGED <<fds, in, peer, delivered, gaveUp>>

ShutdownCall(f, how, net) ==
    /\ Ends /\ Opened(f) /\ sock[fds[f]].toSend = 0
    /\ Become(Shutdown(World, f, how, net))
    /\ UNCHANGED <<fds, in, peer, delivered, gaveUp>>

OwnNumber(f) ==
    LET s == sock[fds[f]] IN s.st \cap Established # {} /\ ~(Finished \subseteq s.st) => f = fds[f]

Close(f, net) ==
    /\ Ends /\ Opened(f) /\ OwnNumber(f) /\ sock[fds[f]].toSend = 0 /\ sock[fds[f]].moving = 0
    /\ Become(CloseSocket(World, fds[f], net))
    /\ fds' = [fds EXCEPT ![f] = 0]
    /\ UNCHANGED <<in, peer, delivered, gaveUp>>

\* tcp_retransmit_timer_proc(); without a buffer it changes nothing.  The
\* bytes of a segment are in its numbers: they are those that were copied.
Retransmit(k) ==
    /\ IF rtx[k].tries > 1
       THEN /\ rtx' = [rtx EXCEPT ![k].tries = @ - 1]
            /\ gaveUp' = gaveUp
       ELSE /\ rtx' = RemoveAt(rtx, k)
            /\ gaveUp' = gaveUp \cup {rtx[k].sock}
    /\ out' = Out(World, rtx[k].seg, "sent")
    /\ UNCHANGED <<sock, fds, mayread, in, peer, delivered>>

---------------------------------------------------------------------------
(* The peers.  They keep what RFC 793 asks of them.                         *)

Acked(p) == LET acks == {g.ack - Isn[p] - 1 : g \in {h \in out : h.peer = p /\ "ACK" \in h.flags}}
            IN CHOOSE n \in acks : \A m \in acks : m <= n
Tell(p, flags, start, n) == in' = in \cup {Segment(p, flags, Isn[p] + 1 + start, 1 + peer'[p].got, n)}
OfPeer(p) == {g \in out : g.peer = p}

PeerSyn(p) ==
    /\ Listens /\ peer[p].st = "new"
    /\ peer' = [peer EXCEPT ![p].st = "syn"]
    /\ in' = in \cup {Segment(p, {"SYN"}, Isn[p], 0, 0)}

PeerOpens(p) ==
    /\ peer[p].st = IF Listens THEN "syn" ELSE "new"
    /\ \E g \in OfPeer(p) : "SYN" \in g.flags
    /\ peer' = [peer EXCEPT ![p].st = "open"]
    /\ IF Listens THEN Tell(p, {"ACK"}, 0, 0) ELSE Tell(p, {"SYN", "ACK"}, -1, 0)

PeerSends(p) ==
    /\ peer[p].st = "open" /\ \E g \in OfPeer(p) : "ACK" \in g.flags
    /\ \E start \in Acked(p)..peer[p].snd, n \in 1..2 :
          /\ start + n <= Stream /\ start + n <= Acked(p) + Reach
          /\ peer' = [peer EXCEPT ![p].snd = IF start + n > @ THEN start + n ELSE @]
          /\ Tell(p, {"ACK"}, start, n)

\* the next byte, or the end, of what the application sent
PeerGets(p) ==
    /\ peer[p].st = "open"
    /\ \E g \in OfPeer(p) : g.seq = 1 + peer[p].got /\ "SYN" \notin g.flags /\ (g.len > 0 \/ "FIN" \in g.flags)
    /\ peer' = [peer EXCEPT ![p].got = @ + 1]
    /\ Tell(p, {"ACK"}, peer[p].snd, 0)

PeerFin(p) ==
    /\ Ends /\ peer[p].st = "open" /\ ~peer[p].fin /\ peer[p].snd = Stream
    /\ peer' = [peer EXCEPT ![p].fin = TRUE]
    /\ Tell(p, {"FIN", "ACK"}, Stream, 0)

PeerResets(p) ==
    /\ Resets /\ peer[p].st = "open"
    /\ peer' = [peer EXCEPT ![p].st = "gone"]
    /\ Tell(p, {"RST"}, peer[p].snd, 0)

PeerStep(p) ==
    /\ PeerSyn(p) \/ PeerOpens(p) \/ PeerSends(p) \/ PeerGets(p) \/ PeerFin(p) \/ PeerResets(p)
    /\ UNCHANGED <<sock, fds, mayread, rtx, out, delivered, gaveUp>>

KeepsUp(seg) == seg.len > 0 => \A i \in Sockets : sock[i].len = 0

Deliver(seg, net) ==
    /\ KeepsUp(seg) /\ ("SYN" \in seg.flags => Len(rtx) < MaxRetries)
    /\ Become(ParseTcp(World, seg, net))
    /\ UNCHANGED <<fds, in, peer, delivered, gaveUp>>

---------------------------------------------------------------------------

Init ==
    /\ sock = [i \in Sockets |-> Unused]
    /\ fds = [f \in Sockets |-> 0]
    /\ mayread = {} /\ rtx = <<>> /\ in = {} /\ out = {}
    /\ peer = [p \in Peers |-> [st |-> "new", snd |-> 0, got |-> 0, fin |-> FALSE]]
    /\ delivered = [i \in Sockets |-> <<>>]
    /\ gaveUp = {}

Next ==
    \/ Socket
    \/ \E f \in DOMAIN fds :
          \/ Bind(f) \/ Listen(f) \/ Accept(f) \/ Recv(f) \/ Send(f)
          \/ \E net \in CallOutcomes : Close(f, net)
          \/ \E how \in {"RD", "WR", "RDWR"}, net \in CallOutcomes : ShutdownCall(f, how, net)
          \/ \E p \in Peers, net \in Outcomes({"SYN"}) : Connect(f, p, net)
    \/ \E i \in Sockets : RecvMove(i) \/ \E net \in CallOutcomes : SendMore(i, net)
    \/ \E k \in DOMAIN rtx : Retransmit(k)
    \/ \E p \in Peers : PeerStep(p)
    \/ \E seg \in in : \E net \in Outcomes(seg.flags) : Deliver(seg, net)

Spec == Init /\ [][Next]_vars

---------------------------------------------------------------------------

TypeOK ==
    /\ \A i \in Sockets : sock[i].st \subseteq States /\ sock[i].len \in 0..PeerWin /\ sock[i].num \in 0..Backlog
    /\ \A f \in DOMAIN fds : fds[f] \in Sockets \cup {0}
    /\ \A k \in DOMAIN rtx : rtx[k].sock \in Sockets /\ rtx[k].tries \in 1..MaxTries

\* What recv() returned on a connection is the beginning of the peer's
\* stream, each byte once and in order, and nothing is acknowledged that did
\* not come: segments may be lost, repeated, overlap and overtake each other.
StreamInOrder ==
    \A i \in Sockets :
        LET s == sock[i]
        IN s.used /\ s.peer \in Peers =>
             /\ \A n \in DOMAIN delivered[i] : delivered[i][n] = Isn[s.peer] + n
             /\ "CONNECTED" \in s.st =>
                  /\ s.peerSeq <= Isn[s.peer] + 2 + peer[s.peer].snd
                  /\ "FINRECVED" \notin s.st => s.peerSeq = Isn[s.peer] + 1 + Len(delivered[i]) + s.len - s.moving

\* Every byte that was sent and is not acknowledged will be sent again: it
\* is in the retransmission list, until its tries run out or the connection
\* is reset.
UnackedIsRetried ==
    \A i \in Sockets :
        LET s == sock[i]
        IN "CONNECTED" \in s.st /\ s.st \cap {"RESET", "ABORTED"} = {} /\ i \notin gaveUp =>
             \A n \in s.thisAck..s.thisSeq - 1 : \E k \in DOMAIN rtx : rtx[k].sock = i /\ rtx[k].seg.seq = n

\* A socket on which both sides have finished does not stay behind: the last
\* segment frees the slot of a socket that is being closed.
FinishedIsFreed == \A i \in Sockets : ~(Finished \subseteq sock[i].st /\ "CLOSING" \in sock[i].stat)
=============================================================================
