----------------------------- MODULE MCNetwork -----------------------------
(***************************************************************************)
(* The network stack for TLC: connections, datagram sockets, the DHCP      *)
(* client, IP packets and the four network drivers, one of them in each    *)
(* behaviour: "part" says which.  They share the variables x1, x2, ...; the*)
(* WITH of an instance says what a variable holds in its part, and one that*)
(* a part has no use for stays Idle.  The driver of Am79970, about which   *)
(* there are theorems, has its own variables.                              *)
(***************************************************************************)
EXTENDS Am79970, TLC

CONSTANTS a, b         \* remote hosts

VARIABLES part, x1, x2, x3, x4, x5, x6, x7, x8, x9, x10, x11, x12, x13, x14, x15, x16, x17

Idle == "idle"
XVars == <<x1, x2, x3, x4, x5, x6, x7, x8, x9, x10, x11, x12, x13, x14, x15, x16, x17>>
From5 == <<x5, x6, x7, x8, x9, x10, x11, x12, x13, x14, x15, x16, x17>>
From10 == <<x10, x11, x12, x13, x14, x15, x16, x17>>
From11 == <<x11, x12, x13, x14, x15, x16, x17>>
From13 == <<x13, x14, x15, x16, x17>>
From17 == <<x17>>
Idle17 == x17 = Idle
Idle13 == x13 = Idle /\ x14 = Idle /\ x15 = Idle /\ x16 = Idle /\ Idle17
Idle11 == x11 = Idle /\ x12 = Idle /\ Idle13
Idle10 == x10 = Idle /\ Idle11
Idle5 == x5 = Idle /\ x6 = Idle /\ x7 = Idle /\ x8 = Idle /\ x9 = Idle /\ Idle10

Isn == a :> 10 @@ b :> 30
-----------------------------------------------------------------------------
(* TCP: a listener one peer connects to and sends to; one whose connection *)
(* both sides close; one that peers reset; a socket that connects and sends*)
(* a long message; one that closes or is reset; one that finds the driver  *)
(* busy; a listener of two peers.                                          *)
TcpIn == INSTANCE Tcp WITH
  sock <- x1, fds <- x2, mayread <- x3, rtx <- x4, in <- x5, out <- x6, peer <- x7, delivered <- x8, gaveUp <- x9,
  Sockets <- {1, 2}, Peers <- {a}, PeerWin <- 6, ThisWin <- 6, MaxTries <- 2, Listens <- TRUE,
  Stream <- 3, Message <- 0, Reach <- 3, Ends <- FALSE, Resets <- FALSE, BusyCalls <- FALSE,
  ByteBits <- 2, MaxPending <- 2, Backlog <- 1, MaxRetries <- 2
TcpClose == INSTANCE Tcp WITH
  sock <- x1, fds <- x2, mayread <- x3, rtx <- x4, in <- x5, out <- x6, peer <- x7, delivered <- x8, gaveUp <- x9,
  Sockets <- {1, 2}, Peers <- {a}, PeerWin <- 4, ThisWin <- 4, MaxTries <- 1, Listens <- TRUE,
  Stream <- 0, Message <- 1, Reach <- 2, Ends <- TRUE, Resets <- FALSE, BusyCalls <- FALSE,
  ByteBits <- 2, MaxPending <- 2, Backlog <- 1, MaxRetries <- 1
TcpReset == INSTANCE Tcp WITH
  sock <- x1, fds <- x2, mayread <- x3, rtx <- x4, in <- x5, out <- x6, peer <- x7, delivered <- x8, gaveUp <- x9,
  Sockets <- {1, 2}, Peers <- {a}, PeerWin <- 4, ThisWin <- 4, MaxTries <- 1, Listens <- TRUE,
  Stream <- 0, Message <- 0, Reach <- 2, Ends <- TRUE, Resets <- TRUE, BusyCalls <- TRUE,
  ByteBits <- 2, MaxPending <- 2, Backlog <- 1, MaxRetries <- 1
TcpOut == INSTANCE Tcp WITH
  sock <- x1, fds <- x2, mayread <- x3, rtx <- x4, in <- x5, out <- x6, peer <- x7, delivered <- x8, gaveUp <- x9,
  Sockets <- {1}, Peers <- {a}, PeerWin <- 3, ThisWin <- 4, MaxTries <- 3, Listens <- FALSE,
  Stream <- 0, Message <- 4, Reach <- 2, Ends <- FALSE, Resets <- FALSE, BusyCalls <- FALSE,
  ByteBits <- 2, MaxPending <- 2, Backlog <- 1, MaxRetries <- 2
TcpConnect == INSTANCE Tcp WITH
  sock <- x1, fds <- x2, mayread <- x3, rtx <- x4, in <- x5, out <- x6, peer <- x7, delivered <- x8, gaveUp <- x9,
  Sockets <- {1}, Peers <- {a}, PeerWin <- 2, ThisWin <- 4, MaxTries <- 1, Listens <- FALSE,
  Stream <- 0, Message <- 1, Reach <- 2, Ends <- TRUE, Resets <- TRUE, BusyCalls <- FALSE,
  ByteBits <- 2, MaxPending <- 2, Backlog <- 1, MaxRetries <- 1
TcpBusy == INSTANCE Tcp WITH
  sock <- x1, fds <- x2, mayread <- x3, rtx <- x4, in <- x5, out <- x6, peer <- x7, delivered <- x8, gaveUp <- x9,
  Sockets <- {1}, Peers <- {a}, PeerWin <- 3, ThisWin <- 4, MaxTries <- 2, Listens <- FALSE,
  Stream <- 0, Message <- 2, Reach <- 2, Ends <- FALSE, Resets <- FALSE, BusyCalls <- TRUE,
  ByteBits <- 2, MaxPending <- 2, Backlog <- 1, MaxRetries <- 2
TcpPeers == INSTANCE Tcp WITH
  sock <- x1, fds <- x2, mayread <- x3, rtx <- x4, in <- x5, out <- x6, peer <- x7, delivered <- x8, gaveUp <- x9,
  Sockets <- {1, 2, 3}, Peers <- {a, b}, PeerWin <- 4, ThisWin <- 4, MaxTries <- 1, Listens <- TRUE,
  Stream <- 1, Message <- 0, Reach <- 2, Ends <- FALSE, Resets <- FALSE, BusyCalls <- FALSE,
  ByteBits <- 2, MaxPending <- 2, Backlog <- 1, MaxRetries <- 1

(* Datagram sockets, of which two may want one port.                       *)
U == INSTANCE Udp WITH
  sock <- x1, arrived <- x2, taken <- x3, got <- x4,
  Sockets <- {1, 2}, Ports <- {0, 1}, Addrs <- {"me"}, Hosts <- {a, b}, Size <- 6, Lengths <- {1, 2},
  OptionsUsed <- {}, MaxDatagrams <- 3, HoldsOff <- Careful
O == INSTANCE Udp WITH
  sock <- x1, arrived <- x2, taken <- x3, got <- x4,
  Sockets <- {1}, Ports <- {0, 1}, Addrs <- {"me"}, Hosts <- {a}, Size <- 3, Lengths <- {1},
  OptionsUsed <- {"DEBUG", "BROADCAST", "REUSEADDR", "KEEPALIVE", "OOBINLINE", "DONTROUTE"}, MaxDatagrams <- 1, HoldsOff <- Careful

(* Two interfaces that two servers configure.                              *)
D == INSTANCE Dhcp WITH
  state <- x1, addr <- x2, srv <- x3, config <- x4, list <- x5, ticks <- x6, sent <- x7, replies <- x8, gaveUp <- x9,
  Ifs <- {1, 2}, Servers <- {a, b}, MaxRetries <- 2, MaxTicks <- 1

(* Two networks of eight addresses, and a host on neither.                 *)
Packets == INSTANCE Ip WITH
  ip_id <- x1, sent <- x2, parsed <- x3, arrived <- x4,
  Netif <- << [ip_addr |-> 18, hostbits |-> 3], [ip_addr |-> 42, hostbits |-> 3] >>,
  Hosts <- {17, 47, 60}, ByteBits <- 3, Data <- {<<>>, <<1>>, <<7, 3>>, <<5, 0, 7>>},
  CharIsSigned <- TRUE, MaxPackets <- 2
-----------------------------------------------------------------------------
(* The other drivers, with rings of two buffers.                           *)
I8 == INSTANCE I8255x WITH
  work_rfd <- x1, curr_rfd <- x2, chip_rfd <- x3, arrived <- x4, parsed <- x5, framerecv <- x6, command <- x7,
  filled <- x8, test_tcb <- x9, sending <- x10, submitted <- x11, sent <- x12, NumRecv <- 2, MaxFrames <- 4
Em == INSTANCE Emac WITH
  recv <- x1, curr_rd <- x2, chip_rd <- x3, arrived <- x4, parsed <- x5, completed <- x6, acked <- x7, acking <- x8,
  xmit <- x9, curr_td <- x10, prev_td <- x11, hdp <- x12, submitted <- x13, sent <- x14, tx_acked <- x15,
  host_error <- x16, NumRecv <- 2, NumXmit <- 2, Foreign <- {2}, MaxFrames <- 5
Sm == INSTANCE Smsc WITH
  rx_fifo <- x1, ring <- x2, curr_rd <- x3, arrived <- x4, parsed <- x5, tx_fifo <- x6, held <- x7, curr_td <- x8,
  submitted <- x9, sent <- x10, NumRecv <- 2, NumXmit <- 2, Memory <- 3, Lengths <- {4, 7, 8}, Foreign <- {2}, MaxFrames <- 3
-----------------------------------------------------------------------------
NetworkInit ==
  /\ Init
  /\ \/ part = "tcp in" /\ TcpIn!Init /\ Idle10
     \/ part = "tcp close" /\ TcpClose!Init /\ Idle10
     \/ part = "tcp reset" /\ TcpReset!Init /\ Idle10
     \/ part = "tcp out" /\ TcpOut!Init /\ Idle10
     \/ part = "tcp connect" /\ TcpConnect!Init /\ Idle10
     \/ part = "tcp busy" /\ TcpBusy!Init /\ Idle10
     \/ part = "tcp peers" /\ TcpPeers!Init /\ Idle10
     \/ part = "udp" /\ U!Init /\ Idle5
     \/ part = "options" /\ O!Init /\ Idle5
     \/ part = "dhcp" /\ D!Init /\ Idle10
     \/ part = "ip" /\ Packets!Init /\ Idle5
     \/ part = "am79970" /\ x1 = Idle /\ x2 = Idle /\ x3 = Idle /\ x4 = Idle /\ Idle5
     \/ part = "8255x" /\ I8!Init /\ Idle13
     \/ part = "emac" /\ Em!Init /\ Idle17
     \/ part = "smsc" /\ Sm!Init /\ Idle11

NetworkNext ==
  \/ part = "am79970" /\ Next /\ UNCHANGED <<part, XVars>>
  \/ /\ UNCHANGED <<part, vars>>
     /\ \/ part = "tcp in" /\ TcpIn!Next /\ UNCHANGED From10
        \/ part = "tcp close" /\ TcpClose!Next /\ UNCHANGED From10
        \/ part = "tcp reset" /\ TcpReset!Next /\ UNCHANGED From10
        \/ part = "tcp out" /\ TcpOut!Next /\ UNCHANGED From10
        \/ part = "tcp connect" /\ TcpConnect!Next /\ UNCHANGED From10
        \/ part = "tcp busy" /\ TcpBusy!Next /\ UNCHANGED From10
        \/ part = "tcp peers" /\ TcpPeers!Next /\ UNCHANGED From10
        \/ part = "udp" /\ U!Next /\ UNCHANGED From5
        \/ part = "options" /\ O!Next /\ UNCHANGED From5
        \/ part = "dhcp" /\ D!Next /\ UNCHANGED From10
        \/ part = "ip" /\ Packets!Next /\ UNCHANGED From5
        \/ part = "8255x" /\ I8!Next /\ UNCHANGED From13
        \/ part = "emac" /\ Em!Next /\ UNCHANGED From17
        \/ part = "smsc" /\ Sm!Next /\ UNCHANGED From11

NetworkSpec == NetworkInit /\ [][NetworkNext]_<<part, XVars, vars>>
-----------------------------------------------------------------------------
(* What recv() returns on a connection is the beginning of what the peer   *)
(* sent, each byte once and in order, and parse_tcp() acknowledges nothing *)
(* that did not come.                                                      *)
StreamInOrder ==
  /\ part = "tcp in" => TcpIn!TypeOK /\ TcpIn!StreamInOrder
  /\ part = "tcp close" => TcpClose!TypeOK /\ TcpClose!StreamInOrder
  /\ part = "tcp reset" => TcpReset!TypeOK /\ TcpReset!StreamInOrder
  /\ part = "tcp out" => TcpOut!TypeOK /\ TcpOut!StreamInOrder
  /\ part = "tcp connect" => TcpConnect!TypeOK /\ TcpConnect!StreamInOrder
  /\ part = "tcp busy" => TcpBusy!TypeOK /\ TcpBusy!StreamInOrder
  /\ part = "tcp peers" => TcpPeers!TypeOK /\ TcpPeers!StreamInOrder

(* Nothing that waits for the other side is forgotten: what tcp_send()     *)
(* sent and is not acknowledged and what dhcp.c asked and is not answered  *)
(* will be sent again while tries are left, and a socket on which both     *)
(* sides have finished is freed.                                           *)
NothingForgotten ==
  /\ part = "tcp in" => TcpIn!UnackedIsRetried /\ TcpIn!FinishedIsFreed
  /\ part = "tcp close" => TcpClose!UnackedIsRetried /\ TcpClose!FinishedIsFreed
  /\ part = "tcp reset" => TcpReset!UnackedIsRetried /\ TcpReset!FinishedIsFreed
  /\ part = "tcp out" => TcpOut!UnackedIsRetried /\ TcpOut!FinishedIsFreed
  /\ part = "tcp connect" => TcpConnect!UnackedIsRetried /\ TcpConnect!FinishedIsFreed
  /\ part = "tcp busy" => TcpBusy!UnackedIsRetried /\ TcpBusy!FinishedIsFreed
  /\ part = "tcp peers" => TcpPeers!UnackedIsRetried /\ TcpPeers!FinishedIsFreed
  /\ part = "dhcp" => D!TypeOK /\ D!WaitingIsRetried

(* A datagram arrives whole or not at all: recvfrom() hands out each one a *)
(* socket took once and in order, and no two sockets take those of one     *)
(* port; a socket's options are those last set; an interface is configured *)
(* from the messages of one server; and a packet that is sent carries what *)
(* it was meant to, in a valid header.  So does a frame: a driver parses   *)
(* the frames that came and sends those it accepted, each once, whole and  *)
(* in order, and loses none while its ring has room.  (What Am79970 parses *)
(* is FramesInOrder.)                                                      *)
FramesAndDatagramsWhole ==
  /\ part = "udp" => U!TypeOK /\ U!DatagramsWhole /\ U!OneOwnerPerPort
  /\ part = "options" => O!OptionsKept
  /\ part = "dhcp" => D!BoundAsAcknowledged
  /\ part = "ip" => Packets!TypeOK /\ Packets!PacketsWhole
  /\ part = "am79970" => TypeOK /\ FramesSent
  /\ part = "8255x" => I8!TypeOK /\ I8!FramesInOrder /\ I8!FramesSent
  /\ part = "emac" => Em!TypeOK /\ Em!FramesInOrder /\ Em!FramesSent
  /\ part = "smsc" => Sm!TypeOK /\ Sm!FramesInOrder /\ Sm!FramesSent
=============================================================================
