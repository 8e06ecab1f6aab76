-------------------------------- MODULE Emac --------------------------------
(***************************************************************************)
(* drivers/net/dm646x-emac.c: receive descriptors in a ring, transmit      *)
(* descriptors chained one by one to the head pointer of the controller.   *)
(* The receive handler reads descriptors until it meets one the controller *)
(* owns, and then acknowledges whatever the controller has completed.      *)
(*                                                                         *)
(* Careful keeps clear of what the code breaks:                            *)
(*   - the address of the frame is taken before the loop (336): of several *)
(*     frames of one interrupt the first is parsed several times, and a    *)
(*     frame that comes between the loop and the acknowledgement (369)     *)
(*     waits for the next: with Careful one frame comes at a time;         *)
(*   - the head pointer is written while the controller is sending (286),  *)
(*     which is an error of the host: with Careful nobody sends then.      *)
(***************************************************************************)
EXTENDS Integers, Sequences

CONSTANTS
  NumRecv, NumXmit,     \* NUM_RECV_BUFFERS, NUM_XMIT_BUFFERS
  Foreign,              \* frames to an address that is not this station's
  MaxFrames,            \* bound on the frames of each direction
  Careful

VARIABLES
  recv, curr_rd, chip_rd,
  arrived, parsed,
  completed,    \* RX0CP: frames the controller has completed
  acked,        \* ... and those the driver has acknowledged
  acking,       \* the handler is behind its loop
  xmit,         \* owner, frame and next descriptor
  curr_td, prev_td,
  hdp,          \* TX0HDP: the descriptor the controller is at
  submitted, sent,
  tx_acked,     \* transmissions the driver has acknowledged
  host_error

None == -1
rxVars == <<recv, curr_rd, chip_rd, arrived, parsed, completed, acked, acking>>
txVars == <<xmit, curr_td, prev_td, hdp, submitted, sent, tx_acked, host_error>>
vars == <<recv, curr_rd, chip_rd, arrived, parsed, completed, acked, acking,
          xmit, curr_td, prev_td, hdp, submitted, sent, tx_acked, host_error>>

Rd == 0 .. NumRecv - 1
Td == 0 .. NumXmit - 1
Recv(owner, frame) == [owner |-> owner, frame |-> frame]
Xmit(owner, frame, next) == [owner |-> owner, frame |-> frame, next |-> next]

(* dm646x_emac_init, steps 15 and 16.                                      *)
Init ==
  /\ recv = [r \in Rd |-> Recv(TRUE, 0)] /\ curr_rd = 0 /\ chip_rd = 0
  /\ arrived = 0 /\ parsed = <<>> /\ completed = 0 /\ acked = 0
  /\ acking = FALSE
  /\ xmit = [d \in Td |-> Xmit(FALSE, 0, (d + 1) % NumXmit)]
  /\ curr_td = 0 /\ prev_td = 0 /\ hdp = None
  /\ submitted = 0 /\ sent = <<>> /\ tx_acked = 0 /\ host_error = FALSE

Arrive ==
  /\ arrived < MaxFrames /\ recv[chip_rd].owner
  /\ Careful => completed = acked /\ ~acking
  /\ arrived' = arrived + 1 /\ completed' = arrived + 1
  /\ recv' = [recv EXCEPT ![chip_rd] = Recv(FALSE, arrived + 1)]
  /\ chip_rd' = (chip_rd + 1) % NumRecv
  /\ UNCHANGED <<curr_rd, parsed, acked, acking, txVars>>

(* dm646x_emac_rx_isr: the loop takes its first descriptor unconditionally *)
(* and ends at the first one the controller owns.                          *)
Taken == CHOOSE n \in 1 .. NumRecv :
           /\ n = NumRecv \/ recv[(curr_rd + n) % NumRecv].owner
           /\ \A k \in 1 .. n - 1 : ~recv[(curr_rd + k) % NumRecv].owner
RxIsr ==
  /\ completed # acked /\ ~acking
  /\ LET f == recv[curr_rd].frame IN
     parsed' = IF f \in Foreign THEN parsed
               ELSE parsed \o [k \in 1 .. Taken |-> f]
  /\ recv' = [r \in Rd |-> IF \E k \in 0 .. Taken - 1 : r = (curr_rd + k) % NumRecv
                           THEN Recv(TRUE, recv[r].frame) ELSE recv[r]]
  /\ curr_rd' = (curr_rd + Taken) % NumRecv
  /\ acking' = TRUE
  /\ UNCHANGED <<chip_rd, arrived, completed, acked, txVars>>
RxAck ==
  /\ acking
  /\ acked' = completed /\ acking' = FALSE
  /\ UNCHANGED <<recv, curr_rd, chip_rd, arrived, parsed, completed, txVars>>
-----------------------------------------------------------------------------
(* dm646x_emac_get_send_packet and dm646x_emac_send_packet.                *)
SendPacket ==
  /\ submitted < MaxFrames /\ ~xmit[curr_td].owner
  /\ Careful => hdp = None
  /\ submitted' = submitted + 1
  /\ xmit' = [d \in Td |->
       IF d = curr_td THEN Xmit(TRUE, submitted + 1, None)
       ELSE IF d = prev_td THEN [xmit[d] EXCEPT !.next = curr_td] ELSE xmit[d]]
  /\ hdp' = curr_td
  /\ host_error' = (host_error \/ hdp # None)
  /\ prev_td' = curr_td /\ curr_td' = (curr_td + 1) % NumXmit
  /\ UNCHANGED <<rxVars, sent, tx_acked>>

(* The controller sends the descriptor at the head and follows the chain.  *)
Transmit ==
  /\ hdp # None /\ ~host_error
  /\ host_error' = ~xmit[hdp].owner
  /\ sent' = IF host_error' THEN sent ELSE Append(sent, xmit[hdp].frame)
  /\ xmit' = [xmit EXCEPT ![hdp].owner = FALSE]
  /\ hdp' = xmit[hdp].next
  /\ UNCHANGED <<rxVars, curr_td, prev_td, submitted, tx_acked>>

(* dm646x_emac_tx_isr: acknowledges, and reuses nothing.                   *)
TxIsr ==
  /\ Len(sent) # tx_acked
  /\ tx_acked' = Len(sent)
  /\ UNCHANGED <<rxVars, xmit, curr_td, prev_td, hdp, submitted, sent, host_error>>

Next == Arrive \/ RxIsr \/ RxAck \/ SendPacket \/ Transmit \/ TxIsr
Spec == Init /\ [][Next]_vars
-----------------------------------------------------------------------------
Ours == SelectSeq([n \in 1 .. arrived |-> n], LAMBDA n : n \notin Foreign)

TypeOK ==
  /\ recv \in [Rd -> [owner : BOOLEAN, frame : 0 .. MaxFrames]]
  /\ xmit \in [Td -> [owner : BOOLEAN, frame : 0 .. MaxFrames, next : Td \cup {None}]]
  /\ curr_rd \in Rd /\ chip_rd \in Rd /\ curr_td \in Td /\ prev_td \in Td
  /\ hdp \in Td \cup {None} /\ acking \in BOOLEAN /\ host_error \in BOOLEAN

(* This station's frames are parsed once each and in order; between        *)
(* interrupts the driver and the controller are at the same descriptor.    *)
FramesInOrder ==
  /\ \E k \in 0 .. Len(Ours) : parsed = SubSeq(Ours, 1, k)
  /\ completed = acked => parsed = Ours /\ curr_rd = chip_rd

(* What send_packet accepted goes out once and in order, and the           *)
(* controller never meets a descriptor it does not own.                    *)
FramesSent ==
  /\ \A i \in 1 .. Len(sent) : sent[i] = i
  /\ ~host_error
  /\ hdp = None => Len(sent) = submitted
=============================================================================
