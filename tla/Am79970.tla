------------------------------ MODULE Am79970 ------------------------------
(***************************************************************************)
(* drivers/net/am79970.c: the descriptor rings of the PCnet controller.    *)
(* Descriptors go round between the controller and the driver by their OWN *)
(* bit.  Received frames are counted by the interrupt handler and parsed   *)
(* by a bottom-half task; frames to send are filled in between             *)
(* eth_get_send_packet() and eth_send_packet() under ETH_DEV_SEND_LOCKED   *)
(* (network/ethernet.c).  A frame is its number in the order of arrival,   *)
(* or of sending.                                                          *)
(*                                                                         *)
(* Careful keeps clear of what the code breaks:                            *)
(*   - every interrupt, a transmission's too, resets received_frames and   *)
(*     prior_rd (413, 430), whatever the bottom half had left, and wake()  *)
(*     of a bottom half that does not nap fails: with Careful none comes   *)
(*     before it naps again;                                               *)
(*   - a full transmit ring gives no buffer, and the lock stays set        *)
(*     (ethernet.c:148): with Careful nobody sends into a full ring.       *)
(***************************************************************************)
EXTENDS Integers, Sequences, SequencesExt

CONSTANTS
  NumRecv,      \* NUM_RECV_BUFFERS
  NumXmit,      \* NUM_XMIT_BUFFERS
  MaxFrames,    \* bound on the frames of each direction
  Careful

ASSUME Am79970Assumption ==
  NumRecv \in Nat \ {0} /\ NumXmit \in Nat \ {0} /\ MaxFrames \in Nat

VARIABLES
  rx, curr_rd, prior_rd, received_frames,
  chip_rd,      \* where the controller will put the next frame
  arrived,      \* frames the controller has taken
  rint, tint,   \* pending interrupts
  bh,           \* the bottom half: "nap", "woken" or "parsing"
  parsed,       \* frames given to eth_parse_packet
  tx, curr_td, chip_td,
  send_locked,
  filled,       \* the frame its sender has put into the buffer, or 0
  submitted,    \* frames send_packet has accepted
  sent          \* frames the controller has sent

rxVars == <<rx, curr_rd, prior_rd, received_frames, chip_rd, arrived, bh, parsed>>
txVars == <<tx, curr_td, chip_td, send_locked, filled, submitted, sent>>
vars == <<rx, curr_rd, prior_rd, received_frames, chip_rd, arrived, rint, tint,
          bh, parsed, tx, curr_td, chip_td, send_locked, filled, submitted, sent>>

Rd == 0 .. NumRecv - 1
Td == 0 .. NumXmit - 1
NextRd(r) == (r + 1) % NumRecv
Descriptor(own, frame) == [own |-> own, frame |-> frame]

(* am79970_init: receive descriptors belong to the controller, transmit    *)
(* descriptors to the driver.                                              *)
Init ==
  /\ rx = [r \in Rd |-> Descriptor(TRUE, 0)]
  /\ tx = [d \in Td |-> Descriptor(FALSE, 0)]
  /\ curr_rd = 0 /\ prior_rd = 0 /\ received_frames = 0 /\ chip_rd = 0
  /\ arrived = 0 /\ rint = FALSE /\ tint = FALSE
  /\ bh = "nap" /\ parsed = <<>>
  /\ curr_td = 0 /\ chip_td = 0 /\ send_locked = FALSE /\ filled = 0
  /\ submitted = 0 /\ sent = <<>>
-----------------------------------------------------------------------------
(* The controller takes a frame if it owns the next descriptor.            *)
Arrive ==
  /\ arrived < MaxFrames /\ rx[chip_rd].own
  /\ arrived' = arrived + 1
  /\ rx' = [rx EXCEPT ![chip_rd] = Descriptor(FALSE, arrived + 1)]
  /\ chip_rd' = NextRd(chip_rd)
  /\ rint' = TRUE
  /\ UNCHANGED <<curr_rd, prior_rd, received_frames, bh, parsed, tint, txVars>>

(* How many descriptors from curr_rd on the driver has got.                *)
Run(r) == IF \A k \in Rd : ~rx[(r + k) % NumRecv].own THEN NumRecv
          ELSE CHOOSE n \in Rd : /\ rx[(r + n) % NumRecv].own
                                 /\ \A k \in Rd : k < n => ~rx[(r + k) % NumRecv].own

(* am79970_isr: frames are only counted, until the ring's start is met.    *)
PriorAfter == curr_rd'                     \* mutant: noted after the loop
PriorBefore == curr_rd
Isr ==
  /\ rint \/ tint
  /\ Careful => bh = "nap"
  /\ received_frames' = IF rint THEN Run(curr_rd) ELSE 0
  /\ curr_rd' = (curr_rd + received_frames') % NumRecv
  /\ prior_rd' = PriorBefore
  /\ rint' = FALSE /\ tint' = FALSE
  /\ bh' = IF received_frames' > 0 /\ bh = "nap" THEN "woken" ELSE bh
  /\ UNCHANGED <<rx, chip_rd, arrived, parsed, txVars>>

(* am79970_isr_bh: a frame is parsed, and only then its descriptor is the  *)
(* controller's again.                                                     *)
PutRecvDescr(r) == rx' = [rx EXCEPT ![r] = Descriptor(TRUE, rx[r].frame)]
BottomHalf ==
  /\ bh \in {"woken", "parsing"}
  /\ IF received_frames > 0
     THEN /\ received_frames' = received_frames - 1
          /\ parsed' = Append(parsed, rx[prior_rd].frame)
          /\ PutRecvDescr(prior_rd)
          /\ prior_rd' = NextRd(prior_rd)
          /\ bh' = "parsing"
     ELSE /\ bh' = "nap"
          /\ UNCHANGED <<received_frames, parsed, rx, prior_rd>>
  /\ UNCHANGED <<curr_rd, chip_rd, arrived, rint, tint, txVars>>
-----------------------------------------------------------------------------
(* eth_get_send_packet, and the sender fills what it got.                  *)
GetSendPacket ==
  /\ submitted < MaxFrames /\ ~send_locked
  /\ Careful => ~tx[curr_td].own
  /\ send_locked' = TRUE
  /\ IF tx[curr_td].own
     THEN UNCHANGED <<tx, filled>>
     ELSE /\ filled' = submitted + 1
          /\ tx' = [tx EXCEPT ![curr_td].frame = submitted + 1]
  /\ UNCHANGED <<rxVars, rint, tint, curr_td, chip_td, submitted, sent>>

(* eth_send_packet: refused while the descriptor is the controller's.      *)
SendPacket ==
  /\ filled # 0 /\ send_locked
  /\ send_locked' = FALSE /\ filled' = 0
  /\ IF tx[curr_td].own
     THEN UNCHANGED <<tx, curr_td, submitted>>
     ELSE /\ tx' = [tx EXCEPT ![curr_td] = Descriptor(TRUE, tx[curr_td].frame)]
          /\ curr_td' = (curr_td + 1) % NumXmit
          /\ submitted' = submitted + 1
  /\ UNCHANGED <<rxVars, rint, tint, chip_td, sent>>

Transmit ==
  /\ tx[chip_td].own
  /\ sent' = Append(sent, tx[chip_td].frame)
  /\ tx' = [tx EXCEPT ![chip_td] = Descriptor(FALSE, tx[chip_td].frame)]
  /\ chip_td' = (chip_td + 1) % NumXmit
  /\ tint' = TRUE
  /\ UNCHANGED <<rxVars, rint, curr_td, send_locked, filled, submitted>>

Next == Arrive \/ Isr \/ BottomHalf \/ GetSendPacket \/ SendPacket \/ Transmit
Spec == Init /\ [][Next]_vars
-----------------------------------------------------------------------------
InOrder(s) == \A i \in 1 .. Len(s) : s[i] = i

TypeOK ==
  /\ rx \in [Rd -> [own : BOOLEAN, frame : 0 .. MaxFrames]]
  /\ tx \in [Td -> [own : BOOLEAN, frame : 0 .. MaxFrames]]
  /\ curr_rd \in Rd /\ prior_rd \in Rd /\ chip_rd \in Rd
  /\ curr_td \in Td /\ chip_td \in Td
  /\ received_frames \in 0 .. NumRecv
  /\ bh \in {"nap", "woken", "parsing"}

(* Frames are parsed in the order they came, none twice, and those that    *)
(* are not parsed yet are still in the descriptors from prior_rd on.       *)
FramesInOrder ==
  /\ InOrder(parsed)
  /\ \A n \in Len(parsed) + 1 .. arrived :
       LET r == (prior_rd + n - Len(parsed) - 1) % NumRecv IN
       rx[r] = Descriptor(FALSE, n)

(* What send_packet accepted goes out once, whole and in order: it is sent *)
(* or waits in the controller's descriptors; and a set lock has a sender   *)
(* that will release it.                                                   *)
FramesSent ==
  /\ InOrder(sent)
  /\ \A n \in Len(sent) + 1 .. submitted :
       tx[(chip_td + n - Len(sent) - 1) % NumXmit] = Descriptor(TRUE, n)
  /\ send_locked => filled # 0
=============================================================================
