------------------------------- MODULE I8255x -------------------------------
(***************************************************************************)
(* drivers/net/8255x.c: a cyclic list of receive frame descriptors and one *)
(* transmit control block.  The list has no end the controller would stop  *)
(* at, and it knows nothing of what the driver has read.                   *)
(*                                                                         *)
(* Not modelled: the payload, which get_send_packet() puts one Ethernet    *)
(* header too far into the block (8255x.c:122), and the type field, which  *)
(* the handler swaps before eth_parse_packet() swaps it (171).  Careful    *)
(* keeps clear of what the code breaks:                                    *)
(*   - a handler reads one frame however many came (158), and never        *)
(*     catches up; frames that come faster than the list is long are lost; *)
(*   - the sender fills the block before the driver waits for anything     *)
(*     (120-131), and what is waited for is the command word (100), not    *)
(*     that the frame before is out: the next frame overwrites it.         *)
(***************************************************************************)
EXTENDS Integers, Sequences

CONSTANTS
  NumRecv,      \* NUM_RECV_BUFFERS
  MaxFrames,    \* bound on the frames of each direction
  Careful

VARIABLES
  work_rfd,     \* the frame each descriptor holds, or 0
  curr_rfd, chip_rfd,
  arrived, parsed,
  framerecv,    \* SCB_STS_FRAMERECV
  command,      \* the command word is not accepted yet
  filled,       \* the sender has the buffer and has not sent it yet
  test_tcb,     \* the frame in the transmit control block
  sending,      \* the controller is reading the block
  submitted, sent

vars == <<work_rfd, curr_rfd, chip_rfd, arrived, parsed, framerecv, command,
          filled, test_tcb, sending, submitted, sent>>
rxVars == <<work_rfd, curr_rfd, chip_rfd, arrived, parsed, framerecv>>
txVars == <<command, filled, test_tcb, sending, submitted, sent>>

Rfd == 0 .. NumRecv - 1
NextRfd(r) == (r + 1) % NumRecv

(* init_scb, init_reception: the list is handed over from its start.       *)
Init ==
  /\ work_rfd = [r \in Rfd |-> 0] /\ curr_rfd = 0 /\ chip_rfd = 0
  /\ arrived = 0 /\ parsed = <<>> /\ framerecv = FALSE
  /\ command = FALSE /\ filled = FALSE /\ test_tcb = 0 /\ sending = FALSE
  /\ submitted = 0 /\ sent = <<>>

Arrive ==
  /\ arrived < MaxFrames
  /\ Careful => arrived - Len(parsed) < NumRecv
  /\ arrived' = arrived + 1
  /\ work_rfd' = [work_rfd EXCEPT ![chip_rfd] = arrived + 1]
  /\ chip_rfd' = NextRfd(chip_rfd)
  /\ framerecv' = TRUE
  /\ UNCHANGED <<curr_rfd, parsed, txVars>>

(* i8255x_isr: one descriptor is parsed and emptied, all is acknowledged.  *)
Isr ==
  /\ framerecv
  /\ parsed' = Append(parsed, work_rfd[curr_rfd])
  /\ work_rfd' = [work_rfd EXCEPT ![curr_rfd] = 0]
  /\ curr_rfd' = NextRfd(curr_rfd)
  /\ framerecv' = FALSE
  /\ UNCHANGED <<chip_rfd, arrived, txVars>>

(* i8255x_get_send_packet: the sender writes its frame into the block,     *)
(* which i8255x_send_packet() completes (130, 131).  Nothing is waited for.*)
GetSendPacket ==
  /\ submitted < MaxFrames /\ ~filled
  /\ Careful => ~command /\ ~sending
  /\ test_tcb' = submitted + 1
  /\ filled' = TRUE
  /\ UNCHANGED <<rxVars, command, sending, submitted, sent>>

(* i8255x_send_packet, i8255x_transmit_packet, once the wait is over.      *)
SendPacket ==
  /\ filled /\ ~command
  /\ submitted' = submitted + 1
  /\ filled' = FALSE
  /\ command' = TRUE
  /\ UNCHANGED <<rxVars, test_tcb, sending, sent>>
Accept ==
  /\ command /\ ~sending
  /\ command' = FALSE /\ sending' = TRUE
  /\ UNCHANGED <<rxVars, filled, test_tcb, submitted, sent>>
Transmit ==
  /\ sending
  /\ sent' = Append(sent, test_tcb)
  /\ sending' = FALSE
  /\ UNCHANGED <<rxVars, command, filled, test_tcb, submitted>>

Next == Arrive \/ Isr \/ GetSendPacket \/ SendPacket \/ Accept \/ Transmit
Spec == Init /\ [][Next]_vars
-----------------------------------------------------------------------------
TypeOK ==
  /\ work_rfd \in [Rfd -> 0 .. MaxFrames]
  /\ curr_rfd \in Rfd /\ chip_rfd \in Rfd
  /\ test_tcb \in 0 .. MaxFrames

(* Frames are parsed in the order they came; those that are not parsed yet *)
(* are in the descriptors from curr_rfd on.                                *)
FramesInOrder ==
  /\ \A i \in 1 .. Len(parsed) : parsed[i] = i
  /\ \A n \in Len(parsed) + 1 .. arrived :
       work_rfd[(curr_rfd + n - Len(parsed) - 1) % NumRecv] = n

(* Every frame handed to the driver goes out, once and in order.           *)
FramesSent ==
  /\ \A i \in 1 .. Len(sent) : sent[i] = i
  /\ submitted = Len(sent) \/ (submitted = Len(sent) + 1 /\ test_tcb = submitted
                               /\ (command \/ sending))
=============================================================================
