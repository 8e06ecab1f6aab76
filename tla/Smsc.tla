-------------------------------- MODULE Smsc --------------------------------
(***************************************************************************)
(* drivers/net/smsc91c111.c: the processor copies frames to and from the   *)
(* packet memory of the chip, word by word through its data register, and  *)
(* the chip queues packets.  A frame is its length; its bytes are numbered *)
(* <<frame, position>>.                                                    *)
(*                                                                         *)
(* A frame that is received is copied only in whole words of four bytes:   *)
(* the test for a remaining half word looks at the rounded length (376).   *)
(* Careful traffic has such lengths.  Not modelled: the descriptors of the *)
(* transmit ring take the first bytes of their buffers for its address     *)
(* (169, 199), so that all of them may be the same memory; and the number  *)
(* of a packet, which is read from the low byte of its register and written*)
(* to the high one (233, 241): the chip is taken to fill and queue the     *)
(* packet that was allocated.                                              *)
(***************************************************************************)
EXTENDS Integers, Sequences, SequencesExt

CONSTANTS
  NumRecv, NumXmit,     \* NUM_RECV_BUFFERS, NUM_XMIT_BUFFERS
  Memory,               \* packets the chip's memory has room for
  Lengths,              \* of frames
  Foreign,              \* frames to an address that is not this station's
  MaxFrames,            \* bound on the frames of each direction
  Careful

VARIABLES
  rx_fifo,      \* packets received, as bytes
  ring,         \* the driver's receive buffers
  curr_rd,
  arrived,      \* lengths of all frames that came
  parsed,       \* frames given to eth_parse_packet: number and bytes
  tx_fifo,      \* packets queued to be sent
  held,         \* packets allocated and not queued
  curr_td, submitted, sent

rxVars == <<rx_fifo, ring, curr_rd, arrived, parsed>>
txVars == <<tx_fifo, held, curr_td, submitted, sent>>
vars == <<rx_fifo, ring, curr_rd, arrived, parsed, tx_fifo, held, curr_td,
          submitted, sent>>

Rd == 0 .. NumRecv - 1
Td == 0 .. NumXmit - 1
Frame(n, length) == [i \in 1 .. length |-> <<n, i>>]
Used == Len(rx_fifo) + Len(tx_fifo) + held

Init ==
  /\ rx_fifo = <<>> /\ ring = [r \in Rd |-> <<>>] /\ curr_rd = 0
  /\ arrived = <<>> /\ parsed = <<>>
  /\ tx_fifo = <<>> /\ held = 0 /\ curr_td = 0 /\ submitted = <<>> /\ sent = <<>>

Arrive(length) ==
  /\ Len(arrived) < MaxFrames /\ Used < Memory
  /\ Careful => length % 4 = 0
  /\ arrived' = Append(arrived, length)
  /\ rx_fifo' = Append(rx_fifo, Frame(Len(arrived) + 1, length))
  /\ UNCHANGED <<ring, curr_rd, parsed, txVars>>

(* What of a frame is copied into buffer old, whose other bytes stay.      *)
Copied(frame) == (Len(frame) \div 4) * 4
CopyIn(frame, old) ==
  [i \in 1 .. Len(frame) |->
     IF i <= Copied(frame) THEN frame[i] ELSE IF i <= Len(old) THEN old[i] ELSE <<0, 0>>]
(* smsc91c111_isr: one frame of the loop, which goes on while the receive  *)
(* FIFO has one.                                                           *)
RxInt ==
  /\ rx_fifo # <<>>
  /\ LET bytes == CopyIn(Head(rx_fifo), ring[curr_rd])
         n == Head(rx_fifo)[1][1] IN
     /\ ring' = [ring EXCEPT ![curr_rd] = bytes]
     /\ parsed' = IF n \in Foreign THEN parsed ELSE Append(parsed, <<n, bytes>>)
  /\ rx_fifo' = Tail(rx_fifo)
  /\ curr_rd' = (curr_rd + 1) % NumRecv
  /\ UNCHANGED <<arrived, txVars>>
-----------------------------------------------------------------------------
(* What smsc91c111_send_packet puts after the header: words, a half word,  *)
(* and the last odd byte beside the control byte.                          *)
CopyOut(frame) ==
  LET words == (Len(frame) \div 4) * 4
      half == IF (Len(frame) % 4) \div 2 = 1 THEN 2 ELSE 0 IN
  SubSeq(frame, 1, words) \o SubSeq(frame, words + 1, words + half)
    \o IF Len(frame) % 2 = 1 THEN <<frame[words + half + 1]>> ELSE <<>>
(* smsc91c111_send_packet: refused while a packet is queued; an allocation *)
(* that times out (230) may still be answered, and nobody takes it.        *)
SendPacket(length) ==
  /\ Len(submitted) < MaxFrames
  /\ tx_fifo = <<>>
  /\ \/ /\ Used < Memory
        /\ submitted' = Append(submitted, length)
        /\ tx_fifo' = <<CopyOut(Frame(Len(submitted) + 1, length))>>
        /\ curr_td' = (curr_td + 1) % NumXmit
        /\ UNCHANGED held
     \/ /\ held' \in {held} \cup (IF Used < Memory THEN {held + 1} ELSE {})
        /\ UNCHANGED <<submitted, tx_fifo, curr_td>>
  /\ UNCHANGED <<rxVars, sent>>

(* With CONTROL_AUTO_RELEASE the chip frees a packet it has sent.          *)
Transmit ==
  /\ tx_fifo # <<>>
  /\ sent' = Append(sent, Head(tx_fifo))
  /\ tx_fifo' = Tail(tx_fifo)
  /\ UNCHANGED <<rxVars, held, curr_td, submitted>>

Next == \/ \E length \in Lengths : Arrive(length) \/ SendPacket(length)
        \/ RxInt \/ Transmit
Spec == Init /\ [][Next]_vars
-----------------------------------------------------------------------------
TypeOK ==
  /\ curr_rd \in Rd /\ curr_td \in Td /\ DOMAIN ring = Rd
  /\ Len(tx_fifo) <= 1 /\ Used <= Memory

(* This station's frames are parsed whole, once and in order.              *)
FramesInOrder ==
  LET done == Len(arrived) - Len(rx_fifo)
      ours == SelectSeq([n \in 1 .. done |-> n], LAMBDA n : n \notin Foreign) IN
  parsed = [i \in 1 .. Len(ours) |-> <<ours[i], Frame(ours[i], arrived[ours[i]])>>]

(* Frames the driver accepted go out whole, once and in order.             *)
FramesSent ==
  sent \o tx_fifo = [n \in 1 .. Len(submitted) |-> Frame(n, submitted[n])]
=============================================================================
