--------------------------- MODULE Am79970Proofs ---------------------------
(***************************************************************************)
(* Proofs about the PCnet driver, for rings of any length and any number   *)
(* of frames: when no interrupt comes before the bottom half is done and   *)
(* nobody sends into a full ring, frames are parsed and sent once, whole   *)
(* and in order.                                                           *)
(***************************************************************************)
EXTENDS Am79970, ListLemmas

(* The k-th position from b on in a ring of N.                             *)
Pos(b, k, N) == (b + k) % N

(* In the ring d of N descriptors the m from b on hold the frames from     *)
(* "first" on and have "with" as their OWN bit, the others "without".      *)
Holds(d, N, b, m, first, with, without) ==
  /\ b \in 0 .. N - 1 /\ m \in 0 .. N
  /\ \A k \in 0 .. N - 1 :
       IF k < m THEN d[Pos(b, k, N)] = Descriptor(with, first + k)
                ELSE d[Pos(b, k, N)].own = without

(* Values of an OWN bit.                                                   *)
Drivers == FALSE
Chips == TRUE

(* Received frames are in the ring until they are parsed; the handler has  *)
(* counted the first received_frames of them.                              *)
Unparsed == arrived - Len(parsed)
RxInv ==
  /\ rx \in [Rd -> [own : BOOLEAN, frame : 0 .. MaxFrames]]
  /\ parsed \in Seq(Nat) /\ InOrder(parsed)
  /\ arrived \in 0 .. MaxFrames /\ chip_rd \in Rd /\ curr_rd \in Rd
  /\ Holds(rx, NumRecv, prior_rd, Unparsed, Len(parsed) + 1, Drivers, Chips)
  /\ chip_rd = Pos(prior_rd, Unparsed, NumRecv)
  /\ received_frames \in 0 .. Unparsed
  /\ curr_rd = Pos(prior_rd, received_frames, NumRecv)
  /\ bh \in {"nap", "woken", "parsing"}
  /\ bh = "nap" => received_frames = 0

(* Accepted frames are in the ring until they are sent; the one its sender *)
(* fills is behind them.                                                   *)
Unsent == submitted - Len(sent)
TxInv ==
  /\ tx \in [Td -> [own : BOOLEAN, frame : 0 .. MaxFrames]]
  /\ sent \in Seq(Nat) /\ InOrder(sent)
  /\ submitted \in 0 .. MaxFrames /\ curr_td \in Td
  /\ Holds(tx, NumXmit, chip_td, Unsent, Len(sent) + 1, Chips, Drivers)
  /\ curr_td = Pos(chip_td, Unsent, NumXmit)
  /\ filled \in {0, submitted + 1}
  /\ filled # 0 => tx[curr_td] = Descriptor(FALSE, filled) /\ submitted < MaxFrames
  /\ send_locked => filled # 0

IInv == RxInv /\ TxInv
-----------------------------------------------------------------------------
(* Positions in a ring.                                                    *)

LEMMA PosIs ==
  ASSUME NEW N \in Nat \ {0}, NEW b \in 0 .. N - 1, NEW k \in 0 .. N
  PROVE  /\ Pos(b, k, N) \in 0 .. N - 1
         /\ Pos(b, k, N) = IF b + k < N THEN b + k ELSE b + k - N
<1>1. b + k \in 0 .. N + N - 1
  OBVIOUS
<1>2. CASE b + k < N
  <2>1. b + k \in 0 .. N - 1
    BY <1>1, <1>2
  <2>2. (b + k) % N = b + k
    BY <2>1
  <2> QED BY <2>1, <2>2, <1>2 DEF Pos
<1>3. CASE ~(b + k < N)
  <2>1. b + k \in N .. N + N - 1
    BY <1>1, <1>3
  <2>2. (b + k) % N = b + k - N
    BY <2>1
  <2> QED BY <2>1, <2>2, <1>3 DEF Pos
<1> QED BY <1>2, <1>3

LEMMA Positions ==
  ASSUME NEW N \in Nat \ {0}, NEW b \in 0 .. N - 1
  PROVE  /\ \A k \in 0 .. N - 1 : Pos(b, k, N) \in 0 .. N - 1
         /\ Pos(b, 0, N) = b /\ Pos(b, N, N) = b
         /\ \A j, k \in 0 .. N - 1 : Pos(b, j, N) = Pos(b, k, N) => j = k
         /\ Pos(b, 1, N) \in 0 .. N - 1
         /\ \A k \in 0 .. N - 1 : Pos(Pos(b, 1, N), k, N) = Pos(b, k + 1, N)
         /\ \A k \in 0 .. N - 1 : Pos(Pos(b, k, N), 1, N) = Pos(b, k + 1, N)
<1> DEFINE P(x, k) == IF x + k < N THEN x + k ELSE x + k - N
<1>1. \A x \in 0 .. N - 1, k \in 0 .. N : Pos(x, k, N) = P(x, k) /\ P(x, k) \in 0 .. N - 1
  BY PosIs
<1>2. P(b, 0) = b /\ P(b, N) = b
  OBVIOUS
<1>3. \A j, k \in 0 .. N - 1 : P(b, j) = P(b, k) => j = k
  OBVIOUS
<1>4. \A k \in 0 .. N - 1 : P(P(b, 1), k) = P(b, k + 1) /\ P(P(b, k), 1) = P(b, k + 1)
  OBVIOUS
<1>5. 0 \in 0 .. N /\ 1 \in 0 .. N /\ N \in 0 .. N
      /\ \A k \in 0 .. N - 1 : k \in 0 .. N /\ k + 1 \in 0 .. N
  OBVIOUS
<1> HIDE DEF P
<1>6. /\ Pos(b, 0, N) = b /\ Pos(b, N, N) = b /\ Pos(b, 1, N) \in 0 .. N - 1
      /\ \A k \in 0 .. N - 1 : Pos(b, k, N) \in 0 .. N - 1
  BY <1>1, <1>2, <1>5
<1>7. \A j, k \in 0 .. N - 1 : Pos(b, j, N) = Pos(b, k, N) => j = k
  BY <1>1, <1>3, <1>5
<1>8. ASSUME NEW k \in 0 .. N - 1
      PROVE  /\ Pos(Pos(b, 1, N), k, N) = Pos(b, k + 1, N)
             /\ Pos(Pos(b, k, N), 1, N) = Pos(b, k + 1, N)
  <2>1. /\ Pos(b, 1, N) = P(b, 1) /\ P(b, 1) \in 0 .. N - 1
        /\ Pos(b, k, N) = P(b, k) /\ P(b, k) \in 0 .. N - 1
        /\ Pos(b, k + 1, N) = P(b, k + 1)
    BY <1>1, <1>5
  <2>2. Pos(P(b, 1), k, N) = P(P(b, 1), k) /\ Pos(P(b, k), 1, N) = P(P(b, k), 1)
    BY <1>1, <1>5, <2>1
  <2> QED BY <1>4, <2>1, <2>2
<1> QED BY <1>6, <1>7, <1>8

Written(d2, d, i, e) == d2 = [d EXCEPT ![i] = e]
Returned(d2, d, i, own) == \E e : e.own = own /\ Written(d2, d, i, e)

(* The ring takes a frame behind those it holds,                           *)
LEMMA RingPut ==
  ASSUME NEW N \in Nat \ {0}, NEW d, DOMAIN d = 0 .. N - 1,
         NEW b, NEW m, NEW first \in Nat, NEW with, NEW without,
         Holds(d, N, b, m, first, with, without), m < N,
         NEW d2, Written(d2, d, Pos(b, m, N), Descriptor(with, first + m))
  PROVE  Holds(d2, N, b, m + 1, first, with, without)
<1>1. b \in 0 .. N - 1 /\ m \in 0 .. N - 1 /\ m + 1 \in 0 .. N
  BY DEF Holds
<1>2. \A k \in 0 .. N - 1 : Pos(b, k, N) \in 0 .. N - 1
  BY <1>1, Positions
<1>3. \A k \in 0 .. N - 1 : k # m => Pos(b, k, N) # Pos(b, m, N)
  BY <1>1, Positions
<1>4. d2[Pos(b, m, N)] = Descriptor(with, first + m)
  BY <1>1, <1>2 DEF Written
<1>5. \A k \in 0 .. N - 1 : k # m => d2[Pos(b, k, N)] = d[Pos(b, k, N)]
  BY <1>2, <1>3 DEF Written
<1>6. \A k \in 0 .. N - 1 : k < m + 1 <=> k < m \/ k = m
  BY <1>1
<1> QED BY <1>1, <1>4, <1>5, <1>6 DEF Holds

(* and gives away the first one.                                           *)
LEMMA RingTake ==
  ASSUME NEW N \in Nat \ {0}, NEW d, DOMAIN d = 0 .. N - 1,
         NEW b, NEW m, NEW first \in Nat, NEW with, NEW without,
         Holds(d, N, b, m, first, with, without), 0 < m,
         NEW d2, Returned(d2, d, b, without)
  PROVE  Holds(d2, N, Pos(b, 1, N), m - 1, first + 1, with, without)
<1>1. b \in 0 .. N - 1 /\ m \in 1 .. N /\ m - 1 \in 0 .. N /\ Pos(b, 1, N) \in 0 .. N - 1
  BY Positions DEF Holds
<1>2. \A k \in 0 .. N - 1 : Pos(b, k, N) \in 0 .. N - 1
  BY <1>1, Positions
<1>3. Pos(b, 0, N) = b /\ Pos(b, N, N) = b
  BY <1>1, Positions
<1>4. \A k \in 1 .. N - 1 : Pos(b, k, N) # b
  BY <1>1, <1>3, Positions
<1>7. PICK e : e.own = without /\ Written(d2, d, b, e)
  BY DEF Returned
<1>6. ASSUME NEW k \in 0 .. N - 1
      PROVE  IF k < m - 1 THEN d2[Pos(Pos(b, 1, N), k, N)] = Descriptor(with, first + 1 + k)
                          ELSE d2[Pos(Pos(b, 1, N), k, N)].own = without
  <2>1. Pos(Pos(b, 1, N), k, N) = Pos(b, k + 1, N)
    BY <1>1, Positions
  <2>2. CASE k = N - 1
    <3>1. k + 1 = N /\ ~(k < m - 1)
      BY <1>1, <2>2
    <3>2. d2[b].own = without
      BY <1>1, <1>7 DEF Written
    <3> QED BY <1>3, <2>1, <3>1, <3>2
  <2>3. CASE k # N - 1
    <3>1. k + 1 \in 1 .. N - 1 /\ k + 1 \in 0 .. N - 1 /\ first + (k + 1) = first + 1 + k
          /\ (k + 1 < m <=> k < m - 1)
      BY <1>1, <2>3
    <3>2. d2[Pos(b, k + 1, N)] = d[Pos(b, k + 1, N)]
      BY <1>2, <1>4, <1>7, <3>1 DEF Written
    <3> QED BY <2>1, <3>1, <3>2 DEF Holds
  <2> QED BY <2>2, <2>3
<1> QED BY <1>1, <1>6 DEF Holds
-----------------------------------------------------------------------------
(* Frames in order.                                                        *)

LEMMA InOrderAppend ==
  ASSUME NEW s \in Seq(Nat), InOrder(s)
  PROVE  /\ Append(s, Len(s) + 1) \in Seq(Nat) /\ InOrder(Append(s, Len(s) + 1))
         /\ Len(Append(s, Len(s) + 1)) = Len(s) + 1
<1>1. Len(s) \in Nat /\ Len(s) + 1 \in Nat
  BY LenProperties
<1>2. PICK e \in Nat : e = Len(s) + 1
  BY <1>1
<1>3. /\ Append(s, e) \in Seq(Nat) /\ Len(Append(s, e)) = Len(s) + 1
      /\ \A i \in 1 .. Len(s) : Append(s, e)[i] = s[i]
      /\ Append(s, e)[Len(s) + 1] = e
  BY <1>2, AppendProperties
<1>4. \A i \in 1 .. Len(s) + 1 : i \in 1 .. Len(s) \/ i = e
  BY <1>1, <1>2
<1>5. InOrder(Append(s, e))
  BY <1>2, <1>3, <1>4 DEF InOrder
<1> QED BY <1>2, <1>3, <1>5

(* The handler counts all frames that wait.                                *)
LEMMA RunIsUnparsed ==
  ASSUME NEW r, NEW m, NEW first, Holds(rx, NumRecv, r, m, first, Drivers, Chips)
  PROVE  Run(r) = m
<1> DEFINE Own(k) == rx[(r + k) % NumRecv].own
<1>1. m \in 0 .. NumRecv /\ NumRecv \in Nat /\ Rd = 0 .. NumRecv - 1
  BY Am79970Assumption DEF Holds, Rd
<1>2. \A k \in Rd : Own(k) <=> ~(k < m)
  <2> SUFFICES ASSUME NEW k \in Rd PROVE Own(k) <=> ~(k < m)
    OBVIOUS
  <2>1. CASE k < m
    <3>1. rx[Pos(r, k, NumRecv)] = Descriptor(Drivers, first + k)
      BY <1>1, <2>1 DEF Holds
    <3> QED BY <2>1, <3>1 DEF Descriptor, Drivers, Pos
  <2>2. CASE ~(k < m)
    <3>1. rx[Pos(r, k, NumRecv)].own = Chips
      BY <1>1, <2>2 DEF Holds
    <3> QED BY <2>2, <3>1 DEF Chips, Pos
  <2> QED BY <2>1, <2>2
<1>3. Run(r) = IF \A k \in Rd : ~Own(k) THEN NumRecv
               ELSE CHOOSE n \in Rd : Own(n) /\ \A k \in Rd : k < n => ~Own(k)
  BY DEF Run
<1> HIDE DEF Own
<1>4. CASE m = NumRecv
  BY <1>1, <1>2, <1>3, <1>4
<1>5. CASE m # NumRecv
  <2>1. m \in Rd /\ Own(m) /\ \A k \in Rd : k < m => ~Own(k)
    BY <1>1, <1>2, <1>5
  <2>2. ASSUME NEW n \in Rd, Own(n), \A k \in Rd : k < n => ~Own(k) PROVE n = m
    <3>1. ~(n < m)
      BY <1>2, <2>2
    <3>2. ~(m < n)
      BY <2>1, <2>2
    <3> QED BY <1>1, <3>1, <3>2
  <2> QED BY <1>3, <2>1, <2>2
<1> QED BY <1>4, <1>5
-----------------------------------------------------------------------------
(* Receiving.                                                              *)

LEMMA RxTypes ==
  ASSUME RxInv
  PROVE  /\ Len(parsed) \in Nat /\ arrived = Len(parsed) + Unparsed /\ Unparsed \in 0 .. NumRecv
         /\ arrived \in 0 .. MaxFrames /\ MaxFrames \in Nat
         /\ NumRecv \in Nat \ {0} /\ Rd = 0 .. NumRecv - 1 /\ DOMAIN rx = 0 .. NumRecv - 1
         /\ prior_rd \in 0 .. NumRecv - 1 /\ chip_rd \in Rd /\ curr_rd \in Rd
         /\ Holds(rx, NumRecv, prior_rd, Unparsed, Len(parsed) + 1, Drivers, Chips)
         /\ chip_rd = Pos(prior_rd, Unparsed, NumRecv)
         /\ received_frames \in 0 .. Unparsed
         /\ curr_rd = Pos(prior_rd, received_frames, NumRecv)
<1>1. Unparsed \in 0 .. NumRecv /\ prior_rd \in 0 .. NumRecv - 1
  BY DEF RxInv, Holds
<1>2. arrived \in Nat /\ Len(parsed) \in Nat
  BY LenProperties, Am79970Assumption DEF RxInv
<1>3. arrived = Len(parsed) + Unparsed
  BY <1>2 DEF Unparsed
<1> QED BY <1>1, <1>2, <1>3, Am79970Assumption DEF RxInv, Rd

LEMMA ArriveStep ==
  ASSUME RxInv, Arrive
  PROVE  RxInv'
<1>1. PICK m, p : m = Unparsed /\ p = Len(parsed)
  OBVIOUS
<1>2. /\ p \in Nat /\ arrived = p + m /\ m \in 0 .. NumRecv /\ NumRecv \in Nat \ {0}
      /\ prior_rd \in 0 .. NumRecv - 1 /\ Rd = 0 .. NumRecv - 1 /\ DOMAIN rx = 0 .. NumRecv - 1
      /\ chip_rd = Pos(prior_rd, m, NumRecv) /\ chip_rd \in Rd
      /\ Holds(rx, NumRecv, prior_rd, m, p + 1, Drivers, Chips)
      /\ MaxFrames \in Nat /\ received_frames \in 0 .. m
  BY <1>1, RxTypes
<1>3. /\ rx[chip_rd].own /\ arrived' = arrived + 1 /\ arrived < MaxFrames
      /\ chip_rd' = NextRd(chip_rd)
      /\ Written(rx', rx, chip_rd, Descriptor(Drivers, arrived + 1))
      /\ UNCHANGED <<curr_rd, prior_rd, received_frames, bh, parsed>>
  BY DEF Arrive, Written, Drivers
<1>4. PICK f : f = p + 1
  OBVIOUS
<1>5. /\ f \in Nat /\ arrived + 1 = f + m /\ Holds(rx, NumRecv, prior_rd, m, f, Drivers, Chips)
  BY <1>2, <1>4
<1>6. m < NumRecv
  <2> SUFFICES ASSUME m = NumRecv PROVE FALSE
    BY <1>2
  <2>1. chip_rd = Pos(prior_rd, 0, NumRecv) /\ 0 \in 0 .. NumRecv - 1 /\ 0 < m
    BY <1>2, Positions
  <2>2. rx[chip_rd] = Descriptor(Drivers, f + 0)
    BY <1>5, <2>1 DEF Holds
  <2> QED BY <1>3, <2>2 DEF Descriptor, Drivers
<1>7. Written(rx', rx, Pos(prior_rd, m, NumRecv), Descriptor(Drivers, f + m))
  BY <1>2, <1>3, <1>5
<1>8. Holds(rx', NumRecv, prior_rd, m + 1, f, Drivers, Chips)
  BY <1>2, <1>5, <1>6, <1>7, RingPut
<1>9. Unparsed' = m + 1 /\ Len(parsed') = p
  BY <1>2, <1>3, <1>1 DEF Unparsed
<1>10. chip_rd' = Pos(prior_rd, m + 1, NumRecv) /\ chip_rd' \in Rd
  <2>1. chip_rd' = Pos(chip_rd, 1, NumRecv)
    BY <1>3 DEF NextRd, Pos
  <2>2. m \in 0 .. NumRecv - 1 /\ chip_rd \in 0 .. NumRecv - 1
    BY <1>2, <1>6
  <2> QED BY <1>2, <2>1, <2>2, Positions
<1>11. rx' \in [Rd -> [own : BOOLEAN, frame : 0 .. MaxFrames]]
  <2>1. Descriptor(Drivers, arrived + 1) \in [own : BOOLEAN, frame : 0 .. MaxFrames]
    BY <1>2, <1>3 DEF Descriptor, Drivers
  <2> QED BY <1>3, <2>1 DEF Written, RxInv
<1>12. arrived' \in 0 .. MaxFrames /\ received_frames' \in 0 .. m + 1
  BY <1>2, <1>3
<1>13. Holds(rx', NumRecv, prior_rd', Unparsed', Len(parsed') + 1, Drivers, Chips)
  BY <1>3, <1>4, <1>8, <1>9
<1> QED BY <1>3, <1>9, <1>10, <1>11, <1>12, <1>13 DEF RxInv

LEMMA IsrStep ==
  ASSUME Careful, RxInv, Isr
  PROVE  RxInv'
<1>1. PICK m : m = Unparsed
  OBVIOUS
<1>2. /\ m \in 0 .. NumRecv /\ NumRecv \in Nat \ {0} /\ prior_rd \in 0 .. NumRecv - 1
      /\ curr_rd = Pos(prior_rd, received_frames, NumRecv) /\ Rd = 0 .. NumRecv - 1
      /\ Holds(rx, NumRecv, prior_rd, m, Len(parsed) + 1, Drivers, Chips)
  BY <1>1, RxTypes
<1>3. bh = "nap" /\ received_frames = 0
  BY DEF RxInv, Isr
<1>4. curr_rd = prior_rd
  BY <1>2, <1>3, Positions
<1>5. PICK n : n = received_frames'
  OBVIOUS
<1>6. Run(curr_rd) = m
  BY <1>2, <1>4, RunIsUnparsed
<1>7. n \in 0 .. m /\ n \in 0 .. NumRecv
  BY <1>2, <1>5, <1>6 DEF Isr
<1>8. /\ curr_rd' = Pos(prior_rd, n, NumRecv) /\ prior_rd' = prior_rd
      /\ bh' = IF n > 0 THEN "woken" ELSE "nap"
      /\ UNCHANGED <<rx, chip_rd, arrived, parsed>>
  BY <1>3, <1>4, <1>5 DEF Isr, PriorBefore, Pos
<1>9. curr_rd' \in Rd
  BY <1>2, <1>7, <1>8, PosIs
<1>10. Unparsed' = Unparsed
  BY <1>8 DEF Unparsed
<1>11. bh' \in {"nap", "woken", "parsing"} /\ (bh' = "nap" => n = 0)
  BY <1>7, <1>8
<1> QED BY <1>1, <1>5, <1>7, <1>8, <1>9, <1>10, <1>11 DEF RxInv

LEMMA BottomHalfStep ==
  ASSUME RxInv, BottomHalf
  PROVE  RxInv'
<1>1. CASE ~(received_frames > 0)
  <2>1. /\ UNCHANGED <<rx, curr_rd, prior_rd, received_frames, chip_rd, arrived, parsed>>
        /\ bh' = "nap"
    BY <1>1 DEF BottomHalf
  <2>2. Unparsed' = Unparsed
    BY <2>1 DEF Unparsed
  <2>3. received_frames = 0
    BY <1>1, RxTypes
  <2> QED BY <2>1, <2>2, <2>3 DEF RxInv
<1>2. CASE received_frames > 0
  <2>1. PICK m, p : m = Unparsed /\ p = Len(parsed)
    OBVIOUS
  <2>2. /\ p \in Nat /\ arrived = p + m /\ m \in 0 .. NumRecv /\ NumRecv \in Nat \ {0}
        /\ prior_rd \in 0 .. NumRecv - 1 /\ Rd = 0 .. NumRecv - 1 /\ DOMAIN rx = 0 .. NumRecv - 1
        /\ chip_rd = Pos(prior_rd, m, NumRecv)
        /\ Holds(rx, NumRecv, prior_rd, m, p + 1, Drivers, Chips)
        /\ received_frames \in 1 .. m /\ curr_rd = Pos(prior_rd, received_frames, NumRecv)
        /\ arrived \in 0 .. MaxFrames /\ chip_rd \in Rd /\ curr_rd \in Rd
    BY <1>2, <2>1, RxTypes
  <2>3. /\ received_frames' = received_frames - 1
        /\ parsed' = Append(parsed, rx[prior_rd].frame)
        /\ rx' = [rx EXCEPT ![prior_rd] = Descriptor(TRUE, rx[prior_rd].frame)]
        /\ prior_rd' = NextRd(prior_rd) /\ bh' = "parsing"
        /\ UNCHANGED <<curr_rd, chip_rd, arrived>>
    BY <1>2 DEF BottomHalf, PutRecvDescr
  <2>4. rx[prior_rd] \in [own : BOOLEAN, frame : 0 .. MaxFrames]
    BY <2>2 DEF RxInv
  <2>5. PICK e : e = [own |-> TRUE, frame |-> rx[prior_rd].frame]
    OBVIOUS
  <2>6. e.own = Chips /\ e \in [own : BOOLEAN, frame : 0 .. MaxFrames]
    BY <2>4, <2>5 DEF Chips
  <2>7. Written(rx', rx, prior_rd, e)
    BY <2>3, <2>5 DEF Written, Descriptor
  <2>8. PICK f : f = p + 1
    OBVIOUS
  <2>9. /\ f \in Nat /\ 0 < m /\ NumRecv \in Nat \ {0}
        /\ Holds(rx, NumRecv, prior_rd, m, f, Drivers, Chips)
    BY <2>2, <2>8
  <2>10. /\ Holds(rx', NumRecv, Pos(prior_rd, 1, NumRecv), m - 1, f + 1, Drivers, Chips)
         /\ rx[prior_rd] = Descriptor(Drivers, f)
    <3>1. Returned(rx', rx, prior_rd, Chips)
      BY <2>6, <2>7 DEF Returned
    <3>2. Holds(rx', NumRecv, Pos(prior_rd, 1, NumRecv), m - 1, f + 1, Drivers, Chips)
      BY <2>2, <2>9, <3>1, RingTake
    <3>3. Pos(prior_rd, 0, NumRecv) = prior_rd /\ 0 \in 0 .. NumRecv - 1
      BY <2>2, Positions
    <3>4. rx[Pos(prior_rd, 0, NumRecv)] = Descriptor(Drivers, f + 0)
      BY <2>9, <3>3 DEF Holds
    <3> QED BY <2>9, <3>2, <3>3, <3>4
  <2>11. parsed' \in Seq(Nat) /\ InOrder(parsed') /\ Len(parsed') = p + 1
    <3>1. rx[prior_rd].frame = Len(parsed) + 1
      BY <2>1, <2>8, <2>10 DEF Descriptor
    <3>2. parsed \in Seq(Nat) /\ InOrder(parsed)
      BY DEF RxInv
    <3> QED BY <2>1, <2>3, <3>1, <3>2, InOrderAppend
  <2>12. prior_rd' = Pos(prior_rd, 1, NumRecv)
    BY <2>3 DEF NextRd, Pos
  <2>13. Unparsed' = m - 1
    BY <2>2, <2>3, <2>11 DEF Unparsed
  <2>14. /\ chip_rd' = Pos(prior_rd', m - 1, NumRecv)
         /\ curr_rd' = Pos(prior_rd', received_frames', NumRecv)
    <3>1. /\ m - 1 \in 0 .. NumRecv - 1 /\ (m - 1) + 1 = m
          /\ received_frames' \in 0 .. NumRecv - 1 /\ received_frames' + 1 = received_frames
      BY <2>2, <2>3
    <3>2. \A k \in 0 .. NumRecv - 1 :
            Pos(Pos(prior_rd, 1, NumRecv), k, NumRecv) = Pos(prior_rd, k + 1, NumRecv)
      BY <2>2, Positions
    <3>3. Pos(Pos(prior_rd, 1, NumRecv), m - 1, NumRecv) = Pos(prior_rd, (m - 1) + 1, NumRecv)
      BY <3>1, <3>2
    <3>4. Pos(Pos(prior_rd, 1, NumRecv), received_frames', NumRecv)
          = Pos(prior_rd, received_frames' + 1, NumRecv)
      BY <3>1, <3>2
    <3>5. chip_rd' = Pos(prior_rd', m - 1, NumRecv)
      BY <2>2, <2>3, <2>12, <3>1, <3>3
    <3>6. curr_rd' = Pos(prior_rd', received_frames', NumRecv)
      BY <2>2, <2>3, <2>12, <3>1, <3>4
    <3> QED BY <3>5, <3>6
  <2>15. rx' \in [Rd -> [own : BOOLEAN, frame : 0 .. MaxFrames]]
    BY <2>6, <2>7 DEF Written, RxInv
  <2>16. received_frames' \in 0 .. m - 1
    BY <2>2, <2>3
  <2>17. Holds(rx', NumRecv, prior_rd', Unparsed', Len(parsed') + 1, Drivers, Chips)
    BY <2>8, <2>10, <2>11, <2>12, <2>13
  <2> QED BY <2>2, <2>3, <2>11, <2>13, <2>14, <2>15, <2>16, <2>17 DEF RxInv
<1> QED BY <1>1, <1>2
-----------------------------------------------------------------------------
(* Sending.                                                                *)

LEMMA TxTypes ==
  ASSUME TxInv
  PROVE  /\ Len(sent) \in Nat /\ submitted = Len(sent) + Unsent /\ Unsent \in 0 .. NumXmit
         /\ submitted \in 0 .. MaxFrames /\ MaxFrames \in Nat
         /\ NumXmit \in Nat \ {0} /\ Td = 0 .. NumXmit - 1 /\ DOMAIN tx = 0 .. NumXmit - 1
         /\ chip_td \in 0 .. NumXmit - 1 /\ curr_td \in Td
         /\ Holds(tx, NumXmit, chip_td, Unsent, Len(sent) + 1, Chips, Drivers)
         /\ curr_td = Pos(chip_td, Unsent, NumXmit)
         /\ tx[curr_td] \in [own : BOOLEAN, frame : 0 .. MaxFrames]
         /\ tx[chip_td] \in [own : BOOLEAN, frame : 0 .. MaxFrames]
<1>1. Unsent \in 0 .. NumXmit /\ chip_td \in 0 .. NumXmit - 1 /\ Td = 0 .. NumXmit - 1
  BY DEF TxInv, Holds, Td
<1>2. submitted \in Nat /\ Len(sent) \in Nat
  BY LenProperties, Am79970Assumption DEF TxInv
<1>3. submitted = Len(sent) + Unsent
  BY <1>2 DEF Unsent
<1> QED BY <1>1, <1>2, <1>3, Am79970Assumption DEF TxInv

(* The descriptor behind the frames that wait is free unless the ring is   *)
(* full.                                                                   *)
LEMMA RoomBehind ==
  ASSUME TxInv, ~tx[curr_td].own
  PROVE  Unsent < NumXmit
<1>1. PICK m, f : m = Unsent /\ f = Len(sent) + 1
  OBVIOUS
<1>2. /\ m \in 0 .. NumXmit /\ NumXmit \in Nat \ {0} /\ chip_td \in 0 .. NumXmit - 1
      /\ curr_td = Pos(chip_td, m, NumXmit) /\ Holds(tx, NumXmit, chip_td, m, f, Chips, Drivers)
  BY <1>1, TxTypes
<1> SUFFICES ASSUME m = NumXmit PROVE FALSE
  BY <1>1, <1>2
<1>3. curr_td = Pos(chip_td, 0, NumXmit) /\ 0 \in 0 .. NumXmit - 1 /\ 0 < m
  BY <1>2, Positions
<1>4. tx[curr_td] = Descriptor(Chips, f + 0)
  BY <1>2, <1>3 DEF Holds
<1> QED BY <1>4 DEF Descriptor, Chips

LEMMA GetSendPacketStep ==
  ASSUME Careful, TxInv, GetSendPacket
  PROVE  TxInv'
<1>1. PICK m, f, e : /\ m = Unsent /\ f = Len(sent) + 1
                     /\ e = [own |-> tx[curr_td].own, frame |-> submitted + 1]
  OBVIOUS
<1>2. /\ ~tx[curr_td].own /\ submitted < MaxFrames
      /\ filled' = submitted + 1 /\ send_locked' = TRUE
      /\ tx' = [tx EXCEPT ![curr_td].frame = submitted + 1]
      /\ UNCHANGED <<curr_td, chip_td, submitted, sent>>
  BY DEF GetSendPacket
<1>3. m < NumXmit
  BY <1>1, <1>2, RoomBehind
<1>4. /\ m \in 0 .. NumXmit - 1 /\ chip_td \in 0 .. NumXmit - 1 /\ NumXmit \in Nat \ {0}
      /\ curr_td = Pos(chip_td, m, NumXmit) /\ curr_td \in Td /\ Td = 0 .. NumXmit - 1
      /\ tx[curr_td] \in [own : BOOLEAN, frame : 0 .. MaxFrames]
      /\ Holds(tx, NumXmit, chip_td, m, f, Chips, Drivers)
      /\ submitted \in 0 .. MaxFrames /\ MaxFrames \in Nat
  BY <1>1, <1>3, TxTypes
<1>5. e = [own |-> FALSE, frame |-> submitted + 1]
  BY <1>1, <1>2, <1>4
<1>6. /\ e = Descriptor(FALSE, submitted + 1) /\ e.own = Drivers
      /\ e \in [own : BOOLEAN, frame : 0 .. MaxFrames]
  BY <1>2, <1>4, <1>5 DEF Descriptor, Drivers
<1>7. Written(tx', tx, curr_td, e)
  <2>1. [tx[curr_td] EXCEPT !.frame = submitted + 1] = e
    BY <1>1, <1>4
  <2> QED BY <1>2, <2>1 DEF Written
<1>8. tx' \in [Td -> [own : BOOLEAN, frame : 0 .. MaxFrames]] /\ tx'[curr_td] = e
  BY <1>4, <1>6, <1>7 DEF Written, TxInv
<1>9. Holds(tx', NumXmit, chip_td, m, f, Chips, Drivers)
  <2>1. \A k \in 0 .. NumXmit - 1 : k # m => tx'[Pos(chip_td, k, NumXmit)] = tx[Pos(chip_td, k, NumXmit)]
    <3>1. \A k \in 0 .. NumXmit - 1 : Pos(chip_td, k, NumXmit) \in Td
      BY <1>4, Positions
    <3>2. \A k \in 0 .. NumXmit - 1 : k # m => Pos(chip_td, k, NumXmit) # curr_td
      BY <1>4, Positions
    <3> QED BY <1>7, <3>1, <3>2 DEF Written, TxInv
  <2>2. tx'[Pos(chip_td, m, NumXmit)].own = Drivers
    BY <1>4, <1>6, <1>8
  <2> QED BY <1>4, <2>1, <2>2 DEF Holds
<1>10. Unsent' = Unsent /\ Len(sent') = Len(sent)
  BY <1>2 DEF Unsent
<1>11. filled' # 0
  BY <1>2, <1>4
<1>12. Holds(tx', NumXmit, chip_td', Unsent', Len(sent') + 1, Chips, Drivers)
  BY <1>1, <1>2, <1>9, <1>10
<1> QED BY <1>1, <1>2, <1>6, <1>8, <1>10, <1>11, <1>12 DEF TxInv

LEMMA SendPacketStep ==
  ASSUME TxInv, SendPacket
  PROVE  TxInv'
<1>1. PICK m, f, u : m = Unsent /\ f = Len(sent) + 1 /\ u = submitted
  OBVIOUS
<1>2. /\ filled = u + 1 /\ tx[curr_td] = Descriptor(FALSE, u + 1) /\ u < MaxFrames
      /\ send_locked' = FALSE /\ filled' = 0 /\ UNCHANGED <<chip_td, sent>>
  <2>1. filled # 0 /\ filled \in {0, submitted + 1}
    BY DEF SendPacket, TxInv
  <2>2. tx[curr_td] = Descriptor(FALSE, filled) /\ submitted < MaxFrames
    BY <2>1 DEF TxInv
  <2>3. send_locked' = FALSE /\ filled' = 0 /\ UNCHANGED <<chip_td, sent>>
    BY DEF SendPacket
  <2> QED BY <1>1, <2>1, <2>2, <2>3
<1>3. ~tx[curr_td].own
  BY <1>2 DEF Descriptor
<1>4. /\ tx' = [tx EXCEPT ![curr_td] = Descriptor(TRUE, tx[curr_td].frame)]
      /\ curr_td' = (curr_td + 1) % NumXmit /\ submitted' = u + 1
  BY <1>1, <1>3 DEF SendPacket
<1>5. m < NumXmit
  BY <1>1, <1>3, RoomBehind
<1>6. /\ m \in 0 .. NumXmit - 1 /\ chip_td \in 0 .. NumXmit - 1 /\ NumXmit \in Nat \ {0}
      /\ curr_td = Pos(chip_td, m, NumXmit) /\ curr_td \in Td /\ Td = 0 .. NumXmit - 1
      /\ Holds(tx, NumXmit, chip_td, m, f, Chips, Drivers) /\ f \in Nat /\ f + m = u + 1
      /\ MaxFrames \in Nat /\ u \in 0 .. MaxFrames /\ DOMAIN tx = 0 .. NumXmit - 1
  <2>1. /\ m \in 0 .. NumXmit /\ chip_td \in 0 .. NumXmit - 1 /\ NumXmit \in Nat \ {0}
        /\ curr_td = Pos(chip_td, m, NumXmit) /\ curr_td \in Td /\ Td = 0 .. NumXmit - 1
        /\ Holds(tx, NumXmit, chip_td, m, f, Chips, Drivers)
        /\ MaxFrames \in Nat /\ u \in 0 .. MaxFrames /\ DOMAIN tx = 0 .. NumXmit - 1
    BY <1>1, TxTypes
  <2>2. Len(sent) \in Nat /\ u = Len(sent) + m
    BY <1>1, TxTypes
  <2>3. m \in 0 .. NumXmit - 1
    BY <1>5, <2>1
  <2>4. f \in Nat /\ f + m = u + 1
    BY <1>1, <2>1, <2>2
  <2> QED BY <2>1, <2>3, <2>4
<1>7. Written(tx', tx, Pos(chip_td, m, NumXmit), Descriptor(Chips, f + m))
  <2>1. Descriptor(TRUE, tx[curr_td].frame) = Descriptor(Chips, u + 1)
    BY <1>2 DEF Descriptor, Chips
  <2>2. Written(tx', tx, curr_td, Descriptor(Chips, u + 1))
    BY <1>4, <2>1 DEF Written
  <2> QED BY <1>6, <2>2
<1>8. Holds(tx', NumXmit, chip_td, m + 1, f, Chips, Drivers)
  <2>1. /\ NumXmit \in Nat \ {0} /\ DOMAIN tx = 0 .. NumXmit - 1 /\ f \in Nat /\ m < NumXmit
        /\ Holds(tx, NumXmit, chip_td, m, f, Chips, Drivers)
    BY <1>5, <1>6
  <2> QED BY <2>1, <1>7, RingPut
<1>9. Unsent' = m + 1 /\ Len(sent') + 1 = f
  <2>1. sent' = sent /\ submitted' = u + 1 /\ u = Len(sent) + m /\ Len(sent) \in Nat
    BY <1>1, <1>2, <1>4, TxTypes
  <2>2. Len(sent') = Len(sent)
    BY <2>1
  <2> QED BY <1>1, <1>6, <2>1, <2>2 DEF Unsent
<1>10. curr_td' = Pos(chip_td, m + 1, NumXmit) /\ curr_td' \in Td
  <2>1. curr_td' = Pos(curr_td, 1, NumXmit)
    BY <1>4 DEF Pos
  <2> QED BY <1>6, <2>1, Positions
<1>11. tx' \in [Td -> [own : BOOLEAN, frame : 0 .. MaxFrames]]
  <2>1. Descriptor(Chips, f + m) \in [own : BOOLEAN, frame : 0 .. MaxFrames]
    BY <1>2, <1>6 DEF Descriptor, Chips
  <2> QED BY <1>7, <2>1 DEF Written, TxInv
<1>12. submitted' \in 0 .. MaxFrames
  BY <1>2, <1>4, <1>6
<1>13. Holds(tx', NumXmit, chip_td', Unsent', Len(sent') + 1, Chips, Drivers)
  BY <1>2, <1>8, <1>9
<1> QED BY <1>2, <1>9, <1>10, <1>11, <1>12, <1>13 DEF TxInv

LEMMA TransmitStep ==
  ASSUME TxInv, Transmit
  PROVE  TxInv'
<1>1. PICK m, f : m = Unsent /\ f = Len(sent) + 1
  OBVIOUS
<1>2. /\ tx[chip_td].own /\ sent' = Append(sent, tx[chip_td].frame)
      /\ tx' = [tx EXCEPT ![chip_td] = Descriptor(FALSE, tx[chip_td].frame)]
      /\ chip_td' = (chip_td + 1) % NumXmit
      /\ UNCHANGED <<curr_td, send_locked, filled, submitted>>
  BY DEF Transmit
<1>3. /\ m \in 0 .. NumXmit /\ chip_td \in 0 .. NumXmit - 1 /\ NumXmit \in Nat \ {0}
      /\ curr_td = Pos(chip_td, m, NumXmit) /\ curr_td \in Td /\ Td = 0 .. NumXmit - 1
      /\ Holds(tx, NumXmit, chip_td, m, f, Chips, Drivers) /\ f \in Nat
      /\ Len(sent) \in Nat /\ submitted = Len(sent) + m /\ DOMAIN tx = 0 .. NumXmit - 1
      /\ tx[chip_td] \in [own : BOOLEAN, frame : 0 .. MaxFrames]
  BY <1>1, TxTypes
<1>4. 0 < m
  <2> SUFFICES ASSUME m = 0 PROVE FALSE
    BY <1>3
  <2>1. Pos(chip_td, 0, NumXmit) = chip_td /\ 0 \in 0 .. NumXmit - 1 /\ ~(0 < m)
    BY <1>3, Positions
  <2>2. tx[Pos(chip_td, 0, NumXmit)].own = Drivers
    BY <1>3, <2>1 DEF Holds
  <2> QED BY <1>2, <2>1, <2>2 DEF Drivers
<1>5. PICK e : e = [own |-> FALSE, frame |-> tx[chip_td].frame]
  OBVIOUS
<1>6. e.own = Drivers /\ e \in [own : BOOLEAN, frame : 0 .. MaxFrames]
  BY <1>3, <1>5 DEF Drivers
<1>7. Written(tx', tx, chip_td, e)
  BY <1>2, <1>5 DEF Written, Descriptor
<1>8. /\ Holds(tx', NumXmit, Pos(chip_td, 1, NumXmit), m - 1, f + 1, Chips, Drivers)
      /\ tx[chip_td] = Descriptor(Chips, f)
  <2>1. Returned(tx', tx, chip_td, Drivers)
    BY <1>6, <1>7 DEF Returned
  <2>2. Holds(tx', NumXmit, Pos(chip_td, 1, NumXmit), m - 1, f + 1, Chips, Drivers)
    BY <1>3, <1>4, <2>1, RingTake
  <2>3. /\ f \in Nat /\ 0 < m /\ NumXmit \in Nat \ {0}
        /\ Holds(tx, NumXmit, chip_td, m, f, Chips, Drivers)
    BY <1>3, <1>4
  <2>4. Pos(chip_td, 0, NumXmit) = chip_td /\ 0 \in 0 .. NumXmit - 1
    BY <1>3, Positions
  <2>5. tx[Pos(chip_td, 0, NumXmit)] = Descriptor(Chips, f + 0)
    BY <2>3, <2>4 DEF Holds
  <2> QED BY <2>2, <2>3, <2>4, <2>5
<1>9. sent' \in Seq(Nat) /\ InOrder(sent') /\ Len(sent') = f
  <2>1. tx[chip_td].frame = Len(sent) + 1
    BY <1>1, <1>8 DEF Descriptor
  <2>2. sent \in Seq(Nat) /\ InOrder(sent)
    BY DEF TxInv
  <2> QED BY <1>1, <1>2, <2>1, <2>2, InOrderAppend
<1>10. chip_td' = Pos(chip_td, 1, NumXmit)
  BY <1>2 DEF Pos
<1>11. Unsent' = m - 1
  BY <1>1, <1>2, <1>3, <1>9 DEF Unsent
<1>12. curr_td' = Pos(chip_td', m - 1, NumXmit)
  <2>1. m - 1 \in 0 .. NumXmit - 1 /\ (m - 1) + 1 = m
    BY <1>3, <1>4
  <2>2. Pos(Pos(chip_td, 1, NumXmit), m - 1, NumXmit) = Pos(chip_td, (m - 1) + 1, NumXmit)
    BY <1>3, <2>1, Positions
  <2> QED BY <1>2, <1>3, <1>10, <2>1, <2>2
<1>13. tx' \in [Td -> [own : BOOLEAN, frame : 0 .. MaxFrames]]
  BY <1>6, <1>7 DEF Written, TxInv
<1>14. filled # 0 => tx'[curr_td] = tx[curr_td]
  <2>1. ASSUME filled # 0 PROVE curr_td # chip_td
    <3>1. tx[curr_td] = Descriptor(FALSE, filled)
      BY <2>1 DEF TxInv
    <3>2. ~tx[curr_td].own
      BY <3>1 DEF Descriptor
    <3> QED BY <1>2, <3>2
  <2> QED BY <1>3, <1>7, <2>1 DEF Written
<1>15. Holds(tx', NumXmit, chip_td', Unsent', Len(sent') + 1, Chips, Drivers)
  BY <1>8, <1>9, <1>10, <1>11
<1> QED BY <1>2, <1>9, <1>11, <1>12, <1>13, <1>14, <1>15 DEF TxInv
-----------------------------------------------------------------------------
LEMMA InitIInv == Init => IInv
<1> SUFFICES ASSUME Init PROVE IInv
  OBVIOUS
<1>1. /\ NumRecv \in Nat \ {0} /\ NumXmit \in Nat \ {0} /\ MaxFrames \in Nat
      /\ Rd = 0 .. NumRecv - 1 /\ Td = 0 .. NumXmit - 1
      /\ 0 \in 0 .. NumRecv - 1 /\ 0 \in 0 .. NumXmit - 1 /\ 0 \in 0 .. NumRecv /\ 0 \in 0 .. NumXmit
  BY Am79970Assumption DEF Rd, Td
<1>2. <<>> \in Seq(Nat) /\ Len(<<>>) = 0 /\ InOrder(<<>>)
  BY EmptySeq DEF InOrder
<1>3. /\ Pos(0, 0, NumRecv) = 0 /\ \A k \in 0 .. NumRecv - 1 : Pos(0, k, NumRecv) \in Rd
      /\ Pos(0, 0, NumXmit) = 0 /\ \A k \in 0 .. NumXmit - 1 : Pos(0, k, NumXmit) \in Td
  BY <1>1, Positions
<1>4. RxInv
  <2>1. /\ arrived = 0 /\ prior_rd = 0 /\ parsed = <<>> /\ chip_rd = 0 /\ curr_rd = 0
        /\ received_frames = 0 /\ bh = "nap"
    BY DEF Init
  <2>2. /\ rx \in [Rd -> [own : BOOLEAN, frame : 0 .. MaxFrames]]
        /\ \A r \in Rd : rx[r].own = Chips
    BY <1>1 DEF Init, Descriptor, Chips
  <2>3. Holds(rx, NumRecv, 0, 0, 0 + 1, Drivers, Chips)
    <3>1. \A k \in 0 .. NumRecv - 1 : ~(k < 0)
      BY <1>1
    <3> QED BY <1>1, <1>3, <2>2, <3>1 DEF Holds
  <2>4. Unparsed = 0
    <3>1. Len(parsed) = 0 /\ arrived = 0
      BY <1>2, <2>1
    <3> QED BY <3>1 DEF Unparsed
  <2>5. Holds(rx, NumRecv, prior_rd, Unparsed, Len(parsed) + 1, Drivers, Chips)
    BY <1>2, <2>1, <2>3, <2>4
  <2>6. /\ parsed \in Seq(Nat) /\ InOrder(parsed)
        /\ arrived \in 0 .. MaxFrames /\ chip_rd \in Rd /\ curr_rd \in Rd
        /\ chip_rd = Pos(prior_rd, Unparsed, NumRecv)
        /\ curr_rd = Pos(prior_rd, received_frames, NumRecv) /\ received_frames \in 0 .. Unparsed
    BY <1>1, <1>2, <1>3, <2>1, <2>4
  <2> QED BY <2>1, <2>2, <2>5, <2>6 DEF RxInv
<1>5. TxInv
  <2>1. /\ submitted = 0 /\ chip_td = 0 /\ sent = <<>> /\ curr_td = 0
        /\ filled = 0 /\ ~send_locked
    BY DEF Init
  <2>2. /\ tx \in [Td -> [own : BOOLEAN, frame : 0 .. MaxFrames]]
        /\ \A d \in Td : tx[d].own = Drivers
    BY <1>1 DEF Init, Descriptor, Drivers
  <2>3. Holds(tx, NumXmit, 0, 0, 0 + 1, Chips, Drivers)
    <3>1. \A k \in 0 .. NumXmit - 1 : ~(k < 0)
      BY <1>1
    <3> QED BY <1>1, <1>3, <2>2, <3>1 DEF Holds
  <2>4. Unsent = 0
    <3>1. Len(sent) = 0 /\ submitted = 0
      BY <1>2, <2>1
    <3> QED BY <3>1 DEF Unsent
  <2>5. Holds(tx, NumXmit, chip_td, Unsent, Len(sent) + 1, Chips, Drivers)
    BY <1>2, <2>1, <2>3, <2>4
  <2>6. /\ sent \in Seq(Nat) /\ InOrder(sent) /\ submitted \in 0 .. MaxFrames /\ curr_td \in Td
        /\ curr_td = Pos(chip_td, Unsent, NumXmit)
    BY <1>1, <1>2, <1>3, <2>1, <2>4
  <2> QED BY <2>1, <2>2, <2>5, <2>6 DEF TxInv
<1> QED BY <1>4, <1>5 DEF IInv

LEMMA RxKept ==
  ASSUME RxInv, UNCHANGED rxVars
  PROVE  RxInv'
<1>1. UNCHANGED <<rx, curr_rd, prior_rd, received_frames, chip_rd, arrived, bh, parsed>>
  BY DEF rxVars
<1>2. Unparsed' = Unparsed
  BY <1>1 DEF Unparsed
<1> QED BY <1>1, <1>2 DEF RxInv

LEMMA TxKept ==
  ASSUME TxInv, UNCHANGED txVars
  PROVE  TxInv'
<1>1. UNCHANGED <<tx, curr_td, chip_td, send_locked, filled, submitted, sent>>
  BY DEF txVars
<1>2. Unsent' = Unsent
  BY <1>1 DEF Unsent
<1> QED BY <1>1, <1>2 DEF TxInv

LEMMA StepIInv ==
  ASSUME Careful
  PROVE  IInv /\ [Next]_vars => IInv'
<1> SUFFICES ASSUME IInv, [Next]_vars PROVE RxInv' /\ TxInv'
  BY DEF IInv
<1> USE DEF IInv
<1>1. CASE Arrive
  <2>1. UNCHANGED txVars
    BY <1>1 DEF Arrive
  <2> QED BY <1>1, <2>1, ArriveStep, TxKept
<1>2. CASE Isr
  <2>1. UNCHANGED txVars
    BY <1>2 DEF Isr
  <2> QED BY <1>2, <2>1, IsrStep, TxKept
<1>3. CASE BottomHalf
  <2>1. UNCHANGED txVars
    BY <1>3 DEF BottomHalf
  <2> QED BY <1>3, <2>1, BottomHalfStep, TxKept
<1>4. CASE GetSendPacket
  <2>1. UNCHANGED rxVars
    BY <1>4 DEF GetSendPacket
  <2> QED BY <1>4, <2>1, GetSendPacketStep, RxKept
<1>5. CASE SendPacket
  <2>1. UNCHANGED rxVars
    BY <1>5 DEF SendPacket
  <2> QED BY <1>5, <2>1, SendPacketStep, RxKept
<1>6. CASE Transmit
  <2>1. UNCHANGED rxVars
    BY <1>6 DEF Transmit
  <2> QED BY <1>6, <2>1, TransmitStep, RxKept
<1>7. CASE UNCHANGED vars
  <2>1. UNCHANGED rxVars /\ UNCHANGED txVars
    BY <1>7 DEF vars, rxVars, txVars
  <2> QED BY <2>1, RxKept, TxKept
<1> QED BY <1>1, <1>2, <1>3, <1>4, <1>5, <1>6, <1>7 DEF Next

LEMMA SpecIInv ==
  ASSUME Careful
  PROVE  Spec => []IInv
BY InitIInv, StepIInv, PTL DEF Spec

LEMMA ReceivedInOrder ==
  ASSUME IInv
  PROVE  FramesInOrder
<1>1. PICK m, p : m = Unparsed /\ p = Len(parsed)
  OBVIOUS
<1>2. RxInv /\ InOrder(parsed)
  BY DEF IInv, RxInv
<1>3. /\ p \in Nat /\ arrived = p + m /\ m \in 0 .. NumRecv /\ NumRecv \in Nat
      /\ prior_rd \in 0 .. NumRecv - 1
      /\ Holds(rx, NumRecv, prior_rd, m, p + 1, Drivers, Chips)
  BY <1>1, <1>2, RxTypes
<1>4. ASSUME NEW n \in p + 1 .. arrived
      PROVE  rx[(prior_rd + n - p - 1) % NumRecv] = Descriptor(FALSE, n)
  <2>1. PICK k : k = n - p - 1
    OBVIOUS
  <2>2. k \in 0 .. NumRecv - 1 /\ k < m /\ p + 1 + k = n /\ prior_rd + n - p - 1 = prior_rd + k
    BY <1>3, <1>4, <2>1
  <2>3. rx[Pos(prior_rd, k, NumRecv)] = Descriptor(Drivers, p + 1 + k)
    BY <1>3, <2>2 DEF Holds
  <2> QED BY <2>2, <2>3 DEF Pos, Drivers
<1> QED BY <1>1, <1>2, <1>4 DEF FramesInOrder

LEMMA AcceptedAreSent ==
  ASSUME IInv
  PROVE  FramesSent
<1>1. PICK m, s : m = Unsent /\ s = Len(sent)
  OBVIOUS
<1>2. TxInv /\ InOrder(sent) /\ (send_locked => filled # 0)
  BY DEF IInv, TxInv
<1>3. /\ s \in Nat /\ submitted = s + m /\ m \in 0 .. NumXmit /\ NumXmit \in Nat
      /\ chip_td \in 0 .. NumXmit - 1
      /\ Holds(tx, NumXmit, chip_td, m, s + 1, Chips, Drivers)
  BY <1>1, <1>2, TxTypes
<1>4. ASSUME NEW n \in s + 1 .. submitted
      PROVE  tx[(chip_td + n - s - 1) % NumXmit] = Descriptor(TRUE, n)
  <2>1. PICK k : k = n - s - 1
    OBVIOUS
  <2>2. k \in 0 .. NumXmit - 1 /\ k < m /\ s + 1 + k = n /\ chip_td + n - s - 1 = chip_td + k
    BY <1>3, <1>4, <2>1
  <2>3. tx[Pos(chip_td, k, NumXmit)] = Descriptor(Chips, s + 1 + k)
    BY <1>3, <2>2 DEF Holds
  <2> QED BY <2>2, <2>3 DEF Pos, Chips
<1> QED BY <1>1, <1>2, <1>4 DEF FramesSent

LEMMA TypesHold ==
  ASSUME IInv
  PROVE  TypeOK
<1>1. RxInv /\ TxInv
  BY DEF IInv
<1>2. prior_rd \in Rd /\ received_frames \in 0 .. NumRecv
  BY <1>1, RxTypes
<1>3. chip_td \in Td
  BY <1>1, TxTypes
<1> QED BY <1>1, <1>2, <1>3 DEF RxInv, TxInv, TypeOK

(* Frames are parsed in the order they came, none twice, and those not     *)
(* parsed yet are still in their descriptors.                              *)
THEOREM FramesParsedInOrder ==
  ASSUME Careful
  PROVE  Spec => []FramesInOrder
BY SpecIInv, ReceivedInOrder, PTL

(* What send_packet accepted is sent once, whole and in order, and a set   *)
(* lock has a sender that will release it.                                 *)
THEOREM FramesSentInOrder ==
  ASSUME Careful
  PROVE  Spec => []FramesSent
BY SpecIInv, AcceptedAreSent, PTL

(* The variables of the driver and of the controller keep their types.     *)
THEOREM TypeCorrect ==
  ASSUME Careful
  PROVE  Spec => []TypeOK
BY SpecIInv, TypesHold, PTL
=============================================================================
