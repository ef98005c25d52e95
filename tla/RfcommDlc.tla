------------------------------- MODULE RfcommDlc -------------------------------
(***************************************************************************)
(* One open RFCOMM data link connection with credit-based flow control     *)
(* (Dlc and Multiplexer::write / on_dlc_uih in classic/rfcomm.rs), both    *)
(* ends and the frames between them.                                       *)
(*                                                                         *)
(* Each end counts the frames it may still send (tx_credits) and the       *)
(* frames it has allowed the other to send (rx_credits), and tops the      *)
(* other up, in a credit octet at the front of a frame, when the second    *)
(* count is at a low-water mark.  Byte i of an end's stream is the number  *)
(* i.  The PN exchange gives both ends the same initial credits (RfcommMux *)
(* models it); L2CAP delivers in order.                                    *)
(***************************************************************************)
EXTENDS Integers, Sequences, FiniteSets, SequencesExt

CONSTANTS Mtu,         \* bytes of a frame's information field
          MaxCredits,  \* DEFAULT_MAX_CREDITS
          Threshold,   \* DEFAULT_CREDIT_THRESHOLD
          Initial1,    \* the credits end 1 grants in the PN exchange, and those of end 2
          Initial2,
          MaxWrite,    \* bound: bytes in one write
          MaxBytes     \* bound: bytes an end's host writes in all

End == {1, 2}

Other(e) == 3 - e

Initial == <<Initial1, Initial2>>

U8Max == 255

\* A low-water mark below the maximum, counted in a u8; initial credits, clamped to
\* MAX_INITIAL_CREDITS = 7, are never above the mark.
ASSUME CreditAssumption ==
  /\ Mtu \in Nat \ {0}
  /\ MaxCredits \in 1..U8Max
  /\ Threshold \in 0..(MaxCredits - 1)
  /\ Initial \in [End -> 0..Threshold]
  /\ MaxWrite \in Nat /\ MaxBytes \in Nat

VARIABLES
  buf,      \* buf[e]: Dlc::tx_buffer
  tx,       \* tx[e]: Dlc::tx_credits
  rx,       \* rx[e]: Dlc::rx_credits
  wire,     \* wire[e]: UIH frames end e sent that have not arrived
  written,  \* written[e]: how many bytes host e has written
  got       \* got[e]: the bytes host e was given, in order

vars == <<buf, tx, rx, wire, written, got>>

\* A UIH frame: P/F is set when it starts with a credit octet.
Frame == [credits : 0..MaxCredits, data : Seq(Nat)]

Init ==
  /\ buf = [e \in End |-> <<>>]
  /\ tx = [e \in End |-> Initial[Other(e)]]
  /\ rx = Initial
  /\ wire = [e \in End |-> <<>>]
  /\ written = [e \in End |-> 0]
  /\ got = [e \in End |-> <<>>]

Least(a, b) == IF a < b THEN a ELSE b

--------------------------------------------------------------------------------
(***************************************************************************)
(* Dlc::process_tx of an end with buffer b, t credits to send and r        *)
(* credits granted.                                                        *)
(***************************************************************************)

\* Mutant of CreditsNeeded: a full grant, whatever is still outstanding.
FullGrant(r) == IF r <= Threshold THEN MaxCredits ELSE 0

\* Mutant of CreditsNeeded: a window that is exhausted is not topped up.
ExhaustedForgotten(r) == IF r \in 1..Threshold THEN MaxCredits - r ELSE 0

\* rx_credits_needed.
CreditsNeeded(r) == IF r <= Threshold THEN MaxCredits - r ELSE 0

\* Whether the frame that tops the peer up takes data along, and so a credit.
RidesAlong(b, t) == b # <<>> /\ t > 0

\* How many bytes that frame takes: one less than the MTU, for the octet.
RefillTake(b, t) == IF RidesAlong(b, t) THEN Least(Mtu - 1, Len(b)) ELSE 0

\* The frame that tops the peer up, first if any.
Refill(b, t, r) ==
  IF CreditsNeeded(r) = 0 THEN <<>>
  ELSE <<[credits |-> CreditsNeeded(r), data |-> SubSeq(b, 1, RefillTake(b, t))]>>

\* How many frames of Mtu bytes go out for buffer b: all it needs, or as many as t.
Count(b, t) == Least(t, (Len(b) + Mtu - 1) \div Mtu)

Chunks(b, n) ==
  [i \in 1..n |->
     [credits |-> 0,
      data    |-> SubSeq(b, (i - 1) * Mtu + 1, Least(i * Mtu, Len(b)))]]

\* Mutant of RestOf: the bytes the refill took are still in the buffer.
RestKept(b, t, r) == b

\* What the refill leaves of the buffer and of the credits.
RestOf(b, t, r) ==
  IF CreditsNeeded(r) = 0 THEN b ELSE SubSeq(b, RefillTake(b, t) + 1, Len(b))
LeftOf(b, t, r) ==
  IF CreditsNeeded(r) # 0 /\ RidesAlong(b, t) THEN t - 1 ELSE t

\* The loop of process_tx at end e, with wires w.
ProcessTx(e, w, b, t, r) ==
  LET rest == RestOf(b, t, r)
      left == LeftOf(b, t, r)
      n == Count(rest, left)
  IN  /\ wire' = [w EXCEPT ![e] = @ \o (Refill(b, t, r) \o Chunks(rest, n))]
      /\ buf' = [buf EXCEPT ![e] = SubSeq(rest, n * Mtu + 1, Len(rest))]
      /\ tx' = [tx EXCEPT ![e] = left - n]
      /\ rx' = [rx EXCEPT ![e] = r + CreditsNeeded(r)]

--------------------------------------------------------------------------------
(* Operations. *)

\* Multiplexer::write on the open connection: queue, then process_tx.
Write(e, k) ==
  /\ written[e] + k <= MaxBytes
  /\ written' = [written EXCEPT ![e] = @ + k]
  /\ ProcessTx(e, wire, buf[e] \o [i \in 1..k |-> written[e] + i], tx[e], rx[e])
  /\ UNCHANGED got

\* The credits to send after a frame's octet (saturating_add), and the credits granted
\* after its data (saturating_sub).
Topped(e, f) == Least(tx[e] + f.credits, U8Max)
Spent(e, f) == IF f.data = <<>> \/ rx[e] = 0 THEN rx[e] ELSE rx[e] - 1

\* on_dlc_uih: take the credit octet, give the data to the host, then process_tx.
OnDlcUih(e) ==
  /\ wire[Other(e)] # <<>>
  /\ LET f == Head(wire[Other(e)])
         w == [wire EXCEPT ![Other(e)] = Tail(@)]
     IN  /\ got' = [got EXCEPT ![e] = @ \o f.data]
         /\ ProcessTx(e, w, buf[e], Topped(e, f), Spent(e, f))
  /\ UNCHANGED written

Next == \E e \in End : OnDlcUih(e) \/ \E k \in 0..MaxWrite : Write(e, k)

Spec == Init /\ [][Next]_vars

\* L2CAP delivers what is sent; hosts write or not.
FairSpec == Spec /\ \A e \in End : WF_vars(OnDlcUih(e))

--------------------------------------------------------------------------------
(***************************************************************************)
(* Properties.                                                             *)
(***************************************************************************)

\* The sum of a sequence of naturals, as the number of cells under its graph.
Cells(h) == UNION {{i} \X (1..h[i]) : i \in 1..Len(h)}
Total(h) == Cardinality(Cells(h))

Credits(s) == [i \in 1..Len(s) |-> s[i].credits]
Loads(s) == [i \in 1..Len(s) |-> IF s[i].data = <<>> THEN 0 ELSE 1]

TypeOK ==
  /\ buf \in [End -> Seq(Nat)]
  /\ tx \in [End -> 0..U8Max]
  /\ rx \in [End -> 0..U8Max]
  /\ wire \in [End -> Seq(Frame)]
  /\ written \in [End -> Nat]
  /\ got \in [End -> Seq(Nat)]

\* The credits an end has granted are exactly those the other holds, those its frames
\* under way carry, and one for each frame with data under way to it, and never more
\* than MaxCredits; so neither saturating operation of on_dlc_uih ever saturates, no
\* frame arrives that was not allowed, and none of the allowance is lost.  Needs an
\* MTU of two: a frame of one byte has no room for data beside the credit octet, and
\* process_tx still pays for it.
CreditsConserved ==
  \A e \in End :
    /\ rx[e] = tx[Other(e)] + Total(Loads(wire[Other(e)])) + Total(Credits(wire[e]))
    /\ rx[e] <= MaxCredits

\* The data of a direction that is on its way: in frames, then in the buffer.
Carried(s) == FlattenSeq([i \in 1..Len(s) |-> s[i].data])
UnderWay(e) == Carried(wire[e]) \o buf[e]

Pipe == [e \in End |-> UnderWay(e)]

Stream == INSTANCE ByteStream WITH MaxPut <- MaxWrite, pipe <- Pipe, sent <- written

\* Each direction is a byte stream: what a host is given is what the other wrote, in
\* order, whatever the division into frames by MTU, credits and credit octets
\* (process_tx, on_dlc_uih).
IsByteStream == Stream!Spec

\* Everything written arrives: the ends never wait for credits for ever, whatever is
\* written in both directions, also when frames of one byte lose a credit.
Delivered ==
  \A e \in End : \A n \in 1..MaxBytes : written[e] >= n ~> Len(got[Other(e)]) >= n

================================================================================
