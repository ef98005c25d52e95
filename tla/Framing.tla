-------------------------------- MODULE Framing --------------------------------
(***************************************************************************)
(* How messages are cut into packets and joined again, in the four codecs  *)
(* that do it with state: AVDTP signalling (classic/avdtp.rs), AVCTP       *)
(* (classic/avctp.rs), L2CAP frames over ACL packets (l2cap/reassembler.rs *)
(* and the hosts' acl_packets) and SBC frames over RTP (classic/rtp.rs).   *)
(*                                                                         *)
(* A sender writes messages one after the other, and may stop in the       *)
(* middle of one; the channel keeps order.  A byte is the message it       *)
(* belongs to and its position, so that bytes out of place show.           *)
(***************************************************************************)
EXTENDS Naturals, Sequences, SequencesExt

CONSTANTS Cases,       \* [codec, mtu, lengths, stops]: a sender's codec, its limit, the
                       \* lengths of its messages and whether it may stop in the middle
          MaxMessages  \* bound: messages sent

VARIABLES
  case,  \* the case of this behaviour
  sent,  \* number of messages sent
  due,   \* the messages sent whole
  wire,  \* packets under way
  asm,   \* the assembler
  got    \* what it returned

vars == <<case, sent, due, wire, asm, got>>

EmptyAssembler == [on |-> FALSE, data |-> <<>>, label |-> 0, total |-> 0, count |-> 0]

Init ==
  /\ case \in Cases
  /\ sent = 0 /\ due = <<>> /\ wire = <<>> /\ got = <<>>
  /\ asm = EmptyAssembler

Larger(a, b) == IF a > b THEN a ELSE b

\* Packets it takes for len bytes, first in the first of them and rest in each other.
Pieces(len, first, rest) == IF len <= first THEN 1 ELSE 1 + (len - first + rest - 1) \div rest

Cut(data, i, first, rest) ==
  LET from == IF i = 1 THEN 1 ELSE first + (i - 2) * rest + 1
      to == IF i = 1 THEN first ELSE first + (i - 1) * rest
  IN SubSeq(data, from, IF to < Len(data) THEN to ELSE Len(data))

Packets(label, data, single, total, first, rest) ==
  LET n == Pieces(Len(data), first, rest)
  IN [i \in 1 .. n |->
       [type |-> IF i = 1 THEN (IF single THEN "Single" ELSE "Start") ELSE IF i = n THEN "End" ELSE "Continue",
        label |-> label, total |-> total, data |-> Cut(data, i, first, rest)]]

--------------------------------------------------------------------------------
(* AVDTP *)

\* write_message: a fragment leaves room for three header bytes, a single packet needs two.
WriteAvdtp(label, data, mtu) ==
  LET cut == Larger(mtu - 3, 1)
  IN Packets(label, data, Len(data) + 2 <= mtu, Pieces(Len(data), cut, cut), cut, cut)

\* on_pdu: count goes on over packets that are dropped, and starts again only
\* when a message was being assembled.
AvdtpOnPdu(a, p) ==
  LET count == a.count + 1
      joined == a.data \o p.data
  IN CASE p.type = "Single" -> [asm |-> EmptyAssembler, out |-> <<p.data>>]
       [] p.type = "Start" ->
            [asm |-> [on |-> TRUE, data |-> p.data, label |-> p.label, total |-> p.total,
                      count |-> IF a.on THEN 1 ELSE count], out |-> <<>>]
       [] p.type \in {"Continue", "End"} /\ (~a.on \/ p.label # a.label) ->
            [asm |-> [a EXCEPT !.count = count], out |-> <<>>]
       [] p.type = "End" /\ a.on /\ p.label = a.label ->
            [asm |-> EmptyAssembler, out |-> IF count = a.total THEN <<joined>> ELSE <<>>]
       [] p.type = "Continue" /\ a.on /\ p.label = a.label ->
            [asm |-> IF count > a.total THEN EmptyAssembler ELSE [a EXCEPT !.count = count, !.data = joined],
             out |-> <<>>]

--------------------------------------------------------------------------------
(* AVCTP *)

WriteAvctp(label, data, mtu) ==
  LET limit == Larger(mtu, 5)
      single == 3 + Len(data) <= limit
      first == IF single THEN Len(data) ELSE limit - 4
  IN Packets(label, data, single, Pieces(Len(data), first, limit - 1), first, limit - 1)

\* Mutant of AvctpOnPdu: a Start does not discard what it interrupts.
AvctpKeepsOld(a, p) ==
  CASE p.type = "Single" -> [asm |-> a, out |-> <<p.data>>]
    [] p.type = "Start" -> [asm |-> [on |-> TRUE, data |-> a.data \o p.data, label |-> p.label,
                                     total |-> p.total, count |-> 1], out |-> <<>>]
    [] OTHER -> [asm |-> IF p.type = "End" THEN EmptyAssembler ELSE [a EXCEPT !.data = @ \o p.data],
                 out |-> IF p.type = "End" THEN <<a.data \o p.data>> ELSE <<>>]

AvctpOnPdu(a, p) ==
  LET count == a.count + 1
      joined == a.data \o p.data
  IN CASE p.type = "Single" -> [asm |-> EmptyAssembler, out |-> <<p.data>>]
       [] p.type = "Start" ->
            [asm |-> [on |-> TRUE, data |-> p.data, label |-> p.label, total |-> p.total, count |-> 1], out |-> <<>>]
       [] p.type \in {"Continue", "End"} ->
            IF ~a.on \/ p.label # a.label \/ count > a.total THEN [asm |-> EmptyAssembler, out |-> <<>>]
            ELSE IF p.type = "Continue" THEN [asm |-> [a EXCEPT !.count = count, !.data = joined], out |-> <<>>]
            ELSE [asm |-> EmptyAssembler, out |-> IF count = a.total THEN <<joined>> ELSE <<>>]

--------------------------------------------------------------------------------
(* ACL: the first packet carries the frame's length; packets have no other mark. *)

WriteAcl(data, mtu) == Packets(0, data, Len(data) <= mtu, Len(data), mtu, mtu)

\* push_fragment: a first fragment over an unfinished frame is an error that costs both.
AclOnPdu(a, p) ==
  LET first == p.type \in {"Single", "Start"}
      data == IF first THEN p.data ELSE a.data \o p.data
      total == IF first THEN p.total ELSE a.total
  IN IF first = a.on THEN [asm |-> EmptyAssembler, out |-> <<>>]
     ELSE IF Len(data) >= total THEN [asm |-> EmptyAssembler, out |-> <<SubSeq(data, 1, total)>>]
     ELSE [asm |-> [EmptyAssembler EXCEPT !.on = TRUE, !.data = data, !.total = total], out |-> <<>>]

--------------------------------------------------------------------------------
(* SBC over RTP, a frame at a time. *)

WriteSbc(data, mtu) == Packets(0, data, Len(data) <= mtu - 1, 0, mtu - 1, mtu - 1)

SbcOnPdu(a, p) ==
  LET data == IF p.type = "Start" THEN p.data ELSE a.data \o p.data
  IN CASE p.type = "Single" -> [asm |-> EmptyAssembler, out |-> <<p.data>>]
       [] p.type # "Single" /\ p.type # "Start" /\ ~a.on -> [asm |-> a, out |-> <<>>]
       [] p.type = "End" /\ a.on -> [asm |-> EmptyAssembler, out |-> <<data>>]
       [] OTHER -> [asm |-> [EmptyAssembler EXCEPT !.on = TRUE, !.data = data], out |-> <<>>]

--------------------------------------------------------------------------------

Write(label, data) ==
  CASE case.codec = "AVDTP" -> WriteAvdtp(label, data, case.mtu)
    [] case.codec = "AVCTP" -> WriteAvctp(label, data, case.mtu)
    [] case.codec = "ACL" -> WriteAcl(data, case.mtu)
    [] case.codec = "SBC" -> WriteSbc(data, case.mtu)

OnPdu(p) ==
  CASE case.codec = "AVDTP" -> AvdtpOnPdu(asm, p)
    [] case.codec = "AVCTP" -> AvctpOnPdu(asm, p)
    [] case.codec = "ACL" -> AclOnPdu(asm, p)
    [] case.codec = "SBC" -> SbcOnPdu(asm, p)

\* The sender writes a message, or the first packets of one.
Send(len) ==
  /\ sent < MaxMessages
  /\ sent' = sent + 1
  /\ LET data == [i \in 1 .. len |-> <<sent, i>>]
         packets == Write(sent % 16, data)
     IN \E k \in 1 .. Len(packets) :
          /\ k < Len(packets) => case.stops
          /\ wire' = wire \o SubSeq(packets, 1, k)
          /\ due' = IF k = Len(packets) THEN Append(due, data) ELSE due
  /\ UNCHANGED <<case, asm, got>>

Receive ==
  /\ wire # <<>>
  /\ wire' = Tail(wire)
  /\ asm' = OnPdu(Head(wire)).asm
  /\ got' = got \o OnPdu(Head(wire)).out
  /\ UNCHANGED <<case, sent, due>>

Next == (\E len \in case.lengths : Send(len)) \/ Receive

Spec == Init /\ [][Next]_vars

\* Every message sent whole is received whole, in order, once, and nothing else
\* is: whatever its length does to the last packet, and whatever message was
\* left unfinished before it (write_message, on_pdu, push_fragment, push).
Reassembled == IsPrefix(got, due) /\ (wire = <<>> => got = due)
================================================================================
