-------------------------------- MODULE Codecs --------------------------------
(***************************************************************************)
(* Messages of the packet formats on their way: written by one end, cut    *)
(* short or not, and read by the other, which tries every kind of message  *)
(* its family has.  A family maps each kind to the layout it is written    *)
(* with (w) and the one it is read with (r).                               *)
(***************************************************************************)
EXTENDS Layout

CONSTANT Families

VARIABLES
  msg,    \* the message: its family, kind and value
  wire,   \* its octets, as far as they got
  stage,  \* "idle", "sent", "read"
  heard   \* what the reader makes of them: kinds with values

vars == <<msg, wire, stage, heard>>

Init == msg = <<>> /\ wire = <<>> /\ stage = "idle" /\ heard = {}

Send(f, k) ==
  /\ stage = "idle"
  /\ stage' = "sent"
  /\ \E v \in SamplesAll(Families[f][k].w) :
       /\ msg' = [family |-> f, kind |-> k, value |-> v]
       /\ wire' = EncAll(Families[f][k].w, v)
  /\ UNCHANGED heard

Sent == EncAll(Families[msg.family][msg.kind].w, msg.value)

\* The first n octets arrive, and every reader of the family tries them.
Receive(n) ==
  LET fam == Families[msg.family]
      got == SubSeq(wire, 1, n)
  IN /\ stage = "sent"
     /\ stage' = "read"
     /\ wire' = got
     /\ heard' = {x \in {[kind |-> k, read |-> DecAll(fam[k].r, got)] : k \in DOMAIN fam} : x.read.ok}
     /\ UNCHANGED msg

Next ==
  \/ \E f \in DOMAIN Families : \E k \in DOMAIN Families[f] : Send(f, k)
  \/ \E n \in 0 .. Len(wire) : Receive(n)

Spec == Init /\ [][Next]_vars

Showing(x, cut) == ShowsAll(Families[msg.family][x.kind].r, x.read.v, msg.value, cut)

\* A message that arrives whole is understood, as the one that was sent and as no
\* other kind: no two kinds of a family share a code, and reader and writer agree on
\* the width, the order and the place of every field.
Understood ==
  stage = "read" /\ wire = Sent => {x.kind : x \in heard} = {msg.kind} /\ \A x \in heard : Showing(x, FALSE)

\* Of a message that was cut short a reader takes nothing that was not sent: it
\* refuses it, or shows a part of it.
NothingInvented ==
  stage = "read" /\ wire # Sent => \A x \in heard : x.kind = msg.kind /\ Showing(x, TRUE)
================================================================================
