----------------------------- MODULE AttributeTable -----------------------------
(***************************************************************************)
(* The attribute table GattDatabase builds from a description of services. *)
(* A service is [uuid, long, chars], a characteristic [uuid, long, notify, *)
(* indicate, write]; long says that the UUID has 16 octets.                *)
(***************************************************************************)
EXTENDS Sequences, SequencesExt

\* add_service, add_characteristic and the descriptor behind it: one attribute per handle.
HasCccd(c) == c.notify \/ c.indicate
CharacteristicAttributes(c) ==
  <<[t |-> "declaration", of |-> c, long |-> c.long], [t |-> "value", of |-> c, long |-> c.long]>>
    \o (IF HasCccd(c) THEN <<[t |-> "cccd", of |-> c, long |-> FALSE]>> ELSE <<>>)
ServiceAttributes(s) ==
  <<[t |-> "service", of |-> s, long |-> s.long]>>
    \o FlattenSeq([i \in 1 .. Len(s.chars) |-> CharacteristicAttributes(s.chars[i])])
AttributesOf(services) == FlattenSeq([i \in 1 .. Len(services) |-> ServiceAttributes(services[i])])
================================================================================
