------------------------- MODULE MCClassicSecurity -------------------------
(* Instances of ClassicSecurity for TLC: capabilities and commands per run. *)
EXTENDS ClassicSecurity

\* One capability pair for each association model, and both roles of Passkey Entry.
TwoCaps == {[io |-> "KeyboardOnly", mitm |-> TRUE], [io |-> "DisplayYesNo", mitm |-> TRUE]}
OneCap == {[io |-> "NoInputNoOutput", mitm |-> FALSE]}

Replies == {"connect", "authenticate", "keyReply", "ioReply", "confirm", "passkey", "ssp"}
PairOps == Replies \cup {"disconnect"}
KeyOps == PairOps \cup {"changeKey"}
BondOps == PairOps \cup {"forget"}
LinkOps == PairOps \cup {"changeKey", "encrypt", "reset"}

=============================================================================
