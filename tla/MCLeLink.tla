----------------------------- MODULE MCLeLink -----------------------------
(* Instances of LeLink for TLC: the command sets of each run. *)
EXTENDS LeLink

\* Up and down, with and without a preference for a direction, never the same for both.
FewPrefs == {<<"2M", "any">>, <<"any", "1M">>, <<"1M", "2M">>}

Connecting == {"advertise", "create"}
CreateOps == Connecting \cup {"cancel"}
LinkOps == Connecting \cup {"update", "phy", "encrypt", "acl", "disconnect", "reset"}
EncryptOps == Connecting \cup {"encrypt"}
PhyOps == Connecting \cup {"phy"}
StreamOps == Connecting \cup {"cancel", "cis", "disconnect"}
StreamResetOps == StreamOps \cup {"reset"}
StreamReuseOps == Connecting \cup {"cis", "cisReuse"}
AclOps == Connecting \cup {"acl"}

=============================================================================
