------------------------------ MODULE MCBroadcast ------------------------------
(* Broadcast for TLC: a receiver that has the code and is before the source in *)
(* the medium's order, and one that has none and comes after it.               *)
EXTENDS Broadcast

MCOrder == <<2, 1>>
MCOrderLate == <<1, 2, 3>>
MCCode == [r \in Ctl |-> IF r = 2 THEN 1 ELSE 0]
================================================================================
