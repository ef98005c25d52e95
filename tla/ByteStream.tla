------------------------------- MODULE ByteStream -------------------------------
(***************************************************************************)
(* What a connection promises its two hosts: each direction is a pipe into *)
(* which one host puts the next bytes of its stream and out of which the   *)
(* other gets them, in order, none lost and none twice.                    *)
(***************************************************************************)
EXTENDS Naturals, Sequences

CONSTANT MaxPut  \* the most bytes put in at once

VARIABLES
  pipe,  \* pipe[e]: what host e has put in and the other has not got
  sent,  \* sent[e]: how many bytes host e has put in
  got    \* got[e]: what host e has got out

Ends == {1, 2}

Init ==
  /\ pipe = [e \in Ends |-> <<>>]
  /\ sent = [e \in Ends |-> 0]
  /\ got = [e \in Ends |-> <<>>]

Put(e) ==
  \E k \in 1..MaxPut :
    /\ sent' = [sent EXCEPT ![e] = @ + k]
    /\ pipe' = [pipe EXCEPT ![e] = @ \o [i \in 1..k |-> sent[e] + i]]
    /\ UNCHANGED got

Get(e) ==
  \E k \in 1..Len(pipe[3 - e]) :
    /\ got' = [got EXCEPT ![e] = @ \o SubSeq(pipe[3 - e], 1, k)]
    /\ pipe' = [pipe EXCEPT ![3 - e] = SubSeq(@, k + 1, Len(@))]
    /\ UNCHANGED sent

Next == \E e \in Ends : Put(e) \/ Get(e)

Spec == Init /\ [][Next]_<<pipe, sent, got>>

================================================================================
