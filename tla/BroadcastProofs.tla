---------------------------- MODULE BroadcastProofs ----------------------------
(***************************************************************************)
(* Proofs about Broadcast: types, AppInformed, ReceiversTold and           *)
(* DeliveredInOrder.                                                       *)
(*                                                                         *)
(* A drain and a phase of a tick are recursions over a queue (Along); the  *)
(* first lemmas show for each of them that what every step hands on holds  *)
(* at the end.  AppInformed follows from the state last seen by the        *)
(* callbacks.  ReceiversTold needs to know, for each receiver, everything  *)
(* that is under way to it and from it: the positions in its queues of its *)
(* requests, of answers, of losses and of reports of the train, at every   *)
(* point of a tick (Good) and of a drain (Settled).                        *)
(*                                                                         *)
(* DeliveredInOrder follows a stream's SDUs on all of their way: what the  *)
(* receiver heard, what is in its queue, what phase A deferred and what is *)
(* in the broadcaster's queue are consecutive stretches of the numbers the *)
(* broadcaster gave out (Steady), joined end to end (Heeds, Chained).      *)
(* Handles are given out once, so no stretch is about another stream; and  *)
(* the broadcaster counts from 0 only when no SDU of its BIG is under way, *)
(* because its way to a BIG and back is in step with the medium's (Hosted).*)
(***************************************************************************)
EXTENDS Broadcast, Subsequences, TLAPS

\* g is handed from step to step by the functions of H.
Steps(g, L, base, H) ==
  /\ \E R : g \in [0 .. L -> R]
  /\ g[0] = base /\ \A n \in 1 .. L : g[n] = H[n][g[n - 1]]

\* A function is defined by recursion on its argument, for there is no least argument
\* from which on it does not exist.
LEMMA StepsExist ==
  ASSUME NEW L \in Nat, NEW base, NEW H
  PROVE  \E g : Steps(g, L, base, H)
<1> DEFINE T == {l \in Nat : ~ \E g : Steps(g, l, base, H)}
<1>1. ASSUME T # {} PROVE FALSE
  <2>1. PICK l \in T : \A k \in T : l <= k
    <3> HIDE DEF T
    <3>1. T \in SUBSET Nat
      BY DEF T
    <3> QED BY <1>1, <3>1, LeastNatural
  <2>2. CASE l = 0
    <3> DEFINE g == [n \in 0 .. 0 |-> base]
    <3>1. Steps(g, 0, base, H)
      <4>1. g \in [0 .. 0 -> {base}] /\ g[0] = base /\ 1 .. 0 = {}
        OBVIOUS
      <4> HIDE DEF g
      <4> QED BY <4>1 DEF Steps
    <3> QED BY <2>1, <2>2, <3>1
  <2>3. CASE l # 0
    <3>1. l \in Nat /\ l - 1 \in Nat /\ ~(l <= l - 1)
      BY <2>1, <2>3
    <3>2. PICK g : Steps(g, l - 1, base, H)
      <4>1. l - 1 \notin T
        <5> HIDE DEF T
        <5> QED BY <2>1, <3>1
      <4> QED BY <3>1, <4>1
    <3>0. PICK R : g \in [0 .. (l - 1) -> R]
      BY <3>2 DEF Steps
    <3> DEFINE v == H[l][g[l - 1]]
               h == [n \in 0 .. l |-> IF n < l THEN g[n] ELSE v]
    <3>3. h \in [0 .. l -> R \cup {v}]
      <4> HIDE DEF v
      <4>1. \A n \in 0 .. l : n < l => n \in 0 .. (l - 1)
        BY <3>1
      <4> QED BY <3>0, <4>1
    <3>4. h[0] = base
      BY <2>3, <3>1, <3>2 DEF Steps
    <3>5. ASSUME NEW n \in 1 .. l PROVE h[n] = H[n][h[n - 1]]
      <4>1. n - 1 \in 0 .. l /\ n - 1 < l /\ n \in 0 .. l
        BY <3>1
      <4>2. h[n - 1] = g[n - 1]
        BY <4>1
      <4>3. CASE n < l
        <5>1. n \in 1 .. (l - 1)
          BY <3>1, <4>3
        <5> QED BY <3>2, <4>1, <4>2, <4>3, <5>1 DEF Steps
      <4>4. CASE n = l
        BY <3>1, <4>1, <4>2, <4>4
      <4> QED BY <3>1, <4>3, <4>4
    <3>6. Steps(h, l, base, H)
      <4> HIDE DEF h, v
      <4> QED BY <3>3, <3>4, <3>5 DEF Steps
    <3> QED BY <2>1, <3>6
  <2> QED BY <2>2, <2>3
<1> QED BY <1>1

\* Induction over the arguments: what each step hands on is there at every argument.
LEMMA Climb ==
  ASSUME NEW L \in Nat, NEW g, NEW U, g[0] \in U[0], \A n \in 1 .. L : g[n - 1] \in U[n - 1] => g[n] \in U[n]
  PROVE  \A n \in 0 .. L : g[n] \in U[n]
<1> DEFINE T == {n \in Nat : n \in 0 .. L /\ g[n] \notin U[n]}
<1>1. ASSUME T # {} PROVE FALSE
  <2>1. PICK n \in T : \A k \in T : n <= k
    <3> HIDE DEF T
    <3>1. T \in SUBSET Nat
      BY DEF T
    <3> QED BY <1>1, <3>1, LeastNatural
  <2>2. n \in Nat /\ n \in 0 .. L /\ g[n] \notin U[n] /\ n # 0
    BY <2>1
  <2>3. n - 1 \in Nat /\ n - 1 \in 0 .. L /\ n \in 1 .. L /\ ~(n <= n - 1)
    BY <2>2
  <2>4. n - 1 \notin T
    <3> HIDE DEF T
    <3> QED BY <2>1, <2>3
  <2> QED BY <2>2, <2>3, <2>4
<1>2. \A n \in 0 .. L : n \in Nat
  OBVIOUS
<1> QED BY <1>1, <1>2

\* The one element of a set.
LEMMA OnlyOne == \A v : (CHOOSE w \in {v} : TRUE) = v
OBVIOUS

\* The first argument and the others.
LEMMA ZeroOrMore == \A L \in Nat : \A n \in 0 .. L : n = 0 \/ n \in 1 .. L
OBVIOUS

\* The commands of one host.
LEMMA AlongCommands ==
  ASSUME NEW c, NEW base, NEW U, Len(cmds[c]) \in Nat, base \in U[0],
         \A n \in 1 .. Len(cmds[c]) : \A u \in U[n - 1] : HandleCommand(u, c, cmds[c][n]) \in U[n]
  PROVE  Commanded(base, c) \in U[Len(cmds[c])]
<1> DEFINE s == cmds[c]
           L == Len(s)
           start == base
           op(u, e) == HandleCommand(u, c, e)
           H == [n \in 1 .. L |-> [u \in U[n - 1] |-> op(u, s[n])]]
           Is(g) == g = [n \in 0 .. L |-> IF n = 0 THEN start ELSE CHOOSE v \in {op(u, s[n]) : u \in {g[n - 1]}} : TRUE]
           f == CHOOSE g : Is(g)
<1>1. \A n \in 1 .. L : \A u \in U[n - 1] : op(u, s[n]) \in U[n]
  OBVIOUS
<1>2. Commanded(base, c) = f[L]
  BY DEF Along, Commanded
<1>0. start \in U[0] /\ L \in Nat
  OBVIOUS
<1> HIDE DEF op, start, s
<1>3. \E g : Is(g)
  <2>1. \A n \in 1 .. L : \A u \in U[n - 1] : H[n][u] = op(u, s[n])
    OBVIOUS
  <2> HIDE DEF H
  <2>2. \A n \in 1 .. L : \A u \in U[n - 1] : H[n][u] \in U[n]
    BY <1>1, <2>1
  <2>0. L \in Nat
    BY <1>0
  <2> HIDE DEF L
  <2>3. PICK g : Steps(g, L, start, H)
    BY <2>0, StepsExist
  <2>4. g[0] = start /\ \A n \in 1 .. L : g[n] = H[n][g[n - 1]]
    BY <2>3 DEF Steps
  <2>5. \A n \in 0 .. L : g[n] \in U[n]
    BY <1>0, <2>0, <2>2, <2>4, Climb
  <2>6. ASSUME NEW n \in 1 .. L PROVE g[n] = CHOOSE v \in {op(u, s[n]) : u \in {g[n - 1]}} : TRUE
    <3>1. n - 1 \in 0 .. L
      BY <2>0
    <3>2. g[n] = op(g[n - 1], s[n])
      BY <2>1, <2>4, <2>5, <3>1
    <3> QED BY <3>2, OnlyOne
  <2>7. g = [n \in 0 .. L |-> IF n = 0 THEN start ELSE CHOOSE v \in {op(u, s[n]) : u \in {g[n - 1]}} : TRUE]
    <3>1. g = [n \in 0 .. L |-> g[n]]
      BY <2>3 DEF Steps
    <3>2. \A n \in 0 .. L : g[n] = IF n = 0 THEN start ELSE CHOOSE v \in {op(u, s[n]) : u \in {g[n - 1]}} : TRUE
      BY <2>0, <2>4, <2>6, ZeroOrMore
    <3> QED BY <3>1, <3>2
  <2> QED BY <2>7
<1>4. Is(f)
  BY <1>3
<1> HIDE DEF f
<1>5. f[0] = start /\ \A n \in 1 .. L : f[n] = op(f[n - 1], s[n])
  <2>1. 0 \in 0 .. L /\ \A n \in 1 .. L : n \in 0 .. L /\ n # 0
    OBVIOUS
  <2>2. \A n \in 1 .. L : f[n] = CHOOSE v \in {op(u, s[n]) : u \in {f[n - 1]}} : TRUE
    BY <1>4, <2>1
  <2> QED BY <1>4, <2>1, <2>2, OnlyOne
<1>6. f[L] \in U[L]
  <2>1. L \in 0 .. L
    OBVIOUS
  <2> HIDE DEF L
  <2>2. \A n \in 1 .. L : f[n - 1] \in U[n - 1] => f[n] \in U[n]
    BY <1>1, <1>5
  <2> QED BY <1>0, <1>5, <2>1, <2>2, Climb
<1> QED BY <1>2, <1>6 DEF s

\* Phase A, one controller after the other.
LEMMA AlongCommanded ==
  ASSUME NEW base, NEW U, Len(Order) \in Nat, base \in U[0],
         \A n \in 1 .. Len(Order) : \A u \in U[n - 1] : Commanded(u, Order[n]) \in U[n]
  PROVE  PhaseA(base) \in U[Len(Order)]
<1> DEFINE s == Order
           L == Len(s)
           start == base
           op(u, e) == Commanded(u, e)
           H == [n \in 1 .. L |-> [u \in U[n - 1] |-> op(u, s[n])]]
           Is(g) == g = [n \in 0 .. L |-> IF n = 0 THEN start ELSE CHOOSE v \in {op(u, s[n]) : u \in {g[n - 1]}} : TRUE]
           f == CHOOSE g : Is(g)
<1>1. \A n \in 1 .. L : \A u \in U[n - 1] : op(u, s[n]) \in U[n]
  OBVIOUS
<1>2. PhaseA(base) = f[L]
  BY DEF Along, PhaseA
<1>0. start \in U[0] /\ L \in Nat
  OBVIOUS
<1> HIDE DEF op, start, s
<1>3. \E g : Is(g)
  <2>1. \A n \in 1 .. L : \A u \in U[n - 1] : H[n][u] = op(u, s[n])
    OBVIOUS
  <2> HIDE DEF H
  <2>2. \A n \in 1 .. L : \A u \in U[n - 1] : H[n][u] \in U[n]
    BY <1>1, <2>1
  <2>0. L \in Nat
    BY <1>0
  <2> HIDE DEF L
  <2>3. PICK g : Steps(g, L, start, H)
    BY <2>0, StepsExist
  <2>4. g[0] = start /\ \A n \in 1 .. L : g[n] = H[n][g[n - 1]]
    BY <2>3 DEF Steps
  <2>5. \A n \in 0 .. L : g[n] \in U[n]
    BY <1>0, <2>0, <2>2, <2>4, Climb
  <2>6. ASSUME NEW n \in 1 .. L PROVE g[n] = CHOOSE v \in {op(u, s[n]) : u \in {g[n - 1]}} : TRUE
    <3>1. n - 1 \in 0 .. L
      BY <2>0
    <3>2. g[n] = op(g[n - 1], s[n])
      BY <2>1, <2>4, <2>5, <3>1
    <3> QED BY <3>2, OnlyOne
  <2>7. g = [n \in 0 .. L |-> IF n = 0 THEN start ELSE CHOOSE v \in {op(u, s[n]) : u \in {g[n - 1]}} : TRUE]
    <3>1. g = [n \in 0 .. L |-> g[n]]
      BY <2>3 DEF Steps
    <3>2. \A n \in 0 .. L : g[n] = IF n = 0 THEN start ELSE CHOOSE v \in {op(u, s[n]) : u \in {g[n - 1]}} : TRUE
      BY <2>0, <2>4, <2>6, ZeroOrMore
    <3> QED BY <3>1, <3>2
  <2> QED BY <2>7
<1>4. Is(f)
  BY <1>3
<1> HIDE DEF f
<1>5. f[0] = start /\ \A n \in 1 .. L : f[n] = op(f[n - 1], s[n])
  <2>1. 0 \in 0 .. L /\ \A n \in 1 .. L : n \in 0 .. L /\ n # 0
    OBVIOUS
  <2>2. \A n \in 1 .. L : f[n] = CHOOSE v \in {op(u, s[n]) : u \in {f[n - 1]}} : TRUE
    BY <1>4, <2>1
  <2> QED BY <1>4, <2>1, <2>2, OnlyOne
<1>6. f[L] \in U[L]
  <2>1. L \in 0 .. L
    OBVIOUS
  <2> HIDE DEF L
  <2>2. \A n \in 1 .. L : f[n - 1] \in U[n - 1] => f[n] \in U[n]
    BY <1>1, <1>5
  <2> QED BY <1>0, <1>5, <2>1, <2>2, Climb
<1> QED BY <1>2, <1>6 DEF s

\* Phase C2, one controller after the other.
LEMMA AlongSynchronized ==
  ASSUME NEW base, NEW U, Len(Order) \in Nat, base \in U[0],
         \A n \in 1 .. Len(Order) : \A u \in U[n - 1] : Synchronized(u, Order[n]) \in U[n]
  PROVE  PeriodicSyncRequests(base) \in U[Len(Order)]
<1> DEFINE s == Order
           L == Len(s)
           start == base
           op(u, e) == Synchronized(u, e)
           H == [n \in 1 .. L |-> [u \in U[n - 1] |-> op(u, s[n])]]
           Is(g) == g = [n \in 0 .. L |-> IF n = 0 THEN start ELSE CHOOSE v \in {op(u, s[n]) : u \in {g[n - 1]}} : TRUE]
           f == CHOOSE g : Is(g)
<1>1. \A n \in 1 .. L : \A u \in U[n - 1] : op(u, s[n]) \in U[n]
  OBVIOUS
<1>2. PeriodicSyncRequests(base) = f[L]
  BY DEF Along, PeriodicSyncRequests
<1>0. start \in U[0] /\ L \in Nat
  OBVIOUS
<1> HIDE DEF op, start, s
<1>3. \E g : Is(g)
  <2>1. \A n \in 1 .. L : \A u \in U[n - 1] : H[n][u] = op(u, s[n])
    OBVIOUS
  <2> HIDE DEF H
  <2>2. \A n \in 1 .. L : \A u \in U[n - 1] : H[n][u] \in U[n]
    BY <1>1, <2>1
  <2>0. L \in Nat
    BY <1>0
  <2> HIDE DEF L
  <2>3. PICK g : Steps(g, L, start, H)
    BY <2>0, StepsExist
  <2>4. g[0] = start /\ \A n \in 1 .. L : g[n] = H[n][g[n - 1]]
    BY <2>3 DEF Steps
  <2>5. \A n \in 0 .. L : g[n] \in U[n]
    BY <1>0, <2>0, <2>2, <2>4, Climb
  <2>6. ASSUME NEW n \in 1 .. L PROVE g[n] = CHOOSE v \in {op(u, s[n]) : u \in {g[n - 1]}} : TRUE
    <3>1. n - 1 \in 0 .. L
      BY <2>0
    <3>2. g[n] = op(g[n - 1], s[n])
      BY <2>1, <2>4, <2>5, <3>1
    <3> QED BY <3>2, OnlyOne
  <2>7. g = [n \in 0 .. L |-> IF n = 0 THEN start ELSE CHOOSE v \in {op(u, s[n]) : u \in {g[n - 1]}} : TRUE]
    <3>1. g = [n \in 0 .. L |-> g[n]]
      BY <2>3 DEF Steps
    <3>2. \A n \in 0 .. L : g[n] = IF n = 0 THEN start ELSE CHOOSE v \in {op(u, s[n]) : u \in {g[n - 1]}} : TRUE
      BY <2>0, <2>4, <2>6, ZeroOrMore
    <3> QED BY <3>1, <3>2
  <2> QED BY <2>7
<1>4. Is(f)
  BY <1>3
<1> HIDE DEF f
<1>5. f[0] = start /\ \A n \in 1 .. L : f[n] = op(f[n - 1], s[n])
  <2>1. 0 \in 0 .. L /\ \A n \in 1 .. L : n \in 0 .. L /\ n # 0
    OBVIOUS
  <2>2. \A n \in 1 .. L : f[n] = CHOOSE v \in {op(u, s[n]) : u \in {f[n - 1]}} : TRUE
    BY <1>4, <2>1
  <2> QED BY <1>4, <2>1, <2>2, OnlyOne
<1>6. f[L] \in U[L]
  <2>1. L \in 0 .. L
    OBVIOUS
  <2> HIDE DEF L
  <2>2. \A n \in 1 .. L : f[n - 1] \in U[n - 1] => f[n] \in U[n]
    BY <1>1, <1>5
  <2> QED BY <1>0, <1>5, <2>1, <2>2, Climb
<1> QED BY <1>2, <1>6 DEF s

\* Phase D, one deferred command after the other.
LEMMA AlongRouted ==
  ASSUME NEW base, NEW U, Len(base.acts) \in Nat, base \in U[0],
         \A n \in 1 .. Len(base.acts) : \A u \in U[n - 1] : Routed(u, base.acts[n]) \in U[n]
  PROVE  PhaseD(base) \in U[Len(base.acts)]
<1> DEFINE s == base.acts
           L == Len(s)
           start == base
           op(u, e) == Routed(u, e)
           H == [n \in 1 .. L |-> [u \in U[n - 1] |-> op(u, s[n])]]
           Is(g) == g = [n \in 0 .. L |-> IF n = 0 THEN start ELSE CHOOSE v \in {op(u, s[n]) : u \in {g[n - 1]}} : TRUE]
           f == CHOOSE g : Is(g)
<1>1. \A n \in 1 .. L : \A u \in U[n - 1] : op(u, s[n]) \in U[n]
  OBVIOUS
<1>2. PhaseD(base) = f[L]
  BY DEF Along, PhaseD
<1>0. start \in U[0] /\ L \in Nat
  OBVIOUS
<1> HIDE DEF op, start, s
<1>3. \E g : Is(g)
  <2>1. \A n \in 1 .. L : \A u \in U[n - 1] : H[n][u] = op(u, s[n])
    OBVIOUS
  <2> HIDE DEF H
  <2>2. \A n \in 1 .. L : \A u \in U[n - 1] : H[n][u] \in U[n]
    BY <1>1, <2>1
  <2>0. L \in Nat
    BY <1>0
  <2> HIDE DEF L
  <2>3. PICK g : Steps(g, L, start, H)
    BY <2>0, StepsExist
  <2>4. g[0] = start /\ \A n \in 1 .. L : g[n] = H[n][g[n - 1]]
    BY <2>3 DEF Steps
  <2>5. \A n \in 0 .. L : g[n] \in U[n]
    BY <1>0, <2>0, <2>2, <2>4, Climb
  <2>6. ASSUME NEW n \in 1 .. L PROVE g[n] = CHOOSE v \in {op(u, s[n]) : u \in {g[n - 1]}} : TRUE
    <3>1. n - 1 \in 0 .. L
      BY <2>0
    <3>2. g[n] = op(g[n - 1], s[n])
      BY <2>1, <2>4, <2>5, <3>1
    <3> QED BY <3>2, OnlyOne
  <2>7. g = [n \in 0 .. L |-> IF n = 0 THEN start ELSE CHOOSE v \in {op(u, s[n]) : u \in {g[n - 1]}} : TRUE]
    <3>1. g = [n \in 0 .. L |-> g[n]]
      BY <2>3 DEF Steps
    <3>2. \A n \in 0 .. L : g[n] = IF n = 0 THEN start ELSE CHOOSE v \in {op(u, s[n]) : u \in {g[n - 1]}} : TRUE
      BY <2>0, <2>4, <2>6, ZeroOrMore
    <3> QED BY <3>1, <3>2
  <2> QED BY <2>7
<1>4. Is(f)
  BY <1>3
<1> HIDE DEF f
<1>5. f[0] = start /\ \A n \in 1 .. L : f[n] = op(f[n - 1], s[n])
  <2>1. 0 \in 0 .. L /\ \A n \in 1 .. L : n \in 0 .. L /\ n # 0
    OBVIOUS
  <2>2. \A n \in 1 .. L : f[n] = CHOOSE v \in {op(u, s[n]) : u \in {f[n - 1]}} : TRUE
    BY <1>4, <2>1
  <2> QED BY <1>4, <2>1, <2>2, OnlyOne
<1>6. f[L] \in U[L]
  <2>1. L \in 0 .. L
    OBVIOUS
  <2> HIDE DEF L
  <2>2. \A n \in 1 .. L : f[n - 1] \in U[n - 1] => f[n] \in U[n]
    BY <1>1, <1>5
  <2> QED BY <1>0, <1>5, <2>1, <2>2, Climb
<1> QED BY <1>2, <1>6 DEF s

\* The events of the broadcaster.
LEMMA AlongHeard ==
  ASSUME NEW b, NEW U, Len(evts[Src]) \in Nat, [b |-> b, out |-> <<>>] \in U[0],
         \A n \in 1 .. Len(evts[Src]) : \A u \in U[n - 1] : Heard(u, evts[Src][n]) \in U[n]
  PROVE  Drained(b) \in U[Len(evts[Src])]
<1> DEFINE s == evts[Src]
           L == Len(s)
           start == [b |-> b, out |-> <<>>]
           op(u, e) == Heard(u, e)
           H == [n \in 1 .. L |-> [u \in U[n - 1] |-> op(u, s[n])]]
           Is(g) == g = [n \in 0 .. L |-> IF n = 0 THEN start ELSE CHOOSE v \in {op(u, s[n]) : u \in {g[n - 1]}} : TRUE]
           f == CHOOSE g : Is(g)
<1>1. \A n \in 1 .. L : \A u \in U[n - 1] : op(u, s[n]) \in U[n]
  OBVIOUS
<1>2. Drained(b) = f[L]
  BY DEF Along, Drained
<1>0. start \in U[0] /\ L \in Nat
  OBVIOUS
<1> HIDE DEF op, start, s
<1>3. \E g : Is(g)
  <2>1. \A n \in 1 .. L : \A u \in U[n - 1] : H[n][u] = op(u, s[n])
    OBVIOUS
  <2> HIDE DEF H
  <2>2. \A n \in 1 .. L : \A u \in U[n - 1] : H[n][u] \in U[n]
    BY <1>1, <2>1
  <2>0. L \in Nat
    BY <1>0
  <2> HIDE DEF L
  <2>3. PICK g : Steps(g, L, start, H)
    BY <2>0, StepsExist
  <2>4. g[0] = start /\ \A n \in 1 .. L : g[n] = H[n][g[n - 1]]
    BY <2>3 DEF Steps
  <2>5. \A n \in 0 .. L : g[n] \in U[n]
    BY <1>0, <2>0, <2>2, <2>4, Climb
  <2>6. ASSUME NEW n \in 1 .. L PROVE g[n] = CHOOSE v \in {op(u, s[n]) : u \in {g[n - 1]}} : TRUE
    <3>1. n - 1 \in 0 .. L
      BY <2>0
    <3>2. g[n] = op(g[n - 1], s[n])
      BY <2>1, <2>4, <2>5, <3>1
    <3> QED BY <3>2, OnlyOne
  <2>7. g = [n \in 0 .. L |-> IF n = 0 THEN start ELSE CHOOSE v \in {op(u, s[n]) : u \in {g[n - 1]}} : TRUE]
    <3>1. g = [n \in 0 .. L |-> g[n]]
      BY <2>3 DEF Steps
    <3>2. \A n \in 0 .. L : g[n] = IF n = 0 THEN start ELSE CHOOSE v \in {op(u, s[n]) : u \in {g[n - 1]}} : TRUE
      BY <2>0, <2>4, <2>6, ZeroOrMore
    <3> QED BY <3>1, <3>2
  <2> QED BY <2>7
<1>4. Is(f)
  BY <1>3
<1> HIDE DEF f
<1>5. f[0] = start /\ \A n \in 1 .. L : f[n] = op(f[n - 1], s[n])
  <2>1. 0 \in 0 .. L /\ \A n \in 1 .. L : n \in 0 .. L /\ n # 0
    OBVIOUS
  <2>2. \A n \in 1 .. L : f[n] = CHOOSE v \in {op(u, s[n]) : u \in {f[n - 1]}} : TRUE
    BY <1>4, <2>1
  <2> QED BY <1>4, <2>1, <2>2, OnlyOne
<1>6. f[L] \in U[L]
  <2>1. L \in 0 .. L
    OBVIOUS
  <2> HIDE DEF L
  <2>2. \A n \in 1 .. L : f[n - 1] \in U[n - 1] => f[n] \in U[n]
    BY <1>1, <1>5
  <2> QED BY <1>0, <1>5, <2>1, <2>2, Climb
<1> QED BY <1>2, <1>6 DEF s

\* The events of a receiver.
LEMMA AlongReceived ==
  ASSUME NEW c, NEW U, Len(evts[c]) \in Nat, [r |-> sink[c], out |-> <<>>] \in U[0],
         \A n \in 1 .. Len(evts[c]) : \A u \in U[n - 1] : Received(u, c, evts[c][n]) \in U[n]
  PROVE  Turned(c) \in U[Len(evts[c])]
<1> DEFINE s == evts[c]
           L == Len(s)
           start == [r |-> sink[c], out |-> <<>>]
           op(u, e) == Received(u, c, e)
           H == [n \in 1 .. L |-> [u \in U[n - 1] |-> op(u, s[n])]]
           Is(g) == g = [n \in 0 .. L |-> IF n = 0 THEN start ELSE CHOOSE v \in {op(u, s[n]) : u \in {g[n - 1]}} : TRUE]
           f == CHOOSE g : Is(g)
<1>1. \A n \in 1 .. L : \A u \in U[n - 1] : op(u, s[n]) \in U[n]
  OBVIOUS
<1>2. Turned(c) = f[L]
  BY DEF Along, Turned
<1>0. start \in U[0] /\ L \in Nat
  OBVIOUS
<1> HIDE DEF op, start, s
<1>3. \E g : Is(g)
  <2>1. \A n \in 1 .. L : \A u \in U[n - 1] : H[n][u] = op(u, s[n])
    OBVIOUS
  <2> HIDE DEF H
  <2>2. \A n \in 1 .. L : \A u \in U[n - 1] : H[n][u] \in U[n]
    BY <1>1, <2>1
  <2>0. L \in Nat
    BY <1>0
  <2> HIDE DEF L
  <2>3. PICK g : Steps(g, L, start, H)
    BY <2>0, StepsExist
  <2>4. g[0] = start /\ \A n \in 1 .. L : g[n] = H[n][g[n - 1]]
    BY <2>3 DEF Steps
  <2>5. \A n \in 0 .. L : g[n] \in U[n]
    BY <1>0, <2>0, <2>2, <2>4, Climb
  <2>6. ASSUME NEW n \in 1 .. L PROVE g[n] = CHOOSE v \in {op(u, s[n]) : u \in {g[n - 1]}} : TRUE
    <3>1. n - 1 \in 0 .. L
      BY <2>0
    <3>2. g[n] = op(g[n - 1], s[n])
      BY <2>1, <2>4, <2>5, <3>1
    <3> QED BY <3>2, OnlyOne
  <2>7. g = [n \in 0 .. L |-> IF n = 0 THEN start ELSE CHOOSE v \in {op(u, s[n]) : u \in {g[n - 1]}} : TRUE]
    <3>1. g = [n \in 0 .. L |-> g[n]]
      BY <2>3 DEF Steps
    <3>2. \A n \in 0 .. L : g[n] = IF n = 0 THEN start ELSE CHOOSE v \in {op(u, s[n]) : u \in {g[n - 1]}} : TRUE
      BY <2>0, <2>4, <2>6, ZeroOrMore
    <3> QED BY <3>1, <3>2
  <2> QED BY <2>7
<1>4. Is(f)
  BY <1>3
<1> HIDE DEF f
<1>5. f[0] = start /\ \A n \in 1 .. L : f[n] = op(f[n - 1], s[n])
  <2>1. 0 \in 0 .. L /\ \A n \in 1 .. L : n \in 0 .. L /\ n # 0
    OBVIOUS
  <2>2. \A n \in 1 .. L : f[n] = CHOOSE v \in {op(u, s[n]) : u \in {f[n - 1]}} : TRUE
    BY <1>4, <2>1
  <2> QED BY <1>4, <2>1, <2>2, OnlyOne
<1>6. f[L] \in U[L]
  <2>1. L \in 0 .. L
    OBVIOUS
  <2> HIDE DEF L
  <2>2. \A n \in 1 .. L : f[n - 1] \in U[n - 1] => f[n] \in U[n]
    BY <1>1, <1>5
  <2> QED BY <1>0, <1>5, <2>1, <2>2, Climb
<1> QED BY <1>2, <1>6 DEF s

\* Types.  The commands of the hosts, by whether they have parameters.
Plains == {"Parameters", "Data", "PeriodicParameters", "Enable", "PeriodicEnable", "CreateBig",
           "TerminateBig", "DataPath", "ScanParameters", "CreateSync", "BigTerminateSync"}
Ops == Plains \cup {"PeriodicData", "ScanEnable", "BigCreateSync", "Iso"}

Command ==
  [op : Plains] \cup [op : {"PeriodicData"}, base : Nat \ {0}] \cup [op : {"ScanEnable"}, on : BOOLEAN]
    \cup [op : {"BigCreateSync"}, sync : Nat, encrypted : BOOLEAN, code : {Code[r] : r \in Ctl}]
    \cup [op : {"Iso"}, handle : Nat, seq : Nat]

\* One number for each stream of the BIG.
Streams == [Bis -> Nat]

\* What controllers tell their hosts.
Event ==
  [type : {"Complete", "Status"}, op : Ops, ok : BOOLEAN] \cup [type : {"Report", "BigEnded", "BigLost"}]
    \cup [type : {"SyncEstablished"}, sync : Nat] \cup [type : {"BigComplete"}, bis : Streams]
    \cup [type : {"BigSync"}, ok : {TRUE}, bis : Streams] \cup [type : {"BigSync"}, ok : {FALSE}, bis : {<<>>}]
    \cup [type : {"Iso"}, handle : Nat, seq : Nat] \cup [type : {"Periodic"}, sync : Nat, base : Nat]
    \cup [type : {"BigInfo"}, sync : Nat, encrypted : BOOLEAN]

\* What a controller keeps.
Keeps ==
  [on : BOOLEAN, train : BOOLEAN, base : Nat, big : Streams \cup {<<>>}, scanning : BOOLEAN,
   wanted : BOOLEAN, sync : Nat, joined : Streams \cup {<<>>}]

\* What phase A defers.
Routable == {x \in Command : x.op \in {"CreateBig", "TerminateBig", "BigCreateSync", "Iso"}}
Act == [from : Ctl, cmd : Routable]

\* The medium while it ticks.
Medium == [ctl : [Ctl -> Keeps], evts : [Ctl -> Seq(Event)], next : Nat \ {0}, acts : Seq(Act)]

\* The broadcaster: it has streams as long as it streams or is about to.
SourceStates == {"Idle", "Parameters", "Data", "PeriodicParameters", "PeriodicData", "Enable", "PeriodicEnable",
                 "CreatingBig", "OpeningDataPaths", "Streaming", "Terminated", "Failed"}

Sources ==
  {b \in [state : SourceStates, bis : Streams \cup {<<>>}, open : Nat, seq : Streams, inFlight : Nat,
          update : BOOLEAN, status : BOOLEAN, base : Nat, last : SourceStates \cup {"none"}, ever : BOOLEAN,
          told : {"idle", "started", "playing"}] :
     /\ b.bis # <<>> <=> b.state \in {"OpeningDataPaths", "Streaming"}
     /\ b.state \in {"Parameters", "Data", "PeriodicParameters", "PeriodicData", "Enable", "PeriodicEnable"} => b.base # 0}

\* The receiver.
SinkStates == {"Idle", "SettingScanParameters", "Scanning", "SyncingToPeriodicAdvertising", "WaitingForAnnouncement",
               "SyncingToBig", "OpeningDataPaths", "Receiving", "Terminated", "Lost", "Failed"}

Sinks ==
  [state : SinkStates, sync : Nat, base : Nat, info : {"none", "encrypted", "open"}, bis : Streams \cup {<<>>},
   open : Nat, stopped : BOOLEAN, heard : Streams, gap : BOOLEAN]

\* The types.
TypeOK ==
  /\ ctl \in [Ctl -> Keeps] /\ cmds \in [Ctl -> Seq(Command)] /\ evts \in [Ctl -> Seq(Event)]
  /\ next \in Nat \ {0}
  /\ source \in Sources /\ sink \in [Receiver -> Sinks]

\* The broadcaster is one of the controllers.
LEMMA SrcIsCtl == Src \in Ctl
BY BroadcastAssumption

\* Telling one host an event, or all of them some, leaves a medium.
LEMMA TellTyped == ASSUME NEW m \in Medium, NEW c \in Ctl, NEW e \in Event PROVE Tell(m, c, e) \in Medium
<1>1. Append(m.evts[c], e) \in Seq(Event)
  BY DEF Medium
<1> QED BY <1>1 DEF Tell, Medium

\* The same for a batch of events for every host.
LEMMA TellsTyped == ASSUME NEW m \in Medium, NEW news \in [Ctl -> Seq(Event)] PROVE Tells(m, news) \in Medium
<1>1. \A c \in Ctl : m.evts[c] \o news[c] \in Seq(Event)
  BY DEF Medium
<1> QED BY <1>1 DEF Tells, Medium

\* Both kinds of answer to a command leave a medium.
LEMMA AnswersTyped ==
  ASSUME NEW m \in Medium, NEW c \in Ctl, NEW op \in Ops, NEW ok \in BOOLEAN
  PROVE  Complete(m, c, op, ok) \in Medium /\ Status(m, c, op, ok) \in Medium
<1>1. [type |-> "Complete", op |-> op, ok |-> ok] \in Event /\ [type |-> "Status", op |-> op, ok |-> ok] \in Event
  BY DEF Event
<1> HIDE DEF Event
<1> QED BY <1>1, TellTyped DEF Complete, Status

\* Deferring a command to phase D leaves a medium.
LEMMA DeferTyped == ASSUME NEW m \in Medium, NEW c \in Ctl, NEW cmd \in Routable PROVE Defer(m, c, cmd) \in Medium
<1>1. [from |-> c, cmd |-> cmd] \in Act
  BY DEF Act
<1>2. Append(m.acts, [from |-> c, cmd |-> cmd]) \in Seq(Act)
  BY <1>1 DEF Medium
<1> QED BY <1>2 DEF Defer, Medium

\* The handles the medium gives a BIG are one for each stream.
LEMMA HandlesTyped == ASSUME NEW m \in Medium PROVE Handles(m, NumBis) \in Streams
BY BroadcastAssumption DEF Handles, Streams, Bis, Medium

\* Phase A, one command (controller/sim.rs).
LEMMA HandleCommandTyped ==
  ASSUME NEW m \in Medium, NEW c \in Ctl, NEW cmd \in Command
  PROVE  HandleCommand(m, c, cmd) \in Medium
<1> DEFINE Kept(k) == [m EXCEPT !.ctl[c] = k]
<1>0. ASSUME NEW k \in Keeps PROVE Kept(k) \in Medium
  BY <1>0 DEF Medium
<1>1. m.ctl[c] \in Keeps /\ cmd.op \in Ops
  BY DEF Medium, Command, Ops
<1>2. CASE cmd.op = "PeriodicData"
  <2>1. [m EXCEPT !.ctl[c].base = cmd.base] = Kept([m.ctl[c] EXCEPT !.base = cmd.base])
    BY DEF Medium
  <2>2. [m.ctl[c] EXCEPT !.base = cmd.base] \in Keeps
    BY <1>1, <1>2 DEF Keeps, Command, Plains
  <2> QED BY <1>0, <1>1, <1>2, <2>1, <2>2, AnswersTyped DEF HandleCommand
<1>3. CASE cmd.op \in {"Enable", "PeriodicEnable", "ScanEnable", "CreateSync", "BigTerminateSync"}
  <2>1. /\ [m EXCEPT !.ctl[c].on = TRUE] = Kept([m.ctl[c] EXCEPT !.on = TRUE])
        /\ [m EXCEPT !.ctl[c].train = TRUE] = Kept([m.ctl[c] EXCEPT !.train = TRUE])
        /\ [m EXCEPT !.ctl[c].scanning = cmd.on] = Kept([m.ctl[c] EXCEPT !.scanning = cmd.on])
        /\ [m EXCEPT !.ctl[c].wanted = TRUE] = Kept([m.ctl[c] EXCEPT !.wanted = TRUE])
        /\ [m EXCEPT !.ctl[c].joined = <<>>] = Kept([m.ctl[c] EXCEPT !.joined = <<>>])
    BY DEF Medium
  <2>2. /\ [m.ctl[c] EXCEPT !.on = TRUE] \in Keeps /\ [m.ctl[c] EXCEPT !.train = TRUE] \in Keeps
        /\ [m.ctl[c] EXCEPT !.wanted = TRUE] \in Keeps /\ [m.ctl[c] EXCEPT !.joined = <<>>] \in Keeps
    BY <1>1 DEF Keeps
  <2>3. cmd.op = "ScanEnable" => [m.ctl[c] EXCEPT !.scanning = cmd.on] \in Keeps
    BY <1>1 DEF Keeps, Command, Plains
  <2> HIDE DEF Kept
  <2> QED BY <1>0, <1>1, <1>3, <2>1, <2>2, <2>3, AnswersTyped DEF HandleCommand
<1>4. CASE cmd.op \in {"CreateBig", "TerminateBig", "BigCreateSync", "Iso"}
  <2>1. cmd \in Routable
    BY <1>4 DEF Routable
  <2>2. \A ok \in BOOLEAN : Status(m, c, cmd.op, ok) \in Medium
    BY <1>1, AnswersTyped
  <2> QED BY <1>1, <1>4, <2>1, <2>2, DeferTyped DEF HandleCommand
<1>5. CASE cmd.op \notin {"PeriodicData", "Enable", "PeriodicEnable", "ScanEnable", "CreateSync", "BigTerminateSync",
                          "CreateBig", "TerminateBig", "BigCreateSync", "Iso"}
  BY <1>1, <1>5, AnswersTyped DEF HandleCommand
<1> QED BY <1>2, <1>3, <1>4, <1>5

\* Phase A, all commands of one host.
LEMMA CommandedTyped ==
  ASSUME NEW m \in Medium, NEW c \in Ctl, cmds \in [Ctl -> Seq(Command)]
  PROVE  Commanded(m, c) \in Medium
<1> DEFINE s == cmds[c]
           U == [n \in 0 .. Len(s) |-> Medium]
<1>1. Len(s) \in Nat /\ \A n \in 1 .. Len(s) : s[n] \in Command
  OBVIOUS
<1>2. m \in U[0] /\ Len(s) \in 0 .. Len(s)
  BY <1>1
<1>3. \A n \in 1 .. Len(s) : n \in 0 .. Len(s) /\ n - 1 \in 0 .. Len(s)
  BY <1>1
<1>4. ASSUME NEW n \in 1 .. Len(s), NEW u \in U[n - 1] PROVE HandleCommand(u, c, s[n]) \in U[n]
  BY <1>1, <1>3, HandleCommandTyped
<1> HIDE DEF U
<1>5. Commanded(m, c) \in U[Len(s)]
  BY <1>1, <1>2, <1>4, AlongCommands
<1> QED BY <1>2, <1>5 DEF U

\* Phase A.
LEMMA PhaseATyped ==
  ASSUME NEW m \in Medium, cmds \in [Ctl -> Seq(Command)]
  PROVE  PhaseA(m) \in Medium
<1> DEFINE U == [n \in 0 .. Len(Order) |-> Medium]
<1>1. Len(Order) \in Nat /\ \A n \in 1 .. Len(Order) : Order[n] \in Ctl
  BY BroadcastAssumption
<1>2. m \in U[0] /\ Len(Order) \in 0 .. Len(Order)
  BY <1>1
<1>3. \A n \in 1 .. Len(Order) : n \in 0 .. Len(Order) /\ n - 1 \in 0 .. Len(Order)
  BY <1>1
<1>4. ASSUME NEW n \in 1 .. Len(Order), NEW u \in U[n - 1] PROVE Commanded(u, Order[n]) \in U[n]
  BY <1>1, <1>3, CommandedTyped
<1> HIDE DEF U
<1>5. PhaseA(m) \in U[Len(Order)]
  BY <1>1, <1>2, <1>4, AlongCommanded
<1> QED BY <1>2, <1>5 DEF U

\* Phase B2.
LEMMA ExtendedAdvertisingTyped == ASSUME NEW m \in Medium PROVE ExtendedAdvertising(m) \in Medium
<1> DEFINE news == [c \in Ctl |-> IF m.ctl[Src].on /\ m.ctl[c].scanning THEN <<[type |-> "Report"]>> ELSE <<>>]
<1>1. [type |-> "Report"] \in Event
  BY DEF Event
<1>2. news \in [Ctl -> Seq(Event)]
  BY <1>1
<1> HIDE DEF news
<1> QED BY <1>2, TellsTyped DEF ExtendedAdvertising, news

\* Phase C2, one controller.
LEMMA SynchronizedTyped == ASSUME NEW m \in Medium, NEW c \in Ctl PROVE Synchronized(m, c) \in Medium
<1> DEFINE k == [m.ctl[c] EXCEPT !.wanted = FALSE, !.sync = m.next]
           n == [m EXCEPT !.ctl[c].wanted = FALSE, !.ctl[c].sync = m.next, !.next = @ + 1]
<1>0. m.next \in Nat /\ m.next + 1 \in Nat \ {0} /\ m.ctl[c] \in Keeps
  BY DEF Medium
<1>1. m.next \in Nat /\ m.next + 1 \in Nat \ {0} /\ k \in Keeps
  BY <1>0 DEF Keeps
<1>2. n = [m EXCEPT !.ctl = [@ EXCEPT ![c] = k], !.next = m.next + 1]
  BY DEF Medium, Keeps
<1>3. n \in Medium
  <2> HIDE DEF k, n
  <2> QED BY <1>1, <1>2 DEF Medium
<1>4. [type |-> "SyncEstablished", sync |-> m.next] \in Event
  BY <1>1 DEF Event
<1> QED BY <1>3, <1>4, TellTyped DEF Synchronized

\* Phase C2.
LEMMA PeriodicSyncRequestsTyped == ASSUME NEW m \in Medium PROVE PeriodicSyncRequests(m) \in Medium
<1> DEFINE U == [n \in 0 .. Len(Order) |-> Medium]
<1>1. Len(Order) \in Nat /\ \A n \in 1 .. Len(Order) : Order[n] \in Ctl
  BY BroadcastAssumption
<1>2. m \in U[0] /\ Len(Order) \in 0 .. Len(Order)
  BY <1>1
<1>3. \A n \in 1 .. Len(Order) : n \in 0 .. Len(Order) /\ n - 1 \in 0 .. Len(Order)
  BY <1>1
<1>4. ASSUME NEW n \in 1 .. Len(Order), NEW u \in U[n - 1] PROVE Synchronized(u, Order[n]) \in U[n]
  BY <1>1, <1>3, SynchronizedTyped
<1> HIDE DEF U
<1>5. PeriodicSyncRequests(m) \in U[Len(Order)]
  BY <1>1, <1>2, <1>4, AlongSynchronized
<1> QED BY <1>2, <1>5 DEF U

\* Phase D: a BIG is made.
LEMMA CreateBigTyped == ASSUME NEW m \in Medium, NEW c \in Ctl PROVE CreateBig(m, c) \in Medium
<1> DEFINE h == Handles(m, NumBis)
           n == [m EXCEPT !.ctl[c].big = h, !.next = @ + NumBis]
<1>1. h \in Streams /\ m.next + NumBis \in Nat \ {0} /\ m.ctl[c] \in Keeps
  BY HandlesTyped, BroadcastAssumption DEF Medium
<1> HIDE DEF h
<1>2. [m.ctl[c] EXCEPT !.big = h] \in Keeps
  BY <1>1 DEF Keeps
<1>3. n = [m EXCEPT !.ctl = [@ EXCEPT ![c] = [m.ctl[c] EXCEPT !.big = h]], !.next = m.next + NumBis]
  BY DEF Medium
<1>4. n \in Medium
  <2> HIDE DEF n
  <2> QED BY <1>1, <1>2, <1>3 DEF Medium
<1>5. [type |-> "BigComplete", bis |-> h] \in Event
  BY <1>1 DEF Event
<1> QED BY <1>4, <1>5, TellTyped DEF CreateBig, h

\* Phase D: a BIG goes.
LEMMA TerminateBigTyped == ASSUME NEW m \in Medium, NEW c \in Ctl PROVE TerminateBig(m, c) \in Medium
<1> DEFINE k(d) == [m.ctl[d] EXCEPT !.big = IF d = c THEN <<>> ELSE @, !.joined = <<>>]
           ended == [m EXCEPT !.ctl = [d \in Ctl |-> [m.ctl[d] EXCEPT !.big = IF d = c THEN <<>> ELSE @, !.joined = <<>>]]]
           lost == [d \in Ctl |-> IF m.ctl[d].joined # <<>> THEN <<[type |-> "BigLost"]>> ELSE <<>>]
<1>1. ASSUME NEW d \in Ctl PROVE k(d) \in Keeps
  <2>1. m.ctl[d] \in Keeps
    BY DEF Medium
  <2>2. d = c \/ d # c
    OBVIOUS
  <2> QED BY <2>1, <2>2 DEF Keeps
<1>2. ended = [m EXCEPT !.ctl = [d \in Ctl |-> k(d)]]
  OBVIOUS
<1>3. ended \in Medium
  <2> HIDE DEF ended, k
  <2> QED BY <1>1, <1>2 DEF Medium
<1>4. [type |-> "BigEnded"] \in Event /\ [type |-> "BigLost"] \in Event
  BY DEF Event
<1>5. lost \in [Ctl -> Seq(Event)]
  BY <1>4
<1> HIDE DEF ended, lost
<1>6. Tell(ended, c, [type |-> "BigEnded"]) \in Medium
  BY <1>3, <1>4, TellTyped
<1> QED BY <1>5, <1>6, TellsTyped DEF TerminateBig, ended, lost

\* Phase D: a receiver joins a BIG, or is refused.
LEMMA BigCreateSyncTyped ==
  ASSUME NEW m \in Medium, NEW c \in Ctl, NEW cmd
  PROVE  BigCreateSync(m, c, cmd) \in Medium
<1> DEFINE h == Handles(m, NumBis)
           n == [m EXCEPT !.ctl[c].joined = h, !.next = @ + NumBis]
<1>1. h \in Streams /\ m.next + NumBis \in Nat \ {0} /\ m.ctl[c] \in Keeps
  BY HandlesTyped, BroadcastAssumption DEF Medium
<1> HIDE DEF h
<1>2. [m.ctl[c] EXCEPT !.joined = h] \in Keeps
  BY <1>1 DEF Keeps
<1>3. n = [m EXCEPT !.ctl = [@ EXCEPT ![c] = [m.ctl[c] EXCEPT !.joined = h]], !.next = m.next + NumBis]
  BY DEF Medium
<1>4. n \in Medium
  <2> HIDE DEF n
  <2> QED BY <1>1, <1>2, <1>3 DEF Medium
<1>5. [type |-> "BigSync", ok |-> TRUE, bis |-> h] \in Event /\ [type |-> "BigSync", ok |-> FALSE, bis |-> <<>>] \in Event
  BY <1>1 DEF Event
<1> QED BY <1>4, <1>5, TellTyped DEF BigCreateSync, h

\* Phase D: an SDU is handed to the receivers of the BIG, on a stream each of them has.
LEMMA BisIsoTyped ==
  ASSUME NEW m \in Medium, NEW c \in Ctl, NEW cmd, cmd.seq \in Nat
  PROVE  BisIso(m, c, cmd) \in Medium
<1> DEFINE j == CHOOSE k \in DOMAIN m.ctl[c].big : m.ctl[c].big[k] = cmd.handle
           iso(d) == [type |-> "Iso", handle |-> m.ctl[d].joined[j], seq |-> cmd.seq]
           news == [d \in Ctl |-> IF m.ctl[d].joined # <<>> THEN <<iso(d)>> ELSE <<>>]
<1>1. CASE \E k \in DOMAIN m.ctl[c].big : m.ctl[c].big[k] = cmd.handle
  <2>1. j \in DOMAIN m.ctl[c].big
    BY <1>1
  <2>2. DOMAIN m.ctl[c].big \in SUBSET Bis
    BY DEF Medium, Keeps, Streams
  <2>3. j \in Bis
    BY <2>1, <2>2
  <2> HIDE DEF j
  <2>4. ASSUME NEW d \in Ctl, m.ctl[d].joined # <<>> PROVE iso(d) \in Event
    <3>1. m.ctl[d].joined \in Streams
      BY <2>4 DEF Medium, Keeps
    <3>2. m.ctl[d].joined[j] \in Nat
      BY <3>1, <2>3 DEF Streams
    <3> QED BY <3>2 DEF Event
  <2>5. news \in [Ctl -> Seq(Event)]
    <3> HIDE DEF iso
    <3> QED BY <2>4
  <2>6. Tells(m, news) \in Medium
    BY <2>5, TellsTyped
  <2> QED BY <1>1, <2>6 DEF BisIso, Streamed, j
<1> QED BY <1>1 DEF BisIso

\* Phase D, one deferred command.
LEMMA RoutedTyped == ASSUME NEW m \in Medium, NEW a \in Act PROVE Routed(m, a) \in Medium
<1>1. a.from \in Ctl /\ a.cmd \in Routable
  BY DEF Act
<1>2. CASE a.cmd.op = "CreateBig"
  BY <1>1, <1>2, CreateBigTyped DEF Routed
<1>3. CASE a.cmd.op = "TerminateBig"
  BY <1>1, <1>3, TerminateBigTyped DEF Routed
<1>4. CASE a.cmd.op = "BigCreateSync"
  BY <1>1, <1>4, BigCreateSyncTyped DEF Routed
<1>5. CASE a.cmd.op = "Iso"
  <2>1. a.cmd.seq \in Nat
    BY <1>1, <1>5 DEF Routable, Command, Plains
  <2> QED BY <1>1, <1>5, <2>1, BisIsoTyped DEF Routed
<1> QED BY <1>1, <1>2, <1>3, <1>4, <1>5 DEF Routable

\* Phase D.
LEMMA PhaseDTyped == ASSUME NEW m \in Medium PROVE PhaseD(m) \in Medium
<1> DEFINE s == m.acts
           U == [n \in 0 .. Len(s) |-> Medium]
<1>1. Len(s) \in Nat /\ \A n \in 1 .. Len(s) : s[n] \in Act
  BY DEF Medium
<1>2. m \in U[0] /\ Len(s) \in 0 .. Len(s)
  BY <1>1
<1>3. \A n \in 1 .. Len(s) : n \in 0 .. Len(s) /\ n - 1 \in 0 .. Len(s)
  BY <1>1
<1>4. ASSUME NEW n \in 1 .. Len(s), NEW u \in U[n - 1] PROVE Routed(u, s[n]) \in U[n]
  BY <1>1, <1>3, RoutedTyped
<1> HIDE DEF U
<1>5. PhaseD(m) \in U[Len(s)]
  BY <1>1, <1>2, <1>4, AlongRouted
<1> QED BY <1>2, <1>5 DEF U

\* Phase D3.
LEMMA PeriodicAdvertisingTyped == ASSUME NEW m \in Medium PROVE PeriodicAdvertising(m) \in Medium
<1> DEFINE k == m.ctl[Src]
           p(c) == [type |-> "Periodic", sync |-> m.ctl[c].sync, base |-> k.base]
           i(c) == [type |-> "BigInfo", sync |-> m.ctl[c].sync, encrypted |-> SrcCode # 0]
           base(c) == IF k.base = 0 THEN <<>> ELSE <<p(c)>>
           big(c) == IF k.big = <<>> THEN <<>> ELSE <<i(c)>>
           news == [c \in Ctl |-> IF m.ctl[c].sync # 0 /\ k.train THEN base(c) \o big(c) ELSE <<>>]
<1>1. ASSUME NEW c \in Ctl PROVE base(c) \o big(c) \in Seq(Event)
  <2>1. m.ctl[c].sync \in Nat /\ k.base \in Nat
    BY SrcIsCtl DEF Medium, Keeps
  <2>2. p(c) \in Event /\ i(c) \in Event
    BY <2>1 DEF Event
  <2> HIDE DEF p, i
  <2>3. base(c) \in Seq(Event) /\ big(c) \in Seq(Event)
    BY <2>2
  <2> HIDE DEF base, big
  <2> QED BY <2>3
<1>2. news \in [Ctl -> Seq(Event)]
  <2> HIDE DEF base, big
  <2> QED BY <1>1
<1> HIDE DEF news
<1>3. Tells(m, news) \in Medium
  BY <1>2, TellsTyped
<1> QED BY <1>3 DEF PeriodicAdvertising, news

\* The medium after a tick.
Ticked == PeriodicAdvertising(PhaseD(PeriodicSyncRequests(ExtendedAdvertising(PhaseA(Begun)))))

\* A tick of the medium keeps the types.
LEMMA TickTyped == ASSUME TypeOK, Tick PROVE TypeOK'
<1>1. Begun \in Medium
  BY DEF Begun, Medium, TypeOK
<1>2. Ticked \in Medium
  BY <1>1, PhaseATyped, ExtendedAdvertisingTyped, PeriodicSyncRequestsTyped, PhaseDTyped, PeriodicAdvertisingTyped
     DEF Ticked, TypeOK
<1>3. ctl' = Ticked.ctl /\ evts' = Ticked.evts /\ next' = Ticked.next
  BY DEF Tick, Ticked
<1> HIDE DEF Tick
<1>4. ctl' \in [Ctl -> Keeps] /\ evts' \in [Ctl -> Seq(Event)] /\ next' \in Nat \ {0}
  BY <1>2, <1>3 DEF Medium
<1>5. cmds' \in [Ctl -> Seq(Command)] /\ UNCHANGED <<source, sink>>
  BY DEF Tick
<1> QED BY <1>4, <1>5 DEF TypeOK

\* A broadcaster and its commands.
Turns == [b : Sources, out : Seq(Command)]

\* How the state of a broadcaster may move while events are drained.
Onward(x, y) ==
  /\ y = "Idle" => x = "Idle"
  /\ x = "Streaming" => y \in {"Streaming", "Terminated"}
  /\ x = "OpeningDataPaths" => y \in {"OpeningDataPaths", "Streaming", "Terminated"}
  /\ x = "Terminated" => y = "Terminated"

\* A command without parameters is a command.
LEMMA PlainTyped == ASSUME NEW op \in Plains PROVE Plain(op) \in Command /\ <<Plain(op)>> \in Seq(Command)
BY DEF Plain, Command

\* Publishing a BASE that has an edition is a command.
LEMMA PeriodicDataTyped ==
  ASSUME NEW b, b.base \in Nat \ {0} PROVE PeriodicData(b) \in Command /\ <<PeriodicData(b)>> \in Seq(Command)
BY DEF PeriodicData, Command

\* A BIG has streams: its handles are never the empty sequence.
LEMMA EmptyIsNoStreams == \A h \in Streams : h # <<>>
<1>1. 1 \in Bis
  BY BroadcastAssumption DEF Bis
<1>2. DOMAIN <<>> = {}
  OBVIOUS
<1> QED BY <1>1, <1>2 DEF Streams

\* The ladder of set-up commands: what follows a rung is a command, and the last one makes the BIG.
LEMMA RungTyped ==
  ASSUME NEW n \in DOMAIN Ladder, NEW b \in Sources, b.state = Ladder[n]
  PROVE  /\ NextCommand(b, n) \in Command
         /\ Ladder[n] \in {"Parameters", "Data", "PeriodicParameters", "PeriodicData", "Enable", "PeriodicEnable"}
         /\ n # Len(Ladder) => Ladder[n + 1] \in {"Data", "PeriodicParameters", "PeriodicData", "Enable", "PeriodicEnable"}
<1>1. n \in 1 .. 6 /\ Len(Ladder) = 6
  BY DEF Ladder
<1>2. /\ Ladder[1] = "Parameters" /\ Ladder[2] = "Data" /\ Ladder[3] = "PeriodicParameters"
      /\ Ladder[4] = "PeriodicData" /\ Ladder[5] = "Enable" /\ Ladder[6] = "PeriodicEnable"
  BY DEF Ladder
<1>3. n = 1 \/ n = 2 \/ n = 3 \/ n = 4 \/ n = 5 \/ n = 6
  BY <1>1
<1>4. b.base \in Nat \ {0}
  BY <1>2, <1>3 DEF Sources
<1>5. \A op \in Plains : Plain(op) \in Command
  BY PlainTyped
<1>6. PeriodicData(b) \in Command
  BY <1>4, PeriodicDataTyped
<1> QED BY <1>1, <1>2, <1>3, <1>5, <1>6 DEF NextCommand, Plains

\* The broadcaster on a Command Complete (device/big_broadcaster.rs): typed, and it moves onward.
LEMMA OnCommandCompleteTyped ==
  ASSUME NEW b \in Sources, NEW op
  PROVE  /\ OnCommandComplete(b, op) \in Turns
         /\ Onward(b.state, OnCommandComplete(b, op).b.state)
         /\ OnCommandComplete(b, op).b.told = b.told /\ OnCommandComplete(b, op).b.last = b.last
<1> DEFINE r == OnCommandComplete(b, op)
           n == CHOOSE n \in DOMAIN Ladder : Ladder[n] = op
<1>1. CASE b.update /\ op = "PeriodicData"
  <2>1. r = [b |-> [b EXCEPT !.update = FALSE, !.status = TRUE], out |-> <<>>]
    BY <1>1 DEF OnCommandComplete
  <2> HIDE DEF r
  <2>2. [b EXCEPT !.update = FALSE, !.status = TRUE] \in Sources
    BY DEF Sources
  <2>3. r \in Turns
    BY <2>1, <2>2 DEF Turns
  <2>4. r.b.state = b.state /\ r.b.told = b.told /\ r.b.last = b.last
    BY <2>1 DEF Sources
  <2> QED BY <2>3, <2>4 DEF r, Onward
<1>2. CASE ~(b.update /\ op = "PeriodicData") /\ b.state \in Range(Ladder) /\ op = b.state
  <2> DEFINE s == IF n = Len(Ladder) THEN "CreatingBig" ELSE Ladder[n + 1]
  <2>1. r = [b |-> [b EXCEPT !.state = s], out |-> <<NextCommand(b, n)>>]
    BY <1>2 DEF OnCommandComplete
  <2>2. n \in DOMAIN Ladder /\ Ladder[n] = b.state
    BY <1>2 DEF Range
  <2> HIDE DEF r, n
  <2>3. /\ NextCommand(b, n) \in Command
        /\ s \in {"CreatingBig", "Data", "PeriodicParameters", "PeriodicData", "Enable", "PeriodicEnable"}
        /\ b.state \in {"Parameters", "Data", "PeriodicParameters", "PeriodicData", "Enable", "PeriodicEnable"}
    BY <2>2, RungTyped
  <2> HIDE DEF s
  <2>4. [b EXCEPT !.state = s] \in Sources
    BY <2>3 DEF Sources, SourceStates
  <2>5. <<NextCommand(b, n)>> \in Seq(Command)
    BY <2>3
  <2>6. r \in Turns
    BY <2>1, <2>4, <2>5 DEF Turns
  <2>7. r.b.state = s /\ r.b.told = b.told /\ r.b.last = b.last
    BY <2>1 DEF Sources
  <2> QED BY <2>3, <2>6, <2>7 DEF r, Onward
<1>3. CASE /\ ~(b.update /\ op = "PeriodicData") /\ ~(b.state \in Range(Ladder) /\ op = b.state)
           /\ b.state = "OpeningDataPaths" /\ op = "DataPath"
  <2> DEFINE o == b.open + 1
             s == [b EXCEPT !.open = o, !.state = "Streaming"]
             t == [b EXCEPT !.open = o]
  <2>1. r = [b |-> s, out |-> <<>>] \/ r = [b |-> t, out |-> <<Plain("DataPath")>>]
    BY <1>3 DEF OnCommandComplete
  <2>2. o \in Nat
    BY DEF Sources
  <2> HIDE DEF r, o
  <2>3. s \in Sources /\ t \in Sources
    BY <1>3, <2>2 DEF Sources, SourceStates
  <2>4. /\ s.state = "Streaming" /\ s.told = b.told /\ s.last = b.last
        /\ t.state = "OpeningDataPaths" /\ t.told = b.told /\ t.last = b.last
    BY <1>3 DEF Sources
  <2> HIDE DEF s, t
  <2>5. <<Plain("DataPath")>> \in Seq(Command)
    BY PlainTyped DEF Plains
  <2>6. CASE r = [b |-> s, out |-> <<>>]
    <3>1. r \in Turns /\ r.b = s
      BY <2>3, <2>6 DEF Turns
    <3> QED BY <1>3, <2>4, <3>1 DEF r, Onward
  <2>7. CASE r = [b |-> t, out |-> <<Plain("DataPath")>>]
    <3>1. r \in Turns /\ r.b = t
      BY <2>3, <2>5, <2>7 DEF Turns
    <3> QED BY <1>3, <2>4, <3>1 DEF r, Onward
  <2> QED BY <2>1, <2>6, <2>7
<1>4. CASE ~(b.update /\ op = "PeriodicData") /\ ~(b.state \in Range(Ladder) /\ op = b.state)
           /\ ~(b.state = "OpeningDataPaths" /\ op = "DataPath")
  <2>1. r = [b |-> b, out |-> <<>>]
    BY <1>4 DEF OnCommandComplete
  <2> HIDE DEF r
  <2> QED BY <2>1 DEF r, Turns, Onward, Sources, SourceStates
<1> QED BY <1>1, <1>2, <1>3, <1>4

\* The broadcaster on any event: typed, it moves onward, and what the app was told stays.
LEMMA BroadcasterOnPacketTyped ==
  ASSUME NEW b \in Sources, NEW e \in Event
  PROVE  /\ BroadcasterOnPacket(b, e) \in Turns
         /\ Onward(b.state, BroadcasterOnPacket(b, e).b.state)
         /\ BroadcasterOnPacket(b, e).b.told = b.told /\ BroadcasterOnPacket(b, e).b.last = b.last
<1> DEFINE r == BroadcasterOnPacket(b, e)
<1>0. Onward(b.state, b.state) /\ [b |-> b, out |-> <<>>] \in Turns
  BY DEF Onward, Turns
<1>1. CASE e.type = "Complete"
  BY <1>1, OnCommandCompleteTyped DEF BroadcasterOnPacket
<1>2. CASE e.type = "Status"
  <2>1. CASE b.state = "CreatingBig" /\ e.op = "CreateBig" /\ ~e.ok
    <3>1. r = [b |-> [b EXCEPT !.state = "Failed"], out |-> <<>>]
      BY <1>2, <2>1 DEF BroadcasterOnPacket
    <3> HIDE DEF r
    <3>2. [b EXCEPT !.state = "Failed"] \in Sources
      BY <2>1 DEF Sources, SourceStates
    <3>3. r \in Turns
      BY <3>1, <3>2 DEF Turns
    <3> QED BY <2>1, <3>1, <3>3 DEF r, Onward, Sources
  <2>2. CASE ~(b.state = "CreatingBig" /\ e.op = "CreateBig" /\ ~e.ok)
    <3>1. r = [b |-> b, out |-> <<>>]
      BY <1>2, <2>2 DEF BroadcasterOnPacket
    <3> QED BY <1>0, <3>1
  <2> QED BY <2>1, <2>2
<1>3. CASE e.type = "BigComplete"
  <2>1. CASE b.state = "CreatingBig"
    <3> DEFINE z == [k \in Bis |-> 0]
    <3>1. r = [b |-> [b EXCEPT !.state = "OpeningDataPaths", !.bis = e.bis, !.open = 0, !.seq = z],
               out |-> <<Plain("DataPath")>>]
      BY <1>3, <2>1 DEF BroadcasterOnPacket
    <3>2. z \in Streams
      BY DEF Streams
    <3> HIDE DEF r, z
    <3>3. e.bis \in Streams /\ e.bis # <<>>
      <4>1. e.bis \in Streams
        BY <1>3 DEF Event
      <4> QED BY <4>1, EmptyIsNoStreams
    <3>4. [b EXCEPT !.state = "OpeningDataPaths", !.bis = e.bis, !.open = 0, !.seq = z] \in Sources
      BY <3>2, <3>3 DEF Sources, SourceStates
    <3>5. <<Plain("DataPath")>> \in Seq(Command)
      BY PlainTyped DEF Plains
    <3>6. r \in Turns
      BY <3>1, <3>4, <3>5 DEF Turns
    <3>7. r.b.state = "OpeningDataPaths" /\ r.b.told = b.told /\ r.b.last = b.last
      BY <3>1 DEF Sources
    <3> QED BY <2>1, <3>6, <3>7 DEF r, Onward
  <2>2. CASE b.state # "CreatingBig"
    <3>1. r = [b |-> b, out |-> <<>>]
      BY <1>3, <2>2 DEF BroadcasterOnPacket
    <3> QED BY <1>0, <3>1
  <2> QED BY <2>1, <2>2
<1>4. CASE e.type = "BigEnded"
  <2>1. r = [b |-> [b EXCEPT !.state = "Terminated", !.bis = <<>>], out |-> <<>>]
    BY <1>4 DEF BroadcasterOnPacket
  <2> HIDE DEF r
  <2>2. [b EXCEPT !.state = "Terminated", !.bis = <<>>] \in Sources
    BY DEF Sources, SourceStates
  <2>3. r \in Turns
    BY <2>1, <2>2 DEF Turns
  <2>4. r.b.state = "Terminated" /\ r.b.told = b.told /\ r.b.last = b.last
    BY <2>1 DEF Sources
  <2> QED BY <2>3, <2>4 DEF r, Onward
<1>5. CASE e.type \notin {"Complete", "Status", "BigComplete", "BigEnded"}
  <2>1. r = [b |-> b, out |-> <<>>]
    BY <1>5 DEF BroadcasterOnPacket
  <2> QED BY <1>0, <2>1
<1> QED BY <1>1, <1>2, <1>3, <1>4, <1>5

\* Moving onward twice is moving onward.
LEMMA OnwardOn == \A x, y, z : Onward(x, y) /\ Onward(y, z) => Onward(x, z)
BY DEF Onward

\* What a drain may make of the broadcaster b.
Drainings(b) == {d \in Turns : Onward(b.state, d.b.state) /\ d.b.told = b.told /\ d.b.last = b.last}

\* One event of the drain.
LEMMA HeardTyped ==
  ASSUME NEW b, NEW d \in Drainings(b), NEW e \in Event
  PROVE  Heard(d, e) \in Drainings(b)
<1> DEFINE n == BroadcasterOnPacket(d.b, e)
<1>1. d.b \in Sources /\ d.out \in Seq(Command) /\ Onward(b.state, d.b.state) /\ d.b.told = b.told /\ d.b.last = b.last
  BY DEF Drainings, Turns
<1>2. n \in Turns /\ Onward(d.b.state, n.b.state) /\ n.b.told = d.b.told /\ n.b.last = d.b.last
  BY <1>1, BroadcasterOnPacketTyped
<1>3. Heard(d, e) = [b |-> n.b, out |-> d.out \o n.out]
  BY DEF Heard
<1> HIDE DEF n
<1>4. n.b \in Sources /\ n.out \in Seq(Command)
  BY <1>2 DEF Turns
<1>5. Onward(b.state, n.b.state)
  BY <1>1, <1>2, OnwardOn
<1>6. d.out \o n.out \in Seq(Command)
  BY <1>1, <1>4
<1>7. Heard(d, e) \in Turns /\ Heard(d, e).b = n.b
  BY <1>3, <1>4, <1>6 DEF Turns
<1> QED BY <1>1, <1>2, <1>5, <1>7 DEF Drainings

\* The whole drain of a turn moves the broadcaster onward and leaves what the app was told.
LEMMA DrainedTyped == ASSUME NEW b \in Sources, TypeOK PROVE Drained(b) \in Drainings(b)
<1> DEFINE s == evts[Src]
           U == [n \in 0 .. Len(s) |-> Drainings(b)]
<1>1. Len(s) \in Nat /\ \A n \in 1 .. Len(s) : s[n] \in Event
  BY SrcIsCtl DEF TypeOK
<1>2. [b |-> b, out |-> <<>>] \in Drainings(b)
  BY DEF Drainings, Turns, Onward
<1>3. [b |-> b, out |-> <<>>] \in U[0] /\ Len(s) \in 0 .. Len(s)
  BY <1>1, <1>2
<1>4. \A n \in 1 .. Len(s) : n \in 0 .. Len(s) /\ n - 1 \in 0 .. Len(s)
  BY <1>1
<1>5. ASSUME NEW n \in 1 .. Len(s), NEW u \in U[n - 1] PROVE Heard(u, s[n]) \in U[n]
  BY <1>1, <1>4, HeardTyped
<1> HIDE DEF U
<1>6. Drained(b) \in U[Len(s)]
  BY <1>1, <1>3, <1>5, AlongHeard
<1> QED BY <1>3, <1>6 DEF U

\* What observe_transitions makes of a broadcaster (scripting/broadcast.rs), as a table of the two states.
LEMMA ObservedTyped ==
  ASSUME NEW b \in Sources
  PROVE  /\ Observed(b) \in Sources
         /\ Observed(b).state = b.state /\ Observed(b).last = b.state
         /\ Observed(b).told = IF b.last = b.state THEN b.told
                               ELSE IF b.state = "Streaming" THEN "playing"
                               ELSE IF b.state \in {"Terminated", "Failed"} THEN "idle"
                               ELSE IF Created(b.state) /\ ~Created(b.last) THEN "started" ELSE b.told
<1> DEFINE t == IF b.state = "Streaming" THEN "playing"
                ELSE IF b.state \in {"Terminated", "Failed"} THEN "idle"
                ELSE IF Created(b.state) /\ ~Created(b.last) THEN "started" ELSE b.told
           v == b.ever \/ (Created(b.state) /\ ~Created(b.last))
<1>1. CASE b.last = b.state
  <2>1. Observed(b) = [b EXCEPT !.status = FALSE]
    BY <1>1 DEF Observed
  <2> QED BY <1>1, <2>1 DEF Sources
<1>2. CASE b.last # b.state
  <2>1. Observed(b) = [b EXCEPT !.status = FALSE, !.last = b.state, !.ever = v, !.told = t]
    BY <1>2 DEF Observed, Sources
  <2>2. t \in {"idle", "started", "playing"}
    BY DEF Sources
  <2>3. v \in BOOLEAN
    BY DEF Created, Sources
  <2> HIDE DEF t, v
  <2>4. Observed(b) \in Sources
    BY <2>1, <2>2, <2>3 DEF Sources
  <2>5. Observed(b).state = b.state /\ Observed(b).last = b.state /\ Observed(b).told = t
    BY <2>1 DEF Sources
  <2> QED BY <1>2, <2>4, <2>5 DEF t
<1> QED BY <1>1, <1>2

\* The app's view after a turn, from the one before.
AppInv(b) ==
  /\ b.told = CASE b.state = "Streaming" -> "playing" [] b.state = "OpeningDataPaths" -> "started" [] OTHER -> "idle"
  /\ b.last = b.state \/ (b.last = "none" /\ b.state = "Idle")

\* A new broadcaster, of which the app was told nothing.
LEMMA BroadcasterTyped == Broadcaster \in Sources /\ Broadcaster.bis = <<>> /\ Broadcaster.last = "none" /\ AppInv(Broadcaster)
<1> DEFINE z == [k \in Bis |-> 0]
<1>1. z \in Streams
  BY DEF Streams
<1>2. Broadcaster = [state |-> "Idle", bis |-> <<>>, open |-> 0, seq |-> z, inFlight |-> 0, update |-> FALSE,
                     status |-> FALSE, base |-> 0, last |-> "none", ever |-> FALSE, told |-> "idle"]
  BY DEF Broadcaster
<1> HIDE DEF z
<1> QED BY <1>1, <1>2 DEF Sources, SourceStates, AppInv

\* A start replaces the broadcaster, and carries over what the app was told of the old one.
LEMMA StartTyped ==
  ASSUME NEW b \in Sources
  PROVE  /\ ScriptCall("start", b) \in Turns
         /\ ScriptCall("start", b).b.state = "Parameters" /\ ScriptCall("start", b).b.last = "none"
         /\ ScriptCall("start", b).b.told = b.told
<1> DEFINE i == b.base + 1
           n == [Broadcaster EXCEPT !.state = "Parameters", !.base = i, !.told = b.told]
           o == <<Plain("Parameters")>>
           r == ScriptCall("start", b)
<1>1. r = [b |-> n, out |-> o]
  BY DEF ScriptCall
<1>4. i \in Nat \ {0} /\ b.told \in {"idle", "started", "playing"}
  BY DEF Sources
<1>5. o \in Seq(Command)
  BY PlainTyped DEF Plains
<1> HIDE DEF i, o, r
<1>6. n \in Sources /\ n.state = "Parameters" /\ n.last = "none" /\ n.told = b.told
  BY <1>4, BroadcasterTyped DEF Sources, SourceStates
<1> HIDE DEF n
<1>7. r \in Turns /\ r.b = n
  BY <1>1, <1>5, <1>6 DEF Turns
<1> QED BY <1>6, <1>7 DEF r

\* The other calls of a script leave the state and what the app was told.
LEMMA ScriptCallTyped ==
  ASSUME NEW b \in Sources, NEW call \in Calls, call # "start"
  PROVE  /\ ScriptCall(call, b) \in Turns
         /\ ScriptCall(call, b).b.state = b.state /\ ScriptCall(call, b).b.last = b.last
         /\ ScriptCall(call, b).b.told = b.told
<1>1. CASE call = "stop"
  <2>1. ScriptCall(call, b) = [b |-> b, out |-> <<Plain("TerminateBig")>>]
    BY <1>1 DEF ScriptCall
  <2>2. <<Plain("TerminateBig")>> \in Seq(Command)
    BY PlainTyped DEF Plains
  <2> QED BY <2>1, <2>2 DEF Turns
<1>2. CASE call = "update"
  <2> DEFINE i == b.base + 1
             n == [b EXCEPT !.base = i, !.update = TRUE]
             o == [b EXCEPT !.base = i]
  <2>1. ScriptCall(call, b) = [b |-> n, out |-> <<PeriodicData(o)>>]
    BY <1>2 DEF ScriptCall
  <2>2. i \in Nat \ {0}
    BY DEF Sources
  <2> HIDE DEF i
  <2>3. n \in Sources /\ n.state = b.state /\ n.last = b.last /\ n.told = b.told /\ o.base \in Nat \ {0}
    BY <2>2 DEF Sources
  <2> HIDE DEF n, o
  <2>4. <<PeriodicData(o)>> \in Seq(Command)
    BY <2>3, PeriodicDataTyped
  <2> QED BY <2>1, <2>3, <2>4 DEF Turns
<1>3. CASE call \notin {"start", "stop", "update"}
  <2>1. ScriptCall(call, b) = [b |-> b, out |-> <<>>]
    BY <1>3 DEF ScriptCall
  <2> QED BY <2>1 DEF Turns
<1> QED BY <1>1, <1>2, <1>3

\* A turn of the script keeps the types.
LEMMA SourceTurnTyped == ASSUME TypeOK, NEW call \in Calls, SourceTurn(call) PROVE TypeOK'
<1> DEFINE d == Drained(source)
           s == ScriptCall(call, d.b)
<1>1. d \in Turns
  <2>1. source \in Sources
    BY DEF TypeOK
  <2> QED BY <2>1, DrainedTyped DEF Drainings
<1>2. d.b \in Sources /\ d.out \in Seq(Command)
  BY <1>1 DEF Turns
<1>3. source' = Observed(s.b) /\ cmds' = [cmds EXCEPT ![Src] = @ \o d.out \o s.out] /\ evts' = [evts EXCEPT ![Src] = <<>>]
  BY DEF SourceTurn
<1>4. s \in Turns
  <2> HIDE DEF d
  <2> QED BY <1>2, StartTyped, ScriptCallTyped
<1> HIDE DEF d, s
<1>5. s.b \in Sources /\ s.out \in Seq(Command)
  BY <1>4 DEF Turns
<1>6. source' \in Sources
  BY <1>3, <1>5, ObservedTyped
<1>7. cmds[Src] \o d.out \o s.out \in Seq(Command)
  <2>1. cmds[Src] \in Seq(Command)
    BY SrcIsCtl DEF TypeOK
  <2>2. cmds[Src] \o d.out \in Seq(Command)
    BY <1>2, <2>1
  <2> QED BY <1>5, <2>2
<1>8. cmds' \in [Ctl -> Seq(Command)] /\ evts' \in [Ctl -> Seq(Event)]
  <2>1. evts' \in [Ctl -> Seq(Event)]
    <3>1. evts' = [evts EXCEPT ![Src] = <<>>] /\ <<>> \in Seq(Event)
      BY <1>3
    <3> QED BY <3>1 DEF TypeOK
  <2> DEFINE q == cmds[Src] \o d.out \o s.out
  <2>2. cmds' = [cmds EXCEPT ![Src] = q] /\ q \in Seq(Command)
    BY <1>3, <1>7
  <2> HIDE DEF q
  <2> QED BY <2>1, <2>2 DEF TypeOK
<1>9. UNCHANGED <<ctl, next, sink>>
  BY DEF SourceTurn
<1> QED BY <1>6, <1>8, <1>9 DEF TypeOK

\* After a turn the app was told what its broadcast is, if no start came before it was told of the end.
LEMMA SourceTurnInformed ==
  ASSUME ~RestartUnseen, TypeOK, AppInv(source), NEW call \in Calls, SourceTurn(call)
  PROVE  AppInv(source')
<1> DEFINE d == Drained(source)
           s == ScriptCall(call, d.b)
<1>1. source \in Sources
  BY DEF TypeOK
<1>2. d \in Drainings(source)
  BY <1>1, DrainedTyped
<1>3. source' = Observed(s.b) /\ MayCall(call, d.b)
  BY DEF SourceTurn
<1> HIDE DEF d
<1>4. d.b \in Sources /\ Onward(source.state, d.b.state) /\ d.b.told = source.told /\ d.b.last = source.last
  BY <1>2 DEF Drainings, Turns
<1>5. s \in Turns /\ s.b.told = d.b.told
  BY <1>4, StartTyped, ScriptCallTyped
<1>6. s.b \in Sources
  BY <1>5 DEF Turns
<1>7. IF call = "start" THEN s.b.state = "Parameters" /\ s.b.last = "none" ELSE s.b.state = d.b.state /\ s.b.last = d.b.last
  BY <1>4, StartTyped, ScriptCallTyped
<1> HIDE DEF s
<1> DEFINE x == source.state
           y == s.b.state
           l == s.b.last
<1>8. /\ source'.state = y /\ source'.last = y
      /\ source'.told = IF l = y THEN source.told
                        ELSE IF y = "Streaming" THEN "playing"
                        ELSE IF y \in {"Terminated", "Failed"} THEN "idle"
                        ELSE IF Created(y) /\ ~Created(l) THEN "started" ELSE source.told
  BY <1>3, <1>4, <1>5, <1>6, ObservedTyped
<1>9. CASE call = "start"
  <2>1. source.told = "idle"
    <3>1. d.b.state \in {"Idle", "Terminated", "Failed"} /\ (d.b.last = d.b.state \/ d.b.state = "Idle")
      BY <1>3, <1>9 DEF MayCall, Ended
    <3>2. x \in {"Idle", "Terminated", "Failed"}
      BY <1>4, <3>1 DEF AppInv, Onward, Sources
    <3> QED BY <3>2 DEF AppInv
  <2> QED BY <1>7, <1>8, <1>9, <2>1 DEF AppInv, Created
<1>10. CASE call # "start"
  <2>1. Onward(x, y) /\ (l = x \/ (l = "none" /\ x = "Idle")) /\ y # "none"
    BY <1>1, <1>4, <1>6, <1>7, <1>10 DEF AppInv, Sources, SourceStates
  <2> QED BY <1>8, <2>1 DEF AppInv, Created, Onward
<1> QED BY <1>9, <1>10

\* An SDU changes neither the state nor what the app was told.
LEMMA AudioTyped ==
  ASSUME TypeOK, NEW k \in Bis, Audio(k)
  PROVE  TypeOK' /\ (AppInv(source) => AppInv(source'))
<1> DEFINE q == source.seq[k] + 1
           b == [source EXCEPT !.seq[k] = q, !.inFlight = source.inFlight + 1]
           c == SdusOf(source, k)
<1>1. source' = b /\ cmds' = [cmds EXCEPT ![Src] = @ \o <<c>>] /\ source.state = "Streaming"
  BY DEF Audio, SendSdu
<1>2. source \in Sources
  BY DEF TypeOK
<1>3. q \in Nat /\ source.inFlight + 1 \in Nat /\ source.bis[k] \in Nat
  BY <1>1, <1>2 DEF Sources, Streams
<1>4. c \in Command
  BY <1>3 DEF SdusOf, Command
<1> HIDE DEF q
<1>5. [source.seq EXCEPT ![k] = q] \in Streams
  BY <1>2, <1>3 DEF Sources, Streams
<1>6. b = [source EXCEPT !.seq = [source.seq EXCEPT ![k] = q], !.inFlight = source.inFlight + 1]
  BY <1>2 DEF Sources
<1>7. b \in Sources /\ b.state = source.state /\ b.told = source.told /\ b.last = source.last
  BY <1>2, <1>3, <1>5, <1>6 DEF Sources
<1> HIDE DEF b, c
<1>8. cmds[Src] \o <<c>> \in Seq(Command)
  <2>1. cmds[Src] \in Seq(Command) /\ <<c>> \in Seq(Command)
    BY <1>4, SrcIsCtl DEF TypeOK
  <2> QED BY <2>1
<1>9. cmds' \in [Ctl -> Seq(Command)]
  BY <1>1, <1>8 DEF TypeOK
<1>10. UNCHANGED <<ctl, evts, next, sink>>
  BY DEF Audio
<1> QED BY <1>1, <1>7, <1>9, <1>10 DEF TypeOK, AppInv

\* A receiver and its commands.
Receptions == [r : Sinks, out : Seq(Command)]

\* A receiver and commands make a reception.
LEMMA ReceptionOf ==
  /\ \A q \in Sinks, s \in Seq(Command) : [r |-> q, out |-> s] \in Receptions
  /\ <<>> \in Seq(Command) /\ \A x \in Command : <<x>> \in Seq(Command)
BY DEF Receptions

\* The receiver asks to join once the announcement is complete (device/big_receiver.rs).
LEMMA BigCreateSyncIfReadyTyped ==
  ASSUME NEW r \in Sinks, NEW c \in Receiver
  PROVE  BigCreateSyncIfReady(r, c) \in Receptions
<1> DEFINE x == [op |-> "BigCreateSync", sync |-> r.sync, encrypted |-> r.info = "encrypted", code |-> Code[c]]
           v == [r EXCEPT !.state = "Failed"]
           w == [r EXCEPT !.state = "SyncingToBig"]
<1>1. \/ BigCreateSyncIfReady(r, c) = [r |-> r, out |-> <<>>]
      \/ BigCreateSyncIfReady(r, c) = [r |-> v, out |-> <<>>]
      \/ BigCreateSyncIfReady(r, c) = [r |-> w, out |-> <<x>>]
  BY DEF BigCreateSyncIfReady
<1>2. x \in Command
  BY DEF Command, Sinks, Receiver
<1>3. v \in Sinks /\ w \in Sinks
  BY DEF Sinks, SinkStates
<1> HIDE DEF x, v, w
<1> QED BY <1>1, <1>2, <1>3, ReceptionOf

\* The receiver on either half of the announcement.
LEMMA AnnouncedTyped ==
  ASSUME NEW r \in Sinks, NEW c \in Receiver, NEW e \in Event
  PROVE  /\ e.type = "Periodic" => OnPeriodicReport(r, c, e) \in Receptions
         /\ e.type = "BigInfo" => OnBigInfo(r, c, e) \in Receptions
<1>1. [r |-> r, out |-> <<>>] \in Receptions
  BY DEF Receptions
<1>2. CASE e.type = "Periodic"
  <2>1. [r EXCEPT !.base = e.base] \in Sinks
    BY <1>2 DEF Sinks, Event
  <2>2. BigCreateSyncIfReady([r EXCEPT !.base = e.base], c) \in Receptions
    BY <2>1, BigCreateSyncIfReadyTyped
  <2> QED BY <1>1, <1>2, <2>2 DEF OnPeriodicReport
<1>3. CASE e.type = "BigInfo"
  <2> DEFINE q == [r EXCEPT !.info = IF e.encrypted THEN "encrypted" ELSE "open"]
  <2>1. q \in Sinks
    BY DEF Sinks
  <2> HIDE DEF q
  <2>2. BigCreateSyncIfReady(q, c) \in Receptions
    BY <2>1, BigCreateSyncIfReadyTyped
  <2> QED BY <1>1, <1>3, <2>2 DEF OnBigInfo, q
<1> QED BY <1>2, <1>3

\* The receiver on the answer to its request to join.
LEMMA OnBigSyncEstablishedTyped ==
  ASSUME NEW r \in Sinks, NEW e \in Event, e.type = "BigSync"
  PROVE  OnBigSyncEstablished(r, e) \in Receptions
<1> DEFINE x == <<Plain("DataPath")>>
           v == [r EXCEPT !.state = "Failed"]
           w == [r EXCEPT !.state = "OpeningDataPaths", !.bis = e.bis, !.open = 0]
<1>1. \/ OnBigSyncEstablished(r, e) = [r |-> r, out |-> <<>>]
      \/ OnBigSyncEstablished(r, e) = [r |-> v, out |-> <<>>]
      \/ OnBigSyncEstablished(r, e) = [r |-> w, out |-> x]
  BY DEF OnBigSyncEstablished
<1>2. x \in Seq(Command)
  BY PlainTyped DEF Plains
<1>3. v \in Sinks
  BY DEF Sinks, SinkStates
<1>4. e.bis \in Streams \cup {<<>>}
  BY DEF Event
<1>5. w \in Sinks
  BY <1>4 DEF Sinks, SinkStates
<1> HIDE DEF x, v, w
<1> QED BY <1>1, <1>2, <1>3, <1>5, ReceptionOf

\* The receiver on a Command Complete.
LEMMA ReceiverOnCompleteTyped ==
  ASSUME NEW r \in Sinks, NEW e
  PROVE  ReceiverOnComplete(r, e) \in Receptions
<1> DEFINE o == r.open + 1
           q == [op |-> "ScanEnable", on |-> TRUE]
           x == <<Plain("DataPath")>>
           r1 == [r EXCEPT !.state = "Scanning"]
           r2 == [r EXCEPT !.open = o, !.state = "Receiving"]
           r3 == [r EXCEPT !.open = o]
           r4 == [r EXCEPT !.bis = <<>>, !.state = "Terminated"]
<1>1. ReceiverOnComplete(r, e) \in {[r |-> r, out |-> <<>>], [r |-> r1, out |-> <<q>>], [r |-> r2, out |-> <<>>],
                                    [r |-> r3, out |-> x], [r |-> r4, out |-> <<>>]}
  BY DEF ReceiverOnComplete
<1>2. o \in Nat /\ q \in Command
  BY DEF Sinks, Command
<1>3. x \in Seq(Command)
  BY PlainTyped DEF Plains
<1> HIDE DEF o, q, x
<1>4. r1 \in Sinks /\ r2 \in Sinks /\ r3 \in Sinks /\ r4 \in Sinks
  BY <1>2 DEF Sinks, SinkStates
<1> HIDE DEF r1, r2, r3, r4
<1>5. <<>> \in Seq(Command) /\ <<q>> \in Seq(Command)
  BY <1>2
<1> QED BY <1>1, <1>3, <1>4, <1>5, ReceptionOf

\* The receiver on an SDU.
LEMMA OnIsoTyped == ASSUME NEW r \in Sinks, NEW e \in Event, e.type = "Iso" PROVE OnIso(r, e) \in Sinks
<1> DEFINE k == CHOOSE k \in DOMAIN r.bis : r.bis[k] = e.handle
           g == r.gap \/ (r.heard[k] # 0 /\ e.seq # r.heard[k] + 1)
           h == [r.heard EXCEPT ![k] = e.seq]
<1>1. CASE e.handle \notin Range(r.bis)
  BY <1>1 DEF OnIso
<1>2. CASE e.handle \in Range(r.bis)
  <2>1. k \in DOMAIN r.bis
    BY <1>2 DEF Range
  <2>2. OnIso(r, e) = [r EXCEPT !.heard = h, !.gap = g]
    BY <1>2 DEF OnIso, Sinks
  <2> HIDE DEF k
  <2>3. g \in BOOLEAN /\ e.seq \in Nat
    BY DEF Sinks, Event
  <2>4. h \in Streams
    BY <2>3 DEF Sinks, Streams
  <2> HIDE DEF g, h
  <2> QED BY <2>2, <2>3, <2>4 DEF Sinks
<1> QED BY <1>1, <1>2

\* The receiver on any event.
LEMMA ReceiverOnPacketTyped ==
  ASSUME NEW r \in Sinks, NEW c \in Receiver, NEW e \in Event
  PROVE  ReceiverOnPacket(r, c, e) \in Receptions
<1>1. ASSUME NEW q \in Sinks PROVE [r |-> q, out |-> <<>>] \in Receptions
  BY DEF Receptions
<1>2. CASE e.type = "Complete"
  BY <1>2, ReceiverOnCompleteTyped DEF ReceiverOnPacket
<1>3. CASE e.type = "Status"
  <2>1. ReceiverOnStatus(r, e) \in Sinks
    BY DEF ReceiverOnStatus, Sinks, SinkStates
  <2> QED BY <1>1, <1>3, <2>1 DEF ReceiverOnPacket
<1>4. CASE e.type = "Report"
  <2> DEFINE q == [r EXCEPT !.state = "SyncingToPeriodicAdvertising"]
             x == <<Plain("CreateSync")>>
  <2>1. ReceiverOnPacket(r, c, e) = [r |-> r, out |-> <<>>] \/ ReceiverOnPacket(r, c, e) = [r |-> q, out |-> x]
    BY <1>4 DEF ReceiverOnPacket
  <2>2. q \in Sinks
    BY DEF Sinks, SinkStates
  <2>3. x \in Seq(Command)
    BY PlainTyped DEF Plains
  <2> HIDE DEF q, x
  <2> QED BY <1>1, <2>1, <2>2, <2>3, ReceptionOf
<1>5. CASE e.type = "SyncEstablished"
  <2> DEFINE q == [r EXCEPT !.state = "WaitingForAnnouncement", !.sync = e.sync]
  <2>1. ReceiverOnPacket(r, c, e) = [r |-> r, out |-> <<>>] \/ ReceiverOnPacket(r, c, e) = [r |-> q, out |-> <<>>]
    BY <1>5 DEF ReceiverOnPacket
  <2>2. e.sync \in Nat
    BY <1>5 DEF Event
  <2>3. q \in Sinks
    BY <2>2 DEF Sinks, SinkStates
  <2> HIDE DEF q
  <2> QED BY <1>1, <2>1, <2>3
<1>6. CASE e.type = "Periodic" \/ e.type = "BigInfo"
  BY <1>6, AnnouncedTyped DEF ReceiverOnPacket
<1>7. CASE e.type = "BigSync"
  BY <1>7, OnBigSyncEstablishedTyped DEF ReceiverOnPacket
<1>8. CASE e.type = "BigLost"
  <2>1. [r EXCEPT !.bis = <<>>, !.state = "Lost"] \in Sinks
    BY DEF Sinks, SinkStates
  <2> QED BY <1>1, <1>8, <2>1 DEF ReceiverOnPacket
<1>9. CASE e.type = "Iso"
  BY <1>1, <1>9, OnIsoTyped DEF ReceiverOnPacket
<1>10. CASE e.type \notin {"Complete", "Status", "Report", "SyncEstablished", "Periodic", "BigInfo", "BigSync", "BigLost", "Iso"}
  BY <1>1, <1>10 DEF ReceiverOnPacket
<1> QED BY <1>2, <1>3, <1>4, <1>5, <1>6, <1>7, <1>8, <1>9, <1>10

\* One event of its drain.
LEMMA ReceivedTyped ==
  ASSUME NEW c \in Receiver, NEW d \in Receptions, NEW e \in Event
  PROVE  Received(d, c, e) \in Receptions
<1> DEFINE n == ReceiverOnPacket(d.r, c, e)
<1>1. d.r \in Sinks /\ d.out \in Seq(Command)
  BY DEF Receptions
<1>2. n \in Receptions
  BY <1>1, ReceiverOnPacketTyped
<1>3. Received(d, c, e) = [r |-> n.r, out |-> d.out \o n.out]
  BY DEF Received
<1> HIDE DEF n
<1>4. n.r \in Sinks /\ n.out \in Seq(Command)
  BY <1>2 DEF Receptions
<1>5. d.out \o n.out \in Seq(Command)
  BY <1>1, <1>4
<1> QED BY <1>3, <1>4, <1>5 DEF Receptions

\* Its whole drain.
LEMMA TurnedTyped == ASSUME NEW c \in Receiver, TypeOK PROVE Turned(c) \in Receptions
<1> DEFINE s == evts[c]
           U == [n \in 0 .. Len(s) |-> Receptions]
<1>1. Len(s) \in Nat /\ \A n \in 1 .. Len(s) : s[n] \in Event
  BY DEF TypeOK, Receiver
<1>2. [r |-> sink[c], out |-> <<>>] \in Receptions
  BY DEF Receptions, TypeOK
<1>3. [r |-> sink[c], out |-> <<>>] \in U[0] /\ Len(s) \in 0 .. Len(s)
  BY <1>1, <1>2
<1>4. \A n \in 1 .. Len(s) : n \in 0 .. Len(s) /\ n - 1 \in 0 .. Len(s)
  BY <1>1
<1>5. ASSUME NEW n \in 1 .. Len(s), NEW u \in U[n - 1] PROVE Received(u, c, s[n]) \in U[n]
  BY <1>1, <1>4, ReceivedTyped
<1> HIDE DEF U
<1>6. Turned(c) \in U[Len(s)]
  BY <1>1, <1>3, <1>5, AlongReceived
<1> QED BY <1>3, <1>6 DEF U

\* The page stops the scan once the BIG is joined (transport/wasm_ws.rs).
LEMMA StopScanningTyped == ASSUME NEW d \in Receptions PROVE StopScanning(d) \in Receptions
<1> DEFINE q == [d.r EXCEPT !.stopped = TRUE]
           x == [op |-> "ScanEnable", on |-> FALSE]
<1>1. StopScanning(d) = d \/ StopScanning(d) = [r |-> q, out |-> Append(d.out, x)]
  BY DEF StopScanning
<1>2. d.r \in Sinks /\ d.out \in Seq(Command) /\ x \in Command
  BY DEF Receptions, Command
<1>3. q \in Sinks
  BY <1>2 DEF Sinks
<1> HIDE DEF q, x
<1>4. Append(d.out, x) \in Seq(Command)
  BY <1>2
<1> QED BY <1>1, <1>3, <1>4 DEF Receptions

\* The steps of a receiver keep the types and leave the broadcaster alone.
LEMMA ReceiverTyped ==
  ASSUME TypeOK, NEW c \in Receiver, ReceiverTurn(c) \/ ReceiverStart(c) \/ Leave(c)
  PROVE  TypeOK' /\ source' = source
<1>1. c \in Ctl /\ cmds[c] \in Seq(Command)
  BY DEF Receiver, TypeOK
<1>2. CASE ReceiverTurn(c)
  <2> DEFINE d == StopScanning(Turned(c))
  <2>1. /\ sink' = [sink EXCEPT ![c] = d.r] /\ cmds' = [cmds EXCEPT ![c] = @ \o d.out]
        /\ evts' = [evts EXCEPT ![c] = <<>>] /\ UNCHANGED <<ctl, next, source>>
    BY <1>2 DEF ReceiverTurn
  <2>2. d \in Receptions
    BY TurnedTyped, StopScanningTyped
  <2> HIDE DEF d
  <2>3. d.r \in Sinks /\ d.out \in Seq(Command)
    BY <2>2 DEF Receptions
  <2>4. cmds[c] \o d.out \in Seq(Command)
    BY <1>1, <2>3
  <2>5. sink' \in [Receiver -> Sinks] /\ UNCHANGED <<ctl, next, source>>
    BY <2>1, <2>3 DEF TypeOK
  <2>6. evts' \in [Ctl -> Seq(Event)]
    <3>1. evts' = [evts EXCEPT ![c] = <<>>] /\ <<>> \in Seq(Event)
      BY <2>1
    <3> QED BY <3>1 DEF TypeOK
  <2> DEFINE q == cmds[c] \o d.out
  <2>7. cmds' = [cmds EXCEPT ![c] = q] /\ q \in Seq(Command)
    BY <2>1, <2>4
  <2> HIDE DEF q
  <2>8. cmds' \in [Ctl -> Seq(Command)]
    BY <2>7 DEF TypeOK
  <2> QED BY <2>5, <2>6, <2>8 DEF TypeOK
<1>3. CASE ReceiverStart(c)
  <2>1. /\ sink' = [sink EXCEPT ![c] = [@ EXCEPT !.state = "SettingScanParameters"]]
        /\ cmds' = [cmds EXCEPT ![c] = Append(@, Plain("ScanParameters"))]
        /\ UNCHANGED <<ctl, evts, next, source>>
    BY <1>3 DEF ReceiverStart
  <2>2. [sink[c] EXCEPT !.state = "SettingScanParameters"] \in Sinks
    <3>1. sink[c] \in Sinks
      BY DEF TypeOK
    <3> QED BY <3>1 DEF Sinks, SinkStates
  <2>3. Plain("ScanParameters") \in Command
    BY PlainTyped DEF Plains
  <2>4. Append(cmds[c], Plain("ScanParameters")) \in Seq(Command)
    BY <1>1, <2>3
  <2> QED BY <2>1, <2>2, <2>4 DEF TypeOK
<1>4. CASE Leave(c)
  <2>1. Plain("BigTerminateSync") \in Command
    BY PlainTyped DEF Plains
  <2>2. Append(cmds[c], Plain("BigTerminateSync")) \in Seq(Command)
    BY <1>1, <2>1
  <2> QED BY <1>4, <2>2 DEF TypeOK, Leave
<1> QED BY <1>2, <1>3, <1>4

\* The types hold at the start, and the app was told nothing of an idle broadcaster.
LEMMA InitTyped == ASSUME Init PROVE TypeOK /\ AppInv(source)
<1> DEFINE z == [k \in Bis |-> 0]
<1>1. z \in Streams
  BY DEF Streams
<1>2. Controller \in Keeps
  BY DEF Controller, Keeps
<1>3. BigReceiver = [state |-> "Idle", sync |-> 0, base |-> 0, info |-> "none", bis |-> <<>>, open |-> 0,
                     stopped |-> FALSE, heard |-> z, gap |-> FALSE]
  BY DEF BigReceiver
<1> HIDE DEF z
<1>4. BigReceiver \in Sinks
  BY <1>1, <1>3 DEF Sinks, SinkStates
<1> QED BY <1>2, <1>4, BroadcasterTyped DEF Init, TypeOK

\* Every reachable state is typed: a BIG has all its streams or none, a broadcaster has
\* handles exactly while it opens data paths or streams, and a medium's handle is never 0.
THEOREM TypesTheorem == Spec => []TypeOK
<1>1. Init => TypeOK
  BY InitTyped
<1>2. TypeOK /\ [Next]_vars => TypeOK'
  <2> SUFFICES ASSUME TypeOK, [Next]_vars PROVE TypeOK'
    OBVIOUS
  <2>1. CASE UNCHANGED vars
    BY <2>1 DEF vars, TypeOK
  <2> QED BY <2>1, TickTyped, SourceTurnTyped, AudioTyped, ReceiverTyped DEF Next
<1> QED BY <1>1, <1>2, PTL DEF Spec

\* What the app knows, with the types it rests on.
Informed == TypeOK /\ AppInv(source)

\* What the script was told by callbacks is what its broadcast is
\* (scripting/broadcast.rs, observe_transitions), for a script that does not start again
\* before it was told of the end: callbacks compare with the state last seen, and a start
\* in between makes them miss it.
THEOREM AppInformedTheorem == ASSUME ~RestartUnseen PROVE Spec => []AppInformed
<1>1. Init => Informed
  BY InitTyped DEF Informed
<1>2. Informed /\ [Next]_vars => Informed'
  <2> SUFFICES ASSUME TypeOK, AppInv(source), [Next]_vars PROVE TypeOK' /\ AppInv(source')
    BY DEF Informed
  <2>1. CASE Tick
    BY <2>1, TickTyped DEF Tick, AppInv
  <2>2. ASSUME NEW call \in Calls, SourceTurn(call) PROVE TypeOK' /\ AppInv(source')
    BY <2>2, SourceTurnTyped, SourceTurnInformed
  <2>3. ASSUME NEW k \in Bis, Audio(k) PROVE TypeOK' /\ AppInv(source')
    BY <2>3, AudioTyped
  <2>4. ASSUME NEW c \in Receiver, ReceiverTurn(c) \/ ReceiverStart(c) \/ Leave(c) PROVE TypeOK' /\ AppInv(source')
    BY <2>4, ReceiverTyped
  <2>5. CASE UNCHANGED vars
    BY <2>5 DEF vars, TypeOK, AppInv
  <2> QED BY <2>1, <2>2, <2>3, <2>4, <2>5 DEF Next
<1>3. Informed => AppInformed
  BY DEF Informed, AppInv, AppInformed
<1> QED BY <1>1, <1>2, <1>3, PTL DEF Spec

\* Positions of a queue: what was asked of the controller after the first o commands,
\* what it deferred after the first a, what it told its host after the first e events.
Asks(p, o, op) == {i \in DOMAIN p : i > o /\ p[i].op = op}
Deferral(x, c) == x.from = c /\ x.cmd.op = "BigCreateSync"
Deferrals(q, a, c) == {i \in DOMAIN q : i > a /\ Deferral(q[i], c)}
Admits(x) == x.type = "BigSync" /\ x.ok
Answering(x) == x.type = "BigSync" \/ (x.type = "Status" /\ x.op = "BigCreateSync" /\ ~x.ok)
Losing(x) == x.type = "BigLost" \/ (x.type = "Complete" /\ x.op = "BigTerminateSync" /\ x.ok)
Tracking(x) == x.type \in {"SyncEstablished", "Periodic"}
Reporting(x) == x.type = "Periodic"
Answers(ev, e) == {i \in DOMAIN ev : i > e /\ Answering(ev[i])}
Losses(ev, e) == {i \in DOMAIN ev : i > e /\ Losing(ev[i])}
Tracks(ev, e) == {i \in DOMAIN ev : i > e /\ Tracking(ev[i])}
Reports(ev, e) == {i \in DOMAIN ev : i > e /\ Reporting(ev[i])}
AtMostOne(S) == \A i, j \in S : i = j

\* A receiver and its controller on the way into a BIG and out of it.  K, D, A, L: the
\* positions of its requests, of the ones deferred, of answers and of losses.
Member(r, joined, ev, K, D, A, L) ==
  /\ K # {} => r.state = "SyncingToBig" /\ joined = <<>> /\ AtMostOne(K) /\ D = {} /\ A = {} /\ L = {}
  /\ D # {} => r.state = "SyncingToBig" /\ joined = <<>> /\ AtMostOne(D) /\ A = {} /\ L = {}
  /\ \A i \in A :
       /\ r.state = "SyncingToBig" /\ A = {i} /\ \A j \in L : i < j
       /\ IF Admits(ev[i])
          THEN (joined = ev[i].bis /\ L = {}) \/ (joined = <<>> /\ L # {})
          ELSE joined = <<>> /\ L = {}
  /\ L # {} => joined = <<>> /\ AtMostOne(L) /\ (r.bis # <<>> \/ A # {})
  /\ A = {} /\ L = {} => joined = r.bis
  /\ r.bis # <<>> <=> r.state \in {"OpeningDataPaths", "Receiving"}

\* Its synchronization to the train: asked for once, and then on its way or there.
Synced(r, k, ev, K, T, train) ==
  /\ K # {} \/ k.wanted \/ k.sync # 0 => r.state \notin {"Idle", "SettingScanParameters", "Scanning"}
  /\ AtMostOne(K) /\ (K # {} => ~k.wanted /\ k.sync = 0)
  /\ k.wanted => k.sync = 0
  /\ \A i \in T : ev[i].sync = k.sync /\ k.sync # 0
  /\ r.sync \in {0, k.sync} /\ (r.base # 0 => r.sync # 0)
  /\ k.sync # 0 => train

\* The BASE it knows: the last report on its way is the newest.
Based(r, ev, R, base) ==
  /\ R = {} => r.base \in {0, base}
  /\ \A i \in R : (\A j \in R : j <= i) => ev[i].base = base
  /\ base = 0 => r.base = 0 /\ R = {}

\* A receiver while the medium m ticks: o of its commands executed, a of the deferred ones.
Good(m, o, a, c) ==
  /\ Member(sink[c], m.ctl[c].joined, m.evts[c], Asks(cmds[c], o, "BigCreateSync"), Deferrals(m.acts, a, c),
            Answers(m.evts[c], 0), Losses(m.evts[c], 0))
  /\ Synced(sink[c], m.ctl[c], m.evts[c], Asks(cmds[c], o, "CreateSync"), Tracks(m.evts[c], 0), m.ctl[Src].train)
  /\ m.ctl[Src].base = 0 => sink[c].base = 0 /\ Reports(m.evts[c], 0) = {}
  /\ m.ctl[c].joined # <<>> => m.ctl[Src].big # <<>>

\* A receiver r, its controller k and the source's: e events taken, K and S asked for.
Settled(r, k, src, ev, e, K, S) ==
  /\ Member(r, k.joined, ev, K, {}, Answers(ev, e), Losses(ev, e))
  /\ Synced(r, k, ev, S, Tracks(ev, e), src.train)
  /\ Based(r, ev, Reports(ev, e), src.base)
  /\ k.joined # <<>> => src.big # <<>>

ToldInv ==
  \A c \in Receiver :
    Settled(sink[c], ctl[c], ctl[Src], evts[c], 0, Asks(cmds[c], 0, "BigCreateSync"), Asks(cmds[c], 0, "CreateSync"))

\* After more events, the positions of each kind are the old ones and those of the new.
LEMMA EventsAfter ==
  ASSUME NEW ev \in Seq(Event), NEW t \in Seq(Event)
  PROVE  /\ Answers(ev \o t, 0) = Answers(ev, 0) \cup {i \in DOMAIN (ev \o t) : i - Len(ev) \in Answers(t, 0)}
         /\ Losses(ev \o t, 0) = Losses(ev, 0) \cup {i \in DOMAIN (ev \o t) : i - Len(ev) \in Losses(t, 0)}
         /\ Tracks(ev \o t, 0) = Tracks(ev, 0) \cup {i \in DOMAIN (ev \o t) : i - Len(ev) \in Tracks(t, 0)}
         /\ Reports(ev \o t, 0) = Reports(ev, 0) \cup {i \in DOMAIN (ev \o t) : i - Len(ev) \in Reports(t, 0)}
         /\ \A i \in DOMAIN ev : (ev \o t)[i] = ev[i]
         /\ \A i \in DOMAIN (ev \o t) : i - Len(ev) \in DOMAIN t => (ev \o t)[i] = t[i - Len(ev)]
<1> DEFINE w == ev \o t
<1>1. /\ DOMAIN ev = 1 .. Len(ev) /\ DOMAIN t = 1 .. Len(t) /\ DOMAIN w = 1 .. Len(ev) + Len(t)
      /\ Len(ev) \in Nat /\ Len(t) \in Nat
  OBVIOUS
<1>2. \A i \in DOMAIN w : i \in DOMAIN ev \/ (i \notin DOMAIN ev /\ i - Len(ev) \in DOMAIN t)
  BY <1>1
<1>3. \A i \in DOMAIN ev : w[i] = ev[i] /\ i \in DOMAIN w /\ i > 0 /\ i - Len(ev) \notin DOMAIN t
  BY <1>1
<1>4. \A i \in DOMAIN w : i - Len(ev) \in DOMAIN t => w[i] = t[i - Len(ev)] /\ i > 0 /\ i - Len(ev) > 0
  BY <1>1
<1> HIDE DEF w
<1>5. Answers(w, 0) = Answers(ev, 0) \cup {i \in DOMAIN w : i - Len(ev) \in Answers(t, 0)}
  BY <1>2, <1>3, <1>4 DEF Answers
<1>6. Losses(w, 0) = Losses(ev, 0) \cup {i \in DOMAIN w : i - Len(ev) \in Losses(t, 0)}
  BY <1>2, <1>3, <1>4 DEF Losses
<1>7. Tracks(w, 0) = Tracks(ev, 0) \cup {i \in DOMAIN w : i - Len(ev) \in Tracks(t, 0)}
  BY <1>2, <1>3, <1>4 DEF Tracks
<1>8. Reports(w, 0) = Reports(ev, 0) \cup {i \in DOMAIN w : i - Len(ev) \in Reports(t, 0)}
  BY <1>2, <1>3, <1>4 DEF Reports
<1> QED BY <1>3, <1>4, <1>5, <1>6, <1>7, <1>8 DEF w

\* One event more.
LEMMA EventAfter ==
  ASSUME NEW ev \in Seq(Event), NEW x \in Event
  PROVE  /\ Answers(Append(ev, x), 0) = Answers(ev, 0) \cup (IF Answering(x) THEN {Len(ev) + 1} ELSE {})
         /\ Losses(Append(ev, x), 0) = Losses(ev, 0) \cup (IF Losing(x) THEN {Len(ev) + 1} ELSE {})
         /\ Tracks(Append(ev, x), 0) = Tracks(ev, 0) \cup (IF Tracking(x) THEN {Len(ev) + 1} ELSE {})
         /\ Reports(Append(ev, x), 0) = Reports(ev, 0) \cup (IF Reporting(x) THEN {Len(ev) + 1} ELSE {})
         /\ \A i \in DOMAIN ev : Append(ev, x)[i] = ev[i]
         /\ Append(ev, x)[Len(ev) + 1] = x
         /\ \A i \in DOMAIN ev : i \in Nat /\ i <= Len(ev)
         /\ Len(ev) \in Nat
<1> DEFINE w == Append(ev, x)
           l == Len(ev) + 1
<1>1. /\ DOMAIN w = DOMAIN ev \cup {l} /\ l \notin DOMAIN ev /\ w[l] = x /\ l > 0
      /\ \A i \in DOMAIN ev : w[i] = ev[i] /\ i > 0 /\ i \in Nat /\ i <= Len(ev)
      /\ Len(ev) \in Nat
  OBVIOUS
<1> HIDE DEF w, l
<1>2. Answers(w, 0) = Answers(ev, 0) \cup (IF Answering(x) THEN {l} ELSE {})
  BY <1>1 DEF Answers
<1>3. Losses(w, 0) = Losses(ev, 0) \cup (IF Losing(x) THEN {l} ELSE {})
  BY <1>1 DEF Losses
<1>4. Tracks(w, 0) = Tracks(ev, 0) \cup (IF Tracking(x) THEN {l} ELSE {})
  BY <1>1 DEF Tracks
<1>5. Reports(w, 0) = Reports(ev, 0) \cup (IF Reporting(x) THEN {l} ELSE {})
  BY <1>1 DEF Reports
<1> QED BY <1>1, <1>2, <1>3, <1>4, <1>5 DEF w, l

\* One event less.
LEMMA EventTaken ==
  ASSUME NEW ev \in Seq(Event), NEW n \in DOMAIN ev
  PROVE  /\ Answers(ev, n - 1) = Answers(ev, n) \cup (IF Answering(ev[n]) THEN {n} ELSE {})
         /\ Losses(ev, n - 1) = Losses(ev, n) \cup (IF Losing(ev[n]) THEN {n} ELSE {})
         /\ Tracks(ev, n - 1) = Tracks(ev, n) \cup (IF Tracking(ev[n]) THEN {n} ELSE {})
         /\ Reports(ev, n - 1) = Reports(ev, n) \cup (IF Reporting(ev[n]) THEN {n} ELSE {})
         /\ \A i \in DOMAIN ev : i \in Nat
         /\ \A i \in DOMAIN ev : i > n => i # n /\ ~(i <= n) /\ n < i /\ n <= i
<1>1. \A i \in DOMAIN ev : i \in Nat /\ (i > n - 1 <=> i > n \/ i = n) /\ ~(n > n) /\ (i > n => i # n /\ ~(i <= n) /\ n < i /\ n <= i)
  OBVIOUS
<1>2. Answers(ev, n - 1) = Answers(ev, n) \cup (IF Answering(ev[n]) THEN {n} ELSE {})
  BY <1>1 DEF Answers
<1>3. Losses(ev, n - 1) = Losses(ev, n) \cup (IF Losing(ev[n]) THEN {n} ELSE {})
  BY <1>1 DEF Losses
<1>4. Tracks(ev, n - 1) = Tracks(ev, n) \cup (IF Tracking(ev[n]) THEN {n} ELSE {})
  BY <1>1 DEF Tracks
<1>5. Reports(ev, n - 1) = Reports(ev, n) \cup (IF Reporting(ev[n]) THEN {n} ELSE {})
  BY <1>1 DEF Reports
<1> QED BY <1>1, <1>2, <1>3, <1>4, <1>5

\* No event left.
LEMMA EventsTaken ==
  ASSUME NEW ev \in Seq(Event)
  PROVE  /\ Answers(ev, Len(ev)) = {} /\ Losses(ev, Len(ev)) = {} /\ Tracks(ev, Len(ev)) = {} /\ Reports(ev, Len(ev)) = {}
         /\ Answers(<<>>, 0) = {} /\ Losses(<<>>, 0) = {} /\ Tracks(<<>>, 0) = {} /\ Reports(<<>>, 0) = {}
<1>1. \A i \in DOMAIN ev : ~(i > Len(ev))
  OBVIOUS
<1>2. DOMAIN <<>> = {}
  OBVIOUS
<1> QED BY <1>1, <1>2 DEF Answers, Losses, Tracks, Reports

\* One command executed, and all of them.
LEMMA CommandTaken ==
  ASSUME NEW p \in Seq(Command), NEW n \in DOMAIN p, NEW op
  PROVE  /\ Asks(p, n - 1, op) = Asks(p, n, op) \cup (IF p[n].op = op THEN {n} ELSE {})
         /\ n \notin Asks(p, n, op)
<1>1. \A i \in DOMAIN p : i \in Nat /\ (i > n - 1 <=> i > n \/ i = n) /\ ~(n > n)
  OBVIOUS
<1> QED BY <1>1 DEF Asks

\* With all commands executed nothing is asked for.
LEMMA CommandsTaken ==
  ASSUME NEW p \in Seq(Command), NEW op
  PROVE  Asks(p, Len(p), op) = {} /\ Asks(<<>>, 0, op) = {}
<1>1. \A i \in DOMAIN p : ~(i > Len(p))
  OBVIOUS
<1>2. DOMAIN <<>> = {}
  OBVIOUS
<1> QED BY <1>1, <1>2 DEF Asks

\* Commands added.
LEMMA CommandsAfter ==
  ASSUME NEW p \in Seq(Command), NEW t \in Seq(Command), NEW op
  PROVE  Asks(p \o t, 0, op) = Asks(p, 0, op) \cup {i \in DOMAIN (p \o t) : i - Len(p) \in Asks(t, 0, op)}
<1> DEFINE w == p \o t
<1>1. /\ DOMAIN p = 1 .. Len(p) /\ DOMAIN t = 1 .. Len(t) /\ DOMAIN w = 1 .. Len(p) + Len(t)
      /\ Len(p) \in Nat /\ Len(t) \in Nat
  OBVIOUS
<1>2. \A i \in DOMAIN w : i \in DOMAIN p \/ (i \notin DOMAIN p /\ i - Len(p) \in DOMAIN t)
  BY <1>1
<1>3. \A i \in DOMAIN p : w[i] = p[i] /\ i \in DOMAIN w /\ i > 0 /\ i - Len(p) \notin DOMAIN t
  BY <1>1
<1>4. \A i \in DOMAIN w : i - Len(p) \in DOMAIN t => w[i] = t[i - Len(p)] /\ i > 0 /\ i - Len(p) > 0
  BY <1>1
<1> HIDE DEF w
<1>5. Asks(w, 0, op) = Asks(p, 0, op) \cup {i \in DOMAIN w : i - Len(p) \in Asks(t, 0, op)}
  BY <1>2, <1>3, <1>4 DEF Asks
<1> QED BY <1>5 DEF w

\* One command more.
LEMMA CommandAfter ==
  ASSUME NEW p \in Seq(Command), NEW x \in Command, NEW op
  PROVE  Asks(Append(p, x), 0, op) = Asks(p, 0, op) \cup (IF x.op = op THEN {Len(p) + 1} ELSE {})
<1> DEFINE w == Append(p, x)
           l == Len(p) + 1
<1>1. /\ DOMAIN w = DOMAIN p \cup {l} /\ w[l] = x /\ l > 0
      /\ \A i \in DOMAIN p : w[i] = p[i] /\ i > 0 /\ i # l
  OBVIOUS
<1> HIDE DEF w, l
<1> QED BY <1>1 DEF Asks, w, l

\* A command deferred, routed, and all of them routed.
LEMMA DeferralAfter ==
  ASSUME NEW q \in Seq(Act), NEW x \in Act, NEW c
  PROVE  Deferrals(Append(q, x), 0, c) = Deferrals(q, 0, c) \cup (IF Deferral(x, c) THEN {Len(q) + 1} ELSE {})
<1> DEFINE w == Append(q, x)
           l == Len(q) + 1
<1>1. /\ DOMAIN w = DOMAIN q \cup {l} /\ w[l] = x /\ l > 0
      /\ \A i \in DOMAIN q : w[i] = q[i] /\ i > 0 /\ i # l
  OBVIOUS
<1> HIDE DEF w, l
<1>2. Deferrals(w, 0, c) = Deferrals(q, 0, c) \cup (IF Deferral(x, c) THEN {l} ELSE {})
  BY <1>1 DEF Deferrals
<1> QED BY <1>2 DEF w, l

\* One deferred command routed.
LEMMA DeferralTaken ==
  ASSUME NEW q \in Seq(Act), NEW n \in DOMAIN q, NEW c
  PROVE  /\ Deferrals(q, n - 1, c) = Deferrals(q, n, c) \cup (IF Deferral(q[n], c) THEN {n} ELSE {})
         /\ n \notin Deferrals(q, n, c)
<1>1. \A i \in DOMAIN q : i \in Nat /\ (i > n - 1 <=> i > n \/ i = n) /\ ~(n > n)
  OBVIOUS
<1> QED BY <1>1 DEF Deferrals

\* With all of them routed nothing is deferred.
LEMMA DeferralsTaken ==
  ASSUME NEW q \in Seq(Act), NEW c
  PROVE  Deferrals(q, Len(q), c) = {} /\ Deferrals(<<>>, 0, c) = {}
<1>1. \A i \in DOMAIN q : ~(i > Len(q))
  OBVIOUS
<1>2. DOMAIN <<>> = {}
  OBVIOUS
<1> QED BY <1>1, <1>2 DEF Deferrals

\* What does not concern a receiver leaves it as it is.
LEMMA GoodKept ==
  ASSUME NEW c \in Receiver, NEW m \in Medium, NEW n \in Medium, NEW t \in Seq(Event),
         NEW o, NEW o2, NEW a, NEW a2, Good(m, o, a, c),
         n.evts[c] = m.evts[c] \o t, Answers(t, 0) = {}, Losses(t, 0) = {}, Tracks(t, 0) = {},
         n.ctl[c].joined = m.ctl[c].joined, n.ctl[c].wanted = m.ctl[c].wanted, n.ctl[c].sync = m.ctl[c].sync,
         Asks(cmds[c], o2, "BigCreateSync") = Asks(cmds[c], o, "BigCreateSync"),
         Asks(cmds[c], o2, "CreateSync") = Asks(cmds[c], o, "CreateSync"),
         Deferrals(n.acts, a2, c) = Deferrals(m.acts, a, c),
         m.ctl[Src].train => n.ctl[Src].train, n.ctl[Src].base = 0 => m.ctl[Src].base = 0,
         m.ctl[Src].big # <<>> => n.ctl[Src].big # <<>>
  PROVE  Good(n, o2, a2, c)
<1> DEFINE ev == m.evts[c]
           w == n.evts[c]
<1>1. ev \in Seq(Event)
  BY DEF Medium, Receiver
<1>2. Reports(t, 0) = {}
  BY DEF Reports, Tracks, Tracking, Reporting
<1>3. Answers(w, 0) = Answers(ev, 0) /\ Losses(w, 0) = Losses(ev, 0) /\ Tracks(w, 0) = Tracks(ev, 0)
      /\ Reports(w, 0) = Reports(ev, 0) /\ \A i \in DOMAIN ev : w[i] = ev[i]
  <2>1. /\ Answers(ev \o t, 0) = Answers(ev, 0) \cup {i \in DOMAIN (ev \o t) : i - Len(ev) \in Answers(t, 0)}
        /\ Losses(ev \o t, 0) = Losses(ev, 0) \cup {i \in DOMAIN (ev \o t) : i - Len(ev) \in Losses(t, 0)}
        /\ Tracks(ev \o t, 0) = Tracks(ev, 0) \cup {i \in DOMAIN (ev \o t) : i - Len(ev) \in Tracks(t, 0)}
        /\ Reports(ev \o t, 0) = Reports(ev, 0) \cup {i \in DOMAIN (ev \o t) : i - Len(ev) \in Reports(t, 0)}
        /\ \A i \in DOMAIN ev : (ev \o t)[i] = ev[i]
    BY <1>1, EventsAfter
  <2>2. w = ev \o t
    OBVIOUS
  <2> HIDE DEF ev, w
  <2> QED BY <1>2, <2>1, <2>2
<1>4. Answers(ev, 0) \subseteq DOMAIN ev /\ Tracks(ev, 0) \subseteq DOMAIN ev
  BY DEF Answers, Tracks
<1> HIDE DEF ev, w
<1>5. \A i \in Answers(ev, 0) \cup Tracks(ev, 0) : w[i] = ev[i]
  BY <1>3, <1>4
<1>6. Member(sink[c], n.ctl[c].joined, w, Asks(cmds[c], o2, "BigCreateSync"), Deferrals(n.acts, a2, c),
             Answers(w, 0), Losses(w, 0))
  <2>1. Member(sink[c], m.ctl[c].joined, ev, Asks(cmds[c], o, "BigCreateSync"), Deferrals(m.acts, a, c),
               Answers(ev, 0), Losses(ev, 0))
    BY DEF Good, ev
  <2> QED BY <1>3, <1>5, <2>1 DEF Member
<1>7. Synced(sink[c], n.ctl[c], w, Asks(cmds[c], o2, "CreateSync"), Tracks(w, 0), n.ctl[Src].train)
  <2>1. Synced(sink[c], m.ctl[c], ev, Asks(cmds[c], o, "CreateSync"), Tracks(ev, 0), m.ctl[Src].train)
    BY DEF Good, ev
  <2> QED BY <1>3, <1>5, <2>1 DEF Synced
<1> QED BY <1>3, <1>6, <1>7 DEF Good, ev, w

\* The same, with one event or none.
LEMMA GoodAfter ==
  ASSUME NEW c \in Receiver, NEW m \in Medium, NEW n \in Medium,
         NEW o, NEW o2, NEW a, NEW a2, Good(m, o, a, c),
         \/ n.evts[c] = m.evts[c]
         \/ \E e \in Event : n.evts[c] = Append(m.evts[c], e) /\ ~Answering(e) /\ ~Losing(e) /\ ~Tracking(e),
         n.ctl[c].joined = m.ctl[c].joined, n.ctl[c].wanted = m.ctl[c].wanted, n.ctl[c].sync = m.ctl[c].sync,
         Asks(cmds[c], o2, "BigCreateSync") = Asks(cmds[c], o, "BigCreateSync"),
         Asks(cmds[c], o2, "CreateSync") = Asks(cmds[c], o, "CreateSync"),
         Deferrals(n.acts, a2, c) = Deferrals(m.acts, a, c),
         m.ctl[Src].train => n.ctl[Src].train, n.ctl[Src].base = 0 => m.ctl[Src].base = 0,
         m.ctl[Src].big # <<>> => n.ctl[Src].big # <<>>
  PROVE  Good(n, o2, a2, c)
<1>1. m.evts[c] \in Seq(Event)
  BY DEF Medium, Receiver
<1>2. CASE n.evts[c] = m.evts[c]
  <2>1. n.evts[c] = m.evts[c] \o <<>> /\ <<>> \in Seq(Event)
    BY <1>1, <1>2
  <2>2. Answers(<<>>, 0) = {} /\ Losses(<<>>, 0) = {} /\ Tracks(<<>>, 0) = {}
    BY <2>1, EventsTaken
  <2> QED BY <2>1, <2>2, GoodKept
<1>3. CASE \E e \in Event : n.evts[c] = Append(m.evts[c], e) /\ ~Answering(e) /\ ~Losing(e) /\ ~Tracking(e)
  <2>1. PICK e \in Event : n.evts[c] = Append(m.evts[c], e) /\ ~Answering(e) /\ ~Losing(e) /\ ~Tracking(e)
    BY <1>3
  <2> DEFINE t == <<e>>
  <2>2. n.evts[c] = m.evts[c] \o t /\ t \in Seq(Event)
    BY <1>1, <2>1
  <2>3. DOMAIN t = {1} /\ t[1] = e
    OBVIOUS
  <2> HIDE DEF t
  <2>4. Answers(t, 0) = {} /\ Losses(t, 0) = {} /\ Tracks(t, 0) = {}
    BY <2>1, <2>3 DEF Answers, Losses, Tracks
  <2> QED BY <2>2, <2>4, GoodKept
<1> QED BY <1>2, <1>3

\* Telling one host an event changes its queue and nothing else.
LEMMA TellDoes ==
  ASSUME NEW m \in Medium, NEW c \in Ctl, NEW e \in Event
  PROVE  /\ Tell(m, c, e).ctl = m.ctl /\ Tell(m, c, e).acts = m.acts /\ Tell(m, c, e).next = m.next
         /\ Tell(m, c, e).evts = [m.evts EXCEPT ![c] = Append(@, e)]
BY DEF Tell, Medium

\* Telling all of them some changes their queues and nothing else.
LEMMA TellsDoes ==
  ASSUME NEW m \in Medium, NEW news
  PROVE  /\ Tells(m, news).ctl = m.ctl /\ Tells(m, news).acts = m.acts /\ Tells(m, news).next = m.next
         /\ \A c \in Ctl : Tells(m, news).evts[c] = m.evts[c] \o news[c]
BY DEF Tells, Medium

\* What a command does to the controller it is for, what it tells and what it defers.
CommandDone(m, n, x, cmd, K) ==
  /\ n.ctl = [m.ctl EXCEPT ![x] = K] /\ \A d \in Ctl \ {x} : n.evts[d] = m.evts[d]
  /\ K.big = m.ctl[x].big /\ K.sync = m.ctl[x].sync
  /\ m.ctl[x].train => K.train
  /\ K.base = 0 => m.ctl[x].base = 0
  /\ IF cmd.op = "BigTerminateSync" THEN K.joined = <<>> ELSE K.joined = m.ctl[x].joined
  /\ IF cmd.op = "CreateSync" THEN K.wanted ELSE K.wanted = m.ctl[x].wanted
  /\ \/ n.evts[x] = m.evts[x] /\ cmd.op = "Iso"
     \/ \E e \in Event : /\ n.evts[x] = Append(m.evts[x], e)
                         /\ Answering(e) <=> (cmd.op = "BigCreateSync" /\ n.acts = m.acts)
                         /\ Losing(e) <=> (cmd.op = "BigTerminateSync" /\ m.ctl[x].joined # <<>>)
                         /\ ~Tracking(e) /\ ~Admits(e)
  /\ n.acts = m.acts \/ (n.acts = Append(m.acts, [from |-> x, cmd |-> cmd]) /\ cmd \in Routable)

\* A command that is answered at once does what CommandDone says.
LEMMA AnswerDone ==
  ASSUME NEW m \in Medium, NEW k \in Medium, NEW x \in Ctl, NEW cmd \in Command, NEW K, NEW ok \in BOOLEAN, NEW n,
         k.ctl = [m.ctl EXCEPT ![x] = K], k.evts = m.evts, k.acts = m.acts,
         K.big = m.ctl[x].big, K.sync = m.ctl[x].sync, m.ctl[x].train => K.train, K.base = 0 => m.ctl[x].base = 0,
         IF cmd.op = "BigTerminateSync" THEN K.joined = <<>> ELSE K.joined = m.ctl[x].joined,
         IF cmd.op = "CreateSync" THEN K.wanted ELSE K.wanted = m.ctl[x].wanted,
         \/ n = Complete(k, x, cmd.op, ok) /\ cmd.op # "BigCreateSync" /\ (cmd.op = "BigTerminateSync" => ok = (m.ctl[x].joined # <<>>))
         \/ n = Status(k, x, cmd.op, ok) /\ cmd.op # "BigTerminateSync" /\ (cmd.op = "BigCreateSync" => ~ok)
  PROVE  CommandDone(m, n, x, cmd, K)
<1>0. ASSUME NEW e \in Event
      PROVE  /\ Tell(k, x, e).ctl = k.ctl /\ Tell(k, x, e).acts = k.acts
             /\ Tell(k, x, e).evts = [k.evts EXCEPT ![x] = Append(m.evts[x], e)]
  BY TellDoes
<1> DEFINE e1 == [type |-> "Complete", op |-> cmd.op, ok |-> ok]
           e2 == [type |-> "Status", op |-> cmd.op, ok |-> ok]
<1>1. e1 \in Event /\ e2 \in Event
  BY DEF Event, Command, Ops
<1>2. CASE n = Complete(k, x, cmd.op, ok) /\ cmd.op # "BigCreateSync" /\ (cmd.op = "BigTerminateSync" => ok = (m.ctl[x].joined # <<>>))
  <2>1. ~Answering(e1) /\ (Losing(e1) <=> cmd.op = "BigTerminateSync" /\ m.ctl[x].joined # <<>>) /\ ~Tracking(e1) /\ ~Admits(e1)
    BY <1>2 DEF Answering, Losing, Tracking, Admits
  <2>2. n = Tell(k, x, e1)
    BY <1>2 DEF Complete
  <2> HIDE DEF e1
  <2>3. n.ctl = k.ctl /\ n.acts = k.acts /\ n.evts = [k.evts EXCEPT ![x] = Append(m.evts[x], e1)]
    BY <1>0, <1>1, <2>2
  <2>4. n.evts[x] = Append(m.evts[x], e1) /\ \A d \in Ctl \ {x} : n.evts[d] = m.evts[d]
    BY <2>3 DEF Medium
  <2> QED BY <1>1, <1>2, <2>1, <2>3, <2>4 DEF CommandDone
<1>3. CASE n = Status(k, x, cmd.op, ok) /\ cmd.op # "BigTerminateSync" /\ (cmd.op = "BigCreateSync" => ~ok)
  <2>1. (Answering(e2) <=> cmd.op = "BigCreateSync") /\ ~Losing(e2) /\ ~Tracking(e2) /\ ~Admits(e2)
    BY <1>3 DEF Answering, Losing, Tracking, Admits
  <2>2. n = Tell(k, x, e2)
    BY <1>3 DEF Status
  <2> HIDE DEF e2
  <2>3. n.ctl = k.ctl /\ n.acts = k.acts /\ n.evts = [k.evts EXCEPT ![x] = Append(m.evts[x], e2)]
    BY <1>0, <1>1, <2>2
  <2>4. n.evts[x] = Append(m.evts[x], e2) /\ \A d \in Ctl \ {x} : n.evts[d] = m.evts[d]
    BY <2>3 DEF Medium
  <2> QED BY <1>1, <1>3, <2>1, <2>3, <2>4 DEF CommandDone
<1> QED BY <1>2, <1>3

\* Every command does what CommandDone says (controller/sim.rs, phase A).
LEMMA HandleCommandDone ==
  ASSUME NEW m \in Medium, NEW x \in Ctl, NEW cmd \in Command
  PROVE  \E K \in Keeps : CommandDone(m, HandleCommand(m, x, cmd), x, cmd, K)
<1> DEFINE n == HandleCommand(m, x, cmd)
           Kept(K) == [m EXCEPT !.ctl[x] = K]
           k == m.ctl[x]
<1>1. k \in Keeps /\ cmd.op \in Ops
  BY DEF Medium, Command, Ops
<1>2. ASSUME NEW K \in Keeps
      PROVE  Kept(K) \in Medium /\ Kept(K).ctl = [m.ctl EXCEPT ![x] = K] /\ Kept(K).evts = m.evts /\ Kept(K).acts = m.acts
  BY DEF Medium
<1>3. CASE cmd.op = "PeriodicData"
  <2> DEFINE K == [k EXCEPT !.base = cmd.base]
  <2>1. cmd.base \in Nat \ {0}
    BY <1>3 DEF Command, Plains
  <2>2. K \in Keeps /\ K.base # 0 /\ K.big = k.big /\ K.sync = k.sync /\ K.train = k.train /\ K.joined = k.joined /\ K.wanted = k.wanted
    BY <1>1, <2>1 DEF Keeps
  <2>3. n = Complete([m EXCEPT !.ctl[x].base = cmd.base], x, cmd.op, TRUE)
    BY <1>3 DEF HandleCommand
  <2>4. [m EXCEPT !.ctl[x].base = cmd.base] = Kept(K)
    BY DEF Medium
  <2> HIDE DEF Kept, K, n, k
  <2>8. Kept(K) \in Medium /\ Kept(K).ctl = [m.ctl EXCEPT ![x] = K] /\ Kept(K).evts = m.evts /\ Kept(K).acts = m.acts
    BY <1>2, <2>2
  <2>5. CommandDone(m, n, x, cmd, K)
    BY <2>8, <1>3, <2>2, <2>3, <2>4, AnswerDone DEF k
  <2> QED BY <2>2, <2>5 DEF n
<1>4. CASE cmd.op = "Enable"
  <2> DEFINE K == [k EXCEPT !.on = TRUE]
  <2>1. K \in Keeps /\ K.base = k.base /\ K.big = k.big /\ K.sync = k.sync /\ K.train = k.train /\ K.joined = k.joined /\ K.wanted = k.wanted
    BY <1>1 DEF Keeps
  <2>2. n = Complete([m EXCEPT !.ctl[x].on = TRUE], x, cmd.op, TRUE)
    BY <1>4 DEF HandleCommand
  <2>3. [m EXCEPT !.ctl[x].on = TRUE] = Kept(K)
    BY DEF Medium
  <2> HIDE DEF Kept, K, n, k
  <2>8. Kept(K) \in Medium /\ Kept(K).ctl = [m.ctl EXCEPT ![x] = K] /\ Kept(K).evts = m.evts /\ Kept(K).acts = m.acts
    BY <1>2, <2>1
  <2>4. CommandDone(m, n, x, cmd, K)
    BY <2>8, <1>4, <2>1, <2>2, <2>3, AnswerDone DEF k
  <2> QED BY <2>1, <2>4 DEF n
<1>5. CASE cmd.op = "PeriodicEnable"
  <2> DEFINE K == [k EXCEPT !.train = TRUE]
  <2>1. K \in Keeps /\ K.base = k.base /\ K.big = k.big /\ K.sync = k.sync /\ K.train /\ K.joined = k.joined /\ K.wanted = k.wanted
    BY <1>1 DEF Keeps
  <2>2. n = Complete([m EXCEPT !.ctl[x].train = TRUE], x, cmd.op, TRUE)
    BY <1>5 DEF HandleCommand
  <2>3. [m EXCEPT !.ctl[x].train = TRUE] = Kept(K)
    BY DEF Medium
  <2> HIDE DEF Kept, K, n, k
  <2>8. Kept(K) \in Medium /\ Kept(K).ctl = [m.ctl EXCEPT ![x] = K] /\ Kept(K).evts = m.evts /\ Kept(K).acts = m.acts
    BY <1>2, <2>1
  <2>4. CommandDone(m, n, x, cmd, K)
    BY <2>8, <1>5, <2>1, <2>2, <2>3, AnswerDone DEF k
  <2> QED BY <2>1, <2>4 DEF n
<1>6. CASE cmd.op = "ScanEnable"
  <2> DEFINE K == [k EXCEPT !.scanning = cmd.on]
  <2>0. cmd.on \in BOOLEAN
    BY <1>6 DEF Command, Plains
  <2>1. K \in Keeps /\ K.base = k.base /\ K.big = k.big /\ K.sync = k.sync /\ K.train = k.train /\ K.joined = k.joined /\ K.wanted = k.wanted
    BY <1>1, <2>0 DEF Keeps
  <2>2. n = Complete([m EXCEPT !.ctl[x].scanning = cmd.on], x, cmd.op, TRUE)
    BY <1>6 DEF HandleCommand
  <2>3. [m EXCEPT !.ctl[x].scanning = cmd.on] = Kept(K)
    BY DEF Medium
  <2> HIDE DEF Kept, K, n, k
  <2>8. Kept(K) \in Medium /\ Kept(K).ctl = [m.ctl EXCEPT ![x] = K] /\ Kept(K).evts = m.evts /\ Kept(K).acts = m.acts
    BY <1>2, <2>1
  <2>4. CommandDone(m, n, x, cmd, K)
    BY <2>8, <1>6, <2>1, <2>2, <2>3, AnswerDone DEF k
  <2> QED BY <2>1, <2>4 DEF n
<1>7. CASE cmd.op = "CreateSync"
  <2> DEFINE K == [k EXCEPT !.wanted = TRUE]
  <2>1. K \in Keeps /\ K.base = k.base /\ K.big = k.big /\ K.sync = k.sync /\ K.train = k.train /\ K.joined = k.joined /\ K.wanted
    BY <1>1 DEF Keeps
  <2>2. n = Status([m EXCEPT !.ctl[x].wanted = TRUE], x, cmd.op, TRUE)
    BY <1>7 DEF HandleCommand
  <2>3. [m EXCEPT !.ctl[x].wanted = TRUE] = Kept(K)
    BY DEF Medium
  <2> HIDE DEF Kept, K, n, k
  <2>8. Kept(K) \in Medium /\ Kept(K).ctl = [m.ctl EXCEPT ![x] = K] /\ Kept(K).evts = m.evts /\ Kept(K).acts = m.acts
    BY <1>2, <2>1
  <2>4. CommandDone(m, n, x, cmd, K)
    BY <2>8, <1>7, <2>1, <2>2, <2>3, AnswerDone DEF k
  <2> QED BY <2>1, <2>4 DEF n
<1>8. CASE cmd.op = "BigTerminateSync"
  <2> DEFINE K == [k EXCEPT !.joined = <<>>]
  <2>1. K \in Keeps /\ K.base = k.base /\ K.big = k.big /\ K.sync = k.sync /\ K.train = k.train /\ K.joined = <<>> /\ K.wanted = k.wanted
    BY <1>1 DEF Keeps
  <2>2. n = Complete([m EXCEPT !.ctl[x].joined = <<>>], x, cmd.op, m.ctl[x].joined # <<>>)
    BY <1>8 DEF HandleCommand
  <2>3. [m EXCEPT !.ctl[x].joined = <<>>] = Kept(K)
    BY DEF Medium
  <2>5. (m.ctl[x].joined # <<>>) \in BOOLEAN
    OBVIOUS
  <2> HIDE DEF Kept, K, n, k
  <2>8. Kept(K) \in Medium /\ Kept(K).ctl = [m.ctl EXCEPT ![x] = K] /\ Kept(K).evts = m.evts /\ Kept(K).acts = m.acts
    BY <1>2, <2>1
  <2>4. CommandDone(m, n, x, cmd, K)
    BY <2>8, <1>8, <2>1, <2>2, <2>3, <2>5, AnswerDone DEF k
  <2> QED BY <2>1, <2>4 DEF n
<1>9. CASE cmd.op \in {"CreateBig", "TerminateBig", "BigCreateSync", "Iso"}
  <2>1. cmd \in Routable /\ [from |-> x, cmd |-> cmd] \in Act
    BY <1>9 DEF Routable, Act
  <2>2. /\ [m.ctl EXCEPT ![x] = k] = m.ctl
    BY DEF Medium
  <2>3. CASE n = Status(m, x, cmd.op, FALSE)
    <3> HIDE DEF n
    <3>1. CommandDone(m, n, x, cmd, k)
      BY <1>1, <1>9, <2>2, <2>3, AnswerDone
    <3> QED BY <1>1, <3>1 DEF n
  <2>4. CASE cmd.op # "Iso" /\ n = Defer(Status(m, x, cmd.op, TRUE), x, cmd)
    <3> DEFINE e == [type |-> "Status", op |-> cmd.op, ok |-> TRUE]
               s == Status(m, x, cmd.op, TRUE)
               act == [from |-> x, cmd |-> cmd]
    <3>1. e \in Event /\ ~Answering(e) /\ ~Losing(e) /\ ~Tracking(e) /\ ~Admits(e)
      BY <1>1 DEF Event, Answering, Losing, Tracking, Admits
    <3>2. s \in Medium
      BY <1>1, AnswersTyped
    <3>3. s = Tell(m, x, e)
      BY DEF Status
    <3>4. n = [s EXCEPT !.acts = Append(@, act)]
      BY <2>4 DEF Defer
    <3> HIDE DEF e, s, n, act
    <3>5. s.ctl = m.ctl /\ s.acts = m.acts /\ s.evts = [m.evts EXCEPT ![x] = Append(@, e)]
      BY <3>1, <3>3, TellDoes
    <3>6. n.ctl = m.ctl /\ n.acts = Append(m.acts, act) /\ n.evts = [m.evts EXCEPT ![x] = Append(@, e)]
      BY <3>2, <3>4, <3>5 DEF Medium
    <3>7. n.evts[x] = Append(m.evts[x], e) /\ \A d \in Ctl \ {x} : n.evts[d] = m.evts[d]
      BY <3>6 DEF Medium
    <3>8. n.acts # m.acts
      <4>1. m.acts \in Seq(Act) /\ act \in Act
        BY <2>1 DEF Medium, act
      <4>2. Len(Append(m.acts, act)) # Len(m.acts)
        BY <4>1
      <4> QED BY <3>6, <4>2
    <3>9. CommandDone(m, n, x, cmd, k)
      BY <1>1, <1>9, <2>1, <2>2, <3>1, <3>6, <3>7, <3>8 DEF CommandDone, act
    <3> QED BY <1>1, <3>9 DEF n
  <2>5. CASE cmd.op = "Iso"
    <3>1. n = [m EXCEPT !.acts = Append(@, [from |-> x, cmd |-> cmd])]
      BY <2>5 DEF HandleCommand, Defer
    <3> HIDE DEF n
    <3>2. n.ctl = m.ctl /\ n.evts = m.evts /\ n.acts = Append(m.acts, [from |-> x, cmd |-> cmd])
      BY <3>1 DEF Medium
    <3>3. CommandDone(m, n, x, cmd, k)
      BY <1>1, <2>1, <2>2, <2>5, <3>2 DEF CommandDone
    <3> QED BY <1>1, <3>3 DEF n
  <2> QED BY <1>9, <2>3, <2>4, <2>5 DEF HandleCommand
<1>10. CASE cmd.op \notin {"PeriodicData", "Enable", "PeriodicEnable", "ScanEnable", "CreateSync", "BigTerminateSync",
                           "CreateBig", "TerminateBig", "BigCreateSync", "Iso"}
  <2>1. n = Complete(m, x, cmd.op, TRUE)
    BY <1>10 DEF HandleCommand
  <2>2. [m.ctl EXCEPT ![x] = k] = m.ctl
    BY DEF Medium
  <2> HIDE DEF n
  <2>3. CommandDone(m, n, x, cmd, k)
    BY <1>1, <1>10, <2>1, <2>2, AnswerDone
  <2> QED BY <1>1, <2>3 DEF n
<1> QED BY <1>3, <1>4, <1>5, <1>6, <1>7, <1>8, <1>9, <1>10

\* What a step leaves of the source, for its receivers.
Kept(m, n) ==
  /\ m.ctl[Src].train => n.ctl[Src].train
  /\ n.ctl[Src].base = 0 => m.ctl[Src].base = 0
  /\ m.ctl[Src].big # <<>> => n.ctl[Src].big # <<>>

\* No command of any host takes the train, the BASE or the BIG from the source within phase A.
LEMMA CommandKeepsSource ==
  ASSUME NEW m \in Medium, NEW n, NEW x \in Ctl, NEW cmd, NEW K, CommandDone(m, n, x, cmd, K)
  PROVE  Kept(m, n)
<1>1. CASE x = Src
  <2>1. n.ctl[Src] = K
    BY <1>1, SrcIsCtl DEF CommandDone, Medium
  <2> QED BY <1>1, <2>1 DEF CommandDone, Kept
<1>2. CASE x # Src
  <2>1. n.ctl[Src] = m.ctl[Src]
    BY <1>2, SrcIsCtl DEF CommandDone, Medium
  <2> QED BY <2>1 DEF Kept
<1> QED BY <1>1, <1>2

\* The types of a receiver that executes its i-th command.
LEMMA AskedTyped ==
  ASSUME NEW c \in Receiver, cmds[c] \in Seq(Command), NEW i \in DOMAIN cmds[c],
         NEW m \in Medium, NEW n, NEW K, CommandDone(m, n, c, cmds[c][i], K)
  PROVE  c \in Ctl /\ m.evts[c] \in Seq(Event) /\ m.acts \in Seq(Act) /\ Kept(m, n) /\ cmds[c][i] \in Command
<1>1. c \in Ctl
  BY DEF Receiver
<1>2. Kept(m, n)
  BY <1>1, CommandKeepsSource
<1>3. cmds[c][i] \in Command
  OBVIOUS
<1> QED BY <1>1, <1>2, <1>3 DEF Medium

\* What one event more changes, and what it does not.
Grown(ev, e, w) ==
  /\ Answers(w, 0) = IF Answering(e) THEN Answers(ev, 0) \cup {Len(ev) + 1} ELSE Answers(ev, 0)
  /\ Losses(w, 0) = IF Losing(e) THEN Losses(ev, 0) \cup {Len(ev) + 1} ELSE Losses(ev, 0)
  /\ Tracks(w, 0) = Tracks(ev, 0) /\ Reports(w, 0) = Reports(ev, 0)
  /\ w[Len(ev) + 1] = e
  /\ \A j \in DOMAIN ev : w[j] = ev[j] /\ j < Len(ev) + 1

\* An event that is no report of the train makes the queue grow as Grown says.
LEMMA EventTold ==
  ASSUME NEW ev \in Seq(Event), NEW e \in Event, ~Tracking(e)
  PROVE  Grown(ev, e, Append(ev, e))
<1>1. ~Reporting(e)
  BY DEF Reporting, Tracking
<1>2. \A j \in DOMAIN ev : j < Len(ev) + 1
  OBVIOUS
<1>3. /\ Answers(Append(ev, e), 0) = Answers(ev, 0) \cup (IF Answering(e) THEN {Len(ev) + 1} ELSE {})
      /\ Losses(Append(ev, e), 0) = Losses(ev, 0) \cup (IF Losing(e) THEN {Len(ev) + 1} ELSE {})
      /\ Tracks(Append(ev, e), 0) = Tracks(ev, 0) \cup (IF Tracking(e) THEN {Len(ev) + 1} ELSE {})
      /\ Reports(Append(ev, e), 0) = Reports(ev, 0) \cup (IF Reporting(e) THEN {Len(ev) + 1} ELSE {})
      /\ \A i \in DOMAIN ev : Append(ev, e)[i] = ev[i]
      /\ Append(ev, e)[Len(ev) + 1] = e
  BY EventAfter
<1> QED BY <1>1, <1>2, <1>3 DEF Grown

\* Another host's command leaves a receiver as it is.
LEMMA CommandForOther ==
  ASSUME NEW c \in Receiver, NEW m \in Medium, NEW x \in Ctl, x # c, NEW cmd \in Command, NEW o, Good(m, o, 0, c)
  PROVE  Good(HandleCommand(m, x, cmd), o, 0, c)
<1> DEFINE n == HandleCommand(m, x, cmd)
<1>1. n \in Medium
  BY HandleCommandTyped
<1>2. PICK K \in Keeps : CommandDone(m, n, x, cmd, K)
  BY HandleCommandDone
<1> HIDE DEF n
<1>3. Kept(m, n)
  BY <1>2, CommandKeepsSource
<1>4. c \in Ctl
  BY DEF Receiver
<1>5. n.ctl[c] = m.ctl[c] /\ n.evts[c] = m.evts[c]
  BY <1>2, <1>4 DEF CommandDone, Medium
<1>6. Deferrals(n.acts, 0, c) = Deferrals(m.acts, 0, c)
  <2>1. CASE n.acts = m.acts
    BY <2>1
  <2>2. CASE n.acts = Append(m.acts, [from |-> x, cmd |-> cmd]) /\ cmd \in Routable
    <3> DEFINE act == [from |-> x, cmd |-> cmd]
    <3>1. act \in Act /\ ~Deferral(act, c)
      BY <2>2 DEF Act, Deferral
    <3>2. m.acts \in Seq(Act)
      BY DEF Medium
    <3> HIDE DEF act
    <3>3. Deferrals(Append(m.acts, act), 0, c) = Deferrals(m.acts, 0, c)
      BY <3>1, <3>2, DeferralAfter
    <3> QED BY <2>2, <3>3 DEF act
  <2> QED BY <1>2, <2>1, <2>2 DEF CommandDone
<1>7. Good(n, o, 0, c)
  BY <1>1, <1>3, <1>5, <1>6, GoodAfter DEF Kept
<1> QED BY <1>7 DEF n

\* A request to join the BIG is refused at once, or deferred.
LEMMA JoinAsked ==
  ASSUME NEW c \in Receiver, cmds[c] \in Seq(Command), NEW i \in DOMAIN cmds[c], cmds[c][i].op = "BigCreateSync",
         NEW m \in Medium, Good(m, i - 1, 0, c), NEW n \in Medium, NEW K, CommandDone(m, n, c, cmds[c][i], K)
  PROVE  Good(n, i, 0, c)
<1> DEFINE p == cmds[c]
           ev == m.evts[c]
           w == n.evts[c]
           q == m.acts
           act == [from |-> c, cmd |-> p[i]]
<1>0. c \in Ctl /\ ev \in Seq(Event) /\ q \in Seq(Act) /\ Kept(m, n) /\ p[i] \in Command
  BY AskedTyped
<1>1. /\ Asks(p, i - 1, "BigCreateSync") = Asks(p, i, "BigCreateSync") \cup {i} /\ i \notin Asks(p, i, "BigCreateSync")
      /\ Asks(p, i - 1, "CreateSync") = Asks(p, i, "CreateSync")
  <2>1. Asks(p, i - 1, "BigCreateSync") = Asks(p, i, "BigCreateSync") \cup (IF p[i].op = "BigCreateSync" THEN {i} ELSE {})
        /\ i \notin Asks(p, i, "BigCreateSync")
    BY CommandTaken
  <2>2. Asks(p, i - 1, "CreateSync") = Asks(p, i, "CreateSync") \cup (IF p[i].op = "CreateSync" THEN {i} ELSE {})
        /\ i \notin Asks(p, i, "CreateSync")
    BY CommandTaken
  <2> QED BY <2>1, <2>2
<1>2. n.ctl[c] = K /\ K.joined = m.ctl[c].joined /\ K.wanted = m.ctl[c].wanted /\ K.sync = m.ctl[c].sync
  BY <1>0 DEF CommandDone, Medium
<1>3. PICK e \in Event : w = Append(ev, e) /\ (Answering(e) <=> n.acts = q) /\ ~Losing(e) /\ ~Tracking(e) /\ ~Admits(e)
  BY DEF CommandDone
<1>4. n.acts = q \/ (n.acts = Append(q, act) /\ act \in Act)
  BY <1>0 DEF CommandDone, Act
<1>5. Deferral(act, c)
  BY DEF Deferral
<1> HIDE DEF act, p, q, ev, w
<1>6. /\ Answers(w, 0) = IF Answering(e) THEN Answers(ev, 0) \cup {Len(ev) + 1} ELSE Answers(ev, 0)
      /\ Losses(w, 0) = Losses(ev, 0) /\ Tracks(w, 0) = Tracks(ev, 0) /\ Reports(w, 0) = Reports(ev, 0)
      /\ \A j \in DOMAIN ev : w[j] = ev[j]
      /\ w[Len(ev) + 1] = e
  <2>1. Grown(ev, e, Append(ev, e))
    BY <1>0, <1>3, EventTold
  <2> QED BY <1>3, <2>1 DEF Grown
<1>7. \A j \in Tracks(ev, 0) : w[j] = ev[j]
  BY <1>6 DEF Tracks
<1>8. Member(sink[c], m.ctl[c].joined, ev, Asks(p, i - 1, "BigCreateSync"), Deferrals(q, 0, c), Answers(ev, 0), Losses(ev, 0))
      /\ Synced(sink[c], m.ctl[c], ev, Asks(p, i - 1, "CreateSync"), Tracks(ev, 0), m.ctl[Src].train)
  BY DEF Good, p, q, ev
<1>9. /\ sink[c].state = "SyncingToBig" /\ m.ctl[c].joined = <<>> /\ Asks(p, i, "BigCreateSync") = {}
      /\ Deferrals(q, 0, c) = {} /\ Answers(ev, 0) = {} /\ Losses(ev, 0) = {}
      /\ m.ctl[c].joined = sink[c].bis
  BY <1>1, <1>8 DEF Member, AtMostOne
<1>10. Member(sink[c], n.ctl[c].joined, w, Asks(p, i, "BigCreateSync"), Deferrals(n.acts, 0, c), Answers(w, 0), Losses(w, 0))
  <2>1. CASE n.acts = q
    <3>1. Answers(w, 0) = {Len(ev) + 1} /\ ~Admits(w[Len(ev) + 1])
      BY <1>3, <1>6, <1>9, <2>1
    <3> QED BY <1>2, <1>6, <1>8, <1>9, <2>1, <3>1 DEF Member, AtMostOne
  <2>2. CASE n.acts # q
    <3>1. Deferrals(n.acts, 0, c) = {Len(q) + 1}
      BY <1>0, <1>4, <1>5, <1>9, <2>2, DeferralAfter
    <3>2. Answers(w, 0) = {}
      BY <1>3, <1>6, <1>9, <2>2
    <3> QED BY <1>2, <1>6, <1>8, <1>9, <3>1, <3>2 DEF Member, AtMostOne
  <2> QED BY <2>1, <2>2
<1>11. Synced(sink[c], n.ctl[c], w, Asks(p, i, "CreateSync"), Tracks(w, 0), n.ctl[Src].train)
  BY <1>0, <1>1, <1>2, <1>6, <1>7, <1>8 DEF Synced, Kept
<1> QED BY <1>0, <1>2, <1>6, <1>9, <1>10, <1>11 DEF Good, Kept, p, ev, w

\* A receiver that leaves is told so, once.
LEMMA LeaveAsked ==
  ASSUME NEW c \in Receiver, cmds[c] \in Seq(Command), NEW i \in DOMAIN cmds[c], cmds[c][i].op = "BigTerminateSync",
         NEW m \in Medium, Good(m, i - 1, 0, c), NEW n \in Medium, NEW K, CommandDone(m, n, c, cmds[c][i], K)
  PROVE  Good(n, i, 0, c)
<1> DEFINE p == cmds[c]
           ev == m.evts[c]
           w == n.evts[c]
           q == m.acts
           act == [from |-> c, cmd |-> p[i]]
<1>0. c \in Ctl /\ ev \in Seq(Event) /\ q \in Seq(Act) /\ Kept(m, n) /\ p[i] \in Command
  BY AskedTyped
<1>1. /\ Asks(p, i - 1, "BigCreateSync") = Asks(p, i, "BigCreateSync")
      /\ Asks(p, i - 1, "CreateSync") = Asks(p, i, "CreateSync")
  <2>1. Asks(p, i - 1, "BigCreateSync") = Asks(p, i, "BigCreateSync") \cup (IF p[i].op = "BigCreateSync" THEN {i} ELSE {})
        /\ i \notin Asks(p, i, "BigCreateSync")
    BY CommandTaken
  <2>2. Asks(p, i - 1, "CreateSync") = Asks(p, i, "CreateSync") \cup (IF p[i].op = "CreateSync" THEN {i} ELSE {})
        /\ i \notin Asks(p, i, "CreateSync")
    BY CommandTaken
  <2> QED BY <2>1, <2>2
<1>2. n.ctl[c] = K /\ K.joined = <<>> /\ K.wanted = m.ctl[c].wanted /\ K.sync = m.ctl[c].sync
  BY <1>0 DEF CommandDone, Medium
<1>3. PICK e \in Event : w = Append(ev, e) /\ ~Answering(e) /\ (Losing(e) <=> m.ctl[c].joined # <<>>) /\ ~Tracking(e)
  BY DEF CommandDone
<1>4. Deferrals(n.acts, 0, c) = Deferrals(q, 0, c)
  <2>1. n.acts = q
    BY DEF CommandDone, Routable
  <2> QED BY <2>1
<1> HIDE DEF act, p, q, ev, w
<1>6. /\ Answers(w, 0) = Answers(ev, 0)
      /\ Losses(w, 0) = IF Losing(e) THEN Losses(ev, 0) \cup {Len(ev) + 1} ELSE Losses(ev, 0)
      /\ Tracks(w, 0) = Tracks(ev, 0) /\ Reports(w, 0) = Reports(ev, 0)
      /\ \A j \in DOMAIN ev : w[j] = ev[j] /\ j < Len(ev) + 1
  <2>1. Grown(ev, e, Append(ev, e))
    BY <1>0, <1>3, EventTold
  <2> QED BY <1>3, <2>1 DEF Grown
<1>7. \A j \in Answers(ev, 0) \cup Tracks(ev, 0) : w[j] = ev[j] /\ j < Len(ev) + 1
  BY <1>6 DEF Tracks, Answers
<1>8. Member(sink[c], m.ctl[c].joined, ev, Asks(p, i - 1, "BigCreateSync"), Deferrals(q, 0, c), Answers(ev, 0), Losses(ev, 0))
      /\ Synced(sink[c], m.ctl[c], ev, Asks(p, i - 1, "CreateSync"), Tracks(ev, 0), m.ctl[Src].train)
  BY DEF Good, p, q, ev
<1>10. Member(sink[c], n.ctl[c].joined, w, Asks(p, i, "BigCreateSync"), Deferrals(n.acts, 0, c), Answers(w, 0), Losses(w, 0))
  <2>1. CASE m.ctl[c].joined = <<>>
    <3>1. Losses(w, 0) = Losses(ev, 0)
      BY <1>3, <1>6, <2>1
    <3> QED BY <1>1, <1>2, <1>4, <1>6, <1>7, <1>8, <2>1, <3>1 DEF Member
  <2>2. CASE m.ctl[c].joined # <<>>
    <3>1. /\ Losses(ev, 0) = {} /\ Losses(w, 0) = {Len(ev) + 1}
          /\ Asks(p, i - 1, "BigCreateSync") = {} /\ Deferrals(q, 0, c) = {}
      BY <1>3, <1>6, <1>8, <2>2 DEF Member
    <3> QED BY <1>1, <1>2, <1>4, <1>6, <1>7, <1>8, <2>2, <3>1 DEF Member, AtMostOne
  <2> QED BY <2>1, <2>2
<1>11. Synced(sink[c], n.ctl[c], w, Asks(p, i, "CreateSync"), Tracks(w, 0), n.ctl[Src].train)
  BY <1>0, <1>1, <1>2, <1>6, <1>7, <1>8 DEF Synced, Kept
<1> QED BY <1>0, <1>2, <1>6, <1>10, <1>11 DEF Good, Kept, p, ev, w

\* A request for the train is kept.
LEMMA SyncAsked ==
  ASSUME NEW c \in Receiver, cmds[c] \in Seq(Command), NEW i \in DOMAIN cmds[c], cmds[c][i].op = "CreateSync",
         NEW m \in Medium, Good(m, i - 1, 0, c), NEW n \in Medium, NEW K, CommandDone(m, n, c, cmds[c][i], K)
  PROVE  Good(n, i, 0, c)
<1> DEFINE p == cmds[c]
           ev == m.evts[c]
           w == n.evts[c]
           q == m.acts
<1>0. c \in Ctl /\ ev \in Seq(Event) /\ q \in Seq(Act) /\ Kept(m, n) /\ p[i] \in Command
  BY AskedTyped
<1>1. /\ Asks(p, i - 1, "BigCreateSync") = Asks(p, i, "BigCreateSync")
      /\ Asks(p, i - 1, "CreateSync") = Asks(p, i, "CreateSync") \cup {i} /\ i \notin Asks(p, i, "CreateSync")
  <2>1. Asks(p, i - 1, "BigCreateSync") = Asks(p, i, "BigCreateSync") \cup (IF p[i].op = "BigCreateSync" THEN {i} ELSE {})
        /\ i \notin Asks(p, i, "BigCreateSync")
    BY CommandTaken
  <2>2. Asks(p, i - 1, "CreateSync") = Asks(p, i, "CreateSync") \cup (IF p[i].op = "CreateSync" THEN {i} ELSE {})
        /\ i \notin Asks(p, i, "CreateSync")
    BY CommandTaken
  <2> QED BY <2>1, <2>2
<1>2. n.ctl[c] = K /\ K.joined = m.ctl[c].joined /\ K.wanted /\ K.sync = m.ctl[c].sync
  BY <1>0 DEF CommandDone, Medium
<1>3. PICK e \in Event : w = Append(ev, e) /\ ~Answering(e) /\ ~Losing(e) /\ ~Tracking(e)
  BY DEF CommandDone
<1>4. n.acts = q
  BY DEF CommandDone, Routable
<1> HIDE DEF p, q, ev, w
<1>6. /\ Answers(w, 0) = Answers(ev, 0) /\ Losses(w, 0) = Losses(ev, 0)
      /\ Tracks(w, 0) = Tracks(ev, 0) /\ Reports(w, 0) = Reports(ev, 0)
      /\ \A j \in DOMAIN ev : w[j] = ev[j]
  <2>1. Grown(ev, e, Append(ev, e))
    BY <1>0, <1>3, EventTold
  <2> QED BY <1>3, <2>1 DEF Grown
<1>7. \A j \in Answers(ev, 0) \cup Tracks(ev, 0) : w[j] = ev[j]
  BY <1>6 DEF Tracks, Answers
<1>8. Member(sink[c], m.ctl[c].joined, ev, Asks(p, i - 1, "BigCreateSync"), Deferrals(q, 0, c), Answers(ev, 0), Losses(ev, 0))
      /\ Synced(sink[c], m.ctl[c], ev, Asks(p, i - 1, "CreateSync"), Tracks(ev, 0), m.ctl[Src].train)
  BY DEF Good, p, q, ev
<1>10. Member(sink[c], n.ctl[c].joined, w, Asks(p, i, "BigCreateSync"), Deferrals(n.acts, 0, c), Answers(w, 0), Losses(w, 0))
  BY <1>1, <1>2, <1>4, <1>6, <1>7, <1>8 DEF Member
<1>11. Synced(sink[c], n.ctl[c], w, Asks(p, i, "CreateSync"), Tracks(w, 0), n.ctl[Src].train)
  <2>1. Asks(p, i, "CreateSync") = {} /\ m.ctl[c].sync = 0 /\ sink[c].state \notin {"Idle", "SettingScanParameters", "Scanning"}
    BY <1>1, <1>8 DEF Synced, AtMostOne
  <2> QED BY <1>0, <1>2, <1>6, <1>7, <1>8, <2>1 DEF Synced, Kept, AtMostOne
<1> QED BY <1>0, <1>2, <1>6, <1>8, <1>10, <1>11 DEF Good, Kept, p, ev, w

\* A receiver's own command.
LEMMA CommandForIt ==
  ASSUME NEW c \in Receiver, cmds[c] \in Seq(Command), NEW i \in DOMAIN cmds[c], NEW m \in Medium, Good(m, i - 1, 0, c)
  PROVE  Good(HandleCommand(m, c, cmds[c][i]), i, 0, c)
<1> DEFINE cmd == cmds[c][i]
           n == HandleCommand(m, c, cmd)
<1>1. cmd \in Command /\ c \in Ctl
  BY DEF Receiver
<1>2. n \in Medium
  BY <1>1, HandleCommandTyped
<1>3. PICK K \in Keeps : CommandDone(m, n, c, cmd, K)
  BY <1>1, HandleCommandDone
<1> HIDE DEF n
<1>4. CASE cmd.op = "BigCreateSync"
  BY <1>2, <1>3, <1>4, JoinAsked DEF n
<1>5. CASE cmd.op = "BigTerminateSync"
  BY <1>2, <1>3, <1>5, LeaveAsked DEF n
<1>6. CASE cmd.op = "CreateSync"
  BY <1>2, <1>3, <1>6, SyncAsked DEF n
<1>7. CASE cmd.op \notin {"BigCreateSync", "BigTerminateSync", "CreateSync"}
  <2>1. Kept(m, n)
    BY <1>1, <1>3, CommandKeepsSource
  <2>2. n.ctl[c] = K /\ K.joined = m.ctl[c].joined /\ K.wanted = m.ctl[c].wanted /\ K.sync = m.ctl[c].sync
    BY <1>1, <1>3, <1>7 DEF CommandDone, Medium
  <2>3. \/ n.evts[c] = m.evts[c]
        \/ \E e \in Event : n.evts[c] = Append(m.evts[c], e) /\ ~Answering(e) /\ ~Losing(e) /\ ~Tracking(e)
    BY <1>3, <1>7 DEF CommandDone
  <2>4. /\ Asks(cmds[c], i, "BigCreateSync") = Asks(cmds[c], i - 1, "BigCreateSync")
        /\ Asks(cmds[c], i, "CreateSync") = Asks(cmds[c], i - 1, "CreateSync")
    <3>1. Asks(cmds[c], i - 1, "BigCreateSync") = Asks(cmds[c], i, "BigCreateSync") \cup (IF cmd.op = "BigCreateSync" THEN {i} ELSE {})
      BY CommandTaken
    <3>2. Asks(cmds[c], i - 1, "CreateSync") = Asks(cmds[c], i, "CreateSync") \cup (IF cmd.op = "CreateSync" THEN {i} ELSE {})
      BY CommandTaken
    <3> QED BY <1>7, <3>1, <3>2
  <2>5. Deferrals(n.acts, 0, c) = Deferrals(m.acts, 0, c)
    <3>1. CASE n.acts = m.acts
      BY <3>1
    <3>2. CASE n.acts = Append(m.acts, [from |-> c, cmd |-> cmd]) /\ cmd \in Routable
      <4> DEFINE act == [from |-> c, cmd |-> cmd]
      <4>1. act \in Act /\ ~Deferral(act, c)
        BY <1>1, <1>7, <3>2 DEF Act, Deferral
      <4>2. m.acts \in Seq(Act)
        BY DEF Medium
      <4> HIDE DEF act
      <4>3. Deferrals(Append(m.acts, act), 0, c) = Deferrals(m.acts, 0, c)
        BY <4>1, <4>2, DeferralAfter
      <4> QED BY <3>2, <4>3 DEF act
    <3> QED BY <1>3, <3>1, <3>2 DEF CommandDone
  <2>6. Good(n, i, 0, c)
    BY <1>2, <2>1, <2>2, <2>3, <2>4, <2>5, GoodAfter DEF Kept
  <2> QED BY <2>6 DEF n
<1> QED BY <1>4, <1>5, <1>6, <1>7

\* All commands of one host: its own are executed then, or none of them.
LEMMA CommandedGood ==
  ASSUME NEW c \in Receiver, cmds \in [Ctl -> Seq(Command)], NEW m \in Medium, NEW x \in Ctl,
         Good(m, IF x = c THEN 0 ELSE Len(cmds[c]), 0, c) \/ (x # c /\ Good(m, 0, 0, c))
  PROVE  /\ Commanded(m, x) \in Medium
         /\ x = c => Good(Commanded(m, x), Len(cmds[c]), 0, c)
         /\ x # c => \A o : Good(m, o, 0, c) => Good(Commanded(m, x), o, 0, c)
<1> DEFINE s == cmds[x]
<1>1. Len(s) \in Nat /\ (\A n \in 1 .. Len(s) : s[n] \in Command /\ n \in DOMAIN s) /\ s \in Seq(Command) /\ c \in Ctl
  BY DEF Receiver
<1>2. Len(s) \in 0 .. Len(s) /\ 0 \in 0 .. Len(s) /\ \A n \in 1 .. Len(s) : n \in 0 .. Len(s) /\ n - 1 \in 0 .. Len(s)
  BY <1>1
<1>3. Commanded(m, x) \in Medium
  BY CommandedTyped
<1>4. ASSUME x = c PROVE Good(Commanded(m, x), Len(cmds[c]), 0, c)
  <2> DEFINE U == [n \in 0 .. Len(s) |-> {u \in Medium : Good(u, n, 0, c)}]
  <2>1. m \in U[0]
    BY <1>2, <1>4
  <2>2. ASSUME NEW n \in 1 .. Len(s), NEW u \in U[n - 1] PROVE HandleCommand(u, x, s[n]) \in U[n]
    <3>1. u \in Medium /\ Good(u, n - 1, 0, c)
      BY <1>2
    <3>2. HandleCommand(u, x, s[n]) \in Medium
      BY <1>1, <3>1, HandleCommandTyped
    <3>3. Good(HandleCommand(u, x, s[n]), n, 0, c)
      BY <1>1, <1>4, <3>1, CommandForIt
    <3> QED BY <1>2, <3>2, <3>3
  <2> HIDE DEF U
  <2>3. Commanded(m, x) \in U[Len(s)]
    BY <1>1, <2>1, <2>2, AlongCommands
  <2> QED BY <1>2, <1>4, <2>3 DEF U
<1>5. ASSUME x # c, NEW o, Good(m, o, 0, c) PROVE Good(Commanded(m, x), o, 0, c)
  <2> DEFINE U == [n \in 0 .. Len(s) |-> {u \in Medium : Good(u, o, 0, c)}]
  <2>1. m \in U[0]
    BY <1>2, <1>5
  <2>2. ASSUME NEW n \in 1 .. Len(s), NEW u \in U[n - 1] PROVE HandleCommand(u, x, s[n]) \in U[n]
    <3>1. u \in Medium /\ Good(u, o, 0, c)
      BY <1>2
    <3>2. HandleCommand(u, x, s[n]) \in Medium
      BY <1>1, <3>1, HandleCommandTyped
    <3>3. Good(HandleCommand(u, x, s[n]), o, 0, c)
      BY <1>1, <1>5, <3>1, CommandForOther
    <3> QED BY <1>2, <3>2, <3>3
  <2> HIDE DEF U
  <2>3. Commanded(m, x) \in U[Len(s)]
    BY <1>1, <2>1, <2>2, AlongCommands
  <2> QED BY <1>2, <2>3 DEF U
<1> QED BY <1>3, <1>4, <1>5

\* After phase A every receiver has its commands executed.
LEMMA PhaseAGood ==
  ASSUME NEW c \in Receiver, cmds \in [Ctl -> Seq(Command)], NEW m \in Medium, Good(m, 0, 0, c)
  PROVE  PhaseA(m) \in Medium /\ Good(PhaseA(m), Len(cmds[c]), 0, c)
<1> DEFINE l == Len(Order)
           off(n) == IF \E j \in 1 .. n : Order[j] = c THEN Len(cmds[c]) ELSE 0
           U == [n \in 0 .. l |-> {u \in Medium : Good(u, off(n), 0, c)}]
<1>1. l \in Nat /\ DOMAIN Order = 1 .. l /\ (\A n \in 1 .. l : Order[n] \in Ctl) /\ c \in Ctl
  BY BroadcastAssumption DEF Receiver
<1>2. l \in 0 .. l /\ 0 \in 0 .. l /\ (\A n \in 1 .. l : n \in 0 .. l /\ n - 1 \in 0 .. l) /\ 1 .. 0 = {}
  BY <1>1
<1>3. m \in U[0]
  BY <1>2
<1>4. ASSUME NEW n \in 1 .. l, NEW u \in U[n - 1] PROVE Commanded(u, Order[n]) \in U[n]
  <2>1. u \in Medium /\ Good(u, off(n - 1), 0, c) /\ Order[n] \in Ctl
    BY <1>1, <1>2
  <2>2. 1 .. n = (1 .. (n - 1)) \cup {n} /\ \A j \in 1 .. (n - 1) : j \in 1 .. l /\ j # n
    BY <1>1
  <2>3. CASE Order[n] = c
    <3>1. off(n - 1) = 0
      BY <1>1, <2>2, <2>3, BroadcastAssumption DEF IsInjective
    <3>2. off(n) = Len(cmds[c])
      BY <2>2, <2>3
    <3> HIDE DEF off
    <3>3. Commanded(u, Order[n]) \in Medium /\ Good(Commanded(u, Order[n]), off(n), 0, c)
      BY <2>1, <2>3, <3>1, <3>2, CommandedGood
    <3> QED BY <1>2, <3>3
  <2>4. CASE Order[n] # c
    <3>1. off(n) = off(n - 1)
      BY <2>2, <2>4
    <3>2. off(n) \in {0, Len(cmds[c])}
      OBVIOUS
    <3> HIDE DEF off
    <3>3. Commanded(u, Order[n]) \in Medium /\ Good(Commanded(u, Order[n]), off(n), 0, c)
      BY <2>1, <2>4, <3>1, <3>2, CommandedGood
    <3> QED BY <1>2, <3>3
  <2> QED BY <2>3, <2>4
<1>5. off(l) = Len(cmds[c])
  BY <1>1 DEF Ctl, Range
<1> HIDE DEF U, off
<1>6. PhaseA(m) \in U[l]
  BY <1>1, <1>3, <1>4, AlongCommanded
<1> QED BY <1>2, <1>5, <1>6 DEF U

\* No event, or one of a neutral kind, is of none of the kinds that matter.
LEMMA Silent ==
  /\ Answers(<<>>, 0) = {} /\ Losses(<<>>, 0) = {} /\ Tracks(<<>>, 0) = {}
  /\ \A e : ~Answering(e) /\ ~Losing(e) /\ ~Tracking(e) =>
       Answers(<<e>>, 0) = {} /\ Losses(<<e>>, 0) = {} /\ Tracks(<<e>>, 0) = {}
<1>1. DOMAIN <<>> = {} /\ \A e : DOMAIN <<e>> = {1} /\ <<e>>[1] = e
  OBVIOUS
<1> QED BY <1>1 DEF Answers, Losses, Tracks

\* Phase B2 tells of advertising only.
LEMMA ExtendedAdvertisingGood ==
  ASSUME NEW c \in Receiver, NEW m \in Medium, NEW o, NEW a, Good(m, o, a, c)
  PROVE  Good(ExtendedAdvertising(m), o, a, c)
<1> DEFINE news == [d \in Ctl |-> IF m.ctl[Src].on /\ m.ctl[d].scanning THEN <<[type |-> "Report"]>> ELSE <<>>]
           n == ExtendedAdvertising(m)
           t == news[c]
<1>1. n \in Medium /\ c \in Ctl
  BY ExtendedAdvertisingTyped DEF Receiver
<1>2. n = Tells(m, news)
  BY DEF ExtendedAdvertising
<1>3. [type |-> "Report"] \in Event /\ ~Answering([type |-> "Report"]) /\ ~Losing([type |-> "Report"]) /\ ~Tracking([type |-> "Report"])
  BY DEF Event, Answering, Losing, Tracking
<1>4. t = <<[type |-> "Report"]>> \/ t = <<>>
  BY <1>1
<1> HIDE DEF n, news
<1>5. n.ctl = m.ctl /\ n.acts = m.acts /\ n.evts[c] = m.evts[c] \o t
  BY <1>1, <1>2, TellsDoes
<1> HIDE DEF t
<1>6. t \in Seq(Event) /\ Answers(t, 0) = {} /\ Losses(t, 0) = {} /\ Tracks(t, 0) = {}
  <2>1. CASE t = <<>>
    BY <2>1, Silent
  <2>2. CASE t = <<[type |-> "Report"]>>
    BY <1>3, <2>2, Silent
  <2> QED BY <1>4, <2>1, <2>2
<1>7. Good(n, o, a, c)
  BY <1>1, <1>5, <1>6, GoodKept
<1> QED BY <1>7 DEF n

\* Phase C2: whoever asked for the train gets a synchronization, and is told of it.
LEMMA SynchronizedGood ==
  ASSUME NEW c \in Receiver, NEW m \in Medium, NEW x \in Ctl, NEW o, NEW a, Good(m, o, a, c)
  PROVE  Good(Synchronized(m, x), o, a, c)
<1> DEFINE k == [m.ctl[x] EXCEPT !.wanted = FALSE, !.sync = m.next]
           s == [m EXCEPT !.ctl[x].wanted = FALSE, !.ctl[x].sync = m.next, !.next = @ + 1]
           e == [type |-> "SyncEstablished", sync |-> m.next]
           n == Synchronized(m, x)
           ev == m.evts[c]
           w == n.evts[c]
<1>1. CASE ~(m.ctl[x].wanted /\ m.ctl[Src].train)
  BY <1>1 DEF Synchronized
<1>2. CASE m.ctl[x].wanted /\ m.ctl[Src].train
  <2>0. n \in Medium /\ c \in Ctl /\ ev \in Seq(Event) /\ m.next \in Nat \ {0} /\ m.ctl[x] \in Keeps
    BY SynchronizedTyped DEF Receiver, Medium
  <2>1. n = Tell(s, x, e)
    BY <1>2 DEF Synchronized
  <2>2. k.wanted = FALSE /\ k.sync = m.next /\ k.joined = m.ctl[x].joined /\ k.train = m.ctl[x].train /\ k.base = m.ctl[x].base
        /\ k.big = m.ctl[x].big /\ k \in Keeps
    BY <2>0 DEF Keeps
  <2>3. s = [m EXCEPT !.ctl = [@ EXCEPT ![x] = k], !.next = m.next + 1]
    BY DEF Medium, Keeps
  <2>4. e \in Event /\ ~Answering(e) /\ ~Losing(e) /\ Tracking(e) /\ ~Reporting(e) /\ e.sync = m.next
    BY <2>0 DEF Event, Answering, Losing, Tracking, Reporting
  <2> HIDE DEF k, s, e
  <2>5. s \in Medium /\ s.ctl = [m.ctl EXCEPT ![x] = k] /\ s.evts = m.evts /\ s.acts = m.acts
    <3>1. m.next + 1 \in Nat \ {0} /\ [m.ctl EXCEPT ![x] = k] \in [Ctl -> Keeps]
      BY <2>0, <2>2 DEF Medium
    <3> DEFINE j == m.next + 1
               ks == [m.ctl EXCEPT ![x] = k]
    <3>2. s = [m EXCEPT !.ctl = ks, !.next = j]
      BY <2>3
    <3>3. j \in Nat \ {0} /\ ks \in [Ctl -> Keeps]
      BY <3>1
    <3> HIDE DEF j, ks
    <3>4. s \in Medium /\ s.ctl = ks /\ s.evts = m.evts /\ s.acts = m.acts
      BY <3>2, <3>3 DEF Medium
    <3> QED BY <3>4 DEF ks
  <2> HIDE DEF n
  <2>6. n.ctl = [m.ctl EXCEPT ![x] = k] /\ n.acts = m.acts /\ n.evts = [m.evts EXCEPT ![x] = Append(@, e)]
    BY <2>1, <2>4, <2>5, TellDoes
  <2>7. Kept(m, n) /\ n.ctl[Src].train
    <3>1. CASE x = Src
      <4>1. n.ctl[Src] = k
        BY <2>6, <3>1, SrcIsCtl DEF Medium
      <4> QED BY <1>2, <2>2, <3>1, <4>1 DEF Kept
    <3>2. CASE x # Src
      <4>1. n.ctl[Src] = m.ctl[Src]
        BY <2>6, <3>2, SrcIsCtl DEF Medium
      <4> QED BY <1>2, <4>1 DEF Kept
    <3> QED BY <3>1, <3>2
  <2>8. CASE x # c
    <3>1. n.ctl[c] = m.ctl[c] /\ n.evts[c] = m.evts[c]
      BY <2>0, <2>6, <2>8 DEF Medium
    <3>2. Good(n, o, a, c)
      BY <2>0, <2>6, <2>7, <3>1, GoodAfter DEF Kept
    <3> QED BY <3>2 DEF n
  <2>9. CASE x = c
    <3>1. n.ctl[c] = k /\ w = Append(ev, e)
      BY <2>0, <2>6, <2>9 DEF Medium
    <3> DEFINE K == Asks(cmds[c], o, "CreateSync")
               B == Asks(cmds[c], o, "BigCreateSync")
               D == Deferrals(m.acts, a, c)
    <3> HIDE DEF ev, w, K, B, D
    <3>2. /\ Answers(Append(ev, e), 0) = Answers(ev, 0) \cup (IF Answering(e) THEN {Len(ev) + 1} ELSE {})
          /\ Losses(Append(ev, e), 0) = Losses(ev, 0) \cup (IF Losing(e) THEN {Len(ev) + 1} ELSE {})
          /\ Tracks(Append(ev, e), 0) = Tracks(ev, 0) \cup (IF Tracking(e) THEN {Len(ev) + 1} ELSE {})
          /\ Reports(Append(ev, e), 0) = Reports(ev, 0) \cup (IF Reporting(e) THEN {Len(ev) + 1} ELSE {})
          /\ \A i \in DOMAIN ev : Append(ev, e)[i] = ev[i]
          /\ Append(ev, e)[Len(ev) + 1] = e
      BY <2>0, <2>4, EventAfter
    <3>3. /\ Answers(w, 0) = Answers(ev, 0) /\ Losses(w, 0) = Losses(ev, 0) /\ Reports(w, 0) = Reports(ev, 0)
          /\ Tracks(w, 0) = Tracks(ev, 0) \cup {Len(ev) + 1} /\ w[Len(ev) + 1] = e /\ \A i \in DOMAIN ev : w[i] = ev[i]
      BY <2>4, <3>1, <3>2
    <3>4. \A i \in Answers(ev, 0) \cup Tracks(ev, 0) : w[i] = ev[i]
      BY <3>3 DEF Answers, Tracks
    <3>5. Member(sink[c], m.ctl[c].joined, ev, B, D, Answers(ev, 0), Losses(ev, 0))
          /\ Synced(sink[c], m.ctl[c], ev, K, Tracks(ev, 0), m.ctl[Src].train)
      BY DEF Good, ev, K, B, D
    <3>6. Member(sink[c], n.ctl[c].joined, w, B, Deferrals(n.acts, a, c), Answers(w, 0), Losses(w, 0))
      <4>1. n.ctl[c].joined = m.ctl[c].joined
        BY <2>2, <2>9, <3>1
      <4>2. Deferrals(n.acts, a, c) = D
        BY <2>6 DEF D
      <4>3. Answers(w, 0) = Answers(ev, 0) /\ Losses(w, 0) = Losses(ev, 0) /\ \A i \in Answers(ev, 0) : w[i] = ev[i]
        BY <3>3, <3>4
      <4> QED BY <3>5, <4>1, <4>2, <4>3 DEF Member
    <3>7. Synced(sink[c], n.ctl[c], w, K, Tracks(w, 0), n.ctl[Src].train)
      <4>1. m.ctl[c].sync = 0 /\ Tracks(ev, 0) = {} /\ sink[c].state \notin {"Idle", "SettingScanParameters", "Scanning"}
            /\ K = {} /\ sink[c].sync = 0 /\ sink[c].base = 0
        BY <1>2, <2>9, <3>5 DEF Synced
      <4>2. Tracks(w, 0) = {Len(ev) + 1} /\ w[Len(ev) + 1].sync = m.next
        BY <2>4, <3>3, <4>1
      <4> QED BY <2>0, <2>2, <2>7, <3>1, <4>1, <4>2 DEF Synced, AtMostOne
    <3>8. Good(n, o, a, c)
      BY <2>2, <2>7, <2>9, <3>1, <3>3, <3>6, <3>7 DEF Good, Kept, ev, w, K, B, D
    <3> QED BY <3>8 DEF n
  <2> QED BY <2>8, <2>9
<1> QED BY <1>1, <1>2

\* Phase C2, all controllers.
LEMMA PeriodicSyncRequestsGood ==
  ASSUME NEW c \in Receiver, NEW m \in Medium, NEW o, NEW a, Good(m, o, a, c)
  PROVE  Good(PeriodicSyncRequests(m), o, a, c)
<1> DEFINE U == [n \in 0 .. Len(Order) |-> {u \in Medium : Good(u, o, a, c)}]
<1>1. Len(Order) \in Nat /\ \A n \in 1 .. Len(Order) : Order[n] \in Ctl
  BY BroadcastAssumption
<1>2. m \in U[0] /\ Len(Order) \in 0 .. Len(Order)
  BY <1>1
<1>3. \A n \in 1 .. Len(Order) : n \in 0 .. Len(Order) /\ n - 1 \in 0 .. Len(Order)
  BY <1>1
<1>4. ASSUME NEW n \in 1 .. Len(Order), NEW u \in U[n - 1] PROVE Synchronized(u, Order[n]) \in U[n]
  BY <1>1, <1>3, SynchronizedTyped, SynchronizedGood
<1> HIDE DEF U
<1>5. PeriodicSyncRequests(m) \in U[Len(Order)]
  BY <1>1, <1>2, <1>4, AlongSynchronized
<1> QED BY <1>2, <1>5 DEF U

\* Losing what it had joined, a receiver is on its way out of the BIG.
LEMMA MemberLoses ==
  ASSUME NEW r, NEW joined, NEW ev \in Seq(Event), NEW K, NEW D,
         Member(r, joined, ev, K, D, Answers(ev, 0), Losses(ev, 0)), joined # <<>>,
         NEW e \in Event, ~Answering(e), Losing(e), ~Tracking(e)
  PROVE  Member(r, <<>>, Append(ev, e), K, D, Answers(Append(ev, e), 0), Losses(Append(ev, e), 0))
<1> DEFINE w == Append(ev, e)
<1>1. Grown(ev, e, w)
  BY EventTold
<1> HIDE DEF w
<1>2. Answers(w, 0) = Answers(ev, 0) /\ Losses(w, 0) = Losses(ev, 0) \cup {Len(ev) + 1}
      /\ \A j \in DOMAIN ev : w[j] = ev[j] /\ j < Len(ev) + 1
  BY <1>1 DEF Grown
<1>3. \A j \in Answers(ev, 0) : w[j] = ev[j] /\ j < Len(ev) + 1
  BY <1>2 DEF Answers
<1>4. K = {} /\ D = {} /\ Losses(ev, 0) = {}
  BY DEF Member
<1>5. Losses(w, 0) = {Len(ev) + 1}
  BY <1>2, <1>4
<1>6. Member(r, <<>>, w, K, D, Answers(w, 0), Losses(w, 0))
  BY <1>2, <1>3, <1>4, <1>5 DEF Member, AtMostOne
<1> QED BY <1>6 DEF w

\* What is routed for another, or is no request to join, leaves the deferred requests.
LEMMA DeferralsLeft ==
  ASSUME NEW q \in Seq(Act), NEW i \in DOMAIN q, NEW c, ~Deferral(q[i], c)
  PROVE  Deferrals(q, i, c) = Deferrals(q, i - 1, c)
<1>1. Deferrals(q, i - 1, c) = Deferrals(q, i, c) \cup (IF Deferral(q[i], c) THEN {i} ELSE {})
  BY DeferralTaken
<1> QED BY <1>1

\* A BIG that is made, or made anew, disturbs no receiver.
LEMMA CreateBigGood ==
  ASSUME NEW c \in Receiver, NEW m \in Medium, NEW i \in DOMAIN m.acts, NEW o, Good(m, o, i - 1, c),
         ~Deferral(m.acts[i], c), NEW d \in Ctl
  PROVE  CreateBig(m, d).acts = m.acts /\ Good(CreateBig(m, d), o, i, c)
<1> DEFINE h == Handles(m, NumBis)
           k == [m.ctl[d] EXCEPT !.big = h]
           j == m.next + NumBis
           s == [m EXCEPT !.ctl[d].big = h, !.next = @ + NumBis]
           e == [type |-> "BigComplete", bis |-> h]
           n == CreateBig(m, d)
<1>0. n \in Medium /\ h \in Streams
  BY CreateBigTyped, HandlesTyped
<1>1. h \in Streams /\ j \in Nat \ {0} /\ m.ctl[d] \in Keeps /\ c \in Ctl /\ n \in Medium /\ m.acts \in Seq(Act)
  <2>1. m.next \in Nat \ {0} /\ m.ctl[d] \in Keeps /\ m.acts \in Seq(Act) /\ c \in Ctl
    BY DEF Medium, Receiver
  <2>2. j \in Nat \ {0}
    BY <2>1, BroadcastAssumption
  <2> QED BY <1>0, <2>1, <2>2
<1>2. n = Tell(s, d, e)
  BY DEF CreateBig
<1> HIDE DEF h
<1>3. e \in Event /\ ~Answering(e) /\ ~Losing(e) /\ ~Tracking(e)
  BY <1>1 DEF Event, Answering, Losing, Tracking
<1>4. k \in Keeps /\ k.big # <<>> /\ k.joined = m.ctl[d].joined /\ k.wanted = m.ctl[d].wanted /\ k.sync = m.ctl[d].sync
      /\ k.train = m.ctl[d].train /\ k.base = m.ctl[d].base
  BY <1>1, EmptyIsNoStreams DEF Keeps
<1>5. s = [m EXCEPT !.ctl = [@ EXCEPT ![d] = k], !.next = j]
  BY DEF Medium
<1> HIDE DEF k, j, s, e, n
<1>6. s \in Medium /\ s.ctl = [m.ctl EXCEPT ![d] = k] /\ s.evts = m.evts /\ s.acts = m.acts
  BY <1>1, <1>4, <1>5 DEF Medium
<1>7. n.ctl = [m.ctl EXCEPT ![d] = k] /\ n.acts = m.acts /\ n.evts = [m.evts EXCEPT ![d] = Append(@, e)]
  BY <1>2, <1>3, <1>6, TellDoes
<1>8. n.ctl[c].joined = m.ctl[c].joined /\ n.ctl[c].wanted = m.ctl[c].wanted /\ n.ctl[c].sync = m.ctl[c].sync
  BY <1>1, <1>4, <1>7 DEF Medium
<1>9. n.evts[c] = m.evts[c] \/ n.evts[c] = Append(m.evts[c], e)
  BY <1>1, <1>7 DEF Medium
<1>10. Kept(m, n)
  BY <1>4, <1>7, SrcIsCtl DEF Kept, Medium
<1>11. Deferrals(n.acts, i, c) = Deferrals(m.acts, i - 1, c)
  BY <1>1, <1>7, DeferralsLeft
<1>12. Good(n, o, i, c)
  BY <1>1, <1>3, <1>8, <1>9, <1>10, <1>11, GoodAfter DEF Kept
<1> QED BY <1>7, <1>12 DEF n

\* A BIG that goes takes the streams of every receiver, and tells each that had some.
LEMMA TerminateBigGood ==
  ASSUME NEW c \in Receiver, NEW m \in Medium, NEW i \in DOMAIN m.acts, NEW o, Good(m, o, i - 1, c),
         ~Deferral(m.acts[i], c), NEW d \in Ctl
  PROVE  TerminateBig(m, d).acts = m.acts /\ Good(TerminateBig(m, d), o, i, c)
<1> DEFINE b(x) == IF x = d THEN <<>> ELSE m.ctl[x].big
           k(x) == [m.ctl[x] EXCEPT !.big = b(x), !.joined = <<>>]
           ended == [m EXCEPT !.ctl = [x \in Ctl |-> [m.ctl[x] EXCEPT !.big = IF x = d THEN <<>> ELSE @, !.joined = <<>>]]]
           lost == [x \in Ctl |-> IF m.ctl[x].joined # <<>> THEN <<[type |-> "BigLost"]>> ELSE <<>>]
           e == [type |-> "BigEnded"]
           z == [type |-> "BigLost"]
           u == Tell(m, d, e)
           s == Tell(ended, d, e)
           n == TerminateBig(m, d)
<1>1. c \in Ctl /\ n \in Medium /\ m.acts \in Seq(Act)
  BY TerminateBigTyped DEF Medium, Receiver
<1>2. ASSUME NEW x \in Ctl
      PROVE  k(x) \in Keeps /\ k(x).joined = <<>> /\ k(x).wanted = m.ctl[x].wanted /\ k(x).sync = m.ctl[x].sync
             /\ k(x).train = m.ctl[x].train /\ k(x).base = m.ctl[x].base
  <2>1. m.ctl[x] \in Keeps /\ b(x) \in Streams \cup {<<>>}
    BY DEF Medium, Keeps
  <2> HIDE DEF b
  <2> QED BY <2>1 DEF Keeps
<1>3. ended = [m EXCEPT !.ctl = [x \in Ctl |-> k(x)]]
  BY DEF Medium, Keeps
<1>4. e \in Event /\ ~Answering(e) /\ ~Losing(e) /\ ~Tracking(e)
  BY DEF Event, Answering, Losing, Tracking
<1>5. z \in Event /\ ~Answering(z) /\ Losing(z) /\ ~Tracking(z)
  BY DEF Event, Answering, Losing, Tracking
<1>6. n = Tells(s, lost)
  BY DEF TerminateBig
<1>7. lost[c] = IF m.ctl[c].joined # <<>> THEN <<z>> ELSE <<>>
  BY <1>1
<1> HIDE DEF b, k, ended, lost, e, z, n
<1>8. ended \in Medium /\ ended.ctl = [x \in Ctl |-> k(x)] /\ ended.evts = m.evts /\ ended.acts = m.acts
  BY <1>2, <1>3 DEF Medium
<1>9. s \in Medium /\ s.ctl = [x \in Ctl |-> k(x)] /\ s.acts = m.acts /\ s.evts = [m.evts EXCEPT ![d] = Append(@, e)]
  <2>1. /\ Tell(ended, d, e).ctl = ended.ctl /\ Tell(ended, d, e).acts = ended.acts
        /\ Tell(ended, d, e).evts = [ended.evts EXCEPT ![d] = Append(@, e)]
    BY <1>4, <1>8, TellDoes
  <2>2. s \in Medium
    BY <1>4, <1>8, TellTyped
  <2> HIDE DEF s
  <2>3. s = Tell(ended, d, e)
    BY DEF s
  <2> QED BY <1>8, <2>1, <2>2, <2>3
<1>10. u \in Medium /\ u.ctl = m.ctl /\ u.acts = m.acts /\ u.evts = [m.evts EXCEPT ![d] = Append(@, e)]
  BY <1>4, TellDoes, TellTyped
<1> HIDE DEF s, u
<1>11. n.ctl = [x \in Ctl |-> k(x)] /\ n.acts = m.acts /\ n.evts[c] = u.evts[c] \o lost[c]
  <2>1. n.ctl = s.ctl /\ n.acts = s.acts /\ n.evts[c] = s.evts[c] \o lost[c]
    <3>1. s \in Medium
      BY <1>9
    <3>2. /\ Tells(s, lost).ctl = s.ctl /\ Tells(s, lost).acts = s.acts
          /\ \A x \in Ctl : Tells(s, lost).evts[x] = s.evts[x] \o lost[x]
      BY <3>1, TellsDoes
    <3> QED BY <1>1, <1>6, <3>2
  <2>2. s.evts = u.evts
    BY <1>9, <1>10
  <2> QED BY <1>9, <2>1, <2>2
<1>12. n.ctl[c] = k(c) /\ n.ctl[Src] = k(Src)
  BY <1>1, <1>11, SrcIsCtl
<1>13. Good(u, o, i, c)
  <2>1. u.evts[c] = m.evts[c] \/ u.evts[c] = Append(m.evts[c], e)
    BY <1>1, <1>10 DEF Medium
  <2>2. Deferrals(u.acts, i, c) = Deferrals(m.acts, i - 1, c)
    BY <1>1, <1>10, DeferralsLeft
  <2>3. u.ctl[c].joined = m.ctl[c].joined /\ u.ctl[c].wanted = m.ctl[c].wanted /\ u.ctl[c].sync = m.ctl[c].sync
        /\ u.ctl[Src] = m.ctl[Src]
    BY <1>10
  <2> QED BY <1>4, <1>10, <2>1, <2>2, <2>3, GoodAfter
<1> DEFINE ev == u.evts[c]
           w == n.evts[c]
           K == Asks(cmds[c], o, "BigCreateSync")
           D == Deferrals(n.acts, i, c)
<1>14. ev \in Seq(Event) /\ D = Deferrals(u.acts, i, c)
  BY <1>1, <1>10, <1>11 DEF Medium
<1>15. Member(sink[c], m.ctl[c].joined, ev, K, D, Answers(ev, 0), Losses(ev, 0))
       /\ Synced(sink[c], m.ctl[c], ev, Asks(cmds[c], o, "CreateSync"), Tracks(ev, 0), m.ctl[Src].train)
       /\ (m.ctl[Src].base = 0 => sink[c].base = 0 /\ Reports(ev, 0) = {})
  BY <1>10, <1>13, <1>14 DEF Good
<1> HIDE DEF ev, w, K, D
<1>16. Member(sink[c], n.ctl[c].joined, w, K, D, Answers(w, 0), Losses(w, 0))
       /\ Tracks(w, 0) = Tracks(ev, 0) /\ Reports(w, 0) = Reports(ev, 0) /\ \A j \in DOMAIN ev : w[j] = ev[j]
  <2>1. CASE m.ctl[c].joined = <<>>
    <3>1. w = ev
      BY <1>7, <1>11, <1>14, <2>1 DEF w, ev
    <3>2. n.ctl[c].joined = m.ctl[c].joined
      BY <1>1, <1>2, <1>12, <2>1
    <3> QED BY <1>15, <3>1, <3>2
  <2>2. CASE m.ctl[c].joined # <<>>
    <3>1. w = Append(ev, z)
      BY <1>5, <1>7, <1>11, <1>14, <2>2 DEF w, ev
    <3>2. n.ctl[c].joined = <<>>
      BY <1>1, <1>2, <1>12
    <3>3. Member(sink[c], <<>>, Append(ev, z), K, D, Answers(Append(ev, z), 0), Losses(Append(ev, z), 0))
      BY <1>5, <1>14, <1>15, <2>2, MemberLoses
    <3>4. Grown(ev, z, Append(ev, z))
      BY <1>5, <1>14, EventTold
    <3> QED BY <3>1, <3>2, <3>3, <3>4 DEF Grown
  <2> QED BY <2>1, <2>2
<1>17. Synced(sink[c], n.ctl[c], w, Asks(cmds[c], o, "CreateSync"), Tracks(w, 0), n.ctl[Src].train)
  <2>1. \A j \in Tracks(ev, 0) : w[j] = ev[j]
    BY <1>16 DEF Tracks
  <2>2. n.ctl[c].wanted = m.ctl[c].wanted /\ n.ctl[c].sync = m.ctl[c].sync /\ n.ctl[Src].train = m.ctl[Src].train
    BY <1>1, <1>2, <1>12, SrcIsCtl
  <2> QED BY <1>15, <1>16, <2>1, <2>2 DEF Synced
<1>18. n.ctl[Src].base = m.ctl[Src].base /\ n.ctl[c].joined = <<>>
  BY <1>1, <1>2, <1>12, SrcIsCtl
<1>19. Good(n, o, i, c)
  BY <1>15, <1>16, <1>17, <1>18 DEF Good, w, K, D
<1> QED BY <1>11, <1>19 DEF n

\* An SDU disturbs no membership.
LEMMA BisIsoGood ==
  ASSUME NEW c \in Receiver, NEW m \in Medium, NEW i \in DOMAIN m.acts, NEW o, Good(m, o, i - 1, c),
         ~Deferral(m.acts[i], c), NEW x \in Ctl, NEW cmd, cmd.seq \in Nat
  PROVE  BisIso(m, x, cmd).acts = m.acts /\ Good(BisIso(m, x, cmd), o, i, c)
<1> DEFINE j == CHOOSE k \in DOMAIN m.ctl[x].big : m.ctl[x].big[k] = cmd.handle
           iso(d) == [type |-> "Iso", handle |-> m.ctl[d].joined[j], seq |-> cmd.seq]
           news == [d \in Ctl |-> IF m.ctl[d].joined # <<>> THEN <<iso(d)>> ELSE <<>>]
           n == BisIso(m, x, cmd)
           e == iso(c)
           t == news[c]
<1>1. n \in Medium
  BY BisIsoTyped
<1>2. c \in Ctl /\ m.acts \in Seq(Act)
  BY DEF Receiver, Medium
<1>3. Deferrals(m.acts, i, c) = Deferrals(m.acts, i - 1, c)
  BY <1>2, DeferralsLeft
<1>4. CASE ~ \E k \in DOMAIN m.ctl[x].big : m.ctl[x].big[k] = cmd.handle
  <2>1. n = m
    BY <1>4 DEF BisIso
  <2> HIDE DEF n
  <2>2. Good(n, o, i, c)
    BY <1>3, <2>1, GoodAfter
  <2> QED BY <2>1, <2>2 DEF n
<1>5. CASE \E k \in DOMAIN m.ctl[x].big : m.ctl[x].big[k] = cmd.handle
  <2>1. n = Tells(m, news)
    BY <1>5 DEF BisIso, Streamed
  <2>2. j \in Bis
    <3>1. j \in DOMAIN m.ctl[x].big
      BY <1>5
    <3>2. DOMAIN m.ctl[x].big \in SUBSET Bis
      <4>1. m.ctl[x].big \in Streams \cup {<<>>}
        BY DEF Medium, Keeps
      <4> QED BY <4>1 DEF Streams
    <3> QED BY <3>1, <3>2
  <2> HIDE DEF j
  <2>3. t = IF m.ctl[c].joined # <<>> THEN <<e>> ELSE <<>>
    BY <1>2
  <2>4. ~Answering(e) /\ ~Losing(e) /\ ~Tracking(e)
    BY DEF Answering, Losing, Tracking
  <2>5. m.ctl[c].joined # <<>> => e \in Event
    <3> SUFFICES ASSUME m.ctl[c].joined # <<>> PROVE e \in Event
      OBVIOUS
    <3>1. m.ctl[c].joined \in Streams
      BY <1>2 DEF Medium, Keeps
    <3>2. m.ctl[c].joined[j] \in Nat
      BY <2>2, <3>1 DEF Streams
    <3> QED BY <3>2 DEF Event
  <2> HIDE DEF iso, news, e, t, n
  <2>6. /\ Tells(m, news).ctl = m.ctl /\ Tells(m, news).acts = m.acts
        /\ \A d \in Ctl : Tells(m, news).evts[d] = m.evts[d] \o news[d]
    BY TellsDoes
  <2>7. n.ctl = m.ctl /\ n.acts = m.acts /\ n.evts[c] = m.evts[c] \o t
    BY <1>2, <2>1, <2>6 DEF t
  <2>8. t \in Seq(Event) /\ Answers(t, 0) = {} /\ Losses(t, 0) = {} /\ Tracks(t, 0) = {}
    <3>1. CASE t = <<>>
      BY <3>1, Silent
    <3>2. CASE t = <<e>> /\ e \in Event
      BY <2>4, <3>2, Silent
    <3> QED BY <2>3, <2>5, <3>1, <3>2
  <2>9. Good(n, o, i, c)
    BY <1>1, <1>3, <2>7, <2>8, GoodKept
  <2> QED BY <2>7, <2>9 DEF n
<1> QED BY <1>4, <1>5

\* A deferred request to join is answered: with streams, if the source has a BIG.
LEMMA BigCreateSyncGood ==
  ASSUME NEW c \in Receiver, NEW m \in Medium, NEW i \in DOMAIN m.acts, NEW o, Good(m, o, i - 1, c),
         NEW x \in Ctl, NEW cmd, Deferral(m.acts[i], c) <=> x = c
  PROVE  BigCreateSync(m, x, cmd).acts = m.acts /\ Good(BigCreateSync(m, x, cmd), o, i, c)
<1> DEFINE h == Handles(m, NumBis)
           k == [m.ctl[x] EXCEPT !.joined = h]
           j == m.next + NumBis
           s == [m EXCEPT !.ctl[x].joined = h, !.next = @ + NumBis]
           y == [type |-> "BigSync", ok |-> TRUE, bis |-> h]
           z == [type |-> "BigSync", ok |-> FALSE, bis |-> <<>>]
           n == BigCreateSync(m, x, cmd)
<1>0. n \in Medium /\ h \in Streams
  BY BigCreateSyncTyped, HandlesTyped
<1>1. c \in Ctl /\ m.acts \in Seq(Act) /\ m.evts[c] \in Seq(Event) /\ m.ctl[x] \in Keeps /\ j \in Nat \ {0}
  <2>1. m.next \in Nat \ {0} /\ m.ctl[x] \in Keeps /\ m.acts \in Seq(Act) /\ c \in Ctl /\ m.evts[c] \in Seq(Event)
    BY DEF Medium, Receiver
  <2>2. j \in Nat \ {0}
    BY <2>1, BroadcastAssumption
  <2> QED BY <2>1, <2>2
<1>2. n = Tell(m, x, z) \/ (n = Tell(s, x, y) /\ m.ctl[Src].big # <<>>)
  BY DEF BigCreateSync
<1> HIDE DEF h
<1>3. y \in Event /\ Answering(y) /\ ~Losing(y) /\ ~Tracking(y) /\ Admits(y) /\ y.bis = h /\ h # <<>>
  BY <1>0, EmptyIsNoStreams DEF Event, Answering, Losing, Tracking, Admits
<1>4. z \in Event /\ Answering(z) /\ ~Losing(z) /\ ~Tracking(z) /\ ~Admits(z)
  BY DEF Event, Answering, Losing, Tracking, Admits
<1>5. k \in Keeps /\ k.joined = h /\ k.big = m.ctl[x].big /\ k.wanted = m.ctl[x].wanted /\ k.sync = m.ctl[x].sync
      /\ k.train = m.ctl[x].train /\ k.base = m.ctl[x].base
  BY <1>0, <1>1 DEF Keeps
<1>6. s = [m EXCEPT !.ctl = [@ EXCEPT ![x] = k], !.next = j]
  BY DEF Medium
<1> HIDE DEF k, j, s, y, z, n
<1>7. s \in Medium /\ s.ctl = [m.ctl EXCEPT ![x] = k] /\ s.evts = m.evts /\ s.acts = m.acts
  BY <1>1, <1>5, <1>6 DEF Medium
<1>8. \E e \in {y, z}, K \in {k, m.ctl[x]} :
        /\ n.ctl = [m.ctl EXCEPT ![x] = K] /\ n.evts = [m.evts EXCEPT ![x] = Append(@, e)]
        /\ IF e = y THEN K = k /\ m.ctl[Src].big # <<>> ELSE K = m.ctl[x]
  <2>1. CASE n = Tell(m, x, z)
    <3>1. n.ctl = m.ctl /\ n.evts = [m.evts EXCEPT ![x] = Append(@, z)]
      BY <1>4, <2>1, TellDoes
    <3>2. [m.ctl EXCEPT ![x] = m.ctl[x]] = m.ctl
      BY DEF Medium
    <3>3. z # y
      BY <1>3, <1>4
    <3> QED BY <3>1, <3>2, <3>3
  <2>2. CASE n = Tell(s, x, y) /\ m.ctl[Src].big # <<>>
    <3>1. n.ctl = [m.ctl EXCEPT ![x] = k] /\ n.evts = [m.evts EXCEPT ![x] = Append(@, y)]
      BY <1>3, <1>7, <2>2, TellDoes
    <3> QED BY <2>2, <3>1
  <2> QED BY <1>2, <2>1, <2>2
<1>9. n.acts = m.acts
  <2>1. Tell(m, x, z).acts = m.acts
    BY <1>4, TellDoes
  <2>2. Tell(s, x, y).acts = s.acts
    <3>1. s \in Medium /\ y \in Event
      BY <1>3, <1>7
    <3> QED BY <3>1, TellDoes
  <2> QED BY <1>2, <1>7, <2>1, <2>2
<1>10. PICK e \in {y, z}, K \in {k, m.ctl[x]} :
         /\ n.ctl = [m.ctl EXCEPT ![x] = K] /\ n.evts = [m.evts EXCEPT ![x] = Append(@, e)]
         /\ IF e = y THEN K = k /\ m.ctl[Src].big # <<>> ELSE K = m.ctl[x]
  BY <1>8
<1>11. K.big = m.ctl[x].big /\ K.wanted = m.ctl[x].wanted /\ K.sync = m.ctl[x].sync
       /\ K.train = m.ctl[x].train /\ K.base = m.ctl[x].base
  BY <1>5
<1>12. Kept(m, n) /\ n.ctl[Src].base = m.ctl[Src].base /\ n.ctl[Src].train = m.ctl[Src].train /\ n.ctl[Src].big = m.ctl[Src].big
  BY <1>10, <1>11, SrcIsCtl DEF Kept, Medium
<1>13. CASE x # c
  <2>1. n.ctl[c] = m.ctl[c] /\ n.evts[c] = m.evts[c]
    BY <1>1, <1>10, <1>13 DEF Medium
  <2>2. Deferrals(n.acts, i, c) = Deferrals(m.acts, i - 1, c)
    BY <1>1, <1>9, <1>13, DeferralsLeft
  <2>3. Good(n, o, i, c)
    BY <1>0, <1>12, <2>1, <2>2, GoodAfter DEF Kept, n
  <2> QED BY <1>9, <2>3 DEF n
<1>14. CASE x = c
  <2> DEFINE ev == m.evts[c]
             w == n.evts[c]
             B == Asks(cmds[c], o, "BigCreateSync")
  <2>1. n.ctl[c] = K /\ w = Append(ev, e)
    BY <1>1, <1>10, <1>14 DEF Medium
  <2>2. Deferrals(m.acts, i - 1, c) = Deferrals(n.acts, i, c) \cup {i} /\ i \notin Deferrals(n.acts, i, c)
    BY <1>1, <1>9, <1>14, DeferralTaken
  <2>3. ev \in Seq(Event) /\ e \in Event /\ ~Tracking(e) /\ Answering(e) /\ ~Losing(e)
    BY <1>1, <1>3, <1>4
  <2>4. Member(sink[c], m.ctl[c].joined, ev, B, Deferrals(m.acts, i - 1, c), Answers(ev, 0), Losses(ev, 0))
        /\ Synced(sink[c], m.ctl[c], ev, Asks(cmds[c], o, "CreateSync"), Tracks(ev, 0), m.ctl[Src].train)
        /\ (m.ctl[Src].base = 0 => sink[c].base = 0 /\ Reports(ev, 0) = {})
    BY DEF Good
  <2> HIDE DEF ev, w, B
  <2>5. Grown(ev, e, w)
    BY <2>1, <2>3, EventTold
  <2>6. /\ B = {} /\ sink[c].state = "SyncingToBig" /\ m.ctl[c].joined = <<>> /\ Deferrals(n.acts, i, c) = {}
        /\ Answers(ev, 0) = {} /\ Losses(ev, 0) = {} /\ (sink[c].bis = <<>>)
    <3>1. i \in Deferrals(m.acts, i - 1, c)
      BY <2>2
    <3>2. B = {}
      BY <2>4, <3>1 DEF Member
    <3>3. sink[c].state = "SyncingToBig" /\ m.ctl[c].joined = <<>> /\ AtMostOne(Deferrals(m.acts, i - 1, c))
          /\ Answers(ev, 0) = {} /\ Losses(ev, 0) = {}
      BY <2>4, <3>1 DEF Member
    <3>4. sink[c].bis = <<>>
      BY <2>4, <3>3 DEF Member
    <3>5. Deferrals(n.acts, i, c) = {}
      BY <2>2, <3>3 DEF AtMostOne
    <3> QED BY <3>2, <3>3, <3>4, <3>5
  <2>7. Answers(w, 0) = {Len(ev) + 1} /\ Losses(w, 0) = {} /\ w[Len(ev) + 1] = e
        /\ Tracks(w, 0) = Tracks(ev, 0) /\ Reports(w, 0) = Reports(ev, 0) /\ \A l \in DOMAIN ev : w[l] = ev[l]
    BY <2>3, <2>5, <2>6 DEF Grown
  <2>8. IF Admits(e) THEN K.joined = e.bis ELSE K.joined = <<>>
    BY <1>3, <1>4, <1>5, <1>10, <1>14, <2>6
  <2>9. Member(sink[c], n.ctl[c].joined, w, B, Deferrals(n.acts, i, c), Answers(w, 0), Losses(w, 0))
    BY <2>1, <2>4, <2>6, <2>7, <2>8 DEF Member
  <2>10. Synced(sink[c], n.ctl[c], w, Asks(cmds[c], o, "CreateSync"), Tracks(w, 0), n.ctl[Src].train)
    <3>1. \A l \in Tracks(ev, 0) : w[l] = ev[l]
      BY <2>7 DEF Tracks
    <3>2. n.ctl[c].wanted = m.ctl[c].wanted /\ n.ctl[c].sync = m.ctl[c].sync
      BY <1>11, <1>14, <2>1
    <3> QED BY <1>12, <2>4, <2>7, <3>1, <3>2 DEF Synced
  <2>11. n.ctl[c].joined # <<>> => n.ctl[Src].big # <<>>
    BY <1>3, <1>4, <1>10, <1>12, <1>14, <2>1, <2>6
  <2>12. Good(n, o, i, c)
    BY <1>12, <2>4, <2>7, <2>9, <2>10, <2>11 DEF Good, ev, w, B
  <2> QED BY <1>9, <2>12 DEF n
<1> QED BY <1>13, <1>14

\* Phase D, one deferred command.
LEMMA RoutedGood ==
  ASSUME NEW c \in Receiver, NEW m \in Medium, NEW i \in DOMAIN m.acts, NEW o, Good(m, o, i - 1, c)
  PROVE  Routed(m, m.acts[i]).acts = m.acts /\ Good(Routed(m, m.acts[i]), o, i, c)
<1> DEFINE a == m.acts[i]
           x == a.from
           cmd == a.cmd
<1>1. a \in Act
  BY DEF Medium
<1>2. x \in Ctl /\ cmd \in Routable
  BY <1>1 DEF Act
<1>3. CASE cmd.op = "BigCreateSync"
  <2>1. Deferral(a, c) <=> x = c
    BY <1>3 DEF Deferral
  <2>2. Routed(m, a) = BigCreateSync(m, x, cmd)
    BY <1>3 DEF Routed
  <2>3. BigCreateSync(m, x, cmd).acts = m.acts /\ Good(BigCreateSync(m, x, cmd), o, i, c)
    BY <1>2, <2>1, BigCreateSyncGood
  <2> QED BY <2>2, <2>3
<1>4. CASE cmd.op # "BigCreateSync"
  <2>1. ~Deferral(a, c)
    BY <1>4 DEF Deferral
  <2>2. CASE cmd.op = "CreateBig"
    <3>1. Routed(m, a) = CreateBig(m, x)
      BY <2>2 DEF Routed
    <3> QED BY <1>2, <2>1, <3>1, CreateBigGood
  <2>3. CASE cmd.op = "TerminateBig"
    <3>1. Routed(m, a) = TerminateBig(m, x)
      BY <2>3 DEF Routed
    <3> QED BY <1>2, <2>1, <3>1, TerminateBigGood
  <2>4. CASE cmd.op = "Iso"
    <3>1. Routed(m, a) = BisIso(m, x, cmd)
      BY <2>4 DEF Routed
    <3>2. cmd.seq \in Nat
      BY <1>2, <2>4 DEF Routable, Command, Plains
    <3>3. BisIso(m, x, cmd).acts = m.acts /\ Good(BisIso(m, x, cmd), o, i, c)
      BY <1>2, <2>1, <3>2, BisIsoGood
    <3> QED BY <3>1, <3>3
  <2> QED BY <1>2, <1>4, <2>2, <2>3, <2>4 DEF Routable
<1> QED BY <1>3, <1>4

\* Phase D.
LEMMA PhaseDGood ==
  ASSUME NEW c \in Receiver, NEW m \in Medium, NEW o, Good(m, o, 0, c)
  PROVE  Good(PhaseD(m), o, Len(m.acts), c) /\ PhaseD(m).acts = m.acts
<1> DEFINE s == m.acts
           U == [n \in 0 .. Len(s) |-> {u \in Medium : Good(u, o, n, c) /\ u.acts = s}]
<1>1. Len(s) \in Nat /\ (\A n \in 1 .. Len(s) : s[n] \in Act /\ n \in DOMAIN s)
  BY DEF Medium
<1>2. m \in U[0] /\ Len(s) \in 0 .. Len(s)
  BY <1>1
<1>3. \A n \in 1 .. Len(s) : n \in 0 .. Len(s) /\ n - 1 \in 0 .. Len(s)
  BY <1>1
<1>4. ASSUME NEW n \in 1 .. Len(s), NEW u \in U[n - 1] PROVE Routed(u, s[n]) \in U[n]
  <2>1. u \in Medium /\ Good(u, o, n - 1, c) /\ u.acts = s
    BY <1>3
  <2> DEFINE v == Routed(u, s[n])
  <2>2. v \in Medium /\ Good(v, o, n, c) /\ v.acts = s
    <3> HIDE DEF s
    <3>1. s[n] \in Act /\ n \in DOMAIN u.acts /\ u.acts[n] = s[n]
      BY <1>1, <2>1
    <3>2. Routed(u, u.acts[n]).acts = u.acts /\ Good(Routed(u, u.acts[n]), o, n, c)
      BY <2>1, <3>1, RoutedGood
    <3>3. Routed(u, s[n]) \in Medium
      BY <2>1, <3>1, RoutedTyped
    <3> QED BY <2>1, <3>1, <3>2, <3>3
  <2> HIDE DEF v
  <2>3. v \in U[n]
    BY <1>3, <2>2
  <2> QED BY <2>3 DEF v
<1> HIDE DEF U
<1>5. PhaseD(m) \in U[Len(s)]
  BY <1>1, <1>2, <1>4, AlongRouted
<1> QED BY <1>2, <1>5 DEF U

\* A tick begins with nothing deferred, and ends with nothing asked.
LEMMA BegunGood ==
  ASSUME TypeOK, ToldInv, NEW c \in Receiver
  PROVE  Begun \in Medium /\ Good(Begun, 0, 0, c)
<1>1. Begun \in Medium
  <2>1. <<>> \in Seq(Act)
    OBVIOUS
  <2> QED BY <2>1 DEF Begun, Medium, TypeOK
<1>2. Begun.ctl = ctl /\ Begun.evts = evts /\ Begun.acts = <<>>
  BY DEF Begun
<1>3. Deferrals(<<>>, 0, c) = {}
  BY DEF Deferrals
<1>4. Settled(sink[c], ctl[c], ctl[Src], evts[c], 0, Asks(cmds[c], 0, "BigCreateSync"), Asks(cmds[c], 0, "CreateSync"))
  BY DEF ToldInv
<1>5. ctl[Src].base = 0 => sink[c].base = 0 /\ Reports(evts[c], 0) = {}
  BY <1>4 DEF Settled, Based
<1> QED BY <1>1, <1>2, <1>3, <1>4, <1>5 DEF Good, Settled

\* What a tick tells whoever is synchronized: the BASE, and of the BIG.
Published(t, sync, base) ==
  /\ t \in Seq(Event) /\ Answers(t, 0) = {} /\ Losses(t, 0) = {} /\ Tracks(t, 0) = Reports(t, 0)
  /\ IF sync = 0 \/ base = 0 THEN Reports(t, 0) = {} ELSE Reports(t, 0) = {1} /\ t[1].sync = sync /\ t[1].base = base

\* Short queues.
LEMMA ShortQueues ==
  ASSUME NEW p \in Event, NEW i \in Event
  PROVE  /\ <<>> \in Seq(Event) /\ <<p>> \in Seq(Event) /\ <<p, i>> \in Seq(Event)
         /\ DOMAIN <<>> = {} /\ DOMAIN <<p>> = {1} /\ DOMAIN <<p, i>> = {1, 2}
         /\ <<p>>[1] = p /\ <<p, i>>[1] = p /\ <<p, i>>[2] = i
         /\ <<p>> \o <<>> = <<p>> /\ <<p>> \o <<i>> = <<p, i>> /\ <<>> \o <<i>> = <<i>> /\ <<>> \o <<>> = <<>>
<1>1. <<>> \in Seq(Event) /\ <<p>> \in Seq(Event) /\ <<p, i>> \in Seq(Event)
  OBVIOUS
<1>2. DOMAIN <<>> = {} /\ DOMAIN <<p>> = {1} /\ DOMAIN <<p, i>> = {1, 2}
  OBVIOUS
<1>3. <<p>>[1] = p /\ <<p, i>>[1] = p /\ <<p, i>>[2] = i
  OBVIOUS
<1>4. <<p>> \o <<>> = <<p>> /\ <<>> \o <<i>> = <<i>> /\ <<>> \o <<>> = <<>>
  BY <1>1
<1>5. <<p>> \o <<i>> = <<p, i>>
  <2> DEFINE t == <<p>> \o <<i>>
  <2>1. t \in Seq(Event) /\ Len(t) = 2 /\ t[1] = p /\ t[2] = i
    BY <1>1
  <2> HIDE DEF t
  <2>2. DOMAIN t = 1 .. 2
    BY <2>1
  <2>3. t = <<p, i>>
    BY <2>1, <2>2
  <2> QED BY <2>3 DEF t
<1> QED BY <1>1, <1>2, <1>3, <1>4, <1>5

\* The reports of one tick for one controller are what Published says.
LEMMA PublishedNews ==
  ASSUME NEW sync \in Nat, NEW base \in Nat, NEW x, NEW y, NEW t,
         x = IF base = 0 THEN <<>> ELSE <<[type |-> "Periodic", sync |-> sync, base |-> base]>>,
         y \in {<<>>, <<[type |-> "BigInfo", sync |-> sync, encrypted |-> SrcCode # 0]>>},
         t = IF sync # 0 THEN x \o y ELSE <<>>
  PROVE  Published(t, sync, base)
<1> DEFINE p == [type |-> "Periodic", sync |-> sync, base |-> base]
           i == [type |-> "BigInfo", sync |-> sync, encrypted |-> SrcCode # 0]
<1>1. p \in Event /\ ~Answering(p) /\ ~Losing(p) /\ Tracking(p) /\ Reporting(p) /\ p.sync = sync /\ p.base = base
  BY DEF Event, Answering, Losing, Tracking, Reporting
<1>2. i \in Event /\ ~Answering(i) /\ ~Losing(i) /\ ~Tracking(i) /\ ~Reporting(i)
  BY DEF Event, Answering, Losing, Tracking, Reporting
<1>8. x = (IF base = 0 THEN <<>> ELSE <<p>>) /\ y \in {<<>>, <<i>>}
  OBVIOUS
<1> HIDE DEF p, i
<1>3. \/ t \in {<<>>, <<i>>} /\ (sync = 0 \/ base = 0)
      \/ t \in {<<p>>, <<p, i>>} /\ sync # 0 /\ base # 0
  <2>1. <<p>> \o <<>> = <<p>> /\ <<p>> \o <<i>> = <<p, i>> /\ <<>> \o <<i>> = <<i>> /\ <<>> \o <<>> = <<>>
    BY <1>1, <1>2, ShortQueues
  <2> QED BY <1>8, <2>1
<1>4. CASE t = <<>> /\ (sync = 0 \/ base = 0)
  <2>1. DOMAIN t = {} /\ t \in Seq(Event)
    BY <1>1, <1>4, ShortQueues
  <2> QED BY <1>4, <2>1 DEF Published, Answers, Losses, Tracks, Reports
<1>5. CASE t = <<i>> /\ (sync = 0 \/ base = 0)
  <2>1. DOMAIN t = {1} /\ t[1] = i /\ t \in Seq(Event)
    BY <1>2, <1>5
  <2> QED BY <1>2, <1>5, <2>1 DEF Published, Answers, Losses, Tracks, Reports
<1>6. CASE t = <<p>> /\ sync # 0 /\ base # 0
  <2>1. DOMAIN t = {1} /\ t[1] = p /\ t \in Seq(Event)
    <3>1. p \in Event
      BY <1>1
    <3>2. DOMAIN <<p>> = {1} /\ <<p>>[1] = p /\ <<p>> \in Seq(Event)
      BY <3>1, ShortQueues
    <3> QED BY <1>6, <3>2
  <2>2. 1 > 0
    OBVIOUS
  <2> QED BY <1>1, <1>6, <2>1, <2>2 DEF Published, Answers, Losses, Tracks, Reports
<1>7. CASE t = <<p, i>> /\ sync # 0 /\ base # 0
  <2>3. DOMAIN <<p, i>> = {1, 2} /\ <<p, i>>[1] = p /\ <<p, i>>[2] = i /\ <<p, i>> \in Seq(Event)
    BY <1>1, <1>2, ShortQueues
  <2>1. DOMAIN t = {1, 2} /\ t[1] = p /\ t[2] = i /\ t \in Seq(Event)
    BY <1>7, <2>3
  <2>2. 1 > 0 /\ 2 > 0
    OBVIOUS
  <2> QED BY <1>1, <1>2, <1>7, <2>1, <2>2 DEF Published, Answers, Losses, Tracks, Reports
<1> QED BY <1>3, <1>4, <1>5, <1>6, <1>7

\* The last phase of a tick brings the BASE up to date.
LEMMA PeriodicAdvertisingSettled ==
  ASSUME NEW c \in Receiver, NEW m \in Medium, NEW o, NEW a, Good(m, o, a, c),
         Asks(cmds[c], o, "BigCreateSync") = {}, Asks(cmds[c], o, "CreateSync") = {}, Deferrals(m.acts, a, c) = {}
  PROVE  /\ PeriodicAdvertising(m).ctl = m.ctl
         /\ Settled(sink[c], m.ctl[c], m.ctl[Src], PeriodicAdvertising(m).evts[c], 0, {}, {})
<1> DEFINE k == m.ctl[Src]
           base(x) == IF k.base = 0 THEN <<>> ELSE <<[type |-> "Periodic", sync |-> m.ctl[x].sync, base |-> k.base]>>
           big(x) == IF k.big = <<>> THEN <<>> ELSE <<[type |-> "BigInfo", sync |-> m.ctl[x].sync, encrypted |-> SrcCode # 0]>>
           news == [x \in Ctl |-> IF m.ctl[x].sync # 0 /\ k.train THEN base(x) \o big(x) ELSE <<>>]
           n == PeriodicAdvertising(m)
           ev == m.evts[c]
           w == n.evts[c]
           t == news[c]
           sync == m.ctl[c].sync
<1>1. c \in Ctl /\ ev \in Seq(Event) /\ sync \in Nat /\ k.base \in Nat
  BY SrcIsCtl DEF Receiver, Medium, Keeps
<1>2. /\ Member(sink[c], m.ctl[c].joined, ev, {}, {}, Answers(ev, 0), Losses(ev, 0))
      /\ Synced(sink[c], m.ctl[c], ev, {}, Tracks(ev, 0), k.train)
      /\ k.base = 0 => sink[c].base = 0 /\ Reports(ev, 0) = {}
      /\ m.ctl[c].joined # <<>> => k.big # <<>>
  BY DEF Good
<1>3. sync # 0 => k.train
  BY <1>2 DEF Synced
<1>4. t = IF sync # 0 THEN base(c) \o big(c) ELSE <<>>
  BY <1>1, <1>3
<1>5. Published(t, sync, k.base)
  <2> DEFINE p == [type |-> "Periodic", sync |-> sync, base |-> k.base]
             i == [type |-> "BigInfo", sync |-> sync, encrypted |-> SrcCode # 0]
             x == base(c)
             y == big(c)
  <2>1. x = (IF k.base = 0 THEN <<>> ELSE <<p>>) /\ y \in {<<>>, <<i>>}
    OBVIOUS
  <2> HIDE DEF base, big, t
  <2>2. t = IF sync # 0 THEN x \o y ELSE <<>>
    BY <1>4
  <2> HIDE DEF x, y
  <2> QED BY <1>1, <2>1, <2>2, PublishedNews
<1>6. n = Tells(m, news)
  BY DEF PeriodicAdvertising
<1> HIDE DEF base, big, news, n, t
<1>7. /\ Tells(m, news).ctl = m.ctl /\ \A x \in Ctl : Tells(m, news).evts[x] = m.evts[x] \o news[x]
  BY TellsDoes
<1>8. n.ctl = m.ctl /\ w = ev \o t
  BY <1>1, <1>6, <1>7 DEF t
<1> DEFINE l == Len(ev) + 1
<1>9. /\ Answers(w, 0) = Answers(ev, 0) /\ Losses(w, 0) = Losses(ev, 0)
      /\ \A j \in DOMAIN ev : w[j] = ev[j] /\ j < l
      /\ IF sync = 0 \/ k.base = 0 THEN Tracks(w, 0) = Tracks(ev, 0) /\ Reports(w, 0) = Reports(ev, 0)
         ELSE /\ Tracks(w, 0) = Tracks(ev, 0) \cup {l} /\ Reports(w, 0) = Reports(ev, 0) \cup {l}
              /\ w[l].sync = sync /\ w[l].base = k.base
  <2> HIDE DEF ev, sync, k, w
  <2> DEFINE v == ev \o t
  <2>1. /\ Answers(v, 0) = Answers(ev, 0) \cup {i \in DOMAIN v : i - Len(ev) \in Answers(t, 0)}
        /\ Losses(v, 0) = Losses(ev, 0) \cup {i \in DOMAIN v : i - Len(ev) \in Losses(t, 0)}
        /\ Tracks(v, 0) = Tracks(ev, 0) \cup {i \in DOMAIN v : i - Len(ev) \in Tracks(t, 0)}
        /\ Reports(v, 0) = Reports(ev, 0) \cup {i \in DOMAIN v : i - Len(ev) \in Reports(t, 0)}
        /\ \A i \in DOMAIN ev : v[i] = ev[i]
        /\ \A i \in DOMAIN v : i - Len(ev) \in DOMAIN t => v[i] = t[i - Len(ev)]
    BY <1>1, <1>5, EventsAfter DEF Published
  <2>2. \A j \in DOMAIN ev : j < l
    BY <1>1
  <2>3. Reports(t, 0) \subseteq DOMAIN t
    BY DEF Reports
  <2>4. 1 \in DOMAIN t => l \in DOMAIN v /\ l - Len(ev) = 1 /\ \A i \in DOMAIN v : i - Len(ev) = 1 <=> i = l
    BY <1>1, <1>5 DEF Published
  <2> HIDE DEF v, l
  <2>5. CASE sync = 0 \/ k.base = 0
    <3>1. Tracks(t, 0) = {} /\ Reports(t, 0) = {} /\ Answers(t, 0) = {} /\ Losses(t, 0) = {}
      BY <1>5, <2>5 DEF Published
    <3> QED BY <1>8, <2>1, <2>2, <2>5, <3>1 DEF v
  <2>6. CASE ~(sync = 0 \/ k.base = 0)
    <3>1. Tracks(t, 0) = {1} /\ Reports(t, 0) = {1} /\ Answers(t, 0) = {} /\ Losses(t, 0) = {}
          /\ t[1].sync = sync /\ t[1].base = k.base
      BY <1>5, <2>6 DEF Published
    <3>2. 1 \in DOMAIN t
      BY <2>3, <3>1
    <3>3. {i \in DOMAIN v : i - Len(ev) \in {1}} = {l} /\ v[l] = t[1]
      BY <2>1, <2>4, <3>2
    <3> QED BY <1>8, <2>1, <2>2, <2>6, <3>1, <3>3 DEF v
  <2> QED BY <2>5, <2>6
<1>10. Answers(ev, 0) \subseteq DOMAIN ev /\ Tracks(ev, 0) \subseteq DOMAIN ev /\ Reports(ev, 0) \subseteq DOMAIN ev
       /\ Reports(ev, 0) \subseteq Tracks(ev, 0) /\ DOMAIN ev \subseteq Int
  BY <1>1 DEF Answers, Tracks, Reports, Tracking, Reporting
<1>20. l \in Int
  BY <1>1
<1> HIDE DEF ev, w, k, l
<1>11. Member(sink[c], m.ctl[c].joined, w, {}, {}, Answers(w, 0), Losses(w, 0))
  <2>1. \A j \in Answers(ev, 0) : w[j] = ev[j]
    BY <1>9, <1>10
  <2> QED BY <1>2, <1>9, <2>1 DEF Member
<1>12. Synced(sink[c], m.ctl[c], w, {}, Tracks(w, 0), k.train)
  <2>1. \A j \in Tracks(ev, 0) : w[j] = ev[j]
    BY <1>9, <1>10
  <2>2. \A j \in Tracks(w, 0) : w[j].sync = m.ctl[c].sync /\ m.ctl[c].sync # 0
    BY <1>2, <1>9, <2>1 DEF Synced
  <2> QED BY <1>2, <2>2 DEF Synced
<1>13. Based(sink[c], w, Reports(w, 0), k.base)
  <2>1. CASE k.base = 0
    BY <1>2, <1>9, <2>1 DEF Based
  <2>2. CASE sync = 0
    <3>1. Tracks(ev, 0) = {} /\ sink[c].sync = 0
      BY <1>2, <2>2 DEF Synced
    <3>2. sink[c].base = 0 /\ Reports(w, 0) = {}
      BY <1>2, <1>9, <1>10, <2>2, <3>1 DEF Synced
    <3> QED BY <3>2 DEF Based
  <2>3. CASE k.base # 0 /\ sync # 0
    <3>1. Reports(w, 0) = Reports(ev, 0) \cup {l} /\ w[l].base = k.base
      BY <1>9, <2>3
    <3>2. \A j \in Reports(ev, 0) : j < l /\ j \in Int
      BY <1>9, <1>10
    <3>3. \A i \in Reports(w, 0) : (\A j \in Reports(w, 0) : j <= i) => i = l
      BY <1>20, <3>1, <3>2
    <3> QED BY <2>3, <3>1, <3>3 DEF Based
  <2> QED BY <2>1, <2>2, <2>3
<1>14. Settled(sink[c], m.ctl[c], k, w, 0, {}, {})
  BY <1>2, <1>11, <1>12, <1>13 DEF Settled
<1> QED BY <1>8, <1>14 DEF k, w, n

\* A tick of the medium keeps what the receivers know and their controllers have in step.
LEMMA TickTold == ASSUME TypeOK, ToldInv, Tick PROVE ToldInv'
<1> SUFFICES ASSUME NEW c \in Receiver
             PROVE  Settled(sink'[c], ctl'[c], ctl'[Src], evts'[c], 0, Asks(cmds'[c], 0, "BigCreateSync"), Asks(cmds'[c], 0, "CreateSync"))
  BY DEF ToldInv
<1> DEFINE m1 == PhaseA(Begun)
           m2 == ExtendedAdvertising(m1)
           m3 == PeriodicSyncRequests(m2)
           m4 == PhaseD(m3)
           o == Len(cmds[c])
<1>1. c \in Ctl /\ cmds \in [Ctl -> Seq(Command)] /\ cmds[c] \in Seq(Command)
  BY DEF Receiver, TypeOK
<1>2. Begun \in Medium /\ Good(Begun, 0, 0, c)
  BY BegunGood
<1>3. m1 \in Medium /\ Good(m1, o, 0, c)
  BY <1>1, <1>2, PhaseAGood
<1> HIDE DEF m1
<1>4. m2 \in Medium /\ Good(m2, o, 0, c)
  BY <1>3, ExtendedAdvertisingTyped, ExtendedAdvertisingGood
<1> HIDE DEF m2
<1>5. m3 \in Medium /\ Good(m3, o, 0, c)
  BY <1>4, PeriodicSyncRequestsTyped, PeriodicSyncRequestsGood
<1> HIDE DEF m3
<1>6. m4 \in Medium /\ Good(m4, o, Len(m3.acts), c) /\ m4.acts = m3.acts
  BY <1>5, PhaseDTyped, PhaseDGood
<1>7. Deferrals(m4.acts, Len(m3.acts), c) = {}
  BY <1>5, <1>6, DeferralsTaken DEF Medium
<1>8. /\ Asks(cmds[c], o, "BigCreateSync") = {} /\ Asks(cmds[c], o, "CreateSync") = {}
      /\ Asks(<<>>, 0, "BigCreateSync") = {} /\ Asks(<<>>, 0, "CreateSync") = {}
  BY <1>1, CommandsTaken
<1> HIDE DEF m4, o
<1>9. /\ PeriodicAdvertising(m4).ctl = m4.ctl
      /\ Settled(sink[c], m4.ctl[c], m4.ctl[Src], PeriodicAdvertising(m4).evts[c], 0, {}, {})
  BY <1>6, <1>7, <1>8, PeriodicAdvertisingSettled
<1>10. Ticked = PeriodicAdvertising(m4)
  BY DEF Ticked, m1, m2, m3, m4
<1>11. ctl' = Ticked.ctl /\ evts' = Ticked.evts /\ cmds' = [x \in Ctl |-> <<>>] /\ sink' = sink
  BY DEF Tick, Ticked
<1>12. Settled(sink'[c], ctl'[c], ctl'[Src], evts'[c], 0, {}, {})
  BY <1>9, <1>10, <1>11
<1>13. cmds'[c] = <<>>
  BY <1>1, <1>11
<1> QED BY <1>8, <1>12, <1>13

\* What a receiver r becomes, v, and what it asks for, on an event e.
Asking(out) == {out[i].op : i \in DOMAIN out} \cap {"BigCreateSync", "CreateSync"}

Stays(r, e, v, out) ==
  /\ Asking(out) = {} /\ v.bis = r.bis /\ ~Losing(e) /\ (Answering(e) => r.state # "SyncingToBig")
  /\ \/ v.state = r.state
     \/ r.state = "SettingScanParameters" /\ v.state = "Scanning"
     \/ r.state = "OpeningDataPaths" /\ v.state = "Receiving"
     \/ r.state \in {"SyncingToPeriodicAdvertising", "WaitingForAnnouncement"} /\ v.state \in {"WaitingForAnnouncement", "Failed"}
Seeks(r, e, v, out) ==
  /\ out = <<Plain("CreateSync")>> /\ v.bis = r.bis /\ ~Losing(e) /\ ~Answering(e)
  /\ r.state = "Scanning" /\ v.state = "SyncingToPeriodicAdvertising"
Requests(r, e, v, out) ==
  /\ \E x \in Command : out = <<x>> /\ x.op = "BigCreateSync"
  /\ v.bis = r.bis /\ ~Losing(e) /\ ~Answering(e)
  /\ r.state = "WaitingForAnnouncement" /\ v.state = "SyncingToBig"
Answered(r, e, v, out) ==
  /\ Asking(out) = {} /\ Answering(e) /\ ~Losing(e) /\ r.state = "SyncingToBig"
  /\ IF Admits(e) THEN v.bis = e.bis /\ e.bis # <<>> /\ v.state = "OpeningDataPaths" ELSE v.bis = r.bis /\ v.state = "Failed"
Loses(r, e, v, out) ==
  Asking(out) = {} /\ Losing(e) /\ ~Answering(e) /\ v.bis = <<>> /\ v.state \in {"Lost", "Terminated"}

Moves(r, e, v, out) ==
  /\ IF e.type = "SyncEstablished" /\ r.state = "SyncingToPeriodicAdvertising" THEN v.sync = e.sync ELSE v.sync = r.sync
  /\ IF e.type = "Periodic" /\ e.sync = r.sync THEN v.base = e.base ELSE v.base = r.base
  /\ \/ Stays(r, e, v, out) \/ Seeks(r, e, v, out) \/ Requests(r, e, v, out)
     \/ Answered(r, e, v, out) \/ Loses(r, e, v, out)

\* What a short queue of commands asks for.
LEMMA Outs ==
  /\ Asking(<<>>) = {}
  /\ \A x : Asking(<<x>>) = {x.op} \cap {"BigCreateSync", "CreateSync"}
<1>1. DOMAIN <<>> = {} /\ \A x : DOMAIN <<x>> = {1} /\ <<x>>[1] = x
  OBVIOUS
<1>2. Asking(<<>>) = {}
  BY <1>1 DEF Asking
<1>3. ASSUME NEW x PROVE Asking(<<x>>) = {x.op} \cap {"BigCreateSync", "CreateSync"}
  <2> DEFINE t == <<x>>
  <2>1. DOMAIN t = {1} /\ t[1] = x
    BY <1>1
  <2> HIDE DEF t
  <2>2. {t[i].op : i \in DOMAIN t} = {x.op}
    BY <2>1
  <2>3. Asking(t) = {x.op} \cap {"BigCreateSync", "CreateSync"}
    BY <2>2 DEF Asking
  <2> QED BY <2>3 DEF t
<1> QED BY <1>2, <1>3

\* BIG Create Sync goes out from WaitingForAnnouncement only.
LEMMA ReadyMoves ==
  ASSUME NEW r \in Sinks, NEW w \in Sinks, NEW c \in Receiver, NEW e, ~Losing(e), ~Answering(e),
         w.state = r.state, w.bis = r.bis
  PROVE  LET n == BigCreateSyncIfReady(w, c)
         IN /\ n.r.sync = w.sync /\ n.r.base = w.base
            /\ Stays(r, e, n.r, n.out) \/ Requests(r, e, n.r, n.out)
<1> DEFINE x == [op |-> "BigCreateSync", sync |-> w.sync, encrypted |-> w.info = "encrypted", code |-> Code[c]]
           v1 == [w EXCEPT !.state = "Failed"]
           v2 == [w EXCEPT !.state = "SyncingToBig"]
           n == BigCreateSyncIfReady(w, c)
<1>1. \/ n = [r |-> w, out |-> <<>>]
      \/ n = [r |-> v1, out |-> <<>>] /\ w.state = "WaitingForAnnouncement"
      \/ n = [r |-> v2, out |-> <<x>>] /\ w.state = "WaitingForAnnouncement"
  BY DEF BigCreateSyncIfReady
<1>2. x \in Command /\ x.op = "BigCreateSync"
  BY DEF Command, Sinks, Receiver
<1>3. /\ v1.state = "Failed" /\ v1.bis = w.bis /\ v1.sync = w.sync /\ v1.base = w.base
      /\ v2.state = "SyncingToBig" /\ v2.bis = w.bis /\ v2.sync = w.sync /\ v2.base = w.base
  BY DEF Sinks
<1> HIDE DEF x, v1, v2, n
<1>4. CASE n = [r |-> w, out |-> <<>>]
  <2>1. n.r = w /\ n.out = <<>>
    BY <1>4
  <2> QED BY <2>1, Outs DEF Stays, n
<1>5. CASE n = [r |-> v1, out |-> <<>>] /\ w.state = "WaitingForAnnouncement"
  <2>1. n.r = v1 /\ n.out = <<>>
    BY <1>5
  <2> QED BY <1>3, <1>5, <2>1, Outs DEF Stays, n
<1>6. CASE n = [r |-> v2, out |-> <<x>>] /\ w.state = "WaitingForAnnouncement"
  <2>1. n.r = v2 /\ n.out = <<x>>
    BY <1>6
  <2> QED BY <1>2, <1>3, <1>6, <2>1 DEF Requests, n
<1> QED BY <1>1, <1>4, <1>5, <1>6

\* The receiver on a Command Complete moves as the diagram says.
LEMMA CompleteMoves ==
  ASSUME NEW r \in Sinks, NEW e \in Event, e.type = "Complete"
  PROVE  Moves(r, e, ReceiverOnComplete(r, e).r, ReceiverOnComplete(r, e).out)
<1> DEFINE o == r.open + 1
           q == [op |-> "ScanEnable", on |-> TRUE]
           x == Plain("DataPath")
           r1 == [r EXCEPT !.state = "Scanning"]
           r2 == [r EXCEPT !.open = o, !.state = "Receiving"]
           r3 == [r EXCEPT !.open = o]
           r4 == [r EXCEPT !.bis = <<>>, !.state = "Terminated"]
           n == ReceiverOnComplete(r, e)
<1>1. \/ n = [r |-> r1, out |-> <<q>>] /\ r.state = "SettingScanParameters" /\ e.op = "ScanParameters"
      \/ n = [r |-> r2, out |-> <<>>] /\ r.state = "OpeningDataPaths" /\ e.op = "DataPath"
      \/ n = [r |-> r3, out |-> <<x>>] /\ r.state = "OpeningDataPaths" /\ e.op = "DataPath"
      \/ n = [r |-> r4, out |-> <<>>] /\ e.op = "BigTerminateSync" /\ e.ok
      \/ n = [r |-> r, out |-> <<>>] /\ ~(e.op = "BigTerminateSync" /\ e.ok)
  BY DEF ReceiverOnComplete
<1>2. ~Answering(e) /\ (Losing(e) <=> e.op = "BigTerminateSync" /\ e.ok)
  BY DEF Answering, Losing
<1>3. Asking(<<q>>) = {} /\ Asking(<<x>>) = {} /\ Asking(<<>>) = {}
  <2>1. q.op = "ScanEnable" /\ x.op = "DataPath"
    BY DEF Plain
  <2> HIDE DEF q, x
  <2> QED BY <2>1, Outs
<1>4. /\ r1.state = "Scanning" /\ r1.bis = r.bis /\ r1.sync = r.sync /\ r1.base = r.base
      /\ r2.state = "Receiving" /\ r2.bis = r.bis /\ r2.sync = r.sync /\ r2.base = r.base
      /\ r3.state = r.state /\ r3.bis = r.bis /\ r3.sync = r.sync /\ r3.base = r.base
      /\ r4.state = "Terminated" /\ r4.bis = <<>> /\ r4.sync = r.sync /\ r4.base = r.base
  BY DEF Sinks
<1> HIDE DEF q, x, r1, r2, r3, r4, n
<1>5. \/ n.r = r1 /\ n.out = <<q>> /\ r.state = "SettingScanParameters" /\ e.op = "ScanParameters"
      \/ n.r = r2 /\ n.out = <<>> /\ r.state = "OpeningDataPaths" /\ e.op = "DataPath"
      \/ n.r = r3 /\ n.out = <<x>> /\ r.state = "OpeningDataPaths" /\ e.op = "DataPath"
      \/ n.r = r4 /\ n.out = <<>> /\ e.op = "BigTerminateSync" /\ e.ok
      \/ n.r = r /\ n.out = <<>> /\ ~(e.op = "BigTerminateSync" /\ e.ok)
  BY <1>1
<1>6. n.r.sync = r.sync /\ n.r.base = r.base
  BY <1>4, <1>5
<1>7. Stays(r, e, n.r, n.out) \/ Loses(r, e, n.r, n.out)
  BY <1>2, <1>3, <1>4, <1>5 DEF Stays, Loses
<1> QED BY <1>6, <1>7 DEF Moves, n

\* The receiver's handler for every event (device/big_receiver.rs) follows the diagram.
LEMMA PacketMoves ==
  ASSUME NEW r \in Sinks, NEW c \in Receiver, NEW e \in Event
  PROVE  Moves(r, e, ReceiverOnPacket(r, c, e).r, ReceiverOnPacket(r, c, e).out)
<1> DEFINE n == ReceiverOnPacket(r, c, e)
<1>1. Asking(<<>>) = {}
  BY Outs
<1>2. CASE e.type = "Complete"
  <2>1. n = ReceiverOnComplete(r, e)
    BY <1>2 DEF ReceiverOnPacket
  <2> QED BY <1>2, <2>1, CompleteMoves
<1>3. CASE e.type = "Status"
  <2> DEFINE q == [r EXCEPT !.state = "Failed"]
  <2>1. n.out = <<>> /\ n.r = ReceiverOnStatus(r, e)
    BY <1>3 DEF ReceiverOnPacket
  <2>2. q.state = "Failed" /\ q.bis = r.bis /\ q.sync = r.sync /\ q.base = r.base
    BY DEF Sinks
  <2>3. ~Losing(e) /\ ~Admits(e) /\ (Answering(e) <=> e.op = "BigCreateSync" /\ ~e.ok)
    BY <1>3 DEF Losing, Answering, Admits
  <2>4. \/ n.r = q /\ ~e.ok /\ (\/ r.state = "SyncingToPeriodicAdvertising" /\ e.op = "CreateSync"
                                \/ r.state = "SyncingToBig" /\ e.op = "BigCreateSync")
        \/ n.r = r /\ ~(~e.ok /\ r.state = "SyncingToBig" /\ e.op = "BigCreateSync")
    BY <2>1 DEF ReceiverOnStatus
  <2> HIDE DEF q, n
  <2>5. n.r.sync = r.sync /\ n.r.base = r.base
    BY <2>2, <2>4
  <2>6. Stays(r, e, n.r, n.out) \/ Answered(r, e, n.r, n.out)
    BY <1>1, <2>1, <2>2, <2>3, <2>4 DEF Stays, Answered
  <2> QED BY <1>3, <2>5, <2>6 DEF Moves, n
<1>4. CASE e.type = "Report"
  <2> DEFINE q == [r EXCEPT !.state = "SyncingToPeriodicAdvertising"]
  <2>1. \/ n.r = q /\ n.out = <<Plain("CreateSync")>> /\ r.state = "Scanning"
        \/ n.r = r /\ n.out = <<>>
    BY <1>4 DEF ReceiverOnPacket
  <2>2. q.state = "SyncingToPeriodicAdvertising" /\ q.bis = r.bis /\ q.sync = r.sync /\ q.base = r.base
    BY DEF Sinks
  <2>3. ~Losing(e) /\ ~Answering(e)
    BY <1>4 DEF Losing, Answering
  <2> HIDE DEF q, n
  <2>4. n.r.sync = r.sync /\ n.r.base = r.base
    BY <2>1, <2>2
  <2>5. Stays(r, e, n.r, n.out) \/ Seeks(r, e, n.r, n.out)
    BY <1>1, <2>1, <2>2, <2>3 DEF Stays, Seeks
  <2> QED BY <1>4, <2>4, <2>5 DEF Moves, n
<1>5. CASE e.type = "SyncEstablished"
  <2> DEFINE q == [r EXCEPT !.state = "WaitingForAnnouncement", !.sync = e.sync]
  <2>1. n.out = <<>> /\ n.r = IF r.state = "SyncingToPeriodicAdvertising" THEN q ELSE r
    BY <1>5 DEF ReceiverOnPacket
  <2>2. q.state = "WaitingForAnnouncement" /\ q.bis = r.bis /\ q.sync = e.sync /\ q.base = r.base
    BY DEF Sinks
  <2>3. ~Losing(e) /\ ~Answering(e)
    BY <1>5 DEF Losing, Answering
  <2> HIDE DEF q, n
  <2>4. Stays(r, e, n.r, n.out)
    BY <1>1, <2>1, <2>2, <2>3 DEF Stays
  <2> QED BY <1>5, <2>1, <2>2, <2>4 DEF Moves, n
<1>6. CASE e.type = "Periodic"
  <2> DEFINE w == [r EXCEPT !.base = e.base]
  <2>1. n = OnPeriodicReport(r, c, e)
    BY <1>6 DEF ReceiverOnPacket
  <2>2. w \in Sinks /\ w.state = r.state /\ w.bis = r.bis /\ w.sync = r.sync /\ w.base = e.base
    BY <1>6 DEF Sinks, Event
  <2>3. ~Losing(e) /\ ~Answering(e)
    BY <1>6 DEF Losing, Answering
  <2>4. CASE e.sync # r.sync
    <3>1. n.r = r /\ n.out = <<>>
      BY <2>1, <2>4 DEF OnPeriodicReport
    <3> HIDE DEF n
    <3>2. Stays(r, e, n.r, n.out)
      BY <1>1, <2>3, <3>1 DEF Stays
    <3> QED BY <1>6, <2>4, <3>1, <3>2 DEF Moves, n
  <2>5. CASE e.sync = r.sync
    <3>1. n = BigCreateSyncIfReady(w, c)
      BY <2>1, <2>5 DEF OnPeriodicReport
    <3> HIDE DEF n, w
    <3>2. n.r.sync = w.sync /\ n.r.base = w.base /\ (Stays(r, e, n.r, n.out) \/ Requests(r, e, n.r, n.out))
      BY <2>2, <2>3, <3>1, ReadyMoves
    <3> QED BY <1>6, <2>2, <2>5, <3>2 DEF Moves, n
  <2> QED BY <2>4, <2>5
<1>7. CASE e.type = "BigInfo"
  <2> DEFINE i == IF e.encrypted THEN "encrypted" ELSE "open"
             w == [r EXCEPT !.info = i]
  <2>1. n = OnBigInfo(r, c, e)
    BY <1>7 DEF ReceiverOnPacket
  <2>0. i \in {"encrypted", "open"}
    OBVIOUS
  <2>6. BigCreateSyncIfReady([r EXCEPT !.info = IF e.encrypted THEN "encrypted" ELSE "open"], c) = BigCreateSyncIfReady(w, c)
    OBVIOUS
  <2> HIDE DEF i
  <2>2. w \in Sinks /\ w.state = r.state /\ w.bis = r.bis /\ w.sync = r.sync /\ w.base = r.base
    BY <2>0 DEF Sinks
  <2>3. ~Losing(e) /\ ~Answering(e)
    BY <1>7 DEF Losing, Answering
  <2>4. CASE e.sync # r.sync
    <3>1. n.r = r /\ n.out = <<>>
      BY <2>1, <2>4 DEF OnBigInfo
    <3> HIDE DEF n
    <3>2. Stays(r, e, n.r, n.out)
      BY <1>1, <2>3, <3>1 DEF Stays
    <3> QED BY <1>7, <3>1, <3>2 DEF Moves, n
  <2>5. CASE e.sync = r.sync
    <3>1. n = BigCreateSyncIfReady(w, c)
      BY <2>1, <2>5, <2>6 DEF OnBigInfo
    <3> HIDE DEF n, w
    <3>2. n.r.sync = w.sync /\ n.r.base = w.base /\ (Stays(r, e, n.r, n.out) \/ Requests(r, e, n.r, n.out))
      BY <2>2, <2>3, <3>1, ReadyMoves
    <3> QED BY <1>7, <2>2, <3>2 DEF Moves, n
  <2> QED BY <2>4, <2>5
<1>8. CASE e.type = "BigSync"
  <2> DEFINE v == [r EXCEPT !.state = "Failed"]
             w == [r EXCEPT !.state = "OpeningDataPaths", !.bis = e.bis, !.open = 0]
             x == Plain("DataPath")
  <2>1. n = OnBigSyncEstablished(r, e)
    BY <1>8 DEF ReceiverOnPacket
  <2>2. \/ n.r = r /\ n.out = <<>> /\ r.state # "SyncingToBig"
        \/ n.r = v /\ n.out = <<>> /\ r.state = "SyncingToBig" /\ ~e.ok
        \/ n.r = w /\ n.out = <<x>> /\ r.state = "SyncingToBig" /\ e.ok
    BY <2>1 DEF OnBigSyncEstablished
  <2>3. /\ v.state = "Failed" /\ v.bis = r.bis /\ v.sync = r.sync /\ v.base = r.base
        /\ w.state = "OpeningDataPaths" /\ w.bis = e.bis /\ w.sync = r.sync /\ w.base = r.base
    BY DEF Sinks
  <2>4. e.ok => e.bis # <<>>
    <3>1. e.ok => e.bis \in Streams
      BY <1>8 DEF Event
    <3> QED BY <3>1, EmptyIsNoStreams
  <2>5. Asking(<<x>>) = {}
    <3>1. x.op = "DataPath"
      BY DEF Plain
    <3> HIDE DEF x
    <3> QED BY <3>1, Outs
  <2>6. ~Losing(e) /\ Answering(e) /\ (Admits(e) <=> e.ok)
    BY <1>8 DEF Losing, Answering, Admits
  <2> HIDE DEF v, w, x, n
  <2>7. n.r.sync = r.sync /\ n.r.base = r.base
    BY <2>2, <2>3
  <2>8. Stays(r, e, n.r, n.out) \/ Answered(r, e, n.r, n.out)
    BY <1>1, <2>2, <2>3, <2>4, <2>5, <2>6 DEF Stays, Answered
  <2> QED BY <1>8, <2>7, <2>8 DEF Moves, n
<1>9. CASE e.type = "BigLost"
  <2> DEFINE v == [r EXCEPT !.bis = <<>>, !.state = "Lost"]
  <2>1. n.r = v /\ n.out = <<>>
    BY <1>9 DEF ReceiverOnPacket
  <2>2. v.state = "Lost" /\ v.bis = <<>> /\ v.sync = r.sync /\ v.base = r.base
    BY DEF Sinks
  <2>3. Losing(e) /\ ~Answering(e)
    BY <1>9 DEF Losing, Answering
  <2> HIDE DEF v, n
  <2>4. Loses(r, e, n.r, n.out)
    BY <1>1, <2>1, <2>2, <2>3 DEF Loses
  <2> QED BY <1>9, <2>1, <2>2, <2>4 DEF Moves, n
<1>10. CASE e.type = "Iso"
  <2>1. n.r = OnIso(r, e) /\ n.out = <<>>
    BY <1>10 DEF ReceiverOnPacket
  <2>2. OnIso(r, e).state = r.state /\ OnIso(r, e).bis = r.bis /\ OnIso(r, e).sync = r.sync /\ OnIso(r, e).base = r.base
    <3> DEFINE k == CHOOSE k \in DOMAIN r.bis : r.bis[k] = e.handle
               h == [r.heard EXCEPT ![k] = e.seq]
               g == r.gap \/ (r.heard[k] # 0 /\ e.seq # r.heard[k] + 1)
    <3>1. OnIso(r, e) = r \/ OnIso(r, e) = [r EXCEPT !.heard = h, !.gap = g]
      BY DEF OnIso, Sinks
    <3> HIDE DEF h, g
    <3> QED BY <3>1 DEF Sinks
  <2>3. ~Losing(e) /\ ~Answering(e)
    BY <1>10 DEF Losing, Answering
  <2> HIDE DEF n
  <2>4. Stays(r, e, n.r, n.out)
    BY <1>1, <2>1, <2>2, <2>3 DEF Stays
  <2> QED BY <1>10, <2>1, <2>2, <2>4 DEF Moves, n
<1>11. CASE e.type \notin {"Complete", "Status", "Report", "SyncEstablished", "Periodic", "BigInfo", "BigSync", "BigLost", "Iso"}
  <2>1. n.r = r /\ n.out = <<>>
    BY <1>11 DEF ReceiverOnPacket
  <2>2. ~Losing(e) /\ ~Answering(e)
    BY <1>11 DEF Losing, Answering
  <2> HIDE DEF n
  <2>3. Stays(r, e, n.r, n.out)
    BY <1>1, <2>1, <2>2 DEF Stays
  <2> QED BY <1>11, <2>1, <2>3 DEF Moves, n
<1> QED BY <1>2, <1>3, <1>4, <1>5, <1>6, <1>7, <1>8, <1>9, <1>10, <1>11

\* Commands that ask for nothing add no position.
LEMMA AskedNothing ==
  ASSUME NEW q \in Seq(Command), NEW out \in Seq(Command), NEW op \in {"BigCreateSync", "CreateSync"}, op \notin Asking(out)
  PROVE  Asks(q \o out, 0, op) = Asks(q, 0, op)
<1>1. Asks(q \o out, 0, op) = Asks(q, 0, op) \cup {i \in DOMAIN (q \o out) : i - Len(q) \in Asks(out, 0, op)}
  BY CommandsAfter
<1>2. Asks(out, 0, op) = {}
  BY DEF Asks, Asking
<1> QED BY <1>1, <1>2

\* Queues are joined in any grouping.
LEMMA OneAfterTheOther ==
  ASSUME NEW s \in Seq(Command), NEW t \in Seq(Command), NEW u \in Seq(Command)
  PROVE  s \o (t \o u) = (s \o t) \o u
OBVIOUS

\* One command more, at the end of a queue.
LEMMA AskedOne ==
  ASSUME NEW q \in Seq(Command), NEW x \in Command, NEW op
  PROVE  /\ x.op = op /\ Asks(q, 0, op) = {} => Asks(q \o <<x>>, 0, op) # {} /\ AtMostOne(Asks(q \o <<x>>, 0, op))
         /\ x.op # op => Asks(q \o <<x>>, 0, op) = Asks(q, 0, op)
<1>1. q \o <<x>> = Append(q, x)
  OBVIOUS
<1>2. Asks(Append(q, x), 0, op) = Asks(q, 0, op) \cup (IF x.op = op THEN {Len(q) + 1} ELSE {})
  BY CommandAfter
<1>3. CASE x.op = op
  <2>1. Asks(q \o <<x>>, 0, op) = Asks(q, 0, op) \cup {Len(q) + 1}
    BY <1>1, <1>2, <1>3
  <2> QED BY <1>3, <2>1 DEF AtMostOne
<1>4. CASE x.op # op
  BY <1>1, <1>2, <1>4
<1> QED BY <1>3, <1>4

\* Whatever its next event is, a receiver stays in step with its controller on its way in and out.
LEMMA MemberMoves ==
  ASSUME NEW r, NEW v, NEW joined, NEW ev \in Seq(Event), NEW n \in DOMAIN ev,
         NEW q \in Seq(Command), NEW out \in Seq(Command), Moves(r, ev[n], v, out),
         Member(r, joined, ev, Asks(q, 0, "BigCreateSync"), {}, Answers(ev, n - 1), Losses(ev, n - 1))
  PROVE  Member(v, joined, ev, Asks(q \o out, 0, "BigCreateSync"), {}, Answers(ev, n), Losses(ev, n))
<1> DEFINE e == ev[n]
           K == Asks(q, 0, "BigCreateSync")
           K2 == Asks(q \o out, 0, "BigCreateSync")
           A == Answers(ev, n)
           L == Losses(ev, n)
           A1 == Answers(ev, n - 1)
           L1 == Losses(ev, n - 1)
<1>1. /\ A1 = A \cup (IF Answering(e) THEN {n} ELSE {})
      /\ L1 = L \cup (IF Losing(e) THEN {n} ELSE {})
  BY EventTaken
<1>2. \A i \in A \cup L : i # n /\ ~(i <= n) /\ n < i /\ ~(i < n)
  <2>1. \A i \in DOMAIN ev : i > n => i # n /\ ~(i <= n) /\ n < i /\ ~(i < n)
    OBVIOUS
  <2> QED BY <2>1 DEF Answers, Losses
<1>3. Moves(r, e, v, out) /\ Member(r, joined, ev, K, {}, A1, L1) /\ ev[n] = e
  OBVIOUS
<1>4. "BigCreateSync" \notin Asking(out) => K2 = K
  BY AskedNothing
<1>5. ASSUME NEW x \in Command, out = <<x>>, x.op = "BigCreateSync", K = {} PROVE K2 # {} /\ AtMostOne(K2)
  BY <1>5, AskedOne
<1> SUFFICES Member(v, joined, ev, K2, {}, A, L)
  OBVIOUS
<1> HIDE DEF e, K, K2, A, L, A1, L1
<1>6. CASE Stays(r, e, v, out)
  <2>1. L1 = L /\ K2 = K /\ v.bis = r.bis
    BY <1>1, <1>4, <1>6 DEF Stays
  <2>2. A1 = A
    <3>1. CASE Answering(e)
      <4>1. r.state # "SyncingToBig" /\ n \in A1
        BY <1>1, <1>6, <3>1 DEF Stays
      <4> QED BY <1>3, <4>1 DEF Member
    <3> QED BY <1>1, <3>1
  <2>3. /\ r.state = "SyncingToBig" => v.state = "SyncingToBig"
        /\ r.state \in {"OpeningDataPaths", "Receiving"} <=> v.state \in {"OpeningDataPaths", "Receiving"}
    BY <1>6 DEF Stays
  <2> QED BY <1>3, <2>1, <2>2, <2>3 DEF Member
<1>7. CASE Seeks(r, e, v, out)
  <2>1. L1 = L /\ A1 = A /\ v.bis = r.bis /\ r.state = "Scanning" /\ v.state = "SyncingToPeriodicAdvertising"
    BY <1>1, <1>7 DEF Seeks
  <2>2. K2 = K
    <3>1. Asking(out) = {Plain("CreateSync").op} \cap {"BigCreateSync", "CreateSync"}
      BY <1>7, Outs DEF Seeks
    <3>2. Plain("CreateSync").op = "CreateSync"
      BY DEF Plain
    <3> QED BY <1>4, <3>1, <3>2
  <2> QED BY <1>3, <2>1, <2>2 DEF Member
<1>8. CASE Requests(r, e, v, out)
  <2>1. L1 = L /\ A1 = A /\ v.bis = r.bis /\ r.state = "WaitingForAnnouncement" /\ v.state = "SyncingToBig"
    BY <1>1, <1>8 DEF Requests
  <2>2. K = {} /\ A = {} /\ r.bis = <<>>
    BY <1>3, <2>1 DEF Member
  <2>3. L = {} /\ joined = <<>>
    BY <1>3, <2>1, <2>2 DEF Member
  <2>4. K2 # {} /\ AtMostOne(K2)
    BY <1>5, <1>8, <2>2 DEF Requests
  <2> QED BY <2>1, <2>2, <2>3, <2>4 DEF Member
<1>9. CASE Answered(r, e, v, out)
  <2>1. L1 = L /\ n \in A1 /\ K2 = K
    BY <1>1, <1>4, <1>9 DEF Answered
  <2>2. A1 = {n} /\ K = {} /\ r.bis = <<>>
    BY <1>3, <1>9, <2>1 DEF Member, Answered
  <2>3. A = {}
    BY <1>1, <1>2, <2>2
  <2>4. CASE Admits(e)
    <3>1. v.bis = e.bis /\ e.bis # <<>> /\ v.state = "OpeningDataPaths"
      BY <1>9, <2>4 DEF Answered
    <3>2. (joined = e.bis /\ L = {}) \/ (joined = <<>> /\ L # {})
      BY <1>3, <2>1, <2>4 DEF Member
    <3>3. AtMostOne(L)
      BY <1>3, <2>1 DEF Member, AtMostOne
    <3> QED BY <2>1, <2>2, <2>3, <3>1, <3>2, <3>3 DEF Member
  <2>5. CASE ~Admits(e)
    <3>1. v.bis = <<>> /\ v.state = "Failed"
      BY <1>9, <2>2, <2>5 DEF Answered
    <3>2. joined = <<>> /\ L = {}
      BY <1>3, <2>1, <2>5 DEF Member
    <3> QED BY <2>1, <2>2, <2>3, <3>1, <3>2 DEF Member
  <2> QED BY <2>4, <2>5
<1>10. CASE Loses(r, e, v, out)
  <2>1. n \in L1 /\ A1 = A /\ K2 = K /\ v.bis = <<>> /\ v.state \in {"Lost", "Terminated"}
    BY <1>1, <1>4, <1>10 DEF Loses
  <2>2. A = {}
    <3>1. \A i \in A : i < n
      BY <1>3, <2>1 DEF Member
    <3> QED BY <1>2, <3>1
  <2>3. joined = <<>> /\ AtMostOne(L1) /\ K = {}
    BY <1>3, <2>1 DEF Member
  <2>4. L = {}
    <3>1. L \subseteq L1
      BY <1>1
    <3> QED BY <1>2, <2>1, <2>3, <3>1 DEF AtMostOne
  <2> QED BY <2>1, <2>2, <2>3, <2>4 DEF Member
<1> QED BY <1>3, <1>6, <1>7, <1>8, <1>9, <1>10 DEF Moves

\* The same for its synchronization to the train.
LEMMA SyncedMoves ==
  ASSUME NEW r, NEW v, NEW k, NEW train, NEW ev \in Seq(Event), NEW n \in DOMAIN ev,
         NEW q \in Seq(Command), NEW out \in Seq(Command), Moves(r, ev[n], v, out),
         Synced(r, k, ev, Asks(q, 0, "CreateSync"), Tracks(ev, n - 1), train)
  PROVE  Synced(v, k, ev, Asks(q \o out, 0, "CreateSync"), Tracks(ev, n), train)
<1> DEFINE e == ev[n]
           S == Asks(q, 0, "CreateSync")
           S2 == Asks(q \o out, 0, "CreateSync")
           T == Tracks(ev, n)
           T1 == Tracks(ev, n - 1)
<1>1. T1 = T \cup (IF Tracking(e) THEN {n} ELSE {})
  BY EventTaken
<1>2. Moves(r, e, v, out) /\ Synced(r, k, ev, S, T1, train) /\ ev[n] = e
  OBVIOUS
<1>3. "CreateSync" \notin Asking(out) => S2 = S
  BY AskedNothing
<1>4. Plain("CreateSync") \in Command /\ Plain("CreateSync").op = "CreateSync"
  BY PlainTyped DEF Plains, Plain
<1>5. out = <<Plain("CreateSync")>> /\ S = {} => S2 # {} /\ AtMostOne(S2)
  BY <1>4, AskedOne
<1>6. ASSUME NEW x \in Command, out = <<x>>, x.op = "BigCreateSync" PROVE S2 = S
  BY <1>6, AskedOne
<1> HIDE DEF e, S, S2, T, T1
<1>7. Tracking(e) => e.sync = k.sync /\ k.sync # 0
  <2> SUFFICES ASSUME Tracking(e) PROVE e.sync = k.sync /\ k.sync # 0
    OBVIOUS
  <2>1. n \in T1
    BY <1>1
  <2> QED BY <1>2, <2>1 DEF Synced
<1>8. v.sync \in {0, k.sync} /\ (v.base # 0 => v.sync # 0)
  <2>1. CASE e.type = "SyncEstablished" /\ r.state = "SyncingToPeriodicAdvertising"
    <3>1. v.sync = k.sync /\ k.sync # 0
      BY <1>2, <1>7, <2>1 DEF Moves, Tracking
    <3> QED BY <3>1
  <2>2. CASE ~(e.type = "SyncEstablished" /\ r.state = "SyncingToPeriodicAdvertising")
    <3>1. v.sync = r.sync /\ r.sync \in {0, k.sync} /\ (r.base # 0 => r.sync # 0)
      BY <1>2, <2>2 DEF Moves, Synced
    <3>2. CASE e.type = "Periodic" /\ e.sync = r.sync
      <4>1. r.sync # 0
        BY <1>7, <3>2 DEF Tracking
      <4> QED BY <3>1, <4>1
    <3>3. CASE ~(e.type = "Periodic" /\ e.sync = r.sync)
      <4>1. v.base = r.base
        BY <1>2, <3>3 DEF Moves
      <4> QED BY <3>1, <4>1
    <3> QED BY <3>2, <3>3
  <2> QED BY <2>1, <2>2
<1>9. /\ S2 # {} \/ k.wanted \/ k.sync # 0 => v.state \notin {"Idle", "SettingScanParameters", "Scanning"}
      /\ AtMostOne(S2) /\ (S2 # {} => ~k.wanted /\ k.sync = 0)
  <2>1. /\ S # {} \/ k.wanted \/ k.sync # 0 => r.state \notin {"Idle", "SettingScanParameters", "Scanning"}
        /\ AtMostOne(S) /\ (S # {} => ~k.wanted /\ k.sync = 0)
    BY <1>2 DEF Synced
  <2>2. CASE Seeks(r, e, v, out)
    BY <1>5, <2>1, <2>2 DEF Seeks
  <2>3. CASE Stays(r, e, v, out) \/ Requests(r, e, v, out) \/ Answered(r, e, v, out) \/ Loses(r, e, v, out)
    <3>1. S2 = S
      BY <1>3, <1>6, <2>3 DEF Stays, Requests, Answered, Loses
    <3>2. r.state \notin {"Idle", "SettingScanParameters", "Scanning"} => v.state \notin {"Idle", "SettingScanParameters", "Scanning"}
      BY <2>3 DEF Stays, Requests, Answered, Loses
    <3> QED BY <2>1, <3>1, <3>2
  <2> QED BY <1>2, <2>2, <2>3 DEF Moves
<1>10. Synced(v, k, ev, S2, T, train)
  BY <1>1, <1>2, <1>8, <1>9 DEF Synced
<1> QED BY <1>10 DEF S2, T

\* The same for the BASE.
LEMMA BasedMoves ==
  ASSUME NEW r, NEW v, NEW k, NEW train, NEW base, NEW ev \in Seq(Event), NEW n \in DOMAIN ev, NEW out, NEW S,
         Moves(r, ev[n], v, out), Synced(r, k, ev, S, Tracks(ev, n - 1), train), Based(r, ev, Reports(ev, n - 1), base)
  PROVE  Based(v, ev, Reports(ev, n), base)
<1> DEFINE e == ev[n]
           R == Reports(ev, n)
           R1 == Reports(ev, n - 1)
<1>1. R1 = R \cup (IF Reporting(e) THEN {n} ELSE {})
  BY EventTaken
<1>2. \A i \in R : n <= i
  <2>1. \A i \in DOMAIN ev : i > n => n <= i
    OBVIOUS
  <2> QED BY <2>1 DEF Reports
<1>3. Reporting(e) => e.sync = k.sync /\ k.sync # 0
  <2> SUFFICES ASSUME Reporting(e) PROVE e.sync = k.sync /\ k.sync # 0
    OBVIOUS
  <2>1. n \in Tracks(ev, n - 1)
    <3>1. Tracks(ev, n - 1) = Tracks(ev, n) \cup (IF Tracking(e) THEN {n} ELSE {})
      BY EventTaken
    <3> QED BY <3>1 DEF Tracking, Reporting
  <2> QED BY <2>1 DEF Synced
<1>4. r.sync \in {0, k.sync} /\ (r.base # 0 => r.sync # 0)
  BY DEF Synced
<1>5. IF e.type = "Periodic" /\ e.sync = r.sync THEN v.base = e.base ELSE v.base = r.base
  BY DEF Moves
<1>6. Based(r, ev, R1, base) /\ ev[n] = e /\ n <= n
  OBVIOUS
<1> SUFFICES Based(v, ev, R, base)
  OBVIOUS
<1> HIDE DEF e, R, R1
<1>7. CASE Reporting(e)
  <2>1. R = {} => e.base = base
    BY <1>1, <1>6, <1>7 DEF Based
  <2>2. R = {} => v.base \in {0, base}
    BY <1>3, <1>4, <1>5, <1>7, <2>1 DEF Reporting
  <2>3. ASSUME NEW i \in R, \A j \in R : j <= i PROVE ev[i].base = base
    <3>1. i \in R1 /\ \A j \in R1 : j <= i
      BY <1>1, <1>2, <2>3
    <3> QED BY <1>6, <3>1 DEF Based
  <2>4. base # 0
    BY <1>1, <1>6, <1>7 DEF Based
  <2> QED BY <2>2, <2>3, <2>4 DEF Based
<1>8. CASE ~Reporting(e)
  BY <1>1, <1>5, <1>6, <1>8 DEF Based, Reporting
<1> QED BY <1>7, <1>8

\* One event of the drain, with the commands it causes.
LEMMA PacketSettled ==
  ASSUME NEW c \in Receiver, NEW ev \in Seq(Event), NEW n \in DOMAIN ev, NEW k, NEW src,
         NEW d \in Receptions, NEW p \in Seq(Command),
         Settled(d.r, k, src, ev, n - 1, Asks(p \o d.out, 0, "BigCreateSync"), Asks(p \o d.out, 0, "CreateSync"))
  PROVE  LET w == Received(d, c, ev[n])
         IN Settled(w.r, k, src, ev, n, Asks(p \o w.out, 0, "BigCreateSync"), Asks(p \o w.out, 0, "CreateSync"))
<1> DEFINE r == d.r
           q == p \o d.out
           x == ReceiverOnPacket(r, c, ev[n])
           w == Received(d, c, ev[n])
           v == x.r
           out == x.out
<1>1. r \in Sinks /\ d.out \in Seq(Command) /\ ev[n] \in Event
  BY DEF Receptions
<1>2. q \in Seq(Command)
  BY <1>1
<1>3. Moves(r, ev[n], v, out)
  BY <1>1, PacketMoves
<1>4. out \in Seq(Command)
  <2>1. x \in Receptions
    BY <1>1, ReceiverOnPacketTyped
  <2> HIDE DEF x
  <2> QED BY <2>1 DEF Receptions
<1>5. w.r = v /\ w.out = d.out \o out
  BY DEF Received
<1> HIDE DEF x, w
<1>6. p \o w.out = q \o out
  <2>1. p \o (d.out \o out) = (p \o d.out) \o out
    BY <1>1, <1>4, OneAfterTheOther
  <2> QED BY <1>5, <2>1
<1>7. /\ Member(r, k.joined, ev, Asks(q, 0, "BigCreateSync"), {}, Answers(ev, n - 1), Losses(ev, n - 1))
      /\ Synced(r, k, ev, Asks(q, 0, "CreateSync"), Tracks(ev, n - 1), src.train)
      /\ Based(r, ev, Reports(ev, n - 1), src.base)
      /\ k.joined # <<>> => src.big # <<>>
  BY DEF Settled
<1> HIDE DEF r, q, v, out
<1>8. Member(v, k.joined, ev, Asks(q \o out, 0, "BigCreateSync"), {}, Answers(ev, n), Losses(ev, n))
  BY <1>2, <1>3, <1>4, <1>7, MemberMoves
<1>9. Synced(v, k, ev, Asks(q \o out, 0, "CreateSync"), Tracks(ev, n), src.train)
  BY <1>2, <1>3, <1>4, <1>7, SyncedMoves
<1>10. Based(v, ev, Reports(ev, n), src.base)
  BY <1>3, <1>7, BasedMoves
<1>11. Settled(w.r, k, src, ev, n, Asks(p \o w.out, 0, "BigCreateSync"), Asks(p \o w.out, 0, "CreateSync"))
  BY <1>5, <1>6, <1>7, <1>8, <1>9, <1>10 DEF Settled
<1> QED BY <1>11 DEF w

\* The whole drain.
LEMMA TurnedSettled ==
  ASSUME NEW c \in Receiver, TypeOK, ToldInv
  PROVE  Settled(Turned(c).r, ctl[c], ctl[Src], evts[c], Len(evts[c]),
                 Asks(cmds[c] \o Turned(c).out, 0, "BigCreateSync"), Asks(cmds[c] \o Turned(c).out, 0, "CreateSync"))
<1> DEFINE s == evts[c]
           p == cmds[c]
           Stands(d, n) == Settled(d.r, ctl[c], ctl[Src], s, n, Asks(p \o d.out, 0, "BigCreateSync"), Asks(p \o d.out, 0, "CreateSync"))
           U == [n \in 0 .. Len(s) |-> {d \in Receptions : Stands(d, n)}]
           d0 == [r |-> sink[c], out |-> <<>>]
<1>1. s \in Seq(Event) /\ p \in Seq(Command) /\ sink[c] \in Sinks
  BY DEF TypeOK, Receiver
<1>2. Len(s) \in Nat /\ (\A n \in 1 .. Len(s) : s[n] \in Event /\ n \in DOMAIN s)
  BY <1>1
<1>3. d0 \in Receptions /\ Stands(d0, 0)
  <2>1. d0 \in Receptions
    BY <1>1, ReceptionOf
  <2>2. p \o <<>> = p
    BY <1>1
  <2>3. Settled(sink[c], ctl[c], ctl[Src], s, 0, Asks(p, 0, "BigCreateSync"), Asks(p, 0, "CreateSync"))
    BY DEF ToldInv
  <2> QED BY <2>1, <2>2, <2>3
<1>4. \A n \in 1 .. Len(s) : n \in 0 .. Len(s) /\ n - 1 \in 0 .. Len(s)
  BY <1>2
<1>5. d0 \in U[0] /\ Len(s) \in 0 .. Len(s)
  <2>1. 0 \in 0 .. Len(s) /\ Len(s) \in 0 .. Len(s)
    BY <1>2
  <2> HIDE DEF d0, Stands
  <2>2. U[0] = {d \in Receptions : Stands(d, 0)}
    BY <2>1
  <2> QED BY <1>3, <2>1, <2>2
<1>6. ASSUME NEW n \in 1 .. Len(s), NEW d \in U[n - 1] PROVE Received(d, c, s[n]) \in U[n]
  <2> DEFINE w == Received(d, c, s[n])
  <2>1. d \in Receptions /\ Stands(d, n - 1)
    BY <1>4
  <2>2. w \in Receptions
    BY <1>2, <2>1, ReceivedTyped
  <2>3. Stands(w, n)
    BY <1>1, <1>2, <2>1, PacketSettled
  <2> HIDE DEF w, Stands
  <2>4. w \in U[n]
    BY <1>4, <2>2, <2>3
  <2> QED BY <2>4 DEF w
<1> HIDE DEF U, Stands
<1>7. Turned(c) \in U[Len(s)]
  BY <1>2, <1>5, <1>6, AlongReceived
<1>8. Stands(Turned(c), Len(s))
  BY <1>5, <1>7 DEF U
<1> QED BY <1>8 DEF Stands

\* A receiver that has taken all events: what holds of it holds of an empty queue.
LEMMA AllTaken ==
  ASSUME NEW r, NEW k, NEW src, NEW ev \in Seq(Event), NEW K, NEW S, Settled(r, k, src, ev, Len(ev), K, S)
  PROVE  Settled(r, k, src, <<>>, 0, K, S)
<1>1. /\ Answers(ev, Len(ev)) = {} /\ Losses(ev, Len(ev)) = {} /\ Tracks(ev, Len(ev)) = {} /\ Reports(ev, Len(ev)) = {}
      /\ Answers(<<>>, 0) = {} /\ Losses(<<>>, 0) = {} /\ Tracks(<<>>, 0) = {} /\ Reports(<<>>, 0) = {}
  BY EventsTaken
<1>2. Member(r, k.joined, <<>>, K, {}, {}, {})
  BY <1>1 DEF Settled, Member
<1>3. Synced(r, k, <<>>, S, {}, src.train)
  BY <1>1 DEF Settled, Synced
<1>4. Based(r, <<>>, {}, src.base)
  BY <1>1 DEF Settled, Based
<1> QED BY <1>1, <1>2, <1>3, <1>4 DEF Settled

\* What a receiver does to itself without joining, leaving or synchronizing.
LEMMA SettledKept ==
  ASSUME NEW r, NEW v, NEW k, NEW src, NEW ev, NEW e, NEW K, NEW S, Settled(r, k, src, ev, e, K, S),
         v.bis = r.bis, v.sync = r.sync, v.base = r.base,
         v.state = r.state \/ (r.state = "Idle" /\ v.state = "SettingScanParameters")
  PROVE  Settled(v, k, src, ev, e, K, S)
<1>1. Member(v, k.joined, ev, K, {}, Answers(ev, e), Losses(ev, e))
  BY DEF Settled, Member
<1>2. Synced(v, k, ev, S, Tracks(ev, e), src.train)
  BY DEF Settled, Synced
<1>3. Based(v, ev, Reports(ev, e), src.base)
  BY DEF Settled, Based
<1> QED BY <1>1, <1>2, <1>3 DEF Settled

\* A command that asks for neither adds no position.
LEMMA AskedOther ==
  ASSUME NEW q \in Seq(Command), NEW x \in Command, x.op \notin {"BigCreateSync", "CreateSync"}
  PROVE  /\ Asks(Append(q, x), 0, "BigCreateSync") = Asks(q, 0, "BigCreateSync")
         /\ Asks(Append(q, x), 0, "CreateSync") = Asks(q, 0, "CreateSync")
<1>1. \A op : Asks(Append(q, x), 0, op) = Asks(q, 0, op) \cup (IF x.op = op THEN {Len(q) + 1} ELSE {})
  BY CommandAfter
<1> QED BY <1>1

\* A receiver's own step leaves the others as they are.
LEMMA OthersTold ==
  ASSUME ToldInv, NEW c \in Receiver, UNCHANGED ctl,
         \A x \in Receiver \ {c} : sink'[x] = sink[x] /\ evts'[x] = evts[x] /\ cmds'[x] = cmds[x],
         Settled(sink'[c], ctl[c], ctl[Src], evts'[c], 0, Asks(cmds'[c], 0, "BigCreateSync"), Asks(cmds'[c], 0, "CreateSync"))
  PROVE  ToldInv'
<1> SUFFICES ASSUME NEW x \in Receiver
             PROVE  Settled(sink'[x], ctl'[x], ctl'[Src], evts'[x], 0, Asks(cmds'[x], 0, "BigCreateSync"), Asks(cmds'[x], 0, "CreateSync"))
  BY DEF ToldInv
<1>1. CASE x = c
  BY <1>1
<1>2. CASE x # c
  <2>1. Settled(sink[x], ctl[x], ctl[Src], evts[x], 0, Asks(cmds[x], 0, "BigCreateSync"), Asks(cmds[x], 0, "CreateSync"))
    BY DEF ToldInv
  <2> QED BY <1>2, <2>1
<1> QED BY <1>1, <1>2

\* A turn of a receiver.
LEMMA ReceiverTurnTold == ASSUME TypeOK, ToldInv, NEW c \in Receiver, ReceiverTurn(c) PROVE ToldInv'
<1> DEFINE d == Turned(c)
           w == StopScanning(d)
           p == cmds[c]
           y == [op |-> "ScanEnable", on |-> FALSE]
           v == [d.r EXCEPT !.stopped = TRUE]
<1>1. /\ sink' = [sink EXCEPT ![c] = w.r] /\ cmds' = [cmds EXCEPT ![c] = p \o w.out]
      /\ evts' = [evts EXCEPT ![c] = <<>>] /\ UNCHANGED ctl
  BY DEF ReceiverTurn
<1>2. d \in Receptions
  BY TurnedTyped
<1>3. d.r \in Sinks /\ d.out \in Seq(Command) /\ p \in Seq(Command) /\ evts[c] \in Seq(Event)
  <2> HIDE DEF d
  <2> QED BY <1>2 DEF Receptions, TypeOK, Receiver
<1>4. Settled(d.r, ctl[c], ctl[Src], <<>>, 0, Asks(p \o d.out, 0, "BigCreateSync"), Asks(p \o d.out, 0, "CreateSync"))
  <2>1. Settled(d.r, ctl[c], ctl[Src], evts[c], Len(evts[c]), Asks(p \o d.out, 0, "BigCreateSync"), Asks(p \o d.out, 0, "CreateSync"))
    BY TurnedSettled
  <2> HIDE DEF d
  <2> QED BY <1>3, <2>1, AllTaken
<1>5. w = d \/ w = [r |-> v, out |-> Append(d.out, y)]
  BY DEF StopScanning
<1>6. y \in Command /\ y.op = "ScanEnable"
  BY DEF Command
<1> HIDE DEF d, w, y
<1>7. v.bis = d.r.bis /\ v.sync = d.r.sync /\ v.base = d.r.base /\ v.state = d.r.state
  BY <1>3 DEF Sinks
<1> HIDE DEF v, p
<1>8. Settled(w.r, ctl[c], ctl[Src], <<>>, 0, Asks(p \o w.out, 0, "BigCreateSync"), Asks(p \o w.out, 0, "CreateSync"))
  <2>1. CASE w = d
    BY <1>4, <2>1
  <2>2. CASE w = [r |-> v, out |-> Append(d.out, y)]
    <3>1. w.r = v /\ w.out = Append(d.out, y)
      BY <2>2
    <3>2. p \o Append(d.out, y) = Append(p \o d.out, y) /\ p \o d.out \in Seq(Command)
      BY <1>3, <1>6
    <3>3. /\ Asks(Append(p \o d.out, y), 0, "BigCreateSync") = Asks(p \o d.out, 0, "BigCreateSync")
          /\ Asks(Append(p \o d.out, y), 0, "CreateSync") = Asks(p \o d.out, 0, "CreateSync")
      BY <1>6, <3>2, AskedOther
    <3>4. Settled(v, ctl[c], ctl[Src], <<>>, 0, Asks(p \o d.out, 0, "BigCreateSync"), Asks(p \o d.out, 0, "CreateSync"))
      BY <1>4, <1>7, SettledKept
    <3> QED BY <3>1, <3>2, <3>3, <3>4
  <2> QED BY <1>5, <2>1, <2>2
<1>9. sink'[c] = w.r /\ cmds'[c] = p \o w.out /\ evts'[c] = <<>>
  BY <1>1 DEF TypeOK, Receiver
<1>10. \A x \in Receiver \ {c} : sink'[x] = sink[x] /\ evts'[x] = evts[x] /\ cmds'[x] = cmds[x]
  BY <1>1 DEF TypeOK, Receiver
<1> QED BY <1>1, <1>8, <1>9, <1>10, OthersTold

\* A receiver is started, or leaves.
LEMMA ReceiverCallsTold == ASSUME TypeOK, ToldInv, NEW c \in Receiver, ReceiverStart(c) \/ Leave(c) PROVE ToldInv'
<1> DEFINE p == cmds[c]
           v == [sink[c] EXCEPT !.state = "SettingScanParameters"]
<1>1. p \in Seq(Command) /\ sink[c] \in Sinks /\ c \in Ctl
  BY DEF TypeOK, Receiver
<1>2. Settled(sink[c], ctl[c], ctl[Src], evts[c], 0, Asks(p, 0, "BigCreateSync"), Asks(p, 0, "CreateSync"))
  BY DEF ToldInv
<1>3. PICK x \in Command : /\ x.op \notin {"BigCreateSync", "CreateSync"}
                           /\ cmds' = [cmds EXCEPT ![c] = Append(@, x)] /\ UNCHANGED <<ctl, evts>>
  <2>1. Plain("ScanParameters") \in Command /\ Plain("BigTerminateSync") \in Command
    BY PlainTyped DEF Plains
  <2>2. Plain("ScanParameters").op = "ScanParameters" /\ Plain("BigTerminateSync").op = "BigTerminateSync"
    BY DEF Plain
  <2> QED BY <2>1, <2>2 DEF ReceiverStart, Leave
<1>4. sink' = sink \/ (sink' = [sink EXCEPT ![c] = v] /\ sink[c].state = "Idle")
  BY DEF ReceiverStart, Leave
<1>5. v.bis = sink[c].bis /\ v.sync = sink[c].sync /\ v.base = sink[c].base /\ v.state = "SettingScanParameters"
  BY <1>1 DEF Sinks
<1>6. /\ Asks(Append(p, x), 0, "BigCreateSync") = Asks(p, 0, "BigCreateSync")
      /\ Asks(Append(p, x), 0, "CreateSync") = Asks(p, 0, "CreateSync")
  BY <1>1, <1>3, AskedOther
<1> HIDE DEF v
<1>7. cmds'[c] = Append(p, x) /\ (sink'[c] = sink[c] \/ (sink'[c] = v /\ sink[c].state = "Idle"))
  BY <1>1, <1>3, <1>4 DEF TypeOK
<1>8. \A z \in Receiver \ {c} : sink'[z] = sink[z] /\ evts'[z] = evts[z] /\ cmds'[z] = cmds[z]
  BY <1>3, <1>4 DEF TypeOK, Receiver
<1>9. Settled(sink'[c], ctl[c], ctl[Src], evts[c], 0, Asks(p, 0, "BigCreateSync"), Asks(p, 0, "CreateSync"))
  BY <1>2, <1>5, <1>7, SettledKept
<1> QED BY <1>3, <1>6, <1>7, <1>8, <1>9, OthersTold

\* What touches no receiver leaves all of them in step.
LEMMA SourceTold ==
  ASSUME TypeOK, ToldInv, UNCHANGED <<ctl, sink>>, \A c \in Receiver : evts'[c] = evts[c] /\ cmds'[c] = cmds[c]
  PROVE  ToldInv'
<1> SUFFICES ASSUME NEW c \in Receiver
             PROVE  Settled(sink'[c], ctl'[c], ctl'[Src], evts'[c], 0, Asks(cmds'[c], 0, "BigCreateSync"), Asks(cmds'[c], 0, "CreateSync"))
  BY DEF ToldInv
<1>1. Settled(sink[c], ctl[c], ctl[Src], evts[c], 0, Asks(cmds[c], 0, "BigCreateSync"), Asks(cmds[c], 0, "CreateSync"))
  BY DEF ToldInv
<1> QED BY <1>1

\* At the start no receiver knows anything.
LEMMA InitTold == ASSUME Init PROVE ToldInv
<1> SUFFICES ASSUME NEW c \in Receiver
             PROVE  Settled(sink[c], ctl[c], ctl[Src], evts[c], 0, Asks(cmds[c], 0, "BigCreateSync"), Asks(cmds[c], 0, "CreateSync"))
  BY DEF ToldInv
<1>1. /\ sink[c] = BigReceiver /\ ctl[c] = Controller /\ ctl[Src] = Controller /\ evts[c] = <<>> /\ cmds[c] = <<>>
  BY SrcIsCtl DEF Init, Receiver
<1>2. /\ Answers(<<>>, 0) = {} /\ Losses(<<>>, 0) = {} /\ Tracks(<<>>, 0) = {} /\ Reports(<<>>, 0) = {}
      /\ Asks(<<>>, 0, "BigCreateSync") = {} /\ Asks(<<>>, 0, "CreateSync") = {}
  <2>1. DOMAIN <<>> = {}
    OBVIOUS
  <2> QED BY <2>1 DEF Answers, Losses, Tracks, Reports, Asks
<1>3. /\ BigReceiver.state = "Idle" /\ BigReceiver.bis = <<>> /\ BigReceiver.sync = 0 /\ BigReceiver.base = 0
      /\ Controller.joined = <<>> /\ Controller.sync = 0 /\ Controller.wanted = FALSE /\ Controller.base = 0
  BY DEF BigReceiver, Controller
<1>4. Member(BigReceiver, Controller.joined, <<>>, {}, {}, {}, {})
  BY <1>3 DEF Member
<1>5. Synced(BigReceiver, Controller, <<>>, {}, {}, Controller.train)
  BY <1>3 DEF Synced, AtMostOne
<1>6. Based(BigReceiver, <<>>, {}, Controller.base)
  BY <1>3 DEF Based
<1> QED BY <1>1, <1>2, <1>3, <1>4, <1>5, <1>6 DEF Settled

\* With nothing under way, being in step is what ReceiversTold says.
LEMMA ToldSuffices == ASSUME TypeOK, ToldInv PROVE ReceiversTold
<1> SUFFICES ASSUME NEW c \in Receiver
             PROVE  /\ ctl[c].joined # <<>> => ctl[Src].big # <<>>
                    /\ Quiet(c) => /\ sink[c].bis = ctl[c].joined
                                   /\ sink[c].state = "Receiving" => sink[c].bis # <<>>
                                   /\ sink[c].base \in {0, ctl[Src].base}
  BY DEF ReceiversTold
<1>1. Settled(sink[c], ctl[c], ctl[Src], evts[c], 0, Asks(cmds[c], 0, "BigCreateSync"), Asks(cmds[c], 0, "CreateSync"))
  BY DEF ToldInv
<1>2. ASSUME Quiet(c) PROVE sink[c].bis = ctl[c].joined /\ (sink[c].state = "Receiving" => sink[c].bis # <<>>)
                            /\ sink[c].base \in {0, ctl[Src].base}
  <2>1. evts[c] = <<>>
    BY <1>2 DEF Quiet
  <2>2. Answers(evts[c], 0) = {} /\ Losses(evts[c], 0) = {} /\ Reports(evts[c], 0) = {}
    <3>1. DOMAIN <<>> = {}
      OBVIOUS
    <3> QED BY <2>1, <3>1 DEF Answers, Losses, Reports
  <2>3. sink[c].bis = ctl[c].joined /\ (sink[c].state = "Receiving" => sink[c].bis # <<>>)
    BY <1>1, <2>2 DEF Settled, Member
  <2>4. sink[c].base \in {0, ctl[Src].base}
    BY <1>1, <2>2 DEF Settled, Based
  <2> QED BY <2>3, <2>4
<1> QED BY <1>1, <1>2 DEF Settled

\* What holds between two ticks, with the types it rests on.
Told == TypeOK /\ ToldInv

\* A receiver holds streams exactly as long as its controller is joined, and its BASE is
\* the one the source publishes, whatever is joined, left, lost, stopped and updated in
\* between, for any number of receivers in any order of the medium's vector.
THEOREM ReceiversToldTheorem == Spec => []ReceiversTold
<1>1. Init => Told
  BY InitTyped, InitTold DEF Told
<1>2. Told /\ [Next]_vars => Told'
  <2> SUFFICES ASSUME TypeOK, ToldInv, [Next]_vars PROVE TypeOK' /\ ToldInv'
    BY DEF Told
  <2>1. CASE Tick
    BY <2>1, TickTyped, TickTold
  <2>2. ASSUME NEW call \in Calls, SourceTurn(call) PROVE TypeOK' /\ ToldInv'
    <3>1. UNCHANGED <<ctl, sink>> /\ \A c \in Receiver : evts'[c] = evts[c] /\ cmds'[c] = cmds[c]
      BY <2>2 DEF SourceTurn, TypeOK, Receiver
    <3> QED BY <2>2, <3>1, SourceTurnTyped, SourceTold
  <2>3. ASSUME NEW k \in Bis, Audio(k) PROVE TypeOK' /\ ToldInv'
    <3>1. UNCHANGED <<ctl, sink>> /\ \A c \in Receiver : evts'[c] = evts[c] /\ cmds'[c] = cmds[c]
      BY <2>3 DEF Audio, TypeOK, Receiver
    <3> QED BY <2>3, <3>1, AudioTyped, SourceTold
  <2>4. ASSUME NEW c \in Receiver, ReceiverTurn(c) \/ ReceiverStart(c) \/ Leave(c) PROVE TypeOK' /\ ToldInv'
    BY <2>4, ReceiverTyped, ReceiverTurnTold, ReceiverCallsTold
  <2>5. CASE UNCHANGED vars
    BY <2>5, SourceTold DEF vars, TypeOK
  <2> QED BY <2>1, <2>2, <2>3, <2>4, <2>5 DEF Next
<1>3. Told => ReceiversTold
  BY ToldSuffices DEF Told
<1> QED BY <1>1, <1>2, <1>3, PTL DEF Spec

\* f numbers places lo + 1 to hi, in their order and without a hole.
Steady(f, lo, hi) ==
  /\ lo \in Nat /\ hi \in Nat /\ lo <= hi
  /\ \A i \in DOMAIN f : f[i] \in Nat /\ lo < f[i] /\ f[i] <= hi
  /\ \A v \in Nat : lo < v /\ v <= hi => \E i \in DOMAIN f : f[i] = v
  /\ \A i, j \in DOMAIN f : i < j => f[i] < f[j]

\* The numbers of the SDUs for handle x after the first o commands, a deferred ones, e events.
Iso(y, x) == y.op = "Iso" /\ y.handle = x
Arrives(y, x) == y.type = "Iso" /\ y.handle = x
Sent(p, o, x) == [i \in {j \in DOMAIN p : j > o /\ Iso(p[j], x)} |-> p[i].seq]
Due(q, a, x) == [i \in {j \in DOMAIN q : j > a /\ Iso(q[j].cmd, x)} |-> q[i].cmd.seq]
Came(ev, e, x) == [i \in {j \in DOMAIN ev : j > e /\ Arrives(ev[j], x)} |-> ev[i].seq]

\* Where nothing is numbered, nothing is missing.
LEMMA SteadyNone ==
  ASSUME NEW f, DOMAIN f = {}
  PROVE  /\ \A l \in Nat : Steady(f, l, l)
         /\ \A l, h : Steady(f, l, h) => l = h
<1>1. \A l, h : Steady(f, l, h) => l = h
  <2> SUFFICES ASSUME NEW l, NEW h, Steady(f, l, h), l # h PROVE FALSE
    OBVIOUS
  <2>1. l \in Nat /\ h \in Nat /\ l < h /\ (l < h /\ h <= h => \E i \in DOMAIN f : f[i] = h)
    BY DEF Steady
  <2> QED BY <2>1
<1>2. \A l \in Nat : Steady(f, l, l)
  BY DEF Steady
<1> QED BY <1>1, <1>2

\* The next number, behind the others.
LEMMA SteadyMore ==
  ASSUME NEW f, NEW g, NEW k \in Nat, NEW l, NEW h, Steady(f, l, h),
         DOMAIN g = DOMAIN f \cup {k}, \A i \in DOMAIN f : i \in Nat /\ i < k /\ g[i] = f[i], g[k] = h + 1
  PROVE  Steady(g, l, h + 1)
<1>1. /\ l \in Nat /\ h \in Nat /\ l <= h
      /\ \A i \in DOMAIN f : f[i] \in Nat /\ l < f[i] /\ f[i] <= h
      /\ \A v \in Nat : l < v /\ v <= h => \E i \in DOMAIN f : f[i] = v
      /\ \A i, j \in DOMAIN f : i < j => f[i] < f[j]
  BY DEF Steady
<1>2. \A i \in DOMAIN g : g[i] \in Nat /\ l < g[i] /\ g[i] <= h + 1
  BY <1>1
<1>3. ASSUME NEW v \in Nat, l < v, v <= h + 1 PROVE \E i \in DOMAIN g : g[i] = v
  <2>1. CASE v = h + 1
    BY <2>1
  <2>2. CASE v <= h
    BY <1>1, <1>3, <2>2
  <2> QED BY <1>1, <1>3, <2>1, <2>2
<1>4. ASSUME NEW i \in DOMAIN g, NEW j \in DOMAIN g, i < j PROVE g[i] < g[j]
  <2>1. CASE i = k
    <3>1. j = k \/ (j \in Nat /\ j < k)
      OBVIOUS
    <3> QED BY <1>4, <2>1, <3>1
  <2>2. CASE i # k /\ j = k
    BY <1>1, <2>2
  <2>3. CASE i # k /\ j # k
    BY <1>1, <1>4, <2>3
  <2> QED BY <2>1, <2>2, <2>3
<1> QED BY <1>1, <1>2, <1>3, <1>4 DEF Steady

\* The first one is the number after lo; the rest goes on from it.
LEMMA SteadyLess ==
  ASSUME NEW f, NEW g, NEW k \in Nat, NEW l, NEW h, Steady(f, l, h),
         DOMAIN f = DOMAIN g \cup {k}, \A i \in DOMAIN g : i \in Nat /\ k < i /\ g[i] = f[i]
  PROVE  f[k] = l + 1 /\ Steady(g, l + 1, h)
<1>1. /\ l \in Nat /\ h \in Nat /\ l <= h
      /\ \A i \in DOMAIN f : f[i] \in Nat /\ l < f[i] /\ f[i] <= h
      /\ \A v \in Nat : l < v /\ v <= h => \E i \in DOMAIN f : f[i] = v
      /\ \A i, j \in DOMAIN f : i < j => f[i] < f[j]
  BY DEF Steady
<1>2. f[k] \in Nat /\ l < f[k] /\ f[k] <= h /\ \A i \in DOMAIN g : f[k] < f[i]
  BY <1>1
<1>3. f[k] = l + 1
  <2>1. PICK i \in DOMAIN f : f[i] = l + 1
    BY <1>1, <1>2
  <2>2. i = k \/ i \in DOMAIN g
    OBVIOUS
  <2> QED BY <1>1, <1>2, <2>1, <2>2
<1>4. \A i \in DOMAIN g : g[i] \in Nat /\ l + 1 < g[i] /\ g[i] <= h
  BY <1>1, <1>2, <1>3
<1>5. ASSUME NEW v \in Nat, l + 1 < v, v <= h PROVE \E i \in DOMAIN g : g[i] = v
  <2>1. PICK i \in DOMAIN f : f[i] = v
    BY <1>1, <1>5
  <2>2. i # k
    BY <1>1, <1>3, <1>5, <2>1
  <2> QED BY <2>1, <2>2
<1>6. \A i, j \in DOMAIN g : i < j => g[i] < g[j]
  BY <1>1
<1>7. l + 1 \in Nat /\ l + 1 <= h
  BY <1>1, <1>2
<1> QED BY <1>1, <1>3, <1>4, <1>5, <1>6, <1>7 DEF Steady

\* The first of the commands that are left.
LEMMA SentHead ==
  ASSUME NEW p \in Seq(Command), NEW n \in DOMAIN p, NEW x, NEW l, NEW h, Steady(Sent(p, n - 1, x), l, h)
  PROVE  IF Iso(p[n], x) THEN p[n].seq = l + 1 /\ Steady(Sent(p, n, x), l + 1, h) ELSE Steady(Sent(p, n, x), l, h)
<1>1. \A i \in DOMAIN p : i \in Nat /\ (i > n - 1 <=> i > n \/ i = n) /\ ~(n > n)
  OBVIOUS
<1> DEFINE f == Sent(p, n - 1, x)
           g == Sent(p, n, x)
<1>2. DOMAIN g = {i \in DOMAIN p : i > n /\ Iso(p[i], x)} /\ \A i \in DOMAIN g : g[i] = p[i].seq
  BY DEF Sent
<1>3. DOMAIN f = {i \in DOMAIN p : i > n - 1 /\ Iso(p[i], x)} /\ \A i \in DOMAIN f : f[i] = p[i].seq
  BY DEF Sent
<1>4. CASE Iso(p[n], x)
  <2> HIDE DEF f, g
  <2>1. DOMAIN f = DOMAIN g \cup {n} /\ (\A i \in DOMAIN g : i \in Nat /\ n < i /\ g[i] = f[i]) /\ f[n] = p[n].seq
    BY <1>1, <1>2, <1>3, <1>4
  <2>2. n \in Nat /\ Steady(f, l, h)
    BY <1>1 DEF f
  <2>3. f[n] = l + 1 /\ Steady(g, l + 1, h)
    BY <2>1, <2>2, SteadyLess
  <2> QED BY <1>4, <2>1, <2>3 DEF g
<1>5. CASE ~Iso(p[n], x)
  <2>1. {i \in DOMAIN p : i > n - 1 /\ Iso(p[i], x)} = {i \in DOMAIN p : i > n /\ Iso(p[i], x)}
    BY <1>1, <1>5
  <2>2. Sent(p, n - 1, x) = Sent(p, n, x)
    BY <2>1 DEF Sent
  <2> QED BY <1>5, <2>2
<1> QED BY <1>4, <1>5

\* The first of the deferred commands that are left.
LEMMA DueHead ==
  ASSUME NEW q \in Seq(Act), NEW n \in DOMAIN q, NEW x, NEW l, NEW h, Steady(Due(q, n - 1, x), l, h)
  PROVE  IF Iso(q[n].cmd, x) THEN q[n].cmd.seq = l + 1 /\ Steady(Due(q, n, x), l + 1, h) ELSE Steady(Due(q, n, x), l, h)
<1>1. \A i \in DOMAIN q : i \in Nat /\ (i > n - 1 <=> i > n \/ i = n) /\ ~(n > n)
  OBVIOUS
<1> DEFINE f == Due(q, n - 1, x)
           g == Due(q, n, x)
<1>2. DOMAIN g = {i \in DOMAIN q : i > n /\ Iso(q[i].cmd, x)} /\ \A i \in DOMAIN g : g[i] = q[i].cmd.seq
  BY DEF Due
<1>3. DOMAIN f = {i \in DOMAIN q : i > n - 1 /\ Iso(q[i].cmd, x)} /\ \A i \in DOMAIN f : f[i] = q[i].cmd.seq
  BY DEF Due
<1>4. CASE Iso(q[n].cmd, x)
  <2> HIDE DEF f, g
  <2>1. DOMAIN f = DOMAIN g \cup {n} /\ (\A i \in DOMAIN g : i \in Nat /\ n < i /\ g[i] = f[i]) /\ f[n] = q[n].cmd.seq
    BY <1>1, <1>2, <1>3, <1>4
  <2>2. n \in Nat /\ Steady(f, l, h)
    BY <1>1 DEF f
  <2>3. f[n] = l + 1 /\ Steady(g, l + 1, h)
    BY <2>1, <2>2, SteadyLess
  <2> QED BY <1>4, <2>1, <2>3 DEF g
<1>5. CASE ~Iso(q[n].cmd, x)
  <2>1. {i \in DOMAIN q : i > n - 1 /\ Iso(q[i].cmd, x)} = {i \in DOMAIN q : i > n /\ Iso(q[i].cmd, x)}
    BY <1>1, <1>5
  <2>2. Due(q, n - 1, x) = Due(q, n, x)
    BY <2>1 DEF Due
  <2> QED BY <1>5, <2>2
<1> QED BY <1>4, <1>5

\* The first of the events that are left.
LEMMA CameHead ==
  ASSUME NEW ev \in Seq(Event), NEW n \in DOMAIN ev, NEW x, NEW l, NEW h, Steady(Came(ev, n - 1, x), l, h)
  PROVE  IF Arrives(ev[n], x) THEN ev[n].seq = l + 1 /\ Steady(Came(ev, n, x), l + 1, h) ELSE Steady(Came(ev, n, x), l, h)
<1>1. \A i \in DOMAIN ev : i \in Nat /\ (i > n - 1 <=> i > n \/ i = n) /\ ~(n > n)
  OBVIOUS
<1> DEFINE f == Came(ev, n - 1, x)
           g == Came(ev, n, x)
<1>2. DOMAIN g = {i \in DOMAIN ev : i > n /\ Arrives(ev[i], x)} /\ \A i \in DOMAIN g : g[i] = ev[i].seq
  BY DEF Came
<1>3. DOMAIN f = {i \in DOMAIN ev : i > n - 1 /\ Arrives(ev[i], x)} /\ \A i \in DOMAIN f : f[i] = ev[i].seq
  BY DEF Came
<1>4. CASE Arrives(ev[n], x)
  <2> HIDE DEF f, g
  <2>1. DOMAIN f = DOMAIN g \cup {n} /\ (\A i \in DOMAIN g : i \in Nat /\ n < i /\ g[i] = f[i]) /\ f[n] = ev[n].seq
    BY <1>1, <1>2, <1>3, <1>4
  <2>2. n \in Nat /\ Steady(f, l, h)
    BY <1>1 DEF f
  <2>3. f[n] = l + 1 /\ Steady(g, l + 1, h)
    BY <2>1, <2>2, SteadyLess
  <2> QED BY <1>4, <2>1, <2>3 DEF g
<1>5. CASE ~Arrives(ev[n], x)
  <2>1. {i \in DOMAIN ev : i > n - 1 /\ Arrives(ev[i], x)} = {i \in DOMAIN ev : i > n /\ Arrives(ev[i], x)}
    BY <1>1, <1>5
  <2>2. Came(ev, n - 1, x) = Came(ev, n, x)
    BY <2>1 DEF Came
  <2> QED BY <1>5, <2>2
<1> QED BY <1>4, <1>5

\* One more command.
LEMMA SentMore ==
  ASSUME NEW p \in Seq(Command), NEW y \in Command, NEW x, NEW l, NEW h, Steady(Sent(p, 0, x), l, h)
  PROVE  /\ Iso(y, x) /\ y.seq = h + 1 => Steady(Sent(Append(p, y), 0, x), l, h + 1)
         /\ ~Iso(y, x) => Steady(Sent(Append(p, y), 0, x), l, h)
<1> DEFINE w == Append(p, y)
           k == Len(p) + 1
           f == Sent(p, 0, x)
           g == Sent(w, 0, x)
<1>1. /\ DOMAIN w = DOMAIN p \cup {k} /\ w[k] = y /\ k > 0 /\ k \in Nat
      /\ \A i \in DOMAIN p : w[i] = p[i] /\ i > 0 /\ i < k /\ i \in Nat
  OBVIOUS
<1> HIDE DEF w, k
<1>2. DOMAIN g = {i \in DOMAIN w : i > 0 /\ Iso(w[i], x)} /\ \A i \in DOMAIN g : g[i] = w[i].seq
  BY DEF Sent
<1>3. DOMAIN f = {i \in DOMAIN p : i > 0 /\ Iso(p[i], x)} /\ \A i \in DOMAIN f : f[i] = p[i].seq
  BY DEF Sent
<1>4. ASSUME Iso(y, x), y.seq = h + 1 PROVE Steady(g, l, h + 1)
  <2> HIDE DEF f, g
  <2>1. DOMAIN g = DOMAIN f \cup {k} /\ (\A i \in DOMAIN f : i \in Nat /\ i < k /\ g[i] = f[i]) /\ g[k] = h + 1
    BY <1>1, <1>2, <1>3, <1>4
  <2>2. Steady(f, l, h)
    BY DEF f
  <2> QED BY <1>1, <2>1, <2>2, SteadyMore
<1>5. ASSUME ~Iso(y, x) PROVE Steady(g, l, h)
  <2>1. {i \in DOMAIN w : i > 0 /\ Iso(w[i], x)} = {i \in DOMAIN p : i > 0 /\ Iso(p[i], x)}
    BY <1>1, <1>5
  <2>2. g = f
    BY <1>1, <2>1 DEF Sent
  <2> QED BY <2>2
<1> QED BY <1>4, <1>5 DEF w

\* All commands taken.
LEMMA SentNone ==
  ASSUME NEW p \in Seq(Command), NEW x
  PROVE  DOMAIN Sent(p, Len(p), x) = {} /\ DOMAIN Sent(<<>>, 0, x) = {}
<1>1. \A i \in DOMAIN p : ~(i > Len(p))
  OBVIOUS
<1>2. DOMAIN <<>> = {}
  OBVIOUS
<1> QED BY <1>1, <1>2 DEF Sent

\* No command is for a handle that was not given out.
LEMMA SentFresh ==
  ASSUME NEW p \in Seq(Command), NEW o, NEW y \in Nat, NEW x \in Nat, y <= x, \A i \in DOMAIN p : p[i].op = "Iso" => p[i].handle < y
  PROVE  DOMAIN Sent(p, o, x) = {}
<1>1. \A i \in DOMAIN p : ~Iso(p[i], x)
  BY DEF Iso
<1> QED BY <1>1 DEF Sent

\* One more deferred command.
LEMMA DueMore ==
  ASSUME NEW p \in Seq(Act), NEW y \in Act, NEW x, NEW l, NEW h, Steady(Due(p, 0, x), l, h)
  PROVE  /\ Iso(y.cmd, x) /\ y.cmd.seq = h + 1 => Steady(Due(Append(p, y), 0, x), l, h + 1)
         /\ ~Iso(y.cmd, x) => Steady(Due(Append(p, y), 0, x), l, h)
<1> DEFINE w == Append(p, y)
           k == Len(p) + 1
           f == Due(p, 0, x)
           g == Due(w, 0, x)
<1>1. /\ DOMAIN w = DOMAIN p \cup {k} /\ w[k] = y /\ k > 0 /\ k \in Nat
      /\ \A i \in DOMAIN p : w[i] = p[i] /\ i > 0 /\ i < k /\ i \in Nat
  OBVIOUS
<1> HIDE DEF w, k
<1>2. DOMAIN g = {i \in DOMAIN w : i > 0 /\ Iso(w[i].cmd, x)} /\ \A i \in DOMAIN g : g[i] = w[i].cmd.seq
  BY DEF Due
<1>3. DOMAIN f = {i \in DOMAIN p : i > 0 /\ Iso(p[i].cmd, x)} /\ \A i \in DOMAIN f : f[i] = p[i].cmd.seq
  BY DEF Due
<1>4. ASSUME Iso(y.cmd, x), y.cmd.seq = h + 1 PROVE Steady(g, l, h + 1)
  <2> HIDE DEF f, g
  <2>1. DOMAIN g = DOMAIN f \cup {k} /\ (\A i \in DOMAIN f : i \in Nat /\ i < k /\ g[i] = f[i]) /\ g[k] = h + 1
    BY <1>1, <1>2, <1>3, <1>4
  <2>2. Steady(f, l, h)
    BY DEF f
  <2> QED BY <1>1, <2>1, <2>2, SteadyMore
<1>5. ASSUME ~Iso(y.cmd, x) PROVE Steady(g, l, h)
  <2>1. {i \in DOMAIN w : i > 0 /\ Iso(w[i].cmd, x)} = {i \in DOMAIN p : i > 0 /\ Iso(p[i].cmd, x)}
    BY <1>1, <1>5
  <2>2. g = f
    BY <1>1, <2>1 DEF Due
  <2> QED BY <2>2
<1> QED BY <1>4, <1>5 DEF w

\* All deferred commands taken.
LEMMA DueNone ==
  ASSUME NEW p \in Seq(Act), NEW x
  PROVE  DOMAIN Due(p, Len(p), x) = {} /\ DOMAIN Due(<<>>, 0, x) = {}
<1>1. \A i \in DOMAIN p : ~(i > Len(p))
  OBVIOUS
<1>2. DOMAIN <<>> = {}
  OBVIOUS
<1> QED BY <1>1, <1>2 DEF Due

\* No deferred command is for a handle that was not given out.
LEMMA DueFresh ==
  ASSUME NEW p \in Seq(Act), NEW o, NEW y \in Nat, NEW x \in Nat, y <= x, \A i \in DOMAIN p : p[i].cmd.op = "Iso" => p[i].cmd.handle < y
  PROVE  DOMAIN Due(p, o, x) = {}
<1>1. \A i \in DOMAIN p : ~Iso(p[i].cmd, x)
  BY DEF Iso
<1> QED BY <1>1 DEF Due

\* One more event.
LEMMA CameMore ==
  ASSUME NEW p \in Seq(Event), NEW y \in Event, NEW x, NEW l, NEW h, Steady(Came(p, 0, x), l, h)
  PROVE  /\ Arrives(y, x) /\ y.seq = h + 1 => Steady(Came(Append(p, y), 0, x), l, h + 1)
         /\ ~Arrives(y, x) => Steady(Came(Append(p, y), 0, x), l, h)
<1> DEFINE w == Append(p, y)
           k == Len(p) + 1
           f == Came(p, 0, x)
           g == Came(w, 0, x)
<1>1. /\ DOMAIN w = DOMAIN p \cup {k} /\ w[k] = y /\ k > 0 /\ k \in Nat
      /\ \A i \in DOMAIN p : w[i] = p[i] /\ i > 0 /\ i < k /\ i \in Nat
  OBVIOUS
<1> HIDE DEF w, k
<1>2. DOMAIN g = {i \in DOMAIN w : i > 0 /\ Arrives(w[i], x)} /\ \A i \in DOMAIN g : g[i] = w[i].seq
  BY DEF Came
<1>3. DOMAIN f = {i \in DOMAIN p : i > 0 /\ Arrives(p[i], x)} /\ \A i \in DOMAIN f : f[i] = p[i].seq
  BY DEF Came
<1>4. ASSUME Arrives(y, x), y.seq = h + 1 PROVE Steady(g, l, h + 1)
  <2> HIDE DEF f, g
  <2>1. DOMAIN g = DOMAIN f \cup {k} /\ (\A i \in DOMAIN f : i \in Nat /\ i < k /\ g[i] = f[i]) /\ g[k] = h + 1
    BY <1>1, <1>2, <1>3, <1>4
  <2>2. Steady(f, l, h)
    BY DEF f
  <2> QED BY <1>1, <2>1, <2>2, SteadyMore
<1>5. ASSUME ~Arrives(y, x) PROVE Steady(g, l, h)
  <2>1. {i \in DOMAIN w : i > 0 /\ Arrives(w[i], x)} = {i \in DOMAIN p : i > 0 /\ Arrives(p[i], x)}
    BY <1>1, <1>5
  <2>2. g = f
    BY <1>1, <2>1 DEF Came
  <2> QED BY <2>2
<1> QED BY <1>4, <1>5 DEF w

\* All events taken.
LEMMA CameNone ==
  ASSUME NEW p \in Seq(Event), NEW x
  PROVE  DOMAIN Came(p, Len(p), x) = {} /\ DOMAIN Came(<<>>, 0, x) = {}
<1>1. \A i \in DOMAIN p : ~(i > Len(p))
  OBVIOUS
<1>2. DOMAIN <<>> = {}
  OBVIOUS
<1> QED BY <1>1, <1>2 DEF Came

\* No event is for a handle that was not given out.
LEMMA CameFresh ==
  ASSUME NEW p \in Seq(Event), NEW o, NEW y \in Nat, NEW x \in Nat, y <= x, \A i \in DOMAIN p : p[i].type = "Iso" => p[i].handle < y
  PROVE  DOMAIN Came(p, o, x) = {}
<1>1. \A i \in DOMAIN p : ~Arrives(p[i], x)
  BY DEF Arrives
<1> QED BY <1>1 DEF Came

\* Commands other than SDUs change nothing.
LEMMA SentOthers ==
  ASSUME NEW p \in Seq(Command), NEW t \in Seq(Command), NEW x, \A i \in DOMAIN t : t[i].op # "Iso"
  PROVE  Sent(p \o t, 0, x) = Sent(p, 0, x)
<1> DEFINE w == p \o t
<1>1. /\ \A i \in DOMAIN p : i \in DOMAIN w /\ w[i] = p[i] /\ i > 0
      /\ \A i \in DOMAIN w : i \in DOMAIN p \/ (i - Len(p) \in DOMAIN t /\ w[i] = t[i - Len(p)])
  OBVIOUS
<1> HIDE DEF w
<1>2. {i \in DOMAIN w : i > 0 /\ Iso(w[i], x)} = {i \in DOMAIN p : i > 0 /\ Iso(p[i], x)}
  BY <1>1 DEF Iso
<1>3. Sent(w, 0, x) = Sent(p, 0, x)
  BY <1>1, <1>2 DEF Sent
<1> QED BY <1>3 DEF w

\* Events other than SDUs change nothing.
LEMMA CameOthers ==
  ASSUME NEW p \in Seq(Event), NEW t \in Seq(Event), NEW x, \A i \in DOMAIN t : t[i].type # "Iso"
  PROVE  Came(p \o t, 0, x) = Came(p, 0, x)
<1> DEFINE w == p \o t
<1>1. /\ \A i \in DOMAIN p : i \in DOMAIN w /\ w[i] = p[i] /\ i > 0
      /\ \A i \in DOMAIN w : i \in DOMAIN p \/ (i - Len(p) \in DOMAIN t /\ w[i] = t[i - Len(p)])
  OBVIOUS
<1> HIDE DEF w
<1>2. {i \in DOMAIN w : i > 0 /\ Arrives(w[i], x)} = {i \in DOMAIN p : i > 0 /\ Arrives(p[i], x)}
  BY <1>1 DEF Arrives
<1>3. Came(w, 0, x) = Came(p, 0, x)
  BY <1>1, <1>2 DEF Came
<1> QED BY <1>3 DEF w

\* Of the source: the positions of its deferred commands, and of what it is told of its BIG.
Route(x, op) == x.from = Src /\ x.cmd.op = op
Routes(q, a, op) == {i \in DOMAIN q : i > a /\ Route(q[i], op)}
Creates(x) == x.type = "BigComplete"
Replying(x) == Creates(x) \/ (x.type = "Status" /\ x.op = "CreateBig" /\ ~x.ok)
Ending(x) == x.type = "BigEnded"
Replies(ev, e) == {i \in DOMAIN ev : i > e /\ Replying(ev[i])}
Ends(ev, e) == {i \in DOMAIN ev : i > e /\ Ending(ev[i])}

\* Events that are not about the broadcaster's BIG; and of them, neither about joining one nor an SDU.
Beside(x) == ~Replying(x) /\ ~Ending(x)
Dull(x) == Beside(x) /\ x.type \notin {"BigSync", "Iso"}

\* The broadcaster b and its controller on the way to a BIG and back.  K, D, T, A, L: the
\* positions of its requests, of the ones deferred, of deferred ends, of answers, of ends.
Hosted(b, big, ev, K, D, T, A, L) ==
  /\ K # {} => b.state = "CreatingBig" /\ big = <<>> /\ AtMostOne(K) /\ D = {} /\ T = {} /\ A = {} /\ L = {}
  /\ D # {} => b.state = "CreatingBig" /\ big = <<>> /\ AtMostOne(D) /\ T = {} /\ A = {} /\ L = {}
  /\ T # {} => big # <<>> \/ L # {}
  /\ \A i \in A :
       /\ b.state = "CreatingBig" /\ A = {i} /\ \A j \in L : i < j
       /\ IF Creates(ev[i]) THEN (big = ev[i].bis /\ L = {}) \/ (big = <<>> /\ L # {}) ELSE big = <<>> /\ L = {}
  /\ L # {} => big = <<>> /\ (b.bis # <<>> \/ b.state = "Terminated" \/ A # {})
  /\ A = {} /\ L = {} => big = b.bis

\* Handles that were given out before x; and such that differ.
Young(h, x) == \A k \in DOMAIN h : h[k] < x
Block(h, x) == Young(h, x) /\ \A k, l \in DOMAIN h : h[k] = h[l] => k = l

\* The SDUs of stream n on their way from the broadcaster to the medium go on from lo.
Top(b, big, n) == IF b.bis = big THEN b.seq[n] ELSE 0
Chained(b, big, q, a, p, o, n, lo) ==
  \E mid \in Nat : Steady(Due(q, a, big[n]), lo, mid) /\ Steady(Sent(p, o, big[n]), mid, Top(b, big, n))

Sending(b, big, x, q, a, p, o) ==
  /\ Block(big, x)
  /\ \A i \in DOMAIN p : p[i].op = "Iso" => p[i].handle < x
  /\ \A i \in DOMAIN q : q[i].cmd.op = "Iso" => q[i].cmd.handle < x
  /\ big # <<>> => \A n \in Bis : \E lo \in Nat : Chained(b, big, q, a, p, o, n, lo)

\* What the receiver r heard, what is on its way to it and what will be go on from each other.
Deaf == {"Idle", "SettingScanParameters", "Scanning", "SyncingToPeriodicAdvertising", "WaitingForAnnouncement",
         "SyncingToBig", "Failed"}
Heeds(r, joined, ev, e, b, big, q, a, p, o, h, l, u) ==
  /\ Steady(Came(ev, e, h), l, u)
  /\ r.bis # <<>> => \A n \in Bis : r.bis[n] = h => r.heard[n] \in {0, l}
  /\ joined # <<>> => \A n \in Bis : joined[n] = h => Chained(b, big, q, a, p, o, n, u)
YoungEvents(ev, x) ==
  \A i \in DOMAIN ev : /\ ev[i].type = "BigSync" => Block(ev[i].bis, x)
                       /\ ev[i].type = "Iso" => ev[i].handle < x
Hearing(r, joined, x, ev, e, b, big, q, a, p, o) ==
  /\ ~r.gap /\ (r.state \in Deaf => \A n \in Bis : r.heard[n] = 0)
  /\ joined # <<>> => big # <<>>
  /\ Block(joined, x) /\ Block(r.bis, x) /\ YoungEvents(ev, x)
  /\ \A h \in Nat : \E l, u \in Nat : Heeds(r, joined, ev, e, b, big, q, a, p, o, h, l, u)

\* While the medium m ticks: o commands of the broadcaster executed, a deferred ones.
Hosts(m, o, a) ==
  /\ Hosted(source, m.ctl[Src].big, m.evts[Src], Asks(cmds[Src], o, "CreateBig"), Routes(m.acts, a, "CreateBig"),
            Routes(m.acts, a, "TerminateBig"), Replies(m.evts[Src], 0), Ends(m.evts[Src], 0))
  /\ Young(source.bis, m.next) /\ \A i \in DOMAIN m.evts[Src] : Creates(m.evts[Src][i]) => Young(m.evts[Src][i].bis, m.next)
  /\ \A d \in Receiver : m.ctl[d].big = <<>>
  /\ \A i \in DOMAIN m.acts : m.acts[i].cmd.op # "BigCreateSync" => m.acts[i].from = Src
Sends(m, o, a) == Sending(source, m.ctl[Src].big, m.next, m.acts, a, cmds[Src], o)
Hears(m, o, a, c) ==
  Hearing(sink[c], m.ctl[c].joined, m.next, m.evts[c], 0, source, m.ctl[Src].big, m.acts, a, cmds[Src], o)

\* Between two steps.
FlowInv ==
  /\ Hosted(source, ctl[Src].big, evts[Src], Asks(cmds[Src], 0, "CreateBig"), {}, {}, Replies(evts[Src], 0), Ends(evts[Src], 0))
  /\ Young(source.bis, next) /\ \A i \in DOMAIN evts[Src] : Creates(evts[Src][i]) => Young(evts[Src][i].bis, next)
  /\ \A d \in Receiver : /\ ctl[d].big = <<>>
                         /\ \A i \in DOMAIN cmds[d] : cmds[d][i].op \notin {"CreateBig", "TerminateBig", "Iso"}
  /\ Sending(source, ctl[Src].big, next, <<>>, 0, cmds[Src], 0)
  /\ \A c \in Receiver : Hearing(sink[c], ctl[c].joined, next, evts[c], 0, source, ctl[Src].big, <<>>, 0, cmds[Src], 0)

\* One more deferred command of the source.
LEMMA RouteAfter ==
  ASSUME NEW q \in Seq(Act), NEW x \in Act, NEW op
  PROVE  Routes(Append(q, x), 0, op) = Routes(q, 0, op) \cup (IF Route(x, op) THEN {Len(q) + 1} ELSE {})
<1> DEFINE w == Append(q, x)
           l == Len(q) + 1
<1>1. /\ DOMAIN w = DOMAIN q \cup {l} /\ w[l] = x /\ l > 0
      /\ \A i \in DOMAIN q : w[i] = q[i] /\ i > 0 /\ i # l
  OBVIOUS
<1> HIDE DEF w, l
<1>2. Routes(w, 0, op) = Routes(q, 0, op) \cup (IF Route(x, op) THEN {l} ELSE {})
  BY <1>1 DEF Routes
<1> QED BY <1>2 DEF w, l

\* A deferred command of the source is taken.
LEMMA RouteTaken ==
  ASSUME NEW q \in Seq(Act), NEW n \in DOMAIN q, NEW op
  PROVE  /\ Routes(q, n - 1, op) = Routes(q, n, op) \cup (IF Route(q[n], op) THEN {n} ELSE {})
         /\ n \notin Routes(q, n, op)
<1>1. \A i \in DOMAIN q : i \in Nat /\ (i > n - 1 <=> i > n \/ i = n) /\ ~(n > n)
  OBVIOUS
<1> QED BY <1>1 DEF Routes

\* All of them are.
LEMMA RoutesTaken ==
  ASSUME NEW q \in Seq(Act), NEW op
  PROVE  Routes(q, Len(q), op) = {} /\ Routes(<<>>, 0, op) = {}
<1>1. \A i \in DOMAIN q : ~(i > Len(q))
  OBVIOUS
<1>2. DOMAIN <<>> = {}
  OBVIOUS
<1> QED BY <1>1, <1>2 DEF Routes

\* One more event, about the BIG or not.
LEMMA ReplyAfter ==
  ASSUME NEW ev \in Seq(Event), NEW x \in Event
  PROVE  /\ Replies(Append(ev, x), 0) = Replies(ev, 0) \cup (IF Replying(x) THEN {Len(ev) + 1} ELSE {})
         /\ Ends(Append(ev, x), 0) = Ends(ev, 0) \cup (IF Ending(x) THEN {Len(ev) + 1} ELSE {})
         /\ \A i \in DOMAIN ev : Append(ev, x)[i] = ev[i] /\ i < Len(ev) + 1
         /\ DOMAIN Append(ev, x) = DOMAIN ev \cup {Len(ev) + 1} /\ Append(ev, x)[Len(ev) + 1] = x
<1> DEFINE w == Append(ev, x)
           l == Len(ev) + 1
<1>1. /\ DOMAIN w = DOMAIN ev \cup {l} /\ w[l] = x /\ l > 0
      /\ \A i \in DOMAIN ev : w[i] = ev[i] /\ i > 0 /\ i # l /\ i < l
  OBVIOUS
<1> HIDE DEF w, l
<1>2. Replies(w, 0) = Replies(ev, 0) \cup (IF Replying(x) THEN {l} ELSE {})
  BY <1>1 DEF Replies
<1>3. Ends(w, 0) = Ends(ev, 0) \cup (IF Ending(x) THEN {l} ELSE {})
  BY <1>1 DEF Ends
<1> QED BY <1>1, <1>2, <1>3 DEF w, l

\* An event is taken.
LEMMA ReplyTaken ==
  ASSUME NEW ev \in Seq(Event), NEW n \in DOMAIN ev
  PROVE  /\ Replies(ev, n - 1) = Replies(ev, n) \cup (IF Replying(ev[n]) THEN {n} ELSE {})
         /\ Ends(ev, n - 1) = Ends(ev, n) \cup (IF Ending(ev[n]) THEN {n} ELSE {})
         /\ \A i \in Replies(ev, n) \cup Ends(ev, n) : i \in DOMAIN ev /\ n < i
         /\ n \notin Replies(ev, n) /\ n \notin Ends(ev, n) /\ n \in Nat
<1>1. \A i \in DOMAIN ev : i \in Nat /\ (i > n - 1 <=> i > n \/ i = n) /\ (i > n <=> n < i) /\ ~(n > n)
  OBVIOUS
<1>2. Replies(ev, n - 1) = Replies(ev, n) \cup (IF Replying(ev[n]) THEN {n} ELSE {})
  BY <1>1 DEF Replies
<1>3. Ends(ev, n - 1) = Ends(ev, n) \cup (IF Ending(ev[n]) THEN {n} ELSE {})
  BY <1>1 DEF Ends
<1> QED BY <1>1, <1>2, <1>3 DEF Replies, Ends

\* All of them are.
LEMMA RepliesTaken ==
  ASSUME NEW ev \in Seq(Event)
  PROVE  Replies(ev, Len(ev)) = {} /\ Ends(ev, Len(ev)) = {} /\ Replies(<<>>, 0) = {} /\ Ends(<<>>, 0) = {}
<1>1. \A i \in DOMAIN ev : ~(i > Len(ev))
  OBVIOUS
<1>2. DOMAIN <<>> = {}
  OBVIOUS
<1> QED BY <1>1, <1>2 DEF Replies, Ends

\* Events that are not about the BIG move no position.
LEMMA BesideAfter ==
  ASSUME NEW ev \in Seq(Event), NEW t \in Seq(Event), \A i \in DOMAIN t : Beside(t[i])
  PROVE  /\ Replies(ev \o t, 0) = Replies(ev, 0) /\ Ends(ev \o t, 0) = Ends(ev, 0)
         /\ \A i \in DOMAIN ev : i \in DOMAIN (ev \o t) /\ (ev \o t)[i] = ev[i]
         /\ \A i \in DOMAIN (ev \o t) : i \in DOMAIN ev \/ Beside((ev \o t)[i])
<1> DEFINE w == ev \o t
<1>1. /\ \A i \in DOMAIN ev : i \in DOMAIN w /\ w[i] = ev[i] /\ i > 0
      /\ \A i \in DOMAIN w : i \in DOMAIN ev \/ (i - Len(ev) \in DOMAIN t /\ w[i] = t[i - Len(ev)])
  OBVIOUS
<1> HIDE DEF w
<1>2. \A i \in DOMAIN w : i \in DOMAIN ev \/ Beside(w[i])
  BY <1>1
<1>3. Replies(w, 0) = Replies(ev, 0)
  BY <1>1, <1>2 DEF Replies, Beside
<1>4. Ends(w, 0) = Ends(ev, 0)
  BY <1>1, <1>2 DEF Ends, Beside
<1> QED BY <1>1, <1>2, <1>3, <1>4 DEF w

\* Events without streams bring no SDU.
LEMMA DullAfter ==
  ASSUME NEW ev \in Seq(Event), NEW t \in Seq(Event), \A i \in DOMAIN t : Dull(t[i])
  PROVE  /\ \A i \in DOMAIN (ev \o t) : (i \in DOMAIN ev /\ (ev \o t)[i] = ev[i]) \/ Dull((ev \o t)[i])
         /\ \A x : Came(ev \o t, 0, x) = Came(ev, 0, x)
<1>1. \A i \in DOMAIN t : t[i].type # "Iso"
  BY DEF Dull
<1>2. \A x : Came(ev \o t, 0, x) = Came(ev, 0, x)
  BY <1>1, CameOthers
<1>3. \A i \in DOMAIN (ev \o t) : (i \in DOMAIN ev /\ (ev \o t)[i] = ev[i]) \/ (i - Len(ev) \in DOMAIN t /\ (ev \o t)[i] = t[i - Len(ev)])
  OBVIOUS
<1> QED BY <1>2, <1>3

\* A handle given out before x is given out before y.
LEMMA YoungOlder ==
  ASSUME NEW h \in Streams \cup {<<>>}, NEW x \in Nat, NEW y \in Nat, x <= y
  PROVE  (Young(h, x) => Young(h, y)) /\ (Block(h, x) => Block(h, y))
<1>1. \A k \in DOMAIN h : h[k] \in Nat
  <2>1. CASE h \in Streams
    BY <2>1 DEF Streams
  <2>2. CASE h = <<>>
    <3>1. DOMAIN <<>> = {}
      OBVIOUS
    <3> QED BY <2>2, <3>1
  <2> QED BY <2>1, <2>2
<1>2. Young(h, x) => Young(h, y)
  BY <1>1 DEF Young
<1> QED BY <1>2 DEF Block

\* The streams that an event carries.
LEMMA EventStreams ==
  ASSUME NEW e \in Event
  PROVE  /\ Creates(e) => e.bis \in Streams
         /\ e.type = "BigSync" => e.bis \in Streams \cup {<<>>}
         /\ e.type = "BigSync" /\ e.ok => e.bis \in Streams
         /\ e.type = "Iso" => e.handle \in Nat /\ e.seq \in Nat
BY DEF Event, Creates

\* What does not concern the BIG leaves its host on its way.
LEMMA HostsBeside ==
  ASSUME NEW m \in Medium, NEW n \in Medium, NEW t \in Seq(Event), \A i \in DOMAIN t : Beside(t[i]), source \in Sources,
         NEW o, NEW o2, NEW a, NEW a2, Hosts(m, o, a), n.evts[Src] = m.evts[Src] \o t,
         \A d \in Ctl : n.ctl[d].big = m.ctl[d].big, m.next <= n.next,
         Asks(cmds[Src], o2, "CreateBig") = Asks(cmds[Src], o, "CreateBig"),
         Routes(n.acts, a2, "CreateBig") = Routes(m.acts, a, "CreateBig"),
         Routes(n.acts, a2, "TerminateBig") = Routes(m.acts, a, "TerminateBig"),
         \A i \in DOMAIN n.acts : n.acts[i].cmd.op # "BigCreateSync" => n.acts[i].from = Src
  PROVE  Hosts(n, o2, a2)
<1> DEFINE ev == m.evts[Src]
           w == n.evts[Src]
<1>1. ev \in Seq(Event) /\ m.next \in Nat /\ n.next \in Nat /\ Receiver \subseteq Ctl /\ Src \in Ctl
  BY SrcIsCtl DEF Medium, Receiver
<1>2. /\ Replies(w, 0) = Replies(ev, 0) /\ Ends(w, 0) = Ends(ev, 0)
      /\ \A i \in DOMAIN ev : i \in DOMAIN w /\ w[i] = ev[i]
      /\ \A i \in DOMAIN w : i \in DOMAIN ev \/ Beside(w[i])
  <2>1. w = ev \o t
    OBVIOUS
  <2> HIDE DEF w, ev
  <2> QED BY <1>1, <2>1, BesideAfter
<1>3. Replies(ev, 0) \subseteq DOMAIN ev
  BY DEF Replies
<1>4. Hosted(source, n.ctl[Src].big, w, Asks(cmds[Src], o2, "CreateBig"), Routes(n.acts, a2, "CreateBig"),
             Routes(n.acts, a2, "TerminateBig"), Replies(w, 0), Ends(w, 0))
  <2>1. Hosted(source, m.ctl[Src].big, ev, Asks(cmds[Src], o, "CreateBig"), Routes(m.acts, a, "CreateBig"),
               Routes(m.acts, a, "TerminateBig"), Replies(ev, 0), Ends(ev, 0))
    BY DEF Hosts
  <2> HIDE DEF w, ev
  <2> QED BY <1>1, <1>2, <1>3, <2>1 DEF Hosted
<1>5. Young(source.bis, n.next)
  <2>1. source.bis \in Streams \cup {<<>>} /\ Young(source.bis, m.next)
    BY DEF Sources, Hosts
  <2> QED BY <1>1, <2>1, YoungOlder
<1>6. ASSUME NEW i \in DOMAIN w, Creates(w[i]) PROVE Young(w[i].bis, n.next)
  <2> HIDE DEF w, ev
  <2>1. i \in DOMAIN ev /\ w[i] = ev[i]
    BY <1>2, <1>6 DEF Beside, Replying
  <2>2. Young(ev[i].bis, m.next)
    BY <1>6, <2>1 DEF Hosts, ev
  <2>3. ev[i].bis \in Streams
    BY <1>1, <1>6, <2>1, EventStreams
  <2> QED BY <1>1, <2>1, <2>2, <2>3, YoungOlder
<1>7. \A d \in Receiver : n.ctl[d].big = <<>>
  BY <1>1 DEF Hosts
<1> QED BY <1>4, <1>5, <1>6, <1>7 DEF Hosts

\* The same, for events without streams.
LEMMA HostsKept ==
  ASSUME NEW m \in Medium, NEW n \in Medium, NEW t \in Seq(Event), \A i \in DOMAIN t : Dull(t[i]), source \in Sources,
         NEW o, NEW o2, NEW a, NEW a2, Hosts(m, o, a), n.evts[Src] = m.evts[Src] \o t,
         \A d \in Ctl : n.ctl[d].big = m.ctl[d].big, m.next <= n.next,
         Asks(cmds[Src], o2, "CreateBig") = Asks(cmds[Src], o, "CreateBig"),
         Routes(n.acts, a2, "CreateBig") = Routes(m.acts, a, "CreateBig"),
         Routes(n.acts, a2, "TerminateBig") = Routes(m.acts, a, "TerminateBig"),
         \A i \in DOMAIN n.acts : n.acts[i].cmd.op # "BigCreateSync" => n.acts[i].from = Src
  PROVE  Hosts(n, o2, a2)
<1>1. \A i \in DOMAIN t : Beside(t[i])
  BY DEF Dull
<1> QED BY <1>1, HostsBeside

\* The SDUs that were on their way to the medium still are.
Goes(m, o, a, n, o2, a2) ==
  m.ctl[Src].big # <<>> => \A k \in Bis, lo \in Nat :
    Chained(source, m.ctl[Src].big, m.acts, a, cmds[Src], o, k, lo)
      => Chained(source, m.ctl[Src].big, n.acts, a2, cmds[Src], o2, k, lo)

\* SDUs under way stay in line when a step passes them on (Goes).
LEMMA SendsKept ==
  ASSUME NEW m \in Medium, NEW n \in Medium, NEW o, NEW o2, NEW a, NEW a2, Sends(m, o, a), Goes(m, o, a, n, o2, a2),
         cmds \in [Ctl -> Seq(Command)], n.ctl[Src].big = m.ctl[Src].big, m.next <= n.next,
         \A i \in DOMAIN n.acts : n.acts[i].cmd.op = "Iso" => n.acts[i].cmd.handle < n.next
  PROVE  Sends(n, o2, a2)
<1> DEFINE big == m.ctl[Src].big
           p == cmds[Src]
<1>1. m.next \in Nat /\ n.next \in Nat /\ big \in Streams \cup {<<>>} /\ p \in Seq(Command)
  BY SrcIsCtl DEF Medium, Keeps
<1>2. /\ Block(big, m.next) /\ \A i \in DOMAIN p : p[i].op = "Iso" => p[i].handle < m.next
      /\ big # <<>> => \A k \in Bis : \E lo \in Nat : Chained(source, big, m.acts, a, p, o, k, lo)
  BY DEF Sends, Sending
<1> HIDE DEF big, p
<1>3. Block(big, n.next)
  BY <1>1, <1>2, YoungOlder
<1>4. ASSUME NEW i \in DOMAIN p, p[i].op = "Iso" PROVE p[i].handle < n.next
  <2>1. p[i] \in Command
    BY <1>1
  <2>2. p[i].handle \in Nat
    BY <1>4, <2>1 DEF Command, Plains
  <2> QED BY <1>1, <1>2, <1>4, <2>2
<1>5. ASSUME big # <<>>, NEW k \in Bis PROVE \E lo \in Nat : Chained(source, big, n.acts, a2, p, o2, k, lo)
  BY <1>2, <1>5 DEF Goes, p, big
<1> QED BY <1>3, <1>4, <1>5 DEF Sends, Sending, big, p

\* What a receiver hears stays in line when it is told nothing of streams.
LEMMA HearsKept ==
  ASSUME NEW c \in Receiver, NEW m \in Medium, NEW n \in Medium, NEW t \in Seq(Event), \A i \in DOMAIN t : Dull(t[i]),
         NEW o, NEW o2, NEW a, NEW a2, Hears(m, o, a, c), sink \in [Receiver -> Sinks],
         m.next <= n.next, n.evts[c] = m.evts[c] \o t,
         \/ n.ctl[c].joined = <<>>
         \/ n.ctl[c].joined = m.ctl[c].joined /\ n.ctl[Src].big = m.ctl[Src].big /\ Goes(m, o, a, n, o2, a2)
  PROVE  Hears(n, o2, a2, c)
<1> DEFINE ev == m.evts[c]
           w == n.evts[c]
           r == sink[c]
           j == m.ctl[c].joined
           k == n.ctl[c].joined
           big == m.ctl[Src].big
           new == n.ctl[Src].big
           p == cmds[Src]
<1>1. /\ ev \in Seq(Event) /\ m.next \in Nat /\ n.next \in Nat /\ r \in Sinks
      /\ j \in Streams \cup {<<>>} /\ k \in Streams \cup {<<>>} /\ r.bis \in Streams \cup {<<>>}
  BY DEF Medium, Receiver, Keeps, Sinks
<1>2. /\ \A i \in DOMAIN w : (i \in DOMAIN ev /\ w[i] = ev[i]) \/ Dull(w[i])
      /\ \A x : Came(w, 0, x) = Came(ev, 0, x)
  <2>1. w = ev \o t
    OBVIOUS
  <2> HIDE DEF w, ev
  <2> QED BY <1>1, <2>1, DullAfter
<1>3. /\ ~r.gap /\ (r.state \in Deaf => \A x \in Bis : r.heard[x] = 0) /\ (j # <<>> => big # <<>>)
      /\ Block(j, m.next) /\ Block(r.bis, m.next) /\ YoungEvents(ev, m.next)
      /\ \A h \in Nat : \E l, u \in Nat : Heeds(r, j, ev, 0, source, big, m.acts, a, p, o, h, l, u)
  BY DEF Hears, Hearing
<1>4. k = <<>> \/ (k = j /\ new = big /\ Goes(m, o, a, n, o2, a2))
  OBVIOUS
<1> HIDE DEF ev, w, r, j, k, big, new, p
<1>5. Block(k, n.next) /\ Block(r.bis, n.next)
  <2>1. Block(j, n.next) /\ Block(r.bis, n.next)
    BY <1>1, <1>3, YoungOlder
  <2>2. Block(<<>>, n.next)
    BY DEF Block, Young
  <2> QED BY <1>4, <2>1, <2>2
<1>6. YoungEvents(w, n.next)
  <2> SUFFICES ASSUME NEW i \in DOMAIN w
               PROVE  /\ w[i].type = "BigSync" => Block(w[i].bis, n.next)
                      /\ w[i].type = "Iso" => w[i].handle < n.next
    BY DEF YoungEvents
  <2>1. CASE Dull(w[i])
    BY <2>1 DEF Dull
  <2>2. CASE i \in DOMAIN ev /\ w[i] = ev[i]
    <3>1. ev[i] \in Event
      BY <1>1, <2>2
    <3>2. /\ w[i].type = "BigSync" => w[i].bis \in Streams \cup {<<>>}
          /\ w[i].type = "Iso" => w[i].handle \in Nat
      BY <2>2, <3>1, EventStreams
    <3>3. /\ w[i].type = "BigSync" => Block(w[i].bis, m.next)
          /\ w[i].type = "Iso" => w[i].handle < m.next
      BY <1>3, <2>2 DEF YoungEvents
    <3>4. w[i].type = "BigSync" => Block(w[i].bis, n.next)
      BY <1>1, <3>2, <3>3, YoungOlder
    <3> QED BY <1>1, <3>2, <3>3, <3>4
  <2> QED BY <1>2, <2>1, <2>2
<1>7. ASSUME NEW h \in Nat PROVE \E l, u \in Nat : Heeds(r, k, w, 0, source, new, n.acts, a2, p, o2, h, l, u)
  <2>1. PICK l \in Nat, u \in Nat : Heeds(r, j, ev, 0, source, big, m.acts, a, p, o, h, l, u)
    BY <1>3
  <2>2. ASSUME k # <<>>, NEW x \in Bis, k[x] = h PROVE Chained(source, new, n.acts, a2, p, o2, x, u)
    <3>1. Chained(source, big, m.acts, a, p, o, x, u)
      BY <1>4, <2>1, <2>2 DEF Heeds
    <3>2. big # <<>> /\ new = big /\ Goes(m, o, a, n, o2, a2)
      BY <1>3, <1>4, <2>2
    <3> QED BY <3>1, <3>2 DEF Goes, p, big
  <2>3. Heeds(r, k, w, 0, source, new, n.acts, a2, p, o2, h, l, u)
    BY <1>2, <2>1, <2>2 DEF Heeds
  <2> QED BY <2>3
<1> QED BY <1>3, <1>4, <1>5, <1>6, <1>7 DEF Hears, Hearing, w, r, k, new, p

\* What a command does to a BIG, to the queues and to what is deferred.
CommandTraces(m, n, x, cmd) ==
  /\ n.next = m.next /\ \A d \in Ctl : n.ctl[d].big = m.ctl[d].big /\ n.ctl[d].joined \in {m.ctl[d].joined, <<>>}
  /\ \A d \in Ctl \ {x} : n.evts[d] = m.evts[d]
  /\ \/ n.evts[x] = m.evts[x] /\ cmd.op = "Iso"
     \/ \E e \in Event : /\ n.evts[x] = Append(m.evts[x], e) /\ e.type \in {"Complete", "Status"}
                         /\ Replying(e) <=> (cmd.op = "CreateBig" /\ n.acts = m.acts)
  /\ \/ n.acts = m.acts /\ cmd.op # "Iso"
     \/ /\ n.acts = Append(m.acts, [from |-> x, cmd |-> cmd]) /\ cmd \in Routable
        /\ cmd.op = "TerminateBig" => m.ctl[x].big # <<>>

\* A command that is answered at once.
LEMMA TraceAnswer ==
  ASSUME NEW m \in Medium, NEW k \in Medium, NEW x \in Ctl, NEW cmd \in Command, NEW ok \in BOOLEAN, NEW n,
         k.next = m.next, k.evts = m.evts, k.acts = m.acts,
         \A d \in Ctl : k.ctl[d].big = m.ctl[d].big /\ k.ctl[d].joined \in {m.ctl[d].joined, <<>>},
         cmd.op # "Iso",
         (n = Complete(k, x, cmd.op, ok) /\ cmd.op # "CreateBig") \/ (n = Status(k, x, cmd.op, ok) /\ (cmd.op = "CreateBig" => ~ok))
  PROVE  CommandTraces(m, n, x, cmd)
<1> DEFINE e1 == [type |-> "Complete", op |-> cmd.op, ok |-> ok]
           e2 == [type |-> "Status", op |-> cmd.op, ok |-> ok]
<1>1. e1 \in Event /\ e2 \in Event
  BY DEF Event, Command, Ops
<1>2. ASSUME NEW e \in Event, n = Tell(k, x, e), e.type \in {"Complete", "Status"}, Replying(e) <=> cmd.op = "CreateBig"
      PROVE  CommandTraces(m, n, x, cmd)
  <2>1. n.ctl = k.ctl /\ n.acts = k.acts /\ n.next = k.next /\ n.evts = [k.evts EXCEPT ![x] = Append(@, e)]
    BY <1>2, TellDoes
  <2>2. n.evts[x] = Append(m.evts[x], e) /\ \A d \in Ctl \ {x} : n.evts[d] = m.evts[d]
    BY <2>1 DEF Medium
  <2> QED BY <1>2, <2>1, <2>2 DEF CommandTraces
<1>3. CASE n = Complete(k, x, cmd.op, ok) /\ cmd.op # "CreateBig"
  <2>1. ~Replying(e1) /\ e1.type = "Complete"
    BY DEF Replying, Creates
  <2>2. n = Tell(k, x, e1)
    BY <1>3 DEF Complete
  <2> HIDE DEF e1, e2
  <2> QED BY <1>1, <1>2, <1>3, <2>1, <2>2
<1>4. CASE n = Status(k, x, cmd.op, ok) /\ (cmd.op = "CreateBig" => ~ok)
  <2>1. (Replying(e2) <=> cmd.op = "CreateBig") /\ e2.type = "Status"
    BY <1>4 DEF Replying, Creates
  <2>2. n = Tell(k, x, e2)
    BY <1>4 DEF Status
  <2> HIDE DEF e1, e2
  <2> QED BY <1>1, <1>2, <2>1, <2>2
<1> QED BY <1>3, <1>4

\* A command that is accepted and deferred.
LEMMA TraceDefer ==
  ASSUME NEW m \in Medium, NEW x \in Ctl, NEW cmd \in Routable, cmd.op # "Iso",
         cmd.op = "TerminateBig" => m.ctl[x].big # <<>>
  PROVE  CommandTraces(m, Defer(Status(m, x, cmd.op, TRUE), x, cmd), x, cmd)
<1> DEFINE e == [type |-> "Status", op |-> cmd.op, ok |-> TRUE]
           k == Status(m, x, cmd.op, TRUE)
           n == Defer(k, x, cmd)
<1>1. e \in Event /\ ~Replying(e) /\ e.type = "Status" /\ cmd \in Command
  BY DEF Event, Command, Ops, Routable, Replying, Creates
<1>2. k = Tell(m, x, e)
  BY DEF Status
<1> HIDE DEF e, k
<1>3. k \in Medium /\ k.ctl = m.ctl /\ k.acts = m.acts /\ k.next = m.next /\ k.evts = [m.evts EXCEPT ![x] = Append(@, e)]
  BY <1>1, <1>2, TellDoes, TellTyped
<1>4. n.ctl = k.ctl /\ n.next = k.next /\ n.evts = k.evts /\ n.acts = Append(k.acts, [from |-> x, cmd |-> cmd])
  BY <1>3 DEF Defer, Medium
<1>5. n.evts[x] = Append(m.evts[x], e) /\ \A d \in Ctl \ {x} : n.evts[d] = m.evts[d]
  BY <1>3, <1>4 DEF Medium
<1>6. n.acts # m.acts
  <2>1. m.acts \in Seq(Act) /\ Len(Append(m.acts, [from |-> x, cmd |-> cmd])) = Len(m.acts) + 1 /\ Len(m.acts) \in Nat
    BY DEF Medium
  <2> QED BY <1>3, <1>4, <2>1
<1> HIDE DEF n
<1>7. CommandTraces(m, n, x, cmd)
  BY <1>1, <1>3, <1>4, <1>5, <1>6 DEF CommandTraces
<1> QED BY <1>7 DEF n, k

\* Every command of phase A.
LEMMA HandleCommandTraces ==
  ASSUME NEW m \in Medium, NEW x \in Ctl, NEW cmd \in Command
  PROVE  CommandTraces(m, HandleCommand(m, x, cmd), x, cmd)
<1> DEFINE n == HandleCommand(m, x, cmd)
           Same(k) == /\ k \in Medium /\ k.next = m.next /\ k.evts = m.evts /\ k.acts = m.acts
                      /\ \A d \in Ctl : k.ctl[d].big = m.ctl[d].big /\ k.ctl[d].joined \in {m.ctl[d].joined, <<>>}
<1>0. m.ctl[x] \in Keeps /\ TRUE \in BOOLEAN /\ FALSE \in BOOLEAN /\ Same(m)
  BY DEF Medium
<1>00. ASSUME NEW K \in Keeps, K.big = m.ctl[x].big, K.joined \in {m.ctl[x].joined, <<>>} PROVE Same([m EXCEPT !.ctl[x] = K])
  <2> DEFINE k == [m EXCEPT !.ctl[x] = K]
  <2>1. k \in Medium /\ k.next = m.next /\ k.evts = m.evts /\ k.acts = m.acts /\ k.ctl = [m.ctl EXCEPT ![x] = K]
    BY DEF Medium
  <2> HIDE DEF k
  <2>2. Same(k)
    BY <1>00, <2>1 DEF Medium
  <2> QED BY <2>2 DEF k
<1>1. CASE cmd.op = "PeriodicData"
  <2> DEFINE K == [m.ctl[x] EXCEPT !.base = cmd.base]
             k == [m EXCEPT !.ctl[x].base = cmd.base]
  <2>1. cmd.base \in Nat
    BY <1>1 DEF Command, Plains
  <2>8. K \in Keeps /\ K.big = m.ctl[x].big /\ K.joined \in {m.ctl[x].joined, <<>>}
    BY <1>0, <2>1 DEF Keeps
  <2>9. k = [m EXCEPT !.ctl[x] = K]
    BY DEF Medium
  <2>2. Same(k)
    <3> HIDE DEF K, k, Same
    <3> QED BY <1>00, <2>8, <2>9
  <2>3. n = Complete(k, x, cmd.op, TRUE)
    BY <1>1 DEF HandleCommand
  <2> HIDE DEF K, k, n
  <2>4. CommandTraces(m, n, x, cmd)
    BY <1>0, <1>1, <2>2, <2>3, TraceAnswer
  <2> QED BY <2>4 DEF n
<1>2. CASE cmd.op = "Enable"
  <2> DEFINE K == [m.ctl[x] EXCEPT !.on = TRUE]
             k == [m EXCEPT !.ctl[x].on = TRUE]
  <2>8. K \in Keeps /\ K.big = m.ctl[x].big /\ K.joined \in {m.ctl[x].joined, <<>>}
    BY <1>0 DEF Keeps
  <2>9. k = [m EXCEPT !.ctl[x] = K]
    BY DEF Medium
  <2>2. Same(k)
    <3> HIDE DEF K, k, Same
    <3> QED BY <1>00, <2>8, <2>9
  <2>3. n = Complete(k, x, cmd.op, TRUE)
    BY <1>2 DEF HandleCommand
  <2> HIDE DEF K, k, n
  <2>4. CommandTraces(m, n, x, cmd)
    BY <1>0, <1>2, <2>2, <2>3, TraceAnswer
  <2> QED BY <2>4 DEF n
<1>3. CASE cmd.op = "PeriodicEnable"
  <2> DEFINE K == [m.ctl[x] EXCEPT !.train = TRUE]
             k == [m EXCEPT !.ctl[x].train = TRUE]
  <2>8. K \in Keeps /\ K.big = m.ctl[x].big /\ K.joined \in {m.ctl[x].joined, <<>>}
    BY <1>0 DEF Keeps
  <2>9. k = [m EXCEPT !.ctl[x] = K]
    BY DEF Medium
  <2>2. Same(k)
    <3> HIDE DEF K, k, Same
    <3> QED BY <1>00, <2>8, <2>9
  <2>3. n = Complete(k, x, cmd.op, TRUE)
    BY <1>3 DEF HandleCommand
  <2> HIDE DEF K, k, n
  <2>4. CommandTraces(m, n, x, cmd)
    BY <1>0, <1>3, <2>2, <2>3, TraceAnswer
  <2> QED BY <2>4 DEF n
<1>4. CASE cmd.op = "ScanEnable"
  <2> DEFINE K == [m.ctl[x] EXCEPT !.scanning = cmd.on]
             k == [m EXCEPT !.ctl[x].scanning = cmd.on]
  <2>1. cmd.on \in BOOLEAN
    BY <1>4 DEF Command, Plains
  <2>8. K \in Keeps /\ K.big = m.ctl[x].big /\ K.joined \in {m.ctl[x].joined, <<>>}
    BY <1>0, <2>1 DEF Keeps
  <2>9. k = [m EXCEPT !.ctl[x] = K]
    BY DEF Medium
  <2>2. Same(k)
    <3> HIDE DEF K, k, Same
    <3> QED BY <1>00, <2>8, <2>9
  <2>3. n = Complete(k, x, cmd.op, TRUE)
    BY <1>4 DEF HandleCommand
  <2> HIDE DEF K, k, n
  <2>4. CommandTraces(m, n, x, cmd)
    BY <1>0, <1>4, <2>2, <2>3, TraceAnswer
  <2> QED BY <2>4 DEF n
<1>5. CASE cmd.op = "CreateSync"
  <2> DEFINE K == [m.ctl[x] EXCEPT !.wanted = TRUE]
             k == [m EXCEPT !.ctl[x].wanted = TRUE]
  <2>8. K \in Keeps /\ K.big = m.ctl[x].big /\ K.joined \in {m.ctl[x].joined, <<>>}
    BY <1>0 DEF Keeps
  <2>9. k = [m EXCEPT !.ctl[x] = K]
    BY DEF Medium
  <2>2. Same(k)
    <3> HIDE DEF K, k, Same
    <3> QED BY <1>00, <2>8, <2>9
  <2>3. n = Status(k, x, cmd.op, TRUE)
    BY <1>5 DEF HandleCommand
  <2> HIDE DEF K, k, n
  <2>4. CommandTraces(m, n, x, cmd)
    BY <1>0, <1>5, <2>2, <2>3, TraceAnswer
  <2> QED BY <2>4 DEF n
<1>6. CASE cmd.op = "CreateBig"
  <2>1. CASE m.ctl[x].on /\ m.ctl[x].train
    <3>1. n = Defer(Status(m, x, cmd.op, TRUE), x, cmd)
      BY <1>6, <2>1 DEF HandleCommand
    <3>2. cmd \in Routable /\ cmd.op # "Iso" /\ cmd.op # "TerminateBig"
      BY <1>6 DEF Routable
    <3> HIDE DEF n
    <3>3. CommandTraces(m, n, x, cmd)
      BY <3>1, <3>2, TraceDefer
    <3> QED BY <3>3 DEF n
  <2>2. CASE ~(m.ctl[x].on /\ m.ctl[x].train)
    <3>1. n = Status(m, x, cmd.op, FALSE)
      BY <1>6, <2>2 DEF HandleCommand
    <3> HIDE DEF n
    <3>3. CommandTraces(m, n, x, cmd)
      BY <1>0, <1>6, <3>1, TraceAnswer
    <3> QED BY <3>3 DEF n
  <2> QED BY <2>1, <2>2
<1>7. CASE cmd.op = "TerminateBig"
  <2>1. CASE m.ctl[x].big # <<>>
    <3>1. n = Defer(Status(m, x, cmd.op, TRUE), x, cmd)
      BY <1>7, <2>1 DEF HandleCommand
    <3>2. cmd \in Routable /\ cmd.op # "Iso"
      BY <1>7 DEF Routable
    <3> HIDE DEF n
    <3>3. CommandTraces(m, n, x, cmd)
      BY <2>1, <3>1, <3>2, TraceDefer
    <3> QED BY <3>3 DEF n
  <2>2. CASE ~(m.ctl[x].big # <<>>)
    <3>1. n = Status(m, x, cmd.op, FALSE)
      BY <1>7, <2>2 DEF HandleCommand
    <3> HIDE DEF n
    <3>3. CommandTraces(m, n, x, cmd)
      BY <1>0, <1>7, <3>1, TraceAnswer
    <3> QED BY <3>3 DEF n
  <2> QED BY <2>1, <2>2
<1>8. CASE cmd.op = "BigCreateSync"
  <2>1. CASE m.ctl[x].sync = cmd.sync /\ cmd.sync # 0
    <3>1. n = Defer(Status(m, x, cmd.op, TRUE), x, cmd)
      BY <1>8, <2>1 DEF HandleCommand
    <3>2. cmd \in Routable /\ cmd.op # "Iso" /\ cmd.op # "TerminateBig"
      BY <1>8 DEF Routable
    <3> HIDE DEF n
    <3>3. CommandTraces(m, n, x, cmd)
      BY <3>1, <3>2, TraceDefer
    <3> QED BY <3>3 DEF n
  <2>2. CASE ~(m.ctl[x].sync = cmd.sync /\ cmd.sync # 0)
    <3>1. n = Status(m, x, cmd.op, FALSE)
      BY <1>8, <2>2 DEF HandleCommand
    <3> HIDE DEF n
    <3>3. CommandTraces(m, n, x, cmd)
      BY <1>0, <1>8, <3>1, TraceAnswer
    <3> QED BY <3>3 DEF n
  <2> QED BY <2>1, <2>2
<1>9. CASE cmd.op = "BigTerminateSync"
  <2> DEFINE K == [m.ctl[x] EXCEPT !.joined = <<>>]
             k == [m EXCEPT !.ctl[x].joined = <<>>]
             ok == m.ctl[x].joined # <<>>
  <2>8. K \in Keeps /\ K.big = m.ctl[x].big /\ K.joined \in {m.ctl[x].joined, <<>>}
    BY <1>0 DEF Keeps
  <2>9. k = [m EXCEPT !.ctl[x] = K]
    BY DEF Medium
  <2>2. Same(k)
    <3> HIDE DEF K, k, Same
    <3> QED BY <1>00, <2>8, <2>9
  <2>3. n = Complete(k, x, cmd.op, ok)
    BY <1>9 DEF HandleCommand
  <2>5. ok \in BOOLEAN
    OBVIOUS
  <2> HIDE DEF K, k, n, ok
  <2>4. CommandTraces(m, n, x, cmd)
    BY <1>0, <1>9, <2>2, <2>3, <2>5, TraceAnswer
  <2> QED BY <2>4 DEF n
<1>10. CASE cmd.op = "Iso"
  <2>1. n = Defer(m, x, cmd)
    BY <1>10 DEF HandleCommand
  <2>2. n.ctl = m.ctl /\ n.next = m.next /\ n.evts = m.evts /\ n.acts = Append(m.acts, [from |-> x, cmd |-> cmd])
    BY <2>1 DEF Defer, Medium
  <2>3. cmd \in Routable
    BY <1>10 DEF Routable
  <2> HIDE DEF n
  <2>4. CommandTraces(m, n, x, cmd)
    BY <1>10, <2>2, <2>3 DEF CommandTraces
  <2> QED BY <2>4 DEF n
<1>11. CASE cmd.op \notin {"PeriodicData", "Enable", "PeriodicEnable", "ScanEnable", "CreateSync", "CreateBig",
                           "TerminateBig", "BigCreateSync", "BigTerminateSync", "Iso"}
  <2>1. n = Complete(m, x, cmd.op, TRUE)
    BY <1>11 DEF HandleCommand
  <2> HIDE DEF n
  <2>4. CommandTraces(m, n, x, cmd)
    BY <1>0, <1>11, <2>1, TraceAnswer
  <2> QED BY <2>4 DEF n
<1> QED BY <1>1, <1>2, <1>3, <1>4, <1>5, <1>6, <1>7, <1>8, <1>9, <1>10, <1>11

\* Appending an event is concatenating it.
LEMMA OneEventOn ==
  ASSUME NEW ev \in Seq(Event), NEW e \in Event
  PROVE  Append(ev, e) = ev \o <<e>> /\ <<e>> \in Seq(Event) /\ <<e>>[1] = e /\ DOMAIN <<e>> = {1} /\ ev \o <<>> = ev
OBVIOUS

\* Phase A passes SDUs from the queue of commands to the deferred ones.
LEMMA CommandGoes ==
  ASSUME NEW m \in Medium, NEW n \in Medium, NEW o, NEW o2, NEW x \in Ctl, NEW cmd \in Command, CommandTraces(m, n, x, cmd),
         cmds \in [Ctl -> Seq(Command)], source \in Sources,
         IF x = Src THEN o2 \in DOMAIN cmds[Src] /\ cmd = cmds[Src][o2] /\ o = o2 - 1 ELSE o2 = o /\ cmd.op # "Iso"
  PROVE  Goes(m, o, 0, n, o2, 0)
<1> DEFINE p == cmds[Src]
           q == m.acts
           y == [from |-> x, cmd |-> cmd]
<1>1. p \in Seq(Command) /\ q \in Seq(Act)
  BY SrcIsCtl DEF Medium
<1> SUFFICES ASSUME NEW k \in Bis, NEW lo \in Nat, NEW mid \in Nat,
                    Steady(Due(q, 0, m.ctl[Src].big[k]), lo, mid),
                    Steady(Sent(p, o, m.ctl[Src].big[k]), mid, Top(source, m.ctl[Src].big, k))
             PROVE  Chained(source, m.ctl[Src].big, n.acts, 0, p, o2, k, lo)
  BY DEF Goes, Chained
<1> DEFINE z == m.ctl[Src].big[k]
           h == Top(source, m.ctl[Src].big, k)
<1>2. Chained(source, m.ctl[Src].big, n.acts, 0, p, o2, k, lo) <=>
        \E v \in Nat : Steady(Due(n.acts, 0, z), lo, v) /\ Steady(Sent(p, o2, z), v, h)
  BY DEF Chained
<1> HIDE DEF z, h, p, q
<1>3. Steady(Due(q, 0, z), lo, mid) /\ Steady(Sent(p, o, z), mid, h)
  BY DEF z, h, p, q
<1>4. CASE cmd.op # "Iso"
  <2>1. ~Iso(cmd, z)
    BY <1>4 DEF Iso
  <2>2. Steady(Sent(p, o2, z), mid, h)
    <3>1. CASE x = Src
      <4>1. o2 \in DOMAIN p /\ cmd = p[o2] /\ o = o2 - 1
        BY <3>1 DEF p
      <4> QED BY <1>1, <1>3, <2>1, <4>1, SentHead
    <3>2. CASE x # Src
      BY <1>3, <3>2
    <3> QED BY <3>1, <3>2
  <2>3. Steady(Due(n.acts, 0, z), lo, mid)
    <3>1. CASE n.acts = q
      BY <1>3, <3>1
    <3>2. CASE n.acts = Append(q, y) /\ cmd \in Routable
      <4>1. y \in Act /\ ~Iso(y.cmd, z)
        BY <2>1, <3>2 DEF Act
      <4> HIDE DEF y
      <4> QED BY <1>1, <1>3, <3>2, <4>1, DueMore
    <3> QED BY <3>1, <3>2 DEF CommandTraces, q
  <2> QED BY <1>2, <2>2, <2>3
<1>5. CASE cmd.op = "Iso"
  <2>1. /\ o2 \in DOMAIN p /\ cmd = p[o2] /\ o = o2 - 1
        /\ n.acts = Append(q, y) /\ cmd \in Routable
    BY <1>5 DEF CommandTraces, p, q
  <2>2. y \in Act /\ y.cmd = cmd
    BY <2>1 DEF Act
  <2> HIDE DEF y
  <2>3. CASE Iso(cmd, z)
    <3>1. cmd.seq = mid + 1 /\ Steady(Sent(p, o2, z), mid + 1, h)
      BY <1>1, <1>3, <2>1, <2>3, SentHead
    <3>2. Steady(Due(n.acts, 0, z), lo, mid + 1)
      BY <1>1, <1>3, <2>1, <2>2, <2>3, <3>1, DueMore
    <3>3. mid + 1 \in Nat
      OBVIOUS
    <3> QED BY <1>2, <3>1, <3>2, <3>3
  <2>4. CASE ~Iso(cmd, z)
    <3>1. Steady(Sent(p, o2, z), mid, h)
      BY <1>1, <1>3, <2>1, <2>4, SentHead
    <3>2. Steady(Due(n.acts, 0, z), lo, mid)
      BY <1>1, <1>3, <2>1, <2>2, <2>4, DueMore
    <3> QED BY <1>2, <3>1, <3>2
  <2> QED BY <2>3, <2>4
<1> QED BY <1>4, <1>5

\* Phase A, one command: SDUs on their way stay in their order.
LEMMA CommandFlows ==
  ASSUME TypeOK, NEW m \in Medium, NEW n \in Medium, NEW o, NEW o2, NEW x \in Ctl, NEW cmd \in Command, CommandTraces(m, n, x, cmd),
         IF x = Src THEN o2 \in DOMAIN cmds[Src] /\ cmd = cmds[Src][o2] /\ o = o2 - 1
         ELSE o2 = o /\ cmd.op \notin {"CreateBig", "TerminateBig", "Iso"},
         Sends(m, o, 0), \A c \in Receiver : Hears(m, o, 0, c)
  PROVE  Sends(n, o2, 0) /\ \A c \in Receiver : Hears(n, o2, 0, c)
<1> DEFINE y == [from |-> x, cmd |-> cmd]
<1>1. Goes(m, o, 0, n, o2, 0)
  BY CommandGoes DEF TypeOK
<1>2. n.ctl[Src].big = m.ctl[Src].big /\ n.next = m.next /\ m.next \in Nat /\ m.acts \in Seq(Act)
  BY SrcIsCtl DEF CommandTraces, Medium
<1>3. ASSUME NEW i \in DOMAIN n.acts, n.acts[i].cmd.op = "Iso" PROVE n.acts[i].cmd.handle < n.next
  <2>1. \A j \in DOMAIN m.acts : m.acts[j].cmd.op = "Iso" => m.acts[j].cmd.handle < m.next
    BY DEF Sends, Sending
  <2>2. \A j \in DOMAIN cmds[Src] : cmds[Src][j].op = "Iso" => cmds[Src][j].handle < m.next
    BY DEF Sends, Sending
  <2>3. CASE n.acts = m.acts
    BY <1>2, <1>3, <2>1, <2>3
  <2>4. CASE n.acts = Append(m.acts, y)
    <3>1. y.cmd = cmd
      OBVIOUS
    <3> HIDE DEF y
    <3>2. (i \in DOMAIN m.acts /\ n.acts[i] = m.acts[i]) \/ n.acts[i] = y
      BY <1>2, <2>4
    <3>3. CASE i \in DOMAIN m.acts /\ n.acts[i] = m.acts[i]
      BY <1>2, <1>3, <2>1, <3>3
    <3>4. CASE n.acts[i] = y
      <4>1. cmd.op = "Iso"
        BY <1>3, <3>1, <3>4
      <4>2. x = Src
        BY <4>1
      <4> QED BY <1>2, <2>2, <3>1, <3>4, <4>1, <4>2
    <3> QED BY <3>2, <3>3, <3>4
  <2> QED BY <2>3, <2>4 DEF CommandTraces
<1>4. m.next <= n.next
  BY <1>2
<1>5. Sends(n, o2, 0)
  BY <1>1, <1>2, <1>3, <1>4, SendsKept DEF TypeOK
<1>6. ASSUME NEW c \in Receiver PROVE Hears(n, o2, 0, c)
  <2>1. c \in Ctl /\ c # Src /\ m.evts[c] \in Seq(Event)
    BY DEF Receiver, Medium
  <2>2. PICK t \in Seq(Event) : n.evts[c] = m.evts[c] \o t /\ \A i \in DOMAIN t : Dull(t[i])
    <3>1. CASE n.evts[c] = m.evts[c]
      <4>1. <<>> \in Seq(Event) /\ m.evts[c] \o <<>> = m.evts[c] /\ DOMAIN <<>> = {}
        BY <2>1
      <4> QED BY <3>1, <4>1
    <3>2. CASE x = c /\ n.evts[c] # m.evts[c]
      <4>1. PICK e \in Event : /\ n.evts[x] = Append(m.evts[x], e) /\ e.type \in {"Complete", "Status"}
                               /\ Replying(e) <=> (cmd.op = "CreateBig" /\ n.acts = m.acts)
        BY <3>2 DEF CommandTraces
      <4>2. ~Replying(e)
        BY <2>1, <3>2, <4>1
      <4>3. Dull(e)
        BY <4>1, <4>2 DEF Dull, Beside, Ending
      <4>4. n.evts[c] = m.evts[c] \o <<e>> /\ <<e>> \in Seq(Event) /\ <<e>>[1] = e /\ DOMAIN <<e>> = {1}
        BY <2>1, <3>2, <4>1, OneEventOn
      <4> QED BY <4>3, <4>4
    <3> QED BY <2>1, <3>1, <3>2 DEF CommandTraces
  <2>3. n.ctl[c].joined \in {m.ctl[c].joined, <<>>} /\ Hears(m, o, 0, c) /\ sink \in [Receiver -> Sinks]
    BY <2>1 DEF CommandTraces, TypeOK
  <2>4. n.ctl[c].joined = <<>> \/ (n.ctl[c].joined = m.ctl[c].joined /\ n.ctl[Src].big = m.ctl[Src].big /\ Goes(m, o, 0, n, o2, 0))
    BY <1>1, <1>2, <2>3
  <2> QED BY <1>4, <2>2, <2>3, <2>4, HearsKept
<1> QED BY <1>5, <1>6

\* One more deferred command: only the source defers others than joins.
LEMMA ActsGrow ==
  ASSUME NEW q \in Seq(Act), NEW y \in Act, y.from = Src \/ y.cmd.op = "BigCreateSync", NEW w, w = Append(q, y),
         \A i \in DOMAIN q : q[i].cmd.op # "BigCreateSync" => q[i].from = Src
  PROVE  /\ \A i \in DOMAIN w : w[i].cmd.op # "BigCreateSync" => w[i].from = Src
         /\ \A op : Routes(w, 0, op) = Routes(q, 0, op) \cup (IF y.from = Src /\ y.cmd.op = op THEN {Len(q) + 1} ELSE {})
<1>3. \A i \in DOMAIN w : w[i] = y \/ (i \in DOMAIN q /\ w[i] = q[i])
  OBVIOUS
<1>4. \A op : Routes(w, 0, op) = Routes(q, 0, op) \cup (IF y.from = Src /\ y.cmd.op = op THEN {Len(q) + 1} ELSE {})
  BY RouteAfter DEF Route
<1> QED BY <1>3, <1>4

\* Phase A, a command of a receiver: nothing happens to the broadcaster.
LEMMA OtherHosts ==
  ASSUME TypeOK, NEW m \in Medium, NEW n \in Medium, NEW o, NEW x \in Receiver, NEW cmd \in Command, CommandTraces(m, n, x, cmd),
         cmd.op \notin {"CreateBig", "TerminateBig", "Iso"}, Hosts(m, o, 0)
  PROVE  Hosts(n, o, 0)
<1>1. x \in Ctl /\ x # Src /\ Src \in Ctl \ {x} /\ m.evts[Src] \in Seq(Event) /\ m.next \in Nat
  BY SrcIsCtl DEF Receiver, Medium
<1>2. /\ n.evts[Src] = m.evts[Src] /\ n.next = m.next /\ \A d \in Ctl : n.ctl[d].big = m.ctl[d].big
      /\ n.acts = m.acts \/ (n.acts = Append(m.acts, [from |-> x, cmd |-> cmd]) /\ cmd \in Routable)
  BY <1>1 DEF CommandTraces
<1>3. <<>> \in Seq(Event) /\ n.evts[Src] = m.evts[Src] \o <<>> /\ (\A i \in DOMAIN <<>> : Dull(<<>>[i])) /\ m.next <= n.next
  BY <1>1, <1>2
<1>4. \A i \in DOMAIN m.acts : m.acts[i].cmd.op # "BigCreateSync" => m.acts[i].from = Src
  BY DEF Hosts
<1>5. /\ \A i \in DOMAIN n.acts : n.acts[i].cmd.op # "BigCreateSync" => n.acts[i].from = Src
      /\ \A op : Routes(n.acts, 0, op) = Routes(m.acts, 0, op)
  <2>1. CASE n.acts = m.acts
    BY <1>4, <2>1
  <2>2. CASE n.acts = Append(m.acts, [from |-> x, cmd |-> cmd]) /\ cmd \in Routable
    <3>1. cmd.op = "BigCreateSync"
      BY <2>2 DEF Routable
    <3> DEFINE y == [from |-> x, cmd |-> cmd]
    <3>3. y \in Act /\ y.cmd.op = "BigCreateSync" /\ y.from # Src /\ n.acts = Append(m.acts, y) /\ m.acts \in Seq(Act)
      BY <1>1, <2>2, <3>1 DEF Act, Medium
    <3> DEFINE q == m.acts
               w == n.acts
    <3>4. \A i \in DOMAIN q : q[i].cmd.op # "BigCreateSync" => q[i].from = Src
      BY <1>4
    <3> HIDE DEF y, q, w
    <3>2. /\ \A i \in DOMAIN w : w[i].cmd.op # "BigCreateSync" => w[i].from = Src
          /\ \A op : Routes(w, 0, op) = Routes(q, 0, op) \cup (IF y.from = Src /\ y.cmd.op = op THEN {Len(q) + 1} ELSE {})
      <4>1. w = Append(q, y) /\ q \in Seq(Act) /\ y \in Act
        BY <3>3 DEF w, q
      <4>2. y.from = Src \/ y.cmd.op = "BigCreateSync"
        BY <3>3
      <4>3. \A i \in DOMAIN w : w[i] = y \/ (i \in DOMAIN q /\ w[i] = q[i])
        BY <4>1
      <4>4. \A op : Routes(w, 0, op) = Routes(q, 0, op) \cup (IF y.from = Src /\ y.cmd.op = op THEN {Len(q) + 1} ELSE {})
        BY <4>1, RouteAfter DEF Route
      <4> QED BY <3>4, <4>2, <4>3, <4>4
    <3> QED BY <3>2, <3>3 DEF q, w
  <2> QED BY <1>2, <2>1, <2>2
<1>6. source \in Sources
  BY DEF TypeOK
<1>7. PICK t \in Seq(Event) : n.evts[Src] = m.evts[Src] \o t /\ \A i \in DOMAIN t : Dull(t[i])
  BY <1>3
<1> QED BY <1>2, <1>3, <1>5, <1>6, <1>7, HostsKept

\* Phase A, a command of the broadcaster.
LEMMA OwnHosts ==
  ASSUME TypeOK, NEW m \in Medium, NEW n \in Medium, NEW i \in DOMAIN cmds[Src], CommandTraces(m, n, Src, cmds[Src][i]),
         Hosts(m, i - 1, 0)
  PROVE  Hosts(n, i, 0)
<1> DEFINE p == cmds[Src]
           cmd == p[i]
           q == m.acts
           ev == m.evts[Src]
           w == n.evts[Src]
           big == m.ctl[Src].big
           l == Len(q) + 1
<1>1. p \in Seq(Command) /\ cmd \in Command /\ q \in Seq(Act) /\ ev \in Seq(Event) /\ Src \in Ctl /\ m.next \in Nat /\ Receiver \subseteq Ctl
  BY SrcIsCtl DEF TypeOK, Medium, Receiver
<1>2. /\ n.next = m.next /\ n.ctl[Src].big = big /\ (\A d \in Ctl : n.ctl[d].big = m.ctl[d].big) /\ m.next <= n.next
      /\ \/ w = ev /\ cmd.op = "Iso"
         \/ \E e \in Event : /\ w = Append(ev, e) /\ e.type \in {"Complete", "Status"}
                             /\ Replying(e) <=> (cmd.op = "CreateBig" /\ n.acts = q)
      /\ \/ n.acts = q /\ cmd.op # "Iso"
         \/ n.acts = Append(q, [from |-> Src, cmd |-> cmd]) /\ cmd \in Routable /\ (cmd.op = "TerminateBig" => big # <<>>)
  BY <1>1 DEF CommandTraces
<1>3. \A op : /\ Asks(p, i - 1, op) = Asks(p, i, op) \cup (IF cmd.op = op THEN {i} ELSE {})
              /\ i \notin Asks(p, i, op)
  BY <1>1, CommandTaken
<1>4. \A j \in DOMAIN q : q[j].cmd.op # "BigCreateSync" => q[j].from = Src
  BY DEF Hosts
<1>5. /\ \A j \in DOMAIN n.acts : n.acts[j].cmd.op # "BigCreateSync" => n.acts[j].from = Src
      /\ \A op : Routes(n.acts, 0, op) = Routes(q, 0, op) \cup (IF n.acts # q /\ cmd.op = op THEN {l} ELSE {})
  <2>1. CASE n.acts = q
    BY <1>4, <2>1
  <2>2. CASE n.acts # q
    <3>1. n.acts = Append(q, [from |-> Src, cmd |-> cmd]) /\ cmd \in Routable
      BY <1>2, <2>2
    <3> DEFINE y == [from |-> Src, cmd |-> cmd]
    <3>3. y \in Act /\ y.cmd = cmd /\ y.from = Src /\ n.acts = Append(q, y)
      BY <1>1, <3>1 DEF Act
    <3> HIDE DEF y, cmd, q
    <3>2. /\ \A j \in DOMAIN n.acts : n.acts[j].cmd.op # "BigCreateSync" => n.acts[j].from = Src
          /\ \A op : Routes(n.acts, 0, op) = Routes(q, 0, op) \cup (IF y.from = Src /\ y.cmd.op = op THEN {Len(q) + 1} ELSE {})
      <4>1. /\ q \in Seq(Act) /\ y \in Act /\ y.from = Src /\ n.acts = Append(q, y)
            /\ \A j \in DOMAIN q : q[j].cmd.op # "BigCreateSync" => q[j].from = Src
        BY <1>1, <1>4, <3>3
      <4> QED BY ZenonT(30), <4>1, ActsGrow
    <3> QED BY <2>2, <3>2, <3>3
  <2> QED BY <2>1, <2>2
<1>6. Hosted(source, big, ev, Asks(p, i - 1, "CreateBig"), Routes(q, 0, "CreateBig"), Routes(q, 0, "TerminateBig"), Replies(ev, 0), Ends(ev, 0))
  BY DEF Hosts
<1>7. CASE cmd.op \notin {"CreateBig", "TerminateBig"} \/ (cmd.op = "TerminateBig" /\ n.acts = q)
  <2>1. PICK t \in Seq(Event) : w = ev \o t /\ \A j \in DOMAIN t : Dull(t[j])
    <3>1. CASE w = ev
      <4>1. <<>> \in Seq(Event) /\ ev \o <<>> = ev /\ DOMAIN <<>> = {}
        BY <1>1
      <4> QED BY <3>1, <4>1
    <3>2. CASE w # ev
      <4>1. PICK e \in Event : /\ w = Append(ev, e) /\ e.type \in {"Complete", "Status"}
                               /\ Replying(e) <=> (cmd.op = "CreateBig" /\ n.acts = q)
        BY <1>2, <3>2
      <4>2. Dull(e)
        BY <1>7, <4>1 DEF Dull, Beside, Ending
      <4>3. w = ev \o <<e>> /\ <<e>> \in Seq(Event) /\ <<e>>[1] = e /\ DOMAIN <<e>> = {1}
        BY <1>1, <4>1, OneEventOn
      <4> QED BY <4>2, <4>3
    <3> QED BY <3>1, <3>2
  <2>2. /\ Asks(p, i, "CreateBig") = Asks(p, i - 1, "CreateBig")
        /\ Routes(n.acts, 0, "CreateBig") = Routes(q, 0, "CreateBig")
        /\ Routes(n.acts, 0, "TerminateBig") = Routes(q, 0, "TerminateBig")
    BY <1>3, <1>5, <1>7
  <2> QED BY <1>2, <1>5, <2>1, <2>2, HostsKept DEF TypeOK
<1> DEFINE K == Asks(p, i, "CreateBig")
           J == Asks(p, i - 1, "CreateBig")
           D == Routes(q, 0, "CreateBig")
           T == Routes(q, 0, "TerminateBig")
           A == Replies(ev, 0)
           L == Ends(ev, 0)
<1>8. /\ Young(source.bis, n.next) /\ \A d \in Receiver : n.ctl[d].big = <<>>
      /\ \A j \in DOMAIN ev : Creates(ev[j]) => Young(ev[j].bis, n.next)
  BY <1>1, <1>2 DEF Hosts
<1>9. ASSUME cmd.op \in {"CreateBig", "TerminateBig"},
             \A e \in Event : w = Append(ev, e) /\ e.type \in {"Complete", "Status"} /\ (Replying(e) <=> (cmd.op = "CreateBig" /\ n.acts = q))
               => Hosted(source, big, w, K, Routes(n.acts, 0, "CreateBig"), Routes(n.acts, 0, "TerminateBig"), Replies(w, 0), Ends(w, 0))
      PROVE  Hosts(n, i, 0)
  <2>1. PICK e \in Event : w = Append(ev, e) /\ e.type \in {"Complete", "Status"} /\ (Replying(e) <=> (cmd.op = "CreateBig" /\ n.acts = q))
    BY <1>2, <1>9
  <2>2. Hosted(source, n.ctl[Src].big, w, K, Routes(n.acts, 0, "CreateBig"), Routes(n.acts, 0, "TerminateBig"), Replies(w, 0), Ends(w, 0))
    BY <1>2, <1>9, <2>1
  <2>3. ASSUME NEW j \in DOMAIN w, Creates(w[j]) PROVE Young(w[j].bis, n.next)
    <3> HIDE DEF ev, w
    <3>1. w[j] = e \/ (j \in DOMAIN ev /\ w[j] = ev[j])
      BY <1>1, <2>1
    <3>2. ~Creates(e)
      BY <2>1 DEF Creates
    <3> QED BY <1>8, <2>3, <3>1, <3>2
  <2> QED BY <1>5, <1>8, <2>2, <2>3 DEF Hosts
<1>10. CASE cmd.op = "CreateBig"
  <2>1. J = K \cup {i} /\ i \notin K
    BY <1>3, <1>10
  <2>3. Routes(n.acts, 0, "TerminateBig") = T /\ Routes(n.acts, 0, "CreateBig") = D \cup (IF n.acts # q THEN {l} ELSE {})
    BY <1>5, <1>10
  <2>4. ASSUME NEW e \in Event, w = Append(ev, e), Replying(e) <=> n.acts = q, e.type \in {"Complete", "Status"}
        PROVE  Hosted(source, big, w, K, Routes(n.acts, 0, "CreateBig"), Routes(n.acts, 0, "TerminateBig"), Replies(w, 0), Ends(w, 0))
    <3>1. /\ Replies(w, 0) = A \cup (IF n.acts = q THEN {Len(ev) + 1} ELSE {}) /\ Ends(w, 0) = L
          /\ w[Len(ev) + 1] = e /\ ~Creates(e)
      <4> HIDE DEF ev, w
      <4>1. ~Ending(e) /\ ~Creates(e)
        BY <2>4 DEF Ending, Creates
      <4>2. /\ Replies(w, 0) = Replies(ev, 0) \cup (IF Replying(e) THEN {Len(ev) + 1} ELSE {})
            /\ Ends(w, 0) = Ends(ev, 0) \cup (IF Ending(e) THEN {Len(ev) + 1} ELSE {})
            /\ w[Len(ev) + 1] = e
        BY <1>1, <2>4, ReplyAfter
      <4> QED BY <2>4, <4>1, <4>2
    <3> DEFINE D2 == Routes(n.acts, 0, "CreateBig")
               T2 == Routes(n.acts, 0, "TerminateBig")
               A2 == Replies(w, 0)
               L2 == Ends(w, 0)
    <3> HIDE DEF K, J, D, T, A, L, D2, T2, A2, L2, big, ev, w, q
    <3>2. Hosted(source, big, ev, J, D, T, A, L)
      BY <1>6 DEF J, D, T, A, L
    <3>3. source.state = "CreatingBig" /\ big = <<>> /\ AtMostOne(J) /\ D = {} /\ T = {} /\ A = {} /\ L = {}
      BY <2>1, <3>2 DEF Hosted
    <3>4. K = {}
      BY <2>1, <3>3 DEF AtMostOne
    <3>5. T2 = {} /\ L2 = {} /\ big = source.bis
      BY <2>3, <3>1, <3>2, <3>3 DEF T2, L2, Hosted
    <3>6. CASE n.acts = q
      <4>1. D2 = {} /\ A2 = {Len(ev) + 1}
        BY <2>3, <3>1, <3>3, <3>6 DEF D2, A2
      <4>2. Hosted(source, big, w, K, D2, T2, A2, L2)
        BY <3>1, <3>3, <3>4, <3>5, <4>1 DEF Hosted
      <4> QED BY <4>2 DEF D2, T2, A2, L2
    <3>7. CASE n.acts # q
      <4>1. D2 = {l} /\ A2 = {}
        BY <2>3, <3>1, <3>3, <3>7 DEF D2, A2
      <4>2. Hosted(source, big, w, K, D2, T2, A2, L2)
        BY <3>1, <3>3, <3>4, <3>5, <4>1 DEF Hosted, AtMostOne
      <4> QED BY <4>2 DEF D2, T2, A2, L2
    <3> QED BY <3>6, <3>7
  <2> QED BY <1>9, <1>10, <2>4
<1>11. CASE cmd.op = "TerminateBig" /\ n.acts # q
  <2>1. J = K
    BY <1>3, <1>11
  <2>2. big # <<>>
    BY <1>2, <1>11
  <2>3. Routes(n.acts, 0, "TerminateBig") = T \cup {l} /\ Routes(n.acts, 0, "CreateBig") = D
    BY <1>5, <1>11
  <2>4. ASSUME NEW e \in Event, w = Append(ev, e), ~Replying(e), e.type \in {"Complete", "Status"}
        PROVE  Hosted(source, big, w, K, Routes(n.acts, 0, "CreateBig"), Routes(n.acts, 0, "TerminateBig"), Replies(w, 0), Ends(w, 0))
    <3>1. Replies(w, 0) = A /\ Ends(w, 0) = L /\ \A j \in DOMAIN ev : w[j] = ev[j]
      <4> HIDE DEF ev, w
      <4>1. ~Ending(e)
        BY <2>4 DEF Ending
      <4>2. /\ Replies(w, 0) = Replies(ev, 0) \cup (IF Replying(e) THEN {Len(ev) + 1} ELSE {})
            /\ Ends(w, 0) = Ends(ev, 0) \cup (IF Ending(e) THEN {Len(ev) + 1} ELSE {})
            /\ \A j \in DOMAIN ev : w[j] = ev[j]
        BY <1>1, <2>4, ReplyAfter
      <4> QED BY <2>4, <4>1, <4>2
    <3>0. \A j \in A : w[j] = ev[j]
      BY <3>1 DEF Replies
    <3> DEFINE D2 == Routes(n.acts, 0, "CreateBig")
               T2 == Routes(n.acts, 0, "TerminateBig")
               A2 == Replies(w, 0)
               L2 == Ends(w, 0)
    <3> HIDE DEF K, J, D, T, A, L, D2, T2, A2, L2, big, ev, w, q
    <3>2. Hosted(source, big, ev, J, D, T, A, L)
      BY <1>6 DEF J, D, T, A, L
    <3>3. K = {} /\ D = {} /\ L = {}
      BY <2>1, <2>2, <3>2 DEF Hosted
    <3>4. D2 = {} /\ T2 # {} /\ A2 = A /\ L2 = {}
      BY <2>3, <3>1, <3>3 DEF D2, T2, A2, L2
    <3>5. Hosted(source, big, w, K, D2, T2, A2, L2)
      BY <2>2, <3>0, <3>2, <3>3, <3>4 DEF Hosted
    <3> QED BY <3>5 DEF D2, T2, A2, L2
  <2> QED BY <1>9, <1>11, <2>4
<1> QED BY <1>7, <1>10, <1>11

\* What holds at every point of a tick.
Flow(m, o, a) == Hosts(m, o, a) /\ Sends(m, o, a) /\ \A c \in Receiver : Hears(m, o, a, c)

\* Receivers do not host a BIG.
Modest == \A d \in Receiver : \A i \in DOMAIN cmds[d] : cmds[d][i].op \notin {"CreateBig", "TerminateBig", "Iso"}

\* One command of phase A.
LEMMA CommandFlow ==
  ASSUME TypeOK, Modest, NEW m \in Medium, NEW x \in Ctl, NEW i \in DOMAIN cmds[x], NEW o, NEW o2,
         IF x = Src THEN o = i - 1 /\ o2 = i ELSE o2 = o, Flow(m, o, 0)
  PROVE  HandleCommand(m, x, cmds[x][i]) \in Medium /\ Flow(HandleCommand(m, x, cmds[x][i]), o2, 0)
<1> DEFINE cmd == cmds[x][i]
           n == HandleCommand(m, x, cmd)
<1>1. cmd \in Command
  BY DEF TypeOK
<1>2. n \in Medium /\ CommandTraces(m, n, x, cmd)
  BY <1>1, HandleCommandTyped, HandleCommandTraces
<1>3. x # Src => x \in Receiver /\ cmd.op \notin {"CreateBig", "TerminateBig", "Iso"}
  BY DEF Receiver, Modest
<1>4. IF x = Src THEN o2 \in DOMAIN cmds[Src] /\ cmd = cmds[Src][o2] /\ o = o2 - 1
      ELSE o2 = o /\ cmd.op \notin {"CreateBig", "TerminateBig", "Iso"}
  BY <1>3
<1> HIDE DEF n, cmd
<1>5. Sends(n, o2, 0) /\ \A c \in Receiver : Hears(n, o2, 0, c)
  <2>1. Sends(m, o, 0) /\ \A c \in Receiver : Hears(m, o, 0, c)
    BY DEF Flow
  <2> QED BY <1>1, <1>2, <1>4, <2>1, CommandFlows
<1>6. Hosts(n, o2, 0)
  <2>1. CASE x = Src
    <3>1. i \in DOMAIN cmds[Src] /\ CommandTraces(m, n, Src, cmds[Src][i]) /\ Hosts(m, i - 1, 0) /\ o2 = i
      BY <1>2, <2>1 DEF Flow, cmd
    <3> QED BY <1>2, <3>1, OwnHosts
  <2>2. CASE x # Src
    <3>1. Hosts(m, o, 0) /\ o2 = o
      BY <2>2 DEF Flow
    <3> QED BY <1>1, <1>2, <1>3, <2>2, <3>1, OtherHosts
  <2> QED BY <2>1, <2>2
<1> QED BY <1>2, <1>5, <1>6 DEF Flow, n, cmd

\* All commands of a controller.
LEMMA CommandedFlows ==
  ASSUME TypeOK, Modest, NEW m \in Medium, NEW x \in Ctl, NEW o, x = Src => o = 0, Flow(m, o, 0)
  PROVE  /\ Commanded(m, x) \in Medium
         /\ Flow(Commanded(m, x), IF x = Src THEN Len(cmds[Src]) ELSE o, 0)
<1> DEFINE s == cmds[x]
           off(n) == IF x = Src THEN n ELSE o
           U == [n \in 0 .. Len(s) |-> {u \in Medium : Flow(u, off(n), 0)}]
<1>1. Len(s) \in Nat /\ DOMAIN s = 1 .. Len(s) /\ s \in Seq(Command)
  BY DEF TypeOK
<1>2. Len(s) \in 0 .. Len(s) /\ 0 \in 0 .. Len(s) /\ \A n \in 1 .. Len(s) : n \in 0 .. Len(s) /\ n - 1 \in 0 .. Len(s)
  BY <1>1
<1>3. m \in U[0]
  BY <1>2
<1>4. ASSUME NEW n \in 1 .. Len(s), NEW u \in U[n - 1] PROVE HandleCommand(u, x, s[n]) \in U[n]
  <2>1. u \in Medium /\ Flow(u, off(n - 1), 0)
    BY <1>2
  <2>2. n \in DOMAIN cmds[x] /\ IF x = Src THEN off(n - 1) = n - 1 /\ off(n) = n ELSE off(n) = off(n - 1)
    BY <1>1
  <2> HIDE DEF off
  <2>3. HandleCommand(u, x, cmds[x][n]) \in Medium /\ Flow(HandleCommand(u, x, cmds[x][n]), off(n), 0)
    BY <2>1, <2>2, CommandFlow
  <2> QED BY <1>2, <2>3
<1>5. off(Len(s)) = IF x = Src THEN Len(cmds[Src]) ELSE o
  OBVIOUS
<1> HIDE DEF U, off
<1>6. Commanded(m, x) \in U[Len(s)]
  BY <1>1, <1>3, <1>4, AlongCommands
<1> QED BY <1>2, <1>5, <1>6 DEF U

\* Phase A.
LEMMA PhaseAFlows ==
  ASSUME TypeOK, Modest, NEW m \in Medium, Flow(m, 0, 0)
  PROVE  PhaseA(m) \in Medium /\ Flow(PhaseA(m), Len(cmds[Src]), 0)
<1> DEFINE l == Len(Order)
           off(n) == IF \E j \in 1 .. n : Order[j] = Src THEN Len(cmds[Src]) ELSE 0
           U == [n \in 0 .. l |-> {u \in Medium : Flow(u, off(n), 0)}]
<1>1. l \in Nat /\ DOMAIN Order = 1 .. l /\ (\A n \in 1 .. l : Order[n] \in Ctl) /\ Src \in Ctl
  BY BroadcastAssumption
<1>2. l \in 0 .. l /\ 0 \in 0 .. l /\ (\A n \in 1 .. l : n \in 0 .. l /\ n - 1 \in 0 .. l) /\ 1 .. 0 = {}
  BY <1>1
<1>3. m \in U[0]
  BY <1>2
<1>4. ASSUME NEW n \in 1 .. l, NEW u \in U[n - 1] PROVE Commanded(u, Order[n]) \in U[n]
  <2>1. u \in Medium /\ Flow(u, off(n - 1), 0) /\ Order[n] \in Ctl
    BY <1>1, <1>2
  <2>2. 1 .. n = (1 .. (n - 1)) \cup {n} /\ \A j \in 1 .. (n - 1) : j \in 1 .. l /\ j # n
    BY <1>1
  <2>3. Order[n] = Src => off(n - 1) = 0
    BY <1>1, <2>2, BroadcastAssumption DEF IsInjective
  <2>4. off(n) = IF Order[n] = Src THEN Len(cmds[Src]) ELSE off(n - 1)
    BY <2>2
  <2> HIDE DEF off
  <2>5. Commanded(u, Order[n]) \in Medium /\ Flow(Commanded(u, Order[n]), off(n), 0)
    BY <2>1, <2>3, <2>4, CommandedFlows
  <2> QED BY <1>2, <2>5
<1>5. off(l) = Len(cmds[Src])
  BY <1>1 DEF Ctl, Range
<1> HIDE DEF U, off
<1>6. PhaseA(m) \in U[l]
  BY <1>1, <1>3, <1>4, AlongCommanded
<1> QED BY <1>2, <1>5, <1>6 DEF U

\* A phase that only tells dull things.
LEMMA FlowKept ==
  ASSUME TypeOK, NEW m \in Medium, NEW n \in Medium, NEW o, NEW a, Flow(m, o, a), n.acts = m.acts, m.next <= n.next,
         \A d \in Ctl : /\ n.ctl[d].big = m.ctl[d].big /\ n.ctl[d].joined = m.ctl[d].joined
                        /\ \E t \in Seq(Event) : n.evts[d] = m.evts[d] \o t /\ \A i \in DOMAIN t : Dull(t[i])
  PROVE  Flow(n, o, a)
<1>1. Src \in Ctl /\ Receiver \subseteq Ctl /\ n.ctl[Src].big = m.ctl[Src].big /\ m.next \in Nat /\ n.next \in Nat
  BY SrcIsCtl DEF Receiver, Medium
<1>2. Goes(m, o, a, n, o, a)
  BY DEF Goes
<1>3. Sends(n, o, a)
  <2>1. \A i \in DOMAIN m.acts : m.acts[i].cmd.op = "Iso" => m.acts[i].cmd.handle < m.next
    BY DEF Flow, Sends, Sending
  <2>2. ASSUME NEW i \in DOMAIN m.acts, m.acts[i].cmd.op = "Iso" PROVE m.acts[i].cmd.handle < n.next
    <3>1. m.acts[i] \in Act
      BY DEF Medium
    <3>2. m.acts[i].cmd.handle \in Nat
      BY <2>2, <3>1 DEF Act, Routable, Command, Plains
    <3> QED BY <1>1, <2>1, <2>2, <3>2
  <2> QED BY <1>1, <1>2, <2>2, SendsKept DEF Flow, TypeOK
<1>4. Hosts(n, o, a)
  <2>1. PICK t \in Seq(Event) : n.evts[Src] = m.evts[Src] \o t /\ \A i \in DOMAIN t : Dull(t[i])
    BY <1>1
  <2>2. Hosts(m, o, a) /\ source \in Sources
    BY DEF Flow, TypeOK
  <2>3. \A i \in DOMAIN n.acts : n.acts[i].cmd.op # "BigCreateSync" => n.acts[i].from = Src
    BY <2>2 DEF Hosts
  <2> QED BY <2>1, <2>2, <2>3, HostsKept
<1>5. ASSUME NEW c \in Receiver PROVE Hears(n, o, a, c)
  <2>1. PICK t \in Seq(Event) : n.evts[c] = m.evts[c] \o t /\ \A i \in DOMAIN t : Dull(t[i])
    BY <1>1
  <2>2. Hears(m, o, a, c) /\ sink \in [Receiver -> Sinks] /\ n.ctl[c].joined = m.ctl[c].joined
    BY <1>1 DEF Flow, TypeOK
  <2> QED BY <1>1, <1>2, <2>1, <2>2, HearsKept
<1> QED BY <1>3, <1>4, <1>5 DEF Flow

\* None, one or two events without streams.
LEMMA DullQueues ==
  /\ <<>> \in Seq(Event) /\ \A i \in DOMAIN <<>> : Dull(<<>>[i])
  /\ \A x \in Event : Dull(x) => <<x>> \in Seq(Event) /\ \A i \in DOMAIN <<x>> : Dull(<<x>>[i])
  /\ \A x, y \in Event : Dull(x) /\ Dull(y) => <<x, y>> \in Seq(Event) /\ \A i \in DOMAIN <<x, y>> : Dull(<<x, y>>[i])
<1>1. /\ DOMAIN <<>> = {} /\ \A x, y : /\ DOMAIN <<x>> = {1} /\ <<x>>[1] = x
                                      /\ DOMAIN <<x, y>> = {1, 2} /\ <<x, y>>[1] = x /\ <<x, y>>[2] = y
  OBVIOUS
<1>2. \A x \in Event : Dull(x) => \A i \in DOMAIN <<x>> : Dull(<<x>>[i])
  BY <1>1
<1>3. \A x, y \in Event : Dull(x) /\ Dull(y) => \A i \in DOMAIN <<x, y>> : Dull(<<x, y>>[i])
  BY <1>1
<1>4. <<>> \in Seq(Event) /\ \A x, y \in Event : <<x>> \in Seq(Event) /\ <<x, y>> \in Seq(Event)
  OBVIOUS
<1> QED BY <1>1, <1>2, <1>3, <1>4

\* Advertising reports concern no stream.
LEMMA ExtendedAdvertisingFlows ==
  ASSUME TypeOK, NEW m \in Medium, NEW o, NEW a, Flow(m, o, a)
  PROVE  Flow(ExtendedAdvertising(m), o, a)
<1> DEFINE e == [type |-> "Report"]
           news == [d \in Ctl |-> IF m.ctl[Src].on /\ m.ctl[d].scanning THEN <<e>> ELSE <<>>]
           n == ExtendedAdvertising(m)
<1>1. n \in Medium
  BY ExtendedAdvertisingTyped
<1>2. n = Tells(m, news)
  BY DEF ExtendedAdvertising
<1>3. e \in Event /\ Dull(e)
  BY DEF Event, Dull, Beside, Replying, Creates, Ending
<1> HIDE DEF e
<1>4. \A d \in Ctl : news[d] = <<e>> \/ news[d] = <<>>
  OBVIOUS
<1> HIDE DEF n, news
<1>5. n.ctl = m.ctl /\ n.acts = m.acts /\ n.next = m.next /\ \A d \in Ctl : n.evts[d] = m.evts[d] \o news[d]
  BY <1>2, TellsDoes
<1>6. \A d \in Ctl : news[d] \in Seq(Event) /\ \A i \in DOMAIN news[d] : Dull(news[d][i])
  BY <1>3, <1>4, DullQueues
<1>7. m.next <= n.next
  BY <1>5 DEF Medium
<1>8. Flow(n, o, a)
  BY <1>1, <1>5, <1>6, <1>7, FlowKept
<1> QED BY <1>8 DEF n

\* Nor does a synchronization to the train,
LEMMA SynchronizedFlows ==
  ASSUME TypeOK, NEW m \in Medium, NEW x \in Ctl, NEW o, NEW a, Flow(m, o, a)
  PROVE  Flow(Synchronized(m, x), o, a)
<1> DEFINE k == [m.ctl[x] EXCEPT !.wanted = FALSE, !.sync = m.next]
           j == m.next + 1
           s == [m EXCEPT !.ctl[x].wanted = FALSE, !.ctl[x].sync = m.next, !.next = @ + 1]
           e == [type |-> "SyncEstablished", sync |-> m.next]
           n == Synchronized(m, x)
<1>1. CASE ~(m.ctl[x].wanted /\ m.ctl[Src].train)
  BY <1>1 DEF Synchronized
<1>2. CASE m.ctl[x].wanted /\ m.ctl[Src].train
  <2>0. n \in Medium /\ m.next \in Nat \ {0} /\ m.ctl[x] \in Keeps /\ j \in Nat \ {0} /\ m.next <= j
    BY SynchronizedTyped DEF Medium
  <2>1. n = Tell(s, x, e)
    BY <1>2 DEF Synchronized
  <2>2. k.joined = m.ctl[x].joined /\ k.big = m.ctl[x].big /\ k \in Keeps
    BY <2>0 DEF Keeps
  <2>3. s = [m EXCEPT !.ctl = [@ EXCEPT ![x] = k], !.next = j]
    BY DEF Medium, Keeps
  <2>4. e \in Event /\ Dull(e)
    BY <2>0 DEF Event, Dull, Beside, Replying, Creates, Ending
  <2> HIDE DEF k, s, e, j
  <2>5. s \in Medium /\ s.ctl = [m.ctl EXCEPT ![x] = k] /\ s.evts = m.evts /\ s.acts = m.acts /\ s.next = j
    <3> DEFINE ks == [m.ctl EXCEPT ![x] = k]
    <3>1. ks \in [Ctl -> Keeps]
      BY <2>0, <2>2 DEF Medium
    <3>2. s = [m EXCEPT !.ctl = ks, !.next = j]
      BY <2>3
    <3> HIDE DEF ks
    <3>4. s \in Medium /\ s.ctl = ks /\ s.evts = m.evts /\ s.acts = m.acts /\ s.next = j
      BY <2>0, <3>1, <3>2 DEF Medium
    <3> QED BY <3>4 DEF ks
  <2> HIDE DEF n
  <2>6. n.ctl = [m.ctl EXCEPT ![x] = k] /\ n.acts = m.acts /\ n.next = j /\ n.evts = [m.evts EXCEPT ![x] = Append(@, e)]
    BY <2>1, <2>4, <2>5, TellDoes
  <2>7. ASSUME NEW d \in Ctl
        PROVE  /\ n.ctl[d].big = m.ctl[d].big /\ n.ctl[d].joined = m.ctl[d].joined
               /\ \E t \in Seq(Event) : n.evts[d] = m.evts[d] \o t /\ \A i \in DOMAIN t : Dull(t[i])
    <3>1. n.ctl[d].big = m.ctl[d].big /\ n.ctl[d].joined = m.ctl[d].joined
      BY <2>2, <2>6 DEF Medium
    <3>2. m.evts[d] \in Seq(Event)
      BY DEF Medium
    <3>3. CASE x = d
      <4>1. n.evts[d] = m.evts[d] \o <<e>>
        BY <2>4, <2>6, <3>2, <3>3, OneEventOn DEF Medium
      <4> QED BY <2>4, <3>1, <4>1, DullQueues
    <3>4. CASE x # d
      <4>1. n.evts[d] = m.evts[d] \o <<>>
        BY <2>6, <3>2, <3>4 DEF Medium
      <4> QED BY <3>1, <4>1, DullQueues
    <3> QED BY <3>3, <3>4
  <2>8. Flow(n, o, a)
    BY <2>0, <2>6, <2>7, FlowKept
  <2> QED BY <2>8 DEF n
<1> QED BY <1>1, <1>2

\* of one controller or of all,
LEMMA PeriodicSyncRequestsFlows ==
  ASSUME TypeOK, NEW m \in Medium, NEW o, NEW a, Flow(m, o, a)
  PROVE  Flow(PeriodicSyncRequests(m), o, a)
<1> DEFINE U == [n \in 0 .. Len(Order) |-> {u \in Medium : Flow(u, o, a)}]
<1>1. Len(Order) \in Nat /\ \A n \in 1 .. Len(Order) : Order[n] \in Ctl
  BY BroadcastAssumption
<1>2. m \in U[0] /\ Len(Order) \in 0 .. Len(Order)
  BY <1>1
<1>3. \A n \in 1 .. Len(Order) : n \in 0 .. Len(Order) /\ n - 1 \in 0 .. Len(Order)
  BY <1>1
<1>4. ASSUME NEW n \in 1 .. Len(Order), NEW u \in U[n - 1] PROVE Synchronized(u, Order[n]) \in U[n]
  BY <1>1, <1>3, SynchronizedTyped, SynchronizedFlows
<1> HIDE DEF U
<1>5. PeriodicSyncRequests(m) \in U[Len(Order)]
  BY <1>1, <1>2, <1>4, AlongSynchronized
<1> QED BY <1>2, <1>5 DEF U

\* nor the train itself.
LEMMA PeriodicAdvertisingFlows ==
  ASSUME TypeOK, NEW m \in Medium, NEW o, NEW a, Flow(m, o, a)
  PROVE  Flow(PeriodicAdvertising(m), o, a)
<1> DEFINE k == m.ctl[Src]
           p(d) == [type |-> "Periodic", sync |-> m.ctl[d].sync, base |-> k.base]
           g(d) == [type |-> "BigInfo", sync |-> m.ctl[d].sync, encrypted |-> SrcCode # 0]
           base(d) == IF k.base = 0 THEN <<>> ELSE <<p(d)>>
           big(d) == IF k.big = <<>> THEN <<>> ELSE <<g(d)>>
           news == [d \in Ctl |-> IF m.ctl[d].sync # 0 /\ k.train THEN base(d) \o big(d) ELSE <<>>]
           n == PeriodicAdvertising(m)
<1>1. n \in Medium
  BY PeriodicAdvertisingTyped
<1>2. n = Tells(m, news)
  BY DEF PeriodicAdvertising
<1>3. \A d \in Ctl : news[d] = <<>> \/ news[d] = base(d) \o big(d)
  OBVIOUS
<1>4. ASSUME NEW d \in Ctl PROVE news[d] \in Seq(Event) /\ \A i \in DOMAIN news[d] : Dull(news[d][i])
  <2>1. m.ctl[d].sync \in Nat /\ k.base \in Nat
    BY SrcIsCtl DEF Medium, Keeps
  <2>2. p(d) \in Event /\ Dull(p(d))
    BY <2>1 DEF Event, Dull, Beside, Replying, Creates, Ending
  <2>3. g(d) \in Event /\ Dull(g(d))
    BY <2>1 DEF Event, Dull, Beside, Replying, Creates, Ending
  <2>4. (base(d) = <<>> \/ base(d) = <<p(d)>>) /\ (big(d) = <<>> \/ big(d) = <<g(d)>>)
    OBVIOUS
  <2> HIDE DEF p, g, base, big, news, k
  <2>5. base(d) \o big(d) \in {<<>>, <<p(d)>>, <<g(d)>>, <<p(d), g(d)>>}
    BY <2>2, <2>3, <2>4, ShortQueues
  <2> QED BY <1>3, <2>2, <2>3, <2>5, DullQueues
<1> HIDE DEF n, news
<1>5. n.ctl = m.ctl /\ n.acts = m.acts /\ n.next = m.next /\ \A d \in Ctl : n.evts[d] = m.evts[d] \o news[d]
  BY <1>2, TellsDoes
<1>7. m.next <= n.next
  BY <1>5 DEF Medium
<1>8. Flow(n, o, a)
  BY <1>1, <1>4, <1>5, <1>7, FlowKept
<1> QED BY <1>8 DEF n

\* The handles given out are new, and differ.
LEMMA HandlesFresh ==
  ASSUME NEW m \in Medium, NEW h, h = Handles(m, NumBis)
  PROVE  /\ h \in Streams /\ h # <<>> /\ DOMAIN h = Bis /\ Block(h, m.next + NumBis)
         /\ \A k \in Bis : m.next <= h[k]
         /\ m.next + NumBis \in Nat \ {0} /\ m.next <= m.next + NumBis
<1>1. h \in Streams /\ h # <<>>
  BY HandlesTyped, EmptyIsNoStreams
<1>2. h = [k \in Bis |-> m.next + k - 1] /\ m.next \in Nat \ {0} /\ NumBis \in Nat \ {0}
  BY BroadcastAssumption DEF Handles, Bis, Medium
<1>3. \A k \in Bis : k \in Nat /\ 1 <= k /\ k <= NumBis
  BY <1>2 DEF Bis
<1>4. \A k \in Bis : m.next <= h[k] /\ h[k] < m.next + NumBis
  BY <1>2, <1>3
<1>5. \A k, l \in Bis : h[k] = h[l] => k = l
  BY <1>2, <1>3
<1>6. DOMAIN h = Bis
  BY <1>2
<1> QED BY <1>1, <1>2, <1>4, <1>5, <1>6 DEF Block, Young

\* A deferred command of another kind moves no position.
LEMMA RoutesLeft ==
  ASSUME NEW q \in Seq(Act), NEW i \in DOMAIN q, NEW op, ~Route(q[i], op)
  PROVE  Routes(q, i, op) = Routes(q, i - 1, op)
<1>1. Routes(q, i - 1, op) = Routes(q, i, op) \cup (IF Route(q[i], op) THEN {i} ELSE {})
  BY RouteTaken
<1> QED BY <1>1

\* What CreateBig does.
LEMMA CreateBigDoes ==
  ASSUME NEW m \in Medium, NEW d \in Ctl
  PROVE  LET n == CreateBig(m, d)
             h == Handles(m, NumBis)
             e == [type |-> "BigComplete", bis |-> h]
         IN /\ n \in Medium /\ n.acts = m.acts /\ n.next = m.next + NumBis /\ e \in Event
            /\ n.evts[d] = Append(m.evts[d], e) /\ n.ctl[d].big = h
            /\ \A x \in Ctl : /\ n.ctl[x].joined = m.ctl[x].joined
                              /\ x # d => n.evts[x] = m.evts[x] /\ n.ctl[x].big = m.ctl[x].big
<1> DEFINE h == Handles(m, NumBis)
           k == [m.ctl[d] EXCEPT !.big = h]
           j == m.next + NumBis
           s == [m EXCEPT !.ctl[d].big = h, !.next = @ + NumBis]
           e == [type |-> "BigComplete", bis |-> h]
           n == CreateBig(m, d)
<1>1. h \in Streams /\ j \in Nat \ {0} /\ m.ctl[d] \in Keeps /\ n \in Medium
  BY CreateBigTyped, HandlesFresh DEF Medium
<1>2. n = Tell(s, d, e)
  BY DEF CreateBig
<1> HIDE DEF h
<1>3. e \in Event
  BY <1>1 DEF Event
<1>4. k \in Keeps /\ k.big = h /\ k.joined = m.ctl[d].joined
  BY <1>1 DEF Keeps
<1>5. s = [m EXCEPT !.ctl = [@ EXCEPT ![d] = k], !.next = j]
  BY DEF Medium
<1> HIDE DEF k, j, s, e, n
<1>6. s \in Medium /\ s.ctl = [m.ctl EXCEPT ![d] = k] /\ s.evts = m.evts /\ s.acts = m.acts /\ s.next = j
  BY <1>1, <1>4, <1>5 DEF Medium
<1>7. n.ctl = [m.ctl EXCEPT ![d] = k] /\ n.acts = m.acts /\ n.evts = [m.evts EXCEPT ![d] = Append(@, e)] /\ n.next = j
  BY <1>2, <1>3, <1>6, TellDoes
<1>8. n.evts[d] = Append(m.evts[d], e) /\ n.ctl[d].big = h
  BY <1>4, <1>7 DEF Medium
<1>9. \A x \in Ctl : n.ctl[x].joined = m.ctl[x].joined /\ (x # d => n.evts[x] = m.evts[x] /\ n.ctl[x].big = m.ctl[x].big)
  BY <1>4, <1>7 DEF Medium
<1> QED BY <1>1, <1>3, <1>7, <1>8, <1>9 DEF n, h, e, j

\* Phase D: the BIG that was asked for is made; no SDU of it is on its way.
LEMMA CreateBigFlows ==
  ASSUME TypeOK, NEW m \in Medium, NEW i \in DOMAIN m.acts, NEW o, Flow(m, o, i - 1), Route(m.acts[i], "CreateBig")
  PROVE  CreateBig(m, Src).acts = m.acts /\ Flow(CreateBig(m, Src), o, i)
<1> DEFINE n == CreateBig(m, Src)
           h == Handles(m, NumBis)
           e == [type |-> "BigComplete", bis |-> h]
           p == cmds[Src]
           q == m.acts
           ev == m.evts[Src]
           w == n.evts[Src]
<1>1. /\ n \in Medium /\ n.acts = q /\ n.next = m.next + NumBis /\ e \in Event
      /\ w = Append(ev, e) /\ n.ctl[Src].big = h
      /\ \A x \in Ctl : /\ n.ctl[x].joined = m.ctl[x].joined
                        /\ x # Src => n.evts[x] = m.evts[x] /\ n.ctl[x].big = m.ctl[x].big
  BY SrcIsCtl, CreateBigDoes
<1>2. Creates(e) /\ Replying(e) /\ ~Ending(e) /\ e.bis = h
  BY DEF Creates, Replying, Ending
<1>3. /\ h \in Streams /\ h # <<>> /\ DOMAIN h = Bis /\ Block(h, n.next) /\ (\A k \in Bis : m.next <= h[k])
      /\ n.next \in Nat /\ m.next <= n.next /\ m.next \in Nat
  BY <1>1, HandlesFresh DEF Medium
<1>4. q \in Seq(Act) /\ p \in Seq(Command) /\ ev \in Seq(Event) /\ Src \in Ctl /\ source \in Sources /\ \A c \in Receiver : c \in Ctl /\ c # Src
  BY SrcIsCtl DEF Medium, TypeOK, Receiver
<1> HIDE DEF n, h, e, p, ev, w
<1>5. /\ Routes(q, i - 1, "CreateBig") = Routes(q, i, "CreateBig") \cup {i} /\ i \notin Routes(q, i, "CreateBig")
      /\ Routes(q, i, "TerminateBig") = Routes(q, i - 1, "TerminateBig")
  <2>1. ~Route(q[i], "TerminateBig")
    BY DEF Route
  <2> QED BY <1>4, <2>1, RouteTaken, RoutesLeft
<1> DEFINE K == Asks(p, o, "CreateBig")
           J == Routes(q, i - 1, "CreateBig")
           D == Routes(q, i, "CreateBig")
           T == Routes(q, i, "TerminateBig")
           A == Replies(ev, 0)
           L == Ends(ev, 0)
           big == m.ctl[Src].big
<1>6. Hosted(source, big, ev, K, J, T, A, L)
  BY <1>5 DEF Flow, Hosts, p, ev
<1>7. /\ Replies(w, 0) = A \cup {Len(ev) + 1} /\ Ends(w, 0) = L /\ w[Len(ev) + 1] = e
      /\ DOMAIN w = DOMAIN ev \cup {Len(ev) + 1} /\ \A j \in DOMAIN ev : w[j] = ev[j]
  <2>1. w = Append(ev, e) /\ ev \in Seq(Event) /\ e \in Event
    BY <1>1, <1>4
  <2>2. /\ Replies(w, 0) = Replies(ev, 0) \cup (IF Replying(e) THEN {Len(ev) + 1} ELSE {})
        /\ Ends(w, 0) = Ends(ev, 0) \cup (IF Ending(e) THEN {Len(ev) + 1} ELSE {})
        /\ \A j \in DOMAIN ev : w[j] = ev[j]
        /\ DOMAIN w = DOMAIN ev \cup {Len(ev) + 1} /\ w[Len(ev) + 1] = e
    BY <2>1, ReplyAfter
  <2> QED BY <1>2, <2>2
<1>8. /\ source.state = "CreatingBig" /\ big = <<>> /\ AtMostOne(J) /\ T = {} /\ A = {} /\ L = {} /\ K = {} /\ D = {}
      /\ source.bis = <<>>
  <2> HIDE DEF K, D, T, A, L, J, big
  <2>0. i \in J /\ i \notin D /\ D \subseteq J
    BY <1>5 DEF J, D
  <2>1. source.state = "CreatingBig" /\ big = <<>> /\ AtMostOne(J) /\ T = {} /\ A = {} /\ L = {} /\ K = {}
    BY <1>6, <2>0 DEF Hosted
  <2>2. source.bis = <<>>
    BY <1>6, <2>1 DEF Hosted
  <2> QED BY <2>0, <2>1, <2>2 DEF AtMostOne
<1>9. Hosts(n, o, i)
  <2>1. Hosted(source, h, w, K, D, T, Replies(w, 0), Ends(w, 0))
    <3> DEFINE A2 == Replies(w, 0)
               L2 == Ends(w, 0)
    <3>1. A2 = {Len(ev) + 1} /\ L2 = {} /\ K = {} /\ D = {} /\ T = {}
      BY <1>7, <1>8
    <3>2. w[Len(ev) + 1] = e
      BY <1>7
    <3> HIDE DEF A2, L2, K, D, T
    <3>3. Hosted(source, h, w, K, D, T, A2, L2)
      BY <1>2, <1>8, <3>1, <3>2 DEF Hosted
    <3> QED BY <3>3 DEF A2, L2
  <2>2. Young(source.bis, n.next)
    BY <1>8 DEF Young
  <2>3. ASSUME NEW j \in DOMAIN w, Creates(w[j]) PROVE Young(w[j].bis, n.next)
    <3>1. CASE j \in DOMAIN ev
      <4>1. w[j] = ev[j] /\ ev[j] \in Event
        BY <1>4, <1>7, <3>1
      <4>2. Young(ev[j].bis, m.next)
        BY <2>3, <3>1, <4>1 DEF Flow, Hosts, ev
      <4>3. ev[j].bis \in Streams
        BY <2>3, <4>1, EventStreams
      <4> QED BY <1>3, <4>1, <4>2, <4>3, YoungOlder
    <3>2. CASE j = Len(ev) + 1
      BY <1>2, <1>3, <1>7, <3>2 DEF Block
    <3> QED BY <1>7, <3>1, <3>2
  <2>4. \A d \in Receiver : n.ctl[d].big = <<>>
    BY <1>1, <1>4 DEF Flow, Hosts
  <2>5. \A j \in DOMAIN n.acts : n.acts[j].cmd.op # "BigCreateSync" => n.acts[j].from = Src
    BY <1>1 DEF Flow, Hosts
  <2> QED BY <1>1, <2>1, <2>2, <2>3, <2>4, <2>5 DEF Hosts, p, w
<1>10. Sends(n, o, i)
  <2>1. /\ \A j \in DOMAIN p : p[j].op = "Iso" => p[j].handle < m.next
        /\ \A j \in DOMAIN q : q[j].cmd.op = "Iso" => q[j].cmd.handle < m.next
    BY DEF Flow, Sends, Sending, p
  <2>2. \A j \in DOMAIN p : p[j].op = "Iso" => p[j].handle < n.next
    <3>1. \A j \in DOMAIN p : p[j].op = "Iso" => p[j].handle \in Nat
      <4>1. \A j \in DOMAIN p : p[j] \in Command
        BY <1>4
      <4> QED BY <4>1 DEF Command, Plains
    <3> QED BY <1>3, <2>1, <3>1
  <2>3. \A j \in DOMAIN q : q[j].cmd.op = "Iso" => q[j].cmd.handle < n.next
    <3>1. \A j \in DOMAIN q : q[j].cmd.op = "Iso" => q[j].cmd.handle \in Nat
      <4>1. \A j \in DOMAIN q : q[j] \in Act
        BY <1>4
      <4> QED BY <4>1 DEF Act, Routable, Command, Plains
    <3> QED BY <1>3, <2>1, <3>1
  <2>4. ASSUME NEW k \in Bis PROVE Chained(source, h, q, i, p, o, k, 0)
    <3>1. h[k] \in Nat /\ m.next <= h[k]
      BY <1>3 DEF Streams
    <3>2. DOMAIN Due(q, i, h[k]) = {} /\ DOMAIN Sent(p, o, h[k]) = {}
      BY <1>3, <1>4, <2>1, <3>1, DueFresh, SentFresh
    <3>3. Steady(Due(q, i, h[k]), 0, 0) /\ Steady(Sent(p, o, h[k]), 0, 0)
      BY <3>2, SteadyNone
    <3>4. Top(source, h, k) = 0
      BY <1>3, <1>8 DEF Top
    <3> QED BY <3>3, <3>4 DEF Chained
  <2>5. 0 \in Nat
    OBVIOUS
  <2> QED BY <1>1, <1>3, <2>2, <2>3, <2>4, <2>5 DEF Sends, Sending, p
<1>11. ASSUME NEW c \in Receiver PROVE Hears(n, o, i, c)
  <2>1. Hears(m, o, i - 1, c) /\ m.evts[c] \in Seq(Event) /\ sink \in [Receiver -> Sinks]
    BY <1>4 DEF Flow, Medium, TypeOK
  <2>2. n.ctl[c].joined = <<>>
    BY <1>1, <1>4, <1>8, <2>1 DEF Hears, Hearing
  <2>3. n.evts[c] = m.evts[c] \o <<>>
    BY <1>1, <1>4, <2>1
  <2> QED BY <1>1, <1>3, <2>1, <2>2, <2>3, DullQueues, HearsKept
<1> QED BY <1>1, <1>9, <1>10, <1>11 DEF Flow, n

\* What TerminateBig does.
LEMMA TerminateBigDoes ==
  ASSUME NEW m \in Medium, NEW d \in Ctl
  PROVE  LET n == TerminateBig(m, d)
             e == [type |-> "BigEnded"]
         IN /\ n \in Medium /\ n.acts = m.acts /\ n.next = m.next /\ e \in Event /\ n.ctl[d].big = <<>>
            /\ n.evts[d] \in {Append(m.evts[d], e), Append(m.evts[d], e) \o <<[type |-> "BigLost"]>>}
            /\ \A x \in Ctl : /\ n.ctl[x].joined = <<>>
                              /\ x # d => n.ctl[x].big = m.ctl[x].big /\ n.evts[x] \in {m.evts[x], m.evts[x] \o <<[type |-> "BigLost"]>>}
<1> DEFINE b(x) == IF x = d THEN <<>> ELSE m.ctl[x].big
           k(x) == [m.ctl[x] EXCEPT !.big = b(x), !.joined = <<>>]
           ended == [m EXCEPT !.ctl = [x \in Ctl |-> [m.ctl[x] EXCEPT !.big = IF x = d THEN <<>> ELSE @, !.joined = <<>>]]]
           z == [type |-> "BigLost"]
           lost == [x \in Ctl |-> IF m.ctl[x].joined # <<>> THEN <<z>> ELSE <<>>]
           e == [type |-> "BigEnded"]
           s == Tell(ended, d, e)
           n == TerminateBig(m, d)
<1>1. n \in Medium
  BY TerminateBigTyped
<1>2. ASSUME NEW x \in Ctl
      PROVE  k(x) \in Keeps /\ k(x).joined = <<>> /\ k(x).big = b(x)
  <2>1. m.ctl[x] \in Keeps /\ b(x) \in Streams \cup {<<>>}
    BY DEF Medium, Keeps
  <2> HIDE DEF b
  <2> QED BY <2>1 DEF Keeps
<1>3. ended = [m EXCEPT !.ctl = [x \in Ctl |-> k(x)]]
  BY DEF Medium, Keeps
<1>4. e \in Event
  BY DEF Event
<1>5. b(d) = <<>> /\ \A x \in Ctl : x # d => b(x) = m.ctl[x].big
  OBVIOUS
<1>6. n = Tells(s, lost)
  BY DEF TerminateBig
<1>7. \A x \in Ctl : lost[x] \in {<<z>>, <<>>}
  OBVIOUS
<1> HIDE DEF b, k, ended, lost, e, z, n
<1>8. ended \in Medium /\ ended.ctl = [x \in Ctl |-> k(x)] /\ ended.evts = m.evts /\ ended.acts = m.acts /\ ended.next = m.next
  BY <1>2, <1>3 DEF Medium
<1>9. s \in Medium /\ s.ctl = [x \in Ctl |-> k(x)] /\ s.acts = m.acts /\ s.evts = [m.evts EXCEPT ![d] = Append(@, e)] /\ s.next = m.next
  <2>1. /\ Tell(ended, d, e).ctl = ended.ctl /\ Tell(ended, d, e).acts = ended.acts /\ Tell(ended, d, e).next = ended.next
        /\ Tell(ended, d, e).evts = [ended.evts EXCEPT ![d] = Append(@, e)]
    BY <1>4, <1>8, TellDoes
  <2>2. s \in Medium
    BY <1>4, <1>8, TellTyped
  <2> HIDE DEF s
  <2>3. s = Tell(ended, d, e)
    BY DEF s
  <2> QED BY <1>8, <2>1, <2>2, <2>3
<1> HIDE DEF s
<1>11. n.ctl = s.ctl /\ n.acts = s.acts /\ n.next = s.next /\ \A x \in Ctl : n.evts[x] = s.evts[x] \o lost[x]
  <2>1. s \in Medium
    BY <1>9
  <2>2. /\ Tells(s, lost).ctl = s.ctl /\ Tells(s, lost).acts = s.acts /\ Tells(s, lost).next = s.next
        /\ \A x \in Ctl : Tells(s, lost).evts[x] = s.evts[x] \o lost[x]
    BY <2>1, TellsDoes
  <2> QED BY <1>6, <2>2
<1>12. \A x \in Ctl : n.ctl[x] = k(x)
  BY <1>9, <1>11
<1>13. \A x \in Ctl : s.evts[x] \in Seq(Event) /\ s.evts[x] = IF x = d THEN Append(m.evts[x], e) ELSE m.evts[x]
  BY <1>9 DEF Medium
<1>14. \A x \in Ctl : n.evts[x] \in {s.evts[x], s.evts[x] \o <<z>>}
  <2>1. \A x \in Ctl : s.evts[x] \o <<>> = s.evts[x]
    BY <1>13
  <2> QED BY <1>7, <1>11, <2>1
<1>15. n.ctl[d].big = <<>> /\ \A x \in Ctl : n.ctl[x].joined = <<>> /\ (x # d => n.ctl[x].big = m.ctl[x].big)
  BY <1>2, <1>5, <1>12
<1>16. n.evts[d] \in {Append(m.evts[d], e), Append(m.evts[d], e) \o <<z>>}
  BY <1>13, <1>14
<1>17. \A x \in Ctl : x # d => n.evts[x] \in {m.evts[x], m.evts[x] \o <<z>>}
  BY <1>13, <1>14
<1> QED BY <1>1, <1>4, <1>9, <1>11, <1>15, <1>16, <1>17 DEF n, e, z

\* Phase D: the BIG goes, with all streams.
LEMMA TerminateBigFlows ==
  ASSUME TypeOK, NEW m \in Medium, NEW i \in DOMAIN m.acts, NEW o, Flow(m, o, i - 1), Route(m.acts[i], "TerminateBig")
  PROVE  TerminateBig(m, Src).acts = m.acts /\ Flow(TerminateBig(m, Src), o, i)
<1> DEFINE n == TerminateBig(m, Src)
           e == [type |-> "BigEnded"]
           z == [type |-> "BigLost"]
           p == cmds[Src]
           q == m.acts
           ev == m.evts[Src]
           w == n.evts[Src]
           v == Append(ev, e)
<1>1. /\ n \in Medium /\ n.acts = q /\ n.next = m.next /\ e \in Event /\ n.ctl[Src].big = <<>>
      /\ w \in {v, v \o <<z>>}
      /\ \A x \in Ctl : /\ n.ctl[x].joined = <<>>
                        /\ x # Src => n.ctl[x].big = m.ctl[x].big /\ n.evts[x] \in {m.evts[x], m.evts[x] \o <<z>>}
  BY SrcIsCtl, TerminateBigDoes
<1>2. ~Creates(e) /\ ~Replying(e) /\ Ending(e) /\ z \in Event /\ Dull(z)
  BY DEF Creates, Replying, Ending, Event, Dull, Beside
<1>3. m.next \in Nat
  BY DEF Medium
<1>4. q \in Seq(Act) /\ p \in Seq(Command) /\ ev \in Seq(Event) /\ Src \in Ctl /\ source \in Sources /\ \A c \in Receiver : c \in Ctl /\ c # Src
  BY SrcIsCtl DEF Medium, TypeOK, Receiver
<1> HIDE DEF n, e, z, p, ev, w
<1>5. /\ Routes(q, i - 1, "TerminateBig") = Routes(q, i, "TerminateBig") \cup {i}
      /\ Routes(q, i, "CreateBig") = Routes(q, i - 1, "CreateBig")
  <2>1. ~Route(q[i], "CreateBig")
    BY DEF Route
  <2> QED BY <1>4, <2>1, RouteTaken, RoutesLeft
<1> DEFINE K == Asks(p, o, "CreateBig")
           J == Routes(q, i - 1, "TerminateBig")
           D == Routes(q, i, "CreateBig")
           T == Routes(q, i, "TerminateBig")
           A == Replies(ev, 0)
           L == Ends(ev, 0)
           big == m.ctl[Src].big
<1>6. Hosted(source, big, ev, K, D, J, A, L)
  BY <1>5 DEF Flow, Hosts, p, ev
<1>7. /\ Replies(w, 0) = A /\ Ends(w, 0) = L \cup {Len(ev) + 1}
      /\ \A j \in DOMAIN ev : w[j] = ev[j] /\ j < Len(ev) + 1
      /\ \A j \in DOMAIN w : Creates(w[j]) => j \in DOMAIN ev
  <2>1. /\ Replies(v, 0) = Replies(ev, 0) \cup (IF Replying(e) THEN {Len(ev) + 1} ELSE {})
        /\ Ends(v, 0) = Ends(ev, 0) \cup (IF Ending(e) THEN {Len(ev) + 1} ELSE {})
        /\ \A j \in DOMAIN ev : v[j] = ev[j] /\ j < Len(ev) + 1
        /\ DOMAIN v = DOMAIN ev \cup {Len(ev) + 1} /\ v[Len(ev) + 1] = e
    BY <1>1, <1>4, ReplyAfter
  <2>2. v \in Seq(Event)
    BY <1>1, <1>4
  <2>3. <<z>> \in Seq(Event) /\ \A j \in DOMAIN <<z>> : Beside(<<z>>[j])
    BY <1>2, DullQueues DEF Dull
  <2> HIDE DEF v
  <2>4. /\ Replies(v \o <<z>>, 0) = Replies(v, 0) /\ Ends(v \o <<z>>, 0) = Ends(v, 0)
        /\ \A j \in DOMAIN v : j \in DOMAIN (v \o <<z>>) /\ (v \o <<z>>)[j] = v[j]
        /\ \A j \in DOMAIN (v \o <<z>>) : j \in DOMAIN v \/ Beside((v \o <<z>>)[j])
    BY <2>2, <2>3, BesideAfter
  <2>5. /\ Replies(w, 0) = Replies(v, 0) /\ Ends(w, 0) = Ends(v, 0)
        /\ \A j \in DOMAIN v : w[j] = v[j]
        /\ \A j \in DOMAIN w : j \in DOMAIN v \/ Beside(w[j])
    <3>1. CASE w = v
      BY <3>1
    <3>2. CASE w = v \o <<z>>
      BY <2>4, <3>2
    <3> QED BY <1>1, <3>1, <3>2
  <2>6. \A j \in DOMAIN ev : w[j] = ev[j] /\ j < Len(ev) + 1
    BY <2>1, <2>5
  <2>7. ASSUME NEW j \in DOMAIN w, Creates(w[j]) PROVE j \in DOMAIN ev
    <3>1. j \in DOMAIN v
      BY <2>5, <2>7 DEF Beside, Replying
    <3>2. j # Len(ev) + 1
      BY <1>2, <2>1, <2>5, <2>7, <3>1
    <3> QED BY <2>1, <3>1, <3>2
  <2> QED BY <1>2, <2>1, <2>5, <2>6, <2>7
<1>8. Hosts(n, o, i)
  <2>1. Hosted(source, <<>>, w, K, D, T, Replies(w, 0), Ends(w, 0))
    <3> DEFINE L2 == Ends(w, 0)
    <3>1. Replies(w, 0) = A /\ L2 = L \cup {Len(ev) + 1} /\ i \in J
      BY <1>5, <1>7
    <3>2. \A j \in A : w[j] = ev[j] /\ j < Len(ev) + 1
      BY <1>7 DEF Replies
    <3> HIDE DEF L2, K, D, T, A, L, J, big
    <3>3. K = {} /\ D = {} /\ (big # <<>> \/ L # {})
      BY <1>6, <3>1 DEF Hosted
    <3>4. \A j \in A : source.state = "CreatingBig" /\ A = {j} /\ (\A l \in L2 : j < l) /\ Creates(w[j])
      BY <1>6, <3>1, <3>2, <3>3 DEF Hosted
    <3>5. source.bis # <<>> \/ source.state = "Terminated" \/ A # {}
      BY <1>6, <3>3 DEF Hosted
    <3>6. L2 # {}
      BY <3>1
    <3>7. Hosted(source, <<>>, w, K, D, T, A, L2)
      BY <3>3, <3>4, <3>5, <3>6 DEF Hosted
    <3> QED BY <3>1, <3>7 DEF L2
  <2>2. Young(source.bis, n.next)
    BY <1>1 DEF Flow, Hosts
  <2>3. ASSUME NEW j \in DOMAIN w, Creates(w[j]) PROVE Young(w[j].bis, n.next)
    BY <1>1, <1>7, <2>3 DEF Flow, Hosts, ev
  <2>4. \A d \in Receiver : n.ctl[d].big = <<>>
    BY <1>1, <1>4 DEF Flow, Hosts
  <2>5. \A j \in DOMAIN n.acts : n.acts[j].cmd.op # "BigCreateSync" => n.acts[j].from = Src
    BY <1>1 DEF Flow, Hosts
  <2> QED BY <1>1, <2>1, <2>2, <2>3, <2>4, <2>5 DEF Hosts, p, w
<1>10. Sends(n, o, i)
  <2>1. Block(<<>>, n.next)
    BY DEF Block, Young
  <2> QED BY <1>1, <2>1 DEF Flow, Sends, Sending
<1>11. ASSUME NEW c \in Receiver PROVE Hears(n, o, i, c)
  <2>1. Hears(m, o, i - 1, c) /\ m.evts[c] \in Seq(Event) /\ sink \in [Receiver -> Sinks] /\ m.next <= n.next
    BY <1>1, <1>3, <1>4 DEF Flow, Medium, TypeOK
  <2>2. n.ctl[c].joined = <<>>
    BY <1>1, <1>4
  <2>3. PICK t \in Seq(Event) : n.evts[c] = m.evts[c] \o t /\ \A j \in DOMAIN t : Dull(t[j])
    <3>1. m.evts[c] = m.evts[c] \o <<>>
      BY <2>1
    <3> QED BY <1>1, <1>2, <1>4, <3>1, DullQueues
  <2> QED BY <1>1, <2>1, <2>2, <2>3, HearsKept
<1> QED BY <1>1, <1>8, <1>10, <1>11 DEF Flow, n

\* What BigCreateSync does: it refuses, or gives the receiver streams of the BIG there is.
Refused(m, n, x) ==
  /\ n.next = m.next /\ n.ctl[x].joined = m.ctl[x].joined
  /\ n.evts[x] = Append(m.evts[x], [type |-> "BigSync", ok |-> FALSE, bis |-> <<>>])
Joined(m, n, x) ==
  /\ n.next = m.next + NumBis /\ n.ctl[x].joined = Handles(m, NumBis) /\ m.ctl[Src].big # <<>>
  /\ n.evts[x] = Append(m.evts[x], [type |-> "BigSync", ok |-> TRUE, bis |-> Handles(m, NumBis)])

\* What joining a BIG does.
LEMMA BigCreateSyncDoes ==
  ASSUME NEW m \in Medium, NEW x \in Ctl, NEW cmd
  PROVE  LET n == BigCreateSync(m, x, cmd)
         IN /\ n \in Medium /\ n.acts = m.acts /\ (Refused(m, n, x) \/ Joined(m, n, x))
            /\ \A d \in Ctl : /\ n.ctl[d].big = m.ctl[d].big
                              /\ d # x => n.ctl[d].joined = m.ctl[d].joined /\ n.evts[d] = m.evts[d]
<1> DEFINE h == Handles(m, NumBis)
           k == [m.ctl[x] EXCEPT !.joined = h]
           j == m.next + NumBis
           s == [m EXCEPT !.ctl[x].joined = h, !.next = @ + NumBis]
           y == [type |-> "BigSync", ok |-> TRUE, bis |-> h]
           z == [type |-> "BigSync", ok |-> FALSE, bis |-> <<>>]
           n == BigCreateSync(m, x, cmd)
<1>1. n \in Medium /\ h \in Streams /\ m.ctl[x] \in Keeps /\ j \in Nat \ {0}
  BY BigCreateSyncTyped, HandlesFresh DEF Medium
<1>2. n = Tell(m, x, z) \/ (n = Tell(s, x, y) /\ m.ctl[Src].big # <<>>)
  BY DEF BigCreateSync
<1> HIDE DEF h
<1>3. y \in Event /\ z \in Event
  BY <1>1 DEF Event
<1>5. k \in Keeps /\ k.joined = h /\ k.big = m.ctl[x].big
  BY <1>1 DEF Keeps
<1>6. s = [m EXCEPT !.ctl = [@ EXCEPT ![x] = k], !.next = j]
  BY DEF Medium
<1> HIDE DEF k, j, s, y, z, n
<1>7. s \in Medium /\ s.ctl = [m.ctl EXCEPT ![x] = k] /\ s.evts = m.evts /\ s.acts = m.acts /\ s.next = j
  BY <1>1, <1>5, <1>6 DEF Medium
<1>8. CASE n = Tell(m, x, z)
  <2>1. n.ctl = m.ctl /\ n.acts = m.acts /\ n.next = m.next /\ n.evts = [m.evts EXCEPT ![x] = Append(@, z)]
    BY <1>3, <1>8, TellDoes
  <2>2. n.evts[x] = Append(m.evts[x], z) /\ \A d \in Ctl : d # x => n.evts[d] = m.evts[d]
    BY <2>1 DEF Medium
  <2>3. Refused(m, n, x)
    BY <2>1, <2>2 DEF Refused, z
  <2> QED BY <1>1, <2>1, <2>2, <2>3 DEF n
<1>9. CASE n = Tell(s, x, y) /\ m.ctl[Src].big # <<>>
  <2>1. n.ctl = s.ctl /\ n.acts = s.acts /\ n.next = s.next /\ n.evts = [s.evts EXCEPT ![x] = Append(@, y)]
    <3>1. s \in Medium
      BY <1>7
    <3>2. /\ Tell(s, x, y).ctl = s.ctl /\ Tell(s, x, y).acts = s.acts /\ Tell(s, x, y).next = s.next
          /\ Tell(s, x, y).evts = [s.evts EXCEPT ![x] = Append(@, y)]
      BY <1>3, <3>1, TellDoes
    <3> QED BY <1>9, <3>2
  <2>2. n.evts[x] = Append(m.evts[x], y) /\ \A d \in Ctl : d # x => n.evts[d] = m.evts[d]
    BY <1>7, <2>1 DEF Medium
  <2>3. n.ctl[x].joined = h /\ \A d \in Ctl : n.ctl[d].big = m.ctl[d].big /\ (d # x => n.ctl[d].joined = m.ctl[d].joined)
    BY <1>5, <1>7, <2>1 DEF Medium
  <2>4. Joined(m, n, x)
    BY <1>7, <1>9, <2>1, <2>2, <2>3 DEF Joined, y, h, j
  <2> QED BY <1>1, <1>7, <2>1, <2>2, <2>3, <2>4 DEF n
<1> QED BY <1>2, <1>8, <1>9

\* A receiver that is refused, or gets streams, hears of an SDU from where the broadcaster is.
LEMMA JoinHears ==
  ASSUME TypeOK, NEW m \in Medium, NEW n \in Medium, NEW c \in Receiver, NEW o, NEW a, NEW a2, Hears(m, o, a, c), Sends(m, o, a),
         Goes(m, o, a, n, o, a2), n.ctl[Src].big = m.ctl[Src].big, Refused(m, n, c) \/ Joined(m, n, c)
  PROVE  Hears(n, o, a2, c)
<1> DEFINE ev == m.evts[c]
           w == n.evts[c]
           r == sink[c]
           j == m.ctl[c].joined
           k == n.ctl[c].joined
           big == m.ctl[Src].big
           p == cmds[Src]
<1>1. /\ ev \in Seq(Event) /\ m.next \in Nat /\ n.next \in Nat /\ r \in Sinks
      /\ j \in Streams \cup {<<>>} /\ k \in Streams \cup {<<>>} /\ r.bis \in Streams \cup {<<>>}
  BY DEF Medium, Receiver, Keeps, Sinks, TypeOK
<1>2. /\ ~r.gap /\ (r.state \in Deaf => \A x \in Bis : r.heard[x] = 0) /\ (j # <<>> => big # <<>>)
      /\ Block(j, m.next) /\ Block(r.bis, m.next) /\ YoungEvents(ev, m.next)
      /\ \A h \in Nat : \E l, u \in Nat : Heeds(r, j, ev, 0, source, big, m.acts, a, p, o, h, l, u)
  BY DEF Hears, Hearing
<1>3. big # <<>> => \A x \in Bis : \E lo \in Nat : Chained(source, big, m.acts, a, p, o, x, lo)
  BY DEF Sends, Sending
<1>4. ASSUME big # <<>>, NEW x \in Bis, NEW lo \in Nat, Chained(source, big, m.acts, a, p, o, x, lo)
      PROVE  Chained(source, big, n.acts, a2, p, o, x, lo)
  BY <1>4 DEF Goes
<1>5. PICK e \in Event : /\ w = Append(ev, e) /\ e.type = "BigSync" /\ Block(e.bis, n.next) /\ m.next <= n.next
                         /\ \/ k = j
                            \/ k = e.bis /\ k # <<>> /\ big # <<>> /\ \A x \in Bis : m.next <= k[x]
  <2>1. CASE Refused(m, n, c)
    <3> DEFINE z == [type |-> "BigSync", ok |-> FALSE, bis |-> <<>>]
    <3>1. z \in Event /\ z.type = "BigSync" /\ z.bis = <<>>
      BY DEF Event
    <3>2. Block(<<>>, n.next)
      BY DEF Block, Young
    <3>3. w = Append(ev, z) /\ k = j /\ m.next <= n.next
      BY <1>1, <2>1 DEF Refused
    <3> HIDE DEF z
    <3> QED BY <3>1, <3>2, <3>3
  <2>2. CASE Joined(m, n, c)
    <3> DEFINE h == Handles(m, NumBis)
               y == [type |-> "BigSync", ok |-> TRUE, bis |-> h]
    <3>1. w = Append(ev, y) /\ k = h /\ big # <<>> /\ n.next = m.next + NumBis
      BY <2>2 DEF Joined
    <3>2. h \in Streams /\ h # <<>> /\ Block(h, n.next) /\ m.next <= n.next /\ \A x \in Bis : m.next <= h[x]
      BY <3>1, HandlesFresh
    <3> HIDE DEF h
    <3>3. y \in Event /\ y.type = "BigSync" /\ y.bis = h
      BY <3>2 DEF Event
    <3> HIDE DEF y
    <3> QED BY <3>1, <3>2, <3>3
  <2> QED BY <2>1, <2>2
<1> HIDE DEF ev, w, r, j, k, big, p
<1>6. \A h : Came(w, 0, h) = Came(ev, 0, h)
  <2>1. w = ev \o <<e>> /\ <<e>> \in Seq(Event) /\ <<e>>[1] = e /\ DOMAIN <<e>> = {1}
    BY <1>1, <1>5, OneEventOn
  <2>2. \A i \in DOMAIN <<e>> : <<e>>[i].type # "Iso"
    BY <1>5, <2>1
  <2> QED BY <1>1, <2>1, <2>2, CameOthers
<1>7. Block(k, n.next) /\ Block(r.bis, n.next)
  <2>1. Block(j, n.next) /\ Block(r.bis, n.next)
    BY <1>1, <1>2, <1>5, YoungOlder
  <2> QED BY <1>5, <2>1
<1>8. YoungEvents(w, n.next)
  <2> SUFFICES ASSUME NEW i \in DOMAIN w
               PROVE  /\ w[i].type = "BigSync" => Block(w[i].bis, n.next)
                      /\ w[i].type = "Iso" => w[i].handle < n.next
    BY DEF YoungEvents
  <2>1. CASE w[i] = e
    BY <1>5, <2>1
  <2>2. CASE i \in DOMAIN ev /\ w[i] = ev[i]
    <3>1. ev[i] \in Event
      BY <1>1, <2>2
    <3>2. /\ w[i].type = "BigSync" => w[i].bis \in Streams \cup {<<>>}
          /\ w[i].type = "Iso" => w[i].handle \in Nat
      BY <2>2, <3>1, EventStreams
    <3>3. /\ w[i].type = "BigSync" => Block(w[i].bis, m.next)
          /\ w[i].type = "Iso" => w[i].handle < m.next
      BY <1>2, <2>2 DEF YoungEvents
    <3>4. w[i].type = "BigSync" => Block(w[i].bis, n.next)
      BY <1>1, <1>5, <3>2, <3>3, YoungOlder
    <3>5. w[i].type = "Iso" => w[i].handle < n.next
      BY <1>1, <1>5, <3>2, <3>3
    <3> QED BY <3>4, <3>5
  <2>3. w[i] = e \/ (i \in DOMAIN ev /\ w[i] = ev[i])
    BY <1>1, <1>5
  <2> QED BY <2>1, <2>2, <2>3
<1>9. k # <<>> => big # <<>>
  BY <1>2, <1>5
<1>10. ASSUME NEW h \in Nat PROVE \E l, u \in Nat : Heeds(r, k, w, 0, source, big, n.acts, a2, p, o, h, l, u)
  <2>1. PICK l \in Nat, u \in Nat : Heeds(r, j, ev, 0, source, big, m.acts, a, p, o, h, l, u)
    BY <1>2
  <2>2. CASE k = j
    <3>1. ASSUME k # <<>>, NEW x \in Bis, k[x] = h PROVE Chained(source, big, n.acts, a2, p, o, x, u)
      <4>1. Chained(source, big, m.acts, a, p, o, x, u)
        BY <2>1, <2>2, <3>1 DEF Heeds
      <4> QED BY <1>4, <1>9, <3>1, <4>1
    <3>2. Heeds(r, k, w, 0, source, big, n.acts, a2, p, o, h, l, u)
      BY <1>6, <2>1, <3>1 DEF Heeds
    <3> QED BY <3>2
  <2>3. CASE k # j /\ \E x \in Bis : k[x] = h
    <3>1. PICK x \in Bis : k[x] = h
      BY <2>3
    <3>2. k = e.bis /\ k # <<>> /\ big # <<>> /\ m.next <= h
      BY <1>5, <2>3, <3>1
    <3>3. PICK lo \in Nat : Chained(source, big, m.acts, a, p, o, x, lo)
      BY <1>3, <3>2
    <3>4. Chained(source, big, n.acts, a2, p, o, x, lo)
      BY <1>4, <3>2, <3>3
    <3>5. DOMAIN Came(w, 0, h) = {}
      <4>1. \A i \in DOMAIN ev : ev[i].type = "Iso" => ev[i].handle < m.next
        BY <1>2 DEF YoungEvents
      <4>2. DOMAIN Came(ev, 0, h) = {}
        BY <1>1, <3>2, <4>1, CameFresh
      <4> QED BY <1>6, <4>2
    <3>6. Steady(Came(w, 0, h), lo, lo)
      BY <3>5, SteadyNone
    <3>7. r.bis # <<>> => \A y \in Bis : r.bis[y] # h
      <4> SUFFICES ASSUME r.bis # <<>>, NEW y \in Bis, r.bis[y] = h PROVE FALSE
        OBVIOUS
      <4>1. r.bis \in Streams
        BY <1>1
      <4>2. r.bis[y] < m.next
        BY <1>2, <4>1 DEF Block, Young, Streams
      <4> QED BY <1>1, <3>2, <4>2
    <3>8. \A y \in Bis : k[y] = h => y = x
      <4>2. k \in Streams
        BY <1>1, <3>2
      <4> QED BY <1>7, <3>1, <4>2 DEF Block, Streams
    <3>9. Heeds(r, k, w, 0, source, big, n.acts, a2, p, o, h, lo, lo)
      BY <3>4, <3>6, <3>7, <3>8 DEF Heeds
    <3> QED BY <3>9
  <2>4. CASE k # j /\ ~ \E x \in Bis : k[x] = h
    <3>1. Heeds(r, k, w, 0, source, big, n.acts, a2, p, o, h, l, u)
      BY <1>6, <2>1, <2>4 DEF Heeds
    <3> QED BY <3>1
  <2> QED BY <2>2, <2>3, <2>4
<1>11. n.ctl[Src].big = big
  BY DEF big
<1> QED BY <1>2, <1>7, <1>8, <1>9, <1>10, <1>11 DEF Hears, Hearing, w, r, k, p

\* A deferred command that is no SDU passes none on.
LEMMA RouteGoes ==
  ASSUME NEW m \in Medium, NEW n, NEW i \in DOMAIN m.acts, NEW o, n.acts = m.acts, m.acts[i].cmd.op # "Iso"
  PROVE  Goes(m, o, i - 1, n, o, i)
<1> DEFINE q == m.acts
           p == cmds[Src]
<1>1. q \in Seq(Act)
  BY DEF Medium
<1> SUFFICES ASSUME NEW k \in Bis, NEW lo \in Nat, Chained(source, m.ctl[Src].big, q, i - 1, p, o, k, lo)
             PROVE  Chained(source, m.ctl[Src].big, q, i, p, o, k, lo)
  BY DEF Goes
<1>2. PICK mid \in Nat : /\ Steady(Due(q, i - 1, m.ctl[Src].big[k]), lo, mid)
                         /\ Steady(Sent(p, o, m.ctl[Src].big[k]), mid, Top(source, m.ctl[Src].big, k))
  BY DEF Chained
<1>3. ~Iso(q[i].cmd, m.ctl[Src].big[k])
  BY DEF Iso
<1>4. Steady(Due(q, i, m.ctl[Src].big[k]), lo, mid)
  <2> DEFINE z == m.ctl[Src].big[k]
  <2> HIDE DEF q, z
  <2>1. i \in DOMAIN q /\ Steady(Due(q, i - 1, z), lo, mid) /\ ~Iso(q[i].cmd, z)
    BY <1>2, <1>3 DEF q, z
  <2>2. Steady(Due(q, i, z), lo, mid)
    BY <1>1, <2>1, DueHead
  <2> QED BY <2>2 DEF z
<1> QED BY <1>2, <1>4 DEF Chained

\* Phase D: a request to join is answered.
LEMMA BigCreateSyncFlows ==
  ASSUME TypeOK, NEW m \in Medium, NEW i \in DOMAIN m.acts, NEW o, Flow(m, o, i - 1), m.acts[i].cmd.op = "BigCreateSync"
  PROVE  LET n == BigCreateSync(m, m.acts[i].from, m.acts[i].cmd) IN n.acts = m.acts /\ Flow(n, o, i)
<1> DEFINE x == m.acts[i].from
           q == m.acts
           n == BigCreateSync(m, x, m.acts[i].cmd)
<1>1. x \in Ctl /\ q \in Seq(Act) /\ Src \in Ctl /\ source \in Sources /\ sink \in [Receiver -> Sinks] /\ cmds \in [Ctl -> Seq(Command)]
      /\ \A c \in Receiver : c \in Ctl /\ c # Src
  <2>1. m.acts[i] \in Act
    BY DEF Medium
  <2> QED BY <2>1, SrcIsCtl DEF Act, Medium, TypeOK, Receiver
<1>2. /\ n \in Medium /\ n.acts = m.acts /\ (Refused(m, n, x) \/ Joined(m, n, x))
      /\ \A d \in Ctl : /\ n.ctl[d].big = m.ctl[d].big
                        /\ d # x => n.ctl[d].joined = m.ctl[d].joined /\ n.evts[d] = m.evts[d]
  BY <1>1, BigCreateSyncDoes
<1> HIDE DEF n, x
<1>3. m.next \in Nat /\ n.next \in Nat /\ m.next <= n.next /\ \A d \in Ctl : m.evts[d] \in Seq(Event)
  BY <1>2, BroadcastAssumption DEF Refused, Joined, Medium
<1>4. Goes(m, o, i - 1, n, o, i)
  BY <1>2, RouteGoes
<1>5. Sends(n, o, i)
  <2>1. \A j \in DOMAIN q : q[j].cmd.op = "Iso" => q[j].cmd.handle < m.next
    BY DEF Flow, Sends, Sending
  <2>2. ASSUME NEW j \in DOMAIN q, q[j].cmd.op = "Iso" PROVE q[j].cmd.handle < n.next
    <3>1. q[j] \in Act
      BY <1>1
    <3>2. q[j].cmd.handle \in Nat
      BY <2>2, <3>1 DEF Act, Routable, Command, Plains
    <3> QED BY <1>3, <2>1, <2>2, <3>2
  <2>3. Sends(m, o, i - 1)
    BY DEF Flow
  <2>4. cmds \in [Ctl -> Seq(Command)] /\ n.ctl[Src].big = m.ctl[Src].big /\ m.next <= n.next /\ n \in Medium
    BY <1>1, <1>2, <1>3
  <2>5. \A j \in DOMAIN n.acts : n.acts[j].cmd.op = "Iso" => n.acts[j].cmd.handle < n.next
    BY <1>2, <2>2
  <2> QED BY <1>4, <2>3, <2>4, <2>5, SendsKept
<1>6. PICK t \in Seq(Event) : n.evts[Src] = m.evts[Src] \o t /\ \A j \in DOMAIN t : Beside(t[j])
  <2>1. CASE x # Src
    <3>1. n.evts[Src] = m.evts[Src] \o <<>>
      BY <1>1, <1>2, <1>3, <2>1
    <3> QED BY <3>1, DullQueues DEF Dull
  <2>2. CASE x = Src
    <3>1. PICK e \in Event : n.evts[Src] = Append(m.evts[Src], e) /\ e.type = "BigSync"
      <4> DEFINE z == [type |-> "BigSync", ok |-> FALSE, bis |-> <<>>]
                 h == Handles(m, NumBis)
                 y == [type |-> "BigSync", ok |-> TRUE, bis |-> h]
      <4>1. h \in Streams
        BY HandlesTyped
      <4>2. n.evts[Src] = Append(m.evts[Src], z) \/ n.evts[Src] = Append(m.evts[Src], y)
        BY <1>2, <2>2 DEF Refused, Joined
      <4> HIDE DEF h
      <4>3. z \in Event /\ y \in Event /\ z.type = "BigSync" /\ y.type = "BigSync"
        BY <4>1 DEF Event
      <4> HIDE DEF z, y
      <4> QED BY <4>2, <4>3
    <3>2. Beside(e)
      BY <3>1 DEF Beside, Replying, Creates, Ending
    <3>3. n.evts[Src] = m.evts[Src] \o <<e>> /\ <<e>> \in Seq(Event) /\ <<e>>[1] = e /\ DOMAIN <<e>> = {1}
      <4>1. m.evts[Src] \in Seq(Event)
        BY <1>1, <1>3
      <4>2. Append(m.evts[Src], e) = m.evts[Src] \o <<e>> /\ <<e>> \in Seq(Event) /\ <<e>>[1] = e /\ DOMAIN <<e>> = {1}
        BY <4>1, OneEventOn
      <4> QED BY <3>1, <4>2
    <3> QED BY <3>2, <3>3
  <2> QED BY <2>1, <2>2
<1>7. Hosts(n, o, i)
  <2>1. /\ Routes(n.acts, i, "CreateBig") = Routes(m.acts, i - 1, "CreateBig")
        /\ Routes(n.acts, i, "TerminateBig") = Routes(m.acts, i - 1, "TerminateBig")
    <3>1. ~Route(q[i], "CreateBig") /\ ~Route(q[i], "TerminateBig")
      BY DEF Route
    <3> QED BY <1>1, <1>2, <3>1, RoutesLeft
  <2>2. Hosts(m, o, i - 1) /\ \A j \in DOMAIN n.acts : n.acts[j].cmd.op # "BigCreateSync" => n.acts[j].from = Src
    BY <1>2 DEF Flow, Hosts
  <2>3. n \in Medium /\ source \in Sources /\ m.next <= n.next /\ \A d \in Ctl : n.ctl[d].big = m.ctl[d].big
    BY <1>1, <1>2, <1>3
  <2> QED BY <1>6, <2>1, <2>2, <2>3, HostsBeside
<1>8. ASSUME NEW c \in Receiver PROVE Hears(n, o, i, c)
  <2>1. Hears(m, o, i - 1, c) /\ Sends(m, o, i - 1) /\ c \in Ctl /\ n.ctl[Src].big = m.ctl[Src].big
    BY <1>1, <1>2 DEF Flow
  <2>2. CASE x # c
    <3>1. n.evts[c] = m.evts[c] \o <<>> /\ n.ctl[c].joined = m.ctl[c].joined
      BY <1>2, <1>3, <2>1, <2>2
    <3> QED BY <1>1, <1>2, <1>3, <1>4, <2>1, <3>1, DullQueues, HearsKept
  <2>3. CASE x = c
    <3>1. Refused(m, n, c) \/ Joined(m, n, c)
      BY <1>2, <2>3
    <3> QED BY <1>2, <1>4, <2>1, <3>1, JoinHears
  <2> QED BY <2>2, <2>3
<1> QED BY <1>2, <1>5, <1>7, <1>8 DEF Flow, n, x

\* An SDU that is routed was the next of its stream.
LEMMA IsoChains ==
  ASSUME NEW q \in Seq(Act), NEW i \in DOMAIN q, q[i].cmd.op = "Iso", NEW b, NEW big, NEW p, NEW o, NEW k \in Bis, NEW lo \in Nat,
         Chained(b, big, q, i - 1, p, o, k, lo)
  PROVE  IF big[k] = q[i].cmd.handle THEN q[i].cmd.seq = lo + 1 /\ Chained(b, big, q, i, p, o, k, lo + 1)
         ELSE Chained(b, big, q, i, p, o, k, lo)
<1> DEFINE z == big[k]
<1>1. PICK mid \in Nat : Steady(Due(q, i - 1, z), lo, mid) /\ Steady(Sent(p, o, z), mid, Top(b, big, k))
  BY DEF Chained
<1>2. Iso(q[i].cmd, z) <=> z = q[i].cmd.handle
  BY DEF Iso
<1>3. \A l : Steady(Due(q, i, z), l, mid) => Chained(b, big, q, i, p, o, k, l)
  BY <1>1 DEF Chained
<1>4. IF Iso(q[i].cmd, z) THEN q[i].cmd.seq = lo + 1 /\ Steady(Due(q, i, z), lo + 1, mid) ELSE Steady(Due(q, i, z), lo, mid)
  <2> HIDE DEF z
  <2> QED BY <1>1, DueHead
<1> QED BY <1>2, <1>3, <1>4

\* What BisIso does: for the stream j of the BIG, an SDU to each that joined.
LEMMA BisIsoDoes ==
  ASSUME NEW m \in Medium, NEW x \in Ctl, NEW cmd \in Routable, cmd.op = "Iso", NEW j \in DOMAIN m.ctl[x].big,
         m.ctl[x].big[j] = cmd.handle, \A k, l \in DOMAIN m.ctl[x].big : m.ctl[x].big[k] = m.ctl[x].big[l] => k = l
  PROVE  LET n == BisIso(m, x, cmd)
         IN /\ n \in Medium /\ n.ctl = m.ctl /\ n.acts = m.acts /\ n.next = m.next
            /\ \A d \in Ctl : IF m.ctl[d].joined = <<>> THEN n.evts[d] = m.evts[d]
                              ELSE \E e \in Event : /\ n.evts[d] = Append(m.evts[d], e) /\ e.type = "Iso"
                                                    /\ e.handle = m.ctl[d].joined[j] /\ e.seq = cmd.seq
<1> DEFINE jj == CHOOSE k \in DOMAIN m.ctl[x].big : m.ctl[x].big[k] = cmd.handle
           iso(d) == [type |-> "Iso", handle |-> m.ctl[d].joined[j], seq |-> cmd.seq]
           news == [d \in Ctl |-> IF m.ctl[d].joined # <<>> THEN <<iso(d)>> ELSE <<>>]
           n == BisIso(m, x, cmd)
<1>1. cmd.seq \in Nat
  BY DEF Routable, Command, Plains
<1>2. n \in Medium
  BY <1>1, BisIsoTyped
<1>3. jj = j
  <2>1. jj \in DOMAIN m.ctl[x].big /\ m.ctl[x].big[jj] = cmd.handle
    OBVIOUS
  <2> QED BY <2>1
<1>4. j \in Bis
  <2>1. m.ctl[x].big \in Streams \cup {<<>>}
    BY DEF Medium, Keeps
  <2>2. DOMAIN m.ctl[x].big \in SUBSET Bis
    BY <2>1 DEF Streams
  <2> QED BY <2>2
<1>5. n = Tells(m, news)
  BY <1>3 DEF BisIso, Streamed
<1>6. ASSUME NEW d \in Ctl, m.ctl[d].joined # <<>>
      PROVE  iso(d) \in Event /\ iso(d).type = "Iso" /\ iso(d).handle = m.ctl[d].joined[j] /\ iso(d).seq = cmd.seq
  <2>1. m.ctl[d].joined \in Streams
    BY <1>6 DEF Medium, Keeps
  <2>2. m.ctl[d].joined[j] \in Nat
    BY <1>4, <2>1 DEF Streams
  <2> QED BY <1>1, <2>2 DEF Event
<1>7. \A d \in Ctl : news[d] = IF m.ctl[d].joined # <<>> THEN <<iso(d)>> ELSE <<>>
  OBVIOUS
<1> HIDE DEF jj, iso, news, n
<1>8. n.ctl = m.ctl /\ n.acts = m.acts /\ n.next = m.next /\ \A d \in Ctl : n.evts[d] = m.evts[d] \o news[d]
  <2>1. /\ Tells(m, news).ctl = m.ctl /\ Tells(m, news).acts = m.acts /\ Tells(m, news).next = m.next
        /\ \A d \in Ctl : Tells(m, news).evts[d] = m.evts[d] \o news[d]
    BY ZenonT(30), TellsDoes
  <2> QED BY <1>5, <2>1
<1>9. ASSUME NEW d \in Ctl
      PROVE  IF m.ctl[d].joined = <<>> THEN n.evts[d] = m.evts[d]
             ELSE \E e \in Event : /\ n.evts[d] = Append(m.evts[d], e) /\ e.type = "Iso"
                                   /\ e.handle = m.ctl[d].joined[j] /\ e.seq = cmd.seq
  <2>1. m.evts[d] \in Seq(Event)
    BY DEF Medium
  <2>2. CASE m.ctl[d].joined = <<>>
    <3>1. n.evts[d] = m.evts[d] \o <<>>
      BY <1>7, <1>8, <2>2
    <3> QED BY <2>1, <2>2, <3>1
  <2>3. CASE m.ctl[d].joined # <<>>
    <3>1. n.evts[d] = m.evts[d] \o <<iso(d)>>
      BY <1>7, <1>8, <2>3
    <3>2. Append(m.evts[d], iso(d)) = m.evts[d] \o <<iso(d)>>
      BY <1>6, <2>1, <2>3, OneEventOn
    <3> QED BY <1>6, <2>3, <3>1, <3>2
  <2> QED BY <2>2, <2>3
<1> QED BY <1>2, <1>8, <1>9 DEF n

\* A receiver that joined gets the next SDU of a stream.
LEMMA IsoHears ==
  ASSUME TypeOK, NEW m \in Medium, NEW n \in Medium, NEW c \in Receiver, NEW o, NEW i \in DOMAIN m.acts, Hears(m, o, i - 1, c),
         m.acts[i].cmd.op = "Iso", n.ctl = m.ctl, n.acts = m.acts, n.next = m.next, m.ctl[c].joined # <<>>,
         NEW j \in Bis, m.ctl[Src].big[j] = m.acts[i].cmd.handle,
         \A k, l \in Bis : m.ctl[Src].big[k] = m.ctl[Src].big[l] => k = l,
         NEW e \in Event, n.evts[c] = Append(m.evts[c], e), e.type = "Iso", e.handle = m.ctl[c].joined[j], e.seq = m.acts[i].cmd.seq
  PROVE  Hears(n, o, i, c)
<1> DEFINE ev == m.evts[c]
           w == n.evts[c]
           r == sink[c]
           g == m.ctl[c].joined
           big == m.ctl[Src].big
           p == cmds[Src]
           q == m.acts
           cmd == q[i].cmd
<1>1. ev \in Seq(Event) /\ m.next \in Nat /\ g \in Streams /\ q \in Seq(Act)
  BY DEF Medium, Receiver, Keeps
<1>2. /\ ~r.gap /\ (r.state \in Deaf => \A x \in Bis : r.heard[x] = 0) /\ (g # <<>> => big # <<>>)
      /\ Block(g, m.next) /\ Block(r.bis, m.next) /\ YoungEvents(ev, m.next)
      /\ \A h \in Nat : \E l, u \in Nat : Heeds(r, g, ev, 0, source, big, q, i - 1, p, o, h, l, u)
  BY DEF Hears, Hearing
<1>3. ASSUME NEW k \in Bis, NEW lo \in Nat, Chained(source, big, q, i - 1, p, o, k, lo)
      PROVE  IF k = j THEN cmd.seq = lo + 1 /\ Chained(source, big, q, i, p, o, k, lo + 1)
             ELSE Chained(source, big, q, i, p, o, k, lo)
  <2>1. IF big[k] = cmd.handle THEN cmd.seq = lo + 1 /\ Chained(source, big, q, i, p, o, k, lo + 1)
        ELSE Chained(source, big, q, i, p, o, k, lo)
    <3> HIDE DEF big, q, p
    <3>1. i \in DOMAIN q /\ q[i].cmd.op = "Iso"
      BY DEF q
    <3> QED BY <1>1, <1>3, <3>1, IsoChains
  <2>2. big[k] = cmd.handle <=> k = j
    OBVIOUS
  <2> QED BY <2>1, <2>2
<1>4. w = Append(ev, e) /\ e.handle = g[j] /\ e.seq = cmd.seq /\ g # <<>>
  OBVIOUS
<1> HIDE DEF ev, w, r, g, big, p, q, cmd
<1>5. DOMAIN g = Bis /\ (\A k \in Bis : g[k] < m.next) /\ \A k, l \in Bis : g[k] = g[l] => k = l
  BY <1>1, <1>2 DEF Streams, Block, Young
<1>6. YoungEvents(w, m.next)
  <2> SUFFICES ASSUME NEW y \in DOMAIN w
               PROVE  /\ w[y].type = "BigSync" => Block(w[y].bis, m.next)
                      /\ w[y].type = "Iso" => w[y].handle < m.next
    BY DEF YoungEvents
  <2>1. w[y] = e \/ (y \in DOMAIN ev /\ w[y] = ev[y])
    BY <1>1, <1>4
  <2>2. CASE w[y] = e
    BY <1>4, <1>5, <2>2
  <2>3. CASE y \in DOMAIN ev /\ w[y] = ev[y]
    BY <1>2, <2>3 DEF YoungEvents
  <2> QED BY <2>1, <2>2, <2>3
<1>7. ASSUME NEW h \in Nat PROVE \E l, u \in Nat : Heeds(r, g, w, 0, source, big, q, i, p, o, h, l, u)
  <2>1. PICK l \in Nat, u \in Nat : Heeds(r, g, ev, 0, source, big, q, i - 1, p, o, h, l, u)
    BY <1>2
  <2>2. /\ Steady(Came(ev, 0, h), l, u) /\ (r.bis # <<>> => \A x \in Bis : r.bis[x] = h => r.heard[x] \in {0, l})
        /\ \A x \in Bis : g[x] = h => Chained(source, big, q, i - 1, p, o, x, u)
    BY <1>4, <2>1 DEF Heeds
  <2>3. CASE g[j] = h
    <3>1. cmd.seq = u + 1 /\ Chained(source, big, q, i, p, o, j, u + 1)
      BY <1>3, <2>2, <2>3
    <3>2. Arrives(e, h) /\ e.seq = u + 1
      BY <1>4, <2>3, <3>1 DEF Arrives
    <3>3. Steady(Came(w, 0, h), l, u + 1)
      BY <1>1, <1>4, <2>2, <3>2, CameMore
    <3>4. \A x \in Bis : g[x] = h => x = j
      BY <1>5, <2>3
    <3>5. u + 1 \in Nat /\ Heeds(r, g, w, 0, source, big, q, i, p, o, h, l, u + 1)
      BY <2>2, <3>1, <3>3, <3>4 DEF Heeds
    <3> QED BY <3>5
  <2>4. CASE g[j] # h
    <3>1. ~Arrives(e, h)
      BY <1>4, <2>4 DEF Arrives
    <3>2. Steady(Came(w, 0, h), l, u)
      BY <1>1, <1>4, <2>2, <3>1, CameMore
    <3>3. ASSUME NEW x \in Bis, g[x] = h PROVE Chained(source, big, q, i, p, o, x, u)
      BY <1>3, <2>2, <2>4, <3>3
    <3>4. Heeds(r, g, w, 0, source, big, q, i, p, o, h, l, u)
      BY <2>2, <3>2, <3>3 DEF Heeds
    <3> QED BY <3>4
  <2> QED BY <2>3, <2>4
<1>8. n.ctl[c].joined = g /\ n.ctl[Src].big = big /\ n.acts = q /\ n.next = m.next
  BY DEF g, big, q
<1> QED BY <1>2, <1>6, <1>7, <1>8 DEF Hears, Hearing, w, r, p

\* Phase D: an SDU is routed.
LEMMA BisIsoFlows ==
  ASSUME TypeOK, NEW m \in Medium, NEW i \in DOMAIN m.acts, NEW o, Flow(m, o, i - 1), m.acts[i].cmd.op = "Iso"
  PROVE  LET n == BisIso(m, m.acts[i].from, m.acts[i].cmd) IN n.acts = m.acts /\ Flow(n, o, i)
<1> DEFINE cmd == m.acts[i].cmd
           q == m.acts
           p == cmds[Src]
           big == m.ctl[Src].big
           n == BisIso(m, Src, cmd)
<1>1. /\ cmd \in Routable /\ q \in Seq(Act) /\ Src \in Ctl /\ source \in Sources /\ sink \in [Receiver -> Sinks]
      /\ cmds \in [Ctl -> Seq(Command)] /\ \A c \in Receiver : c \in Ctl /\ c # Src
  <2>1. m.acts[i] \in Act
    BY DEF Medium
  <2> QED BY <2>1, SrcIsCtl DEF Act, Medium, TypeOK, Receiver
<1>2. m.acts[i].from = Src
  BY DEF Flow, Hosts
<1>3. /\ Hosts(m, o, i - 1) /\ Sends(m, o, i - 1) /\ \A c \in Receiver : Hears(m, o, i - 1, c)
  BY DEF Flow
<1>4. /\ Block(big, m.next) /\ (\A j \in DOMAIN p : p[j].op = "Iso" => p[j].handle < m.next)
      /\ (\A j \in DOMAIN q : q[j].cmd.op = "Iso" => q[j].cmd.handle < m.next)
      /\ big # <<>> => \A k \in Bis : \E lo \in Nat : Chained(source, big, q, i - 1, p, o, k, lo)
  BY <1>3 DEF Sends, Sending
<1>5. big \in Streams \cup {<<>>} /\ m.next \in Nat /\ (\A d \in Ctl : m.evts[d] \in Seq(Event))
  BY <1>1 DEF Medium, Keeps
<1>6. big # <<>> => DOMAIN big = Bis
  BY <1>5 DEF Streams
<1>7. ASSUME NEW k \in Bis, NEW lo \in Nat, Chained(source, big, q, i - 1, p, o, k, lo)
      PROVE  IF big[k] = cmd.handle THEN Chained(source, big, q, i, p, o, k, lo + 1)
             ELSE Chained(source, big, q, i, p, o, k, lo)
  <2>1. q[i].cmd.op = "Iso" /\ i \in DOMAIN q /\ cmd = q[i].cmd /\ q \in Seq(Act)
    BY <1>1
  <2> HIDE DEF big, q, p, cmd
  <2>2. IF big[k] = q[i].cmd.handle THEN q[i].cmd.seq = lo + 1 /\ Chained(source, big, q, i, p, o, k, lo + 1)
        ELSE Chained(source, big, q, i, p, o, k, lo)
    BY <1>7, <2>1, IsoChains
  <2> QED BY <2>1, <2>2
<1>8. /\ Routes(q, i, "CreateBig") = Routes(q, i - 1, "CreateBig")
      /\ Routes(q, i, "TerminateBig") = Routes(q, i - 1, "TerminateBig")
  <2>1. ~Route(q[i], "CreateBig") /\ ~Route(q[i], "TerminateBig")
    BY DEF Route
  <2> QED BY <1>1, <2>1, RoutesLeft
<1>9. \A j \in DOMAIN q : q[j].cmd.op # "BigCreateSync" => q[j].from = Src
  BY <1>3 DEF Hosts
<1>10. CASE \A k \in DOMAIN big : big[k] # cmd.handle
  <2>1. n = m
    BY <1>10 DEF BisIso
  <2> HIDE DEF n
  <2>2. Goes(m, o, i - 1, m, o, i)
    BY <1>6, <1>7, <1>10 DEF Goes, big, q, p
  <2>3. Sends(m, o, i)
    BY <1>1, <1>3, <1>4, <1>5, <2>2, SendsKept DEF q, big
  <2>4. m.evts[Src] = m.evts[Src] \o <<>> /\ \A c \in Receiver : m.evts[c] = m.evts[c] \o <<>>
    BY <1>1, <1>5
  <2>5. Hosts(m, o, i)
    <3>1. <<>> \in Seq(Event) /\ \A j \in DOMAIN <<>> : Beside(<<>>[j])
      OBVIOUS
    <3>2. m.next <= m.next
      BY <1>5
    <3> QED BY <1>1, <1>3, <1>8, <1>9, <2>4, <3>1, <3>2, HostsBeside
  <2>6. ASSUME NEW c \in Receiver PROVE Hears(m, o, i, c)
    <3>1. m.next <= m.next /\ Hears(m, o, i - 1, c)
      BY <1>3, <1>5
    <3> QED BY <1>1, <2>2, <2>4, <3>1, DullQueues, HearsKept
  <2> QED BY <1>2, <2>1, <2>3, <2>5, <2>6 DEF Flow, n
<1>11. ASSUME NEW j \in DOMAIN big, big[j] = cmd.handle
       PROVE  n.acts = m.acts /\ Flow(n, o, i)
  <2>1. big # <<>> /\ j \in Bis
    BY <1>6
  <2>2. \A k, l \in Bis : big[k] = big[l] => k = l
    BY <1>4, <1>6, <2>1 DEF Block
  <2>3. /\ n \in Medium /\ n.ctl = m.ctl /\ n.acts = m.acts /\ n.next = m.next
        /\ \A d \in Ctl : IF m.ctl[d].joined = <<>> THEN n.evts[d] = m.evts[d]
                          ELSE \E e \in Event : /\ n.evts[d] = Append(m.evts[d], e) /\ e.type = "Iso"
                                                /\ e.handle = m.ctl[d].joined[j] /\ e.seq = cmd.seq
    <3>1. cmd.op = "Iso" /\ \A k, l \in DOMAIN big : big[k] = big[l] => k = l
      BY <1>6, <2>1, <2>2
    <3>2. cmd \in Routable /\ Src \in Ctl /\ j \in DOMAIN m.ctl[Src].big /\ m.ctl[Src].big[j] = cmd.handle
      BY <1>1, <1>11
    <3> HIDE DEF cmd
    <3> QED BY <3>1, <3>2, BisIsoDoes
  <2> HIDE DEF n
  <2>4. PICK t \in Seq(Event) : n.evts[Src] = m.evts[Src] \o t /\ \A k \in DOMAIN t : Beside(t[k])
    <3>1. CASE m.ctl[Src].joined = <<>>
      <4>1. n.evts[Src] = m.evts[Src] \o <<>>
        BY <1>1, <1>5, <2>3, <3>1
      <4> QED BY <4>1, DullQueues DEF Dull
    <3>2. CASE m.ctl[Src].joined # <<>>
      <4>1. PICK e \in Event : n.evts[Src] = Append(m.evts[Src], e) /\ e.type = "Iso"
        BY <1>1, <2>3, <3>2
      <4>2. Beside(e)
        BY <4>1 DEF Beside, Replying, Creates, Ending
      <4>3. m.evts[Src] \in Seq(Event)
        BY <1>1, <1>5
      <4>4. Append(m.evts[Src], e) = m.evts[Src] \o <<e>> /\ <<e>> \in Seq(Event) /\ <<e>>[1] = e /\ DOMAIN <<e>> = {1}
        <5> DEFINE ev == m.evts[Src]
        <5>1. ev \in Seq(Event)
          BY <4>3
        <5> HIDE DEF ev
        <5>2. Append(ev, e) = ev \o <<e>> /\ <<e>> \in Seq(Event) /\ <<e>>[1] = e /\ DOMAIN <<e>> = {1}
          BY <5>1, OneEventOn
        <5> QED BY <5>2 DEF ev
      <4> QED BY <4>1, <4>2, <4>4
    <3> QED BY <3>1, <3>2
  <2>5. Hosts(n, o, i)
    <3>1. /\ \A d \in Ctl : n.ctl[d].big = m.ctl[d].big
          /\ m.next <= n.next
          /\ Routes(n.acts, i, "CreateBig") = Routes(m.acts, i - 1, "CreateBig")
          /\ Routes(n.acts, i, "TerminateBig") = Routes(m.acts, i - 1, "TerminateBig")
          /\ \A k \in DOMAIN n.acts : n.acts[k].cmd.op # "BigCreateSync" => n.acts[k].from = Src
      BY <1>5, <1>8, <1>9, <2>3 DEF q
    <3> QED BY <1>1, <1>3, <2>3, <2>4, <3>1, HostsBeside
  <2>6. Sends(n, o, i)
    <3>1. ASSUME NEW k \in Bis PROVE \E lo \in Nat : Chained(source, big, q, i, p, o, k, lo)
      <4>1. PICK lo \in Nat : Chained(source, big, q, i - 1, p, o, k, lo)
        BY <1>4, <2>1
      <4>2. lo + 1 \in Nat
        OBVIOUS
      <4> QED BY <1>7, <4>1, <4>2
    <3>2. n.ctl[Src].big = big /\ n.acts = q /\ n.next = m.next
      BY <2>3
    <3> HIDE DEF big, q, p
    <3> QED BY <1>4, <3>1, <3>2 DEF Sends, Sending, p
  <2>7. ASSUME NEW c \in Receiver PROVE Hears(n, o, i, c)
    <3>1. Hears(m, o, i - 1, c) /\ c \in Ctl
      BY <1>1, <1>3
    <3>2. CASE m.ctl[c].joined = <<>>
      <4>1. n.evts[c] = m.evts[c] \o <<>> /\ n.ctl[c].joined = <<>> /\ m.next <= n.next
        BY <1>5, <2>3, <3>1, <3>2
      <4>2. sink \in [Receiver -> Sinks] /\ n \in Medium /\ Hears(m, o, i - 1, c)
        BY <1>1, <2>3, <3>1
      <4>3. <<>> \in Seq(Event) /\ \A k \in DOMAIN <<>> : Dull(<<>>[k])
        BY DullQueues
      <4> QED BY <4>1, <4>2, <4>3, HearsKept
    <3>3. CASE m.ctl[c].joined # <<>>
      <4>1. PICK e \in Event : n.evts[c] = Append(m.evts[c], e) /\ e.type = "Iso" /\ e.handle = m.ctl[c].joined[j] /\ e.seq = cmd.seq
        BY <2>3, <3>1, <3>3
      <4>2. m.ctl[Src].big[j] = m.acts[i].cmd.handle /\ \A k, l \in Bis : m.ctl[Src].big[k] = m.ctl[Src].big[l] => k = l
        BY <1>11, <2>2
      <4> QED BY <2>1, <2>3, <3>1, <3>3, <4>1, <4>2, IsoHears
    <3> QED BY <3>2, <3>3
  <2> QED BY <2>3, <2>5, <2>6, <2>7 DEF Flow
<1> QED BY <1>2, <1>10, <1>11

\* Phase D: what was deferred.
LEMMA RoutedFlows ==
  ASSUME TypeOK, NEW m \in Medium, NEW i \in DOMAIN m.acts, NEW o, Flow(m, o, i - 1)
  PROVE  Routed(m, m.acts[i]).acts = m.acts /\ Flow(Routed(m, m.acts[i]), o, i)
<1> DEFINE a == m.acts[i]
           x == a.from
           cmd == a.cmd
<1>1. a \in Act
  BY DEF Medium
<1>2. x \in Ctl /\ cmd \in Routable
  BY <1>1 DEF Act
<1>3. cmd.op # "BigCreateSync" => x = Src
  BY DEF Flow, Hosts
<1>4. CASE cmd.op = "BigCreateSync"
  <2>1. Routed(m, a) = BigCreateSync(m, x, cmd)
    BY <1>4 DEF Routed
  <2> QED BY <1>4, <2>1, BigCreateSyncFlows
<1>5. CASE cmd.op = "CreateBig"
  <2>1. Routed(m, a) = CreateBig(m, Src) /\ Route(m.acts[i], "CreateBig")
    BY <1>3, <1>5 DEF Routed, Route
  <2> QED BY <2>1, CreateBigFlows
<1>6. CASE cmd.op = "TerminateBig"
  <2>1. Routed(m, a) = TerminateBig(m, Src) /\ Route(m.acts[i], "TerminateBig")
    BY <1>3, <1>6 DEF Routed, Route
  <2> QED BY <2>1, TerminateBigFlows
<1>7. CASE cmd.op = "Iso"
  <2>1. Routed(m, a) = BisIso(m, x, cmd)
    BY <1>7 DEF Routed
  <2> QED BY <1>7, <2>1, BisIsoFlows
<1> QED BY <1>2, <1>4, <1>5, <1>6, <1>7 DEF Routable

\* Phase D.
LEMMA PhaseDFlows ==
  ASSUME TypeOK, NEW m \in Medium, NEW o, Flow(m, o, 0)
  PROVE  PhaseD(m) \in Medium /\ Flow(PhaseD(m), o, Len(m.acts)) /\ PhaseD(m).acts = m.acts
<1> DEFINE s == m.acts
           U == [n \in 0 .. Len(s) |-> {u \in Medium : Flow(u, o, n) /\ u.acts = s}]
<1>1. Len(s) \in Nat /\ (\A n \in 1 .. Len(s) : s[n] \in Act /\ n \in DOMAIN s)
  BY DEF Medium
<1>2. m \in U[0] /\ Len(s) \in 0 .. Len(s)
  BY <1>1
<1>3. \A n \in 1 .. Len(s) : n \in 0 .. Len(s) /\ n - 1 \in 0 .. Len(s)
  BY <1>1
<1>4. ASSUME NEW n \in 1 .. Len(s), NEW u \in U[n - 1] PROVE Routed(u, s[n]) \in U[n]
  <2>1. u \in Medium /\ Flow(u, o, n - 1) /\ u.acts = s
    BY <1>3
  <2> DEFINE v == Routed(u, s[n])
  <2>2. v \in Medium /\ Flow(v, o, n) /\ v.acts = s
    BY <1>1, <2>1, RoutedTyped, RoutedFlows
  <2> HIDE DEF v
  <2>3. v \in U[n]
    BY <1>3, <2>2
  <2> QED BY <2>3 DEF v
<1> HIDE DEF U
<1>5. PhaseD(m) \in U[Len(s)]
  BY <1>1, <1>2, <1>4, AlongRouted
<1> QED BY <1>2, <1>5 DEF U

\* A tick begins with the SDUs that wait.
LEMMA BegunFlows ==
  ASSUME TypeOK, FlowInv
  PROVE  Begun \in Medium /\ Flow(Begun, 0, 0) /\ Modest
<1>1. Begun \in Medium
  <2>1. <<>> \in Seq(Act)
    OBVIOUS
  <2> QED BY <2>1 DEF Begun, Medium, TypeOK
<1>2. Begun.ctl = ctl /\ Begun.evts = evts /\ Begun.acts = <<>> /\ Begun.next = next
  BY DEF Begun
<1>3. \A op : Routes(<<>>, 0, op) = {}
  BY DEF Routes
<1>4. Hosts(Begun, 0, 0)
  <2>1. DOMAIN <<>> = {}
    OBVIOUS
  <2>2. Routes(<<>>, 0, "CreateBig") = {} /\ Routes(<<>>, 0, "TerminateBig") = {}
    BY <1>3
  <2> HIDE DEF Begun
  <2> QED BY <1>2, <2>1, <2>2 DEF FlowInv, Hosts
<1>5. Sends(Begun, 0, 0) /\ \A c \in Receiver : Hears(Begun, 0, 0, c)
  BY <1>2 DEF FlowInv, Sends, Hears
<1>6. Modest
  BY DEF FlowInv, Modest
<1> QED BY <1>1, <1>4, <1>5, <1>6 DEF Flow

\* All that was on its way reached the medium: nothing is on its way.
LEMMA ChainEnds ==
  ASSUME NEW b, NEW big, NEW q \in Seq(Act), NEW p \in Seq(Command), NEW n, NEW lo \in Nat,
         Chained(b, big, q, Len(q), p, Len(p), n, lo)
  PROVE  Chained(b, big, <<>>, 0, <<>>, 0, n, lo)
<1> DEFINE z == big[n]
<1>1. PICK mid \in Nat : Steady(Due(q, Len(q), z), lo, mid) /\ Steady(Sent(p, Len(p), z), mid, Top(b, big, n))
  BY DEF Chained
<1>2. DOMAIN Due(q, Len(q), z) = {} /\ DOMAIN Due(<<>>, 0, z) = {} /\ DOMAIN Sent(p, Len(p), z) = {} /\ DOMAIN Sent(<<>>, 0, z) = {}
  BY DueNone, SentNone
<1>3. lo = mid /\ mid = Top(b, big, n)
  BY <1>1, <1>2, SteadyNone
<1>4. Steady(Due(<<>>, 0, z), lo, lo) /\ Steady(Sent(<<>>, 0, z), lo, lo)
  BY <1>2, SteadyNone
<1> QED BY <1>3, <1>4 DEF Chained

\* The end of a tick.
LEMMA FlowEnds ==
  ASSUME TypeOK, NEW m \in Medium, Flow(m, Len(cmds[Src]), Len(m.acts))
  PROVE  /\ Hosted(source, m.ctl[Src].big, m.evts[Src], {}, {}, {}, Replies(m.evts[Src], 0), Ends(m.evts[Src], 0))
         /\ Young(source.bis, m.next)
         /\ \A i \in DOMAIN m.evts[Src] : Creates(m.evts[Src][i]) => Young(m.evts[Src][i].bis, m.next)
         /\ \A d \in Receiver : m.ctl[d].big = <<>>
         /\ Sending(source, m.ctl[Src].big, m.next, <<>>, 0, <<>>, 0)
         /\ \A c \in Receiver : Hearing(sink[c], m.ctl[c].joined, m.next, m.evts[c], 0, source, m.ctl[Src].big, <<>>, 0, <<>>, 0)
<1> DEFINE p == cmds[Src]
           q == m.acts
           big == m.ctl[Src].big
<1>1. p \in Seq(Command) /\ q \in Seq(Act)
  BY SrcIsCtl DEF TypeOK, Medium
<1>2. Hosts(m, Len(p), Len(q)) /\ Sends(m, Len(p), Len(q)) /\ \A c \in Receiver : Hears(m, Len(p), Len(q), c)
  BY DEF Flow
<1>3. Asks(p, Len(p), "CreateBig") = {} /\ Routes(q, Len(q), "CreateBig") = {} /\ Routes(q, Len(q), "TerminateBig") = {}
  BY <1>1, CommandsTaken, RoutesTaken
<1>4. \A n, lo : lo \in Nat /\ Chained(source, big, q, Len(q), p, Len(p), n, lo) => Chained(source, big, <<>>, 0, <<>>, 0, n, lo)
  <2> HIDE DEF p, q, big
  <2> QED BY <1>1, ChainEnds
<1>5. Hosted(source, big, m.evts[Src], {}, {}, {}, Replies(m.evts[Src], 0), Ends(m.evts[Src], 0))
  BY <1>2, <1>3 DEF Hosts
<1>6. Sending(source, big, m.next, <<>>, 0, <<>>, 0)
  <2>1. Sending(source, big, m.next, q, Len(q), p, Len(p))
    BY <1>2 DEF Sends
  <2>2. DOMAIN <<>> = {}
    OBVIOUS
  <2> HIDE DEF p, q, big
  <2> QED BY <1>4, <2>1, <2>2 DEF Sending
<1>7. ASSUME NEW c \in Receiver
      PROVE  Hearing(sink[c], m.ctl[c].joined, m.next, m.evts[c], 0, source, big, <<>>, 0, <<>>, 0)
  <2> DEFINE r == sink[c]
             j == m.ctl[c].joined
             ev == m.evts[c]
  <2>1. Hearing(r, j, m.next, ev, 0, source, big, q, Len(q), p, Len(p))
    BY <1>2 DEF Hears
  <2> HIDE DEF p, q, big, r, j, ev
  <2>2. ASSUME NEW h \in Nat PROVE \E l, u \in Nat : Heeds(r, j, ev, 0, source, big, <<>>, 0, <<>>, 0, h, l, u)
    <3>1. PICK l \in Nat, u \in Nat : Heeds(r, j, ev, 0, source, big, q, Len(q), p, Len(p), h, l, u)
      BY <2>1 DEF Hearing
    <3>2. Heeds(r, j, ev, 0, source, big, <<>>, 0, <<>>, 0, h, l, u)
      BY <1>4, <3>1 DEF Heeds
    <3> QED BY <3>2
  <2>3. Hearing(r, j, m.next, ev, 0, source, big, <<>>, 0, <<>>, 0)
    BY <2>1, <2>2 DEF Hearing
  <2> QED BY <2>3 DEF r, j, ev
<1> QED BY <1>2, <1>5, <1>6, <1>7 DEF Hosts

\* A tick keeps the SDUs in their order.
LEMMA TickFlows == ASSUME TypeOK, FlowInv, Tick PROVE FlowInv'
<1> DEFINE m1 == PhaseA(Begun)
           m2 == ExtendedAdvertising(m1)
           m3 == PeriodicSyncRequests(m2)
           m4 == PhaseD(m3)
           m5 == PeriodicAdvertising(m4)
           o == Len(cmds[Src])
<1>1. cmds \in [Ctl -> Seq(Command)] /\ Src \in Ctl /\ Receiver \subseteq Ctl
  BY SrcIsCtl DEF Receiver, TypeOK
<1>2. Begun \in Medium /\ Flow(Begun, 0, 0) /\ Modest
  BY BegunFlows
<1>3. m1 \in Medium /\ Flow(m1, o, 0)
  BY <1>2, PhaseAFlows
<1> HIDE DEF m1
<1>4. m2 \in Medium /\ Flow(m2, o, 0)
  BY <1>3, ExtendedAdvertisingTyped, ExtendedAdvertisingFlows
<1> HIDE DEF m2
<1>5. m3 \in Medium /\ Flow(m3, o, 0)
  BY <1>4, PeriodicSyncRequestsTyped, PeriodicSyncRequestsFlows
<1> HIDE DEF m3
<1>6. m4 \in Medium /\ Flow(m4, o, Len(m4.acts))
  BY <1>5, PhaseDFlows
<1> HIDE DEF m4
<1>7. m5 \in Medium /\ Flow(m5, o, Len(m4.acts)) /\ m5.acts = m4.acts
  <2>1. m5.acts = m4.acts
    BY DEF PeriodicAdvertising, Tells
  <2> QED BY <1>6, <2>1, PeriodicAdvertisingTyped, PeriodicAdvertisingFlows
<1> HIDE DEF m5
<1>8. Ticked = m5
  BY DEF Ticked, m1, m2, m3, m4, m5
<1>9. /\ ctl' = m5.ctl /\ evts' = m5.evts /\ next' = m5.next /\ cmds' = [x \in Ctl |-> <<>>] /\ sink' = sink /\ source' = source
  BY <1>8 DEF Tick, Ticked
<1>10. cmds'[Src] = <<>> /\ \A d \in Receiver : cmds'[d] = <<>>
  BY <1>1, <1>9
<1>11. Asks(<<>>, 0, "CreateBig") = {}
  BY DEF Asks
<1>12. /\ Hosted(source, m5.ctl[Src].big, m5.evts[Src], {}, {}, {}, Replies(m5.evts[Src], 0), Ends(m5.evts[Src], 0))
       /\ Young(source.bis, m5.next)
       /\ \A i \in DOMAIN m5.evts[Src] : Creates(m5.evts[Src][i]) => Young(m5.evts[Src][i].bis, m5.next)
       /\ \A d \in Receiver : m5.ctl[d].big = <<>>
       /\ Sending(source, m5.ctl[Src].big, m5.next, <<>>, 0, <<>>, 0)
       /\ \A c \in Receiver : Hearing(sink[c], m5.ctl[c].joined, m5.next, m5.evts[c], 0, source, m5.ctl[Src].big, <<>>, 0, <<>>, 0)
  BY <1>7, FlowEnds
<1> HIDE DEF Tick
<1>13. /\ Hosted(source', ctl'[Src].big, evts'[Src], Asks(cmds'[Src], 0, "CreateBig"), {}, {}, Replies(evts'[Src], 0), Ends(evts'[Src], 0))
       /\ Young(source'.bis, next')
       /\ \A i \in DOMAIN evts'[Src] : Creates(evts'[Src][i]) => Young(evts'[Src][i].bis, next')
  BY <1>9, <1>10, <1>11, <1>12
<1>14. /\ Sending(source', ctl'[Src].big, next', <<>>, 0, cmds'[Src], 0)
       /\ \A c \in Receiver : Hearing(sink'[c], ctl'[c].joined, next', evts'[c], 0, source', ctl'[Src].big, <<>>, 0, cmds'[Src], 0)
  BY <1>9, <1>10, <1>12
<1>15. ASSUME NEW d \in Receiver
       PROVE  ctl'[d].big = <<>> /\ \A i \in DOMAIN cmds'[d] : cmds'[d][i].op \notin {"CreateBig", "TerminateBig", "Iso"}
  <2>1. DOMAIN <<>> = {}
    OBVIOUS
  <2> QED BY <1>9, <1>10, <1>12, <2>1
<1> QED BY <1>13, <1>14, <1>15 DEF FlowInv

\* What a broadcaster b becomes, v, and what it sends, on an event e.
Climbs(b, e, v, out) ==
  /\ e.type = "Complete" /\ v.bis = b.bis /\ v.seq = b.seq
  /\ b.state \in {"CreatingBig", "Terminated"} => v.state = b.state
  /\ out = <<>> \/ \E x \in Command : out = <<x>> /\ x.op \notin {"CreateBig", "Iso"}
Wants(b, e, v, out) ==
  /\ e.type = "Complete" /\ v.bis = b.bis /\ v.seq = b.seq
  /\ b.state = "PeriodicEnable" /\ v.state = "CreatingBig" /\ out = <<Plain("CreateBig")>>
Gets(b, e, v, out) ==
  /\ Creates(e) /\ b.state = "CreatingBig" /\ v.state = "OpeningDataPaths"
  /\ v.bis = e.bis /\ (\A n \in Bis : v.seq[n] = 0) /\ out = <<Plain("DataPath")>>
Fails(b, e, v, out) ==
  /\ Replying(e) /\ ~Creates(e) /\ b.state = "CreatingBig"
  /\ v.state = "Failed" /\ v.bis = b.bis /\ v.seq = b.seq /\ out = <<>>
Stops(b, e, v, out) == Ending(e) /\ v.state = "Terminated" /\ v.bis = <<>> /\ out = <<>>
Rests(b, e, v, out) == ~Ending(e) /\ (Replying(e) => b.state # "CreatingBig") /\ v = b /\ out = <<>>

\* The answers to the commands that set a broadcast up.
LEMMA CompleteClimbs ==
  ASSUME NEW b \in Sources, NEW e, e.type = "Complete"
  PROVE  LET n == OnCommandComplete(b, e.op) IN Climbs(b, e, n.b, n.out) \/ Wants(b, e, n.b, n.out)
<1> DEFINE op == e.op
           r == OnCommandComplete(b, op)
           n == CHOOSE n \in DOMAIN Ladder : Ladder[n] = op
<1>1. CASE b.update /\ op = "PeriodicData"
  <2>1. r = [b |-> [b EXCEPT !.update = FALSE, !.status = TRUE], out |-> <<>>]
    BY <1>1 DEF OnCommandComplete
  <2> HIDE DEF r
  <2>2. r.b.state = b.state /\ r.b.bis = b.bis /\ r.b.seq = b.seq /\ r.out = <<>>
    BY <2>1 DEF Sources
  <2> QED BY <2>2 DEF r, Climbs
<1>2. CASE ~(b.update /\ op = "PeriodicData") /\ b.state \in Range(Ladder) /\ op = b.state
  <2> DEFINE s == IF n = Len(Ladder) THEN "CreatingBig" ELSE Ladder[n + 1]
             x == NextCommand(b, n)
  <2>1. r = [b |-> [b EXCEPT !.state = s], out |-> <<x>>]
    BY <1>2 DEF OnCommandComplete
  <2>2. n \in DOMAIN Ladder /\ Ladder[n] = b.state
    BY <1>2 DEF Range
  <2> HIDE DEF r, n
  <2>3. x \in Command /\ b.state \notin {"CreatingBig", "Terminated"}
    BY <2>2, RungTyped
  <2>4. IF n = Len(Ladder) THEN s = "CreatingBig" /\ b.state = "PeriodicEnable" /\ x = Plain("CreateBig")
        ELSE x.op \notin {"CreateBig", "Iso"}
    <3>1. n \in 1 .. 6 /\ Len(Ladder) = 6
      BY <2>2 DEF Ladder
    <3>2. /\ Ladder[1] = "Parameters" /\ Ladder[2] = "Data" /\ Ladder[3] = "PeriodicParameters"
          /\ Ladder[4] = "PeriodicData" /\ Ladder[5] = "Enable" /\ Ladder[6] = "PeriodicEnable"
      BY DEF Ladder
    <3>3. n = 1 \/ n = 2 \/ n = 3 \/ n = 4 \/ n = 5 \/ n = 6
      BY <3>1
    <3>4. /\ Plain("Data").op = "Data" /\ Plain("PeriodicParameters").op = "PeriodicParameters"
          /\ PeriodicData(b).op = "PeriodicData" /\ Plain("Enable").op = "Enable" /\ Plain("PeriodicEnable").op = "PeriodicEnable"
      BY DEF Plain, PeriodicData
    <3> QED BY <2>2, <3>1, <3>2, <3>3, <3>4 DEF NextCommand
  <2> HIDE DEF s, x
  <2>5. r.b.state = s /\ r.b.bis = b.bis /\ r.b.seq = b.seq /\ r.out = <<x>>
    BY <2>1 DEF Sources
  <2>6. CASE n = Len(Ladder)
    BY <2>4, <2>5, <2>6 DEF r, Wants
  <2>7. CASE n # Len(Ladder)
    BY <2>3, <2>4, <2>5, <2>7 DEF r, Climbs
  <2> QED BY <2>6, <2>7
<1>3. CASE /\ ~(b.update /\ op = "PeriodicData") /\ ~(b.state \in Range(Ladder) /\ op = b.state)
           /\ b.state = "OpeningDataPaths" /\ op = "DataPath"
  <2> DEFINE o == b.open + 1
             s == [b EXCEPT !.open = o, !.state = "Streaming"]
             t == [b EXCEPT !.open = o]
             x == Plain("DataPath")
  <2>1. r = [b |-> s, out |-> <<>>] \/ r = [b |-> t, out |-> <<x>>]
    BY <1>3 DEF OnCommandComplete
  <2> HIDE DEF r, o
  <2>2. s.bis = b.bis /\ s.seq = b.seq /\ t.bis = b.bis /\ t.seq = b.seq
    BY DEF Sources
  <2>3. x \in Command /\ x.op = "DataPath"
    BY PlainTyped DEF Plains, Plain
  <2> HIDE DEF s, t, x
  <2>4. r.b.bis = b.bis /\ r.b.seq = b.seq /\ (r.out = <<>> \/ r.out = <<x>>)
    BY <2>1, <2>2
  <2> QED BY <1>3, <2>3, <2>4 DEF r, Climbs
<1>4. CASE ~(b.update /\ op = "PeriodicData") /\ ~(b.state \in Range(Ladder) /\ op = b.state)
           /\ ~(b.state = "OpeningDataPaths" /\ op = "DataPath")
  <2>1. r = [b |-> b, out |-> <<>>]
    BY <1>4 DEF OnCommandComplete
  <2> HIDE DEF r
  <2>2. r.b = b /\ r.out = <<>>
    BY <2>1
  <2> QED BY <2>2 DEF r, Climbs
<1> QED BY <1>1, <1>2, <1>3, <1>4

\* Every event that a broadcaster takes.
LEMMA BroadcasterMoves ==
  ASSUME NEW b \in Sources, NEW e \in Event
  PROVE  LET n == BroadcasterOnPacket(b, e)
         IN \/ Climbs(b, e, n.b, n.out) \/ Wants(b, e, n.b, n.out) \/ Gets(b, e, n.b, n.out)
            \/ Fails(b, e, n.b, n.out) \/ Stops(b, e, n.b, n.out) \/ Rests(b, e, n.b, n.out)
<1> DEFINE r == BroadcasterOnPacket(b, e)
<1>1. CASE e.type = "Complete"
  <2>1. r = OnCommandComplete(b, e.op)
    BY <1>1 DEF BroadcasterOnPacket
  <2> QED BY <1>1, <2>1, CompleteClimbs
<1>2. CASE e.type = "Status"
  <2>1. CASE b.state = "CreatingBig" /\ e.op = "CreateBig" /\ ~e.ok
    <3>1. r = [b |-> [b EXCEPT !.state = "Failed"], out |-> <<>>]
      BY <1>2, <2>1 DEF BroadcasterOnPacket
    <3> HIDE DEF r
    <3>2. r.b.state = "Failed" /\ r.b.bis = b.bis /\ r.b.seq = b.seq /\ r.out = <<>>
      BY <3>1 DEF Sources
    <3> QED BY <1>2, <2>1, <3>2 DEF r, Fails, Replying, Creates
  <2>2. CASE ~(b.state = "CreatingBig" /\ e.op = "CreateBig" /\ ~e.ok)
    <3>1. r = [b |-> b, out |-> <<>>]
      BY <1>2, <2>2 DEF BroadcasterOnPacket
    <3> QED BY <1>2, <2>2, <3>1 DEF Rests, Replying, Creates, Ending
  <2> QED BY <2>1, <2>2
<1>3. CASE e.type = "BigComplete"
  <2>1. CASE b.state = "CreatingBig"
    <3> DEFINE z == [k \in Bis |-> 0]
    <3>1. r = [b |-> [b EXCEPT !.state = "OpeningDataPaths", !.bis = e.bis, !.open = 0, !.seq = z],
               out |-> <<Plain("DataPath")>>]
      BY <1>3, <2>1 DEF BroadcasterOnPacket
    <3>2. \A n \in Bis : z[n] = 0
      OBVIOUS
    <3> HIDE DEF r, z
    <3>3. r.b.state = "OpeningDataPaths" /\ r.b.bis = e.bis /\ r.b.seq = z /\ r.out = <<Plain("DataPath")>>
      BY <3>1 DEF Sources
    <3> QED BY <1>3, <2>1, <3>2, <3>3 DEF r, Gets, Creates
  <2>2. CASE b.state # "CreatingBig"
    <3>1. r = [b |-> b, out |-> <<>>]
      BY <1>3, <2>2 DEF BroadcasterOnPacket
    <3> QED BY <1>3, <2>2, <3>1 DEF Rests, Ending
  <2> QED BY <2>1, <2>2
<1>4. CASE e.type = "BigEnded"
  <2>1. r = [b |-> [b EXCEPT !.state = "Terminated", !.bis = <<>>], out |-> <<>>]
    BY <1>4 DEF BroadcasterOnPacket
  <2> HIDE DEF r
  <2>2. r.b.state = "Terminated" /\ r.b.bis = <<>> /\ r.out = <<>>
    BY <2>1 DEF Sources
  <2> QED BY <1>4, <2>2 DEF r, Stops, Ending
<1>5. CASE e.type \notin {"Complete", "Status", "BigComplete", "BigEnded"}
  <2>1. r = [b |-> b, out |-> <<>>]
    BY <1>5 DEF BroadcasterOnPacket
  <2> QED BY <1>5, <2>1 DEF Rests, Replying, Creates, Ending
<1> QED BY <1>1, <1>2, <1>3, <1>4, <1>5

\* Whatever its next event is, the broadcaster stays in step with its controller.
LEMMA HostedMoves ==
  ASSUME NEW b \in Sources, NEW v \in Sources, NEW out \in Seq(Command), NEW ev \in Seq(Event), NEW n \in DOMAIN ev,
         NEW big, NEW q \in Seq(Command),
         Hosted(b, big, ev, Asks(q, 0, "CreateBig"), {}, {}, Replies(ev, n - 1), Ends(ev, n - 1)),
         \/ Climbs(b, ev[n], v, out) \/ Wants(b, ev[n], v, out) \/ Gets(b, ev[n], v, out)
         \/ Fails(b, ev[n], v, out) \/ Stops(b, ev[n], v, out) \/ Rests(b, ev[n], v, out)
  PROVE  /\ Hosted(v, big, ev, Asks(q \o out, 0, "CreateBig"), {}, {}, Replies(ev, n), Ends(ev, n))
         /\ \A i \in DOMAIN out : out[i].op # "Iso"
         /\ big # <<>> => \A k \in Bis : Top(v, big, k) = Top(b, big, k)
<1> DEFINE e == ev[n]
           K == Asks(q, 0, "CreateBig")
           K2 == Asks(q \o out, 0, "CreateBig")
           A == Replies(ev, n - 1)
           A2 == Replies(ev, n)
           L == Ends(ev, n - 1)
           L2 == Ends(ev, n)
<1>1. /\ A = A2 \cup (IF Replying(e) THEN {n} ELSE {}) /\ L = L2 \cup (IF Ending(e) THEN {n} ELSE {})
      /\ (\A i \in A2 \cup L2 : n < i) /\ n \notin A2 /\ n \notin L2 /\ n \in Nat
  BY ReplyTaken
<1>2. Hosted(b, big, ev, K, {}, {}, A, L)
  OBVIOUS
<1>3. \A x \in Command : /\ x.op = "CreateBig" /\ Asks(q, 0, "CreateBig") = {}
                              => Asks(q \o <<x>>, 0, "CreateBig") # {} /\ AtMostOne(Asks(q \o <<x>>, 0, "CreateBig"))
                         /\ x.op # "CreateBig" => Asks(q \o <<x>>, 0, "CreateBig") = Asks(q, 0, "CreateBig")
                         /\ DOMAIN <<x>> = {1} /\ <<x>>[1] = x
  BY AskedOne
<1>4. q \o <<>> = q /\ DOMAIN <<>> = {}
  OBVIOUS
<1>5. /\ Plain("CreateBig") \in Command /\ Plain("CreateBig").op = "CreateBig"
      /\ Plain("DataPath") \in Command /\ Plain("DataPath").op = "DataPath"
  BY PlainTyped DEF Plains, Plain
<1>6. /\ b.bis # <<>> <=> b.state \in {"OpeningDataPaths", "Streaming"}
      /\ v.bis # <<>> <=> v.state \in {"OpeningDataPaths", "Streaming"}
  BY DEF Sources
<1>7. CASE Climbs(b, e, v, out)
  <2>1. K2 = K /\ \A i \in DOMAIN out : out[i].op # "Iso"
    <3>1. CASE out = <<>>
      BY <1>4, <3>1
    <3>2. ASSUME NEW x \in Command, out = <<x>>, x.op \notin {"CreateBig", "Iso"} PROVE K2 = K /\ \A i \in DOMAIN out : out[i].op # "Iso"
      BY <1>3, <3>2
    <3> QED BY <1>7, <3>1, <3>2 DEF Climbs
  <2>2. ~Replying(e) /\ ~Ending(e)
    BY <1>7 DEF Climbs, Replying, Creates, Ending
  <2>3. A = A2 /\ L = L2
    BY <1>1, <2>2
  <2>4. v.bis = b.bis /\ v.seq = b.seq /\ (b.state \in {"CreatingBig", "Terminated"} => v.state = b.state)
    BY <1>7 DEF Climbs
  <2> HIDE DEF K, K2, A, A2, L, L2
  <2>5. Hosted(v, big, ev, K2, {}, {}, A2, L2)
    BY <1>2, <2>1, <2>3, <2>4 DEF Hosted
  <2> QED BY <2>1, <2>4, <2>5 DEF Top, K2, A2, L2
<1>8. CASE Wants(b, e, v, out)
  <2>2. ~Replying(e) /\ ~Ending(e)
    BY <1>8 DEF Wants, Replying, Creates, Ending
  <2>3. A = A2 /\ L = L2
    BY <1>1, <2>2
  <2>4. v.bis = b.bis /\ v.seq = b.seq /\ b.state = "PeriodicEnable" /\ v.state = "CreatingBig" /\ out = <<Plain("CreateBig")>>
    BY <1>8 DEF Wants
  <2>5. K = {} /\ A = {} /\ L = {} /\ b.bis = <<>> /\ big = <<>>
    <3> HIDE DEF K, A, L
    <3> QED BY <1>2, <1>6, <2>4 DEF Hosted
  <2>6. K2 # {} /\ AtMostOne(K2) /\ \A i \in DOMAIN out : out[i].op # "Iso"
    BY <1>3, <1>5, <2>4, <2>5
  <2> HIDE DEF K, K2, A, A2, L, L2
  <2>7. Hosted(v, big, ev, K2, {}, {}, A2, L2)
    BY <2>3, <2>4, <2>5, <2>6 DEF Hosted
  <2> QED BY <2>4, <2>5, <2>6, <2>7 DEF K2, A2, L2
<1>9. CASE Gets(b, e, v, out)
  <2>1. K2 = K /\ \A i \in DOMAIN out : out[i].op # "Iso"
    BY <1>3, <1>5, <1>9 DEF Gets
  <2>2. Replying(e) /\ ~Ending(e) /\ Creates(e)
    BY <1>9 DEF Gets, Replying, Creates, Ending
  <2>3. n \in A /\ L = L2
    BY <1>1, <2>2
  <2>4. v.bis = e.bis /\ (\A k \in Bis : v.seq[k] = 0) /\ b.state = "CreatingBig" /\ v.state = "OpeningDataPaths"
    BY <1>9 DEF Gets
  <2>5. A = {n} /\ K = {} /\ ((big = e.bis /\ L = {}) \/ (big = <<>> /\ L # {}))
    <3> HIDE DEF K, A, L
    <3> QED BY <1>2, <2>2, <2>3 DEF Hosted
  <2>6. A2 = {}
    BY <1>1, <2>5
  <2> HIDE DEF K, K2, A, A2, L, L2
  <2>7. Hosted(v, big, ev, K2, {}, {}, A2, L2)
    BY <1>6, <2>1, <2>3, <2>4, <2>5, <2>6 DEF Hosted
  <2>8. ASSUME big # <<>>, NEW k \in Bis PROVE Top(v, big, k) = Top(b, big, k)
    BY <1>6, <2>4, <2>8 DEF Top
  <2> QED BY <2>1, <2>7, <2>8 DEF K2, A2, L2
<1>10. CASE Fails(b, e, v, out)
  <2>1. K2 = K /\ \A i \in DOMAIN out : out[i].op # "Iso"
    BY <1>4, <1>10 DEF Fails
  <2>2. Replying(e) /\ ~Ending(e) /\ ~Creates(e)
    BY <1>10 DEF Fails, Replying, Creates, Ending
  <2>3. n \in A /\ L = L2
    BY <1>1, <2>2
  <2>4. v.bis = b.bis /\ v.seq = b.seq /\ b.state = "CreatingBig" /\ v.state = "Failed"
    BY <1>10 DEF Fails
  <2>5. A = {n} /\ K = {} /\ big = <<>> /\ L = {}
    <3> HIDE DEF K, A, L
    <3> QED BY <1>2, <2>2, <2>3 DEF Hosted
  <2>6. A2 = {}
    BY <1>1, <2>5
  <2> HIDE DEF K, K2, A, A2, L, L2
  <2>7. Hosted(v, big, ev, K2, {}, {}, A2, L2)
    BY <1>6, <2>1, <2>3, <2>4, <2>5, <2>6 DEF Hosted
  <2> QED BY <2>1, <2>5, <2>7 DEF K2, A2, L2
<1>11. CASE Stops(b, e, v, out)
  <2>1. K2 = K /\ \A i \in DOMAIN out : out[i].op # "Iso"
    BY <1>4, <1>11 DEF Stops
  <2>2. ~Replying(e) /\ Ending(e)
    BY <1>11 DEF Stops, Replying, Creates, Ending
  <2>3. n \in L /\ A = A2
    BY <1>1, <2>2
  <2>4. v.bis = <<>> /\ v.state = "Terminated"
    BY <1>11 DEF Stops
  <2>5. K = {} /\ big = <<>> /\ \A i \in A : i < n
    <3> HIDE DEF K, A, L
    <3> QED BY <1>2, <2>3 DEF Hosted
  <2>6. A2 = {}
    <3> SUFFICES ASSUME NEW i \in A2 PROVE FALSE
      OBVIOUS
    <3>1. i < n /\ n < i /\ i \in Nat
      BY <1>1, <2>3, <2>5 DEF Replies
    <3> QED BY <1>1, <3>1
  <2> HIDE DEF K, K2, A, A2, L, L2
  <2>7. Hosted(v, big, ev, K2, {}, {}, A2, L2)
    BY <2>1, <2>4, <2>5, <2>6 DEF Hosted
  <2> QED BY <2>1, <2>5, <2>7 DEF K2, A2, L2
<1>12. CASE Rests(b, e, v, out)
  <2>1. K2 = K /\ \A i \in DOMAIN out : out[i].op # "Iso"
    BY <1>4, <1>12 DEF Rests
  <2>2. ~Ending(e) /\ (Replying(e) => b.state # "CreatingBig") /\ v = b
    BY <1>12 DEF Rests
  <2>3. L = L2
    BY <1>1, <2>2
  <2>4. A = A2
    <3>1. Replying(e) => n \in A
      BY <1>1
    <3>2. n \in A => b.state = "CreatingBig"
      <4> HIDE DEF K, A, L
      <4> QED BY <1>2 DEF Hosted
    <3> QED BY <1>1, <2>2, <3>1, <3>2
  <2> QED BY <1>2, <2>1, <2>2, <2>3, <2>4
<1> QED BY <1>7, <1>8, <1>9, <1>10, <1>11, <1>12

\* Handles the broadcaster gets are such as were given out.
LEMMA YoungMoves ==
  ASSUME NEW b, NEW e, NEW v, NEW out, NEW x, Young(b.bis, x), Creates(e) => Young(e.bis, x),
         \/ Climbs(b, e, v, out) \/ Wants(b, e, v, out) \/ Gets(b, e, v, out)
         \/ Fails(b, e, v, out) \/ Stops(b, e, v, out) \/ Rests(b, e, v, out)
  PROVE  Young(v.bis, x)
<1>1. DOMAIN <<>> = {}
  OBVIOUS
<1> QED BY <1>1 DEF Climbs, Wants, Gets, Fails, Stops, Rests, Young

\* A broadcaster that has taken n of its events.
Carries(d, n) ==
  /\ Hosted(d.b, ctl[Src].big, evts[Src], Asks(cmds[Src] \o d.out, 0, "CreateBig"), {}, {}, Replies(evts[Src], n), Ends(evts[Src], n))
  /\ Young(d.b.bis, next) /\ \A i \in DOMAIN d.out : d.out[i].op # "Iso"
  /\ ctl[Src].big # <<>> => \A k \in Bis : Top(d.b, ctl[Src].big, k) = Top(source, ctl[Src].big, k)

\* One event of the drain.
LEMMA HeardCarries ==
  ASSUME TypeOK, FlowInv, NEW n \in DOMAIN evts[Src], NEW d \in Turns, Carries(d, n - 1)
  PROVE  Heard(d, evts[Src][n]) \in Turns /\ Carries(Heard(d, evts[Src][n]), n)
<1> DEFINE ev == evts[Src]
           e == ev[n]
           p == cmds[Src]
           big == ctl[Src].big
           b == d.b
           x == BroadcasterOnPacket(b, e)
           v == x.b
           out == x.out
           w == Heard(d, e)
           q == p \o d.out
<1>1. ev \in Seq(Event) /\ p \in Seq(Command) /\ b \in Sources /\ d.out \in Seq(Command) /\ n \in DOMAIN ev
  BY SrcIsCtl DEF TypeOK, Turns
<1>2. e \in Event
  BY <1>1
<1>3. Creates(e) => Young(e.bis, next)
  BY DEF FlowInv
<1>4. x \in Turns
  BY <1>1, <1>2, BroadcasterOnPacketTyped
<1>5. \/ Climbs(b, e, v, out) \/ Wants(b, e, v, out) \/ Gets(b, e, v, out)
      \/ Fails(b, e, v, out) \/ Stops(b, e, v, out) \/ Rests(b, e, v, out)
  BY <1>1, <1>2, BroadcasterMoves
<1>6. w = [b |-> v, out |-> d.out \o out]
  BY DEF Heard
<1> HIDE DEF x
<1>7. v \in Sources /\ out \in Seq(Command)
  BY <1>4 DEF Turns
<1>8. w \in Turns /\ w.b = v /\ w.out = d.out \o out
  <2>1. d.out \o out \in Seq(Command)
    BY <1>1, <1>7
  <2> HIDE DEF w, v, out
  <2> QED BY <1>6, <1>7, <2>1 DEF Turns
<1> HIDE DEF w, v, out
<1>9. p \o w.out = q \o out /\ q \in Seq(Command)
  <2>1. p \o (d.out \o out) = (p \o d.out) \o out
    BY <1>1, <1>7, OneAfterTheOther
  <2> QED BY <1>1, <1>8, <2>1
<1>10. /\ Hosted(b, big, ev, Asks(q, 0, "CreateBig"), {}, {}, Replies(ev, n - 1), Ends(ev, n - 1))
       /\ Young(b.bis, next) /\ (\A i \in DOMAIN d.out : d.out[i].op # "Iso")
       /\ big # <<>> => \A k \in Bis : Top(b, big, k) = Top(source, big, k)
  BY DEF Carries
<1> HIDE DEF ev, e, p, big, b, q
<1>11. /\ Hosted(v, big, ev, Asks(q \o out, 0, "CreateBig"), {}, {}, Replies(ev, n), Ends(ev, n))
       /\ \A i \in DOMAIN out : out[i].op # "Iso"
       /\ big # <<>> => \A k \in Bis : Top(v, big, k) = Top(b, big, k)
  <2>1. \/ Climbs(b, ev[n], v, out) \/ Wants(b, ev[n], v, out) \/ Gets(b, ev[n], v, out)
        \/ Fails(b, ev[n], v, out) \/ Stops(b, ev[n], v, out) \/ Rests(b, ev[n], v, out)
    BY <1>5 DEF e
  <2> QED BY <1>1, <1>7, <1>9, <1>10, <2>1, HostedMoves
<1>12. Young(v.bis, next)
  BY <1>3, <1>5, <1>10, YoungMoves
<1>13. ASSUME NEW i \in DOMAIN w.out PROVE w.out[i].op # "Iso"
  <2>1. (i \in DOMAIN d.out /\ w.out[i] = d.out[i]) \/ (i - Len(d.out) \in DOMAIN out /\ w.out[i] = out[i - Len(d.out)])
    <3> DEFINE f == d.out
    <3>1. f \in Seq(Command) /\ w.out = f \o out /\ i \in DOMAIN (f \o out)
      BY <1>1, <1>8
    <3> HIDE DEF f
    <3>2. (i \in DOMAIN f /\ (f \o out)[i] = f[i]) \/ (i - Len(f) \in DOMAIN out /\ (f \o out)[i] = out[i - Len(f)])
      BY <1>7, <3>1
    <3> QED BY <3>1, <3>2 DEF f
  <2> QED BY <1>10, <1>11, <2>1
<1>14. big # <<>> => \A k \in Bis : Top(v, big, k) = Top(source, big, k)
  BY <1>10, <1>11
<1>15. Carries(w, n)
  BY <1>8, <1>9, <1>11, <1>12, <1>13, <1>14 DEF Carries, ev, p, big
<1> QED BY <1>8, <1>15 DEF w, ev, e

\* The whole drain.
LEMMA DrainedCarries ==
  ASSUME TypeOK, FlowInv
  PROVE  Drained(source) \in Turns /\ Carries(Drained(source), Len(evts[Src]))
<1> DEFINE s == evts[Src]
           U == [n \in 0 .. Len(s) |-> {u \in Turns : Carries(u, n)}]
           d == [b |-> source, out |-> <<>>]
<1>1. s \in Seq(Event) /\ source \in Sources /\ cmds[Src] \in Seq(Command)
  BY SrcIsCtl DEF TypeOK
<1>2. Len(s) \in Nat /\ (\A n \in 1 .. Len(s) : s[n] \in Event /\ n \in DOMAIN s)
  BY <1>1
<1>3. d \in Turns /\ Carries(d, 0)
  <2>1. d \in Turns /\ d.b = source /\ d.out = <<>>
    BY <1>1 DEF Turns
  <2>2. cmds[Src] \o <<>> = cmds[Src] /\ DOMAIN <<>> = {}
    BY <1>1
  <2> HIDE DEF d
  <2> QED BY <2>1, <2>2 DEF Carries, FlowInv
<1>4. \A n \in 1 .. Len(s) : n \in 0 .. Len(s) /\ n - 1 \in 0 .. Len(s)
  BY <1>2
<1>5. d \in U[0] /\ Len(s) \in 0 .. Len(s)
  <2>1. 0 \in 0 .. Len(s) /\ Len(s) \in 0 .. Len(s)
    BY <1>2
  <2> HIDE DEF d
  <2>2. U[0] = {u \in Turns : Carries(u, 0)}
    BY <2>1
  <2> QED BY <1>3, <2>1, <2>2
<1>6. ASSUME NEW n \in 1 .. Len(s), NEW u \in U[n - 1] PROVE Heard(u, s[n]) \in U[n]
  <2> DEFINE w == Heard(u, s[n])
  <2>1. u \in Turns /\ Carries(u, n - 1)
    BY <1>4
  <2>2. w \in Turns /\ Carries(w, n)
    BY <1>2, <2>1, HeardCarries
  <2> HIDE DEF w
  <2>3. w \in U[n]
    BY <1>4, <2>2
  <2> QED BY <2>3 DEF w
<1> HIDE DEF U
<1>7. Drained(source) \in U[Len(s)]
  BY <1>2, <1>5, <1>6, AlongHeard
<1> QED BY <1>5, <1>7 DEF U

\* What the broadcaster does to its queue changes nothing for those who listen.
LEMMA HearingKept ==
  ASSUME NEW r, NEW joined, NEW x, NEW ev, NEW b, NEW v, NEW big, NEW p, NEW w,
         Hearing(r, joined, x, ev, 0, b, big, <<>>, 0, p, 0),
         big # <<>> => \A k \in Bis, lo \in Nat : Chained(b, big, <<>>, 0, p, 0, k, lo) => Chained(v, big, <<>>, 0, w, 0, k, lo)
  PROVE  Hearing(r, joined, x, ev, 0, v, big, <<>>, 0, w, 0)
<1>1. joined # <<>> => big # <<>>
  BY DEF Hearing
<1>2. ASSUME NEW h \in Nat PROVE \E l, u \in Nat : Heeds(r, joined, ev, 0, v, big, <<>>, 0, w, 0, h, l, u)
  <2>1. PICK l \in Nat, u \in Nat : Heeds(r, joined, ev, 0, b, big, <<>>, 0, p, 0, h, l, u)
    BY DEF Hearing
  <2>2. Heeds(r, joined, ev, 0, v, big, <<>>, 0, w, 0, h, l, u)
    BY <1>1, <2>1 DEF Heeds
  <2> QED BY <2>2
<1> QED BY <1>2 DEF Hearing

\* A step of the broadcaster that leaves the medium alone.
LEMMA SourceFlows ==
  ASSUME TypeOK, FlowInv, UNCHANGED <<ctl, next, sink>>, \A c \in Receiver : evts'[c] = evts[c] /\ cmds'[c] = cmds[c],
         Hosted(source', ctl[Src].big, evts'[Src], Asks(cmds'[Src], 0, "CreateBig"), {}, {}, Replies(evts'[Src], 0), Ends(evts'[Src], 0)),
         Young(source'.bis, next), \A i \in DOMAIN evts'[Src] : Creates(evts'[Src][i]) => Young(evts'[Src][i].bis, next),
         \A i \in DOMAIN cmds'[Src] : cmds'[Src][i].op = "Iso" => cmds'[Src][i].handle < next,
         ctl[Src].big # <<>> => \A k \in Bis, lo \in Nat :
           Chained(source, ctl[Src].big, <<>>, 0, cmds[Src], 0, k, lo) => Chained(source', ctl[Src].big, <<>>, 0, cmds'[Src], 0, k, lo)
  PROVE  FlowInv'
<1> DEFINE big == ctl[Src].big
           p == cmds[Src]
           w == cmds'[Src]
<1>1. Sending(source, big, next, <<>>, 0, p, 0)
  BY DEF FlowInv
<1>2. Sending(source', big, next, <<>>, 0, w, 0)
  <2>1. \A i \in DOMAIN w : w[i].op = "Iso" => w[i].handle < next
    OBVIOUS
  <2>2. big # <<>> => \A k \in Bis, lo \in Nat : Chained(source, big, <<>>, 0, p, 0, k, lo) => Chained(source', big, <<>>, 0, w, 0, k, lo)
    OBVIOUS
  <2> HIDE DEF big, p, w
  <2> QED BY <1>1, <2>1, <2>2 DEF Sending
<1>3. ASSUME NEW c \in Receiver
      PROVE  Hearing(sink'[c], ctl'[c].joined, next', evts'[c], 0, source', ctl'[Src].big, <<>>, 0, cmds'[Src], 0)
  <2>1. Hearing(sink[c], ctl[c].joined, next, evts[c], 0, source, big, <<>>, 0, p, 0)
    BY DEF FlowInv
  <2>2. Hearing(sink[c], ctl[c].joined, next, evts[c], 0, source', big, <<>>, 0, w, 0)
    BY <2>1, HearingKept
  <2> QED BY <2>2
<1>4. ASSUME NEW d \in Receiver
      PROVE  ctl'[d].big = <<>> /\ \A i \in DOMAIN cmds'[d] : cmds'[d][i].op \notin {"CreateBig", "TerminateBig", "Iso"}
  BY DEF FlowInv
<1>5. Hosted(source', ctl'[Src].big, evts'[Src], Asks(cmds'[Src], 0, "CreateBig"), {}, {}, Replies(evts'[Src], 0), Ends(evts'[Src], 0))
  OBVIOUS
<1>6. Young(source'.bis, next') /\ \A i \in DOMAIN evts'[Src] : Creates(evts'[Src][i]) => Young(evts'[Src][i].bis, next')
  OBVIOUS
<1>7. Sending(source', ctl'[Src].big, next', <<>>, 0, cmds'[Src], 0)
  BY <1>2
<1> QED BY <1>3, <1>4, <1>5, <1>6, <1>7 DEF FlowInv

\* What a script's call makes of the broadcaster: a start comes after an end.
LEMMA CallDoes ==
  ASSUME NEW b \in Sources, NEW call \in Calls, MayCall(call, b)
  PROVE  LET s == ScriptCall(call, b)
         IN /\ \/ s.b.state = b.state /\ s.b.bis = b.bis /\ s.b.seq = b.seq
               \/ s.b.state = "Parameters" /\ s.b.bis = <<>> /\ b.bis = <<>> /\ b.state # "CreatingBig"
            /\ s.out = <<>> \/ \E x \in Command : s.out = <<x>> /\ x.op \notin {"CreateBig", "Iso"}
<1> DEFINE s == ScriptCall(call, b)
<1>1. /\ Plain("Parameters") \in Command /\ Plain("Parameters").op = "Parameters"
      /\ Plain("TerminateBig") \in Command /\ Plain("TerminateBig").op = "TerminateBig"
  BY PlainTyped DEF Plains, Plain
<1>2. CASE call = "start"
  <2> DEFINE i == b.base + 1
             n == [Broadcaster EXCEPT !.state = "Parameters", !.base = i, !.told = b.told]
             x == Plain("Parameters")
  <2>1. s = [b |-> n, out |-> <<x>>]
    BY <1>2 DEF ScriptCall
  <2>2. b.state \in {"Idle", "Terminated", "Failed"}
    BY <1>2 DEF MayCall, Ended
  <2>3. b.bis = <<>>
    BY <2>2 DEF Sources
  <2> HIDE DEF i, s, x
  <2>4. n.state = "Parameters" /\ n.bis = <<>>
    BY BroadcasterTyped DEF Sources
  <2> HIDE DEF n
  <2>5. s.b = n /\ s.out = <<x>>
    BY <2>1
  <2> QED BY <1>1, <2>2, <2>3, <2>4, <2>5 DEF s, x
<1>3. CASE call = "stop"
  <2>1. s = [b |-> b, out |-> <<Plain("TerminateBig")>>]
    BY <1>3 DEF ScriptCall
  <2> HIDE DEF s
  <2>2. s.b = b /\ s.out = <<Plain("TerminateBig")>>
    BY <2>1
  <2> QED BY <1>1, <2>2 DEF s
<1>4. CASE call = "update"
  <2> DEFINE i == b.base + 1
             n == [b EXCEPT !.base = i, !.update = TRUE]
             o == [b EXCEPT !.base = i]
             x == PeriodicData(o)
  <2>1. s = [b |-> n, out |-> <<x>>]
    BY <1>4 DEF ScriptCall
  <2>2. i \in Nat \ {0}
    BY DEF Sources
  <2> HIDE DEF i, s
  <2>3. n.state = b.state /\ n.bis = b.bis /\ n.seq = b.seq /\ o.base \in Nat \ {0}
    BY <2>2 DEF Sources
  <2> HIDE DEF n, o
  <2>4. x \in Command /\ x.op = "PeriodicData"
    BY <2>3, PeriodicDataTyped DEF PeriodicData
  <2> HIDE DEF x
  <2>5. s.b = n /\ s.out = <<x>>
    BY <2>1
  <2> QED BY <2>3, <2>4, <2>5 DEF s
<1>5. CASE call \notin {"start", "stop", "update"}
  <2>1. s = [b |-> b, out |-> <<>>]
    BY <1>5 DEF ScriptCall
  <2> HIDE DEF s
  <2>2. s.b = b /\ s.out = <<>>
    BY <2>1
  <2> QED BY <2>2 DEF s
<1> QED BY <1>2, <1>3, <1>4, <1>5

\* A turn of the script.
LEMMA SourceTurnFlows == ASSUME TypeOK, FlowInv, NEW call \in Calls, SourceTurn(call) PROVE FlowInv'
<1> DEFINE d == Drained(source)
           b == d.b
           s == ScriptCall(call, b)
           ev == evts[Src]
           p == cmds[Src]
           big == ctl[Src].big
<1>1. d \in Turns /\ Carries(d, Len(ev))
  BY DrainedCarries
<1>2. /\ MayCall(call, b) /\ source' = Observed(s.b) /\ cmds' = [cmds EXCEPT ![Src] = @ \o d.out \o s.out]
      /\ evts' = [evts EXCEPT ![Src] = <<>>] /\ UNCHANGED <<ctl, next, sink>>
  BY DEF SourceTurn
<1> HIDE DEF d
<1>3. b \in Sources /\ d.out \in Seq(Command) /\ p \in Seq(Command) /\ ev \in Seq(Event) /\ source \in Sources
  BY <1>1, SrcIsCtl DEF Turns, TypeOK
<1>4. /\ \/ s.b.state = b.state /\ s.b.bis = b.bis /\ s.b.seq = b.seq
         \/ s.b.state = "Parameters" /\ s.b.bis = <<>> /\ b.bis = <<>> /\ b.state # "CreatingBig"
      /\ s.out = <<>> \/ \E x \in Command : s.out = <<x>> /\ x.op \notin {"CreateBig", "Iso"}
  BY <1>2, <1>3, CallDoes
<1>5. s \in Turns
  BY <1>3, StartTyped, ScriptCallTyped
<1> HIDE DEF s, b
<1>6. s.b \in Sources /\ s.out \in Seq(Command)
  BY <1>5 DEF Turns
<1>7. source'.state = s.b.state /\ source'.bis = s.b.bis /\ source'.seq = s.b.seq
  <2>1. Observed(s.b).state = s.b.state /\ Observed(s.b).bis = s.b.bis /\ Observed(s.b).seq = s.b.seq
    BY <1>6 DEF Observed, Sources
  <2> QED BY <1>2, <2>1
<1> DEFINE q == p \o d.out
           w == q \o s.out
           t == d.out \o s.out
<1>8. q \in Seq(Command) /\ w = p \o t /\ t \in Seq(Command)
  <2>1. p \o (d.out \o s.out) = (p \o d.out) \o s.out
    BY <1>3, <1>6, OneAfterTheOther
  <2> QED BY <1>3, <1>6, <2>1
<1>9. cmds'[Src] = w /\ evts'[Src] = <<>> /\ \A c \in Receiver : evts'[c] = evts[c] /\ cmds'[c] = cmds[c]
  BY <1>2, SrcIsCtl DEF TypeOK, Receiver
<1>10. /\ Hosted(b, big, ev, Asks(q, 0, "CreateBig"), {}, {}, {}, {})
       /\ Young(b.bis, next) /\ (\A i \in DOMAIN d.out : d.out[i].op # "Iso")
       /\ big # <<>> => \A k \in Bis : Top(b, big, k) = Top(source, big, k)
  <2>1. Replies(ev, Len(ev)) = {} /\ Ends(ev, Len(ev)) = {}
    BY <1>3, RepliesTaken
  <2> QED BY <1>1, <2>1 DEF Carries, b
<1>11. Asks(w, 0, "CreateBig") = Asks(q, 0, "CreateBig") /\ \A i \in DOMAIN s.out : s.out[i].op # "Iso"
  <2> HIDE DEF q
  <2>1. CASE s.out = <<>>
    <3>1. q \o <<>> = q /\ DOMAIN <<>> = {}
      BY <1>8
    <3> QED BY <2>1, <3>1
  <2>2. ASSUME NEW x \in Command, s.out = <<x>>, x.op \notin {"CreateBig", "Iso"}
        PROVE  Asks(w, 0, "CreateBig") = Asks(q, 0, "CreateBig") /\ \A i \in DOMAIN s.out : s.out[i].op # "Iso"
    <3>1. Asks(q \o <<x>>, 0, "CreateBig") = Asks(q, 0, "CreateBig")
      BY <1>8, <2>2, AskedOne
    <3>2. DOMAIN <<x>> = {1} /\ <<x>>[1] = x
      OBVIOUS
    <3> QED BY <2>2, <3>1, <3>2
  <2> QED BY <1>4, <2>1, <2>2
<1>12. Replies(<<>>, 0) = {} /\ Ends(<<>>, 0) = {} /\ DOMAIN <<>> = {}
  <2>1. DOMAIN <<>> = {}
    OBVIOUS
  <2> QED BY <2>1 DEF Replies, Ends
<1> HIDE DEF q
<1>13. Hosted(source', big, <<>>, Asks(w, 0, "CreateBig"), {}, {}, {}, {})
  BY <1>4, <1>7, <1>10, <1>11 DEF Hosted
<1>14. Young(source'.bis, next)
  BY <1>4, <1>7, <1>10, <1>12 DEF Young
<1>15. ASSUME NEW i \in DOMAIN t PROVE t[i].op # "Iso"
  <2> DEFINE f == d.out
             g == s.out
  <2>1. f \in Seq(Command) /\ g \in Seq(Command) /\ t = f \o g /\ i \in DOMAIN (f \o g)
    BY <1>3, <1>6
  <2> HIDE DEF f, g, t
  <2>2. (i \in DOMAIN f /\ (f \o g)[i] = f[i]) \/ (i - Len(f) \in DOMAIN g /\ (f \o g)[i] = g[i - Len(f)])
    BY <2>1
  <2> QED BY <1>10, <1>11, <2>1, <2>2 DEF f, g
<1> HIDE DEF w, t
<1>16. ASSUME NEW i \in DOMAIN w, w[i].op = "Iso" PROVE w[i].handle < next
  <2>1. \A j \in DOMAIN p : p[j].op = "Iso" => p[j].handle < next
    BY DEF FlowInv, Sending
  <2> HIDE DEF p
  <2>2. (i \in DOMAIN p /\ (p \o t)[i] = p[i]) \/ (i - Len(p) \in DOMAIN t /\ (p \o t)[i] = t[i - Len(p)])
    BY <1>3, <1>8, <1>16
  <2> QED BY <1>8, <1>15, <1>16, <2>1, <2>2
<1>17. ASSUME big # <<>>, NEW k \in Bis, NEW lo \in Nat, Chained(source, big, <<>>, 0, p, 0, k, lo)
       PROVE  Chained(source', big, <<>>, 0, w, 0, k, lo)
  <2>1. Top(source', big, k) = Top(source, big, k)
    BY <1>4, <1>7, <1>10, <1>17 DEF Top
  <2>2. Sent(w, 0, big[k]) = Sent(p, 0, big[k])
    <3> HIDE DEF p, big
    <3> QED BY <1>3, <1>8, <1>15, SentOthers
  <2> QED BY <1>17, <2>1, <2>2 DEF Chained
<1>18. /\ Hosted(source', big, evts'[Src], Asks(cmds'[Src], 0, "CreateBig"), {}, {}, Replies(evts'[Src], 0), Ends(evts'[Src], 0))
       /\ \A i \in DOMAIN evts'[Src] : Creates(evts'[Src][i]) => Young(evts'[Src][i].bis, next)
  BY <1>9, <1>12, <1>13
<1>19. /\ \A i \in DOMAIN cmds'[Src] : cmds'[Src][i].op = "Iso" => cmds'[Src][i].handle < next
       /\ ctl[Src].big # <<>> => \A k \in Bis, lo \in Nat :
            Chained(source, ctl[Src].big, <<>>, 0, cmds[Src], 0, k, lo) => Chained(source', ctl[Src].big, <<>>, 0, cmds'[Src], 0, k, lo)
  BY <1>9, <1>16, <1>17
<1> QED BY <1>2, <1>9, <1>14, <1>18, <1>19, SourceFlows DEF big

\* An SDU is queued: the next of its stream.
LEMMA AudioFlows == ASSUME TypeOK, FlowInv, NEW k \in Bis, Audio(k) PROVE FlowInv'
<1> DEFINE q == source.seq[k] + 1
           x == SdusOf(source, k)
           p == cmds[Src]
           big == ctl[Src].big
           ev == evts[Src]
<1>1. /\ source' = [source EXCEPT !.seq[k] = q, !.inFlight = source.inFlight + 1] /\ cmds' = [cmds EXCEPT ![Src] = @ \o <<x>>]
      /\ source.state = "Streaming" /\ UNCHANGED <<ctl, evts, next, sink>>
  BY DEF Audio, SendSdu
<1>2. source \in Sources /\ p \in Seq(Command) /\ Src \in Ctl /\ next \in Nat /\ big \in Streams \cup {<<>>}
  BY SrcIsCtl DEF TypeOK, Keeps
<1>3. source.bis # <<>> /\ source.bis \in Streams /\ source.seq \in Streams
  BY <1>1, <1>2 DEF Sources
<1>4. q \in Nat /\ source.bis[k] \in Nat /\ DOMAIN source.bis = Bis
  BY <1>3 DEF Streams
<1>5. x \in Command /\ x.op = "Iso" /\ x.handle = source.bis[k] /\ x.seq = q
  BY <1>4 DEF SdusOf, Command
<1>6. /\ source'.state = source.state /\ source'.bis = source.bis
      /\ \A n \in Bis : source'.seq[n] = IF n = k THEN q ELSE source.seq[n]
  BY <1>1, <1>2, <1>3 DEF Sources, Streams
<1> HIDE DEF q, x
<1>7. cmds'[Src] = Append(p, x) /\ \A c \in Receiver : evts'[c] = evts[c] /\ cmds'[c] = cmds[c]
  <2>1. p \o <<x>> = Append(p, x)
    BY <1>2, <1>5
  <2> QED BY <1>1, <1>2, <2>1 DEF TypeOK, Receiver
<1>8. /\ Hosted(source, big, ev, Asks(p, 0, "CreateBig"), {}, {}, Replies(ev, 0), Ends(ev, 0))
      /\ Young(source.bis, next) /\ (\A i \in DOMAIN ev : Creates(ev[i]) => Young(ev[i].bis, next))
      /\ Sending(source, big, next, <<>>, 0, p, 0)
  BY DEF FlowInv
<1>9. Asks(Append(p, x), 0, "CreateBig") = Asks(p, 0, "CreateBig")
  <2> HIDE DEF p
  <2>1. p \in Seq(Command) /\ x \in Command
    BY <1>2, <1>5
  <2>2. \A op : Asks(Append(p, x), 0, op) = Asks(p, 0, op) \cup (IF x.op = op THEN {Len(p) + 1} ELSE {})
    BY <2>1, CommandAfter
  <2> QED BY <1>5, <2>2
<1> HIDE DEF p, big, ev
<1>10. Hosted(source', big, ev, Asks(Append(p, x), 0, "CreateBig"), {}, {}, Replies(ev, 0), Ends(ev, 0))
  BY <1>6, <1>8, <1>9 DEF Hosted
<1>11. big # <<>> => source.bis = big
  BY <1>1, <1>8 DEF Hosted
<1>12. ASSUME NEW i \in DOMAIN Append(p, x), Append(p, x)[i].op = "Iso" PROVE Append(p, x)[i].handle < next
  <2>1. (i \in DOMAIN p /\ Append(p, x)[i] = p[i]) \/ Append(p, x)[i] = x
    BY <1>2
  <2>2. x.handle < next
    BY <1>4, <1>5, <1>8 DEF Young
  <2> QED BY <1>8, <1>12, <2>1, <2>2 DEF Sending
<1>13. ASSUME big # <<>>, NEW n \in Bis, NEW lo \in Nat, Chained(source, big, <<>>, 0, p, 0, n, lo)
       PROVE  Chained(source', big, <<>>, 0, Append(p, x), 0, n, lo)
  <2> DEFINE z == big[n]
  <2>1. PICK mid \in Nat : Steady(Due(<<>>, 0, z), lo, mid) /\ Steady(Sent(p, 0, z), mid, Top(source, big, n))
    BY <1>13 DEF Chained
  <2>2. Top(source, big, n) = source.seq[n] /\ Top(source', big, n) = source'.seq[n]
    BY <1>6, <1>11, <1>13 DEF Top
  <2>3. Iso(x, z) <=> n = k
    <3>1. \A i, j \in Bis : big[i] = big[j] => i = j
      BY <1>4, <1>8, <1>11, <1>13 DEF Sending, Block
    <3>2. x.handle = big[k]
      BY <1>5, <1>11, <1>13
    <3> QED BY <1>5, <3>1, <3>2 DEF Iso
  <2> HIDE DEF z
  <2>4. Steady(Sent(Append(p, x), 0, z), mid, Top(source', big, n))
    <3>1. Steady(Sent(p, 0, z), mid, source.seq[n])
      BY <2>1, <2>2
    <3>2. CASE n = k
      <4>1. Steady(Sent(Append(p, x), 0, z), mid, source.seq[n] + 1)
        BY <1>2, <1>5, <2>3, <3>1, <3>2, SentMore DEF q
      <4> QED BY <1>6, <2>2, <3>2, <4>1 DEF q
    <3>3. CASE n # k
      <4>1. Steady(Sent(Append(p, x), 0, z), mid, source.seq[n])
        BY <1>2, <1>5, <2>3, <3>1, <3>3, SentMore
      <4> QED BY <1>6, <2>2, <3>3, <4>1
    <3> QED BY <3>2, <3>3
  <2> QED BY <2>1, <2>4 DEF Chained, z
<1>14. /\ Hosted(source', ctl[Src].big, evts'[Src], Asks(cmds'[Src], 0, "CreateBig"), {}, {}, Replies(evts'[Src], 0), Ends(evts'[Src], 0))
       /\ \A i \in DOMAIN evts'[Src] : Creates(evts'[Src][i]) => Young(evts'[Src][i].bis, next)
       /\ Young(source'.bis, next)
  BY <1>1, <1>6, <1>7, <1>8, <1>10 DEF ev, big
<1>15. /\ \A i \in DOMAIN cmds'[Src] : cmds'[Src][i].op = "Iso" => cmds'[Src][i].handle < next
       /\ ctl[Src].big # <<>> => \A n \in Bis, lo \in Nat :
            Chained(source, ctl[Src].big, <<>>, 0, cmds[Src], 0, n, lo) => Chained(source', ctl[Src].big, <<>>, 0, cmds'[Src], 0, n, lo)
  BY <1>7, <1>12, <1>13 DEF big, p
<1> QED BY <1>1, <1>7, <1>14, <1>15, SourceFlows

\* Commands of a receiver: none about a BIG of its own, and no SDU.
Meek(out) == out = <<>> \/ \E x \in Command : out = <<x>> /\ x.op \notin {"CreateBig", "TerminateBig", "Iso"}

\* What an event e makes of what a receiver r heard.
Notes(r, e, v, out) ==
  /\ Meek(out) /\ (v.state \in Deaf => r.state \in Deaf)
  /\ IF e.type = "Iso" THEN v = OnIso(r, e)
     ELSE /\ v.gap = r.gap /\ v.heard = r.heard
          /\ \/ v.bis = r.bis \/ v.bis = <<>>
             \/ e.type = "BigSync" /\ v.bis = e.bis /\ r.state \in Deaf /\ v.state \notin Deaf

\* The commands of a receiver.
LEMMA MeekOuts ==
  /\ Meek(<<>>) /\ Meek(<<Plain("DataPath")>>) /\ Meek(<<Plain("CreateSync")>>)
  /\ Meek(<<[op |-> "ScanEnable", on |-> TRUE]>>)
<1>1. /\ Plain("DataPath") \in Command /\ Plain("DataPath").op = "DataPath"
      /\ Plain("CreateSync") \in Command /\ Plain("CreateSync").op = "CreateSync"
  BY PlainTyped DEF Plains, Plain
<1>2. [op |-> "ScanEnable", on |-> TRUE] \in Command /\ [op |-> "ScanEnable", on |-> TRUE].op = "ScanEnable"
  BY DEF Command
<1> QED BY <1>1, <1>2 DEF Meek

\* Joining is asked for as soon as all is known.
LEMMA ReadyNotes ==
  ASSUME NEW r \in Sinks, NEW c \in Receiver
  PROVE  LET n == BigCreateSyncIfReady(r, c)
         IN /\ Meek(n.out) /\ (n.r.state \in Deaf => r.state \in Deaf)
            /\ n.r.gap = r.gap /\ n.r.heard = r.heard /\ n.r.bis = r.bis
<1> DEFINE x == [op |-> "BigCreateSync", sync |-> r.sync, encrypted |-> r.info = "encrypted", code |-> Code[c]]
           v == [r EXCEPT !.state = "Failed"]
           w == [r EXCEPT !.state = "SyncingToBig"]
           n == BigCreateSyncIfReady(r, c)
<1>1. \/ n = [r |-> r, out |-> <<>>]
      \/ n = [r |-> v, out |-> <<>>] /\ r.state = "WaitingForAnnouncement"
      \/ n = [r |-> w, out |-> <<x>>] /\ r.state = "WaitingForAnnouncement"
  BY DEF BigCreateSyncIfReady
<1>2. x \in Command /\ x.op = "BigCreateSync"
  BY DEF Command, Sinks, Receiver
<1>3. /\ v.gap = r.gap /\ v.heard = r.heard /\ v.bis = r.bis /\ w.gap = r.gap /\ w.heard = r.heard /\ w.bis = r.bis
  BY DEF Sinks
<1>4. Meek(<<x>>)
  BY <1>2 DEF Meek
<1> HIDE DEF x, v, w, n
<1>5. Meek(n.out) /\ n.r.gap = r.gap /\ n.r.heard = r.heard /\ n.r.bis = r.bis
  BY <1>1, <1>3, <1>4, MeekOuts
<1>6. n.r = r \/ r.state \in Deaf
  BY <1>1 DEF Deaf
<1> QED BY <1>5, <1>6 DEF n

\* The answers to the commands of a receiver.
LEMMA CompleteNotes ==
  ASSUME NEW r \in Sinks, NEW e, e.type # "Iso"
  PROVE  Notes(r, e, ReceiverOnComplete(r, e).r, ReceiverOnComplete(r, e).out)
<1> DEFINE o == r.open + 1
           q == [op |-> "ScanEnable", on |-> TRUE]
           x == Plain("DataPath")
           r1 == [r EXCEPT !.state = "Scanning"]
           r2 == [r EXCEPT !.open = o, !.state = "Receiving"]
           r3 == [r EXCEPT !.open = o]
           r4 == [r EXCEPT !.bis = <<>>, !.state = "Terminated"]
           n == ReceiverOnComplete(r, e)
<1>1. \/ n = [r |-> r, out |-> <<>>] \/ (n = [r |-> r1, out |-> <<q>>] /\ r.state = "SettingScanParameters")
      \/ n = [r |-> r2, out |-> <<>>] \/ n = [r |-> r3, out |-> <<x>>] \/ n = [r |-> r4, out |-> <<>>]
  BY DEF ReceiverOnComplete
<1> HIDE DEF n, o
<1>2. /\ r1.gap = r.gap /\ r1.heard = r.heard /\ r1.bis = r.bis
      /\ r2.gap = r.gap /\ r2.heard = r.heard /\ r2.bis = r.bis /\ r2.state = "Receiving"
      /\ r3.gap = r.gap /\ r3.heard = r.heard /\ r3.bis = r.bis /\ r3.state = r.state
      /\ r4.gap = r.gap /\ r4.heard = r.heard /\ r4.bis = <<>> /\ r4.state = "Terminated"
  BY DEF Sinks
<1>3. Meek(<<>>) /\ Meek(<<x>>) /\ Meek(<<q>>)
  BY MeekOuts
<1> HIDE DEF q, x, r1, r2, r3, r4
<1>4. /\ Meek(n.out) /\ n.r.gap = r.gap /\ n.r.heard = r.heard /\ (n.r.bis = r.bis \/ n.r.bis = <<>>)
      /\ n.r.state \in Deaf => r.state \in Deaf
  <2>1. CASE n = [r |-> r, out |-> <<>>]
    BY <1>3, <2>1
  <2>2. CASE n = [r |-> r1, out |-> <<q>>] /\ r.state = "SettingScanParameters"
    <3>1. n.r = r1 /\ n.out = <<q>> /\ r.state \in Deaf
      BY <2>2 DEF Deaf
    <3> QED BY <1>2, <1>3, <3>1
  <2>3. CASE n = [r |-> r2, out |-> <<>>]
    <3>1. n.r = r2 /\ n.out = <<>>
      BY <2>3
    <3> QED BY <1>2, <1>3, <3>1 DEF Deaf
  <2>4. CASE n = [r |-> r3, out |-> <<x>>]
    <3>1. n.r = r3 /\ n.out = <<x>>
      BY <2>4
    <3> QED BY <1>2, <1>3, <3>1
  <2>5. CASE n = [r |-> r4, out |-> <<>>]
    <3>1. n.r = r4 /\ n.out = <<>>
      BY <2>5
    <3> QED BY <1>2, <1>3, <3>1 DEF Deaf
  <2> QED BY <1>1, <2>1, <2>2, <2>3, <2>4, <2>5
<1> QED BY <1>4 DEF Notes, n

\* Every event that a receiver takes.
LEMMA PacketNotes ==
  ASSUME NEW r \in Sinks, NEW c \in Receiver, NEW e \in Event
  PROVE  Notes(r, e, ReceiverOnPacket(r, c, e).r, ReceiverOnPacket(r, c, e).out)
<1> DEFINE n == ReceiverOnPacket(r, c, e)
<1>1. Meek(<<>>)
  BY MeekOuts
<1>2. CASE e.type = "Complete"
  <2>1. n = ReceiverOnComplete(r, e)
    BY <1>2 DEF ReceiverOnPacket
  <2> QED BY <1>2, <2>1, CompleteNotes
<1>3. CASE e.type = "Status"
  <2> DEFINE q == [r EXCEPT !.state = "Failed"]
  <2>1. n.out = <<>> /\ n.r = ReceiverOnStatus(r, e)
    BY <1>3 DEF ReceiverOnPacket
  <2>2. q.gap = r.gap /\ q.heard = r.heard /\ q.bis = r.bis
    BY DEF Sinks
  <2>3. n.r = r \/ (n.r = q /\ r.state \in Deaf)
    BY <2>1 DEF ReceiverOnStatus, Deaf
  <2> HIDE DEF q, n
  <2> QED BY <1>1, <1>3, <2>1, <2>2, <2>3 DEF Notes, n
<1>4. CASE e.type = "Report"
  <2> DEFINE q == [r EXCEPT !.state = "SyncingToPeriodicAdvertising"]
             x == Plain("CreateSync")
  <2>1. n = [r |-> r, out |-> <<>>] \/ (n = [r |-> q, out |-> <<x>>] /\ r.state \in Deaf)
    BY <1>4 DEF ReceiverOnPacket, Deaf
  <2>2. q.gap = r.gap /\ q.heard = r.heard /\ q.bis = r.bis
    BY DEF Sinks
  <2>3. Meek(<<x>>)
    BY MeekOuts
  <2> HIDE DEF q, n, x
  <2>4. (n.r = r /\ n.out = <<>>) \/ (n.r = q /\ n.out = <<x>> /\ r.state \in Deaf)
    BY <2>1
  <2> QED BY <1>1, <1>4, <2>2, <2>3, <2>4 DEF Notes, n
<1>5. CASE e.type = "SyncEstablished"
  <2> DEFINE q == [r EXCEPT !.state = "WaitingForAnnouncement", !.sync = e.sync]
  <2>1. n = [r |-> r, out |-> <<>>] \/ (n = [r |-> q, out |-> <<>>] /\ r.state \in Deaf)
    BY <1>5 DEF ReceiverOnPacket, Deaf
  <2>2. q.gap = r.gap /\ q.heard = r.heard /\ q.bis = r.bis
    BY DEF Sinks
  <2> HIDE DEF q, n
  <2>4. n.out = <<>> /\ (n.r = r \/ (n.r = q /\ r.state \in Deaf))
    BY <2>1
  <2> QED BY <1>1, <1>5, <2>2, <2>4 DEF Notes, n
<1>6. CASE e.type = "Periodic" \/ e.type = "BigInfo"
  <2> DEFINE q == IF e.type = "Periodic" THEN [r EXCEPT !.base = e.base]
                  ELSE [r EXCEPT !.info = IF e.encrypted THEN "encrypted" ELSE "open"]
             y == BigCreateSyncIfReady(q, c)
  <2>1. n = [r |-> r, out |-> <<>>] \/ n = y
    BY <1>6 DEF ReceiverOnPacket, OnPeriodicReport, OnBigInfo
  <2>2. q \in Sinks
    <3>1. e.type = "Periodic" => e.base \in Nat
      BY DEF Event
    <3> QED BY <1>6, <3>1 DEF Sinks
  <2>3. q.gap = r.gap /\ q.heard = r.heard /\ q.bis = r.bis /\ q.state = r.state
    BY DEF Sinks
  <2> HIDE DEF q, n
  <2>4. /\ Meek(y.out) /\ (y.r.state \in Deaf => q.state \in Deaf)
        /\ y.r.gap = q.gap /\ y.r.heard = q.heard /\ y.r.bis = q.bis
    BY <2>2, ReadyNotes
  <2> HIDE DEF y
  <2>5. (n.r = r /\ n.out = <<>>) \/ (n.r = y.r /\ n.out = y.out)
    BY <2>1
  <2> QED BY <1>1, <1>6, <2>3, <2>4, <2>5 DEF Notes, n
<1>7. CASE e.type = "BigSync"
  <2> DEFINE x == Plain("DataPath")
             v == [r EXCEPT !.state = "Failed"]
             w == [r EXCEPT !.state = "OpeningDataPaths", !.bis = e.bis, !.open = 0]
  <2>1. \/ n = [r |-> r, out |-> <<>>]
        \/ n = [r |-> v, out |-> <<>>] /\ r.state \in Deaf
        \/ n = [r |-> w, out |-> <<x>>] /\ r.state \in Deaf
    BY <1>7 DEF ReceiverOnPacket, OnBigSyncEstablished, Deaf
  <2>2. /\ v.gap = r.gap /\ v.heard = r.heard /\ v.bis = r.bis
        /\ w.gap = r.gap /\ w.heard = r.heard /\ w.bis = e.bis /\ w.state = "OpeningDataPaths"
    BY DEF Sinks
  <2>3. Meek(<<x>>)
    BY MeekOuts
  <2> HIDE DEF v, w, n, x
  <2>4. \/ n.r = r /\ n.out = <<>>
        \/ n.r = v /\ n.out = <<>> /\ r.state \in Deaf
        \/ n.r = w /\ n.out = <<x>> /\ r.state \in Deaf
    BY <2>1
  <2>5. w.state \notin Deaf
    BY <2>2 DEF Deaf
  <2> QED BY <1>1, <1>7, <2>2, <2>3, <2>4, <2>5 DEF Notes, n
<1>8. CASE e.type = "BigLost"
  <2> DEFINE q == [r EXCEPT !.bis = <<>>, !.state = "Lost"]
  <2>1. n = [r |-> q, out |-> <<>>]
    BY <1>8 DEF ReceiverOnPacket
  <2>2. q.gap = r.gap /\ q.heard = r.heard /\ q.bis = <<>> /\ q.state = "Lost"
    BY DEF Sinks
  <2> HIDE DEF q, n
  <2>3. n.r = q /\ n.out = <<>> /\ q.state \notin Deaf
    BY <2>1, <2>2 DEF Deaf
  <2> QED BY <1>1, <1>8, <2>2, <2>3 DEF Notes, n
<1>9. CASE e.type = "Iso"
  <2>1. n.r = OnIso(r, e) /\ n.out = <<>>
    BY <1>9 DEF ReceiverOnPacket
  <2>2. OnIso(r, e).state = r.state
    BY DEF OnIso, Sinks
  <2> QED BY <1>1, <1>9, <2>1, <2>2 DEF Notes
<1>10. CASE e.type \notin {"Complete", "Status", "Report", "SyncEstablished", "Periodic", "BigInfo", "BigSync", "BigLost", "Iso"}
  <2>1. n.r = r /\ n.out = <<>>
    BY <1>10 DEF ReceiverOnPacket
  <2> QED BY <1>1, <1>10, <2>1 DEF Notes
<1> QED BY <1>2, <1>3, <1>4, <1>5, <1>6, <1>7, <1>8, <1>9, <1>10

\* An SDU for a stream that the receiver holds: it is the next one.
LEMMA IsoNotes ==
  ASSUME NEW r \in Sinks, NEW e \in Event, e.type = "Iso", NEW k \in DOMAIN r.bis, r.bis[k] = e.handle,
         \A i, j \in DOMAIN r.bis : r.bis[i] = r.bis[j] => i = j, ~r.gap, r.heard[k] = 0 \/ e.seq = r.heard[k] + 1
  PROVE  /\ ~OnIso(r, e).gap /\ OnIso(r, e).bis = r.bis /\ OnIso(r, e).state = r.state
         /\ \A i \in Bis : OnIso(r, e).heard[i] = IF i = k THEN e.seq ELSE r.heard[i]
<1> DEFINE kk == CHOOSE i \in DOMAIN r.bis : r.bis[i] = e.handle
           g == r.gap \/ (r.heard[kk] # 0 /\ e.seq # r.heard[kk] + 1)
           h == [r.heard EXCEPT ![kk] = e.seq]
<1>1. kk \in DOMAIN r.bis /\ r.bis[kk] = e.handle
  OBVIOUS
<1>2. kk = k
  BY <1>1
<1>3. OnIso(r, e) = [r EXCEPT !.heard = h, !.gap = g]
  <2>1. e.handle \in Range(r.bis)
    BY DEF Range
  <2> QED BY <2>1 DEF OnIso, Sinks
<1> HIDE DEF kk
<1>4. ~g
  BY <1>2
<1>5. \A i \in Bis : h[i] = IF i = k THEN e.seq ELSE r.heard[i]
  <2>1. DOMAIN r.heard = Bis
    BY DEF Sinks, Streams
  <2> QED BY <1>2, <2>1
<1> HIDE DEF g, h
<1>6. OnIso(r, e).gap = g /\ OnIso(r, e).heard = h /\ OnIso(r, e).bis = r.bis /\ OnIso(r, e).state = r.state
  BY <1>3 DEF Sinks
<1> QED BY <1>4, <1>5, <1>6

\* Whatever its next event is, what the receiver heard goes on from what it heard before.
LEMMA HearingMoves ==
  ASSUME NEW r \in Sinks, NEW v \in Sinks, NEW out, NEW ev \in Seq(Event), NEW n \in DOMAIN ev, Notes(r, ev[n], v, out),
         NEW joined, NEW x, NEW b, NEW big, NEW q, NEW a, NEW p, NEW o, Hearing(r, joined, x, ev, n - 1, b, big, q, a, p, o),
         r.state \in Deaf => r.bis = <<>>
  PROVE  Hearing(v, joined, x, ev, n, b, big, q, a, p, o) /\ (v.state \in Deaf => v.bis = <<>>)
<1> DEFINE e == ev[n]
<1>1. e \in Event /\ r.bis \in Streams \cup {<<>>}
  BY DEF Sinks
<1>2. /\ ~r.gap /\ (r.state \in Deaf => \A i \in Bis : r.heard[i] = 0) /\ (joined # <<>> => big # <<>>)
      /\ Block(joined, x) /\ Block(r.bis, x) /\ YoungEvents(ev, x)
      /\ \A h \in Nat : \E l, u \in Nat : Heeds(r, joined, ev, n - 1, b, big, q, a, p, o, h, l, u)
  BY DEF Hearing
<1>3. \A h, l, u : Steady(Came(ev, n - 1, h), l, u)
        => IF Arrives(e, h) THEN e.seq = l + 1 /\ Steady(Came(ev, n, h), l + 1, u) ELSE Steady(Came(ev, n, h), l, u)
  BY CameHead
<1>4. v.state \in Deaf => r.state \in Deaf
  BY DEF Notes
<1>5. CASE e.type # "Iso"
  <2>1. /\ v.gap = r.gap /\ v.heard = r.heard
        /\ \/ v.bis = r.bis \/ v.bis = <<>>
           \/ e.type = "BigSync" /\ v.bis = e.bis /\ r.state \in Deaf /\ v.state \notin Deaf
    BY <1>5 DEF Notes
  <2>2. Block(v.bis, x)
    <3>1. Block(<<>>, x)
      BY DEF Block, Young
    <3>2. e.type = "BigSync" => Block(e.bis, x)
      BY <1>2 DEF YoungEvents
    <3> QED BY <1>2, <2>1, <3>1, <3>2
  <2> HIDE DEF e
  <2>3. ASSUME NEW h \in Nat PROVE \E l, u \in Nat : Heeds(v, joined, ev, n, b, big, q, a, p, o, h, l, u)
    <3>1. PICK l \in Nat, u \in Nat : Heeds(r, joined, ev, n - 1, b, big, q, a, p, o, h, l, u)
      BY <1>2
    <3>2. ~Arrives(e, h)
      BY <1>5 DEF Arrives
    <3>3. Steady(Came(ev, n, h), l, u)
      BY <1>3, <3>1, <3>2 DEF Heeds
    <3>4. v.bis # <<>> => \A i \in Bis : v.bis[i] = h => v.heard[i] \in {0, l}
      BY <1>2, <2>1, <3>1 DEF Heeds
    <3>5. Heeds(v, joined, ev, n, b, big, q, a, p, o, h, l, u)
      BY <3>1, <3>3, <3>4 DEF Heeds
    <3> QED BY <3>5
  <2>4. Hearing(v, joined, x, ev, n, b, big, q, a, p, o)
    BY <1>2, <1>4, <2>1, <2>2, <2>3 DEF Hearing
  <2>5. v.state \in Deaf => v.bis = <<>>
    BY <1>4, <2>1
  <2> QED BY <2>4, <2>5
<1>6. CASE e.type = "Iso"
  <2> DEFINE z == e.handle
  <2>1. v = OnIso(r, e) /\ z \in Nat /\ e.seq \in Nat
    BY <1>1, <1>6 DEF Notes, Event
  <2>2. \A h : Arrives(e, h) <=> h = z
    BY <1>6 DEF Arrives
  <2>3. CASE \A i \in DOMAIN r.bis : r.bis[i] # z
    <3>1. v = r
      BY <2>1, <2>3 DEF OnIso, Range
    <3> HIDE DEF e, z
    <3>2. ASSUME NEW h \in Nat PROVE \E l, u \in Nat : Heeds(r, joined, ev, n, b, big, q, a, p, o, h, l, u)
      <4>1. PICK l \in Nat, u \in Nat : Heeds(r, joined, ev, n - 1, b, big, q, a, p, o, h, l, u)
        BY <1>2
      <4>2. CASE h = z
        <5>1. Steady(Came(ev, n, h), l + 1, u) /\ l + 1 \in Nat
          BY <1>3, <2>2, <4>1, <4>2 DEF Heeds
        <5>2. r.bis # <<>> => \A i \in Bis : r.bis[i] # h
          BY <1>1, <2>3, <4>2 DEF Streams
        <5>3. Heeds(r, joined, ev, n, b, big, q, a, p, o, h, l + 1, u)
          BY <4>1, <5>1, <5>2 DEF Heeds
        <5> QED BY <5>1, <5>3
      <4>3. CASE h # z
        <5>1. Steady(Came(ev, n, h), l, u)
          BY <1>3, <2>2, <4>1, <4>3 DEF Heeds
        <5>2. Heeds(r, joined, ev, n, b, big, q, a, p, o, h, l, u)
          BY <4>1, <5>1 DEF Heeds
        <5> QED BY <5>2
      <4> QED BY <4>2, <4>3
    <3>3. Hearing(r, joined, x, ev, n, b, big, q, a, p, o)
      BY <1>2, <3>2 DEF Hearing
    <3> QED BY <3>1, <3>3
  <2>4. ASSUME NEW k \in DOMAIN r.bis, r.bis[k] = z
        PROVE  Hearing(v, joined, x, ev, n, b, big, q, a, p, o) /\ (v.state \in Deaf => v.bis = <<>>)
    <3>1. r.bis # <<>> /\ DOMAIN r.bis = Bis /\ k \in Bis
      <4>1. r.bis # <<>>
        OBVIOUS
      <4> QED BY <1>1, <4>1 DEF Streams
    <3>2. \A i, j \in Bis : r.bis[i] = r.bis[j] => i = j
      BY <1>2, <3>1 DEF Block
    <3>3. r.state \notin Deaf
      BY <3>1
    <3>4. PICK l0 \in Nat, u0 \in Nat : Heeds(r, joined, ev, n - 1, b, big, q, a, p, o, z, l0, u0)
      BY <1>2, <2>1
    <3>5. e.seq = l0 + 1 /\ Steady(Came(ev, n, z), l0 + 1, u0)
      BY <1>3, <2>2, <3>4 DEF Heeds
    <3>6. r.heard[k] \in {0, l0}
      BY <2>4, <3>1, <3>4 DEF Heeds
    <3>7. /\ ~v.gap /\ v.bis = r.bis /\ v.state = r.state
          /\ \A i \in Bis : v.heard[i] = IF i = k THEN e.seq ELSE r.heard[i]
      <4>1. r.heard[k] = 0 \/ e.seq = r.heard[k] + 1
        BY <3>5, <3>6
      <4>2. \A i, j \in DOMAIN r.bis : r.bis[i] = r.bis[j] => i = j
        BY <3>1, <3>2
      <4>3. r.bis[k] = e.handle /\ ~r.gap
        BY <1>2, <2>4
      <4> HIDE DEF e
      <4> QED BY <1>1, <1>6, <2>1, <4>1, <4>2, <4>3, IsoNotes
    <3> HIDE DEF e, z
    <3>8. ASSUME NEW h \in Nat PROVE \E l, u \in Nat : Heeds(v, joined, ev, n, b, big, q, a, p, o, h, l, u)
      <4>1. CASE h = z
        <5>1. \A i \in Bis : r.bis[i] = z => i = k
          BY <2>4, <3>1, <3>2
        <5>2. l0 + 1 \in Nat /\ Heeds(v, joined, ev, n, b, big, q, a, p, o, z, l0 + 1, u0)
          BY <3>4, <3>5, <3>7, <5>1 DEF Heeds
        <5> QED BY <4>1, <5>2
      <4>2. CASE h # z
        <5>1. PICK l \in Nat, u \in Nat : Heeds(r, joined, ev, n - 1, b, big, q, a, p, o, h, l, u)
          BY <1>2
        <5>2. Steady(Came(ev, n, h), l, u)
          BY <1>3, <2>2, <4>2, <5>1 DEF Heeds
        <5>3. \A i \in Bis : r.bis[i] = h => i # k
          BY <2>4, <4>2
        <5>4. Heeds(v, joined, ev, n, b, big, q, a, p, o, h, l, u)
          BY <3>1, <3>7, <5>1, <5>2, <5>3 DEF Heeds
        <5> QED BY <5>4
      <4> QED BY <4>1, <4>2
    <3>9. Hearing(v, joined, x, ev, n, b, big, q, a, p, o)
      BY <1>2, <3>3, <3>7, <3>8 DEF Hearing
    <3> QED BY <3>3, <3>7, <3>9
  <2> QED BY <2>3, <2>4
<1> QED BY <1>5, <1>6

\* Commands of a receiver, one after the other.
Modestly(p) == \A i \in DOMAIN p : p[i].op \notin {"CreateBig", "TerminateBig", "Iso"}

\* Commands of a receiver, after others.
LEMMA ModestlyOn ==
  ASSUME NEW f \in Seq(Command), NEW g \in Seq(Command), Modestly(f), Modestly(g)
  PROVE  Modestly(f \o g)
<1> SUFFICES ASSUME NEW i \in DOMAIN (f \o g) PROVE (f \o g)[i].op \notin {"CreateBig", "TerminateBig", "Iso"}
  BY DEF Modestly
<1>1. (i \in DOMAIN f /\ (f \o g)[i] = f[i]) \/ (i - Len(f) \in DOMAIN g /\ (f \o g)[i] = g[i - Len(f)])
  OBVIOUS
<1> QED BY <1>1 DEF Modestly

\* What one event causes are commands of a receiver.
LEMMA MeekIsModest == ASSUME NEW out, Meek(out) PROVE Modestly(out)
<1>1. DOMAIN <<>> = {} /\ \A x : DOMAIN <<x>> = {1} /\ <<x>>[1] = x
  OBVIOUS
<1>2. CASE out = <<>>
  BY <1>1, <1>2 DEF Modestly
<1>3. ASSUME NEW x \in Command, out = <<x>>, x.op \notin {"CreateBig", "TerminateBig", "Iso"} PROVE Modestly(out)
  BY <1>1, <1>3 DEF Modestly
<1> QED BY <1>2, <1>3 DEF Meek

\* One event of the drain: what the receiver heard goes on, and it asks nothing of a broadcaster.
LEMMA ReceivedFlows ==
  ASSUME NEW c \in Receiver, NEW ev \in Seq(Event), NEW n \in DOMAIN ev, NEW d \in Receptions,
         NEW joined, NEW x, NEW b, NEW big, NEW q, NEW a, NEW p, NEW o, Hearing(d.r, joined, x, ev, n - 1, b, big, q, a, p, o),
         d.r.state \in Deaf => d.r.bis = <<>>, Modestly(d.out)
  PROVE  LET w == Received(d, c, ev[n])
         IN Hearing(w.r, joined, x, ev, n, b, big, q, a, p, o) /\ (w.r.state \in Deaf => w.r.bis = <<>>) /\ Modestly(w.out)
<1> DEFINE r == d.r
           y == ReceiverOnPacket(r, c, ev[n])
           w == Received(d, c, ev[n])
           v == y.r
           out == y.out
           f == d.out
<1>1. r \in Sinks /\ f \in Seq(Command) /\ ev[n] \in Event
  BY DEF Receptions
<1>2. Notes(r, ev[n], v, out)
  BY <1>1, PacketNotes
<1>3. v \in Sinks /\ out \in Seq(Command)
  <2>1. y \in Receptions
    BY <1>1, ReceiverOnPacketTyped
  <2> HIDE DEF y
  <2> QED BY <2>1 DEF Receptions
<1>4. w.r = v /\ w.out = f \o out
  BY DEF Received
<1>5. Hearing(r, joined, x, ev, n - 1, b, big, q, a, p, o) /\ (r.state \in Deaf => r.bis = <<>>) /\ Modestly(f)
  OBVIOUS
<1> HIDE DEF y, w, r, v, out, f
<1>6. Hearing(v, joined, x, ev, n, b, big, q, a, p, o) /\ (v.state \in Deaf => v.bis = <<>>)
  BY <1>1, <1>2, <1>3, <1>5, HearingMoves
<1>7. Modestly(f \o out)
  <2>1. Modestly(out)
    BY <1>2, MeekIsModest DEF Notes
  <2> QED BY <1>1, <1>3, <1>5, <2>1, ModestlyOn
<1>8. Hearing(w.r, joined, x, ev, n, b, big, q, a, p, o) /\ (w.r.state \in Deaf => w.r.bis = <<>>) /\ Modestly(w.out)
  BY <1>4, <1>6, <1>7
<1> QED BY <1>8 DEF w

\* The whole drain.
LEMMA TurnedFlows ==
  ASSUME NEW c \in Receiver, TypeOK, ToldInv, FlowInv
  PROVE  /\ Hearing(Turned(c).r, ctl[c].joined, next, evts[c], Len(evts[c]), source, ctl[Src].big, <<>>, 0, cmds[Src], 0)
         /\ Modestly(Turned(c).out)
<1> DEFINE s == evts[c]
           j == ctl[c].joined
           big == ctl[Src].big
           p == cmds[Src]
           Stands(d, n) == /\ Hearing(d.r, j, next, s, n, source, big, <<>>, 0, p, 0)
                           /\ (d.r.state \in Deaf => d.r.bis = <<>>) /\ Modestly(d.out)
           U == [n \in 0 .. Len(s) |-> {d \in Receptions : Stands(d, n)}]
           d0 == [r |-> sink[c], out |-> <<>>]
<1>1. s \in Seq(Event) /\ sink[c] \in Sinks
  BY DEF TypeOK, Receiver
<1>2. Len(s) \in Nat /\ (\A n \in 1 .. Len(s) : s[n] \in Event /\ n \in DOMAIN s)
  BY <1>1
<1>3. d0 \in Receptions /\ Stands(d0, 0)
  <2>1. d0 \in Receptions
    BY <1>1, ReceptionOf
  <2>2. Hearing(sink[c], j, next, s, 0, source, big, <<>>, 0, p, 0)
    BY DEF FlowInv
  <2>3. sink[c].state \in Deaf => sink[c].bis = <<>>
    <3>1. Settled(sink[c], ctl[c], ctl[Src], s, 0, Asks(cmds[c], 0, "BigCreateSync"), Asks(cmds[c], 0, "CreateSync"))
      BY DEF ToldInv
    <3>2. sink[c].bis # <<>> <=> sink[c].state \in {"OpeningDataPaths", "Receiving"}
      BY <3>1 DEF Settled, Member
    <3> QED BY <3>2 DEF Deaf
  <2>4. Modestly(<<>>)
    <3>1. DOMAIN <<>> = {}
      OBVIOUS
    <3> QED BY <3>1 DEF Modestly
  <2> QED BY <2>1, <2>2, <2>3, <2>4
<1>4. \A n \in 1 .. Len(s) : n \in 0 .. Len(s) /\ n - 1 \in 0 .. Len(s)
  BY <1>2
<1>5. d0 \in U[0] /\ Len(s) \in 0 .. Len(s)
  <2>1. 0 \in 0 .. Len(s) /\ Len(s) \in 0 .. Len(s)
    BY <1>2
  <2> HIDE DEF d0, Stands
  <2>2. U[0] = {d \in Receptions : Stands(d, 0)}
    BY <2>1
  <2> QED BY <1>3, <2>1, <2>2
<1>6. ASSUME NEW n \in 1 .. Len(s), NEW d \in U[n - 1] PROVE Received(d, c, s[n]) \in U[n]
  <2> DEFINE w == Received(d, c, s[n])
  <2>1. d \in Receptions /\ Stands(d, n - 1)
    BY <1>4
  <2>2. w \in Receptions
    BY <1>2, <2>1, ReceivedTyped
  <2>3. Stands(w, n)
    <3> HIDE DEF j, big, p
    <3> QED BY <1>1, <1>2, <2>1, ReceivedFlows
  <2> HIDE DEF w, Stands
  <2>4. w \in U[n]
    BY <1>4, <2>2, <2>3
  <2> QED BY <2>4 DEF w
<1> HIDE DEF U, Stands
<1>7. Turned(c) \in U[Len(s)]
  BY <1>2, <1>5, <1>6, AlongReceived
<1>8. Stands(Turned(c), Len(s))
  BY <1>5, <1>7 DEF U
<1> QED BY <1>8 DEF Stands

\* A receiver that has taken all events: what holds of it holds of an empty queue.
LEMMA HearingTaken ==
  ASSUME NEW r, NEW joined, NEW x, NEW ev \in Seq(Event), NEW b, NEW big, NEW q, NEW a, NEW p, NEW o,
         Hearing(r, joined, x, ev, Len(ev), b, big, q, a, p, o)
  PROVE  Hearing(r, joined, x, <<>>, 0, b, big, q, a, p, o)
<1>1. ASSUME NEW h \in Nat PROVE \E l, u \in Nat : Heeds(r, joined, <<>>, 0, b, big, q, a, p, o, h, l, u)
  <2>1. PICK l \in Nat, u \in Nat : Heeds(r, joined, ev, Len(ev), b, big, q, a, p, o, h, l, u)
    BY DEF Hearing
  <2>2. DOMAIN Came(ev, Len(ev), h) = {} /\ DOMAIN Came(<<>>, 0, h) = {}
    BY CameNone
  <2>3. Steady(Came(ev, Len(ev), h), l, u)
    BY <2>1 DEF Heeds
  <2>4. l = u
    BY <2>2, <2>3, SteadyNone
  <2>5. Steady(Came(<<>>, 0, h), l, u)
    BY <2>2, <2>4, SteadyNone
  <2>6. Heeds(r, joined, <<>>, 0, b, big, q, a, p, o, h, l, u)
    BY <2>1, <2>5 DEF Heeds
  <2> QED BY <2>6
<1>2. YoungEvents(<<>>, x)
  <2>1. DOMAIN <<>> = {}
    OBVIOUS
  <2> QED BY <2>1 DEF YoungEvents
<1> QED BY <1>1, <1>2 DEF Hearing

\* What a receiver does to itself without hearing anything.
LEMMA HearingSame ==
  ASSUME NEW r, NEW v, NEW joined, NEW x, NEW ev, NEW e, NEW b, NEW big, NEW q, NEW a, NEW p, NEW o,
         Hearing(r, joined, x, ev, e, b, big, q, a, p, o), v.gap = r.gap, v.bis = r.bis, v.heard = r.heard,
         v.state \in Deaf => r.state \in Deaf
  PROVE  Hearing(v, joined, x, ev, e, b, big, q, a, p, o)
<1>1. ASSUME NEW h \in Nat PROVE \E l, u \in Nat : Heeds(v, joined, ev, e, b, big, q, a, p, o, h, l, u)
  <2>1. PICK l \in Nat, u \in Nat : Heeds(r, joined, ev, e, b, big, q, a, p, o, h, l, u)
    BY DEF Hearing
  <2>2. Heeds(v, joined, ev, e, b, big, q, a, p, o, h, l, u)
    BY <2>1 DEF Heeds
  <2> QED BY <2>2
<1> QED BY <1>1 DEF Hearing

\* A receiver's own step leaves the broadcaster and the others as they are.
LEMMA OthersFlow ==
  ASSUME TypeOK, FlowInv, NEW c \in Receiver, UNCHANGED <<ctl, next, source>>,
         \A d \in Ctl \ {c} : evts'[d] = evts[d] /\ cmds'[d] = cmds[d], \A d \in Receiver \ {c} : sink'[d] = sink[d],
         Hearing(sink'[c], ctl[c].joined, next, evts'[c], 0, source, ctl[Src].big, <<>>, 0, cmds[Src], 0), Modestly(cmds'[c])
  PROVE  FlowInv'
<1>1. Src \in Ctl \ {c} /\ \A d \in Receiver : d \in Ctl
  BY SrcIsCtl DEF Receiver
<1>2. evts'[Src] = evts[Src] /\ cmds'[Src] = cmds[Src]
  BY <1>1
<1>3. ASSUME NEW d \in Receiver
      PROVE  Hearing(sink'[d], ctl'[d].joined, next', evts'[d], 0, source', ctl'[Src].big, <<>>, 0, cmds'[Src], 0)
  <2>1. CASE d = c
    BY <1>2, <2>1
  <2>2. CASE d # c
    <3>1. Hearing(sink[d], ctl[d].joined, next, evts[d], 0, source, ctl[Src].big, <<>>, 0, cmds[Src], 0)
      BY DEF FlowInv
    <3>2. sink'[d] = sink[d] /\ evts'[d] = evts[d]
      BY <1>1, <2>2
    <3> QED BY <1>2, <3>1, <3>2
  <2> QED BY <2>1, <2>2
<1>4. ASSUME NEW d \in Receiver
      PROVE  ctl'[d].big = <<>> /\ \A i \in DOMAIN cmds'[d] : cmds'[d][i].op \notin {"CreateBig", "TerminateBig", "Iso"}
  <2>1. ctl[d].big = <<>> /\ \A i \in DOMAIN cmds[d] : cmds[d][i].op \notin {"CreateBig", "TerminateBig", "Iso"}
    BY DEF FlowInv
  <2>2. d = c \/ cmds'[d] = cmds[d]
    BY <1>1
  <2>3. \A i \in DOMAIN cmds'[c] : cmds'[c][i].op \notin {"CreateBig", "TerminateBig", "Iso"}
    BY DEF Modestly
  <2> QED BY <2>1, <2>2, <2>3
<1>5. Hosted(source', ctl'[Src].big, evts'[Src], Asks(cmds'[Src], 0, "CreateBig"), {}, {}, Replies(evts'[Src], 0), Ends(evts'[Src], 0))
  BY <1>2 DEF FlowInv
<1>6. Young(source'.bis, next') /\ \A i \in DOMAIN evts'[Src] : Creates(evts'[Src][i]) => Young(evts'[Src][i].bis, next')
  BY <1>2 DEF FlowInv
<1>7. Sending(source', ctl'[Src].big, next', <<>>, 0, cmds'[Src], 0)
  BY <1>2 DEF FlowInv
<1> QED BY <1>3, <1>4, <1>5, <1>6, <1>7 DEF FlowInv

\* A turn of a receiver.
LEMMA ReceiverTurnFlows == ASSUME TypeOK, ToldInv, FlowInv, NEW c \in Receiver, ReceiverTurn(c) PROVE FlowInv'
<1> DEFINE d == Turned(c)
           w == StopScanning(d)
           p == cmds[c]
           y == [op |-> "ScanEnable", on |-> FALSE]
           v == [d.r EXCEPT !.stopped = TRUE]
           f == d.out
           big == ctl[Src].big
           s == cmds[Src]
           j == ctl[c].joined
<1>1. /\ sink' = [sink EXCEPT ![c] = w.r] /\ cmds' = [cmds EXCEPT ![c] = p \o w.out]
      /\ evts' = [evts EXCEPT ![c] = <<>>] /\ UNCHANGED <<ctl, next, source>>
  BY DEF ReceiverTurn
<1>2. d \in Receptions
  BY TurnedTyped
<1>3. d.r \in Sinks /\ f \in Seq(Command) /\ p \in Seq(Command) /\ evts[c] \in Seq(Event)
  <2> HIDE DEF d
  <2> QED BY <1>2 DEF Receptions, TypeOK, Receiver
<1>4. Hearing(d.r, j, next, <<>>, 0, source, big, <<>>, 0, s, 0) /\ Modestly(f)
  <2>1. Hearing(d.r, j, next, evts[c], Len(evts[c]), source, big, <<>>, 0, s, 0) /\ Modestly(f)
    BY TurnedFlows
  <2> HIDE DEF d, j, big, s, f
  <2> QED BY <1>3, <2>1, HearingTaken
<1>5. w = d \/ w = [r |-> v, out |-> Append(f, y)]
  BY DEF StopScanning
<1>6. y \in Command /\ y.op = "ScanEnable"
  BY DEF Command
<1>7. Modestly(p)
  BY DEF FlowInv, Modestly
<1> HIDE DEF w, y, j, big, s
<1>8. v.bis = d.r.bis /\ v.gap = d.r.gap /\ v.heard = d.r.heard /\ v.state = d.r.state
  <2> HIDE DEF d
  <2> QED BY <1>3 DEF Sinks
<1>9. (w.r = d.r /\ w.out = f) \/ (w.r = v /\ w.out = Append(f, y))
  <2> HIDE DEF d, v
  <2> QED BY <1>5 DEF f
<1> HIDE DEF d, v, p, f
<1>10. Hearing(w.r, j, next, <<>>, 0, source, big, <<>>, 0, s, 0)
  <2>1. Hearing(v, j, next, <<>>, 0, source, big, <<>>, 0, s, 0)
    BY <1>4, <1>8, HearingSame
  <2> QED BY <1>4, <1>9, <2>1
<1>11. Modestly(p \o w.out)
  <2>1. <<y>> \in Seq(Command) /\ Append(f, y) = f \o <<y>>
    BY <1>3, <1>6
  <2>2. Modestly(<<y>>)
    <3>1. DOMAIN <<y>> = {1} /\ <<y>>[1] = y
      OBVIOUS
    <3> QED BY <1>6, <3>1 DEF Modestly
  <2>3. Modestly(f \o <<y>>) /\ f \o <<y>> \in Seq(Command)
    <3>1. f \in Seq(Command) /\ Modestly(f)
      BY <1>3, <1>4
    <3>2. Modestly(f \o <<y>>)
      BY <2>1, <2>2, <3>1, ModestlyOn
    <3>3. f \o <<y>> \in Seq(Command)
      BY <2>1, <3>1
    <3> QED BY <3>2, <3>3
  <2>4. Modestly(w.out) /\ w.out \in Seq(Command)
    BY <1>3, <1>4, <1>9, <2>1, <2>3
  <2> QED BY <1>3, <1>7, <2>4, ModestlyOn
<1>12. sink'[c] = w.r /\ cmds'[c] = p \o w.out /\ evts'[c] = <<>>
  BY <1>1 DEF TypeOK, Receiver
<1>13. (\A x \in Ctl \ {c} : evts'[x] = evts[x] /\ cmds'[x] = cmds[x]) /\ \A x \in Receiver \ {c} : sink'[x] = sink[x]
  BY <1>1 DEF TypeOK, Receiver
<1>14. Hearing(sink'[c], ctl[c].joined, next, evts'[c], 0, source, ctl[Src].big, <<>>, 0, cmds[Src], 0) /\ Modestly(cmds'[c])
  BY <1>10, <1>11, <1>12 DEF j, big, s
<1> QED BY <1>1, <1>13, <1>14, OthersFlow

\* A receiver is started, or leaves.
LEMMA ReceiverCallsFlow == ASSUME TypeOK, FlowInv, NEW c \in Receiver, ReceiverStart(c) \/ Leave(c) PROVE FlowInv'
<1> DEFINE p == cmds[c]
           v == [sink[c] EXCEPT !.state = "SettingScanParameters"]
<1>1. p \in Seq(Command) /\ sink[c] \in Sinks /\ c \in Ctl
  BY DEF TypeOK, Receiver
<1>2. Hearing(sink[c], ctl[c].joined, next, evts[c], 0, source, ctl[Src].big, <<>>, 0, cmds[Src], 0)
  BY DEF FlowInv
<1>3. PICK x \in Command : /\ x.op \notin {"CreateBig", "TerminateBig", "Iso"}
                           /\ cmds' = [cmds EXCEPT ![c] = Append(@, x)] /\ UNCHANGED <<ctl, evts, next, source>>
  <2>1. Plain("ScanParameters") \in Command /\ Plain("BigTerminateSync") \in Command
    BY PlainTyped DEF Plains
  <2>2. Plain("ScanParameters").op = "ScanParameters" /\ Plain("BigTerminateSync").op = "BigTerminateSync"
    BY DEF Plain
  <2> QED BY <2>1, <2>2 DEF ReceiverStart, Leave
<1>4. sink' = sink \/ (sink' = [sink EXCEPT ![c] = v] /\ sink[c].state = "Idle")
  BY DEF ReceiverStart, Leave
<1>5. v.bis = sink[c].bis /\ v.gap = sink[c].gap /\ v.heard = sink[c].heard
  BY <1>1 DEF Sinks
<1>6. Modestly(Append(p, x))
  <2>1. <<x>> \in Seq(Command) /\ Append(p, x) = p \o <<x>>
    <3>1. x \in Command /\ p \in Seq(Command)
      BY <1>1, <1>3
    <3> HIDE DEF p
    <3> QED BY <3>1
  <2>2. Modestly(<<x>>)
    <3>1. DOMAIN <<x>> = {1} /\ <<x>>[1] = x
      OBVIOUS
    <3> QED BY <1>3, <3>1 DEF Modestly
  <2>3. Modestly(p)
    BY DEF FlowInv, Modestly
  <2> HIDE DEF p
  <2> QED BY <1>1, <2>1, <2>2, <2>3, ModestlyOn
<1> HIDE DEF v
<1>7. cmds'[c] = Append(p, x) /\ (sink'[c] = sink[c] \/ (sink'[c] = v /\ sink[c].state = "Idle"))
  BY <1>1, <1>3, <1>4 DEF TypeOK
<1>8. (\A z \in Ctl \ {c} : evts'[z] = evts[z] /\ cmds'[z] = cmds[z]) /\ \A z \in Receiver \ {c} : sink'[z] = sink[z]
  BY <1>3, <1>4 DEF TypeOK, Receiver
<1>9. Hearing(sink'[c], ctl[c].joined, next, evts[c], 0, source, ctl[Src].big, <<>>, 0, cmds[Src], 0)
  <2>1. sink[c].state = "Idle" => sink[c].state \in Deaf
    BY DEF Deaf
  <2>2. sink[c].state = "Idle" => Hearing(v, ctl[c].joined, next, evts[c], 0, source, ctl[Src].big, <<>>, 0, cmds[Src], 0)
    BY <1>2, <1>5, <2>1, HearingSame
  <2> QED BY <1>2, <1>7, <2>2
<1>10. evts'[c] = evts[c] /\ Modestly(cmds'[c])
  BY <1>3, <1>6, <1>7
<1> QED BY <1>3, <1>8, <1>9, <1>10, OthersFlow

\* At the start nothing is on its way.
LEMMA InitFlows == ASSUME Init PROVE FlowInv
<1>1. /\ ctl[Src] = Controller /\ evts[Src] = <<>> /\ cmds[Src] = <<>> /\ source = Broadcaster /\ next = 1
      /\ \A c \in Receiver : sink[c] = BigReceiver /\ ctl[c] = Controller /\ evts[c] = <<>> /\ cmds[c] = <<>>
  BY SrcIsCtl DEF Init, Receiver
<1>2. /\ Controller.big = <<>> /\ Controller.joined = <<>> /\ Broadcaster.bis = <<>>
      /\ ~BigReceiver.gap /\ BigReceiver.bis = <<>> /\ \A k \in Bis : BigReceiver.heard[k] = 0
  BY DEF Controller, Broadcaster, BigReceiver
<1>3. DOMAIN <<>> = {}
  OBVIOUS
<1>4. Asks(<<>>, 0, "CreateBig") = {} /\ Replies(<<>>, 0) = {} /\ Ends(<<>>, 0) = {}
  BY <1>3 DEF Asks, Replies, Ends
<1>5. Hosted(Broadcaster, <<>>, <<>>, {}, {}, {}, {}, {})
  BY <1>2 DEF Hosted
<1>6. Block(<<>>, 1) /\ Young(<<>>, 1) /\ YoungEvents(<<>>, 1)
  BY <1>3 DEF Block, Young, YoungEvents
<1>7. Sending(Broadcaster, <<>>, 1, <<>>, 0, <<>>, 0)
  BY <1>3, <1>6 DEF Sending
<1>8. Hearing(BigReceiver, <<>>, 1, <<>>, 0, Broadcaster, <<>>, <<>>, 0, <<>>, 0)
  <2>1. ASSUME NEW h \in Nat PROVE \E l, u \in Nat : Heeds(BigReceiver, <<>>, <<>>, 0, Broadcaster, <<>>, <<>>, 0, <<>>, 0, h, l, u)
    <3>1. DOMAIN Came(<<>>, 0, h) = {}
      BY <1>3 DEF Came
    <3>2. Steady(Came(<<>>, 0, h), 0, 0)
      BY <3>1, SteadyNone
    <3>3. Heeds(BigReceiver, <<>>, <<>>, 0, Broadcaster, <<>>, <<>>, 0, <<>>, 0, h, 0, 0)
      BY <1>2, <3>2 DEF Heeds
    <3> QED BY <3>3
  <2> QED BY <1>2, <1>6, <2>1 DEF Hearing
<1>9. ASSUME NEW c \in Receiver
      PROVE  /\ Hearing(sink[c], ctl[c].joined, next, evts[c], 0, source, ctl[Src].big, <<>>, 0, cmds[Src], 0)
             /\ ctl[c].big = <<>> /\ \A i \in DOMAIN cmds[c] : cmds[c][i].op \notin {"CreateBig", "TerminateBig", "Iso"}
  BY <1>1, <1>2, <1>3, <1>8
<1>10. Hosted(source, ctl[Src].big, evts[Src], Asks(cmds[Src], 0, "CreateBig"), {}, {}, Replies(evts[Src], 0), Ends(evts[Src], 0))
  BY <1>1, <1>2, <1>4, <1>5
<1>11. Young(source.bis, next) /\ \A i \in DOMAIN evts[Src] : Creates(evts[Src][i]) => Young(evts[Src][i].bis, next)
  BY <1>1, <1>2, <1>3, <1>6
<1>12. Sending(source, ctl[Src].big, next, <<>>, 0, cmds[Src], 0)
  BY <1>1, <1>2, <1>7
<1> QED BY <1>9, <1>10, <1>11, <1>12 DEF FlowInv

\* What holds between two steps, with the types and the agreement it rests on.
Flows == TypeOK /\ ToldInv /\ FlowInv

\* From the first SDU that a receiver hears on a stream it misses none and hears none twice,
\* whatever is joined, left, lost, stopped and started again in between.
THEOREM DeliveredTheorem == Spec => []DeliveredInOrder
<1>1. Init => Flows
  BY InitTyped, InitTold, InitFlows DEF Flows
<1>2. Flows /\ [Next]_vars => Flows'
  <2> SUFFICES ASSUME TypeOK, ToldInv, FlowInv, [Next]_vars PROVE TypeOK' /\ ToldInv' /\ FlowInv'
    BY DEF Flows
  <2>1. CASE Tick
    BY <2>1, TickTyped, TickTold, TickFlows
  <2>2. ASSUME NEW call \in Calls, SourceTurn(call) PROVE TypeOK' /\ ToldInv' /\ FlowInv'
    <3>1. UNCHANGED <<ctl, sink>> /\ \A c \in Receiver : evts'[c] = evts[c] /\ cmds'[c] = cmds[c]
      BY <2>2 DEF SourceTurn, TypeOK, Receiver
    <3> QED BY <2>2, <3>1, SourceTurnTyped, SourceTold, SourceTurnFlows
  <2>3. ASSUME NEW k \in Bis, Audio(k) PROVE TypeOK' /\ ToldInv' /\ FlowInv'
    <3>1. UNCHANGED <<ctl, sink>> /\ \A c \in Receiver : evts'[c] = evts[c] /\ cmds'[c] = cmds[c]
      BY <2>3 DEF Audio, TypeOK, Receiver
    <3> QED BY <2>3, <3>1, AudioTyped, SourceTold, AudioFlows
  <2>4. ASSUME NEW c \in Receiver, ReceiverTurn(c) \/ ReceiverStart(c) \/ Leave(c) PROVE TypeOK' /\ ToldInv' /\ FlowInv'
    <3>1. TypeOK' /\ ToldInv'
      BY <2>4, ReceiverTyped, ReceiverTurnTold, ReceiverCallsTold
    <3>2. FlowInv'
      BY <2>4, ReceiverTurnFlows, ReceiverCallsFlow
    <3> QED BY <3>1, <3>2
  <2>5. CASE UNCHANGED vars
    <3>1. TypeOK' /\ ToldInv'
      BY <2>5, SourceTold DEF vars, TypeOK
    <3>2. FlowInv'
      BY <2>5 DEF vars, FlowInv
    <3> QED BY <3>1, <3>2
  <2> QED BY <2>1, <2>2, <2>3, <2>4, <2>5 DEF Next
<1>3. Flows => DeliveredInOrder
  BY DEF Flows, FlowInv, Hearing, DeliveredInOrder
<1> QED BY <1>1, <1>2, <1>3, PTL DEF Spec

================================================================================
