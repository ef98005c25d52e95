---------------------------- MODULE RfcommDlcProofs ----------------------------
(***************************************************************************)
(* Credit conservation of an RFCOMM connection, for every MTU from two,    *)
(* and that it implements a byte stream in each direction, for every MTU;  *)
(* both for every credit limit and low-water mark, and any amount of data. *)
(***************************************************************************)
EXTENDS RfcommDlc, Subsequences, FunctionTheorems, FiniteSetTheorems, SequenceTheorems, TLAPS

--------------------------------------------------------------------------------
(* Facts about the sum of a sequence. *)

\* The cells under a sequence of naturals are the pairs that fit under it.
LEMMA CellsMember ==
  ASSUME NEW h \in Seq(Nat)
  PROVE  \A p : p \in Cells(h) <=> \E i \in 1..Len(h), k \in Nat : k \in 1..h[i] /\ p = <<i, k>>
BY DEF Cells

\* The size of an interval, and that of a product with a singleton.
LEMMA IntervalSize ==
  ASSUME NEW n \in Nat
  PROVE  IsFiniteSet(1..n) /\ Cardinality(1..n) = n
<1>1. 1 \in Int /\ n \in Int
  OBVIOUS
<1>2. IsFiniteSet(1..n) /\ Cardinality(1..n) = IF 1 > n THEN 0 ELSE n - 1 + 1
  BY <1>1, FS_Interval, Zenon
<1> QED BY <1>2

LEMMA ColumnSize ==
  ASSUME NEW x, NEW n \in Nat
  PROVE  /\ IsFiniteSet({x} \X (1..n))
         /\ Cardinality({x} \X (1..n)) = n
         /\ Cardinality((1..n) \X {x}) = n
<1>1. IsFiniteSet({x}) /\ Cardinality({x}) = 1
  BY FS_Singleton
<1>2. IsFiniteSet(1..n) /\ Cardinality(1..n) = n
  BY IntervalSize
<1>3. IsFiniteSet({x} \X (1..n)) /\ Cardinality({x} \X (1..n)) = Cardinality({x}) * Cardinality(1..n)
  BY <1>1, <1>2, FS_Product, Zenon
<1>4. Cardinality((1..n) \X {x}) = Cardinality(1..n) * Cardinality({x})
  BY <1>1, <1>2, FS_Product, Zenon
<1> QED BY <1>1, <1>2, <1>3, <1>4

\* The size of a disjoint union.
LEMMA DisjointSize ==
  ASSUME NEW S, IsFiniteSet(S), NEW T, IsFiniteSet(T), S \cap T = {}
  PROVE  Cardinality(S \cup T) = Cardinality(S) + Cardinality(T)
<1>1. Cardinality(S \cup T) = Cardinality(S) + Cardinality(T) - Cardinality(S \cap T)
  BY FS_Union, Zenon
<1>2. Cardinality(S \cap T) = 0
  BY FS_EmptySet
<1>3. Cardinality(S) \in Nat /\ Cardinality(T) \in Nat
  BY FS_CardinalityType
<1> QED BY <1>1, <1>2, <1>3

\* A sequence of naturals has finitely many cells, so its sum is a natural.
LEMMA TotalFinite ==
  ASSUME NEW h \in Seq(Nat)
  PROVE  IsFiniteSet(Cells(h)) /\ Total(h) \in Nat
<1> DEFINE Columns == {{i} \X (1..h[i]) : i \in 1..Len(h)}
           column == [i \in 1..Len(h) |-> {i} \X (1..h[i])]
<1>1. IsFiniteSet(Columns)
  <2>1. column \in Surjection(1..Len(h), Columns)
    BY Fun_IsSurj
  <2>2. IsFiniteSet(1..Len(h))
    BY IntervalSize
  <2> HIDE DEF column, Columns
  <2> QED BY <2>1, <2>2, FS_Surjection
<1>2. \A T \in Columns : IsFiniteSet(T)
  <2> SUFFICES ASSUME NEW i \in 1..Len(h) PROVE IsFiniteSet({i} \X (1..h[i]))
    BY Zenon
  <2>1. h[i] \in Nat
    OBVIOUS
  <2> QED BY <2>1, ColumnSize
<1>3. IsFiniteSet(UNION Columns)
  BY <1>1, <1>2, FS_UNION, Zenon
<1> QED BY <1>3, FS_CardinalityType DEF Total, Cells

\* The sum of a concatenation is the sum of the sums.
LEMMA TotalConcat ==
  ASSUME NEW h \in Seq(Nat), NEW g \in Seq(Nat)
  PROVE  Total(h \o g) = Total(h) + Total(g)
<1> DEFINE Moved == {<<p[1] + Len(h), p[2]>> : p \in Cells(g)}
           shift == [p \in Cells(g) |-> <<p[1] + Len(h), p[2]>>]
<1>0. /\ h \o g \in Seq(Nat)
      /\ Len(h \o g) = Len(h) + Len(g)
      /\ Len(h) \in Nat /\ Len(g) \in Nat
      /\ \A i \in 1..Len(h) : (h \o g)[i] = h[i]
      /\ \A i \in 1..Len(g) : (h \o g)[i + Len(h)] = g[i]
  OBVIOUS
<1>1. Cells(h \o g) = Cells(h) \cup Moved
  <2>1. ASSUME NEW p \in Cells(h \o g) PROVE p \in Cells(h) \cup Moved
    <3> DEFINE hg == h \o g
    <3>0. \E i \in 1..Len(hg), k \in Nat : k \in 1..hg[i] /\ p = <<i, k>>
      <4>1. hg \in Seq(Nat) /\ p \in Cells(hg)
        BY <1>0, <2>1
      <4> HIDE DEF hg
      <4> QED BY <4>1, CellsMember
    <3>1. PICK i \in 1..Len(h \o g), k \in Nat : k \in 1..(h \o g)[i] /\ p = <<i, k>>
      BY <3>0
    <3>2. CASE i <= Len(h)
      BY <3>1, <3>2, <1>0, CellsMember
    <3>3. CASE i > Len(h)
      <4>1. i - Len(h) \in 1..Len(g) /\ k \in 1..g[i - Len(h)]
        BY <3>1, <3>3, <1>0
      <4>2. <<i - Len(h), k>> \in Cells(g)
        BY <4>1, CellsMember
      <4>3. p = <<<<i - Len(h), k>>[1] + Len(h), <<i - Len(h), k>>[2]>>
        BY <3>1, <1>0
      <4> QED BY <4>2, <4>3, Zenon
    <3> QED BY <3>2, <3>3
  <2>2. ASSUME NEW p \in Cells(h) PROVE p \in Cells(h \o g)
    <3>1. PICK i \in 1..Len(h), k \in Nat : k \in 1..h[i] /\ p = <<i, k>>
      BY CellsMember
    <3>2. i \in 1..Len(h \o g) /\ k \in 1..(h \o g)[i]
      BY <3>1, <1>0
    <3> QED BY <3>1, <3>2, <1>0, CellsMember
  <2>3. ASSUME NEW q \in Cells(g) PROVE <<q[1] + Len(h), q[2]>> \in Cells(h \o g)
    <3>1. PICK i \in 1..Len(g), k \in Nat : k \in 1..g[i] /\ q = <<i, k>>
      BY CellsMember
    <3>2. i + Len(h) \in 1..Len(h \o g) /\ k \in 1..(h \o g)[i + Len(h)]
      BY <3>1, <1>0
    <3> QED BY <3>1, <3>2, <1>0, CellsMember
  <2> QED BY <2>1, <2>2, <2>3
<1>2. Cells(h) \cap Moved = {}
  <2> SUFFICES ASSUME NEW q \in Cells(g), <<q[1] + Len(h), q[2]>> \in Cells(h) PROVE FALSE
    OBVIOUS
  <2>1. PICK i \in 1..Len(g), k \in Nat : q = <<i, k>>
    BY CellsMember
  <2>2. PICK j \in 1..Len(h), l \in Nat : <<q[1] + Len(h), q[2]>> = <<j, l>>
    BY CellsMember
  <2> QED BY <2>1, <2>2
<1>3. IsFiniteSet(Cells(g)) /\ IsFiniteSet(Cells(h)) /\ Total(g) \in Nat /\ Total(h) \in Nat
  BY TotalFinite
<1>4. IsFiniteSet(Moved) /\ Cardinality(Moved) = Total(g)
  <2>1. shift \in Bijection(Cells(g), Moved)
    <3>1. shift \in [Cells(g) -> Moved]
      OBVIOUS
    <3>2. ASSUME NEW p \in Cells(g), NEW q \in Cells(g), shift[p] = shift[q] PROVE p = q
      <4>1. PICK i \in 1..Len(g), k \in Nat : p = <<i, k>>
        BY CellsMember
      <4>2. PICK j \in 1..Len(g), l \in Nat : q = <<j, l>>
        BY CellsMember
      <4>3. <<i + Len(h), k>> = <<j + Len(h), l>>
        BY <3>2, <4>1, <4>2
      <4> QED BY <4>1, <4>2, <4>3
    <3>3. \A t \in Moved : \E p \in Cells(g) : shift[p] = t
      OBVIOUS
    <3> QED BY <3>1, <3>2, <3>3, Fun_IsBij
  <2> QED BY <2>1, <1>3, FS_Bijection DEF ExistsBijection, Total
<1>5. Cardinality(Cells(h) \cup Moved) = Cardinality(Cells(h)) + Cardinality(Moved)
  BY <1>2, <1>3, <1>4, DisjointSize, Zenon
<1> QED BY <1>1, <1>3, <1>4, <1>5 DEF Total

\* The sum of a sequence of zeros, the empty one among them, is zero.
LEMMA TotalZero ==
  ASSUME NEW h \in Seq(Nat), \A i \in 1..Len(h) : h[i] = 0
  PROVE  Total(h) = 0
<1>1. Cells(h) = {}
  BY CellsMember
<1> QED BY <1>1, FS_EmptySet DEF Total

\* The sum of a sequence of one number is that number.
LEMMA TotalSingle ==
  ASSUME NEW n \in Nat
  PROVE  Total(<<n>>) = n
<1>1. Cells(<<n>>) = {1} \X (1..n)
  BY DEF Cells
<1>2. Cardinality({1} \X (1..n)) = n
  BY ColumnSize
<1> QED BY <1>1, <1>2 DEF Total

\* The sum of n ones is n.
LEMMA TotalOnes ==
  ASSUME NEW h \in Seq(Nat), \A i \in 1..Len(h) : h[i] = 1
  PROVE  Total(h) = Len(h)
<1>1. Cells(h) = (1..Len(h)) \X {1}
  <2>1. \A i \in 1..Len(h) : 1..h[i] = {1}
    OBVIOUS
  <2> QED BY <2>1 DEF Cells
<1>2. Cardinality((1..Len(h)) \X {1}) = Len(h)
  <2>1. Len(h) \in Nat
    OBVIOUS
  <2> QED BY <2>1, ColumnSize
<1> QED BY <1>1, <1>2 DEF Total

--------------------------------------------------------------------------------
(* Facts about frames. *)

\* The credits and the loads of frames are numbers, and follow the frames.
LEMMA FrameCounts ==
  ASSUME NEW s \in Seq(Frame)
  PROVE  Credits(s) \in Seq(Nat) /\ Loads(s) \in Seq(Nat)
<1>1. \A i \in 1..Len(s) : s[i].credits \in Nat
  <2>1. 0..MaxCredits \subseteq Nat
    BY CreditAssumption DEF U8Max
  <2>2. \A f \in Frame : f.credits \in 0..MaxCredits
    BY DEF Frame
  <2>3. \A i \in 1..Len(s) : s[i] \in Frame
    OBVIOUS
  <2> QED BY <2>1, <2>2, <2>3
<1> QED BY <1>1 DEF Credits, Loads

\* A sequence with the elements of a concatenation is the concatenation.
LEMMA ConcatByElements ==
  ASSUME NEW a \in Seq(Nat), NEW b \in Seq(Nat), NEW c \in Seq(Nat),
         Len(c) = Len(a) + Len(b),
         \A i \in 1..(Len(a) + Len(b)) : c[i] = (a \o b)[i]
  PROVE  c = a \o b
<1>1. a \o b \in Seq(Nat) /\ Len(a \o b) = Len(a) + Len(b)
  OBVIOUS
<1> QED BY <1>1, SeqEqual

\* What is left of a sequence is one.
LEMMA RestIsSeq ==
  ASSUME NEW a \in Seq(Nat), NEW k \in Nat
  PROVE  SubSeq(a, k + 1, Len(a)) \in Seq(Nat)
OBVIOUS

LEMMA FramesConcat ==
  ASSUME NEW s \in Seq(Frame), NEW u \in Seq(Frame)
  PROVE  /\ Credits(s \o u) = Credits(s) \o Credits(u)
         /\ Loads(s \o u) = Loads(s) \o Loads(u)
<1>1. /\ s \o u \in Seq(Frame)
      /\ Len(s \o u) = Len(s) + Len(u)
      /\ \A i \in 1..(Len(s) + Len(u)) : (s \o u)[i] = IF i <= Len(s) THEN s[i] ELSE u[i - Len(s)]
  OBVIOUS
<1>2. Len(Credits(s)) = Len(s) /\ Len(Credits(u)) = Len(u) /\ Len(Credits(s \o u)) = Len(s \o u)
  BY DEF Credits
<1>3. Len(Loads(s)) = Len(s) /\ Len(Loads(u)) = Len(u) /\ Len(Loads(s \o u)) = Len(s \o u)
  BY DEF Loads
<1>4. Credits(s \o u) = Credits(s) \o Credits(u)
  <2>1. \A i \in 1..(Len(s) + Len(u)) :
          Credits(s \o u)[i] = (Credits(s) \o Credits(u))[i]
    BY <1>1, <1>2, FrameCounts DEF Credits
  <2> QED BY <2>1, <1>1, <1>2, FrameCounts, ConcatByElements
<1>5. Loads(s \o u) = Loads(s) \o Loads(u)
  <2>1. \A i \in 1..(Len(s) + Len(u)) :
          Loads(s \o u)[i] = (Loads(s) \o Loads(u))[i]
    BY <1>1, <1>3, FrameCounts DEF Loads
  <2> QED BY <2>1, <1>1, <1>3, FrameCounts, ConcatByElements
<1> QED BY <1>4, <1>5

\* What is under way after more frames are sent.
LEMMA UnderWaySum ==
  ASSUME NEW s \in Seq(Frame), NEW u \in Seq(Frame)
  PROVE  /\ Total(Credits(s \o u)) = Total(Credits(s)) + Total(Credits(u))
         /\ Total(Loads(s \o u)) = Total(Loads(s)) + Total(Loads(u))
         /\ Total(Credits(s)) \in Nat /\ Total(Loads(s)) \in Nat
         /\ Total(Credits(u)) \in Nat /\ Total(Loads(u)) \in Nat
<1>1. /\ Credits(s) \in Seq(Nat) /\ Loads(s) \in Seq(Nat)
      /\ Credits(u) \in Seq(Nat) /\ Loads(u) \in Seq(Nat)
  BY FrameCounts
<1>2. /\ Total(Credits(s) \o Credits(u)) = Total(Credits(s)) + Total(Credits(u))
      /\ Total(Loads(s) \o Loads(u)) = Total(Loads(s)) + Total(Loads(u))
  BY <1>1, TotalConcat
<1> QED BY <1>1, <1>2, FramesConcat, TotalFinite

\* What one frame, and no frame, carry.
LEMMA OneFrame ==
  ASSUME NEW f \in Frame
  PROVE  /\ Total(Credits(<<f>>)) = f.credits
         /\ Total(Loads(<<f>>)) = IF f.data = <<>> THEN 0 ELSE 1
<1>1. f.credits \in Nat
  BY CreditAssumption DEF Frame, U8Max
<1>2. Credits(<<f>>) = <<f.credits>>
  BY DEF Credits
<1>3. Loads(<<f>>) = <<IF f.data = <<>> THEN 0 ELSE 1>>
  BY DEF Loads
<1> QED BY <1>1, <1>2, <1>3, TotalSingle

LEMMA NoFrame == Total(Credits(<<>>)) = 0 /\ Total(Loads(<<>>)) = 0
<1>1. Credits(<<>>) = <<>> /\ Loads(<<>>) = <<>>
  BY DEF Credits, Loads
<1>2. \A h \in Seq(Nat) : Len(h) = 0 => Total(h) = 0
  <2> SUFFICES ASSUME NEW h \in Seq(Nat), Len(h) = 0 PROVE Total(h) = 0
    OBVIOUS
  <2>1. \A i \in 1..Len(h) : h[i] = 0
    OBVIOUS
  <2> QED BY <2>1, TotalZero
<1>3. <<>> \in Seq(Nat) /\ Len(<<>>) = 0
  OBVIOUS
<1> QED BY <1>1, <1>2, <1>3

\* Rounding up: with n the number of frames of m bytes for k bytes, every frame has
\* a first byte.
LEMMA RoundingUp ==
  ASSUME NEW k \in Nat, NEW m \in Nat \ {0}
  PROVE  /\ (k + m - 1) \div m \in Nat
         /\ \A i \in 1..((k + m - 1) \div m) : (i - 1) * m < k /\ i * m = (i - 1) * m + m
<1> DEFINE c == (k + m - 1) \div m
<1>1. c \in Nat /\ (c = 0 \/ (c - 1) * m < k)
  OBVIOUS
<1>2. ASSUME NEW i \in 1..c PROVE (i - 1) * m < k /\ i * m = (i - 1) * m + m
  <2> HIDE DEF c
  <2>1. i - 1 \in Int /\ c - 1 \in Int /\ i - 1 <= c - 1
    BY <1>1
  <2>2. \A x, y \in Int : x <= y => x * m <= y * m
    OBVIOUS
  <2>3. (i - 1) * m <= (c - 1) * m
    BY <2>1, <2>2
  <2> QED BY <1>1, <2>3
<1> QED BY <1>1, <1>2

\* process_tx without a refill: every frame carries data and no credits.
LEMMA ChunkFacts ==
  ASSUME NEW b \in Seq(Nat), NEW t \in Nat
  PROVE  /\ Count(b, t) \in 0..t
         /\ Chunks(b, Count(b, t)) \in Seq(Frame)
         /\ Total(Credits(Chunks(b, Count(b, t)))) = 0
         /\ Total(Loads(Chunks(b, Count(b, t)))) = Count(b, t)
<1> DEFINE n == Count(b, t)
           c == Chunks(b, n)
<1>0. Mtu \in Nat \ {0} /\ MaxCredits \in Nat /\ Len(b) \in Nat
  BY CreditAssumption DEF U8Max
<1>1. n \in 0..t /\ n <= (Len(b) + Mtu - 1) \div Mtu
  BY <1>0, RoundingUp DEF Count, Least
<1>2. \A i \in 1..n : (i - 1) * Mtu \in Nat /\ (i - 1) * Mtu < Len(b) /\ i * Mtu = (i - 1) * Mtu + Mtu
  <2> SUFFICES ASSUME NEW i \in 1..n
               PROVE (i - 1) * Mtu \in Nat /\ (i - 1) * Mtu < Len(b) /\ i * Mtu = (i - 1) * Mtu + Mtu
    OBVIOUS
  <2>1. i \in 1..((Len(b) + Mtu - 1) \div Mtu)
    BY <1>0, <1>1, RoundingUp
  <2>2. (i - 1) * Mtu < Len(b) /\ i * Mtu = (i - 1) * Mtu + Mtu
    BY <1>0, <2>1, RoundingUp
  <2>3. i - 1 \in Nat
    BY <1>1
  <2>4. (i - 1) * Mtu \in Nat
    BY <2>3, <1>0
  <2> QED BY <2>2, <2>4
<1>3. ASSUME NEW i \in 1..n
      PROVE  /\ SubSeq(b, (i - 1) * Mtu + 1, Least(i * Mtu, Len(b))) \in Seq(Nat)
             /\ SubSeq(b, (i - 1) * Mtu + 1, Least(i * Mtu, Len(b))) # <<>>
  <2> DEFINE x == (i - 1) * Mtu
             y == Least(i * Mtu, Len(b))
  <2>1. x + 1 \in 1..Len(b) /\ y \in (x + 1)..Len(b)
    BY <1>0, <1>2 DEF Least
  <2> HIDE DEF x, y
  <2>2. SubSeq(b, x + 1, y) \in Seq(Nat) /\ Len(SubSeq(b, x + 1, y)) = y - (x + 1) + 1
    BY <2>1
  <2>3. Len(SubSeq(b, x + 1, y)) # 0
    BY <2>1, <2>2
  <2>4. SubSeq(b, x + 1, y) # <<>>
    <3>1. Len(<<>>) = 0
      OBVIOUS
    <3> QED BY <3>1, <2>3, Zenon
  <2> QED BY <2>2, <2>4 DEF x, y
<1>4. c \in Seq(Frame) /\ Len(c) = n
  <2> HIDE DEF n
  <2>1. c \in [1..n -> Frame]
    BY <1>0, <1>3 DEF Chunks, Frame
  <2> QED BY <1>1, <2>1
<1>5. \A i \in 1..n : c[i].credits = 0 /\ c[i].data # <<>>
  BY <1>3 DEF Chunks
<1>6. Total(Credits(c)) = 0
  <2> HIDE DEF c, n
  <2>1. Credits(c) \in Seq(Nat) /\ Len(Credits(c)) = n /\ \A i \in 1..Len(Credits(c)) : Credits(c)[i] = 0
    BY <1>4, <1>5, <1>1, FrameCounts DEF Credits
  <2> QED BY <2>1, TotalZero
<1>7. Total(Loads(c)) = n
  <2> HIDE DEF c, n
  <2>1. Loads(c) \in Seq(Nat) /\ Len(Loads(c)) = n /\ \A i \in 1..Len(Loads(c)) : Loads(c)[i] = 1
    BY <1>4, <1>5, <1>1, FrameCounts DEF Loads
  <2> QED BY <2>1, TotalOnes
<1> QED BY <1>1, <1>4, <1>6, <1>7

\* The refill carries what the grant grows by, and pays for data if it has any.
LEMMA RefillFacts ==
  ASSUME Mtu # 1,
         NEW b \in Seq(Nat), NEW t \in Nat, NEW r \in 0..MaxCredits
  PROVE  /\ Refill(b, t, r) \in Seq(Frame)
         /\ Total(Credits(Refill(b, t, r))) = CreditsNeeded(r)
         /\ LeftOf(b, t, r) \in 0..t
         /\ Total(Loads(Refill(b, t, r))) = t - LeftOf(b, t, r)
         /\ RestOf(b, t, r) \in Seq(Nat)
         /\ CreditsNeeded(r) \in Nat
         /\ r + CreditsNeeded(r) \in 0..MaxCredits
<1>0. Mtu \in Nat /\ Mtu >= 2 /\ MaxCredits \in Nat /\ Threshold \in Nat /\ Len(b) \in Nat
  BY CreditAssumption DEF U8Max
<1>1. CreditsNeeded(r) \in 0..MaxCredits /\ r + CreditsNeeded(r) \in 0..MaxCredits
  BY <1>0 DEF CreditsNeeded
<1>2. RefillTake(b, t) \in 0..Len(b) /\ (RefillTake(b, t) = 0 <=> ~RidesAlong(b, t))
  <2>1. b # <<>> <=> Len(b) >= 1
    BY <1>0
  <2> QED BY <1>0, <2>1 DEF RefillTake, RidesAlong, Least
<1>3. SubSeq(b, 1, RefillTake(b, t)) \in Seq(Nat) /\ Len(SubSeq(b, 1, RefillTake(b, t))) = RefillTake(b, t)
  BY <1>0, <1>2
<1>4. SubSeq(b, RefillTake(b, t) + 1, Len(b)) \in Seq(Nat)
  BY <1>0, <1>2
<1>5. SubSeq(b, 1, RefillTake(b, t)) = <<>> <=> ~RidesAlong(b, t)
  BY <1>2, <1>3
<1>6. LeftOf(b, t, r) \in 0..t
  BY DEF LeftOf, RidesAlong
<1>7. CASE CreditsNeeded(r) = 0
  <2>1. Refill(b, t, r) = <<>> /\ LeftOf(b, t, r) = t /\ RestOf(b, t, r) = b
    BY <1>7 DEF Refill, LeftOf, RestOf
  <2> QED BY <2>1, <1>1, <1>7, NoFrame
<1>8. CASE CreditsNeeded(r) # 0
  <2> DEFINE f == [credits |-> CreditsNeeded(r), data |-> SubSeq(b, 1, RefillTake(b, t))]
  <2>1. f \in Frame /\ f.credits = CreditsNeeded(r) /\ (f.data = <<>> <=> ~RidesAlong(b, t))
    BY <1>1, <1>3, <1>5 DEF Frame
  <2>2. Refill(b, t, r) = <<f>> /\ RestOf(b, t, r) \in Seq(Nat)
    BY <1>8, <1>4 DEF Refill, RestOf
  <2>3. LeftOf(b, t, r) = IF RidesAlong(b, t) THEN t - 1 ELSE t
    BY <1>8 DEF LeftOf
  <2> HIDE DEF f
  <2>4. /\ Total(Credits(<<f>>)) = CreditsNeeded(r)
        /\ Total(Loads(<<f>>)) = IF RidesAlong(b, t) THEN 1 ELSE 0
    BY <2>1, OneFrame
  <2>5. <<f>> \in Seq(Frame)
    BY <2>1
  <2> QED BY <2>2, <2>3, <2>4, <2>5, <1>1, <1>6
<1> QED BY <1>7, <1>8

--------------------------------------------------------------------------------
(* The invariant. *)

\* Types, with the credits an end has granted within the limit, and conservation.
Inv == TypeOK /\ CreditsConserved

\* The conservation law between the granter e and the other end, of given accounts.
Balanced(granted, held, toGranter, fromGranter) ==
  granted = held + Total(Loads(toGranter)) + Total(Credits(fromGranter))

\* process_tx keeps the accounts balanced: it moves credits from the sender's account
\* to frames with data, and grants what the credit octet carries.
LEMMA ProcessTxBalance ==
  ASSUME Mtu # 1,
         NEW e \in End, NEW w \in [End -> Seq(Frame)], NEW b \in Seq(Nat),
         NEW t \in 0..U8Max, NEW r \in 0..MaxCredits,
         TypeOK, rx[Other(e)] <= MaxCredits,
         Balanced(r, tx[Other(e)], w[Other(e)], w[e]),
         Balanced(rx[Other(e)], t, w[e], w[Other(e)]),
         ProcessTx(e, w, b, t, r)
  PROVE  /\ wire' \in [End -> Seq(Frame)] /\ buf' \in [End -> Seq(Nat)]
         /\ tx' \in [End -> 0..U8Max] /\ rx' \in [End -> 0..U8Max]
         /\ CreditsConserved'
<1> DEFINE o == Other(e)
           rest == RestOf(b, t, r)
           left == LeftOf(b, t, r)
           n == Count(rest, left)
           sent == Refill(b, t, r) \o Chunks(rest, n)
<1>0. MaxCredits \in 1..U8Max /\ U8Max \in Nat /\ Mtu \in Nat
  BY CreditAssumption DEF U8Max
<1>1. e \in End /\ o \in End /\ o # e /\ Other(o) = e /\ \A x \in End : x = e \/ x = o
  BY DEF Other, End
<1>2. /\ Refill(b, t, r) \in Seq(Frame)
      /\ Total(Credits(Refill(b, t, r))) = CreditsNeeded(r)
      /\ left \in 0..t
      /\ Total(Loads(Refill(b, t, r))) = t - left
      /\ rest \in Seq(Nat)
      /\ CreditsNeeded(r) \in Nat
      /\ r + CreditsNeeded(r) \in 0..MaxCredits
  <2>1. t \in Nat
    BY <1>0
  <2> QED BY <2>1, RefillFacts
<1>3. /\ n \in 0..left
      /\ Chunks(rest, n) \in Seq(Frame)
      /\ Total(Credits(Chunks(rest, n))) = 0
      /\ Total(Loads(Chunks(rest, n))) = n
  <2>1. left \in Nat
    BY <1>0, <1>2
  <2> HIDE DEF rest, left
  <2> QED BY <1>2, <2>1, ChunkFacts
<1>4. SubSeq(rest, n * Mtu + 1, Len(rest)) \in Seq(Nat)
  <2> HIDE DEF rest, left, n
  <2>1. n \in Nat /\ n * Mtu \in Nat
    BY <1>0, <1>2, <1>3
  <2>2. \A k \in Nat : SubSeq(rest, k + 1, Len(rest)) \in Seq(Nat)
    BY <1>2, RestIsSeq
  <2> QED BY <2>1, <2>2
<1>5. /\ wire' = [w EXCEPT ![e] = @ \o sent]
      /\ buf' = [buf EXCEPT ![e] = SubSeq(rest, n * Mtu + 1, Len(rest))]
      /\ tx' = [tx EXCEPT ![e] = left - n]
      /\ rx' = [rx EXCEPT ![e] = r + CreditsNeeded(r)]
  BY DEF ProcessTx
<1> HIDE DEF rest, left, n, o
<1>6. w[e] \in Seq(Frame) /\ w[e] \o sent \in Seq(Frame) /\ sent \in Seq(Frame)
  <2>1. w[e] \in Seq(Frame)
    BY <1>1
  <2>2. sent \in Seq(Frame)
    BY <1>2, <1>3
  <2> QED BY <2>1, <2>2
<1>7. Total(Credits(sent)) = CreditsNeeded(r) /\ Total(Loads(sent)) = t - (left - n)
  <2>1. /\ Total(Credits(sent)) = CreditsNeeded(r) + 0
        /\ Total(Loads(sent)) = (t - left) + n
    BY <1>2, <1>3, UnderWaySum
  <2> QED BY <2>1, <1>0, <1>2, <1>3
<1> HIDE DEF sent
<1>8. /\ wire' \in [End -> Seq(Frame)] /\ wire'[e] = w[e] \o sent /\ wire'[o] = w[o]
      /\ w[e] \in Seq(Frame) /\ w[o] \in Seq(Frame)
  BY <1>1, <1>5, <1>6
<1>9. buf' \in [End -> Seq(Nat)]
  BY <1>1, <1>4, <1>5 DEF TypeOK
<1>10. tx' \in [End -> 0..U8Max] /\ tx'[e] = left - n /\ tx'[o] = tx[o]
  <2>1. left - n \in 0..U8Max
    BY <1>0, <1>2, <1>3
  <2> QED BY <1>1, <1>5, <2>1 DEF TypeOK
<1>11. rx' \in [End -> 0..U8Max] /\ rx'[e] = r + CreditsNeeded(r) /\ rx'[o] = rx[o]
  <2>1. r + CreditsNeeded(r) \in 0..U8Max
    BY <1>0, <1>2
  <2> QED BY <1>1, <1>5, <2>1 DEF TypeOK
<1>12. /\ Total(Credits(wire'[e])) = Total(Credits(w[e])) + CreditsNeeded(r)
       /\ Total(Loads(wire'[e])) = Total(Loads(w[e])) + (t - (left - n))
       /\ Total(Credits(w[e])) \in Nat /\ Total(Loads(w[e])) \in Nat
       /\ Total(Credits(w[o])) \in Nat /\ Total(Loads(w[o])) \in Nat
  BY <1>6, <1>7, <1>8, UnderWaySum
<1>13. /\ r = tx[o] + Total(Loads(w[o])) + Total(Credits(w[e]))
       /\ rx[o] = t + Total(Loads(w[e])) + Total(Credits(w[o]))
       /\ rx[o] <= MaxCredits
  BY DEF Balanced, o
<1>14. tx[o] \in Nat /\ t \in Nat /\ left - n \in Nat /\ r \in Nat /\ rx[o] \in Nat
  BY <1>0, <1>1, <1>2, <1>3 DEF TypeOK
<1>15. rx'[e] = tx'[o] + Total(Loads(wire'[o])) + Total(Credits(wire'[e])) /\ rx'[e] <= MaxCredits
  <2>1. r + CreditsNeeded(r) = tx[o] + Total(Loads(w[o])) + (Total(Credits(w[e])) + CreditsNeeded(r))
    <3> DEFINE loads == Total(Loads(w[o]))
               under == Total(Credits(w[e]))
               need == CreditsNeeded(r)
    <3>1. r = tx[o] + loads + under /\ tx[o] \in Nat /\ loads \in Nat /\ under \in Nat /\ need \in Nat
      BY <1>2, <1>12, <1>13, <1>14
    <3> HIDE DEF loads, under, need
    <3>2. r + need = tx[o] + loads + (under + need)
      BY <3>1
    <3> QED BY <3>2 DEF loads, under, need
  <2>2. Total(Loads(wire'[o])) = Total(Loads(w[o]))
    BY <1>8
  <2>3. rx'[e] <= MaxCredits
    BY <1>0, <1>2, <1>11
  <2> QED BY <2>1, <2>2, <2>3, <1>10, <1>11, <1>12
<1>16. rx'[o] = tx'[e] + Total(Loads(wire'[e])) + Total(Credits(wire'[o])) /\ rx'[o] <= MaxCredits
  <2>1. rx[o] = (left - n) + (Total(Loads(w[e])) + (t - (left - n))) + Total(Credits(w[o]))
    BY <1>12, <1>13, <1>14
  <2>2. Total(Credits(wire'[o])) = Total(Credits(w[o]))
    BY <1>8
  <2> QED BY <2>1, <2>2, <1>10, <1>11, <1>12, <1>13
<1>17. CreditsConserved'
  BY <1>1, <1>15, <1>16 DEF CreditsConserved, o
<1> QED BY <1>8, <1>9, <1>10, <1>11, <1>17

LEMMA InitInv == Init => Inv
<1> SUFFICES ASSUME Init PROVE Inv
  OBVIOUS
<1>1. Initial \in [End -> 0..MaxCredits] /\ Initial \in [End -> 0..U8Max] /\ MaxCredits \in Nat
  BY CreditAssumption DEF U8Max
<1>2. \A e \in End : Other(e) \in End /\ Other(Other(e)) = e
  BY DEF End, Other
<1>3. TypeOK
  BY <1>1, <1>2 DEF Init, TypeOK
<1>4. CreditsConserved
  <2> SUFFICES ASSUME NEW e \in End
               PROVE  /\ rx[e] = tx[Other(e)] + Total(Loads(wire[Other(e)])) + Total(Credits(wire[e]))
                      /\ rx[e] <= MaxCredits
    BY DEF CreditsConserved
  <2>1. wire[e] = <<>> /\ wire[Other(e)] = <<>> /\ rx[e] = Initial[e] /\ tx[Other(e)] = Initial[e]
    BY <1>2 DEF Init
  <2>2. Initial[e] \in 0..MaxCredits
    BY <1>1
  <2> QED BY <2>1, <2>2, <1>1, NoFrame
<1> QED BY <1>3, <1>4 DEF Inv

LEMMA NextInv == ASSUME Mtu # 1, Inv, [Next]_vars PROVE Inv'
<1>0. /\ MaxCredits \in 1..U8Max /\ U8Max \in Nat
      /\ \A e \in End : Other(e) \in End /\ Other(Other(e)) = e /\ Other(e) # e
  BY CreditAssumption DEF U8Max, End, Other
<1>1. /\ buf \in [End -> Seq(Nat)] /\ tx \in [End -> 0..U8Max] /\ rx \in [End -> 0..U8Max]
      /\ wire \in [End -> Seq(Frame)] /\ written \in [End -> Nat] /\ got \in [End -> Seq(Nat)]
      /\ TypeOK
  BY DEF Inv, TypeOK
<1>2. \A e \in End : Balanced(rx[e], tx[Other(e)], wire[Other(e)], wire[e]) /\ rx[e] <= MaxCredits
  BY DEF Inv, CreditsConserved, Balanced
<1>3. ASSUME NEW e \in End, NEW k \in 0..MaxWrite, Write(e, k) PROVE Inv'
  <2> DEFINE b == buf[e] \o [i \in 1..k |-> written[e] + i]
  <2>1. k \in Nat /\ written[e] \in Nat
    BY <1>1, CreditAssumption
  <2>2. b \in Seq(Nat)
    <3>1. [i \in 1..k |-> written[e] + i] \in Seq(Nat)
      BY <2>1
    <3> QED BY <3>1, <1>1
  <2>3. written' \in [End -> Nat] /\ got' \in [End -> Seq(Nat)]
    BY <1>1, <1>3, <2>1 DEF Write
  <2>4. ProcessTx(e, wire, b, tx[e], rx[e])
    BY <1>3 DEF Write
  <2>5. /\ tx[e] \in 0..U8Max /\ rx[e] \in 0..MaxCredits
        /\ Balanced(rx[e], tx[Other(e)], wire[Other(e)], wire[e])
        /\ Balanced(rx[Other(e)], tx[e], wire[e], wire[Other(e)])
        /\ rx[Other(e)] <= MaxCredits
    BY <1>0, <1>1, <1>2
  <2> HIDE DEF b
  <2> QED BY <1>1, <2>2, <2>3, <2>4, <2>5, ProcessTxBalance DEF Inv, TypeOK
<1>4. ASSUME NEW e \in End, OnDlcUih(e) PROVE Inv'
  <2> DEFINE o == Other(e)
             f == Head(wire[o])
             w == [wire EXCEPT ![o] = Tail(@)]
             t == Topped(e, f)
             r == Spent(e, f)
  <2>0. o \in End /\ o # e /\ Other(o) = e
    BY <1>0
  <2>1. wire[o] \in Seq(Frame) /\ wire[o] # <<>>
    BY <1>1, <1>4, <2>0 DEF OnDlcUih
  <2>2. f \in Frame /\ Tail(wire[o]) \in Seq(Frame) /\ <<f>> \in Seq(Frame) /\ wire[o] = <<f>> \o Tail(wire[o])
    BY <2>1
  <2>3. got' = [got EXCEPT ![e] = @ \o f.data] /\ written' = written /\ ProcessTx(e, w, buf[e], t, r)
    BY <1>4 DEF OnDlcUih
  <2> HIDE DEF f
  <2>4. f.data \in Seq(Nat) /\ f.credits \in 0..MaxCredits
    BY <2>2 DEF Frame
  <2>5. written' \in [End -> Nat] /\ got' \in [End -> Seq(Nat)]
    <3>1. got[e] \o f.data \in Seq(Nat)
      BY <1>1, <2>4
    <3> QED BY <1>1, <2>3, <3>1
  <2>6. w \in [End -> Seq(Frame)] /\ w[e] = wire[e] /\ w[o] = Tail(wire[o]) /\ wire[e] \in Seq(Frame)
    BY <1>1, <2>0, <2>2
  <2> HIDE DEF w
  <2>7. /\ Total(Credits(wire[o])) = f.credits + Total(Credits(w[o]))
        /\ Total(Loads(wire[o])) = (IF f.data = <<>> THEN 0 ELSE 1) + Total(Loads(w[o]))
        /\ Total(Credits(w[o])) \in Nat /\ Total(Loads(w[o])) \in Nat
        /\ Total(Credits(wire[e])) \in Nat /\ Total(Loads(wire[e])) \in Nat
    <3>1. Tail(wire[o]) = w[o] /\ w[o] \in Seq(Frame)
      BY <2>2, <2>6
    <3>2. /\ Total(Credits(<<f>> \o w[o])) = Total(Credits(<<f>>)) + Total(Credits(w[o]))
          /\ Total(Loads(<<f>> \o w[o])) = Total(Loads(<<f>>)) + Total(Loads(w[o]))
          /\ Total(Credits(w[o])) \in Nat /\ Total(Loads(w[o])) \in Nat
      BY <2>2, <3>1, UnderWaySum
    <3>3. Total(Credits(wire[e])) \in Nat /\ Total(Loads(wire[e])) \in Nat
      BY <2>6, UnderWaySum
    <3>4. /\ Total(Credits(<<f>>)) = f.credits
          /\ Total(Loads(<<f>>)) = IF f.data = <<>> THEN 0 ELSE 1
      BY <2>2, OneFrame
    <3> QED BY <2>2, <3>1, <3>2, <3>3, <3>4
  <2>8. /\ rx[e] = tx[o] + Total(Loads(wire[o])) + Total(Credits(wire[e]))
        /\ rx[o] = tx[e] + Total(Loads(wire[e])) + Total(Credits(wire[o]))
        /\ rx[e] <= MaxCredits /\ rx[o] <= MaxCredits
    BY <1>2, <2>0 DEF Balanced
  <2>9. rx[e] \in Nat /\ rx[o] \in Nat /\ tx[e] \in Nat /\ tx[o] \in Nat /\ MaxCredits \in Nat
    BY <1>0, <1>1, <2>0
  <2>10. t = tx[e] + f.credits /\ t \in 0..U8Max
    <3>1. f.credits \in Nat
      BY <2>4, <2>9
    <3>2. rx[o] = tx[e] + Total(Loads(wire[e])) + (f.credits + Total(Credits(w[o])))
      BY <2>7, <2>8
    <3>3. tx[e] + f.credits <= MaxCredits
      BY <3>1, <3>2, <2>7, <2>8, <2>9
    <3>4. tx[e] + f.credits \in 0..U8Max
      BY <1>0, <3>1, <3>3, <2>9
    <3> QED BY <1>0, <3>1, <3>4 DEF Topped, Least
  <2>11. r = rx[e] - (IF f.data = <<>> THEN 0 ELSE 1) /\ r \in 0..MaxCredits
    <3>1. CASE f.data = <<>>
      BY <3>1, <2>8, <2>9 DEF Spent
    <3>2. CASE f.data # <<>>
      <4>1. Total(Loads(wire[o])) = 1 + Total(Loads(w[o]))
        BY <3>2, <2>7
      <4>2. Total(Loads(wire[o])) \in Nat /\ Total(Loads(wire[o])) >= 1
        BY <4>1, <2>7
      <4>3. rx[e] >= 1
        BY <4>2, <2>7, <2>8, <2>9
      <4> QED BY <3>2, <4>3, <2>8, <2>9 DEF Spent
    <3> QED BY <3>1, <3>2
  <2> HIDE DEF t, r
  <2>12. r = tx[o] + Total(Loads(w[o])) + Total(Credits(w[e]))
    <3>1. CASE f.data = <<>>
      <4>1. r = rx[e] /\ Total(Loads(wire[o])) = Total(Loads(w[o]))
        BY <3>1, <2>7, <2>9, <2>11
      <4> QED BY <4>1, <2>6, <2>8
    <3>2. CASE f.data # <<>>
      <4>1. r = rx[e] - 1 /\ Total(Loads(wire[o])) = 1 + Total(Loads(w[o]))
        BY <3>2, <2>7, <2>11
      <4>2. rx[e] = tx[o] + (1 + Total(Loads(w[o]))) + Total(Credits(wire[e]))
        BY <4>1, <2>8
      <4>3. \A i, j, k, m \in Nat : i = j + (1 + k) + m => i - 1 = j + k + m
        OBVIOUS
      <4>4. rx[e] - 1 = tx[o] + Total(Loads(w[o])) + Total(Credits(wire[e]))
        <5>1. Total(Loads(w[o])) \in Nat /\ Total(Credits(wire[e])) \in Nat
          BY <2>7
        <5> QED BY <4>2, <4>3, <5>1, <2>9
      <4> QED BY <4>1, <4>4, <2>6
    <3> QED BY <3>1, <3>2
  <2>13. rx[o] = t + Total(Loads(w[e])) + Total(Credits(w[o]))
    <3>1. f.credits \in Nat
      BY <2>4, <2>9
    <3>2. rx[o] = tx[e] + Total(Loads(wire[e])) + (f.credits + Total(Credits(w[o])))
      BY <2>7, <2>8
    <3>3. rx[o] = (tx[e] + f.credits) + Total(Loads(wire[e])) + Total(Credits(w[o]))
      BY <3>1, <3>2, <2>7, <2>9
    <3> QED BY <3>3, <2>6, <2>10
  <2>14. Balanced(r, tx[o], w[o], w[e]) /\ Balanced(rx[o], t, w[e], w[o])
    BY <2>12, <2>13 DEF Balanced
  <2>15. buf[e] \in Seq(Nat)
    BY <1>1
  <2> QED BY <1>1, <2>3, <2>5, <2>6, <2>8, <2>10, <2>11, <2>14, <2>15, ProcessTxBalance DEF Inv, TypeOK
<1>5. ASSUME UNCHANGED vars PROVE Inv'
  BY <1>5 DEF vars, Inv, TypeOK, CreditsConserved
<1> QED BY <1>3, <1>4, <1>5 DEF Next

--------------------------------------------------------------------------------
(* The theorems. *)

\* Every state of the connection is well typed: the credit counts fit their u8 and
\* frames under way carry no more than the limit.
THEOREM TypeTheorem == ASSUME Mtu # 1 PROVE Spec => []TypeOK
<1>1. Inv /\ [Next]_vars => Inv'
  BY NextInv
<1>2. Inv => TypeOK
  BY DEF Inv
<1> QED BY InitInv, <1>1, <1>2, PTL DEF Spec

\* Credits are conserved, whatever is written at either end and however the frames of
\* the two directions cross (process_tx, on_dlc_uih).
THEOREM CreditsTheorem == ASSUME Mtu # 1 PROVE Spec => []CreditsConserved
<1>1. Inv /\ [Next]_vars => Inv'
  BY NextInv
<1>2. Inv => CreditsConserved
  BY DEF Inv
<1> QED BY InitInv, <1>1, <1>2, PTL DEF Spec

--------------------------------------------------------------------------------
(* Facts about sequences of sequences put one after the other. *)

\* The function of the recursive definition of FlattenSeq exists.
LEMMA FlattenFunction ==
  ASSUME NEW ss, NEW n \in Nat
  PROVE  \E g : g = [i \in 1..n |-> IF i = 1 THEN ss[i] ELSE g[i - 1] \o ss[i]]
<1> DEFINE Is(g, k) == g = [i \in 1..k |-> IF i = 1 THEN ss[i] ELSE g[i - 1] \o ss[i]]
           T == {k \in Nat : ~ \E g : Is(g, k)}
<1>1. ASSUME T # {} PROVE FALSE
  <2>1. PICK k \in T : \A m \in T : k <= m
    <3> HIDE DEF T
    <3>1. T \in SUBSET Nat
      BY DEF T
    <3> QED BY <1>1, <3>1, LeastNatural
  <2>2. CASE k = 0
    <3>1. Is(<<>>, 0)
      OBVIOUS
    <3> QED BY <2>1, <2>2, <3>1
  <2>3. CASE k # 0
    <3>1. k - 1 \in Nat /\ k \in Nat /\ k - 1 \notin T
      <4>1. k \in Nat
        BY <2>1
      <4> HIDE DEF T
      <4>2. k - 1 \in Nat /\ ~(k <= k - 1)
        BY <4>1, <2>3
      <4> QED BY <4>1, <4>2, <2>1
    <3>2. PICK g : Is(g, k - 1)
      BY <3>1
    <3> DEFINE h == [i \in 1..k |-> IF i < k THEN g[i] ELSE IF k = 1 THEN ss[k] ELSE g[k - 1] \o ss[k]]
    <3>3. \A i \in 1..k : h[i] = IF i = 1 THEN ss[i] ELSE h[i - 1] \o ss[i]
      <4> SUFFICES ASSUME NEW i \in 1..k PROVE h[i] = IF i = 1 THEN ss[i] ELSE h[i - 1] \o ss[i]
        OBVIOUS
      <4>1. CASE i < k
        <5>1. i \in 1..(k - 1)
          BY <3>1, <4>1
        <5>2. g[i] = IF i = 1 THEN ss[i] ELSE g[i - 1] \o ss[i]
          BY <3>2, <5>1
        <5>3. i # 1 => h[i - 1] = g[i - 1]
          BY <3>1, <4>1
        <5> QED BY <4>1, <5>2, <5>3
      <4>2. CASE i = k
        <5>1. i # 1 => h[i - 1] = g[i - 1]
          BY <3>1, <4>2
        <5> QED BY <4>2, <5>1, <3>1
      <4> QED BY <4>1, <4>2, <3>1
    <3> DEFINE hh == [i \in 1..k |-> IF i = 1 THEN ss[i] ELSE h[i - 1] \o ss[i]]
    <3>4. h = hh
      <4> HIDE DEF h
      <4>1. DOMAIN h = 1..k /\ DOMAIN hh = 1..k /\ h = [i \in 1..k |-> h[i]]
        BY DEF h
      <4> QED BY <4>1, <3>3
    <3>5. Is(h, k)
      <4> HIDE DEF h
      <4> QED BY <3>4
    <3> QED BY <2>1, <3>5
  <2> QED BY <2>2, <2>3
<1> QED BY <1>1

\* What that function is, one element after the other.
LEMMA FlattenDef ==
  ASSUME NEW ss, Len(ss) \in Nat \ {0}
  PROVE  \E g : /\ g[1] = ss[1]
                /\ \A i \in Nat : i \in 1..Len(ss) /\ i + 1 \in 1..Len(ss) => g[i + 1] = g[i] \o ss[i + 1]
                /\ FlattenSeq(ss) = g[Len(ss)]
<1> DEFINE Is(g) == g = [i \in 1..Len(ss) |-> IF i = 1 THEN ss[i] ELSE g[i - 1] \o ss[i]]
           f == CHOOSE g : Is(g)
<1>1. \E g : Is(g)
  BY FlattenFunction
<1>2. Is(f)
  BY <1>1
<1>3. FlattenSeq(ss) = f[Len(ss)]
  BY DEF FlattenSeq
<1> HIDE DEF f
<1>4. f[1] = ss[1] /\ \A i \in Nat : i \in 1..Len(ss) /\ i + 1 \in 1..Len(ss) => f[i + 1] = f[i] \o ss[i + 1]
  <2>1. Len(ss) \in Nat /\ 1 \in 1..Len(ss)
    OBVIOUS
  <2>2. \A i \in 1..Len(ss) : f[i] = IF i = 1 THEN ss[i] ELSE f[i - 1] \o ss[i]
    BY <1>2
  <2>3. ASSUME NEW i \in Nat, i \in 1..Len(ss), i + 1 \in 1..Len(ss) PROVE f[i + 1] = f[i] \o ss[i + 1]
    <3>1. i + 1 # 1 /\ (i + 1) - 1 = i
      BY <2>3
    <3>2. f[i + 1] = f[(i + 1) - 1] \o ss[i + 1]
      BY <2>2, <2>3, <3>1
    <3> QED BY <3>1, <3>2
  <2> QED BY <2>1, <2>2, <2>3
<1> QED BY <1>3, <1>4

\* No sequence put after another is the empty one.
LEMMA FlattenEmpty == FlattenSeq(<<>>) = <<>>
BY DEF FlattenSeq

\* One more sequence at the end.
LEMMA FlattenAppend ==
  ASSUME NEW S, NEW ss \in Seq(Seq(S)), NEW t \in Seq(S)
  PROVE  FlattenSeq(Append(ss, t)) = FlattenSeq(ss) \o t /\ FlattenSeq(ss) \in Seq(S)
<1> DEFINE tt == Append(ss, t)
           n == Len(ss)
<1>0. /\ n \in Nat /\ tt \in Seq(Seq(S)) /\ Len(tt) = n + 1 /\ tt[n + 1] = t
      /\ \A i \in 1..n : tt[i] = ss[i] /\ ss[i] \in Seq(S)
  OBVIOUS
<1>1. PICK g : /\ g[1] = tt[1]
               /\ \A i \in Nat : i \in 1..Len(tt) /\ i + 1 \in 1..Len(tt) => g[i + 1] = g[i] \o tt[i + 1]
               /\ FlattenSeq(tt) = g[Len(tt)]
  <2> HIDE DEF tt
  <2>1. Len(tt) \in Nat \ {0}
    BY <1>0
  <2> QED BY <2>1, FlattenDef
<1>2. CASE n = 0
  <2>1. ss = <<>>
    BY <1>2
  <2>2. FlattenSeq(ss) = <<>>
    BY <2>1, FlattenEmpty
  <2>3. FlattenSeq(tt) = t
    BY <1>0, <1>1, <1>2
  <2> QED BY <2>2, <2>3
<1>3. CASE n # 0
  <2>1. PICK f : /\ f[1] = ss[1]
                 /\ \A i \in Nat : i \in 1..n /\ i + 1 \in 1..n => f[i + 1] = f[i] \o ss[i + 1]
                 /\ FlattenSeq(ss) = f[n]
    <3> HIDE DEF tt
    <3> QED BY <1>0, <1>3, FlattenDef
  <2> HIDE DEF tt, n
  <2> DEFINE T == {k \in Nat : k \in 1..n /\ ~(f[k] = g[k] /\ f[k] \in Seq(S))}
  <2>2. ASSUME T # {} PROVE FALSE
    <3>1. PICK k \in T : \A m \in T : k <= m
      <4>1. T \in SUBSET Nat
        OBVIOUS
      <4> HIDE DEF T
      <4> QED BY <2>2, <4>1, LeastNatural
    <3>2. k \in Nat /\ k \in 1..n /\ ~(f[k] = g[k] /\ f[k] \in Seq(S))
      BY <3>1
    <3>3. CASE k = 1
      BY <3>2, <3>3, <1>0, <1>1, <2>1
    <3>4. CASE k # 1
      <4> DEFINE j == k - 1
      <4>1. /\ j \in Nat /\ j \in 1..n /\ j + 1 \in 1..n /\ j \in 1..Len(tt) /\ j + 1 \in 1..Len(tt)
            /\ k = j + 1 /\ ~(k <= j)
        BY <1>0, <3>2, <3>4
      <4> HIDE DEF j
      <4>2. f[j] = g[j] /\ f[j] \in Seq(S)
        <5>1. j \notin T
          <6> HIDE DEF T
          <6> QED BY <3>1, <4>1
        <5> QED BY <4>1, <5>1
      <4>3. f[k] = f[j] \o ss[k] /\ g[k] = g[j] \o tt[k]
        BY <1>1, <2>1, <4>1
      <4>4. ss[k] \in Seq(S) /\ tt[k] = ss[k]
        BY <1>0, <3>2
      <4>5. f[k] \in Seq(S)
        BY <4>2, <4>3, <4>4
      <4> QED BY <3>2, <4>2, <4>3, <4>4, <4>5
    <3> QED BY <3>3, <3>4
  <2>3. n \in 1..n /\ n \in Nat /\ n \in 1..Len(tt) /\ n + 1 \in 1..Len(tt)
    BY <1>0, <1>3
  <2>4. f[n] = g[n] /\ f[n] \in Seq(S)
    BY <2>2, <2>3
  <2>5. g[n + 1] = g[n] \o tt[n + 1]
    BY <1>1, <2>3
  <2> QED BY <1>0, <1>1, <2>1, <2>4, <2>5 DEF tt
<1> QED BY <1>2, <1>3

\* Put one after the other, sequences are a sequence.
LEMMA FlattenType ==
  ASSUME NEW S, NEW ss \in Seq(Seq(S))
  PROVE  FlattenSeq(ss) \in Seq(S)
<1>1. <<>> \in Seq(S)
  OBVIOUS
<1> QED BY <1>1, FlattenAppend

\* Concatenation is associative, also with one element.
LEMMA ConcatThree ==
  ASSUME NEW S, NEW a \in Seq(S), NEW b \in Seq(S), NEW c \in Seq(S)
  PROVE (a \o b) \o c = a \o (b \o c)
OBVIOUS

\* One more element at the end of a concatenation.
LEMMA ConcatOneMore ==
  ASSUME NEW S, NEW a \in Seq(S), NEW b \in Seq(S), NEW t \in S
  PROVE a \o Append(b, t) = Append(a \o b, t) /\ a \o b \in Seq(S)
OBVIOUS

LEMMA FlattenConcatStep ==
  ASSUME NEW S, NEW ss \in Seq(Seq(S)), NEW vv \in Seq(Seq(S)), NEW t \in Seq(S),
         FlattenSeq(ss \o vv) = FlattenSeq(ss) \o FlattenSeq(vv)
  PROVE  FlattenSeq(ss \o Append(vv, t)) = FlattenSeq(ss) \o FlattenSeq(Append(vv, t))
<1>1. ss \o vv \in Seq(Seq(S)) /\ ss \o Append(vv, t) = Append(ss \o vv, t)
  BY ConcatOneMore
<1>2. FlattenSeq(ss \o Append(vv, t)) = FlattenSeq(ss \o vv) \o t
  BY <1>1, FlattenAppend
<1>3. FlattenSeq(Append(vv, t)) = FlattenSeq(vv) \o t
  BY FlattenAppend
<1>4. FlattenSeq(ss) \in Seq(S) /\ FlattenSeq(vv) \in Seq(S)
  BY FlattenType
<1>5. (FlattenSeq(ss) \o FlattenSeq(vv)) \o t = FlattenSeq(ss) \o (FlattenSeq(vv) \o t)
  BY <1>4, ConcatThree, SMT
<1> QED BY <1>2, <1>3, <1>5

\* A concatenation of sequences, put one after the other.
LEMMA FlattenConcat ==
  ASSUME NEW S, NEW ss \in Seq(Seq(S)), NEW tt \in Seq(Seq(S))
  PROVE  FlattenSeq(ss \o tt) = FlattenSeq(ss) \o FlattenSeq(tt)
<1> DEFINE Fails(uu) == FlattenSeq(ss \o uu) # FlattenSeq(ss) \o FlattenSeq(uu)
           T == {k \in Nat : \E uu \in Seq(Seq(S)) : Len(uu) = k /\ Fails(uu)}
<1>1. ASSUME T # {} PROVE FALSE
  <2>1. PICK k \in T : \A m \in T : k <= m
    <3>1. T \in SUBSET Nat
      OBVIOUS
    <3> HIDE DEF T
    <3> QED BY <1>1, <3>1, LeastNatural
  <2>2. PICK uu \in Seq(Seq(S)) : Len(uu) = k /\ Fails(uu)
    BY <2>1
  <2>3. CASE uu = <<>>
    <3>1. FlattenSeq(ss) \in Seq(S) /\ FlattenSeq(uu) = <<>> /\ ss \o uu = ss
      BY <2>3, FlattenType, FlattenEmpty
    <3> QED BY <2>2, <3>1
  <2>4. CASE uu # <<>>
    <3>1. PICK vv \in Seq(Seq(S)), t \in Seq(S) : uu = Append(vv, t)
      BY <2>4, SequenceEmptyOrAppend
    <3>2. Len(vv) \in Nat /\ Len(uu) = Len(vv) + 1 /\ k \in Nat
      BY <2>1, <3>1
    <3>3. ~Fails(vv)
      <4>1. Len(vv) \notin T
        <5> HIDE DEF T
        <5>1. ~(k <= Len(vv))
          BY <2>2, <3>2
        <5> QED BY <2>1, <5>1
      <4> QED BY <3>2, <4>1
    <3> QED BY <2>2, <3>1, <3>3, FlattenConcatStep
  <2> QED BY <2>3, <2>4
<1>2. Len(tt) \in Nat
  OBVIOUS
<1> QED BY <1>1, <1>2

\* One sequence alone is itself.
LEMMA FlattenOne ==
  ASSUME NEW S, NEW t \in Seq(S)
  PROVE  FlattenSeq(<<t>>) = t
<1>1. <<>> \in Seq(Seq(S)) /\ Append(<<>>, t) = <<t>>
  OBVIOUS
<1>2. FlattenSeq(<<t>>) = <<>> \o t
  BY <1>1, FlattenAppend, FlattenEmpty
<1> QED BY <1>2

--------------------------------------------------------------------------------
(* What frames carry. *)

\* Frames whatever their credits: what the byte stream needs to know of them.
AnyFrame == [credits : Nat, data : Seq(Nat)]

DataOf(s) == [i \in 1..Len(s) |-> s[i].data]

\* The data of a concatenation is the concatenation of the data.
LEMMA DataOfConcat ==
  ASSUME NEW s \in Seq(AnyFrame), NEW u \in Seq(AnyFrame)
  PROVE  /\ DataOf(s) \in Seq(Seq(Nat)) /\ DataOf(u) \in Seq(Seq(Nat))
         /\ DataOf(s \o u) = DataOf(s) \o DataOf(u)
<1>1. /\ s \o u \in Seq(AnyFrame)
      /\ Len(s) \in Nat /\ Len(u) \in Nat /\ Len(s \o u) = Len(s) + Len(u)
      /\ \A i \in 1..(Len(s) + Len(u)) : (s \o u)[i] = IF i <= Len(s) THEN s[i] ELSE u[i - Len(s)]
  OBVIOUS
<1>2. \A v \in Seq(AnyFrame) : DataOf(v) \in Seq(Seq(Nat)) /\ Len(DataOf(v)) = Len(v)
  <2> SUFFICES ASSUME NEW v \in Seq(AnyFrame) PROVE DataOf(v) \in Seq(Seq(Nat)) /\ Len(DataOf(v)) = Len(v)
    OBVIOUS
  <2>1. Len(v) \in Nat /\ \A i \in 1..Len(v) : v[i].data \in Seq(Nat)
    <3>1. Len(v) \in Nat /\ \A i \in 1..Len(v) : v[i] \in AnyFrame
      OBVIOUS
    <3>2. \A f \in AnyFrame : f.data \in Seq(Nat)
      BY DEF AnyFrame
    <3> QED BY <3>1, <3>2
  <2>2. DataOf(v) \in [1..Len(v) -> Seq(Nat)]
    BY <2>1 DEF DataOf
  <2> QED BY <2>1, <2>2
<1> DEFINE x == DataOf(s \o u)
           y == DataOf(s) \o DataOf(u)
<1>3. x \in Seq(Seq(Nat)) /\ y \in Seq(Seq(Nat)) /\ Len(x) = Len(s) + Len(u) /\ Len(y) = Len(x)
  <2> DEFINE p == DataOf(s)
             q == DataOf(u)
  <2>1. p \in Seq(Seq(Nat)) /\ q \in Seq(Seq(Nat)) /\ Len(p) = Len(s) /\ Len(q) = Len(u)
    BY <1>2
  <2> HIDE DEF p, q
  <2>2. p \o q \in Seq(Seq(Nat)) /\ Len(p \o q) = Len(p) + Len(q)
    BY <2>1, ConcatProperties
  <2>3. x \in Seq(Seq(Nat)) /\ Len(x) = Len(s \o u)
    BY <1>1, <1>2
  <2> QED BY <1>1, <2>1, <2>2, <2>3 DEF p, q
<1>4. \A i \in 1..Len(x) : x[i] = y[i]
  <2> SUFFICES ASSUME NEW i \in 1..Len(x) PROVE x[i] = y[i]
    OBVIOUS
  <2>1. i \in 1..(Len(s) + Len(u))
    BY <1>3
  <2>2. x[i] = (s \o u)[i].data
    BY <1>1, <2>1 DEF DataOf
  <2>3. y[i] = IF i <= Len(s) THEN DataOf(s)[i] ELSE DataOf(u)[i - Len(s)]
    BY <1>1, <1>2, <2>1
  <2>4. CASE i <= Len(s)
    BY <1>1, <2>1, <2>2, <2>3, <2>4 DEF DataOf
  <2>5. CASE ~(i <= Len(s))
    <3>1. i - Len(s) \in 1..Len(u)
      BY <1>1, <2>1, <2>5
    <3> QED BY <1>1, <2>1, <2>2, <2>3, <2>5, <3>1 DEF DataOf
  <2> QED BY <2>4, <2>5
<1> HIDE DEF x, y
<1>5. x = y
  BY <1>3, <1>4, SeqEqual
<1> QED BY <1>2, <1>5 DEF x, y

\* What frames carry one after the other.
LEMMA CarriedConcat ==
  ASSUME NEW s \in Seq(AnyFrame), NEW u \in Seq(AnyFrame)
  PROVE  /\ Carried(s) \in Seq(Nat) /\ Carried(u) \in Seq(Nat)
         /\ Carried(s \o u) = Carried(s) \o Carried(u)
<1>1. \A v : Carried(v) = FlattenSeq(DataOf(v))
  BY DEF Carried, DataOf
<1>2. /\ DataOf(s) \in Seq(Seq(Nat)) /\ DataOf(u) \in Seq(Seq(Nat))
      /\ DataOf(s \o u) = DataOf(s) \o DataOf(u)
  BY DataOfConcat
<1>3. FlattenSeq(DataOf(s)) \in Seq(Nat) /\ FlattenSeq(DataOf(u)) \in Seq(Nat)
  BY <1>2, FlattenType
<1>4. FlattenSeq(DataOf(s) \o DataOf(u)) = FlattenSeq(DataOf(s)) \o FlattenSeq(DataOf(u))
  BY <1>2, FlattenConcat
<1> QED BY <1>1, <1>2, <1>3, <1>4

\* One frame carries its data.
LEMMA CarriedOne ==
  ASSUME NEW f \in AnyFrame
  PROVE  Carried(<<f>>) = f.data /\ <<f>> \in Seq(AnyFrame)
<1>1. f.data \in Seq(Nat)
  BY DEF AnyFrame
<1>2. Carried(<<f>>) = FlattenSeq(<<f.data>>)
  BY DEF Carried
<1> QED BY <1>1, <1>2, FlattenOne

\* No frame carries nothing.
LEMMA CarriedNone == Carried(<<>>) = <<>>
<1>1. Carried(<<>>) = FlattenSeq(<<>>)
  BY DEF Carried
<1> QED BY <1>1, FlattenEmpty

\* A sequence that begins with one and goes on with another is their concatenation.
LEMMA IsConcat ==
  ASSUME NEW S, NEW x \in Seq(S), NEW y \in Seq(S), NEW z \in Seq(S), Len(z) = Len(x) + Len(y),
         \A i \in 1..Len(x) : z[i] = x[i],
         \A i \in 1..Len(y) : z[i + Len(x)] = y[i]
  PROVE  x \o y = z
<1>1. /\ x \o y \in Seq(S) /\ Len(x \o y) = Len(x) + Len(y) /\ Len(x) \in Nat /\ Len(y) \in Nat
      /\ \A i \in 1..(Len(x) + Len(y)) : (x \o y)[i] = IF i <= Len(x) THEN x[i] ELSE y[i - Len(x)]
  BY ConcatProperties
<1>2. ASSUME NEW i \in 1..(Len(x) + Len(y)) PROVE (x \o y)[i] = z[i]
  <2>1. CASE i <= Len(x)
    BY <1>1, <2>1
  <2>2. CASE ~(i <= Len(x))
    <3>1. i - Len(x) \in 1..Len(y) /\ (i - Len(x)) + Len(x) = i
      BY <1>1, <2>2
    <3> QED BY <1>1, <2>2, <3>1
  <2> QED BY <2>1, <2>2
<1>3. \A i \in 1..Len(z) : (x \o y)[i] = z[i]
  BY <1>2
<1> QED BY <1>1, <1>3, SeqEqual

\* Cut at j and k, a sequence is what it was.
LEMMA CutLonger ==
  ASSUME NEW b \in Seq(Nat), NEW j \in 0..Len(b), NEW k \in j..Len(b)
  PROVE  /\ SubSeq(b, 1, j) \in Seq(Nat) /\ SubSeq(b, j + 1, k) \in Seq(Nat)
         /\ SubSeq(b, 1, j) \o SubSeq(b, j + 1, k) = SubSeq(b, 1, k)
         /\ SubSeq(b, 1, Len(b)) = b
<1> DEFINE x == SubSeq(b, 1, j)
           y == SubSeq(b, j + 1, k)
           z == SubSeq(b, 1, k)
<1>1. Len(b) \in Nat /\ j \in Nat /\ k \in Nat /\ j <= k /\ k <= Len(b)
  OBVIOUS
<1>2. x \in Seq(Nat) /\ Len(x) = j /\ \A i \in 1..j : x[i] = b[i]
  BY <1>1
<1>3. y \in Seq(Nat) /\ Len(y) = k - j /\ \A i \in 1..(k - j) : y[i] = b[i + j]
  BY <1>1
<1>4. z \in Seq(Nat) /\ Len(z) = k /\ \A i \in 1..k : z[i] = b[i]
  BY <1>1
<1>5. SubSeq(b, 1, Len(b)) = b
  OBVIOUS
<1> HIDE DEF x, y, z
<1>6. Len(z) = Len(x) + Len(y)
  BY <1>1, <1>2, <1>3, <1>4
<1>7. \A i \in 1..Len(x) : z[i] = x[i]
  <2> SUFFICES ASSUME NEW i \in 1..j PROVE z[i] = x[i]
    BY <1>2
  <2>1. i \in 1..k
    BY <1>1
  <2> QED BY <2>1, <1>2, <1>4
<1>8. \A i \in 1..Len(y) : z[i + Len(x)] = y[i]
  <2> SUFFICES ASSUME NEW i \in 1..(k - j) PROVE z[i + j] = y[i]
    BY <1>2, <1>3
  <2>1. i + j \in 1..k
    BY <1>1
  <2> QED BY <2>1, <1>3, <1>4
<1>9. x \o y = z
  BY <1>2, <1>3, <1>4, <1>6, <1>7, <1>8, IsConcat
<1> QED BY <1>2, <1>3, <1>5, <1>9 DEF x, y, z

\* Cut at k, a sequence is what it was.
LEMMA CutInTwo ==
  ASSUME NEW b \in Seq(Nat), NEW k \in 0..Len(b)
  PROVE  /\ SubSeq(b, 1, k) \in Seq(Nat) /\ SubSeq(b, k + 1, Len(b)) \in Seq(Nat)
         /\ SubSeq(b, 1, k) \o SubSeq(b, k + 1, Len(b)) = b
<1>1. Len(b) \in k..Len(b)
  OBVIOUS
<1> QED BY <1>1, CutLonger

\* Beyond the end of a sequence there is nothing.
LEMMA BeyondEnd ==
  ASSUME NEW b \in Seq(Nat), NEW m \in Nat, NEW k \in Nat, k < m
  PROVE  SubSeq(b, m, k) = <<>>
BY SubSeqEmpty

\* The frames of process_tx carry the first bytes of the buffer, as many as fit.
LEMMA ChunksCarry ==
  ASSUME NEW b \in Seq(Nat), NEW n \in Nat
  PROVE  /\ n * Mtu \in Nat
         /\ Chunks(b, n) \in Seq(AnyFrame)
         /\ Carried(Chunks(b, n)) = SubSeq(b, 1, Least(n * Mtu, Len(b)))
<1>0. Mtu \in Nat \ {0} /\ Len(b) \in Nat
  BY CreditAssumption
<1> DEFINE To(k) == Least(k * Mtu, Len(b))
           Piece(k) == SubSeq(b, (k - 1) * Mtu + 1, To(k))
<1>1. \A k \in Nat : k * Mtu \in Nat /\ (k + 1) * Mtu = k * Mtu + Mtu
  BY <1>0
<1>2. \A k \in Nat : To(k) \in 0..Len(b) /\ To(k + 1) \in To(k)..Len(b)
  BY <1>0, <1>1 DEF Least
<1>3. ASSUME NEW k \in Nat
      PROVE  /\ Piece(k + 1) \in Seq(Nat)
             /\ SubSeq(b, 1, To(k)) \o Piece(k + 1) = SubSeq(b, 1, To(k + 1))
  <2>1. Piece(k + 1) = SubSeq(b, k * Mtu + 1, To(k + 1))
    <3>1. (k + 1) - 1 = k
      OBVIOUS
    <3> HIDE DEF To
    <3>2. Piece(k + 1) = SubSeq(b, ((k + 1) - 1) * Mtu + 1, To(k + 1))
      BY Zenon
    <3> HIDE DEF Piece
    <3> QED BY <3>1, <3>2, Zenon
  <2>2. CASE k * Mtu <= Len(b)
    <3>1. To(k) = k * Mtu
      BY <2>2, <1>0, <1>1 DEF Least
    <3>2. To(k) \in 0..Len(b) /\ To(k + 1) \in To(k)..Len(b)
      BY <1>2
    <3> HIDE DEF To
    <3>3. /\ SubSeq(b, To(k) + 1, To(k + 1)) \in Seq(Nat)
          /\ SubSeq(b, 1, To(k)) \o SubSeq(b, To(k) + 1, To(k + 1)) = SubSeq(b, 1, To(k + 1))
      BY <3>2, CutLonger
    <3> HIDE DEF Piece
    <3> QED BY <2>1, <3>1, <3>3
  <2>3. CASE ~(k * Mtu <= Len(b))
    <3>1. To(k) = Len(b) /\ To(k + 1) = Len(b)
      BY <2>3, <1>0, <1>1 DEF Least
    <3> HIDE DEF To
    <3>2. k * Mtu + 1 \in Nat /\ Len(b) < k * Mtu + 1
      BY <2>3, <1>0, <1>1
    <3>3. Piece(k + 1) = <<>>
      <4> HIDE DEF Piece
      <4>1. SubSeq(b, k * Mtu + 1, Len(b)) = <<>>
        BY <3>2, <1>0, BeyondEnd
      <4> QED BY <4>1, <2>1, <3>1
    <3> HIDE DEF Piece
    <3>4. SubSeq(b, 1, Len(b)) = b /\ b \o <<>> = b /\ <<>> \in Seq(Nat)
      OBVIOUS
    <3> QED BY <3>1, <3>3, <3>4, Zenon
  <2> QED BY <2>2, <2>3
<1>4. \A k, m \in Nat : m \in 1..k => Chunks(b, k)[m] = [credits |-> 0, data |-> Piece(m)] /\ Len(Chunks(b, k)) = k
  BY DEF Chunks
<1>5. \A k \in Nat : Chunks(b, k) \in Seq(AnyFrame) /\ Len(Chunks(b, k)) = k
  <2> SUFFICES ASSUME NEW k \in Nat PROVE Chunks(b, k) \in Seq(AnyFrame) /\ Len(Chunks(b, k)) = k
    OBVIOUS
  <2>1. \A m \in 1..k : Piece(m) \in Seq(Nat)
    <3> SUFFICES ASSUME NEW m \in 1..k PROVE Piece(m) \in Seq(Nat)
      OBVIOUS
    <3>1. m - 1 \in Nat /\ (m - 1) + 1 = m
      OBVIOUS
    <3> HIDE DEF Piece
    <3> QED BY <3>1, <1>3
  <2>2. \A m \in 1..k : [credits |-> 0, data |-> Piece(m)] \in AnyFrame
    <3> HIDE DEF Piece
    <3> QED BY <2>1 DEF AnyFrame
  <2>3. Chunks(b, k) \in [1..k -> AnyFrame]
    BY <2>2 DEF Chunks
  <2> QED BY <2>3
<1> DEFINE Fails(k) == Carried(Chunks(b, k)) # SubSeq(b, 1, To(k))
           T == {k \in Nat : Fails(k)}
<1>6. ASSUME T # {} PROVE FALSE
  <2>1. PICK k \in T : \A m \in T : k <= m
    <3>1. T \in SUBSET Nat
      OBVIOUS
    <3> HIDE DEF T
    <3> QED BY <1>6, <3>1, LeastNatural
  <2>2. CASE k = 0
    <3>1. Chunks(b, 0) = <<>> /\ To(0) = 0 /\ SubSeq(b, 1, 0) = <<>>
      BY <1>0 DEF Chunks, Least
    <3> QED BY <2>1, <2>2, <3>1, CarriedNone
  <2>3. CASE k # 0
    <3> DEFINE j == k - 1
               f == [credits |-> 0, data |-> Piece(k)]
    <3>1. j \in Nat /\ k = j + 1 /\ k \in Nat /\ ~(k <= j)
      BY <2>1, <2>3
    <3> HIDE DEF j
    <3>2. Carried(Chunks(b, j)) = SubSeq(b, 1, To(j))
      <4>1. j \notin T
        <5> HIDE DEF T
        <5> QED BY <2>1, <3>1
      <4> QED BY <3>1, <4>1
    <3> HIDE DEF Piece, To, T, Fails
    <3>3. Piece(k) \in Seq(Nat) /\ SubSeq(b, 1, To(j)) \o Piece(k) = SubSeq(b, 1, To(k))
      BY <3>1, <1>3
    <3>4. f \in AnyFrame /\ f.data = Piece(k)
      BY <3>3 DEF AnyFrame
    <3>5. Chunks(b, k) = Chunks(b, j) \o <<f>>
      <4>1. Chunks(b, j) \in Seq(AnyFrame) /\ Len(Chunks(b, j)) = j /\ Chunks(b, k) \in Seq(AnyFrame) /\ Len(Chunks(b, k)) = k
        BY <1>5, <3>1
      <4>2. <<f>> \in Seq(AnyFrame) /\ Len(<<f>>) = 1 /\ <<f>>[1] = f
        BY <3>4
      <4>3. \A i \in 1..j : Chunks(b, k)[i] = Chunks(b, j)[i]
        <5> SUFFICES ASSUME NEW i \in 1..j PROVE Chunks(b, k)[i] = Chunks(b, j)[i]
          OBVIOUS
        <5>1. i \in Nat /\ i \in 1..k
          BY <3>1
        <5> QED BY <5>1, <3>1, <1>4
      <4>4. Chunks(b, k)[1 + j] = f
        <5>1. k \in 1..k /\ 1 + j = k
          BY <3>1, <2>3
        <5>2. Chunks(b, k)[k] = [credits |-> 0, data |-> Piece(k)]
          BY <5>1, <3>1, <1>4
        <5> QED BY <5>1, <5>2
      <4> HIDE DEF f
      <4>5. \A i \in 1..Len(<<f>>) : Chunks(b, k)[i + Len(Chunks(b, j))] = <<f>>[i]
        BY <4>1, <4>2, <4>4
      <4>6. Len(Chunks(b, k)) = Len(Chunks(b, j)) + Len(<<f>>) /\ \A i \in 1..Len(Chunks(b, j)) : Chunks(b, k)[i] = Chunks(b, j)[i]
        BY <4>1, <4>2, <4>3, <3>1
      <4> QED BY <4>1, <4>2, <4>5, <4>6, IsConcat
    <3>6. Carried(Chunks(b, k)) = Carried(Chunks(b, j)) \o Piece(k)
      <4>1. Chunks(b, j) \in Seq(AnyFrame)
        BY <1>5, <3>1
      <4> HIDE DEF f
      <4> QED BY <4>1, <3>4, <3>5, CarriedConcat, CarriedOne
    <3>7. Carried(Chunks(b, k)) = SubSeq(b, 1, To(k))
      BY <3>2, <3>3, <3>6
    <3> QED BY <2>1, <3>7 DEF T, Fails
  <2> QED BY <2>2, <2>3
<1>7. Carried(Chunks(b, n)) = SubSeq(b, 1, To(n))
  BY <1>6
<1> QED BY <1>1, <1>5, <1>7

\* The refill carries what it takes from the buffer.
LEMMA RefillCarries ==
  ASSUME NEW b \in Seq(Nat), NEW t \in Nat, NEW r \in 0..MaxCredits
  PROVE  /\ Refill(b, t, r) \in Seq(AnyFrame)
         /\ RestOf(b, t, r) \in Seq(Nat)
         /\ Carried(Refill(b, t, r)) \o RestOf(b, t, r) = b
         /\ LeftOf(b, t, r) \in Nat
         /\ r + CreditsNeeded(r) \in 0..MaxCredits
<1>0. Mtu \in Nat \ {0} /\ MaxCredits \in Nat /\ Threshold \in Nat /\ Len(b) \in Nat
  BY CreditAssumption DEF U8Max
<1>1. CreditsNeeded(r) \in Nat /\ r + CreditsNeeded(r) \in 0..MaxCredits
  BY <1>0 DEF CreditsNeeded
<1>2. RefillTake(b, t) \in 0..Len(b)
  BY <1>0 DEF RefillTake, Least
<1>3. LeftOf(b, t, r) \in Nat
  BY DEF LeftOf, RidesAlong
<1>4. CASE CreditsNeeded(r) = 0
  <2>1. Refill(b, t, r) = <<>> /\ RestOf(b, t, r) = b /\ <<>> \in Seq(AnyFrame) /\ <<>> \o b = b
    BY <1>4 DEF Refill, RestOf
  <2> QED BY <1>1, <1>3, <2>1, CarriedNone
<1>5. CASE CreditsNeeded(r) # 0
  <2> DEFINE k == RefillTake(b, t)
             f == [credits |-> CreditsNeeded(r), data |-> SubSeq(b, 1, k)]
  <2>1. Refill(b, t, r) = <<f>> /\ RestOf(b, t, r) = SubSeq(b, k + 1, Len(b))
    BY <1>5 DEF Refill, RestOf
  <2>2. k \in 0..Len(b)
    BY <1>2
  <2> HIDE DEF k
  <2>3. /\ SubSeq(b, 1, k) \in Seq(Nat) /\ SubSeq(b, k + 1, Len(b)) \in Seq(Nat)
        /\ SubSeq(b, 1, k) \o SubSeq(b, k + 1, Len(b)) = b
    BY <2>2, CutInTwo
  <2>4. f \in AnyFrame /\ f.data = SubSeq(b, 1, k)
    BY <1>1, <2>3 DEF AnyFrame
  <2> HIDE DEF f
  <2> QED BY <1>1, <1>3, <2>1, <2>3, <2>4, CarriedOne
<1> QED BY <1>4, <1>5

\* The bytes after the frames are the rest of the buffer.
LEMMA ChunksAndRest ==
  ASSUME NEW b \in Seq(Nat), NEW n \in Nat
  PROVE  /\ Chunks(b, n) \in Seq(AnyFrame)
         /\ SubSeq(b, n * Mtu + 1, Len(b)) \in Seq(Nat)
         /\ Carried(Chunks(b, n)) \o SubSeq(b, n * Mtu + 1, Len(b)) = b
<1>1. /\ n * Mtu \in Nat
      /\ Chunks(b, n) \in Seq(AnyFrame)
      /\ Carried(Chunks(b, n)) = SubSeq(b, 1, Least(n * Mtu, Len(b)))
  BY ChunksCarry
<1>2. Len(b) \in Nat
  OBVIOUS
<1>3. CASE n * Mtu <= Len(b)
  <2>1. Least(n * Mtu, Len(b)) = n * Mtu /\ n * Mtu \in 0..Len(b)
    BY <1>1, <1>2, <1>3 DEF Least
  <2> QED BY <1>1, <2>1, CutInTwo
<1>4. CASE ~(n * Mtu <= Len(b))
  <2>1. Least(n * Mtu, Len(b)) = Len(b) /\ n * Mtu + 1 \in Nat /\ Len(b) < n * Mtu + 1
    BY <1>1, <1>2, <1>4 DEF Least
  <2>2. SubSeq(b, n * Mtu + 1, Len(b)) = <<>>
    BY <2>1, <1>2, BeyondEnd
  <2>3. SubSeq(b, 1, Len(b)) = b /\ b \o <<>> = b /\ <<>> \in Seq(Nat)
    OBVIOUS
  <2> QED BY <1>1, <2>1, <2>2, <2>3, Zenon
<1> QED BY <1>3, <1>4

\* Concatenation is associative.
LEMMA Associative ==
  \A p, q, r \in Seq(Nat) : (p \o q) \o r = p \o (q \o r)
OBVIOUS

\* The variables, with any number of credits granted to the peer.
StreamTypes ==
  /\ buf \in [End -> Seq(Nat)]
  /\ tx \in [End -> Nat]
  /\ rx \in [End -> 0..MaxCredits]
  /\ wire \in [End -> Seq(AnyFrame)]
  /\ written \in [End -> Nat]
  /\ got \in [End -> Seq(Nat)]

\* process_tx moves bytes from the buffer to frames, and the order stays.
LEMMA ProcessTxCarries ==
  ASSUME StreamTypes, NEW e \in End, NEW w \in [End -> Seq(AnyFrame)], NEW b \in Seq(Nat),
         NEW t \in Nat, NEW r \in 0..MaxCredits, ProcessTx(e, w, b, t, r)
  PROVE  /\ buf' \in [End -> Seq(Nat)]
         /\ tx' \in [End -> Nat]
         /\ rx' \in [End -> 0..MaxCredits]
         /\ wire' \in [End -> Seq(AnyFrame)]
         /\ UnderWay(e)' = Carried(w[e]) \o b
         /\ Carried(w[e]) \in Seq(Nat)
         /\ UnderWay(Other(e))' = Carried(w[Other(e)]) \o buf[Other(e)]
<1> DEFINE rest == RestOf(b, t, r)
           left == LeftOf(b, t, r)
           n == Count(rest, left)
           u == Refill(b, t, r)
           c == Chunks(rest, n)
           tail == SubSeq(rest, n * Mtu + 1, Len(rest))
<1>1. /\ u \in Seq(AnyFrame)
      /\ rest \in Seq(Nat)
      /\ Carried(u) \o rest = b
      /\ left \in Nat
      /\ r + CreditsNeeded(r) \in 0..MaxCredits
  BY RefillCarries
<1>2. wire' = [w EXCEPT ![e] = w[e] \o (u \o c)] /\ buf' = [buf EXCEPT ![e] = tail]
  BY DEF ProcessTx
<1>3. tx' = [tx EXCEPT ![e] = left - n] /\ rx' = [rx EXCEPT ![e] = r + CreditsNeeded(r)]
  BY DEF ProcessTx
<1> HIDE DEF rest, left, u
<1>4. n \in 0..left /\ n \in Nat /\ left - n \in Nat
  <2>1. Count(rest, left) \in 0..left
    BY <1>1, ChunkFacts, Zenon
  <2> QED BY <1>1, <2>1
<1> HIDE DEF n
<1>5. c \in Seq(AnyFrame) /\ tail \in Seq(Nat) /\ Carried(c) \o tail = rest
  BY <1>1, <1>4, ChunksAndRest
<1> HIDE DEF c, tail
<1>6. w[e] \in Seq(AnyFrame) /\ w[e] \o (u \o c) \in Seq(AnyFrame) /\ u \o c \in Seq(AnyFrame)
  BY <1>1, <1>5, ConcatProperties
<1>7. /\ Carried(w[e]) \in Seq(Nat) /\ Carried(u) \in Seq(Nat) /\ Carried(c) \in Seq(Nat)
      /\ Carried(w[e] \o (u \o c)) = Carried(w[e]) \o (Carried(u) \o Carried(c))
  BY <1>1, <1>5, <1>6, CarriedConcat
<1>8. Carried(w[e] \o (u \o c)) \o tail = Carried(w[e]) \o b
  <2>1. (Carried(w[e]) \o (Carried(u) \o Carried(c))) \o tail
          = Carried(w[e]) \o (Carried(u) \o (Carried(c) \o tail))
    <3> DEFINE x == Carried(w[e])
               y == Carried(u)
               z == Carried(c)
    <3>1. x \in Seq(Nat) /\ y \in Seq(Nat) /\ z \in Seq(Nat) /\ tail \in Seq(Nat)
      BY <1>5, <1>7
    <3> HIDE DEF x, y, z
    <3>2. y \o z \in Seq(Nat)
      BY <3>1, ConcatProperties, Zenon
    <3>3. (x \o (y \o z)) \o tail = x \o ((y \o z) \o tail)
      <4> DEFINE v == y \o z
      <4>1. v \in Seq(Nat)
        BY <3>2
      <4> HIDE DEF v
      <4>2. \A p, q \in Seq(Nat) : (x \o p) \o q = x \o (p \o q)
        BY <3>1, Associative, Zenon
      <4>3. \A q \in Seq(Nat) : (x \o v) \o q = x \o (v \o q)
        BY <4>1, <4>2, Zenon
      <4>4. (x \o v) \o tail = x \o (v \o tail)
        BY <3>1, <4>3, Zenon
      <4> QED BY <4>4 DEF v
    <3>4. (y \o z) \o tail = y \o (z \o tail)
      BY <3>1, Associative, Zenon
    <3> QED BY <3>3, <3>4, Zenon DEF x, y, z
  <2> QED BY <2>1, <1>1, <1>5, <1>7, Zenon
<1>9. wire' \in [End -> Seq(AnyFrame)] /\ buf' \in [End -> Seq(Nat)]
  BY <1>2, <1>5, <1>6 DEF StreamTypes
<1>10. tx' \in [End -> Nat] /\ rx' \in [End -> 0..MaxCredits]
  BY <1>1, <1>3, <1>4 DEF StreamTypes
<1>11. /\ wire'[e] = w[e] \o (u \o c) /\ buf'[e] = tail
       /\ wire'[Other(e)] = w[Other(e)] /\ buf'[Other(e)] = buf[Other(e)]
  <2>1. Other(e) \in End /\ Other(e) # e
    BY DEF Other, End
  <2> QED BY <2>1, <1>2 DEF StreamTypes
<1>12. UnderWay(e)' = Carried(wire'[e]) \o buf'[e] /\ UnderWay(Other(e))' = Carried(wire'[Other(e)]) \o buf'[Other(e)]
  BY DEF UnderWay, Carried
<1> QED BY <1>7, <1>8, <1>9, <1>10, <1>11, <1>12

--------------------------------------------------------------------------------
(* The refinement of ByteStream. *)

\* The front of a concatenation and what is left of it.
LEMMA FrontAndRest ==
  ASSUME NEW a \in Seq(Nat), NEW b \in Seq(Nat)
  PROVE  /\ a \o b \in Seq(Nat)
         /\ SubSeq(a \o b, 1, Len(a)) = a
         /\ SubSeq(a \o b, Len(a) + 1, Len(a \o b)) = b
         /\ a # <<>> => Len(a) \in 1..Len(a \o b)
<1>1. /\ a \o b \in Seq(Nat) /\ Len(a \o b) = Len(a) + Len(b) /\ Len(a) \in Nat /\ Len(b) \in Nat
      /\ \A i \in 1..(Len(a) + Len(b)) : (a \o b)[i] = IF i <= Len(a) THEN a[i] ELSE b[i - Len(a)]
  BY ConcatProperties
<1> DEFINE c == a \o b
<1> HIDE DEF c
<1>2. c \in Seq(Nat) /\ Len(c) = Len(a) + Len(b) /\ Len(a) \in 0..Len(c) /\ Len(c) \in Nat
  BY <1>1 DEF c
<1>3. /\ SubSeq(c, 1, Len(a)) \in Seq(Nat) /\ Len(SubSeq(c, 1, Len(a))) = Len(a)
      /\ \A i \in 1..Len(a) : SubSeq(c, 1, Len(a))[i] = c[i]
  BY <1>1, <1>2
<1>4. /\ SubSeq(c, Len(a) + 1, Len(c)) \in Seq(Nat) /\ Len(SubSeq(c, Len(a) + 1, Len(c))) = Len(b)
      /\ \A i \in 1..Len(b) : SubSeq(c, Len(a) + 1, Len(c))[i] = c[i + Len(a)]
  <2> DEFINE j == Len(a)
             m == Len(c)
  <2>1. m \in Nat /\ j \in Nat /\ j <= m /\ Len(b) = m - j /\ m = Len(c)
    BY <1>1, <1>2
  <2> HIDE DEF j, m
  <2>2. /\ SubSeq(c, j + 1, m) \in Seq(Nat) /\ Len(SubSeq(c, j + 1, m)) = m - j
        /\ \A i \in 1..(m - j) : SubSeq(c, j + 1, m)[i] = c[i + j]
    BY <1>2, <2>1
  <2> QED BY <2>1, <2>2 DEF j, m
<1>5. \A i \in 1..Len(a) : c[i] = a[i]
  BY <1>1 DEF c
<1>6. \A i \in 1..Len(b) : c[i + Len(a)] = b[i]
  <2> SUFFICES ASSUME NEW i \in 1..Len(b) PROVE c[i + Len(a)] = b[i]
    OBVIOUS
  <2>1. i + Len(a) \in 1..(Len(a) + Len(b)) /\ ~(i + Len(a) <= Len(a)) /\ (i + Len(a)) - Len(a) = i
    BY <1>1
  <2> QED BY <2>1, <1>1 DEF c
<1>7. SubSeq(c, 1, Len(a)) = a
  <2> DEFINE x == SubSeq(c, 1, Len(a))
  <2>1. x \in Seq(Nat) /\ Len(x) = Len(a) /\ \A i \in 1..Len(x) : x[i] = a[i]
    BY <1>3, <1>5
  <2> HIDE DEF x
  <2>2. x = a
    BY <2>1, SeqEqual
  <2> QED BY <2>2 DEF x
<1>8. SubSeq(c, Len(a) + 1, Len(c)) = b
  <2> DEFINE x == SubSeq(c, Len(a) + 1, Len(c))
  <2>1. x \in Seq(Nat) /\ Len(x) = Len(b) /\ \A i \in 1..Len(x) : x[i] = b[i]
    BY <1>4, <1>6
  <2> HIDE DEF x
  <2>2. x = b
    BY <2>1, SeqEqual
  <2> QED BY <2>2 DEF x
<1>9. a # <<>> => Len(a) \in 1..Len(c)
  BY <1>1, <1>2
<1> QED BY <1>2, <1>7, <1>8, <1>9 DEF c

\* The first frame's data is the front of what is under way.
LEMMA HeadFirst ==
  ASSUME NEW s \in Seq(AnyFrame), s # <<>>, NEW b \in Seq(Nat)
  PROVE  /\ Head(s) \in AnyFrame /\ Tail(s) \in Seq(AnyFrame)
         /\ Head(s).data \in Seq(Nat)
         /\ Carried(Tail(s)) \o b \in Seq(Nat)
         /\ Carried(s) \o b = Head(s).data \o (Carried(Tail(s)) \o b)
<1>1. Head(s) \in AnyFrame /\ Tail(s) \in Seq(AnyFrame) /\ s = <<Head(s)>> \o Tail(s)
  OBVIOUS
<1>2. Carried(<<Head(s)>>) = Head(s).data /\ <<Head(s)>> \in Seq(AnyFrame)
  BY <1>1, CarriedOne
<1>3. /\ Carried(<<Head(s)>>) \in Seq(Nat) /\ Carried(Tail(s)) \in Seq(Nat)
      /\ Carried(<<Head(s)>> \o Tail(s)) = Carried(<<Head(s)>>) \o Carried(Tail(s))
  BY <1>1, <1>2, CarriedConcat
<1>4. Head(s).data \in Seq(Nat) /\ Carried(s) = Head(s).data \o Carried(Tail(s))
  BY <1>1, <1>2, <1>3, Zenon
<1> DEFINE h == Head(s).data
           c == Carried(Tail(s))
<1>5. h \in Seq(Nat) /\ c \in Seq(Nat)
  BY <1>3, <1>4
<1> HIDE DEF h, c
<1>6. c \o b \in Seq(Nat)
  BY <1>5, ConcatProperties, Zenon
<1>7. \A q, r \in Seq(Nat) : (h \o q) \o r = h \o (q \o r)
  BY <1>5, Associative, Zenon
<1>8. \A r \in Seq(Nat) : (h \o c) \o r = h \o (c \o r)
  BY <1>5, <1>7, Zenon
<1>9. (h \o c) \o b = h \o (c \o b)
  BY <1>8, Zenon
<1> QED BY <1>1, <1>4, <1>6, <1>9 DEF h, c

\* The variables of an open connection at the start.
LEMMA StreamTypesInit == Init => StreamTypes
<1>1. 0..Threshold \subseteq Nat /\ 0..Threshold \subseteq 0..MaxCredits /\ Initial \in [End -> 0..Threshold]
  BY CreditAssumption DEF U8Max
<1>2. ASSUME NEW S PROVE [e \in End |-> <<>>] \in [End -> Seq(S)]
  OBVIOUS
<1>3. \A e \in End : Other(e) \in End
  BY DEF Other, End
<1>4. [e \in End |-> Initial[Other(e)]] \in [End -> Nat] /\ Initial \in [End -> 0..MaxCredits]
  BY <1>1, <1>3
<1>5. [e \in End |-> 0] \in [End -> Nat]
  OBVIOUS
<1> QED BY <1>2, <1>4, <1>5 DEF Init, StreamTypes

\* A write puts its bytes at the end of the pipe.
LEMMA WritePuts ==
  ASSUME StreamTypes, NEW e \in End, NEW k \in 0..MaxWrite, Write(e, k)
  PROVE  /\ StreamTypes'
         /\ Stream!Put(e) \/ UNCHANGED <<Pipe, written, got>>
<1> DEFINE new == [i \in 1..k |-> written[e] + i]
<1>0. MaxWrite \in Nat /\ k \in Nat
  BY CreditAssumption
<1>1. written[e] \in Nat /\ new \in Seq(Nat) /\ buf[e] \in Seq(Nat) /\ wire[e] \in Seq(AnyFrame)
  BY <1>0 DEF StreamTypes
<1>2. tx[e] \in Nat /\ rx[e] \in 0..MaxCredits /\ wire \in [End -> Seq(AnyFrame)]
  BY DEF StreamTypes
<1>3. ProcessTx(e, wire, buf[e] \o new, tx[e], rx[e]) /\ UNCHANGED got /\ written' = [written EXCEPT ![e] = @ + k]
  BY DEF Write
<1> HIDE DEF new
<1>4. buf[e] \o new \in Seq(Nat)
  BY <1>1, ConcatProperties
<1>5. /\ buf' \in [End -> Seq(Nat)]
      /\ tx' \in [End -> Nat]
      /\ rx' \in [End -> 0..MaxCredits]
      /\ wire' \in [End -> Seq(AnyFrame)]
      /\ UnderWay(e)' = Carried(wire[e]) \o (buf[e] \o new)
      /\ Carried(wire[e]) \in Seq(Nat)
      /\ UnderWay(Other(e))' = Carried(wire[Other(e)]) \o buf[Other(e)]
  BY <1>2, <1>3, <1>4, ProcessTxCarries
<1>6. StreamTypes'
  <2>1. written' \in [End -> Nat] /\ got' \in [End -> Seq(Nat)]
    BY <1>0, <1>3 DEF StreamTypes
  <2> QED BY <1>5, <2>1 DEF StreamTypes
<1>7. UnderWay(e)' = UnderWay(e) \o new /\ UnderWay(Other(e))' = UnderWay(Other(e))
  <2> DEFINE x == Carried(wire[e])
             y == buf[e]
  <2>1. x \in Seq(Nat) /\ y \in Seq(Nat) /\ new \in Seq(Nat)
    BY <1>1, <1>5
  <2> HIDE DEF x, y
  <2>2. (x \o y) \o new = x \o (y \o new)
    BY <2>1, Associative, Zenon
  <2>3. UnderWay(e) = x \o y /\ UnderWay(Other(e)) = Carried(wire[Other(e)]) \o buf[Other(e)]
    BY DEF UnderWay, x, y
  <2> QED BY <2>2, <2>3, <1>5 DEF x, y
<1>8. Pipe' = [Pipe EXCEPT ![e] = Pipe[e] \o new]
  <2>1. Pipe' = [d \in End |-> UnderWay(d)'] /\ Pipe = [d \in End |-> UnderWay(d)]
    BY Zenon DEF Pipe
  <2>2. \A d \in End : d = e \/ d = Other(e)
    BY DEF End, Other
  <2>3. Other(e) # e
    BY DEF End, Other
  <2>4. \A d \in End : UnderWay(d)' = IF d = e THEN UnderWay(d) \o new ELSE UnderWay(d)
    BY <1>7, <2>2, <2>3, Zenon
  <2> QED BY <2>1, <2>4
<1>9. CASE k = 0
  <2>1. new = <<>>
    BY <1>9 DEF new
  <2>2. UnderWay(e) \in Seq(Nat)
    BY <1>1, <1>5, ConcatProperties DEF UnderWay
  <2>3. UnderWay(e) \o new = UnderWay(e)
    BY <2>1, <2>2
  <2>4. Pipe' = Pipe
    <3>1. Pipe = [d \in End |-> Pipe[d]] /\ Pipe[e] = UnderWay(e)
      BY DEF Pipe
    <3> QED BY <1>8, <2>3, <3>1
  <2>5. written' = written
    BY <1>1, <1>3, <1>9 DEF StreamTypes
  <2> QED BY <1>3, <1>6, <2>4, <2>5
<1>10. CASE k # 0
  <2>1. k \in 1..MaxWrite
    BY <1>0, <1>10
  <2>2. Stream!Put(e)
    BY <2>1, <1>3, <1>8 DEF Stream!Put, new
  <2> QED BY <1>6, <2>2
<1> QED BY <1>9, <1>10

\* A frame that arrives gets its data from the front of the pipe.
LEMMA ArrivalGets ==
  ASSUME StreamTypes, NEW e \in End, OnDlcUih(e)
  PROVE  /\ StreamTypes'
         /\ Stream!Get(e) \/ UNCHANGED <<Pipe, written, got>>
<1> DEFINE o == Other(e)
           f == Head(wire[o])
           w == [wire EXCEPT ![o] = Tail(@)]
<1>1. o \in End /\ o # e /\ Other(o) = e /\ o = 3 - e /\ \A d \in End : d = e \/ d = o
  BY DEF End, Other
<1>2. wire[o] # <<>> /\ UNCHANGED written /\ got' = [got EXCEPT ![e] = @ \o f.data]
  BY DEF OnDlcUih
<1>3. ProcessTx(e, w, buf[e], Topped(e, f), Spent(e, f))
  BY DEF OnDlcUih
<1> HIDE DEF o
<1>4. /\ wire \in [End -> Seq(AnyFrame)] /\ wire[o] \in Seq(AnyFrame)
      /\ buf[e] \in Seq(Nat) /\ buf[o] \in Seq(Nat)
      /\ tx[e] \in Nat /\ rx[e] \in 0..MaxCredits
      /\ got \in [End -> Seq(Nat)]
  BY <1>1 DEF StreamTypes
<1>5. /\ f \in AnyFrame /\ Tail(wire[o]) \in Seq(AnyFrame) /\ f.data \in Seq(Nat)
      /\ Carried(Tail(wire[o])) \o buf[o] \in Seq(Nat)
      /\ Carried(wire[o]) \o buf[o] = f.data \o (Carried(Tail(wire[o])) \o buf[o])
  BY <1>2, <1>4, HeadFirst
<1>6. w \in [End -> Seq(AnyFrame)] /\ w[o] = Tail(wire[o]) /\ w[e] = wire[e]
  BY <1>1, <1>4, <1>5
<1> HIDE DEF f, w
<1>7. Topped(e, f) \in Nat /\ Spent(e, f) \in 0..MaxCredits
  <2>1. f.credits \in Nat
    BY <1>5 DEF AnyFrame
  <2>2. Topped(e, f) \in Nat
    BY <2>1, <1>4 DEF Topped, Least, U8Max
  <2>3. MaxCredits \in Nat
    BY CreditAssumption DEF U8Max
  <2> QED BY <2>2, <2>3, <1>4 DEF Spent
<1>8. /\ buf' \in [End -> Seq(Nat)]
      /\ tx' \in [End -> Nat]
      /\ rx' \in [End -> 0..MaxCredits]
      /\ wire' \in [End -> Seq(AnyFrame)]
      /\ UnderWay(e)' = Carried(w[e]) \o buf[e]
      /\ UnderWay(Other(e))' = Carried(w[Other(e)]) \o buf[Other(e)]
  BY <1>3, <1>4, <1>6, <1>7, ProcessTxCarries
<1>9. StreamTypes'
  <2>1. written' \in [End -> Nat]
    BY <1>2 DEF StreamTypes
  <2>2. got[e] \o f.data \in Seq(Nat)
    BY <1>4, <1>5, ConcatProperties
  <2>3. got' \in [End -> Seq(Nat)]
    BY <1>2, <1>4, <2>2
  <2> QED BY <1>8, <2>1, <2>3 DEF StreamTypes
<1> DEFINE rest == Carried(Tail(wire[o])) \o buf[o]
<1>10. UnderWay(e)' = UnderWay(e) /\ UnderWay(o)' = rest /\ UnderWay(o) = f.data \o rest
  <2>1. UnderWay(e) = Carried(wire[e]) \o buf[e] /\ UnderWay(o) = Carried(wire[o]) \o buf[o]
    BY DEF UnderWay
  <2> QED BY <2>1, <1>5, <1>6, <1>8 DEF o
<1>11. f.data \in Seq(Nat) /\ rest \in Seq(Nat)
  BY <1>5
<1> HIDE DEF rest
<1>12. Pipe' = [Pipe EXCEPT ![o] = rest]
  <2>1. Pipe' = [d \in End |-> UnderWay(d)'] /\ Pipe = [d \in End |-> UnderWay(d)]
    BY Zenon DEF Pipe
  <2>2. \A d \in End : UnderWay(d)' = IF d = o THEN rest ELSE UnderWay(d)
    BY <1>1, <1>10, Zenon
  <2> QED BY <2>1, <2>2
<1>13. Pipe[o] = f.data \o rest
  BY <1>1, <1>10 DEF Pipe
<1>14. CASE f.data = <<>>
  <2>1. Pipe[o] = rest
    BY <1>11, <1>13, <1>14
  <2>2. Pipe' = Pipe
    <3>1. Pipe = [d \in End |-> Pipe[d]]
      BY DEF Pipe
    <3> QED BY <1>12, <2>1, <3>1
  <2>3. got' = got
    BY <1>2, <1>4, <1>14
  <2> QED BY <1>2, <1>9, <2>2, <2>3
<1>15. CASE f.data # <<>>
  <2> DEFINE k == Len(f.data)
  <2>1. /\ k \in 1..Len(f.data \o rest)
        /\ SubSeq(f.data \o rest, 1, k) = f.data
        /\ SubSeq(f.data \o rest, k + 1, Len(f.data \o rest)) = rest
    BY <1>11, <1>15, FrontAndRest
  <2> HIDE DEF k
  <2>2. k \in 1..Len(Pipe[o]) /\ SubSeq(Pipe[o], 1, k) = f.data /\ SubSeq(Pipe[o], k + 1, Len(Pipe[o])) = rest
    BY <2>1, <1>13
  <2>3. /\ got' = [got EXCEPT ![e] = @ \o SubSeq(Pipe[o], 1, k)]
        /\ Pipe' = [Pipe EXCEPT ![o] = SubSeq(@, k + 1, Len(@))]
    BY <1>2, <1>12, <2>2
  <2>4. Stream!Get(e)
    BY <1>1, <1>2, <2>2, <2>3 DEF Stream!Get
  <2> QED BY <1>9, <2>4
<1> QED BY <1>14, <1>15

\* RFCOMM implements a byte stream in each direction, for every MTU, credit limit and
\* low-water mark (process_tx, on_dlc_uih): also with the MTU of one byte for which
\* credits are lost.
THEOREM StreamTheorem == Spec => IsByteStream
<1>1. Init => StreamTypes /\ Stream!Init
  <2>1. Init => StreamTypes
    BY StreamTypesInit
  <2>2. ASSUME Init PROVE Stream!Init
    <3>1. \A e \in End : wire[e] = <<>> /\ buf[e] = <<>>
      BY <2>2 DEF Init
    <3>2. Carried(<<>>) \o <<>> = <<>>
      BY CarriedNone
    <3>3. \A e \in End : UnderWay(e) = <<>>
      BY <3>1, <3>2 DEF UnderWay
    <3> QED BY <2>2, <3>3 DEF Init, Stream!Init, Stream!Ends, End, Pipe
  <2> QED BY <2>1, <2>2
<1>2. StreamTypes /\ [Next]_vars
        => StreamTypes' /\ [Stream!Next]_<<Pipe, written, got>>
  <2> SUFFICES ASSUME StreamTypes, [Next]_vars
               PROVE  StreamTypes' /\ [Stream!Next]_<<Pipe, written, got>>
    OBVIOUS
  <2>0. Stream!Ends = End
    BY DEF Stream!Ends, End
  <2>1. ASSUME NEW e \in End, NEW k \in 0..MaxWrite, Write(e, k)
        PROVE  StreamTypes' /\ [Stream!Next]_<<Pipe, written, got>>
    BY <2>0, <2>1, WritePuts DEF Stream!Next
  <2>2. ASSUME NEW e \in End, OnDlcUih(e)
        PROVE  StreamTypes' /\ [Stream!Next]_<<Pipe, written, got>>
    BY <2>0, <2>2, ArrivalGets DEF Stream!Next
  <2>3. CASE UNCHANGED vars
    <3>1. StreamTypes'
      BY <2>3 DEF StreamTypes, vars
    <3>2. \A d \in End : UnderWay(d)' = UnderWay(d)
      BY <2>3 DEF UnderWay, Carried, vars
    <3> QED BY <2>3, <3>1, <3>2 DEF vars, Pipe
  <2> QED BY <2>1, <2>2, <2>3 DEF Next
<1> QED BY <1>1, <1>2, PTL DEF Spec, IsByteStream, Stream!Spec

================================================================================
