------------------------------ MODULE Subsequences ------------------------------
(***************************************************************************)
(* What is left of a sequence when the elements at some places are taken   *)
(* out (Vec::retain): SelectSeq in a form that theorems can be proved      *)
(* about, for the provers know nothing of SelectSeq.                       *)
(***************************************************************************)
EXTENDS Naturals, Sequences, FiniteSets, FunctionTheorems, FiniteSetTheorems,
        SequenceTheorems, TLAPS

\* How many of the places in I come no later than i.
Rank(I, i) == Cardinality({j \in I : j <= i})

\* The k-th of them.
Place(I, k) == CHOOSE i \in I : Rank(I, i) = k

\* The elements of s at the places in I, in order.
At(s, I) == [k \in 1 .. Cardinality(I) |-> s[Place(I, k)]]

--------------------------------------------------------------------------------

\* A set of natural numbers has a least element.  Induction over numbers, in the
\* form the provers can use: no smallest counterexample.
LEMMA LeastNatural ==
  ASSUME NEW T \in SUBSET Nat, T # {}
  PROVE  \E x \in T : \A y \in T : x <= y
<1> DEFINE R == {ss \in Nat \X Nat : ss[1] < ss[2]}
<1>1. IsWellFoundedOn(R, Nat)
  BY NatLessThanWellFounded DEF OpToRel
<1> HIDE DEF R
<1>2. PICK x \in T : \A y \in T : ~(<<y, x>> \in R)
  BY <1>1, WFMin
<1>3. \A y \in T : ~(y < x)
  BY <1>2 DEF R
<1>4. T \subseteq Nat
  OBVIOUS
<1> QED BY <1>3, <1>4

\* A place's rank is a place of what is left.
LEMMA RankType ==
  ASSUME NEW n \in Nat, NEW I \in SUBSET (1 .. n)
  PROVE  /\ IsFiniteSet(I) /\ Cardinality(I) \in Nat
         /\ \A i \in I : Rank(I, i) \in 1 .. Cardinality(I)
<1>1. IsFiniteSet(1 .. n)
  BY FS_Interval
<1>2. IsFiniteSet(I) /\ Cardinality(I) \in Nat
  BY <1>1, FS_Subset, FS_CardinalityType
<1>3. ASSUME NEW i \in I
      PROVE  Rank(I, i) \in 1 .. Cardinality(I)
  <2> DEFINE J == {j \in I : j <= i}
  <2>1. J \subseteq I /\ i \in J
    OBVIOUS
  <2>2. IsFiniteSet(J) /\ Cardinality(J) \in Nat /\ Cardinality(J) <= Cardinality(I)
    BY <1>2, <2>1, FS_Subset, FS_CardinalityType
  <2>3. Cardinality(J) # 0
    BY <2>1, <2>2, FS_EmptySet
  <2> QED BY <1>2, <2>2, <2>3 DEF Rank
<1> QED BY <1>2, <1>3

\* Later places have higher ranks.
LEMMA RankOrder ==
  ASSUME NEW n \in Nat, NEW I \in SUBSET (1 .. n), NEW i \in I, NEW j \in I, i < j
  PROVE  Rank(I, i) < Rank(I, j)
<1> DEFINE A == {k \in I : k <= i}
           B == {k \in I : k <= j}
<1>1. A \subseteq B /\ A # B /\ B \subseteq I
  <2>1. I \subseteq Nat /\ i \in Nat /\ j \in Nat
    OBVIOUS
  <2>2. j \in B /\ j \notin A
    BY <2>1
  <2>3. \A k \in I : k <= i => k <= j
    BY <2>1
  <2> QED BY <2>2, <2>3
<1>2. IsFiniteSet(B)
  BY <1>1, RankType, FS_Subset
<1>3. Cardinality(A) < Cardinality(B)
  <2> HIDE DEF A, B
  <2>1. A \in SUBSET B
    BY <1>1
  <2>2. IsFiniteSet(A) /\ Cardinality(A) <= Cardinality(B) /\ Cardinality(A) # Cardinality(B)
    BY <1>1, <1>2, <2>1, FS_Subset
  <2>3. Cardinality(A) \in Nat /\ Cardinality(B) \in Nat
    BY <1>2, <2>2, FS_CardinalityType
  <2> QED BY <2>2, <2>3
<1> QED BY <1>3 DEF Rank

\* Different places have different ranks.
LEMMA RankApart ==
  ASSUME NEW n \in Nat, NEW I \in SUBSET (1 .. n), NEW i \in I, NEW j \in I, i < j
  PROVE  Rank(I, i) # Rank(I, j)
<1>1. Rank(I, i) < Rank(I, j)
  BY RankOrder
<1>2. Rank(I, i) \in 1 .. Cardinality(I) /\ Rank(I, j) \in 1 .. Cardinality(I)
  BY RankType
<1>3. Cardinality(I) \in Nat
  BY RankType
<1> QED BY <1>1, <1>2, <1>3

\* Every place of what is left is some place's rank: ranks are an injection of I
\* into a set of its size.
LEMMA RankOnto ==
  ASSUME NEW n \in Nat, NEW I \in SUBSET (1 .. n), NEW k \in 1 .. Cardinality(I)
  PROVE  \E i \in I : Rank(I, i) = k
<1> DEFINE f == [i \in I |-> Rank(I, i)]
<1>1. IsFiniteSet(I) /\ Cardinality(I) \in Nat
  BY RankType
<1>2. f \in Injection(I, 1 .. Cardinality(I))
  <2>1. f \in [I -> 1 .. Cardinality(I)]
    BY RankType
  <2>2. ASSUME NEW a \in I, NEW b \in I, f[a] = f[b]
        PROVE  a = b
    <3>1. Rank(I, a) = Rank(I, b)
      BY <2>2
    <3>2. a \in Nat /\ b \in Nat
      OBVIOUS
    <3>3. ~(a < b) /\ ~(b < a)
      BY <3>1, RankApart
    <3> QED BY <3>2, <3>3
  <2> HIDE DEF f
  <2> QED BY <2>1, <2>2 DEF Injection, IsInjective
<1>3. IsFiniteSet(1 .. Cardinality(I)) /\ Cardinality(1 .. Cardinality(I)) = Cardinality(I)
  BY <1>1, FS_Interval
<1>4. f \in Surjection(I, 1 .. Cardinality(I))
  <2> HIDE DEF f
  <2> QED BY <1>1, <1>2, <1>3, FS_Injection
<1> QED BY <1>4 DEF Surjection

\* Place and Rank are each other's inverse.
LEMMA PlaceRank ==
  ASSUME NEW n \in Nat, NEW I \in SUBSET (1 .. n)
  PROVE  /\ \A k \in 1 .. Cardinality(I) : Place(I, k) \in I /\ Rank(I, Place(I, k)) = k
         /\ \A i \in I : Place(I, Rank(I, i)) = i
<1>1. ASSUME NEW k \in 1 .. Cardinality(I)
      PROVE  Place(I, k) \in I /\ Rank(I, Place(I, k)) = k
  BY RankOnto DEF Place
<1>2. ASSUME NEW i \in I
      PROVE  Place(I, Rank(I, i)) = i
  <2> DEFINE j == Place(I, Rank(I, i))
  <2>0. Rank(I, i) \in 1 .. Cardinality(I)
    BY RankType
  <2>1. j \in I /\ Rank(I, j) = Rank(I, i)
    BY <1>1, <2>0
  <2> HIDE DEF j
  <2>2. ~(i < j) /\ ~(j < i)
    BY <2>1, RankApart
  <2>3. i \in Nat /\ j \in Nat
    BY <2>1
  <2> QED BY <2>2, <2>3 DEF j
<1> QED BY <1>1, <1>2

\* What At keeps of a sequence: a sequence again, whose elements are those at the
\* places in I and no others, in their order (Vec::retain).
THEOREM AtPlaces ==
  ASSUME NEW S, NEW s \in Seq(S), NEW I \in SUBSET DOMAIN s
  PROVE  /\ At(s, I) \in Seq(S)
         /\ \A k \in DOMAIN At(s, I) :
              Place(I, k) \in I /\ At(s, I)[k] = s[Place(I, k)]
         /\ \A i \in I : Rank(I, i) \in DOMAIN At(s, I) /\ At(s, I)[Rank(I, i)] = s[i]
         /\ \A k, m \in DOMAIN At(s, I) : k < m => Place(I, k) < Place(I, m)
<1>1. Len(s) \in Nat /\ DOMAIN s = 1 .. Len(s) /\ \A i \in 1 .. Len(s) : s[i] \in S
  BY LenProperties, ElementOfSeq
<1> DEFINE c == Cardinality(I)
<1>2. I \in SUBSET (1 .. Len(s)) /\ c \in Nat
  BY <1>1, RankType
<1>3. \A k \in 1 .. c : Place(I, k) \in I /\ Rank(I, Place(I, k)) = k
  BY <1>1, <1>2, PlaceRank
<1>4. DOMAIN At(s, I) = 1 .. c /\ \A k \in 1 .. c : At(s, I)[k] = s[Place(I, k)]
  BY DEF At
<1>5. At(s, I) \in Seq(S)
  <2>1. \A k \in 1 .. c : At(s, I)[k] \in S
    BY <1>1, <1>2, <1>3, <1>4
  <2>2. At(s, I) \in [1 .. c -> S]
    BY <2>1 DEF At
  <2> HIDE DEF c
  <2> QED BY <1>2, <2>2
<1>6. \A i \in I : Rank(I, i) \in 1 .. c /\ Place(I, Rank(I, i)) = i
  BY <1>1, <1>2, RankType, PlaceRank
<1>7. ASSUME NEW k \in 1 .. c, NEW m \in 1 .. c, k < m
      PROVE  Place(I, k) < Place(I, m)
  <2> DEFINE a == Place(I, k)
             b == Place(I, m)
  <2>1. a \in I /\ b \in I /\ Rank(I, a) = k /\ Rank(I, b) = m
    BY <1>3
  <2>2. a \in Nat /\ b \in Nat
    BY <1>2, <2>1
  <2> HIDE DEF a, b
  <2>3. b < a => m < k
    BY <1>1, <1>2, <2>1, RankOrder
  <2>4. a # b
    BY <1>7, <1>2, <2>1
  <2>5. a < b
    BY <1>7, <1>2, <2>2, <2>3, <2>4
  <2> QED BY <2>5 DEF a, b
<1> HIDE DEF c
<1> QED BY <1>3, <1>4, <1>5, <1>6, <1>7

================================================================================
