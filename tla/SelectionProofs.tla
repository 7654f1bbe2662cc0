--------------------------- MODULE SelectionProofs ---------------------------
(***************************************************************************)
(* What the other proofs use of finite sets of naturals: the least element *)
(* and the enumeration in increasing order.                                *)
(***************************************************************************)
EXTENDS Selection, FiniteSetTheorems, WellFoundedInduction, TLAPS

\* A set of naturals that is not empty has a least element.
LEMMA Least ==
  ASSUME NEW S \in SUBSET Nat, S # {}
  PROVE  \E m \in S : \A n \in S : m <= n
<1>1. PICK m \in S : \A n \in S : <<n, m>> \notin OpToRel(<, Nat)
  BY WFMin, NatLessThanWellFounded
<1>2. \A n \in S : ~(n < m)
  BY <1>1 DEF OpToRel
<1> QED BY <1>2

\* A set of naturals with an upper bound has a greatest element.
LEMMA Greatest ==
  ASSUME NEW S \in SUBSET Nat, S # {}, NEW b \in Nat, \A n \in S : n <= b
  PROVE  \E m \in S : \A n \in S : n <= m
<1> DEFINE T == {b - n : n \in S}
<1>1. T \in SUBSET Nat /\ T # {}
  <2>1. \A n \in S : n \in Nat /\ n <= b
    OBVIOUS
  <2>2. \A n \in S : b - n \in Nat
    BY <2>1
  <2> QED BY <2>2
<1>2. PICK t \in T : \A u \in T : t <= u
  BY <1>1, Least
<1>3. PICK m \in S : t = b - m
  BY <1>2
<1>4. \A n \in S : b - m <= b - n
  BY <1>2, <1>3
<1> QED BY <1>4

\* Ranks tell the elements of a set apart and follow their order.
LEMMA RankOrder ==
  ASSUME NEW S \in SUBSET Nat, IsFiniteSet(S)
  PROVE  /\ \A i \in S : Rank(S, i) \in 1 .. Cardinality(S)
         /\ \A i, j \in S : i < j <=> Rank(S, i) < Rank(S, j)
<1> DEFINE Upto(i) == {k \in S : k <= i}
<1>1. Cardinality(S) \in Nat /\ \A i \in S : /\ IsFiniteSet(Upto(i))
                                             /\ Cardinality(Upto(i)) \in Nat
                                             /\ Cardinality(Upto(i)) <= Cardinality(S)
  BY FS_Subset, FS_CardinalityType
<1>2. ASSUME NEW i \in S PROVE Cardinality(Upto(i)) # 0
  <2>1. i \in Upto(i)
    OBVIOUS
  <2> QED BY <1>1, <2>1, FS_EmptySet
<1>3. ASSUME NEW i \in S, NEW j \in S, i < j
      PROVE  Cardinality(Upto(i)) < Cardinality(Upto(j))
  <2>1. Upto(i) \in SUBSET Upto(j) /\ j \in Upto(j) /\ j \notin Upto(i)
    <3>1. i \in Nat /\ j \in Nat /\ \A k \in S : k \in Nat
      OBVIOUS
    <3>2. \A k \in S : k <= i => k <= j
      BY <1>3, <3>1
    <3>3. j <= j /\ ~(j <= i)
      BY <1>3, <3>1
    <3> QED BY <3>2, <3>3
  <2>2. Cardinality(Upto(i)) <= Cardinality(Upto(j)) /\ Upto(i) # Upto(j)
    BY <1>1, <2>1, FS_Subset
  <2>3. Cardinality(Upto(i)) # Cardinality(Upto(j))
    BY <1>1, <2>1, <2>2, FS_Subset
  <2> QED BY <1>1, <2>2, <2>3
<1> HIDE DEF Upto
<1>4. \A i \in S : Rank(S, i) = Cardinality(Upto(i))
  BY DEF Rank, Upto
<1> QED BY <1>1, <1>2, <1>3, <1>4

\* InOrder goes through every element once, in increasing order.
LEMMA InOrderEnumerates ==
  ASSUME NEW S \in SUBSET Nat, IsFiniteSet(S)
  PROVE  /\ Cardinality(S) \in Nat
         /\ InOrder(S) \in [1 .. Cardinality(S) -> S]
         /\ \A k, l \in 1 .. Cardinality(S) : k < l => InOrder(S)[k] < InOrder(S)[l]
         /\ \A i \in S : \E k \in 1 .. Cardinality(S) : InOrder(S)[k] = i
<1> DEFINE n == Cardinality(S)
           r == [i \in S |-> Rank(S, i)]
<1>1. n \in Nat /\ IsFiniteSet(1 .. n) /\ Cardinality(1 .. n) = n
  BY FS_CardinalityType, FS_Interval
<1>2. r \in [S -> 1 .. n] /\ \A i, j \in S : r[i] = r[j] => i = j
  BY RankOrder, <1>1
<1>3. r \in Injection(S, 1 .. n)
  BY <1>2 DEF Injection, IsInjective
<1>4. r \in Surjection(S, 1 .. n)
  BY <1>1, <1>3, FS_Injection
<1>5. \A k \in 1 .. n : \E i \in S : Rank(S, i) = k
  BY <1>4 DEF Surjection
<1>6. \A k \in 1 .. n : InOrder(S)[k] \in S /\ Rank(S, InOrder(S)[k]) = k
  BY <1>5 DEF InOrder
<1>7. InOrder(S) = [k \in 1 .. n |-> InOrder(S)[k]]
  BY DEF InOrder
<1>8. InOrder(S) \in [1 .. n -> S]
  BY <1>6, <1>7
<1>9. ASSUME NEW k \in 1 .. n, NEW l \in 1 .. n, k < l PROVE InOrder(S)[k] < InOrder(S)[l]
  BY <1>6, <1>9, RankOrder
<1>10. ASSUME NEW i \in S PROVE \E k \in 1 .. n : InOrder(S)[k] = i
  <2>1. Rank(S, i) \in 1 .. n
    BY RankOrder
  <2>2. Rank(S, InOrder(S)[Rank(S, i)]) = Rank(S, i) /\ InOrder(S)[Rank(S, i)] \in S
    BY <1>6, <2>1
  <2> QED BY <1>2, <2>1, <2>2
<1> QED BY <1>1, <1>8, <1>9, <1>10
==============================================================================
