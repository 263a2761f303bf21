---------------------------- MODULE NaturalLemmas ----------------------------
(***************************************************************************)
(* Facts about sets of natural numbers that the proofs about sequences use *)
(* in place of an induction: a least, a greatest element, and the ranks.   *)
(***************************************************************************)
EXTENDS Integers, FiniteSetTheorems, WellFoundedInduction, TLAPS

\* Every set of naturals that is not empty has a least element.
LEMMA LeastNatural ==
  ASSUME NEW T \in SUBSET Nat, T # {}
  PROVE  \E x \in T : \A y \in T : x <= y
<1> DEFINE R == OpToRel(<, Nat)
<1>1. IsWellFoundedOn(R, Nat)
  BY NatLessThanWellFounded
<1>2. ASSUME NEW x \in Nat, NEW y \in Nat, y < x PROVE <<y, x>> \in R
  BY <1>2 DEF OpToRel
<1> HIDE DEF R
<1>3. PICK x \in T : \A y \in T : ~(<<y, x>> \in R)
  BY <1>1, WFMin
<1>4. ASSUME NEW y \in T PROVE x <= y
  <2>1. ~(y < x)
    BY <1>2, <1>3
  <2> QED BY <2>1
<1> QED BY <1>4

\* Every set of numbers up to n that is not empty has a greatest element.
LEMMA GreatestUpTo ==
  ASSUME NEW n \in Nat, NEW B \in SUBSET (1 .. n), B # {}
  PROVE  \E x \in B : \A y \in B : y <= x
<1> DEFINE T == {n - i : i \in B}
<1>1. T \in SUBSET Nat /\ T # {}
  <2>1. \A i \in B : n - i \in Nat
    OBVIOUS
  <2> QED BY <2>1
<1> HIDE DEF T
<1>2. PICK t \in T : \A u \in T : t <= u
  BY <1>1, LeastNatural
<1>3. PICK x \in B : t = n - x
  BY DEF T
<1>4. ASSUME NEW y \in B PROVE y <= x
  <2>1. n - y \in T
    BY DEF T
  <2>2. n - x <= n - y
    BY <1>2, <1>3, <2>1
  <2> QED BY <2>2
<1> QED BY <1>4

\* How many elements of I are no greater than i.
Rank(I, i) == Cardinality({j \in I : j <= i})

\* The ranks of the elements of a finite set are the numbers up to its size.
LEMMA RankFacts ==
  ASSUME NEW I \in SUBSET Nat, IsFiniteSet(I)
  PROVE  /\ Cardinality(I) \in Nat
         /\ \A i \in I : Rank(I, i) \in 1 .. Cardinality(I)
         /\ \A i, k \in I : Rank(I, i) = Rank(I, k) => i = k
         /\ \A n \in 1 .. Cardinality(I) : \E i \in I : Rank(I, i) = n
<1> DEFINE Up(i) == {j \in I : j <= i}
<1>1. Cardinality(I) \in Nat
  BY FS_CardinalityType
<1>2. ASSUME NEW i \in I
      PROVE  /\ Up(i) \in SUBSET I /\ IsFiniteSet(Up(i)) /\ Rank(I, i) = Cardinality(Up(i))
             /\ Rank(I, i) \in 1 .. Cardinality(I)
  <2>1. Up(i) \in SUBSET I /\ i \in Up(i) /\ Rank(I, i) = Cardinality(Up(i))
    BY DEF Rank
  <2> HIDE DEF Up
  <2>2. IsFiniteSet(Up(i)) /\ Cardinality(Up(i)) <= Cardinality(I)
    BY <2>1, FS_Subset
  <2>3. Cardinality(Up(i)) \in Nat
    BY <2>2, FS_CardinalityType
  <2>4. Cardinality(Up(i)) # 0
    BY <2>1, <2>2, FS_EmptySet
  <2> QED BY <1>1, <2>1, <2>2, <2>3, <2>4
<1>3. ASSUME NEW i \in I, NEW k \in I, i < k PROVE Rank(I, i) # Rank(I, k)
  <2>1. Up(i) \in SUBSET Up(k) /\ k \in Up(k) /\ k \notin Up(i)
    <3>1. i \in Nat /\ k \in Nat /\ ~(k <= i)
      BY <1>3
    <3>2. ASSUME NEW j \in Up(i) PROVE j \in Up(k)
      BY <1>3, <3>1
    <3>3. k \in Up(k) /\ k \notin Up(i)
      BY <3>1
    <3> HIDE DEF Up
    <3> QED BY <3>2, <3>3
  <2> HIDE DEF Up
  <2>2. Up(i) # Up(k)
    BY <2>1
  <2>3. Cardinality(Up(k)) # Cardinality(Up(i))
    BY <1>2, <2>1, <2>2, FS_Subset
  <2> QED BY <1>2, <2>3
<1>4. \A i, k \in I : Rank(I, i) = Rank(I, k) => i = k
  <2>1. ASSUME NEW i \in I, NEW k \in I, i # k PROVE Rank(I, i) # Rank(I, k)
    <3>1. i < k \/ k < i
      BY <2>1
    <3> QED BY <1>3, <3>1
  <2> QED BY <2>1
<1>5. ASSUME NEW n \in 1 .. Cardinality(I) PROVE \E i \in I : Rank(I, i) = n
  <2> DEFINE f == [i \in I |-> Rank(I, i)]
             N == 1 .. Cardinality(I)
  <2>1. f \in Injection(I, N)
    BY <1>2, <1>4 DEF Injection, IsInjective
  <2>2. IsFiniteSet(N) /\ Cardinality(N) = Cardinality(I)
    BY <1>1, FS_Interval
  <2> HIDE DEF f, N
  <2>3. f \in Surjection(I, N)
    BY <2>1, <2>2, FS_Injection
  <2> QED BY <2>3 DEF Surjection, f, N
<1> QED BY <1>1, <1>2, <1>4, <1>5

=============================================================================
