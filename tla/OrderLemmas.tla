----------------------------- MODULE OrderLemmas -----------------------------
(***************************************************************************)
(* Facts about numbers that the proofs about lists need: a set of numbers  *)
(* has a least one, a finite one a greatest, and the k-th of a list is     *)
(* where counting up to it passes k.  No induction rule can be applied     *)
(* here, so the facts are drawn from the well-foundedness of the strict    *)
(* subset ordering on finite sets.                                         *)
(***************************************************************************)
EXTENDS Integers, FiniteSets, FiniteSetTheorems, WellFoundedInduction, TLAPS

\* Every set of natural numbers that has an element has a least one.
LEMMA Least ==
  ASSUME NEW T \in SUBSET Nat, T # {}
  PROVE  \E x \in T : \A y \in T : x <= y
<1> DEFINE Below == {0..n : n \in T}
<1>1. IsWellFoundedOn(StrictSubsetOrdering(Nat), FiniteSubsetsOf(Nat))
  BY FS_StrictSubsetOrderingWellFounded
<1>2. Below \subseteq FiniteSubsetsOf(Nat) /\ Below # {}
  <2>1. ASSUME NEW n \in T PROVE 0..n \in FiniteSubsetsOf(Nat)
    <3>1. IsFiniteSet(0..n) /\ 0..n \in SUBSET Nat
      BY FS_Interval
    <3> QED
      BY <3>1 DEF FiniteSubsetsOf
  <2> QED
    BY <2>1
<1> HIDE DEF Below
<1>3. PICK S \in Below : \A R \in Below : <<R, S>> \notin StrictSubsetOrdering(Nat)
  BY <1>1, <1>2, WFMin
<1> USE DEF Below
<1>4. PICK x \in T : S = 0..x
  OBVIOUS
<1>5. ASSUME NEW y \in T, y < x PROVE FALSE
  <2>1. 0..y \in SUBSET Nat /\ 0..x \in SUBSET Nat /\ 0..y \subseteq 0..x /\ x \notin 0..y /\ x \in 0..x
    BY <1>5
  <2>2. <<0..y, 0..x>> \in StrictSubsetOrdering(Nat)
    BY <2>1 DEF StrictSubsetOrdering
  <2> QED
    BY <1>3, <1>4, <2>2
<1> QED
  BY <1>5

\* Every finite set of natural numbers that has an element has a greatest one.
LEMMA Greatest ==
  ASSUME NEW T \in SUBSET Nat, T # {}, IsFiniteSet(T)
  PROVE  \E x \in T : \A y \in T : y <= x
<1> DEFINE From(x) == {y \in T : x <= y}
           Above == {From(x) : x \in T}
<1>1. IsWellFoundedOn(StrictSubsetOrdering(T), FiniteSubsetsOf(T))
  BY FS_StrictSubsetOrderingWellFounded
<1>2. Above \subseteq FiniteSubsetsOf(T) /\ Above # {}
  <2>1. ASSUME NEW x \in T PROVE From(x) \in FiniteSubsetsOf(T)
    <3>1. From(x) \in SUBSET T
      OBVIOUS
    <3>2. IsFiniteSet(From(x))
      BY <3>1, FS_Subset
    <3> QED
      BY <3>1, <3>2 DEF FiniteSubsetsOf
  <2> QED
    BY <2>1
<1> HIDE DEF Above
<1>3. PICK S \in Above : \A R \in Above : <<R, S>> \notin StrictSubsetOrdering(T)
  BY <1>1, <1>2, WFMin
<1> USE DEF Above
<1>4. PICK x \in T : S = From(x)
  OBVIOUS
<1>5. ASSUME NEW y \in T, x < y PROVE FALSE
  <2>1. From(y) \in SUBSET T /\ From(x) \in SUBSET T
    OBVIOUS
  <2>2. \A z \in T : y <= z => x <= z
    BY <1>5
  <2>3. From(y) \subseteq From(x)
    BY <2>2
  <2>4. x \notin From(y) /\ x \in From(x)
    BY <1>5
  <2>5. <<From(y), From(x)>> \in StrictSubsetOrdering(T)
    <3> HIDE DEF From
    <3> QED
      BY <2>1, <2>3, <2>4 DEF StrictSubsetOrdering
  <2> QED
    BY <1>3, <1>4, <2>5
<1> QED
  BY <1>5

\* A finite set of numbers has a k-th element for every k up to its size: the one
\* up to which there are k.
LEMMA KthElement ==
  ASSUME NEW S \in SUBSET Nat, IsFiniteSet(S), NEW k \in 1..Cardinality(S)
  PROVE  \E i \in S : Cardinality({j \in S : j <= i}) = k
<1> DEFINE UpTo(i) == {j \in S : j <= i}
           Enough == {i \in Nat : k <= Cardinality(UpTo(i))}
<1>1. \A i \in Int : IsFiniteSet(UpTo(i)) /\ Cardinality(UpTo(i)) \in Nat
  <2>1. ASSUME NEW i \in Int PROVE IsFiniteSet(UpTo(i))
    <3>1. UpTo(i) \subseteq S
      OBVIOUS
    <3> QED
      BY <3>1, FS_Subset
  <2> QED
    BY <2>1, FS_CardinalityType
<1>2. k \in Nat \ {0} /\ Cardinality(S) \in Nat
  BY FS_CardinalityType
<1>3. S # {}
  <2>1. Cardinality(S) # 0
    BY <1>2
  <2> QED
    BY <2>1, FS_EmptySet
<1>4. Enough # {}
  <2>1. PICK top \in S : \A j \in S : j <= top
    BY <1>3, Greatest
  <2>2. UpTo(top) = S
    BY <2>1
  <2>3. k <= Cardinality(UpTo(top)) /\ top \in Nat
    BY <2>2, <1>2
  <2> QED
    BY <2>3
<1> HIDE DEF Enough
<1>5. PICK i \in Enough : \A j \in Enough : i <= j
  <2>1. Enough \in SUBSET Nat
    BY DEF Enough
  <2> QED
    BY <2>1, <1>4, Least
<1>6. i \in Nat /\ k <= Cardinality(UpTo(i))
  BY <1>5 DEF Enough
<1>7. Cardinality(UpTo(i - 1)) < k
  <2>1. CASE i = 0
    <3>1. UpTo(i - 1) = {}
      <4>1. \A j \in S : ~(j <= i - 1)
        BY <2>1
      <4> QED
        BY <4>1
    <3> HIDE DEF UpTo
    <3>2. Cardinality(UpTo(i - 1)) = 0
      BY <3>1, FS_EmptySet
    <3> QED
      BY <3>2, <1>2
  <2>2. CASE i # 0
    <3>1. i - 1 \in Nat /\ i - 1 \notin Enough
      BY <2>2, <1>5, <1>6
    <3> HIDE DEF UpTo
    <3> QED
      BY <3>1, <1>1, <1>2 DEF Enough
  <2> QED
    BY <2>1, <2>2
<1>8. i \in S
  <2> SUFFICES ASSUME i \notin S PROVE FALSE
    OBVIOUS
  <2>1. UpTo(i) = UpTo(i - 1)
    <3>1. \A j \in S : j <= i <=> j <= i - 1
      BY <1>6
    <3> QED
      BY <3>1
  <2> HIDE DEF UpTo
  <2> QED
    BY <2>1, <1>1, <1>2, <1>6, <1>7
<1>9. UpTo(i) = UpTo(i - 1) \cup {i} /\ i \notin UpTo(i - 1)
  <2>1. \A j \in S : j <= i <=> (j <= i - 1 \/ j = i)
    BY <1>6
  <2>2. ~(i <= i - 1)
    BY <1>6
  <2> QED
    BY <1>8, <2>1, <2>2
<1>10. i - 1 \in Int
  BY <1>6
<1> HIDE DEF UpTo
<1>11. Cardinality(UpTo(i)) = Cardinality(UpTo(i - 1)) + 1
  BY <1>1, <1>9, <1>10, FS_AddElement
<1>12. Cardinality(UpTo(i)) = k
  BY <1>1, <1>2, <1>6, <1>7, <1>10, <1>11
<1> QED
  BY <1>8, <1>12 DEF UpTo
=============================================================================
