---------------------------- MODULE NaturalsLemmas ----------------------------
(***************************************************************************)
(* Facts about sets of natural numbers the proofs keep needing: a non-empty*)
(* set has a least element, and a finite one has a greatest.               *)
(***************************************************************************)
EXTENDS Integers, FiniteSetTheorems, WellFoundedInduction, TLAPS

\* A non-empty set of natural numbers has a least one.
LEMMA LeastNat ==
  ASSUME NEW I \in SUBSET Nat, I # {}
  PROVE  \E i \in I : \A j \in I : i <= j
<1>1. PICK i \in I : \A j \in I : ~(<<j, i>> \in OpToRel(<, Nat))
  BY NatLessThanWellFounded, WFMin
<1>2. \A j \in I : <<j, i>> \in OpToRel(<, Nat) <=> j < i
  BY DEF OpToRel
<1>3. \A j \in I : ~(j < i)
  BY <1>1, <1>2, Zenon
<1>4. ASSUME NEW j \in I PROVE i <= j
  <2>1. j \in Nat /\ i \in Nat /\ ~(j < i)
    BY <1>3, Zenon
  <2> HIDE <1>1
  <2> QED BY ONLY <2>1
<1> QED BY <1>4, Zenon

Above(S, x) == {y \in S : x < y}

\* A finite one has a greatest: the one with the fewest above it.
LEMMA GreatestNat ==
  ASSUME NEW S \in SUBSET Nat, S # {}, IsFiniteSet(S)
  PROVE  \E x \in S : \A y \in S : y <= x
<1> DEFINE Counts == {Cardinality(Above(S, x)) : x \in S}
<1>1. ASSUME NEW x \in S PROVE IsFiniteSet(Above(S, x)) /\ Cardinality(Above(S, x)) \in Nat
  <2>1. IsFiniteSet(Above(S, x))
    <3>1. Above(S, x) \in SUBSET S
      BY DEF Above
    <3> QED BY <3>1, FS_Subset, Zenon
  <2> QED BY <2>1, FS_CardinalityType
<1>2. Counts \in SUBSET Nat /\ Counts # {}
  BY <1>1
<1>3. PICK x \in S : \A z \in S : Cardinality(Above(S, x)) <= Cardinality(Above(S, z))
  <2>1. PICK c \in Counts : \A k \in Counts : c <= k
    <3> HIDE DEF Counts
    <3> QED BY <1>2, LeastNat
  <2> QED BY <2>1
<1>4. ASSUME NEW y \in S, x < y PROVE FALSE
  <2>0. x \in Nat /\ y \in Nat
    OBVIOUS
  <2>1. Above(S, y) \in SUBSET (Above(S, x) \ {y})
    <3>1. ASSUME NEW z \in Above(S, y) PROVE z \in S /\ x < z /\ z # y
      BY <1>4, <2>0, <3>1 DEF Above
    <3> QED BY <3>1 DEF Above
  <2>2. y \in Above(S, x)
    BY <1>4 DEF Above
  <2>3. IsFiniteSet(Above(S, x) \ {y}) /\ Cardinality(Above(S, x) \ {y}) = Cardinality(Above(S, x)) - 1
    BY <1>1, <2>2, FS_RemoveElement, Zenon
  <2>4. Cardinality(Above(S, y)) <= Cardinality(Above(S, x) \ {y})
    BY <2>1, <2>3, FS_Subset, Zenon
  <2>5. Cardinality(Above(S, x)) <= Cardinality(Above(S, y)) /\ Cardinality(Above(S, x)) \in Nat /\ Cardinality(Above(S, y)) \in Nat
    BY <1>1, <1>3, Zenon
  <2> QED BY <2>3, <2>4, <2>5
<1>5. ASSUME NEW y \in S PROVE y <= x
  BY <1>4
<1> QED BY <1>5, Zenon
===============================================================================
