---------------------------- MODULE SetInduction ----------------------------
(***************************************************************************)
(* Induction over the naturals stated for sets, and a fact about ranks in  *)
(* sets of indices that follows from it.                                   *)
(***************************************************************************)
EXTENDS Integers, FiniteSets, FiniteSetTheorems, WellFoundedInduction, TLAPS

\* A nonempty set of naturals has a least element.
LEMMA NatLeast ==
    ASSUME NEW S \in SUBSET Nat, S # {}
    PROVE  \E x \in S : \A y \in S : x <= y
<1>1. IsWellFoundedOn(OpToRel(<, Nat), Nat)
  BY NatLessThanWellFounded
<1>2. PICK x \in S : \A y \in S : ~(<<y, x>> \in OpToRel(<, Nat))
  BY <1>1, WFMin
<1>3. \A y \in S : ~(y < x)
  BY <1>2 DEF OpToRel
<1> QED
  BY <1>3

\* A set that holds zero and the successor of each of its naturals holds all.
LEMMA NatInductionOnSets ==
    ASSUME NEW S, 0 \in S, \A n \in Nat : n \in S => n + 1 \in S
    PROVE  Nat \subseteq S
<1> SUFFICES ASSUME Nat \ S # {} PROVE FALSE
  OBVIOUS
<1>1. PICK x \in Nat \ S : \A y \in Nat \ S : x <= y
  BY NatLeast
<1>2. x # 0 /\ x - 1 \in Nat
  OBVIOUS
<1>3. x - 1 \in S
  BY <1>1, <1>2
<1> QED
  BY <1>2, <1>3

\* The j-th smallest element of a set of indices exists.
LEMMA NthExists ==
    ASSUME NEW n \in Nat, NEW K \in SUBSET (1..n), NEW j \in 1..Cardinality(K)
    PROVE  \E i \in K : Cardinality({k \in K : k <= i}) = j
<1> DEFINE Good == {m \in Nat : \A L \in SUBSET (1..m) : \A q \in 1..Cardinality(L) :
                        \E i \in L : Cardinality({k \in L : k <= i}) = q}
<1>1. 0 \in Good
  <2>1. \A L \in SUBSET (1..0) : L = {}
    OBVIOUS
  <2>2. Cardinality({}) = 0
    BY FS_EmptySet
  <2> QED
    BY <2>1, <2>2
<1>2. ASSUME NEW m \in Nat, m \in Good PROVE m + 1 \in Good
  <2> SUFFICES ASSUME NEW L \in SUBSET (1..(m + 1)), NEW q \in 1..Cardinality(L)
               PROVE  \E i \in L : Cardinality({k \in L : k <= i}) = q
    OBVIOUS
  <2>a. IsFiniteSet(1..(m + 1))
    <3> m + 1 \in Int
      OBVIOUS
    <3> QED
      BY FS_Interval
  <2>b. IsFiniteSet(L)
    BY <2>a, FS_Subset
  <2>1. CASE m + 1 \notin L
    <3>1. L \in SUBSET (1..m)
      BY <2>1
    <3> QED
      BY <1>2, <3>1
  <2>2. CASE m + 1 \in L
    <3> DEFINE M == L \ {m + 1}
    <3>1. M \in SUBSET (1..m)
      OBVIOUS
    <3>2. Cardinality(M) = Cardinality(L) - 1
      BY <2>b, <2>2, FS_RemoveElement
    <3>3. Cardinality(L) \in Nat /\ Cardinality(M) \in Nat
      BY <2>b, FS_CardinalityType, FS_Subset
    <3>4. CASE q = Cardinality(L)
      <4>1. \A k \in L : k <= m + 1
        OBVIOUS
      <4>2. {k \in L : k <= m + 1} = L
        BY <4>1
      <4> QED
        BY <2>2, <3>4, <4>2
    <3>5. CASE q # Cardinality(L)
      <4>1. q \in 1..Cardinality(M)
        BY <3>2, <3>3, <3>5
      <4>2. PICK i \in M : Cardinality({k \in M : k <= i}) = q
        BY <1>2, <3>1, <4>1
      <4>3. {k \in L : k <= i} = {k \in M : k <= i}
        BY <3>1, <4>2
      <4> QED
        BY <4>2, <4>3
    <3> QED
      BY <3>4, <3>5
  <2> QED
    BY <2>1, <2>2
<1> HIDE DEF Good
<1>3. Nat \subseteq Good
  BY <1>1, <1>2, NatInductionOnSets
<1> QED
  BY <1>3 DEF Good

=============================================================================
