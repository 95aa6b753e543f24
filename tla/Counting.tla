------------------------------ MODULE Counting ------------------------------
(* What the other proofs need of numbers: a set of natural numbers that is *)
(* not empty has a least one, and a counter follows a finite set that      *)
(* gains or loses an element.                                              *)
EXTENDS Integers, FiniteSetTheorems, WellFoundedInduction, TLAPS

-----------------------------------------------------------------------------

Less == {p \in Nat \X Nat : p[1] < p[2]}

LEMMA LessIsWellFounded == IsWellFoundedOn(Less, Nat)
BY NatLessThanWellFounded, Zenon DEF Less, OpToRel

LEMMA LeastNumber ==
  ASSUME NEW S \in SUBSET Nat, S # {}
  PROVE  \E m \in S : \A i \in S : m =< i
<1>1. PICK m \in S : \A i \in S : ~(<<i, m>> \in Less)
  <2> HIDE DEF Less
  <2>1. S \subseteq Nat
    OBVIOUS
  <2> QED
    BY <2>1, LessIsWellFounded, WFMin, Zenon
<1>2. \A i \in S : <<i, m>> \in Nat \X Nat
  OBVIOUS
<1>3. \A i \in S : ~(i < m)
  BY <1>1, <1>2 DEF Less
<1> QED
  BY <1>3

-----------------------------------------------------------------------------
(* A counter that is not below a set's size ...                            *)
LEMMA CountAdd ==
  ASSUME NEW S, IsFiniteSet(S), NEW c, NEW n \in Int, n >= Cardinality(S)
  PROVE  n + 1 >= Cardinality(S \cup {c})
BY FS_AddElement, FS_CardinalityType

LEMMA CountRemove ==
  ASSUME NEW S, IsFiniteSet(S), NEW c \in S, NEW n \in Int, n >= Cardinality(S)
  PROVE  n - 1 >= Cardinality(S \ {c})
<1>1. Cardinality(S \ {c}) = Cardinality(S) - 1
  BY FS_RemoveElement
<1>2. Cardinality(S) \in Nat
  BY FS_CardinalityType
<1> QED
  BY <1>1, <1>2

LEMMA CountSubset ==
  ASSUME NEW S, IsFiniteSet(S), NEW T \in SUBSET S, NEW n \in Int,
         n >= Cardinality(S)
  PROVE  n >= Cardinality(T)
BY FS_Subset, FS_CardinalityType

(* ... and one that is not above it.                                       *)
LEMMA CountedAdd ==
  ASSUME NEW S, IsFiniteSet(S), NEW c, c \notin S, NEW n \in Int, n =< Cardinality(S)
  PROVE  n + 1 =< Cardinality(S \cup {c})
<1>1. Cardinality(S \cup {c}) = Cardinality(S) + 1
  BY FS_AddElement
<1>2. Cardinality(S) \in Nat
  BY FS_CardinalityType
<1> QED
  BY <1>1, <1>2

LEMMA CountedRemove ==
  ASSUME NEW S, IsFiniteSet(S), NEW c, NEW n \in Int, n =< Cardinality(S)
  PROVE  n - 1 =< Cardinality(S \ {c})
<1>1. Cardinality(S \ {c}) >= Cardinality(S) - 1
  BY FS_RemoveElement, FS_CardinalityType
<1>2. Cardinality(S) \in Nat /\ Cardinality(S \ {c}) \in Nat
  BY FS_RemoveElement, FS_CardinalityType
<1> QED
  BY <1>1, <1>2

LEMMA CountedSuperset ==
  ASSUME NEW S, IsFiniteSet(S), NEW T \in SUBSET S, NEW n \in Int,
         n =< Cardinality(T)
  PROVE  n =< Cardinality(S)
BY FS_Subset, FS_CardinalityType

(* A counter not below the size of a set it proves empty or a singleton.   *)
LEMMA CountNone ==
  ASSUME NEW S, IsFiniteSet(S), NEW n \in Int, n >= Cardinality(S), n =< 0
  PROVE  S = {}
<1>1. Cardinality(S) \in Nat
  BY FS_CardinalityType
<1>2. Cardinality(S) = 0
  BY <1>1
<1> QED
  BY <1>2, FS_EmptySet

(* ... and one not above it that proves it inhabited.                      *)
LEMMA CountedSome ==
  ASSUME NEW S, IsFiniteSet(S), NEW n \in Int, n =< Cardinality(S), n > 0
  PROVE  S # {}
BY FS_EmptySet
=============================================================================
