------------------------------- MODULE OrderFacts -------------------------------
(***************************************************************************)
(* Facts about natural numbers and finite sets of them that the proofs of the   *)
(* other modules share.  The induction theorems of the library take an operator,  *)
(* which the provers cannot instantiate; the least-element principle below is      *)
(* about sets, and the inductions are arguments about a least counterexample.      *)
(***************************************************************************)
EXTENDS Integers, FiniteSets, FiniteSetTheorems, TLAPS

\* A non-empty set of natural numbers has a least element.
LEMMA NatLeast ==
    ASSUME NEW T, T \subseteq Nat, T # {}
    PROVE  \E x \in T : \A y \in T : x <= y
<1> DEFINE R == OpToRel(<, Nat)
<1>1. IsWellFoundedOn(R, Nat) BY NatLessThanWellFounded
<1>2. \A x, y \in Nat : x < y => <<x, y>> \in R BY DEF OpToRel
<1> HIDE DEF R
<1>3. PICK x \in T : \A y \in T : ~(<<y, x>> \in R) BY <1>1, WFMin
<1>4. ASSUME NEW y \in T PROVE x <= y
  <2>1. x \in Nat /\ y \in Nat OBVIOUS
  <2>2. ~(y < x) BY <1>2, <1>3, <2>1
  <2>3. QED BY <2>1, <2>2
<1>5. QED BY <1>4

HasMax(S) == \E m \in S : \A n \in S : n <= m

\* A non-empty finite set of natural numbers has a greatest element.
LEMMA FiniteMax ==
    ASSUME NEW S, S \subseteq Nat, IsFiniteSet(S), S # {}
    PROVE  HasMax(S)
<1> DEFINE Bad == {n \in Nat : \E X \in SUBSET Nat :
                      IsFiniteSet(X) /\ X # {} /\ Cardinality(X) = n /\ ~HasMax(X)}
<1>1. SUFFICES ASSUME ~HasMax(S) PROVE FALSE
  OBVIOUS
<1>2. Cardinality(S) \in Bad BY <1>1, FS_CardinalityType
<1>3. PICK n \in Bad : \A k \in Bad : n <= k BY <1>2, NatLeast
<1>4. PICK X \in SUBSET Nat : IsFiniteSet(X) /\ X # {} /\ Cardinality(X) = n /\ ~HasMax(X)
  BY <1>3
<1>5. PICK x \in X : TRUE BY <1>4
<1> DEFINE Y == X \ {x}
<1>6. IsFiniteSet(Y) /\ Cardinality(Y) = n - 1 BY <1>4, <1>5, FS_RemoveElement
<1>7. Cardinality(Y) \in Nat BY <1>6, FS_CardinalityType
<1>8. CASE Y = {} BY <1>4, <1>5, <1>8 DEF HasMax
<1>9. CASE Y # {}
  <2>1. n - 1 \notin Bad BY <1>3
  <2>2. HasMax(Y) BY <1>6, <1>7, <1>9, <2>1
  <2>3. PICK m \in Y : \A k \in Y : k <= m BY <2>2 DEF HasMax
  <2>4. m \in Nat /\ x \in Nat /\ m \in X BY <1>4, <1>5, <2>3
  <2>5. CASE x <= m
    <3>1. \A k \in X : k <= m BY <2>3, <2>5
    <3>2. QED BY <1>4, <2>4, <3>1 DEF HasMax
  <2>6. CASE m < x
    <3>1. \A k \in X : k <= x
      <4> TAKE k \in X
      <4>1. CASE k = x BY <4>1, <2>4
      <4>2. CASE k # x
        <5>1. k \in Nat /\ k <= m BY <2>3, <4>2
        <5>2. QED BY <5>1, <2>4, <2>6
      <4>3. QED BY <4>1, <4>2
    <3>2. QED BY <1>4, <3>1 DEF HasMax
  <2>7. QED BY <2>4, <2>5, <2>6
<1>10. QED BY <1>8, <1>9

Increasing(f, n) == \A i, j \in 1..n : i < j => f[i] < f[j]

\* A finite set of natural numbers can be listed in increasing order.
LEMMA SortedExists ==
    ASSUME NEW S, S \subseteq Nat, IsFiniteSet(S)
    PROVE  \E f \in [1..Cardinality(S) -> S] : Increasing(f, Cardinality(S))
<1> DEFINE Listable(X) == \E f \in [1..Cardinality(X) -> X] : Increasing(f, Cardinality(X))
<1> DEFINE Bad == {n \in Nat : \E X \in SUBSET Nat :
                      IsFiniteSet(X) /\ Cardinality(X) = n /\ ~Listable(X)}
<1>1. SUFFICES ASSUME ~Listable(S) PROVE FALSE
  OBVIOUS
<1>2. Cardinality(S) \in Bad BY <1>1, FS_CardinalityType
<1>3. PICK n \in Bad : \A k \in Bad : n <= k BY <1>2, NatLeast
<1>4. PICK X \in SUBSET Nat : IsFiniteSet(X) /\ Cardinality(X) = n /\ ~Listable(X)
  BY <1>3
<1>5. CASE X = {}
  <2>1. n = 0 BY <1>4, <1>5, FS_EmptySet
  <2>2. [i \in 1..0 |-> 0] \in [1..0 -> X] OBVIOUS
  <2>3. Increasing([i \in 1..0 |-> 0], 0) BY DEF Increasing
  <2>4. QED BY <1>4, <2>1, <2>2, <2>3
<1>6. CASE X # {}
  <2>1. PICK m \in X : \A k \in X : k <= m BY <1>4, <1>6, FiniteMax DEF HasMax
  <2> DEFINE Y == X \ {m}
  <2>2. IsFiniteSet(Y) /\ Cardinality(Y) = n - 1 BY <1>4, <2>1, FS_RemoveElement
  <2>3. n - 1 \in Nat BY <2>2, FS_CardinalityType
  <2>4. n - 1 \notin Bad BY <1>3
  <2>5. Listable(Y) BY <2>2, <2>3, <2>4
  <2>6. PICK f \in [1..n - 1 -> Y] : Increasing(f, n - 1) BY <2>2, <2>5
  <2> DEFINE h == [i \in 1..n |-> IF i = n THEN m ELSE f[i]]
  <2>7. \A i \in 1..n : i # n => i \in 1..n - 1 BY <2>3
  <2>8. h \in [1..n -> X] BY <2>6, <2>7
  <2>9. ASSUME NEW i \in 1..n, NEW j \in 1..n, i < j PROVE h[i] < h[j]
    <3>1. i \in 1..n - 1 /\ h[i] = f[i] BY <2>9, <2>7
    <3>2. CASE j = n
      <4>1. f[i] \in X /\ f[i] # m BY <2>6, <3>1
      <4>2. f[i] \in Nat /\ m \in Nat /\ f[i] <= m BY <2>1, <4>1
      <4>3. QED BY <3>1, <3>2, <4>1, <4>2
    <3>3. CASE j # n BY <2>6, <2>7, <2>9, <3>1, <3>3 DEF Increasing
    <3>4. QED BY <3>2, <3>3
  <2>10. Increasing(h, n) BY <2>9 DEF Increasing
  <2> HIDE DEF h
  <2>11. QED BY <1>4, <2>8, <2>10
<1>7. QED BY <1>5, <1>6
================================================================================
