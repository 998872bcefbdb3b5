--------------------------- MODULE Extrema_proofs ---------------------------
(***************************************************************************)
(* Least and greatest elements, for the proofs about MissionMerge,         *)
(* PassiveObserver and RecipesEngine, which look for the latest event, the *)
(* prompt that is answered and the next number.                            *)
(***************************************************************************)
EXTENDS Integers, FiniteSets, WellFoundedInduction, TLAPS

Less == OpToRel(<, Nat)

\* The order the least element is least in.
LEMMA LessDef == Less = {pair \in Nat \X Nat : pair[1] < pair[2]}
  BY DEF Less, OpToRel

\* A set of natural numbers has a least element: what a counterexample is sought with.
LEMMA MinExists ==
  ASSUME NEW S, S \subseteq Nat, S # {}
  PROVE  \E m \in S : \A x \in S : m <= x
  <1>1. IsWellFoundedOn(Less, Nat)
    BY NatLessThanWellFounded DEF Less
  <1>2. \A x, y \in Nat : x < y => <<x, y>> \in Less
    BY LessDef
  <1>3. PICK m \in S : \A x \in S : ~(<<x, m>> \in Less)
    BY <1>1, WFMin
  <1>4. \A x \in S : ~(x < m)
    BY <1>2, <1>3
  <1> QED BY <1>4

\* A bounded one has a greatest.
LEMMA MaxExists ==
  ASSUME NEW n \in Nat, NEW S, S \subseteq 0..n, S # {}
  PROVE  \E m \in S : \A x \in S : x <= m
  <1> DEFINE T == {n - x : x \in S}
  <1>1. T \subseteq Nat /\ T # {}
    <2>1. \A x \in S : n - x \in Nat
      OBVIOUS
    <2> QED BY <2>1
  <1>2. \E m \in T : \A x \in T : m <= x
    <2> HIDE DEF T
    <2> QED BY <1>1, MinExists
  <1>3. PICK m \in S : \A x \in S : n - m <= n - x
    BY <1>2
  <1> QED BY <1>3
=============================================================================
