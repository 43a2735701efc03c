------------------------------ MODULE Induction ------------------------------
(***************************************************************************)
(* Induction over the naturals in a form first-order provers can use: the  *)
(* property is a set, not an operator.                                     *)
(***************************************************************************)
EXTENDS Integers, NaturalsInduction, WellFoundedInduction, TLAPS

\* A set of naturals that is not empty has a least element.
LEMMA Least ==
    ASSUME NEW T \in SUBSET Nat, T # {}
    PROVE  \E x \in T : \A y \in T : x <= y
  <1> DEFINE R == OpToRel(<, Nat)
  <1>1. IsWellFoundedOn(R, Nat)
    BY NatLessThanWellFounded
  <1>2. \A p \in Nat \X Nat : p[1] < p[2] => p \in R
    BY DEF OpToRel
  <1> HIDE DEF R
  <1>3. PICK x \in T : \A y \in T : ~(<<y, x>> \in R)
    BY <1>1, WFMin
  <1>4. ASSUME NEW y \in T PROVE x <= y
    <2>1. <<y, x>> \in Nat \X Nat /\ <<y, x>>[1] = y /\ <<y, x>>[2] = x
      OBVIOUS
    <2> QED BY <1>2, <1>3, <2>1
  <1> QED BY <1>4

\* A set with 0 and the successor of each of its naturals has all naturals.
LEMMA SetInduction ==
    ASSUME NEW S, 0 \in S, \A n \in Nat : n \in S => n + 1 \in S
    PROVE  Nat \subseteq S
  <1> SUFFICES ASSUME Nat \ S # {} PROVE FALSE
    OBVIOUS
  <1>1. PICK x \in Nat \ S : \A y \in Nat \ S : x <= y
    BY Least
  <1>2. x - 1 \in Nat /\ x - 1 \in S
    BY <1>1
  <1> QED BY <1>2

\* What is reached from a in S by n steps, the k-th of them step[k].
Iterates(S, a, n, step) ==
    \E p \in [0..n -> S] : p[0] = a /\ \A k \in 1..n : p[k] = step[k][p[k - 1]]

\* A function on 0..n that is defined by its value at 0 and by what the k-th
\* step makes of its value at k - 1 exists, for steps within a set S.
LEMMA Iteration ==
    ASSUME NEW S, NEW a \in S, NEW n \in Nat, NEW step \in [1..n -> [S -> S]]
    PROVE  Iterates(S, a, n, step)
  <1> DEFINE Upto(m, p) == p[0] = a /\ \A k \in 1..m : p[k] = step[k][p[k - 1]]
             T == {m \in Nat : m <= n => \E p \in [0..m -> S] : Upto(m, p)}
  <1>1. 0 \in T
    <2>1. [k \in 0..0 |-> a] \in [0..0 -> S] /\ Upto(0, [k \in 0..0 |-> a])
      OBVIOUS
    <2> QED BY <2>1
  <1>2. ASSUME NEW m \in Nat, m \in T PROVE m + 1 \in T
    <2> SUFFICES ASSUME m + 1 <= n PROVE \E q \in [0..(m + 1) -> S] : Upto(m + 1, q)
      OBVIOUS
    <2>1. PICK p \in [0..m -> S] : Upto(m, p)
      BY <1>2
    <2> DEFINE q == [k \in 0..(m + 1) |-> IF k = m + 1 THEN step[m + 1][p[m]] ELSE p[k]]
    <2>2. p[m] \in S /\ step[m + 1] \in [S -> S]
      OBVIOUS
    <2>3. q \in [0..(m + 1) -> S] /\ q[m + 1] = step[m + 1][p[m]]
      BY <2>2
    <2>4. \A k \in 0..m : q[k] = p[k]
      OBVIOUS
    <2> HIDE DEF q
    <2>5. Upto(m + 1, q)
      <3>1. q[0] = a
        BY <2>1, <2>4
      <3>2. ASSUME NEW k \in 1..(m + 1) PROVE q[k] = step[k][q[k - 1]]
        <4>1. CASE k = m + 1
          <5>1. k - 1 = m /\ q[m] = p[m]
            BY <2>4, <4>1
          <5> QED BY <2>3, <4>1, <5>1
        <4>2. CASE k \in 1..m
          <5>1. k \in 0..m /\ k - 1 \in 0..m
            BY <4>2
          <5> QED BY <2>1, <2>4, <4>2, <5>1
        <4> QED BY <4>1, <4>2
      <3> QED BY <3>1, <3>2
    <2> QED BY <2>3, <2>5
  <1> HIDE DEF T
  <1>3. n \in T
    BY <1>1, <1>2, SetInduction
  <1> QED BY <1>3 DEF T, Iterates
=============================================================================
