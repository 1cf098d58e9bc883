-------------------------------- MODULE Induction --------------------------------
(***************************************************************************)
(* Induction over natural numbers in a form that speaks of a set, for the    *)
(* proofs about recursive functions and paths.                               *)
(***************************************************************************)
EXTENDS Integers, WellFoundedInduction, TLAPS

\* A set of natural numbers that is not empty has a least element.
LEMMA LeastNumber ==
  ASSUME NEW T \in SUBSET Nat, T # {}
  PROVE  \E x \in T : \A y \in T : x <= y
<1>1. PICK x \in T : \A y \in T : ~(<<y, x>> \in OpToRel(<, Nat))
  BY NatLessThanWellFounded, WFMin
<1>2. ASSUME NEW y \in T PROVE x <= y
  <2>1. ~(y < x)
    BY <1>1 DEF OpToRel
  <2> QED
    BY <2>1
<1> QED
  BY <1>2

\* What holds of zero, and of n + 1 if it holds of n, holds of every number.
LEMMA SetInduction ==
  ASSUME NEW S, 0 \in S, \A n \in Nat : n \in S => n + 1 \in S
  PROVE  Nat \subseteq S
<1>1. SUFFICES ASSUME Nat \ S # {} PROVE FALSE
  OBVIOUS
<1>2. PICK x \in Nat \ S : \A y \in Nat \ S : x <= y
  BY <1>1, LeastNumber
<1>3. x # 0 /\ x - 1 \in Nat
  BY <1>2
<1>4. x - 1 \in S
  BY <1>2, <1>3
<1> QED
  BY <1>2, <1>3, <1>4

\* Downwards from n.
LEMMA DownInduction ==
  ASSUME NEW n \in Nat, NEW S,
         \A k \in 1..n : (\A j \in k + 1..n : j \in S) => k \in S
  PROVE  1..n \subseteq S
<1> DEFINE Bad == {m \in 0..n : m < n /\ n - m \notin S}
<1>1. SUFFICES ASSUME NEW k \in 1..n, k \notin S PROVE FALSE
  OBVIOUS
<1>2. n - k \in Bad
  BY <1>1
<1>3. PICK m \in Bad : \A j \in Bad : m <= j
  <2>1. Bad # {}
    BY <1>2
  <2>2. Bad \in SUBSET Nat
    <3>1. \A x \in Bad : x \in Nat
      OBVIOUS
    <3> HIDE DEF Bad
    <3> QED
      BY <3>1
  <2> HIDE DEF Bad
  <2> QED
    BY <2>1, <2>2, LeastNumber
<1>4. \A j \in n - m + 1..n : j \in S
  <2>1. SUFFICES ASSUME NEW j \in n - m + 1..n, j \notin S PROVE FALSE
    OBVIOUS
  <2>2. n - j \in Bad /\ n - j < m
    BY <1>3, <2>1
  <2> QED
    BY <1>3, <2>2
<1> QED
  BY <1>3, <1>4
===============================================================================
