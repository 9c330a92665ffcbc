------------------------------ MODULE Induction ------------------------------
(***************************************************************************)
(* Induction over the naturals for sets.  The library states induction for *)
(* predicates; a proof about a recursively defined function uses the set   *)
(* of the numbers for which its claim holds.                               *)
(***************************************************************************)
EXTENDS FiniteSetTheorems, TLAPS

(* A nonempty set of naturals has a least element: of the initial segments *)
(* 0..k that end in the set, one has no other inside it.                   *)
LEMMA LeastNumber ==
  ASSUME NEW T \in SUBSET Nat, T # {}
  PROVE  \E m \in T : \A k \in T : m <= k
<1> DEFINE Segments == {0..k : k \in T}
           Inside   == StrictSubsetOrdering(Nat)
<1>1. IsWellFoundedOn(Inside, FiniteSubsetsOf(Nat))
    BY FS_StrictSubsetOrderingWellFounded
<1>2. Segments \subseteq FiniteSubsetsOf(Nat) /\ Segments # {}
  <2>1. ASSUME NEW k \in T
        PROVE  0..k \in SUBSET Nat /\ IsFiniteSet(0..k)
    <3>1. k \in Int /\ 0 \in Int
        OBVIOUS
    <3> QED
        BY <3>1, FS_Interval
  <2> QED
      BY <2>1 DEF FiniteSubsetsOf
<1>3. PICK x \in Segments : \A y \in Segments : ~(<<y, x>> \in Inside)
  <2> HIDE DEF Segments, Inside
  <2> QED
      BY <1>1, <1>2, WFMin
<1>4. PICK m \in T : x = 0..m
    BY <1>3
<1>5. ASSUME NEW k \in T, k < m PROVE FALSE
  <2> DEFINE a == 0..k
             b == 0..m
  <2>1. a \in Segments
      OBVIOUS
  <2>2. a \in SUBSET Nat /\ b \in SUBSET Nat /\ a \subseteq b /\ a # b
      BY <1>5
  <2> HIDE DEF a, b
  <2>3. <<a, b>> \in Inside
      BY <2>2 DEF StrictSubsetOrdering
  <2> QED
      BY <2>1, <2>3, <1>3, <1>4 DEF b
<1> QED
    BY <1>5

(* A set that holds 0, and the successor of every natural it holds, holds  *)
(* all naturals.                                                           *)
LEMMA SetInduction ==
  ASSUME NEW S, 0 \in S, \A n \in Nat : n \in S => n + 1 \in S
  PROVE  Nat \subseteq S
<1> SUFFICES ASSUME Nat \ S # {} PROVE FALSE
    OBVIOUS
<1>1. PICK m \in Nat \ S : \A k \in Nat \ S : m <= k
    BY LeastNumber
<1>2. m # 0 /\ m - 1 \in Nat
    BY <1>1
<1>3. m - 1 \in S
    BY <1>1, <1>2
<1> QED
    BY <1>1, <1>2, <1>3
=============================================================================
