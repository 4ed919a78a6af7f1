---------------------------- MODULE SetInduction ----------------------------
(***************************************************************************)
(* Induction over the numbers, stated about sets, for the proofs of the    *)
(* other modules: the library's own theorem is about a predicate, which    *)
(* the provers would have to find.                                         *)
(***************************************************************************)
EXTENDS Integers, WellFoundedInduction, TLAPS

\* The order of the numbers, as a set of pairs.
Below == {ss \in Nat \X Nat : ss[1] < ss[2]}

(* The numbers have no endless descent.                                     *)
LEMMA BelowWellFounded == IsWellFoundedOn(Below, Nat)
BY NatLessThanWellFounded DEF Below, OpToRel

(* Induction over the numbers, about a set: a set that holds 0 and, with a  *)
(* number, the next, holds them all.                                        *)
LEMMA NatSetInduction ==
    ASSUME NEW T, 0 \in T, \A n \in Nat : n \in T => n + 1 \in T
    PROVE  Nat \subseteq T
<1> SUFFICES ASSUME Nat \ T # {} PROVE FALSE
  OBVIOUS
<1> DEFINE U == Nat \ T
<1>1. PICK x \in U : \A y \in U : ~(<<y, x>> \in Below)
  <2> HIDE DEF U
  <2>1. U \subseteq Nat /\ U # {}
    BY DEF U
  <2> QED
    BY <2>1, BelowWellFounded, WFMin
<1>2. x \in Nat /\ x # 0 /\ x - 1 \in Nat /\ x - 1 + 1 = x
  OBVIOUS
<1>3. x - 1 \in U
  BY <1>2
<1>4. <<x - 1, x>> \in Below
  BY <1>2 DEF Below
<1> QED
  BY <1>1, <1>3, <1>4

(* A set of numbers that is not empty has a least one.                      *)
LEMMA LeastNumber ==
    ASSUME NEW I, I \subseteq Nat, I # {}
    PROVE  \E m \in I : \A j \in I : m <= j
<1>1. PICK x \in I : \A y \in I : ~(<<y, x>> \in Below)
  BY BelowWellFounded, WFMin
<1>2. ASSUME NEW y \in I, ~(x <= y)
      PROVE  FALSE
  <2>1. <<y, x>> \in Below
    BY <1>2 DEF Below
  <2> QED
    BY <1>1, <2>1
<1> QED
  BY <1>2
=============================================================================
