------------------------------ MODULE Induction ------------------------------
(***************************************************************************)
(* Induction over the natural numbers, with the hypothesis as a set.  The  *)
(* theorems of NaturalsInduction have it as an operator, which no          *)
(* installed prover can give a value; that < is well-founded on Nat is a   *)
(* fact about sets, and the rest follows from it.                          *)
(***************************************************************************)
EXTENDS Integers, FiniteSetsExt, WellFoundedInduction, TLAPS

\* A set of natural numbers that is not empty has a least element.
LEMMA LeastOf ==
    ASSUME NEW T \in SUBSET Nat, T # {}
    PROVE  \E m \in T : \A n \in T : m <= n
<1> DEFINE R == OpToRel(<, Nat)
<1>1. IsWellFoundedOn(R, Nat)
  BY NatLessThanWellFounded
<1>2. \A x, y \in Nat : x < y => <<x, y>> \in R
  BY DEF OpToRel
<1> HIDE DEF R
<1>3. PICK m \in T : \A n \in T : ~(<<n, m>> \in R)
  BY <1>1, WFMin
<1>4. ASSUME NEW n \in T PROVE m <= n
  <2>1. m \in Nat /\ n \in Nat /\ ~(n < m)
    BY <1>2, <1>3
  <2> QED BY <2>1
<1> QED BY <1>4

\* One that is bounded has a greatest one, which Max is.
LEMMA GreatestOf ==
    ASSUME NEW k \in Nat, NEW p \in SUBSET (1 .. k), p # {}
    PROVE  Max(p) \in p /\ \A i \in p : i <= Max(p)
<1> DEFINE D == {k - i : i \in p}
<1>1. D \in SUBSET Nat /\ D # {}
  OBVIOUS
<1> HIDE DEF D
<1>2. PICK d \in D : \A e \in D : d <= e
  BY <1>1, LeastOf
<1>3. PICK m \in p : d = k - m
  BY <1>2 DEF D
<1>4. \A i \in p : i <= m
  <2> TAKE i \in p
  <2>1. k - m <= k - i
    BY <1>2, <1>3 DEF D
  <2> QED BY <2>1
<1>5. \E x \in p : \A y \in p : x >= y
  BY <1>3, <1>4
<1>6. Max(p) \in p /\ \A y \in p : Max(p) >= y
  BY <1>5 DEF Max
<1> QED BY <1>6

\* A set that has 0, and with each number up to n the next, has them all.
LEMMA Along ==
    ASSUME NEW n \in Nat, NEW T, 0 \in T,
           \A i \in 0 .. n - 1 : i \in T => i + 1 \in T
    PROVE  \A i \in 0 .. n : i \in T
<1> DEFINE M == {i \in 0 .. n : i \notin T}
<1> SUFFICES ASSUME M # {} PROVE FALSE
  OBVIOUS
<1>1. PICK m \in M : \A i \in M : m <= i
  <2>1. M \in SUBSET Nat
    OBVIOUS
  <2> HIDE DEF M
  <2> QED BY <2>1, LeastOf
<1>2. m \in 0 .. n /\ m \notin T /\ m # 0
  BY <1>1
<1>3. m - 1 \in 0 .. n - 1 /\ ~(m <= m - 1) /\ m - 1 + 1 = m
  BY <1>2
<1>4. m - 1 \in T
  BY <1>1, <1>3
<1> QED BY <1>2, <1>3, <1>4

\* The other way: from n down to 0.
LEMMA Back ==
    ASSUME NEW n \in Nat, NEW T, n \in T,
           \A i \in 0 .. n - 1 : i + 1 \in T => i \in T
    PROVE  \A i \in 0 .. n : i \in T
<1> DEFINE D == {i \in 0 .. n : n - i \in T}
<1>1. 0 \in D
  BY n - 0 = n
<1>2. ASSUME NEW i \in 0 .. n - 1, i \in D PROVE i + 1 \in D
  <2>1. n - (i + 1) \in 0 .. n - 1 /\ n - (i + 1) + 1 = n - i /\ i + 1 \in 0 .. n
    OBVIOUS
  <2>2. n - (i + 1) \in T
    BY <1>2, <2>1
  <2> QED BY <2>1, <2>2
<1> HIDE DEF D
<1>3. \A i \in 0 .. n : i \in D
  BY <1>1, <1>2, Along
<1>4. ASSUME NEW i \in 0 .. n PROVE i \in T
  <2>1. n - i \in 0 .. n /\ n - (n - i) = i
    OBVIOUS
  <2> QED BY <1>3, <2>1 DEF D
<1> QED BY <1>4
=============================================================================
