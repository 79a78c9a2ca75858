----------------------------- MODULE Arithmetic -----------------------------
(***************************************************************************)
(* Lemmas on numbers that the proofs about sizes and offsets need: how     *)
(* division behaves, and induction, stated of a set of numbers so that the *)
(* provers can use it.                                                     *)
(***************************************************************************)
EXTENDS FiniteSetTheorems, TLAPS

-----------------------------------------------------------------------------
(* Induction *)

\* Some number in a set of them is the least: the intervals up to its members are
\* finite sets, and there is no endless descent among those.
LEMMA LeastNumber ==
  ASSUME NEW T \in SUBSET Nat, T # {}
  PROVE  \E m \in T : \A k \in T : m <= k
<1> DEFINE R == StrictSubsetOrdering(Nat)
           F == FiniteSubsetsOf(Nat)
           B == {0..m : m \in T}
<1>1. IsWellFoundedOn(R, F)
  BY FS_StrictSubsetOrderingWellFounded
<1>2. B \subseteq F
  <2> SUFFICES ASSUME NEW m \in T PROVE 0..m \in F
    OBVIOUS
  <2>1. IsFiniteSet(0..m)
    BY FS_Interval
  <2> QED
    BY <2>1 DEF FiniteSubsetsOf
<1>3. B # {}
  OBVIOUS
<1>4. \E x \in B : \A y \in B : <<y, x>> \notin R
  <2> HIDE DEF R, F, B
  <2> QED
    BY <1>1, <1>2, <1>3, WFMin
<1>5. PICK m \in T : \A y \in B : <<y, 0..m>> \notin R
  BY <1>4
<1>6. ASSUME NEW k \in T, k < m PROVE FALSE
  <2>1. 0..k \in B /\ 0..k \subseteq 0..m /\ m \notin 0..k /\ m \in 0..m
    BY <1>6
  <2>2. <<0..k, 0..m>> \in R
    BY <2>1 DEF StrictSubsetOrdering
  <2> QED
    BY <1>5, <2>1, <2>2
<1> QED
  BY <1>6

\* A set with 0 and, with every number up to n, the next one, has all up to n.
LEMMA InductionUpTo ==
  ASSUME NEW n \in Nat, NEW S, 0 \in S, \A k \in 0..n-1 : k \in S => k + 1 \in S
  PROVE  0..n \subseteq S
<1> SUFFICES ASSUME NEW i \in 0..n, i \notin S PROVE FALSE
  OBVIOUS
<1> DEFINE T == (0..n) \ S
<1>1. PICK m \in T : \A k \in T : m <= k
  <2>1. T \in SUBSET Nat /\ T # {}
    OBVIOUS
  <2> HIDE DEF T
  <2> QED
    BY <2>1, LeastNumber
<1>2. m # 0 /\ m - 1 \in 0..n-1 /\ m - 1 \in S
  BY <1>1
<1> QED
  BY <1>1, <1>2

-----------------------------------------------------------------------------
(* Division *)

\* A quotient and what it leaves.
LEMMA DivBounds ==
  ASSUME NEW n \in Nat, NEW d \in Nat \ {0}
  PROVE  /\ n \div d \in Nat
         /\ (n \div d) * d <= n /\ n < (n \div d) * d + d
  OBVIOUS

\* Products grow with their factors.
LEMMA TimesMonotonic ==
  ASSUME NEW a \in Nat, NEW b \in Nat, NEW d \in Nat, a <= b
  PROVE  a * d <= b * d
  OBVIOUS

\* What a division leaves is no greater than what is divided.
LEMMA DivShrinks ==
  ASSUME NEW n \in Nat, NEW d \in Nat \ {0}
  PROVE  n \div d \in Nat /\ n \div d <= n
<1> DEFINE q == n \div d
<1>1. q \in Nat /\ q * d <= n
  BY DivBounds
<1> HIDE DEF q
<1>2. q * d \in Nat /\ q <= q * d
  BY <1>1
<1>3. q <= n
  BY <1>1, <1>2
<1> QED
  BY <1>1, <1>3 DEF q

\* A quotient is the only number with those bounds.
LEMMA DivUnique ==
  ASSUME NEW n \in Nat, NEW d \in Nat \ {0}, NEW q \in Nat, q * d <= n, n < q * d + d
  PROVE  n \div d = q
<1> DEFINE r == n \div d
<1>1. r \in Nat /\ r * d <= n /\ n < r * d + d
  BY DivBounds
<1> HIDE DEF r
<1>2. ASSUME r < q PROVE FALSE
  <2>1. (r + 1) * d <= q * d
    BY <1>1, <1>2, TimesMonotonic
  <2>2. (r + 1) * d = r * d + d
    BY <1>1
  <2> QED
    BY <1>1, <2>1, <2>2
<1>3. ASSUME q < r PROVE FALSE
  <2>1. (q + 1) * d <= r * d
    BY <1>1, <1>3, TimesMonotonic
  <2>2. (q + 1) * d = q * d + d
    OBVIOUS
  <2> QED
    BY <1>1, <2>1, <2>2
<1>4. r = q
  BY <1>1, <1>2, <1>3
<1> QED
  BY <1>4 DEF r

\* A multiple in the dividend comes out whole.
LEMMA DivMultiple ==
  ASSUME NEW k \in Nat, NEW m \in Nat, NEW d \in Nat \ {0}
  PROVE  (k * d + m) \div d = k + m \div d
<1> DEFINE q == m \div d
<1>1. q \in Nat /\ q * d <= m /\ m < q * d + d
  BY DivBounds
<1> HIDE DEF q
<1>2. k * d \in Nat /\ (k + q) * d = k * d + q * d
  BY <1>1
<1>3. k * d + m \in Nat /\ (k + q) * d <= k * d + m /\ k * d + m < (k + q) * d + d
  BY <1>1, <1>2
<1>4. (k * d + m) \div d = k + q
  BY <1>1, <1>3, DivUnique
<1> QED
  BY <1>4 DEF q

\* A multiple does not change what is left.
LEMMA ModMultiple ==
  ASSUME NEW k \in Nat, NEW m \in Nat, NEW d \in Nat \ {0}
  PROVE  (m + k * d) % d = m % d
<1> DEFINE q == m \div d
<1>1. q \in Nat /\ k * d \in Nat
  BY DivBounds
<1>2. (m + k * d) \div d = k + q
  <2>1. k * d + m = m + k * d
    BY <1>1
  <2>2. (k * d + m) \div d = k + q
    BY DivMultiple
  <2> QED
    BY <2>1, <2>2
<1>3. m % d = m - q * d
  OBVIOUS
<1>4. (m + k * d) % d = m + k * d - ((m + k * d) \div d) * d
  BY <1>1
<1> HIDE DEF q
<1>5. (k + q) * d = k * d + q * d
  BY <1>1
<1> QED
  BY <1>1, <1>2, <1>3, <1>4, <1>5
=============================================================================
