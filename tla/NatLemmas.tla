------------------------------ MODULE NatLemmas ------------------------------
(***************************************************************************)
(* Least and greatest elements of sets of numbers, which CHOOSE needs in   *)
(* most of the models, and division.                                       *)
(***************************************************************************)
EXTENDS Integers, FiniteSetTheorems, WellFoundedInduction, TLAPS

(* A nonempty set of naturals has a least element: the intervals 0..n for  *)
(* n in the set have a minimal one under strict inclusion.                 *)
LEMMA LeastNat ==
    ASSUME NEW S \in SUBSET Nat, S # {}
    PROVE  \E n \in S : \A m \in S : n <= m
<1> DEFINE T == {0 .. n : n \in S}
           R == StrictSubsetOrdering(Nat)
<1>1. IsWellFoundedOn(R, FiniteSubsetsOf(Nat))
  BY FS_StrictSubsetOrderingWellFounded
<1>2. T \subseteq FiniteSubsetsOf(Nat)
  <2>1. SUFFICES ASSUME NEW n \in S PROVE 0 .. n \in FiniteSubsetsOf(Nat)
    OBVIOUS
  <2>2. n \in Int /\ 0 \in Int /\ 0 .. n \subseteq Nat
    OBVIOUS
  <2>3. IsFiniteSet(0 .. n)
    BY <2>2, FS_Interval
  <2> QED BY <2>2, <2>3 DEF FiniteSubsetsOf
<1>3. T # {}
  OBVIOUS
<1> HIDE DEF T, R
<1>4. PICK x \in T : \A y \in T : <<y, x>> \notin R
  BY <1>1, <1>2, <1>3, WFMin
<1>5. PICK n \in S : x = 0 .. n
  BY DEF T
<1>6. ASSUME NEW m \in S, m < n PROVE FALSE
  <2>1. 0 .. m \in T
    BY DEF T
  <2>2. 0 .. m \subseteq 0 .. n /\ 0 .. m # 0 .. n
    <3>1. n \in 0 .. n /\ n \notin 0 .. m
      BY <1>6
    <3> QED BY <1>6, <3>1
  <2>3. <<0 .. m, x>> \in R
    BY <2>2, <1>5 DEF R, StrictSubsetOrdering
  <2> QED BY <2>1, <2>3, <1>4
<1> QED BY <1>6

(* A finite nonempty set of integers has a greatest element: the one that  *)
(* the fewest elements are above.                                          *)
LEMMA GreatestElement ==
    ASSUME NEW S \in SUBSET Int, S # {}, IsFiniteSet(S)
    PROVE  \E a \in S : \A b \in S : b <= a
<1> DEFINE Over(a) == {b \in S : a < b}
           N == {Cardinality(Over(a)) : a \in S}
<1>1. ASSUME NEW a \in S PROVE IsFiniteSet(Over(a)) /\ Cardinality(Over(a)) \in Nat
  <2>1. Over(a) \in SUBSET S
    OBVIOUS
  <2> HIDE DEF Over
  <2> QED BY <2>1, FS_Subset, FS_CardinalityType
<1>2. N \in SUBSET Nat /\ N # {}
  BY <1>1
<1>3. PICK k \in N : \A l \in N : k <= l
  BY <1>2, LeastNat
<1>4. PICK a \in S : k = Cardinality(Over(a))
  OBVIOUS
<1>5. ASSUME NEW b \in S, a < b PROVE FALSE
  <2>0. a \in Int /\ b \in Int
    OBVIOUS
  <2>1. Over(b) \in SUBSET Over(a) /\ b \in Over(a) /\ b \notin Over(b)
    <3>1. ASSUME NEW x \in Over(b) PROVE x \in Over(a)
      <4>1. x \in Int /\ b < x /\ x \in S
        OBVIOUS
      <4> QED BY <1>5, <2>0, <4>1
    <3>2. b \in Over(a)
      BY <1>5
    <3>3. b \notin Over(b)
      BY <2>0
    <3> QED BY <3>1, <3>2, <3>3
  <2>2. Cardinality(Over(b)) \in N
    OBVIOUS
  <2> HIDE DEF Over, N
  <2>3. Cardinality(Over(b)) <= Cardinality(Over(a)) /\ Cardinality(Over(b)) # Cardinality(Over(a))
    BY <1>1, <2>1, FS_Subset
  <2>4. Cardinality(Over(a)) <= Cardinality(Over(b))
    BY <1>3, <1>4, <2>2
  <2> QED BY <1>1, <2>3, <2>4
<1> QED BY <1>4, <1>5
-----------------------------------------------------------------------------
(* Division and multiplication, of which the SMT solver knows too little.  *)
LEMMA DivMod ==
    ASSUME NEW a \in Nat, NEW p \in Nat \ {0}
    PROVE  /\ a \div p \in Nat
           /\ a % p \in 0 .. (p - 1)
           /\ a = ((a \div p) * p) + (a % p)
OBVIOUS

LEMMA MulMod ==
    ASSUME NEW q \in Nat, NEW p \in Nat \ {0}
    PROVE  (q * p) % p = 0 /\ (q * p) \div p = q
OBVIOUS

LEMMA ModZero ==
    ASSUME NEW a \in Nat, NEW p \in Nat \ {0}
    PROVE  a % p = 0 <=> \E q \in Nat : a = q * p
<1>1. ASSUME a % p = 0 PROVE a = (a \div p) * p /\ a \div p \in Nat
  BY <1>1, DivMod
<1> QED BY <1>1, MulMod

LEMMA MulLess ==
    ASSUME NEW q \in Nat, NEW r \in Nat, NEW p \in Nat \ {0}
    PROVE  /\ q < r <=> q * p < r * p
           /\ q < r => q * p + p <= r * p
           /\ q * p \in Nat
<1>1. q < r => q * p + p <= r * p
  <2>1. SUFFICES ASSUME q < r PROVE q * p + p <= r * p
    OBVIOUS
  <2>2. q + 1 <= r
    BY <2>1
  <2>3. (q + 1) * p <= r * p
    BY <2>2
  <2> QED BY <2>3
<1>2. r <= q => r * p <= q * p
  OBVIOUS
<1> QED BY <1>1, <1>2

(* What a recursive function over 0..N computes, where each value comes    *)
(* from the one before by F: it exists, by its least length that does not. *)
KeepsIn(F, X, N) == \A d \in 1 .. N : \A y \in X : F[<<d, y>>] \in X
Iterates(f, F, X, N, x) ==
    f \in [0 .. N -> X] /\ f[0] = x /\ \A d \in 1 .. N : f[d] = F[<<d, f[d - 1]>>]

LEMMA Recursion ==
    ASSUME NEW X, NEW x \in X, NEW N \in Nat, NEW F, KeepsIn(F, X, N)
    PROVE  \E f : Iterates(f, F, X, N, x)
<1>0. \A d \in 1 .. N : \A y \in X : F[<<d, y>>] \in X
  BY DEF KeepsIn
<1> DEFINE Is(f, n) == /\ f \in [0 .. n -> X]
                       /\ f[0] = x /\ \A d \in 1 .. n : f[d] = F[<<d, f[d - 1]>>]
           Bad == {n \in Nat : n <= N /\ ~\E f : Is(f, n)}
<1>1. Bad = {}
  <2> SUFFICES ASSUME Bad # {} PROVE FALSE
    OBVIOUS
  <2>1. PICK n \in Bad : \A k \in Bad : n <= k
    <3>1. Bad \in SUBSET Nat
      OBVIOUS
    <3> HIDE DEF Bad
    <3> QED BY <3>1, LeastNat
  <2>2. n \in Nat /\ n <= N /\ ~\E f : Is(f, n)
    OBVIOUS
  <2>3. n # 0
    <3>1. SUFFICES ASSUME n = 0 PROVE FALSE
      OBVIOUS
    <3>2. Is([d \in 0 .. 0 |-> x], 0)
      OBVIOUS
    <3> QED BY <2>2, <3>1, <3>2
  <2>4. PICK k \in Nat : n = k + 1
    <3>1. n - 1 \in Nat /\ n = (n - 1) + 1
      BY <2>2, <2>3
    <3> QED BY <3>1
  <2>5. k <= N /\ k \notin Bad
    BY <2>1, <2>2, <2>4
  <2>6. PICK f : Is(f, k)
    BY <2>5
  <2>7. PICK y \in X : y = F[<<n, f[k]>>]
    <3>1. f[k] \in X /\ n \in 1 .. N
      BY <2>2, <2>4, <2>6
    <3> QED BY <1>0, <3>1
  <2>8. PICK g : g = [d \in 0 .. n |-> IF d = n THEN y ELSE f[d]]
    OBVIOUS
  <2>9. \A d \in 0 .. k : g[d] = f[d]
    BY <2>4, <2>8
  <2>10. g[n] = y
    BY <2>2, <2>8
  <2>11. g \in [0 .. n -> X]
    <3>1. \A d \in 0 .. n : (IF d = n THEN y ELSE f[d]) \in X
      BY <2>4, <2>6, <2>7
    <3> QED BY <2>8, <3>1
  <2>12. g[0] = x
    BY <2>4, <2>6, <2>9
  <2>13. ASSUME NEW d \in 1 .. n PROVE g[d] = F[<<d, g[d - 1]>>]
    <3>1. CASE d = n
      <4>1. d - 1 = k
        BY <2>4, <3>1
      <4>2. g[d - 1] = f[k]
        BY <2>9, <4>1
      <4> QED BY <2>7, <2>10, <3>1, <4>2
    <3>2. CASE d # n
      <4>1. d \in 1 .. k /\ d \in 0 .. k /\ d - 1 \in 0 .. k
        BY <2>4, <3>2
      <4>2. g[d] = f[d] /\ g[d - 1] = f[d - 1]
        BY <2>9, <4>1
      <4>3. f[d] = F[<<d, f[d - 1]>>]
        BY <2>6, <4>1
      <4> QED BY <4>2, <4>3
    <3> QED BY <3>1, <3>2
  <2>14. Is(g, n)
    BY <2>11, <2>12, <2>13
  <2> QED BY <2>2, <2>14
<1>2. N \notin Bad
  <2> HIDE DEF Bad
  <2> QED BY <1>1
<1>3. PICK f : Is(f, N)
  <2>1. N <= N
    OBVIOUS
  <2> HIDE DEF Is
  <2> QED BY <1>2, <2>1
<1> QED BY <1>3 DEF Iterates
=============================================================================
