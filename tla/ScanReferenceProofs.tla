-------------------------- MODULE ScanReferenceProofs --------------------------
(***************************************************************************)
(* Lemmas on what both scanners are built from: the lowest elements of a   *)
(* set of addresses, and the smallest one.                                 *)
(***************************************************************************)
EXTENDS ScanReference, FiniteSetTheorems, FunctionTheorems, TLAPS

(* The number of smaller elements.                                          *)
Rank(S, a) == Cardinality({b \in S : b < a})

(* Smaller elements have smaller ranks.                                     *)
LEMMA RankMonotonic ==
  ASSUME NEW S, S \subseteq Int, IsFiniteSet(S), NEW a \in S, NEW c \in S, a < c
  PROVE  /\ Rank(S, a) \in Nat /\ Rank(S, c) \in Nat
         /\ Rank(S, a) < Rank(S, c)
<1> DEFINE A == {b \in S : b < a}
           C == {b \in S : b < c}
<1>1. IsFiniteSet(A) /\ IsFiniteSet(C)
  BY FS_Subset
<1>2. A \subseteq C /\ a \in C /\ a \notin A
  <2>1. \A b \in S : b < a => b < c
    OBVIOUS
  <2>2. ~(a < a)
    OBVIOUS
  <2> QED
    BY <2>1, <2>2
<1>3. Cardinality(A) <= Cardinality(C) /\ Cardinality(A) # Cardinality(C)
  BY <1>1, <1>2, FS_Subset
<1>4. Cardinality(A) \in Nat /\ Cardinality(C) \in Nat
  BY <1>1, FS_CardinalityType
<1> QED
  BY <1>3, <1>4 DEF Rank

(* No two elements have the same rank.                                      *)
LEMMA RankInjective ==
  ASSUME NEW S, S \subseteq Int, IsFiniteSet(S), NEW a \in S, NEW c \in S, Rank(S, a) = Rank(S, c)
  PROVE  a = c
<1>1. CASE a < c
  <2>1. Rank(S, a) < Rank(S, c) /\ Rank(S, a) \in Nat
    BY <1>1, RankMonotonic
  <2> QED
    BY <2>1
<1>2. CASE c < a
  <2>1. Rank(S, c) < Rank(S, a) /\ Rank(S, a) \in Nat
    BY <1>2, RankMonotonic
  <2> QED
    BY <2>1
<1> QED
  BY <1>1, <1>2

(* Every number below the size of a finite set is the rank of an element.   *)
LEMMA RankSurjective ==
  ASSUME NEW S, S \subseteq Int, IsFiniteSet(S)
  PROVE  \A k \in 0 .. Cardinality(S) - 1 : \E a \in S : Rank(S, a) = k
<1> DEFINE n == Cardinality(S)
           f == [a \in S |-> Rank(S, a)]
<1>1. n \in Nat
  BY FS_CardinalityType
<1>2. \A a \in S : Rank(S, a) \in 0 .. n - 1
  <2> SUFFICES ASSUME NEW a \in S PROVE Rank(S, a) \in 0 .. n - 1
    OBVIOUS
  <2> DEFINE B == {b \in S : b < a}
  <2>1. B \subseteq S /\ a \notin B
    OBVIOUS
  <2>2. IsFiniteSet(B) /\ Cardinality(B) <= n /\ Cardinality(B) # n
    BY <2>1, FS_Subset
  <2> QED
    BY <1>1, <2>2, FS_CardinalityType DEF Rank
<1>3. f \in Injection(S, 0 .. n - 1)
  <2>1. f \in [S -> 0 .. n - 1]
    BY <1>2
  <2>2. ASSUME NEW a \in S, NEW b \in S, f[a] = f[b] PROVE a = b
    <3>1. Rank(S, a) = Rank(S, b)
      BY <2>2
    <3> QED
      BY <3>1, RankInjective
  <2> QED
    BY <2>1, <2>2 DEF Injection, IsInjective
<1>4. IsFiniteSet(0 .. n - 1) /\ Cardinality(0 .. n - 1) = n
  BY <1>1, FS_Interval
<1>5. f \in Surjection(S, 0 .. n - 1)
  BY <1>3, <1>4, FS_Injection
<1> QED
  BY <1>5 DEF Surjection

(* Of the lowest n elements there are at most n.                            *)
LEMMA LowestBounded ==
  ASSUME NEW S, S \subseteq Int, IsFiniteSet(S), NEW n \in Nat
  PROVE  /\ Lowest(S, n) \subseteq S
         /\ IsFiniteSet(Lowest(S, n))
         /\ Cardinality(Lowest(S, n)) \in 0 .. n
<1> DEFINE L == Lowest(S, n)
           f == [a \in L |-> Rank(S, a)]
<1>1. L \subseteq S /\ IsFiniteSet(L)
  BY FS_Subset DEF Lowest
<1>2. \A a \in L : Rank(S, a) \in 0 .. n - 1
  <2> SUFFICES ASSUME NEW a \in L PROVE Rank(S, a) \in 0 .. n - 1
    OBVIOUS
  <2>1. Rank(S, a) < n
    BY DEF Lowest, Rank
  <2>2. IsFiniteSet({b \in S : b < a})
    BY FS_Subset
  <2> QED
    BY <2>1, <2>2, FS_CardinalityType DEF Rank
<1>3. \A a, b \in L : f[a] = f[b] => a = b
  <2> SUFFICES ASSUME NEW a \in L, NEW b \in L, f[a] = f[b] PROVE a = b
    OBVIOUS
  <2>1. a \in S /\ b \in S
    BY <1>1
  <2>2. Rank(S, a) = Rank(S, b)
    OBVIOUS
  <2> QED
    BY <2>1, <2>2, RankInjective
<1>4. f \in Injection(L, 0 .. n - 1)
  BY <1>2, <1>3 DEF Injection, IsInjective
<1>5. IsFiniteSet(0 .. n - 1) /\ Cardinality(0 .. n - 1) = n
  BY FS_Interval
<1>6. Cardinality(L) <= n
  BY <1>4, <1>5, FS_Injection
<1> HIDE DEF L
<1>7. Cardinality(L) \in Nat
  BY <1>1, FS_CardinalityType
<1> QED
  BY <1>1, <1>6, <1>7 DEF L

(* An element that is not among the lowest n comes after n lower ones.      *)
LEMMA LowestFull ==
  ASSUME NEW S, S \subseteq Int, IsFiniteSet(S), NEW n \in Nat,
         NEW a \in S, a \notin Lowest(S, n)
  PROVE  /\ Cardinality(Lowest(S, n)) = n
         /\ \A m \in Lowest(S, n) : m < a
<1> DEFINE L == Lowest(S, n)
           B == {b \in S : b < a}
<1>1. L \subseteq S /\ IsFiniteSet(L)
  BY LowestBounded
<1>2. IsFiniteSet(B) /\ B \subseteq Int /\ Cardinality(B) \in Nat
  BY FS_Subset, FS_CardinalityType
<1>3. Cardinality(B) >= n
  BY <1>2 DEF Lowest
<1>4. \A m \in L : Rank(S, m) < n
  BY DEF Lowest, Rank
<1>5. Rank(S, a) = Cardinality(B)
  BY DEF Rank
<1>6. ASSUME NEW m \in L PROVE m < a
  <2>1. m # a /\ m \in S
    BY <1>1
  <2>2. ~(a < m)
    <3> SUFFICES ASSUME a < m PROVE FALSE
      OBVIOUS
    <3>1. Rank(S, a) < Rank(S, m) /\ Rank(S, a) \in Nat /\ Rank(S, m) \in Nat
      BY <2>1, RankMonotonic
    <3> HIDE DEF B, L
    <3> QED
      BY <1>2, <1>3, <1>4, <1>5, <3>1
  <2> QED
    BY <2>1, <2>2
<1>7. \A b \in B : Rank(S, b) = Rank(B, b)
  <2> SUFFICES ASSUME NEW b \in B PROVE {c \in S : c < b} = {c \in B : c < b}
    BY DEF Rank
  <2>1. \A c \in S : c < b => c < a
    OBVIOUS
  <2> QED
    BY <2>1
<1>8. \A k \in 0 .. n - 1 : \E b \in L : Rank(S, b) = k
  <2> SUFFICES ASSUME NEW k \in 0 .. n - 1 PROVE \E b \in L : Rank(S, b) = k
    OBVIOUS
  <2>1. k \in 0 .. Cardinality(B) - 1
    BY <1>2, <1>3
  <2>2. PICK b \in B : Rank(B, b) = k
    BY <1>2, <2>1, RankSurjective
  <2>3. b \in S /\ Rank(S, b) = k /\ k < n
    BY <1>7, <2>2
  <2> QED
    BY <2>3 DEF Lowest, Rank
<1> DEFINE f == [b \in L |-> Rank(S, b)]
<1>9. \A b \in L : Rank(S, b) \in 0 .. n - 1
  <2> SUFFICES ASSUME NEW b \in L PROVE Rank(S, b) \in Nat
    BY <1>4
  <2>1. IsFiniteSet({c \in S : c < b})
    BY FS_Subset
  <2> QED
    BY <2>1, FS_CardinalityType DEF Rank
<1>10. f \in Surjection(L, 0 .. n - 1)
  <2> HIDE DEF L
  <2> QED
    BY <1>8, <1>9 DEF Surjection
<1>11. Cardinality(0 .. n - 1) = n
  BY FS_Interval
<1>12. n <= Cardinality(L)
  <2> HIDE DEF L, f
  <2> QED
    BY <1>1, <1>10, <1>11, FS_Surjection
<1>13. Cardinality(L) \in 0 .. n
  BY LowestBounded
<1> QED
  BY <1>6, <1>12, <1>13

(* A finite set of numbers has a smallest one.                              *)
LEMMA Smallest ==
  ASSUME NEW S, S \subseteq Int, IsFiniteSet(S), S # {}
  PROVE  \E a \in S : \A b \in S : a <= b
<1>1. Cardinality(S) \in Nat /\ Cardinality(S) # 0
  BY FS_CardinalityType, FS_EmptySet
<1>2. PICK a \in S : Rank(S, a) = 0
  <2>1. 0 \in 0 .. Cardinality(S) - 1
    BY <1>1
  <2> QED
    BY <2>1, RankSurjective
<1>3. IsFiniteSet({b \in S : b < a})
  BY FS_Subset
<1>4. {b \in S : b < a} = {}
  BY <1>2, <1>3, FS_EmptySet DEF Rank
<1>5. \A b \in S : a <= b
  BY <1>4
<1> QED
  BY <1>5

(* The remainder of a number below twice the divisor.                       *)
LEMMA Remainder ==
  ASSUME NEW m \in Nat \ {0}, NEW n \in Nat, n < 2 * m
  PROVE  n % m = IF n < m THEN n ELSE n - m
  OBVIOUS

(* The page of an address begins at most a page before it, and a multiple   *)
(* of the page size that lies behind the page's beginning lies behind the   *)
(* address.                                                                 *)
LEMMA Pages ==
  ASSUME NEW p \in Nat \ {0}, NEW a \in Nat, NEW s \in Nat, s % p = 0
  PROVE  /\ a - (a % p) \in Nat /\ a - (a % p) <= a
         /\ s > a - (a % p) => s > a
         /\ s <= a => s <= a - (a % p)
<1> DEFINE i == a \div p
           j == s \div p
<1>1. i \in Nat /\ j \in Nat /\ a % p \in Nat /\ a % p < p
  OBVIOUS
<1>2. a = p * i + (a % p) /\ s = p * j
  OBVIOUS
<1> HIDE DEF i, j
<1>3. a - (a % p) = p * i /\ p * i \in Nat
  BY <1>1, <1>2
<1>4. CASE j <= i
  <2>1. p * j <= p * i
    BY <1>1, <1>4
  <2> QED
    BY <1>1, <1>2, <1>3, <2>1
<1>5. CASE j >= i + 1
  <2>1. p * j >= p * (i + 1)
    BY <1>1, <1>5
  <2>2. p * (i + 1) = p * i + p
    BY <1>1
  <2> QED
    BY <1>1, <1>2, <1>3, <2>1, <2>2
<1> QED
  BY <1>1, <1>4, <1>5
=============================================================================
