-------------------------- MODULE ReferenceProofs --------------------------
(***************************************************************************)
(* Reference circles weigh what they should, for every map of cells and     *)
(* every draw.  Sums over finite sets first, then the geographies of a      *)
(* place, the shares of the exact weights and of the draws, the quantiles,  *)
(* the sectors that cover the circle, and the invariant.                    *)
(***************************************************************************)
EXTENDS ReferenceCircles, SequenceTheorems, FiniteSetTheorems, WellFoundedInduction, TLAPS

(* Least members, products and shares of naturals.                           *)
LEMMA LeastNat ==
  ASSUME NEW S, S \subseteq Nat, S # {}
  PROVE  \E x \in S : \A y \in S : x <= y
  <1>. DEFINE R == OpToRel(<, Nat)
  <1>1. IsWellFoundedOn(R, Nat)
    BY NatLessThanWellFounded
  <1>2. PICK x \in S : \A y \in S : ~ (<<y, x>> \in R)
    <2>. HIDE DEF R
    <2> QED BY <1>1, WFMin
  <1>3. \A y \in S : ~(y < x)
    BY <1>2 DEF OpToRel
  <1> QED BY <1>3

LEMMA MinOfNat ==
  ASSUME NEW S, S \subseteq Nat, S # {}
  PROVE  Min(S) \in S /\ Min(S) \in Nat /\ \A y \in S : Min(S) <= y
  BY LeastNat DEF Min

LEMMA Quotient ==
  ASSUME NEW a \in Nat, NEW r \in Nat \ {0}
  PROVE  a \div r \in Nat /\ r * (a \div r) <= a /\ a < r * (a \div r + 1)
<1>. DEFINE q == a \div r
<1>1. q \in Int /\ r * q <= a /\ a < r * (q + 1)
  BY Z3
<1>2. q >= 0
  BY <1>1, Z3
<1> QED
  BY <1>1, <1>2

LEMMA Product == ASSUME NEW m \in Nat, NEW n \in Nat PROVE m * n \in Nat
OBVIOUS

(* Induction up to a bound.                                                  *)
LEMMA StepByStep ==
  ASSUME NEW D, NEW L \in Nat, 0 \in D, \A n \in 1 .. L : n - 1 \in D => n \in D
  PROVE  \A n \in 0 .. L : n \in D
  <1> DEFINE T == (0 .. L) \ D
             R == OpToRel(<, Nat)
  <1> SUFFICES ASSUME T # {} PROVE FALSE
    OBVIOUS
  <1>1. PICK x \in T : \A y \in T : ~ (<<y, x>> \in R)
    <2>1. IsWellFoundedOn(R, Nat)
      BY NatLessThanWellFounded
    <2>2. T \subseteq Nat /\ T # {}
      OBVIOUS
    <2> HIDE DEF T, R
    <2> QED BY <2>1, <2>2, WFMin
  <1> HIDE DEF R
  <1>2. x \in 1 .. L /\ x - 1 \in 0 .. L /\ x - 1 \in Nat
    BY <1>1
  <1>3. x - 1 \in T
    BY <1>1, <1>2
  <1>4. <<x - 1, x>> \in R
    BY <1>2 DEF OpToRel, R
  <1> QED BY <1>1, <1>3, <1>4

(* The more come before an element, the later it is in the order.            *)
LEMMA RankIsMonotone ==
  ASSUME NEW S, IsFiniteSet(S), NEW R, Orders(R, S)
  PROVE  /\ \A x \in S : Cardinality(AheadOf(S, R, x)) + 1 \in 1 .. Cardinality(S)
         /\ \A x, y \in S :
              <<x, y>> \in R <=> Cardinality(AheadOf(S, R, x)) < Cardinality(AheadOf(S, R, y))
<1>. DEFINE c(x) == Cardinality(AheadOf(S, R, x))
<1>1. Cardinality(S) \in Nat
  BY FS_CardinalityType
<1>2. ASSUME NEW x \in S
      PROVE  IsFiniteSet(AheadOf(S, R, x)) /\ c(x) \in Nat /\ c(x) <= Cardinality(S) - 1
  <2>1. AheadOf(S, R, x) \in SUBSET S /\ AheadOf(S, R, x) # S
    BY DEF AheadOf, Orders
  <2>2. IsFiniteSet(AheadOf(S, R, x)) /\ c(x) \in Nat
    BY <2>1, FS_Subset, FS_CardinalityType
  <2>3. c(x) <= Cardinality(S) /\ c(x) # Cardinality(S)
    BY <2>1, FS_Subset
  <2> QED
    BY <2>2, <2>3, <1>1
<1>3. ASSUME NEW x \in S, NEW y \in S, <<x, y>> \in R PROVE c(x) < c(y)
  <2>. DEFINE X == AheadOf(S, R, x) Y == AheadOf(S, R, y)
  <2>1. X \in SUBSET Y /\ x \in Y /\ x \notin X
    BY <1>3 DEF AheadOf, Orders
  <2>2. IsFiniteSet(Y) /\ Cardinality(X) \in Nat /\ Cardinality(Y) \in Nat
    BY <1>2
  <2>3. Cardinality(X) <= Cardinality(Y) /\ Cardinality(X) # Cardinality(Y)
    <3>. HIDE DEF X, Y
    <3> QED
      BY <2>1, <2>2, FS_Subset
  <2> QED
    BY <2>2, <2>3
<1>4. ASSUME NEW x \in S, NEW y \in S, c(x) < c(y) PROVE <<x, y>> \in R
  <2>1. c(x) \in Nat /\ c(y) \in Nat
    BY <1>2
  <2>2. x # y
    BY <1>4, <2>1
  <2>3. <<y, x>> \notin R
    <3>1. ASSUME <<y, x>> \in R PROVE c(y) < c(x)
      BY <1>3, <3>1
    <3>. HIDE DEF c
    <3> QED
      BY <1>4, <2>1, <3>1
  <2> QED
    BY <2>2, <2>3 DEF Orders
<1>5. ASSUME NEW x \in S PROVE c(x) + 1 \in 1 .. Cardinality(S)
  <2>. HIDE DEF c
  <2> QED
    BY <1>1, <1>2
<1> QED
  BY <1>3, <1>4, <1>5

(* A finite set in an order: every element once, and the earlier before the  *)
(* later.                                                                    *)
LEMMA RankedInOrder ==
  ASSUME NEW S, IsFiniteSet(S), NEW R, Orders(R, S)
  PROVE  /\ Ranked(S, R) \in Seq(S) /\ Len(Ranked(S, R)) = Cardinality(S)
         /\ Cardinality(S) \in Nat
         /\ \A x \in S : \E n \in 1 .. Cardinality(S) : Ranked(S, R)[n] = x
         /\ \A m, n \in 1 .. Cardinality(S) :
              m < n <=> <<Ranked(S, R)[m], Ranked(S, R)[n]>> \in R
<1>. DEFINE N == 1 .. Cardinality(S)
            c(x) == Cardinality(AheadOf(S, R, x))
            f == [x \in S |-> c(x) + 1]
            s == Ranked(S, R)
<1>1. Cardinality(S) \in Nat /\ \A x \in S : c(x) \in Int
  <2>1. Cardinality(S) \in Nat
    BY FS_CardinalityType
  <2>2. ASSUME NEW x \in S PROVE c(x) \in Nat
    <3>1. AheadOf(S, R, x) \in SUBSET S
      BY DEF AheadOf
    <3> QED
      BY <3>1, FS_Subset, FS_CardinalityType
  <2> QED
    BY <2>1, <2>2
<1>2. f \in [S -> N]
  BY RankIsMonotone
<1>3. \A x, y \in S : c(x) = c(y) => x = y
  <2>1. ASSUME NEW x \in S, NEW y \in S, x # y PROVE c(x) # c(y)
    <3>1. <<x, y>> \in R \/ <<y, x>> \in R
      BY <2>1 DEF Orders
    <3>2. c(x) < c(y) \/ c(y) < c(x)
      BY <3>1, RankIsMonotone
    <3>3. c(x) \in Int /\ c(y) \in Int
      BY <1>1
    <3>. HIDE DEF c
    <3> QED
      BY <3>2, <3>3
  <2> QED
    BY <2>1
<1>4. IsFiniteSet(N) /\ Cardinality(N) = Cardinality(S)
  BY <1>1, FS_Interval
<1>5. \A x, y \in S : f[x] = f[y] => x = y
  <2>. HIDE DEF c
  <2> QED
    BY <1>1, <1>3
<1>6. f \in Surjection(S, N)
  <2>1. f \in Injection(S, N)
    <3>. HIDE DEF f, N
    <3> QED
      BY <1>2, <1>5 DEF Injection, IsInjective
  <2> QED
    BY <2>1, <1>4, FS_Injection
<1>7. ASSUME NEW n \in N PROVE s[n] \in S /\ c(s[n]) = n - 1
  <2>1. \E x \in S : f[x] = n
    BY <1>6 DEF Surjection
  <2>2. \E x \in S : c(x) = n - 1
    <3>. HIDE DEF c
    <3> QED
      BY <1>1, <2>1
  <2>3. s[n] = CHOOSE x \in S : c(x) = n - 1
    BY DEF Ranked
  <2>. HIDE DEF c, s
  <2> QED
    BY <2>2, <2>3
<1>8. s \in Seq(S) /\ Len(s) = Cardinality(S)
  <2>1. s \in [N -> S]
    BY <1>7 DEF Ranked
  <2>. HIDE DEF s
  <2> QED
    BY <1>1, <2>1
<1>9. ASSUME NEW x \in S PROVE \E n \in N : s[n] = x
  <2>1. c(x) + 1 \in N
    BY RankIsMonotone
  <2>2. s[c(x) + 1] \in S /\ c(s[c(x) + 1]) = (c(x) + 1) - 1
    BY <1>7, <2>1
  <2>3. c(s[c(x) + 1]) = c(x)
    <3>. HIDE DEF c, s
    <3> QED
      BY <1>1, <2>2
  <2> QED
    BY <1>3, <2>1, <2>2, <2>3
<1>10. ASSUME NEW m \in N, NEW n \in N PROVE m < n <=> <<s[m], s[n]>> \in R
  <2>1. s[m] \in S /\ c(s[m]) = m - 1 /\ s[n] \in S /\ c(s[n]) = n - 1
    BY <1>7
  <2>2. <<s[m], s[n]>> \in R <=> c(s[m]) < c(s[n])
    BY <2>1, RankIsMonotone
  <2>. HIDE DEF c, s
  <2> QED
    BY <1>1, <2>1, <2>2
<1> QED
  BY <1>1, <1>8, <1>9, <1>10

-----------------------------------------------------------------------------
(* Sums over finite sets.                                                    *)

(* Induction over the subsets of a finite set.                               *)
LEMMA SubsetInduction ==
  ASSUME NEW S, IsFiniteSet(S), NEW G, {} \in G,
         \A T \in SUBSET S : \A x \in S : T \in G /\ x \notin T => T \cup {x} \in G
  PROVE  S \in G
<1>. DEFINE L == Cardinality(S)
            D == {n \in 0 .. L : \A T \in SUBSET S : Cardinality(T) = n => T \in G}
<1>1. L \in Nat
  BY FS_CardinalityType
<1>2. \A T \in SUBSET S : IsFiniteSet(T) /\ Cardinality(T) \in Nat
  BY FS_Subset, FS_CardinalityType
<1>. HIDE DEF L
<1>3. 0 \in D
  <2>1. \A T \in SUBSET S : Cardinality(T) = 0 => T = {}
    BY <1>2, FS_EmptySet
  <2>2. 0 \in 0 .. L
    BY <1>1
  <2>3. \A T \in SUBSET S : Cardinality(T) = 0 => T \in G
    BY <2>1
  <2> QED
    BY <2>2, <2>3
<1>4. ASSUME NEW n \in 1 .. L, n - 1 \in D PROVE n \in D
  <2>1. ASSUME NEW T \in SUBSET S, Cardinality(T) = n PROVE T \in G
    <3>1. n # 0 /\ n \in Nat
      BY <1>1
    <3>2. T # {}
      BY <2>1, <3>1, FS_EmptySet
    <3>3. PICK x \in T : TRUE
      BY <3>2
    <3>4. Cardinality(T \ {x}) = n - 1 /\ T \ {x} \in SUBSET S
      BY <1>2, <2>1, <3>3, FS_RemoveElement
    <3>5. T \ {x} \in G
      BY <1>4, <3>4
    <3>6. (T \ {x}) \cup {x} \in G
      BY <3>3, <3>4, <3>5
    <3>7. (T \ {x}) \cup {x} = T
      BY <3>3
    <3> QED
      BY <3>6, <3>7
  <2> QED
    BY <1>1, <2>1
<1>5. L \in D
  <2>1. L \in 0 .. L
    BY <1>1
  <2>. HIDE DEF D
  <2> QED
    BY <1>1, <1>3, <1>4, <2>1, StepByStep
<1> QED
  BY <1>5 DEF L

(* f counts something for every member of the finite set S.                  *)
Counts(f, S) == IsFiniteSet(S) /\ \A x \in S : f[x] \in Nat

LEMMA UnitsSplit ==
  ASSUME NEW f, NEW S, NEW T
  PROVE  /\ Units(f, S \cup T) = Units(f, S) \cup Units(f, T)
         /\ S \cap T = {} => Units(f, S) \cap Units(f, T) = {}
  BY DEF Units

LEMMA UnitsOfOne ==
  ASSUME NEW f, NEW x, f[x] \in Nat
  PROVE  IsFiniteSet(Units(f, {x})) /\ SumOver(f, {x}) = f[x]
<1>1. Units(f, {x}) = {x} \X (1 .. f[x])
  BY DEF Units
<1>2. IsFiniteSet({x}) /\ Cardinality({x}) = 1
  BY FS_Singleton
<1>3. 1 \in Int /\ f[x] \in Int
  OBVIOUS
<1>4. IsFiniteSet(1 .. f[x]) /\ Cardinality(1 .. f[x]) = IF 1 > f[x] THEN 0 ELSE f[x] - 1 + 1
  BY <1>3, FS_Interval
<1>5. Cardinality(1 .. f[x]) = f[x]
  BY <1>4
<1>6. \A c : c = f[x] => 1 * c = f[x]
  OBVIOUS
<1>. DEFINE P == {x}
            Q == 1 .. f[x]
<1>7. IsFiniteSet(P) /\ IsFiniteSet(Q) /\ Cardinality(P) = 1 /\ Cardinality(Q) = f[x]
  BY <1>2, <1>4, <1>5
<1>8. Units(f, {x}) = P \X Q
  BY <1>1
<1>. HIDE DEF P, Q
<1>9. IsFiniteSet(P \X Q) /\ Cardinality(P \X Q) = Cardinality(P) * Cardinality(Q)
  BY <1>7, FS_Product
<1>10. Cardinality(P) * Cardinality(Q) = f[x]
  BY <1>6, <1>7
<1> QED
  BY <1>8, <1>9, <1>10 DEF SumOver

LEMMA SumIsCount ==
  ASSUME NEW f, NEW S, Counts(f, S)
  PROVE  IsFiniteSet(Units(f, S)) /\ SumOver(f, S) \in Nat
<1>. DEFINE G == {T \in SUBSET S : IsFiniteSet(Units(f, T))}
<1>1. {} \in G
  <2>1. Units(f, {}) = {}
    BY DEF Units
  <2> QED
    BY <2>1, FS_EmptySet
<1>2. ASSUME NEW T \in SUBSET S, NEW x \in S, T \in G PROVE T \cup {x} \in G
  <2>1. IsFiniteSet(Units(f, T)) /\ IsFiniteSet(Units(f, {x}))
    BY <1>2, UnitsOfOne DEF Counts
  <2>2. IsFiniteSet(Units(f, T \cup {x}))
    <3>1. Units(f, T \cup {x}) = Units(f, T) \cup Units(f, {x})
      BY UnitsSplit
    <3>2. IsFiniteSet(Units(f, T) \cup Units(f, {x}))
      BY <2>1, FS_Union
    <3> QED
      BY <3>1, <3>2
  <2> QED
    BY <2>2
<1>3. S \in G
  <2>. HIDE DEF G
  <2> QED
    BY <1>1, <1>2, SubsetInduction DEF Counts
<1> QED
  BY <1>3, FS_CardinalityType DEF SumOver

LEMMA SumOfNone == ASSUME NEW f PROVE SumOver(f, {}) = 0
<1>1. Units(f, {}) = {}
  BY DEF Units
<1> QED
  BY <1>1, FS_EmptySet DEF SumOver

LEMMA SumSplit ==
  ASSUME NEW f, NEW S, NEW T, Counts(f, S), Counts(f, T), S \cap T = {}
  PROVE  SumOver(f, S \cup T) = SumOver(f, S) + SumOver(f, T)
<1>1. IsFiniteSet(Units(f, S)) /\ IsFiniteSet(Units(f, T))
  BY SumIsCount
<1>2. SumOver(f, S) \in Nat /\ SumOver(f, T) \in Nat
  BY SumIsCount
<1>3. Cardinality({}) = 0
  BY FS_EmptySet
<1>4. Units(f, S) \cap Units(f, T) = {} /\ Units(f, S \cup T) = Units(f, S) \cup Units(f, T)
  BY UnitsSplit
<1>5. Cardinality(Units(f, S) \cup Units(f, T))
        = Cardinality(Units(f, S)) + Cardinality(Units(f, T)) - 0
  BY <1>1, <1>3, <1>4, FS_Union
<1>6. \A m, n \in Nat : m + n - 0 = m + n
  OBVIOUS
<1>7. Cardinality(Units(f, S)) \in Nat /\ Cardinality(Units(f, T)) \in Nat
  BY <1>2 DEF SumOver
<1>8. Cardinality(Units(f, S \cup T)) = Cardinality(Units(f, S)) + Cardinality(Units(f, T))
  BY <1>4, <1>5, <1>6, <1>7
<1> QED
  BY <1>8 DEF SumOver

LEMMA OneMore ==
  ASSUME NEW f, NEW T, Counts(f, T), NEW x, x \notin T, f[x] \in Nat
  PROVE  SumOver(f, T \cup {x}) = SumOver(f, T) + f[x]
<1>1. Counts(f, {x}) /\ T \cap {x} = {}
  BY FS_Singleton DEF Counts
<1> QED
  BY <1>1, SumSplit, UnitsOfOne

LEMMA SumIsSmaller ==
  ASSUME NEW f, NEW S, NEW T, Counts(f, T), Units(f, S) \subseteq Units(f, T)
  PROVE  SumOver(f, S) \in Nat /\ SumOver(f, S) <= SumOver(f, T)
<1>1. IsFiniteSet(Units(f, T)) /\ Units(f, S) \in SUBSET Units(f, T)
  BY SumIsCount
<1> QED
  BY <1>1, FS_Subset, FS_CardinalityType DEF SumOver

LEMMA SumOfSubset ==
  ASSUME NEW f, NEW T, Counts(f, T), NEW S \in SUBSET T
  PROVE  Counts(f, S) /\ SumOver(f, S) <= SumOver(f, T)
<1>1. Units(f, S) \subseteq Units(f, T)
  BY DEF Units
<1> QED
  BY <1>1, SumIsSmaller, FS_Subset DEF Counts

LEMMA SumOfSame ==
  ASSUME NEW f, NEW g, NEW S, \A x \in S : f[x] = g[x]
  PROVE  SumOver(f, S) = SumOver(g, S)
<1>1. Units(f, S) = Units(g, S)
  BY DEF Units
<1> QED
  BY <1>1 DEF SumOver

LEMMA SumAtMost ==
  ASSUME NEW f, NEW S, Counts(f, S), NEW c \in Nat, \A x \in S : f[x] <= c
  PROVE  SumOver(f, S) <= Cardinality(S) * c
<1>1. IsFiniteSet(S) /\ IsFiniteSet(1 .. c) /\ Cardinality(1 .. c) = c
  <2>1. 1 \in Int /\ c \in Int
    OBVIOUS
  <2>2. IsFiniteSet(1 .. c) /\ Cardinality(1 .. c) = IF 1 > c THEN 0 ELSE c - 1 + 1
    BY <2>1, FS_Interval
  <2> QED
    BY <2>2 DEF Counts
<1>2. IsFiniteSet(S \X (1 .. c)) /\ Cardinality(S \X (1 .. c)) = Cardinality(S) * c
  BY <1>1, FS_Product
<1>3. Units(f, S) \subseteq S \X (1 .. c)
  <2>1. ASSUME NEW x \in S PROVE {x} \X (1 .. f[x]) \subseteq S \X (1 .. c)
    BY DEF Counts
  <2> QED
    BY <2>1 DEF Units
<1> QED
  BY <1>2, <1>3, FS_Subset DEF SumOver

LEMMA SumOfEqual ==
  ASSUME NEW f, NEW S, IsFiniteSet(S), NEW c \in Nat, \A x \in S : f[x] = c
  PROVE  SumOver(f, S) = Cardinality(S) * c
<1>1. IsFiniteSet(1 .. c) /\ Cardinality(1 .. c) = c
  <2>1. 1 \in Int /\ c \in Int
    OBVIOUS
  <2>2. IsFiniteSet(1 .. c) /\ Cardinality(1 .. c) = IF 1 > c THEN 0 ELSE c - 1 + 1
    BY <2>1, FS_Interval
  <2> QED
    BY <2>2
<1>2. Units(f, S) = S \X (1 .. c)
  BY DEF Units
<1> QED
  BY <1>1, <1>2, FS_Product DEF SumOver

LEMMA Distributes ==
  ASSUME NEW a \in Nat, NEW x \in Nat, NEW y \in Nat
  PROVE  a * (x + y) = a * x + a * y /\ a * x \in Nat
  BY Z3

LEMMA SumIsLinear ==
  ASSUME NEW f, NEW g, NEW h, NEW S, Counts(f, S), Counts(g, S), NEW a \in Nat,
         \A x \in S : h[x] = a * f[x] + g[x]
  PROVE  SumOver(h, S) = a * SumOver(f, S) + SumOver(g, S)
<1>. DEFINE G == {T \in SUBSET S : SumOver(h, T) = a * SumOver(f, T) + SumOver(g, T)}
<1>1. Counts(h, S)
  <2>1. ASSUME NEW x \in S PROVE h[x] \in Nat
    <3>1. f[x] \in Nat /\ g[x] \in Nat /\ h[x] = a * f[x] + g[x]
      BY DEF Counts
    <3>2. a * f[x] \in Nat
      BY <3>1, Distributes
    <3> QED
      BY <3>1, <3>2
  <2> QED
    BY <2>1 DEF Counts
<1>2. {} \in G
  <2>1. SumOver(h, {}) = 0 /\ SumOver(f, {}) = 0 /\ SumOver(g, {}) = 0
    BY SumOfNone
  <2> QED
    BY <2>1
<1>3. ASSUME NEW T \in SUBSET S, NEW x \in S, T \in G, x \notin T PROVE T \cup {x} \in G
  <2>1. Counts(f, T) /\ Counts(g, T) /\ Counts(h, T)
    BY <1>1, SumOfSubset
  <2>2. f[x] \in Nat /\ g[x] \in Nat /\ h[x] \in Nat /\ h[x] = a * f[x] + g[x]
    BY <1>1 DEF Counts
  <2>3. /\ SumOver(f, T \cup {x}) = SumOver(f, T) + f[x]
        /\ SumOver(g, T \cup {x}) = SumOver(g, T) + g[x]
        /\ SumOver(h, T \cup {x}) = SumOver(h, T) + h[x]
    BY <1>3, <2>1, <2>2, OneMore
  <2>4. SumOver(f, T) \in Nat /\ SumOver(g, T) \in Nat
    BY <2>1, SumIsCount
  <2>5. /\ a * (SumOver(f, T) + f[x]) = a * SumOver(f, T) + a * f[x]
        /\ a * SumOver(f, T) \in Nat /\ a * f[x] \in Nat
    BY <2>2, <2>4, Distributes
  <2>6. SumOver(h, T) = a * SumOver(f, T) + SumOver(g, T)
    BY <1>3
  <2>7. SumOver(h, T \cup {x}) = a * SumOver(f, T \cup {x}) + SumOver(g, T \cup {x})
    BY <2>2, <2>3, <2>4, <2>5, <2>6
  <2> QED
    BY <2>7
<1>4. S \in G
  <2>. HIDE DEF G
  <2> QED
    BY <1>2, <1>3, SubsetInduction DEF Counts
<1> QED
  BY <1>4

(* What pairs are counted for is counted by their first components.          *)
PartOf(M, z) == {m \in M : m[1] = z}

LEMMA SumByPart ==
  ASSUME NEW w, NEW M, Counts(w, M), NEW Z, NEW a, Counts(a, Z),
         \A m \in M : m[1] \in Z,
         \A z \in Z : SumOver(w, PartOf(M, z)) = a[z]
  PROVE  SumOver(w, M) = SumOver(a, Z)
<1>. DEFINE Of(T) == {m \in M : m[1] \in T}
            G == {T \in SUBSET Z : SumOver(w, Of(T)) = SumOver(a, T)}
<1>1. {} \in G
  <2>1. Of({}) = {}
    OBVIOUS
  <2> QED
    BY <2>1, SumOfNone
<1>2. ASSUME NEW T \in SUBSET Z, NEW x \in Z, T \in G, x \notin T PROVE T \cup {x} \in G
  <2>1. /\ Of(T \cup {x}) = Of(T) \cup PartOf(M, x)
        /\ Of(T) \cap PartOf(M, x) = {}
    BY <1>2 DEF PartOf
  <2>2. Counts(w, Of(T)) /\ Counts(w, PartOf(M, x))
    BY SumOfSubset DEF PartOf
  <2>3. SumOver(w, Of(T \cup {x})) = SumOver(w, Of(T)) + a[x]
    <3>. DEFINE One == PartOf(M, x)
    <3>1. SumOver(w, One) = a[x]
      OBVIOUS
    <3>2. /\ Counts(w, Of(T)) /\ Counts(w, One)
          /\ Of(T) \cap One = {} /\ Of(T \cup {x}) = Of(T) \cup One
      BY <2>1, <2>2
    <3>. HIDE DEF Of, One
    <3>3. SumOver(w, Of(T) \cup One) = SumOver(w, Of(T)) + SumOver(w, One)
      BY <3>2, SumSplit
    <3> QED
      BY <3>1, <3>2, <3>3
  <2>4. SumOver(w, Of(T)) = SumOver(a, T)
    BY <1>2
  <2>5. SumOver(a, T \cup {x}) = SumOver(a, T) + a[x]
    BY <1>2, SumOfSubset, OneMore DEF Counts
  <2> QED
    BY <2>3, <2>4, <2>5
<1>3. Z \in G
  <2>. HIDE DEF G
  <2> QED
    BY <1>1, <1>2, SubsetInduction DEF Counts
<1>4. Of(Z) = M
  OBVIOUS
<1> QED
  BY <1>3, <1>4

-----------------------------------------------------------------------------
(* The geographies of a place.                                               *)

PlaceType == subject \in [kind : Kind, at : Block] /\ happened \in [Block -> Nat]

LEMMA SamplesAreCells ==
  ASSUME PlaceType
  PROVE  Samples \subseteq Int /\ IsFiniteSet(Samples) /\ Cardinality(Samples) \in Nat
<1>1. subject.at \in Int /\ Span \in Nat
  BY ReferenceAssumption DEF PlaceType
<1>2. subject.at - Span \in Int /\ subject.at + Span \in Int
  BY <1>1
<1>. DEFINE l == subject.at - Span
            h == subject.at + Span
<1>3. l \in Int /\ h \in Int
  BY <1>2
<1>. HIDE DEF l, h
<1>4. IsFiniteSet(l .. h) /\ l .. h \subseteq Int
  BY <1>3, FS_Interval
<1>5. Samples = l .. h
  BY DEF Samples, l, h
<1> QED
  BY <1>4, <1>5, FS_CardinalityType

LEMMA PolygonsAreNumbered ==
  ASSUME PlaceType
  PROVE  /\ Polygon \in Seq(SUBSET Int)
         /\ DOMAIN Polygon = 1 .. Len(Polygon) /\ Len(Polygon) \in Nat
         /\ IsFiniteSet(DOMAIN Polygon) /\ DOMAIN Polygon \subseteq Nat
<1>1. Polygon \in Seq(SUBSET Int)
  <2>1. CASE subject.kind = "city"
    <3>1. Block \cup Samples \in SUBSET Int
      BY SamplesAreCells, ReferenceAssumption
    <3>2. <<Block \cup Samples>> \in Seq(SUBSET Int)
      BY <3>1
    <3> QED
      BY <2>1, <3>2 DEF Polygon
  <2>2. CASE subject.kind # "city"
    <3>1. subject.kind \in {"mcpp", "sector"}
      BY <2>2 DEF PlaceType, Kind
    <3>2. Zone[subject.kind] \in Seq(SUBSET Int)
      BY <3>1, ReferenceAssumption
    <3> QED
      BY <2>2, <3>2 DEF Polygon
  <2> QED
    BY <2>1, <2>2
<1>2. DOMAIN Polygon = 1 .. Len(Polygon) /\ Len(Polygon) \in Nat
  BY <1>1, LenProperties
<1>3. 1 \in Int /\ Len(Polygon) \in Int
  BY <1>2
<1>4. IsFiniteSet(1 .. Len(Polygon))
  BY <1>3, FS_Interval
<1> QED
  BY <1>1, <1>2, <1>4

LEMMA OverlapCounts ==
  ASSUME PlaceType
  PROVE  /\ \A z : Overlap(z) \in Nat
         /\ \A zs : IsFiniteSet(zs) =>
              Counts([z \in zs |-> Overlap(z)], zs) /\ OverlapOf(zs) \in Nat
<1>1. ASSUME NEW z PROVE Overlap(z) \in Nat
  <2>1. IsFiniteSet(Samples \cap Polygon[z])
    BY SamplesAreCells, FS_Subset
  <2> QED
    BY <2>1, FS_CardinalityType DEF Overlap
<1>2. ASSUME NEW zs, IsFiniteSet(zs)
      PROVE  Counts([z \in zs |-> Overlap(z)], zs) /\ OverlapOf(zs) \in Nat
  <2>1. Counts([z \in zs |-> Overlap(z)], zs)
    BY <1>1, <1>2 DEF Counts
  <2>2. SumOver([z \in zs |-> Overlap(z)], zs) \in Nat
    BY <2>1, SumIsCount
  <2> QED
    BY <2>1, <2>2 DEF OverlapOf
<1> QED
  BY <1>1, <1>2

LEMMA PartsAreFinite ==
  ASSUME PlaceType
  PROVE  /\ \A z : IsFiniteSet(CentersOf(z)) /\ Cardinality(CentersOf(z)) \in Nat
         /\ IsFiniteSet(Component) /\ IsFiniteSet(Represented)
         /\ Component \subseteq DOMAIN Polygon /\ Represented \subseteq Component
         /\ IsFiniteSet(Membership) /\ Cardinality(Membership) \in Nat
         /\ Membership \subseteq Represented \X Street
         /\ \A z \in Represented : z \in Nat /\ Overlap(z) \in Nat \ {0}
<1>1. ASSUME NEW z PROVE IsFiniteSet(CentersOf(z)) /\ Cardinality(CentersOf(z)) \in Nat
  <2>1. IsFiniteSet(Street) /\ CentersOf(z) \in SUBSET Street
    BY ReferenceAssumption DEF CentersOf
  <2> QED
    BY <2>1, FS_Subset, FS_CardinalityType
<1>2. Component \subseteq DOMAIN Polygon
  BY DEF Component
<1>3. Represented \subseteq Component
  BY DEF Represented, Supported
<1>4. IsFiniteSet(Component) /\ IsFiniteSet(Represented)
  BY <1>2, <1>3, PolygonsAreNumbered, FS_Subset
<1>5. Membership \subseteq Represented \X Street
  BY DEF Membership
<1>6. IsFiniteSet(Represented \X Street)
  BY <1>4, FS_Product, ReferenceAssumption
<1>7. IsFiniteSet(Membership) /\ Cardinality(Membership) \in Nat
  BY <1>5, <1>6, FS_Subset, FS_CardinalityType
<1>8. ASSUME NEW z \in Represented PROVE z \in Nat /\ Overlap(z) \in Nat \ {0}
  <2>1. z \in Component
    BY <1>3
  <2>2. z \in Nat /\ Overlap(z) > 0
    BY <1>2, <2>1, PolygonsAreNumbered DEF Component
  <2>3. Overlap(z) \in Nat
    BY OverlapCounts
  <2> QED
    BY <2>2, <2>3
<1> QED
  BY <1>1, <1>2, <1>3, <1>4, <1>5, <1>7, <1>8

(* A circle's count is a count.                                              *)
LEMMA AroundCounts ==
  ASSUME PlaceType, NEW c
  PROVE  Around(c) \in Nat
<1>. DEFINE B == Block \cap c - Span .. c + Span
<1>1. IsFiniteSet(B)
  BY ReferenceAssumption, FS_Subset
<1>2. Counts(happened, B)
  BY <1>1 DEF Counts, PlaceType
<1>. HIDE DEF B
<1>3. SumOver(happened, B) \in Nat
  BY <1>2, SumIsCount
<1> QED
  BY <1>3 DEF Around, B

(* When a distribution is given, every geography it is drawn from has        *)
(* centers, and its members name all of them.                                *)
LEMMA MetIsSupported ==
  ASSUME PlaceType, Adequacy = "met"
  PROVE  /\ Supported # {} /\ Represented = Supported /\ Represented # {}
         /\ \A z \in Represented : CentersOf(z) # {} /\ Cardinality(CentersOf(z)) \in Nat \ {0}
         /\ {m[1] : m \in Membership} = Represented
         /\ OverlapOf(Represented) \in Nat \ {0}
         /\ subject.kind # "city" => ~Uncovered
<1>1. Supported # {} /\ (subject.kind # "city" => ~Uncovered)
  BY DEF Adequacy
<1>2. Represented = Supported /\ Represented # {}
  BY <1>1 DEF Represented
<1>3. ASSUME NEW z \in Represented
      PROVE  CentersOf(z) # {} /\ Cardinality(CentersOf(z)) \in Nat \ {0}
  <2>1. CentersOf(z) # {}
    BY <1>2 DEF Supported
  <2> QED
    BY <2>1, PartsAreFinite, FS_EmptySet
<1>4. {m[1] : m \in Membership} = Represented
  <2>1. ASSUME NEW z \in Represented PROVE z \in {m[1] : m \in Membership}
    <3>1. PICK c \in CentersOf(z) : TRUE
      BY <1>3
    <3>2. c \in Street
      BY DEF CentersOf
    <3>3. <<z, c>> \in Membership
      BY <3>2 DEF Membership
    <3>4. <<z, c>>[1] = z
      OBVIOUS
    <3> QED
      BY <3>3, <3>4
  <2>2. \A m \in Membership : m[1] \in Represented
    BY DEF Membership
  <2> QED
    BY <2>1, <2>2
<1>5. OverlapOf(Represented) \in Nat \ {0}
  <2>1. PICK z \in Represented : TRUE
    BY <1>2
  <2>. DEFINE f == [y \in Represented |-> Overlap(y)]
  <2>2. Counts(f, Represented) /\ OverlapOf(Represented) \in Nat
    BY OverlapCounts, PartsAreFinite
  <2>3. {z} \in SUBSET Represented /\ f[z] \in Nat \ {0}
    BY PartsAreFinite
  <2>4. OverlapOf(Represented) = SumOver(f, Represented)
    BY DEF OverlapOf
  <2>. HIDE DEF f
  <2>5. SumOver(f, {z}) <= SumOver(f, Represented)
    BY <2>2, <2>3, SumOfSubset
  <2>6. SumOver(f, {z}) = f[z]
    BY <2>3, UnitsOfOne
  <2> QED
    BY <2>2, <2>3, <2>4, <2>5, <2>6
<1> QED
  BY <1>1, <1>2, <1>3, <1>4, <1>5

-----------------------------------------------------------------------------
(* The weights follow the areas.                                             *)

LEMMA Distribute ==
  ASSUME NEW k \in Nat, NEW x \in Nat, NEW q \in Nat, NEW v \in Nat, k * q = v
  PROVE  k * (x * q) = x * v /\ x * q \in Nat /\ x * v \in Nat
  BY Z3

LEMMA Cancel ==
  ASSUME NEW x \in Nat, NEW v \in Nat, NEW y \in Nat
  PROVE  x * (v * y + 0) - y * (x * v) = 0
  BY Z3

LEMMA ZoneOfMembers ==
  ASSUME PlaceType, NEW z \in Represented
  PROVE  /\ InZone(z) = {z} \X CentersOf(z)
         /\ InZone(z) \in SUBSET Membership /\ IsFiniteSet(InZone(z))
         /\ Cardinality(InZone(z)) = Cardinality(CentersOf(z))
         /\ Cardinality(CentersOf(z)) \in Nat
         /\ Cardinality(CentersOf(z)) <= Cardinality(Membership)
<1>1. InZone(z) = {z} \X CentersOf(z)
  BY DEF InZone, Membership, CentersOf
<1>2. InZone(z) \in SUBSET Membership
  BY DEF InZone
<1>3. IsFiniteSet(InZone(z)) /\ Cardinality(InZone(z)) <= Cardinality(Membership)
  BY <1>2, PartsAreFinite, FS_Subset
<1>. DEFINE P == {z}
            Q == CentersOf(z)
<1>4. IsFiniteSet(P) /\ IsFiniteSet(Q) /\ Cardinality(P) = 1 /\ Cardinality(Q) \in Nat
  BY FS_Singleton, PartsAreFinite
<1>5. InZone(z) = P \X Q
  BY <1>1
<1>. HIDE DEF P, Q
<1>6. Cardinality(P \X Q) = Cardinality(P) * Cardinality(Q)
  BY <1>4, FS_Product
<1>7. \A c \in Nat : 1 * c = c
  OBVIOUS
<1>8. Cardinality(InZone(z)) = Cardinality(Q)
  BY <1>4, <1>5, <1>6, <1>7
<1> QED
  BY <1>1, <1>2, <1>3, <1>4, <1>8 DEF Q

(* The overlaps, each counted v times.                                       *)
LEMMA ScaledAreas ==
  ASSUME PlaceType, NEW v \in Nat, NEW a, \A z \in Represented : a[z] = Overlap(z) * v
  PROVE  Counts(a, Represented) /\ SumOver(a, Represented) = v * OverlapOf(Represented) + 0
<1>. DEFINE f == [z \in Represented |-> Overlap(z)]
            g == [z \in Represented |-> 0]
<1>1. IsFiniteSet(Represented) /\ Cardinality(Represented) \in Nat
  BY PartsAreFinite, FS_CardinalityType
<1>2. ASSUME NEW z \in Represented PROVE a[z] = v * f[z] + g[z] /\ a[z] \in Nat
  <2>1. Overlap(z) \in Nat
    BY OverlapCounts
  <2>2. \A x \in Nat : x * v = v * x + 0 /\ x * v \in Nat
    BY Z3
  <2> QED
    BY <2>1, <2>2
<1>3. Counts(a, Represented) /\ Counts(f, Represented) /\ Counts(g, Represented)
  BY <1>1, <1>2, OverlapCounts DEF Counts
<1>4. SumOver(f, Represented) = OverlapOf(Represented)
  BY DEF OverlapOf
<1>5. \A z \in Represented : g[z] = 0 /\ a[z] = v * f[z] + g[z]
  BY <1>2
<1>. HIDE DEF f, g
<1>6. SumOver(a, Represented) = v * SumOver(f, Represented) + SumOver(g, Represented)
  BY <1>3, <1>5, SumIsLinear
<1>7. SumOver(g, Represented) = Cardinality(Represented) * 0
  BY <1>1, <1>5, SumOfEqual
<1>8. Cardinality(Represented) * 0 = 0
  BY <1>1
<1> QED
  BY <1>3, <1>4, <1>6, <1>7, <1>8

LEMMA ExactWeightsCount ==
  ASSUME PlaceType, Adequacy = "met", Exact
  PROVE  /\ Counts(ExactWeight, Membership) /\ DOMAIN ExactWeight = Membership
         /\ \A z \in Represented : SumOver(ExactWeight, InZone(z)) = Overlap(z) * Whole
         /\ SumOver(ExactWeight, Membership) = Whole * OverlapOf(Represented) + 0
<1>1. ASSUME NEW z \in Represented
      PROVE  LET k == Cardinality(CentersOf(z))
             IN  /\ k * (Whole \div k) = Whole /\ Whole \div k \in Nat
                 /\ k * (Overlap(z) * (Whole \div k)) = Overlap(z) * Whole
                 /\ Overlap(z) * (Whole \div k) \in Nat /\ Overlap(z) * Whole \in Nat
  <2>. DEFINE k == Cardinality(CentersOf(z))
  <2>1. k \in Nat \ {0} /\ k <= Cardinality(Membership)
    BY MetIsSupported, ZoneOfMembers
  <2>2. k \in 1 .. MaxExact
    BY <2>1, PartsAreFinite, ReferenceAssumption DEF Exact
  <2>. HIDE DEF k
  <2>3. k * (Whole \div k) = Whole
    BY <2>2, ReferenceAssumption
  <2>4. Whole \div k \in Nat /\ Overlap(z) \in Nat /\ Whole \in Nat
    BY <2>1, Quotient, OverlapCounts, ReferenceAssumption
  <2>5. /\ k * (Overlap(z) * (Whole \div k)) = Overlap(z) * Whole
        /\ Overlap(z) * (Whole \div k) \in Nat /\ Overlap(z) * Whole \in Nat
    <3>. DEFINE x == Overlap(z)
                q == Whole \div k
    <3>1. k \in Nat /\ x \in Nat /\ q \in Nat /\ Whole \in Nat /\ k * q = Whole
      BY <2>1, <2>3, <2>4
    <3>. HIDE DEF x, q
    <3>2. k * (x * q) = x * Whole /\ x * q \in Nat /\ x * Whole \in Nat
      BY <3>1, Distribute
    <3> QED
      BY <3>2 DEF x, q
  <2> QED
    BY <2>3, <2>4, <2>5 DEF k
<1>2. \A m \in Membership : m[1] \in Represented
  BY DEF Membership
<1>3. Counts(ExactWeight, Membership) /\ DOMAIN ExactWeight = Membership
  <2>1. ASSUME NEW m \in Membership PROVE ExactWeight[m] \in Nat
    BY <1>1, <1>2 DEF ExactWeight
  <2> QED
    BY <2>1, PartsAreFinite DEF Counts, ExactWeight
<1>4. ASSUME NEW z \in Represented PROVE SumOver(ExactWeight, InZone(z)) = Overlap(z) * Whole
  <2>. DEFINE c == Overlap(z) * (Whole \div Cardinality(CentersOf(z)))
  <2>1. \A m \in InZone(z) : ExactWeight[m] = c
    BY DEF InZone, ExactWeight
  <2>2. c \in Nat /\ Cardinality(CentersOf(z)) * c = Overlap(z) * Whole
    BY <1>1
  <2>3. IsFiniteSet(InZone(z)) /\ Cardinality(InZone(z)) = Cardinality(CentersOf(z))
    BY ZoneOfMembers
  <2>. HIDE DEF c
  <2>4. SumOver(ExactWeight, InZone(z)) = Cardinality(InZone(z)) * c
    BY <2>1, <2>2, <2>3, SumOfEqual
  <2> QED
    BY <2>2, <2>3, <2>4
<1>5. SumOver(ExactWeight, Membership) = Whole * OverlapOf(Represented) + 0
  <2>. DEFINE a == [z \in Represented |-> Overlap(z) * Whole]
  <2>1. \A z \in Represented : a[z] = Overlap(z) * Whole
    OBVIOUS
  <2>2. \A z \in Represented : SumOver(ExactWeight, PartOf(Membership, z)) = a[z]
    BY <1>4 DEF InZone, PartOf
  <2>. HIDE DEF a
  <2>3. Counts(a, Represented) /\ SumOver(a, Represented) = Whole * OverlapOf(Represented) + 0
    BY <2>1, ScaledAreas, ReferenceAssumption
  <2>4. SumOver(ExactWeight, Membership) = SumOver(a, Represented)
    BY <1>2, <1>3, <2>2, <2>3, SumByPart
  <2> QED
    BY <2>3, <2>4
<1> QED
  BY <1>3, <1>4, <1>5

(* Taken whole, every geography weighs exactly its part.                     *)
LEMMA ExactFollowsAreas ==
  ASSUME PlaceType, Adequacy = "met", Exact, NEW z \in Represented
  PROVE  Overlap(z) * SumOver(ExactWeight, Membership)
           - OverlapOf(Represented) * SumOver(ExactWeight, InZone(z)) = 0
<1>1. /\ SumOver(ExactWeight, Membership) = Whole * OverlapOf(Represented) + 0
      /\ SumOver(ExactWeight, InZone(z)) = Overlap(z) * Whole
  BY ExactWeightsCount
<1>2. Overlap(z) \in Nat /\ Whole \in Nat /\ OverlapOf(Represented) \in Nat
  BY OverlapCounts, PartsAreFinite, ReferenceAssumption
<1>3. Overlap(z) * (Whole * OverlapOf(Represented) + 0)
        - OverlapOf(Represented) * (Overlap(z) * Whole) = 0
  BY <1>2, Cancel
<1> QED
  BY <1>1, <1>3

LEMMA Division ==
  ASSUME NEW a \in Nat, NEW r \in Nat \ {0}
  PROVE  /\ a = r * (a \div r) + (a % r) /\ a \div r \in Nat
         /\ a % r \in Nat /\ a % r <= r /\ a % r < r
  BY Z3

LEMMA LeftOverBounds ==
  ASSUME NEW d \in Nat, NEW s \in Nat, NEW r \in Nat \ {0}, NEW x \in Nat, NEW n \in Nat,
         d * r + 0 = r * s + x, x <= n * r
  PROVE  d - s \in 0 .. n
<1>1. r * (d - s) = x
  BY Z3
<1>2. d - s >= 0
  <2>1. ASSUME d - s < 0 PROVE FALSE
    <3>1. r * (d - s) < 0
      BY <2>1, Z3
    <3> QED
      BY <1>1, <3>1
  <2> QED
    BY <2>1
<1>3. d - s <= n
  <2>1. ASSUME d - s >= n + 1 PROVE FALSE
    <3>1. r * (d - s) >= n * r + r
      BY <2>1, Z3
    <3> QED
      BY <1>1, <3>1
  <2> QED
    BY <2>1
<1> QED
  BY <1>2, <1>3

LEMMA SharesDivide ==
  ASSUME PlaceType, Adequacy = "met", NEW z \in Represented
  PROVE  /\ Overlap(z) * Draws = OverlapOf(Represented) * Share(z) + Remainder(z)
         /\ Share(z) \in Nat /\ Remainder(z) \in Nat
         /\ Remainder(z) < OverlapOf(Represented) /\ Remainder(z) <= OverlapOf(Represented)
         /\ OverlapOf(Represented) \in Nat \ {0} /\ Overlap(z) * Draws \in Nat
<1>1. OverlapOf(Represented) \in Nat \ {0}
  BY MetIsSupported
<1>2. Overlap(z) * Draws \in Nat
  BY OverlapCounts, Product, ReferenceAssumption
<1>. DEFINE a == Overlap(z) * Draws
            r == OverlapOf(Represented)
<1>3. a \in Nat /\ r \in Nat \ {0}
  BY <1>1, <1>2
<1>. HIDE DEF a, r
<1>4. a = r * (a \div r) + (a % r) /\ a \div r \in Nat /\ a % r \in Nat /\ a % r <= r /\ a % r < r
  BY <1>3, Division
<1> QED
  BY <1>3, <1>4 DEF a, r, Share, Remainder

LEMMA LeftOverIsSmall ==
  ASSUME PlaceType, Adequacy = "met"
  PROVE  /\ LeftOver \in 0 .. Cardinality(Represented)
         /\ SumOver([z \in Represented |-> Share(z)], Represented) \in Nat
<1>. DEFINE a == [z \in Represented |-> Overlap(z) * Draws]
            f == [z \in Represented |-> Share(z)]
            g == [z \in Represented |-> Remainder(z)]
            r == OverlapOf(Represented)
<1>1. IsFiniteSet(Represented) /\ Cardinality(Represented) \in Nat
  BY PartsAreFinite, FS_CardinalityType
<1>2. \A z \in Represented : a[z] = Overlap(z) * Draws
  OBVIOUS
<1>3. \A z \in Represented : a[z] = r * f[z] + g[z] /\ g[z] <= r
  BY SharesDivide
<1>4. Counts(f, Represented) /\ Counts(g, Represented)
  BY <1>1, SharesDivide DEF Counts
<1>5. r \in Nat \ {0}
  BY MetIsSupported
<1>6. LeftOver = Draws - SumOver(f, Represented)
  BY DEF LeftOver
<1>. HIDE DEF a, f, g
<1>7. SumOver(a, Represented) = Draws * r + 0
  BY <1>2, ScaledAreas, ReferenceAssumption
<1>. HIDE DEF r
<1>8. SumOver(a, Represented) = r * SumOver(f, Represented) + SumOver(g, Represented)
  BY <1>3, <1>4, <1>5, SumIsLinear
<1>9. SumOver(g, Represented) <= Cardinality(Represented) * r
  BY <1>3, <1>4, <1>5, SumAtMost
<1>10. SumOver(f, Represented) \in Nat /\ SumOver(g, Represented) \in Nat
  BY <1>4, SumIsCount
<1>11. Draws - SumOver(f, Represented) \in 0 .. Cardinality(Represented)
  <2>1. Draws * r + 0 = r * SumOver(f, Represented) + SumOver(g, Represented) /\ Draws \in Nat
    BY <1>7, <1>8, ReferenceAssumption
  <2> QED
    BY <1>1, <1>5, <1>9, <1>10, <2>1, LeftOverBounds
<1> QED
  BY <1>6, <1>10, <1>11 DEF f

(* Those that get one of the draws left over.                                *)
Extra == {ByRemainder[n] : n \in 1 .. LeftOver}

LEMMA ExtraAreLeftOver ==
  ASSUME PlaceType, Adequacy = "met"
  PROVE  Extra \subseteq Represented /\ IsFiniteSet(Extra) /\ Cardinality(Extra) = LeftOver
<1>. DEFINE R == {p \in Represented \X Represented : Precedes(p[1], p[2])}
            N == Cardinality(Represented)
<1>1. \A y, z : <<y, z>> \in R <=> y \in Represented /\ z \in Represented /\ Precedes(y, z)
  OBVIOUS
<1>2. \A z \in Represented : z \in Nat /\ Remainder(z) \in Nat
  BY SharesDivide, PartsAreFinite
<1>. HIDE DEF R
<1>3. Orders(R, Represented)
  BY <1>1, <1>2 DEF Orders, Precedes
<1>4. IsFiniteSet(Represented)
  BY PartsAreFinite
<1>5. ByRemainder = Ranked(Represented, R)
  BY DEF ByRemainder, R
<1>6. /\ ByRemainder \in Seq(Represented) /\ Len(ByRemainder) = N /\ N \in Nat
      /\ \A m, n \in 1 .. N : m < n <=> <<ByRemainder[m], ByRemainder[n]>> \in R
  BY <1>3, <1>4, <1>5, RankedInOrder
<1>7. LeftOver \in 0 .. N
  BY LeftOverIsSmall
<1>. HIDE DEF N
<1>. DEFINE f == [n \in 1 .. LeftOver |-> ByRemainder[n]]
<1>8. \A n \in 1 .. LeftOver : n \in 1 .. N /\ ByRemainder[n] \in Represented
  BY <1>6, <1>7
<1>9. f \in Surjection(1 .. LeftOver, Extra)
  BY DEF Surjection, Extra
<1>10. f \in Injection(1 .. LeftOver, Extra)
  <2>1. ASSUME NEW m \in 1 .. LeftOver, NEW n \in 1 .. LeftOver, m < n, f[m] = f[n] PROVE FALSE
    <3>1. <<ByRemainder[m], ByRemainder[n]>> \in R /\ ByRemainder[m] = ByRemainder[n]
      BY <1>6, <1>8, <2>1
    <3>2. <<ByRemainder[m], ByRemainder[m]>> \in R /\ ByRemainder[m] \in Represented
      BY <1>8, <3>1
    <3> QED
      BY <1>3, <3>2 DEF Orders
  <2>2. \A m, n \in 1 .. LeftOver : f[m] = f[n] => m = n
    <3>1. \A m, n \in 1 .. LeftOver : m = n \/ m < n \/ n < m
      BY <1>7
    <3> QED
      BY <2>1, <3>1
  <2>3. f \in [1 .. LeftOver -> Extra]
    BY <1>9 DEF Surjection
  <2>4. DOMAIN f = 1 .. LeftOver
    OBVIOUS
  <2>. HIDE DEF f
  <2> QED
    BY <2>2, <2>3, <2>4 DEF Injection, IsInjective
<1>11. IsFiniteSet(1 .. LeftOver) /\ Cardinality(1 .. LeftOver) = LeftOver
  <2>1. 1 \in Int /\ LeftOver \in Int /\ LeftOver >= 0
    BY <1>6, <1>7
  <2>2. /\ IsFiniteSet(1 .. LeftOver)
        /\ Cardinality(1 .. LeftOver) = IF 1 > LeftOver THEN 0 ELSE LeftOver - 1 + 1
    BY <2>1, FS_Interval
  <2> QED
    BY <2>1, <2>2
<1>12. IsFiniteSet(Extra) /\ Cardinality(Extra) = Cardinality(1 .. LeftOver)
  <2>. HIDE DEF f
  <2> QED
    BY <1>9, <1>10, <1>11, FS_Surjection
<1>13. Extra \subseteq Represented
  BY <1>8 DEF Extra
<1> QED
  BY <1>11, <1>12, <1>13

LEMMA AllocationIsShare ==
  ASSUME NEW z
  PROVE  Allocation(z) = Share(z) + IF z \in Extra THEN 1 ELSE 0
  BY DEF Allocation, Extra

(* No draw is lost.                                                          *)
LEMMA AllocationsAddUp ==
  ASSUME PlaceType, Adequacy = "met",
         NEW a, \A z \in Represented : a[z] = Allocation(z)
  PROVE  Counts(a, Represented) /\ SumOver(a, Represented) = Draws
<1>. DEFINE f == [z \in Represented |-> Share(z)]
            g == [z \in Represented |-> IF z \in Extra THEN 1 ELSE 0]
            Others == Represented \ Extra
<1>1. IsFiniteSet(Represented) /\ IsFiniteSet(Extra) /\ IsFiniteSet(Others)
  BY PartsAreFinite, ExtraAreLeftOver, FS_Subset
<1>2. ASSUME NEW z \in Represented
      PROVE  f[z] \in Nat /\ g[z] \in Nat /\ a[z] = 1 * f[z] + g[z] /\ a[z] \in Nat
  BY SharesDivide, AllocationIsShare
<1>3. Counts(f, Represented) /\ Counts(g, Represented) /\ Counts(a, Represented)
  BY <1>1, <1>2 DEF Counts
<1>4. /\ Extra \cup Others = Represented /\ Extra \cap Others = {}
      /\ \A z \in Extra : g[z] = 1
      /\ \A z \in Others : g[z] = 0
  BY ExtraAreLeftOver
<1>5. LeftOver = Draws - SumOver(f, Represented) /\ SumOver(f, Represented) \in Nat
  BY LeftOverIsSmall DEF LeftOver
<1>6. Counts(g, Extra) /\ Counts(g, Others)
  BY <1>1, <1>4 DEF Counts
<1>. HIDE DEF f, g, Others
<1>7. SumOver(a, Represented) = 1 * SumOver(f, Represented) + SumOver(g, Represented)
  BY <1>2, <1>3, SumIsLinear
<1>8. SumOver(g, Represented) = SumOver(g, Extra) + SumOver(g, Others)
  <2>1. SumOver(g, Extra \cup Others) = SumOver(g, Extra) + SumOver(g, Others)
    BY <1>4, <1>6, SumSplit
  <2> QED
    BY <1>4, <2>1
<1>9. SumOver(g, Extra) = Cardinality(Extra) * 1 /\ SumOver(g, Others) = Cardinality(Others) * 0
  BY <1>1, <1>4, SumOfEqual
<1>10. /\ Cardinality(Extra) = LeftOver /\ LeftOver \in Int
       /\ Cardinality(Others) \in Nat /\ Draws \in Nat
  BY <1>1, <1>5, ExtraAreLeftOver, FS_CardinalityType, ReferenceAssumption
<1> QED
  BY <1>3, <1>5, <1>7, <1>8, <1>9, <1>10

LEMMA DrawsCount ==
  ASSUME PlaceType, Adequacy = "met", NEW w \in Drawn
  PROVE  /\ Counts(w, Membership) /\ DOMAIN w = Membership
         /\ SumOver(w, Membership) = Draws
         /\ \A z \in Represented : SumOver(w, InZone(z)) = Allocation(z)
<1>. DEFINE a == [z \in Represented |-> Allocation(z)]
<1>1. /\ w \in [Membership -> 0 .. Draws]
      /\ \A z \in Represented : SumOver(w, InZone(z)) = Allocation(z)
  BY DEF Drawn
<1>2. DOMAIN w = Membership /\ \A m \in Membership : w[m] \in Nat
  BY <1>1, ReferenceAssumption
<1>3. Counts(w, Membership)
  BY <1>2, PartsAreFinite DEF Counts
<1>4. \A z \in Represented : a[z] = Allocation(z)
  OBVIOUS
<1>5. \A z \in Represented : SumOver(w, PartOf(Membership, z)) = a[z]
  BY <1>1 DEF InZone, PartOf
<1>6. \A m \in Membership : m[1] \in Represented
  BY DEF Membership
<1>. HIDE DEF a
<1>7. Counts(a, Represented) /\ SumOver(a, Represented) = Draws
  BY <1>4, AllocationsAddUp
<1>8. SumOver(w, Membership) = SumOver(a, Represented)
  BY <1>3, <1>5, <1>6, <1>7, SumByPart
<1> QED
  BY <1>1, <1>2, <1>3, <1>7, <1>8

(* Drawn from, every geography weighs its part to within one draw.           *)
LEMMA DrawsFollowAreas ==
  ASSUME PlaceType, Adequacy = "met", NEW w \in Drawn, NEW z \in Represented
  PROVE  Overlap(z) * SumOver(w, Membership) - OverlapOf(Represented) * SumOver(w, InZone(z))
           \in -OverlapOf(Represented) .. OverlapOf(Represented)
<1>. DEFINE r == OverlapOf(Represented)
            s == Share(z)
            x == Overlap(z) * Draws
            m == Remainder(z)
<1>1. SumOver(w, Membership) = Draws /\ SumOver(w, InZone(z)) = s + IF z \in Extra THEN 1 ELSE 0
  BY DrawsCount, AllocationIsShare
<1>2. r \in Nat \ {0} /\ s \in Nat /\ m \in Nat /\ m < r /\ x = r * s + m /\ x \in Nat
  BY SharesDivide
<1>3. SumOver(w, InZone(z)) = s + 1 \/ SumOver(w, InZone(z)) = s + 0
  BY <1>1
<1>4. Overlap(z) * SumOver(w, Membership) = x
  BY <1>1
<1>. HIDE DEF r, s, x, m
<1>5. x - r * (s + 1) \in -r .. r /\ x - r * (s + 0) \in -r .. r
  <2>1. r * (s + 1) = r * s + r /\ r * (s + 0) = r * s /\ r * s \in Nat
    BY <1>2, Z3
  <2> QED
    BY <1>2, <2>1
<1>6. x - r * SumOver(w, InZone(z)) \in -r .. r
  BY <1>3, <1>5
<1> QED
  BY <1>4, <1>6 DEF r

-----------------------------------------------------------------------------
(* Weighted quantiles.                                                       *)

(* A weight for every center, and a count.                                   *)
Weighted(w, count) ==
    /\ Counts(w, Membership) /\ DOMAIN w = Membership
    /\ SumOver(w, Membership) \in Nat \ {0}
    /\ \A m \in Membership : count[m] \in Nat

LEMMA CentersAreOrdered ==
  ASSUME PlaceType, NEW w, NEW count, Weighted(w, count)
  PROVE  LET W == Weighing(w)
         IN  /\ W \subseteq Membership /\ IsFiniteSet(W)
             /\ Orders({p \in W \X W : Fewer(count, p[1], p[2])}, W)
<1>. DEFINE W == Weighing(w)
            R == {p \in W \X W : Fewer(count, p[1], p[2])}
<1>1. W \subseteq Membership /\ IsFiniteSet(W)
  <2>1. W \subseteq Membership
    BY DEF Weighing, Weighted
  <2> QED
    BY <2>1, PartsAreFinite, FS_Subset
<1>2. ASSUME NEW m \in W
      PROVE  m = <<m[1], m[2]>> /\ m[1] \in Int /\ m[2] \in Int /\ count[m] \in Int
  <2>1. m \in Membership /\ m \in Represented \X Street
    BY <1>1, PartsAreFinite
  <2>2. m = <<m[1], m[2]>> /\ m[1] \in Represented /\ m[2] \in Street
    BY <2>1
  <2>3. m[1] \in Int /\ m[2] \in Int
    BY <2>2, PartsAreFinite, ReferenceAssumption
  <2> QED
    BY <2>1, <2>2, <2>3 DEF Weighted
<1>3. \A y, z : <<y, z>> \in R <=> y \in W /\ z \in W /\ Fewer(count, y, z)
  OBVIOUS
<1>. HIDE DEF R, W
<1>4. ASSUME NEW x \in W PROVE <<x, x>> \notin R
  BY <1>2, <1>3 DEF Fewer
<1>5. ASSUME NEW x \in W, NEW y \in W, x # y PROVE <<x, y>> \in R \/ <<y, x>> \in R
  <2>1. x[1] # y[1] \/ x[2] # y[2]
    BY <1>2, <1>5
  <2>2. Fewer(count, x, y) \/ Fewer(count, y, x)
    BY <1>2, <2>1 DEF Fewer
  <2> QED
    BY <1>3, <2>2
<1>6. ASSUME NEW x \in W, NEW y \in W, NEW z \in W, <<x, y>> \in R, <<y, z>> \in R
      PROVE  <<x, z>> \in R
  <2>1. Fewer(count, x, y) /\ Fewer(count, y, z)
    BY <1>3, <1>6
  <2>2. Fewer(count, x, z)
    BY <1>2, <2>1 DEF Fewer
  <2> QED
    BY <1>3, <2>2
<1>7. Orders(R, W)
  BY <1>4, <1>5, <1>6 DEF Orders
<1> QED
  BY <1>1, <1>7 DEF R, W

(* The centers in order: of two, the first has no higher a count.            *)
LEMMA CountsRise ==
  ASSUME PlaceType, NEW w, NEW count, Weighted(w, count)
  PROVE  LET o == ByCount(w, count)
         IN  /\ o \in Seq(Weighing(w)) /\ Len(o) \in Nat
             /\ \A x \in Weighing(w) : \E n \in 1 .. Len(o) : o[n] = x
             /\ \A n \in 1 .. Len(o) : o[n] \in Weighing(w) /\ o[n] \in Membership
             /\ \A m, n \in 1 .. Len(o) : m <= n => count[o[m]] <= count[o[n]]
<1>. DEFINE W == Weighing(w)
            R == {p \in W \X W : Fewer(count, p[1], p[2])}
            o == ByCount(w, count)
<1>1. W \subseteq Membership /\ IsFiniteSet(W) /\ Orders(R, W)
  BY CentersAreOrdered
<1>2. \A y, z : <<y, z>> \in R => Fewer(count, y, z)
  OBVIOUS
<1>3. o = Ranked(W, R)
  BY DEF ByCount
<1>4. W = Weighing(w)
  OBVIOUS
<1>. HIDE DEF W, R, o
<1>5. /\ o \in Seq(W) /\ Len(o) = Cardinality(W) /\ Len(o) \in Nat
      /\ \A x \in W : \E n \in 1 .. Len(o) : o[n] = x
      /\ \A m, n \in 1 .. Len(o) : m < n <=> <<o[m], o[n]>> \in R
  BY <1>1, <1>3, RankedInOrder
<1>6. \A n \in 1 .. Len(o) : o[n] \in W /\ o[n] \in Membership /\ count[o[n]] \in Nat
  BY <1>1, <1>5 DEF Weighted
<1>7. ASSUME NEW m \in 1 .. Len(o), NEW n \in 1 .. Len(o), m <= n
      PROVE  count[o[m]] <= count[o[n]]
  <2>1. CASE m = n
    BY <1>6, <2>1
  <2>2. CASE m < n
    <3>1. Fewer(count, o[m], o[n])
      BY <1>2, <1>5, <2>2
    <3> QED
      BY <1>6, <3>1 DEF Fewer
  <2> QED
    BY <1>5, <1>7, <2>1, <2>2
<1> QED
  BY <1>4, <1>5, <1>6, <1>7 DEF o

LEMMA OfHundred ==
  ASSUME NEW d \in Nat, NEW t \in Nat, NEW p \in Nat, NEW h \in Nat,
         100 * p >= d * t, p + h <= t
  PROVE  100 * h <= (100 - d) * t
<1>1. (100 - d) * t = 100 * t - d * t /\ d * t \in Nat
  BY Z3
<1> QED
  BY <1>1

(* A quantile leaves no more than its part below it, and no more than the    *)
(* rest above it.                                                            *)
Splits(w, count, d, q) ==
    /\ 100 * SumOver(w, {m \in Membership : count[m] < q}) <= d * SumOver(w, Membership)
    /\ 100 * SumOver(w, {m \in Membership : count[m] > q}) <= (100 - d) * SumOver(w, Membership)

LEMMA QuantileSplits ==
  ASSUME PlaceType, NEW w, NEW count, Weighted(w, count), NEW d \in 1 .. 100
  PROVE  Splits(w, count, d, Quantile(w, count, d, 100))
<1>. DEFINE W == Weighing(w)
            o == ByCount(w, count)
            T == SumOver(w, Membership)
            Prefix(n) == {o[k] : k \in 1 .. n}
            reached == {n \in 1 .. Len(o) : 100 * SumOver(w, Prefix(n)) >= d * T}
            n == Min(reached)
            q == count[o[n]]
            Low == {m \in Membership : count[m] < q}
            High == {m \in Membership : count[m] > q}
<1>1. /\ Len(o) \in Nat
      /\ \A x \in W : \E k \in 1 .. Len(o) : o[k] = x
      /\ \A k \in 1 .. Len(o) : o[k] \in W /\ o[k] \in Membership
      /\ \A k, l \in 1 .. Len(o) : k <= l => count[o[k]] <= count[o[l]]
  BY CountsRise
<1>2. /\ Counts(w, Membership) /\ T \in Nat \ {0} /\ DOMAIN w = Membership
      /\ \A m \in Membership : w[m] \in Nat /\ count[m] \in Nat
      /\ W = {m \in Membership : w[m] > 0}
  BY DEF Weighted, Weighing, Counts
<1>3. Quantile(w, count, d, 100) = q
  BY <1>2 DEF Quantile, Weight
<1>. HIDE DEF W, o, T
<1>4. \A k \in 0 .. Len(o) : Prefix(k) \in SUBSET Membership
  BY <1>1
<1>5. ASSUME NEW k \in 0 .. Len(o) PROVE SumOver(w, Prefix(k)) \in Nat /\ Counts(w, Prefix(k))
  <2>. HIDE DEF Prefix
  <2>1. Counts(w, Prefix(k))
    BY <1>2, <1>4, SumOfSubset
  <2> QED
    BY <2>1, SumIsCount
<1>6. Len(o) \in reached
  <2>1. Units(w, Membership) \subseteq Units(w, Prefix(Len(o)))
    <3>1. ASSUME NEW m \in Membership, NEW i \in 1 .. w[m]
          PROVE  m \in Prefix(Len(o))
      <4>1. m \in W
        BY <1>2
      <4> QED
        BY <1>1, <4>1
    <3>. HIDE DEF Prefix
    <3> QED
      BY <3>1 DEF Units
  <2>2. Len(o) \in 0 .. Len(o)
    BY <1>1
  <2>3. SumOver(w, Prefix(Len(o))) \in Nat /\ Counts(w, Prefix(Len(o)))
    BY <1>5, <2>2
  <2>4. T <= SumOver(w, Prefix(Len(o)))
    <3>. HIDE DEF Prefix
    <3> QED
      BY <2>1, <2>3, SumIsSmaller DEF T
  <2>5. Len(o) # 0
    <3>1. ASSUME Len(o) = 0 PROVE FALSE
      <4>1. Prefix(Len(o)) = {}
        BY <3>1
      <4>2. SumOver(w, {}) = 0
        BY SumOfNone
      <4>. HIDE DEF Prefix
      <4>3. T <= 0
        BY <2>4, <4>1, <4>2
      <4> QED
        BY <1>2, <4>3
    <3> QED
      BY <3>1
  <2>6. Len(o) \in 1 .. Len(o)
    BY <1>1, <2>5
  <2>7. 100 * SumOver(w, Prefix(Len(o))) >= d * T
    <3>1. \A p, t \in Nat : t <= p => 100 * p >= d * t
      BY Z3
    <3>. HIDE DEF Prefix
    <3> QED
      BY <1>2, <2>3, <2>4, <3>1
  <2> QED
    BY <2>6, <2>7
<1>7. n \in reached /\ \A k \in reached : n <= k
  <2>1. reached \subseteq Nat /\ reached # {}
    <3>1. reached \subseteq 1 .. Len(o)
      OBVIOUS
    <3>. HIDE DEF reached
    <3> QED
      BY <1>1, <1>6, <3>1
  <2>. HIDE DEF reached
  <2> QED
    BY <2>1, MinOfNat
<1>8. n \in 1 .. Len(o) /\ 100 * SumOver(w, Prefix(n)) >= d * T
  BY <1>7
<1>9. n - 1 \in 0 .. Len(o) /\ n \in 0 .. Len(o) /\ n \in Nat
  BY <1>1, <1>8
<1>14. d * T \in Nat
  <2>1. d \in Nat /\ T \in Nat
    BY <1>2
  <2>. HIDE DEF T
  <2> QED
    BY <2>1, Product
<1>10. 100 * SumOver(w, Prefix(n - 1)) <= d * T
  <2>1. CASE n = 1
    <3>1. Prefix(n - 1) = {}
      <4>. HIDE DEF n
      <4> QED
        BY <2>1
    <3>2. SumOver(w, Prefix(n - 1)) = 0
      BY <3>1, SumOfNone
    <3>. HIDE DEF Prefix, n
    <3> QED
      BY <1>14, <3>2
  <2>2. CASE n # 1
    <3>1. n - 1 \in 1 .. Len(o) /\ ~(n <= n - 1)
      BY <1>8, <1>9, <2>2
    <3>2. ~(100 * SumOver(w, Prefix(n - 1)) >= d * T)
      BY <1>7, <3>1
    <3>3. SumOver(w, Prefix(n - 1)) \in Nat /\ d * T \in Nat
      BY <1>5, <1>9, <1>14
    <3>. HIDE DEF Prefix
    <3> QED
      BY <3>2, <3>3
  <2> QED
    BY <2>1, <2>2
<1>11. q \in Nat
  BY <1>1, <1>2, <1>8
<1>. HIDE DEF n, reached
<1>12. 100 * SumOver(w, Low) <= d * T
  <2>1. ASSUME NEW m \in Low, NEW i \in 1 .. w[m] PROVE m \in Prefix(n - 1)
    <3>1. m \in Membership /\ count[m] < q
      OBVIOUS
    <3>2. m \in W
      BY <1>2, <3>1
    <3>3. PICK k \in 1 .. Len(o) : o[k] = m
      BY <1>1, <3>2
    <3>4. ~(n <= k)
      <4>1. n <= k => q <= count[m]
        BY <1>1, <1>8, <3>3
      <4> QED
        BY <1>2, <1>11, <3>1, <4>1
    <3>5. k \in 1 .. n - 1
      BY <1>9, <3>3, <3>4
    <3> QED
      BY <3>3, <3>5
  <2>2. SumOver(w, Prefix(n - 1)) \in Nat /\ Counts(w, Prefix(n - 1))
    BY <1>5, <1>9
  <2>. HIDE DEF Low, Prefix
  <2>3. Units(w, Low) \subseteq Units(w, Prefix(n - 1))
    BY <2>1 DEF Units
  <2>4. SumOver(w, Low) \in Nat /\ SumOver(w, Low) <= SumOver(w, Prefix(n - 1))
    BY <2>2, <2>3, SumIsSmaller
  <2> QED
    BY <1>10, <1>14, <2>2, <2>4
<1>13. 100 * SumOver(w, High) <= (100 - d) * T
  <2>1. \A k \in 1 .. n : k \in 1 .. Len(o) /\ k <= n
    BY <1>8, <1>9
  <2>2. ASSUME NEW m \in High, m \in Prefix(n) PROVE FALSE
    <3>1. m \in Membership /\ count[m] > q
      OBVIOUS
    <3>2. PICK k \in 1 .. n : o[k] = m
      BY <2>2
    <3>3. count[m] <= q
      BY <1>1, <1>8, <2>1, <3>2
    <3> QED
      BY <1>2, <1>11, <3>1, <3>3
  <2>3. Prefix(n) \cap High = {} /\ High \in SUBSET Membership
    BY <2>2
  <2>4. Prefix(n) \in SUBSET Membership /\ Counts(w, Prefix(n)) /\ SumOver(w, Prefix(n)) \in Nat
    BY <1>4, <1>5, <1>9
  <2>. HIDE DEF High, Prefix
  <2>5. Counts(w, High) /\ SumOver(w, High) \in Nat
    BY <1>2, <2>3, SumOfSubset, SumIsCount
  <2>6. SumOver(w, Prefix(n) \cup High) = SumOver(w, Prefix(n)) + SumOver(w, High)
    BY <2>3, <2>4, <2>5, SumSplit
  <2>7. Prefix(n) \cup High \in SUBSET Membership
    BY <2>3, <2>4
  <2>8. SumOver(w, Prefix(n) \cup High) <= T
    BY <1>2, <2>7, SumOfSubset DEF T
  <2>9. SumOver(w, Prefix(n)) + SumOver(w, High) <= T /\ d \in Nat /\ T \in Nat
    BY <1>2, <2>6, <2>8
  <2> QED
    BY <1>8, <2>4, <2>5, <2>9, OfHundred
<1> QED
  BY <1>3, <1>12, <1>13 DEF T, Splits

-----------------------------------------------------------------------------
(* The samples in sectors, which do not overlap.                             *)

Covers(zs) == Samples \cap UNION {Polygon[z] : z \in zs}

LEMMA CoversIsFinite ==
  ASSUME PlaceType, NEW zs
  PROVE  IsFiniteSet(Covers(zs)) /\ Cardinality(Covers(zs)) \in Nat
<1>1. Covers(zs) \in SUBSET Samples
  BY DEF Covers
<1> QED
  BY <1>1, SamplesAreCells, FS_Subset, FS_CardinalityType

LEMMA SectorsAddUp ==
  ASSUME PlaceType, subject.kind = "sector", NEW zs \in SUBSET DOMAIN Polygon
  PROVE  OverlapOf(zs) = Cardinality(Covers(zs))
<1>. DEFINE f == [z \in zs |-> Overlap(z)]
            G == {T \in SUBSET zs : SumOver(f, T) = Cardinality(Covers(T))}
<1>1. IsFiniteSet(zs) /\ Counts(f, zs)
  BY PolygonsAreNumbered, FS_Subset, OverlapCounts
<1>2. \A z \in zs : f[z] = Cardinality(Samples \cap Polygon[z])
  BY DEF Overlap
<1>3. \A y, z \in DOMAIN Polygon : y # z => Polygon[y] \cap Polygon[z] = {}
  <2>1. Polygon = Zone["sector"]
    BY DEF Polygon
  <2> QED
    BY <2>1, ReferenceAssumption
<1>. HIDE DEF f
<1>4. {} \in G
  <2>1. Covers({}) = {}
    BY DEF Covers
  <2>2. SumOver(f, {}) = 0 /\ Cardinality({}) = 0
    BY SumOfNone, FS_EmptySet
  <2> QED
    BY <2>1, <2>2
<1>5. ASSUME NEW T \in SUBSET zs, NEW x \in zs, T \in G, x \notin T PROVE T \cup {x} \in G
  <2>. DEFINE X == Samples \cap Polygon[x]
  <2>1. SumOver(f, T) = Cardinality(Covers(T))
    BY <1>5
  <2>2. Covers(T \cup {x}) = Covers(T) \cup X
    BY DEF Covers
  <2>3. Covers(T) \cap X = {}
    <3>1. \A z \in T : Polygon[z] \cap Polygon[x] = {}
      BY <1>3, <1>5
    <3> QED
      BY <3>1 DEF Covers
  <2>4. IsFiniteSet(X) /\ Cardinality(X) \in Nat /\ f[x] = Cardinality(X)
    BY <1>2, SamplesAreCells, FS_Subset, FS_CardinalityType
  <2>5. IsFiniteSet(Covers(T)) /\ Cardinality(Covers(T)) \in Nat
    BY CoversIsFinite
  <2>6. Counts(f, T)
    BY <1>1, SumOfSubset
  <2>. HIDE DEF X
  <2>7. SumOver(f, T \cup {x}) = SumOver(f, T) + f[x]
    BY <1>5, <2>4, <2>6, OneMore
  <2>8. Cardinality(Covers(T) \cup X)
          = Cardinality(Covers(T)) + Cardinality(X) - Cardinality(Covers(T) \cap X)
    BY <2>4, <2>5, FS_Union
  <2>9. Cardinality(Covers(T) \cap X) = 0
    BY <2>3, FS_EmptySet
  <2>10. SumOver(f, T \cup {x}) = Cardinality(Covers(T \cup {x}))
    <3>1. \A m, n \in Nat : m + n - 0 = m + n
      OBVIOUS
    <3>2. Cardinality(Covers(T) \cup X) = Cardinality(Covers(T)) + Cardinality(X)
      BY <2>4, <2>5, <2>8, <2>9, <3>1
    <3>3. SumOver(f, T \cup {x}) = Cardinality(Covers(T)) + Cardinality(X)
      BY <2>1, <2>4, <2>7
    <3> QED
      BY <2>2, <3>2, <3>3
  <2> QED
    BY <2>10
<1>6. zs \in G
  <2>. HIDE DEF G
  <2> QED
    BY <1>1, <1>4, <1>5, SubsetInduction
<1> QED
  BY <1>6 DEF OverlapOf, f

LEMMA FourFifths ==
  ASSUME NEW c \in Nat \ {0}, NEW a \in Nat, NEW s \in Nat, ~(5 * c * a < 4 * s * c)
  PROVE  5 * a >= 4 * s
<1>1. c * (5 * a - 4 * s) >= 0
  BY Z3
<1>2. ASSUME 5 * a - 4 * s < 0 PROVE FALSE
  <2>1. c * (5 * a - 4 * s) < 0
    BY <1>2, Z3
  <2> QED
    BY <1>1, <2>1
<1> QED
  BY <1>2

LEMMA LessIsLess ==
  ASSUME NEW k \in Nat, NEW a \in Nat, NEW b \in Nat, a <= b
  PROVE  k * a <= k * b
BY Z3

(* Of c in sectors and l in other beats, s at most in all, r is drawn from.  *)
LEMMA SharesOfCircle ==
  ASSUME NEW c \in Nat \ {0}, NEW l \in Nat, NEW r \in Nat, NEW s \in Nat,
         r <= c, c + l <= s, ~(5 * (c + l) * r < 4 * s * c)
  PROVE  5 * (r + l) >= 4 * s /\ 5 * r >= 4 * c
<1>1. c + l \in Nat /\ s \in Nat \ {0} /\ r + l \in Nat
  OBVIOUS
<1>2. l * r <= l * c
  BY LessIsLess
<1>3. (c + l) * r = c * r + l * r /\ c * (r + l) = c * r + l * c
  BY Z3
<1>4. /\ c * r \in Nat /\ l * r \in Nat /\ l * c \in Nat /\ (c + l) * r \in Nat
      /\ c * (r + l) \in Nat /\ s * c \in Nat /\ s * r \in Nat
  BY <1>1, Product
<1>5. (c + l) * r <= c * (r + l)
  BY <1>2, <1>3, <1>4
<1>6. (c + l) * r <= s * r
  <2>1. r * (c + l) <= r * s
    BY <1>1, LessIsLess
  <2> QED
    BY <2>1, Z3
<1>7. /\ 5 * (c + l) * r = 5 * ((c + l) * r) /\ 4 * s * c = 4 * (s * c)
      /\ 5 * c * (r + l) = 5 * (c * (r + l)) /\ 5 * s * r = 5 * (s * r) /\ 4 * c * s = 4 * (s * c)
  BY Z3
<1>8. ~(5 * ((c + l) * r) < 4 * (s * c))
  BY <1>7
<1>9. ~(5 * (c * (r + l)) < 4 * (s * c)) /\ ~(5 * (s * r) < 4 * (s * c))
  BY <1>4, <1>5, <1>6, <1>8
<1>10. ~(5 * c * (r + l) < 4 * s * c) /\ ~(5 * s * r < 4 * c * s)
  BY <1>7, <1>9
<1> QED
  BY <1>1, <1>10, FourFifths

LEMMA SectorsAreRepresented ==
  ASSUME PlaceType, Adequacy = "met", subject.kind = "sector"
  PROVE  /\ 5 * (Cardinality(Covers(Represented)) + Cardinality(Samples \cap NoSector))
                >= 4 * Cardinality(Samples)
         /\ 5 * Cardinality(Covers(Represented)) >= 4 * Cardinality(Covers(DOMAIN Polygon))
<1>. DEFINE Lost == Samples \cap NoSector
<1>1. Component \in SUBSET DOMAIN Polygon /\ Represented \in SUBSET DOMAIN Polygon
  BY PartsAreFinite
<1>2. /\ OverlapOf(Component) = Cardinality(Covers(Component))
      /\ OverlapOf(Represented) = Cardinality(Covers(Represented))
  BY <1>1, SectorsAddUp
<1>3. Samples \cap UNION Range(Polygon) = Covers(Component) /\ Covers(DOMAIN Polygon) = Covers(Component)
  <2>1. ASSUME NEW c \in Samples, NEW z \in DOMAIN Polygon, c \in Polygon[z] PROVE z \in Component
    <3>1. Samples \cap Polygon[z] # {} /\ IsFiniteSet(Samples \cap Polygon[z])
      BY <2>1, SamplesAreCells, FS_Subset
    <3>2. Overlap(z) # 0
      BY <3>1, FS_EmptySet DEF Overlap
    <3>3. Overlap(z) > 0
      BY <3>2, OverlapCounts
    <3> QED
      BY <3>3 DEF Component
  <2> QED
    BY <1>1, <2>1 DEF Covers, Range
<1>4. /\ IsFiniteSet(Lost) /\ Cardinality(Lost) \in Nat
      /\ IsFiniteSet(Covers(Component)) /\ Cardinality(Covers(Component)) \in Nat
      /\ Cardinality(Covers(Represented)) \in Nat /\ Cardinality(Samples) \in Nat
  BY CoversIsFinite, SamplesAreCells, FS_Subset, FS_CardinalityType
<1>5. Covered = Cardinality(Covers(Component)) + Cardinality(Lost)
  <2>1. Samples \cap Reached = Covers(Component) \cup Lost
    <3>1. Reached = (UNION Range(Polygon)) \cup NoSector
      BY DEF Reached
    <3>2. Samples \cap Reached = (Samples \cap UNION Range(Polygon)) \cup (Samples \cap NoSector)
      <4>. DEFINE U == UNION Range(Polygon)
      <4>. HIDE DEF U
      <4> QED
        BY <3>1 DEF U
    <3> QED
      BY <1>3, <3>2, Zenon
  <2>2. Covers(Component) \cap Lost = {}
    <3>1. Polygon = Zone["sector"]
      BY DEF Polygon
    <3>2. NoSector \cap UNION Range(Polygon) = {}
      BY <3>1, ReferenceAssumption
    <3> QED
      BY <1>3, <3>2
  <2>. HIDE DEF Lost
  <2>3. Cardinality(Covers(Component) \cup Lost)
          = Cardinality(Covers(Component)) + Cardinality(Lost) - Cardinality(Covers(Component) \cap Lost)
    BY <1>4, FS_Union
  <2>4. Cardinality(Covers(Component) \cap Lost) = 0
    BY <2>2, FS_EmptySet
  <2>5. \A m, n \in Nat : m + n - 0 = m + n
    OBVIOUS
  <2>6. Covered = Cardinality(Covers(Component) \cup Lost)
    BY <2>1, Zenon DEF Covered
  <2>7. Cardinality(Covers(Component)) + Cardinality(Lost) - 0
          = Cardinality(Covers(Component)) + Cardinality(Lost)
    BY <1>4, <2>5
  <2> QED
    BY <2>3, <2>4, <2>6, <2>7, Zenon
<1>6. Cardinality(Covers(Represented)) <= Cardinality(Covers(Component))
  <2>1. Covers(Represented) \in SUBSET Covers(Component)
    BY PartsAreFinite DEF Covers
  <2> QED
    BY <2>1, CoversIsFinite, FS_Subset
<1>7. Covered <= Cardinality(Samples)
  <2>1. Samples \cap Reached \in SUBSET Samples
    OBVIOUS
  <2> QED
    BY <2>1, SamplesAreCells, FS_Subset DEF Covered
<1>8. OverlapOf(Component) \in Nat \ {0}
  <2>1. OverlapOf(Represented) \in Nat \ {0}
    BY MetIsSupported
  <2> QED
    BY <1>2, <1>4, <1>6, <2>1
<1>9. ~(5 * Covered * OverlapOf(Represented) < 4 * Cardinality(Samples) * OverlapOf(Component))
  BY MetIsSupported DEF Uncovered
<1>. HIDE DEF Lost
<1>10. /\ 5 * (OverlapOf(Represented) + Cardinality(Lost)) >= 4 * Cardinality(Samples)
       /\ 5 * OverlapOf(Represented) >= 4 * OverlapOf(Component)
  <2>1. PICK c \in Nat \ {0} : c = OverlapOf(Component)
    BY <1>8
  <2>2. PICK l \in Nat : l = Cardinality(Lost)
    BY <1>4
  <2>3. PICK x \in Nat : x = OverlapOf(Represented)
    BY <1>2, <1>4
  <2>4. PICK s \in Nat : s = Cardinality(Samples)
    BY <1>4
  <2>5. Covered = c + l
    BY <1>2, <1>5, <2>1, <2>2
  <2>6. x <= c /\ c + l <= s /\ ~(5 * (c + l) * x < 4 * s * c)
    BY <1>2, <1>6, <1>7, <1>9, <2>1, <2>3, <2>4, <2>5
  <2> QED
    BY <2>1, <2>2, <2>3, <2>4, <2>6, SharesOfCircle
<1> QED
  BY <1>2, <1>3, <1>10 DEF Lost

(* Every center counts fewer, as many or more than the place.                *)
LEMMA ThreeParts ==
  ASSUME NEW w, NEW M, Counts(w, M), NEW count, \A m \in M : count[m] \in Nat, NEW t \in Nat
  PROVE  SumOver(w, {m \in M : count[m] < t}) + SumOver(w, {m \in M : count[m] = t})
           + SumOver(w, {m \in M : count[m] > t}) = SumOver(w, M)
<1>. DEFINE B == {m \in M : count[m] < t}
            E == {m \in M : count[m] = t}
            A == {m \in M : count[m] > t}
<1>1. \A m \in M : count[m] < t \/ count[m] = t \/ count[m] > t
  OBVIOUS
<1>2. (B \cup E) \cup A = M /\ B \cap E = {} /\ (B \cup E) \cap A = {}
  BY <1>1
<1>3. B \in SUBSET M /\ E \in SUBSET M /\ A \in SUBSET M /\ B \cup E \in SUBSET M
  OBVIOUS
<1>. HIDE DEF B, E, A
<1>4. Counts(w, B) /\ Counts(w, E) /\ Counts(w, A) /\ Counts(w, B \cup E)
  BY <1>3, SumOfSubset
<1>5. SumOver(w, B \cup E) = SumOver(w, B) + SumOver(w, E)
  BY <1>2, <1>4, SumSplit
<1>6. SumOver(w, (B \cup E) \cup A) = SumOver(w, B \cup E) + SumOver(w, A)
  BY <1>2, <1>4, SumSplit
<1>7. SumOver(w, B) + SumOver(w, E) + SumOver(w, A) = SumOver(w, M)
  BY <1>2, <1>5, <1>6
<1> QED
  BY <1>7 DEF B, E, A

-----------------------------------------------------------------------------
(* What depends on the place alone stays while the place does.               *)

LEMMA GeographiesStay ==
  ASSUME subject' = subject
  PROVE  /\ Samples' = Samples /\ Polygon' = Polygon /\ Component' = Component
         /\ \A z : Overlap(z)' = Overlap(z)
         /\ \A z : CentersOf(z)' = CentersOf(z)
         /\ Represented' = Represented /\ Supported' = Supported
         /\ Covered' = Covered /\ Membership' = Membership
<1>1. Samples' = Samples
  BY DEF Samples
<1>2. Polygon' = Polygon
  BY <1>1 DEF Polygon
<1>3. ASSUME NEW z PROVE Overlap(z)' = Overlap(z) /\ CentersOf(z)' = CentersOf(z)
  BY <1>1, <1>2 DEF Overlap, CentersOf
<1>4. Component' = Component
  BY <1>2, <1>3 DEF Component
<1>5. Supported' = Supported
  BY <1>3, <1>4 DEF Supported
<1>6. Represented' = Represented
  BY <1>4, <1>5 DEF Represented
<1>7. Covered' = Covered
  BY <1>1, <1>2 DEF Covered, Reached
<1>8. Membership' = Membership
  BY <1>3, <1>6 DEF Membership
<1> QED
  BY <1>1, <1>2, <1>3, <1>4, <1>5, <1>6, <1>7, <1>8

LEMMA AdequacyStays ==
  ASSUME subject' = subject
  PROVE  Adequacy' = Adequacy
<1>1. [z \in Represented' |-> Overlap(z)'] = [z \in Represented |-> Overlap(z)]
  BY GeographiesStay
<1>2. [z \in Component' |-> Overlap(z)'] = [z \in Component |-> Overlap(z)]
  BY GeographiesStay
<1>3. Uncovered' <=> Uncovered
  BY <1>1, <1>2, GeographiesStay DEF Uncovered, OverlapOf
<1>4. {CentersOf(z)' : z \in Represented'} = {CentersOf(z) : z \in Represented}
  BY GeographiesStay
<1> QED
  BY <1>3, <1>4, GeographiesStay DEF Adequacy

LEMMA SamplingStays ==
  ASSUME subject' = subject
  PROVE  (Exact' <=> Exact) /\ ExactWeight' = ExactWeight /\ Drawn' = Drawn
<1>1. Exact' <=> Exact
  BY GeographiesStay DEF Exact
<1>2. ExactWeight' = ExactWeight
  BY GeographiesStay DEF ExactWeight
<1>3. [z \in Represented' |-> Overlap(z)'] = [z \in Represented |-> Overlap(z)]
  BY GeographiesStay
<1>4. ASSUME NEW z
      PROVE  Share(z)' = Share(z) /\ Remainder(z)' = Remainder(z) /\ InZone(z)' = InZone(z)
  BY <1>3, GeographiesStay DEF Share, Remainder, OverlapOf, InZone
<1>5. [z \in Represented' |-> Share(z)'] = [z \in Represented |-> Share(z)]
  BY <1>4, GeographiesStay
<1>6. LeftOver' = LeftOver
  BY <1>5, GeographiesStay DEF LeftOver
<1>7. \A y, z : Precedes(y, z)' <=> Precedes(y, z)
  BY <1>4 DEF Precedes
<1>8. {p \in Represented' \X Represented' : Precedes(p[1], p[2])'}
        = {p \in Represented \X Represented : Precedes(p[1], p[2])}
  BY <1>7, GeographiesStay
<1>9. ByRemainder' = ByRemainder
  BY <1>8, GeographiesStay DEF ByRemainder
<1>10. ASSUME NEW z PROVE Allocation(z)' = Allocation(z)
  BY <1>4, <1>6, <1>9 DEF Allocation
<1>11. Drawn' = Drawn
  BY <1>4, <1>10, GeographiesStay DEF Drawn
<1> QED
  BY <1>1, <1>2, <1>11

LEMMA DistributionStays ==
  ASSUME subject' = subject, happened' = happened, NEW w
  PROVE  Distribution(w)' = Distribution(w)
<1>1. ASSUME NEW c PROVE Around(c)' = Around(c)
  BY DEF Around
<1>2. [m \in DOMAIN w |-> Around(m[2])'] = [m \in DOMAIN w |-> Around(m[2])]
  BY <1>1
<1>3. Around(subject.at)' = Around(subject.at)
  BY DEF Around
<1>4. Exact' = Exact
  BY GeographiesStay DEF Exact
<1> QED
  BY <1>2, <1>3, <1>4, <1>1 DEF Distribution

-----------------------------------------------------------------------------
(* The invariant: the last distribution is that of the place's sample, the   *)
(* exact weights or what its seed yielded, and so were those before.         *)
Sample == IF Exact THEN ExactWeight ELSE generator[SeedOf]
Sampled == Exact \/ SeedOf \in DOMAIN generator

Given == answer = Distribution(Sample) /\ Adequacy = "met" /\ Sampled

ReferenceInv ==
    /\ PlaceType
    /\ DOMAIN generator \subseteq {SeedOf}
    /\ SeedOf \in DOMAIN generator => generator[SeedOf] \in Drawn
    /\ answer = NoAnswer \/ (Adequacy # "met" /\ answer = [status |-> Adequacy]) \/ Given
    /\ earlier \subseteq {Sample} /\ (earlier # {} => Sampled)

LEMMA ReferenceStarts == ReferenceInit => ReferenceInv
<1>. SUFFICES ASSUME ReferenceInit PROVE ReferenceInv
  OBVIOUS
<1>1. PlaceType
  BY ReferenceAssumption DEF ReferenceInit, PlaceType
<1> QED
  BY <1>1 DEF ReferenceInit, ReferenceInv

(* The sample of a place stays when nothing is drawn.                        *)
LEMMA SampleStays ==
  ASSUME subject' = subject, generator' = generator
  PROVE  Sample' = Sample /\ SeedOf' = SeedOf /\ (Sampled' <=> Sampled)
<1>1. SeedOf' = SeedOf
  BY DEF SeedOf
<1> QED
  BY <1>1, SamplingStays DEF Sample, Sampled

LEMMA AnswerStays ==
  ASSUME ReferenceInv, UNCHANGED <<subject, generator, happened>>,
         \/ answer' = answer
         \/ Adequacy # "met" /\ answer' = [status |-> Adequacy]
         \/ answer' = Distribution(Sample) /\ Adequacy = "met" /\ Sampled,
         UNCHANGED earlier
  PROVE  ReferenceInv'
<1>1. Sample' = Sample /\ SeedOf' = SeedOf /\ (Sampled' <=> Sampled)
  BY SampleStays
<1>2. Adequacy' = Adequacy /\ Drawn' = Drawn
  BY AdequacyStays, SamplingStays
<1>3. Distribution(Sample)' = Distribution(Sample)
  BY <1>1, DistributionStays
<1>4. Given' <=> answer' = Distribution(Sample) /\ Adequacy = "met" /\ Sampled
  BY <1>1, <1>2, <1>3 DEF Given
<1>5. PlaceType'
  BY DEF ReferenceInv, PlaceType
<1>6. /\ DOMAIN generator' \subseteq {SeedOf'}
      /\ SeedOf' \in DOMAIN generator' => generator'[SeedOf'] \in Drawn'
  BY <1>1, <1>2 DEF ReferenceInv
<1>7. earlier' \subseteq {Sample'} /\ (earlier' # {} => Sampled')
  BY <1>1 DEF ReferenceInv
<1>8. NoAnswer' = NoAnswer
  BY DEF NoAnswer
<1>9. answer' = NoAnswer' \/ (Adequacy' # "met" /\ answer' = [status |-> Adequacy']) \/ Given'
  BY <1>2, <1>4, <1>8 DEF ReferenceInv, Given
<1> QED
  BY <1>5, <1>6, <1>7, <1>9 DEF ReferenceInv

LEMMA DrawKeeps ==
  ASSUME ReferenceInv, UNCHANGED <<subject, happened, earlier>>,
         Adequacy = "met", ~Exact,
         NEW w \in IF SeedOf \in DOMAIN generator THEN {generator[SeedOf]} ELSE Drawn,
         answer' = Distribution(w),
         generator' = [s \in DOMAIN generator \cup {SeedOf} |->
                         IF s = SeedOf THEN w ELSE generator[s]]
  PROVE  ReferenceInv'
<1>1. SeedOf' = SeedOf
  BY DEF SeedOf
<1>2. Adequacy' = Adequacy /\ (Exact' <=> Exact) /\ Drawn' = Drawn
  BY AdequacyStays, SamplingStays
<1>3. w \in Drawn
  BY DEF ReferenceInv
<1>4. DOMAIN generator' = {SeedOf} /\ generator'[SeedOf] = w
  BY DEF ReferenceInv
<1>5. Sample' = w /\ Sampled'
  BY <1>1, <1>2, <1>4 DEF Sample, Sampled
<1>6. Distribution(w)' = Distribution(w)
  BY DistributionStays
<1>7. Given'
  BY <1>2, <1>5, <1>6 DEF Given
<1>8. earlier \subseteq {w}
  <2>1. CASE earlier = {}
    BY <2>1
  <2>2. CASE earlier # {}
    <3>1. SeedOf \in DOMAIN generator /\ earlier \subseteq {Sample}
      BY <2>2 DEF ReferenceInv, Sampled
    <3>2. w = Sample
      BY <3>1 DEF Sample
    <3> QED
      BY <3>1, <3>2
  <2> QED
    BY <2>1, <2>2
<1>9. PlaceType'
  BY DEF ReferenceInv, PlaceType
<1> QED
  BY <1>1, <1>2, <1>3, <1>4, <1>5, <1>7, <1>8, <1>9 DEF ReferenceInv

LEMMA CompareKeeps ==
  ASSUME ReferenceInv, CompareCircle
  PROVE  ReferenceInv'
<1>. USE DEF CompareCircle
<1>1. CASE Adequacy # "met" /\ answer' = [status |-> Adequacy] /\ UNCHANGED generator
  BY <1>1, AnswerStays
<1>2. CASE Adequacy = "met" /\ Exact /\ answer' = Distribution(ExactWeight) /\ UNCHANGED generator
  <2>1. Sample = ExactWeight /\ Sampled
    BY <1>2 DEF Sample, Sampled
  <2> QED
    BY <1>2, <2>1, AnswerStays
<1>3. CASE /\ Adequacy = "met" /\ ~Exact
           /\ \E w \in IF SeedOf \in DOMAIN generator THEN {generator[SeedOf]} ELSE Drawn :
                /\ answer' = Distribution(w)
                /\ generator' = [s \in DOMAIN generator \cup {SeedOf} |->
                                   IF s = SeedOf THEN w ELSE generator[s]]
  BY <1>3, DrawKeeps
<1> QED
  BY <1>1, <1>2, <1>3

LEMMA AskKeeps ==
  ASSUME ReferenceInv, AskAgain
  PROVE  ReferenceInv'
<1>. USE DEF AskAgain
<1>1. Sample' = Sample /\ SeedOf' = SeedOf /\ (Sampled' <=> Sampled) /\ Drawn' = Drawn
  BY SampleStays, SamplingStays
<1>2. PlaceType'
  <2>1. happened' \in Happening /\ subject' = subject
    OBVIOUS
  <2> QED
    BY <2>1, ReferenceAssumption DEF ReferenceInv, PlaceType
<1>3. earlier' \subseteq {Sample} /\ (earlier' # {} => Sampled)
  <2>1. CASE answer.status # "met"
    BY <2>1 DEF ReferenceInv
  <2>2. CASE answer.status = "met"
    <3>1. Given
      <4>1. answer # NoAnswer
        BY <2>2 DEF NoAnswer
      <4>2. ~(Adequacy # "met" /\ answer = [status |-> Adequacy])
        BY <2>2
      <4> QED
        BY <4>1, <4>2 DEF ReferenceInv
    <3>2. answer.weight = Sample /\ Sampled
      BY <3>1 DEF Given, Distribution
    <3> QED
      BY <2>2, <3>2 DEF ReferenceInv
  <2> QED
    BY <2>1, <2>2
<1>4. answer' = NoAnswer'
  BY DEF NoAnswer
<1> QED
  BY <1>1, <1>2, <1>3, <1>4 DEF ReferenceInv

LEMMA ReferenceStep == ReferenceInv /\ [ReferenceNext]_referenceVars => ReferenceInv'
<1>. SUFFICES ASSUME ReferenceInv, [ReferenceNext]_referenceVars PROVE ReferenceInv'
  OBVIOUS
<1>1. CASE CompareCircle
  BY <1>1, CompareKeeps
<1>2. CASE AskAgain
  BY <1>2, AskKeeps
<1>3. CASE UNCHANGED referenceVars
  BY <1>3, AnswerStays DEF referenceVars
<1> QED
  BY <1>1, <1>2, <1>3 DEF ReferenceNext

(* A sample weighs the centers, and some of them.                            *)
LEMMA SampleIsWeighted ==
  ASSUME PlaceType, Adequacy = "met", NEW w,
         (Exact /\ w = ExactWeight) \/ (~Exact /\ w \in Drawn)
  PROVE  Weighted(w, [m \in DOMAIN w |-> Around(m[2])])
<1>1. Counts(w, Membership) /\ DOMAIN w = Membership
  BY ExactWeightsCount, DrawsCount
<1>2. SumOver(w, Membership) \in Nat \ {0}
  <2>1. CASE Exact
    <3>1. Whole \in Nat \ {0} /\ OverlapOf(Represented) \in Nat \ {0}
      BY MetIsSupported, ReferenceAssumption
    <3>2. \A x, y \in Nat \ {0} : x * y + 0 \in Nat \ {0}
      BY Z3
    <3>3. SumOver(w, Membership) = Whole * OverlapOf(Represented) + 0
      BY <2>1, ExactWeightsCount
    <3> QED
      BY <3>1, <3>2, <3>3
  <2>2. CASE ~Exact
    BY <2>2, DrawsCount, ReferenceAssumption
  <2> QED
    BY <2>1, <2>2
<1>3. \A m \in Membership : Around(m[2]) \in Nat
  BY AroundCounts
<1> QED
  BY <1>1, <1>2, <1>3 DEF Weighted

LEMMA GivenIsWeighted == ReferenceInv => ReferenceIsWeighted
<1>. SUFFICES ASSUME ReferenceInv, answer.status = "met" PROVE ReferenceIsWeighted
  BY DEF ReferenceIsWeighted
<1>. DEFINE w == Sample
            count == [m \in DOMAIN w |-> Around(m[2])]
            target == Around(subject.at)
            T == SumOver(w, Membership)
<1>1. Given /\ PlaceType
  <2>1. answer # NoAnswer
    BY DEF NoAnswer
  <2>2. ~(Adequacy # "met" /\ answer = [status |-> Adequacy])
    OBVIOUS
  <2> QED
    BY <2>1, <2>2 DEF ReferenceInv
<1>2. Adequacy = "met" /\ ((Exact /\ w = ExactWeight) \/ (~Exact /\ w \in Drawn))
  <2>1. CASE Exact
    BY <1>1, <2>1 DEF Given, Sample
  <2>2. CASE ~Exact
    <3>1. w = generator[SeedOf] /\ SeedOf \in DOMAIN generator
      BY <1>1, <2>2 DEF Given, Sampled, Sample
    <3>2. w \in Drawn
      BY <3>1 DEF ReferenceInv
    <3> QED
      BY <1>1, <2>2, <3>2 DEF Given
  <2> QED
    BY <2>1, <2>2
<1>3. /\ answer.weight = w /\ answer.count = count /\ (answer.exact <=> Exact)
      /\ answer.below = Weight(w, {m \in DOMAIN w : count[m] < target})
      /\ answer.equal = Weight(w, {m \in DOMAIN w : count[m] = target})
      /\ answer.above = Weight(w, {m \in DOMAIN w : count[m] > target})
      /\ answer.quantile = [d \in {10, 25, 50, 75, 90} |-> Quantile(w, count, d, 100)]
  BY <1>1 DEF Given, Distribution
<1>. HIDE DEF w
<1>4. Weighted(w, count)
  BY <1>1, <1>2, SampleIsWeighted
<1>. HIDE DEF count
<1>5. DOMAIN w = Membership /\ Counts(w, Membership) /\ \A m \in Membership : count[m] \in Nat
  BY <1>4 DEF Weighted
<1>6. {m[1] : m \in Membership} = Represented
  BY <1>1, <1>2, MetIsSupported
<1>7. WeightsFollowAreas
  <2>1. CASE Exact
    <3>1. \A z \in Represented :
            Overlap(z) * SumOver(w, Membership) - OverlapOf(Represented) * SumOver(w, InZone(z)) = 0
      BY <1>1, <1>2, <2>1, ExactFollowsAreas
    <3> QED
      BY <1>3, <1>5, <1>6, <2>1, <3>1 DEF WeightsFollowAreas, Weight, InZone
  <2>2. CASE ~Exact
    <3>1. \A z \in Represented :
            Overlap(z) * SumOver(w, Membership) - OverlapOf(Represented) * SumOver(w, InZone(z))
              \in -OverlapOf(Represented) .. OverlapOf(Represented)
      BY <1>1, <1>2, <2>2, DrawsFollowAreas
    <3>2. SumOver(w, Membership) = Draws
      BY <1>1, <1>2, <2>2, DrawsCount
    <3> QED
      BY <1>3, <1>5, <1>6, <2>2, <3>1, <3>2 DEF WeightsFollowAreas, Weight, InZone
  <2> QED
    BY <2>1, <2>2
<1>8. QuantilesSplit
  <2>1. ASSUME NEW d \in {10, 25, 50, 75, 90}
        PROVE  Splits(w, count, d, answer.quantile[d])
    <3>1. d \in 1 .. 100
      OBVIOUS
    <3>2. answer.quantile[d] = Quantile(w, count, d, 100)
      BY <1>3
    <3> QED
      BY <1>1, <1>4, <3>1, <3>2, QuantileSplits
  <2>2. DOMAIN answer.quantile = {10, 25, 50, 75, 90}
    BY <1>3
  <2>3. ASSUME NEW d \in DOMAIN answer.quantile
        PROVE  /\ 100 * Weight(answer.weight,
                     {m \in DOMAIN answer.weight : answer.count[m] < answer.quantile[d]})
                    <= d * Weight(answer.weight, DOMAIN answer.weight)
               /\ 100 * Weight(answer.weight,
                     {m \in DOMAIN answer.weight : answer.count[m] > answer.quantile[d]})
                    <= (100 - d) * Weight(answer.weight, DOMAIN answer.weight)
    <3>1. Splits(w, count, d, answer.quantile[d])
      BY <2>1, <2>2, <2>3
    <3>2. /\ answer.weight = w /\ answer.count = count /\ DOMAIN answer.weight = Membership
      BY <1>3, <1>5
    <3> QED
      BY <3>1, <3>2 DEF Splits, Weight
  <2> QED
    BY <2>3 DEF QuantilesSplit
<1>9. MostlyRepresented
  BY <1>1, <1>2, <1>3, <1>5, <1>6, SectorsAreRepresented DEF MostlyRepresented, Covers
<1>10. answer.below + answer.equal + answer.above = Weight(answer.weight, DOMAIN answer.weight)
  <2>1. target \in Nat
    BY <1>1, AroundCounts
  <2>. HIDE DEF target
  <2> QED
    BY <1>3, <1>5, <2>1, ThreeParts DEF Weight
<1>11. earlier \subseteq {answer.weight}
  BY <1>3 DEF ReferenceInv, w
<1> QED
  BY <1>7, <1>8, <1>9, <1>10, <1>11 DEF ReferenceIsWeighted

(* Whatever the map, the incidents and the draws, a reference distribution   *)
(* weighs every geography by its part of the place's circle, its quantiles   *)
(* split the weight, and the place is compared with the same centers         *)
(* whatever incidents are asked about.                                       *)
THEOREM ReferencesAreWeighted == ReferenceSpec => []ReferenceIsWeighted
<1>1. ReferenceInit => ReferenceInv
  BY ReferenceStarts
<1>2. ReferenceInv /\ [ReferenceNext]_referenceVars => ReferenceInv'
  BY ReferenceStep
<1>3. ReferenceInv => ReferenceIsWeighted
  BY GivenIsWeighted
<1> QED
  BY <1>1, <1>2, <1>3, PTL DEF ReferenceSpec
=============================================================================
