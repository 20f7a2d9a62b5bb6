-------------------------- MODULE Induction_proofs --------------------------
(***************************************************************************)
(* Facts about bounded sets of natural numbers that the proofs about the   *)
(* walk along the deleted-file list and about block-wise copying rest on:  *)
(* least and greatest elements, and induction up to a bound.  Induction is *)
(* stated of a set, the set of the numbers that have the property, and     *)
(* recursion of a function, the table of the steps, so that both can be    *)
(* cited without an operator as their parameter.  At the end, division.    *)
(***************************************************************************)
EXTENDS Integers, FiniteSets, FiniteSetTheorems, WellFoundedInduction, TLAPS

(* Every set of natural numbers that is not empty has a least element: the  *)
(* intervals 0..t, for t in the set, have one that no other is a part of.   *)
LEMMA LeastNat ==
  ASSUME NEW T \in SUBSET Nat, T # {}
  PROVE  \E x \in T : \A y \in T : x <= y
<1> DEFINE Below(t) == 0..t
           F == {Below(t) : t \in T}
           R == StrictSubsetOrdering(Nat)
<1>1. F \subseteq FiniteSubsetsOf(Nat)
  <2>1. ASSUME NEW t \in T PROVE Below(t) \in FiniteSubsetsOf(Nat)
    <3>1. 0 \in Int /\ t \in Int /\ 0..t \in SUBSET Nat
      OBVIOUS
    <3>2. IsFiniteSet(0..t)
      BY <3>1, FS_Interval
    <3>3. QED BY <3>1, <3>2 DEF FiniteSubsetsOf
  <2>2. QED BY <2>1
<1>2. F # {}
  OBVIOUS
<1>3. \E X \in F : \A Y \in F : ~(<<Y, X>> \in R)
  <2>1. IsWellFoundedOn(R, FiniteSubsetsOf(Nat))
    BY FS_StrictSubsetOrderingWellFounded
  <2> HIDE DEF R, F
  <2>2. QED BY <1>1, <1>2, <2>1, WFMin
<1>4. PICK x \in T : \A Y \in F : ~(<<Y, Below(x)>> \in R)
  BY <1>3
<1>5. ASSUME NEW y \in T, y < x PROVE FALSE
  <2>1. Below(y) \in SUBSET Nat /\ Below(x) \in SUBSET Nat /\ Below(y) \subseteq Below(x)
    BY <1>5
  <2>2. x \in Below(x) /\ x \notin Below(y)
    BY <1>5
  <2>3. <<Below(y), Below(x)>> \in R
    <3> HIDE DEF Below
    <3>1. QED BY <2>1, <2>2 DEF StrictSubsetOrdering
  <2>4. QED BY <1>4, <2>3
<1>6. QED BY <1>4, <1>5

(* A set of natural numbers with a bound has a greatest element. *)
LEMMA GreatestNat ==
  ASSUME NEW m \in Nat, NEW T \in SUBSET (0..m), T # {}
  PROVE  \E x \in T : \A y \in T : y <= x
<1> DEFINE D == {d \in Nat : m - d \in T}
<1>1. \A t \in T : t \in Int /\ m - t \in D
  <2>1. ASSUME NEW t \in T PROVE t \in Int /\ m - t \in D
    <3>1. t \in 0..m
      OBVIOUS
    <3>2. m - t \in Nat /\ m - (m - t) = t
      BY <3>1
    <3>3. QED BY <3>1, <3>2
  <2>2. QED BY <2>1
<1>2. D \in SUBSET Nat /\ D # {}
  BY <1>1
<1>3. PICK d \in D : \A c \in D : d <= c
  <2> HIDE DEF D
  <2>1. QED BY <1>2, LeastNat
<1>4. m - d \in T /\ d \in Int
  OBVIOUS
<1>5. ASSUME NEW y \in T PROVE y <= m - d
  <2>1. y \in Int /\ m - y \in D
    BY <1>1
  <2>2. d <= m - y
    BY <1>3, <2>1
  <2>3. QED BY <1>4, <2>1, <2>2
<1>6. QED BY <1>4, <1>5

(* Induction up to m: a set that holds 0, and k + 1 with each k below m.    *)
LEMMA UpTo ==
  ASSUME NEW m \in Nat, NEW A, 0 \in A,
         \A k \in 0..m : k < m /\ k \in A => k + 1 \in A
  PROVE  \A k \in 0..m : k \in A
<1> DEFINE T == {k \in 0..m : k \notin A}
<1>1. SUFFICES ASSUME T # {} PROVE FALSE
  OBVIOUS
<1>2. T \in SUBSET Nat
  OBVIOUS
<1>3. PICK x \in T : \A y \in T : x <= y
  <2> HIDE DEF T
  <2>1. QED BY <1>1, <1>2, LeastNat
<1>4. x \in 0..m /\ x \notin A /\ x # 0
  OBVIOUS
<1>5. x - 1 \in 0..m /\ x - 1 < m /\ x - 1 \notin T /\ (x - 1) + 1 = x
  BY <1>3, <1>4
<1>6. x - 1 \in A
  BY <1>5
<1>7. QED BY <1>4, <1>5, <1>6

(* Recursion up to m: the function that starts with x0 and makes step j of  *)
(* the table g at j                                                         *)
Recurses(f, m, X, x0, g) ==
    /\ f \in [0..m -> X]
    /\ \A j \in 0..m : f[j] = IF j = 0 THEN x0 ELSE g[<<j, f[j - 1]>>]

(* exists. *)
LEMMA Recursion ==
  ASSUME NEW m \in Nat, NEW X, NEW x0 \in X, NEW g \in [(0..m) \X X -> X]
  PROVE  \E f : Recurses(f, m, X, x0, g)
<1> DEFINE Does(f, k) == \A j \in 0..k : f[j] = IF j = 0 THEN x0 ELSE g[<<j, f[j - 1]>>]
           A == {k \in 0..m : \E f \in [0..m -> X] : Does(f, k)}
<1>1. 0 \in A
  <2>1. [j \in 0..m |-> x0] \in [0..m -> X] /\ Does([j \in 0..m |-> x0], 0)
    OBVIOUS
  <2> HIDE DEF Does
  <2>2. QED BY <2>1
<1>2. ASSUME NEW k \in 0..m, k < m, k \in A PROVE k + 1 \in A
  <2>1. PICK f \in [0..m -> X] : Does(f, k)
    <3> HIDE DEF Does
    <3>1. QED BY <1>2
  <2>2. k + 1 \in 0..m /\ k + 1 # 0 /\ (k + 1) - 1 = k
    BY <1>2
  <2> DEFINE x == g[<<k + 1, f[k]>>]
             h == [j \in 0..m |-> IF j = k + 1 THEN x ELSE f[j]]
  <2>3. x \in X
    BY <2>2
  <2> HIDE DEF x
  <2>4. h \in [0..m -> X]
    BY <2>3
  <2>5. ASSUME NEW j \in 0..(k + 1) PROVE h[j] = IF j = 0 THEN x0 ELSE g[<<j, h[j - 1]>>]
    <3>1. CASE j = k + 1
      <4>1. h[j] = x /\ h[k] = f[k] /\ j - 1 = k /\ j # 0
        BY <2>2, <3>1
      <4>2. QED BY <3>1, <4>1 DEF x
    <3>2. CASE j # k + 1
      <4>1. j \in 0..k /\ j \in 0..m
        BY <2>2, <3>2
      <4>2. h[j] = f[j] /\ (j # 0 => h[j - 1] = f[j - 1])
        BY <2>2, <4>1
      <4>3. f[j] = IF j = 0 THEN x0 ELSE g[<<j, f[j - 1]>>]
        BY <2>1, <4>1
      <4> HIDE DEF h
      <4>4. QED BY <4>2, <4>3
    <3>3. QED BY <3>1, <3>2
  <2> HIDE DEF h
  <2>6. Does(h, k + 1)
    BY <2>5
  <2> HIDE DEF Does
  <2>7. QED BY <2>2, <2>4, <2>6
<1> HIDE DEF A
<1>3. m \in A
  BY <1>1, <1>2, UpTo
<1>4. PICK f \in [0..m -> X] : Does(f, m)
  <2> HIDE DEF Does
  <2>1. QED BY <1>3 DEF A
<1>5. Recurses(f, m, X, x0, g)
  BY <1>4 DEF Recurses
<1>6. QED BY <1>5

(* Induction over the subsets of S: a set that holds the empty set, and T   *)
(* with T less its chosen element, holds S.                                 *)
LEMMA SetInduction ==
  ASSUME NEW S, IsFiniteSet(S), NEW A, {} \in A,
         NEW c, \A T \in SUBSET S : T # {} => c[T] \in T,
         \A T \in SUBSET S : T # {} /\ T \ {c[T]} \in A => T \in A
  PROVE  S \in A
<1> DEFINE n == Cardinality(S)
           B == {k \in 0..n : \A T \in SUBSET S : Cardinality(T) <= k => T \in A}
<1>1. n \in Nat
  BY FS_CardinalityType
<1>2. ASSUME NEW T \in SUBSET S
      PROVE  /\ Cardinality(T) \in Nat /\ (Cardinality(T) = 0 <=> T = {})
             /\ T # {} => /\ T \ {c[T]} \in SUBSET S
                          /\ Cardinality(T \ {c[T]}) = Cardinality(T) - 1
  BY FS_CardinalityType, FS_Subset, FS_EmptySet, FS_RemoveElement
<1>3. 0 \in B
  <2>1. ASSUME NEW T \in SUBSET S, Cardinality(T) <= 0 PROVE T \in A
    <3>1. Cardinality(T) \in Nat
      BY <1>2
    <3>2. Cardinality(T) = 0
      BY <2>1, <3>1
    <3>3. QED BY <1>2, <3>2
  <2>2. QED BY <1>1, <2>1
<1>4. ASSUME NEW k \in 0..n, k < n, k \in B PROVE k + 1 \in B
  <2>1. n \in Nat /\ k \in Nat /\ k + 1 \in 0..n
    <3> HIDE DEF n
    <3>1. QED BY <1>1, <1>4
  <2>2. ASSUME NEW T \in SUBSET S, Cardinality(T) <= k + 1 PROVE T \in A
    <3>1. CASE T = {}
      BY <3>1
    <3>2. CASE T # {}
      <4>1. /\ T \ {c[T]} \in SUBSET S /\ Cardinality(T) \in Nat
            /\ Cardinality(T \ {c[T]}) = Cardinality(T) - 1
        BY <1>2, <3>2
      <4> DEFINE d == Cardinality(T)
                 b == Cardinality(T \ {c[T]})
      <4>2. d \in Nat /\ b = d - 1 /\ d <= k + 1
        BY <2>2, <4>1
      <4> HIDE DEF b, d
      <4>3. b <= k
        BY <2>1, <4>2
      <4>4. T \ {c[T]} \in A
        BY <1>4, <4>1, <4>3 DEF b
      <4>5. QED BY <3>2, <4>4
    <3>3. QED BY <3>1, <3>2
  <2>3. QED BY <2>1, <2>2
<1> HIDE DEF B
<1>5. n \in B
  <2>1. \A k \in 0..n : k \in B
    <3> HIDE DEF n
    <3>1. QED BY <1>1, <1>3, <1>4, UpTo
  <2>2. QED BY <1>1, <2>1
<1>6. QED BY <1>1, <1>5 DEF B

(* Recursion over the subsets of a finite set S: the function that starts   *)
(* with x0 at the empty set and else takes the element c[T] out of T exists *)
SetRecurses(f, S, X, x0, c, g) ==
    /\ f \in [SUBSET S -> X]
    /\ \A T \in SUBSET S : f[T] = IF T = {} THEN x0 ELSE g[<<T, f[T \ {c[T]}]>>]

(* for every step g and every choice c. *)
LEMMA SetRecursion ==
  ASSUME NEW S, IsFiniteSet(S), NEW X, NEW x0 \in X,
         NEW c, \A T \in SUBSET S : T # {} => c[T] \in T,
         NEW g \in [(SUBSET S) \X X -> X]
  PROVE  \E f : SetRecurses(f, S, X, x0, c, g)
<1> DEFINE n == Cardinality(S)
           Step(f, T) == IF T = {} THEN x0 ELSE g[<<T, f[T \ {c[T]}]>>]
           Does(f, k) == \A T \in SUBSET S : Cardinality(T) <= k => f[T] = Step(f, T)
           A == {k \in 0..n : \E f \in [SUBSET S -> X] : Does(f, k)}
<1>1. n \in Nat
  BY FS_CardinalityType
<1>2. ASSUME NEW T \in SUBSET S
      PROVE  /\ IsFiniteSet(T) /\ Cardinality(T) \in Nat /\ Cardinality(T) <= n
             /\ Cardinality(T) = 0 <=> T = {}
             /\ T # {} => /\ T \ {c[T]} \in SUBSET S
                          /\ Cardinality(T \ {c[T]}) = Cardinality(T) - 1
  BY FS_CardinalityType, FS_Subset, FS_EmptySet, FS_RemoveElement
<1>3. 0 \in A
  <2> DEFINE h == [T \in SUBSET S |-> x0]
  <2>1. h \in [SUBSET S -> X]
    OBVIOUS
  <2>2. ASSUME NEW T \in SUBSET S, Cardinality(T) <= 0 PROVE h[T] = Step(h, T)
    <3>1. Cardinality(T) \in Nat
      BY <1>2
    <3>2. Cardinality(T) = 0
      BY <2>2, <3>1
    <3>3. T = {}
      BY <1>2, <3>2
    <3>4. QED BY <3>3
  <2>3. Does(h, 0)
    BY <2>2
  <2> HIDE DEF h, Does
  <2>4. QED BY <1>1, <2>1, <2>3
<1>4. ASSUME NEW k \in 0..n, k < n, k \in A PROVE k + 1 \in A
  <2>1. n \in Nat /\ k \in Nat /\ k + 1 \in 0..n
    <3> HIDE DEF n
    <3>1. QED BY <1>1, <1>4
  <2>2. PICK f \in [SUBSET S -> X] : Does(f, k)
    <3> HIDE DEF Does
    <3>1. QED BY <1>4
  <2> DEFINE h == [T \in SUBSET S |-> IF Cardinality(T) = k + 1 THEN Step(f, T) ELSE f[T]]
  <2>3. ASSUME NEW T \in SUBSET S PROVE Step(f, T) \in X
    <3>1. CASE T = {}
      BY <3>1
    <3>2. CASE T # {}
      <4>1. f[T \ {c[T]}] \in X
        BY <1>2, <3>2
      <4>2. QED BY <3>2, <4>1
    <3>3. QED BY <3>1, <3>2
  <2>4. h \in [SUBSET S -> X]
    <3> HIDE DEF Step
    <3>1. QED BY <2>3
  <2>5. ASSUME NEW T \in SUBSET S, Cardinality(T) <= k + 1 PROVE h[T] = Step(h, T)
    <3>1. Step(h, T) = Step(f, T)
      <4>1. CASE T = {}
        BY <4>1
      <4>2. CASE T # {}
        <5>1. /\ T \ {c[T]} \in SUBSET S /\ Cardinality(T) \in Nat
              /\ Cardinality(T \ {c[T]}) = Cardinality(T) - 1
          BY <1>2, <4>2
        <5> DEFINE d == Cardinality(T)
                   b == Cardinality(T \ {c[T]})
        <5>2. d \in Nat /\ b = d - 1 /\ d <= k + 1
          BY <2>5, <5>1
        <5> HIDE DEF b, d
        <5>3. b # k + 1
          BY <2>1, <5>2
        <5>4. Cardinality(T \ {c[T]}) # k + 1
          BY <5>3 DEF b
        <5>5. h[T \ {c[T]}] = f[T \ {c[T]}]
          <6> HIDE DEF Step
          <6>1. QED BY <5>1, <5>4
        <5> HIDE DEF h
        <5>6. QED BY <4>2, <5>5
      <4>3. QED BY <4>1, <4>2
    <3>2. h[T] = Step(f, T)
      <4>1. CASE Cardinality(T) = k + 1
        <5> HIDE DEF Step
        <5>1. QED BY <4>1
      <4>2. CASE Cardinality(T) # k + 1
        <5>1. Cardinality(T) <= k
          <6> DEFINE d == Cardinality(T)
          <6>1. d \in Nat /\ d <= k + 1 /\ d # k + 1
            BY <1>2, <2>5, <4>2
          <6> HIDE DEF d
          <6>2. d <= k
            BY <2>1, <6>1
          <6>3. QED BY <6>2 DEF d
        <5>2. f[T] = Step(f, T)
          BY <2>2, <5>1
        <5> HIDE DEF Step
        <5>3. QED BY <4>2, <5>2
      <4>3. QED BY <4>1, <4>2
    <3> HIDE DEF h, Step
    <3>3. QED BY <3>1, <3>2
  <2>6. Does(h, k + 1)
    <3> HIDE DEF h, Step
    <3>1. QED BY <2>5
  <2> HIDE DEF h, Does
  <2>7. QED BY <2>1, <2>4, <2>6
<1> HIDE DEF A
<1>5. n \in A
  <2>1. \A k \in 0..n : k \in A
    <3> HIDE DEF n
    <3>1. QED BY <1>1, <1>3, <1>4, UpTo
  <2>2. QED BY <1>1, <2>1
<1>6. PICK f \in [SUBSET S -> X] : Does(f, n)
  <2> HIDE DEF Does
  <2>1. QED BY <1>5 DEF A
<1>7. \A T \in SUBSET S : f[T] = Step(f, T)
  BY <1>2, <1>6
<1>8. QED BY <1>7 DEF SetRecurses

(* Sums over the subsets of S: the chosen element's summand and the sum of  *)
(* the others                                                               *)
Sums(f, S, g, c) ==
    \A T \in SUBSET S : f[T] = IF T = {} THEN 0 ELSE g[c[T]] + f[T \ {c[T]}]

(* exist. *)
LEMMA SumExists ==
  ASSUME NEW S, IsFiniteSet(S), NEW g \in [S -> Nat],
         NEW c, \A T \in SUBSET S : T # {} => c[T] \in T
  PROVE  \E f \in [SUBSET S -> Nat] : Sums(f, S, g, c)
<1> DEFINE h == [Tx \in (SUBSET S) \X Nat |-> IF Tx[1] = {} THEN 0 ELSE g[c[Tx[1]]] + Tx[2]]
<1>1. h \in [(SUBSET S) \X Nat -> Nat]
  <2>1. ASSUME NEW Tx \in (SUBSET S) \X Nat, Tx[1] # {} PROVE g[c[Tx[1]]] + Tx[2] \in Nat
    <3>1. c[Tx[1]] \in S /\ Tx[2] \in Nat
      BY <2>1
    <3>2. g[c[Tx[1]]] \in Nat
      BY <3>1
    <3>3. QED BY <3>1, <3>2
  <2>2. QED BY <2>1
<1>2. \A T \in SUBSET S, x \in Nat : T # {} => h[<<T, x>>] = g[c[T]] + x
  OBVIOUS
<1> HIDE DEF h
<1>3. 0 \in Nat
  OBVIOUS
<1>4. PICK f : SetRecurses(f, S, Nat, 0, c, h)
  BY <1>1, <1>3, SetRecursion
<1>5. f \in [SUBSET S -> Nat] /\ \A T \in SUBSET S : f[T] = IF T = {} THEN 0 ELSE h[<<T, f[T \ {c[T]}]>>]
  BY <1>4 DEF SetRecurses
<1>6. ASSUME NEW T \in SUBSET S, T # {} PROVE f[T] = g[c[T]] + f[T \ {c[T]}]
  <2>1. f[T \ {c[T]}] \in Nat
    BY <1>5
  <2>2. f[T] = h[<<T, f[T \ {c[T]}]>>]
    BY <1>5, <1>6
  <2>3. QED BY <1>2, <1>6, <2>1, <2>2
<1>7. Sums(f, S, g, c)
  BY <1>5, <1>6 DEF Sums
<1>8. QED BY <1>5, <1>7

(* Where the summands are b times the sizes of sets that have no element in *)
(* common                                                                   *)
Measures(g, b, S, E) ==
    /\ \A k \in S : IsFiniteSet(E[k]) /\ g[k] = b * Cardinality(E[k])
    /\ \A j, k \in S : j # k => E[j] \cap E[k] = {}

(* the sum is b times the size of their union.                              *)
SumsUp(f, S, b, E) ==
    /\ IsFiniteSet(UNION {E[k] : k \in S})
    /\ f[S] = b * Cardinality(UNION {E[k] : k \in S})

(* A sum of sizes over a finite set is the number of blocks in it, block size apart. *)
LEMMA SumIs ==
  ASSUME NEW S, IsFiniteSet(S), NEW g, NEW c, \A T \in SUBSET S : T # {} => c[T] \in T,
         NEW f, Sums(f, S, g, c), NEW b \in Nat, NEW E, Measures(g, b, S, E)
  PROVE  SumsUp(f, S, b, E)
<1> DEFINE U(T) == UNION {E[k] : k \in T}
           A == {T \in SUBSET S : IsFiniteSet(U(T)) /\ f[T] = b * Cardinality(U(T))}
<1>1. {} \in A
  <2>1. U({}) = {}
    OBVIOUS
  <2>2. IsFiniteSet(U({})) /\ Cardinality(U({})) = 0
    BY <2>1, FS_EmptySet
  <2>3. f[{}] = 0
    BY DEF Sums
  <2>4. b * 0 = 0
    OBVIOUS
  <2> HIDE DEF U
  <2>5. QED BY <2>2, <2>3, <2>4
<1>2. ASSUME NEW T \in SUBSET S, T # {}, T \ {c[T]} \in A PROVE T \in A
  <2> DEFINE k == c[T]
             R == T \ {c[T]}
  <2>1. k \in T /\ k \in S /\ R \in SUBSET S
    BY <1>2
  <2>2. IsFiniteSet(U(R)) /\ f[R] = b * Cardinality(U(R))
    <3> HIDE DEF U
    <3>1. QED BY <1>2
  <2>3. U(T) = E[k] \cup U(R) /\ E[k] \cap U(R) = {}
    <3>1. \A j \in R : E[k] \cap E[j] = {}
      BY <2>1 DEF Measures
    <3>2. \A x : x \in U(T) <=> x \in E[k] \/ x \in U(R)
      BY <2>1
    <3>3. QED BY <3>1, <3>2
  <2>4. IsFiniteSet(E[k]) /\ g[k] = b * Cardinality(E[k])
    BY <2>1 DEF Measures
  <2>5. f[T] = g[k] + f[R]
    BY <1>2 DEF Sums
  <2> HIDE DEF U, R, k
  <2> DEFINE m == Cardinality(E[k])
             n == Cardinality(U(R))
  <2>6. IsFiniteSet(U(T)) /\ Cardinality(U(T)) = m + n - Cardinality({})
    BY <2>2, <2>3, <2>4, FS_Union
  <2>7. Cardinality({}) = 0 /\ m \in Nat /\ n \in Nat
    BY <2>2, <2>4, FS_EmptySet, FS_CardinalityType
  <2> HIDE DEF m, n
  <2>8. Cardinality(U(T)) = m + n
    BY <2>6, <2>7
  <2>9. f[T] = (b * m) + (b * n)
    BY <2>2, <2>4, <2>5 DEF m, n
  <2>10. (b * m) + (b * n) = b * (m + n)
    BY <2>7
  <2>11. f[T] = b * Cardinality(U(T))
    BY <2>8, <2>9, <2>10
  <2>12. QED BY <2>6, <2>11
<1> HIDE DEF A
<1>3. \A T \in SUBSET S : T # {} => c[T] \in T
  OBVIOUS
<1>4. \A T \in SUBSET S : T # {} /\ T \ {c[T]} \in A => T \in A
  BY <1>2
<1>5. S \in A
  BY <1>1, <1>3, <1>4, SetInduction
<1>6. QED BY <1>5 DEF A, SumsUp

(* Division with remainder, *)
LEMMA Divide ==
  ASSUME NEW a \in Nat, NEW m \in Nat \ {0}
  PROVE  /\ a \div m \in Nat /\ a % m \in 0..(m - 1)
         /\ a = ((a \div m) * m) + (a % m)
  OBVIOUS

(* the only one, *)
LEMMA DivideOnce ==
  ASSUME NEW a \in Nat, NEW m \in Nat \ {0}, NEW q \in Int, NEW r \in 0..(m - 1),
         a = (q * m) + r
  PROVE  a \div m = q /\ a % m = r
  OBVIOUS

(* and the order of multiples. *)
LEMMA Multiples ==
  ASSUME NEW p \in Int, NEW q \in Int, NEW m \in Nat \ {0}
  PROVE  /\ p * m \in Int /\ q * m \in Int
         /\ p < q => (p * m) + m <= q * m
         /\ p <= q => p * m <= q * m
         /\ p * m < q * m => p < q
         /\ (p + 1) * m = (p * m) + m
         /\ (p + q) * m = (p * m) + (q * m)
  OBVIOUS
=============================================================================
