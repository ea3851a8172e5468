----------------------------- MODULE Induction -----------------------------
(***************************************************************************)
(* Induction and recursion over the numbers, stated with sets: a set that  *)
(* has zero and the successors of its members has every number, and what   *)
(* is defined from its value one below is a function.                      *)
(***************************************************************************)
EXTENDS WellFoundedInduction, FiniteSetTheorems, TLAPS

\* A non-empty set of numbers has a least member.
LEMMA Least ==
    ASSUME NEW T \in SUBSET Nat, T # {}
    PROVE  \E x \in T : \A y \in T : x <= y
<1> DEFINE R == OpToRel(<, Nat)
<1>1. IsWellFoundedOn(R, Nat)
  BY NatLessThanWellFounded
<1>2. \A x, y \in Nat : x < y => <<x, y>> \in R
  BY DEF OpToRel
<1> HIDE DEF R
<1>3. \E x \in T : \A y \in T : ~(<<y, x>> \in R)
  BY <1>1, WFMin
<1>4. PICK x \in T : \A y \in T : ~(<<y, x>> \in R)
  BY <1>3
<1>5. ASSUME NEW y \in T PROVE x <= y
  <2>1. ~(y < x)
    BY <1>2, <1>4
  <2> QED
    BY <2>1
<1> QED
  BY <1>5

\* A set of numbers that has zero, and the successor of each member, has them all.
LEMMA Induct ==
    ASSUME NEW S \in SUBSET Nat, 0 \in S, \A n \in S : n + 1 \in S
    PROVE  S = Nat
<1> SUFFICES ASSUME Nat \ S # {} PROVE FALSE
  OBVIOUS
<1>1. PICK x \in Nat \ S : \A y \in Nat \ S : x <= y
  BY Least
<1>2. x # 0 /\ x - 1 \in Nat
  BY <1>1
<1>3. x - 1 \in S
  BY <1>1, <1>2
<1>4. (x - 1) + 1 = x
  OBVIOUS
<1> QED
  BY <1>1, <1>3, <1>4

\* The same up to a bound.
LEMMA InductUpTo ==
    ASSUME NEW N \in Nat, NEW S \in SUBSET Nat, 0 \in S, \A n \in S : n < N => n + 1 \in S
    PROVE  \A n \in Nat : n <= N => n \in S
<1> DEFINE T == {n \in Nat : n <= N => n \in S}
<1>1. 0 \in T
  OBVIOUS
<1>2. ASSUME NEW n \in T PROVE n + 1 \in T
  OBVIOUS
<1> HIDE DEF T
<1>3. T \in SUBSET Nat
  BY DEF T
<1>4. T = Nat
  BY <1>1, <1>2, <1>3, Induct
<1> QED
  BY <1>4 DEF T

\* The prefix functions of an iteration: f[0] = v, f[n + 1] = F[n][f[n]].
UpTo(V, v, F, n) ==
    {f \in [0 .. n -> V] : f[0] = v /\ \A k \in 0 .. n - 1 : f[k + 1] = F[k][f[k]]}

Iterates(f, v, F) == f[0] = v /\ \A n \in Nat : f[n + 1] = F[n][f[n]]

\* There is such a function on all the numbers: the values of the prefixes agree.
LEMMA Iteration ==
    ASSUME NEW V, NEW v \in V, NEW F \in [Nat -> [V -> V]]
    PROVE  \E f \in [Nat -> V] : Iterates(f, v, F)
<1> DEFINE P(n) == UpTo(V, v, F, n)
<1>1. \A n \in Nat : P(n) # {}
  <2> DEFINE S == {n \in Nat : P(n) # {}}
  <2>1. 0 \in S
    <3>1. [k \in 0 .. 0 |-> v] \in P(0)
      BY DEF UpTo
    <3> QED
      BY <3>1
  <2>2. ASSUME NEW n \in S PROVE n + 1 \in S
    <3>1. PICK f \in P(n) : TRUE
      OBVIOUS
    <3> DEFINE g == [k \in 0 .. n + 1 |-> IF k <= n THEN f[k] ELSE F[n][f[n]]]
    <3>2. f \in [0 .. n -> V] /\ f[0] = v /\ \A k \in 0 .. n - 1 : f[k + 1] = F[k][f[k]]
      BY <3>1 DEF UpTo
    <3>3. F[n][f[n]] \in V
      BY <3>2
    <3>4. g \in [0 .. n + 1 -> V]
      BY <3>2, <3>3
    <3>5. g[0] = v
      BY <3>2
    <3>6. ASSUME NEW k \in 0 .. n PROVE g[k + 1] = F[k][g[k]]
      BY <3>2
    <3>7. (n + 1) - 1 = n
      OBVIOUS
    <3> HIDE DEF g
    <3>8. g \in P(n + 1)
      BY <3>4, <3>5, <3>6, <3>7 DEF UpTo
    <3> QED
      BY <3>8
  <2> HIDE DEF S
  <2>3. S \in SUBSET Nat
    BY DEF S
  <2>4. S = Nat
    BY <2>1, <2>2, <2>3, Induct
  <2> QED
    BY <2>4 DEF S
<1>2. ASSUME NEW m \in Nat, NEW n \in Nat, NEW f \in P(m), NEW g \in P(n), NEW i \in Nat,
             i <= m, i <= n
      PROVE  f[i] = g[i]
  <2> DEFINE S == {k \in Nat : k <= m /\ k <= n => f[k] = g[k]}
  <2>1. f[0] = v /\ \A k \in 0 .. m - 1 : f[k + 1] = F[k][f[k]]
    BY DEF UpTo
  <2>2. g[0] = v /\ \A k \in 0 .. n - 1 : g[k + 1] = F[k][g[k]]
    BY DEF UpTo
  <2>3. 0 \in S
    BY <2>1, <2>2
  <2>4. ASSUME NEW k \in S PROVE k + 1 \in S
    <3>1. SUFFICES ASSUME k + 1 <= m, k + 1 <= n PROVE f[k + 1] = g[k + 1]
      OBVIOUS
    <3>2. k \in 0 .. m - 1 /\ k \in 0 .. n - 1 /\ f[k] = g[k]
      BY <3>1
    <3> QED
      BY <2>1, <2>2, <3>2
  <2> HIDE DEF S
  <2>5. S \in SUBSET Nat
    BY DEF S
  <2>6. S = Nat
    BY <2>3, <2>4, <2>5, Induct
  <2> QED
    BY <2>6, <1>2 DEF S
<1> DEFINE c == [n \in Nat |-> CHOOSE f \in P(n) : TRUE]
           h == [n \in Nat |-> c[n][n]]
<1> HIDE DEF P
<1>3. ASSUME NEW n \in Nat PROVE c[n] \in P(n)
  BY <1>1
<1> HIDE DEF c
<1>4. ASSUME NEW n \in Nat
      PROVE  c[n] \in [0 .. n -> V] /\ c[n][0] = v /\ \A k \in 0 .. n - 1 : c[n][k + 1] = F[k][c[n][k]]
  BY <1>3 DEF P, UpTo
<1>5. h \in [Nat -> V]
  BY <1>4
<1>6. h[0] = v
  BY <1>4
<1>7. ASSUME NEW n \in Nat PROVE h[n + 1] = F[n][h[n]]
  <2>1. c[n + 1][n + 1] = F[n][c[n + 1][n]]
    BY <1>4
  <2>2. c[n + 1][n] = c[n][n]
    BY <1>2, <1>3
  <2> QED
    BY <2>1, <2>2
<1> HIDE DEF h
<1> QED
  BY <1>5, <1>6, <1>7 DEF Iterates

\* A recursion over an interval: at[1] = v, at[i + 1] = F[i][at[i]].
Climbs(at, N, v, F) == at[1] = v /\ \A i \in 1 .. N : at[i + 1] = F[i][at[i]]
Climb(N, V, v, F) == \E at \in [1 .. N + 1 -> V] : Climbs(at, N, v, F)

LEMMA Climbing ==
    ASSUME NEW N \in Nat, NEW V, NEW v \in V, NEW F \in [1 .. N -> [V -> V]]
    PROVE  Climb(N, V, v, F)
<1> DEFINE G == [n \in Nat |-> IF n + 1 \in 1 .. N THEN F[n + 1] ELSE [x \in V |-> x]]
<1>1. G \in [Nat -> [V -> V]]
  <2>1. [x \in V |-> x] \in [V -> V]
    OBVIOUS
  <2> QED
    BY <2>1
<1>2. \A n \in Nat : n + 1 \in 1 .. N => G[n] = F[n + 1]
  OBVIOUS
<1> HIDE DEF G
<1>3. PICK f \in [Nat -> V] : Iterates(f, v, G)
  BY <1>1, Iteration
<1> DEFINE at == [i \in 1 .. N + 1 |-> f[i - 1]]
<1>4. at \in [1 .. N + 1 -> V] /\ at[1] = v
  BY <1>3 DEF Iterates
<1>5. ASSUME NEW i \in 1 .. N PROVE at[i + 1] = F[i][at[i]]
  <2>1. at[i + 1] = f[i] /\ at[i] = f[i - 1] /\ i - 1 \in Nat /\ (i - 1) + 1 = i
    OBVIOUS
  <2>2. f[(i - 1) + 1] = G[i - 1][f[i - 1]]
    BY <1>3, <2>1 DEF Iterates
  <2>3. G[i - 1] = F[i]
    BY <1>2, <2>1
  <2> HIDE DEF at
  <2> QED
    BY <2>1, <2>2, <2>3
<1> HIDE DEF at
<1> QED
  BY <1>4, <1>5 DEF Climbs, Climb

-----------------------------------------------------------------------------
\* A sum of weights over the subsets of a set.
Sums(U, w, t) ==
    /\ t \in [SUBSET U -> Nat] /\ t[{}] = 0
    /\ \A s \in SUBSET U : \A x \in s : t[s] = w[x] + t[s \ {x}]

Summed(U, w) == \E t : Sums(U, w, t)

LEMMA SumGrows ==
    ASSUME NEW U, NEW x \in U, NEW w \in [U -> Nat], NEW t, Sums(U \ {x}, w, t)
    PROVE  Summed(U, w)
<1> DEFINE B == U \ {x}
           g == [s \in SUBSET U |-> IF x \in s THEN w[x] + t[s \ {x}] ELSE t[s]]
<1>1. t \in [SUBSET B -> Nat] /\ t[{}] = 0 /\ \A s \in SUBSET B : \A y \in s : t[s] = w[y] + t[s \ {y}]
  BY DEF Sums
<1>2. \A s \in SUBSET U : s \ {x} \in SUBSET B /\ (x \notin s => s \in SUBSET B)
  OBVIOUS
<1> HIDE DEF B
<1>3. g \in [SUBSET U -> Nat] /\ g[{}] = 0
  <2>1. ASSUME NEW s \in SUBSET U PROVE (IF x \in s THEN w[x] + t[s \ {x}] ELSE t[s]) \in Nat
    BY <1>1, <1>2
  <2> QED
    BY <1>1, <2>1
<1>4. ASSUME NEW s \in SUBSET U, NEW y \in s PROVE g[s] = w[y] + g[s \ {y}]
  <2>1. s \ {y} \in SUBSET U
    OBVIOUS
  <2>2. CASE x \notin s
    BY <1>1, <1>2, <2>1, <2>2
  <2>3. CASE y = x
    <3>1. g[s] = w[x] + t[s \ {x}] /\ g[s \ {y}] = t[s \ {x}]
      BY <2>1, <2>3
    <3> QED
      BY <2>3, <3>1
  <2>4. CASE x \in s /\ y # x
    <3>1. g[s] = w[x] + t[s \ {x}] /\ g[s \ {y}] = w[x] + t[(s \ {y}) \ {x}]
      BY <2>1, <2>4
    <3>2. (s \ {y}) \ {x} = (s \ {x}) \ {y} /\ y \in s \ {x}
      BY <2>4
    <3>3. s \ {x} \in SUBSET B
      BY <1>2
    <3>4. t[s \ {x}] = w[y] + t[(s \ {x}) \ {y}]
      BY <1>1, <3>2, <3>3
    <3>5. w[x] \in Nat /\ w[y] \in Nat /\ t[(s \ {x}) \ {y}] \in Nat
      BY <1>1, <3>3
    <3>6. g[s \ {y}] = w[x] + t[(s \ {x}) \ {y}]
      BY <3>1, <3>2
    <3>7. g[s] = w[x] + (w[y] + t[(s \ {x}) \ {y}])
      BY <3>1, <3>4
    <3>8. \A i, j, k \in Nat : i + (j + k) = j + (i + k)
      OBVIOUS
    <3> HIDE DEF g
    <3> QED
      BY <3>5, <3>6, <3>7, <3>8
  <2> QED
    BY <2>2, <2>3, <2>4
<1> HIDE DEF g
<1> QED
  BY <1>3, <1>4 DEF Sums, Summed

LEMMA SumExists ==
    ASSUME NEW U, IsFiniteSet(U), NEW w \in [U -> Nat]
    PROVE  Summed(U, w)
<1> DEFINE P(n) == \A A \in SUBSET U : Cardinality(A) = n => \A v \in [A -> Nat] : Summed(A, v)
           S == {n \in Nat : P(n)}
<1>1. 0 \in S
  <2>1. ASSUME NEW A \in SUBSET U, Cardinality(A) = 0, NEW v \in [A -> Nat] PROVE Summed(A, v)
    <3>1. A = {}
      BY <2>1, FS_EmptySet, FS_Subset
    <3> DEFINE t == [s \in SUBSET A |-> 0]
    <3>2. Sums(A, v, t)
      BY <3>1 DEF Sums
    <3> QED
      BY <3>2 DEF Summed
  <2> QED
    BY <2>1
<1>2. ASSUME NEW n \in S PROVE n + 1 \in S
  <2>1. ASSUME NEW A \in SUBSET U, Cardinality(A) = n + 1, NEW v \in [A -> Nat] PROVE Summed(A, v)
    <3>1. IsFiniteSet(A) /\ A # {}
      BY <2>1, FS_EmptySet, FS_Subset
    <3>2. PICK x \in A : TRUE
      BY <3>1
    <3> DEFINE B == A \ {x}
               u == [y \in B |-> v[y]]
    <3>3. B \in SUBSET U /\ Cardinality(B) = n
      <4>1. Cardinality(B) = (n + 1) - 1
        BY <2>1, <3>1, FS_RemoveElement
      <4> QED
        BY <4>1
    <3>4. u \in [B -> Nat]
      OBVIOUS
    <3>5. Summed(B, u)
      BY <3>3, <3>4
    <3>6. PICK t : Sums(B, u, t)
      BY <3>5 DEF Summed
    <3>7. Sums(B, v, t)
      BY <3>6 DEF Sums
    <3> QED
      BY <3>7, SumGrows
  <2> HIDE DEF Summed
  <2> QED
    BY <2>1
<1> HIDE DEF S
<1>3. S = Nat
  <2>1. S \in SUBSET Nat
    BY DEF S
  <2> QED
    BY <1>1, <1>2, <2>1, Induct
<1>4. Cardinality(U) \in S
  BY <1>3, FS_CardinalityType
<1> QED
  BY <1>4 DEF S

\* Sums grow with the set.
LEMMA SumWithin ==
    ASSUME NEW U, IsFiniteSet(U), NEW w \in [U -> Nat], NEW t, Sums(U, w, t),
           NEW r \in SUBSET U, NEW s \in SUBSET r
    PROVE  t[s] <= t[r]
<1> DEFINE P(n) == \A q \in SUBSET U : s \subseteq q /\ Cardinality(q) = n => t[s] <= t[q]
           S == {n \in Nat : P(n)}
<1>1. t \in [SUBSET U -> Nat] /\ \A q \in SUBSET U : \A x \in q : t[q] = w[x] + t[q \ {x}]
  BY DEF Sums
<1>2. t[s] \in Nat
  BY <1>1
<1>3. 0 \in S
  <2>1. ASSUME NEW q \in SUBSET U, s \subseteq q, Cardinality(q) = 0 PROVE t[s] <= t[q]
    <3>1. q = {}
      BY <2>1, FS_EmptySet, FS_Subset
    <3>2. s = q
      BY <2>1, <3>1
    <3> QED
      BY <1>2, <3>2
  <2> QED
    BY <2>1
<1>4. ASSUME NEW n \in S PROVE n + 1 \in S
  <2>1. ASSUME NEW q \in SUBSET U, s \subseteq q, Cardinality(q) = n + 1 PROVE t[s] <= t[q]
    <3>1. CASE s = q
      BY <1>2, <3>1
    <3>2. CASE s # q
      <4>1. PICK x \in q : x \notin s
        BY <2>1, <3>2
      <4>2. IsFiniteSet(q)
        BY FS_Subset
      <4>3. s \subseteq q \ {x} /\ q \ {x} \in SUBSET U /\ Cardinality(q \ {x}) = n
        <5>1. Cardinality(q \ {x}) = (n + 1) - 1
          BY <2>1, <4>1, <4>2, FS_RemoveElement
        <5> QED
          BY <2>1, <4>1, <5>1
      <4>4. t[s] <= t[q \ {x}]
        BY <4>3
      <4>5. t[q] = w[x] + t[q \ {x}] /\ w[x] \in Nat /\ t[q \ {x}] \in Nat
        BY <1>1, <4>3
      <4> QED
        BY <1>2, <4>4, <4>5
    <3> QED
      BY <3>1, <3>2
  <2> QED
    BY <2>1
<1> HIDE DEF S
<1>5. S = Nat
  <2>1. S \in SUBSET Nat
    BY DEF S
  <2> QED
    BY <1>3, <1>4, <2>1, Induct
<1>6. Cardinality(r) \in S
  <2>1. IsFiniteSet(r)
    BY FS_Subset
  <2> QED
    BY <1>5, <2>1, FS_CardinalityType
<1> QED
  BY <1>6 DEF S

\* What FoldSet computes is the sum, in whatever order it takes the members.
FoldsTo(A, w, r) ==
    r = [s \in SUBSET A |-> IF s = {} THEN 0
                            ELSE r[s \ {CHOOSE x \in s : TRUE}] + w[CHOOSE x \in s : TRUE]]

LEMMA SumOnly ==
    ASSUME NEW U, IsFiniteSet(U), NEW w \in [U -> Nat], NEW t, Sums(U, w, t), NEW A \in SUBSET U,
           NEW r, FoldsTo(A, w, r)
    PROVE  r[A] = t[A]
<1> DEFINE P(n) == \A q \in SUBSET A : Cardinality(q) = n => r[q] = t[q]
           S == {n \in Nat : P(n)}
<1>1. /\ t \in [SUBSET U -> Nat] /\ t[{}] = 0
      /\ \A q \in SUBSET U : \A x \in q : t[q] = w[x] + t[q \ {x}]
  BY DEF Sums
<1>2. 0 \in S
  <2>1. ASSUME NEW q \in SUBSET A, Cardinality(q) = 0 PROVE r[q] = t[q]
    <3>1. q = {}
      BY <2>1, FS_EmptySet, FS_Subset
    <3> QED
      BY <1>1, <3>1 DEF FoldsTo
  <2> QED
    BY <2>1
<1>3. ASSUME NEW n \in S PROVE n + 1 \in S
  <2>1. ASSUME NEW q \in SUBSET A, Cardinality(q) = n + 1 PROVE r[q] = t[q]
    <3>1. IsFiniteSet(q) /\ q # {}
      BY <2>1, FS_EmptySet, FS_Subset
    <3> DEFINE x == CHOOSE y \in q : TRUE
    <3>2. x \in q
      BY <3>1
    <3>3. r[q] = r[q \ {x}] + w[x]
      BY <3>1 DEF FoldsTo
    <3> HIDE DEF x
    <3>4. q \ {x} \in SUBSET A /\ Cardinality(q \ {x}) = n
      <4>1. Cardinality(q \ {x}) = (n + 1) - 1
        BY <2>1, <3>1, <3>2, FS_RemoveElement
      <4> QED
        BY <4>1
    <3>5. r[q \ {x}] = t[q \ {x}]
      BY <3>4
    <3>6. t[q] = w[x] + t[q \ {x}] /\ w[x] \in Nat /\ t[q \ {x}] \in Nat
      BY <1>1, <3>2, <3>4
    <3> QED
      BY <3>3, <3>5, <3>6
  <2>2. P(n + 1)
    BY <2>1
  <2> HIDE DEF P
  <2> QED
    BY <2>2
<1> HIDE DEF S
<1>4. S = Nat
  <2>1. S \in SUBSET Nat
    BY DEF S
  <2> QED
    BY <1>2, <1>3, <2>1, Induct
<1>5. Cardinality(A) \in S
  <2>1. IsFiniteSet(A)
    BY FS_Subset
  <2> QED
    BY <1>4, <2>1, FS_CardinalityType
<1> QED
  BY <1>5 DEF S
=============================================================================
