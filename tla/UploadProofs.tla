---------------------------- MODULE UploadProofs ----------------------------
(***************************************************************************)
(* A fetch, for every graph, client, request and depth, whatever is        *)
(* pushed, swept and repacked beside it: a pack that was sent makes the    *)
(* client whole, every delta of it resolves, and only a moved ref breaks   *)
(* a fetch of what was all there.                                          *)
(*                                                                         *)
(* FetchInv follows the negotiation: what is taken for the client's is its *)
(* own (ClientHolds), the plan is that of the depth (PlanKept), and what   *)
(* is wanted is closed but for where the walk stopped (WantedClosed).      *)
(* Undisturbed says what a fetch finds as long as no ref moved: a sweep    *)
(* takes nothing live, a repack touches no planned delta.                  *)
(*                                                                         *)
(* The last part is about the body of a compressed request: what gunzip    *)
(* makes of it, from what InflaterProofs says of one push of a stream.     *)
(***************************************************************************)
EXTENDS UploadPack, Induction, SequenceTheorems

Follow == [Oid -> SUBSET Oid]

\* Both link functions say, of every object, which objects it names.
LEMMA LinkTypes ==
    ASSUME NEW grafts
    PROVE  Reaches(grafts) \in Follow /\ Verifies(grafts) \in Follow
BY GraphAssumption DEF Reaches, Verifies, Follow

\* The objects that those of S name.
Image(S, follow) == UNION {follow[o] : o \in S}

\* They are objects.
LEMMA ImageIn ==
    ASSUME NEW S \in SUBSET Oid, NEW follow \in Follow
    PROVE  Image(S, follow) \in SUBSET Oid
BY DEF Image, Follow

\* The rounds of a walk: the recursion has its solution.
LEMMA MetRounds ==
    ASSUME NEW roots \in SUBSET Oid, NEW follow \in Follow
    PROVE  \E f \in [Nat -> SUBSET Oid] :
              /\ f[0] = roots
              /\ \A n \in Nat : f[n + 1] = f[n] \cup Image(f[n], follow)
              /\ Met(roots, follow) = f[Cardinality(Oid)]
<1> DEFINE F == [n \in Nat |-> [S \in SUBSET Oid |-> S \cup Image(S, follow)]]
<1>1. F \in [Nat -> [SUBSET Oid -> SUBSET Oid]]
  BY ImageIn
<1>2. \A n \in Nat, S \in SUBSET Oid : F[n][S] = S \cup Image(S, follow)
  OBVIOUS
<1> HIDE DEF F
<1> DEFINE V == SUBSET Oid
<1> HIDE DEF V
<1>9. roots \in V /\ F \in [Nat -> [V -> V]]
  BY <1>1 DEF V
<1>8. \E f \in [Nat -> V] : Iterates(f, roots, F)
  BY <1>9, Iteration
<1>3. PICK f \in [Nat -> SUBSET Oid] : f[0] = roots /\ \A n \in Nat : f[n + 1] = F[n][f[n]]
  BY <1>8 DEF V, Iterates
<1>4. \A n \in Nat : f[n + 1] = f[n] \cup Image(f[n], follow)
  BY <1>2, <1>3
<1> DEFINE Rounds(g) == [n \in Nat |-> IF n = 0 THEN roots
                                       ELSE LET S == g[n - 1] IN S \cup UNION {follow[o] : o \in S}]
           reached == CHOOSE g : g = Rounds(g)
<1>5. f = Rounds(f)
  <2>1. \A n \in Nat : n # 0 => n - 1 \in Nat /\ (n - 1) + 1 = n
    OBVIOUS
  <2>2. \A n \in Nat : f[n] = Rounds(f)[n]
    BY <1>3, <1>4, <2>1 DEF Image
  <2> QED
    BY <1>3, <2>2
<1>6. reached = Rounds(reached)
  BY <1>5
<1>7. Met(roots, follow) = reached[Cardinality(Oid)]
  BY DEF Met
<1>10. reached[0] = roots
  BY <1>6
<1>11. ASSUME NEW n \in Nat PROVE reached[n + 1] = reached[n] \cup Image(reached[n], follow)
  <2>1. n + 1 # 0 /\ (n + 1) - 1 = n /\ n + 1 \in Nat
    OBVIOUS
  <2> HIDE DEF reached
  <2>2. reached[n + 1] = LET S == reached[n] IN S \cup UNION {follow[o] : o \in S}
    BY <1>6, <2>1
  <2> QED
    BY <2>2 DEF Image
<1> HIDE DEF reached
<1>12. \A n \in Nat : reached[n] = f[n]
  <2> DEFINE S == {n \in Nat : reached[n] = f[n]}
  <2>1. 0 \in S
    BY <1>3, <1>10
  <2>2. ASSUME NEW n \in S PROVE n + 1 \in S
    <3>1. n \in Nat /\ n + 1 \in Nat /\ reached[n] = f[n]
      OBVIOUS
    <3>2. reached[n + 1] = f[n + 1]
      BY <1>4, <1>11, <3>1
    <3> QED
      BY <3>1, <3>2
  <2> HIDE DEF S
  <2>3. S \in SUBSET Nat
    BY DEF S
  <2>4. S = Nat
    BY <2>1, <2>2, <2>3, Induct
  <2> QED
    BY <2>4 DEF S
<1>13. Cardinality(Oid) \in Nat
  BY UploadAssumption, FS_CardinalityType
<1> QED
  BY <1>3, <1>4, <1>7, <1>12, <1>13

\* What a walk meets is the least set that holds its roots and is closed.
LEMMA MetLeast ==
    ASSUME NEW roots \in SUBSET Oid, NEW follow \in Follow
    PROVE  /\ Met(roots, follow) \in SUBSET Oid
           /\ roots \subseteq Met(roots, follow)
           /\ Closed(Met(roots, follow), follow)
           /\ \A S \in SUBSET Oid : roots \subseteq S /\ Closed(S, follow) => Met(roots, follow) \subseteq S
<1>1. PICK f \in [Nat -> SUBSET Oid] :
        /\ f[0] = roots
        /\ \A n \in Nat : f[n + 1] = f[n] \cup Image(f[n], follow)
        /\ Met(roots, follow) = f[Cardinality(Oid)]
  BY MetRounds
<1> DEFINE N == Cardinality(Oid)
<1>2. N \in Nat
  BY UploadAssumption, FS_CardinalityType
<1>3. Met(roots, follow) \in SUBSET Oid
  BY <1>1, <1>2
<1> HIDE DEF N
<1>4. roots \subseteq f[N]
  <2> DEFINE T == {n \in Nat : roots \subseteq f[n]}
  <2>1. 0 \in T
    BY <1>1
  <2>2. ASSUME NEW n \in T PROVE n + 1 \in T
    <3>1. f[n + 1] = f[n] \cup Image(f[n], follow)
      BY <1>1
    <3> QED
      BY <3>1
  <2> HIDE DEF T
  <2>3. T \in SUBSET Nat
    BY DEF T
  <2>4. T = Nat
    BY <2>1, <2>2, <2>3, Induct
  <2> QED
    BY <1>2, <2>4 DEF T
<1>5. ASSUME NEW S \in SUBSET Oid, roots \subseteq S, Closed(S, follow) PROVE f[N] \subseteq S
  <2> DEFINE T == {n \in Nat : f[n] \subseteq S}
  <2>1. 0 \in T
    BY <1>1, <1>5
  <2>2. ASSUME NEW n \in T PROVE n + 1 \in T
    <3>1. f[n + 1] = f[n] \cup Image(f[n], follow)
      BY <1>1
    <3>2. Image(f[n], follow) \subseteq S
      BY <1>5 DEF Image, Closed
    <3> QED
      BY <3>1, <3>2
  <2> HIDE DEF T
  <2>3. T \in SUBSET Nat
    BY DEF T
  <2>4. T = Nat
    BY <2>1, <2>2, <2>3, Induct
  <2> QED
    BY <1>2, <2>4 DEF T
<1>6. Closed(f[N], follow)
  <2> DEFINE T == {n \in Nat : Closed(f[n], follow) \/ Cardinality(f[n]) >= n}
  <2>0. \A n \in Nat : IsFiniteSet(f[n]) /\ Cardinality(f[n]) \in Nat
    BY UploadAssumption, FS_Subset, FS_CardinalityType
  <2>1. 0 \in T
    BY <2>0
  <2>2. ASSUME NEW n \in T PROVE n + 1 \in T
    <3>0. n \in Nat /\ n + 1 \in Nat
      OBVIOUS
    <3>1. f[n + 1] = f[n] \cup Image(f[n], follow)
      BY <1>1
    <3>2. CASE Closed(f[n], follow)
      <4>1. Image(f[n], follow) \subseteq f[n]
        BY <3>2 DEF Image, Closed
      <4>2. f[n + 1] = f[n]
        BY <3>1, <4>1
      <4> QED
        BY <3>0, <3>2, <4>2
    <3>3. CASE ~Closed(f[n], follow)
      <4>1. PICK x \in Image(f[n], follow) : x \notin f[n]
        BY <3>3 DEF Image, Closed
      <4>2. Cardinality(f[n] \cup {x}) = Cardinality(f[n]) + 1
        BY <2>0, <4>1, FS_AddElement
      <4>3. f[n] \cup {x} \subseteq f[n + 1]
        BY <3>1, <4>1
      <4>4. Cardinality(f[n] \cup {x}) <= Cardinality(f[n + 1])
        BY <2>0, <3>0, <4>3, FS_Subset
      <4>5. Cardinality(f[n]) >= n
        BY <3>3
      <4>6. Cardinality(f[n]) \in Nat /\ Cardinality(f[n + 1]) \in Nat
        BY <2>0, <3>0
      <4>7. Cardinality(f[n + 1]) >= n + 1
        BY <3>0, <4>2, <4>4, <4>5, <4>6
      <4> QED
        BY <3>0, <4>7
    <3> QED
      BY <3>2, <3>3
  <2> HIDE DEF T
  <2>3. T \in SUBSET Nat
    BY DEF T
  <2>4. T = Nat
    BY <2>1, <2>2, <2>3, Induct
  <2>5. CASE Cardinality(f[N]) >= N
    <3>0. f[N] \subseteq Oid
      BY <1>2
    <3>1. Cardinality(f[N]) <= Cardinality(Oid)
      BY UploadAssumption, <3>0, FS_Subset
    <3>2. Cardinality(f[N]) \in Nat
      BY <1>2, <2>0
    <3>3. Cardinality(f[N]) = Cardinality(Oid)
      BY <1>2, <2>5, <3>1, <3>2 DEF N
    <3>4. f[N] = Oid
      BY UploadAssumption, <3>0, <3>3, FS_Subset
    <3> QED
      BY <3>4 DEF Closed, Follow
  <2> QED
    BY <1>2, <2>4, <2>5 DEF T
<1> QED
  BY <1>1, <1>3, <1>4, <1>5, <1>6 DEF N

\* MetIsClosure: the rounds of a walk (reachable and readObjectClosure), as many as
\* there are objects, reach exactly what ObjectGraph calls the closure.
THEOREM MetIsClosure ==
    ASSUME NEW roots \in SUBSET Oid, NEW follow \in Follow
    PROVE  Met(roots, follow) = Closure(roots, follow)
<1>1. Met(roots, follow) \subseteq Closure(roots, follow)
  BY MetLeast, Zenon DEF Closure
<1>2. Closure(roots, follow) \subseteq Met(roots, follow)
  BY MetLeast DEF Closure
<1> QED
  BY <1>1, <1>2

\* A walk is not longer for following less, from fewer roots.
LEMMA MetWithin ==
    ASSUME NEW roots \in SUBSET Oid, NEW follow \in Follow, NEW S \in SUBSET Oid,
           roots \subseteq S, \A o \in S : follow[o] \subseteq S
    PROVE  Met(roots, follow) \subseteq S
BY MetLeast DEF Closed

\* What a depth can see, round by round.
Tagged == [o \in Oid |-> IF Kind[o] = "tag" THEN Links[o] ELSE {}]
Peeled == Met({request.want}, Tagged)
Parents(S) == Commits(Image(S \ shallow, Links))

\* The rounds of planDepth: the first peels the tags, each later one adds the parents.
LEMMA LayerRounds ==
    ASSUME request.want \in Oid
    PROVE  \E f \in [Nat -> SUBSET Oid] :
              /\ \A n \in Nat : Within(n) = f[n]
              /\ f[0] = Commits(Peeled) /\ f[1] = Commits(Peeled)
              /\ \A n \in Nat \ {0} : f[n + 1] = f[n] \cup Parents(f[n])
<1> DEFINE F == [n \in Nat |-> [S \in SUBSET Oid |-> IF n = 0 THEN S ELSE S \cup Parents(S)]]
           V == SUBSET Oid
           A == Commits(Peeled)
<1>0. Tagged \in Follow
  BY GraphAssumption DEF Tagged, Follow
<1>1. A \in SUBSET Oid
  <2>1. Peeled \in SUBSET Oid
    BY <1>0, MetLeast DEF Peeled
  <2> QED
    BY <2>1 DEF Commits
<1>2. \A S \in SUBSET Oid : Parents(S) \in SUBSET Oid
  <2>1. \A o \in Oid : Links[o] \subseteq Oid
    BY GraphAssumption
  <2>2. ASSUME NEW S \in SUBSET Oid, NEW p \in Parents(S) PROVE p \in Oid
    <3>1. PICK c \in S \ shallow : p \in Links[c]
      BY DEF Parents, Commits, Image
    <3> QED
      BY <2>1, <3>1
  <2> QED
    BY <2>2
<1>3. F \in [Nat -> [V -> V]] /\ A \in V
  BY <1>1, <1>2
<1>4. \A n \in Nat, S \in SUBSET Oid : F[n][S] = IF n = 0 THEN S ELSE S \cup Parents(S)
  BY DEF F
<1> HIDE DEF F, V, A
<1>5. \E f \in [Nat -> V] : Iterates(f, A, F)
  BY <1>3, Iteration
<1>6. PICK f \in [Nat -> SUBSET Oid] : f[0] = A /\ \A n \in Nat : f[n + 1] = F[n][f[n]]
  BY <1>5 DEF V, Iterates
<1>7. f[1] = A /\ \A n \in Nat \ {0} : f[n + 1] = f[n] \cup Parents(f[n])
  <2>1. f[0 + 1] = F[0][f[0]] /\ 0 + 1 = 1
    BY <1>6
  <2>2. f[1] = A
    BY <1>4, <1>6, <2>1
  <2>3. \A n \in Nat \ {0} : f[n + 1] = f[n] \cup Parents(f[n])
    BY <1>4, <1>6
  <2> QED
    BY <2>2, <2>3
<1> DEFINE Rounds(g) == [d \in Nat |->
              IF d <= 1 THEN Commits(Met({request.want}, [o \in Oid |->
                               IF Kind[o] = "tag" THEN Links[o] ELSE {}]))
              ELSE LET S == g[d - 1] IN S \cup Commits(UNION {Links[c] : c \in S \ shallow})]
           layer == CHOOSE g : g = Rounds(g)
<1>8. f = Rounds(f)
  <2>1. \A n \in Nat : ~(n <= 1) => n - 1 \in Nat \ {0} /\ (n - 1) + 1 = n
    OBVIOUS
  <2>2. \A n \in Nat : n <= 1 => n = 0 \/ n = 1
    OBVIOUS
  <2>3. ASSUME NEW n \in Nat, n <= 1 PROVE f[n] = Rounds(f)[n]
    BY <1>6, <1>7, <2>2, <2>3 DEF A, Peeled, Tagged
  <2>4. ASSUME NEW n \in Nat, ~(n <= 1) PROVE f[n] = Rounds(f)[n]
    <3>1. f[n] = f[n - 1] \cup Parents(f[n - 1])
      BY <1>7, <2>1, <2>4
    <3> QED
      BY <2>4, <3>1 DEF Parents, Image
  <2>5. \A n \in Nat : f[n] = Rounds(f)[n]
    BY <2>3, <2>4
  <2> QED
    BY <1>6, <2>5
<1>9. layer = Rounds(layer)
  BY <1>8
<1>10. \A n \in Nat : Within(n) = layer[n]
  BY DEF Within
<1>15. A = Commits(Met({request.want}, [o \in Oid |-> IF Kind[o] = "tag" THEN Links[o] ELSE {}]))
  BY DEF A, Peeled, Tagged
<1>11. layer[0] = A
  <2> HIDE DEF layer
  <2>1. layer[0] = Rounds(layer)[0]
    BY <1>9
  <2> QED
    BY <1>15, <2>1
<1>12. ASSUME NEW n \in Nat \ {0} PROVE layer[n + 1] = layer[n] \cup Parents(layer[n])
  <2>1. ~(n + 1 <= 1) /\ (n + 1) - 1 = n /\ n + 1 \in Nat
    OBVIOUS
  <2> HIDE DEF layer
  <2>2. layer[n + 1] = LET S == layer[n] IN S \cup Commits(UNION {Links[c] : c \in S \ shallow})
    BY <1>9, <2>1
  <2> QED
    BY <2>2 DEF Parents, Image
<1>13. layer[1] = A
  <2> HIDE DEF layer
  <2>1. layer[1] = Rounds(layer)[1]
    BY <1>9
  <2> QED
    BY <1>15, <2>1
<1> HIDE DEF layer
<1>14. \A n \in Nat : layer[n] = f[n]
  <2> DEFINE S == {n \in Nat : layer[n] = f[n]}
  <2>1. 0 \in S
    BY <1>6, <1>11
  <2>2. ASSUME NEW n \in S PROVE n + 1 \in S
    <3>1. n \in Nat /\ n + 1 \in Nat /\ layer[n] = f[n]
      OBVIOUS
    <3>2. CASE n = 0
      BY <1>7, <1>13, <3>1, <3>2
    <3>3. CASE n # 0
      <4>1. layer[n + 1] = f[n + 1]
        BY <1>7, <1>12, <3>1, <3>3
      <4> QED
        BY <3>1, <4>1
    <3> QED
      BY <3>2, <3>3
  <2> HIDE DEF S
  <2>3. S \in SUBSET Nat
    BY DEF S
  <2>4. S = Nat
    BY <2>1, <2>2, <2>3, Induct
  <2> QED
    BY <2>4 DEF S
<1> QED
  BY <1>6, <1>7, <1>10, <1>14 DEF A

\* The rounds grow, each by the parents of what the last one has.
LEMMA WithinSteps ==
    ASSUME request.want \in Oid
    PROVE  /\ \A n \in Nat : Within(n) \in SUBSET Commits(Oid)
           /\ Within(0) = Commits(Peeled) /\ Within(1) = Commits(Peeled)
           /\ \A n \in Nat \ {0} : Within(n + 1) = Within(n) \cup Parents(Within(n))
<1>1. PICK f \in [Nat -> SUBSET Oid] :
        /\ \A n \in Nat : Within(n) = f[n]
        /\ f[0] = Commits(Peeled) /\ f[1] = Commits(Peeled)
        /\ \A n \in Nat \ {0} : f[n + 1] = f[n] \cup Parents(f[n])
  BY LayerRounds
<1>2. \A n \in Nat : f[n] \in SUBSET Commits(Oid)
  <2> DEFINE S == {n \in Nat : f[n] \in SUBSET Commits(Oid)}
  <2>1. 0 \in S
    <3>1. f[0] \in SUBSET Oid
      OBVIOUS
    <3>2. f[0] = Commits(Peeled)
      BY <1>1
    <3> QED
      BY <3>1, <3>2 DEF Commits
  <2>2. ASSUME NEW n \in S PROVE n + 1 \in S
    <3>1. CASE n = 0
      BY <1>1, <2>1, <3>1
    <3>2. CASE n # 0
      <4>1. f[n + 1] = f[n] \cup Parents(f[n]) /\ f[n + 1] \in SUBSET Oid
        BY <1>1, <3>2
      <4>2. Parents(f[n]) \subseteq Commits(Oid)
        BY <4>1 DEF Parents, Commits
      <4> QED
        BY <4>1, <4>2
    <3> QED
      BY <3>1, <3>2
  <2> HIDE DEF S
  <2>3. S \in SUBSET Nat
    BY DEF S
  <2>4. S = Nat
    BY <2>1, <2>2, <2>3, Induct
  <2> QED
    BY <2>4 DEF S
<1>3. \A n \in Nat \ {0} : n \in Nat /\ n + 1 \in Nat
  OBVIOUS
<1> QED
  BY <1>1, <1>2, <1>3

\* A deeper plan sees no less.
LEMMA WithinGrows ==
    ASSUME request.want \in Oid, NEW m \in Nat, NEW n \in Nat, n <= m
    PROVE  Within(n) \subseteq Within(m)
<1> DEFINE S == {k \in Nat : Within(n) \subseteq Within(n + k)}
<1>1. 0 \in S
  OBVIOUS
<1>2. ASSUME NEW k \in S PROVE k + 1 \in S
  <2>1. n + (k + 1) = (n + k) + 1 /\ n + k \in Nat
    OBVIOUS
  <2>2. Within(n + k) \subseteq Within((n + k) + 1)
    <3>1. CASE n + k = 0
      BY <3>1, WithinSteps
    <3>2. CASE n + k # 0
      <4>1. n + k \in Nat \ {0}
        BY <3>2
      <4>2. Within((n + k) + 1) = Within(n + k) \cup Parents(Within(n + k))
        BY <4>1, WithinSteps
      <4> QED
        BY <4>2
    <3> QED
      BY <3>1, <3>2
  <2> QED
    BY <2>1, <2>2
<1> HIDE DEF S
<1>3. S \in SUBSET Nat
  BY DEF S
<1>4. S = Nat
  BY <1>1, <1>2, <1>3, Induct
<1>5. m - n \in Nat /\ n + (m - n) = m
  OBVIOUS
<1> QED
  BY <1>4, <1>5 DEF S

\* A walk from the want that is cut where the plan says meets every commit within
\* the depth: the plan cuts none of them above its last round.
LEMMA WithinWalked ==
    ASSUME request.want \in Oid, NEW depth \in Nat \ {0}, NEW W \in SUBSET Oid,
           request.want \in W, \A o \in W : Reaches(PlanDepth(depth).shallow)[o] \subseteq W
    PROVE  Within(depth) \subseteq W
<1> DEFINE cut == PlanDepth(depth).shallow
           S   == {n \in Nat : Within(n) \subseteq W}
<1>1. Peeled \subseteq W
  <2>1. Tagged \in Follow
    BY GraphAssumption DEF Tagged, Follow
  <2>2. ASSUME NEW o \in W PROVE Tagged[o] \subseteq W
    <3>1. CASE Kind[o] = "tag"
      <4>1. Reaches(cut)[o] = Links[o]
        BY <3>1 DEF Reaches
      <4> QED
        BY <3>1, <4>1 DEF Tagged
    <3>2. CASE Kind[o] # "tag"
      BY <3>2 DEF Tagged
    <3> QED
      BY <3>1, <3>2
  <2> QED
    BY <2>1, <2>2, MetWithin DEF Peeled
<1>2. 0 \in S
  <2>1. Within(0) \subseteq W
    BY <1>1, WithinSteps DEF Commits
  <2> QED
    BY <2>1
<1>3. ASSUME NEW n \in S, n < depth PROVE n + 1 \in S
  <2>1. CASE n = 0
    <3>1. Within(1) \subseteq W
      BY <1>1, WithinSteps DEF Commits
    <3> QED
      BY <2>1, <3>1
  <2>2. CASE n # 0
    <3>1. n \in Nat \ {0} /\ depth # 1 /\ depth - 1 \in Nat /\ n <= depth - 1
      BY <1>3, <2>2
    <3>2. Within(n + 1) = Within(n) \cup Parents(Within(n))
      BY <3>1, WithinSteps
    <3>3. Within(n) \subseteq Within(depth - 1)
      BY <3>1, WithinGrows
    <3>4. ASSUME NEW p \in Parents(Within(n)) PROVE p \in W
      <4>1. PICK c \in Within(n) \ shallow : p \in Links[c]
        BY DEF Parents, Commits, Image
      <4>2. c \notin cut
        BY <3>1, <3>3, <4>1 DEF PlanDepth
      <4>3. c \in W
        BY <4>1
      <4>4. Reaches(cut)[c] = Links[c]
        BY <4>2, <4>3 DEF Reaches
      <4> QED
        BY <4>1, <4>3, <4>4
    <3>5. Within(n + 1) \subseteq W
      BY <3>2, <3>4
    <3> QED
      BY <3>1, <3>5
  <2> QED
    BY <2>1, <2>2
<1> HIDE DEF S
<1>4. S \in SUBSET Nat
  BY DEF S
<1>5. \A n \in Nat : n <= depth => n \in S
  BY <1>2, <1>3, <1>4, InductUpTo
<1> QED
  BY <1>5 DEF S

-----------------------------------------------------------------------------
\* From where a phase is past a step, to where the answer is sent.
Sending   == {"emit", "sent"}
Ordering  == {"order"} \cup Sending
Closing   == {"subtract"} \cup Ordering
Planned   == {"negotiate", "walk"} \cup Closing
Fetching  == {"opened", "negotiate", "walk", "subtract", "order", "emit"}
Phases    == {"posted", "asked", "rejected", "refused", "answered", "failed", "sent"} \cup Fetching

UploadTypes ==
    /\ tip \in Oid /\ stored \in SUBSET Oid /\ shallow \in SUBSET Oid
    /\ base \in [Oid -> Oid \cup {None}]
    /\ phase \in Phases
    /\ {known, common, owned, wanted, missing, available} \subseteq SUBSET Oid
    /\ phase \notin {"posted", "rejected"} => request \in Requests /\ request.grafts \subseteq request.holds

\* What the negotiation takes for the client's is the client's.
ClientHolds ==
    IF phase \in {"posted", "rejected"} THEN known = {} /\ common = {} /\ owned = {} /\ available = {}
    ELSE {known, common, owned, available} \subseteq SUBSET request.holds

PlanKept ==
    phase \in Planned => plan = IF request.depth = 0 THEN NoPlan ELSE PlanDepth(request.depth)

\* What is wanted leads nowhere but to what is wanted, or stopped the walk.
WantedClosed ==
    phase \in Closing =>
        /\ request.want \in wanted \cup StopAt
        /\ \A o \in wanted : Reaches(WantedGrafts)[o] \subseteq wanted \cup StopAt

NothingLeft ==
    /\ phase \in Ordering => missing = wanted \ owned
    /\ phase = "sent" => missing \subseteq Emitted

FetchInv == UploadTypes /\ ClientHolds /\ PlanKept /\ WantedClosed /\ NothingLeft

\* While no ref was moved under it, a fetch may count on what it found.
Steady == phase \in Fetching /\ whole /\ ~moved

Undisturbed ==
    /\ phase \in Fetching \ {"opened"} => request.want \in advertised
    /\ Steady /\ request.want \in advertised => request.want = tip /\ Live \subseteq stored
    /\ Steady /\ phase \in Closing => wanted \subseteq Live
    /\ Steady /\ phase = "emit" => \A o \in missing : planned[o] # None => base[o] = planned[o]

-----------------------------------------------------------------------------
\* The links that a walk follows are objects.
LEMMA ReachesTypes ==
    ASSUME NEW A
    PROVE  Reaches(A) \in Follow
BY LinkTypes

\* More grafts, less to follow.
LEMMA ReachesLess ==
    ASSUME NEW A, NEW B, A \subseteq B, NEW o \in Oid
    PROVE  Reaches(B)[o] \subseteq Reaches(A)[o]
BY GraphAssumption DEF Reaches

\* What a client is: it holds all that it reaches up to its grafts.
LEMMA RequestFacts ==
    ASSUME NEW r \in Requests
    PROVE  /\ r.want \in Oid /\ r.want \in Wants /\ r.depth \in Nat /\ r.thin \in BOOLEAN
           /\ r.holds \in SUBSET Oid /\ r.have \subseteq r.holds
           /\ \A o \in r.holds : Reaches(r.grafts)[o] \subseteq r.holds
<1>1. PICK T \in SUBSET ClientTips, G \in SUBSET Oid :
        LET held == Met(T, Reaches(G)) IN
        r \in [want : Wants, have : SUBSET Commits(held), grafts : {G}, holds : {held},
               depth : Depths, done : BOOLEAN, thin : BOOLEAN]
  <2>1. PICK T \in SUBSET ClientTips : r \in UNION {LET held == Met(T, Reaches(grafts)) IN
            [want : Wants, have : SUBSET Commits(held), grafts : {grafts}, holds : {held},
             depth : Depths, done : BOOLEAN, thin : BOOLEAN]
                : grafts \in SUBSET {c \in Commits(Met(T, Links)) : Commits(Links[c]) # {}}}
    BY DEF Requests
  <2>2. Met(T, Links) \in SUBSET Oid
    <3>1. T \in SUBSET Oid /\ Links \in Follow
      BY UploadAssumption, GraphAssumption DEF Follow
    <3> QED
      BY <3>1, MetLeast
  <2>3. PICK G \in SUBSET {c \in Commits(Met(T, Links)) : Commits(Links[c]) # {}} :
          r \in LET held == Met(T, Reaches(G)) IN
            [want : Wants, have : SUBSET Commits(held), grafts : {G}, holds : {held},
             depth : Depths, done : BOOLEAN, thin : BOOLEAN]
    BY <2>1
  <2>4. G \in SUBSET Oid
    BY <2>2 DEF Commits
  <2> QED
    BY <2>3, <2>4
<1> DEFINE held == Met(T, Reaches(G))
<1>2. T \in SUBSET Oid
  BY UploadAssumption
<1>3. held \in SUBSET Oid /\ Closed(held, Reaches(G))
  BY <1>2, ReachesTypes, MetLeast
<1> HIDE DEF held
<1>4. r \in [want : Wants, have : SUBSET Commits(held), grafts : {G}, holds : {held},
             depth : Depths, done : BOOLEAN, thin : BOOLEAN]
  BY <1>1 DEF held
<1>5. r.grafts = G /\ r.holds = held
  BY <1>4
<1>6. r.want \in Oid /\ r.want \in Wants /\ r.depth \in Nat /\ r.thin \in BOOLEAN
  BY <1>4, UploadAssumption
<1>7. r.have \subseteq r.holds
  BY <1>4, <1>5 DEF Commits
<1> QED
  BY <1>3, <1>5, <1>6, <1>7 DEF Closed

\* From what the client holds, a walk up to its grafts meets only what it holds.
LEMMA HeldMet ==
    ASSUME request \in Requests, NEW S \in SUBSET request.holds
    PROVE  MetStored(S, Boundaries) \subseteq request.holds
<1> DEFINE follow == [o \in Oid |-> IF o \in stored THEN Reaches(Boundaries)[o] ELSE {}]
<1>1. S \in SUBSET Oid /\ request.holds \in SUBSET Oid
  BY RequestFacts
<1>2. follow \in Follow
  BY ReachesTypes DEF Follow
<1>3. ASSUME NEW o \in request.holds PROVE follow[o] \subseteq request.holds
  <2>1. Reaches(Boundaries)[o] \subseteq Reaches(request.grafts)[o]
    BY <1>1, ReachesLess DEF Boundaries
  <2>2. Reaches(request.grafts)[o] \subseteq request.holds
    BY RequestFacts
  <2> QED
    BY <1>1, <2>1, <2>2
<1> HIDE DEF follow
<1>4. Met(S, follow) \subseteq request.holds
  BY <1>1, <1>2, <1>3, MetWithin
<1> QED
  BY <1>4 DEF MetStored, follow

\* What a walk from the want meets, and where it does not go on.
LEMMA WantedMet ==
    ASSUME request.want \in Oid
    PROVE  /\ Wanted \in SUBSET Oid
           /\ request.want \in Wanted \cup StopAt
           /\ Wanted \subseteq stored =>
                \A o \in Wanted : Reaches(WantedGrafts)[o] \subseteq Wanted \cup StopAt
           /\ \A S \in SUBSET Oid :
                request.want \in S /\ (\A o \in S : Reaches(WantedGrafts)[o] \subseteq S) => Wanted \subseteq S
<1> DEFINE follow == [o \in Oid |-> IF o \in stored THEN Reaches(WantedGrafts)[o] \ StopAt ELSE {}]
           roots  == {request.want} \ StopAt
<1>1. follow \in Follow /\ roots \in SUBSET Oid
  <2>1. \A o \in Oid : Reaches(WantedGrafts)[o] \subseteq Oid
    BY ReachesTypes DEF Follow
  <2> QED
    BY <2>1 DEF Follow
<1>2. \A o \in Oid : follow[o] = IF o \in stored THEN Reaches(WantedGrafts)[o] \ StopAt ELSE {}
  OBVIOUS
<1> HIDE DEF follow
<1>3. Wanted = Met(roots, follow)
  BY DEF Wanted, follow
<1> HIDE DEF roots
<1>4. Wanted \in SUBSET Oid /\ roots \subseteq Wanted /\ Closed(Wanted, follow)
  BY <1>1, <1>3, MetLeast
<1>5. request.want \in Wanted \cup StopAt
  BY <1>4 DEF roots
<1>6. ASSUME Wanted \subseteq stored, NEW o \in Wanted
      PROVE  Reaches(WantedGrafts)[o] \subseteq Wanted \cup StopAt
  <2>1. o \in Oid /\ o \in stored
    BY <1>4, <1>6
  <2>2. follow[o] = Reaches(WantedGrafts)[o] \ StopAt
    BY <1>2, <2>1
  <2>3. follow[o] \subseteq Wanted
    BY <1>4 DEF Closed
  <2> QED
    BY <2>2, <2>3
<1>7. ASSUME NEW S \in SUBSET Oid, request.want \in S,
             \A o \in S : Reaches(WantedGrafts)[o] \subseteq S
      PROVE  Wanted \subseteq S
  <2>1. roots \subseteq S
    BY <1>7 DEF roots
  <2>2. \A o \in S : follow[o] \subseteq S
    BY <1>2, <1>7
  <2> QED
    BY <1>1, <1>3, <2>1, <2>2, MetWithin
<1> QED
  BY <1>4, <1>5, <1>6, <1>7

-----------------------------------------------------------------------------
\* The live objects are those of the tip and the grafts.
LEMMA LiveStays == UNCHANGED <<tip, shallow>> => Live' = Live
BY DEF Live

\* They are the tip, and all that live objects lead to.
LEMMA LiveTypes ==
    ASSUME tip \in Oid
    PROVE  Live \in SUBSET Oid /\ tip \in Live /\ \A o \in Live : Reaches(shallow)[o] \subseteq Live
<1>1. Reaches(shallow) \in Follow /\ {tip} \in SUBSET Oid
  BY ReachesTypes
<1> QED
  BY <1>1, MetLeast DEF Live, Closed

\* UploadTypes, one action at a time.
LEMMA TypesInit == Init => UploadTypes
<1> SUFFICES ASSUME Init PROVE UploadTypes
  OBVIOUS
<1> USE DEF Init
<1>1. tip \in Oid /\ shallow \in SUBSET Oid
  BY UploadAssumption
<1>2. stored \in SUBSET Oid
  <2>1. Met({tip}, Reaches(shallow)) \in SUBSET Oid
    BY <1>1, ReachesTypes, MetLeast
  <2> QED
    BY <2>1
<1>3. base \in [Oid -> Oid \cup {None}]
  BY DEF Representations
<1> QED
  BY <1>1, <1>2, <1>3 DEF UploadTypes, Phases

\* What a push leaves behind has the types.
LEMMA PushTypes == UploadTypes /\ Push => tip' \in Oid /\ stored' \in SUBSET Oid /\ base' \in [Oid -> Oid \cup {None}]
<1> SUFFICES ASSUME UploadTypes, Push
             PROVE  tip' \in Oid /\ stored' \in SUBSET Oid /\ base' \in [Oid -> Oid \cup {None}]
  OBVIOUS
<1> USE DEF UploadTypes, Push
<1>1. tip' \in Oid
  BY UploadAssumption
<1>2. Met({tip'}, Reaches(shallow)) \in SUBSET Oid
  BY <1>1, ReachesTypes, MetLeast
<1>3. stored' \in SUBSET Oid
  BY <1>2
<1> DEFINE new == Met({tip'}, Reaches(shallow)) \ stored
<1>4. PICK b \in Representations(new) : base' = [o \in Oid |-> IF o \in new \cap Deltified THEN b[o] ELSE base[o]]
  OBVIOUS
<1>5. b \in [new \cap Deltified -> Oid \cup {None}]
  BY <1>4 DEF Representations
<1> HIDE DEF new, Push
<1>6. base' \in [Oid -> Oid \cup {None}]
  BY <1>4, <1>5
<1> QED
  BY <1>1, <1>3, <1>6

\* Every step keeps the types.
LEMMA TypesHold == UploadTypes /\ [Next]_vars => UploadTypes'
<1> SUFFICES ASSUME UploadTypes, [Next]_vars PROVE UploadTypes'
  OBVIOUS
<1> USE DEF UploadTypes, Phases, Fetching
<1>1. CASE Decode /\ UNCHANGED <<store, learned, pack, pushes, moved, whole>>
  BY <1>1 DEF Decode, store, learned
<1>2. CASE Open /\ UNCHANGED <<store, upload, request, pushes, moved>>
  BY <1>2 DEF Open, store
<1>3. CASE Fetch /\ UNCHANGED <<store, upload, request, pushes, moved, whole>>
  <2> USE <1>3 DEF store
  <2>1. CASE Refuse
    BY <2>1 DEF Refuse, learned
  <2>2. CASE Deepen
    BY <2>2 DEF Deepen
  <2>3. CASE DeepenFails
    BY <2>3 DEF DeepenFails, Fail, learned
  <2>4. CASE Negotiate
    BY <2>4 DEF Negotiate
  <2>5. CASE Walk
    <3>1. request.want \in Oid
      BY <2>5, RequestFacts DEF Walk
    <3>2. Wanted \in SUBSET Oid
      BY <3>1, WantedMet
    <3> QED
      BY <2>5, <3>2 DEF Walk
  <2>6. CASE WalkFails
    BY <2>6 DEF WalkFails, Fail, learned
  <2>7. CASE Subtract
    BY <2>7 DEF Subtract
  <2>8. CASE Order
    BY <2>8 DEF Order
  <2>9. CASE Emit
    BY <2>9 DEF Emit, Send, learned
  <2>10. CASE EmitFull
    BY <2>10 DEF EmitFull, Send, learned
  <2>11. CASE EmitFails
    BY <2>11 DEF EmitFails, Fail, learned
  <2>12. CASE Finish
    BY <2>12 DEF Finish, learned
  <2> QED
    BY <2>1, <2>2, <2>3, <2>4, <2>5, <2>6, <2>7, <2>8, <2>9, <2>10, <2>11, <2>12 DEF Fetch
<1>4. CASE Repository /\ UNCHANGED <<upload, request, phase, learned, pack, whole>>
  <2> USE <1>4 DEF learned
  <2>1. CASE Push
    <3>1. tip' \in Oid /\ stored' \in SUBSET Oid /\ base' \in [Oid -> Oid \cup {None}]
      BY <2>1, PushTypes
    <3>2. shallow' = shallow
      BY <2>1 DEF Push
    <3> QED
      BY <3>1, <3>2
  <2>2. CASE Reclaim
    BY <2>2 DEF Reclaim
  <2>3. CASE InstallDelta
    <3>1. tip' = tip /\ stored' = stored /\ shallow' = shallow
      BY <2>3 DEF InstallDelta
    <3>2. base' \in [Oid -> Oid \cup {None}]
      BY <2>3 DEF InstallDelta
    <3> QED
      BY <3>1, <3>2
  <2> QED
    BY <2>1, <2>2, <2>3 DEF Repository
<1>5. CASE UNCHANGED vars
  BY <1>5 DEF vars, store, learned
<1> QED
  BY <1>1, <1>2, <1>3, <1>4, <1>5 DEF Next

\* A fetch keeps its request, and the grafts of the repository stay.
LEMMA RequestStays ==
    UploadTypes /\ [Next]_vars /\ phase # "posted" => UNCHANGED <<request, shallow>>
BY DEF Next, Decode, Open, Repository, Push, Reclaim, InstallDelta, vars, store

\* Negotiation, Subtract and Order add what the client holds.
LEMMA HoldsHold == UploadTypes /\ ClientHolds /\ [Next]_vars => ClientHolds'
<1> SUFFICES ASSUME UploadTypes, ClientHolds, [Next]_vars PROVE ClientHolds'
  OBVIOUS
<1> USE DEF ClientHolds
<1>1. CASE Decode /\ UNCHANGED <<store, learned, pack, pushes, moved, whole>>
  BY <1>1 DEF Decode, learned
<1>2. CASE Open /\ UNCHANGED <<store, upload, request, pushes, moved>>
  BY <1>2 DEF Open
<1>3. CASE Fetch /\ UNCHANGED <<store, upload, request, pushes, moved, whole>>
  <2> USE <1>3
  <2>1. CASE Refuse
    BY <2>1 DEF Refuse, learned
  <2>2. CASE Deepen
    BY <2>2 DEF Deepen
  <2>3. CASE DeepenFails
    BY <2>3 DEF DeepenFails, Fail, learned
  <2>4. CASE Negotiate
    <3>1. request \in Requests
      BY <2>4 DEF Negotiate, UploadTypes
    <3>2. request.have \subseteq request.holds
      BY <3>1, RequestFacts
    <3>3. MetStored(request.have, Boundaries) \subseteq request.holds
      BY <3>1, <3>2, HeldMet
    <3> QED
      BY <2>4, <3>2, <3>3 DEF Negotiate
  <2>5. CASE Walk
    BY <2>5 DEF Walk
  <2>6. CASE WalkFails
    BY <2>6 DEF WalkFails, Fail, learned
  <2>7. CASE Subtract
    <3>1. request \in Requests /\ common \subseteq request.holds /\ known \subseteq request.holds
      BY <2>7 DEF Subtract, UploadTypes
    <3>2. MetStored(common, Boundaries) \subseteq request.holds
      BY <3>1, HeldMet
    <3>3. owned' \subseteq request.holds
      BY <2>7, <3>1, <3>2 DEF Subtract
    <3> QED
      BY <2>7, <3>3 DEF Subtract
  <2>8. CASE Order
    <3>1. request \in Requests /\ owned \subseteq request.holds
      BY <2>8 DEF Order, UploadTypes
    <3>2. MetStored(owned, Boundaries) \subseteq request.holds
      BY <3>1, HeldMet
    <3>3. available' \subseteq request.holds
      BY <2>8, <3>1, <3>2 DEF Order
    <3> QED
      BY <2>8, <3>3 DEF Order
  <2>9. CASE Emit
    BY <2>9 DEF Emit, Send, learned
  <2>10. CASE EmitFull
    BY <2>10 DEF EmitFull, Send, learned
  <2>11. CASE EmitFails
    BY <2>11 DEF EmitFails, Fail, learned
  <2>12. CASE Finish
    BY <2>12 DEF Finish, learned
  <2> QED
    BY <2>1, <2>2, <2>3, <2>4, <2>5, <2>6, <2>7, <2>8, <2>9, <2>10, <2>11, <2>12 DEF Fetch
<1>4. CASE Repository /\ UNCHANGED <<upload, request, phase, learned, pack, whole>>
  BY <1>4 DEF learned
<1>5. CASE UNCHANGED vars
  BY <1>5 DEF vars, learned
<1> QED
  BY <1>1, <1>2, <1>3, <1>4, <1>5 DEF Next

\* The plan that Deepen made stays the plan of the request.
LEMMA PlanHolds == UploadTypes /\ PlanKept /\ [Next]_vars => PlanKept'
<1> SUFFICES ASSUME UploadTypes, PlanKept, [Next]_vars PROVE PlanKept'
  OBVIOUS
<1>0. ASSUME phase # "posted"
      PROVE  request' = request /\ (request.depth # 0 => PlanDepth(request.depth)' = PlanDepth(request.depth))
  <2>1. request \in Requests \/ phase = "rejected"
    BY <1>0 DEF UploadTypes
  <2>2. UNCHANGED <<request, shallow>>
    BY <1>0, RequestStays
  <2>3. \A n : Within(n)' = Within(n)
    BY <2>2 DEF Within
  <2>4. PlanDepth(request.depth)' = PlanDepth(request.depth)
    BY <2>2, <2>3 DEF PlanDepth
  <2> QED
    BY <2>2, <2>4
<1> USE DEF PlanKept, Planned, Closing, Ordering, Sending
<1>1. CASE phase \in {"posted", "asked"}
  BY <1>1 DEF Next, Decode, Open, Fetch, Refuse, Deepen, DeepenFails, Negotiate, Walk, WalkFails, Subtract,
              Order, Emit, EmitFull, EmitFails, Finish, vars, Repository
<1>2. CASE phase = "opened" /\ Deepen /\ UNCHANGED <<request, shallow>>
  <2>1. request' = request /\ (request.depth # 0 => PlanDepth(request.depth)' = PlanDepth(request.depth))
    BY <1>0, <1>2
  <2>2. plan' = IF request.depth = 0 THEN NoPlan ELSE PlanDepth(request.depth)
    BY <1>2 DEF Deepen
  <2>3. NoPlan' = NoPlan
    BY DEF NoPlan
  <2> QED
    BY <2>1, <2>2, <2>3
<1>3. CASE phase # "posted" /\ plan' = plan /\ (phase' \in Planned => phase \in Planned)
  <2>1. request' = request /\ (request.depth # 0 => PlanDepth(request.depth)' = PlanDepth(request.depth))
    BY <1>0, <1>3
  <2>2. NoPlan' = NoPlan
    BY DEF NoPlan
  <2> QED
    BY <1>3, <2>1, <2>2
<1>4. \/ phase \in {"posted", "asked"}
      \/ phase = "opened" /\ Deepen /\ UNCHANGED <<request, shallow>>
      \/ phase # "posted" /\ plan' = plan /\ (phase' \in Planned => phase \in Planned)
  <2>1. CASE Fetch /\ UNCHANGED <<store, upload, request, pushes, moved, whole>>
    BY <2>1 DEF Fetch, Refuse, Deepen, DeepenFails, Negotiate, Walk, WalkFails, Subtract, Fail, learned, store,
                Order, Emit, EmitFull, EmitFails, Finish, Send
  <2> QED
    BY <2>1 DEF Next, Decode, Open, Repository, vars, learned
<1> QED
  BY <1>1, <1>2, <1>3, <1>4

\* What Walk found stays closed: nothing that it was made from changes.
LEMMA WantedHolds == UploadTypes /\ WantedClosed /\ [Next]_vars => WantedClosed'
<1> SUFFICES ASSUME UploadTypes, WantedClosed, [Next]_vars PROVE WantedClosed'
  OBVIOUS
<1> USE DEF Closing, Ordering, Sending
<1> DEFINE At(w, s, g) == request.want \in w \cup s /\ \A o \in w : Reaches(g)[o] \subseteq w \cup s
<1>1. WantedClosed = (phase \in Closing => At(wanted, StopAt, WantedGrafts))
  BY DEF WantedClosed
<1>2. CASE phase \in Closing /\ UNCHANGED <<wanted, plan, known, shallow>>
  <2>1. request' = request
    BY <1>2, RequestStays
  <2>2. StopAt' = StopAt /\ WantedGrafts' = WantedGrafts
    BY <1>2, <2>1 DEF StopAt, WantedGrafts
  <2>3. At(wanted, StopAt, WantedGrafts)
    BY <1>1, <1>2
  <2> QED
    BY <1>2, <2>1, <2>2, <2>3 DEF WantedClosed, Reaches
<1>3. CASE Walk /\ UNCHANGED <<request, shallow>>
  <2>1. request.want \in Oid
    BY <1>3, RequestFacts DEF Walk, UploadTypes
  <2>2. wanted' = Wanted /\ At(Wanted, StopAt, WantedGrafts)
    BY <1>3, <2>1, WantedMet DEF Walk
  <2>3. StopAt' = StopAt /\ WantedGrafts' = WantedGrafts
    BY <1>3 DEF StopAt, WantedGrafts, Walk
  <2> QED
    BY <1>3, <2>2, <2>3 DEF WantedClosed, Reaches
<1>4. \/ phase' \notin Closing
      \/ phase \in Closing /\ UNCHANGED <<wanted, plan, known, shallow>>
      \/ Walk /\ UNCHANGED <<request, shallow>>
  <2>1. CASE Fetch /\ UNCHANGED <<store, upload, request, pushes, moved, whole>>
    BY <2>1 DEF Fetch, Refuse, Deepen, DeepenFails, Negotiate, Walk, WalkFails, Subtract, Fail, learned, store,
                Order, Emit, EmitFull, EmitFails, Finish, Send
  <2>2. CASE Repository /\ UNCHANGED <<upload, request, phase, learned, pack, whole>>
    BY <2>2 DEF Repository, Push, Reclaim, InstallDelta, learned
  <2> QED
    BY <2>1, <2>2 DEF Next, Decode, Open, vars, learned, store
<1> QED
  BY <1>2, <1>3, <1>4 DEF WantedClosed

\* A pack is finished only when everything missing is in it: among what is left,
\* an entry that waits for none has its turn, and if all wait, all have.
LEMMA LeftHolds == NothingLeft /\ [Next]_vars => NothingLeft'
<1> SUFFICES ASSUME NothingLeft, [Next]_vars PROVE NothingLeft'
  OBVIOUS
<1> USE DEF NothingLeft, Ordering, Sending
<1>1. CASE Fetch /\ UNCHANGED <<store, upload, request, pushes, moved, whole>>
  <2>1. CASE Subtract
    BY <2>1 DEF Subtract
  <2>2. CASE Order
    BY <2>2 DEF Order
  <2>3. CASE Emit \/ EmitFull
    BY <2>3 DEF Emit, EmitFull, Send, learned
  <2>4. CASE Finish
    <3>1. missing \subseteq Emitted
      BY <2>4 DEF Finish, Turn
    <3>2. Emitted' = Emitted /\ UNCHANGED <<missing, wanted, owned>> /\ phase = "emit"
      BY <2>4 DEF Finish, Emitted, learned
    <3> QED
      BY <3>1, <3>2
  <2> QED
    BY <1>1, <2>1, <2>2, <2>3, <2>4 DEF Fetch, Refuse, Deepen, DeepenFails, Negotiate, Walk, WalkFails,
                                     EmitFails, Fail
<1>2. CASE Repository /\ UNCHANGED <<upload, request, phase, learned, pack, whole>>
  BY <1>2 DEF learned, Emitted
<1> QED
  BY <1>1, <1>2 DEF Next, Decode, Open, vars, learned, Emitted

\* FetchInv is inductive.
LEMMA FetchInvHolds == FetchInv /\ [Next]_vars => FetchInv'
BY TypesHold, HoldsHold, PlanHolds, WantedHolds, LeftHolds DEF FetchInv

\* When all that is wanted was sent or is held, the client is whole.
LEMMA SentIsWhole == FetchInv => FetchWhole
<1> SUFFICES ASSUME FetchInv, phase = "sent" PROVE Met({request.want}, Reaches(ClientGrafts)) \subseteq request.holds \cup Emitted
  BY DEF FetchWhole
<1> USE DEF FetchInv, Planned, Closing, Ordering, Sending
<1>1. request \in Requests /\ request.grafts \subseteq request.holds /\ wanted \in SUBSET Oid
  BY DEF UploadTypes
<1>2. /\ request.want \in Oid /\ request.depth \in Nat
      /\ request.holds \in SUBSET Oid
      /\ \A o \in request.holds : Reaches(request.grafts)[o] \subseteq request.holds
  BY <1>1, RequestFacts
<1>3. known \subseteq request.holds /\ owned \subseteq request.holds
  BY DEF ClientHolds
<1>4. wanted \subseteq request.holds \cup Emitted
  BY <1>3 DEF NothingLeft
<1> DEFINE S == request.holds \cup wanted
<1>5. StopAt \subseteq request.holds
  BY <1>3 DEF StopAt
<1>6. request.want \in S /\ \A o \in wanted : Reaches(WantedGrafts)[o] \subseteq S
  BY <1>5 DEF WantedClosed
<1>7. plan = IF request.depth = 0 THEN NoPlan ELSE PlanDepth(request.depth)
  BY DEF PlanKept
<1>8. ASSUME NEW o \in S PROVE Reaches(ClientGrafts)[o] \subseteq S
  <2>0. o \in Oid
    BY <1>1, <1>2
  <2>1. CASE request.depth = 0
    <3>1. WantedGrafts \subseteq ClientGrafts /\ request.grafts \subseteq ClientGrafts
      BY <1>2, <2>1 DEF WantedGrafts, ClientGrafts
    <3> QED
      BY <1>2, <1>6, <2>0, <3>1, ReachesLess
  <2>2. CASE request.depth # 0 /\ plan.unshallow = {}
    <3>1. WantedGrafts \subseteq ClientGrafts /\ request.grafts \subseteq ClientGrafts
      BY <1>2, <2>2 DEF WantedGrafts, ClientGrafts
    <3> QED
      BY <1>2, <1>6, <2>0, <3>1, ReachesLess
  <2>3. CASE request.depth # 0 /\ plan.unshallow # {}
    <3>1. StopAt = {} /\ WantedGrafts = plan.shallow /\ plan = PlanDepth(request.depth)
      BY <1>2, <1>7, <2>3 DEF StopAt, WantedGrafts
    <3>2. request.want \in wanted /\ \A p \in wanted : Reaches(plan.shallow)[p] \subseteq wanted
      BY <3>1 DEF WantedClosed
    <3>3. request.depth \in Nat \ {0}
      BY <1>2, <2>3
    <3>4. Within(request.depth) \subseteq wanted
      BY <1>1, <1>2, <3>1, <3>2, <3>3, WithinWalked
    <3>5. plan.unshallow = (request.grafts \cap Within(request.depth)) \ plan.shallow
      BY <3>1 DEF PlanDepth
    <3>6. ClientGrafts = (request.grafts \cup plan.shallow) \ plan.unshallow
      BY <1>2, <2>3 DEF ClientGrafts
    <3>7. CASE o \in wanted
      <4>1. plan.shallow \subseteq ClientGrafts
        BY <3>5, <3>6
      <4> QED
        BY <2>0, <3>2, <3>7, <4>1, ReachesLess
    <3>8. CASE o \in request.holds /\ o \notin wanted
      <4>1. o \notin plan.unshallow
        BY <3>4, <3>5, <3>8
      <4>2. o \in request.grafts => o \in ClientGrafts
        BY <3>6, <4>1
      <4>3. Reaches(ClientGrafts)[o] \subseteq Reaches(request.grafts)[o]
        BY <2>0, <4>2, GraphAssumption DEF Reaches
      <4> QED
        BY <1>2, <3>8, <4>3
    <3> QED
      BY <3>7, <3>8
  <2> QED
    BY <2>1, <2>2, <2>3
<1>9. Reaches(ClientGrafts) \in Follow /\ {request.want} \in SUBSET Oid /\ S \in SUBSET Oid
  BY <1>1, <1>2, ReachesTypes
<1>10. {request.want} \subseteq S
  BY <1>6
<1> HIDE DEF S
<1>11. Met({request.want}, Reaches(ClientGrafts)) \subseteq S
  BY <1>8, <1>9, <1>10, MetWithin
<1> QED
  BY <1>4, <1>11 DEF S

-----------------------------------------------------------------------------
\* What is within a depth is live where the want is the tip.
LEMMA WithinLive ==
    ASSUME tip \in Oid, request.want = tip, NEW depth \in Nat
    PROVE  Peeled \subseteq Live /\ Within(depth) \subseteq Live
<1> DEFINE S == {n \in Nat : Within(n) \subseteq Live}
<1>0. Live \in SUBSET Oid /\ tip \in Live /\ \A o \in Live : Reaches(shallow)[o] \subseteq Live
  BY LiveTypes
<1>1. Peeled \subseteq Live
  <2>1. Tagged \in Follow
    BY GraphAssumption DEF Tagged, Follow
  <2>2. ASSUME NEW o \in Live PROVE Tagged[o] \subseteq Live
    <3>1. o \in Oid /\ Reaches(shallow)[o] \subseteq Live
      BY <1>0
    <3> QED
      BY <3>1 DEF Tagged, Reaches
  <2> QED
    BY <1>0, <2>1, <2>2, MetWithin DEF Peeled
<1>2. Within(0) \subseteq Live /\ Within(1) \subseteq Live
  BY <1>1, WithinSteps DEF Commits
<1>3. ASSUME NEW n \in S PROVE n + 1 \in S
  <2>1. n \in Nat /\ n + 1 \in Nat /\ Within(n) \subseteq Live
    OBVIOUS
  <2>2. CASE n = 0
    BY <1>2, <2>2
  <2>3. CASE n # 0
    <3>1. Within(n + 1) = Within(n) \cup Parents(Within(n)) /\ Within(n) \subseteq Commits(Oid)
      BY <2>1, <2>3, WithinSteps
    <3>2. ASSUME NEW p \in Parents(Within(n)) PROVE p \in Live
      <4>1. PICK c \in Within(n) \ shallow : p \in Links[c]
        BY DEF Parents, Commits, Image
      <4>2. c \in Live /\ c \in Oid /\ c \notin shallow
        BY <1>0, <2>1, <4>1
      <4>3. Reaches(shallow)[c] = Links[c]
        BY <4>2 DEF Reaches
      <4> QED
        BY <1>0, <4>1, <4>2, <4>3
    <3>3. Within(n + 1) \subseteq Live
      BY <2>1, <3>1, <3>2
    <3> QED
      BY <2>1, <3>3
  <2> QED
    BY <2>2, <2>3
<1>4. 0 \in S
  BY <1>2
<1> HIDE DEF S
<1>5. S \in SUBSET Nat
  BY DEF S
<1>6. S = Nat
  BY <1>3, <1>4, <1>5, Induct
<1> QED
  BY <1>1, <1>6 DEF S

\* A walk from the tip meets live objects only, and the plan cuts it where the
\* depth ends: a commit that is met and not cut has its parents within the depth.
LEMMA WantedLive ==
    ASSUME tip \in Oid, request.want = tip, request.depth \in Nat,
           plan = IF request.depth = 0 THEN NoPlan ELSE PlanDepth(request.depth)
    PROVE  Wanted \subseteq Live
<1>0. Live \in SUBSET Oid /\ tip \in Live /\ \A o \in Live : Reaches(shallow)[o] \subseteq Live
  BY LiveTypes
<1>1. CASE request.depth = 0
  <2>1. WantedGrafts = shallow
    BY <1>1 DEF WantedGrafts
  <2> QED
    BY <1>0, <2>1, WantedMet
<1>2. CASE request.depth # 0
  <2> DEFINE d   == request.depth
             cut == PlanDepth(d).shallow
             S   == {o \in Live : /\ Kind[o] = "commit" => o \in Within(d)
                                  /\ Kind[o] = "tag" => o \in Peeled}
  <2>1. WantedGrafts = cut
    BY <1>2 DEF WantedGrafts
  <2>2. d \in Nat \ {0} /\ (d # 1 => d - 1 \in Nat \ {0} /\ (d - 1) + 1 = d)
    BY <1>2
  <2>3. Peeled \in SUBSET Oid /\ {request.want} \subseteq Peeled /\ Closed(Peeled, Tagged)
    <3>1. Tagged \in Follow
      BY GraphAssumption DEF Tagged, Follow
    <3> QED
      BY <3>1, MetLeast DEF Peeled
  <2>4. Commits(Peeled) \subseteq Within(d)
    <3>1. Within(0) = Commits(Peeled) /\ 0 <= d
      BY <2>2, WithinSteps
    <3> QED
      BY <2>2, <3>1, WithinGrows
  <2>5. request.want \in S
    BY <1>0, <2>3, <2>4 DEF Commits
  <2>6. ASSUME NEW o \in S, NEW l \in Reaches(cut)[o] PROVE l \in S
    <3>1. o \in Live /\ o \in Oid /\ l \in Links[o] /\ l \in Oid
      BY <1>0, GraphAssumption DEF Reaches
    <3>2. CASE Kind[o] = "tag"
      <4>1. o \in Peeled /\ Tagged[o] = Links[o]
        BY <3>1, <3>2 DEF Tagged
      <4>2. l \in Peeled
        BY <2>3, <3>1, <4>1 DEF Closed
      <4>3. Kind[l] = "commit" => l \in Within(d)
        BY <2>4, <4>2 DEF Commits
      <4>4. l \in Live
        BY <1>0, <2>2, <4>2, WithinLive
      <4> QED
        BY <4>2, <4>3, <4>4
    <3>3. CASE Kind[o] = "commit"
      <4>1. o \in Within(d) /\ Kind[l] \in {"commit", "tree"}
        BY <3>1, <3>3, LinkAssumption
      <4>2. CASE Kind[l] = "commit"
        <5>1. o \notin cut
          BY <3>1, <3>3, <4>2 DEF Reaches
        <5>2. o \notin shallow
          BY <4>1, <5>1 DEF PlanDepth
        <5>3. Commits(Links[o]) # {}
          BY <3>1, <4>2 DEF Commits
        <5>4. d # 1 /\ o \in Within(d - 1)
          BY <4>1, <5>1, <5>3 DEF PlanDepth
        <5>5. Within(d) = Within(d - 1) \cup Parents(Within(d - 1))
          BY <2>2, <5>4, WithinSteps
        <5>6. l \in Parents(Within(d - 1))
          BY <3>1, <4>2, <5>2, <5>4 DEF Parents, Commits, Image
        <5>7. l \in Within(d)
          BY <5>5, <5>6
        <5>8. l \in Live
          BY <2>2, <5>7, WithinLive
        <5> QED
          BY <4>2, <5>7, <5>8
      <4>3. CASE Kind[l] = "tree"
        <5>1. l \in Reaches(shallow)[o]
          BY <3>1, <4>3 DEF Reaches
        <5> QED
          BY <1>0, <3>1, <4>3, <5>1
      <4> QED
        BY <4>1, <4>2, <4>3
    <3>4. CASE Kind[o] = "tree"
      <4>1. Kind[l] \in {"tree", "blob"}
        BY <3>1, <3>4, LinkAssumption
      <4>2. l \in Reaches(shallow)[o]
        BY <3>1, <3>4 DEF Reaches
      <4> QED
        BY <1>0, <3>1, <4>1, <4>2
    <3>5. Kind[o] # "blob"
      BY <3>1, GraphAssumption
    <3> QED
      BY <3>1, <3>2, <3>3, <3>4, <3>5, GraphAssumption DEF ObjectKind
  <2>7. S \in SUBSET Oid /\ S \subseteq Live
    BY <1>0
  <2> HIDE DEF S
  <2>8. Wanted \subseteq S
    BY <1>0, <2>1, <2>5, <2>6, <2>7, WantedMet
  <2> QED
    BY <2>7, <2>8
<1> QED
  BY <1>1, <1>2

\* The invariants hold at first.
LEMMA UploadInitHolds == Init => FetchInv /\ Undisturbed /\ FailsOnlyWhenMoved
BY TypesInit DEF Init, FetchInv, ClientHolds, PlanKept, Planned, WantedClosed, Closing, NothingLeft, Ordering,
                 Sending, Undisturbed, Steady, Fetching, FailsOnlyWhenMoved

\* Undisturbed is inductive beside FetchInv, and rules every failure out.
LEMMA UndisturbedHolds ==
    FetchInv /\ Undisturbed /\ FailsOnlyWhenMoved /\ [Next]_vars => Undisturbed' /\ FailsOnlyWhenMoved'
<1> SUFFICES ASSUME FetchInv, Undisturbed, FailsOnlyWhenMoved, [Next]_vars
             PROVE  Undisturbed' /\ FailsOnlyWhenMoved'
  OBVIOUS
<1> USE DEF Steady, Fetching, Closing, Ordering, Sending, FailsOnlyWhenMoved
<1>0. UploadTypes /\ PlanKept /\ NothingLeft
  BY DEF FetchInv
<1>1. CASE Decode /\ UNCHANGED <<store, learned, pack, pushes, moved, whole>>
  BY <1>1 DEF Decode, Undisturbed
<1>2. CASE Open /\ UNCHANGED <<store, upload, request, pushes, moved>>
  <2>1. phase' = "opened" /\ advertised' = {tip} /\ UNCHANGED <<tip, stored, shallow, request, moved>>
    BY <1>2 DEF Open, store
  <2>2. Live' = Live
    BY <2>1, LiveStays
  <2>3. whole' /\ request.want \in advertised' => request.want = tip /\ Live \subseteq stored
    BY <1>2, <2>1 DEF Open, Live
  <2> QED
    BY <2>1, <2>2, <2>3 DEF Undisturbed
<1>3. CASE Fetch /\ UNCHANGED <<store, upload, request, pushes, moved, whole>>
  <2>0. UNCHANGED <<tip, stored, shallow, base, request, moved, whole>> /\ Live' = Live
    <3>1. UNCHANGED <<tip, stored, shallow, base, request, moved, whole>>
      BY <1>3 DEF store
    <3> QED
      BY <3>1, LiveStays
  <2>1. CASE Refuse
    BY <2>0, <2>1 DEF Refuse, Undisturbed
  <2>2. CASE Deepen
    BY <2>0, <2>2 DEF Deepen, Undisturbed
  <2>3. CASE DeepenFails
    <3>1. Steady => FALSE
      <4>1. SUFFICES ASSUME Steady PROVE FALSE
        OBVIOUS
      <4>2. request.want = tip /\ Live \subseteq stored /\ tip \in Oid
        BY <1>0, <2>3, <4>1 DEF DeepenFails, Undisturbed, UploadTypes
      <4>3. request.depth \in Nat
        BY <1>0, <2>3, RequestFacts DEF DeepenFails, UploadTypes
      <4>4. Within(request.depth) \subseteq Live
        BY <4>2, <4>3, WithinLive
      <4> QED
        BY <2>3, <4>2, <4>4 DEF DeepenFails
    <3> QED
      BY <2>0, <2>3, <3>1 DEF DeepenFails, Fail, Undisturbed
  <2>4. CASE Negotiate
    BY <2>0, <2>4 DEF Negotiate, Undisturbed
  <2>5. CASE Walk
    <3>1. Steady => Wanted \subseteq Live
      <4>1. SUFFICES ASSUME Steady PROVE Wanted \subseteq Live
        OBVIOUS
      <4>2. request.want = tip /\ tip \in Oid
        BY <1>0, <2>5, <4>1 DEF Walk, Undisturbed, UploadTypes
      <4>3. request.depth \in Nat
        BY <1>0, <2>5, RequestFacts DEF Walk, UploadTypes
      <4>4. plan = IF request.depth = 0 THEN NoPlan ELSE PlanDepth(request.depth)
        BY <1>0, <2>5 DEF PlanKept, Planned, Walk
      <4> QED
        BY <4>2, <4>3, <4>4, WantedLive
    <3> QED
      BY <2>0, <2>5, <3>1 DEF Walk, Undisturbed
  <2>6. CASE WalkFails
    <3>1. Steady => FALSE
      <4>1. SUFFICES ASSUME Steady PROVE FALSE
        OBVIOUS
      <4>2. request.want = tip /\ tip \in Oid /\ Live \subseteq stored
        BY <1>0, <2>6, <4>1 DEF WalkFails, Undisturbed, UploadTypes
      <4>3. request.depth \in Nat
        BY <1>0, <2>6, RequestFacts DEF WalkFails, UploadTypes
      <4>4. plan = IF request.depth = 0 THEN NoPlan ELSE PlanDepth(request.depth)
        BY <1>0, <2>6 DEF PlanKept, Planned, WalkFails
      <4>5. Wanted \subseteq Live
        BY <4>2, <4>3, <4>4, WantedLive
      <4> QED
        BY <2>6, <4>2, <4>5 DEF WalkFails
    <3> QED
      BY <2>0, <2>6, <3>1 DEF WalkFails, Fail, Undisturbed
  <2>7. CASE Subtract
    BY <2>0, <2>7 DEF Subtract, Undisturbed
  <2>8. CASE Order
    <3>1. phase = "order" /\ phase' = "emit" /\ UNCHANGED <<advertised, wanted, missing>>
      BY <2>8 DEF Order
    <3>2. planned' = [o \in Oid |-> IF o \in missing /\ o \notin stored THEN Absent
                                 ELSE IF o \in missing THEN base[o] ELSE None]
      BY <2>8 DEF Order
    <3>3. missing \subseteq wanted /\ wanted \subseteq Oid
      BY <1>0, <3>1 DEF NothingLeft, UploadTypes
    <3>4. Steady => wanted \subseteq Live /\ Live \subseteq stored /\ request.want = tip
      BY <3>1 DEF Undisturbed
    <3>5. Steady => \A o \in missing : planned'[o] = base[o]
      BY <3>2, <3>3, <3>4
    <3> QED
      BY <2>0, <3>1, <3>4, <3>5 DEF Undisturbed
  <2>9. CASE Emit
    BY <2>0, <2>9 DEF Emit, Send, learned, Undisturbed
  <2>10. CASE EmitFull
    BY <2>0, <2>10 DEF EmitFull, Send, learned, Undisturbed
  <2>11. CASE EmitFails
    <3>1. Steady => FALSE
      <4>1. SUFFICES ASSUME Steady PROVE FALSE
        OBVIOUS
      <4>2. missing \subseteq wanted /\ wanted \subseteq Live /\ Live \subseteq stored
        BY <1>0, <2>11, <4>1 DEF EmitFails, NothingLeft, Undisturbed
      <4>3. \A o \in missing : planned[o] # None => base[o] = planned[o]
        BY <2>11, <4>1 DEF EmitFails, Undisturbed
      <4> QED
        BY <2>11, <4>2, <4>3 DEF EmitFails
    <3> QED
      BY <2>0, <2>11, <3>1 DEF EmitFails, Fail, Undisturbed
  <2>12. CASE Finish
    BY <2>0, <2>12 DEF Finish, learned, Undisturbed
  <2> QED
    BY <1>3, <2>1, <2>2, <2>3, <2>4, <2>5, <2>6, <2>7, <2>8, <2>9, <2>10, <2>11, <2>12 DEF Fetch
<1>4. CASE Repository /\ UNCHANGED <<upload, request, phase, learned, pack, whole>>
  <2>0. /\ UNCHANGED <<request, phase, advertised, wanted, missing, planned, whole>>
        /\ phase \in {"asked"} \cup Fetching
    BY <1>0, <1>4 DEF learned, Repository, Over, UploadTypes, Phases
  <2>1. CASE Push
    BY <2>0, <2>1 DEF Push, Undisturbed
  <2>2. CASE Reclaim
    <3>1. UNCHANGED <<tip, shallow, moved>> /\ Live' = Live
      BY <2>2, LiveStays DEF Reclaim
    <3>2. PICK x \in stored \ Live : stored' = stored \ {x} /\ base' = [base EXCEPT ![x] = None]
      BY <2>2 DEF Reclaim
    <3>3. Live \subseteq stored => Live \subseteq stored'
      BY <3>2
    <3>4. \A o \in Oid : o \in Live => base'[o] = base[o]
      BY <1>0, <3>2 DEF UploadTypes
    <3>5. Steady /\ phase = "emit" => missing \subseteq Live /\ missing \subseteq Oid
      BY <1>0 DEF Undisturbed, NothingLeft, UploadTypes
    <3> QED
      BY <2>0, <3>1, <3>3, <3>4, <3>5 DEF Undisturbed
  <2>3. CASE InstallDelta
    <3>1. UNCHANGED <<tip, shallow, moved, stored>> /\ Live' = Live
      BY <2>3, LiveStays DEF InstallDelta
    <3>2. PICK x \in Live \cap stored, b \in Oid : base[x] = None /\ base' = [base EXCEPT ![x] = b]
      BY <1>0, <2>3 DEF InstallDelta, UploadTypes
    <3>3. \A o \in Oid : base[o] # None => base'[o] = base[o]
      BY <1>0, <3>2 DEF UploadTypes
    <3>4. phase = "emit" => missing \subseteq Oid
      BY <1>0 DEF UploadTypes
    <3> QED
      BY <2>0, <3>1, <3>3, <3>4 DEF Undisturbed
  <2> QED
    BY <1>4, <2>1, <2>2, <2>3 DEF Repository
<1>5. CASE UNCHANGED vars
  <2>1. UNCHANGED <<tip, stored, shallow, base, request, moved, whole, phase, advertised, wanted, missing, planned>>
    BY <1>5 DEF vars, store, learned
  <2>2. Live' = Live
    BY <2>1, LiveStays
  <2> QED
    BY <2>1, <2>2 DEF Undisturbed
<1> QED
  BY <1>1, <1>2, <1>3, <1>4, <1>5 DEF Next

-----------------------------------------------------------------------------
\* The inductive invariant of a fetch beside pushes, sweeps and repacks.
THEOREM UploadHolds == Spec => [](FetchInv /\ Undisturbed /\ FailsOnlyWhenMoved)
<1>1. Init => FetchInv /\ Undisturbed /\ FailsOnlyWhenMoved
  BY UploadInitHolds
<1>2. (FetchInv /\ Undisturbed /\ FailsOnlyWhenMoved) /\ [Next]_vars
         => (FetchInv /\ Undisturbed /\ FailsOnlyWhenMoved)'
  BY FetchInvHolds, UndisturbedHolds
<1> QED
  BY <1>1, <1>2, PTL DEF Spec

\* FetchWhole: after a fetch that was sent, the client holds all that its want
\* reaches up to its grafts.  upload-pack.ts, uploadPackResult.
THEOREM FetchedIsWhole == Spec => []FetchWhole
<1>1. FetchInv => FetchWhole
  BY SentIsWhole
<1> QED
  BY <1>1, UploadHolds, PTL

\* FailsOnlyWhenMoved: sweeps and repacks alone never break a fetch of what was
\* all there.  upload-pack.ts, planDepth, reachable and packBytes.
THEOREM OnlyMovesFail == Spec => []FailsOnlyWhenMoved
BY UploadHolds, PTL

\* DeltasResolve: every delta that is sent can be resolved where it stands.
\* upload-pack.ts, packBytes.
THEOREM SentDeltasResolve == Spec => DeltasResolve
<1> DEFINE Sent == \A e \in pack' \ pack : e.base # None =>
                      e.base \in Emitted \cup (IF request.thin THEN request.holds ELSE {})
<1>1. FetchInv /\ [Next]_vars => [Sent]_vars
  <2> SUFFICES ASSUME FetchInv, [Next]_vars PROVE Sent
    OBVIOUS
  <2>1. CASE pack' = pack
    BY <2>1
  <2>2. CASE Emit /\ UNCHANGED <<store, upload, request, pushes, moved, whole>>
    <3>1. PICK o : pack' = pack \cup {Entry(o, IF Usable(o) THEN planned[o] ELSE None)}
      BY <2>2 DEF Emit, Send
    <3>2. available \subseteq request.holds
      BY <2>2 DEF Emit, FetchInv, ClientHolds
    <3> QED
      BY <3>1, <3>2 DEF Entry, Usable
  <2>3. CASE EmitFull /\ UNCHANGED <<store, upload, request, pushes, moved, whole>>
    <3>1. PICK o : pack' = pack \cup {Entry(o, None)}
      BY <2>3 DEF EmitFull, Send
    <3> QED
      BY <3>1 DEF Entry
  <2> QED
    BY <2>1, <2>2, <2>3 DEF Next, Decode, Open, Fetch, Refuse, Deepen, DeepenFails, Negotiate, Walk, WalkFails,
                            Subtract, Order, EmitFails, Finish, Fail, vars
<1>2. Spec => []FetchInv
  BY UploadHolds, PTL
<1> QED
  BY <1>1, <1>2, PTL DEF Spec, DeltasResolve

-----------------------------------------------------------------------------
\* The decoder of a request's bytes.
Decoder == INSTANCE InflaterProofs WITH ByteBits <- 8

\* It is the one that Gzip pushes to.
LEMMA SameDecoder ==
    ASSUME NEW s, NEW chunk, NEW steps, NEW size, NEW first
    PROVE  /\ Http!Push(s, chunk) = Decoder!Push(s, chunk)
           /\ Http!NewInflater(steps, size, first) = Decoder!NewInflater(steps, size, first)
           /\ Http!StreamBytes(steps) = Decoder!StreamBytes(steps)
           /\ Http!Decoded(steps) = Decoder!Decoded(steps)
           /\ Http!DecoderSteps = Decoder!DecoderSteps
<1>1. Http!Push(s, chunk) = Decoder!Push(s, chunk)
  BY Zenon DEF Http!Push, Http!AppendInput, Http!StepOf, Http!CopyStored, Http!ReadStep, Http!Written,
     Http!WriteBytes, Http!WaitRewound, Http!BitOf, Http!StepBits, Http!EndBit, Http!Align,
     Http!Available, Http!Compact, Http!Finish, Decoder!Push, Decoder!AppendInput, Decoder!StepOf,
     Decoder!CopyStored, Decoder!ReadStep, Decoder!Written, Decoder!WriteBytes, Decoder!WaitRewound,
     Decoder!BitOf, Decoder!StepBits, Decoder!EndBit, Decoder!Align, Decoder!Available,
     Decoder!Compact, Decoder!Finish
<1>2. Http!StreamBytes(steps) = Decoder!StreamBytes(steps)
  BY Zenon DEF Http!StreamBytes, Http!StepBits, Http!EndBit, Http!Align,
     Decoder!StreamBytes, Decoder!StepBits, Decoder!EndBit, Decoder!Align
<1>3. Http!Decoded(steps) = Decoder!Decoded(steps)
  BY Zenon DEF Http!Decoded, Http!Written, Decoder!Decoded, Decoder!Written,
     Http!FlattenSeq, Decoder!FlattenSeq
<1>4. /\ Http!NewInflater(steps, size, first) = Decoder!NewInflater(steps, size, first)
      /\ Http!DecoderSteps = Decoder!DecoderSteps
  BY Zenon DEF Http!NewInflater, Decoder!NewInflater, Http!DecoderSteps, Decoder!DecoderSteps
<1> QED
  BY <1>1, <1>2, <1>3, <1>4

\* What one push of a body's bytes comes to.
ReadWhole(steps, size, first, from, n) ==
    LET t == Http!Push(Http!NewInflater(steps, size, first), [i \in 1 .. n |-> from + i]) IN
    /\ Http!EndsThere(t) <=> /\ from + 1 = first /\ n = Http!StreamBytes(steps)
                             /\ \A i \in 1 .. Len(steps) : ~steps[i].bad
                             /\ Len(Http!Decoded(steps)) = size
    /\ Http!EndsThere(t) => t.output = Http!Decoded(steps)

\* A push of a stream is that: WholePush, read for Gzip's decoder.
LEMMA WholeBody ==
    ASSUME NEW steps \in Seq(Http!DecoderSteps), steps # <<>>, NEW size \in Nat, NEW first \in Int,
           NEW from \in Int, NEW n \in Nat \ {0}
    PROVE  ReadWhole(steps, size, first, from, n)
<1>1. steps \in Seq(Decoder!DecoderSteps)
  BY SameDecoder
<1>2. Decoder!InOnePush(steps, size, first, from, n)
  BY <1>1, Decoder!WholePush
<1> DEFINE t == Decoder!Push(Decoder!NewInflater(steps, size, first), [i \in 1 .. n |-> from + i])
<1>3. /\ (t.turn = "done" /\ t.leftover = <<>>)
             <=> /\ from + 1 = first /\ n = Decoder!StreamBytes(steps)
                 /\ \A i \in 1 .. Len(steps) : ~steps[i].bad
                 /\ Len(Decoder!Decoded(steps)) = size
      /\ t.turn = "done" => t.output = Decoder!Decoded(steps)
  BY <1>2 DEF Decoder!InOnePush
<1>4. Http!Push(Http!NewInflater(steps, size, first), [i \in 1 .. n |-> from + i]) = t
  BY SameDecoder
<1> HIDE DEF t
<1> QED
  BY <1>3, <1>4, SameDecoder DEF ReadWhole, Http!EndsThere

\* A stream has a byte, and writes a number of them.
LEMMA StreamSizes ==
    ASSUME NEW steps \in Seq(Http!DecoderSteps), steps # <<>>
    PROVE  Http!StreamBytes(steps) \in Nat \ {0} /\ Len(Http!Decoded(steps)) \in Nat
<1>1. steps \in Seq(Decoder!DecoderSteps) /\ 1 \in 1 .. Len(steps) /\ Len(steps) \in 1 .. Len(steps)
  BY SameDecoder, EmptySeq
<1>2. steps[1].stored \in Nat
  BY <1>1, Decoder!MadeLength
<1>3. /\ Decoder!EndOf(steps, 1) \in Nat \ {0} /\ Decoder!StreamBytes(steps) \in Nat
      /\ Decoder!EndOf(steps, 1) + steps[1].stored <= Decoder!StreamBytes(steps)
  BY <1>1, Decoder!EndBytes
<1>4. Len(Decoder!Decoded(steps)) \in Nat
  BY <1>1, Decoder!MadeLength, Decoder!MadeGrows
<1> QED
  BY <1>2, <1>4, <1>3, SameDecoder

\* The first of some places.
LEMMA FirstPlace ==
    ASSUME NEW S \in SUBSET Nat, S # {}
    PROVE  Http!Min(S) \in S /\ \A x \in S : Http!Min(S) <= x
<1>1. \E x \in S : \A y \in S : x <= y
  BY Least
<1> QED
  BY <1>1 DEF Http!Min

\* A text that begins at from is n bytes long.
TextAt(b, from, n) ==
    from + n \in b.zeros /\ \A z \in b.zeros : from <= z => from + n <= z

\* The code finds its end, if it is before the limit.
LEMMA TextFound ==
    ASSUME NEW b, b.zeros \in SUBSET Nat, NEW from \in Nat, NEW limit \in Int
    PROVE  LET end == Http!TerminatedFieldEnd(b, from, limit) IN
           /\ \A n \in Nat : TextAt(b, from, n) /\ from + n < limit => end = from + n + 1
           /\ end # 0 => \E n \in Nat : TextAt(b, from, n) /\ from + n < limit /\ end = from + n + 1
<1> DEFINE ends == {z \in b.zeros : z >= from}
           end == Http!TerminatedFieldEnd(b, from, limit)
<1>1. end = IF ends = {} \/ Http!Min(ends) >= limit THEN 0 ELSE Http!Min(ends) + 1
  BY DEF Http!TerminatedFieldEnd, Http!Refused
<1>2. ends \in SUBSET Nat
  OBVIOUS
<1>3. ends # {} => Http!Min(ends) \in ends /\ \A x \in ends : Http!Min(ends) <= x
  BY <1>2, FirstPlace
<1> HIDE DEF end
<1>4. ASSUME NEW n \in Nat, TextAt(b, from, n), from + n < limit PROVE end = from + n + 1
  <2>1. from + n \in ends /\ \A z \in ends : from + n <= z
    BY <1>4 DEF TextAt
  <2>2. Http!Min(ends) \in ends /\ Http!Min(ends) <= from + n /\ from + n <= Http!Min(ends)
    BY <1>3, <2>1
  <2>3. Http!Min(ends) \in Nat
    BY <2>2
  <2>4. Http!Min(ends) = from + n
    BY <2>2, <2>3
  <2>5. ends # {}
    BY <2>1
  <2> HIDE DEF ends
  <2> QED
    BY <1>1, <1>4, <2>4, <2>5
<1>5. ASSUME end # 0
      PROVE  \E n \in Nat : TextAt(b, from, n) /\ from + n < limit /\ end = from + n + 1
  <2> DEFINE m == Http!Min(ends)
  <2>1. ends # {} /\ ~(m >= limit) /\ end = m + 1
    BY <1>1, <1>5
  <2>2. m \in ends /\ \A x \in ends : m <= x
    BY <1>3, <2>1
  <2>3. m \in b.zeros /\ m \in Nat /\ from <= m /\ \A z \in b.zeros : from <= z => m <= z
    BY <2>2
  <2> HIDE DEF m
  <2>4. m - from \in Nat /\ from + (m - from) = m /\ m < limit /\ end = from + (m - from) + 1
    BY <2>1, <2>3
  <2>5. TextAt(b, from, m - from)
    BY <2>3, <2>4 DEF TextAt
  <2> QED
    BY <2>4, <2>5
<1> QED
  BY <1>4, <1>5 DEF end

-----------------------------------------------------------------------------
\* Where the fields of a header end.
ExtraEnd(f) == 10 + (IF "extra" \in f.flags THEN 2 + f.extra ELSE 0)
NameEnd(f) == ExtraEnd(f) + (IF "name" \in f.flags THEN f.name + 1 ELSE 0)
CommentEnd(f) == NameEnd(f) + (IF "comment" \in f.flags THEN f.comment + 1 ELSE 0)
HeaderEnd(f) == CommentEnd(f) + (IF "hcrc" \in f.flags THEN 2 ELSE 0)

\* The texts of a body are a header's.
Texts(b, f) ==
    /\ "name" \in f.flags => TextAt(b, ExtraEnd(f), f.name)
    /\ "comment" \in f.flags => TextAt(b, NameEnd(f), f.comment)

\* The headers there are.
AnyHeader(b) == [flags : {b.flags}, extra : {b.extra}, name : Nat, comment : Nat]

\* Their ends are numbers, one after the other.
LEMMA HeaderEnds ==
    ASSUME NEW b \in Http!Bodies, NEW f \in AnyHeader(b)
    PROVE  /\ f.flags = b.flags /\ f.extra = b.extra /\ f.name \in Nat /\ f.comment \in Nat
           /\ b.extra \in Nat /\ b.zeros \in SUBSET Nat /\ b.length \in Nat
           /\ ExtraEnd(f) \in Nat /\ NameEnd(f) \in Nat /\ CommentEnd(f) \in Nat /\ HeaderEnd(f) \in Nat
           /\ 10 <= ExtraEnd(f) /\ ExtraEnd(f) <= NameEnd(f)
           /\ NameEnd(f) <= CommentEnd(f) /\ CommentEnd(f) <= HeaderEnd(f)
<1>1. f.flags = b.flags /\ f.extra = b.extra /\ f.name \in Nat /\ f.comment \in Nat
  BY DEF AnyHeader
<1>2. b.extra \in Nat /\ b.zeros \in SUBSET Nat /\ b.length \in Nat
  BY DEF Http!Bodies
<1>3. ExtraEnd(f) \in Nat /\ 10 <= ExtraEnd(f)
  BY <1>1, <1>2 DEF ExtraEnd
<1>4. NameEnd(f) \in Nat /\ ExtraEnd(f) <= NameEnd(f)
  BY <1>1, <1>3 DEF NameEnd
<1>5. CommentEnd(f) \in Nat /\ NameEnd(f) <= CommentEnd(f)
  BY <1>1, <1>4 DEF CommentEnd
<1>6. HeaderEnd(f) \in Nat /\ CommentEnd(f) <= HeaderEnd(f)
  BY <1>5 DEF HeaderEnd
<1> QED
  BY <1>1, <1>2, <1>3, <1>4, <1>5, <1>6


\* A text, if the header has one, is passed.
LEMMA TextPassed ==
    ASSUME NEW b, b.zeros \in SUBSET Nat, NEW flag, NEW from \in Nat \ {0}, NEW limit \in Int
    PROVE  LET end == Http!AfterText(b, flag, from, limit) IN
           /\ \A n \in Nat :
                 (flag \in b.flags => TextAt(b, from, n) /\ from + n < limit)
                    => end = from + (IF flag \in b.flags THEN n + 1 ELSE 0)
           /\ end # 0 => \E n \in Nat :
                 /\ flag \in b.flags => TextAt(b, from, n)
                 /\ end = from + (IF flag \in b.flags THEN n + 1 ELSE 0)
                 /\ n <= end
<1> DEFINE end == Http!AfterText(b, flag, from, limit)
<1>1. CASE flag \notin b.flags
  <2>1. end = from
    BY <1>1 DEF Http!AfterText, Http!Refused
  <2> HIDE DEF end
  <2>2. 0 \in Nat /\ end = from + 0 /\ 0 <= end
    BY <2>1
  <2> QED
    BY <1>1, <2>1, <2>2 DEF end
<1>2. CASE flag \in b.flags
  <2>1. end = Http!TerminatedFieldEnd(b, from, limit)
    BY <1>2 DEF Http!AfterText, Http!Refused
  <2> HIDE DEF end
  <2>2. \A n \in Nat : TextAt(b, from, n) /\ from + n < limit => end = from + n + 1
    BY <2>1, TextFound
  <2>3. end # 0 => \E n \in Nat : TextAt(b, from, n) /\ from + n < limit /\ end = from + n + 1
    BY <2>1, TextFound
  <2>4. \A n \in Nat : from + n + 1 = from + (n + 1) /\ n <= from + (n + 1)
    OBVIOUS
  <2> QED
    BY <1>2, <2>2, <2>3, <2>4 DEF end
<1> QED
  BY <1>1, <1>2

\* Where the code is after each field.
PastExtra(b, limit) == Http!AfterExtra(b, 10, limit)
PastName(b, limit) == Http!AfterText(b, "name", PastExtra(b, limit), limit)
PastComment(b, limit) == Http!AfterText(b, "comment", PastName(b, limit), limit)
PastAll(b, limit) ==
    IF PastComment(b, limit) # 0 /\ "hcrc" \in b.flags
    THEN PastComment(b, limit) + 2 ELSE PastComment(b, limit)

\* The compressed stream starts after the last field of the header.
LEMMA StartIs ==
    ASSUME NEW b, NEW limit
    PROVE  Http!CompressedStart(b, limit) =
               IF \/ b.length < 18 \/ ~b.magic \/ ~b.deflate
                  \/ "reserved" \in b.flags \/ PastAll(b, limit) >= limit
               THEN 0 ELSE PastAll(b, limit)
<1>1. 10 + 8 = 18
  OBVIOUS
<1> QED
  BY <1>1, Zenon DEF Http!CompressedStart, PastAll, PastComment, PastName, PastExtra, Http!Refused,
     Http!FixedBytes, Http!TrailerBytes

\* A header that is there, before the stream, is passed.
LEMMA HeaderPassed ==
    ASSUME NEW b \in Http!Bodies, NEW f \in AnyHeader(b), Texts(b, f),
           HeaderEnd(f) < b.length - 8, b.magic, b.deflate, "reserved" \notin b.flags
    PROVE  Http!CompressedStart(b, b.length - 8) = HeaderEnd(f)
<1> DEFINE limit == b.length - 8
<1>1. /\ f.flags = b.flags /\ f.extra = b.extra /\ f.name \in Nat /\ f.comment \in Nat
      /\ b.extra \in Nat /\ b.zeros \in SUBSET Nat /\ b.length \in Nat
      /\ ExtraEnd(f) \in Nat /\ NameEnd(f) \in Nat /\ CommentEnd(f) \in Nat /\ HeaderEnd(f) \in Nat
      /\ 10 <= ExtraEnd(f) /\ ExtraEnd(f) <= NameEnd(f)
      /\ NameEnd(f) <= CommentEnd(f) /\ CommentEnd(f) <= HeaderEnd(f)
  BY HeaderEnds
<1>2. limit \in Int /\ HeaderEnd(f) < limit /\ ~(b.length < 18)
  BY <1>1
<1> HIDE DEF limit
<1>3. PastExtra(b, limit) = ExtraEnd(f)
  <2>1. CASE "extra" \in b.flags
    <3>1. ExtraEnd(f) = 10 + 2 + b.extra
      BY <1>1, <2>1 DEF ExtraEnd
    <3>2. ~(10 + 2 > limit)
      BY <1>1, <1>2, <3>1
    <3> QED
      BY <2>1, <3>1, <3>2 DEF PastExtra, Http!AfterExtra
  <2>2. CASE "extra" \notin b.flags
    BY <1>1, <2>2 DEF PastExtra, Http!AfterExtra, ExtraEnd
  <2> QED
    BY <2>1, <2>2
<1>4. PastName(b, limit) = NameEnd(f)
  <2>1. "name" \in b.flags => TextAt(b, ExtraEnd(f), f.name) /\ ExtraEnd(f) + f.name < limit
    <3>1. "name" \in b.flags => NameEnd(f) = ExtraEnd(f) + (f.name + 1)
      BY <1>1 DEF NameEnd
    <3> QED
      BY <1>1, <1>2, <3>1 DEF Texts
  <2>2. ExtraEnd(f) \in Nat \ {0}
    BY <1>1
  <2>3. PastName(b, limit) = ExtraEnd(f) + (IF "name" \in b.flags THEN f.name + 1 ELSE 0)
    <3>1. b.zeros \in SUBSET Nat /\ limit \in Int /\ f.name \in Nat
      BY <1>1, <1>2
    <3>2. Http!AfterText(b, "name", ExtraEnd(f), limit)
              = ExtraEnd(f) + (IF "name" \in b.flags THEN f.name + 1 ELSE 0)
      BY <2>1, <2>2, <3>1, TextPassed
    <3> QED
      BY <1>3, <3>2 DEF PastName
  <2> QED
    BY <1>1, <2>3 DEF NameEnd
<1>5. PastComment(b, limit) = CommentEnd(f)
  <2>1. "comment" \in b.flags => TextAt(b, NameEnd(f), f.comment) /\ NameEnd(f) + f.comment < limit
    <3>1. "comment" \in b.flags => CommentEnd(f) = NameEnd(f) + (f.comment + 1)
      BY <1>1 DEF CommentEnd
    <3> QED
      BY <1>1, <1>2, <3>1 DEF Texts
  <2>2. NameEnd(f) \in Nat \ {0}
    BY <1>1
  <2>3. PastComment(b, limit) = NameEnd(f) + (IF "comment" \in b.flags THEN f.comment + 1 ELSE 0)
    <3>1. b.zeros \in SUBSET Nat /\ limit \in Int /\ f.comment \in Nat
      BY <1>1, <1>2
    <3>2. Http!AfterText(b, "comment", NameEnd(f), limit)
              = NameEnd(f) + (IF "comment" \in b.flags THEN f.comment + 1 ELSE 0)
      BY <2>1, <2>2, <3>1, TextPassed
    <3> QED
      BY <1>4, <3>2 DEF PastComment
  <2> QED
    BY <1>1, <2>3 DEF CommentEnd
<1>6. PastAll(b, limit) = HeaderEnd(f)
  BY <1>1, <1>5 DEF PastAll, HeaderEnd
<1>7. ~(PastAll(b, limit) >= limit)
  BY <1>1, <1>2, <1>6
<1>8. Http!CompressedStart(b, limit) = PastAll(b, limit)
  BY <1>2, <1>7, StartIs
<1> QED
  BY <1>6, <1>8 DEF limit

\* Where the code says the stream begins a header ends.
LEMMA HeaderFound ==
    ASSUME NEW b \in Http!Bodies, Http!CompressedStart(b, b.length - 8) # 0
    PROVE  /\ b.magic /\ b.deflate /\ "reserved" \notin b.flags
           /\ \E f \in AnyHeader(b) :
                 /\ Texts(b, f) /\ HeaderEnd(f) = Http!CompressedStart(b, b.length - 8)
                 /\ HeaderEnd(f) < b.length - 8
                 /\ f.name <= HeaderEnd(f) /\ f.comment <= HeaderEnd(f)
<1> DEFINE limit == b.length - 8
<1>1. b.extra \in Nat /\ b.zeros \in SUBSET Nat /\ b.length \in Nat
  BY DEF Http!Bodies
<1>2. limit \in Int
  BY <1>1
<1>3. /\ b.magic /\ b.deflate /\ "reserved" \notin b.flags /\ ~(PastAll(b, limit) >= limit)
      /\ Http!CompressedStart(b, limit) = PastAll(b, limit)
  <2> HIDE DEF limit
  <2>1. Http!CompressedStart(b, limit) # 0
    BY DEF limit
  <2> QED
    BY <2>1, StartIs
<1> HIDE DEF limit
<1> DEFINE e == PastExtra(b, limit)
           m == PastName(b, limit)
           c == PastComment(b, limit)
<1>4. c # 0
  BY <1>3 DEF PastAll, limit
<1>5. m # 0
  BY <1>4 DEF PastComment, Http!AfterText, Http!Refused
<1>6. e # 0
  BY <1>5 DEF PastName, Http!AfterText, Http!Refused
<1>7. e = 10 + (IF "extra" \in b.flags THEN 2 + b.extra ELSE 0)
  BY <1>1, <1>6 DEF PastExtra, Http!AfterExtra, Http!Refused
<1>8. e \in Nat \ {0}
  BY <1>1, <1>7
<1> HIDE DEF e
<1>9. PICK name \in Nat : /\ "name" \in b.flags => TextAt(b, e, name)
                          /\ m = e + (IF "name" \in b.flags THEN name + 1 ELSE 0) /\ name <= m
  BY <1>1, <1>2, <1>5, <1>8, TextPassed DEF PastName, e
<1>10. m \in Nat \ {0}
  BY <1>8, <1>9
<1> HIDE DEF m
<1>11. PICK comment \in Nat :
          /\ "comment" \in b.flags => TextAt(b, m, comment)
          /\ c = m + (IF "comment" \in b.flags THEN comment + 1 ELSE 0) /\ comment <= c
  BY <1>1, <1>2, <1>4, <1>10, TextPassed DEF PastComment, m
<1>12. c \in Nat /\ m <= c
  BY <1>10, <1>11
<1> HIDE DEF c
<1> DEFINE f == [flags |-> b.flags, extra |-> b.extra, name |-> name, comment |-> comment]
<1>13. f \in AnyHeader(b)
  BY DEF AnyHeader
<1>14. f.flags = b.flags /\ f.extra = b.extra /\ f.name = name /\ f.comment = comment
  OBVIOUS
<1> HIDE DEF f
<1>15. ExtraEnd(f) = e
  BY <1>7, <1>14 DEF ExtraEnd
<1>16. NameEnd(f) = m
  BY <1>9, <1>14, <1>15 DEF NameEnd
<1>17. CommentEnd(f) = c
  BY <1>11, <1>14, <1>16 DEF CommentEnd
<1>18. HeaderEnd(f) = PastAll(b, limit)
  BY <1>4, <1>12, <1>14, <1>17 DEF HeaderEnd, PastAll, c
<1>19. Texts(b, f)
  BY <1>9, <1>11, <1>14, <1>15, <1>16 DEF Texts
<1>20. /\ HeaderEnd(f) \in Nat /\ c <= HeaderEnd(f)
  BY <1>13, <1>17, HeaderEnds
<1>21. /\ HeaderEnd(f) < limit /\ f.name <= HeaderEnd(f) /\ f.comment <= HeaderEnd(f)
  BY <1>2, <1>3, <1>9, <1>10, <1>11, <1>12, <1>14, <1>18, <1>20
<1> QED
  BY <1>3, <1>13, <1>18, <1>19, <1>21 DEF limit


\* The zero bytes of what a writer sends.
ZerosOf(b, f, length) ==
    LET texts == ExtraEnd(f) .. CommentEnd(f) - 1 IN
    {z \in texts : (z = NameEnd(f) - 1 /\ "name" \in f.flags) \/ z = CommentEnd(f) - 1}
        \cup ((b.zeros \cap 0 .. length - 1) \ texts)

\* They are those of the header's texts.
LEMMA ZerosAre ==
    ASSUME NEW b \in Http!Bodies, NEW f \in AnyHeader(b)
    PROVE  b.zeros = ZerosOf(b, f, b.length) <=> Texts(b, f)
<1> DEFINE E == ExtraEnd(f)
           N == NameEnd(f)
           C == CommentEnd(f)
           Ends(z) == (z = N - 1 /\ "name" \in f.flags) \/ z = C - 1
<1>1. /\ f.flags = b.flags /\ f.name \in Nat /\ f.comment \in Nat
      /\ b.zeros \in SUBSET Nat /\ b.length \in Nat
      /\ E \in Nat /\ N \in Nat /\ C \in Nat /\ E <= N /\ N <= C
  BY HeaderEnds
<1>2. \A z \in b.zeros : z \in 0 .. b.length - 1
  <2>1. \A z \in b.zeros : z \in Nat /\ z < b.length
    BY DEF Http!Bodies
  <2> QED
    BY <1>1, <2>1
<1>3. N = E + (IF "name" \in f.flags THEN f.name + 1 ELSE 0)
  BY DEF NameEnd
<1>4. C = N + (IF "comment" \in f.flags THEN f.comment + 1 ELSE 0)
  BY DEF CommentEnd
<1>5. /\ "name" \in f.flags => (TextAt(b, E, f.name)
             <=> E + f.name \in b.zeros /\ \A z \in b.zeros : E <= z => E + f.name <= z)
      /\ "comment" \in f.flags => (TextAt(b, N, f.comment)
             <=> N + f.comment \in b.zeros /\ \A z \in b.zeros : N <= z => N + f.comment <= z)
  BY DEF TextAt
<1>6. b.zeros = ZerosOf(b, f, b.length) <=> \A z \in E .. C - 1 : z \in b.zeros <=> Ends(z)
  BY <1>2 DEF ZerosOf
<1>7. Texts(b, f) <=> /\ "name" \in f.flags => TextAt(b, E, f.name)
                      /\ "comment" \in f.flags => TextAt(b, N, f.comment)
  BY DEF Texts
<1> HIDE DEF E, N, C
<1> DEFINE name == f.name
           comment == f.comment
<1> HIDE DEF name, comment
<1>8. CASE "name" \notin f.flags /\ "comment" \notin f.flags
  <2>1. E .. C - 1 = {}
    BY <1>1, <1>3, <1>4, <1>8
  <2> QED
    BY <1>6, <1>7, <1>8, <2>1
<1>9. CASE "name" \in f.flags /\ "comment" \notin f.flags
  <2>1. N = E + name + 1 /\ C = N /\ name \in Nat
    BY <1>1, <1>3, <1>4, <1>9 DEF name
  <2>2. (\A z \in E .. C - 1 : z \in b.zeros <=> Ends(z))
           <=> E + name \in b.zeros /\ \A z \in b.zeros : E <= z => E + name <= z
    BY <1>1, <1>9, <2>1
  <2> QED
    BY <1>5, <1>6, <1>7, <1>9, <2>2 DEF name
<1>10. CASE "name" \notin f.flags /\ "comment" \in f.flags
  <2>1. N = E /\ C = N + comment + 1 /\ comment \in Nat
    BY <1>1, <1>3, <1>4, <1>10 DEF comment
  <2>2. (\A z \in E .. C - 1 : z \in b.zeros <=> Ends(z))
           <=> N + comment \in b.zeros /\ \A z \in b.zeros : N <= z => N + comment <= z
    BY <1>1, <1>10, <2>1
  <2> QED
    BY <1>5, <1>6, <1>7, <1>10, <2>2 DEF comment
<1>11. CASE "name" \in f.flags /\ "comment" \in f.flags
  <2>1. N = E + name + 1 /\ C = N + comment + 1 /\ name \in Nat /\ comment \in Nat
    BY <1>1, <1>3, <1>4, <1>11 DEF name, comment
  <2>2. (\A z \in E .. C - 1 : z \in b.zeros <=> Ends(z))
           <=> /\ E + name \in b.zeros /\ \A z \in b.zeros : E <= z => E + name <= z
               /\ N + comment \in b.zeros /\ \A z \in b.zeros : N <= z => N + comment <= z
    BY <1>1, <1>11, <2>1
  <2> QED
    BY <1>5, <1>6, <1>7, <1>11, <2>2 DEF name, comment
<1> QED
  BY <1>8, <1>9, <1>10, <1>11

\* What a writer sends, said of each part of the body.
LEMMA ZippedIs ==
    ASSUME NEW b \in Http!Bodies, NEW f \in AnyHeader(b)
    PROVE  b = Http!Zipped(f, b.zeros, b.steps)
              <=> /\ b.magic /\ b.deflate /\ b.sums /\ Texts(b, f) /\ b.start = HeaderEnd(f)
                  /\ b.length = HeaderEnd(f) + Http!StreamBytes(b.steps) + 8
                  /\ b.size = Len(Http!Decoded(b.steps)) % SizeModulus
<1> DEFINE L == HeaderEnd(f) + Http!StreamBytes(b.steps) + 8
           size == Len(Http!Decoded(b.steps)) % SizeModulus
           record == [magic |-> TRUE, deflate |-> TRUE, flags |-> f.flags, extra |-> f.extra,
                      zeros |-> ZerosOf(b, f, L), length |-> L, start |-> HeaderEnd(f),
                      steps |-> b.steps, size |-> size, sums |-> TRUE]
<1>1. Http!Zipped(f, b.zeros, b.steps) = record
  BY Zenon DEF Http!Zipped, Http!FixedBytes, Http!TrailerBytes, ZerosOf, HeaderEnd, CommentEnd,
     NameEnd, ExtraEnd
<1>2. f.flags = b.flags /\ f.extra = b.extra
  BY HeaderEnds
<1>3. b = [magic |-> b.magic, deflate |-> b.deflate, flags |-> b.flags, extra |-> b.extra,
           zeros |-> b.zeros, length |-> b.length, start |-> b.start, steps |-> b.steps,
           size |-> b.size, sums |-> b.sums]
      /\ b.magic \in BOOLEAN /\ b.deflate \in BOOLEAN /\ b.sums \in BOOLEAN
  BY DEF Http!Bodies
<1>4. b.zeros = ZerosOf(b, f, b.length) <=> Texts(b, f)
  BY ZerosAre
<1> HIDE DEF L, size
<1>5. b = record <=> /\ b.magic = TRUE /\ b.deflate = TRUE /\ b.flags = f.flags /\ b.extra = f.extra
                     /\ b.zeros = ZerosOf(b, f, L) /\ b.length = L /\ b.start = HeaderEnd(f)
                     /\ b.size = size /\ b.sums = TRUE
  BY <1>3
<1> HIDE DEF record
<1> QED
  BY <1>1, <1>2, <1>3, <1>4, <1>5 DEF L, size


\* Any body: it is accepted exactly when a writer of gzip sends it and it is not
\* too long, and what it comes to is what was written.
LEMMA BodyRead ==
    ASSUME NEW b \in Http!Bodies
    PROVE  LET content == Http!Decoded(b.steps)
               result  == Http!Gunzip(b) IN
           /\ result.accepted
                 <=> Http!Intact(b) /\ b.length <= MaxRequest /\ Len(content) <= MaxRequest
           /\ result.accepted => result.output = content
<1> DEFINE content == Http!Decoded(b.steps)
           limit == b.length - 8
           start == Http!CompressedStart(b, limit)
           t == Http!Push(Http!NewInflater(b.steps, b.size, b.start + 1),
                          [i \in 1 .. limit - start |-> start + i])
           result == Http!Gunzip(b)
           sound == \A i \in 1 .. Len(b.steps) : ~b.steps[i].bad
<1>1. /\ b.steps \in Seq(Http!DecoderSteps) /\ b.steps # <<>> /\ b.size \in Nat /\ b.start \in Nat
      /\ b.length \in Nat /\ b.start + 1 \in Int /\ limit \in Int
      /\ b.flags \in SUBSET {"extra", "name", "comment", "hcrc", "reserved"}
  BY DEF Http!Bodies, Http!OptionalFields
<1>2. Http!StreamBytes(b.steps) \in Nat \ {0} /\ Len(content) \in Nat
  BY <1>1, StreamSizes
<1>3. MaxRequest \in Nat /\ SizeModulus \in Nat /\ MaxRequest < SizeModulus
  BY BodyAssumption
<1>4. Len(content) <= MaxRequest => Len(content) % SizeModulus = Len(content)
  <2> DEFINE x == Len(content)
  <2> HIDE DEF x
  <2>1. ASSUME x \in Nat, x <= MaxRequest PROVE x % SizeModulus = x
    BY <1>3, <2>1
  <2> QED
    BY <1>2, <2>1 DEF x
<1>5. /\ result.accepted <=> /\ b.length <= MaxRequest /\ start # 0 /\ b.size <= MaxRequest
                             /\ Http!EndsThere(t) /\ b.sums
      /\ result.output = t.output
  BY DEF Http!Gunzip, Http!Refused, Http!TrailerBytes
<1>6. Http!Intact(b) <=> /\ b.flags \subseteq {"extra", "name", "comment", "hcrc"} /\ sound
                         /\ \E f \in Http!Headers(b) : b = Http!Zipped(f, b.zeros, b.steps)
  <2>1. (\A step \in Http!Range(b.steps) : ~step.bad) <=> sound
    BY <1>1 DEF Http!Range
  <2> QED
    BY <2>1 DEF Http!Intact, Http!OptionalFields
<1>7. Http!Headers(b) \subseteq AnyHeader(b)
  BY <1>1 DEF Http!Headers, AnyHeader
<1> HIDE DEF result
<1>8. ASSUME NEW f \in AnyHeader(b), Texts(b, f), HeaderEnd(f) = start, HeaderEnd(f) < limit
      PROVE  /\ Http!EndsThere(t) <=> /\ start = b.start /\ sound /\ Len(content) = b.size
                                      /\ b.length = HeaderEnd(f) + Http!StreamBytes(b.steps) + 8
             /\ Http!EndsThere(t) => t.output = content
  <2>1. start \in Nat
    BY <1>8, HeaderEnds
  <2>2. limit - start \in Nat \ {0} /\ start \in Int
    BY <1>1, <1>8, <2>1
  <2> HIDE DEF limit, start
  <2>3. /\ Http!EndsThere(t) <=> /\ start + 1 = b.start + 1 /\ limit - start = Http!StreamBytes(b.steps)
                                 /\ sound /\ Len(content) = b.size
        /\ Http!EndsThere(t) => t.output = content
    <3>1. ReadWhole(b.steps, b.size, b.start + 1, start, limit - start)
      BY <1>1, <2>2, WholeBody
    <3> QED
      BY <3>1 DEF ReadWhole
  <2>4. start + 1 = b.start + 1 <=> start = b.start
    BY <1>1, <2>1
  <2>5. limit - start = Http!StreamBytes(b.steps) <=> b.length = start + Http!StreamBytes(b.steps) + 8
    BY <1>1, <1>2, <2>1 DEF limit
  <2> HIDE DEF t
  <2> QED
    BY <1>8, <2>3, <2>4, <2>5
<1> HIDE DEF t, content, sound
<1>9. ASSUME result.accepted
      PROVE  /\ Http!Intact(b) /\ b.length <= MaxRequest /\ Len(content) <= MaxRequest
             /\ result.output = content
  <2>1. start # 0 /\ b.length <= MaxRequest /\ b.size <= MaxRequest /\ Http!EndsThere(t) /\ b.sums
    BY <1>5, <1>9
  <2>2. /\ b.magic /\ b.deflate /\ "reserved" \notin b.flags
        /\ \E f \in AnyHeader(b) :
              /\ Texts(b, f) /\ HeaderEnd(f) = start /\ HeaderEnd(f) < limit
              /\ f.name <= HeaderEnd(f) /\ f.comment <= HeaderEnd(f)
    BY <2>1, HeaderFound
  <2>3. PICK f \in AnyHeader(b) : /\ Texts(b, f) /\ HeaderEnd(f) = start /\ HeaderEnd(f) < limit
                                  /\ f.name <= HeaderEnd(f) /\ f.comment <= HeaderEnd(f)
    BY <2>2
  <2>4. /\ start = b.start /\ sound /\ Len(content) = b.size /\ t.output = content
        /\ b.length = HeaderEnd(f) + Http!StreamBytes(b.steps) + 8
    BY <1>8, <2>1, <2>3
  <2> HIDE DEF limit, start
  <2>5. b.size = Len(Http!Decoded(b.steps)) % SizeModulus
    BY <1>4, <2>1, <2>4 DEF content
  <2>6. b = Http!Zipped(f, b.zeros, b.steps)
    BY <2>1, <2>2, <2>3, <2>4, <2>5, ZippedIs
  <2>7. f \in Http!Headers(b)
    BY <1>1, <2>3, <2>4 DEF AnyHeader, Http!Headers
  <2>8. b.flags \subseteq {"extra", "name", "comment", "hcrc"}
    BY <1>1, <2>2
  <2> QED
    BY <1>5, <1>6, <2>1, <2>4, <2>6, <2>7, <2>8
<1>10. ASSUME Http!Intact(b), b.length <= MaxRequest, Len(content) <= MaxRequest
       PROVE  result.accepted
  <2>1. PICK f \in Http!Headers(b) : b = Http!Zipped(f, b.zeros, b.steps)
    BY <1>6, <1>10
  <2>2. f \in AnyHeader(b)
    BY <1>7, <2>1
  <2>3. /\ b.magic /\ b.deflate /\ b.sums /\ Texts(b, f) /\ b.start = HeaderEnd(f)
        /\ b.length = HeaderEnd(f) + Http!StreamBytes(b.steps) + 8
        /\ b.size = Len(Http!Decoded(b.steps)) % SizeModulus
    BY <2>1, <2>2, ZippedIs
  <2>4. b.size = Len(content)
    BY <1>4, <1>10, <2>3 DEF content
  <2>5. HeaderEnd(f) \in Nat /\ 10 <= HeaderEnd(f)
    BY <2>2, HeaderEnds
  <2>6. HeaderEnd(f) < limit
    BY <1>1, <1>2, <2>3, <2>5
  <2>7. sound /\ "reserved" \notin b.flags
    BY <1>6, <1>10
  <2>8. start = HeaderEnd(f)
    BY <2>2, <2>3, <2>6, <2>7, HeaderPassed
  <2> HIDE DEF limit, start
  <2>9. Http!EndsThere(t)
    BY <1>8, <2>2, <2>3, <2>4, <2>6, <2>7, <2>8
  <2> QED
    BY <1>5, <1>10, <2>3, <2>4, <2>5, <2>8, <2>9
<1> HIDE DEF limit, start
<1>11. /\ result.accepted <=> Http!Intact(b) /\ b.length <= MaxRequest /\ Len(content) <= MaxRequest
       /\ result.accepted => result.output = content
  BY <1>9, <1>10
<1> QED
  BY <1>11 DEF result, content

\* A body waits as it came.
Posted == phase = "posted" => upload \in Uploads

\* GunzipExact: a compressed request is read exactly when a writer of gzip sends it
\* and it is not too long, and what is read is what was written.  git/gzip.ts, gunzip.
THEOREM RequestIsExact == Spec => []GunzipExact
<1>1. Init => Posted
  BY DEF Init, Posted
<1>2. Posted /\ [Next]_vars => Posted'
  <2> SUFFICES ASSUME Posted, [Next]_vars PROVE Posted'
    OBVIOUS
  <2>1. CASE UNCHANGED vars
    BY <2>1 DEF vars, Posted
  <2>2. CASE Decode
    BY <2>2 DEF Decode, Posted
  <2>3. CASE Open /\ UNCHANGED <<store, upload, request, pushes, moved>>
    BY <2>3 DEF Open, Posted
  <2>4. CASE Fetch /\ UNCHANGED <<store, upload, request, pushes, moved, whole>>
    BY <2>4 DEF Fetch, Refuse, Deepen, DeepenFails, Negotiate, Walk, WalkFails, Subtract, Order, Emit,
                EmitFull, Send, EmitFails, Finish, Fail, Posted
  <2>5. CASE Repository /\ UNCHANGED <<upload, request, phase, learned, pack, whole>>
    BY <2>5 DEF Posted
  <2> QED
    BY <2>1, <2>2, <2>3, <2>4, <2>5 DEF Next
<1>3. Posted => GunzipExact
  <2> SUFFICES ASSUME Posted, phase = "posted", upload.encoding = "gzip"
               PROVE  LET content == Http!Decoded(upload.body.steps)
                          result  == Http!Gunzip(upload.body) IN
                      /\ result.accepted <=> /\ Http!Intact(upload.body)
                                             /\ upload.body.length <= MaxRequest
                                             /\ Len(content) <= MaxRequest
                      /\ result.accepted => result.output = content
    BY DEF GunzipExact
  <2>1. upload.body \in Http!Bodies
    BY BodyAssumption DEF Posted
  <2> QED
    BY <2>1, BodyRead
<1> QED
  BY <1>1, <1>2, <1>3, PTL DEF Spec

=============================================================================
