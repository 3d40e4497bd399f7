---------------------------- MODULE NaturalOrder ----------------------------
(***************************************************************************)
(* Facts about sets of natural numbers in their order.  compute_range_     *)
(* assignment numbers the sorted members of a group, create_topic the      *)
(* sorted live brokers: both modules name the i-th element of a set by the *)
(* number of elements below it.                                            *)
(***************************************************************************)
EXTENDS Integers, FiniteSets, FiniteSetTheorems, FunctionTheorems,
        WellFoundedInduction, TLAPS

\* A set of numbers that is not empty has a least element: the least of the intervals
\* that end in one of them, in the order of finite sets, which is well founded.
LEMMA LeastExists ==
    ASSUME NEW S \in SUBSET Nat, S # {}
    PROVE  \E x \in S : \A y \in S : x <= y
<1> DEFINE Segments == {0 .. x : x \in S}
<1>1. Segments \subseteq FiniteSubsetsOf(Nat) /\ Segments # {}
  <2>1. ASSUME NEW x \in S PROVE 0 .. x \in SUBSET Nat /\ IsFiniteSet(0 .. x)
      BY FS_Interval
  <2>2. QED
      BY <2>1 DEF FiniteSubsetsOf
<1>2. PICK U \in Segments : \A V \in Segments : <<V, U>> \notin StrictSubsetOrdering(Nat)
    BY <1>1, WFMin, FS_StrictSubsetOrderingWellFounded
<1>3. PICK x \in S : U = 0 .. x
    BY <1>2
<1>4. ASSUME NEW y \in S, y < x PROVE FALSE
  <2>1. 0 .. y \subseteq 0 .. x /\ x \in 0 .. x /\ x \notin 0 .. y
      BY <1>4
  <2>2. <<0 .. y, U>> \in StrictSubsetOrdering(Nat)
      BY <2>1, <1>3 DEF StrictSubsetOrdering
  <2>3. QED
      BY <2>2, <1>2
<1>5. QED
    BY <1>4

\* The elements of S below x.
Below(S, x) == {y \in S : y < x}

\* The numbers of elements below them number the elements of a finite set from 0 on,
\* in their order.
LEMMA RanksNumber ==
    ASSUME NEW S \in SUBSET Nat, IsFiniteSet(S)
    PROVE  /\ \A x \in S : Cardinality(Below(S, x)) \in 0 .. Cardinality(S) - 1
           /\ \A x, z \in S : x < z => Cardinality(Below(S, x)) < Cardinality(Below(S, z))
           /\ \A i \in 0 .. Cardinality(S) - 1 :
                \E x \in S : Cardinality(Below(S, x)) = i
<1> DEFINE rank == [x \in S |-> Cardinality(Below(S, x))]
           n == Cardinality(S)
<1>1. n \in Nat
    BY FS_CardinalityType
<1>2. ASSUME NEW x \in S
      PROVE  IsFiniteSet(Below(S, x)) /\ Cardinality(Below(S, x)) \in 0 .. n - 1
  <2>1. Below(S, x) \in SUBSET S /\ x \notin Below(S, x)
      BY DEF Below
  <2>2. IsFiniteSet(Below(S, x)) /\ Cardinality(Below(S, x)) <= n
      BY <2>1, FS_Subset
  <2>3. Cardinality(Below(S, x)) # n
      BY <2>1, FS_Subset
  <2>4. QED
      BY <2>2, <2>3, <1>1, FS_CardinalityType
<1>3. ASSUME NEW x \in S, NEW z \in S, x < z
      PROVE  Cardinality(Below(S, x)) < Cardinality(Below(S, z))
  <2>1. Below(S, x) \in SUBSET Below(S, z) /\ x \in Below(S, z) /\ x \notin Below(S, x)
    <3>1. \A y \in Below(S, x) : y \in Below(S, z)
        BY <1>3 DEF Below
    <3>2. x \in Below(S, z) /\ x \notin Below(S, x)
        BY <1>3 DEF Below
    <3>3. QED
        BY <3>1, <3>2
  <2>2. IsFiniteSet(Below(S, z))
      BY <1>2
  <2>3. /\ Cardinality(Below(S, x)) <= Cardinality(Below(S, z))
        /\ Cardinality(Below(S, x)) # Cardinality(Below(S, z))
      BY <2>1, <2>2, FS_Subset
  <2>4. QED
      BY <2>3, <1>2
<1>4. rank \in Injection(S, 0 .. n - 1)
  <2>1. rank \in [S -> 0 .. n - 1]
      BY <1>2
  <2>2. ASSUME NEW x \in S, NEW z \in S, rank[x] = rank[z] PROVE x = z
      BY <1>2, <1>3, <2>2
  <2>3. QED
      BY <2>1, <2>2, Fun_IsInj
<1>5. IsFiniteSet(0 .. n - 1) /\ Cardinality(0 .. n - 1) = n
  <2>1. 0 \in Int /\ n - 1 \in Int
      BY <1>1
  <2>2. /\ IsFiniteSet(0 .. n - 1)
        /\ Cardinality(0 .. n - 1) = IF 0 > n - 1 THEN 0 ELSE (n - 1) - 0 + 1
      BY <2>1, FS_Interval
  <2>3. QED
      BY <2>2, <1>1
<1>6. rank \in Surjection(S, 0 .. n - 1)
    BY <1>4, <1>5, FS_Injection
<1>7. ASSUME NEW i \in 0 .. n - 1 PROVE \E x \in S : Cardinality(Below(S, x)) = i
    BY <1>6 DEF Surjection
<1>8. QED
    BY <1>2, <1>3, <1>7

-----------------------------------------------------------------------------
(* Recursion *)

\* A set of numbers up to n that is not empty has a greatest element.
LEMMA GreatestExists ==
    ASSUME NEW n \in Nat, NEW s \in SUBSET (0 .. n), s # {}
    PROVE  \E x \in s : \A y \in s : x >= y
<1> DEFINE Mirror == {n - x : x \in s}
<1>1. Mirror \in SUBSET Nat /\ Mirror # {}
  <2>1. \A x \in s : n - x \in Nat
      OBVIOUS
  <2>2. QED
      BY <2>1
<1> HIDE DEF Mirror
<1>2. PICK z \in Mirror : \A y \in Mirror : z <= y
    BY <1>1, LeastExists
<1>3. PICK x \in s : z = n - x
    BY <1>2 DEF Mirror
<1>4. ASSUME NEW y \in s PROVE x >= y
  <2>1. n - y \in Mirror
      BY DEF Mirror
  <2>2. n - x <= n - y
      BY <1>2, <1>3, <2>1
  <2>3. x \in Nat /\ y \in Nat
      OBVIOUS
  <2>4. QED
      BY <2>2, <2>3
<1>5. QED
    BY <1>4


\* What holds at 0, and at k when it holds at k - 1, holds up to n.
LEMMA UpTo ==
    ASSUME NEW n \in Nat, NEW Good, 0 \in Good, \A k \in 1 .. n : k - 1 \in Good => k \in Good
    PROVE  \A k \in 0 .. n : k \in Good
<1> DEFINE Bad == {k \in 0 .. n : k \notin Good}
<1>1. SUFFICES ASSUME Bad # {} PROVE FALSE
    OBVIOUS
<1>2. Bad \in SUBSET Nat
    OBVIOUS
<1> HIDE DEF Bad
<1>3. PICK k \in Bad : \A y \in Bad : k <= y
    BY <1>1, <1>2, LeastExists
<1>4. k \in 0 .. n /\ k \notin Good
    BY <1>3 DEF Bad
<1>5. k # 0
    BY <1>4
<1>6. k \in 1 .. n /\ k - 1 \in 0 .. n /\ ~(k <= k - 1)
    BY <1>4, <1>5
<1>7. k - 1 \in Good
    BY <1>3, <1>6 DEF Bad
<1>8. QED
    BY <1>4, <1>6, <1>7

\* F starts with v0 and makes step h[k] at k.
Runs(F, n, V, v0, h) ==
    F \in [0 .. n -> V] /\ F[0] = v0 /\ \A k \in 1 .. n : F[k] = h[k][F[k - 1]]

\* Steps can be made one after another.
LEMMA RunExists ==
    ASSUME NEW n \in Nat, NEW V, NEW v0 \in V, NEW h \in [1 .. n -> [V -> V]]
    PROVE  \E F : Runs(F, n, V, v0, h)
<1> DEFINE Bad == {m \in 0 .. n : ~ \E F : Runs(F, m, V, v0, h)}
<1>1. SUFFICES Bad = {}
  <2>1. n \in 0 .. n
      OBVIOUS
  <2>2. QED
      BY <2>1
<1>2. SUFFICES ASSUME Bad # {} PROVE FALSE
    OBVIOUS
<1>3. Bad \in SUBSET Nat
    OBVIOUS
<1> HIDE DEF Bad
<1>4. PICK m \in Bad : \A y \in Bad : m <= y
    BY <1>2, <1>3, LeastExists
<1>5. m \in 0 .. n /\ ~ \E F : Runs(F, m, V, v0, h)
    BY <1>4 DEF Bad
<1>6. m # 0
  <2> DEFINE F == [k \in 0 .. 0 |-> v0]
  <2>1. Runs(F, 0, V, v0, h)
      BY DEF Runs
  <2>2. QED
      BY <1>5, <2>1
<1>7. m - 1 \notin Bad /\ m - 1 \in 0 .. n
    BY <1>4, <1>5, <1>6
<1>8. PICK G : Runs(G, m - 1, V, v0, h)
    BY <1>7 DEF Bad
<1> DEFINE F == [k \in 0 .. m |-> IF k = m THEN h[m][G[m - 1]] ELSE G[k]]
<1>9. Runs(F, m, V, v0, h)
  <2>1. G \in [0 .. m - 1 -> V] /\ G[0] = v0 /\ \A k \in 1 .. m - 1 : G[k] = h[k][G[k - 1]]
      BY <1>8 DEF Runs
  <2>2. m \in 1 .. n /\ m - 1 \in 0 .. m - 1
      BY <1>5, <1>6
  <2>3. h[m] \in [V -> V] /\ G[m - 1] \in V
      BY <2>1, <2>2
  <2>4. h[m][G[m - 1]] \in V
      BY <2>3
  <2>5. \A k \in 0 .. m : k # m => k \in 0 .. m - 1
      BY <2>2
  <2>6. F \in [0 .. m -> V]
      BY <2>1, <2>4, <2>5
  <2>7. F[0] = v0
      BY <2>1, <2>2
  <2>8. ASSUME NEW k \in 1 .. m PROVE F[k] = h[k][F[k - 1]]
    <3>1. k - 1 \in 0 .. m /\ k - 1 # m /\ k \in 0 .. m
        BY <2>2
    <3>2. CASE k = m
        BY <3>1, <3>2
    <3>3. CASE k # m
      <4>1. k \in 1 .. m - 1
          BY <2>2, <3>3
      <4>2. QED
          BY <2>1, <3>1, <3>3, <4>1
    <3>4. QED
        BY <3>2, <3>3
  <2> HIDE DEF F
  <2>9. QED
      BY <2>6, <2>7, <2>8 DEF Runs
<1>10. QED
    BY <1>5, <1>9

\* And in one way.
LEMMA RunIsUnique ==
    ASSUME NEW n \in Nat, NEW m \in 0 .. n, NEW V, NEW W, NEW v0, NEW h, NEW i,
           NEW F, NEW G, Runs(F, n, V, v0, h), Runs(G, m, W, v0, i),
           \A k \in 1 .. m : h[k] = i[k]
    PROVE  \A k \in 0 .. m : F[k] = G[k]
<1> DEFINE Bad == {k \in 0 .. m : F[k] # G[k]}
<1>1. SUFFICES ASSUME Bad # {} PROVE FALSE
    OBVIOUS
<1>2. Bad \in SUBSET Nat
    OBVIOUS
<1> HIDE DEF Bad
<1>3. PICK k \in Bad : \A y \in Bad : k <= y
    BY <1>1, <1>2, LeastExists
<1>4. k \in 0 .. m /\ F[k] # G[k]
    BY <1>3 DEF Bad
<1>5. k # 0
    BY <1>4 DEF Runs
<1>6. k - 1 \in 0 .. m /\ k - 1 \notin Bad /\ k \in 1 .. n /\ k \in 1 .. m
    BY <1>3, <1>4, <1>5
<1>7. F[k - 1] = G[k - 1]
    BY <1>6 DEF Bad
<1>8. F[k] = h[k][F[k - 1]] /\ G[k] = i[k][G[k - 1]]
    BY <1>6 DEF Runs
<1>9. QED
    BY <1>4, <1>6, <1>7, <1>8

\* The largest member, as the folds of the library choose it.
Top(s) == CHOOSE x \in s : \A y \in s : x >= y

\* A set of positions that is not empty has one.
LEMMA TopExists ==
    ASSUME NEW n \in Nat, NEW s \in SUBSET (1 .. n), s # {}
    PROVE  Top(s) \in s /\ \A y \in s : Top(s) >= y
<1>1. s \in SUBSET (0 .. n)
    OBVIOUS
<1>2. \E x \in s : \A y \in s : x >= y
    BY <1>1, GreatestExists
<1>3. QED
    BY <1>2 DEF Top

\* Of the first k numbers it is k, and k - 1 are left.
LEMMA TopOfInterval ==
    ASSUME NEW k \in Nat, k # 0
    PROVE  Top(1 .. k) = k /\ (1 .. k) \ {Top(1 .. k)} = 1 .. k - 1
<1>1. k \in 1 .. k
    OBVIOUS
<1>2. 1 .. k \in SUBSET (1 .. k) /\ 1 .. k # {}
    BY <1>1
<1>3. Top(1 .. k) \in 1 .. k /\ \A y \in 1 .. k : Top(1 .. k) >= y
    BY <1>2, TopExists
<1>4. Top(1 .. k) = k
    BY <1>1, <1>3
<1>5. QED
    BY <1>4

\* g folds the steps h over every set of positions, the largest last.
FoldsUp(g, n, V, v0, h) ==
    g \in [SUBSET (1 .. n) -> V]
    /\ \A s \in SUBSET (1 .. n) :
          g[s] = IF s = {} THEN v0 ELSE h[Top(s)][g[s \ {Top(s)}]]

\* Such a g exists: by least counterexample over the number of positions.
LEMMA FoldExists ==
    ASSUME NEW n \in Nat, NEW V, NEW v0 \in V, NEW h \in [1 .. n -> [V -> V]]
    PROVE  \E g : FoldsUp(g, n, V, v0, h)
<1> DEFINE Bad == {m \in 0 .. n : ~ \E g : FoldsUp(g, m, V, v0, h)}
<1>1. SUFFICES Bad = {}
  <2>1. n \in 0 .. n
      OBVIOUS
  <2>2. QED
      BY <2>1
<1>2. SUFFICES ASSUME Bad # {} PROVE FALSE
    OBVIOUS
<1>3. Bad \in SUBSET Nat
    OBVIOUS
<1> HIDE DEF Bad
<1>4. PICK m \in Bad : \A y \in Bad : m <= y
    BY <1>2, <1>3, LeastExists
<1>5. m \in 0 .. n /\ ~ \E g : FoldsUp(g, m, V, v0, h)
    BY <1>4 DEF Bad
<1>6. m # 0
  <2> DEFINE g == [s \in SUBSET (1 .. 0) |-> v0]
  <2>1. 1 .. 0 = {}
      OBVIOUS
  <2>2. FoldsUp(g, 0, V, v0, h)
      BY <2>1 DEF FoldsUp
  <2>3. QED
      BY <1>5, <2>2
<1>7. m - 1 \notin Bad /\ m - 1 \in 0 .. n
    BY <1>4, <1>5, <1>6
<1>8. PICK f : FoldsUp(f, m - 1, V, v0, h)
    BY <1>7 DEF Bad
<1> DEFINE g == [s \in SUBSET (1 .. m) |-> IF m \in s THEN h[m][f[s \ {m}]] ELSE f[s]]
<1>9. FoldsUp(g, m, V, v0, h)
  <2>1. /\ f \in [SUBSET (1 .. m - 1) -> V]
        /\ \A s \in SUBSET (1 .. m - 1) :
              f[s] = IF s = {} THEN v0 ELSE h[Top(s)][f[s \ {Top(s)}]]
      BY <1>8 DEF FoldsUp
  <2>2. m \in 1 .. n /\ m \in Nat /\ h[m] \in [V -> V]
      BY <1>5, <1>6
  <2>3. \A s \in SUBSET (1 .. m) : s \ {m} \in SUBSET (1 .. m - 1)
      BY <2>2
  <2>4. ASSUME NEW s \in SUBSET (1 .. m) PROVE g[s] \in V
    <3>1. CASE m \in s
      <4>1. f[s \ {m}] \in V
          BY <2>1, <2>3
      <4>2. QED
          BY <2>2, <3>1, <4>1
    <3>2. CASE m \notin s
      <4>1. s \ {m} = s
          BY <3>2
      <4>2. f[s] \in V
          BY <2>1, <2>3, <4>1
      <4>3. QED
          BY <3>2, <4>2
    <3>3. QED
        BY <3>1, <3>2
  <2>5. ASSUME NEW s \in SUBSET (1 .. m)
        PROVE  g[s] = IF s = {} THEN v0 ELSE h[Top(s)][g[s \ {Top(s)}]]
    <3>1. CASE m \in s
      <4>1. Top(s) = m
        <5>1. Top(s) \in s /\ \A y \in s : Top(s) >= y
            BY <2>2, <3>1, TopExists
        <5>2. Top(s) >= m /\ Top(s) \in 1 .. m
            BY <3>1, <5>1
        <5>3. QED
            BY <2>2, <5>2
      <4>2. g[s \ {m}] = f[s \ {m}]
          BY <2>3
      <4>3. QED
          BY <3>1, <4>1, <4>2
    <3>2. CASE m \notin s
      <4>1. s \ {m} = s
          BY <3>2
      <4>2. s \in SUBSET (1 .. m - 1)
          BY <2>3, <4>1
      <4>3. g[s] = f[s]
          BY <3>2
      <4>4. g[s \ {Top(s)}] = f[s \ {Top(s)}]
          BY <3>2
      <4>5. QED
          BY <2>1, <4>2, <4>3, <4>4
    <3>3. QED
        BY <3>1, <3>2
  <2> HIDE DEF g
  <2>6. g \in [SUBSET (1 .. m) -> V]
    <3>1. g = [s \in SUBSET (1 .. m) |-> g[s]]
        BY DEF g
    <3>2. QED
        BY <2>4, <3>1
  <2>7. QED
      BY <2>5, <2>6 DEF FoldsUp
<1>10. QED
    BY <1>5, <1>9

\* Over the first positions a fold is a run.
LEMMA FoldRuns ==
    ASSUME NEW n \in Nat, NEW V, NEW v0, NEW h, NEW g, FoldsUp(g, n, V, v0, h)
    PROVE  Runs([k \in 0 .. n |-> g[1 .. k]], n, V, v0, h)
<1> DEFINE F == [k \in 0 .. n |-> g[1 .. k]]
<1>1. /\ g \in [SUBSET (1 .. n) -> V]
      /\ \A s \in SUBSET (1 .. n) :
            g[s] = IF s = {} THEN v0 ELSE h[Top(s)][g[s \ {Top(s)}]]
    BY DEF FoldsUp
<1>2. \A k \in 0 .. n : 1 .. k \in SUBSET (1 .. n)
    OBVIOUS
<1>3. F \in [0 .. n -> V]
    BY <1>1, <1>2
<1>4. F[0] = v0
  <2>1. 1 .. 0 = {} /\ 0 \in 0 .. n
      OBVIOUS
  <2>2. QED
      BY <1>1, <1>2, <2>1
<1>5. ASSUME NEW k \in 1 .. n PROVE F[k] = h[k][F[k - 1]]
  <2>1. k \in 0 .. n /\ k - 1 \in 0 .. n /\ k \in Nat /\ k # 0 /\ k \in 1 .. k
      OBVIOUS
  <2>2. Top(1 .. k) = k /\ (1 .. k) \ {Top(1 .. k)} = 1 .. k - 1
      BY <2>1, TopOfInterval
  <2>3. 1 .. k \in SUBSET (1 .. n) /\ 1 .. k # {}
      BY <1>2, <2>1
  <2>4. g[1 .. k] = h[k][g[1 .. k - 1]]
      BY <1>1, <2>2, <2>3
  <2>5. QED
      BY <2>1, <2>4
<1> HIDE DEF F
<1>6. Runs(F, n, V, v0, h)
    BY <1>3, <1>4, <1>5 DEF Runs
<1>7. QED
    BY <1>6 DEF F
=============================================================================
