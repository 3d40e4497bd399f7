--------------------------- MODULE CommitLog_proof ---------------------------
(***************************************************************************)
(* Proofs about CommitLog for any record sizes, segment size, index        *)
(* interval and batch size, and any number of appends and crashes: what is *)
(* on disk is an append-only log.                                          *)
(***************************************************************************)
EXTENDS CommitLog, NaturalOrder, SequenceTheorems

-----------------------------------------------------------------------------
(* Frames *)

Frame == [offset : Nat \cup {Torn}, payload : Payload]
Index == Seq(Int \X Int)
Object == [index : Index, size : Nat, since : Nat]
Segment == [base : Nat, frames : Seq(Frame), index : Index]

\* No frame is torn.
Whole(frames) == \A k \in 1 .. Len(frames) : frames[k].offset # Torn

\* The first m frames are whole, and there are no more or the next one is torn.
WholeUpTo(u, m) ==
    /\ m \in 0 .. Len(u)
    /\ \A k \in 1 .. m : u[k].offset # Torn
    /\ m = Len(u) \/ u[m + 1].offset = Torn

\* Clean stops at the first torn frame.
LEMMA CleanStops ==
    ASSUME NEW u \in Seq(Frame), NEW m, WholeUpTo(u, m)
    PROVE  /\ Clean(u) \in Seq(Frame) /\ Len(Clean(u)) = m
           /\ \A k \in 1 .. m : Clean(u)[k] = u[k]
           /\ m = Len(u) => Clean(u) = u
<1> DEFINE I == {i \in 1 .. Len(u) : u[i].offset = Torn}
           t == IF I # {} THEN CHOOSE x \in I : \A y \in I : x =< y ELSE 0
<1>1. Clean(u) = IF t = 0 THEN u ELSE SubSeq(u, 1, t - 1)
    BY DEF Clean, SelectInSeq, Min
<1>2. Len(u) \in Nat /\ m \in 0 .. Len(u)
    BY DEF WholeUpTo
<1>3. CASE m = Len(u)
  <2>1. I = {}
      BY <1>3 DEF WholeUpTo
  <2>2. Clean(u) = u
      BY <1>1, <2>1
  <2>3. QED
      BY <1>3, <2>2
<1>4. CASE m # Len(u)
  <2>1. m + 1 \in I /\ \A y \in I : m + 1 <= y
      BY <1>2, <1>4 DEF WholeUpTo
  <2>2. I \subseteq Nat
      BY <1>2
  <2> HIDE DEF I
  <2>3. (CHOOSE x \in I : \A y \in I : x <= y) = m + 1
    <3>1. ASSUME NEW x \in I, \A y \in I : x <= y PROVE x = m + 1
      <4>1. x <= m + 1 /\ m + 1 <= x
          BY <2>1, <3>1
      <4>2. x \in Nat /\ m + 1 \in Nat
          BY <2>1, <2>2
      <4>3. m \in Nat
          BY <1>2
      <4>4. QED
          BY <4>1, <4>2, <4>3
    <3>2. QED
        BY <2>1, <3>1
  <2>4. t = m + 1
      BY <2>1, <2>3
  <2> HIDE DEF t
  <2>5. Clean(u) = SubSeq(u, 1, m)
      BY <1>1, <1>2, <2>4
  <2>6. QED
      BY <1>2, <1>4, <2>5
<1>5. QED
    BY <1>3, <1>4

\* Every file has such a place.
LEMMA CleanExists ==
    ASSUME NEW u \in Seq(Frame)
    PROVE  \E m : WholeUpTo(u, m)
<1> DEFINE I == {i \in 1 .. Len(u) : u[i].offset = Torn}
<1>1. Len(u) \in Nat
    OBVIOUS
<1>2. CASE I = {}
  <2>1. WholeUpTo(u, Len(u))
      BY <1>1, <1>2 DEF WholeUpTo
  <2>2. QED
      BY <2>1
<1>3. CASE I # {}
  <2>1. I \in SUBSET Nat
      BY <1>1
  <2>2. PICK x \in I : \A y \in I : x <= y
      BY <1>3, <2>1, LeastExists
  <2>3. WholeUpTo(u, x - 1)
    <3>1. x \in 1 .. Len(u) /\ u[x].offset = Torn
        BY <2>2
    <3>2. ASSUME NEW k \in 1 .. x - 1 PROVE u[k].offset # Torn
      <4>1. k \in 1 .. Len(u) /\ ~(x <= k)
          BY <1>1, <3>1
      <4>2. k \notin I
          BY <2>2, <4>1
      <4>3. QED
          BY <4>1, <4>2
    <3>3. x - 1 \in 0 .. Len(u) /\ (x - 1) + 1 = x
        BY <1>1, <3>1
    <3>4. QED
        BY <3>1, <3>2, <3>3 DEF WholeUpTo
  <2>4. QED
      BY <2>3
<1>4. QED
    BY <1>2, <1>3

\* What decode_record accepts.
LEMMA CleanFacts ==
    ASSUME NEW u \in Seq(Frame)
    PROVE  /\ Clean(u) \in Seq(Frame) /\ Len(Clean(u)) \in 0 .. Len(u)
           /\ WholeUpTo(u, Len(Clean(u)))
           /\ \A k \in 1 .. Len(Clean(u)) : Clean(u)[k] = u[k]
           /\ Whole(Clean(u))
           /\ Whole(u) <=> Len(Clean(u)) = Len(u)
           /\ Whole(u) => Clean(u) = u
<1>1. PICK m : WholeUpTo(u, m)
    BY CleanExists
<1>2. /\ Clean(u) \in Seq(Frame) /\ Len(Clean(u)) = m
      /\ \A k \in 1 .. m : Clean(u)[k] = u[k]
      /\ m = Len(u) => Clean(u) = u
    BY <1>1, CleanStops
<1>3. Len(u) \in Nat /\ m \in 0 .. Len(u)
    BY <1>1 DEF WholeUpTo
<1>4. Whole(Clean(u))
    BY <1>1, <1>2, <1>3 DEF Whole, WholeUpTo
<1>5. Whole(u) <=> m = Len(u)
    BY <1>1, <1>3 DEF Whole, WholeUpTo
<1>6. QED
    BY <1>1, <1>2, <1>3, <1>4, <1>5

\* u is s with t behind it.
Joined(u, s, t) ==
    /\ Len(u) = Len(s) + Len(t)
    /\ \A i \in 1 .. Len(s) : u[i] = s[i]
    /\ \A k \in 1 .. Len(t) : u[Len(s) + k] = t[k]

\* Two sequences one after the other.
LEMMA Concatenated ==
    ASSUME NEW S, NEW s \in Seq(S), NEW t \in Seq(S)
    PROVE  s \o t \in Seq(S) /\ Len(s) \in Nat /\ Len(t) \in Nat /\ Joined(s \o t, s, t)
<1>1. /\ s \o t \in Seq(S) /\ Len(s \o t) = Len(s) + Len(t)
      /\ Len(s) \in Nat /\ Len(t) \in Nat
    OBVIOUS
<1>2. \A i \in 1 .. Len(s) : (s \o t)[i] = s[i]
    BY <1>1
<1>3. \A k \in 1 .. Len(t) : (s \o t)[Len(s) + k] = t[k]
    BY <1>1
<1>4. QED
    BY <1>1, <1>2, <1>3 DEF Joined

\* A position is in the first part or in the second.
LEMMA TwoParts ==
    ASSUME NEW n \in Nat, NEW m \in Nat
    PROVE  \A i \in 1 .. n + m : i \in 1 .. n \/ \E k \in 1 .. m : i = n + k
<1> SUFFICES ASSUME NEW i \in 1 .. n + m, i \notin 1 .. n PROVE \E k \in 1 .. m : i = n + k
    OBVIOUS
<1>1. i - n \in 1 .. m /\ i = n + (i - n)
    OBVIOUS
<1>2. QED
    BY <1>1

\* How three files are joined does not matter.
Associates(a, b, c) == (a \o b) \o c = a \o (b \o c)

\* It does not for any.
LEMMA JoinAssociates ==
    ASSUME NEW a \in Seq(Frame), NEW b \in Seq(Frame), NEW c \in Seq(Frame)
    PROVE  Associates(a, b, c)
BY DEF Associates

\* Joining associates, stays within the files, and has a unit.
LEMMA JoinThree ==
    ASSUME NEW a \in Seq(Frame), NEW b \in Seq(Frame), NEW c \in Seq(Frame)
    PROVE  (a \o b) \o c = a \o (b \o c) /\ a \o b \in Seq(Frame) /\ <<>> \o a = a
OBVIOUS

\* Sequences with the same elements are the same.
LEMMA SameElements ==
    ASSUME NEW S, NEW s \in Seq(S), NEW t \in Seq(S), Len(s) = Len(t),
           \A i \in 1 .. Len(s) : s[i] = t[i]
    PROVE  s = t
<1>1. DOMAIN s = 1 .. Len(s) /\ DOMAIN t = 1 .. Len(t)
    OBVIOUS
<1>2. s = [i \in 1 .. Len(s) |-> s[i]] /\ t = [i \in 1 .. Len(t) |-> t[i]]
    BY <1>1
<1>3. QED
    BY <1>2

\* Files of whole frames with something torn behind them, or nothing.
LEMMA CleanJoined ==
    ASSUME NEW s \in Seq(Frame), NEW t \in Seq(Frame), Whole(s), Whole(t),
           NEW r \in Seq(Frame), r = <<>> \/ (Len(r) = 1 /\ r[1].offset = Torn)
    PROVE  /\ (s \o t) \o r \in Seq(Frame) /\ Clean((s \o t) \o r) = s \o t
           /\ Len((s \o t) \o r) = Len(s) + Len(t) + Len(r) /\ Len(r) \in {0, 1}
           /\ Whole(s \o t)
<1> DEFINE u == s \o t
           w == u \o r
<1>1. u \in Seq(Frame) /\ Len(s) \in Nat /\ Len(t) \in Nat /\ Joined(u, s, t)
    BY Concatenated
<1> HIDE DEF u
<1>2. w \in Seq(Frame) /\ Len(u) \in Nat /\ Len(r) \in Nat /\ Joined(w, u, r)
    BY <1>1, Concatenated
<1> HIDE DEF w
<1>3. Whole(u)
  <2> SUFFICES ASSUME NEW i \in 1 .. Len(u) PROVE u[i].offset # Torn
      BY DEF Whole
  <2>1. i \in 1 .. Len(s) + Len(t)
      BY <1>1 DEF Joined
  <2>2. i \in 1 .. Len(s) \/ \E k \in 1 .. Len(t) : i = Len(s) + k
      BY <1>1, <2>1, TwoParts
  <2>3. CASE i \in 1 .. Len(s)
    <3>1. u[i] = s[i]
        BY <1>1, <2>3 DEF Joined
    <3>2. QED
        BY <2>3, <3>1 DEF Whole
  <2>4. CASE \E k \in 1 .. Len(t) : i = Len(s) + k
    <3>1. PICK k \in 1 .. Len(t) : i = Len(s) + k
        BY <2>4
    <3>2. u[i] = t[k]
        BY <1>1, <3>1 DEF Joined
    <3>3. QED
        BY <3>2 DEF Whole
  <2>5. QED
      BY <2>2, <2>3, <2>4
<1>4. Len(r) \in {0, 1}
    OBVIOUS
<1>5. WholeUpTo(w, Len(u))
  <2>1. Len(u) \in 0 .. Len(w) /\ \A k \in 1 .. Len(u) : w[k].offset # Torn
      BY <1>2, <1>3 DEF Joined, Whole
  <2>2. Len(r) = 0 => Len(w) = Len(u)
      BY <1>2 DEF Joined
  <2>3. Len(r) = 1 => w[Len(u) + 1].offset = Torn
    <3>1. Len(r) = 1 => r[1].offset = Torn /\ 1 \in 1 .. Len(r)
        OBVIOUS
    <3>2. QED
        BY <1>2, <3>1 DEF Joined
  <2>4. QED
      BY <1>4, <2>1, <2>2, <2>3 DEF WholeUpTo
<1>6. /\ Clean(w) \in Seq(Frame) /\ Len(Clean(w)) = Len(u)
      /\ \A k \in 1 .. Len(u) : Clean(w)[k] = w[k]
    BY <1>2, <1>5, CleanStops
<1>7. Clean(w) = u
  <2>1. \A k \in 1 .. Len(Clean(w)) : Clean(w)[k] = u[k]
      BY <1>2, <1>6 DEF Joined
  <2>2. QED
      BY <1>1, <1>6, <2>1, SameElements
<1>8. Len(w) = Len(s) + Len(t) + Len(r)
    BY <1>1, <1>2 DEF Joined
<1>9. QED
    BY <1>1, <1>2, <1>3, <1>4, <1>7, <1>8 DEF u, w

-----------------------------------------------------------------------------
(* Folds *)

\* The steps lead from V to V.
StepsIn(h, n, V) == \A k \in 1 .. n : \A v \in V : h[k][v] \in V

\* What a fold over the positions gives is the end of a run through V, when its
\* steps stay in V.
LEMMA FoldIsRun ==
    ASSUME NEW n \in Nat, NEW V, NEW v0 \in V, NEW W, NEW h, StepsIn(h, n, V),
           NEW g, FoldsUp(g, n, W, v0, h)
    PROVE  \E F : Runs(F, n, V, v0, h) /\ F[n] = g[1 .. n]
<1> DEFINE G == [k \in 0 .. n |-> g[1 .. k]]
<1>2. Runs(G, n, W, v0, h)
    BY FoldRuns
<1> DEFINE i == [k \in 1 .. n |-> [v \in V |-> h[k][v]]]
<1>3. i \in [1 .. n -> [V -> V]]
    BY DEF StepsIn
<1>4. PICK F : Runs(F, n, V, v0, i)
  <2> HIDE DEF i
  <2>1. QED
      BY <1>3, RunExists
<1>5. Runs(F, n, V, v0, h)
  <2>1. F \in [0 .. n -> V] /\ F[0] = v0 /\ \A k \in 1 .. n : F[k] = i[k][F[k - 1]]
      BY <1>4 DEF Runs
  <2>2. \A k \in 1 .. n : F[k - 1] \in V
      BY <2>1
  <2>3. \A k \in 1 .. n : F[k] = h[k][F[k - 1]]
      BY <2>1, <2>2
  <2>4. QED
      BY <2>1, <2>3 DEF Runs
<1>6. \A k \in 0 .. n : F[k] = G[k]
  <2>1. n \in 0 .. n
      OBVIOUS
  <2> HIDE DEF G
  <2>2. QED
      BY <1>2, <1>5, <2>1, RunIsUnique
<1>7. F[n] = g[1 .. n]
    BY <1>6
<1>8. QED
    BY <1>5, <1>7

\* What Bytes adds frame by frame.
Sizes(frames) == [k \in 1 .. Len(frames) |-> [v \in Nat |-> v + frames[k].payload.size]]

\* Bytes adds up the frames from the first to the last.
LEMMA BytesRuns ==
    ASSUME NEW frames \in Seq(Frame)
    PROVE  \E F : Runs(F, Len(frames), Nat, 0, Sizes(frames)) /\ F[Len(frames)] = Bytes(frames)
<1> DEFINE n == Len(frames)
           iter[s \in SUBSET DOMAIN frames] ==
             IF s = {} THEN 0
             ELSE LET x == CHOOSE x \in s : \A y \in s : x >= y
                  IN iter[s \ {x}] + frames[x].payload.size
           h == [k \in 1 .. n |-> [v \in Nat |-> v + frames[k].payload.size]]
           W == Nat \cup {iter[s] : s \in SUBSET (1 .. n)}
           i == [k \in 1 .. n |-> [v \in W |-> v + frames[k].payload.size]]
<1>1. Bytes(frames) = iter[DOMAIN frames]
    BY DEF Bytes, FoldLeft, MapThenFoldSet, Max
<1>2. DOMAIN frames = 1 .. n /\ n \in Nat
    OBVIOUS
<1>3. \A k \in 1 .. n : frames[k].payload.size \in Nat
  <2>1. \A k \in 1 .. n : frames[k] \in Frame
      OBVIOUS
  <2>2. QED
      BY <2>1 DEF Frame, Payload
<1>4. h \in [1 .. n -> [Nat -> Nat]]
    BY <1>3
<1>5. PICK g : FoldsUp(g, n, Nat, 0, h)
  <2> HIDE DEF h
  <2>1. QED
      BY <1>2, <1>4, FoldExists
<1>6. \A s \in SUBSET (1 .. n) : s # {} => Top(s) \in s /\ s \ {Top(s)} \in SUBSET (1 .. n)
    BY <1>2, TopExists
<1>7. g = [s \in SUBSET DOMAIN frames |->
             IF s = {} THEN 0
             ELSE LET x == CHOOSE x \in s : \A y \in s : x >= y
                  IN g[s \ {x}] + frames[x].payload.size]
  <2>1. /\ g \in [SUBSET (1 .. n) -> Nat]
        /\ \A s \in SUBSET (1 .. n) :
              g[s] = IF s = {} THEN 0 ELSE h[Top(s)][g[s \ {Top(s)}]]
    <3> HIDE DEF h
    <3>1. QED
        BY <1>5 DEF FoldsUp
  <2>2. \A k \in 1 .. n : \A v \in Nat : h[k][v] = v + frames[k].payload.size
      BY <1>3
  <2> HIDE DEF h, n
  <2>3. ASSUME NEW s \in SUBSET (1 .. n), s # {}
        PROVE  g[s] = LET x == CHOOSE x \in s : \A y \in s : x >= y
                      IN g[s \ {x}] + frames[x].payload.size
    <3>1. Top(s) \in 1 .. n /\ s \ {Top(s)} \in SUBSET (1 .. n)
        BY <1>6, <2>3
    <3>2. g[s \ {Top(s)}] \in Nat
        BY <2>1, <3>1
    <3>3. g[s] = h[Top(s)][g[s \ {Top(s)}]]
        BY <2>1, <2>3
    <3>4. QED
        BY <2>2, <3>1, <3>2, <3>3 DEF Top
  <2>4. g = [s \in SUBSET (1 .. n) |-> g[s]]
      BY <2>1
  <2>5. g[{}] = 0
      BY <2>1
  <2>6. g = [s \in SUBSET (1 .. n) |->
               IF s = {} THEN 0
               ELSE LET x == CHOOSE x \in s : \A y \in s : x >= y
                    IN g[s \ {x}] + frames[x].payload.size]
      BY <2>3, <2>4, <2>5
  <2>7. QED
      BY <1>2, <2>6
<1>8. iter = [s \in SUBSET DOMAIN frames |->
             IF s = {} THEN 0
             ELSE LET x == CHOOSE x \in s : \A y \in s : x >= y
                  IN iter[s \ {x}] + frames[x].payload.size]
    BY <1>7 DEF iter
<1> HIDE DEF iter, h
<1>9. iter \in [SUBSET (1 .. n) -> W]
    BY <1>2, <1>8
<1>10. \A s \in SUBSET (1 .. n) :
          iter[s] = IF s = {} THEN 0 ELSE i[Top(s)][iter[s \ {Top(s)}]]
    BY <1>2, <1>6, <1>8, <1>9 DEF Top
<1>11. 0 \in Nat /\ Nat \subseteq W /\ \A k \in 1 .. n : \A v \in Nat : i[k][v] \in Nat
    BY <1>3
<1>12. PICK F : Runs(F, n, Nat, 0, i) /\ F[n] = iter[1 .. n]
  <2> DEFINE N == Nat
             z == 0
  <2>1. n \in Nat /\ z \in N /\ StepsIn(i, n, N)
      BY <1>2, <1>11 DEF StepsIn
  <2>2. FoldsUp(iter, n, W, z, i)
      BY <1>9, <1>10 DEF FoldsUp
  <2> HIDE DEF W, i, n, N, z
  <2>3. \E F : Runs(F, n, N, z, i) /\ F[n] = iter[1 .. n]
      BY <2>1, <2>2, FoldIsRun
  <2>4. QED
      BY <2>3 DEF N, z
<1>13. Runs(F, n, Nat, 0, Sizes(frames))
  <2>1. F \in [0 .. n -> Nat] /\ F[0] = 0 /\ \A k \in 1 .. n : F[k] = i[k][F[k - 1]]
    <3> HIDE DEF i, n
    <3>1. QED
        BY <1>12 DEF Runs
  <2>2. \A k \in 1 .. n : F[k - 1] \in Nat
      BY <1>2, <2>1
  <2>3. \A k \in 1 .. n : F[k] = Sizes(frames)[k][F[k - 1]]
      BY <2>1, <2>2 DEF Sizes
  <2> HIDE DEF i, n
  <2>4. QED
      BY <2>1, <2>3 DEF Runs
<1>14. QED
    BY <1>1, <1>2, <1>12, <1>13

\* The bytes of some frames.
LEMMA BytesInNat ==
    ASSUME NEW frames \in Seq(Frame)
    PROVE  Bytes(frames) \in Nat /\ (Len(frames) = 0 => Bytes(frames) = 0)
<1>1. PICK F : Runs(F, Len(frames), Nat, 0, Sizes(frames)) /\ F[Len(frames)] = Bytes(frames)
    BY BytesRuns
<1>2. Len(frames) \in Nat
    OBVIOUS
<1>3. QED
    BY <1>1, <1>2 DEF Runs

\* One frame more.
LEMMA BytesStep ==
    ASSUME NEW u \in Seq(Frame), NEW k \in 1 .. Len(u)
    PROVE  Bytes(SubSeq(u, 1, k)) = Bytes(SubSeq(u, 1, k - 1)) + u[k].payload.size
<1> DEFINE s == SubSeq(u, 1, k)
           t == SubSeq(u, 1, k - 1)
<1>1. /\ s \in Seq(Frame) /\ t \in Seq(Frame) /\ Len(s) = k /\ Len(t) = k - 1
      /\ k \in Nat /\ k - 1 \in Nat /\ \A j \in 1 .. k : s[j] = u[j]
      /\ \A j \in 1 .. k - 1 : t[j] = u[j]
    OBVIOUS
<1> HIDE DEF s, t
<1>2. PICK F : Runs(F, k, Nat, 0, Sizes(s)) /\ F[k] = Bytes(s)
    BY <1>1, BytesRuns
<1>3. PICK G : Runs(G, k - 1, Nat, 0, Sizes(t)) /\ G[k - 1] = Bytes(t)
    BY <1>1, BytesRuns
<1>4. \A j \in 1 .. k - 1 : Sizes(s)[j] = Sizes(t)[j]
    BY <1>1 DEF Sizes
<1>5. F[k - 1] = G[k - 1]
  <2>1. k - 1 \in 0 .. k /\ k - 1 \in 0 .. k - 1
      BY <1>1
  <2> DEFINE v0 == 0
             N == Nat
             m == k - 1
             h == Sizes(s)
             i == Sizes(t)
  <2>2. Runs(F, k, N, v0, h) /\ Runs(G, m, N, v0, i) /\ m \in 0 .. k /\ k \in Nat
      BY <1>1, <1>2, <1>3, <2>1
  <2>3. \A j \in 1 .. m : h[j] = i[j]
      BY <1>4
  <2> HIDE DEF v0, N, m, h, i
  <2>4. \A j \in 0 .. m : F[j] = G[j]
      BY <2>2, <2>3, RunIsUnique
  <2>5. QED
      BY <2>1, <2>4 DEF m
<1>6. k \in 1 .. k /\ k - 1 \in 0 .. k
    BY <1>1
<1>7. F[k] = Sizes(s)[k][F[k - 1]] /\ F[k - 1] \in Nat
    BY <1>2, <1>6 DEF Runs
<1>8. F[k] = F[k - 1] + s[k].payload.size
    BY <1>1, <1>6, <1>7 DEF Sizes
<1>9. QED
    BY <1>1, <1>2, <1>3, <1>5, <1>6, <1>8 DEF s, t

-----------------------------------------------------------------------------

\* A turn of the loop leaves a Segment object.
LEMMA IndexedIsObject ==
    ASSUME NEW base \in Nat, NEW s \in Object, NEW f \in Frame
    PROVE  Indexed(base, s, f) \in Object
<1> DEFINE due == s.index = <<>> \/ s.since >= IndexInterval
<1>1. s.index \in Index /\ s.size \in Nat /\ s.since \in Nat
    BY DEF Object
<1>2. f.offset \in Int /\ f.payload.size \in Nat
    BY DEF Frame, Payload, Torn
<1>3. <<f.offset - base, s.size>> \in Int \X Int
    BY <1>1, <1>2
<1>4. Append(s.index, <<f.offset - base, s.size>>) \in Index
    BY <1>1, <1>3 DEF Index
<1>5. (IF due THEN Append(s.index, <<f.offset - base, s.size>>) ELSE s.index) \in Index
    BY <1>1, <1>4
<1> HIDE DEF due
<1>6. s.size + f.payload.size \in Nat /\ (f.payload.size + IF due THEN 0 ELSE s.since) \in Nat
  <2>1. s.size + f.payload.size \in Nat
      BY <1>1, <1>2
  <2>2. (IF due THEN 0 ELSE s.since) \in Nat
      BY <1>1
  <2>3. QED
      BY <1>2, <2>1, <2>2
<1>7. Indexed(base, s, f)
        = [index |-> IF due THEN Append(s.index, <<f.offset - base, s.size>>) ELSE s.index,
           size |-> s.size + f.payload.size,
           since |-> f.payload.size + IF due THEN 0 ELSE s.since]
    BY DEF Indexed, due
<1>8. QED
    BY <1>5, <1>6, <1>7 DEF Object

\* The turns of the loop.
Turns(base, frames) ==
    [k \in 1 .. Len(frames) |-> [v \in Object |-> Indexed(base, v, frames[k])]]

\* The loop takes its turns from the first frame to the last.
LEMMA IndexAllRuns ==
    ASSUME NEW base \in Nat, NEW s0 \in Object, NEW frames \in Seq(Frame)
    PROVE  \E F : /\ Runs(F, Len(frames), Object, s0, Turns(base, frames))
                  /\ F[Len(frames)] = IndexAll(base, s0, frames)
<1> DEFINE n == Len(frames)
           iter[s \in SUBSET DOMAIN frames] ==
             IF s = {} THEN s0
             ELSE LET x == CHOOSE x \in s : \A y \in s : x >= y
                  IN Indexed(base, iter[s \ {x}], frames[x])
           h == [k \in 1 .. n |-> [v \in Object |-> Indexed(base, v, frames[k])]]
           W == Object \cup {iter[s] : s \in SUBSET (1 .. n)}
           i == [k \in 1 .. n |-> [v \in W |-> Indexed(base, v, frames[k])]]
<1>1. IndexAll(base, s0, frames) = iter[DOMAIN frames]
    BY DEF IndexAll, FoldLeft, MapThenFoldSet, Max
<1>2. DOMAIN frames = 1 .. n /\ n \in Nat
    OBVIOUS
<1>3. \A k \in 1 .. n : \A v \in Object : Indexed(base, v, frames[k]) \in Object
  <2>1. \A k \in 1 .. n : frames[k] \in Frame
      OBVIOUS
  <2> HIDE DEF n
  <2>2. QED
      BY <2>1, IndexedIsObject
<1>4. h \in [1 .. n -> [Object -> Object]]
    BY <1>3
<1>5. PICK g : FoldsUp(g, n, Object, s0, h)
  <2> HIDE DEF h
  <2>1. QED
      BY <1>2, <1>4, FoldExists
<1>6. \A s \in SUBSET (1 .. n) : s # {} => Top(s) \in s /\ s \ {Top(s)} \in SUBSET (1 .. n)
    BY <1>2, TopExists
<1>7. g = [s \in SUBSET DOMAIN frames |->
             IF s = {} THEN s0
             ELSE LET x == CHOOSE x \in s : \A y \in s : x >= y
                  IN Indexed(base, g[s \ {x}], frames[x])]
  <2>1. /\ g \in [SUBSET (1 .. n) -> Object]
        /\ \A s \in SUBSET (1 .. n) :
              g[s] = IF s = {} THEN s0 ELSE h[Top(s)][g[s \ {Top(s)}]]
    <3> HIDE DEF h
    <3>1. QED
        BY <1>5 DEF FoldsUp
  <2>2. \A k \in 1 .. n : \A v \in Object : h[k][v] = Indexed(base, v, frames[k])
      OBVIOUS
  <2> HIDE DEF h, n
  <2>3. ASSUME NEW s \in SUBSET (1 .. n), s # {}
        PROVE  g[s] = LET x == CHOOSE x \in s : \A y \in s : x >= y
                      IN Indexed(base, g[s \ {x}], frames[x])
    <3>1. Top(s) \in 1 .. n /\ s \ {Top(s)} \in SUBSET (1 .. n)
        BY <1>6, <2>3
    <3>2. g[s \ {Top(s)}] \in Object
        BY <2>1, <3>1
    <3>3. g[s] = h[Top(s)][g[s \ {Top(s)}]]
        BY <2>1, <2>3
    <3>4. QED
        BY <2>2, <3>1, <3>2, <3>3 DEF Top
  <2>4. g = [s \in SUBSET (1 .. n) |-> g[s]]
      BY <2>1
  <2>5. g[{}] = s0
      BY <2>1
  <2>6. g = [s \in SUBSET (1 .. n) |->
               IF s = {} THEN s0
               ELSE LET x == CHOOSE x \in s : \A y \in s : x >= y
                    IN Indexed(base, g[s \ {x}], frames[x])]
      BY <2>3, <2>4, <2>5
  <2>7. QED
      BY <1>2, <2>6
<1>8. iter = [s \in SUBSET DOMAIN frames |->
             IF s = {} THEN s0
             ELSE LET x == CHOOSE x \in s : \A y \in s : x >= y
                  IN Indexed(base, iter[s \ {x}], frames[x])]
    BY <1>7 DEF iter
<1> HIDE DEF iter, h
<1>9. iter \in [SUBSET (1 .. n) -> W]
    BY <1>2, <1>8
<1>10. \A s \in SUBSET (1 .. n) :
          iter[s] = IF s = {} THEN s0 ELSE i[Top(s)][iter[s \ {Top(s)}]]
    BY <1>2, <1>6, <1>8, <1>9 DEF Top
<1>11. PICK F : Runs(F, n, Object, s0, i) /\ F[n] = iter[1 .. n]
  <2>1. n \in Nat /\ StepsIn(i, n, Object)
      BY <1>2, <1>3 DEF StepsIn
  <2>2. FoldsUp(iter, n, W, s0, i)
      BY <1>9, <1>10 DEF FoldsUp
  <2> HIDE DEF W, i, n
  <2>3. QED
      BY <2>1, <2>2, FoldIsRun
<1>12. Runs(F, n, Object, s0, Turns(base, frames))
  <2>1. F \in [0 .. n -> Object] /\ F[0] = s0 /\ \A k \in 1 .. n : F[k] = i[k][F[k - 1]]
    <3> HIDE DEF i, n
    <3>1. QED
        BY <1>11 DEF Runs
  <2>2. \A k \in 1 .. n : F[k - 1] \in Object
      BY <1>2, <2>1
  <2>3. \A k \in 1 .. n : F[k] = Turns(base, frames)[k][F[k - 1]]
      BY <2>1, <2>2 DEF Turns
  <2> HIDE DEF i, n
  <2>4. QED
      BY <2>1, <2>3 DEF Runs
<1>13. QED
    BY <1>1, <1>2, <1>11, <1>12

\* And so does the loop.
LEMMA IndexAllIsObject ==
    ASSUME NEW base \in Nat, NEW s0 \in Object, NEW frames \in Seq(Frame)
    PROVE  IndexAll(base, s0, frames) \in Object
<1>1. PICK F : /\ Runs(F, Len(frames), Object, s0, Turns(base, frames))
              /\ F[Len(frames)] = IndexAll(base, s0, frames)
    BY IndexAllRuns
<1>2. Len(frames) \in Nat
    OBVIOUS
<1>3. QED
    BY <1>1, <1>2 DEF Runs

\* The sequences of a sequence are joined one after another.
LEMMA FlattenRuns ==
    ASSUME NEW S, NEW n \in Nat, NEW sq \in [1 .. n -> Seq(S)]
    PROVE  \E F : Runs(F, n, Seq(S), <<>>, [k \in 1 .. n |-> [v \in Seq(S) |-> v \o sq[k]]])
                  /\ FlattenSeq(sq) = F[n]
<1> DEFINE V == Seq(S)
           h == [k \in 1 .. n |-> [v \in V |-> v \o sq[k]]]
           flatten[i \in 1 .. Len(sq)] == IF i = 1 THEN sq[i] ELSE flatten[i - 1] \o sq[i]
<1>1. FlattenSeq(sq) = IF Len(sq) = 0 THEN sq ELSE flatten[Len(sq)]
    BY DEF FlattenSeq
<1>2. Len(sq) = n
    OBVIOUS
<1>3. <<>> \in V /\ h \in [1 .. n -> [V -> V]]
    OBVIOUS
<1>4. PICK F : Runs(F, n, V, <<>>, h)
  <2> DEFINE v0 == <<>>
  <2> HIDE DEF h, V, v0
  <2>1. v0 \in V
      BY <1>3 DEF v0
  <2>2. \E F : Runs(F, n, V, v0, h)
      BY <1>3, <2>1, RunExists
  <2>3. QED
      BY <2>2 DEF v0
<1>5. F \in [0 .. n -> V] /\ F[0] = <<>> /\ \A k \in 1 .. n : F[k] = F[k - 1] \o sq[k]
  <2>1. F \in [0 .. n -> V] /\ F[0] = <<>> /\ \A k \in 1 .. n : F[k] = h[k][F[k - 1]]
    <3> HIDE DEF h, V
    <3>1. QED
        BY <1>4 DEF Runs
  <2>2. \A k \in 1 .. n : F[k - 1] \in V
      BY <2>1
  <2>3. QED
      BY <2>1, <2>2
<1> DEFINE G == [i \in 1 .. n |-> F[i]]
<1>6. G = [i \in 1 .. Len(sq) |-> IF i = 1 THEN sq[i] ELSE G[i - 1] \o sq[i]]
  <2>1. \A i \in 1 .. n : i # 1 => i - 1 \in 1 .. n
      OBVIOUS
  <2>2. 1 \in 1 .. n => F[1] = sq[1]
    <3> SUFFICES ASSUME 1 \in 1 .. n PROVE F[1] = sq[1]
        OBVIOUS
    <3>1. sq[1] \in Seq(S) /\ 1 - 1 = 0
        OBVIOUS
    <3>2. F[1] = F[0] \o sq[1] /\ F[0] = <<>>
        BY <1>5, <3>1
    <3>3. \A t \in Seq(S) : <<>> \o t = t
        OBVIOUS
    <3>4. QED
        BY <3>1, <3>2, <3>3
  <2>3. \A i \in 1 .. n : F[i] = IF i = 1 THEN sq[i] ELSE G[i - 1] \o sq[i]
      BY <1>5, <2>1, <2>2
  <2>4. QED
      BY <1>2, <2>3
<1>7. flatten = [i \in 1 .. Len(sq) |-> IF i = 1 THEN sq[i] ELSE flatten[i - 1] \o sq[i]]
    BY <1>6 DEF flatten
<1> HIDE DEF flatten, G
<1>8. ASSUME NEW k \in 1 .. n, flatten[k] # F[k] PROVE FALSE
  <2> DEFINE Bad == {i \in 1 .. n : flatten[i] # F[i]}
  <2>1. Bad \in SUBSET Nat /\ Bad # {}
      BY <1>8
  <2> HIDE DEF Bad
  <2>2. PICK i \in Bad : \A y \in Bad : i <= y
      BY <2>1, LeastExists
  <2>3. i \in 1 .. n /\ flatten[i] # F[i]
      BY <2>2 DEF Bad
  <2>4. flatten[i] = IF i = 1 THEN sq[i] ELSE flatten[i - 1] \o sq[i]
      BY <1>2, <1>7, <2>3
  <2>5. F[i] = IF i = 1 THEN sq[i] ELSE F[i - 1] \o sq[i]
    <3>1. i # 1 => i - 1 \in 1 .. n
        BY <2>3
    <3>2. F[i] = G[i] /\ (i # 1 => G[i - 1] = F[i - 1])
        BY <2>3, <3>1 DEF G
    <3>3. QED
        BY <1>2, <1>6, <2>3, <3>2 DEF G
  <2>6. i # 1 /\ flatten[i - 1] # F[i - 1]
      BY <2>3, <2>4, <2>5
  <2>7. i - 1 \in Bad /\ ~(i <= i - 1)
      BY <2>3, <2>6 DEF Bad
  <2>8. QED
      BY <2>2, <2>7
<1>9. FlattenSeq(sq) = F[n]
  <2>1. CASE n = 0
    <3>1. sq = <<>>
        BY <2>1
    <3>2. QED
        BY <1>1, <1>2, <1>5, <2>1, <3>1
  <2>2. CASE n # 0
    <3>1. n \in 1 .. n
        BY <2>2
    <3>2. QED
        BY <1>1, <1>2, <1>8, <2>2, <3>1
  <2>3. QED
      BY <2>1, <2>2
<1>10. QED
    BY <1>4, <1>9

-----------------------------------------------------------------------------
(* The records on disk *)

\* The records that the files segs hold.
StoredOf(segs) == FlattenSeq([i \in 1 .. Len(segs) |-> Clean(segs[i].frames)])

\* What the parts of files are.
LEMMA CleanOfSegments ==
    ASSUME NEW segs \in Seq(Segment)
    PROVE  /\ Len(segs) \in Nat
           /\ \A i \in 1 .. Len(segs) : /\ segs[i] \in Segment /\ segs[i].frames \in Seq(Frame)
                                        /\ segs[i].base \in Nat
                                        /\ Clean(segs[i].frames) \in Seq(Frame)
           /\ [i \in 1 .. Len(segs) |-> Clean(segs[i].frames)] \in [1 .. Len(segs) -> Seq(Frame)]
<1>1. Len(segs) \in Nat /\ \A i \in 1 .. Len(segs) : segs[i] \in Segment
    OBVIOUS
<1>2. \A i \in 1 .. Len(segs) : segs[i].frames \in Seq(Frame) /\ segs[i].base \in Nat
    BY <1>1 DEF Segment
<1>3. \A i \in 1 .. Len(segs) : Clean(segs[i].frames) \in Seq(Frame)
    BY <1>2, CleanFacts
<1>4. QED
    BY <1>1, <1>2, <1>3

\* The last file's records are behind those of the files before it.
LEMMA StoredLast ==
    ASSUME NEW m \in Nat, NEW segs \in Seq(Segment), NEW us \in Seq(Segment),
           Len(segs) = m + 1, Len(us) = m,
           \A i \in 1 .. m : Clean(segs[i].frames) = Clean(us[i].frames)
    PROVE  /\ StoredOf(us) \in Seq(Frame)
           /\ StoredOf(segs) = StoredOf(us) \o Clean(segs[m + 1].frames)
<1> DEFINE sq == [i \in 1 .. m + 1 |-> Clean(segs[i].frames)]
           sr == [i \in 1 .. m |-> Clean(us[i].frames)]
           V == Seq(Frame)
           h == [k \in 1 .. m + 1 |-> [v \in V |-> v \o sq[k]]]
           i == [k \in 1 .. m |-> [v \in V |-> v \o sr[k]]]
           v0 == <<>>
<1>1. sq \in [1 .. m + 1 -> V] /\ sr \in [1 .. m -> V]
  <2>1. sq \in [1 .. m + 1 -> V]
      BY CleanOfSegments
  <2>2. sr \in [1 .. m -> V]
      BY CleanOfSegments
  <2>3. QED
      BY <2>1, <2>2
<1>2. StoredOf(segs) = FlattenSeq(sq) /\ StoredOf(us) = FlattenSeq(sr)
    BY DEF StoredOf
<1>3. \A k \in 1 .. m : k \in 1 .. m + 1
    OBVIOUS
<1>4. \A k \in 1 .. m : h[k] = i[k]
    BY <1>3
<1>5. sq[m + 1] = Clean(segs[m + 1].frames) /\ m + 1 \in 1 .. m + 1 /\ m + 1 \in Nat
    OBVIOUS
<1>6. \A v \in V : h[m + 1][v] = v \o sq[m + 1]
    BY <1>5
<1>7. PICK F : Runs(F, m + 1, V, v0, h) /\ FlattenSeq(sq) = F[m + 1]
  <2>1. \E F : Runs(F, m + 1, Seq(Frame), <<>>,
                    [k \in 1 .. m + 1 |-> [v \in Seq(Frame) |-> v \o sq[k]]])
               /\ FlattenSeq(sq) = F[m + 1]
    <3> HIDE DEF sq
    <3>1. QED
        BY <1>1, <1>5, FlattenRuns
  <2>2. QED
      BY <2>1
<1>8. PICK G : Runs(G, m, V, v0, i) /\ FlattenSeq(sr) = G[m]
  <2>1. \E H : Runs(H, m, Seq(Frame), <<>>,
                    [k \in 1 .. m |-> [v \in Seq(Frame) |-> v \o sr[k]]])
               /\ FlattenSeq(sr) = H[m]
    <3> HIDE DEF sr
    <3>1. QED
        BY <1>1, FlattenRuns
  <2>2. QED
      BY <2>1
<1> HIDE DEF h, i, sq, sr, v0
<1>9. \A k \in 0 .. m : F[k] = G[k]
  <2>1. m \in 0 .. m + 1
      OBVIOUS
  <2>2. QED
      BY <1>4, <1>5, <1>7, <1>8, <2>1, RunIsUnique
<1>10. G[m] \in V /\ F[m] = G[m] /\ F[m + 1] = h[m + 1][F[m]]
  <2>1. m \in 0 .. m /\ (m + 1) - 1 = m
      OBVIOUS
  <2>2. QED
      BY <1>5, <1>7, <1>8, <1>9, <2>1 DEF Runs
<1>11. QED
    BY <1>2, <1>5, <1>6, <1>7, <1>8, <1>10

\* The records on disk are frames; without files there are none.
LEMMA StoredTypes ==
    ASSUME NEW segs \in Seq(Segment)
    PROVE  StoredOf(segs) \in Seq(Frame) /\ (Len(segs) = 0 => StoredOf(segs) = <<>>)
<1>1. CASE Len(segs) = 0
  <2>1. [i \in 1 .. Len(segs) |-> Clean(segs[i].frames)] = <<>>
      BY <1>1
  <2>2. FlattenSeq(<<>>) = <<>>
      BY DEF FlattenSeq
  <2>3. QED
      BY <2>1, <2>2 DEF StoredOf
<1>2. CASE Len(segs) # 0
  <2> DEFINE vs == Append(segs, segs[1])
  <2>1. segs[1] \in Segment /\ Len(segs) \in Nat
      BY <1>2
  <2>2. /\ vs \in Seq(Segment) /\ Len(vs) = Len(segs) + 1
        /\ \A i \in 1 .. Len(segs) : vs[i] = segs[i]
      BY <2>1
  <2> HIDE DEF vs
  <2>3. \A i \in 1 .. Len(segs) : Clean(vs[i].frames) = Clean(segs[i].frames)
      BY <2>2
  <2>4. StoredOf(segs) \in Seq(Frame)
      BY <2>1, <2>2, <2>3, StoredLast
  <2>5. QED
      BY <1>2, <2>4
<1>3. QED
    BY <1>1, <1>2

-----------------------------------------------------------------------------
(* Sound files *)

\* One past the last record of the last file.
EndOf(segs) ==
    IF Len(segs) = 0 THEN 0
    ELSE segs[Len(segs)].base + Len(Clean(segs[Len(segs)].frames))

\* The records of a file follow its base, and at most one torn frame follows them.
InOrder(seg) ==
    /\ seg.base + Len(Clean(seg.frames)) <= MaxOffset
    /\ \A k \in 1 .. Len(Clean(seg.frames)) : seg.frames[k].offset = seg.base + k - 1
    /\ Len(seg.frames) <= Len(Clean(seg.frames)) + 1

\* The files hold one log without gaps.
Sound(segs) ==
    /\ segs \in Seq(Segment)
    /\ \A i \in 1 .. Len(segs) : InOrder(segs[i])
    /\ Len(StoredOf(segs)) = EndOf(segs)
    /\ \A o \in 1 .. EndOf(segs) : StoredOf(segs)[o].offset = o - 1

\* The log end is a bounded offset.
LEMMA EndInBounds ==
    ASSUME NEW segs, Sound(segs)
    PROVE  EndOf(segs) \in 0 .. MaxOffset
<1>1. segs \in Seq(Segment) /\ Len(segs) \in Nat
    BY DEF Sound
<1>2. CASE Len(segs) = 0
    BY <1>2, BoundAssumption DEF EndOf
<1>3. CASE Len(segs) # 0
  <2>1. Len(segs) \in 1 .. Len(segs)
      BY <1>1, <1>3
  <2> DEFINE seg == segs[Len(segs)]
  <2>2. InOrder(seg) /\ seg.base \in Nat /\ Clean(seg.frames) \in Seq(Frame)
      BY <1>1, <2>1, CleanOfSegments DEF Sound
  <2>3. Len(Clean(seg.frames)) \in Nat
      BY <2>2
  <2>4. QED
      BY <1>3, <2>2, <2>3, BoundAssumption DEF InOrder, EndOf
<1>4. QED
    BY <1>2, <1>3

-----------------------------------------------------------------------------
(* What an operation does to the files *)

\* create_empty: a file without frames.
LEMMA NewSegmentFacts ==
    ASSUME NEW base \in Nat
    PROVE  /\ NewSegment(base) \in Segment /\ NewSegment(base).base = base
           /\ NewSegment(base).frames = <<>> /\ Clean(NewSegment(base).frames) = <<>>
           /\ Whole(NewSegment(base).frames)
<1>1. NewSegment(base) = [base |-> base, frames |-> <<>>, index |-> <<>>]
    BY DEF NewSegment
<1>2. <<>> \in Seq(Frame) /\ <<>> \in Index
    BY DEF Index
<1>3. NewSegment(base) \in Segment
    BY <1>1, <1>2 DEF Segment
<1> DEFINE u == NewSegment(base).frames
<1>4. u = <<>> /\ u \in Seq(Frame) /\ Len(u) = 0
    BY <1>1, <1>2
<1> HIDE DEF u
<1>5. Whole(u)
    BY <1>4 DEF Whole
<1>6. Clean(u) = u
    BY <1>4, <1>5, CleanFacts
<1>7. QED
    BY <1>1, <1>3, <1>4, <1>5, <1>6 DEF u

\* A new file for the records from the log end on changes no record.
LEMMA NewFile ==
    ASSUME NEW segs, Sound(segs), NEW vs, vs = Append(segs, NewSegment(EndOf(segs)))
    PROVE  /\ Sound(vs) /\ Len(vs) = Len(segs) + 1 /\ Len(segs) \in Nat
           /\ StoredOf(vs) = StoredOf(segs) /\ EndOf(vs) = EndOf(segs)
           /\ vs[Len(vs)] = NewSegment(EndOf(segs))
<1> DEFINE new == NewSegment(EndOf(segs))
<1>1. segs \in Seq(Segment) /\ EndOf(segs) \in Nat /\ EndOf(segs) <= MaxOffset
    BY EndInBounds, BoundAssumption DEF Sound
<1>2. /\ new \in Segment /\ new.base = EndOf(segs) /\ new.frames = <<>>
      /\ Clean(new.frames) = <<>>
    BY <1>1, NewSegmentFacts
<1> HIDE DEF new
<1>3. vs = Append(segs, new)
    BY DEF new
<1>4. /\ vs \in Seq(Segment) /\ Len(vs) = Len(segs) + 1 /\ Len(segs) \in Nat
      /\ vs[Len(segs) + 1] = new /\ \A i \in 1 .. Len(segs) : vs[i] = segs[i]
    BY <1>1, <1>2, <1>3
<1>5. StoredOf(vs) = StoredOf(segs)
  <2>1. StoredOf(segs) \in Seq(Frame) /\ StoredOf(vs) = StoredOf(segs) \o Clean(new.frames)
    <3>1. \A i \in 1 .. Len(segs) : Clean(vs[i].frames) = Clean(segs[i].frames)
        BY <1>4
    <3>2. QED
        BY <1>1, <1>4, <3>1, StoredLast
  <2>2. QED
      BY <1>2, <2>1
<1>6. EndOf(vs) = EndOf(segs)
    BY <1>1, <1>2, <1>4 DEF EndOf
<1>7. InOrder(new)
    BY <1>1, <1>2 DEF InOrder
<1>8. \A i \in 1 .. Len(vs) : InOrder(vs[i])
  <2>1. \A i \in 1 .. Len(vs) : i \in 1 .. Len(segs) \/ i = Len(segs) + 1
      BY <1>4
  <2>2. \A i \in 1 .. Len(segs) : InOrder(segs[i])
      BY DEF Sound
  <2>3. QED
      BY <1>4, <1>7, <2>1, <2>2
<1>9. Sound(vs)
    BY <1>4, <1>5, <1>6, <1>8 DEF Sound
<1>10. QED
    BY <1>1, <1>3, <1>4, <1>5, <1>6, <1>9 DEF new

\* Other frames and another index in the last file.
LastSet(B, w, y) == [B EXCEPT ![Len(B)].frames = w, ![Len(B)].index = y]

\* The other files stay.
LEMMA LastReplaced ==
    ASSUME NEW B \in Seq(Segment), Len(B) # 0, NEW w \in Seq(Frame), NEW y \in Index
    PROVE  /\ LastSet(B, w, y) \in Seq(Segment) /\ Len(LastSet(B, w, y)) = Len(B)
           /\ Len(B) \in Nat /\ Len(B) \in 1 .. Len(B)
           /\ LastSet(B, w, y)[Len(B)].base = B[Len(B)].base
           /\ LastSet(B, w, y)[Len(B)].frames = w /\ LastSet(B, w, y)[Len(B)].index = y
           /\ \A i \in 1 .. Len(B) : i # Len(B) => LastSet(B, w, y)[i] = B[i]
<1> DEFINE n == Len(B)
           vs == LastSet(B, w, y)
           seg == [B[n] EXCEPT !.frames = w, !.index = y]
<1>1. n \in Nat /\ n \in 1 .. n /\ B[n] \in Segment /\ DOMAIN B = 1 .. n
    OBVIOUS
<1>2. seg \in Segment /\ seg.base = B[n].base /\ seg.frames = w /\ seg.index = y
    BY <1>1 DEF Segment
<1>3. vs = [B EXCEPT ![n] = seg]
    BY <1>1 DEF LastSet
<1> HIDE DEF seg, vs, n
<1>4. vs \in Seq(Segment) /\ Len(vs) = n
    BY <1>1, <1>2, <1>3
<1>5. vs[n] = seg /\ \A i \in 1 .. n : i # n => vs[i] = B[i]
    BY <1>1, <1>3
<1>6. QED
    BY <1>1, <1>2, <1>4, <1>5 DEF vs, n

\* The clean part of the last file grows by t: so does the log.
LEMMA Lengthened ==
    ASSUME NEW B, Sound(B), Len(B) # 0,
           NEW w \in Seq(Frame), NEW y \in Index, NEW t \in Seq(Frame),
           Clean(w) = Clean(B[Len(B)].frames) \o t, Len(w) <= Len(Clean(w)) + 1,
           EndOf(B) + Len(t) <= MaxOffset,
           \A k \in 1 .. Len(t) : t[k].offset = EndOf(B) + k - 1
    PROVE  /\ Sound(LastSet(B, w, y)) /\ Len(LastSet(B, w, y)) = Len(B)
           /\ LastSet(B, w, y)[Len(B)].frames = w
           /\ StoredOf(LastSet(B, w, y)) = StoredOf(B) \o t
           /\ EndOf(LastSet(B, w, y)) = EndOf(B) + Len(t)
<1> DEFINE n == Len(B)
           vs == LastSet(B, w, y)
<1>1. B \in Seq(Segment) /\ EndOf(B) \in Nat /\ Len(t) \in Nat
    BY EndInBounds, BoundAssumption DEF Sound
<1>2. /\ vs \in Seq(Segment) /\ Len(vs) = n /\ n \in Nat /\ n \in 1 .. n
      /\ vs[n].base = B[n].base /\ vs[n].frames = w
      /\ \A i \in 1 .. n : i # n => vs[i] = B[i]
    BY <1>1, LastReplaced
<1> HIDE DEF vs
<1> DEFINE c == Clean(B[n].frames)
<1>3. c \in Seq(Frame) /\ B[n].base \in Nat /\ B[n].frames \in Seq(Frame) /\ InOrder(B[n])
    BY <1>1, <1>2, CleanOfSegments DEF Sound
<1>4. EndOf(B) = B[n].base + Len(c)
    BY DEF EndOf
<1>5. Clean(w) \in Seq(Frame) /\ Len(c) \in Nat /\ Joined(Clean(w), c, t)
    BY <1>3, Concatenated
<1>6. EndOf(vs) = EndOf(B) + Len(t)
  <2>1. EndOf(vs) = vs[n].base + Len(Clean(vs[n].frames))
      BY <1>2 DEF EndOf
  <2>2. Len(Clean(w)) = Len(c) + Len(t)
      BY <1>5 DEF Joined
  <2>3. EndOf(vs) = B[n].base + (Len(c) + Len(t))
      BY <1>2, <2>1, <2>2
  <2> HIDE DEF c, n
  <2>4. QED
      BY <1>1, <1>3, <1>4, <1>5, <2>3
<1>7. StoredOf(vs) = StoredOf(B) \o t /\ StoredOf(B) \in Seq(Frame)
  <2> DEFINE m == n - 1
             us == SubSeq(B, 1, m)
  <2>1. /\ m \in Nat /\ m + 1 = n /\ us \in Seq(Segment) /\ Len(us) = m
        /\ \A i \in 1 .. m : us[i] = B[i] /\ i \in 1 .. n /\ i # n
      BY <1>1, <1>2
  <2> HIDE DEF us, m
  <2>2. \A i \in 1 .. m : /\ Clean(B[i].frames) = Clean(us[i].frames)
                          /\ Clean(vs[i].frames) = Clean(us[i].frames)
      BY <1>2, <2>1
  <2>3. StoredOf(us) \in Seq(Frame) /\ StoredOf(B) = StoredOf(us) \o c
    <3>1. Len(B) = m + 1
        BY <2>1
    <3>2. StoredOf(us) \in Seq(Frame) /\ StoredOf(B) = StoredOf(us) \o Clean(B[m + 1].frames)
        BY <1>1, <2>1, <2>2, <3>1, StoredLast
    <3>3. QED
        BY <2>1, <3>2
  <2>4. StoredOf(vs) = StoredOf(us) \o (c \o t)
    <3>1. Len(vs) = m + 1
        BY <1>2, <2>1
    <3>2. StoredOf(vs) = StoredOf(us) \o Clean(vs[m + 1].frames)
      <4>1. vs \in Seq(Segment) /\ us \in Seq(Segment) /\ m \in Nat /\ Len(us) = m
          BY <1>2, <2>1
      <4>2. \A i \in 1 .. m : Clean(vs[i].frames) = Clean(us[i].frames)
          BY <2>2
      <4>3. QED
          BY <3>1, <4>1, <4>2, StoredLast
    <3>3. QED
        BY <1>2, <2>1, <3>2
  <2>5. StoredOf(us) \o (c \o t) = (StoredOf(us) \o c) \o t
    <3>1. \A a \in Seq(Frame), b \in Seq(Frame), d \in Seq(Frame) : a \o (b \o d) = (a \o b) \o d
        OBVIOUS
    <3> HIDE DEF c
    <3>2. QED
        BY <1>3, <2>3, <3>1
  <2>6. StoredOf(us) \o c \in Seq(Frame)
      BY <1>3, <2>3
  <2>7. QED
      BY <2>3, <2>4, <2>5, <2>6
<1> DEFINE s == StoredOf(B)
           u == StoredOf(vs)
<1>8. Len(s) = EndOf(B) /\ \A o \in 1 .. EndOf(B) : s[o].offset = o - 1
    BY DEF Sound
<1> HIDE DEF s, u
<1>9. u = s \o t /\ s \in Seq(Frame)
    BY <1>7 DEF s, u
<1>10. Joined(u, s, t)
    BY <1>9, Concatenated
<1>11. Len(u) = EndOf(vs) /\ \A o \in 1 .. EndOf(vs) : u[o].offset = o - 1
  <2>1. Len(u) = EndOf(B) + Len(t)
      BY <1>8, <1>10 DEF Joined
  <2>2. ASSUME NEW o \in 1 .. EndOf(vs) PROVE u[o].offset = o - 1
    <3>1. o \in 1 .. EndOf(B) \/ \E k \in 1 .. Len(t) : o = EndOf(B) + k
      <4>1. o \in 1 .. EndOf(B) + Len(t)
          BY <1>6
      <4>2. QED
          BY <1>1, <4>1, TwoParts
    <3>2. ASSUME o \in 1 .. EndOf(B) PROVE u[o].offset = o - 1
      <4>1. u[o] = s[o]
          BY <1>8, <1>10, <3>2 DEF Joined
      <4>2. QED
          BY <1>8, <3>2, <4>1
    <3>3. ASSUME NEW k \in 1 .. Len(t), o = EndOf(B) + k PROVE u[o].offset = o - 1
      <4>1. u[o] = t[k]
          BY <1>8, <1>10, <3>3 DEF Joined
      <4>2. t[k].offset = EndOf(B) + k - 1
          OBVIOUS
      <4>3. QED
          BY <1>1, <3>3, <4>1, <4>2
    <3>4. QED
        BY <3>1, <3>2, <3>3
  <2>3. QED
      BY <1>6, <2>1, <2>2
<1>12. InOrder(vs[n])
  <2>1. vs[n].base + Len(Clean(vs[n].frames)) <= MaxOffset
      BY <1>2, <1>6 DEF EndOf
  <2>2. Len(vs[n].frames) <= Len(Clean(vs[n].frames)) + 1
      BY <1>2
  <2>3. ASSUME NEW k \in 1 .. Len(Clean(w)) PROVE w[k].offset = B[n].base + k - 1
    <3>1. Clean(w)[k] = w[k]
        BY CleanFacts
    <3>2. Len(Clean(w)) = Len(c) + Len(t)
        BY <1>5 DEF Joined
    <3>3. k \in 1 .. Len(c) \/ \E j \in 1 .. Len(t) : k = Len(c) + j
      <4> HIDE DEF c
      <4>1. k \in 1 .. Len(c) + Len(t)
          BY <3>2
      <4>2. QED
          BY <1>1, <1>5, <4>1, TwoParts
    <3>4. ASSUME k \in 1 .. Len(c) PROVE w[k].offset = B[n].base + k - 1
      <4>1. w[k] = c[k]
          BY <1>5, <3>1, <3>4 DEF Joined
      <4>2. c[k] = B[n].frames[k]
          BY <1>3, <3>4, CleanFacts
      <4>3. B[n].frames[k].offset = B[n].base + k - 1
          BY <1>3, <3>4 DEF InOrder
      <4>4. QED
          BY <4>1, <4>2, <4>3
    <3>5. ASSUME NEW j \in 1 .. Len(t), k = Len(c) + j PROVE w[k].offset = B[n].base + k - 1
      <4>1. w[k] = t[j]
          BY <1>5, <3>1, <3>5 DEF Joined
      <4>2. t[j].offset = EndOf(B) + j - 1
          OBVIOUS
      <4> HIDE DEF c
      <4>3. QED
          BY <1>1, <1>3, <1>4, <1>5, <3>5, <4>1, <4>2
    <3>6. QED
        BY <3>3, <3>4, <3>5
  <2>4. QED
      BY <1>2, <2>1, <2>2, <2>3 DEF InOrder
<1>13. \A i \in 1 .. Len(vs) : InOrder(vs[i])
  <2>1. \A i \in 1 .. Len(B) : InOrder(B[i])
      BY DEF Sound
  <2>2. QED
      BY <1>2, <1>12, <2>1
<1>14. Sound(vs)
    BY <1>2, <1>11, <1>13 DEF Sound, u
<1>15. QED
    BY <1>2, <1>6, <1>7, <1>14 DEF vs

-----------------------------------------------------------------------------
(* Batches *)

\* An append's records are whole and numbered from nextOffset_ on.
LEMMA BatchFacts ==
    ASSUME nextOffset \in Nat, crashes \in Nat, NEW batch \in Batches
    PROVE  /\ batch \in Seq(Frame) /\ Len(batch) \in Nat /\ Whole(batch)
           /\ \A k \in 1 .. Len(batch) : batch[k].offset = nextOffset + k - 1
<1>1. PICK n \in 1 .. MaxBatch, sizes \in [1 .. MaxBatch -> FrameSize] :
         batch = [i \in 1 .. n |-> [offset |-> nextOffset + i - 1,
                                    payload |-> [size |-> sizes[i], life |-> crashes]]]
    BY DEF Batches
<1>2. n \in Nat /\ MaxBatch \in Nat
    BY BoundAssumption
<1>3. \A i \in 1 .. n : sizes[i] \in Nat /\ nextOffset + i - 1 \in Nat
  <2>1. \A i \in 1 .. n : sizes[i] \in FrameSize
      BY <1>2
  <2>2. FrameSize \subseteq Nat
      BY SizeAssumption
  <2>3. \A i \in 1 .. n : nextOffset + i - 1 \in Nat
      BY <1>2
  <2>4. QED
      BY <2>1, <2>2, <2>3
<1>4. \A i \in 1 .. n : batch[i] \in Frame /\ batch[i].offset = nextOffset + i - 1
  <2> SUFFICES ASSUME NEW i \in 1 .. n
               PROVE  batch[i] \in Frame /\ batch[i].offset = nextOffset + i - 1
      OBVIOUS
  <2>1. batch[i] = [offset |-> nextOffset + i - 1,
                    payload |-> [size |-> sizes[i], life |-> crashes]]
      BY <1>1
  <2>2. [size |-> sizes[i], life |-> crashes] \in Payload
      BY <1>3 DEF Payload
  <2>3. QED
      BY <1>3, <2>1, <2>2 DEF Frame
<1>5. batch \in Seq(Frame) /\ Len(batch) = n
    BY <1>1, <1>2, <1>4
<1>6. Whole(batch)
  <2>1. \A k \in 1 .. Len(batch) : batch[k].offset \in Nat
      BY <1>3, <1>4, <1>5
  <2>2. QED
      BY <2>1 DEF Whole, Torn
<1>7. QED
    BY <1>2, <1>4, <1>5, <1>6

\* The largest of some counts.
LEMMA MaxExists ==
    ASSUME NEW n \in Nat, NEW s \in SUBSET (0 .. n), s # {}
    PROVE  Max(s) \in s
<1>1. \E x \in s : \A y \in s : x >= y
    BY GreatestExists
<1>2. QED
    BY <1>1 DEF Max

\* The first records of a batch.
LEMMA PartOf ==
    ASSUME NEW batch \in Seq(Frame), NEW k \in 0 .. Len(batch)
    PROVE  /\ SubSeq(batch, 1, k) \in Seq(Frame) /\ Len(SubSeq(batch, 1, k)) = k
           /\ \A i \in 1 .. k : SubSeq(batch, 1, k)[i] = batch[i]
           /\ Whole(batch) => Whole(SubSeq(batch, 1, k))
<1> DEFINE t == SubSeq(batch, 1, k)
<1>1. t \in Seq(Frame) /\ Len(t) = k /\ \A i \in 1 .. k : t[i] = batch[i]
    OBVIOUS
<1>2. \A i \in 1 .. k : i \in 1 .. Len(batch)
    OBVIOUS
<1> HIDE DEF t
<1>3. Whole(batch) => Whole(t)
    BY <1>1, <1>2 DEF Whole
<1>4. QED
    BY <1>1, <1>3 DEF t

\* Some bytes of a batch are some whole records, and perhaps a torn one.
LEMMA FirstBytesParts ==
    ASSUME NEW batch \in Seq(Frame), NEW b \in Nat, crashes \in Nat
    PROVE  \E k \in 0 .. Len(batch) : \E r \in Seq(Frame) :
              /\ FirstBytes(batch, b) = SubSeq(batch, 1, k) \o r
              /\ r = <<>> \/ (Len(r) = 1 /\ r[1].offset = Torn)
<1> DEFINE fit == {k \in 0 .. Len(batch) : Bytes(SubSeq(batch, 1, k)) <= b}
           k == Max(fit)
           rest == b - Bytes(SubSeq(batch, 1, k))
           torn == [offset |-> Torn, payload |-> [size |-> rest, life |-> crashes]]
           r == IF rest = 0 THEN <<>> ELSE <<torn>>
<1>1. Len(batch) \in Nat
    OBVIOUS
<1>2. \A j \in 0 .. Len(batch) : Bytes(SubSeq(batch, 1, j)) \in Nat
    BY PartOf, BytesInNat
<1>3. 0 \in fit
  <2>1. Bytes(SubSeq(batch, 1, 0)) = 0
    <3>1. 0 \in 0 .. Len(batch)
        BY <1>1
    <3>2. SubSeq(batch, 1, 0) \in Seq(Frame) /\ Len(SubSeq(batch, 1, 0)) = 0
        BY <3>1, PartOf
    <3>3. QED
        BY <3>2, BytesInNat
  <2>2. QED
      BY <1>1, <2>1
<1>4. k \in fit
  <2> DEFINE F == fit
  <2>1. F \in SUBSET (0 .. Len(batch)) /\ F # {}
      BY <1>3
  <2> HIDE DEF F
  <2>2. Max(F) \in F
      BY <1>1, <2>1, MaxExists
  <2>3. QED
      BY <2>2 DEF F
<1>5. k \in 0 .. Len(batch) /\ Bytes(SubSeq(batch, 1, k)) <= b
  <2> DEFINE m == k
  <2>1. m \in fit
      BY <1>4
  <2> HIDE DEF m
  <2>2. m \in 0 .. Len(batch) /\ Bytes(SubSeq(batch, 1, m)) <= b
      BY <2>1
  <2>3. QED
      BY <2>2 DEF m
<1>6. FirstBytes(batch, b) = SubSeq(batch, 1, k) \o r
    BY DEF FirstBytes
<1> HIDE DEF k, fit
<1>7. rest \in Nat
    BY <1>2, <1>5
<1> HIDE DEF rest
<1>8. torn \in Frame
    BY <1>7 DEF Frame, Payload
<1>9. r \in Seq(Frame) /\ (r = <<>> \/ (Len(r) = 1 /\ r[1].offset = Torn))
  <2>1. <<torn>> \in Seq(Frame) /\ Len(<<torn>>) = 1 /\ <<torn>>[1].offset = Torn
      BY <1>8
  <2>2. <<>> \in Seq(Frame)
      OBVIOUS
  <2> HIDE DEF torn
  <2>3. QED
      BY <2>1, <2>2
<1> HIDE DEF r
<1>10. QED
    BY <1>5, <1>6, <1>9

-----------------------------------------------------------------------------
(* The inductive invariant *)

\* A running process has an object for every file, an active file without a torn
\* frame, and the log end in nextOffset.
Working ==
    up => /\ Len(segments) # 0 /\ Len(open) = Len(segments)
          /\ Whole(segments[Len(segments)].frames)
          /\ nextOffset = EndOf(segments)

LogInv ==
    /\ Sound(segments)
    /\ open \in Seq(Object)
    /\ acked \in 0 .. EndOf(segments)
    /\ nextOffset \in 0 .. MaxOffset /\ hwm \in 0 .. nextOffset
    /\ crashes \in 0 .. MaxCrashes /\ up \in BOOLEAN
    /\ Working

\* The log on disk has grown by t.
GrowsBy(t) ==
    /\ t \in Seq(Frame)
    /\ \A k \in 1 .. Len(t) : t[k].offset = EndOf(segments) + k - 1
    /\ StoredOf(segments') = StoredOf(segments) \o t

\* What a step of the abstract log is here.
LogStep == (\E t : GrowsBy(t)) /\ (acked' = acked \/ acked' = Len(StoredOf(segments')))

\* Records that are put behind none.
LEMMA NothingBehind ==
    ASSUME NEW segs, Sound(segs)
    PROVE  /\ StoredOf(segs) \o <<>> = StoredOf(segs)
           /\ EndOf(segs) + Len(<<>>) = EndOf(segs)
           /\ EndOf(segs) + Len(<<>>) <= MaxOffset
           /\ <<>> \in Seq(Frame)
           /\ \A k \in 1 .. Len(<<>>) : <<>>[k].offset = EndOf(segs) + k - 1
<1>1. EndOf(segs) \in 0 .. MaxOffset /\ MaxOffset \in Nat
    BY EndInBounds, BoundAssumption
<1>2. StoredOf(segs) \in Seq(Frame)
    BY StoredTypes DEF Sound
<1>3. StoredOf(segs) \o <<>> = StoredOf(segs)
    BY <1>2
<1>4. <<>> \in Seq(Frame) /\ Len(<<>>) = 0
    OBVIOUS
<1>5. QED
    BY <1>1, <1>3, <1>4

\* Files with the same records hold a log that has grown by none.
LEMMA NoGrowth ==
    ASSUME Sound(segments), StoredOf(segments') = StoredOf(segments)
    PROVE  \E t : GrowsBy(t)
<1>1. GrowsBy(<<>>)
    BY NothingBehind DEF GrowsBy
<1>2. QED
    BY <1>1

\* The files and the objects an append starts on.
LEMMA RolledFacts ==
    ASSUME LogInv, up
    PROVE  /\ Sound(Rolled) /\ Len(Rolled) # 0 /\ Whole(Rolled[Len(Rolled)].frames)
           /\ StoredOf(Rolled) = StoredOf(segments) /\ EndOf(Rolled) = nextOffset
           /\ RolledOpen \in Seq(Object) /\ Len(RolledOpen) = Len(Rolled)
<1>1. /\ Sound(segments) /\ Len(segments) # 0 /\ Whole(segments[Len(segments)].frames)
      /\ EndOf(segments) = nextOffset /\ open \in Seq(Object) /\ Len(open) = Len(segments)
    BY DEF LogInv, Working
<1>2. CASE ~MustRoll
    BY <1>1, <1>2 DEF Rolled, RolledOpen
<1>3. CASE MustRoll
  <2> DEFINE vs == Append(segments, NewSegment(EndOf(segments)))
  <2>1. Rolled = vs /\ RolledOpen = Append(open, Empty)
      BY <1>1, <1>3 DEF Rolled, RolledOpen
  <2>2. /\ Sound(vs) /\ Len(vs) = Len(segments) + 1 /\ Len(segments) \in Nat
        /\ StoredOf(vs) = StoredOf(segments) /\ EndOf(vs) = EndOf(segments)
        /\ vs[Len(vs)] = NewSegment(EndOf(segments))
      BY <1>1, NewFile
  <2> HIDE DEF vs
  <2>3. Whole(vs[Len(vs)].frames)
    <3>1. EndOf(segments) \in Nat
        BY <1>1 DEF LogInv
    <3>2. QED
        BY <2>2, <3>1, NewSegmentFacts
  <2>4. Empty \in Object
    <3>1. <<>> \in Index
        BY DEF Index
    <3>2. QED
        BY <3>1 DEF Empty, Object
  <2>5. RolledOpen \in Seq(Object) /\ Len(RolledOpen) = Len(open) + 1
      BY <1>1, <2>1, <2>4
  <2>6. Len(vs) # 0
      BY <2>2
  <2>7. QED
      BY <1>1, <2>1, <2>2, <2>3, <2>5, <2>6
<1>4. QED
    BY <1>2, <1>3

\* The index that an append leaves in the active file.
LEMMA IndexOfAppend ==
    ASSUME LogInv, up, NEW frames \in Seq(Frame)
    PROVE  IndexAll(Rolled[Len(Rolled)].base, RolledOpen[Len(Rolled)], frames) \in Object
<1>1. /\ Sound(Rolled) /\ Len(Rolled) # 0 /\ RolledOpen \in Seq(Object)
      /\ Len(RolledOpen) = Len(Rolled)
    BY RolledFacts
<1>2. Rolled \in Seq(Segment) /\ Len(Rolled) \in Nat
    BY <1>1 DEF Sound
<1>3. Len(Rolled) \in 1 .. Len(Rolled)
    BY <1>1, <1>2
<1>4. Rolled[Len(Rolled)].base \in Nat
    BY <1>2, <1>3, CleanOfSegments
<1>5. RolledOpen[Len(Rolled)] \in Object
    BY <1>1, <1>3
<1>6. QED
    BY <1>4, <1>5, IndexAllIsObject

\* Records that may follow the log.
Follows(t) ==
    /\ t \in Seq(Frame) /\ Whole(t) /\ nextOffset + Len(t) <= MaxOffset
    /\ \A k \in 1 .. Len(t) : t[k].offset = nextOffset + k - 1

\* At most a torn frame.
TornAtMost(r) == r \in Seq(Frame) /\ (r = <<>> \/ (Len(r) = 1 /\ r[1].offset = Torn))

\* The active file with t and r behind it.
Behind(t, r) == (Rolled[Len(Rolled)].frames \o t) \o r

\* Whole records and perhaps a torn one are put behind the active file.
LEMMA AppendedFiles ==
    ASSUME LogInv, up, NEW t, Follows(t), NEW r, TornAtMost(r),
           NEW y \in Index
    PROVE  /\ t \in Seq(Frame)
           /\ Sound(LastSet(Rolled, Behind(t, r), y))
           /\ Len(LastSet(Rolled, Behind(t, r), y)) = Len(Rolled)
           /\ LastSet(Rolled, Behind(t, r), y)[Len(Rolled)].frames = Behind(t, r)
           /\ StoredOf(LastSet(Rolled, Behind(t, r), y)) = StoredOf(segments) \o t
           /\ EndOf(LastSet(Rolled, Behind(t, r), y)) = nextOffset + Len(t)
           /\ r = <<>> => Whole(Behind(t, r))
<1> DEFINE B == Rolled
           s == B[Len(B)].frames
           w == Behind(t, r)
<1>1. /\ Sound(B) /\ Len(B) # 0 /\ Whole(s)
      /\ StoredOf(B) = StoredOf(segments) /\ EndOf(B) = nextOffset
    BY RolledFacts
<1>2. B \in Seq(Segment) /\ Len(B) \in Nat
    BY <1>1 DEF Sound
<1>3. Len(B) \in 1 .. Len(B)
    BY <1>1, <1>2
<1>4. s \in Seq(Frame)
    BY <1>2, <1>3, CleanOfSegments
<1> HIDE DEF B
<1>5. Clean(s) = s
    BY <1>1, <1>4, CleanFacts
<1>6. w = (s \o t) \o r
    BY DEF B, Behind
<1> HIDE DEF s, w
<1>0. t \in Seq(Frame) /\ Whole(t) /\ r \in Seq(Frame)
    BY DEF Follows, TornAtMost
<1>7. /\ w \in Seq(Frame) /\ Clean(w) = s \o t /\ Len(w) = Len(s) + Len(t) + Len(r)
      /\ Len(r) \in {0, 1} /\ Whole(s \o t)
    BY <1>0, <1>1, <1>4, <1>6, CleanJoined DEF TornAtMost
<1>8. Len(w) <= Len(Clean(w)) + 1
  <2>1. Len(s \o t) = Len(s) + Len(t) /\ Len(s) \in Nat /\ Len(t) \in Nat
      BY <1>0, <1>4
  <2>2. Len(Clean(w)) = Len(s) + Len(t) /\ (Len(r) = 0 \/ Len(r) = 1)
      BY <1>7, <2>1
  <2>3. Len(w) = Len(s) + Len(t) + Len(r)
      BY <1>7
  <2>4. Len(s) \in Nat /\ Len(t) \in Nat
      BY <2>1
  <2> DEFINE a == Len(s)
             b == Len(t)
             c == Len(r)
             d == Len(Clean(w))
             e == Len(w)
  <2>5. a \in Nat /\ b \in Nat /\ (c = 0 \/ c = 1) /\ d = a + b /\ e = a + b + c
      BY <2>2, <2>3, <2>4
  <2> HIDE DEF a, b, c, d, e
  <2>6. e <= d + 1
      BY <2>5
  <2>7. QED
      BY <2>6 DEF d, e
<1>9. Clean(w) = Clean(B[Len(B)].frames) \o t
    BY <1>5, <1>7 DEF s
<1>10. EndOf(B) + Len(t) <= MaxOffset /\ \A k \in 1 .. Len(t) : t[k].offset = EndOf(B) + k - 1
    BY <1>1 DEF Follows
<1>11. /\ Sound(LastSet(B, w, y)) /\ Len(LastSet(B, w, y)) = Len(B)
       /\ LastSet(B, w, y)[Len(B)].frames = w
       /\ StoredOf(LastSet(B, w, y)) = StoredOf(B) \o t
       /\ EndOf(LastSet(B, w, y)) = EndOf(B) + Len(t)
  <2>1. Sound(B) /\ Len(B) # 0 /\ y \in Index
      BY <1>1
  <2>2. w \in Seq(Frame) /\ t \in Seq(Frame)
      BY <1>0, <1>7
  <2>3. QED
      BY <1>8, <1>9, <1>10, <2>1, <2>2, Lengthened
<1>12. r = <<>> => w = s \o t
  <2>1. s \o t \in Seq(Frame)
      BY <1>0, <1>4
  <2>2. QED
      BY <1>6, <2>1
<1>13. QED
    BY <1>0, <1>1, <1>7, <1>11, <1>12 DEF B, w

-----------------------------------------------------------------------------
(* Steps *)

\* The counters are naturals.
LEMMA Numbers ==
    ASSUME LogInv
    PROVE  /\ nextOffset \in Nat /\ hwm \in Nat /\ crashes \in Nat /\ acked \in Nat
           /\ EndOf(segments) \in 0 .. MaxOffset
    BY EndInBounds, BoundAssumption DEF LogInv

\* append and append_replicated.
LEMMA AppendSteps ==
    ASSUME LogInv, up, NEW batch \in Batches, nextOffset + Len(batch) <= MaxOffset,
           Written(batch), acked' = nextOffset', hwm' = nextOffset' \/ hwm' = hwm,
           up' = up, crashes' = crashes
    PROVE  LogInv' /\ LogStep
<1>1. /\ batch \in Seq(Frame) /\ Len(batch) \in Nat /\ Whole(batch)
      /\ \A k \in 1 .. Len(batch) : batch[k].offset = nextOffset + k - 1
    BY Numbers, BatchFacts
<1> DEFINE B == Rolled
           n == Len(B)
           s == IndexAll(B[n].base, RolledOpen[n], batch)
           w == B[n].frames \o batch
           vs == LastSet(B, w, s.index)
<1>2. s \in Object
    BY <1>1, IndexOfAppend
<1>3. s.index \in Index
    BY <1>2 DEF Object
<1>4. /\ segments' = [B EXCEPT ![n].frames = w, ![n].index = s.index]
      /\ open' = [RolledOpen EXCEPT ![n] = s]
      /\ nextOffset' = nextOffset + Len(batch)
    BY DEF Written
<1>5. segments' = vs
    BY <1>4 DEF LastSet
<1>6. /\ Sound(B) /\ n # 0 /\ RolledOpen \in Seq(Object) /\ Len(RolledOpen) = n
      /\ n \in Nat /\ B[n].frames \in Seq(Frame)
  <2>1. Sound(B) /\ n # 0 /\ RolledOpen \in Seq(Object) /\ Len(RolledOpen) = n
      BY RolledFacts
  <2>2. B \in Seq(Segment) /\ n \in Nat
      BY <2>1 DEF Sound
  <2>3. n \in 1 .. n
      BY <2>1, <2>2
  <2>4. QED
      BY <2>1, <2>2, <2>3, CleanOfSegments
<1>7. w = w \o <<>> /\ <<>> \in Seq(Frame)
    BY <1>1, <1>6
<1> HIDE DEF s
<1>8. /\ Sound(vs) /\ Len(vs) = n /\ vs[n].frames = w /\ Whole(w)
      /\ StoredOf(vs) = StoredOf(segments) \o batch /\ EndOf(vs) = nextOffset + Len(batch)
  <2> DEFINE r == <<>>
             y == s.index
  <2>1. Follows(batch) /\ TornAtMost(r) /\ y \in Index /\ r = <<>>
      BY <1>1, <1>3, <1>7 DEF Follows, TornAtMost
  <2>2. w = Behind(batch, r)
      BY <1>7 DEF Behind
  <2> HIDE DEF w, r, y, B, n
  <2>3. /\ Sound(LastSet(Rolled, Behind(batch, r), y))
        /\ Len(LastSet(Rolled, Behind(batch, r), y)) = Len(Rolled)
        /\ LastSet(Rolled, Behind(batch, r), y)[Len(Rolled)].frames = Behind(batch, r)
        /\ StoredOf(LastSet(Rolled, Behind(batch, r), y)) = StoredOf(segments) \o batch
        /\ EndOf(LastSet(Rolled, Behind(batch, r), y)) = nextOffset + Len(batch)
        /\ r = <<>> => Whole(Behind(batch, r))
      BY <2>1, AppendedFiles
  <2>4. QED
      BY <2>1, <2>2, <2>3 DEF y, n, B
<1>9. open' \in Seq(Object) /\ Len(open') = n
    BY <1>2, <1>4, <1>6
<1> HIDE DEF vs, w, B, n
<1>10. /\ Sound(segments') /\ Len(segments') = n /\ Whole(segments'[Len(segments')].frames)
       /\ EndOf(segments') = nextOffset'
    BY <1>4, <1>5, <1>8
<1>11. nextOffset' \in 0 .. MaxOffset /\ hwm' \in 0 .. nextOffset'
  <2>1. nextOffset \in Nat /\ hwm \in Nat /\ hwm <= nextOffset /\ MaxOffset \in Nat
      BY Numbers, BoundAssumption DEF LogInv
  <2>2. QED
      BY <1>1, <1>4, <2>1
<1>12. crashes' \in 0 .. MaxCrashes /\ up' \in BOOLEAN
    BY DEF LogInv
<1>13. acked' \in 0 .. EndOf(segments')
    BY <1>10, <1>11
<1>14. Working'
    BY <1>6, <1>9, <1>10 DEF Working
<1>15. LogInv'
    BY <1>9, <1>10, <1>11, <1>12, <1>13, <1>14 DEF LogInv
<1>16. GrowsBy(batch)
  <2>1. EndOf(segments) = nextOffset
      BY DEF LogInv, Working
  <2>2. QED
      BY <1>1, <1>5, <1>8, <2>1 DEF GrowsBy
<1>17. acked' = Len(StoredOf(segments'))
  <2>1. Len(StoredOf(segments')) = EndOf(segments')
      BY <1>10 DEF Sound
  <2>2. QED
      BY <1>10, <2>1
<1>18. QED
    BY <1>15, <1>16, <1>17 DEF LogStep

\* set_high_watermark touches no file.
LEMMA WatermarkSteps ==
    ASSUME LogInv, NEW h \in 0 .. nextOffset, SetHighWatermark(h)
    PROVE  LogInv' /\ LogStep
<1>1. /\ up /\ hwm' = h
      /\ segments' = segments /\ open' = open /\ nextOffset' = nextOffset
      /\ up' = up /\ crashes' = crashes /\ acked' = acked
    BY DEF SetHighWatermark
<1>2. LogInv'
    BY <1>1 DEF LogInv, Working
<1>3. Sound(segments) /\ StoredOf(segments') = StoredOf(segments)
    BY <1>1 DEF LogInv
<1>4. \E t : GrowsBy(t)
    BY <1>3, NoGrowth
<1>5. QED
    BY <1>1, <1>2, <1>4 DEF LogStep

\* The process ends, the log no shorter.
LEMMA Died ==
    ASSUME LogInv, NEW segs, Die(segs), Sound(segs), EndOf(segs) >= EndOf(segments)
    PROVE  LogInv' /\ acked' = acked /\ segments' = segs
<1>1. /\ crashes < MaxCrashes /\ crashes' = crashes + 1 /\ up' = FALSE
      /\ segments' = segs /\ open' = <<>> /\ nextOffset' = 0 /\ hwm' = 0 /\ acked' = acked
    BY DEF Die
<1>2. Sound(segments') /\ open' \in Seq(Object)
    BY <1>1
<1>3. /\ acked \in 0 .. EndOf(segments) /\ EndOf(segments) \in 0 .. MaxOffset
      /\ EndOf(segs) \in 0 .. MaxOffset /\ MaxOffset \in Nat /\ MaxCrashes \in Nat
      /\ crashes \in 0 .. MaxCrashes
    BY EndInBounds, BoundAssumption DEF LogInv
<1>4. acked' \in 0 .. EndOf(segments')
    BY <1>1, <1>3
<1>5. nextOffset' \in 0 .. MaxOffset /\ hwm' \in 0 .. nextOffset'
    BY <1>1, <1>3
<1>6. crashes' \in 0 .. MaxCrashes /\ up' \in BOOLEAN
  <2>1. crashes' \in 0 .. MaxCrashes
      BY <1>1, <1>3
  <2>2. up' \in BOOLEAN
      BY <1>1
  <2>3. QED
      BY <2>1, <2>2
<1>7. Working'
    BY <1>1 DEF Working
<1>8. QED
    BY <1>1, <1>2, <1>4, <1>5, <1>6, <1>7 DEF LogInv

\* A crash between operations leaves the files as they are.
LEMMA CrashSteps ==
    ASSUME LogInv, Crash
    PROVE  LogInv' /\ LogStep
<1>1. Die(segments) /\ Sound(segments) /\ EndOf(segments) \in 0 .. MaxOffset
    BY EndInBounds DEF Crash, LogInv
<1>2. LogInv' /\ acked' = acked /\ segments' = segments
  <2>1. EndOf(segments) >= EndOf(segments)
      BY <1>1, BoundAssumption
  <2>2. QED
      BY <1>1, <2>1, Died
<1>3. \E t : GrowsBy(t)
    BY <1>1, <1>2, NoGrowth
<1>4. QED
    BY <1>2, <1>3 DEF LogStep

-----------------------------------------------------------------------------

\* A crash inside append keeps the first records of the batch, in a file that ends with
\* them or with a torn frame.
LEMMA CrashInAppendSteps ==
    ASSUME LogInv, NEW batch \in Batches, CrashInAppend(batch)
    PROVE  LogInv' /\ LogStep
<1>1. up /\ nextOffset + Len(batch) <= MaxOffset
    BY DEF CrashInAppend
<1>2. /\ batch \in Seq(Frame) /\ Len(batch) \in Nat /\ Whole(batch)
      /\ \A k \in 1 .. Len(batch) : batch[k].offset = nextOffset + k - 1
    BY Numbers, BatchFacts
<1> DEFINE B == Rolled
           n == Len(B)
<1>3. PICK j \in 0 .. Len(batch) : \E i \in {j, j + 1} \cap 0 .. Len(batch) :
       \E b \in 0 .. Bytes(SubSeq(batch, 1, j)) :
         Die([B EXCEPT ![n].frames = @ \o FirstBytes(batch, b),
                       ![n].index = IndexAll(B[n].base, RolledOpen[n], SubSeq(batch, 1, i)).index])
    BY DEF CrashInAppend
<1>4. PICK i \in 0 .. Len(batch), b \in 0 .. Bytes(SubSeq(batch, 1, j)) :
         Die([B EXCEPT ![n].frames = @ \o FirstBytes(batch, b),
                       ![n].index = IndexAll(B[n].base, RolledOpen[n], SubSeq(batch, 1, i)).index])
    BY <1>3
<1> DEFINE s == IndexAll(B[n].base, RolledOpen[n], SubSeq(batch, 1, i))
<1>5. s \in Object
    BY <1>1, <1>2, PartOf, IndexOfAppend
<1>6. s.index \in Index
    BY <1>5 DEF Object
<1>7. b \in Nat
  <2>1. Bytes(SubSeq(batch, 1, j)) \in Nat
      BY <1>2, PartOf, BytesInNat
  <2>2. QED
      BY <2>1
<1>8. PICK k \in 0 .. Len(batch), r \in Seq(Frame) :
         /\ FirstBytes(batch, b) = SubSeq(batch, 1, k) \o r
         /\ r = <<>> \/ (Len(r) = 1 /\ r[1].offset = Torn)
    BY <1>2, <1>7, Numbers, FirstBytesParts
<1> DEFINE t == SubSeq(batch, 1, k)
           w == Behind(t, r)
           y == s.index
           vs == LastSet(B, w, y)
<1>9. t \in Seq(Frame) /\ Len(t) = k /\ Whole(t) /\ \A m \in 1 .. k : t[m] = batch[m]
    BY <1>2, PartOf
<1>10. nextOffset \in Nat /\ MaxOffset \in Nat /\ EndOf(segments) = nextOffset
    BY <1>1, Numbers, BoundAssumption DEF LogInv, Working
<1>11. Follows(t) /\ TornAtMost(r) /\ y \in Index
  <2>1. nextOffset + k <= MaxOffset
      BY <1>1, <1>2, <1>10
  <2>2. \A m \in 1 .. k : m \in 1 .. Len(batch)
      BY <1>2
  <2>3. \A m \in 1 .. k : t[m].offset = nextOffset + m - 1
      BY <1>2, <1>9, <2>2
  <2> HIDE DEF t, s
  <2>4. QED
      BY <1>6, <1>8, <1>9, <2>1, <2>3 DEF Follows, TornAtMost
<1>12. Die(vs)
  <2>1. B[n].frames \o FirstBytes(batch, b) = w
    <3>1. Sound(B) /\ n # 0
        BY <1>1, RolledFacts
    <3>2. B \in Seq(Segment) /\ n \in Nat
        BY <3>1 DEF Sound
    <3>3. n \in 1 .. n
        BY <3>1, <3>2
    <3>4. B[n].frames \in Seq(Frame)
        BY <3>2, <3>3, CleanOfSegments
    <3> HIDE DEF t
    <3>6. B[n].frames \o (t \o r) = (B[n].frames \o t) \o r
      <4> DEFINE a == B[n].frames
      <4>1. a \in Seq(Frame) /\ t \in Seq(Frame) /\ r \in Seq(Frame)
          BY <1>8, <1>9, <3>4
      <4> HIDE DEF a
      <4>2. Associates(a, t, r)
          BY <4>1, JoinAssociates
      <4>3. QED
          BY <4>2 DEF Associates, a
    <3>7. FirstBytes(batch, b) = t \o r
        BY <1>8 DEF t
    <3>8. QED
        BY <3>6, <3>7 DEF Behind
  <2>2. Die([B EXCEPT ![n].frames = B[n].frames \o FirstBytes(batch, b), ![n].index = y])
      BY <1>4
  <2>3. Die([B EXCEPT ![n].frames = w, ![n].index = y])
      BY <2>1, <2>2
  <2>4. QED
      BY <2>3 DEF LastSet
<1> HIDE DEF t, y, s
<1>13. /\ Sound(vs) /\ StoredOf(vs) = StoredOf(segments) \o t
       /\ EndOf(vs) = nextOffset + Len(t)
    BY <1>1, <1>11, AppendedFiles
<1> HIDE DEF vs
<1>14. EndOf(vs) >= EndOf(segments)
    BY <1>9, <1>10, <1>13
<1>15. LogInv' /\ acked' = acked /\ segments' = vs
    BY <1>12, <1>13, <1>14, Died
<1>16. GrowsBy(t)
    BY <1>10, <1>11, <1>13, <1>15 DEF GrowsBy, Follows
<1>17. QED
    BY <1>15, <1>16 DEF LogStep

\* The files recover() works on: a first one is created when there is none.
Opened == IF segments = <<>> THEN <<NewSegment(0)>> ELSE segments

\* They hold the same records.
LEMMA OpenedFacts ==
    ASSUME LogInv
    PROVE  /\ Sound(Opened) /\ Len(Opened) # 0 /\ Len(Opened) \in Nat
           /\ StoredOf(Opened) = StoredOf(segments) /\ EndOf(Opened) = EndOf(segments)
<1>1. Sound(segments) /\ segments \in Seq(Segment) /\ Len(segments) \in Nat
    BY DEF LogInv, Sound
<1>2. CASE segments = <<>>
  <2> DEFINE vs == Append(segments, NewSegment(EndOf(segments)))
  <2>1. EndOf(segments) = 0
      BY <1>2 DEF EndOf
  <2>2. vs = Opened
      BY <1>2, <2>1 DEF Opened
  <2>3. /\ Sound(vs) /\ Len(vs) = Len(segments) + 1 /\ Len(segments) \in Nat
        /\ StoredOf(vs) = StoredOf(segments) /\ EndOf(vs) = EndOf(segments)
      BY <1>1, NewFile
  <2> HIDE DEF vs
  <2>4. Len(vs) # 0 /\ Len(vs) \in Nat
      BY <2>3
  <2>5. QED
      BY <2>2, <2>3, <2>4
<1>3. CASE segments # <<>>
  <2>1. Len(segments) # 0
      BY <1>1, <1>3
  <2>2. QED
      BY <1>1, <1>3, <2>1 DEF Opened
<1>4. QED
    BY <1>2, <1>3

\* The last file loses its torn frame, or keeps it.
LEMMA RepairedFiles ==
    ASSUME NEW B, Sound(B), Len(B) # 0, NEW y \in Index, NEW w,
           w = B[Len(B)].frames \/ w = Clean(B[Len(B)].frames)
    PROVE  /\ Sound(LastSet(B, w, y)) /\ Len(LastSet(B, w, y)) = Len(B)
           /\ LastSet(B, w, y)[Len(B)].frames = w
           /\ StoredOf(LastSet(B, w, y)) = StoredOf(B)
           /\ EndOf(LastSet(B, w, y)) = EndOf(B)
<1> DEFINE u == B[Len(B)].frames
<1>1. B \in Seq(Segment) /\ Len(B) \in Nat
    BY DEF Sound
<1>2. Len(B) \in 1 .. Len(B)
    BY <1>1
<1>3. u \in Seq(Frame) /\ InOrder(B[Len(B)])
    BY <1>1, <1>2, CleanOfSegments DEF Sound
<1>4. Clean(u) \in Seq(Frame) /\ Len(Clean(u)) \in Nat /\ Clean(Clean(u)) = Clean(u)
  <2> HIDE DEF u
  <2>1. Clean(u) \in Seq(Frame) /\ Whole(Clean(u))
      BY <1>3, CleanFacts
  <2>2. Clean(Clean(u)) = Clean(u)
      BY <2>1, CleanFacts
  <2>3. QED
      BY <2>1, <2>2
<1>5. Len(u) <= Len(Clean(u)) + 1
    BY <1>3 DEF InOrder
<1>6. w \in Seq(Frame) /\ Clean(w) = Clean(u) /\ Len(w) <= Len(Clean(w)) + 1
  <2>1. w = u \/ w = Clean(u)
      OBVIOUS
  <2> HIDE DEF u
  <2>2. CASE w = u
      BY <1>3, <1>5, <2>2
  <2>3. CASE w = Clean(u)
      BY <1>4, <2>3
  <2>4. QED
      BY <2>1, <2>2, <2>3
<1> DEFINE t == <<>>
<1>7. Clean(w) = Clean(u) \o t /\ t \in Seq(Frame)
  <2> HIDE DEF u
  <2>1. QED
      BY <1>4, <1>6
<1>8. /\ EndOf(B) + Len(t) <= MaxOffset
      /\ \A k \in 1 .. Len(t) : t[k].offset = EndOf(B) + k - 1
      /\ StoredOf(B) \o t = StoredOf(B) /\ EndOf(B) + Len(t) = EndOf(B)
    BY NothingBehind
<1> HIDE DEF t
<1>9. /\ Sound(LastSet(B, w, y)) /\ Len(LastSet(B, w, y)) = Len(B)
      /\ LastSet(B, w, y)[Len(B)].frames = w
      /\ StoredOf(LastSet(B, w, y)) = StoredOf(B) \o t
      /\ EndOf(LastSet(B, w, y)) = EndOf(B) + Len(t)
    BY <1>6, <1>7, <1>8, Lengthened
<1>10. QED
    BY <1>8, <1>9

-----------------------------------------------------------------------------

\* What scan_and_recover and load_index make of the files.
LEMMA ObjectsOfFiles ==
    ASSUME NEW B, Sound(B), NEW i \in 1 .. Len(B)
    PROVE  Scan(B[i]) \in Object /\ LoadIndex(B[i]) \in Object
<1>1. /\ B[i].base \in Nat /\ B[i].frames \in Seq(Frame)
      /\ Clean(B[i].frames) \in Seq(Frame) /\ B[i] \in Segment
    BY CleanOfSegments DEF Sound
<1>2. Empty \in Object
  <2>1. <<>> \in Index
      BY DEF Index
  <2>2. QED
      BY <2>1 DEF Empty, Object
<1>3. Scan(B[i]) \in Object
    BY <1>1, <1>2, IndexAllIsObject DEF Scan
<1>4. LoadIndex(B[i]) \in Object
  <2>1. B[i].index \in Index /\ Bytes(B[i].frames) \in Nat
      BY <1>1, BytesInNat DEF Segment
  <2>2. QED
      BY <2>1 DEF LoadIndex, Object
<1>5. QED
    BY <1>3, <1>4

\* What recover() has rebuilt of an index is one.
LEMMA PrefixIsIndex ==
    ASSUME NEW B, Sound(B), NEW i \in 1 .. Len(B), NEW y \in Prefixes(Scan(B[i]).index)
    PROVE  y \in Index
<1> DEFINE x == Scan(B[i]).index
<1>1. Scan(B[i]) \in Object
    BY ObjectsOfFiles
<1>2. x \in Seq(Int \X Int)
    BY <1>1 DEF Object, Index
<1> HIDE DEF x
<1>3. \A l \in 0 .. Len(x) : SubSeq(x, 1, l) \in Seq(Int \X Int)
    BY <1>2
<1>4. \E l \in 0 .. Len(x) : y = SubSeq(x, 1, l)
    BY DEF Prefixes, x
<1>5. QED
    BY <1>3, <1>4 DEF Index

\* nextOffset_ after recovery is the log end on disk.
LEMMA OffsetAfterIsEnd ==
    ASSUME NEW B, Sound(B), Len(B) # 0
    PROVE  OffsetAfter(B[Len(B)]) = EndOf(B)
<1> DEFINE seg == B[Len(B)]
           good == Clean(seg.frames)
<1>1. B \in Seq(Segment) /\ Len(B) \in Nat
    BY DEF Sound
<1>2. Len(B) \in 1 .. Len(B)
    BY <1>1
<1>3. /\ seg.base \in Nat /\ seg.frames \in Seq(Frame) /\ good \in Seq(Frame) /\ InOrder(seg)
    BY <1>1, <1>2, CleanOfSegments DEF Sound
<1>4. EndOf(B) = seg.base + Len(good)
    BY DEF EndOf
<1>5. OffsetAfter(seg) = IF good = <<>> THEN seg.base ELSE good[Len(good)].offset + 1
    BY DEF OffsetAfter, Last
<1>6. Len(good) \in Nat /\ (good = <<>> <=> Len(good) = 0)
  <2> HIDE DEF good
  <2>1. QED
      BY <1>3
<1>7. CASE good = <<>>
  <2> HIDE DEF good, seg
  <2>1. QED
      BY <1>3, <1>4, <1>5, <1>6, <1>7 DEF seg
<1>8. CASE good # <<>>
  <2>1. Len(good) \in 1 .. Len(good)
      BY <1>6, <1>8
  <2>2. good[Len(good)] = seg.frames[Len(good)]
      BY <1>3, <2>1, CleanFacts
  <2>3. seg.frames[Len(good)].offset = seg.base + Len(good) - 1
      BY <1>3, <2>1 DEF InOrder
  <2>4. OffsetAfter(seg) = (seg.base + Len(good) - 1) + 1
      BY <1>5, <1>8, <2>2, <2>3
  <2> HIDE DEF good, seg
  <2>5. QED
      BY <1>3, <1>4, <1>6, <2>4 DEF seg
<1>9. QED
    BY <1>7, <1>8

\* recover() keeps every record and gets back to work at the log end.
LEMMA RecoverSteps ==
    ASSUME LogInv, Recover
    PROVE  LogInv' /\ LogStep
<1> DEFINE B == Opened
           n == Len(B)
           w == Clean(B[n].frames)
           y == Scan(B[n]).index
           vs == LastSet(B, w, y)
<1>1. /\ Sound(B) /\ n # 0 /\ n \in Nat
      /\ StoredOf(B) = StoredOf(segments) /\ EndOf(B) = EndOf(segments)
    BY OpenedFacts
<1>2. n \in 1 .. n
    BY <1>1
<1>3. /\ up' = TRUE
      /\ open' = [i \in 1 .. n |-> IF i < n THEN LoadIndex(B[i]) ELSE Scan(B[n])]
      /\ segments' = [B EXCEPT ![n].frames = Truncated(@), ![n].index = Scan(B[n]).index]
      /\ nextOffset' = OffsetAfter(B[n])
      /\ hwm' = nextOffset' /\ crashes' = crashes /\ acked' = acked
    BY DEF Recover, Opened
<1>4. segments' = vs
    BY <1>3 DEF LastSet, Truncated
<1>5. y \in Index
  <2>1. Scan(B[n]) \in Object
      BY <1>1, <1>2, ObjectsOfFiles
  <2>2. QED
      BY <2>1 DEF Object
<1>6. /\ Sound(vs) /\ Len(vs) = n /\ vs[n].frames = w
      /\ StoredOf(vs) = StoredOf(segments) /\ EndOf(vs) = EndOf(segments)
  <2> HIDE DEF B, y
  <2>1. QED
      BY <1>1, <1>5, RepairedFiles
<1>7. Whole(w)
  <2>1. B[n].frames \in Seq(Frame)
      BY <1>1, <1>2, CleanOfSegments DEF Sound
  <2>2. QED
      BY <2>1, CleanFacts
<1>8. open' \in Seq(Object) /\ Len(open') = n
  <2>1. \A i \in 1 .. n : Scan(B[i]) \in Object /\ LoadIndex(B[i]) \in Object
      BY <1>1, ObjectsOfFiles
  <2> HIDE DEF B
  <2>2. \A i \in 1 .. n : (IF i < n THEN LoadIndex(B[i]) ELSE Scan(B[n])) \in Object
      BY <1>2, <2>1
  <2> HIDE DEF n
  <2>3. QED
      BY <1>1, <1>3, <2>2
<1>9. nextOffset' = EndOf(segments) /\ EndOf(segments) \in 0 .. MaxOffset
    BY <1>1, <1>3, OffsetAfterIsEnd, Numbers
<1> HIDE DEF vs, w, y
<1>10. /\ Sound(segments') /\ EndOf(segments') = EndOf(segments)
       /\ StoredOf(segments') = StoredOf(segments)
    BY <1>4, <1>6
<1>11. Working'
  <2>1. Len(segments') = n /\ segments'[n].frames = w
      BY <1>4, <1>6
  <2> HIDE DEF B, n
  <2>2. QED
      BY <1>1, <1>7, <1>8, <1>9, <1>10, <2>1 DEF Working
<1>12. acked' \in 0 .. EndOf(segments')
    BY <1>3, <1>10 DEF LogInv
<1>13. nextOffset' \in 0 .. MaxOffset /\ hwm' \in 0 .. nextOffset'
    BY <1>3, <1>9, BoundAssumption
<1>14. crashes' \in 0 .. MaxCrashes /\ up' \in BOOLEAN
  <2>1. crashes' \in 0 .. MaxCrashes
      BY <1>3 DEF LogInv
  <2>2. up' \in BOOLEAN
      BY <1>3
  <2>3. QED
      BY <2>1, <2>2
<1>15. LogInv'
    BY <1>8, <1>10, <1>11, <1>12, <1>13, <1>14 DEF LogInv
<1>16. \E t : GrowsBy(t)
    BY <1>10, NoGrowth DEF LogInv
<1>17. QED
    BY <1>3, <1>15, <1>16 DEF LogStep

\* A crash inside recover leaves every record for the next one.
LEMMA CrashInRecoverSteps ==
    ASSUME LogInv, CrashInRecover
    PROVE  LogInv' /\ LogStep
<1> DEFINE n == Len(segments)
<1>1. /\ Sound(segments) /\ segments \in Seq(Segment) /\ n \in Nat
      /\ EndOf(segments) \in 0 .. MaxOffset /\ MaxOffset \in Nat
    BY Numbers, BoundAssumption DEF LogInv, Sound
<1>2. ASSUME NEW vs, Die(vs), Sound(vs), StoredOf(vs) = StoredOf(segments),
             EndOf(vs) = EndOf(segments)
      PROVE  LogInv' /\ LogStep
  <2>1. EndOf(vs) >= EndOf(segments)
      BY <1>1, <1>2
  <2>2. LogInv' /\ acked' = acked /\ segments' = vs
      BY <1>2, <2>1, Died
  <2>3. \E t : GrowsBy(t)
      BY <1>1, <1>2, <2>2, NoGrowth
  <2>4. QED
      BY <2>2, <2>3 DEF LogStep
<1>3. CASE segments = <<>> /\ Die(<<NewSegment(0)>>)
  <2>1. Opened = <<NewSegment(0)>>
      BY <1>3 DEF Opened
  <2>2. Die(Opened)
      BY <1>3, <2>1
  <2>3. /\ Sound(Opened) /\ StoredOf(Opened) = StoredOf(segments)
        /\ EndOf(Opened) = EndOf(segments)
      BY OpenedFacts
  <2>4. QED
      BY <1>2, <2>2, <2>3
<1>4. CASE /\ segments # <<>>
           /\ \E index \in Prefixes(Scan(segments[n]).index) :
              \E frames \in {segments[n].frames, Truncated(segments[n].frames)} :
                Die([segments EXCEPT ![n].frames = frames, ![n].index = index])
  <2>1. PICK y \in Prefixes(Scan(segments[n]).index),
             w \in {segments[n].frames, Truncated(segments[n].frames)} :
           Die([segments EXCEPT ![n].frames = w, ![n].index = y])
      BY <1>4
  <2>2. n # 0 /\ n \in 1 .. n
      BY <1>1, <1>4
  <2>3. y \in Index
      BY <1>1, <2>1, <2>2, PrefixIsIndex
  <2>4. w = segments[n].frames \/ w = Clean(segments[n].frames)
      BY <2>1 DEF Truncated
  <2>5. Die(LastSet(segments, w, y))
      BY <2>1 DEF LastSet
  <2>6. /\ Sound(LastSet(segments, w, y))
        /\ StoredOf(LastSet(segments, w, y)) = StoredOf(segments)
        /\ EndOf(LastSet(segments, w, y)) = EndOf(segments)
      BY <1>1, <2>2, <2>3, <2>4, RepairedFiles
  <2> DEFINE vs == LastSet(segments, w, y)
  <2> HIDE DEF vs
  <2>7. QED
      BY <1>2, <2>5, <2>6 DEF vs
<1>5. QED
    BY <1>3, <1>4 DEF CrashInRecover

-----------------------------------------------------------------------------
(* Theorems *)

\* The invariant holds of a partition without files, whose log is empty.
LEMMA InitLog ==
    ASSUME Init
    PROVE  LogInv /\ Stored = <<>> /\ acked = 0
<1>1. /\ segments = <<>> /\ open = <<>> /\ nextOffset = 0 /\ hwm = 0 /\ up = FALSE
      /\ crashes = 0 /\ acked = 0
    BY DEF Init
<1>2. segments \in Seq(Segment) /\ Len(segments) = 0 /\ open \in Seq(Object)
    BY <1>1
<1>3. StoredOf(segments) = <<>> /\ EndOf(segments) = 0
    BY <1>2, StoredTypes DEF EndOf
<1>4. Sound(segments)
  <2>1. Len(<<>>) = 0
      OBVIOUS
  <2>2. Len(StoredOf(segments)) = EndOf(segments)
      BY <1>3, <2>1
  <2>3. \A i \in 1 .. Len(segments) : InOrder(segments[i])
      BY <1>2
  <2>4. \A o \in 1 .. EndOf(segments) : StoredOf(segments)[o].offset = o - 1
      BY <1>3
  <2>5. QED
      BY <1>2, <2>2, <2>3, <2>4 DEF Sound
<1>5. Working
    BY <1>1 DEF Working
<1>6. /\ acked \in 0 .. EndOf(segments) /\ nextOffset \in 0 .. MaxOffset
      /\ hwm \in 0 .. nextOffset /\ crashes \in 0 .. MaxCrashes
    BY <1>1, <1>3, BoundAssumption
<1>7. up \in BOOLEAN
    BY <1>1
<1>8. LogInv
    BY <1>2, <1>4, <1>5, <1>6, <1>7 DEF LogInv
<1>9. QED
    BY <1>1, <1>3, <1>8 DEF Stored, StoredOf

\* Every step keeps the invariant and lets the log grow by records at its end, or by none.
LEMMA NextLog ==
    ASSUME LogInv, Next
    PROVE  LogInv' /\ LogStep
<1>1. CASE Recover
    BY <1>1, RecoverSteps
<1>2. ASSUME NEW batch \in Batches, AppendRecords(batch) PROVE LogInv' /\ LogStep
  <2>1. /\ up /\ nextOffset + Len(batch) <= MaxOffset /\ Written(batch)
        /\ hwm' = nextOffset' /\ acked' = nextOffset' /\ up' = up /\ crashes' = crashes
      BY <1>2 DEF AppendRecords
  <2>2. QED
      BY <2>1, AppendSteps
<1>3. ASSUME NEW batch \in Batches, AppendReplicated(batch) PROVE LogInv' /\ LogStep
  <2>1. /\ up /\ nextOffset + Len(batch) <= MaxOffset /\ Written(batch)
        /\ hwm' = hwm /\ acked' = nextOffset' /\ up' = up /\ crashes' = crashes
      BY <1>3 DEF AppendReplicated
  <2>2. QED
      BY <2>1, AppendSteps
<1>4. ASSUME NEW batch \in Batches, CrashInAppend(batch) PROVE LogInv' /\ LogStep
    BY <1>4, CrashInAppendSteps
<1>5. ASSUME NEW h \in 0 .. nextOffset, SetHighWatermark(h) PROVE LogInv' /\ LogStep
    BY <1>5, WatermarkSteps
<1>6. CASE Crash
    BY <1>6, CrashSteps
<1>7. CASE CrashInRecover
    BY <1>7, CrashInRecoverSteps
<1>8. QED
    BY <1>1, <1>2, <1>3, <1>4, <1>5, <1>6, <1>7 DEF Next

\* So does a step that changes nothing.
LEMMA StutterLog ==
    ASSUME LogInv, UNCHANGED vars
    PROVE  LogInv' /\ UNCHANGED <<Stored, acked>>
<1>1. /\ segments' = segments /\ open' = open /\ nextOffset' = nextOffset /\ hwm' = hwm
      /\ up' = up /\ crashes' = crashes /\ acked' = acked
    BY DEF vars
<1>2. LogInv'
    BY <1>1 DEF LogInv, Working
<1>3. Stored' = Stored
    BY <1>1 DEF Stored
<1>4. QED
    BY <1>1, <1>2, <1>3

\* The inductive invariant of the log on disk holds in every run.
THEOREM LogInvHolds == Spec => []LogInv
<1>1. Init => LogInv
    BY InitLog
<1>2. LogInv /\ [Next]_vars => LogInv'
    BY NextLog, StutterLog
<1>3. QED
    BY <1>1, <1>2, PTL DEF Spec

\* The invariant gives the types: a frame is torn only behind all the others of its file.
LEMMA LogIsTyped ==
    ASSUME LogInv
    PROVE  TypeOK
<1>1. /\ nextOffset \in 0 .. MaxOffset /\ hwm \in 0 .. nextOffset
      /\ crashes \in 0 .. MaxCrashes /\ up \in BOOLEAN
      /\ up => Len(open) = Len(segments)
    BY DEF LogInv, Working
<1>2. acked \in 0 .. MaxOffset
    BY Numbers, BoundAssumption DEF LogInv
<1>3. ASSUME NEW i \in 1 .. Len(segments)
      PROVE  /\ segments[i].base \in 0 .. MaxOffset
             /\ \A k \in 1 .. Len(segments[i].frames) :
                  segments[i].frames[k].offset \in 0 .. MaxOffset \cup {Torn}
             /\ Len(Clean(segments[i].frames)) >= Len(segments[i].frames) - 1
  <2> DEFINE seg == segments[i]
             u == seg.frames
             m == Len(Clean(u))
  <2>1. seg.base \in Nat /\ u \in Seq(Frame) /\ InOrder(seg)
      BY CleanOfSegments DEF LogInv, Sound
  <2>2. m \in 0 .. Len(u) /\ WholeUpTo(u, m) /\ Len(u) \in Nat
    <3> HIDE DEF seg, u
    <3>1. QED
        BY <2>1, CleanFacts
  <2>3. seg.base + m <= MaxOffset /\ Len(u) <= m + 1 /\ MaxOffset \in Nat
      BY <2>1, BoundAssumption DEF InOrder
  <2>4. ASSUME NEW k \in 1 .. Len(u) PROVE u[k].offset \in 0 .. MaxOffset \cup {Torn}
    <3>1. CASE k <= m
      <4>1. u[k].offset = seg.base + k - 1
          BY <2>1, <2>2, <3>1 DEF InOrder
      <4> HIDE DEF seg, u, m
      <4>2. seg.base + k - 1 \in 0 .. MaxOffset
          BY <2>1, <2>2, <2>3, <3>1
      <4>3. QED
          BY <4>1, <4>2
    <3>2. CASE ~(k <= m)
      <4> HIDE DEF seg, u, m
      <4>1. k = m + 1 /\ m # Len(u)
          BY <2>2, <2>3, <3>2
      <4>2. u[k].offset = Torn
          BY <2>2, <4>1 DEF WholeUpTo
      <4>3. QED
          BY <4>2
    <3>3. QED
        BY <3>1, <3>2
  <2>5. seg.base \in 0 .. MaxOffset /\ m >= Len(u) - 1
    <3> HIDE DEF seg, u, m
    <3>1. QED
        BY <2>1, <2>2, <2>3
  <2>6. QED
      BY <2>4, <2>5
<1>4. QED
    BY <1>1, <1>2, <1>3 DEF TypeOK

\* The files, the Segment objects and the offsets are always well formed, through any number
\* of appends, rolls and crashes.
THEOREM TypeCorrect == Spec => []TypeOK
<1>1. QED
    BY LogInvHolds, LogIsTyped, PTL

\* nextOffset_ is the log end on disk, and what append has acknowledged is below it, also after
\* crashes inside append and recover().
THEOREM AckedIsOnDisk == Spec => []LogEndIsDurable
<1>1. LogInv => LogEndIsDurable
  <2> SUFFICES ASSUME LogInv, up PROVE nextOffset = Len(Stored) /\ acked <= nextOffset
      BY DEF LogEndIsDurable
  <2>1. nextOffset = EndOf(segments) /\ Len(StoredOf(segments)) = EndOf(segments)
      BY DEF LogInv, Working, Sound
  <2>2. acked \in 0 .. EndOf(segments) /\ EndOf(segments) \in 0 .. MaxOffset
      BY Numbers DEF LogInv
  <2>3. Stored = StoredOf(segments)
      BY DEF Stored, StoredOf
  <2>4. QED
      BY <2>1, <2>2, <2>3, BoundAssumption
<1>2. QED
    BY <1>1, LogInvHolds, PTL

\* A step is one of the abstract log.
LEMMA LogStepRefines ==
    ASSUME LogInv, LogInv', LogStep
    PROVE  Abstract!Next
<1>1. PICK t : GrowsBy(t)
    BY DEF LogStep
<1> DEFINE s == StoredOf(segments)
           u == StoredOf(segments')
<1>2. Stored = s /\ Stored' = u
    BY DEF Stored, StoredOf
<1>3. s \in Seq(Frame) /\ u \in Seq(Frame) /\ Len(s) = EndOf(segments)
      /\ Len(u) = EndOf(segments') /\ \A o \in 1 .. EndOf(segments') : u[o].offset = o - 1
  <2>1. Sound(segments) /\ Sound(segments')
      BY DEF LogInv
  <2>2. QED
      BY <2>1, StoredTypes DEF Sound
<1>4. /\ t \in Seq(Frame) /\ u = s \o t
      /\ \A k \in 1 .. Len(t) : t[k].offset = EndOf(segments) + k - 1
    BY <1>1 DEF GrowsBy
<1> HIDE DEF s, u
<1>5. Len(s) \in Nat /\ Len(t) \in Nat /\ Len(u) = Len(s) + Len(t)
    BY <1>3, <1>4
<1>6. SubSeq(u, 1, Len(s)) = s
    BY <1>3, <1>4
<1>7. SubSeq(u, Len(s) + 1, Len(u)) = t
    BY <1>3, <1>4
<1>8. t \in Seq(Abstract!Record)
  <2>1. \A k \in 1 .. Len(t) : t[k] \in Abstract!Record
    <3> SUFFICES ASSUME NEW k \in 1 .. Len(t) PROVE t[k] \in Abstract!Record
        OBVIOUS
    <3>1. t[k] \in Frame
        BY <1>4
    <3>2. t[k].offset \in Nat
        BY <1>3, <1>4, <1>5
    <3>3. QED
        BY <3>1, <3>2 DEF Frame, Abstract!Record
  <2>2. QED
      BY <1>4, <2>1
<1>9. Abstract!Continues(t)
    BY <1>2, <1>3, <1>4, <1>8 DEF Abstract!Continues
<1>10. Abstract!Extends
  <2>1. Len(Stored') >= Len(Stored)
    <3> DEFINE a == Len(s)
               b == Len(t)
               c == Len(u)
    <3>1. a \in Nat /\ b \in Nat /\ c = a + b
        BY <1>5
    <3> HIDE DEF a, b, c
    <3>2. c >= a
        BY <3>1
    <3>3. QED
        BY <1>2, <3>2 DEF a, c
  <2>2. SubSeq(Stored', 1, Len(Stored)) = Stored
      BY <1>2, <1>6
  <2>3. SubSeq(Stored', Len(Stored) + 1, Len(Stored')) = t
      BY <1>2, <1>7
  <2>4. Abstract!Continues(SubSeq(Stored', Len(Stored) + 1, Len(Stored')))
      BY <1>9, <2>3
  <2>5. QED
      BY <2>1, <2>2, <2>4 DEF Abstract!Extends
<1>11. acked' = acked \/ acked' = Len(Stored')
    BY <1>2 DEF LogStep, u
<1>12. QED
    BY <1>10, <1>11 DEF Abstract!Next, Abstract!AppendAcked, Abstract!Cut

\* Partition over segments implements the append-only log: every append adds its records at
\* the log end, every crash a prefix of them or nothing, every recovery nothing.
THEOREM LogIsImplemented == Spec => ImplementsLog
<1>1. Init => Abstract!Init
    BY InitLog DEF Abstract!Init
<1>2. LogInv /\ LogInv' /\ [Next]_vars => [Abstract!Next]_<<Stored, acked>>
    BY NextLog, StutterLog, LogStepRefines
<1>3. QED
    BY <1>1, <1>2, LogInvHolds, PTL DEF Spec, ImplementsLog, Abstract!Spec

-----------------------------------------------------------------------------
(* Indexes *)

\* Every entry names a frame and the byte where it starts.
PointsInto(index, frames) ==
    \A j \in 1 .. Len(index) :
        /\ index[j][1] \in 0 .. Len(frames) - 1
        /\ index[j][2] = Bytes(SubSeq(frames, 1, index[j][1]))

\* Files follow one another without a gap, and all but the last are whole and have an
\* index that points into them.
Chained(segs) ==
    /\ Len(segs) # 0 => segs[1].base = 0
    /\ \A i \in 1 .. Len(segs) - 1 :
          /\ Whole(segs[i].frames) /\ segs[i + 1].base = segs[i].base + Len(segs[i].frames)
          /\ PointsInto(segs[i].index, segs[i].frames)

\* The objects of a running process have the indexes of the files, and that of the
\* active file and its size are right, too.
Ready ==
    up => /\ \A i \in 1 .. Len(segments) : open[i].index = segments[i].index
          /\ PointsInto(segments[Len(segments)].index, segments[Len(segments)].frames)
          /\ open[Len(segments)].size = Bytes(segments[Len(segments)].frames)

FilesInv == Chained(segments) /\ Ready

\* What is in a sequence stays where it is when something is put behind it.
LEMMA PrefixOfJoined ==
    ASSUME NEW s \in Seq(Frame), NEW t \in Seq(Frame)
    PROVE  /\ s \o t \in Seq(Frame) /\ Len(s \o t) = Len(s) + Len(t)
           /\ Len(s) \in Nat /\ Len(t) \in Nat
           /\ \A k \in 0 .. Len(s) : SubSeq(s \o t, 1, k) = SubSeq(s, 1, k)
           /\ SubSeq(s \o t, 1, Len(s)) = s /\ SubSeq(s \o t, 1, Len(s) + Len(t)) = s \o t
<1> DEFINE w == s \o t
<1>1. w \in Seq(Frame) /\ Len(w) = Len(s) + Len(t) /\ Len(s) \in Nat /\ Len(t) \in Nat
    OBVIOUS
<1>2. \A k \in 1 .. Len(s) : w[k] = s[k]
    BY <1>1
<1> HIDE DEF w
<1>3. ASSUME NEW k \in 0 .. Len(s) PROVE SubSeq(w, 1, k) = SubSeq(s, 1, k)
  <2>1. /\ SubSeq(w, 1, k) \in Seq(Frame) /\ Len(SubSeq(w, 1, k)) = k
        /\ SubSeq(s, 1, k) \in Seq(Frame) /\ Len(SubSeq(s, 1, k)) = k
        /\ \A i \in 1 .. k : SubSeq(w, 1, k)[i] = w[i] /\ SubSeq(s, 1, k)[i] = s[i]
      BY <1>1
  <2>2. \A i \in 1 .. k : SubSeq(w, 1, k)[i] = SubSeq(s, 1, k)[i]
      BY <1>1, <1>2, <2>1
  <2>3. QED
      BY <2>1, <2>2, SameElements
<1>4. \A x \in Seq(Frame) : SubSeq(x, 1, Len(x)) = x
    OBVIOUS
<1>5. SubSeq(s, 1, Len(s)) = s /\ SubSeq(w, 1, Len(w)) = w /\ Len(s) \in 0 .. Len(s)
    BY <1>1, <1>4
<1>6. SubSeq(w, 1, Len(s)) = s
    BY <1>3, <1>5
<1>7. QED
    BY <1>1, <1>3, <1>5, <1>6 DEF w

\* The loop keeps the size of the file, and the entries it writes point at frames.
LEMMA IndexAllPoints ==
    ASSUME NEW base \in Nat, NEW s0 \in Object, NEW s \in Seq(Frame), NEW t \in Seq(Frame),
           s0.size = Bytes(s), PointsInto(s0.index, s),
           \A k \in 1 .. Len(t) : t[k].offset = base + Len(s) + k - 1
    PROVE  /\ IndexAll(base, s0, t).size = Bytes(s \o t)
           /\ PointsInto(IndexAll(base, s0, t).index, s \o t)
<1> DEFINE w == s \o t
           m == Len(s)
           n == Len(t)
<1>1. /\ w \in Seq(Frame) /\ Len(w) = m + n /\ m \in Nat /\ n \in Nat
      /\ \A k \in 0 .. m : SubSeq(w, 1, k) = SubSeq(s, 1, k)
      /\ SubSeq(w, 1, m) = s /\ SubSeq(w, 1, m + n) = w
    BY PrefixOfJoined
<1>2. \A k \in 1 .. n : w[m + k] = t[k]
    BY <1>1
<1> HIDE DEF w
<1>3. PICK F : Runs(F, n, Object, s0, Turns(base, t)) /\ F[n] = IndexAll(base, s0, t)
    BY IndexAllRuns
<1>4. F[0] = s0 /\ \A k \in 0 .. n : F[k] \in Object
    BY <1>1, <1>3 DEF Runs
<1>5. ASSUME NEW k \in 1 .. n PROVE F[k] = Indexed(base, F[k - 1], t[k])
  <2>1. F[k] = Turns(base, t)[k][F[k - 1]] /\ k - 1 \in 0 .. n
      BY <1>1, <1>3 DEF Runs
  <2>2. F[k - 1] \in Object
      BY <1>4, <2>1
  <2>3. QED
      BY <2>1, <2>2 DEF Turns
<1> DEFINE Entry(e, k) == e[1] \in 0 .. m + k - 1 /\ e[2] = Bytes(SubSeq(w, 1, e[1]))
           Good == {k \in 0 .. n : /\ F[k].size = Bytes(SubSeq(w, 1, m + k))
                                   /\ \A j \in 1 .. Len(F[k].index) : Entry(F[k].index[j], k)}
<1>6. 0 \in Good
  <2>1. F[0].size = Bytes(SubSeq(w, 1, m + 0))
    <3>1. m + 0 = m
        BY <1>1
    <3>2. SubSeq(w, 1, m) = s
        BY <1>1
    <3> HIDE DEF m
    <3>3. QED
        BY <1>4, <3>1, <3>2
  <2>2. ASSUME NEW j \in 1 .. Len(s0.index) PROVE Entry(s0.index[j], 0)
    <3>1. /\ s0.index[j][1] \in 0 .. m - 1
          /\ s0.index[j][2] = Bytes(SubSeq(s, 1, s0.index[j][1]))
        BY DEF PointsInto
    <3>2. s0.index[j][1] \in 0 .. m /\ s0.index[j][1] \in 0 .. m + 0 - 1
        BY <1>1, <3>1
    <3>3. QED
        BY <1>1, <3>1, <3>2
  <2> HIDE DEF Entry
  <2>3. QED
      BY <1>1, <1>4, <2>1, <2>2
<1>7. ASSUME NEW k \in 1 .. n, k - 1 \in Good PROVE k \in Good
  <2> DEFINE o == F[k - 1]
             f == t[k]
             due == o.index = <<>> \/ o.since >= IndexInterval
  <2>1. /\ k - 1 \in 0 .. n /\ o \in Object /\ k \in 0 .. n
        /\ o.size = Bytes(SubSeq(w, 1, m + (k - 1)))
        /\ \A j \in 1 .. Len(o.index) : Entry(o.index[j], k - 1)
    <3>1. k - 1 \in 0 .. n /\ k \in 0 .. n
        BY <1>1
    <3> HIDE DEF Entry
    <3>2. QED
        BY <1>4, <1>7, <3>1
  <2>2. /\ F[k].size = o.size + f.payload.size
        /\ F[k].index = IF due THEN Append(o.index, <<f.offset - base, o.size>>) ELSE o.index
    <3>1. F[k] = [index |-> IF due THEN Append(o.index, <<f.offset - base, o.size>>) ELSE o.index,
                  size |-> o.size + f.payload.size,
                  since |-> f.payload.size + IF due THEN 0 ELSE o.since]
        BY <1>5 DEF Indexed
    <3> HIDE DEF due, o, f
    <3>2. QED
        BY <3>1
  <2>3. o.index \in Seq(Int \X Int) /\ o.size \in Nat
      BY <2>1 DEF Object, Index
  <2>4. f.offset = base + m + k - 1 /\ w[m + k] = f
      BY <1>2
  <2>5. F[k].size = Bytes(SubSeq(w, 1, m + k))
    <3>1. m + k \in 1 .. Len(w) /\ (m + k) - 1 = m + (k - 1)
        BY <1>1
    <3>2. Bytes(SubSeq(w, 1, m + k)) = Bytes(SubSeq(w, 1, (m + k) - 1)) + w[m + k].payload.size
        BY <1>1, <3>1, BytesStep
    <3> HIDE DEF o, f
    <3>3. QED
        BY <2>1, <2>2, <2>4, <3>1, <3>2
  <2>6. ASSUME NEW e, Entry(e, k - 1) PROVE Entry(e, k)
    <3>1. e[1] \in 0 .. m + (k - 1) - 1
        BY <2>6
    <3>2. e[1] \in 0 .. m + k - 1
        BY <1>1, <3>1
    <3>3. QED
        BY <2>6, <3>2
  <2> DEFINE e == <<f.offset - base, o.size>>
  <2>7. Entry(e, k)
    <3>1. e[1] = m + k - 1 /\ e[2] = o.size
        BY <1>1, <2>4
    <3>2. m + k - 1 \in 0 .. m + k - 1 /\ m + k - 1 = m + (k - 1)
        BY <1>1
    <3> HIDE DEF e, o, f
    <3>3. QED
        BY <2>1, <3>1, <3>2
  <2>8. e \in Int \X Int
      BY <1>1, <2>3, <2>4
  <2>9. \A j \in 1 .. Len(F[k].index) : Entry(F[k].index[j], k)
    <3>1. \A j \in 1 .. Len(o.index) : Entry(o.index[j], k)
        BY <2>1, <2>6
    <3> HIDE DEF Entry, e, o
    <3>2. CASE due
      <4>1. /\ F[k].index = Append(o.index, e) /\ Len(F[k].index) = Len(o.index) + 1
            /\ Len(o.index) \in Nat /\ F[k].index[Len(o.index) + 1] = e
            /\ \A j \in 1 .. Len(o.index) : F[k].index[j] = o.index[j]
        <5> DEFINE x == o.index
        <5>1. x \in Seq(Int \X Int) /\ F[k].index = Append(x, e)
            BY <2>2, <2>3, <3>2 DEF e
        <5> HIDE DEF x
        <5>2. Len(x) \in Nat /\ Len(Append(x, e)) = Len(x) + 1
            BY <2>8, <5>1
        <5>3. Append(x, e)[Len(x) + 1] = e
            BY <2>8, <5>1
        <5>4. \A j \in 1 .. Len(x) : Append(x, e)[j] = x[j]
            BY <2>8, <5>1
        <5>5. QED
            BY <5>1, <5>2, <5>3, <5>4 DEF x
      <4>2. \A j \in 1 .. Len(o.index) + 1 : j \in 1 .. Len(o.index) \/ j = Len(o.index) + 1
          BY <4>1
      <4>3. ASSUME NEW j \in 1 .. Len(F[k].index) PROVE Entry(F[k].index[j], k)
        <5>1. j \in 1 .. Len(o.index) \/ j = Len(o.index) + 1
            BY <4>1, <4>2
        <5>2. CASE j \in 1 .. Len(o.index)
          <6>1. F[k].index[j] = o.index[j] /\ Entry(o.index[j], k)
              BY <3>1, <4>1, <5>2
          <6>2. QED
              BY <6>1
        <5>3. CASE j = Len(o.index) + 1
          <6>1. F[k].index[j] = e
              BY <4>1, <5>3
          <6>2. QED
              BY <2>7, <6>1
        <5>4. QED
            BY <5>1, <5>2, <5>3
      <4>4. QED
          BY <4>3
    <3>3. CASE ~due
        BY <2>2, <3>1, <3>3
    <3>4. QED
        BY <3>2, <3>3
  <2> HIDE DEF Entry
  <2>10. QED
      BY <2>1, <2>5, <2>9
<1>8. n \in Good
  <2>1. n \in 0 .. n
      BY <1>1
  <2> HIDE DEF Good
  <2>2. QED
      BY <1>1, <1>6, <1>7, <2>1, UpTo
<1>9. F[n].size = Bytes(w)
    BY <1>1, <1>8
<1>10. PointsInto(F[n].index, w)
  <2> SUFFICES ASSUME NEW j \in 1 .. Len(F[n].index)
               PROVE  /\ F[n].index[j][1] \in 0 .. Len(w) - 1
                      /\ F[n].index[j][2] = Bytes(SubSeq(w, 1, F[n].index[j][1]))
      BY DEF PointsInto
  <2>1. Entry(F[n].index[j], n)
    <3> HIDE DEF Entry
    <3>1. QED
        BY <1>8
  <2>2. QED
      BY <1>1, <2>1
<1>11. QED
    BY <1>3, <1>9, <1>10 DEF w

-----------------------------------------------------------------------------
(* The chain of files *)

\* What happens to the last file leaves the chain alone.
LEMMA ChainedLast ==
    ASSUME NEW B \in Seq(Segment), Chained(B), Len(B) # 0,
           NEW w \in Seq(Frame), NEW y \in Index
    PROVE  Chained(LastSet(B, w, y))
<1> DEFINE n == Len(B)
           vs == LastSet(B, w, y)
<1>1. /\ Len(vs) = n /\ n \in Nat /\ n \in 1 .. n /\ vs[n].base = B[n].base
      /\ \A i \in 1 .. n : i # n => vs[i] = B[i]
    BY LastReplaced
<1> HIDE DEF vs
<1>2. \A i \in 1 .. n : vs[i].base = B[i].base
    BY <1>1
<1>3. \A i \in 1 .. n - 1 : i \in 1 .. n /\ i # n /\ i + 1 \in 1 .. n
    BY <1>1
<1>4. vs[1].base = 0
  <2>1. 1 \in 1 .. n
      BY <1>1
  <2>2. QED
      BY <1>2, <2>1 DEF Chained
<1>5. ASSUME NEW i \in 1 .. n - 1
      PROVE  /\ Whole(vs[i].frames) /\ vs[i + 1].base = vs[i].base + Len(vs[i].frames)
             /\ PointsInto(vs[i].index, vs[i].frames)
  <2>1. vs[i] = B[i] /\ vs[i + 1].base = B[i + 1].base
      BY <1>1, <1>2, <1>3
  <2>2. QED
      BY <2>1 DEF Chained
<1> HIDE DEF n
<1>6. Chained(vs)
    BY <1>1, <1>4, <1>5 DEF Chained
<1>7. QED
    BY <1>6 DEF vs

\* A roll makes the chain longer: the new file's base is the end of a whole file.
LEMMA ChainedNew ==
    ASSUME NEW segs, Sound(segs), Chained(segs), NEW vs,
           Len(segs) # 0 => /\ Whole(segs[Len(segs)].frames)
                            /\ PointsInto(segs[Len(segs)].index, segs[Len(segs)].frames),
           vs = Append(segs, NewSegment(EndOf(segs)))
    PROVE  Chained(vs)
<1> DEFINE n == Len(segs)
           new == NewSegment(EndOf(segs))
<1>1. segs \in Seq(Segment) /\ EndOf(segs) \in Nat /\ n \in Nat
    BY EndInBounds, BoundAssumption DEF Sound
<1>2. new \in Segment /\ new.base = EndOf(segs)
    BY <1>1, NewSegmentFacts
<1> HIDE DEF new
<1>3. vs = Append(segs, new)
    BY DEF new
<1>4. Len(vs) = n + 1 /\ vs[n + 1] = new /\ \A i \in 1 .. n : vs[i] = segs[i]
    BY <1>1, <1>2, <1>3
<1>5. vs[1].base = 0
  <2>1. CASE n = 0
      BY <1>2, <1>4, <2>1 DEF EndOf
  <2>2. CASE n # 0
    <3>1. 1 \in 1 .. n
        BY <1>1, <2>2
    <3>2. QED
        BY <1>4, <2>2, <3>1 DEF Chained
  <2>3. QED
      BY <2>1, <2>2
<1>6. ASSUME NEW i \in 1 .. n
      PROVE  /\ Whole(vs[i].frames) /\ vs[i + 1].base = vs[i].base + Len(vs[i].frames)
             /\ PointsInto(vs[i].index, vs[i].frames)
  <2>1. CASE i = n
    <3>1. n # 0 /\ n \in 1 .. n /\ segs[n].frames \in Seq(Frame)
        BY <1>1, <2>1, CleanOfSegments
    <3>2. Whole(segs[n].frames) /\ PointsInto(segs[n].index, segs[n].frames)
        BY <3>1
    <3>3. EndOf(segs) = segs[n].base + Len(segs[n].frames)
      <4>1. Clean(segs[n].frames) = segs[n].frames
          BY <3>1, <3>2, CleanFacts
      <4>2. QED
          BY <3>1, <4>1 DEF EndOf
    <3>4. QED
        BY <1>2, <1>4, <2>1, <3>1, <3>2, <3>3
  <2>2. CASE i # n
    <3>1. i \in 1 .. n - 1 /\ i + 1 \in 1 .. n
        BY <1>1, <2>2
    <3>2. vs[i] = segs[i] /\ vs[i + 1] = segs[i + 1]
        BY <1>4, <3>1
    <3>3. QED
        BY <3>1, <3>2 DEF Chained
  <2>3. QED
      BY <2>1, <2>2
<1>7. Len(vs) - 1 = n
    BY <1>1, <1>4
<1> HIDE DEF n
<1>8. QED
    BY <1>5, <1>6, <1>7 DEF Chained

\* The files and the objects an append starts on.
LEMMA RolledReady ==
    ASSUME LogInv, FilesInv, up
    PROVE  /\ Chained(Rolled)
           /\ \A i \in 1 .. Len(Rolled) : RolledOpen[i].index = Rolled[i].index
           /\ PointsInto(Rolled[Len(Rolled)].index, Rolled[Len(Rolled)].frames)
           /\ RolledOpen[Len(Rolled)].size = Bytes(Rolled[Len(Rolled)].frames)
<1> DEFINE n == Len(segments)
<1>1. /\ Sound(segments) /\ n # 0 /\ Whole(segments[n].frames) /\ n \in Nat
      /\ EndOf(segments) = nextOffset /\ open \in Seq(Object) /\ Len(open) = n
    BY DEF LogInv, Working, Sound
<1>2. /\ Chained(segments) /\ \A i \in 1 .. n : open[i].index = segments[i].index
      /\ PointsInto(segments[n].index, segments[n].frames)
      /\ open[n].size = Bytes(segments[n].frames)
    BY DEF FilesInv, Ready
<1>3. CASE ~MustRoll
    BY <1>2, <1>3 DEF Rolled, RolledOpen
<1>4. CASE MustRoll
  <2> DEFINE vs == Append(segments, NewSegment(EndOf(segments)))
             os == Append(open, Empty)
  <2>1. Rolled = vs /\ RolledOpen = os
      BY <1>1, <1>4 DEF Rolled, RolledOpen
  <2>2. Chained(vs)
      BY <1>1, <1>2, ChainedNew
  <2>3. /\ Len(vs) = n + 1 /\ vs[n + 1] = NewSegment(EndOf(segments))
        /\ \A i \in 1 .. n : vs[i] = segments[i]
    <3>1. EndOf(segments) \in Nat
        BY <1>1 DEF LogInv
    <3>2. NewSegment(EndOf(segments)) \in Segment /\ segments \in Seq(Segment)
        BY <1>1, <3>1, NewSegmentFacts DEF Sound
    <3>3. QED
        BY <3>2
  <2>4. Len(os) = n + 1 /\ os[n + 1] = Empty /\ \A i \in 1 .. n : os[i] = open[i]
      BY <1>1
  <2> HIDE DEF vs, os
  <2>5. /\ vs[n + 1].index = <<>> /\ vs[n + 1].frames = <<>>
        /\ os[n + 1].index = <<>> /\ os[n + 1].size = 0
      BY <2>3, <2>4 DEF NewSegment, Empty
  <2>6. \A i \in 1 .. n + 1 : os[i].index = vs[i].index
    <3>1. \A i \in 1 .. n + 1 : i \in 1 .. n \/ i = n + 1
        BY <1>1
    <3>2. QED
        BY <1>2, <2>3, <2>4, <2>5, <3>1
  <2>7. PointsInto(vs[n + 1].index, vs[n + 1].frames)
      BY <2>5 DEF PointsInto
  <2>8. os[n + 1].size = Bytes(vs[n + 1].frames)
    <3>1. <<>> \in Seq(Frame) /\ Len(<<>>) = 0
        OBVIOUS
    <3>2. Bytes(<<>>) = 0
        BY <3>1, BytesInNat
    <3>3. QED
        BY <2>5, <3>2
  <2>9. QED
      BY <2>1, <2>2, <2>3, <2>6, <2>7, <2>8
<1>5. QED
    BY <1>3, <1>4

\* So does the first file that recover() creates.
LEMMA OpenedChained ==
    ASSUME LogInv, FilesInv
    PROVE  Chained(Opened)
<1>1. Sound(segments) /\ Chained(segments)
    BY DEF LogInv, FilesInv
<1>2. CASE segments = <<>>
  <2>1. EndOf(segments) = 0 /\ Len(segments) = 0
      BY <1>2 DEF EndOf
  <2>2. Opened = Append(segments, NewSegment(EndOf(segments)))
      BY <1>2, <2>1 DEF Opened
  <2>3. QED
      BY <1>1, <2>1, <2>2, ChainedNew
<1>3. CASE segments # <<>>
    BY <1>1, <1>3 DEF Opened
<1>4. QED
    BY <1>2, <1>3

-----------------------------------------------------------------------------

\* append and append_replicated keep the chain, and their entries point at frames.
LEMMA AppendKeepsFiles ==
    ASSUME LogInv, FilesInv, up, NEW batch \in Batches, nextOffset + Len(batch) <= MaxOffset,
           Written(batch)
    PROVE  FilesInv'
<1>1. /\ batch \in Seq(Frame) /\ Len(batch) \in Nat /\ Whole(batch)
      /\ \A k \in 1 .. Len(batch) : batch[k].offset = nextOffset + k - 1
    BY Numbers, BatchFacts
<1> DEFINE B == Rolled
           n == Len(B)
           s == IndexAll(B[n].base, RolledOpen[n], batch)
           w == B[n].frames \o batch
           vs == LastSet(B, w, s.index)
<1>2. s \in Object /\ s.index \in Index
  <2>1. s \in Object
      BY <1>1, IndexOfAppend
  <2>2. QED
      BY <2>1 DEF Object
<1>3. segments' = vs /\ open' = [RolledOpen EXCEPT ![n] = s]
    BY DEF Written, LastSet
<1>4. /\ Sound(B) /\ n # 0 /\ RolledOpen \in Seq(Object) /\ Len(RolledOpen) = n
      /\ Whole(B[n].frames) /\ EndOf(B) = nextOffset
    BY RolledFacts
<1>5. /\ Chained(B) /\ \A i \in 1 .. n : RolledOpen[i].index = B[i].index
      /\ PointsInto(B[n].index, B[n].frames) /\ RolledOpen[n].size = Bytes(B[n].frames)
    BY RolledReady
<1>6. B \in Seq(Segment) /\ n \in Nat /\ n \in 1 .. n
  <2>1. B \in Seq(Segment) /\ n \in Nat
      BY <1>4 DEF Sound
  <2>2. QED
      BY <1>4, <2>1
<1>7. B[n].frames \in Seq(Frame) /\ B[n].base \in Nat /\ RolledOpen[n] \in Object
    BY <1>4, <1>6, CleanOfSegments
<1>8. w \in Seq(Frame)
    BY <1>1, <1>7
<1>9. B[n].base + Len(B[n].frames) = nextOffset
  <2>1. Clean(B[n].frames) = B[n].frames
      BY <1>4, <1>7, CleanFacts
  <2>2. QED
      BY <1>4, <2>1 DEF EndOf
<1>10. s.size = Bytes(w) /\ PointsInto(s.index, w)
  <2>1. \A k \in 1 .. Len(batch) : batch[k].offset = B[n].base + Len(B[n].frames) + k - 1
      BY <1>1, <1>9
  <2>2. RolledOpen[n].index = B[n].index
      BY <1>5, <1>6
  <2> DEFINE a == B[n].base
             b == RolledOpen[n]
             c == B[n].frames
  <2>3. /\ a \in Nat /\ b \in Object /\ c \in Seq(Frame) /\ b.size = Bytes(c)
        /\ PointsInto(b.index, c)
        /\ \A k \in 1 .. Len(batch) : batch[k].offset = a + Len(c) + k - 1
      BY <1>5, <1>7, <2>1, <2>2
  <2> HIDE DEF a, b, c
  <2>4. /\ IndexAll(a, b, batch).size = Bytes(c \o batch)
        /\ PointsInto(IndexAll(a, b, batch).index, c \o batch)
      BY <1>1, <2>3, IndexAllPoints
  <2>5. QED
      BY <2>4 DEF a, b, c
<1> HIDE DEF s, w, B, n
<1>11. Chained(vs)
  <2> HIDE DEF vs
  <2>1. QED
      BY <1>2, <1>4, <1>5, <1>6, <1>8, ChainedLast DEF n, vs
<1>12. /\ Len(vs) = n /\ vs[n].frames = w /\ vs[n].index = s.index
       /\ \A i \in 1 .. n : i # n => vs[i] = B[i]
    BY <1>2, <1>4, <1>6, <1>8, LastReplaced DEF n
<1> HIDE DEF vs
<1>13. open'[n] = s /\ \A i \in 1 .. n : i # n => open'[i] = RolledOpen[i]
    BY <1>3, <1>4, <1>6
<1>14. \A i \in 1 .. n : open'[i].index = vs[i].index
    BY <1>5, <1>12, <1>13
<1>15. Ready'
    BY <1>3, <1>10, <1>12, <1>13, <1>14 DEF Ready
<1>16. QED
    BY <1>3, <1>11, <1>15 DEF FilesInv

\* scan_and_recover rebuilds the active file's index, load_index takes the closed ones'.
LEMMA RecoverKeepsFiles ==
    ASSUME LogInv, FilesInv, Recover
    PROVE  FilesInv'
<1> DEFINE B == Opened
           n == Len(B)
           w == Clean(B[n].frames)
           s == Scan(B[n])
           vs == LastSet(B, w, s.index)
<1>1. Sound(B) /\ n # 0 /\ n \in Nat /\ Chained(B)
    BY OpenedFacts, OpenedChained
<1>2. n \in 1 .. n /\ B \in Seq(Segment)
    BY <1>1 DEF Sound
<1>3. /\ up' = TRUE
      /\ open' = [i \in 1 .. n |-> IF i < n THEN LoadIndex(B[i]) ELSE s]
      /\ segments' = vs
    BY DEF Recover, Opened, LastSet, Truncated
<1>4. s \in Object /\ s.index \in Index
  <2>1. s \in Object
      BY <1>1, <1>2, ObjectsOfFiles
  <2>2. QED
      BY <2>1 DEF Object
<1>5. /\ B[n].base \in Nat /\ B[n].frames \in Seq(Frame) /\ w \in Seq(Frame) /\ InOrder(B[n])
    BY <1>1, <1>2, CleanOfSegments DEF Sound
<1>6. s.size = Bytes(w) /\ PointsInto(s.index, w)
  <2> DEFINE a == B[n].base
             e == <<>>
  <2>1. Empty \in Object /\ Empty.size = 0 /\ Empty.index = <<>>
    <3>1. <<>> \in Index
        BY DEF Index
    <3>2. QED
        BY <3>1 DEF Empty, Object
  <2>2. e \in Seq(Frame) /\ Len(e) = 0 /\ e \o w = w
      BY <1>5
  <2>3. Empty.size = Bytes(e) /\ PointsInto(Empty.index, e)
    <3>1. Bytes(e) = 0
        BY <2>2, BytesInNat
    <3>2. PointsInto(Empty.index, e)
        BY <2>1 DEF PointsInto
    <3>3. QED
        BY <2>1, <3>1, <3>2
  <2>4. \A k \in 1 .. Len(w) : w[k].offset = a + Len(e) + k - 1
    <3>1. \A k \in 1 .. Len(w) : w[k] = B[n].frames[k] /\ B[n].frames[k].offset = a + k - 1
        BY <1>5, CleanFacts DEF InOrder
    <3> HIDE DEF w, e
    <3>2. QED
        BY <1>5, <2>2, <3>1
  <2>5. s = IndexAll(a, Empty, w)
      BY DEF Scan
  <2> HIDE DEF e, w, a, s
  <2>6. /\ IndexAll(a, Empty, w).size = Bytes(e \o w)
        /\ PointsInto(IndexAll(a, Empty, w).index, e \o w)
    <3>1. a \in Nat
        BY <1>5 DEF a
    <3>2. QED
        BY <1>5, <2>1, <2>2, <2>3, <2>4, <3>1, IndexAllPoints
  <2>7. QED
      BY <2>2, <2>5, <2>6
<1> HIDE DEF s, w, B, n
<1>7. Chained(vs)
  <2> HIDE DEF vs
  <2>1. QED
      BY <1>1, <1>2, <1>4, <1>5, ChainedLast DEF n, vs
<1>8. /\ Len(vs) = n /\ vs[n].frames = w /\ vs[n].index = s.index
      /\ \A i \in 1 .. n : i # n => vs[i] = B[i]
    BY <1>1, <1>2, <1>4, <1>5, LastReplaced DEF n
<1> HIDE DEF vs
<1>9. open'[n] = s
    BY <1>1, <1>2, <1>3
<1>10. \A i \in 1 .. n : open'[i].index = vs[i].index
  <2> SUFFICES ASSUME NEW i \in 1 .. n PROVE open'[i].index = vs[i].index
      OBVIOUS
  <2>1. CASE i = n
      BY <1>8, <1>9, <2>1
  <2>2. CASE i # n
    <3>1. i < n
        BY <1>1, <2>2
    <3>2. open'[i] = LoadIndex(B[i])
        BY <1>3, <3>1
    <3>3. QED
        BY <1>8, <2>2, <3>2 DEF LoadIndex
  <2>3. QED
      BY <2>1, <2>2
<1>11. Ready'
    BY <1>3, <1>6, <1>8, <1>9, <1>10 DEF Ready
<1>12. QED
    BY <1>3, <1>7, <1>11 DEF FilesInv

\* Files that a crash leaves are chained when they were before it.
LEMMA DeathKeepsFiles ==
    ASSUME NEW segs, Die(segs), Chained(segs)
    PROVE  FilesInv'
<1>1. segments' = segs /\ up' = FALSE
    BY DEF Die
<1>2. Ready'
    BY <1>1 DEF Ready
<1>3. QED
    BY <1>1, <1>2 DEF FilesInv

\* A crash inside append disturbs the active file only.
LEMMA CrashInAppendKeepsFiles ==
    ASSUME LogInv, FilesInv, NEW batch \in Batches, CrashInAppend(batch)
    PROVE  FilesInv'
<1>1. up /\ batch \in Seq(Frame) /\ Len(batch) \in Nat
    BY Numbers, BatchFacts DEF CrashInAppend
<1> DEFINE B == Rolled
           n == Len(B)
<1>2. PICK j \in 0 .. Len(batch) : \E i \in {j, j + 1} \cap 0 .. Len(batch) :
       \E b \in 0 .. Bytes(SubSeq(batch, 1, j)) :
         Die([B EXCEPT ![n].frames = @ \o FirstBytes(batch, b),
                       ![n].index = IndexAll(B[n].base, RolledOpen[n], SubSeq(batch, 1, i)).index])
    BY DEF CrashInAppend
<1>3. PICK i \in 0 .. Len(batch), b \in 0 .. Bytes(SubSeq(batch, 1, j)) :
         Die([B EXCEPT ![n].frames = @ \o FirstBytes(batch, b),
                       ![n].index = IndexAll(B[n].base, RolledOpen[n], SubSeq(batch, 1, i)).index])
    BY <1>2
<1> DEFINE y == IndexAll(B[n].base, RolledOpen[n], SubSeq(batch, 1, i)).index
           w == B[n].frames \o FirstBytes(batch, b)
<1>4. y \in Index
  <2>1. IndexAll(B[n].base, RolledOpen[n], SubSeq(batch, 1, i)) \in Object
      BY <1>1, PartOf, IndexOfAppend
  <2>2. QED
      BY <2>1 DEF Object
<1>5. b \in Nat
  <2>1. Bytes(SubSeq(batch, 1, j)) \in Nat
      BY <1>1, PartOf, BytesInNat
  <2>2. QED
      BY <2>1
<1>6. PICK k \in 0 .. Len(batch), r \in Seq(Frame) :
         /\ FirstBytes(batch, b) = SubSeq(batch, 1, k) \o r
         /\ r = <<>> \/ (Len(r) = 1 /\ r[1].offset = Torn)
    BY <1>1, <1>5, Numbers, FirstBytesParts
<1>7. Sound(B) /\ n # 0 /\ Chained(B)
    BY <1>1, RolledFacts, RolledReady
<1>8. B \in Seq(Segment) /\ n \in 1 .. n
    BY <1>7 DEF Sound
<1>9. w \in Seq(Frame)
  <2>1. SubSeq(batch, 1, k) \in Seq(Frame) /\ B[n].frames \in Seq(Frame)
      BY <1>1, <1>8, PartOf, CleanOfSegments
  <2>2. QED
      BY <1>6, <2>1
<1>10. Die(LastSet(B, w, y))
  <2>1. Die([B EXCEPT ![n].frames = B[n].frames \o FirstBytes(batch, b), ![n].index = y])
      BY <1>3
  <2>2. QED
      BY <2>1 DEF LastSet
<1> HIDE DEF w, y
<1>11. Chained(LastSet(B, w, y))
    BY <1>4, <1>7, <1>8, <1>9, ChainedLast
<1>12. QED
    BY <1>10, <1>11, DeathKeepsFiles

\* And so does one inside recover().
LEMMA CrashInRecoverKeepsFiles ==
    ASSUME LogInv, FilesInv, CrashInRecover
    PROVE  FilesInv'
<1> DEFINE n == Len(segments)
<1>1. Sound(segments) /\ segments \in Seq(Segment) /\ n \in Nat /\ Chained(segments)
    BY DEF LogInv, FilesInv, Sound
<1>2. CASE segments = <<>> /\ Die(<<NewSegment(0)>>)
  <2>1. Opened = <<NewSegment(0)>>
      BY <1>2 DEF Opened
  <2>2. Die(Opened) /\ Chained(Opened)
      BY <1>2, <2>1, OpenedChained
  <2>3. QED
      BY <2>2, DeathKeepsFiles
<1>3. CASE /\ segments # <<>>
           /\ \E index \in Prefixes(Scan(segments[n]).index) :
              \E frames \in {segments[n].frames, Truncated(segments[n].frames)} :
                Die([segments EXCEPT ![n].frames = frames, ![n].index = index])
  <2>1. PICK y \in Prefixes(Scan(segments[n]).index),
             w \in {segments[n].frames, Truncated(segments[n].frames)} :
           Die([segments EXCEPT ![n].frames = w, ![n].index = y])
      BY <1>3
  <2>2. n # 0 /\ n \in 1 .. n
      BY <1>1, <1>3
  <2>3. y \in Index
      BY <1>1, <2>1, <2>2, PrefixIsIndex
  <2>4. w \in Seq(Frame)
      BY <1>1, <2>1, <2>2, CleanOfSegments DEF Truncated
  <2>5. Die(LastSet(segments, w, y))
      BY <2>1 DEF LastSet
  <2>6. Chained(LastSet(segments, w, y))
      BY <1>1, <2>2, <2>3, <2>4, ChainedLast
  <2>7. QED
      BY <2>5, <2>6, DeathKeepsFiles
<1>4. QED
    BY <1>2, <1>3 DEF CrashInRecover

\* Every step keeps the chain and the indexes.
LEMMA NextFiles ==
    ASSUME LogInv, FilesInv, [Next]_vars
    PROVE  FilesInv'
<1>1. CASE Recover
    BY <1>1, RecoverKeepsFiles
<1>2. ASSUME NEW batch \in Batches, AppendRecords(batch) \/ AppendReplicated(batch) PROVE FilesInv'
  <2>1. up /\ nextOffset + Len(batch) <= MaxOffset /\ Written(batch)
      BY <1>2 DEF AppendRecords, AppendReplicated
  <2>2. QED
      BY <2>1, AppendKeepsFiles
<1>3. ASSUME NEW batch \in Batches, CrashInAppend(batch) PROVE FilesInv'
    BY <1>3, CrashInAppendKeepsFiles
<1>4. ASSUME NEW h \in 0 .. nextOffset, SetHighWatermark(h) PROVE FilesInv'
  <2>1. segments' = segments /\ open' = open /\ up' = up
      BY <1>4 DEF SetHighWatermark
  <2>2. QED
      BY <2>1 DEF FilesInv, Ready
<1>5. CASE Crash
  <2>1. Die(segments) /\ Chained(segments)
      BY <1>5 DEF Crash, FilesInv
  <2>2. QED
      BY <2>1, DeathKeepsFiles
<1>6. CASE CrashInRecover
    BY <1>6, CrashInRecoverKeepsFiles
<1>7. CASE UNCHANGED vars
    BY <1>7 DEF FilesInv, Ready, vars
<1>8. QED
    BY <1>1, <1>2, <1>3, <1>4, <1>5, <1>6, <1>7 DEF Next

\* Files follow one another without a gap, and every index a reader uses points at frames.
THEOREM FilesInvHolds == Spec => []FilesInv
<1>1. Init => FilesInv
  <2> SUFFICES ASSUME Init PROVE FilesInv
      OBVIOUS
  <2>1. segments = <<>> /\ Len(segments) = 0 /\ up = FALSE
      BY DEF Init
  <2>2. QED
      BY <2>1 DEF FilesInv, Chained, Ready
<1>2. LogInv /\ FilesInv /\ [Next]_vars => FilesInv'
    BY NextFiles
<1>3. QED
    BY <1>1, <1>2, LogInvHolds, PTL DEF Spec

-----------------------------------------------------------------------------
(* Reading *)

\* The frames from m to n.
LEMMA PartFromTo ==
    ASSUME NEW s \in Seq(Frame), NEW m \in Nat \ {0}, NEW n \in 0 .. Len(s)
    PROVE  /\ SubSeq(s, m, n) \in Seq(Frame)
           /\ Len(SubSeq(s, m, n)) = IF m <= n THEN n - m + 1 ELSE 0
           /\ \A i \in 1 .. n - m + 1 : SubSeq(s, m, n)[i] = s[m + i - 1]
           /\ n < m => SubSeq(s, m, n) = <<>>
<1>1. Len(s) \in Nat /\ \A i \in 1 .. Len(s) : s[i] \in Frame
    OBVIOUS
<1>2. m \in Int /\ n \in Int /\ \A i \in m .. n : s[i] \in Frame
    BY <1>1
<1>3. /\ SubSeq(s, m, n) \in Seq(Frame)
      /\ Len(SubSeq(s, m, n)) = IF m <= n THEN n - m + 1 ELSE 0
      /\ \A i \in 1 .. n - m + 1 : SubSeq(s, m, n)[i] = s[m + i - 1]
    BY <1>2, SubSeqProperties
<1>4. n < m => SubSeq(s, m, n) = <<>>
    BY <1>2, SubSeqEmpty
<1>5. QED
    BY <1>3, <1>4

\* A turn of the loop of read_clamped.
Kept(kept, r, start) == IF r.offset < start THEN kept ELSE Append(kept, r)

\* Its turns.
Passes(frames, start) ==
    [k \in 1 .. Len(frames) |-> [v \in Seq(Frame) |-> Kept(v, frames[k], start)]]

\* The loop takes its turns from the first record to the last.
LEMMA SkippedRuns ==
    ASSUME NEW start, NEW frames \in Seq(Frame)
    PROVE  \E F : /\ Runs(F, Len(frames), Seq(Frame), <<>>, Passes(frames, start))
                  /\ F[Len(frames)] = Skipped(frames, start)
<1> DEFINE n == Len(frames)
           s0 == <<>>
           V == Seq(Frame)
           iter[s \in SUBSET DOMAIN frames] ==
             IF s = {} THEN <<>>
             ELSE LET x == CHOOSE x \in s : \A y \in s : x >= y
                  IN IF frames[x].offset < start THEN iter[s \ {x}]
                     ELSE Append(iter[s \ {x}], frames[x])
           h == [k \in 1 .. n |-> [v \in V |-> Kept(v, frames[k], start)]]
           W == V \cup {iter[s] : s \in SUBSET (1 .. n)}
           i == [k \in 1 .. n |-> [v \in W |-> Kept(v, frames[k], start)]]
<1>1. Skipped(frames, start) = iter[DOMAIN frames]
    BY DEF Skipped, FoldLeft, MapThenFoldSet, Max
<1>2. DOMAIN frames = 1 .. n /\ n \in Nat
    OBVIOUS
<1>3. \A k \in 1 .. n : \A v \in V : Kept(v, frames[k], start) \in V
  <2>1. \A k \in 1 .. n : frames[k] \in Frame
      OBVIOUS
  <2> HIDE DEF n
  <2>2. \A v \in V : \A f \in Frame : Append(v, f) \in V
      OBVIOUS
  <2> HIDE DEF V
  <2>3. QED
      BY <2>1, <2>2 DEF Kept
<1>4. h \in [1 .. n -> [V -> V]]
    BY <1>3
<1>5. s0 \in V
    OBVIOUS
<1>6. PICK g : FoldsUp(g, n, V, s0, h)
  <2> HIDE DEF h, s0, V
  <2>1. QED
      BY <1>2, <1>4, <1>5, FoldExists
<1>7. \A s \in SUBSET (1 .. n) : s # {} => Top(s) \in s /\ s \ {Top(s)} \in SUBSET (1 .. n)
    BY <1>2, TopExists
<1>8. g = [s \in SUBSET DOMAIN frames |->
             IF s = {} THEN <<>>
             ELSE LET x == CHOOSE x \in s : \A y \in s : x >= y
                  IN IF frames[x].offset < start THEN g[s \ {x}]
                     ELSE Append(g[s \ {x}], frames[x])]
  <2>1. /\ g \in [SUBSET (1 .. n) -> V]
        /\ \A s \in SUBSET (1 .. n) :
              g[s] = IF s = {} THEN <<>> ELSE h[Top(s)][g[s \ {Top(s)}]]
    <3> HIDE DEF h, V
    <3>1. QED
        BY <1>6 DEF FoldsUp, s0
  <2>2. \A k \in 1 .. n : \A v \in V : h[k][v] = Kept(v, frames[k], start)
      OBVIOUS
  <2> HIDE DEF h, n, V
  <2>3. ASSUME NEW s \in SUBSET (1 .. n), s # {}
        PROVE  g[s] = LET x == CHOOSE x \in s : \A y \in s : x >= y
                      IN IF frames[x].offset < start THEN g[s \ {x}]
                         ELSE Append(g[s \ {x}], frames[x])
    <3>1. Top(s) \in 1 .. n /\ s \ {Top(s)} \in SUBSET (1 .. n)
        BY <1>7, <2>3
    <3>2. g[s \ {Top(s)}] \in V
        BY <2>1, <3>1
    <3>3. g[s] = h[Top(s)][g[s \ {Top(s)}]]
        BY <2>1, <2>3
    <3>4. QED
        BY <2>2, <3>1, <3>2, <3>3 DEF Top, Kept
  <2>4. g = [s \in SUBSET (1 .. n) |-> g[s]]
      BY <2>1
  <2>5. g[{}] = <<>>
      BY <2>1
  <2>6. g = [s \in SUBSET (1 .. n) |->
               IF s = {} THEN <<>>
               ELSE LET x == CHOOSE x \in s : \A y \in s : x >= y
                    IN IF frames[x].offset < start THEN g[s \ {x}]
                         ELSE Append(g[s \ {x}], frames[x])]
      BY <2>3, <2>4, <2>5
  <2>7. QED
      BY <1>2, <2>6
<1>9. iter = [s \in SUBSET DOMAIN frames |->
             IF s = {} THEN <<>>
             ELSE LET x == CHOOSE x \in s : \A y \in s : x >= y
                  IN IF frames[x].offset < start THEN iter[s \ {x}]
                     ELSE Append(iter[s \ {x}], frames[x])]
    BY <1>8 DEF iter
<1> HIDE DEF iter, h
<1>10. iter \in [SUBSET (1 .. n) -> W]
    BY <1>2, <1>9
<1>11. \A s \in SUBSET (1 .. n) :
          iter[s] = IF s = {} THEN s0 ELSE i[Top(s)][iter[s \ {Top(s)}]]
    BY <1>2, <1>7, <1>9, <1>10 DEF Top, Kept
<1>12. PICK F : Runs(F, n, V, s0, i) /\ F[n] = iter[1 .. n]
  <2>1. n \in Nat /\ StepsIn(i, n, V)
      BY <1>2, <1>3 DEF StepsIn
  <2>2. FoldsUp(iter, n, W, s0, i)
      BY <1>10, <1>11 DEF FoldsUp
  <2> HIDE DEF W, i, n, s0, V
  <2>3. QED
      BY <1>5, <2>1, <2>2, FoldIsRun
<1>13. Runs(F, n, V, <<>>, Passes(frames, start))
  <2>1. F \in [0 .. n -> V] /\ F[0] = <<>> /\ \A k \in 1 .. n : F[k] = i[k][F[k - 1]]
    <3> HIDE DEF i, n
    <3>1. QED
        BY <1>12 DEF Runs
  <2>2. \A k \in 1 .. n : F[k - 1] \in V
      BY <1>2, <2>1
  <2>3. \A k \in 1 .. n : F[k] = Passes(frames, start)[k][F[k - 1]]
      BY <2>1, <2>2 DEF Passes
  <2> HIDE DEF i, n
  <2>4. QED
      BY <2>1, <2>3 DEF Runs
<1>14. QED
    BY <1>1, <1>2, <1>12, <1>13

\* Of records with consecutive offsets the loop keeps those from start on.
LEMMA SkippedIsTail ==
    ASSUME NEW p \in Nat, NEW d \in Nat, NEW D \in Seq(Frame),
           \A k \in 1 .. Len(D) : D[k].offset = p + k - 1
    PROVE  Skipped(D, p + d) = SubSeq(D, d + 1, Len(D))
<1> DEFINE n == Len(D)
           start == p + d
<1>1. PICK F : Runs(F, n, Seq(Frame), <<>>, Passes(D, start)) /\ F[n] = Skipped(D, start)
    BY SkippedRuns
<1>2. n \in Nat /\ d + 1 \in Nat \ {0} /\ start \in Nat
    OBVIOUS
<1>3. F[0] = <<>> /\ \A k \in 0 .. n : F[k] \in Seq(Frame)
    BY <1>1, <1>2 DEF Runs
<1>4. ASSUME NEW k \in 1 .. n
      PROVE  F[k] = IF D[k].offset < start THEN F[k - 1] ELSE Append(F[k - 1], D[k])
  <2>1. F[k] = Passes(D, start)[k][F[k - 1]] /\ k - 1 \in 0 .. n
      BY <1>1, <1>2 DEF Runs
  <2>2. F[k - 1] \in Seq(Frame)
      BY <1>3, <2>1
  <2>3. QED
      BY <2>1, <2>2 DEF Passes, Kept
<1> DEFINE Good == {k \in 0 .. n : F[k] = SubSeq(D, d + 1, k)}
<1>5. 0 \in Good
  <2>1. 0 \in 0 .. n /\ 0 < d + 1
      BY <1>2
  <2>2. SubSeq(D, d + 1, 0) = <<>>
      BY <1>2, <2>1, PartFromTo
  <2>3. QED
      BY <1>3, <2>1, <2>2
<1>6. ASSUME NEW k \in 1 .. n, k - 1 \in Good PROVE k \in Good
  <2>1. F[k - 1] = SubSeq(D, d + 1, k - 1) /\ k - 1 \in 0 .. n /\ k \in 0 .. n /\ k \in Nat
      BY <1>2, <1>6
  <2>2. D[k].offset = p + k - 1
      OBVIOUS
  <2>3. CASE k <= d
    <3>1. p + k - 1 < start /\ k < d + 1 /\ k - 1 < d + 1
        BY <1>2, <2>1, <2>3
    <3>2. SubSeq(D, d + 1, k) = <<>> /\ SubSeq(D, d + 1, k - 1) = <<>>
        BY <1>2, <2>1, <3>1, PartFromTo
    <3>3. F[k] = F[k - 1]
        BY <1>4, <2>2, <3>1
    <3>4. QED
        BY <2>1, <3>2, <3>3
  <2>4. CASE ~(k <= d)
    <3>1. ~(p + k - 1 < start) /\ d + 1 \in 1 .. Len(D) /\ k \in d + 1 .. Len(D)
        BY <1>2, <2>1, <2>4
    <3>2. SubSeq(D, d + 1, k) = SubSeq(D, d + 1, k - 1) \o <<D[k]>>
        BY <3>1, SubSeqRecursiveSecond
    <3>3. F[k] = Append(F[k - 1], D[k])
        BY <1>4, <2>2, <3>1
    <3>4. Append(F[k - 1], D[k]) = F[k - 1] \o <<D[k]>>
      <4>1. F[k - 1] \in Seq(Frame) /\ D[k] \in Frame
          BY <1>3, <2>1
      <4>2. QED
          BY <4>1, AppendIsConcat
    <3>5. QED
        BY <2>1, <3>2, <3>3, <3>4
  <2>5. QED
      BY <2>3, <2>4
<1>7. n \in Good
  <2>1. n \in 0 .. n
      BY <1>2
  <2> HIDE DEF Good
  <2>2. QED
      BY <1>2, <1>5, <1>6, <2>1, UpTo
<1>8. QED
    BY <1>1, <1>7

-----------------------------------------------------------------------------

\* Position i of the frames starts at byte pos.
StartsAt(frames, i, pos) ==
    i \in Nat /\ (i < Len(frames) \/ i = 0) /\ pos = Bytes(SubSeq(frames, 1, i))

\* Decoding from a byte where a frame starts gives that frame, or one before it that
\* starts there, too, and all that follow it.
LEMMA ReadFromStart ==
    ASSUME NEW frames \in Seq(Frame), Whole(frames), NEW i, NEW pos, StartsAt(frames, i, pos)
    PROVE  \E q \in 0 .. Len(frames) :
             q <= i /\ ReadFrom(frames, pos) = SubSeq(frames, q + 1, Len(frames))
<1> DEFINE n == Len(frames)
           starts == {j \in 1 .. n : Bytes(SubSeq(frames, 1, j - 1)) = pos}
<1>1. n \in Nat /\ i \in Nat
    BY DEF StartsAt
<1>2. ReadFrom(frames, pos)
        = IF starts = {} THEN <<>> ELSE Clean(SubSeq(frames, Min(starts), n))
    BY DEF ReadFrom
<1>3. CASE n = 0
  <2>1. starts = {}
      BY <1>3
  <2>2. SubSeq(frames, 0 + 1, n) = <<>> /\ 0 \in 0 .. n /\ 0 <= i
      BY <1>1, <1>3, PartFromTo
  <2>3. QED
      BY <1>2, <2>1, <2>2
<1>4. CASE n # 0
  <2>1. i + 1 \in starts
    <3>1. i + 1 \in 1 .. n /\ (i + 1) - 1 = i
        BY <1>1, <1>4 DEF StartsAt
    <3>2. QED
        BY <3>1 DEF StartsAt
  <2>2. starts \in SUBSET Nat /\ starts # {}
      BY <2>1
  <2>3. \A j \in starts : j \in 1 .. n
      OBVIOUS
  <2> HIDE DEF starts
  <2>4. \E x \in starts : \A y \in starts : x <= y
      BY <2>2, LeastExists
  <2>5. Min(starts) \in starts /\ \A y \in starts : Min(starts) <= y
      BY <2>4 DEF Min
  <2> DEFINE m == Min(starts)
  <2>6. m \in 1 .. n /\ m <= i + 1
      BY <2>1, <2>3, <2>5
  <2> HIDE DEF m
  <2>7. Clean(SubSeq(frames, m, n)) = SubSeq(frames, m, n)
    <3> DEFINE u == SubSeq(frames, m, n)
    <3>1. /\ u \in Seq(Frame) /\ Len(u) = n - m + 1
          /\ \A k \in 1 .. n - m + 1 : u[k] = frames[m + k - 1]
        BY <1>1, <2>6, PartFromTo
    <3> HIDE DEF u
    <3>2. Whole(u)
      <4>1. \A k \in 1 .. n - m + 1 : m + k - 1 \in 1 .. n
          BY <1>1, <2>6
      <4>2. QED
          BY <3>1, <4>1 DEF Whole
    <3>3. QED
        BY <3>1, <3>2, CleanFacts DEF u
  <2>8. m - 1 \in 0 .. n /\ m - 1 <= i /\ (m - 1) + 1 = m
      BY <1>1, <2>6
  <2>9. ReadFrom(frames, pos) = SubSeq(frames, (m - 1) + 1, n)
      BY <1>2, <2>2, <2>7, <2>8 DEF m
  <2>10. QED
      BY <2>8, <2>9
<1>5. QED
    BY <1>3, <1>4

\* No frames have no bytes.
LEMMA FirstStart ==
    ASSUME NEW frames \in Seq(Frame)
    PROVE  StartsAt(frames, 0, 0)
<1>1. Len(frames) \in Nat
    OBVIOUS
<1>2. 0 \in 0 .. Len(frames)
    BY <1>1
<1>3. SubSeq(frames, 1, 0) \in Seq(Frame) /\ Len(SubSeq(frames, 1, 0)) = 0
    BY <1>2, PartFromTo
<1>4. Bytes(SubSeq(frames, 1, 0)) = 0
    BY <1>3, BytesInNat
<1>5. QED
    BY <1>4 DEF StartsAt

\* A whole file that is read from its start is read in full.
LEMMA ReadFromZero ==
    ASSUME NEW frames \in Seq(Frame), Whole(frames)
    PROVE  ReadFrom(frames, 0) = frames
<1>1. StartsAt(frames, 0, 0)
    BY FirstStart
<1>2. PICK q \in 0 .. Len(frames) :
        q <= 0 /\ ReadFrom(frames, 0) = SubSeq(frames, q + 1, Len(frames))
  <2> DEFINE z == 0
  <2>1. StartsAt(frames, z, z)
      BY <1>1
  <2> HIDE DEF z
  <2>2. \E q \in 0 .. Len(frames) :
          q <= z /\ ReadFrom(frames, z) = SubSeq(frames, q + 1, Len(frames))
      BY <2>1, ReadFromStart
  <2>3. QED
      BY <2>2 DEF z
<1>3. q = 0
    BY <1>2
<1>4. SubSeq(frames, 1, Len(frames)) = frames
    BY SubSeqFull
<1>5. QED
    BY <1>2, <1>3, <1>4

\* The sparse index leads to a frame at or before the one that is looked for.
LEMMA FindsStart ==
    ASSUME NEW frames \in Seq(Frame), NEW index \in Index, PointsInto(index, frames),
           NEW rel \in Nat
    PROVE  \E i : StartsAt(frames, i, FindStartPosition(index, rel)) /\ i <= rel
<1> DEFINE I == {j \in 1 .. Len(index) : index[j][1] <= rel}
<1>1. FindStartPosition(index, rel)
        = LET t == IF I # {} THEN Max(I) ELSE 0 IN IF t = 0 THEN 0 ELSE index[t][2]
    BY DEF FindStartPosition, SelectLastInSeq
<1>2. Len(index) \in Nat /\ Len(frames) \in Nat
    BY DEF Index
<1>3. CASE I = {}
  <2>1. FindStartPosition(index, rel) = 0
      BY <1>1, <1>3
  <2>2. 0 <= rel
      OBVIOUS
  <2>3. QED
      BY <2>1, <2>2, FirstStart
<1>4. CASE I # {}
  <2>1. I \in SUBSET (0 .. Len(index))
      BY <1>2
  <2>2. \A t \in I : t \in 1 .. Len(index) /\ index[t][1] <= rel
      OBVIOUS
  <2> HIDE DEF I
  <2>3. Max(I) \in I
      BY <1>2, <1>4, <2>1, MaxExists
  <2> DEFINE t == Max(I)
             i == index[t][1]
  <2>4. t \in 1 .. Len(index) /\ i <= rel
      BY <2>2, <2>3
  <2> HIDE DEF t
  <2>5. FindStartPosition(index, rel) = index[t][2]
      BY <1>1, <1>4, <2>4 DEF t
  <2>6. i \in 0 .. Len(frames) - 1 /\ index[t][2] = Bytes(SubSeq(frames, 1, i))
      BY <2>4 DEF PointsInto
  <2>7. i \in Nat /\ i < Len(frames)
      BY <1>2, <2>6
  <2>8. StartsAt(frames, i, FindStartPosition(index, rel))
      BY <2>5, <2>6, <2>7 DEF StartsAt
  <2>9. QED
      BY <2>4, <2>8
<1>5. QED
    BY <1>3, <1>4

-----------------------------------------------------------------------------

\* The files of a running process are whole and in order, with indexes that point into
\* them.
LEMMA RunningFiles ==
    ASSUME LogInv, FilesInv, up
    PROVE  /\ segments \in Seq(Segment) /\ Len(segments) \in Nat /\ Len(segments) # 0
           /\ segments[1].base = 0
           /\ \A i \in 1 .. Len(segments) :
                /\ segments[i].frames \in Seq(Frame) /\ Whole(segments[i].frames)
                /\ segments[i].base \in Nat
                /\ open[i].index \in Index /\ PointsInto(open[i].index, segments[i].frames)
           /\ \A i \in 1 .. Len(segments) - 1 :
                segments[i + 1].base = segments[i].base + Len(segments[i].frames)
<1> DEFINE n == Len(segments)
<1>1. segments \in Seq(Segment) /\ n \in Nat /\ n # 0 /\ Whole(segments[n].frames)
    BY DEF LogInv, Sound, Working
<1>2. /\ segments[1].base = 0
      /\ \A i \in 1 .. n - 1 :
           /\ Whole(segments[i].frames) /\ PointsInto(segments[i].index, segments[i].frames)
           /\ segments[i + 1].base = segments[i].base + Len(segments[i].frames)
  <2>1. Chained(segments)
      BY DEF FilesInv
  <2>2. QED
      BY <1>1, <2>1 DEF Chained
<1>3. /\ \A i \in 1 .. n : open[i].index = segments[i].index
      /\ PointsInto(segments[n].index, segments[n].frames)
    BY DEF FilesInv, Ready
<1>4. ASSUME NEW i \in 1 .. n
      PROVE  /\ segments[i].frames \in Seq(Frame) /\ Whole(segments[i].frames)
             /\ segments[i].base \in Nat
             /\ open[i].index \in Index /\ PointsInto(open[i].index, segments[i].frames)
  <2>1. segments[i] \in Segment
      BY <1>1
  <2>2. /\ segments[i].frames \in Seq(Frame) /\ segments[i].base \in Nat
        /\ segments[i].index \in Index
      BY <2>1 DEF Segment
  <2>3. i \in 1 .. n - 1 \/ i = n
      BY <1>1
  <2>4. Whole(segments[i].frames) /\ PointsInto(segments[i].index, segments[i].frames)
      BY <1>1, <1>2, <1>3, <2>3
  <2>5. open[i].index = segments[i].index
      BY <1>3
  <2>6. QED
      BY <2>2, <2>4, <2>5
<1>5. QED
    BY <1>1, <1>2, <1>4

\* Reading starts in a file that starts at or before the offset.
LEMMA SegmentForFacts ==
    ASSUME LogInv, FilesInv, up, NEW start \in Nat
    PROVE  SegmentFor(start) \in 1 .. Len(segments) /\ segments[SegmentFor(start)].base <= start
<1> DEFINE n == Len(segments)
           I == {i \in 1 .. n : segments[i].base <= start}
<1>1. n \in Nat /\ n # 0 /\ segments[1].base = 0
    BY RunningFiles
<1>2. SegmentFor(start) = LET t == IF I # {} THEN Max(I) ELSE 0 IN IF t = 0 THEN 1 ELSE t
    BY DEF SegmentFor, SelectLastInSeq
<1>3. 1 \in I
  <2>1. 1 \in 1 .. n /\ 0 <= start
      BY <1>1
  <2>2. QED
      BY <1>1, <2>1
<1>4. I \in SUBSET (0 .. n) /\ I # {} /\ \A i \in I : i \in 1 .. n /\ segments[i].base <= start
    BY <1>1, <1>3
<1> HIDE DEF I
<1>5. Max(I) \in I
    BY <1>1, <1>4, MaxExists
<1>6. Max(I) # 0
    BY <1>4, <1>5
<1>7. SegmentFor(start) = Max(I)
    BY <1>2, <1>4, <1>6
<1>8. QED
    BY <1>4, <1>5, <1>7

\* There the index leads to a frame at or before the offset.
LEMMA FirstFileRead ==
    ASSUME LogInv, FilesInv, up, NEW start \in Nat, NEW f, f = SegmentFor(start)
    PROVE  \E q \in 0 .. Len(segments[f].frames) :
             /\ segments[f].base + q <= start
             /\ ReadFrom(segments[f].frames, FromPos(f, start))
                  = SubSeq(segments[f].frames, q + 1, Len(segments[f].frames))
<1> DEFINE frames == segments[f].frames
           base == segments[f].base
<1>1. f \in 1 .. Len(segments) /\ base <= start
    BY SegmentForFacts
<1>2. /\ frames \in Seq(Frame) /\ Whole(frames) /\ base \in Nat
      /\ open[f].index \in Index /\ PointsInto(open[f].index, frames)
    BY <1>1, RunningFiles
<1>3. start - base \in Nat
    BY <1>1, <1>2
<1> HIDE DEF frames, base
<1>4. PICK i : StartsAt(frames, i, FromPos(f, start)) /\ i <= start - base
  <2>1. CASE start > base
    <3>1. FromPos(f, start) = FindStartPosition(open[f].index, start - base)
        BY <2>1 DEF FromPos, base
    <3>2. QED
        BY <1>2, <1>3, <3>1, FindsStart
  <2>2. CASE ~(start > base)
    <3>1. FromPos(f, start) = 0
        BY <2>2 DEF FromPos, base
    <3>2. StartsAt(frames, 0, 0) /\ 0 <= start - base
        BY <1>2, <1>3, FirstStart
    <3>3. QED
        BY <3>1, <3>2
  <2>3. QED
      BY <2>1, <2>2
<1>5. PICK q \in 0 .. Len(frames) :
        q <= i /\ ReadFrom(frames, FromPos(f, start)) = SubSeq(frames, q + 1, Len(frames))
    BY <1>2, <1>4, ReadFromStart
<1>6. base + q <= start
  <2>1. q \in Int /\ i \in Int /\ start \in Int /\ base \in Int
      BY <1>2, <1>4, <1>5 DEF StartsAt
  <2>2. q <= i /\ i <= start - base
      BY <1>4, <1>5
  <2>3. QED
      BY <2>1, <2>2
<1>7. QED
    BY <1>5, <1>6 DEF frames, base

\* The parts of files that are read one after another.
Parts(start) ==
    [k \in 1 .. Len(segments) - SegmentFor(start) + 1 |->
       ReadFrom(segments[SegmentFor(start) + k - 1].frames,
                IF k = 1 THEN FromPos(SegmentFor(start), start) ELSE 0)]

\* The files' frames joined, up to the one where each step ends.
JoinsUp(F, n, sq) ==
    /\ \A k \in 0 .. n : F[k] \in Seq(Frame)
    /\ F[0] = <<>>
    /\ \A k \in 1 .. n : F[k] = F[k - 1] \o sq[k]

\* What a sequence of sequences flattens to is joined step by step.
LEMMA Flattened ==
    ASSUME NEW n \in Nat, NEW sq \in [1 .. n -> Seq(Frame)]
    PROVE  \E F : JoinsUp(F, n, sq) /\ FlattenSeq(sq) = F[n]
<1> DEFINE h == [k \in 1 .. n |-> [v \in Seq(Frame) |-> v \o sq[k]]]
<1>1. PICK F : Runs(F, n, Seq(Frame), <<>>, h) /\ FlattenSeq(sq) = F[n]
    BY FlattenRuns
<1>2. /\ F \in [0 .. n -> Seq(Frame)] /\ F[0] = <<>>
      /\ \A k \in 1 .. n : F[k] = h[k][F[k - 1]]
  <2> HIDE DEF h
  <2>1. QED
      BY <1>1 DEF Runs
<1>3. ASSUME NEW k \in 1 .. n PROVE F[k] = F[k - 1] \o sq[k]
  <2>1. k - 1 \in 0 .. n
      OBVIOUS
  <2>2. F[k - 1] \in Seq(Frame)
      BY <1>2, <2>1
  <2>3. QED
      BY <1>2, <2>2
<1>4. JoinsUp(F, n, sq)
    BY <1>2, <1>3 DEF JoinsUp
<1>5. QED
    BY <1>1, <1>4

-----------------------------------------------------------------------------

\* The files before one hold as many records as its base says.
LEMMA BasesCount ==
    ASSUME LogInv, FilesInv, up, NEW F,
           JoinsUp(F, Len(segments), [i \in 1 .. Len(segments) |-> Clean(segments[i].frames)])
    PROVE  \A k \in 0 .. Len(segments) - 1 : Len(F[k]) = segments[k + 1].base
<1> DEFINE n == Len(segments)
           sq == [i \in 1 .. n |-> Clean(segments[i].frames)]
           Good == {k \in 0 .. n - 1 : Len(F[k]) = segments[k + 1].base}
<1>1. /\ n \in Nat /\ n # 0 /\ segments[1].base = 0
      /\ \A i \in 1 .. n : segments[i].frames \in Seq(Frame) /\ Whole(segments[i].frames)
                           /\ segments[i].base \in Nat
      /\ \A i \in 1 .. n - 1 : segments[i + 1].base = segments[i].base + Len(segments[i].frames)
    BY RunningFiles
<1>2. /\ \A k \in 0 .. n : F[k] \in Seq(Frame)
      /\ F[0] = <<>> /\ \A k \in 1 .. n : F[k] = F[k - 1] \o sq[k]
    BY DEF JoinsUp
<1>3. 0 \in Good
  <2>1. 0 \in 0 .. n - 1 /\ 0 + 1 = 1 /\ Len(<<>>) = 0
      BY <1>1
  <2>2. QED
      BY <1>1, <1>2, <2>1
<1>4. ASSUME NEW k \in 1 .. n - 1, k - 1 \in Good PROVE k \in Good
  <2>1. k \in 1 .. n /\ k - 1 \in 0 .. n /\ k \in 0 .. n - 1 /\ (k - 1) + 1 = k
      BY <1>1
  <2>2. Len(F[k - 1]) = segments[k].base
      BY <1>4, <2>1
  <2>3. sq[k] = segments[k].frames /\ segments[k].frames \in Seq(Frame)
      BY <1>1, <2>1, CleanFacts
  <2>4. F[k] = F[k - 1] \o segments[k].frames /\ F[k - 1] \in Seq(Frame)
      BY <1>2, <2>1, <2>3
  <2>5. Len(F[k]) = Len(F[k - 1]) + Len(segments[k].frames)
      BY <2>3, <2>4
  <2>6. QED
      BY <1>1, <2>1, <2>2, <2>5
<1>5. n - 1 \in Nat
    BY <1>1
<1> HIDE DEF Good
<1>6. \A k \in 0 .. n - 1 : k \in Good
    BY <1>3, <1>4, <1>5, UpTo
<1>7. QED
    BY <1>6 DEF Good

\* What is decoded is the log without a start of it that ends at or before the offset.
LEMMA DecodedIsTail ==
    ASSUME LogInv, FilesInv, up, NEW start \in Nat
    PROVE  /\ Decoded(start) \in Seq(Frame)
           /\ \E P \in Seq(Frame) : Len(P) <= start /\ Stored = P \o Decoded(start)
<1> DEFINE n == Len(segments)
           f == SegmentFor(start)
           m == n - f + 1
           sq == [i \in 1 .. n |-> Clean(segments[i].frames)]
           sr == Parts(start)
           u == segments[f].frames
<1>1. /\ n \in Nat /\ n # 0
      /\ \A i \in 1 .. n : segments[i].frames \in Seq(Frame) /\ Whole(segments[i].frames)
                           /\ segments[i].base \in Nat
    BY RunningFiles
<1>2. f \in 1 .. n /\ segments[f].base <= start
    BY SegmentForFacts
<1>3. m \in Nat /\ m # 0 /\ \A k \in 1 .. m : f + k - 1 \in 1 .. n
    BY <1>1, <1>2
<1>4. \A i \in 1 .. n : sq[i] = segments[i].frames
    BY <1>1, CleanFacts
<1>5. PICK q \in 0 .. Len(u) :
        /\ segments[f].base + q <= start
        /\ ReadFrom(u, FromPos(f, start)) = SubSeq(u, q + 1, Len(u))
  <2> HIDE DEF f
  <2>1. f = SegmentFor(start)
      BY DEF f
  <2>2. QED
      BY <2>1, FirstFileRead
<1>6. u \in Seq(Frame) /\ Len(u) \in Nat /\ segments[f].base \in Nat
    BY <1>1, <1>2
<1> DEFINE v == SubSeq(u, q + 1, Len(u))
           w == SubSeq(u, 1, q)
<1>7. v \in Seq(Frame) /\ w \in Seq(Frame) /\ Len(w) = q /\ w \o v = u
  <2>1. q + 1 \in Nat \ {0} /\ 1 \in Nat \ {0} /\ Len(u) \in 0 .. Len(u)
      BY <1>6
  <2>2. v \in Seq(Frame)
      BY <1>6, <2>1, PartFromTo
  <2>3. w \in Seq(Frame) /\ Len(w) = q
    <3>1. w \in Seq(Frame) /\ Len(w) = IF 1 <= q THEN q - 1 + 1 ELSE 0
        BY <1>6, <2>1, PartFromTo
    <3>2. QED
        BY <1>6, <3>1
  <2>4. w \o v = SubSeq(u, 1, Len(u))
    <3>1. 1 \in 1 .. Len(u) + 1 /\ q \in 1 - 1 .. Len(u) /\ Len(u) \in q .. Len(u)
        BY <1>6
    <3>2. QED
        BY <1>6, <3>1, ConcatAdjacentSubSeq
  <2>5. SubSeq(u, 1, Len(u)) = u
      BY <1>6, SubSeqFull
  <2>6. QED
      BY <2>2, <2>3, <2>4, <2>5
<1> HIDE DEF v, w
<1>8. sr[1] = v /\ \A k \in 1 .. m : k # 1 => sr[k] = segments[f + k - 1].frames
  <2>1. \A k \in 1 .. m : sr[k] = ReadFrom(segments[f + k - 1].frames,
                                           IF k = 1 THEN FromPos(f, start) ELSE 0)
      BY DEF Parts
  <2>2. sr[1] = v
    <3>1. 1 \in 1 .. m /\ f + 1 - 1 = f
        BY <1>2, <1>3
    <3>2. sr[1] = ReadFrom(segments[f + 1 - 1].frames, FromPos(f, start))
        BY <2>1, <3>1
    <3>3. QED
        BY <1>5, <3>1, <3>2 DEF v
  <2>3. ASSUME NEW k \in 1 .. m, k # 1 PROVE sr[k] = segments[f + k - 1].frames
    <3>1. sr[k] = ReadFrom(segments[f + k - 1].frames, 0)
        BY <2>1, <2>3
    <3> DEFINE i == f + k - 1
    <3>2. i \in 1 .. n
        BY <1>3
    <3> HIDE DEF i
    <3>3. ReadFrom(segments[i].frames, 0) = segments[i].frames
        BY <1>1, <3>2, ReadFromZero
    <3>4. QED
        BY <3>1, <3>3 DEF i
  <2>4. QED
      BY <2>2, <2>3
<1>9. sq \in [1 .. n -> Seq(Frame)]
    BY <1>1, <1>4
<1>10. sr \in [1 .. m -> Seq(Frame)]
  <2>1. \A k \in 1 .. m : sr[k] \in Seq(Frame)
      BY <1>1, <1>3, <1>7, <1>8
  <2>2. sr = [k \in 1 .. m |-> sr[k]]
      BY DEF Parts
  <2> HIDE DEF sr, m
  <2>3. QED
      BY <2>1, <2>2
<1>11. Stored = FlattenSeq(sq) /\ Decoded(start) = FlattenSeq(sr)
    BY DEF Stored, Decoded, Parts
<1> HIDE DEF sr
<1>12. PICK F : JoinsUp(F, n, sq) /\ FlattenSeq(sq) = F[n]
  <2> HIDE DEF sq, n
  <2>1. QED
      BY <1>1, <1>9, Flattened
<1>13. PICK G : JoinsUp(G, m, sr) /\ FlattenSeq(sr) = G[m]
  <2> HIDE DEF m
  <2>1. QED
      BY <1>3, <1>10, Flattened
<1>14. Len(F[f - 1]) = segments[f].base
  <2>1. f - 1 \in 0 .. n - 1 /\ (f - 1) + 1 = f
      BY <1>1, <1>2
  <2>2. QED
      BY <1>12, <2>1, BasesCount
<1>15. /\ \A k \in 0 .. n : F[k] \in Seq(Frame)
       /\ \A k \in 1 .. n : F[k] = F[k - 1] \o segments[k].frames
  <2> HIDE DEF sq
  <2>1. QED
      BY <1>4, <1>12 DEF JoinsUp
<1>16. /\ \A k \in 0 .. m : G[k] \in Seq(Frame)
       /\ G[0] = <<>> /\ \A k \in 1 .. m : G[k] = G[k - 1] \o sr[k]
    BY <1>13 DEF JoinsUp
<1> DEFINE P == F[f - 1] \o w
<1>17. P \in Seq(Frame) /\ Len(P) <= start
  <2>1. f - 1 \in 0 .. n
      BY <1>1, <1>2
  <2>2. F[f - 1] \in Seq(Frame)
      BY <1>15, <2>1
  <2>3. P \in Seq(Frame) /\ Len(P) = Len(F[f - 1]) + Len(w)
    <3> HIDE DEF f
    <3>1. QED
        BY <1>7, <2>2, ConcatProperties
  <2>4. QED
      BY <1>5, <1>7, <1>14, <2>3
<1> DEFINE Good == {k \in 0 .. m - 1 : F[f + k] = P \o G[k + 1]}
<1>18. 0 \in Good
  <2>1. 0 \in 0 .. m - 1 /\ 1 \in 1 .. m /\ f + 0 = f /\ 0 + 1 = 1 /\ f - 1 \in 0 .. n
      BY <1>1, <1>2, <1>3
  <2>2. F[f] = F[f - 1] \o u /\ F[f - 1] \in Seq(Frame)
      BY <1>2, <1>15, <2>1
  <2>3. G[1] = v
    <3>1. G[1] = G[1 - 1] \o sr[1] /\ 1 - 1 = 0
      <4>1. 1 - 1 = 0
          OBVIOUS
      <4> HIDE DEF m
      <4>2. QED
          BY <1>16, <2>1, <4>1
    <3>2. <<>> \o v = v
        BY <1>7, JoinThree
    <3>3. QED
        BY <1>8, <1>16, <3>1, <3>2
  <2> HIDE DEF u, f
  <2>4. F[f - 1] \o u = P \o v
    <3> DEFINE a == F[f - 1]
    <3>1. a \in Seq(Frame) /\ w \in Seq(Frame) /\ v \in Seq(Frame)
        BY <1>7, <2>2
    <3> HIDE DEF a
    <3>2. Associates(a, w, v)
        BY <3>1, JoinAssociates
    <3>3. QED
        BY <1>7, <3>2 DEF Associates, a
  <2> HIDE DEF P, m
  <2>5. QED
      BY <2>1, <2>2, <2>3, <2>4
<1>19. ASSUME NEW k \in 1 .. m - 1, k - 1 \in Good PROVE k \in Good
  <2>1. /\ k \in 0 .. m - 1 /\ k + 1 \in 1 .. m /\ (k + 1) - 1 = k /\ (k - 1) + 1 = k
        /\ f + k \in 1 .. n /\ (f + k) - 1 = f + (k - 1) /\ f + (k + 1) - 1 = f + k
        /\ k \in 0 .. m /\ k + 1 # 1
    <3>1. m \in Int /\ f \in Nat /\ n \in Nat /\ f >= 1 /\ n = f + m - 1
      <4>1. f \in 1 .. n
          BY <1>2
      <4>2. n \in Nat
          BY <1>1
      <4> HIDE DEF f, n
      <4>3. f \in Nat /\ f >= 1
          BY <4>1, <4>2
      <4>4. m = n - f + 1
          OBVIOUS
      <4> HIDE DEF m
      <4>5. m \in Int /\ n = f + m - 1
          BY <4>2, <4>3, <4>4
      <4>6. QED
          BY <4>2, <4>3, <4>5
    <3> HIDE DEF m, f, n
    <3>2. k \in Int /\ 1 <= k /\ k <= m - 1
        BY <3>1
    <3>3. k \in 0 .. m - 1 /\ k + 1 \in 1 .. m /\ k \in 0 .. m /\ k + 1 # 1
        BY <3>1, <3>2
    <3>4. (k + 1) - 1 = k /\ (k - 1) + 1 = k
        BY <3>2
    <3>5. (f + k) - 1 = f + (k - 1) /\ f + (k + 1) - 1 = f + k
        BY <3>1, <3>2
    <3>6. f + k \in 1 .. n
        BY <3>1, <3>2
    <3>7. QED
        BY <3>3, <3>4, <3>5, <3>6
  <2>2. F[f + (k - 1)] = P \o G[k]
      BY <1>19, <2>1
  <2> DEFINE x == segments[f + k].frames
  <2>3. F[f + k] = F[f + (k - 1)] \o x
      BY <1>15, <2>1
  <2>4. G[k + 1] = G[k] \o x
    <3>1. sr[k + 1] = x
        BY <1>8, <2>1
    <3> HIDE DEF x, m
    <3>2. QED
        BY <1>16, <2>1, <3>1
  <2>5. x \in Seq(Frame) /\ G[k] \in Seq(Frame)
      BY <1>1, <1>16, <2>1
  <2> HIDE DEF x, P, m, f
  <2>6. (P \o G[k]) \o x = P \o (G[k] \o x)
    <3> DEFINE b == G[k]
    <3>1. P \in Seq(Frame) /\ b \in Seq(Frame) /\ x \in Seq(Frame)
        BY <1>17, <2>5
    <3> HIDE DEF b
    <3>2. (P \o b) \o x = P \o (b \o x)
        BY <3>1, JoinThree
    <3>3. QED
        BY <3>2 DEF b
  <2>7. QED
      BY <2>1, <2>2, <2>3, <2>4, <2>6
<1> HIDE DEF P
<1>20. m - 1 \in Good
  <2>1. m - 1 \in Nat /\ m - 1 \in 0 .. m - 1
      BY <1>3
  <2> HIDE DEF Good, m
  <2>2. QED
      BY <1>18, <1>19, <2>1, UpTo
<1>21. F[n] = P \o G[m]
  <2>1. f + (m - 1) = n /\ (m - 1) + 1 = m
      BY <1>1, <1>2
  <2>2. F[f + (m - 1)] = P \o G[(m - 1) + 1]
    <3> HIDE DEF f, m
    <3>1. QED
        BY <1>20
  <2> HIDE DEF f, m, n
  <2>3. QED
      BY <2>1, <2>2
<1>22. G[m] \in Seq(Frame)
  <2>1. m \in 0 .. m
      BY <1>3
  <2>2. QED
      BY <1>16, <2>1
<1> HIDE DEF sq, n, m, f
<1>23. QED
    BY <1>11, <1>12, <1>13, <1>17, <1>21, <1>22

-----------------------------------------------------------------------------

\* The end of what is behind P is the end of all.
LEMMA TailOfJoined ==
    ASSUME NEW P \in Seq(Frame), NEW D \in Seq(Frame), NEW d \in Nat, NEW S, S = P \o D
    PROVE  SubSeq(D, d + 1, Len(D)) = SubSeq(S, Len(P) + d + 1, Len(S))
<1> DEFINE p == Len(P)
           n == Len(D)
           a == SubSeq(D, d + 1, n)
           b == SubSeq(S, p + d + 1, p + n)
<1>1. p \in Nat /\ n \in Nat /\ S \in Seq(Frame) /\ Joined(S, P, D)
    BY Concatenated
<1>2. Len(S) = p + n /\ \A k \in 1 .. n : S[p + k] = D[k]
    BY <1>1 DEF Joined
<1>3. d + 1 \in Nat \ {0} /\ p + d + 1 \in Nat \ {0} /\ n \in 0 .. n /\ p + n \in 0 .. Len(S)
    BY <1>1, <1>2
<1>4. /\ a \in Seq(Frame) /\ Len(a) = IF d + 1 <= n THEN n - (d + 1) + 1 ELSE 0
      /\ \A i \in 1 .. n - (d + 1) + 1 : a[i] = D[d + 1 + i - 1]
    BY <1>3, PartFromTo
<1>5. /\ b \in Seq(Frame)
      /\ Len(b) = IF p + d + 1 <= p + n THEN p + n - (p + d + 1) + 1 ELSE 0
      /\ \A i \in 1 .. p + n - (p + d + 1) + 1 : b[i] = S[p + d + 1 + i - 1]
  <2> DEFINE l == p + d + 1
             h == p + n
  <2>1. l \in Nat \ {0} /\ h \in 0 .. Len(S)
      BY <1>3
  <2> HIDE DEF l, h, p, n
  <2>2. /\ SubSeq(S, l, h) \in Seq(Frame)
        /\ Len(SubSeq(S, l, h)) = IF l <= h THEN h - l + 1 ELSE 0
        /\ \A i \in 1 .. h - l + 1 : SubSeq(S, l, h)[i] = S[l + i - 1]
      BY <1>1, <2>1, PartFromTo
  <2>3. b = SubSeq(S, l, h) /\ l = p + d + 1 /\ h = p + n
      BY DEF l, h
  <2> HIDE DEF b
  <2>4. /\ b \in Seq(Frame) /\ Len(b) = IF l <= h THEN h - l + 1 ELSE 0
        /\ \A i \in 1 .. h - l + 1 : b[i] = S[l + i - 1]
      BY <2>2, <2>3
  <2>5. h - l + 1 = p + n - (p + d + 1) + 1
      BY <1>1, <2>1, <2>3
  <2>6. Len(b) = IF p + d + 1 <= p + n THEN p + n - (p + d + 1) + 1 ELSE 0
      BY <1>1, <2>1, <2>3, <2>4
  <2>7. ASSUME NEW i \in 1 .. p + n - (p + d + 1) + 1 PROVE b[i] = S[p + d + 1 + i - 1]
    <3>1. b[i] = S[l + i - 1]
        BY <2>4, <2>5
    <3>2. l + i - 1 = p + d + 1 + i - 1
        BY <2>3
    <3>3. QED
        BY <3>1, <3>2
  <2>8. QED
      BY <2>4, <2>6, <2>7
<1> HIDE DEF a, b, p, n
<1>6. Len(a) = Len(b)
    BY <1>1, <1>4, <1>5
<1>7. ASSUME NEW i \in 1 .. Len(a) PROVE a[i] = b[i]
  <2>1. /\ i \in 1 .. n - (d + 1) + 1 /\ i \in 1 .. p + n - (p + d + 1) + 1
        /\ d + 1 + i - 1 \in 1 .. n /\ p + d + 1 + i - 1 = p + (d + 1 + i - 1)
      BY <1>1, <1>4
  <2>2. a[i] = D[d + 1 + i - 1] /\ b[i] = S[p + (d + 1 + i - 1)]
      BY <1>4, <1>5, <2>1
  <2>3. QED
      BY <1>2, <2>1, <2>2
<1>8. a = b
    BY <1>4, <1>5, <1>6, <1>7, SameElements
<1>9. QED
    BY <1>2, <1>8 DEF a, b, p, n

\* What comes before the first record at or beyond the clamp.
BeforeClamp(from, clamp) ==
    LET stop == SelectInSeq(from, LAMBDA r : r.offset >= clamp)
    IN IF stop = 0 THEN from ELSE SubSeq(from, 1, stop - 1)

\* Of a log from start on it is the part up to the clamp.
LEMMA BelowClamp ==
    ASSUME NEW S \in Seq(Frame), \A o \in 1 .. Len(S) : S[o].offset = o - 1,
           NEW start \in Nat, NEW clamp \in 0 .. Len(S), start < clamp
    PROVE  BeforeClamp(SubSeq(S, start + 1, Len(S)), clamp) = SubSeq(S, start + 1, clamp)
<1> DEFINE n == Len(S)
           from == SubSeq(S, start + 1, n)
           I == {i \in 1 .. Len(from) : from[i].offset >= clamp}
           t == IF I # {} THEN Min(I) ELSE 0
<1>1. BeforeClamp(from, clamp) = IF t = 0 THEN from ELSE SubSeq(from, 1, t - 1)
    BY DEF BeforeClamp, SelectInSeq
<1>2. n \in Nat /\ start + 1 \in Nat \ {0} /\ n \in 0 .. n /\ clamp \in Nat /\ clamp <= n
    OBVIOUS
<1>3. /\ from \in Seq(Frame) /\ Len(from) = n - start
      /\ \A i \in 1 .. n - start : from[i] = S[start + i]
  <2>1. /\ from \in Seq(Frame) /\ Len(from) = IF start + 1 <= n THEN n - (start + 1) + 1 ELSE 0
        /\ \A i \in 1 .. n - (start + 1) + 1 : from[i] = S[start + 1 + i - 1]
      BY <1>2, PartFromTo
  <2> HIDE DEF from, n
  <2>2. Len(from) = n - start
      BY <1>2, <2>1
  <2>3. \A i \in 1 .. n - start :
          i \in 1 .. n - (start + 1) + 1 /\ start + 1 + i - 1 = start + i
      BY <1>2
  <2>4. QED
      BY <2>1, <2>2, <2>3
<1> HIDE DEF from
<1>4. ASSUME NEW i \in 1 .. n - start PROVE from[i].offset = start + i - 1
  <2>1. start + i \in 1 .. n
      BY <1>2
  <2>2. S[start + i].offset = start + i - 1
      BY <2>1
  <2>3. QED
      BY <1>3, <2>2
<1>5. I = {i \in 1 .. n - start : start + i - 1 >= clamp}
    BY <1>3, <1>4
<1>6. CASE clamp = n
  <2>1. I = {}
      BY <1>2, <1>5, <1>6
  <2>2. BeforeClamp(from, clamp) = from
      BY <1>1, <2>1
  <2>3. QED
      BY <1>6, <2>2 DEF from
<1>7. CASE clamp # n
  <2> DEFINE c == clamp - start
  <2>1. c + 1 \in I /\ \A i \in I : c + 1 <= i
    <3>1. c + 1 \in 1 .. n - start /\ start + (c + 1) - 1 >= clamp
        BY <1>2, <1>7
    <3>2. ASSUME NEW i \in 1 .. n - start, start + i - 1 >= clamp PROVE c + 1 <= i
        BY <1>2, <3>2
    <3> HIDE DEF c, I
    <3>3. QED
        BY <1>5, <3>1, <3>2
  <2>2. I \subseteq Nat
      BY <1>2, <1>5
  <2>3. c \in Nat /\ c # 0
      BY <1>2
  <2> HIDE DEF I, c
  <2>4. Min(I) = c + 1
    <3>1. ASSUME NEW x \in I, \A y \in I : x <= y PROVE x = c + 1
      <4>1. x <= c + 1 /\ c + 1 <= x
          BY <2>1, <3>1
      <4>2. x \in Nat
          BY <2>2
      <4>3. QED
          BY <2>3, <4>1, <4>2
    <3>2. QED
        BY <2>1, <3>1 DEF Min
  <2>5. t = c + 1 /\ t # 0 /\ t - 1 = c
      BY <2>1, <2>3, <2>4
  <2> HIDE DEF t
  <2>6. BeforeClamp(from, clamp) = SubSeq(from, 1, c)
      BY <1>1, <2>5
  <2> DEFINE a == SubSeq(from, 1, c)
             b == SubSeq(S, start + 1, clamp)
  <2>7. c \in 0 .. Len(from)
      BY <1>2, <1>3 DEF c
  <2>8. a \in Seq(Frame) /\ Len(a) = c /\ \A i \in 1 .. c : a[i] = from[i]
      BY <1>3, <2>7, PartOf
  <2>9. /\ b \in Seq(Frame) /\ Len(b) = IF start + 1 <= clamp THEN clamp - (start + 1) + 1 ELSE 0
        /\ \A i \in 1 .. clamp - (start + 1) + 1 : b[i] = S[start + 1 + i - 1]
      BY <1>2, PartFromTo
  <2> HIDE DEF a, b
  <2>10. Len(b) = c
      BY <1>2, <2>9 DEF c
  <2>11. ASSUME NEW i \in 1 .. c PROVE a[i] = b[i]
    <3>1. /\ i \in 1 .. n - start /\ i \in 1 .. clamp - (start + 1) + 1
          /\ start + 1 + i - 1 = start + i
        BY <1>2 DEF c
    <3>2. a[i] = S[start + i]
        BY <1>3, <2>8, <3>1
    <3>3. b[i] = S[start + i]
        BY <2>9, <3>1
    <3>4. QED
        BY <3>2, <3>3
  <2>12. a = b
      BY <2>8, <2>9, <2>10, <2>11, SameElements
  <2>13. QED
      BY <2>6, <2>12 DEF a, b, from
<1>8. QED
    BY <1>6, <1>7 DEF from

\* Of no records none fit.
LEMMA NothingFits ==
    ASSUME NEW maxBytes \in Nat
    PROVE  Fitting(<<>>, maxBytes) = <<>>
<1> DEFINE fit == Max({k \in 0 .. Len(<<>>) : Bytes(SubSeq(<<>>, 1, k)) <= maxBytes})
<1>1. Fitting(<<>>, maxBytes) = SubSeq(<<>>, 1, fit)
    BY DEF Fitting
<1>2. {k \in 0 .. Len(<<>>) : Bytes(SubSeq(<<>>, 1, k)) <= maxBytes} = {0}
  <2> DEFINE e == <<>>
  <2>1. e \in Seq(Frame) /\ Len(e) = 0
      OBVIOUS
  <2> HIDE DEF e
  <2>2. Bytes(SubSeq(e, 1, 0)) = 0
      BY <2>1, FirstStart DEF StartsAt
  <2>3. {k \in 0 .. Len(e) : Bytes(SubSeq(e, 1, k)) <= maxBytes} = {0}
      BY <2>1, <2>2
  <2>4. QED
      BY <2>3 DEF e
<1>3. Max({0}) = 0
    BY DEF Max
<1>4. SubSeq(<<>>, 1, 0) = <<>>
    BY SubSeqEmpty
<1> HIDE DEF fit
<1>5. fit = 0
    BY <1>2, <1>3 DEF fit
<1>6. QED
    BY <1>1, <1>4, <1>5

\* What read_clamped looks at before it counts bytes are the records from start up to
\* the clamp.
LEMMA ReadIsPart ==
    ASSUME LogInv, FilesInv, up, NEW start \in Nat, NEW clamp \in 0 .. nextOffset,
           start < clamp
    PROVE  BeforeClamp(Skipped(Decoded(start), start), clamp) = SubSeq(Stored, start + 1, clamp)
<1> DEFINE D == Decoded(start)
           S == Stored
<1>1. S = StoredOf(segments)
    BY DEF Stored, StoredOf
<1> HIDE DEF S
<1>2. S \in Seq(Frame) /\ Len(S) = nextOffset /\ \A o \in 1 .. Len(S) : S[o].offset = o - 1
  <2>1. Sound(segments) /\ nextOffset = EndOf(segments) /\ segments \in Seq(Segment)
      BY DEF LogInv, Working, Sound
  <2>2. S \in Seq(Frame)
      BY <1>1, <2>1, StoredTypes
  <2>3. Len(S) = EndOf(segments) /\ \A o \in 1 .. EndOf(segments) : S[o].offset = o - 1
      BY <1>1, <2>1 DEF Sound
  <2>4. QED
      BY <2>1, <2>2, <2>3
<1>3. D \in Seq(Frame) /\ \E P \in Seq(Frame) : Len(P) <= start /\ S = P \o D
    BY DecodedIsTail DEF S
<1> HIDE DEF D
<1>4. PICK P \in Seq(Frame) : Len(P) <= start /\ S = P \o D
    BY <1>3
<1> DEFINE p == Len(P)
           d == start - p
<1>5. p \in Nat /\ d \in Nat /\ p + d = start /\ Len(D) \in Nat
    BY <1>3, <1>4
<1>6. Joined(S, P, D)
    BY <1>3, <1>4, Concatenated
<1>7. \A k \in 1 .. Len(D) : D[k].offset = p + k - 1
  <2> SUFFICES ASSUME NEW k \in 1 .. Len(D) PROVE D[k].offset = p + k - 1
      OBVIOUS
  <2>1. Len(S) = p + Len(D) /\ S[p + k] = D[k]
      BY <1>6 DEF Joined
  <2>2. p + k \in 1 .. Len(S)
      BY <1>5, <2>1
  <2>3. QED
      BY <1>2, <2>1, <2>2
<1> HIDE DEF p, d
<1>8. Skipped(D, p + d) = SubSeq(D, d + 1, Len(D))
    BY <1>3, <1>5, <1>7, SkippedIsTail
<1>9. SubSeq(D, d + 1, Len(D)) = SubSeq(S, p + d + 1, Len(S))
    BY <1>3, <1>4, <1>5, TailOfJoined DEF p
<1>10. Skipped(D, start) = SubSeq(S, start + 1, Len(S))
    BY <1>5, <1>8, <1>9
<1>11. BeforeClamp(SubSeq(S, start + 1, Len(S)), clamp) = SubSeq(S, start + 1, clamp)
  <2>1. clamp \in 0 .. Len(S)
      BY <1>2
  <2>2. QED
      BY <1>2, <2>1, BelowClamp
<1>12. QED
    BY <1>10, <1>11 DEF D, S

\* read() and read_up_to_leo() return the records from the start offset on that are
\* below the watermark or the log end and fit maxBytes.
THEOREM ReadsAreExact == Spec => []ReadIsExact
<1>1. LogInv /\ FilesInv => ReadIsExact
  <2> SUFFICES ASSUME LogInv, FilesInv, up, NEW start \in 0 .. nextOffset,
                      NEW clamp \in {hwm, nextOffset}, NEW maxBytes \in 0 .. Bytes(Stored)
               PROVE  ReadClamped(start, maxBytes, clamp)
                        = Fitting(SubSeq(Stored, start + 1, clamp), maxBytes)
      BY DEF ReadIsExact
  <2>1. nextOffset \in Nat /\ hwm \in 0 .. nextOffset
      BY BoundAssumption DEF LogInv
  <2>2. clamp \in 0 .. nextOffset /\ start \in Nat /\ clamp \in Nat
      BY <2>1
  <2>3. maxBytes \in Nat
    <3>1. segments \in Seq(Segment)
        BY DEF LogInv, Sound
    <3>2. StoredOf(segments) \in Seq(Frame)
        BY <3>1, StoredTypes
    <3>3. Stored \in Seq(Frame)
        BY <3>2 DEF Stored, StoredOf
    <3>4. Bytes(Stored) \in Nat
        BY <3>3, BytesInNat
    <3>5. QED
        BY <3>4
  <2>4. CASE start >= clamp
    <3>1. ReadClamped(start, maxBytes, clamp) = <<>>
        BY <2>4 DEF ReadClamped
    <3>2. SubSeq(Stored, start + 1, clamp) = <<>>
      <4>1. start + 1 \in Int /\ clamp \in Int /\ clamp < start + 1
          BY <2>2, <2>4
      <4>2. QED
          BY <4>1, SubSeqEmpty
    <3>3. QED
        BY <2>3, <3>1, <3>2, NothingFits
  <2>5. CASE ~(start >= clamp)
    <3>1. start < clamp
        BY <2>2, <2>5
    <3>2. BeforeClamp(Skipped(Decoded(start), start), clamp) = SubSeq(Stored, start + 1, clamp)
        BY <2>2, <3>1, ReadIsPart
    <3>3. ReadClamped(start, maxBytes, clamp)
            = Fitting(BeforeClamp(Skipped(Decoded(start), start), clamp), maxBytes)
        BY <2>5 DEF ReadClamped, BeforeClamp
    <3>4. QED
        BY <3>2, <3>3
  <2>6. QED
      BY <2>4, <2>5
<1>2. QED
    BY <1>1, LogInvHolds, FilesInvHolds, PTL
=============================================================================
