------------------------ MODULE LeaderHandover_proof -------------------------
(***************************************************************************)
(* Proofs about LeaderHandover for any replicas, any leaders they are      *)
(* appointed to, any producers, and any number of crashes and failed       *)
(* attempts.                                                               *)
(***************************************************************************)
EXTENDS LeaderHandover, NaturalOrder

-----------------------------------------------------------------------------
(* read_clamped *)

\* g runs through the positions I of s in their order.
Enumerates(g, s, I) ==
    LET n == Len(Picked(s, I))
    IN  /\ g \in [1 .. n -> I]
        /\ \A k \in 1 .. n : Picked(s, I)[k] = s[g[k]]
        /\ \A k, l \in 1 .. n : k < l => g[k] < g[l]
        /\ \A i \in I : \E k \in 1 .. n : g[k] = i

\* Picking positions of a log keeps the records there, in their order, and no others.
LEMMA PickedInOrder ==
    ASSUME NEW S, NEW s \in Seq(S), NEW I \in SUBSET (1 .. Len(s))
    PROVE  Picked(s, I) \in Seq(S) /\ \E g : Enumerates(g, s, I)
<1> DEFINE n == Cardinality(I)
           g == [k \in 1 .. n |-> CHOOSE i \in I : Cardinality({j \in I : j < i}) = k - 1]
<1>1. IsFiniteSet(I) /\ I \in SUBSET Nat /\ n \in Nat
  <2>1. Len(s) \in Nat
      OBVIOUS
  <2>2. IsFiniteSet(1 .. Len(s))
      BY <2>1, FS_Interval
  <2>3. IsFiniteSet(I)
      BY <2>2, FS_Subset
  <2>4. n \in Nat
      BY <2>3, FS_CardinalityType
  <2>5. I \in SUBSET Nat
      BY <2>1
  <2>6. QED
      BY <2>3, <2>4, <2>5
<1>2. /\ \A x \in I : Cardinality({j \in I : j < x}) \in 0 .. n - 1
      /\ \A x, z \in I :
            x < z => Cardinality({j \in I : j < x}) < Cardinality({j \in I : j < z})
      /\ \A i \in 0 .. n - 1 : \E x \in I : Cardinality({j \in I : j < x}) = i
    BY <1>1, RanksNumber DEF Below
<1> HIDE DEF n
<1>3. \A k \in 1 .. n : g[k] \in I /\ Cardinality({j \in I : j < g[k]}) = k - 1
  <2> SUFFICES ASSUME NEW k \in 1 .. n
               PROVE  g[k] \in I /\ Cardinality({j \in I : j < g[k]}) = k - 1
      OBVIOUS
  <2>1. k - 1 \in 0 .. n - 1
      BY <1>1
  <2>2. \E x \in I : Cardinality({j \in I : j < x}) = k - 1
      BY <1>2, <2>1
  <2>3. QED
      BY <2>2
<1>4. Picked(s, I) = [k \in 1 .. n |-> s[g[k]]]
  <2> DEFINE Position(k) == CHOOSE i \in I : Cardinality({j \in I : j < i}) = k
  <2>1. Picked(s, I) = [k \in 1 .. n |-> s[Position(k - 1)]]
      BY DEF Picked, n
  <2>2. \A k \in 1 .. n : g[k] = Position(k - 1)
      OBVIOUS
  <2> HIDE DEF Position, g
  <2>3. QED
      BY <2>1, <2>2
<1> HIDE DEF g
<1>5. ASSUME NEW k \in 1 .. n PROVE s[g[k]] \in S
  <2>1. g[k] \in 1 .. Len(s)
      BY <1>3
  <2>2. QED
      BY <2>1
<1>6. Picked(s, I) \in Seq(S) /\ Len(Picked(s, I)) = n
    BY <1>1, <1>4, <1>5
<1>7. ASSUME NEW k \in 1 .. n, NEW l \in 1 .. n, k < l PROVE g[k] < g[l]
  <2>1. /\ g[k] \in I /\ Cardinality({j \in I : j < g[k]}) = k - 1
        /\ g[l] \in I /\ Cardinality({j \in I : j < g[l]}) = l - 1
      BY <1>3
  <2>2. ~(g[l] < g[k])
    <3>1. g[l] < g[k] => l - 1 < k - 1
        BY <1>2, <2>1
    <3>2. QED
        BY <1>1, <1>7, <3>1
  <2>3. g[l] # g[k]
    <3>1. g[l] = g[k] => l - 1 = k - 1
        BY <2>1
    <3>2. l - 1 # k - 1
        BY <1>1, <1>7
    <3>3. QED
        BY <3>1, <3>2
  <2>4. g[k] \in Nat /\ g[l] \in Nat
      BY <1>1, <2>1
  <2>5. QED
      BY <2>2, <2>3, <2>4
<1>8. ASSUME NEW i \in I PROVE \E k \in 1 .. n : g[k] = i
  <2> DEFINE r == Cardinality({j \in I : j < i})
  <2>1. r \in 0 .. n - 1
      BY <1>2
  <2>2. r + 1 \in 1 .. n /\ (r + 1) - 1 = r
      BY <1>1, <2>1
  <2>3. g[r + 1] \in I /\ Cardinality({j \in I : j < g[r + 1]}) = r
      BY <1>3, <2>2
  <2>4. g[r + 1] \in Nat /\ i \in Nat
      BY <1>1, <2>3
  <2>5. ~(g[r + 1] < i) /\ ~(i < g[r + 1])
    <3>1. g[r + 1] < i => r < r
        BY <1>2, <2>3
    <3>2. i < g[r + 1] => r < r
        BY <1>2, <2>3
    <3> HIDE DEF r
    <3>3. r \in Int
        BY <2>1
    <3>4. QED
        BY <3>1, <3>2, <3>3
  <2> HIDE DEF r
  <2>6. QED
      BY <2>2, <2>4, <2>5
<1>9. g \in [1 .. n -> I]
    BY <1>3 DEF g
<1>10. \A k \in 1 .. n : Picked(s, I)[k] = s[g[k]]
    BY <1>4
<1>11. Enumerates(g, s, I)
    BY <1>6, <1>7, <1>8, <1>9, <1>10 DEF Enumerates
<1>12. QED
    BY <1>6, <1>11

\* A page consists of records, wherever the search ends.
LEMMA PagesType ==
    ASSUME NEW b, log[b] \in Seq(Record), NEW start, NEW clamp, NEW page \in Pages(b, start, clamp)
    PROVE  page \in Seq(Record)
<1>1. PICK i \in StartPositions(b) : page = Read(b, i, start, clamp)
    BY DEF Pages
<1>2. Len(log[b]) \in Nat /\ i \in 1 .. Len(log[b]) + 1
    BY DEF StartPositions
<1> DEFINE I == {k \in {k \in i .. Len(log[b]) : \A j \in i .. k : log[b][j].offset < clamp} :
                   log[b][k].offset >= start}
<1>3. I \in SUBSET (1 .. Len(log[b]))
    BY <1>2
<1> HIDE DEF I
<1>4. Picked(log[b], I) \in Seq(Record)
    BY <1>3, PickedInOrder
<1>5. QED
    BY <1>1, <1>4 DEF Read, I

\* While no log has repeated anything, offsets are positions.
Positional(s) == \A i \in 1 .. Len(s) : s[i].offset = i - 1

\* Then the search finds what it is asked for, and a page is a stretch of the log.
LEMMA PagesAreStretches ==
    ASSUME NEW b, log[b] \in Seq(Record), Positional(log[b]), NEW start \in Nat,
           NEW clamp \in 0 .. Len(log[b]), NEW page \in Pages(b, start, clamp)
    PROVE  /\ page \in Seq(Record)
           /\ Len(page) = IF start >= clamp THEN 0 ELSE clamp - start
           /\ \A k \in 1 .. Len(page) : page[k] = log[b][start + k]
<1> DEFINE s == log[b]
           I == {i \in {i \in 1 .. Len(s) : \A j \in 1 .. i : s[j].offset < clamp} :
                   s[i].offset >= start}
<1>0. page = Read(b, 1, start, clamp)
  <2>1. Ascending(s)
    <3>1. Len(s) \in Nat /\ \A i \in 1 .. Len(s) : s[i].offset = i - 1
        BY DEF Positional
    <3> HIDE DEF s
    <3>2. QED
        BY <3>1 DEF Ascending
  <2>2. StartPositions(b) = {1}
      BY <2>1 DEF StartPositions
  <2>3. QED
      BY <2>2 DEF Pages
<1>1. CASE start >= clamp
    BY <1>0, <1>1 DEF Read
<1>2. CASE start < clamp
  <2>0. page = IF start >= clamp THEN <<>> ELSE Picked(s, I)
      BY <1>0, Zenon DEF Read
  <2>1. Len(s) \in Nat /\ \A i \in 1 .. Len(s) : s[i].offset = i - 1
      BY DEF Positional
  <2>2. I = start + 1 .. clamp
    <3>1. ASSUME NEW i \in 1 .. Len(s)
          PROVE  (\A j \in 1 .. i : s[j].offset < clamp) <=> i <= clamp
      <4>1. i \in Nat /\ i \in 1 .. i /\ \A j \in 1 .. i : s[j].offset = j - 1
          BY <2>1
      <4> HIDE DEF s
      <4>2. QED
          BY <4>1
    <3>2. \A i \in 1 .. Len(s) : s[i].offset >= start <=> start + 1 <= i
        BY <2>1
    <3>3. I = {i \in 1 .. Len(s) : i <= clamp /\ start + 1 <= i}
        BY <3>1, <3>2
    <3>4. QED
        BY <2>1, <3>3
  <2> HIDE DEF I
  <2>3. page = Picked(s, I)
      BY <1>2, <2>0
  <2>4. Cardinality(I) = clamp - start
      BY <1>2, <2>2, FS_Interval
  <2>5. ASSUME NEW i \in I PROVE Cardinality({j \in I : j < i}) = i - start - 1
    <3>1. {j \in I : j < i} = start + 1 .. i - 1
        BY <2>2
    <3>2. i \in Int /\ start + 1 <= i
        BY <2>2
    <3>3. Cardinality(start + 1 .. i - 1) = i - start - 1
        BY <3>2, FS_Interval
    <3>4. QED
        BY <3>1, <3>3
  <2>6. \A k \in 1 .. clamp - start :
          (CHOOSE i \in I : Cardinality({j \in I : j < i}) = k - 1) = start + k
    <3> SUFFICES ASSUME NEW k \in 1 .. clamp - start
                 PROVE  (CHOOSE i \in I : Cardinality({j \in I : j < i}) = k - 1) = start + k
        OBVIOUS
    <3>1. start + k \in I /\ I \subseteq Nat
        BY <1>2, <2>2
    <3>2. Cardinality({j \in I : j < start + k}) = k - 1
        BY <2>5, <3>1
    <3>3. \A i \in I : Cardinality({j \in I : j < i}) = k - 1 => i = start + k
        BY <2>5, <3>1
    <3>4. QED
        BY <3>1, <3>2, <3>3
  <2>7. Picked(s, I) = [k \in 1 .. clamp - start |-> s[start + k]]
    <3> DEFINE Position(k) == CHOOSE i \in I : Cardinality({j \in I : j < i}) = k
    <3>1. Picked(s, I) = [k \in 1 .. clamp - start |-> s[Position(k - 1)]]
        BY <2>4 DEF Picked
    <3>2. \A k \in 1 .. clamp - start : Position(k - 1) = start + k
        BY <2>6
    <3> HIDE DEF Position
    <3>3. QED
        BY <3>1, <3>2
  <2>8. \A k \in 1 .. clamp - start : s[start + k] \in Record
      BY <1>2
  <2>9. clamp - start \in Nat
      BY <1>2
  <2> HIDE DEF s
  <2>10. page \in Seq(Record) /\ Len(page) = clamp - start
      BY <2>3, <2>7, <2>8, <2>9
  <2>11. \A k \in 1 .. Len(page) : page[k] = s[start + k]
      BY <2>3, <2>7, <2>10
  <2>12. QED
      BY <1>2, <2>10, <2>11 DEF s
<1>3. QED
    BY <1>1, <1>2

-----------------------------------------------------------------------------
(* Types *)

\* An attempt is under way only if one is left.
AttemptsLeft ==
    \A p \in Producer :
        pc[p] \in {"start", "ready", "checked", "waiting"} => attempts[p] < MaxAttempts

HandoverTypes == TypeOK /\ AttemptsLeft

\* The log end is an offset.
LEMMA LogEndType ==
    ASSUME NEW s \in Seq(Record)
    PROVE  /\ LogEnd(s) \in Nat
           /\ s = <<>> => LogEnd(s) = 0
           /\ s # <<>> => /\ Len(s) \in 1 .. Len(s) /\ s[Len(s)] \in Record
                          /\ LogEnd(s) = s[Len(s)].offset + 1
<1>1. CASE s = <<>>
    BY <1>1 DEF LogEnd
<1>2. CASE s # <<>>
  <2>1. Len(s) \in Nat /\ Len(s) # 0
      BY <1>2
  <2>2. Len(s) \in 1 .. Len(s)
      BY <2>1
  <2>3. s[Len(s)] \in Record
      BY <2>2
  <2>4. LogEnd(s) = s[Len(s)].offset + 1
      BY <1>2 DEF LogEnd, Last
  <2>5. s[Len(s)].offset + 1 \in Nat
      BY <2>3 DEF Record
  <2>6. QED
      BY <1>2, <2>2, <2>3, <2>4, <2>5
<1>3. QED
    BY <1>1, <1>2

\* No fetcher, or one that asks.
LEMMA FetcherTypes ==
    /\ None \in Fetcher
    /\ \A x \in Broker : Idle(x) \in Fetcher /\ Idle(x).pc = "idle" /\ Idle(x).from = x
<1>1. None \in Fetcher
    BY BrokerAssumption DEF None, Fetcher
<1>2. ASSUME NEW x \in Broker
      PROVE  Idle(x) \in Fetcher /\ Idle(x).pc = "idle" /\ Idle(x).from = x
  <2>1. Idle(x) = [pc |-> "idle", from |-> x, end |-> 0, batch |-> <<>>]
    <3>1. [[pc |-> "none", from |-> First, end |-> 0, batch |-> <<>>] EXCEPT !.pc = "idle"]
            = [pc |-> "idle", from |-> First, end |-> 0, batch |-> <<>>]
        OBVIOUS
    <3>2. [[pc |-> "idle", from |-> First, end |-> 0, batch |-> <<>>] EXCEPT !.from = x]
            = [pc |-> "idle", from |-> x, end |-> 0, batch |-> <<>>]
        OBVIOUS
    <3>3. QED
        BY <3>1, <3>2 DEF Idle, None
  <2>2. QED
      BY <2>1 DEF Fetcher
<1>3. QED
    BY <1>1, <1>2

\* The broker that a broker's table names.
LEMMA NamesType == ASSUME TypeOK, NEW b \in Broker PROVE Names(b) \in Broker
BY DEF TypeOK, Names

\* An append adds a record at the log end.
LEMMA AppendTypes ==
    ASSUME TypeOK, NEW b \in Broker, NEW p \in Producer, AppendAt(b, p)
    PROVE  log' \in [Broker -> Seq(Record)] /\ inTurn' \in BOOLEAN /\ clean' \in BOOLEAN
<1>1. [offset |-> LogEnd(log[b]), rec |-> p] \in Record
    BY LogEndType DEF TypeOK, Record
<1>2. log[b] \in Seq(Record)
    BY DEF TypeOK
<1>3. Append(log[b], [offset |-> LogEnd(log[b]), rec |-> p]) \in Seq(Record)
    BY <1>1, <1>2
<1>4. QED
    BY <1>3 DEF AppendAt, TypeOK

\* Failing attempts are counted.
LEMMA FailTypes ==
    ASSUME HandoverTypes, NEW P \in SUBSET Producer, AttemptsFail(P),
           \A p \in P : pc[p] \in {"ready", "checked", "waiting"}
    PROVE  /\ pc' \in [Producer -> {"start", "ready", "checked", "waiting", "backoff", "done",
                                    "gaveUp", "unreachable"}]
           /\ attempts' \in [Producer -> 0 .. MaxAttempts]
           /\ AttemptsLeft'
<1>1. /\ pc \in [Producer -> {"start", "ready", "checked", "waiting", "backoff", "done",
                             "gaveUp", "unreachable"}]
      /\ attempts \in [Producer -> 0 .. MaxAttempts]
    BY DEF HandoverTypes, TypeOK
<1>2. \A p \in P : attempts[p] < MaxAttempts
    BY DEF HandoverTypes, AttemptsLeft
<1>3. /\ pc' = [p \in Producer |-> IF p \in P THEN "backoff" ELSE pc[p]]
      /\ attempts' = [p \in Producer |-> IF p \in P THEN attempts[p] + 1 ELSE attempts[p]]
    BY DEF AttemptsFail
<1>4. pc' \in [Producer -> {"start", "ready", "checked", "waiting", "backoff", "done",
                           "gaveUp", "unreachable"}]
    BY <1>1, <1>3
<1>5. attempts' \in [Producer -> 0 .. MaxAttempts]
    BY <1>1, <1>2, <1>3, BoundAssumption
<1>6. AttemptsLeft'
    BY <1>1, <1>3 DEF HandoverTypes, AttemptsLeft
<1>7. QED
    BY <1>4, <1>5, <1>6

\* No step takes a variable out of its range or starts an attempt that is one too many.
LEMMA HandoverTypeStep ==
    ASSUME HandoverTypes, [Next]_vars
    PROVE  HandoverTypes'
<1> USE DEF tableVars, produceVars, boundVars, history
<1> BoundAssumption
    BY BoundAssumption
<1>0. TypeOK /\ AttemptsLeft
    BY DEF HandoverTypes
<1>1. ASSUME UNCHANGED <<pc, attempts>> PROVE AttemptsLeft'
    BY <1>0, <1>1 DEF AttemptsLeft
<1>2. ASSUME NEW b \in Broker, Elect(b) PROVE HandoverTypes'
  <2>1. /\ leaders' = Append(leaders, b) /\ Len(leaders) <= MaxElections
        /\ UNCHANGED <<up, view, due, role, log, fetcher, pc, target, attempts, late, crashes,
                       faults, acksAll, inTurn, clean>>
      BY <1>2 DEF Elect
  <2>2. /\ leaders' \in Seq(Broker) /\ Len(leaders') \in 1 .. MaxElections + 1
        /\ Len(leaders') = Len(leaders) + 1 /\ Len(leaders) \in Nat
    <3>1. leaders \in Seq(Broker) /\ Len(leaders) \in 1 .. MaxElections + 1
        BY <1>0 DEF TypeOK
    <3>2. Append(leaders, b) \in Seq(Broker) /\ Len(Append(leaders, b)) = Len(leaders) + 1
        BY <3>1
    <3>3. QED
        BY <2>1, <3>1, <3>2
  <2>3. view' \in [Broker -> 1 .. Len(leaders')] /\ role' \in [Broker -> 0 .. Len(leaders')]
    <3>1. /\ view \in [Broker -> 1 .. Len(leaders)] /\ role \in [Broker -> 0 .. Len(leaders)]
          /\ view' = view /\ role' = role
        BY <1>0, <2>1 DEF TypeOK
    <3>2. /\ 1 .. Len(leaders) \subseteq 1 .. Len(leaders')
          /\ 0 .. Len(leaders) \subseteq 0 .. Len(leaders')
        BY <2>2
    <3>3. QED
        BY <3>1, <3>2
  <2>4. TypeOK'
      BY <1>0, <2>1, <2>2, <2>3 DEF TypeOK
  <2>5. QED
      BY <1>1, <2>1, <2>4 DEF HandoverTypes
<1>3. ASSUME NEW b \in Broker, LeaderAndIsr(b) PROVE HandoverTypes'
  <2>1. view' \in [Broker -> 1 .. Len(leaders)]
    <3>1. PICK i \in view[b] .. Len(leaders) : view' = [view EXCEPT ![b] = i]
        BY <1>3 DEF LeaderAndIsr
    <3>2. view \in [Broker -> 1 .. Len(leaders)] /\ Len(leaders) \in 1 .. MaxElections + 1
        BY <1>0 DEF TypeOK
    <3>3. i \in 1 .. Len(leaders)
        BY <3>2
    <3>4. QED
        BY <3>1, <3>2, <3>3
  <2>2. /\ due' \in [Broker -> BOOLEAN]
        /\ UNCHANGED <<leaders, up, role, log, fetcher, pc, target, attempts, late, crashes,
                       faults, acksAll, inTurn, clean>>
      BY <1>0, <1>3 DEF LeaderAndIsr, TypeOK
  <2>3. TypeOK'
      BY <1>0, <2>1, <2>2 DEF TypeOK
  <2>4. QED
      BY <1>1, <2>2, <2>3 DEF HandoverTypes
<1>4. ASSUME NEW b \in Broker, Reconcile(b) PROVE HandoverTypes'
  <2>1. fetcher' \in [Broker -> [Slot -> Fetcher]]
    <3>1. ASSUME NEW now \in Fetcher, NEW next \in Fetcher
          PROVE  [current |-> next, old |-> now] \in [Slot -> Fetcher]
        BY DEF Slot
    <3>2. fetcher[b]["current"] \in Fetcher
        BY <1>0 DEF TypeOK, Slot
    <3>3. None \in Fetcher /\ Idle(Names(b)) \in Fetcher
        BY <1>0, NamesType, FetcherTypes
    <3>4. \/ fetcher' = fetcher
          \/ \E next \in {None, Idle(Names(b))} : fetcher' =
               [fetcher EXCEPT ![b] = [current |-> next, old |-> fetcher[b]["current"]]]
        BY <1>4 DEF Reconcile
    <3>5. fetcher \in [Broker -> [Slot -> Fetcher]]
        BY <1>0 DEF TypeOK
    <3>6. ASSUME NEW next \in {None, Idle(Names(b))},
                 fetcher' = [fetcher EXCEPT ![b] = [current |-> next,
                                                    old |-> fetcher[b]["current"]]]
          PROVE  fetcher' \in [Broker -> [Slot -> Fetcher]]
      <4>1. next \in Fetcher
          BY <3>3
      <4>2. [current |-> next, old |-> fetcher[b]["current"]] \in [Slot -> Fetcher]
          BY <3>1, <3>2, <4>1
      <4>3. \A R : R \in [Slot -> Fetcher]
                      => [fetcher EXCEPT ![b] = R] \in [Broker -> [Slot -> Fetcher]]
          BY <3>5
      <4>4. QED
          BY <3>6, <4>2, <4>3
    <3>7. QED
        BY <3>4, <3>5, <3>6
  <2>2. role' \in [Broker -> 0 .. Len(leaders)] /\ due' \in [Broker -> BOOLEAN]
    <3>1. /\ view[b] \in 1 .. Len(leaders) /\ role \in [Broker -> 0 .. Len(leaders)]
          /\ due \in [Broker -> BOOLEAN]
        BY <1>0 DEF TypeOK
    <3>2. role' = [role EXCEPT ![b] = view[b]]
        BY <1>4 DEF Reconcile
    <3>3. \E d \in BOOLEAN : due' = [due EXCEPT ![b] = d]
        BY <1>4 DEF Reconcile
    <3>4. QED
        BY <3>1, <3>2, <3>3
  <2>3. UNCHANGED <<leaders, up, view, log, pc, target, attempts, late, crashes, faults, acksAll, inTurn,
                       clean>>
      BY <1>4 DEF Reconcile
  <2>4. TypeOK'
      BY <1>0, <2>1, <2>2, <2>3 DEF TypeOK
  <2>5. QED
      BY <1>1, <2>3, <2>4 DEF HandoverTypes
<1>5. ASSUME NEW b \in Broker, FinishReconcile(b) PROVE HandoverTypes'
  <2>1. fetcher' \in [Broker -> [Slot -> Fetcher]]
      BY <1>0, <1>5, FetcherTypes DEF FinishReconcile, TypeOK, Slot
  <2>2. TypeOK'
      BY <1>0, <1>5, <2>1 DEF FinishReconcile, TypeOK
  <2>3. QED
      BY <1>1, <1>5, <2>2 DEF HandoverTypes, FinishReconcile
<1>6. ASSUME NEW b \in Broker, NEW s \in Slot, FetchBatch(b, s) PROVE HandoverTypes'
  <2> DEFINE from == fetcher[b][s].from
             got(page) == [pc |-> "got", from |-> from, end |-> LogEnd(log[b]), batch |-> page]
  <2>1. from \in Broker
    <3>1. fetcher[b][s] \in Fetcher
        BY <1>0 DEF TypeOK
    <3>2. QED
        BY <3>1 DEF Fetcher
  <2>2. LogEnd(log[b]) \in Nat /\ LogEnd(log[from]) \in Nat /\ log[from] \in Seq(Record)
      BY <1>0, <2>1, LogEndType DEF TypeOK
  <2>3. PICK batch \in Pages(from, FetchFrom(b), LogEnd(log[from])) :
             fetcher' = [fetcher EXCEPT ![b][s] = got(batch)]
      BY <1>6 DEF FetchBatch
  <2> HIDE DEF from
  <2>4. batch \in Seq(Record)
      BY <2>2, PagesType DEF FetchFrom
  <2>5. got(batch) \in Fetcher
      BY <2>1, <2>2, <2>4 DEF Fetcher
  <2> HIDE DEF got
  <2>6. fetcher' \in [Broker -> [Slot -> Fetcher]]
      BY <1>0, <2>3, <2>5 DEF TypeOK
  <2>7. TypeOK'
      BY <1>0, <1>6, <2>6 DEF FetchBatch, TypeOK
  <2>8. QED
      BY <1>1, <1>6, <2>7 DEF HandoverTypes, FetchBatch
<1>7. ASSUME NEW b \in Broker, NEW s \in Slot, AppendReplicated(b, s) PROVE HandoverTypes'
  <2>1. fetcher[b][s].batch \in Seq(Record) /\ fetcher[b][s].from \in Broker
    <3>1. fetcher[b][s] \in Fetcher
        BY <1>0 DEF TypeOK
    <3>2. QED
        BY <3>1 DEF Fetcher
  <2>2. log[b] \o fetcher[b][s].batch \in Seq(Record)
      BY <1>0, <2>1 DEF TypeOK
  <2>3. log' \in [Broker -> Seq(Record)] /\ inTurn' \in BOOLEAN /\ clean' \in BOOLEAN
      BY <1>0, <1>7, <2>2 DEF AppendReplicated, TypeOK
  <2>4. fetcher' \in [Broker -> [Slot -> Fetcher]]
      BY <1>0, <1>7, <2>1, FetcherTypes DEF AppendReplicated, TypeOK
  <2>5. TypeOK'
      BY <1>0, <1>7, <2>3, <2>4 DEF AppendReplicated, TypeOK
  <2>6. QED
      BY <1>1, <1>7, <2>5 DEF HandoverTypes, AppendReplicated
<1>8. ASSUME NEW b \in Broker, Crash(b) PROVE HandoverTypes'
  <2> DEFINE P == {p \in Producer : target[p] = b /\ pc[p] \in {"checked", "waiting"}}
  <2>1. AttemptsFail(P)
      BY <1>8 DEF Crash
  <2>2. /\ pc' \in [Producer -> {"start", "ready", "checked", "waiting", "backoff", "done",
                                 "gaveUp", "unreachable"}]
        /\ attempts' \in [Producer -> 0 .. MaxAttempts] /\ AttemptsLeft'
      BY <2>1, FailTypes
  <2>3. fetcher' \in [Broker -> [Slot -> Fetcher]]
    <3>1. [current |-> None, old |-> None] \in [Slot -> Fetcher]
        BY FetcherTypes DEF Slot
    <3>2. QED
        BY <1>0, <1>8, <3>1 DEF Crash, TypeOK
  <2>4. TypeOK'
      BY <1>0, <1>8, <2>2, <2>3 DEF Crash, TypeOK
  <2>5. QED
      BY <2>2, <2>4 DEF HandoverTypes
<1>9. ASSUME NEW b \in Broker, Restart(b) PROVE HandoverTypes'
  <2>1. TypeOK'
      BY <1>0, <1>9 DEF Restart, TypeOK
  <2>2. QED
      BY <1>1, <1>9, <2>1 DEF HandoverTypes, Restart
<1>10. ASSUME NEW p \in Producer, Locate(p) PROVE HandoverTypes'
  <2>1. Names(Entry) \in Broker /\ Entry \in Broker
      BY <1>0, NamesType, BrokerAssumption
  <2>2. /\ pc[p] = "start"
        /\ target' = target \/ \E b \in Broker : target' = [target EXCEPT ![p] = b]
        /\ \/ pc' = [pc EXCEPT ![p] = "ready"]
           \/ pc' = [pc EXCEPT ![p] = "unreachable"]
        /\ UNCHANGED attempts /\ acksAll' \in {acksAll, acksAll \cup {p}}
      BY <1>10, <2>1 DEF Locate
  <2>3. /\ pc \in [Producer -> {"start", "ready", "checked", "waiting", "backoff", "done",
                                 "gaveUp", "unreachable"}]
        /\ target \in [Producer -> Broker]
      BY <1>0 DEF TypeOK
  <2>4. target' \in [Producer -> Broker]
      BY <2>2, <2>3
  <2>5. /\ pc' \in [Producer -> {"start", "ready", "checked", "waiting", "backoff", "done",
                                 "gaveUp", "unreachable"}]
        /\ \A q \in Producer : q # p => pc'[q] = pc[q]
      BY <2>2, <2>3
  <2>6. AttemptsLeft'
      BY <1>0, <2>2, <2>5 DEF AttemptsLeft
  <2>7. TypeOK'
      BY <1>0, <1>10, <2>2, <2>4, <2>5 DEF Locate, TypeOK
  <2>8. QED
      BY <2>6, <2>7 DEF HandoverTypes
<1>11. ASSUME NEW p \in Producer, CheckLeader(p) PROVE HandoverTypes'
  <2>1. target[p] \in Broker /\ attempts[p] < MaxAttempts
      BY <1>0, <1>11 DEF CheckLeader, TypeOK, AttemptsLeft
  <2>2. target' \in [Producer -> Broker]
    <3>1. target \in [Producer -> Broker]
        BY <1>0 DEF TypeOK
    <3>2. target' = target \/ target' = [target EXCEPT ![p] = Names(target[p])]
        BY <1>11 DEF CheckLeader
    <3>3. Names(target[p]) \in Broker
        BY <1>0, <2>1, NamesType
    <3>4. QED
        BY <3>1, <3>2, <3>3
  <2>3. /\ pc' \in [Producer -> {"start", "ready", "checked", "waiting", "backoff", "done",
                                 "gaveUp", "unreachable"}]
        /\ attempts' \in [Producer -> 0 .. MaxAttempts]
        /\ AttemptsLeft'
    <3>1. /\ pc \in [Producer -> {"start", "ready", "checked", "waiting", "backoff", "done",
                                  "gaveUp", "unreachable"}]
          /\ attempts \in [Producer -> 0 .. MaxAttempts]
        BY <1>0 DEF TypeOK
    <3>2. CASE pc' = [pc EXCEPT ![p] = "checked"] /\ UNCHANGED attempts
        BY <1>0, <2>1, <3>1, <3>2 DEF AttemptsLeft
    <3>3. CASE /\ attempts' = [attempts EXCEPT ![p] = @ + 1]
               /\ pc' = [pc EXCEPT ![p] = After(attempts[p] + 1)]
      <4>1. /\ attempts[p] + 1 \in 0 .. MaxAttempts
            /\ After(attempts[p] + 1) = "ready" => attempts[p] + 1 < MaxAttempts
            /\ After(attempts[p] + 1) \in {"ready", "gaveUp"}
          BY <2>1, <3>1 DEF After
      <4>2. attempts' \in [Producer -> 0 .. MaxAttempts]
          BY <3>1, <3>3, <4>1
      <4>3. \A q \in Producer : /\ attempts'[q] = IF q = p THEN attempts[p] + 1 ELSE attempts[q]
                                /\ pc'[q] = IF q = p THEN After(attempts[p] + 1) ELSE pc[q]
          BY <3>1, <3>3
      <4>4. AttemptsLeft'
          BY <1>0, <4>1, <4>3 DEF AttemptsLeft
      <4>5. QED
          BY <3>1, <3>3, <4>1, <4>2, <4>4
    <3>4. QED
        BY <1>11, <3>2, <3>3 DEF CheckLeader
  <2>4. UNCHANGED <<leaders, up, view, due, role, log, fetcher, late, crashes, faults, acksAll, inTurn,
                       clean>>
      BY <1>11 DEF CheckLeader
  <2>5. TypeOK'
      BY <1>0, <2>2, <2>3, <2>4 DEF TypeOK
  <2>6. QED
      BY <2>3, <2>5 DEF HandoverTypes
<1>12. ASSUME NEW p \in Producer, Produce(p) PROVE HandoverTypes'
  <2>1. log' \in [Broker -> Seq(Record)] /\ inTurn' \in BOOLEAN /\ clean' \in BOOLEAN
      BY <1>0, <1>12, AppendTypes DEF Produce, TypeOK
  <2>2. TypeOK' /\ AttemptsLeft'
      BY <1>0, <1>12, <2>1 DEF Produce, TypeOK, AttemptsLeft
  <2>3. QED
      BY <2>2 DEF HandoverTypes
<1>13. ASSUME NEW p \in Producer, Ack(p) PROVE HandoverTypes'
  <2>1. TypeOK' /\ AttemptsLeft'
      BY <1>0, <1>13, BrokerAssumption DEF Ack, TypeOK, AttemptsLeft
  <2>2. QED
      BY <2>1 DEF HandoverTypes
<1>14. ASSUME NEW p \in Producer, Refused(p) PROVE HandoverTypes'
  <2>1. /\ pc' \in [Producer -> {"start", "ready", "checked", "waiting", "backoff", "done",
                                 "gaveUp", "unreachable"}]
        /\ attempts' \in [Producer -> 0 .. MaxAttempts] /\ AttemptsLeft'
      BY <1>14, FailTypes DEF Refused
  <2>2. QED
      BY <1>0, <1>14, <2>1 DEF Refused, HandoverTypes, TypeOK
<1>15. ASSUME NEW p \in Producer, Fail(p) PROVE HandoverTypes'
  <2>1. /\ pc' \in [Producer -> {"start", "ready", "checked", "waiting", "backoff", "done",
                                 "gaveUp", "unreachable"}]
        /\ attempts' \in [Producer -> 0 .. MaxAttempts] /\ AttemptsLeft'
      BY <1>15, FailTypes DEF Fail
  <2>2. late' \subseteq [rec : Producer, at : Broker, checked : BOOLEAN]
    <3>1. /\ target[p] \in Broker
          /\ late \subseteq [rec : Producer, at : Broker, checked : BOOLEAN]
        BY <1>0 DEF TypeOK
    <3>2. ASSUME NEW d \in BOOLEAN
          PROVE  [rec |-> p, at |-> target[p], checked |-> d]
                   \in [rec : Producer, at : Broker, checked : BOOLEAN]
        BY <3>1
    <3>3. [rec |-> p, at |-> target[p], checked |-> pc[p] = "checked"]
            \in [rec : Producer, at : Broker, checked : BOOLEAN]
        BY <3>2
    <3>4. QED
        BY <1>15, <3>1, <3>3 DEF Fail
  <2>3. /\ faults' \in 0 .. MaxFaults
        /\ UNCHANGED <<leaders, up, view, due, role, log, fetcher, target, acksAll, crashes,
                       inTurn, clean>>
    <3>1. /\ crashes + faults < MaxFaults /\ faults' = faults + 1
          /\ UNCHANGED <<leaders, up, view, due, role, log, fetcher, target, acksAll, crashes,
                       inTurn, clean>>
        BY <1>15 DEF Fail
    <3>2. crashes \in 0 .. MaxFaults /\ faults \in 0 .. MaxFaults /\ MaxFaults \in Nat
        BY <1>0, BoundAssumption DEF TypeOK
    <3>3. QED
        BY <3>1, <3>2
  <2>4. TypeOK'
      BY <1>0, <2>1, <2>2, <2>3 DEF TypeOK
  <2>5. QED
      BY <2>1, <2>4 DEF HandoverTypes
<1>16. ASSUME NEW p \in Producer, Retry(p) PROVE HandoverTypes'
  <2>1. target' \in [Producer -> Broker]
      BY <1>0, <1>16, NamesType, BrokerAssumption DEF Retry, Resolved, TypeOK
  <2>2. AttemptsLeft'
      BY <1>0, <1>16 DEF Retry, After, TypeOK, AttemptsLeft
  <2>3. QED
      BY <1>0, <1>16, <2>1, <2>2 DEF Retry, After, HandoverTypes, TypeOK
<1>17. ASSUME NEW r \in late, LateProduce(r) PROVE HandoverTypes'
  <2>1. r.rec \in Producer /\ r.at \in Broker
      BY <1>0 DEF TypeOK
  <2>2. log' \in [Broker -> Seq(Record)] /\ inTurn' \in BOOLEAN /\ clean' \in BOOLEAN
      BY <1>0, <1>17, <2>1, AppendTypes DEF LateProduce, TypeOK
  <2>3. TypeOK'
      BY <1>0, <1>17, <2>2 DEF LateProduce, TypeOK
  <2>4. QED
      BY <1>1, <1>17, <2>3 DEF HandoverTypes, LateProduce
<1>18. ASSUME NEW p \in Producer, TimedOut(p) PROVE HandoverTypes'
  <2>1. /\ pc' \in [Producer -> {"start", "ready", "checked", "waiting", "backoff", "done",
                                 "gaveUp", "unreachable"}]
        /\ attempts' \in [Producer -> 0 .. MaxAttempts] /\ AttemptsLeft'
      BY <1>18, FailTypes DEF TimedOut
  <2>2. faults' \in 0 .. MaxFaults
    <3>1. faults' = faults \/ (crashes + faults < MaxFaults /\ faults' = faults + 1)
        BY <1>18 DEF TimedOut
    <3>2. crashes \in 0 .. MaxFaults /\ faults \in 0 .. MaxFaults /\ MaxFaults \in Nat
        BY <1>0, BoundAssumption DEF TypeOK
    <3>3. QED
        BY <3>1, <3>2
  <2>3. UNCHANGED <<leaders, up, view, due, role, log, fetcher, target, late, acksAll, crashes,
                    inTurn, clean>>
      BY <1>18 DEF TimedOut
  <2>4. TypeOK'
      BY <1>0, <2>1, <2>2, <2>3 DEF TypeOK
  <2>5. QED
      BY <2>1, <2>4 DEF HandoverTypes
<1>19. CASE UNCHANGED vars
    BY <1>0, <1>19 DEF vars, TypeOK, AttemptsLeft, HandoverTypes
<1>20. QED
    BY <1>2, <1>3, <1>4, <1>5, <1>6, <1>7, <1>8, <1>9, <1>10, <1>11, <1>12, <1>13, <1>14,
       <1>15, <1>16, <1>17, <1>18, <1>19 DEF Next, FetchStep, ProducerStep

\* The topic was created and every broker has reconciled.
LEMMA HandoverTypeInit == Init => HandoverTypes
<1> SUFFICES ASSUME Init PROVE HandoverTypes
    OBVIOUS
<1>1. fetcher \in [Broker -> [Slot -> Fetcher]]
  <2>1. ASSUME NEW f \in Fetcher PROVE [current |-> f, old |-> None] \in [Slot -> Fetcher]
      BY FetcherTypes DEF Slot
  <2>2. QED
      BY <2>1, FetcherTypes, BrokerAssumption DEF Init
<1>2. leaders \in Seq(Broker) /\ Len(leaders) = 1
    BY BrokerAssumption DEF Init
<1>3. TypeOK
    BY <1>1, <1>2, BrokerAssumption, BoundAssumption DEF Init, TypeOK
<1>4. AttemptsLeft
    BY BoundAssumption DEF Init, AttemptsLeft
<1>5. QED
    BY <1>3, <1>4 DEF HandoverTypes

-----------------------------------------------------------------------------
(* What a step does to the logs *)

\* Nothing is written or fetched; a fetcher that has a batch had it before, as the
\* broker's current or its old one.
NoNewBatch ==
    /\ UNCHANGED <<log, history>>
    /\ \A b \in Broker, s \in Slot :
          fetcher'[b][s].pc = "got" => \E t \in Slot : fetcher'[b][s] = fetcher[b][t]

\* Logs are written by producers' requests and by fetchers, and by nothing else.
LEMMA LogSteps ==
    ASSUME HandoverTypes, [Next]_vars
    PROVE  \/ NoNewBatch
           \/ \E b \in Broker, s \in Slot : FetchBatch(b, s) \/ AppendReplicated(b, s)
           \/ \E b \in Broker, p \in Producer : AppendAt(b, p) /\ UNCHANGED fetcher
<1> USE DEF tableVars, produceVars, boundVars, history
<1>0. TypeOK
    BY DEF HandoverTypes
<1>1. /\ fetcher \in [Broker -> [Slot -> Fetcher]] /\ None.pc = "none"
      /\ \A b \in Broker : Idle(Names(b)).pc = "idle"
  <2>1. \A b \in Broker : Names(b) \in Broker
      BY <1>0, NamesType
  <2>2. QED
      BY <1>0, <2>1, FetcherTypes DEF TypeOK, None
<1>2. ASSUME UNCHANGED <<log, history, fetcher>> PROVE NoNewBatch
    BY <1>2 DEF NoNewBatch
<1>3. ASSUME NEW b \in Broker, Reconcile(b) PROVE NoNewBatch
  <2>1. ASSUME NEW next \in {None, Idle(Names(b))},
               fetcher' = [fetcher EXCEPT ![b] = [current |-> next,
                                                  old |-> fetcher[b]["current"]]]
        PROVE  \A x \in Broker, s \in Slot :
                  fetcher'[x][s].pc = "got" => \E t \in Slot : fetcher'[x][s] = fetcher[x][t]
    <3> SUFFICES ASSUME NEW x \in Broker, NEW s \in Slot, fetcher'[x][s].pc = "got"
                 PROVE  \E t \in Slot : fetcher'[x][s] = fetcher[x][t]
        OBVIOUS
    <3>1. CASE x # b
      <4>1. fetcher'[x] = fetcher[x]
          BY <1>1, <2>1, <3>1
      <4>2. QED
          BY <4>1
    <3>2. CASE x = b
      <4>1. fetcher'[x] = [current |-> next, old |-> fetcher[b]["current"]]
          BY <1>1, <2>1, <3>2
      <4>2. s # "current"
          BY <1>1, <4>1
      <4>3. fetcher'[x][s] = fetcher[x]["current"]
          BY <3>2, <4>1, <4>2 DEF Slot
      <4>4. QED
          BY <4>3 DEF Slot
    <3>3. QED
        BY <3>1, <3>2
  <2>2. \/ fetcher' = fetcher
        \/ \E next \in {None, Idle(Names(b))} : fetcher' =
             [fetcher EXCEPT ![b] = [current |-> next, old |-> fetcher[b]["current"]]]
      BY <1>3 DEF Reconcile
  <2>3. UNCHANGED <<log, history>>
      BY <1>3 DEF Reconcile
  <2>4. QED
      BY <1>2, <2>1, <2>2, <2>3 DEF NoNewBatch
<1>4. ASSUME NEW b \in Broker, FinishReconcile(b) PROVE NoNewBatch
  <2>1. fetcher' = [fetcher EXCEPT ![b]["old"] = None] /\ UNCHANGED <<log, history>>
      BY <1>4 DEF FinishReconcile
  <2>2. ASSUME NEW x \in Broker, NEW s \in Slot
        PROVE  fetcher'[x][s] = fetcher[x][s] \/ fetcher'[x][s] = None
      BY <1>1, <2>1 DEF Slot
  <2>3. QED
      BY <1>1, <2>1, <2>2 DEF NoNewBatch
<1>5. ASSUME NEW b \in Broker, Crash(b) PROVE NoNewBatch
  <2>1. fetcher' = [fetcher EXCEPT ![b] = [current |-> None, old |-> None]]
      BY <1>5 DEF Crash
  <2>2. UNCHANGED <<log, history>>
      BY <1>5 DEF Crash
  <2>3. ASSUME NEW x \in Broker, NEW s \in Slot
        PROVE  fetcher'[x][s] = fetcher[x][s] \/ fetcher'[x][s] = None
    <3>1. CASE x # b
        BY <1>1, <2>1, <3>1
    <3>2. CASE x = b
        BY <1>1, <2>1, <3>2 DEF Slot
    <3>3. QED
        BY <3>1, <3>2
  <2>4. QED
      BY <1>1, <2>2, <2>3 DEF NoNewBatch
<1>6. ASSUME NEW b \in Broker, Elect(b) \/ LeaderAndIsr(b) \/ Restart(b) PROVE NoNewBatch
    BY <1>2, <1>6 DEF Elect, LeaderAndIsr, Restart
<1>7. ASSUME NEW p \in Producer,
             \/ Locate(p) \/ CheckLeader(p) \/ Ack(p) \/ TimedOut(p)
             \/ Refused(p) \/ Retry(p) \/ Fail(p)
      PROVE  NoNewBatch
    BY <1>2, <1>7 DEF Locate, CheckLeader, Ack, TimedOut, Refused, Retry, Fail
<1>8. ASSUME NEW p \in Producer, Produce(p)
      PROVE  \E b \in Broker : AppendAt(b, p) /\ UNCHANGED fetcher
    BY <1>0, <1>8 DEF Produce, TypeOK
<1>9. ASSUME NEW r \in late, LateProduce(r)
      PROVE  \/ NoNewBatch
             \/ \E b \in Broker, p \in Producer : AppendAt(b, p) /\ UNCHANGED fetcher
  <2>1. r.rec \in Producer /\ r.at \in Broker
      BY <1>0 DEF TypeOK
  <2>2. QED
      BY <1>2, <1>9, <2>1 DEF LateProduce
<1>10. CASE UNCHANGED vars
    BY <1>2, <1>10 DEF vars
<1>11. QED
    BY <1>3, <1>4, <1>5, <1>6, <1>7, <1>8, <1>9, <1>10 DEF Next, FetchStep, ProducerStep

\* u is s with t behind it.
Joined(u, s, t) ==
    /\ Len(u) = Len(s) + Len(t)
    /\ \A i \in 1 .. Len(s) : u[i] = s[i]
    /\ \A k \in 1 .. Len(t) : u[Len(s) + k] = t[k]

\* A log after a batch.
LEMMA Concatenated ==
    ASSUME NEW S, NEW s \in Seq(S), NEW t \in Seq(S)
    PROVE  s \o t \in Seq(S) /\ Len(s) \in Nat /\ Len(t) \in Nat /\ Joined(s \o t, s, t)
<1>1. /\ s \o t \in Seq(S) /\ Len(s \o t) = Len(s) + Len(t)
      /\ Len(s) \in Nat /\ Len(t) \in Nat
    OBVIOUS
<1>2. \A i \in 1 .. Len(s) : (s \o t)[i] = s[i]
    BY <1>1
<1>3. \A k \in 1 .. Len(t) : (s \o t)[Len(s) + k] = t[k]
    BY <1>1
<1>4. QED
    BY <1>1, <1>2, <1>3 DEF Joined

\* A position is in the first part or in the second.
LEMMA TwoParts ==
    ASSUME NEW n \in Nat, NEW m \in Nat
    PROVE  \A i \in 1 .. n + m : i \in 1 .. n \/ \E k \in 1 .. m : i = n + k
<1> SUFFICES ASSUME NEW i \in 1 .. n + m, i \notin 1 .. n PROVE \E k \in 1 .. m : i = n + k
    OBVIOUS
<1>1. i - n \in 1 .. m /\ i = n + (i - n)
    OBVIOUS
<1>2. QED
    BY <1>1

\* A request of a producer adds one record, at the log end.
LEMMA Appended ==
    ASSUME TypeOK, NEW b \in Broker, NEW p \in Producer, AppendAt(b, p)
    PROVE  LET r == [offset |-> LogEnd(log[b]), rec |-> p]
           IN  /\ <<r>> \in Seq(Record) /\ Len(<<r>>) = 1 /\ <<r>>[1] = r
               /\ log' = [log EXCEPT ![b] = @ \o <<r>>]
<1> DEFINE r == [offset |-> LogEnd(log[b]), rec |-> p]
<1>1. log[b] \in Seq(Record) /\ log' = [log EXCEPT ![b] = Append(@, r)]
    BY DEF TypeOK, AppendAt
<1>2. r \in Record
    BY <1>1, LogEndType DEF Record
<1> HIDE DEF r
<1>3. <<r>> \in Seq(Record) /\ Append(log[b], r) = log[b] \o <<r>>
    BY <1>1, <1>2
<1>4. QED
    BY <1>1, <1>3 DEF r

-----------------------------------------------------------------------------
(* Numbered logs *)

\* The log end of a log without repetitions is its length.
LEMMA PositionalEnd ==
    ASSUME NEW s \in Seq(Record), Positional(s)
    PROVE  LogEnd(s) = Len(s)
<1>1. CASE s = <<>>
    BY <1>1, LogEndType
<1>2. CASE s # <<>>
  <2>1. Len(s) \in 1 .. Len(s) /\ LogEnd(s) = s[Len(s)].offset + 1
      BY <1>2, LogEndType
  <2>2. s[Len(s)].offset = Len(s) - 1
      BY <2>1 DEF Positional
  <2>3. QED
      BY <2>1, <2>2
<1>3. QED
    BY <1>1, <1>2

\* A batch in flight continues at the log end it was asked for.
NumberedFrom(batch, end) == \A k \in 1 .. Len(batch) : batch[k].offset = end + k - 1

\* Offsets are positions, and batches continue where they were asked for.
NumberedLogs ==
    /\ \A b \in Broker : Positional(log[b])
    /\ \A b \in Broker, s \in Slot :
          fetcher[b][s].pc = "got" => NumberedFrom(fetcher[b][s].batch, fetcher[b][s].end)

Numbered == inTurn => NumberedLogs

\* A batch that continues at the log end leaves offsets positions.
LEMMA PositionalGrows ==
    ASSUME NEW s \in Seq(Record), Positional(s), NEW t \in Seq(Record),
           NumberedFrom(t, Len(s))
    PROVE  Positional(s \o t)
<1> DEFINE u == s \o t
<1>1. Len(s) \in Nat /\ Len(t) \in Nat /\ Joined(u, s, t)
    BY Concatenated
<1> HIDE DEF u
<1>2. /\ Len(u) = Len(s) + Len(t)
      /\ \A i \in 1 .. Len(s) : u[i] = s[i]
      /\ \A k \in 1 .. Len(t) : u[Len(s) + k] = t[k]
    BY <1>1 DEF Joined
<1>3. \A i \in 1 .. Len(s) + Len(t) :
         i \in 1 .. Len(s) \/ \E k \in 1 .. Len(t) : i = Len(s) + k
    BY <1>1, TwoParts
<1>4. ASSUME NEW i \in 1 .. Len(u) PROVE u[i].offset = i - 1
  <2>1. CASE i \in 1 .. Len(s)
      BY <1>2, <2>1 DEF Positional
  <2>2. ASSUME NEW k \in 1 .. Len(t), i = Len(s) + k PROVE u[i].offset = i - 1
    <3>1. u[i] = t[k] /\ t[k].offset = Len(s) + k - 1
        BY <1>2, <2>2 DEF NumberedFrom
    <3>2. QED
        BY <2>2, <3>1
  <2>3. QED
      BY <1>2, <1>3, <2>1, <2>2
<1>5. QED
    BY <1>4 DEF Positional, u

\* A log that grows by a batch that continues at its end disturbs no other batch.
LEMMA NumberedGrows ==
    ASSUME TypeOK, NumberedLogs, NEW b \in Broker, NEW t \in Seq(Record),
           NumberedFrom(t, Len(log[b])), log' = [log EXCEPT ![b] = @ \o t],
           \A x \in Broker, s \in Slot :
              fetcher'[x][s].pc = "got" => fetcher'[x][s] = fetcher[x][s]
    PROVE  NumberedLogs'
<1>1. log[b] \in Seq(Record) /\ log \in [Broker -> Seq(Record)]
    BY DEF TypeOK
<1>2. log'[b] = log[b] \o t /\ \A x \in Broker : x # b => log'[x] = log[x]
    BY <1>1
<1>3. Positional(log[b] \o t)
    BY <1>1, PositionalGrows DEF NumberedLogs
<1>4. \A x \in Broker : Positional(log'[x])
    BY <1>2, <1>3 DEF NumberedLogs
<1>5. ASSUME NEW x \in Broker, NEW s \in Slot, fetcher'[x][s].pc = "got"
      PROVE  NumberedFrom(fetcher'[x][s].batch, fetcher'[x][s].end)
  <2>1. fetcher'[x][s] = fetcher[x][s]
      BY <1>5
  <2>2. QED
      BY <1>5, <2>1 DEF NumberedLogs
<1>6. QED
    BY <1>4, <1>5 DEF NumberedLogs

\* As long as every batch is appended at the end it was asked for, whoever led and
\* whatever the logs hold, offsets stay positions.
LEMMA NumberedStep ==
    ASSUME HandoverTypes, Numbered, [Next]_vars
    PROVE  Numbered'
<1>0. TypeOK
    BY DEF HandoverTypes
<1>1. CASE NoNewBatch
  <2> SUFFICES ASSUME inTurn' PROVE NumberedLogs'
      BY DEF Numbered
  <2>1. log' = log /\ NumberedLogs
      BY <1>1 DEF NoNewBatch, history, Numbered
  <2>2. ASSUME NEW b \in Broker, NEW s \in Slot, fetcher'[b][s].pc = "got"
        PROVE  NumberedFrom(fetcher'[b][s].batch, fetcher'[b][s].end)
    <3>1. PICK u \in Slot : fetcher'[b][s] = fetcher[b][u]
        BY <1>1, <2>2 DEF NoNewBatch
    <3>2. QED
        BY <2>1, <2>2, <3>1 DEF NumberedLogs
  <2>3. QED
      BY <2>1, <2>2 DEF NumberedLogs
<1>2. ASSUME NEW b \in Broker, NEW s \in Slot, FetchBatch(b, s) PROVE Numbered'
  <2> DEFINE from == fetcher[b][s].from
             got(page) == [pc |-> "got", from |-> from, end |-> LogEnd(log[b]), batch |-> page]
  <2>0. SUFFICES ASSUME inTurn' PROVE NumberedLogs'
      BY DEF Numbered
  <2>1. NumberedLogs
      BY <1>2, <2>0 DEF FetchBatch, history, Numbered
  <2>2. from \in Broker
    <3>1. fetcher[b][s] \in Fetcher
        BY <1>0 DEF TypeOK
    <3>2. QED
        BY <3>1 DEF Fetcher
  <2>3. PICK batch \in Pages(from, LogEnd(log[b]), LogEnd(log[from])) :
             fetcher' = [fetcher EXCEPT ![b][s] = got(batch)]
      BY <1>2 DEF FetchBatch, FetchFrom
  <2>4. log' = log
      BY <1>2 DEF FetchBatch
  <2> HIDE DEF from
  <2>5. /\ log[b] \in Seq(Record) /\ log[from] \in Seq(Record)
        /\ Positional(log[from])
      BY <1>0, <2>1, <2>2 DEF TypeOK, NumberedLogs
  <2>6. LogEnd(log[b]) \in Nat /\ LogEnd(log[from]) \in 0 .. Len(log[from])
      BY <2>5, LogEndType, PositionalEnd
  <2>7. /\ batch \in Seq(Record)
        /\ Len(batch) = IF LogEnd(log[b]) >= LogEnd(log[from]) THEN 0
                        ELSE LogEnd(log[from]) - LogEnd(log[b])
        /\ \A k \in 1 .. Len(batch) : batch[k] = log[from][LogEnd(log[b]) + k]
      BY <2>3, <2>5, <2>6, PagesAreStretches
  <2>8. NumberedFrom(batch, LogEnd(log[b]))
    <3>1. ASSUME NEW k \in 1 .. Len(batch) PROVE batch[k].offset = LogEnd(log[b]) + k - 1
      <4>1. Len(log[from]) \in Nat
          BY <2>5
      <4>2. LogEnd(log[b]) + k \in 1 .. Len(log[from])
          BY <2>6, <2>7, <4>1
      <4>3. batch[k] = log[from][LogEnd(log[b]) + k]
          BY <2>7
      <4>4. \A i \in 1 .. Len(log[from]) : log[from][i].offset = i - 1
          BY <2>5 DEF Positional
      <4>5. log[from][LogEnd(log[b]) + k].offset = LogEnd(log[b]) + k - 1
          BY <2>6, <4>2, <4>4
      <4>6. QED
          BY <4>3, <4>5
    <3>2. QED
        BY <3>1 DEF NumberedFrom
  <2>9. got(batch).end = LogEnd(log[b]) /\ got(batch).batch = batch
      OBVIOUS
  <2> HIDE DEF got
  <2>10. ASSUME NEW x \in Broker, NEW u \in Slot
         PROVE  fetcher'[x][u] = fetcher[x][u] \/ fetcher'[x][u] = got(batch)
      BY <1>0, <2>3 DEF TypeOK
  <2>11. ASSUME NEW x \in Broker, NEW u \in Slot, fetcher'[x][u].pc = "got"
         PROVE  NumberedFrom(fetcher'[x][u].batch, fetcher'[x][u].end)
    <3>1. CASE fetcher'[x][u] = fetcher[x][u]
        BY <2>1, <2>11, <3>1 DEF NumberedLogs
    <3>2. CASE fetcher'[x][u] = got(batch)
        BY <2>8, <2>9, <3>2
    <3>3. QED
        BY <2>10, <3>1, <3>2
  <2>12. QED
      BY <2>1, <2>4, <2>11 DEF NumberedLogs
<1>3. ASSUME NEW b \in Broker, NEW s \in Slot, AppendReplicated(b, s) PROVE Numbered'
  <2> DEFINE f == fetcher[b][s]
  <2>0. SUFFICES ASSUME inTurn' PROVE NumberedLogs'
      BY DEF Numbered
  <2>1. NumberedLogs /\ f.pc = "got" /\ f.end = LogEnd(log[b])
      BY <1>3, <2>0 DEF AppendReplicated, Numbered
  <2>2. f.batch \in Seq(Record) /\ f.from \in Broker
    <3>1. f \in Fetcher
        BY <1>0 DEF TypeOK
    <3>2. QED
        BY <3>1 DEF Fetcher
  <2>3. f.end = Len(log[b])
      BY <1>0, <2>1, PositionalEnd DEF TypeOK, NumberedLogs
  <2>4. NumberedFrom(f.batch, Len(log[b]))
    <3>1. NumberedFrom(f.batch, f.end)
        BY <2>1 DEF NumberedLogs
    <3> HIDE DEF f
    <3>2. QED
        BY <2>3, <3>1
  <2>5. /\ log' = [log EXCEPT ![b] = @ \o f.batch]
        /\ fetcher' = [fetcher EXCEPT ![b][s] = Idle(f.from)]
      BY <1>3 DEF AppendReplicated
  <2>6. Idle(f.from).pc = "idle"
      BY <2>2, FetcherTypes
  <2>7. ASSUME NEW x \in Broker, NEW u \in Slot
        PROVE  fetcher'[x][u] = fetcher[x][u] \/ fetcher'[x][u] = Idle(f.from)
      BY <1>0, <2>5 DEF TypeOK
  <2> HIDE DEF f
  <2>8. QED
      BY <1>0, <2>1, <2>2, <2>4, <2>5, <2>6, <2>7, NumberedGrows
<1>4. ASSUME NEW b \in Broker, NEW p \in Producer, AppendAt(b, p), UNCHANGED fetcher
      PROVE  Numbered'
  <2> DEFINE r == [offset |-> LogEnd(log[b]), rec |-> p]
  <2>0. SUFFICES ASSUME inTurn' PROVE NumberedLogs'
      BY DEF Numbered
  <2>1. NumberedLogs
      BY <1>4, <2>0 DEF AppendAt, Numbered
  <2>2. /\ <<r>> \in Seq(Record) /\ Len(<<r>>) = 1 /\ <<r>>[1] = r
        /\ log' = [log EXCEPT ![b] = @ \o <<r>>]
      BY <1>0, <1>4, Appended
  <2>3. LogEnd(log[b]) = Len(log[b]) /\ Len(log[b]) \in Nat
      BY <1>0, <2>1, PositionalEnd DEF TypeOK, NumberedLogs
  <2>4. r.offset = Len(log[b])
      BY <2>3
  <2> HIDE DEF r
  <2>5. NumberedFrom(<<r>>, Len(log[b]))
    <3>1. ASSUME NEW k \in 1 .. Len(<<r>>) PROVE <<r>>[k].offset = Len(log[b]) + k - 1
      <4>1. k = 1
          BY <2>2
      <4>2. <<r>>[k].offset = Len(log[b])
          BY <2>2, <2>4, <4>1
      <4>3. QED
          BY <2>3, <4>1, <4>2
    <3>2. QED
        BY <3>1 DEF NumberedFrom
  <2>6. QED
      BY <1>0, <1>4, <2>1, <2>2, <2>5, NumberedGrows
<1>5. QED
    BY <1>1, <1>2, <1>3, <1>4, LogSteps

\* The logs are empty and nothing is fetched yet.
LEMMA NumberedInit == Init => Numbered
<1> SUFFICES ASSUME Init PROVE NumberedLogs
    BY DEF Numbered
<1>1. \A b \in Broker : log[b] = <<>>
    BY DEF Init
<1>2. ASSUME NEW b \in Broker, NEW s \in Slot PROVE fetcher[b][s].pc # "got"
    BY FetcherTypes, BrokerAssumption DEF Init, Slot, None
<1>3. QED
    BY <1>1, <1>2 DEF NumberedLogs, Positional

-----------------------------------------------------------------------------
(* One log *)

\* Where both have a record they have the same.
Agreeing(s, t) == \A i \in 1 .. Len(s) : i <= Len(t) => s[i] = t[i]

\* A batch in flight is a stretch of its leader's log, which may have moved on.
CopiedFrom(f) ==
    f.pc = "got" => /\ f.end + Len(f.batch) <= Len(log[f.from])
                    /\ \A k \in 1 .. Len(f.batch) : f.batch[k] = log[f.from][f.end + k]

\* Offsets are positions, logs agree, and batches are stretches of a log.
OneLog ==
    /\ \A b \in Broker : Positional(log[b])
    /\ \A b, x \in Broker : Agreeing(log[b], log[x])
    /\ \A b \in Broker, s \in Slot : CopiedFrom(fetcher[b][s])

CleanLogs == clean => OneLog

\* A log that grows by what the others have there, or have not got to yet, leaves one log.
LEMMA OneLogGrows ==
    ASSUME TypeOK, OneLog, NEW b \in Broker, NEW t \in Seq(Record),
           log' = [log EXCEPT ![b] = @ \o t],
           \A k \in 1 .. Len(t) : t[k].offset = Len(log[b]) + k - 1,
           \A x \in Broker : \A k \in 1 .. Len(t) :
              Len(log[b]) + k <= Len(log[x]) => t[k] = log[x][Len(log[b]) + k],
           \A x \in Broker, s \in Slot :
              fetcher'[x][s].pc = "got" => fetcher'[x][s] = fetcher[x][s]
    PROVE  OneLog'
<1> DEFINE u == log[b] \o t
<1>1. log[b] \in Seq(Record) /\ log \in [Broker -> Seq(Record)]
    BY DEF TypeOK
<1>2. log'[b] = u /\ \A x \in Broker : x # b => log'[x] = log[x]
    BY <1>1
<1>3. /\ u \in Seq(Record) /\ Len(u) = Len(log[b]) + Len(t)
      /\ Len(log[b]) \in Nat /\ Len(t) \in Nat
      /\ \A i \in 1 .. Len(log[b]) : u[i] = log[b][i]
      /\ \A k \in 1 .. Len(t) : u[Len(log[b]) + k] = t[k]
      /\ \A i \in 1 .. Len(log[b]) + Len(t) :
           i \in 1 .. Len(log[b]) \/ \E k \in 1 .. Len(t) : i = Len(log[b]) + k
  <2>1. /\ u \in Seq(Record) /\ Len(log[b]) \in Nat /\ Len(t) \in Nat
        /\ Joined(u, log[b], t)
      BY <1>1, Concatenated
  <2> HIDE DEF u
  <2>2. /\ Len(u) = Len(log[b]) + Len(t)
        /\ \A i \in 1 .. Len(log[b]) : u[i] = log[b][i]
        /\ \A k \in 1 .. Len(t) : u[Len(log[b]) + k] = t[k]
      BY <2>1 DEF Joined
  <2>3. \A i \in 1 .. Len(log[b]) + Len(t) :
           i \in 1 .. Len(log[b]) \/ \E k \in 1 .. Len(t) : i = Len(log[b]) + k
      BY <2>1, TwoParts
  <2>4. QED
      BY <2>1, <2>2, <2>3
<1> HIDE DEF u
<1>4. Positional(u)
  <2> SUFFICES ASSUME NEW i \in 1 .. Len(u) PROVE u[i].offset = i - 1
      BY DEF Positional
  <2>1. CASE i \in 1 .. Len(log[b])
    <3>1. Positional(log[b])
        BY DEF OneLog
    <3>2. u[i] = log[b][i]
        BY <1>3, <2>1
    <3>3. QED
        BY <2>1, <3>1, <3>2 DEF Positional
  <2>2. ASSUME NEW k \in 1 .. Len(t), i = Len(log[b]) + k PROVE u[i].offset = i - 1
    <3>1. u[i] = t[k]
        BY <1>3, <2>2
    <3>2. t[k].offset = Len(log[b]) + k - 1
        OBVIOUS
    <3>3. QED
        BY <2>2, <3>1, <3>2
  <2>3. QED
      BY <1>3, <2>1, <2>2
<1>5. ASSUME NEW x \in Broker PROVE Agreeing(u, log[x]) /\ Agreeing(log[x], u)
  <2>1. Agreeing(log[b], log[x])
      BY DEF OneLog
  <2>2. ASSUME NEW i \in 1 .. Len(u), i <= Len(log[x]) PROVE u[i] = log[x][i]
    <3>1. CASE i \in 1 .. Len(log[b])
        BY <1>3, <2>1, <2>2, <3>1 DEF Agreeing
    <3>2. ASSUME NEW k \in 1 .. Len(t), i = Len(log[b]) + k PROVE u[i] = log[x][i]
        BY <1>3, <2>2, <3>2
    <3>3. QED
        BY <1>3, <3>1, <3>2
  <2>3. Len(log[x]) \in Nat /\ Len(u) \in Nat
      BY <1>1, <1>3
  <2>4. ASSUME NEW i \in 1 .. Len(log[x]), i <= Len(u) PROVE log[x][i] = u[i]
    <3>1. i \in 1 .. Len(u) /\ i <= Len(log[x])
        BY <2>3, <2>4
    <3>2. QED
        BY <2>2, <3>1
  <2>5. QED
      BY <2>2, <2>4 DEF Agreeing
<1>6. ASSUME NEW x \in Broker, NEW y \in Broker PROVE Agreeing(log'[x], log'[y])
  <2>1. CASE x # b /\ y # b
      BY <1>2, <2>1 DEF OneLog
  <2>2. CASE x = b /\ y = b
      BY <2>2 DEF Agreeing
  <2>3. CASE x = b /\ y # b
      BY <1>2, <1>5, <2>3
  <2>4. CASE x # b /\ y = b
      BY <1>2, <1>5, <2>4
  <2>5. QED
      BY <2>1, <2>2, <2>3, <2>4
<1>7. ASSUME NEW x \in Broker
      PROVE  /\ Len(log[x]) \in Nat /\ Len(log'[x]) \in Nat /\ Len(log[x]) <= Len(log'[x])
             /\ \A i \in 1 .. Len(log[x]) : log'[x][i] = log[x][i]
  <2>1. CASE x = b
      BY <1>2, <1>3, <2>1
  <2>2. CASE x # b
      BY <1>1, <1>2, <2>2
  <2>3. QED
      BY <2>1, <2>2
<1>8. ASSUME NEW x \in Broker, NEW s \in Slot, fetcher'[x][s].pc = "got"
      PROVE  CopiedFrom(fetcher[x][s])'
  <2> DEFINE f == fetcher[x][s]
  <2>1. fetcher'[x][s] = f /\ f.pc = "got"
      BY <1>8
  <2>2. f.from \in Broker /\ f.end \in Nat /\ Len(f.batch) \in Nat
    <3>1. f \in Fetcher
        BY DEF TypeOK
    <3>2. QED
        BY <3>1 DEF Fetcher
  <2>3. /\ f.end + Len(f.batch) <= Len(log[f.from])
        /\ \A k \in 1 .. Len(f.batch) : f.batch[k] = log[f.from][f.end + k]
      BY <2>1 DEF OneLog, CopiedFrom
  <2> HIDE DEF f
  <2>4. f.end + Len(f.batch) <= Len(log'[f.from])
      BY <1>7, <2>2, <2>3
  <2>5. ASSUME NEW k \in 1 .. Len(f.batch) PROVE f.batch[k] = log'[f.from][f.end + k]
    <3>1. f.end + k \in 1 .. Len(log[f.from])
        BY <1>7, <2>2, <2>3
    <3>2. QED
        BY <1>7, <2>2, <2>3, <3>1
  <2>6. QED
      BY <2>1, <2>4, <2>5 DEF CopiedFrom
<1>9. \A x \in Broker, s \in Slot : CopiedFrom(fetcher[x][s])'
    BY <1>8 DEF CopiedFrom
<1>10. \A x \in Broker : Positional(log'[x])
    BY <1>2, <1>4 DEF OneLog
<1>11. QED
    BY <1>6, <1>9, <1>10 DEF OneLog

\* A batch that arrives at the log end it was asked for makes its follower's log a part
\* of its leader's.
LEMMA BatchFits ==
    ASSUME TypeOK, OneLog, NEW b \in Broker, NEW s \in Slot, fetcher[b][s].pc = "got",
           fetcher[b][s].end = LogEnd(log[b])
    PROVE  LET f == fetcher[b][s]
               n == Len(log[b])
           IN  /\ f.from \in Broker /\ f.batch \in Seq(Record)
               /\ n \in Nat /\ Len(f.batch) \in Nat
               /\ n + Len(f.batch) <= Len(log[f.from])
               /\ \A k \in 1 .. Len(f.batch) : f.batch[k] = log[f.from][n + k]
<1>1. fetcher[b][s].from \in Broker /\ fetcher[b][s].batch \in Seq(Record)
  <2>1. fetcher[b][s] \in Fetcher
      BY DEF TypeOK
  <2>2. QED
      BY <2>1 DEF Fetcher
<1>2. log[b] \in Seq(Record) /\ LogEnd(log[b]) = Len(log[b])
    BY PositionalEnd DEF TypeOK, OneLog
<1>3. CopiedFrom(fetcher[b][s])
    BY DEF OneLog
<1>4. Len(log[b]) \in Nat /\ Len(fetcher[b][s].batch) \in Nat
    BY <1>1, <1>2
<1>5. /\ fetcher[b][s].end + Len(fetcher[b][s].batch) <= Len(log[fetcher[b][s].from])
      /\ \A k \in 1 .. Len(fetcher[b][s].batch) :
            fetcher[b][s].batch[k] = log[fetcher[b][s].from][fetcher[b][s].end + k]
    BY <1>3 DEF CopiedFrom
<1>6. fetcher[b][s].end = Len(log[b])
    BY <1>2
<1>7. QED
    BY <1>1, <1>4, <1>5, <1>6

\* As long as every record was appended behind the longest log and every batch at the
\* end it was asked for, the logs are one.
LEMMA OneLogStep ==
    ASSUME HandoverTypes, CleanLogs, [Next]_vars
    PROVE  CleanLogs'
<1>0. TypeOK
    BY DEF HandoverTypes
<1>1. CASE NoNewBatch
  <2> SUFFICES ASSUME clean' PROVE OneLog'
      BY DEF CleanLogs
  <2>1. log' = log /\ OneLog
      BY <1>1 DEF NoNewBatch, history, CleanLogs
  <2>2. ASSUME NEW b \in Broker, NEW s \in Slot PROVE CopiedFrom(fetcher[b][s])'
    <3>1. CASE fetcher'[b][s].pc = "got"
      <4>1. PICK u \in Slot : fetcher'[b][s] = fetcher[b][u]
          BY <1>1, <3>1 DEF NoNewBatch
      <4>2. CopiedFrom(fetcher[b][u])
          BY <2>1 DEF OneLog
      <4>3. QED
          BY <2>1, <4>1, <4>2 DEF CopiedFrom
    <3>2. CASE fetcher'[b][s].pc # "got"
        BY <3>2 DEF CopiedFrom
    <3>3. QED
        BY <3>1, <3>2
  <2>3. QED
      BY <2>1, <2>2 DEF OneLog
<1>2. ASSUME NEW b \in Broker, NEW s \in Slot, FetchBatch(b, s) PROVE CleanLogs'
  <2> DEFINE from == fetcher[b][s].from
             got(page) == [pc |-> "got", from |-> from, end |-> LogEnd(log[b]), batch |-> page]
  <2>0. SUFFICES ASSUME clean' PROVE OneLog'
      BY DEF CleanLogs
  <2>1. OneLog
      BY <1>2, <2>0 DEF FetchBatch, history, CleanLogs
  <2>2. from \in Broker
    <3>1. fetcher[b][s] \in Fetcher
        BY <1>0 DEF TypeOK
    <3>2. QED
        BY <3>1 DEF Fetcher
  <2>3. /\ log[b] \in Seq(Record) /\ log[from] \in Seq(Record)
        /\ Positional(log[from])
      BY <1>0, <2>1, <2>2 DEF TypeOK, OneLog
  <2>4. LogEnd(log[b]) \in Nat /\ LogEnd(log[from]) = Len(log[from]) /\ Len(log[from]) \in Nat
      BY <2>3, LogEndType, PositionalEnd
  <2>5. PICK batch \in Pages(from, LogEnd(log[b]), LogEnd(log[from])) :
             batch # <<>> /\ fetcher' = [fetcher EXCEPT ![b][s] = got(batch)]
      BY <1>2 DEF FetchBatch, FetchFrom
  <2>6. log' = log
      BY <1>2 DEF FetchBatch
  <2> HIDE DEF from
  <2>7. /\ batch \in Seq(Record)
        /\ Len(batch) = IF LogEnd(log[b]) >= LogEnd(log[from]) THEN 0
                        ELSE LogEnd(log[from]) - LogEnd(log[b])
        /\ \A k \in 1 .. Len(batch) : batch[k] = log[from][LogEnd(log[b]) + k]
    <3>1. LogEnd(log[from]) \in 0 .. Len(log[from])
        BY <2>4
    <3>2. QED
        BY <2>3, <2>4, <2>5, <3>1, PagesAreStretches
  <2>8. /\ got(batch).end = LogEnd(log[b]) /\ got(batch).batch = batch
        /\ got(batch).from = from
      OBVIOUS
  <2>9. LogEnd(log[b]) + Len(batch) <= Len(log[from])
    <3>1. Len(batch) # 0
        BY <2>5, <2>7
    <3>2. QED
        BY <2>4, <2>7, <3>1
  <2> HIDE DEF got
  <2>10. ASSUME NEW x \in Broker, NEW u \in Slot
         PROVE  fetcher'[x][u] = fetcher[x][u] \/ (x = b /\ fetcher'[x][u] = got(batch))
      BY <1>0, <2>5 DEF TypeOK
  <2>11. ASSUME NEW x \in Broker, NEW u \in Slot PROVE CopiedFrom(fetcher[x][u])'
    <3>1. CASE fetcher'[x][u] = fetcher[x][u]
      <4>1. CopiedFrom(fetcher[x][u])
          BY <2>1 DEF OneLog
      <4>2. QED
          BY <2>6, <3>1, <4>1 DEF CopiedFrom
    <3>2. CASE x = b /\ fetcher'[x][u] = got(batch)
        BY <2>6, <2>7, <2>8, <2>9, <3>2 DEF CopiedFrom
    <3>3. QED
        BY <2>10, <3>1, <3>2
  <2>12. QED
      BY <2>1, <2>6, <2>11 DEF OneLog
<1>3. ASSUME NEW b \in Broker, NEW s \in Slot, AppendReplicated(b, s) PROVE CleanLogs'
  <2> DEFINE f == fetcher[b][s]
             n == Len(log[b])
  <2>0. SUFFICES ASSUME clean' PROVE OneLog'
      BY DEF CleanLogs
  <2>1. OneLog /\ f.pc = "got" /\ f.end = LogEnd(log[b])
      BY <1>3, <2>0 DEF AppendReplicated, CleanLogs
  <2>2. /\ f.from \in Broker /\ f.batch \in Seq(Record)
        /\ n \in Nat /\ Len(f.batch) \in Nat
        /\ n + Len(f.batch) <= Len(log[f.from])
        /\ \A k \in 1 .. Len(f.batch) : f.batch[k] = log[f.from][n + k]
      BY <1>0, <2>1, BatchFits
  <2>3. /\ log' = [log EXCEPT ![b] = @ \o f.batch]
        /\ fetcher' = [fetcher EXCEPT ![b][s] = Idle(f.from)]
      BY <1>3 DEF AppendReplicated
  <2>4. Idle(f.from).pc = "idle"
      BY <2>2, FetcherTypes
  <2>5. ASSUME NEW x \in Broker, NEW u \in Slot
        PROVE  fetcher'[x][u] = fetcher[x][u] \/ fetcher'[x][u] = Idle(f.from)
      BY <1>0, <2>3 DEF TypeOK
  <2> HIDE DEF f, n
  <2>6. Len(log[f.from]) \in Nat
    <3>1. \A x \in Broker : Len(log[x]) \in Nat
        BY <1>0 DEF TypeOK
    <3>2. QED
        BY <2>2, <3>1
  <2>7. ASSUME NEW k \in 1 .. Len(f.batch) PROVE n + k \in 1 .. Len(log[f.from])
      BY <2>2, <2>6
  <2>8. ASSUME NEW k \in 1 .. Len(f.batch) PROVE f.batch[k].offset = n + k - 1
    <3>1. log[f.from][n + k].offset = n + k - 1
        BY <2>1, <2>2, <2>7 DEF OneLog, Positional
    <3>2. QED
        BY <2>2, <3>1
  <2>9. ASSUME NEW x \in Broker, NEW k \in 1 .. Len(f.batch), n + k <= Len(log[x])
        PROVE  f.batch[k] = log[x][n + k]
    <3>1. Agreeing(log[f.from], log[x])
        BY <2>1, <2>2 DEF OneLog
    <3>2. QED
        BY <2>2, <2>7, <2>9, <3>1 DEF Agreeing
  <2>10. QED
      BY <1>0, <2>1, <2>2, <2>3, <2>4, <2>5, <2>8, <2>9, OneLogGrows DEF n
<1>4. ASSUME NEW b \in Broker, NEW p \in Producer, AppendAt(b, p), UNCHANGED fetcher
      PROVE  CleanLogs'
  <2> DEFINE r == [offset |-> LogEnd(log[b]), rec |-> p]
  <2>0. SUFFICES ASSUME clean' PROVE OneLog'
      BY DEF CleanLogs
  <2>1. OneLog /\ \A x \in Broker : Len(log[x]) <= Len(log[b])
      BY <1>4, <2>0 DEF AppendAt, CleanLogs
  <2>2. /\ <<r>> \in Seq(Record) /\ Len(<<r>>) = 1 /\ <<r>>[1] = r
        /\ log' = [log EXCEPT ![b] = @ \o <<r>>]
      BY <1>0, <1>4, Appended
  <2>3. LogEnd(log[b]) = Len(log[b])
      BY <1>0, <2>1, PositionalEnd DEF TypeOK, OneLog
  <2>4. \A x \in Broker : Len(log[x]) \in Nat
      BY <1>0 DEF TypeOK
  <2>5. r.offset = LogEnd(log[b])
      OBVIOUS
  <2> HIDE DEF r
  <2>6. \A k \in 1 .. Len(<<r>>) : k = 1
      BY <2>2
  <2>7. \A k \in 1 .. Len(<<r>>) : <<r>>[k].offset = Len(log[b]) + k - 1
    <3>1. <<r>>[1].offset = Len(log[b])
        BY <2>2, <2>3, <2>5
    <3>2. QED
        BY <2>4, <2>6, <3>1
  <2>8. \A x \in Broker : \A k \in 1 .. Len(<<r>>) : ~(Len(log[b]) + k <= Len(log[x]))
      BY <2>1, <2>4, <2>6
  <2>9. QED
      BY <1>0, <1>4, <2>1, <2>2, <2>7, <2>8, OneLogGrows
<1>5. QED
    BY <1>1, <1>2, <1>3, <1>4, LogSteps

\* The logs are empty.
LEMMA OneLogInit == Init => CleanLogs
<1> SUFFICES ASSUME Init PROVE OneLog
    BY DEF CleanLogs
<1>1. \A b \in Broker : log[b] = <<>>
    BY DEF Init
<1>2. ASSUME NEW b \in Broker, NEW s \in Slot PROVE fetcher[b][s].pc # "got"
    BY FetcherTypes, BrokerAssumption DEF Init, Slot, None
<1>3. QED
    BY <1>1, <1>2 DEF OneLog, CopiedFrom, Positional, Agreeing

-----------------------------------------------------------------------------
(* What readers and followers see *)

\* A sequence that agrees with a longer one is a prefix of it.
LEMMA AgreeingPrefix ==
    ASSUME NEW S, NEW s \in Seq(S), NEW t \in Seq(S), Len(s) <= Len(t),
           \A i \in 1 .. Len(s) : s[i] = t[i]
    PROVE  IsPrefix(s, t)
<1>1. Len(s) \in Nat /\ Len(t) \in Nat
    OBVIOUS
<1>2. SubSeq(s, 1, Len(s)) = [i \in 1 .. Len(s) |-> s[i]]
    BY <1>1
<1>3. SubSeq(t, 1, Len(s)) = [i \in 1 .. Len(s) |-> t[i]]
    BY <1>1
<1>4. QED
    BY <1>2, <1>3 DEF IsPrefix

\* Of two logs that agree one is a prefix of the other.
LEMMA OneLogAgrees ==
    ASSUME TypeOK, OneLog, NEW b \in Broker, NEW x \in Broker
    PROVE  IsPrefix(log[b], log[x]) \/ IsPrefix(log[x], log[b])
<1>1. log[b] \in Seq(Record) /\ log[x] \in Seq(Record)
    BY DEF TypeOK
<1>2. Agreeing(log[b], log[x]) /\ Agreeing(log[x], log[b])
    BY DEF OneLog
<1>3. Len(log[b]) \in Nat /\ Len(log[x]) \in Nat
    BY <1>1
<1>4. CASE Len(log[b]) <= Len(log[x])
  <2>1. \A i \in 1 .. Len(log[b]) : log[b][i] = log[x][i]
      BY <1>2, <1>3, <1>4 DEF Agreeing
  <2>2. QED
      BY <1>1, <1>4, <2>1, AgreeingPrefix
<1>5. CASE Len(log[x]) <= Len(log[b])
  <2>1. \A i \in 1 .. Len(log[x]) : log[x][i] = log[b][i]
      BY <1>2, <1>3, <1>5 DEF Agreeing
  <2>2. QED
      BY <1>1, <1>5, <2>1, AgreeingPrefix
<1>6. QED
    BY <1>3, <1>4, <1>5

\* What was printed from x and the page read from b are a part of x's log, or of b's.
LEMMA OneLogIsRead ==
    ASSUME TypeOK, OneLog, NEW x \in Broker, NEW b \in Broker,
           NEW n \in 0 .. Len(log[x]), NEW h \in 0 .. LogEnd(log[b]),
           NEW page \in Pages(b, n, h)
    PROVE  LET printed == SubSeq(log[x], 1, n) \o page
           IN  IsPrefix(printed, log[x]) \/ IsPrefix(printed, log[b])
<1> DEFINE head == SubSeq(log[x], 1, n)
           printed == head \o page
<1>1. log[b] \in Seq(Record) /\ log[x] \in Seq(Record)
    BY DEF TypeOK
<1>2. LogEnd(log[b]) = Len(log[b]) /\ Positional(log[b])
    BY <1>1, PositionalEnd DEF OneLog
<1>3. n \in Nat /\ h \in 0 .. Len(log[b]) /\ Len(log[x]) \in Nat /\ Len(log[b]) \in Nat
    BY <1>1, <1>2
<1>4. /\ page \in Seq(Record)
      /\ Len(page) = IF n >= h THEN 0 ELSE h - n
      /\ \A k \in 1 .. Len(page) : page[k] = log[b][n + k]
    BY <1>1, <1>2, <1>3, PagesAreStretches
<1>5. head \in Seq(Record) /\ Len(head) = n /\ \A i \in 1 .. n : head[i] = log[x][i]
    BY <1>1, <1>3
<1> HIDE DEF head
<1>6. /\ printed \in Seq(Record) /\ Len(printed) = n + Len(page) /\ Len(page) \in Nat
      /\ \A i \in 1 .. n : printed[i] = log[x][i]
      /\ \A k \in 1 .. Len(page) : printed[n + k] = log[b][n + k]
      /\ \A i \in 1 .. n + Len(page) : i \in 1 .. n \/ \E k \in 1 .. Len(page) : i = n + k
  <2>1. printed \in Seq(Record) /\ Len(page) \in Nat /\ Joined(printed, head, page)
      BY <1>4, <1>5, Concatenated
  <2> HIDE DEF printed
  <2>2. /\ Len(printed) = n + Len(page)
        /\ \A i \in 1 .. n : printed[i] = log[x][i]
        /\ \A k \in 1 .. Len(page) : printed[n + k] = log[b][n + k]
      BY <1>4, <1>5, <2>1 DEF Joined
  <2>3. \A i \in 1 .. n + Len(page) : i \in 1 .. n \/ \E k \in 1 .. Len(page) : i = n + k
      BY <1>3, <2>1, TwoParts
  <2>4. QED
      BY <2>1, <2>2, <2>3
<1> HIDE DEF printed
<1>7. CASE n >= h
  <2>1. Len(page) = 0
      BY <1>4, <1>7
  <2>2. Len(printed) = n /\ \A i \in 1 .. Len(printed) : printed[i] = log[x][i]
      BY <1>3, <1>6, <2>1
  <2>3. IsPrefix(printed, log[x])
      BY <1>1, <1>3, <1>6, <2>2, AgreeingPrefix
  <2>4. QED
      BY <2>3 DEF printed, head
<1>8. CASE n < h
  <2>1. Len(printed) = h /\ h <= Len(log[b])
      BY <1>3, <1>4, <1>6, <1>8
  <2>2. ASSUME NEW i \in 1 .. Len(printed) PROVE printed[i] = log[b][i]
    <3>1. CASE i \in 1 .. n
      <4>1. i \in 1 .. Len(log[x]) /\ i <= Len(log[b])
          BY <1>3, <1>8, <2>1, <3>1
      <4>2. Agreeing(log[x], log[b])
          BY DEF OneLog
      <4>3. QED
          BY <1>6, <3>1, <4>1, <4>2 DEF Agreeing
    <3>2. ASSUME NEW k \in 1 .. Len(page), i = n + k PROVE printed[i] = log[b][i]
        BY <1>6, <3>2
    <3>3. QED
        BY <1>6, <3>1, <3>2
  <2>3. IsPrefix(printed, log[b])
      BY <1>1, <1>6, <2>1, <2>2, AgreeingPrefix
  <2>4. QED
      BY <2>3 DEF printed, head
<1>9. QED
    BY <1>3, <1>7, <1>8

-----------------------------------------------------------------------------
(* Copies *)

\* The requests of p whose client has hung up and that may still be appended.
LateOf(p) == {r \in late : r.rec = p}

\* The appends that p's attempts account for: one for each that failed, and one for
\* the attempt that was appended and is not known to have failed.
Owed(p) == attempts[p] + (IF pc[p] \in {"waiting", "done"} THEN 1 ELSE 0)

\* A copy, or a request that may become one, is owed to an attempt.
CopiesOwed ==
    \A b \in Broker, p \in Producer : Copies(b, p) + Cardinality(LateOf(p)) <= Owed(p)

CleanCopies == IsFiniteSet(late) /\ (clean => CopiesOwed)

\* Positions can be counted.
LEMMA PositionsCount ==
    ASSUME NEW n \in Nat, NEW I \in SUBSET (1 .. n)
    PROVE  IsFiniteSet(I) /\ Cardinality(I) \in Nat
<1>1. IsFiniteSet(1 .. n)
    BY FS_Interval
<1>2. IsFiniteSet(I)
    BY <1>1, FS_Subset
<1>3. QED
    BY <1>2, FS_CardinalityType

\* The requests and copies of a producer can be counted.
LEMMA CountTypes ==
    ASSUME TypeOK, IsFiniteSet(late)
    PROVE  /\ \A p \in Producer : /\ IsFiniteSet(LateOf(p)) /\ Cardinality(LateOf(p)) \in Nat
                                  /\ Owed(p) \in Nat /\ attempts[p] \in Nat
           /\ \A b \in Broker, p \in Producer : Copies(b, p) \in Nat
<1>1. ASSUME NEW p \in Producer
      PROVE  /\ IsFiniteSet(LateOf(p)) /\ Cardinality(LateOf(p)) \in Nat
             /\ Owed(p) \in Nat /\ attempts[p] \in Nat
  <2>1. IsFiniteSet(LateOf(p))
    <3>1. LateOf(p) \in SUBSET late
        BY DEF LateOf
    <3>2. QED
        BY <3>1, FS_Subset
  <2>2. Cardinality(LateOf(p)) \in Nat
      BY <2>1, FS_CardinalityType
  <2>3. Owed(p) \in Nat /\ attempts[p] \in Nat
    <3>1. attempts[p] \in 0 .. MaxAttempts /\ MaxAttempts \in Nat
        BY BoundAssumption DEF TypeOK
    <3>2. QED
        BY <3>1 DEF Owed
  <2>4. QED
      BY <2>1, <2>2, <2>3
<1>2. ASSUME NEW b \in Broker, NEW p \in Producer PROVE Copies(b, p) \in Nat
  <2>1. Len(log[b]) \in Nat
      BY DEF TypeOK
  <2>2. {i \in 1 .. Len(log[b]) : log[b][i].rec = p} \in SUBSET (1 .. Len(log[b]))
      OBVIOUS
  <2>3. QED
      BY <2>1, <2>2, PositionsCount DEF Copies
<1>3. QED
    BY <1>1, <1>2

\* One more request.
LEMMA LateAdded ==
    ASSUME TypeOK, IsFiniteSet(late), NEW r, late' \in {late, late \cup {r}}
    PROVE  /\ IsFiniteSet(late')
           /\ \A p \in Producer :
                Cardinality(LateOf(p)') <= Cardinality(LateOf(p)) + (IF r.rec = p THEN 1 ELSE 0)
<1>1. IsFiniteSet(late')
    BY FS_AddElement
<1>2. ASSUME NEW p \in Producer
      PROVE  Cardinality(LateOf(p)') <= Cardinality(LateOf(p)) + (IF r.rec = p THEN 1 ELSE 0)
  <2>1. IsFiniteSet(LateOf(p)) /\ Cardinality(LateOf(p)) \in Nat
      BY CountTypes
  <2>2. \/ LateOf(p)' = LateOf(p)
        \/ r.rec = p /\ r \notin LateOf(p) /\ LateOf(p)' = LateOf(p) \cup {r}
      BY DEF LateOf
  <2>3. ASSUME r \notin LateOf(p)
        PROVE  Cardinality(LateOf(p) \cup {r}) = Cardinality(LateOf(p)) + 1
      BY <2>1, <2>3, FS_AddElement
  <2>4. QED
      BY <2>1, <2>2, <2>3
<1>3. QED
    BY <1>1, <1>2

\* Requests that are handled, or lost in a crash, are gone.
LEMMA LateRemoved ==
    ASSUME TypeOK, IsFiniteSet(late), late' \subseteq late
    PROVE  /\ IsFiniteSet(late')
           /\ \A p \in Producer : Cardinality(LateOf(p)') <= Cardinality(LateOf(p))
<1>1. IsFiniteSet(late')
    BY FS_Subset
<1>2. ASSUME NEW p \in Producer PROVE Cardinality(LateOf(p)') <= Cardinality(LateOf(p))
  <2>1. IsFiniteSet(LateOf(p)) /\ LateOf(p)' \in SUBSET LateOf(p)
      BY CountTypes DEF LateOf
  <2>2. QED
      BY <2>1, FS_Subset
<1>3. QED
    BY <1>1, <1>2

\* A request that is appended adds one copy of its own record, on its leader.
LEMMA CopyAdded ==
    ASSUME TypeOK, NEW b \in Broker, NEW p \in Producer, AppendAt(b, p),
           NEW x \in Broker, NEW q \in Producer
    PROVE  Copies(x, q)' <= Copies(x, q) + (IF q = p THEN 1 ELSE 0)
<1> DEFINE n == Len(log[b])
           r == [offset |-> LogEnd(log[b]), rec |-> p]
           Mine == {i \in 1 .. Len(log[x]) : log[x][i].rec = q}
<1>1. log[b] \in Seq(Record) /\ log \in [Broker -> Seq(Record)] /\ n \in Nat
  <2>1. log \in [Broker -> Seq(Record)]
      BY DEF TypeOK
  <2>2. QED
      BY <2>1
<1>2. /\ <<r>> \in Seq(Record) /\ Len(<<r>>) = 1 /\ <<r>>[1] = r
      /\ log' = [log EXCEPT ![b] = @ \o <<r>>]
    BY Appended
<1>3. IsFiniteSet(Mine) /\ Cardinality(Mine) \in Nat /\ Cardinality(Mine) = Copies(x, q)
  <2>1. Len(log[x]) \in Nat
      BY <1>1
  <2>2. Mine \in SUBSET (1 .. Len(log[x])) /\ Cardinality(Mine) = Copies(x, q)
      BY DEF Copies
  <2> HIDE DEF Mine
  <2>3. QED
      BY <2>1, <2>2, PositionsCount
<1>4. CASE x # b
  <2>1. log'[x] = log[x]
      BY <1>1, <1>2, <1>4
  <2>2. Copies(x, q)' = Copies(x, q)
      BY <2>1 DEF Copies
  <2>3. QED
      BY <1>3, <2>2
<1>5. CASE x = b
  <2>1. /\ log'[x] = log[b] \o <<r>> /\ Len(log'[x]) = n + 1
        /\ \A i \in 1 .. n : log'[x][i] = log[x][i]
        /\ log'[x][n + 1] = r /\ r.rec = p
    <3>1. log'[x] = log[b] \o <<r>>
        BY <1>1, <1>2, <1>5
    <3>2. /\ Len(log[b] \o <<r>>) = n + 1
          /\ \A i \in 1 .. n : (log[b] \o <<r>>)[i] = log[b][i]
          /\ \A k \in 1 .. 1 : (log[b] \o <<r>>)[n + k] = <<r>>[k]
      <4>1. Joined(log[b] \o <<r>>, log[b], <<r>>)
          BY <1>1, <1>2, Concatenated
      <4>2. QED
          BY <1>2, <4>1 DEF Joined
    <3>3. 1 \in 1 .. 1
        OBVIOUS
    <3>4. QED
        BY <1>2, <1>5, <3>1, <3>2, <3>3
  <2>2. {i \in 1 .. Len(log'[x]) : log'[x][i].rec = q}
          = IF q = p THEN Mine \cup {n + 1} ELSE Mine
    <3>1. 1 .. n + 1 = (1 .. n) \cup {n + 1}
        BY <1>1
    <3>2. QED
        BY <1>5, <2>1, <3>1
  <2>3. Copies(x, q)' = Cardinality(IF q = p THEN Mine \cup {n + 1} ELSE Mine)
      BY <2>2 DEF Copies
  <2>4. n + 1 \notin Mine
      BY <1>1, <1>5
  <2> HIDE DEF Mine
  <2>5. Cardinality(Mine \cup {n + 1}) = Cardinality(Mine) + 1
      BY <1>3, <2>4, FS_AddElement
  <2>6. QED
      BY <1>3, <2>3, <2>5
<1>6. QED
    BY <1>4, <1>5

\* A step that writes nothing and owes no less than it adds requests.
LEMMA NothingCopied ==
    ASSUME TypeOK, TypeOK', CleanCopies, UNCHANGED <<log, clean>>, IsFiniteSet(late'),
           \A p \in Producer :
              Cardinality(LateOf(p)') + Owed(p) <= Cardinality(LateOf(p)) + Owed(p)'
    PROVE  CleanCopies'
<1>1. SUFFICES ASSUME clean', NEW b \in Broker, NEW p \in Producer
               PROVE  Copies(b, p)' + Cardinality(LateOf(p)') <= Owed(p)'
    BY DEF CleanCopies, CopiesOwed
<1>2. Copies(b, p)' = Copies(b, p)
    BY DEF Copies
<1>3. Copies(b, p) + Cardinality(LateOf(p)) <= Owed(p)
    BY <1>1 DEF CleanCopies, CopiesOwed
<1>4. IsFiniteSet(late)
    BY DEF CleanCopies
<1>5. Copies(b, p) \in Nat /\ Cardinality(LateOf(p)) \in Nat /\ Owed(p) \in Nat
    BY <1>4, CountTypes
<1>6. Cardinality(LateOf(p)') \in Nat /\ Owed(p)' \in Nat
  <2>1. IsFiniteSet(LateOf(p)') /\ Owed(p)' \in Nat
    <3>1. LateOf(p)' \in SUBSET late'
        BY DEF LateOf
    <3>2. IsFiniteSet(LateOf(p)')
        BY <3>1, FS_Subset
    <3>3. attempts'[p] \in 0 .. MaxAttempts /\ MaxAttempts \in Nat
        BY BoundAssumption DEF TypeOK
    <3>4. Owed(p)' \in Nat
        BY <3>3 DEF Owed
    <3>5. QED
        BY <3>2, <3>4
  <2>2. QED
      BY <2>1, FS_CardinalityType
<1>7. Cardinality(LateOf(p)') + Owed(p) <= Cardinality(LateOf(p)) + Owed(p)'
    OBVIOUS
<1>8. QED
    BY <1>2, <1>3, <1>5, <1>6, <1>7

\* An attempt that fails is owed for, unless it was appended: then it was before.
LEMMA FailureOwes ==
    ASSUME TypeOK, NEW P \in SUBSET Producer, AttemptsFail(P),
           \A p \in P : pc[p] \in {"ready", "checked", "waiting"}, NEW p \in Producer
    PROVE  Owed(p)' = Owed(p) + (IF p \in P /\ pc[p] # "waiting" THEN 1 ELSE 0)
<1>1. /\ pc'[p] = IF p \in P THEN "backoff" ELSE pc[p]
      /\ attempts'[p] = IF p \in P THEN attempts[p] + 1 ELSE attempts[p]
    BY DEF AttemptsFail
<1>2. attempts[p] \in Nat
    BY BoundAssumption DEF TypeOK
<1>3. p \in P => pc[p] # "done"
    OBVIOUS
<1>4. CASE p \in P
    BY <1>1, <1>2, <1>3, <1>4 DEF Owed
<1>5. CASE p \notin P
    BY <1>1, <1>2, <1>5 DEF Owed
<1>6. QED
    BY <1>4, <1>5

\* A follower whose batch arrives at the end it was asked for has no more copies than
\* its leader.
LEMMA BatchCopies ==
    ASSUME TypeOK, OneLog, NEW b \in Broker, NEW s \in Slot, AppendReplicated(b, s), clean',
           NEW x \in Broker, NEW p \in Producer
    PROVE  \E y \in Broker : Copies(x, p)' <= Copies(y, p)
<1> DEFINE f == fetcher[b][s]
           n == Len(log[b])
<1>1. f.pc = "got" /\ f.end = LogEnd(log[b]) /\ log' = [log EXCEPT ![b] = @ \o f.batch]
    BY DEF AppendReplicated
<1>2. /\ f.from \in Broker /\ f.batch \in Seq(Record)
      /\ n \in Nat /\ Len(f.batch) \in Nat
      /\ n + Len(f.batch) <= Len(log[f.from])
      /\ \A k \in 1 .. Len(f.batch) : f.batch[k] = log[f.from][n + k]
    BY <1>1, BatchFits
<1> HIDE DEF f
<1>3. log \in [Broker -> Seq(Record)]
    BY DEF TypeOK
<1>4. log[b] \in Seq(Record) /\ log[x] \in Seq(Record) /\ log[f.from] \in Seq(Record)
    BY <1>2, <1>3
<1>5. CASE x # b
  <2>1. Copies(x, p)' = Copies(x, p)
      BY <1>1, <1>3, <1>5 DEF Copies
  <2>2. Copies(x, p) \in Nat
    <3>1. Len(log[x]) \in Nat
        BY <1>4
    <3>2. {i \in 1 .. Len(log[x]) : log[x][i].rec = p} \in SUBSET (1 .. Len(log[x]))
        OBVIOUS
    <3>3. QED
        BY <3>1, <3>2, PositionsCount DEF Copies
  <2>3. QED
      BY <2>1, <2>2
<1>6. CASE x = b
  <2> DEFINE u == log[b] \o f.batch
             Mine == {i \in 1 .. Len(u) : u[i].rec = p}
             Theirs == {i \in 1 .. Len(log[f.from]) : log[f.from][i].rec = p}
  <2>1. Len(log[f.from]) \in Nat
      BY <1>4
  <2>2. /\ Len(u) = n + Len(f.batch)
        /\ \A i \in 1 .. n : u[i] = log[b][i]
        /\ \A k \in 1 .. Len(f.batch) : u[n + k] = f.batch[k]
        /\ \A i \in 1 .. n + Len(f.batch) :
             i \in 1 .. n \/ \E k \in 1 .. Len(f.batch) : i = n + k
    <3>1. Joined(u, log[b], f.batch)
        BY <1>2, <1>4, Concatenated
    <3> HIDE DEF u
    <3>2. QED
        BY <1>2, <3>1, TwoParts DEF Joined
  <2> HIDE DEF u, n
  <2>3. ASSUME NEW i \in 1 .. Len(u) PROVE i \in 1 .. Len(log[f.from]) /\ u[i] = log[f.from][i]
    <3>1. i \in 1 .. Len(log[f.from])
        BY <1>2, <2>1, <2>2
    <3>2. CASE i \in 1 .. n
      <4>1. Agreeing(log[b], log[f.from])
          BY <1>2 DEF OneLog
      <4>2. i \in 1 .. Len(log[b]) /\ i <= Len(log[f.from])
          BY <2>1, <3>1, <3>2 DEF n
      <4>3. QED
          BY <2>2, <3>1, <3>2, <4>1, <4>2 DEF Agreeing
    <3>3. ASSUME NEW k \in 1 .. Len(f.batch), i = n + k PROVE u[i] = log[f.from][i]
        BY <1>2, <2>2, <3>3
    <3>4. QED
        BY <2>2, <3>1, <3>2, <3>3
  <2>4. Mine \in SUBSET Theirs /\ Theirs \in SUBSET (1 .. Len(log[f.from]))
      BY <2>3
  <2>5. Copies(x, p)' = Cardinality(Mine)
      BY <1>1, <1>3, <1>6 DEF Copies, u
  <2>6. Copies(f.from, p) = Cardinality(Theirs)
      BY DEF Copies
  <2> HIDE DEF Mine, Theirs
  <2>7. IsFiniteSet(Theirs)
      BY <2>1, <2>4, PositionsCount
  <2>8. Cardinality(Mine) <= Cardinality(Theirs)
      BY <2>4, <2>7, FS_Subset
  <2>9. QED
      BY <1>2, <2>5, <2>6, <2>8
<1>7. QED
    BY <1>5, <1>6

\* Every copy on any replica is owed to an attempt.
LEMMA CopiesStep ==
    ASSUME HandoverTypes, HandoverTypes', CleanLogs, CleanCopies, [Next]_vars
    PROVE  CleanCopies'
<1> USE DEF tableVars, produceVars, boundVars, history
<1>0. /\ TypeOK /\ TypeOK' /\ IsFiniteSet(late)
      /\ \A p \in Producer : /\ Cardinality(LateOf(p)) \in Nat /\ Owed(p) \in Nat
                             /\ attempts[p] \in Nat
  <2>1. TypeOK /\ TypeOK' /\ IsFiniteSet(late)
      BY DEF HandoverTypes, CleanCopies
  <2>2. QED
      BY <2>1, CountTypes
<1>1. ASSUME UNCHANGED <<log, clean, late>>, \A p \in Producer : Owed(p) <= Owed(p)'
      PROVE  CleanCopies'
  <2>1. \A p \in Producer : LateOf(p)' = LateOf(p)
      BY <1>1 DEF LateOf
  <2>2. \A p \in Producer :
           Cardinality(LateOf(p)') + Owed(p) <= Cardinality(LateOf(p)) + Owed(p)'
    <3>1. \A p \in Producer : Owed(p)' \in Nat
      <4>1. \A p \in Producer : attempts'[p] \in 0 .. MaxAttempts /\ MaxAttempts \in Nat
          BY <1>0, BoundAssumption DEF TypeOK
      <4>2. QED
          BY <4>1 DEF Owed
    <3>2. QED
        BY <1>0, <1>1, <2>1, <3>1
  <2>3. QED
      BY <1>0, <1>1, <2>2, NothingCopied
<1>2. ASSUME UNCHANGED <<log, clean, late, pc, attempts>> PROVE CleanCopies'
  <2>1. \A p \in Producer : Owed(p)' = Owed(p)
      BY <1>2 DEF Owed
  <2>2. QED
      BY <1>0, <1>1, <1>2, <2>1
<1>3. ASSUME NEW b \in Broker,
             \/ Elect(b) \/ LeaderAndIsr(b) \/ Reconcile(b) \/ FinishReconcile(b)
             \/ Restart(b) \/ \E s \in Slot : FetchBatch(b, s)
      PROVE  CleanCopies'
  <2>1. UNCHANGED <<log, clean, late, pc, attempts>>
      BY <1>3 DEF Elect, LeaderAndIsr, Reconcile, FinishReconcile, Restart, FetchBatch
  <2>2. QED
      BY <1>2, <2>1
<1>4. ASSUME NEW b \in Broker, NEW s \in Slot, AppendReplicated(b, s) PROVE CleanCopies'
  <2>1. UNCHANGED <<late, pc, attempts>> /\ (clean' => clean)
      BY <1>4 DEF AppendReplicated
  <2>2. ASSUME clean', NEW x \in Broker, NEW p \in Producer
        PROVE  Copies(x, p)' + Cardinality(LateOf(p)') <= Owed(p)'
    <3>1. OneLog /\ CopiesOwed
        BY <2>1, <2>2 DEF CleanLogs, CleanCopies
    <3>2. PICK y \in Broker : Copies(x, p)' <= Copies(y, p)
        BY <1>0, <1>4, <2>2, <3>1, BatchCopies
    <3>3. Copies(y, p) + Cardinality(LateOf(p)) <= Owed(p)
        BY <3>1 DEF CopiesOwed
    <3>4. LateOf(p)' = LateOf(p) /\ Owed(p)' = Owed(p)
        BY <2>1 DEF LateOf, Owed
    <3>5. Copies(y, p) \in Nat /\ Copies(x, p)' \in Nat
      <4>1. Copies(y, p) \in Nat
          BY <1>0, CountTypes
      <4>2. Len(log'[x]) \in Nat
          BY <1>0 DEF TypeOK
      <4>3. {i \in 1 .. Len(log'[x]) : log'[x][i].rec = p} \in SUBSET (1 .. Len(log'[x]))
          OBVIOUS
      <4>4. Copies(x, p)' \in Nat
          BY <4>2, <4>3, PositionsCount DEF Copies
      <4>5. QED
          BY <4>1, <4>4
    <3>6. QED
        BY <1>0, <3>2, <3>3, <3>4, <3>5
  <2>3. QED
      BY <1>0, <2>1, <2>2 DEF CleanCopies, CopiesOwed
<1>5. ASSUME NEW p \in Producer,
             Locate(p) \/ CheckLeader(p) \/ Ack(p) \/ Retry(p)
      PROVE  CleanCopies'
  <2>1. UNCHANGED <<log, clean, late>>
      BY <1>5 DEF Locate, CheckLeader, Ack, Retry
  <2>2. ASSUME NEW q \in Producer PROVE Owed(q) <= Owed(q)'
    <3>1. /\ pc[q] \in {"waiting", "done"} => pc'[q] \in {"waiting", "done"}
          /\ attempts[q] <= attempts'[q] /\ attempts'[q] \in Nat
      <4>1. CASE Locate(p)
        <5>1. /\ pc[p] = "start" /\ attempts' = attempts
              /\ \E v : pc' = [pc EXCEPT ![p] = v]
            BY <4>1 DEF Locate
        <5>2. DOMAIN pc = Producer /\ attempts[q] \in Nat
            BY <1>0 DEF TypeOK
        <5>3. QED
            BY <5>1, <5>2
      <4>2. CASE CheckLeader(p)
        <5>1. /\ pc[p] = "ready"
              /\ \/ pc' = [pc EXCEPT ![p] = "checked"] /\ attempts' = attempts
                 \/ /\ attempts' = [attempts EXCEPT ![p] = @ + 1]
                    /\ pc' = [pc EXCEPT ![p] = After(attempts[p] + 1)]
            BY <4>2 DEF CheckLeader
        <5>2. /\ attempts \in [Producer -> 0 .. MaxAttempts] /\ DOMAIN pc = Producer
              /\ attempts[q] \in Nat
            BY <1>0 DEF TypeOK
        <5>3. QED
            BY <5>1, <5>2
      <4>3. CASE Ack(p)
          BY <1>0, <4>3 DEF Ack, TypeOK
      <4>4. CASE Retry(p)
        <5>1. /\ pc[p] = "backoff" /\ attempts' = attempts
              /\ \E v : pc' = [pc EXCEPT ![p] = v]
            BY <4>4 DEF Retry
        <5>2. DOMAIN pc = Producer /\ attempts[q] \in Nat
            BY <1>0 DEF TypeOK
        <5>3. QED
            BY <5>1, <5>2
      <4>5. QED
          BY <1>5, <4>1, <4>2, <4>3, <4>4
    <3>2. QED
        BY <1>0, <3>1 DEF Owed
  <2>3. QED
      BY <1>1, <2>1, <2>2
<1>6. ASSUME NEW p \in Producer, Refused(p) \/ TimedOut(p) PROVE CleanCopies'
  <2>1. UNCHANGED <<log, clean, late>>
      BY <1>6 DEF Refused, TimedOut
  <2>2. ASSUME NEW q \in Producer PROVE Owed(q) <= Owed(q)'
    <3>1. Owed(q)' = Owed(q) + (IF q \in {p} /\ pc[q] # "waiting" THEN 1 ELSE 0)
      <4>1. AttemptsFail({p}) /\ pc[p] \in {"ready", "checked", "waiting"}
          BY <1>6 DEF Refused, TimedOut
      <4>2. QED
          BY <1>0, <4>1, FailureOwes
    <3>2. QED
        BY <1>0, <3>1
  <2>3. QED
      BY <1>1, <2>1, <2>2
<1>7. ASSUME NEW p \in Producer, Fail(p) PROVE CleanCopies'
  <2>1. /\ AttemptsFail({p}) /\ pc[p] \in {"ready", "checked", "waiting"}
        /\ UNCHANGED <<log, clean>>
      BY <1>7 DEF Fail
  <2>2. \A q \in Producer :
           Owed(q)' = Owed(q) + (IF q \in {p} /\ pc[q] # "waiting" THEN 1 ELSE 0)
      BY <1>0, <2>1, FailureOwes
  <2>3. CASE pc[p] = "waiting"
    <3>1. late' = late
        BY <1>7, <2>3 DEF Fail
    <3>2. \A q \in Producer : Owed(q) <= Owed(q)'
        BY <1>0, <2>2
    <3>3. QED
        BY <1>1, <2>1, <3>1, <3>2
  <2>4. CASE pc[p] # "waiting"
    <3> DEFINE r == [rec |-> p, at |-> target[p], checked |-> pc[p] = "checked"]
    <3>1. late' = late \cup {r} /\ r.rec = p
        BY <1>7, <2>4 DEF Fail
    <3> HIDE DEF r
    <3>2. /\ IsFiniteSet(late')
          /\ \A q \in Producer :
               Cardinality(LateOf(q)') <= Cardinality(LateOf(q)) + (IF r.rec = q THEN 1 ELSE 0)
        BY <1>0, <3>1, LateAdded
    <3>3. \A q \in Producer : Cardinality(LateOf(q)') \in Nat
      <4>1. \A q \in Producer : LateOf(q)' \in SUBSET late'
          BY DEF LateOf
      <4>2. QED
          BY <3>2, <4>1, FS_Subset, FS_CardinalityType
    <3>4. \A q \in Producer :
             Cardinality(LateOf(q)') + Owed(q) <= Cardinality(LateOf(q)) + Owed(q)'
        BY <1>0, <2>2, <2>4, <3>1, <3>2, <3>3
    <3>5. QED
        BY <1>0, <2>1, <3>2, <3>4, NothingCopied
  <2>5. QED
      BY <2>3, <2>4
<1>8. ASSUME NEW b \in Broker, Crash(b) PROVE CleanCopies'
  <2> DEFINE P == {p \in Producer : target[p] = b /\ pc[p] \in {"checked", "waiting"}}
  <2>1. AttemptsFail(P) /\ late' \subseteq late /\ UNCHANGED <<log, clean>>
      BY <1>8 DEF Crash
  <2>2. \A q \in Producer :
           Owed(q)' = Owed(q) + (IF q \in P /\ pc[q] # "waiting" THEN 1 ELSE 0)
    <3>1. P \in SUBSET Producer /\ \A p \in P : pc[p] \in {"ready", "checked", "waiting"}
        OBVIOUS
    <3> HIDE DEF P
    <3>2. QED
        BY <1>0, <2>1, <3>1, FailureOwes
  <2> HIDE DEF P
  <2>3. /\ IsFiniteSet(late')
        /\ \A q \in Producer : Cardinality(LateOf(q)') <= Cardinality(LateOf(q))
      BY <1>0, <2>1, LateRemoved
  <2>4. \A q \in Producer : Cardinality(LateOf(q)') \in Nat
    <3>1. \A q \in Producer : LateOf(q)' \in SUBSET late'
        BY DEF LateOf
    <3>2. QED
        BY <2>3, <3>1, FS_Subset, FS_CardinalityType
  <2>5. \A q \in Producer :
           Cardinality(LateOf(q)') + Owed(q) <= Cardinality(LateOf(q)) + Owed(q)'
      BY <1>0, <2>2, <2>3, <2>4
  <2>6. QED
      BY <1>0, <2>1, <2>3, <2>5, NothingCopied
<1>9. ASSUME NEW b \in Broker, NEW p \in Producer, AppendAt(b, p),
             IsFiniteSet(late'),
             \A q \in Producer :
                Cardinality(LateOf(q)') + Owed(q) + (IF q = p THEN 1 ELSE 0)
                  <= Cardinality(LateOf(q)) + Owed(q)'
      PROVE  CleanCopies'
  <2>1. clean' => clean
      BY <1>9 DEF AppendAt
  <2>2. ASSUME clean', NEW x \in Broker, NEW q \in Producer
        PROVE  Copies(x, q)' + Cardinality(LateOf(q)') <= Owed(q)'
    <3>1. Copies(x, q) + Cardinality(LateOf(q)) <= Owed(q)
        BY <2>1, <2>2 DEF CleanCopies, CopiesOwed
    <3>2. Copies(x, q)' <= Copies(x, q) + (IF q = p THEN 1 ELSE 0)
        BY <1>0, <1>9, CopyAdded
    <3>3. Copies(x, q) \in Nat
        BY <1>0, CountTypes
    <3>4. Copies(x, q)' \in Nat
      <4>1. Len(log'[x]) \in Nat
          BY <1>0 DEF TypeOK
      <4>2. {i \in 1 .. Len(log'[x]) : log'[x][i].rec = q} \in SUBSET (1 .. Len(log'[x]))
          OBVIOUS
      <4>3. QED
          BY <4>1, <4>2, PositionsCount DEF Copies
    <3>5. Cardinality(LateOf(q)') \in Nat /\ Owed(q)' \in Nat
      <4>1. LateOf(q)' \in SUBSET late'
          BY DEF LateOf
      <4>2. Cardinality(LateOf(q)') \in Nat
          BY <1>9, <4>1, FS_Subset, FS_CardinalityType
      <4>3. attempts'[q] \in 0 .. MaxAttempts /\ MaxAttempts \in Nat
          BY <1>0, BoundAssumption DEF TypeOK
      <4>4. Owed(q)' \in Nat
          BY <4>3 DEF Owed
      <4>5. QED
          BY <4>2, <4>4
    <3>6. Cardinality(LateOf(q)') + Owed(q) + (IF q = p THEN 1 ELSE 0)
             <= Cardinality(LateOf(q)) + Owed(q)'
        BY <1>9
    <3>7. QED
        BY <1>0, <3>1, <3>2, <3>3, <3>4, <3>5, <3>6
  <2>3. QED
      BY <1>9, <2>2 DEF CleanCopies, CopiesOwed
<1>10. ASSUME NEW p \in Producer, Produce(p) PROVE CleanCopies'
  <2>1. /\ AppendAt(target[p], p) /\ target[p] \in Broker /\ pc[p] = "checked"
        /\ pc' = [pc EXCEPT ![p] = "waiting"] /\ UNCHANGED <<attempts, late>>
      BY <1>0, <1>10 DEF Produce, TypeOK
  <2>2. ASSUME NEW q \in Producer PROVE Owed(q)' = Owed(q) + (IF q = p THEN 1 ELSE 0)
    <3>1. pc'[q] = (IF q = p THEN "waiting" ELSE pc[q]) /\ attempts'[q] = attempts[q]
        BY <1>0, <2>1 DEF TypeOK
    <3>2. QED
        BY <1>0, <2>1, <3>1 DEF Owed
  <2>3. IsFiniteSet(late') /\ \A q \in Producer : LateOf(q)' = LateOf(q)
      BY <1>0, <2>1 DEF LateOf
  <2>4. \A q \in Producer :
           Cardinality(LateOf(q)') + Owed(q) + (IF q = p THEN 1 ELSE 0)
             <= Cardinality(LateOf(q)) + Owed(q)'
      BY <1>0, <2>2, <2>3
  <2>5. QED
      BY <1>9, <2>1, <2>3, <2>4
<1>11. ASSUME NEW r \in late, LateProduce(r) PROVE CleanCopies'
  <2>1. r.rec \in Producer /\ r.at \in Broker
      BY <1>0 DEF TypeOK
  <2>2. late' = late \ {r} /\ UNCHANGED <<pc, attempts>>
      BY <1>11 DEF LateProduce
  <2>3. IsFiniteSet(late') /\ \A q \in Producer : Owed(q)' = Owed(q)
      BY <1>0, <2>2, FS_RemoveElement DEF Owed
  <2>4. ASSUME NEW q \in Producer
        PROVE  Cardinality(LateOf(q)') = Cardinality(LateOf(q)) - (IF q = r.rec THEN 1 ELSE 0)
    <3>1. IsFiniteSet(LateOf(q))
        BY <1>0, CountTypes
    <3>2. LateOf(q)' = LateOf(q) \ {r} /\ (r \in LateOf(q) <=> q = r.rec)
        BY <1>11, <2>2 DEF LateOf
    <3>3. Cardinality(LateOf(q) \ {r}) = IF r \in LateOf(q) THEN Cardinality(LateOf(q)) - 1
                                         ELSE Cardinality(LateOf(q))
        BY <3>1, FS_RemoveElement
    <3>4. QED
        BY <1>0, <3>2, <3>3
  <2>5. CASE AppendAt(r.at, r.rec)
    <3>1. \A q \in Producer :
             Cardinality(LateOf(q)') + Owed(q) + (IF q = r.rec THEN 1 ELSE 0)
               <= Cardinality(LateOf(q)) + Owed(q)'
        BY <1>0, <2>3, <2>4
    <3>2. QED
        BY <1>9, <2>1, <2>3, <2>5, <3>1
  <2>6. CASE UNCHANGED <<log, clean>>
    <3>1. \A q \in Producer :
             Cardinality(LateOf(q)') + Owed(q) <= Cardinality(LateOf(q)) + Owed(q)'
        BY <1>0, <2>3, <2>4
    <3>2. QED
        BY <1>0, <2>3, <2>6, <3>1, NothingCopied
  <2>7. QED
      BY <1>11, <2>5, <2>6 DEF LateProduce
<1>12. CASE UNCHANGED vars
    BY <1>2, <1>12 DEF vars
<1>13. QED
    BY <1>3, <1>4, <1>5, <1>6, <1>7, <1>8, <1>10, <1>11, <1>12
    DEF Next, FetchStep, ProducerStep

\* Nothing is copied or sent yet.
LEMMA CopiesInit == Init => CleanCopies
<1> SUFFICES ASSUME Init PROVE CleanCopies
    OBVIOUS
<1>1. IsFiniteSet(late) /\ \A p \in Producer : LateOf(p) = {} /\ Owed(p) = 0
    BY FS_EmptySet DEF Init, LateOf, Owed
<1>2. \A b \in Broker, p \in Producer : Copies(b, p) = 0
  <2>1. ASSUME NEW b \in Broker, NEW p \in Producer PROVE Copies(b, p) = 0
    <3>1. {i \in 1 .. Len(log[b]) : log[b][i].rec = p} = {}
        BY DEF Init
    <3>2. QED
        BY <3>1, FS_EmptySet DEF Copies
  <2>2. QED
      BY <2>1
<1>3. QED
    BY <1>1, <1>2, FS_EmptySet DEF CleanCopies, CopiesOwed

-----------------------------------------------------------------------------
(* Theorems *)

\* The types, and an attempt left for every request under way.
LEMMA TypesHold == Spec => []HandoverTypes
<1>1. HandoverTypes /\ [Next]_vars => HandoverTypes'
    BY HandoverTypeStep
<1>2. QED
    BY <1>1, HandoverTypeInit, PTL DEF Spec

\* Appointments, tables, logs, fetchers and clients stay well formed, and no producer
\* makes more than kMaxProduceAttempts attempts.
THEOREM TypeCorrect == Spec => []TypeOK
<1>1. HandoverTypes => TypeOK
    BY DEF HandoverTypes
<1>2. QED
    BY <1>1, TypesHold, PTL

\* Until a batch is appended elsewhere than at the log end it was asked for, every log's
\* offsets are positions, whoever led, and also where a deposed leader went on.
THEOREM LogsStayNumbered == Spec => []LogsAreNumbered
<1>1. HandoverTypes /\ Numbered /\ [Next]_vars => Numbered'
    BY NumberedStep
<1>2. Numbered => LogsAreNumbered
    BY DEF Numbered, NumberedLogs, Positional, LogsAreNumbered
<1>3. QED
    BY <1>1, <1>2, NumberedInit, TypesHold, PTL DEF Spec

\* The logs are one for as long as the run is clean.
LEMMA CleanLogsHold == Spec => []CleanLogs
<1>1. HandoverTypes /\ CleanLogs /\ [Next]_vars => CleanLogs'
    BY OneLogStep
<1>2. QED
    BY <1>1, OneLogInit, TypesHold, PTL DEF Spec

\* Logs diverge only by a record that a replica without the longest log appended or by a
\* batch that was asked for before somebody else appended.
THEOREM LogsDivergeOnlyUnclean == Spec => []LogsAgree
<1>1. HandoverTypes /\ CleanLogs => LogsAgree
    BY OneLogAgrees DEF HandoverTypes, CleanLogs, LogsAgree
<1>2. QED
    BY <1>1, CleanLogsHold, TypesHold, PTL

\* A reader that is redirected between any two replicas reads one log, at any watermark.
THEOREM RedirectedReaderSeesOneLog == Spec => []ReaderSeesOneLog
<1>1. HandoverTypes /\ CleanLogs => ReaderSeesOneLog
  <2> SUFFICES ASSUME TypeOK, CleanLogs, clean, NEW x \in Broker, NEW b \in Broker,
                      NEW n \in 0 .. Len(log[x]), NEW h \in 0 .. LogEnd(log[b]),
                      NEW page \in Pages(b, n, h)
               PROVE  LET printed == SubSeq(log[x], 1, n) \o page
                      IN  IsPrefix(printed, log[x]) \/ IsPrefix(printed, log[b])
      BY DEF ReaderSeesOneLog, HandoverTypes
  <2>1. OneLog
      BY DEF CleanLogs
  <2>2. QED
      BY <2>1, OneLogIsRead
<1>2. QED
    BY <1>1, CleanLogsHold, TypesHold, PTL

\* In a clean run a record has no more copies, on any replica, than its producer's failed
\* attempts and one.
THEOREM AttemptsBoundCopies == Spec => []RetriesBoundCopies
<1>1. HandoverTypes /\ HandoverTypes' /\ CleanLogs /\ CleanCopies /\ [Next]_vars => CleanCopies'
    BY CopiesStep
<1>2. HandoverTypes /\ CleanCopies => RetriesBoundCopies
  <2> SUFFICES ASSUME TypeOK, CleanCopies, clean, NEW b \in Broker, NEW p \in Producer
               PROVE  Copies(b, p) <= 1 + attempts[p]
      BY DEF RetriesBoundCopies, HandoverTypes
  <2>1. Copies(b, p) + Cardinality(LateOf(p)) <= Owed(p) /\ IsFiniteSet(late)
      BY DEF CleanCopies, CopiesOwed
  <2>2. Cardinality(LateOf(p)) \in Nat /\ Copies(b, p) \in Nat /\ attempts[p] \in Nat
      BY <2>1, CountTypes
  <2>3. QED
      BY <2>1, <2>2 DEF Owed
<1>3. QED
    BY <1>1, <1>2, CopiesInit, CleanLogsHold, TypesHold, PTL DEF Spec
=============================================================================
