------------------------ MODULE LeaderReplication_proof ------------------------
(***************************************************************************)
(* Proofs about LeaderReplication for any finite number of followers, any  *)
(* number of producers and every value of the lag and of the bounds.       *)
(***************************************************************************)
EXTENDS LeaderReplication, SequenceTheorems, TLAPS

\* The inductive invariant.
Inv == TypeOK /\ BatchIsCurrent /\ FollowerIsPrefix /\ ProgressIsReal /\ HwmIsRecorded

\* What one thread writes when it recomputes or finds the partition not registered:
\* the watermark is bounded by the log and, after a recompute, by the new ISR's progress.
Recomputed(prog) ==
    /\ hwm' \in Nat
    /\ tenure' \in {"no", "assumed", "computed"}
    /\ isr' \subseteq Replica
    /\ report' \in [Thread -> SUBSET Replica]
    /\ \/ /\ progress' = prog
          /\ recent' \in [Follower -> BOOLEAN]
          /\ hwm' <= Len(log)
          /\ \A f \in isr' \cap Follower : hwm' <= progress'[f]
       \/ tenure = "no" /\ UNCHANGED <<hwm, isrVars, report>>

\* recompute's ISR holds followers that have fetched, and the watermark is a minimum.
LEMMA RecomputeStep ==
    ASSUME TypeOK, NEW t \in Thread,
           NEW prog \in [Follower -> Nat \cup {NeverFetched}],
           NEW rec \in [Follower -> BOOLEAN],
           Recompute(t, prog, rec)
    PROVE  /\ hwm' \in Nat
           /\ hwm' <= Len(log)
           /\ tenure' = "computed"
           /\ isr' \subseteq Replica
           /\ report' \in [Thread -> SUBSET Replica]
           /\ \A f \in isr' \cap Follower : hwm' <= prog[f]
<1>1. PICK leo \in LeoRead(t, prog) :
          LET new == NewIsr(leo, prog, rec)
          IN /\ \E h \in Ends(leo, new, prog) :
                   (\A e \in Ends(leo, new, prog) : h <= e) /\ hwm' = h
             /\ isr' = new
             /\ report' = IF new # isr THEN [report EXCEPT ![t] = new] ELSE report
             /\ tenure' = "computed"
    BY DEF Recompute
<1> DEFINE new == NewIsr(leo, prog, rec)
<1>2. Len(log) \in Nat /\ leo \in Nat /\ leo <= Len(log)
    BY LenProperties DEF LeoRead, TypeOK
<1>3. new \subseteq Replica /\ \A f \in new \ {Leader} : f \in Follower /\ prog[f] \in Nat
    BY DEF NewIsr, InSync, Replica
<1>4. \A f \in new \cap Follower : f # Leader
    BY ReplicaAssumption
<1>5. PICK h \in Ends(leo, new, prog) :
          (\A e \in Ends(leo, new, prog) : h <= e) /\ hwm' = h
    BY <1>1
<1>6. leo \in Ends(leo, new, prog) /\ \A f \in new \cap Follower : prog[f] \in Ends(leo, new, prog)
    BY <1>4 DEF Ends
<1>7. h \in Nat
    BY <1>2, <1>3 DEF Ends
<1>8. report' \in [Thread -> SUBSET Replica]
    BY <1>1, <1>3 DEF TypeOK
<1>9. isr' = new /\ tenure' = "computed"
    BY <1>1
<1> HIDE DEF new
<1>10. hwm' \in Nat /\ hwm' <= Len(log)
    BY <1>2, <1>5, <1>6, <1>7
<1>11. \A f \in isr' \cap Follower : hwm' <= prog[f]
    BY <1>5, <1>6, <1>9
<1>12. QED
    BY <1>3, <1>8, <1>9, <1>10, <1>11

\* A thread that recomputes, if the partition is registered, leaves a bounded watermark.
LEMMA RecomputeIfLeadingStep ==
    ASSUME TypeOK, NEW t \in Thread,
           NEW prog \in [Follower -> Nat \cup {NeverFetched}],
           NEW rec \in [Follower -> BOOLEAN],
           RecomputeIfLeading(t, prog, rec)
    PROVE  Recomputed(prog)
<1>1. CASE tenure # "no" /\ Recompute(t, prog, rec) /\ progress' = prog /\ recent' = rec
    BY <1>1, RecomputeStep DEF Recomputed
<1>2. CASE tenure = "no" /\ UNCHANGED <<hwm, isrVars, report>>
    BY <1>2 DEF Recomputed, isrVars, TypeOK
<1>3. QED
    BY <1>1, <1>2 DEF RecomputeIfLeading

\* append_replicated of a response leaves the follower with the leader's first k records.
LEMMA AppendedIsPrefix ==
    ASSUME TypeOK, FollowerIsPrefix, NEW f \in Follower, NEW k \in Nat,
           FetchOffset(f) <= k, k <= Len(log)
    PROVE  /\ Appended(f, k) \in Seq(Producer)
           /\ Len(Appended(f, k)) = k
           /\ \A i \in 1..k : Appended(f, k)[i] = log[i]
<1>1. PICK r \in Seq(Producer) : r = replicaLog[f]
    BY DEF TypeOK
<1>2. PICK n \in Nat : n = Len(r)
    OBVIOUS
<1>3. PICK s : s = SubSeq(log, n + 1, k)
    OBVIOUS
<1>4. log \in Seq(Producer) /\ n <= k /\ Appended(f, k) = r \o s
    BY <1>1, <1>2, <1>3 DEF Appended, FetchOffset, TypeOK
<1>5. n + 1 \in Nat /\ 1 <= n + 1 /\ n + 1 <= k + 1
    BY <1>4
<1>6. s \in Seq(Producer) /\ Len(s) = k - n
    BY <1>3, <1>4, <1>5
<1>7. \A i \in 1 .. k - n : s[i] = log[n + i]
    BY <1>3, <1>4, <1>5
<1>8. r \o s \in Seq(Producer) /\ Len(r \o s) = k
    BY <1>2, <1>6
<1>9. \A i \in 1..k : (r \o s)[i] = IF i <= n THEN r[i] ELSE s[i - n]
    BY <1>2, <1>6
<1>10. \A i \in 1..n : r[i] = log[i]
    BY <1>1, <1>2 DEF FollowerIsPrefix
<1>11. ASSUME NEW i \in 1..k PROVE (r \o s)[i] = log[i]
  <2>1. CASE i <= n
    <3>1. i \in 1..n
        BY <2>1
    <3>2. (r \o s)[i] = r[i]
        BY <1>9, <2>1
    <3>3. r[i] = log[i]
        BY <1>10, <3>1
    <3>4. QED
        BY <3>2, <3>3
  <2>2. CASE ~(i <= n)
    <3>1. i - n \in 1 .. k - n /\ n + (i - n) = i
        BY <2>2
    <3>2. s[i - n] = log[i]
        BY <1>7, <3>1
    <3>3. QED
        BY <1>9, <2>2, <3>2
  <2>3. QED
      BY <2>1, <2>2
<1>12. QED
    BY <1>4, <1>8, <1>11

-----------------------------------------------------------------------------
\* A follower's log that grows to the leader's first k records keeps every fact about
\* the follower.
LEMMA GrowStep ==
    ASSUME Inv, NEW f \in Follower, NEW k \in Nat, FetchOffset(f) <= k, k <= Len(log),
           replicaLog' = [replicaLog EXCEPT ![f] = Appended(f, k)],
           UNCHANGED <<log, hwm, tenure, isr, progress, pc, batch>>,
           fetchPc' \in [Follower -> {"idle", "sent", "read", "replying", "down"}],
           fetchPc'[f] \notin {"read", "replying"},
           \A g \in Follower : g # f => fetchPc'[g] = fetchPc[g],
           \A g \in Follower : \A o \in late'[g] : o \in late[g] \/ o = Len(replicaLog[g])
    PROVE  /\ replicaLog' \in [Follower -> Seq(Producer)]
           /\ BatchIsCurrent' /\ FollowerIsPrefix' /\ ProgressIsReal' /\ HwmIsRecorded'
<1> USE DEF Inv
<1>1. /\ Appended(f, k) \in Seq(Producer)
      /\ Len(Appended(f, k)) = k
      /\ \A i \in 1..k : Appended(f, k)[i] = log[i]
    BY AppendedIsPrefix
<1>2. replicaLog'[f] = Appended(f, k) /\ \A g \in Follower : g # f => replicaLog'[g] = replicaLog[g]
    BY DEF TypeOK
<1>3. replicaLog' \in [Follower -> Seq(Producer)]
    BY <1>1 DEF TypeOK
<1>4. \A g \in Follower : Len(replicaLog[g]) \in Nat /\ Len(replicaLog'[g]) \in Nat
    BY <1>3, LenProperties DEF TypeOK
<1>5. BatchIsCurrent'
    BY <1>2 DEF BatchIsCurrent
<1>6. FollowerIsPrefix'
  <2>1. ASSUME NEW g \in Follower
        PROVE  /\ Len(replicaLog'[g]) <= Len(log)
               /\ \A i \in 1..Len(replicaLog'[g]) : replicaLog'[g][i] = log[i]
    <3>1. CASE g = f
        BY <1>1, <1>2, <3>1
    <3>2. CASE g # f
        BY <1>2, <3>2 DEF FollowerIsPrefix
    <3>3. QED
        BY <3>1, <3>2
  <2>2. QED
      BY <2>1 DEF FollowerIsPrefix
<1>7. ProgressIsReal'
  <2>1. \A g \in Follower : Len(replicaLog[g]) <= Len(replicaLog'[g])
      BY <1>1, <1>2, <1>4 DEF FetchOffset
  <2>2. \A g \in Follower : progress[g] \in Int /\ \A o \in late[g] : o \in Nat
      BY DEF TypeOK, NeverFetched
  <2>3. ASSUME NEW g \in Follower, NEW o \in late'[g]
        PROVE  o <= Len(replicaLog'[g])
    <3>1. CASE o \in late[g]
        BY <1>4, <2>1, <2>2, <3>1 DEF ProgressIsReal
    <3>2. CASE o = Len(replicaLog[g])
        BY <2>1, <3>2
    <3>3. QED
        BY <2>3, <3>1, <3>2
  <2>4. \A g \in Follower : progress[g] <= Len(replicaLog'[g])
      BY <1>4, <2>1, <2>2 DEF ProgressIsReal
  <2>5. QED
      BY <2>3, <2>4 DEF ProgressIsReal
<1>8. HwmIsRecorded'
    BY DEF HwmIsRecorded, AppendWindow
<1>9. QED
    BY <1>3, <1>5, <1>6, <1>7, <1>8

\* A thread that recomputes, or finds the partition not registered, with a progress that
\* the followers have reached and records still to be handled that they have reached.
LEMMA RecomputedStep ==
    ASSUME Inv, NEW prog \in [Follower -> Nat \cup {NeverFetched}], Recomputed(prog),
           \A f \in Follower : prog[f] <= Len(replicaLog[f]),
           \A f \in Follower : late'[f] \subseteq late[f],
           UNCHANGED <<log, replicaLog>>,
           tenure = "no" => UNCHANGED tenure
    PROVE  ProgressIsReal' /\ HwmIsRecorded' /\ recent' \in [Follower -> BOOLEAN]
           /\ progress' \in [Follower -> Nat \cup {NeverFetched}]
<1>1. CASE /\ progress' = prog
           /\ recent' \in [Follower -> BOOLEAN]
           /\ hwm' <= Len(log)
           /\ \A f \in isr' \cap Follower : hwm' <= progress'[f]
    BY <1>1 DEF Inv, ProgressIsReal, HwmIsRecorded
<1>2. CASE tenure = "no" /\ UNCHANGED <<hwm, isrVars, report>>
    BY <1>2 DEF Inv, isrVars, ProgressIsReal, HwmIsRecorded, TypeOK
<1>3. QED
    BY <1>1, <1>2 DEF Recomputed

\* Every step of a thread, a follower, the sweep or the controller keeps the invariant.
LEMMA InvStep ==
    ASSUME Inv, [Next]_vars
    PROVE  Inv'
<1> USE DEF Inv
<1>1. CASE Promote
  <2>1. /\ hwm' = Len(log) /\ tenure' = "assumed" /\ isr' = Replica
        /\ UNCHANGED <<log, progress, recent, pc, base, missing, late, report, replicaLog, fetchPc,
                       batch, ctrlIsr, faults, drops>>
      BY <1>1 DEF Promote, produceVars, fetchVars
  <2>2. Len(log) \in Nat
      BY LenProperties DEF TypeOK
  <2>3. TypeOK'
      BY <2>1, <2>2 DEF TypeOK
  <2>4. BatchIsCurrent' /\ FollowerIsPrefix' /\ ProgressIsReal'
      BY <2>1 DEF BatchIsCurrent, FollowerIsPrefix, ProgressIsReal
  <2>5. HwmIsRecorded'
      BY <2>1, <2>2 DEF HwmIsRecorded
  <2>6. QED
      BY <2>3, <2>4, <2>5
<1>2. ASSUME NEW p \in Producer, Produce(p) PROVE Inv'
  <2>1. /\ log' \in Seq(Producer)
        /\ Len(log) \in Nat
        /\ Len(log') = Len(log) + 1
        /\ \A i \in 1..Len(log) : log'[i] = log[i]
      BY <1>2, AppendProperties, LenProperties DEF Produce, TypeOK
  <2>2. UNCHANGED <<tenure, isr, progress, recent, missing, late, report, replicaLog,
                    fetchPc, batch, ctrlIsr, faults, drops>>
      BY <1>2 DEF Produce, isrVars, fetchVars
  <2>3. /\ hwm' = Len(log) + 1
        /\ pc' = [pc EXCEPT ![p] = "appended"]
        /\ base' = [base EXCEPT ![p] = Len(log)]
      BY <1>2 DEF Produce
  <2>4. TypeOK'
      BY <2>1, <2>2, <2>3 DEF TypeOK
  <2>5. \A f \in Follower : Len(replicaLog[f]) \in Nat /\ batch[f] \in Nat
      BY LenProperties DEF TypeOK
  <2>6. BatchIsCurrent' /\ ProgressIsReal'
      BY <2>1, <2>2, <2>5 DEF BatchIsCurrent, ProgressIsReal
  <2>7. FollowerIsPrefix'
    <3>1. ASSUME NEW f \in Follower
          PROVE  /\ Len(replicaLog[f]) <= Len(log')
                 /\ \A i \in 1..Len(replicaLog[f]) : replicaLog[f][i] = log'[i]
      <4>1. Len(replicaLog[f]) <= Len(log)
          BY DEF FollowerIsPrefix
      <4>2. ASSUME NEW i \in 1..Len(replicaLog[f]) PROVE replicaLog[f][i] = log'[i]
        <5>1. i \in 1..Len(log)
            BY <2>1, <2>5, <4>1, <4>2
        <5>2. QED
            BY <2>1, <4>2, <5>1 DEF FollowerIsPrefix
      <4>3. QED
          BY <2>1, <2>5, <4>1, <4>2
    <3>2. QED
        BY <2>2, <3>1 DEF FollowerIsPrefix
  <2>8. HwmIsRecorded'
    <3>1. AppendWindow'
        BY <2>3 DEF AppendWindow, TypeOK
    <3>2. QED
        BY <2>1, <2>3, <3>1 DEF HwmIsRecorded
  <2>9. QED
      BY <2>4, <2>6, <2>7, <2>8
<1>3. ASSUME NEW p \in Producer, OnLeaderAppend(p) PROVE Inv'
  <2>1. p \in Thread
      BY DEF Thread
  <2>2. UNCHANGED <<log, base, missing, late, replicaLog, fetchPc, batch, ctrlIsr, faults, drops>>
      BY <1>3 DEF OnLeaderAppend, fetchVars
  <2>3. Recomputed(progress)
      BY <1>3, <2>1, RecomputeIfLeadingStep DEF OnLeaderAppend, TypeOK
  <2>4. tenure = "no" => UNCHANGED tenure
      BY <1>3 DEF OnLeaderAppend, RecomputeIfLeading, isrVars
  <2>5. /\ ProgressIsReal' /\ HwmIsRecorded' /\ recent' \in [Follower -> BOOLEAN]
        /\ progress' \in [Follower -> Nat \cup {NeverFetched}]
      BY <2>2, <2>3, <2>4, RecomputedStep DEF ProgressIsReal, TypeOK
  <2>6. pc' \in [Producer -> {"idle", "appended", "waiting", "acked", "timedOut"}]
      BY <1>3 DEF OnLeaderAppend, TypeOK
  <2>7. TypeOK'
      BY <2>2, <2>3, <2>5, <2>6 DEF TypeOK, Recomputed
  <2>8. QED
      BY <2>2, <2>5, <2>7 DEF BatchIsCurrent, FollowerIsPrefix
<1>4. ASSUME NEW p \in Producer, Ack(p) \/ Timeout(p) PROVE Inv'
  <2>1. UNCHANGED <<log, hwm, tenure, isr, progress, recent, base, late, report, replicaLog,
                    fetchPc, batch, ctrlIsr, faults, drops>>
      BY <1>4 DEF Ack, Timeout, partitionVars, isrVars, fetchVars
  <2>2. /\ pc' \in [Producer -> {"idle", "appended", "waiting", "acked", "timedOut"}]
        /\ AppendWindow' <=> AppendWindow
      BY <1>4 DEF Ack, Timeout, TypeOK, AppendWindow
  <2>3. missing' \in [Producer -> SUBSET Follower]
    <3>1. missing \in [Producer -> SUBSET Follower]
        BY DEF TypeOK
    <3>2. missing' = missing \/ \E m \in SUBSET Follower : missing' = [missing EXCEPT ![p] = m]
        BY <1>4 DEF Ack, Timeout, Lacking
    <3>3. QED
        BY <3>1, <3>2
  <2>4. QED
      BY <2>1, <2>2, <2>3
      DEF TypeOK, BatchIsCurrent, FollowerIsPrefix, ProgressIsReal, HwmIsRecorded
<1>5. CASE Sweep
  <2>1. Leader \in Thread
      BY DEF Thread, Replica
  <2>2. UNCHANGED <<log, progress, recent, pc, base, missing, late, replicaLog, fetchPc, batch,
                    ctrlIsr, faults, drops>>
      BY <1>5 DEF Sweep, fetchVars, produceVars
  <2>3. /\ hwm' \in Nat
        /\ hwm' <= Len(log)
        /\ tenure' = "computed"
        /\ isr' \subseteq Replica
        /\ report' \in [Thread -> SUBSET Replica]
        /\ \A f \in isr' \cap Follower : hwm' <= progress[f]
      BY <1>5, <2>1, RecomputeStep DEF Sweep, TypeOK
  <2>4. QED
      BY <2>2, <2>3
      DEF TypeOK, BatchIsCurrent, FollowerIsPrefix, ProgressIsReal, HwmIsRecorded
<1>6. ASSUME NEW f \in Follower, OnReplicaFetch(f) PROVE Inv'
  <2> DEFINE prog == [progress EXCEPT ![f] = ProgressAfter(f)]
             rec == [recent EXCEPT ![f] = TRUE]
  <2>1. f \in Thread
      BY DEF Thread, Replica
  <2>2. UNCHANGED <<log, pc, base, missing, late, replicaLog, batch, ctrlIsr, faults, drops>>
      BY <1>6 DEF OnReplicaFetch, produceVars
  <2>3. Len(replicaLog[f]) \in Nat
      BY LenProperties DEF TypeOK
  <2>4. /\ prog \in [Follower -> Nat \cup {NeverFetched}]
        /\ rec \in [Follower -> BOOLEAN]
        /\ \A g \in Follower : prog[g] <= Len(replicaLog[g])
      BY <2>3 DEF TypeOK, ProgressAfter, FetchOffset, ProgressIsReal
  <2>5. RecomputeIfLeading(f, prog, rec)
      BY <1>6 DEF OnReplicaFetch
  <2> HIDE DEF prog, rec
  <2>6. Recomputed(prog)
      BY <2>1, <2>4, <2>5, RecomputeIfLeadingStep
  <2>7. tenure = "no" => UNCHANGED tenure
      BY <2>5 DEF RecomputeIfLeading, isrVars
  <2>8. /\ ProgressIsReal' /\ HwmIsRecorded' /\ recent' \in [Follower -> BOOLEAN]
        /\ progress' \in [Follower -> Nat \cup {NeverFetched}]
      BY <2>2, <2>4, <2>6, <2>7, RecomputedStep
  <2>9. fetchPc' = [fetchPc EXCEPT ![f] = "replying"] /\ fetchPc[f] = "read"
      BY <1>6 DEF OnReplicaFetch
  <2>10. TypeOK'
      BY <2>2, <2>6, <2>8, <2>9 DEF TypeOK, Recomputed
  <2>11. BatchIsCurrent'
      BY <2>2, <2>9 DEF BatchIsCurrent, TypeOK
  <2>12. QED
      BY <2>2, <2>8, <2>10, <2>11 DEF FollowerIsPrefix
<1>7. ASSUME NEW f \in Follower, NEW o \in late[f], LateFetch(f, o) PROVE Inv'
  <2> DEFINE prog == [progress EXCEPT ![f] = o]
             rec == [recent EXCEPT ![f] = TRUE]
  <2>1. f \in Thread
      BY DEF Thread, Replica
  <2>2. UNCHANGED <<log, pc, base, missing, replicaLog, fetchPc, batch, ctrlIsr, faults, drops>>
      BY <1>7 DEF LateFetch, produceVars, fetchVars
  <2>3. late' = [late EXCEPT ![f] = @ \ {o}] /\ late' \in [Follower -> SUBSET Nat]
      BY <1>7 DEF LateFetch, TypeOK
  <2>4. /\ prog \in [Follower -> Nat \cup {NeverFetched}]
        /\ rec \in [Follower -> BOOLEAN]
        /\ \A g \in Follower : prog[g] <= Len(replicaLog[g])
      BY <1>7 DEF TypeOK, ProgressIsReal
  <2>5. RecomputeIfLeading(f, prog, rec)
      BY <1>7 DEF LateFetch
  <2> HIDE DEF prog, rec
  <2>6. Recomputed(prog)
      BY <2>1, <2>4, <2>5, RecomputeIfLeadingStep
  <2>7. tenure = "no" => UNCHANGED tenure
      BY <2>5 DEF RecomputeIfLeading, isrVars
  <2>8. \A g \in Follower : late'[g] \subseteq late[g]
      BY <2>3 DEF TypeOK
  <2>9. /\ ProgressIsReal' /\ HwmIsRecorded' /\ recent' \in [Follower -> BOOLEAN]
        /\ progress' \in [Follower -> Nat \cup {NeverFetched}]
      BY <2>2, <2>4, <2>6, <2>7, <2>8, RecomputedStep
  <2>10. TypeOK'
      BY <2>2, <2>3, <2>6, <2>9 DEF TypeOK, Recomputed
  <2>11. QED
      BY <2>2, <2>9, <2>10 DEF FollowerIsPrefix, BatchIsCurrent
<1>8. ASSUME NEW f \in Follower, FetchSend(f) \/ FollowerRestart(f) PROVE Inv'
  <2>1. UNCHANGED <<log, hwm, tenure, isr, progress, recent, pc, base, missing, late, report,
                    replicaLog, batch, ctrlIsr, faults, drops>>
      BY <1>8 DEF FetchSend, FollowerRestart, partitionVars, isrVars, produceVars
  <2>2. fetchPc' = [fetchPc EXCEPT ![f] = "sent"] \/ fetchPc' = [fetchPc EXCEPT ![f] = "idle"]
      BY <1>8 DEF FetchSend, FollowerRestart
  <2>3. TypeOK' /\ BatchIsCurrent'
      BY <2>1, <2>2 DEF TypeOK, BatchIsCurrent
  <2>4. QED
      BY <2>1, <2>3 DEF FollowerIsPrefix, ProgressIsReal, HwmIsRecorded, AppendWindow
<1>9. ASSUME NEW f \in Follower, FetchRead(f) PROVE Inv'
  <2>1. UNCHANGED <<log, hwm, tenure, isr, progress, recent, pc, base, missing, late, report,
                    replicaLog, ctrlIsr, faults, drops>>
      BY <1>9 DEF FetchRead, partitionVars, isrVars, produceVars
  <2>2. PICK k \in FetchOffset(f)..Len(log) : batch' = [batch EXCEPT ![f] = k]
      BY <1>9 DEF FetchRead
  <2>3. fetchPc' = [fetchPc EXCEPT ![f] = "read"]
      BY <1>9 DEF FetchRead
  <2>4. Len(log) \in Nat /\ FetchOffset(f) \in Nat /\ FetchOffset(f) = Len(replicaLog[f])
      BY LenProperties DEF TypeOK, FetchOffset
  <2>5. k \in Nat /\ Len(replicaLog[f]) <= k /\ k <= Len(log)
      BY <2>2, <2>4
  <2>6. TypeOK' /\ BatchIsCurrent'
      BY <2>1, <2>2, <2>3, <2>5 DEF TypeOK, BatchIsCurrent
  <2>7. QED
      BY <2>1, <2>6 DEF FollowerIsPrefix, ProgressIsReal, HwmIsRecorded, AppendWindow
<1>10. ASSUME NEW f \in Follower, FetchReply(f) PROVE Inv'
  <2>1. UNCHANGED <<log, hwm, tenure, isr, progress, recent, pc, base, missing, late, report,
                    batch, ctrlIsr, faults, drops>>
      BY <1>10 DEF FetchReply, partitionVars, isrVars, produceVars
  <2>2. /\ fetchPc[f] = "replying"
        /\ fetchPc' = [fetchPc EXCEPT ![f] = "idle"]
        /\ replicaLog' = [replicaLog EXCEPT ![f] = Appended(f, batch[f])]
      BY <1>10 DEF FetchReply
  <2>3. batch[f] \in Nat /\ FetchOffset(f) <= batch[f] /\ batch[f] <= Len(log)
      BY <2>2 DEF BatchIsCurrent, FetchOffset, TypeOK
  <2>4. /\ fetchPc' \in [Follower -> {"idle", "sent", "read", "replying", "down"}]
        /\ fetchPc'[f] = "idle"
        /\ \A g \in Follower : g # f => fetchPc'[g] = fetchPc[g]
      BY <2>2 DEF TypeOK
  <2>5. /\ replicaLog' \in [Follower -> Seq(Producer)]
        /\ BatchIsCurrent' /\ FollowerIsPrefix' /\ ProgressIsReal' /\ HwmIsRecorded'
      BY <2>1, <2>2, <2>3, <2>4, GrowStep
  <2>6. QED
      BY <2>1, <2>4, <2>5 DEF TypeOK
<1>11. ASSUME NEW f \in Follower, FetchFails(f) \/ FollowerCrash(f) PROVE Inv'
  <2>1. UNCHANGED <<log, hwm, tenure, isr, progress, recent, pc, base, missing, report, batch,
                    ctrlIsr, drops>>
      BY <1>11 DEF FetchFails, FollowerCrash, partitionVars, isrVars, produceVars
  <2>2. /\ fetchPc' = [fetchPc EXCEPT ![f] = "idle"] \/ fetchPc' = [fetchPc EXCEPT ![f] = "down"]
        /\ faults' = faults + 1
        /\ late' = late \/ late' = [late EXCEPT ![f] = @ \cup {FetchOffset(f)}]
        /\ \/ UNCHANGED replicaLog
           \/ /\ fetchPc[f] = "replying"
              /\ \E k \in FetchOffset(f)..batch[f] :
                    replicaLog' = [replicaLog EXCEPT ![f] = Appended(f, k)]
      BY <1>11 DEF FetchFails, FollowerCrash, Abandon
  <2>3. /\ fetchPc' \in [Follower -> {"idle", "sent", "read", "replying", "down"}]
        /\ fetchPc'[f] \notin {"read", "replying"}
        /\ \A g \in Follower : g # f => fetchPc'[g] = fetchPc[g]
    <3>1. fetchPc \in [Follower -> {"idle", "sent", "read", "replying", "down"}]
        BY DEF TypeOK
    <3>2. PICK x \in {"idle", "down"} : fetchPc' = [fetchPc EXCEPT ![f] = x]
        BY <2>2
    <3>3. QED
        BY <3>1, <3>2
  <2>4. FetchOffset(f) \in Nat /\ FetchOffset(f) = Len(replicaLog[f])
      BY LenProperties DEF TypeOK, FetchOffset
  <2>5. /\ late' \in [Follower -> SUBSET Nat]
        /\ \A g \in Follower : \A o \in late'[g] : o \in late[g] \/ o = Len(replicaLog[g])
    <3>1. CASE late' = late
        BY <3>1 DEF TypeOK
    <3>2. CASE late' = [late EXCEPT ![f] = @ \cup {FetchOffset(f)}]
      <4>1. /\ late'[f] = late[f] \cup {FetchOffset(f)}
            /\ \A g \in Follower : g # f => late'[g] = late[g]
          BY <3>2 DEF TypeOK
      <4>2. late' \in [Follower -> SUBSET Nat]
          BY <2>4, <3>2 DEF TypeOK
      <4>3. QED
          BY <2>4, <4>1, <4>2
    <3>3. QED
        BY <2>2, <3>1, <3>2
  <2>6. /\ replicaLog' \in [Follower -> Seq(Producer)]
        /\ BatchIsCurrent' /\ FollowerIsPrefix' /\ ProgressIsReal' /\ HwmIsRecorded'
    <3>1. CASE UNCHANGED replicaLog
      <4>1. BatchIsCurrent' /\ FollowerIsPrefix'
          BY <2>1, <2>3, <3>1 DEF BatchIsCurrent, FollowerIsPrefix
      <4>2. ProgressIsReal'
        <5>1. \A g \in Follower : Len(replicaLog[g]) \in Nat
            BY LenProperties DEF TypeOK
        <5>2. QED
            BY <2>1, <2>5, <3>1, <5>1 DEF ProgressIsReal
      <4>3. QED
          BY <2>1, <3>1, <4>1, <4>2 DEF HwmIsRecorded, AppendWindow, TypeOK
    <3>2. CASE /\ fetchPc[f] = "replying"
               /\ \E k \in FetchOffset(f)..batch[f] :
                     replicaLog' = [replicaLog EXCEPT ![f] = Appended(f, k)]
      <4>1. PICK k \in FetchOffset(f)..batch[f] :
                replicaLog' = [replicaLog EXCEPT ![f] = Appended(f, k)]
          BY <3>2
      <4>2. Len(log) \in Nat /\ batch[f] \in Nat /\ batch[f] <= Len(log)
          BY <3>2, LenProperties DEF BatchIsCurrent, TypeOK
      <4>3. k \in Nat /\ FetchOffset(f) <= k /\ k <= Len(log)
          BY <2>4, <4>2
      <4>4. QED
          BY <2>1, <2>3, <2>5, <4>1, <4>3, GrowStep
    <3>3. QED
        BY <2>2, <3>1, <3>2
  <2>7. QED
      BY <2>1, <2>2, <2>3, <2>5, <2>6 DEF TypeOK
<1>12. ASSUME NEW f \in Follower, Lapse(f) PROVE Inv'
    BY <1>12
    DEF Lapse, TypeOK, BatchIsCurrent, FollowerIsPrefix, ProgressIsReal, HwmIsRecorded,
        AppendWindow, partitionVars, produceVars, fetchVars
<1>13. ASSUME NEW t \in Thread, UpdateIsr(t) \/ DropReport(t) PROVE Inv'
  <2>1. UNCHANGED <<log, hwm, tenure, isr, progress, recent, pc, base, missing, late,
                    replicaLog, fetchPc, batch, faults>>
      BY <1>13 DEF UpdateIsr, DropReport, partitionVars, isrVars, produceVars, fetchVars
  <2>2. /\ report' = [report EXCEPT ![t] = {}]
        /\ ctrlIsr' \in {ctrlIsr, report[t]}
        /\ drops' \in {drops, drops + 1}
      BY <1>13 DEF UpdateIsr, DropReport
  <2>3. TypeOK'
      BY <2>1, <2>2 DEF TypeOK
  <2>4. QED
      BY <2>1, <2>3
      DEF BatchIsCurrent, FollowerIsPrefix, ProgressIsReal, HwmIsRecorded, AppendWindow
<1>14. CASE UNCHANGED vars
    BY <1>14
    DEF vars, TypeOK, BatchIsCurrent, FollowerIsPrefix, ProgressIsReal, HwmIsRecorded,
        AppendWindow, partitionVars, isrVars, produceVars, fetchVars
<1>15. QED
    BY <1>1, <1>2, <1>3, <1>4, <1>5, <1>6, <1>7, <1>8, <1>9, <1>10, <1>11, <1>12, <1>13, <1>14
    DEF Next, ProducerStep, FetchStep

\* The invariant holds from the start, registered or not.
LEMMA InvInit == (Init \/ InitRegistered) => Inv
<1>1. SUFFICES ASSUME Init \/ InitRegistered PROVE Inv
    OBVIOUS
<1>2. InitialState /\ tenure \in {"no", "assumed"} /\ isr \subseteq Replica
    BY <1>1 DEF Init, InitRegistered
<1>3. TypeOK
    BY <1>2 DEF InitialState, TypeOK
<1>4. QED
    BY <1>2, <1>3
    DEF InitialState, Inv, BatchIsCurrent, FollowerIsPrefix, ProgressIsReal, HwmIsRecorded,
        NeverFetched

\* Every state of the replication is well typed.
THEOREM TypeCorrect == Spec => []TypeOK
<1>1. Inv /\ [Next]_vars => Inv'
    BY InvStep
<1>2. Inv => TypeOK
    BY DEF Inv
<1>3. QED
    BY <1>1, <1>2, InvInit, PTL DEF Spec

\* Followers only ever hold a prefix of the leader's log, and IsrManager never believes
\* them to hold more than they do: for any number of followers, producers and faults.
THEOREM FollowersArePrefixes == Spec => [](FollowerIsPrefix /\ ProgressIsReal)
<1>1. Inv /\ [Next]_vars => Inv'
    BY InvStep
<1>2. Inv => FollowerIsPrefix /\ ProgressIsReal
    BY DEF Inv
<1>3. QED
    BY <1>1, <1>2, InvInit, PTL DEF Spec

\* on_replica_fetch never records more than the follower's log holds, however late the
\* fetch is handled that it records.
THEOREM ProgressIsTrue == Spec => []ProgressIsReal
BY FollowersArePrefixes, PTL

\* The watermark that recompute leaves is on every ISR member.
LEMMA RecordedIsReplicated == Inv => HwmIsReplicated
<1>1. SUFFICES ASSUME Inv PROVE HwmIsReplicated
    OBVIOUS
<1>2. \A f \in Follower : progress[f] \in Int /\ Len(replicaLog[f]) \in Nat
    BY <1>1, LenProperties DEF Inv, TypeOK, NeverFetched
<1>3. hwm \in Nat
    BY <1>1 DEF Inv, TypeOK
<1>4. QED
    BY <1>1, <1>2, <1>3 DEF Inv, HwmIsRecorded, ProgressIsReal, HwmIsReplicated

\* The high watermark is bounded by the log and, outside the append window, held by every
\* ISR member.
THEOREM WatermarkIsReplicated == Spec => []HwmIsReplicated
<1>1. Inv /\ [Next]_vars => Inv'
    BY InvStep
<1>2. QED
    BY <1>1, InvInit, RecordedIsReplicated, PTL DEF Spec

\* An acks=all request acknowledged outside the append window is on every ISR member.
THEOREM AcksAreReplicated == Spec => AckIsReplicated
<1> DEFINE A == \A p \in AcksAll :
                   /\ pc[p] # "acked" /\ pc'[p] = "acked"
                   /\ tenure = "computed" /\ ~AppendWindow
                   => missing'[p] = {}
<1>1. ASSUME Inv, [Next]_vars PROVE [A]_vars
  <2>1. SUFFICES ASSUME NEW p \in AcksAll, pc[p] # "acked", pc'[p] = "acked",
                        tenure = "computed", ~AppendWindow
                 PROVE  missing'[p] = {}
      OBVIOUS
  <2>2. p \in Producer
      BY ProducerAssumption
  <2>3. Ack(p)
    <3>1. \E q \in Producer : Ack(q)
        BY <1>1, <2>1, <2>2
        DEF Next, ProducerStep, FetchStep, Promote, Sweep, Produce, OnLeaderAppend, Timeout,
            FetchSend, FetchRead, OnReplicaFetch, FetchReply, Lapse, FetchFails,
            FollowerCrash, FollowerRestart, LateFetch, UpdateIsr, DropReport, vars,
            produceVars, Inv, TypeOK
    <3>2. QED
        BY <1>1, <2>1, <2>2, <3>1 DEF Ack, Inv, TypeOK
  <2>4. /\ hwm > base[p] /\ missing'[p] = Lacking(base[p])
        /\ hwm \in Nat /\ base[p] \in Nat
      BY <1>1, <2>1, <2>2, <2>3 DEF Ack, HwmPassed, Inv, TypeOK
  <2>5. \A f \in isr \cap Follower : hwm <= Len(replicaLog[f]) /\ Len(replicaLog[f]) \in Nat
      BY <1>1, <2>1, RecordedIsReplicated, LenProperties DEF HwmIsReplicated, Inv, TypeOK
  <2>6. QED
      BY <2>4, <2>5 DEF Lacking
<1>2. Inv /\ [Next]_vars => Inv'
    BY InvStep
<1>3. QED
    BY <1>1, <1>2, InvInit, PTL DEF Spec, AckIsReplicated
=============================================================================
