------------------------- MODULE LeaderReplication -------------------------
(***************************************************************************)
(* Replication of one partition during one tenure of its leader: what      *)
(* Broker::handle_produce, Partition, IsrManager, FollowerFetcher and the  *)
(* controller's update_isr do to the log, the high watermark and the ISR.  *)
(*                                                                         *)
(* Concurrent threads: one connection thread per producer, one per replica *)
(* that fetches, IsrManager's sweep thread on the leader, and one fetcher  *)
(* thread per follower.  A step is what a thread does under one mutex      *)
(* (Partition::mu_ or IsrManager::mu_).  The callback onIsrChange_ runs    *)
(* after IsrManager::mu_ is released, so it is a step of its own.          *)
(*                                                                         *)
(* A record is named by the producer that sent it: every producer sends    *)
(* one request of one record.  Offsets count from 0: the record at offset  *)
(* o is log[o + 1].                                                        *)
(***************************************************************************)
EXTENDS Integers, Sequences, FiniteSets

CONSTANTS
    Leader,      \* the leader's broker id; also names its sweep thread
    Follower,    \* the other replicas of the partition
    Producer,    \* produce requests, each handled by a connection thread
    AcksAll,     \* the producers that ask for acks=all (0xFF)
    MaxLag,      \* kReplicaMaxLagMessages
    MaxFaults,   \* bound: fetches that fail and followers that crash
    MaxDrops     \* bound: ISR reports that never reach the controller

Replica == Follower \cup {Leader}
Thread == Replica \cup Producer

ASSUME ReplicaAssumption == IsFiniteSet(Follower) /\ Leader \notin Follower
ASSUME ProducerAssumption == AcksAll \subseteq Producer /\ Producer \cap Replica = {}
ASSUME BoundAssumption == MaxLag \in Nat /\ MaxFaults \in Nat /\ MaxDrops \in Nat

VARIABLES
    \* the leader's Partition
    log,        \* its records
    hwm,        \* hwm_
    \* the leader's IsrManager::PartitionState
    tenure,     \* "no": not registered, "assumed": set_leading, "computed": recomputed
    isr,        \* st.isr
    progress,   \* st.followerProgress, NeverFetched if absent
    recent,     \* the last fetch is at most kReplicaLagTimeMs ago
    \* threads of the leader
    pc,         \* pc[p] of handle_produce
    base,       \* the offset Partition::append returned to p
    late,       \* offsets of fetches whose follower hung up before they were handled
    report,     \* the ISR a thread is about to send to the controller, {} if none
    \* followers
    replicaLog, \* the records of the follower's Partition
    fetchPc,    \* where the follower's fetch is
    batch,      \* the log end of the fetch response
    \* the controller
    ctrlIsr,    \* assignments_[..].isr
    \* bounds and history
    faults, drops,
    missing     \* ISR members that lacked p's record when p was acknowledged

partitionVars == <<log, hwm>>
isrVars       == <<tenure, isr, progress, recent>>
produceVars   == <<pc, base, missing>>
fetchVars     == <<replicaLog, fetchPc, batch>>
vars == <<partitionVars, isrVars, produceVars, late, report, fetchVars, ctrlIsr, faults, drops>>

NeverFetched == -1

-----------------------------------------------------------------------------
(***************************************************************************)
(* IsrManager::recompute.  A name that ends in _bug is a mutant.           *)
(***************************************************************************)

\* The log ends that thread t's recompute may have read.  Partition::append takes another
\* mutex, so records may be appended between log_end_offset() and set_high_watermark();
\* their producers have not come to IsrManager yet.
LeoRead(t, prog) ==
    {n \in 0..Len(log) :
        /\ \A i \in n + 1 .. Len(log) : log[i] # t /\ pc[log[i]] = "appended"
        /\ \A f \in Follower : prog[f] <= n}

\* timeOk && lagOk of a follower that has fetched.
InSync_bug(leo, prog, rec, f) == leo >= prog[f] /\ leo - prog[f] <= MaxLag
InSync(leo, prog, rec, f) ==
    prog[f] # NeverFetched /\ rec[f] /\ leo >= prog[f] /\ leo - prog[f] <= MaxLag

NewIsr(leo, prog, rec) == {Leader} \cup {f \in Follower : InSync(leo, prog, rec, f)}

\* The offsets whose minimum is the high watermark: the log end and the progress of the
\* followers in the new ISR.
Ends_bug(leo, new, prog) == {leo}
Ends(leo, new, prog) == {leo} \cup {prog[f] : f \in new \ {Leader}}

\* recompute by thread t; a changed ISR is handed to the callback.
Recompute(t, prog, rec) ==
    \E leo \in LeoRead(t, prog) :
        LET new == NewIsr(leo, prog, rec)
        IN /\ \E h \in Ends(leo, new, prog) :
                 (\A e \in Ends(leo, new, prog) : h <= e) /\ hwm' = h
           /\ isr' = new
           /\ report' = IF new # isr THEN [report EXCEPT ![t] = new] ELSE report
           /\ tenure' = "computed"

\* A thread that finds the partition not registered does nothing.
RecomputeIfLeading(t, prog, rec) ==
    \/ /\ tenure # "no"
       /\ Recompute(t, prog, rec)
       /\ progress' = prog /\ recent' = rec
    \/ /\ tenure = "no"
       /\ UNCHANGED <<hwm, isrVars, report>>

-----------------------------------------------------------------------------
InitialState ==
    /\ log = <<>> /\ hwm = 0
    /\ progress = [f \in Follower |-> NeverFetched]
    /\ recent = [f \in Follower |-> FALSE]
    /\ pc = [p \in Producer |-> "idle"]
    /\ base = [p \in Producer |-> 0]
    /\ missing = [p \in Producer |-> {}]
    /\ late = [f \in Follower |-> {}]
    /\ report = [t \in Thread |-> {}]
    /\ replicaLog = [f \in Follower |-> <<>>]
    /\ fetchPc = [f \in Follower |-> "idle"]
    /\ batch = [f \in Follower |-> 0]
    /\ ctrlIsr = Replica
    /\ faults = 0 /\ drops = 0

\* A LeaderAndISR has made this broker the leader; reconcile_replication comes later.
Init == InitialState /\ tenure = "no" /\ isr = {}

\* The reconcile is over before anybody produces or fetches.
InitRegistered == InitialState /\ tenure = "assumed" /\ isr = Replica

(* reconcile_replication on the new leader: hwm to the log end, set_leading. *)
Promote ==
    /\ tenure = "no"
    /\ hwm' = Len(log)
    /\ tenure' = "assumed"
    /\ isr' = Replica
    /\ UNCHANGED <<log, progress, recent, produceVars, late, report, fetchVars, ctrlIsr, faults, drops>>

(* handle_produce: the assignment names this broker; Partition::append. *)
Produce(p) ==
    /\ pc[p] = "idle"
    /\ base' = [base EXCEPT ![p] = Len(log)]
    /\ log' = Append(log, p)
    /\ hwm' = Len(log) + 1
    /\ pc' = [pc EXCEPT ![p] = "appended"]
    /\ UNCHANGED <<isrVars, missing, late, report, fetchVars, ctrlIsr, faults, drops>>

(* handle_produce: on_leader_append. *)
OnLeaderAppend(p) ==
    /\ pc[p] = "appended"
    /\ pc' = [pc EXCEPT ![p] = "waiting"]
    /\ RecomputeIfLeading(p, progress, recent)
    /\ UNCHANGED <<log, base, missing, late, fetchVars, ctrlIsr, faults, drops>>

(* The followers in the ISR that lack the record at offset o. *)
Lacking(o) == {f \in Follower \cap isr : Len(replicaLog[f]) <= o}

\* wait_for_hwm's predicate for the offset o.
HwmPassed_bug(o) == tenure # "no" /\ hwm >= o
HwmPassed_late_bug(o) == tenure # "no" /\ hwm > o + 1
HwmPassed(o) == tenure # "no" /\ hwm > o

(* handle_produce: wait_for_hwm finds its predicate true (at the call, after *)
(* notify_all or a spurious wake-up), or acks is not "all".                  *)
Ack(p) ==
    /\ pc[p] = "waiting" /\ report[p] = {}
    /\ p \in AcksAll => HwmPassed(base[p])
    /\ pc' = [pc EXCEPT ![p] = "acked"]
    /\ missing' = [missing EXCEPT ![p] = IF p \in AcksAll THEN Lacking(base[p]) ELSE {}]
    /\ UNCHANGED <<partitionVars, isrVars, base, late, report, fetchVars, ctrlIsr, faults, drops>>

(* handle_produce: kAcksAllTimeoutMs passed, RequestTimedOut. *)
Timeout(p) ==
    /\ pc[p] = "waiting" /\ report[p] = {}
    /\ p \in AcksAll /\ ~HwmPassed(base[p])
    /\ pc' = [pc EXCEPT ![p] = "timedOut"]
    /\ UNCHANGED <<partitionVars, isrVars, base, missing, late, report, fetchVars, ctrlIsr, faults, drops>>

(* IsrManager::run_loop: the 200 ms sweep. *)
Sweep ==
    /\ tenure # "no" /\ report[Leader] = {}
    /\ Recompute(Leader, progress, recent)
    /\ UNCHANGED <<log, progress, recent, produceVars, late, fetchVars, ctrlIsr, faults, drops>>

(* kReplicaLagTimeMs passes without a fetch of f. *)
Lapse(f) ==
    /\ recent[f]
    /\ recent' = [recent EXCEPT ![f] = FALSE]
    /\ UNCHANGED <<partitionVars, tenure, isr, progress, produceVars, late, report, fetchVars, ctrlIsr, faults, drops>>

(* The callback's IsrUpdate reaches the controller: update_isr. *)
UpdateIsr(t) ==
    /\ report[t] # {}
    /\ ctrlIsr' = report[t]
    /\ report' = [report EXCEPT ![t] = {}]
    /\ UNCHANGED <<partitionVars, isrVars, produceVars, late, fetchVars, faults, drops>>

(* The callback's best-effort call fails, or no controller is known. *)
DropReport(t) ==
    /\ report[t] # {} /\ drops < MaxDrops
    /\ drops' = drops + 1
    /\ report' = [report EXCEPT ![t] = {}]
    /\ UNCHANGED <<partitionVars, isrVars, produceVars, late, fetchVars, ctrlIsr, faults>>

-----------------------------------------------------------------------------
(* FollowerFetcher::run_loop sends ReplicaFetchRequest from its own log end. *)
FetchSend(f) ==
    /\ fetchPc[f] = "idle"
    /\ fetchPc' = [fetchPc EXCEPT ![f] = "sent"]
    /\ UNCHANGED <<partitionVars, isrVars, produceVars, late, report, replicaLog, batch, ctrlIsr, faults, drops>>

(* The offset of f's request in flight: only its reply moves f's log end. *)
FetchOffset(f) == Len(replicaLog[f])

(* handle_replicate: read_up_to_leo, at most maxBytes but at least a record. *)
FetchRead(f) ==
    /\ fetchPc[f] = "sent"
    /\ fetchPc' = [fetchPc EXCEPT ![f] = "read"]
    /\ \E k \in FetchOffset(f)..Len(log) :
          /\ k = FetchOffset(f) => k = Len(log)
          /\ batch' = [batch EXCEPT ![f] = k]
    /\ UNCHANGED <<partitionVars, isrVars, produceVars, late, report, replicaLog, ctrlIsr, faults, drops>>

(* handle_replicate: on_replica_fetch records the offset asked for. *)
ProgressAfter_bug(f) == batch[f]
ProgressAfter(f) == FetchOffset(f)

OnReplicaFetch(f) ==
    /\ fetchPc[f] = "read" /\ report[f] = {}
    /\ fetchPc' = [fetchPc EXCEPT ![f] = "replying"]
    /\ RecomputeIfLeading(f, [progress EXCEPT ![f] = ProgressAfter(f)],
                             [recent EXCEPT ![f] = TRUE])
    /\ UNCHANGED <<log, produceVars, late, replicaLog, batch, ctrlIsr, faults, drops>>

(* append_replicated of the first k - offset records of the response. *)
Appended_bug(f, k) == replicaLog[f] \o SubSeq(log, 1, k)
Appended(f, k) == replicaLog[f] \o SubSeq(log, FetchOffset(f) + 1, k)

FetchReply(f) ==
    /\ fetchPc[f] = "replying" /\ report[f] = {}
    /\ fetchPc' = [fetchPc EXCEPT ![f] = "idle"]
    /\ replicaLog' = [replicaLog EXCEPT ![f] = Appended(f, batch[f])]
    /\ UNCHANGED <<partitionVars, isrVars, produceVars, late, report, batch, ctrlIsr, faults, drops>>

(* The handler of a fetch whose connection is gone may still run later. *)
Abandon(f) ==
    late' = IF fetchPc[f] \in {"sent", "read"}
            THEN [late EXCEPT ![f] = @ \cup {FetchOffset(f)}] ELSE late

(* The fetcher's socket throws: it drops the socket and asks again. *)
FetchFails(f) ==
    /\ fetchPc[f] \in {"sent", "read", "replying"} /\ report[f] = {}
    /\ faults < MaxFaults
    /\ faults' = faults + 1
    /\ fetchPc' = [fetchPc EXCEPT ![f] = "idle"]
    /\ Abandon(f)
    /\ UNCHANGED <<partitionVars, isrVars, produceVars, report, replicaLog, batch, ctrlIsr, drops>>

LateFetch(f, o) ==
    /\ o \in late[f] /\ report[f] = {}
    /\ late' = [late EXCEPT ![f] = @ \ {o}]
    /\ RecomputeIfLeading(f, [progress EXCEPT ![f] = o], [recent EXCEPT ![f] = TRUE])
    /\ UNCHANGED <<log, produceVars, fetchVars, ctrlIsr, faults, drops>>

(* The follower's process dies, perhaps inside append_replicated: its disk   *)
(* keeps a prefix of the batch, which scan_and_recover finds at the restart. *)
FollowerCrash(f) ==
    /\ fetchPc[f] # "down" /\ report[f] = {}
    /\ faults < MaxFaults
    /\ faults' = faults + 1
    /\ fetchPc' = [fetchPc EXCEPT ![f] = "down"]
    /\ Abandon(f)
    /\ \/ UNCHANGED replicaLog
       \/ /\ fetchPc[f] = "replying"
          /\ \E k \in FetchOffset(f)..batch[f] :
                replicaLog' = [replicaLog EXCEPT ![f] = Appended(f, k)]
    /\ UNCHANGED <<partitionVars, isrVars, produceVars, report, batch, ctrlIsr, drops>>

(* The follower is up again and a LeaderAndISR made it reconcile: a fetcher. *)
FollowerRestart(f) ==
    /\ fetchPc[f] = "down"
    /\ fetchPc' = [fetchPc EXCEPT ![f] = "idle"]
    /\ UNCHANGED <<partitionVars, isrVars, produceVars, late, report, replicaLog, batch, ctrlIsr, faults, drops>>

-----------------------------------------------------------------------------
ProducerStep(p) == Produce(p) \/ OnLeaderAppend(p) \/ Ack(p) \/ Timeout(p)

FetchStep(f) == FetchSend(f) \/ FetchRead(f) \/ OnReplicaFetch(f) \/ FetchReply(f)

Next ==
    \/ Promote
    \/ Sweep
    \/ \E p \in Producer : ProducerStep(p)
    \/ \E f \in Follower :
          \/ FetchStep(f)
          \/ Lapse(f)
          \/ FetchFails(f)
          \/ FollowerCrash(f)
          \/ FollowerRestart(f)
          \/ \E o \in late[f] : LateFetch(f, o)
    \/ \E t \in Thread : UpdateIsr(t) \/ DropReport(t)

Spec == Init /\ [][Next]_vars

SpecRegistered == InitRegistered /\ [][Next]_vars

(***************************************************************************)
(* Fairness: the leader's reconcile runs, running threads proceed, and a   *)
(* follower that failed is restarted.  Nothing makes a request time out,   *)
(* a follower lapse or fail, or a report be dropped.                       *)
(***************************************************************************)
Fairness ==
    /\ WF_vars(Promote)
    /\ \A p \in Producer : WF_vars(Produce(p) \/ OnLeaderAppend(p)) /\ WF_vars(Ack(p))
    /\ \A f \in Follower : WF_vars(FetchStep(f)) /\ WF_vars(FollowerRestart(f))
    /\ \A t \in Thread : WF_vars(UpdateIsr(t))

FairSpec == Spec /\ Fairness

-----------------------------------------------------------------------------
(***************************************************************************)
(* Properties.                                                             *)
(***************************************************************************)

\* The log, the watermark, IsrManager's state and the threads are well formed.
TypeOK ==
    /\ log \in Seq(Producer)
    /\ hwm \in Nat
    /\ tenure \in {"no", "assumed", "computed"}
    /\ isr \subseteq Replica
    /\ progress \in [Follower -> Nat \cup {NeverFetched}]
    /\ recent \in [Follower -> BOOLEAN]
    /\ pc \in [Producer -> {"idle", "appended", "waiting", "acked", "timedOut"}]
    /\ base \in [Producer -> Nat]
    /\ missing \in [Producer -> SUBSET Follower]
    /\ late \in [Follower -> SUBSET Nat]
    /\ report \in [Thread -> SUBSET Replica]
    /\ replicaLog \in [Follower -> Seq(Producer)]
    /\ fetchPc \in [Follower -> {"idle", "sent", "read", "replying", "down"}]
    /\ batch \in [Follower -> Nat]
    /\ ctrlIsr \subseteq Replica
    /\ faults \in Nat
    /\ drops \in Nat

\* A fetch response holds records the leader had, from the follower's log end on.
BatchIsCurrent ==
    \A f \in Follower : fetchPc[f] \in {"read", "replying"} =>
        Len(replicaLog[f]) <= batch[f] /\ batch[f] <= Len(log)

\* A producer is between Partition::append, which moved the high watermark to the log
\* end, and on_leader_append, which takes it back.
AppendWindow == \E p \in Producer : pc[p] = "appended"

\* What a follower holds is what the leader holds at the same offsets, whatever fetches
\* failed, were handled late, or were cut short by a crash inside append_replicated.
FollowerIsPrefix ==
    \A f \in Follower :
        /\ Len(replicaLog[f]) <= Len(log)
        /\ \A i \in 1..Len(replicaLog[f]) : replicaLog[f][i] = log[i]

\* IsrManager never believes a follower to be further than its log is: the progress and
\* the fetches still to be handled ask for offsets that the follower had reached.
ProgressIsReal ==
    \A f \in Follower :
        /\ progress[f] <= Len(replicaLog[f])
        /\ \A o \in late[f] : o <= Len(replicaLog[f])

\* The high watermark never passes the leader's log, and once recompute has run it is
\* held by every ISR member, except while some producer is inside the append window.
HwmIsReplicated ==
    /\ hwm <= Len(log)
    /\ tenure = "computed" /\ ~AppendWindow =>
          \A f \in isr \cap Follower : hwm <= Len(replicaLog[f])

\* What recompute leaves: the watermark is held back by the recorded progress of every ISR
\* member until some producer appends.
HwmIsRecorded ==
    /\ hwm <= Len(log)
    /\ tenure = "computed" /\ ~AppendWindow =>
          \A f \in isr \cap Follower : hwm <= progress[f]

\* acks=all: a request is acknowledged when every ISR member has its record, if at that
\* moment no other producer is inside the append window and recompute has run.
AckIsReplicated ==
    [][\A p \in AcksAll :
          /\ pc[p] # "acked" /\ pc'[p] = "acked"
          /\ tenure = "computed" /\ ~AppendWindow
          => missing'[p] = {}]_vars

\* Under the scheduling of Fairness, every record reaches every follower, the high
\* watermark catches up with the log for good, and every request is answered.
Converges ==
    <>[](/\ hwm = Len(log) /\ Len(log) = Cardinality(Producer)
         /\ \A f \in Follower : replicaLog[f] = log
         /\ \A p \in Producer : pc[p] \in {"acked", "timedOut"})

\* broker.cpp on acks=all: "block this connection's own thread until the ISR has caught up
\* past our batch's last offset".
AckAfterIsrCaughtUp == \A p \in AcksAll : missing[p] = {}

\* PROJECT_GUIDE.md calls the high watermark under acks=all "a real durability guarantee":
\* once the reports have arrived, a broker that check_partition_failover may choose as a
\* clean successor, an ISR member in the controller's eyes, has every record that was
\* acknowledged when the whole ISR of the leader had it.
SuccessorHasAcked ==
    (\A t \in Thread : report[t] = {}) =>
        \A p \in AcksAll : pc[p] = "acked" /\ missing[p] = {} =>
            \A f \in ctrlIsr \cap Follower : base[p] < Len(replicaLog[f])
=============================================================================
