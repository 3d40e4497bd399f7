-------------------------- MODULE PartitionFailover --------------------------
(***************************************************************************)
(* Who leads a partition: the routing table (assignments_) that the        *)
(* controller keeps, changes and broadcasts as LeaderAndISR, the copies of *)
(* it on the other brokers, and what Broker::reconcile_replication makes   *)
(* of them: partitions registered with IsrManager as led, and fetchers     *)
(* for the ones that are followed.                                         *)
(*                                                                         *)
(* The election is abstracted to its outcome: a broker may become Leader   *)
(* and may step down at any time, and several may act as controller, since *)
(* nothing in a LeaderAndISR tells terms apart.  The logs are abstracted   *)
(* away; a leader's ISR may change to any set the replicas allow.          *)
(*                                                                         *)
(* Concurrent threads: run_loop of a controller, the connection thread of  *)
(* a CreateTopic, the threads that report an ISR change, and on every      *)
(* broker the connection threads that handle LeaderAndISR.  A step is what *)
(* a thread does under ClusterController::mu_ or Broker::followersMu_.     *)
(* reconcile_replication copies the table under mu_ before it takes        *)
(* followersMu_, so it takes two steps; it keeps followersMu_ for as long  *)
(* as it waits for the thread of a fetcher it destroys.                    *)
(*                                                                         *)
(* No socket has a timeout.  A fetcher that waits for the leader's reply   *)
(* waits for the ISR report its fetch gave rise to, the report for the     *)
(* controller's broadcast, and a call of the broadcast for the peer's      *)
(* followersMu_ or for an earlier call to it (PeerConn::mu).               *)
(*                                                                         *)
(* An operator whose name ends in _bug is a mutant: a plausible mistake in *)
(* the operator that follows it.                                           *)
(***************************************************************************)
EXTENDS Integers, FiniteSets

CONSTANTS
    Broker,             \* broker ids of --cluster
    PartitionCount,     \* numPartitions of the topic
    ReplicationFactor,  \* replicationFactor of the topic
    Unclean,            \* uncleanLeaderElectionEnable
    MaxCreates,         \* bound: CreateTopic requests that are served
    MaxElections,       \* bound: times a broker becomes controller
    MaxReports,         \* bound: ISR changes
    MaxSuspicions,      \* bound: heartbeats a live broker fails to answer in time
    MaxBreaks,          \* bound: calls that break while both ends live
    MaxCrashes          \* bound: crashes

ASSUME BrokerAssumption == Broker \subseteq Nat /\ IsFiniteSet(Broker) /\ Broker # {}
ASSUME TopicAssumption ==
    PartitionCount \in Nat /\ ReplicationFactor \in Nat /\ Unclean \in BOOLEAN
ASSUME BoundAssumption ==
    /\ MaxCreates \in Nat /\ MaxElections \in Nat /\ MaxReports \in Nat
    /\ MaxSuspicions \in Nat /\ MaxBreaks \in Nat /\ MaxCrashes \in Nat

VARIABLES
    \* the election and the processes
    controller,     \* brokers whose role_ is Leader
    up,             \* brokers that run
    \* ClusterController
    assignments,    \* assignments_
    file,           \* <dataDir>/cluster_assignments
    fresh,          \* peers whose lastAliveMs_ is within kAliveThresholdMs
    loop,           \* run_loop: "check" between BrokerHeartbeats and failover
    callback,       \* threads that reconcile their own broker after a broadcast
    tasks,          \* LeaderAndISR calls on their way or in work, and reconciles
    reports,        \* IsrUpdate calls on their way
    \* Broker and IsrManager
    leading,        \* leadingPartitions_
    isrState,       \* IsrManager::partitions_
    fetcher,        \* followers_: the leader a partition is fetched from
    \* bounds and history
    creates, elections, changes, suspicions, breaks, crashes,
    reconciled,     \* brokers that have reconciled since they started
    stayed,         \* brokers that never crashed
    apart           \* no broadcast began while calls of another were under way

tableVars == <<assignments, file>>
loopVars == <<controller, up, fresh, loop>>
roleVars == <<leading, isrState, fetcher, reconciled>>
countVars == <<creates, elections, changes, suspicions, breaks, crashes>>
pastVars == <<stayed, apart>>
vars == <<controller, up, assignments, file, fresh, loop, callback, tasks, reports,
          leading, isrState, fetcher, creates, elections, changes, suspicions,
          breaks, crashes, reconciled, stayed, apart>>

Partition == 0 .. PartitionCount - 1
NoBroker == -1
Absent == [leader |-> NoBroker, replicas |-> {}, isr |-> {}]
PartitionAssignment ==
    [leader : Broker, replicas : SUBSET Broker, isr : SUBSET Broker] \cup {Absent}
Table == [Partition -> PartitionAssignment]
NoTable == [p \in Partition |-> Absent]
NotLed == [replicas |-> {}, isr |-> {}]
PartitionState == [replicas : SUBSET Broker, isr : SUBSET Broker]
Task ==
    [from : Broker \cup {NoBroker}, thread : {"loop", "create", "isr"}, n : 0 .. MaxReports,
     at : Broker, entries : Table, stage : {"sent", "applied", "read", "locked"},
     copy : Table]
Report ==
    [from : Broker \cup {NoBroker}, by : Broker \cup {NoBroker}, to : Broker,
     p : Partition, isr : SUBSET Broker, n : 1 .. MaxReports, stage : {"sent", "broadcast"}]

-----------------------------------------------------------------------------
(* Threads and calls *)

\* A broadcast: one call per peer, the ones of a thread run in parallel.
Broadcast(b, thread, n, entries) ==
    { [from |-> b, thread |-> thread, n |-> n, at |-> x, entries |-> entries,
       stage |-> "sent", copy |-> NoTable] : x \in Broker \ {b} }

CallsUnderWay == \E m \in tasks : m.at # m.from
StayApart == apart' = (apart /\ ~CallsUnderWay) /\ UNCHANGED stayed

\* The reconcile a thread does on its own broker.
OwnReconcile(b, thread) ==
    [from |-> b, thread |-> thread, n |-> 0, at |-> b, entries |-> NoTable,
     stage |-> "applied", copy |-> NoTable]

\* A call nobody waits for any more; the peer may still handle it.
Orphan(m) == [m EXCEPT !.from = NoBroker]

Busy(b, thread) ==
    \/ thread \in callback[b]
    \/ \E m \in tasks : m.from = b /\ m.thread = thread

\* PeerConn::mu lets one call at a time through to a peer.
ConnectionFree(m) ==
    m.from # NoBroker =>
        \A o \in tasks : o.from = m.from /\ o.at = m.at => o.stage = "sent"

\* The fetcher of f for p waits for a reply that its leader holds back until it
\* has reported an ISR change.
FetchWaits(f, p) ==
    \E r \in reports : r.by = f /\ r.p = p /\ r.from = fetcher[f][p]

\* assignments_ and cluster_assignments change in one critical section.
SetTable(b, table) ==
    /\ assignments' = [assignments EXCEPT ![b] = table]
    /\ file' = [file EXCEPT ![b] = table]

Alive(b) == fresh[b] \cup {b}
Least(S) == CHOOSE x \in S : \A y \in S : x <= y

-----------------------------------------------------------------------------
(* The controller's decisions *)

\* Round robin over the live brokers, in ascending order of their ids.
Nth(S, i) == CHOOSE x \in S : Cardinality({y \in S : y < x}) = i

Placement(alive, p) ==
    LET n == Cardinality(alive)
        rf == IF ReplicationFactor = 0 THEN 1
              ELSE IF ReplicationFactor < n THEN ReplicationFactor ELSE n
        replicas == {Nth(alive, (p + k) % n) : k \in 0 .. rf - 1}
    IN  [leader |-> Nth(alive, p % n), replicas |-> replicas, isr |-> replicas]

\* Any live broker is taken for a candidate.
Candidates_bug(pa, among, alive) == alive \ {pa.leader}

Candidates(pa, among, alive) == (among \ {pa.leader}) \cap alive

\* check_partition_failover for one partition.  The mutants drop the dead
\* leader's replica, and note that a partition has no leader.
Promoted_drop_bug(pa, alive) ==
    LET insync == Candidates(pa, pa.isr, alive)
    IN  IF pa = Absent \/ pa.leader \in alive \/ insync = {} THEN pa
        ELSE [leader |-> Least(insync), replicas |-> pa.replicas \ {pa.leader}, isr |-> insync]

Promoted_none_bug(pa, alive) ==
    LET insync == Candidates(pa, pa.isr, alive)
    IN  IF pa = Absent \/ pa.leader \in alive THEN pa
        ELSE IF insync = {} THEN [pa EXCEPT !.leader = NoBroker]
        ELSE [pa EXCEPT !.leader = Least(insync), !.isr = insync]

Promoted(pa, alive) ==
    LET insync == Candidates(pa, pa.isr, alive)
        others == Candidates(pa, pa.replicas, alive)
    IN  IF pa = Absent \/ pa.leader \in alive THEN pa
        ELSE IF insync # {}
          THEN [pa EXCEPT !.leader = Least(insync), !.isr = insync]
        ELSE IF Unclean /\ others # {}
          THEN [pa EXCEPT !.leader = Least(others), !.isr = {Least(others)}]
        ELSE pa

\* Entries the table has already are not replaced.
Overlay_bug(table, entries) ==
    [p \in Partition |-> IF table[p] = Absent THEN entries[p] ELSE table[p]]

Overlay(table, entries) ==
    [p \in Partition |-> IF entries[p] = Absent THEN table[p] ELSE entries[p]]

-----------------------------------------------------------------------------
(* The election, as far as it matters here *)

BecomeLeader(b) ==
    /\ b \in up \ controller
    /\ elections < MaxElections
    /\ controller' = controller \cup {b}
    /\ elections' = elections + 1
    /\ UNCHANGED <<tableVars, up, fresh, loop, callback, tasks, reports, roleVars,
                   creates, changes, suspicions, breaks, crashes, pastVars>>

StepDown(b) ==
    /\ b \in controller
    /\ controller' = controller \ {b}
    /\ UNCHANGED <<tableVars, up, fresh, loop, callback, tasks, reports, roleVars,
                   countVars, pastVars>>

-----------------------------------------------------------------------------
(* The controller *)

\* run_loop has read the role; the live peers answer, except those that are
\* too late.  A broker that is deposed from here on still goes through with
\* the check.  A heartbeat waits for a call to the same peer to end.
BroadcastBrokerHeartbeats(b) ==
    /\ b \in controller
    /\ loop[b] = "idle" /\ ~Busy(b, "loop")
    /\ \A m \in tasks : m.from = b /\ m.at # b => m.stage = "sent"
    /\ \E late \in SUBSET (up \ {b}) :
         /\ suspicions + Cardinality(late) <= MaxSuspicions
         /\ suspicions' = suspicions + Cardinality(late)
         /\ fresh' = [fresh EXCEPT ![b] = @ \cup (up \ ({b} \cup late))]
    /\ loop' = [loop EXCEPT ![b] = "check"]
    /\ UNCHANGED <<tableVars, controller, up, callback, tasks, reports, roleVars,
                   creates, elections, changes, breaks, crashes, pastVars>>

\* kAliveThresholdMs pass without an answer of x.
Lapse(b, x) ==
    /\ b \in up /\ x \in fresh[b]
    /\ IF x \in up
         THEN suspicions < MaxSuspicions /\ suspicions' = suspicions + 1
         ELSE UNCHANGED suspicions
    /\ fresh' = [fresh EXCEPT ![b] = @ \ {x}]
    /\ UNCHANGED <<tableVars, controller, up, loop, callback, tasks, reports, roleVars,
                   creates, elections, changes, breaks, crashes, pastVars>>

\* alive_broker_ids is read under a lock of its own just before: a peer that
\* lapses in between may as well lapse afterwards.
CheckPartitionFailover(b) ==
    LET table == [p \in Partition |-> Promoted(assignments[b][p], Alive(b))]
        entries == [p \in Partition |->
                       IF table[p] # assignments[b][p] THEN table[p] ELSE Absent]
    IN  /\ b \in up
        /\ loop[b] = "check"
        /\ loop' = [loop EXCEPT ![b] = "idle"]
        /\ IF entries = NoTable
             THEN UNCHANGED <<tableVars, tasks, callback, pastVars>>
             ELSE /\ SetTable(b, table) /\ StayApart
                  /\ tasks' = tasks \cup Broadcast(b, "loop", 0, entries)
                  /\ callback' = [callback EXCEPT ![b] = @ \cup {"loop"}]
        /\ UNCHANGED <<controller, up, fresh, reports, roleVars, countVars>>

\* create_topic.  It reads the role, the live brokers and the table under one
\* lock each; what changes the first two in between may as well come later.
CreateTopic(b) ==
    LET table == [p \in Partition |-> Placement(Alive(b), p)]
    IN  /\ b \in controller
        /\ ~Busy(b, "create")
        /\ creates < MaxCreates
        /\ creates' = creates + 1
        /\ SetTable(b, table) /\ StayApart
        /\ tasks' = tasks \cup Broadcast(b, "create", 0, table)
        /\ callback' = [callback EXCEPT ![b] = @ \cup {"create"}]
        /\ UNCHANGED <<loopVars, reports, roleVars, elections, changes, suspicions,
                       breaks, crashes>>

\* All calls of the broadcast are over: the thread turns to its own broker
\* (onAssignmentChange_, or the end of handle_create_topic).
FinishBroadcast_bug(b, thread) ==
    /\ b \in up
    /\ thread \in callback[b]
    /\ \A m \in tasks : ~(m.from = b /\ m.thread = thread)
    /\ callback' = [callback EXCEPT ![b] = @ \ {thread}]
    /\ UNCHANGED <<loopVars, tableVars, tasks, reports, roleVars, countVars, pastVars>>

FinishBroadcast(b, thread) ==
    /\ b \in up
    /\ thread \in callback[b]
    /\ \A m \in tasks : ~(m.from = b /\ m.thread = thread)
    /\ callback' = [callback EXCEPT ![b] = @ \ {thread}]
    /\ tasks' = tasks \cup {OwnReconcile(b, thread)}
    /\ UNCHANGED <<loopVars, tableVars, reports, roleVars, countVars,
                   pastVars>>

\* A leader's ISR changes (recompute), on a sweep or a produce request or on the
\* fetch of a follower, and is reported to the broker it takes for the controller.
ReportIsr(b, p) ==
    /\ b \in up /\ isrState[b][p] # NotLed
    /\ changes < MaxReports
    /\ changes' = changes + 1
    /\ \E others \in SUBSET (isrState[b][p].replicas \ {b}), to \in Broker,
          by \in {NoBroker} \cup {f \in up : fetcher[f][p] = b /\ ~FetchWaits(f, p)} :
         LET isr == others \cup ({b} \cap isrState[b][p].replicas)
         IN  /\ isr # isrState[b][p].isr
             /\ b \in controller => to = b
             /\ isrState' = [isrState EXCEPT ![b][p].isr = isr]
             /\ reports' = reports \cup {[from |-> b, by |-> by, to |-> to, p |-> p,
                                          isr |-> isr, n |-> changes', stage |-> "sent"]}
    /\ UNCHANGED <<loopVars, tableVars, callback, tasks, leading, fetcher, reconciled,
                   creates, elections, suspicions, breaks, crashes, pastVars>>

\* is_leader is read under a lock of its own just before: a broker deposed in
\* between may as well be deposed afterwards.  The report is answered when the
\* broadcast is over.
UpdateIsr(r) ==
    LET entry == [assignments[r.to][r.p] EXCEPT !.isr = r.isr]
    IN  /\ r.stage = "sent" /\ r.to \in up
        /\ IF r.to \in controller /\ assignments[r.to][r.p] # Absent
             THEN /\ SetTable(r.to, [assignments[r.to] EXCEPT ![r.p] = entry])
                  /\ StayApart
                  /\ tasks' = tasks \cup
                       Broadcast(r.to, "isr", r.n, [NoTable EXCEPT ![r.p] = entry])
                  /\ reports' = (reports \ {r}) \cup {[r EXCEPT !.stage = "broadcast"]}
             ELSE /\ reports' = reports \ {r}
                  /\ UNCHANGED <<tableVars, tasks, pastVars>>
        /\ UNCHANGED <<loopVars, callback, roleVars, countVars>>

\* The controller answers, or is gone.
AnswerReport(r) ==
    /\ r.stage = "broadcast"
    /\ \A m \in tasks : ~(m.from = r.to /\ m.thread = "isr" /\ m.n = r.n)
    /\ reports' = reports \ {r}
    /\ UNCHANGED <<loopVars, tableVars, callback, tasks, roleVars, countVars, pastVars>>

\* The call is best effort.
LoseReport(r) ==
    /\ r.stage = "sent"
    /\ IF r.to \in up
         THEN breaks < MaxBreaks /\ breaks' = breaks + 1
         ELSE UNCHANGED breaks
    /\ reports' = reports \ {r}
    /\ UNCHANGED <<loopVars, tableVars, callback, tasks, roleVars, creates, elections,
                   changes, suspicions, crashes, pastVars>>

-----------------------------------------------------------------------------
(* LeaderAndISR on its way and on the peer *)

\* The call fails: the peer is down, or both attempts broke.
CallFails(m) ==
    /\ m.stage = "sent" /\ m.from # NoBroker
    /\ ConnectionFree(m)
    /\ IF m.at \in up
         THEN breaks < MaxBreaks /\ breaks' = breaks + 1
         ELSE UNCHANGED breaks
    /\ tasks' = tasks \ {m}
    /\ UNCHANGED <<loopVars, tableVars, callback, reports, roleVars, creates, elections,
                   changes, suspicions, crashes, pastVars>>

\* The first attempt breaks after the request was written: the peer may still
\* handle it, and is sent the request again.
CallRetry(m) ==
    /\ m.stage = "sent" /\ m.from # NoBroker /\ m.at \in up
    /\ ConnectionFree(m)
    /\ breaks < MaxBreaks
    /\ breaks' = breaks + 1
    /\ tasks' = tasks \cup {Orphan(m)}
    /\ UNCHANGED <<loopVars, tableVars, callback, reports, roleVars, creates, elections,
                   changes, suspicions, crashes, pastVars>>

\* handle_leader_and_isr: the entries overwrite whatever the table holds.
ApplyLeaderAndIsr(m) ==
    /\ m.stage = "sent" /\ m.at \in up
    /\ ConnectionFree(m)
    /\ SetTable(m.at, Overlay(assignments[m.at], m.entries))
    /\ tasks' = (tasks \ {m}) \cup {[m EXCEPT !.stage = "applied"]}
    /\ UNCHANGED <<loopVars, callback, reports, roleVars, countVars, pastVars>>

\* reconcile_replication up to the copy of the table ...
AllAssignments(m) ==
    /\ m.stage = "applied" /\ m.at \in up
    /\ tasks' = (tasks \ {m}) \cup {[m EXCEPT !.stage = "read",
                                              !.copy = assignments[m.at]]}
    /\ UNCHANGED <<loopVars, tableVars, callback, reports, roleVars, countVars,
                   pastVars>>

Leads(b, pa) == pa.leader = b
Follows(b, pa) == ~Leads(b, pa) /\ b \in pa.replicas

\* The partition was registered for good before.
StateAfter_bug(b, pa, st) ==
    IF Leads(b, pa)
      THEN [replicas |-> pa.replicas, isr |-> IF st.isr = {} THEN pa.replicas ELSE st.isr]
      ELSE st

\* set_leading, stop_leading, or neither.
StateAfter(b, pa, st) ==
    IF Leads(b, pa)
      THEN [replicas |-> pa.replicas, isr |-> IF st.isr = {} THEN pa.replicas ELSE st.isr]
    ELSE IF Follows(b, pa) THEN NotLed
    ELSE st

\* What the copy makes of the fetchers.
FetcherAfter(b, pa) == IF Follows(b, pa) THEN pa.leader ELSE NoBroker

\* followersMu_ is taken, and a fetcher to be destroyed waits for its leader.
FollowersLocked(b) == \E m \in tasks : m.at = b /\ m.stage = "locked"
MustWait(m) ==
    \E p \in Partition :
        FetcherAfter(m.at, m.copy[p]) # fetcher[m.at][p] /\ FetchWaits(m.at, p)

LockFollowers(m) ==
    /\ m.stage = "read" /\ m.at \in up
    /\ ~FollowersLocked(m.at) /\ MustWait(m)
    /\ tasks' = (tasks \ {m}) \cup {[m EXCEPT !.stage = "locked"]}
    /\ UNCHANGED <<loopVars, tableVars, callback, reports, roleVars, countVars,
                   pastVars>>

\* ... and what it does with the copy under followersMu_.
ReconcileReplication(m) ==
    LET b == m.at
    IN  /\ b \in up
        /\ \/ m.stage = "locked"
           \/ m.stage = "read" /\ ~FollowersLocked(b)
        /\ ~MustWait(m)
        /\ tasks' = tasks \ {m}
        /\ isrState' = [isrState EXCEPT ![b] =
               [p \in Partition |-> StateAfter(b, m.copy[p], @[p])]]
        /\ fetcher' = [fetcher EXCEPT ![b] =
               [p \in Partition |-> FetcherAfter(b, m.copy[p])]]
        /\ leading' = [leading EXCEPT ![b] = {p \in Partition : Leads(b, m.copy[p])}]
        /\ reconciled' = reconciled \cup {b}
        /\ UNCHANGED <<loopVars, tableVars, callback, reports, countVars, pastVars>>

-----------------------------------------------------------------------------
(* Crashes *)

\* persist_assignments empties the file when it opens it and writes when it is
\* done: whoever is about to write its table may die in between.
MayPersist(b) ==
    \/ \E m \in tasks : m.at = b /\ m.stage = "sent"
    \/ loop[b] = "check"
    \/ b \in controller /\ creates < MaxCreates
    \/ b \in controller /\ \E r \in reports : r.to = b /\ r.stage = "sent"

\* A request already written to its socket may still reach the peer; those of
\* the threads that waited for the connection are gone.
Crash(b) ==
    LET own == {m \in tasks : m.from = b /\ m.at # b}
    IN  /\ b \in up
        /\ crashes < MaxCrashes
        /\ crashes' = crashes + 1
        /\ up' = up \ {b} /\ stayed' = stayed \ {b}
        /\ controller' = controller \ {b}
        /\ fresh' = [fresh EXCEPT ![b] = {}]
        /\ loop' = [loop EXCEPT ![b] = "idle"]
        /\ callback' = [callback EXCEPT ![b] = {}]
        /\ \E kept \in SUBSET own :
             /\ \A m \in own : m.stage # "sent" => m \in kept
             /\ \A m, o \in kept : m.at = o.at => m = o
             /\ tasks' = {m \in tasks : m.from # b /\ m.at # b}
                            \cup {Orphan(m) : m \in kept}
        /\ reports' = {[r EXCEPT !.from = IF @ = b THEN NoBroker ELSE @,
                                 !.by = IF b \in {@, r.from} THEN NoBroker ELSE @] :
                           r \in reports}
        /\ leading' = [leading EXCEPT ![b] = {}]
        /\ isrState' = [isrState EXCEPT ![b] = [p \in Partition |-> NotLed]]
        /\ fetcher' = [fetcher EXCEPT ![b] = [p \in Partition |-> NoBroker]]
        /\ reconciled' = reconciled \ {b}
        /\ \/ UNCHANGED file
           \/ MayPersist(b) /\ file' = [file EXCEPT ![b] = NoTable]
        /\ UNCHANGED <<assignments, creates, elections, changes, suspicions, breaks,
                       apart>>

\* The constructor loads the table and does not reconcile.
Restart(b) ==
    /\ b \notin up
    /\ up' = up \cup {b}
    /\ assignments' = [assignments EXCEPT ![b] = file[b]]
    /\ UNCHANGED <<controller, fresh, loop, callback, tasks, reports, file, roleVars,
                   countVars, pastVars>>

-----------------------------------------------------------------------------
InitWith(table, state, fetch, led, done) ==
    /\ controller = {} /\ up = Broker
    /\ assignments = [b \in Broker |-> table] /\ file = [b \in Broker |-> table]
    /\ fresh = [b \in Broker |-> {}]
    /\ loop = [b \in Broker |-> "idle"]
    /\ callback = [b \in Broker |-> {}]
    /\ tasks = {} /\ reports = {}
    /\ leading = led /\ isrState = state /\ fetcher = fetch
    /\ creates = 0 /\ elections = 0 /\ changes = 0
    /\ suspicions = 0 /\ breaks = 0 /\ crashes = 0
    /\ reconciled = done /\ stayed = Broker /\ apart = TRUE

\* A new cluster.
Init ==
    InitWith(NoTable, [b \in Broker |-> [p \in Partition |-> NotLed]],
             [b \in Broker |-> [p \in Partition |-> NoBroker]],
             [b \in Broker |-> {}], {})

\* The topic was created while every broker was alive, and the broadcast is over.
InitCreated ==
    LET table == [p \in Partition |-> Placement(Broker, p)]
    IN  InitWith(table,
            [b \in Broker |-> [p \in Partition |-> StateAfter(b, table[p], NotLed)]],
            [b \in Broker |-> [p \in Partition |->
                IF Follows(b, table[p]) THEN table[p].leader ELSE NoBroker]],
            [b \in Broker |-> {p \in Partition : Leads(b, table[p])}], Broker)

Next ==
    \/ \E b \in Broker :
         \/ BecomeLeader(b) \/ StepDown(b)
         \/ BroadcastBrokerHeartbeats(b) \/ CheckPartitionFailover(b)
         \/ \E x \in Broker : Lapse(b, x)
         \/ CreateTopic(b)
         \/ \E thread \in {"loop", "create"} : FinishBroadcast(b, thread)
         \/ \E p \in Partition : ReportIsr(b, p)
         \/ Crash(b) \/ Restart(b)
    \/ \E r \in reports : UpdateIsr(r) \/ AnswerReport(r) \/ LoseReport(r)
    \/ \E m \in tasks :
         \/ CallFails(m) \/ CallRetry(m)
         \/ ApplyLeaderAndIsr(m) \/ AllAssignments(m)
         \/ LockFollowers(m) \/ ReconcileReplication(m)

Spec == Init /\ [][Next]_vars
SpecCreated == InitCreated /\ [][Next]_vars

\* run_loop and every connection thread keep running while their process does;
\* a peer that stays down lapses, and calls end.  A request whose caller is gone
\* may be lost.
FairSpec ==
    /\ SpecCreated
    /\ \A b \in Broker :
         /\ WF_vars(BroadcastBrokerHeartbeats(b))
         /\ WF_vars(CheckPartitionFailover(b))
         /\ WF_vars(FinishBroadcast(b, "loop"))
         /\ \A x \in Broker : WF_vars(x \notin up /\ Lapse(b, x))
    /\ WF_vars(\E m \in tasks : m.at \notin up /\ CallFails(m))
    /\ WF_vars(\E m \in tasks : m.from # NoBroker /\ ApplyLeaderAndIsr(m))
    /\ WF_vars(\E m \in tasks : AllAssignments(m))
    /\ WF_vars(\E m \in tasks : ReconcileReplication(m))
    /\ WF_vars(\E r \in reports : UpdateIsr(r) \/ AnswerReport(r))
    /\ WF_vars(\E r \in reports : r.to \notin up /\ LoseReport(r))

-----------------------------------------------------------------------------
(* Properties *)

\* Tables, files, calls and replication roles are well formed; only a running
\* broker is controller or has been reconciled.
TypeOK ==
    /\ controller \subseteq up /\ up \subseteq Broker
    /\ assignments \in [Broker -> Table] /\ file \in [Broker -> Table]
    /\ fresh \in [Broker -> SUBSET Broker]
    /\ loop \in [Broker -> {"idle", "check"}]
    /\ callback \in [Broker -> SUBSET {"loop", "create"}]
    /\ tasks \subseteq Task /\ reports \subseteq Report
    /\ leading \in [Broker -> SUBSET Partition]
    /\ isrState \in [Broker -> [Partition -> PartitionState]]
    /\ fetcher \in [Broker -> [Partition -> Broker \cup {NoBroker}]]
    /\ creates \in 0 .. MaxCreates /\ elections \in 0 .. MaxElections
    /\ changes \in 0 .. MaxReports /\ suspicions \in 0 .. MaxSuspicions
    /\ breaks \in 0 .. MaxBreaks /\ crashes \in 0 .. MaxCrashes
    /\ reconciled \subseteq up /\ stayed \subseteq up /\ apart \in BOOLEAN

Sane(pa) == pa # Absent => pa.leader \in pa.replicas /\ pa.isr \subseteq pa.replicas

\* Every table, on disk, in memory or on its way, and whichever controller it
\* came from, assigns a partition to a leader and an ISR that hold a replica
\* of it: create_topic places them and update_isr and check_partition_failover
\* change them, each trusting what the other left.  Not so when a topic is
\* created twice: create_topic takes no notice of the replicas there are, and
\* an ISR of the old ones may be reported later.
LeadersHoldReplicas ==
    creates <= 1 =>
        /\ \A b \in Broker, p \in Partition :
              Sane(assignments[b][p]) /\ Sane(file[b][p])
        /\ \A m \in tasks, p \in Partition : Sane(m.entries[p]) /\ Sane(m.copy[p])

\* Once a topic is created the tables never disagree on where its replicas
\* are, whatever overtakes what: only leader and ISR are ever in dispute.
ReplicasAgree ==
    LET tables == {file[b] : b \in Broker} \cup {m.entries : m \in tasks}
    IN  creates <= 1 =>
          \A t, u \in tables, p \in Partition :
             t[p] # Absent /\ u[p] # Absent => t[p].replicas = u[p].replicas

\* What a broker does is what its table says, as soon as no thread is left
\* that is about to reconcile it: it leads the partitions assigned to it, and
\* fetches the others it replicates from the leaders named in the table.
RolesFollowTable ==
    \A b \in reconciled :
        (callback[b] = {} /\ \A m \in tasks : m.at = b => m.stage = "sent") =>
            \A p \in Partition :
                LET pa == assignments[b][p]
                IN  /\ Leads(b, pa) <=> isrState[b][p] # NotLed
                    /\ Leads(b, pa) <=> p \in leading[b]
                    /\ fetcher[b][p] = IF Follows(b, pa) THEN pa.leader ELSE NoBroker

\* The survivors: they run and have not missed a broadcast by restarting.
Serves(c, p) ==
    LET pa == assignments[c][p]
    IN  /\ isrState[pa.leader][p] # NotLed
        /\ \A b \in pa.replicas \cap reconciled :
             b # pa.leader => fetcher[b][p] = pa.leader

\* check_partition_failover: a controller that stays in office sees to it that
\* a partition with a live in-sync replica is led by a live broker and that the
\* other survivors fetch from it, though the old leader before and the new one
\* after change the ISR and the controller broadcasts that as well.  Not so if
\* a broadcast begins while calls of another are under way: then a survivor may
\* be left with the overtaken leader, or everyone wait for everyone
\* (StaleLeaderIsFixed).  Nor if the controller has lost its table.
FailoverCompletes ==
    \A c \in Broker, p \in Partition :
        <>[](c \in controller) /\ []apart =>
            <>[](LET pa == assignments[c][p]
                 IN  \/ pa = Absent
                     \/ Candidates(pa, pa.isr, up) = {} /\ pa.leader \notin up
                     \/ pa.leader \in up \ reconciled
                     \/ Serves(c, p))

\* No LeaderAndISR says which is newer, so nothing but the order of their
\* broadcasts keeps failovers, ISR updates and new topics of one controller
\* from overwriting each other on the peers.  While its broadcasts do not
\* overlap and no call fails between live brokers, every broker that has not
\* crashed has the controller's table once the calls are over, whatever
\* crashed and was moved meanwhile.
ViewsStayCurrent ==
    (elections = 1 /\ breaks = 0 /\ apart /\ ~CallsUnderWay) =>
        \A c \in controller, b \in stayed : assignments[b] = assignments[c]

\* FollowerFetcher relies on it: a stale leader gets fixed by
\* reconcile_replication once the broker has observed a new LeaderAndISR.
StaleLeaderIsFixed ==
    \A b \in Broker, p \in Partition :
        (\E m \in tasks : m.at = b /\ m.stage = "applied") ~>
            (b \notin up \/ fetcher[b][p] = FetcherAfter(b, assignments[b][p]))
=============================================================================
