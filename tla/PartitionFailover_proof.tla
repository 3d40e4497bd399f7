----------------------- MODULE PartitionFailover_proof -----------------------
(***************************************************************************)
(* Proofs about PartitionFailover for every cluster, every topic and every *)
(* value of the bounds: elections, ISR changes, suspicions, broken calls   *)
(* and crashes.                                                            *)
(***************************************************************************)
EXTENDS PartitionFailover, NaturalOrder

-----------------------------------------------------------------------------
(* create_topic and check_partition_failover *)

\* A set of brokers has a first, a second, ... and a last one.
LEMMA NthIsMember ==
    ASSUME NEW S \in SUBSET Broker, NEW i \in 0 .. Cardinality(S) - 1
    PROVE  Nth(S, i) \in S
<1>1. S \in SUBSET Nat /\ IsFiniteSet(S)
    BY BrokerAssumption, FS_Subset
<1>2. PICK x \in S : Cardinality(Below(S, x)) = i
    BY <1>1, RanksNumber
<1>3. QED
    BY <1>2 DEF Nth, Below

\* create_topic places the replicas of a partition on live brokers and makes one of
\* them its leader.
LEMMA PlacementIsSane ==
    ASSUME NEW alive \in SUBSET Broker, alive # {}, NEW p \in Partition
    PROVE  /\ Placement(alive, p) \in PartitionAssignment
           /\ Placement(alive, p) # Absent
           /\ Placement(alive, p).leader \in Placement(alive, p).replicas
           /\ Placement(alive, p).isr = Placement(alive, p).replicas
<1> DEFINE n == Cardinality(alive)
           rf == IF ReplicationFactor = 0 THEN 1
                 ELSE IF ReplicationFactor < n THEN ReplicationFactor ELSE n
           replicas == {Nth(alive, (p + k) % n) : k \in 0 .. rf - 1}
<1>1. n \in Nat \ {0} /\ p \in Nat
  <2>1. IsFiniteSet(alive)
      BY BrokerAssumption, FS_Subset
  <2>2. n \in Nat /\ n # 0
      BY <2>1, FS_CardinalityType, FS_EmptySet
  <2>3. QED
      BY <2>2, TopicAssumption DEF Partition
<1>2. rf \in Nat /\ 0 \in 0 .. rf - 1
    BY <1>1, TopicAssumption
<1>3. Placement(alive, p) = [leader |-> Nth(alive, p % n), replicas |-> replicas, isr |-> replicas]
    BY DEF Placement
<1> HIDE DEF n, rf
<1>4. \A k \in Nat : (p + k) % n \in 0 .. n - 1
    BY <1>1
<1>5. \A i \in 0 .. n - 1 : Nth(alive, i) \in alive
    BY NthIsMember DEF n
<1>6. replicas \subseteq alive
    BY <1>2, <1>4, <1>5
<1>7. Nth(alive, p % n) \in replicas
  <2>1. p + 0 = p
      BY <1>1
  <2>2. QED
      BY <1>2, <2>1
<1>8. Nth(alive, p % n) \in Broker /\ replicas \in SUBSET Broker
    BY <1>6, <1>7
<1> HIDE DEF replicas
<1>9. NoBroker \notin Broker
    BY BrokerAssumption DEF NoBroker
<1>10. QED
    BY <1>3, <1>7, <1>8, <1>9 DEF PartitionAssignment, Absent

\* The least broker of a set is one of them.
LEMMA LeastIsMember ==
    ASSUME NEW S \in SUBSET Broker, S # {}
    PROVE  Least(S) \in S
BY LeastExists, BrokerAssumption DEF Least

\* check_partition_failover leaves a partition as it is, or moves leader and ISR to
\* replicas it has.
LEMMA PromotedIsAReplica ==
    ASSUME NEW pa \in PartitionAssignment, NEW alive \in SUBSET Broker
    PROVE  \/ Promoted(pa, alive) = pa
           \/ /\ pa # Absent
              /\ Promoted(pa, alive) \in PartitionAssignment
              /\ Promoted(pa, alive) # Absent
              /\ Promoted(pa, alive).replicas = pa.replicas
              /\ Promoted(pa, alive).leader \in pa.isr \cup pa.replicas
              /\ Promoted(pa, alive).isr \subseteq pa.isr \cup pa.replicas
<1> DEFINE insync == Candidates(pa, pa.isr, alive)
           others == Candidates(pa, pa.replicas, alive)
<1> SUFFICES ASSUME Promoted(pa, alive) # pa
             PROVE  /\ pa # Absent
                    /\ Promoted(pa, alive) \in PartitionAssignment
                    /\ Promoted(pa, alive) # Absent
                    /\ Promoted(pa, alive).replicas = pa.replicas
                    /\ Promoted(pa, alive).leader \in pa.isr \cup pa.replicas
                    /\ Promoted(pa, alive).isr \subseteq pa.isr \cup pa.replicas
    OBVIOUS
<1>1. pa # Absent
    BY DEF Promoted
<1>2. pa \in [leader : Broker, replicas : SUBSET Broker, isr : SUBSET Broker]
    BY <1>1 DEF PartitionAssignment
<1>3. insync \subseteq pa.isr /\ others \subseteq pa.replicas /\ insync \subseteq Broker /\ others \subseteq Broker
    BY <1>2 DEF Candidates
<1>4. NoBroker \notin Broker
    BY BrokerAssumption DEF NoBroker
<1>5. \/ insync # {} /\ Promoted(pa, alive) = [pa EXCEPT !.leader = Least(insync), !.isr = insync]
      \/ others # {} /\ Promoted(pa, alive) = [pa EXCEPT !.leader = Least(others), !.isr = {Least(others)}]
    BY DEF Promoted
<1>6. ASSUME NEW leader \in Broker, NEW isr \in SUBSET Broker,
             Promoted(pa, alive) = [pa EXCEPT !.leader = leader, !.isr = isr],
             leader \in pa.isr \cup pa.replicas, isr \subseteq pa.isr \cup pa.replicas
      PROVE  /\ Promoted(pa, alive) \in PartitionAssignment
             /\ Promoted(pa, alive) # Absent
             /\ Promoted(pa, alive).replicas = pa.replicas
             /\ Promoted(pa, alive).leader \in pa.isr \cup pa.replicas
             /\ Promoted(pa, alive).isr \subseteq pa.isr \cup pa.replicas
  <2> DEFINE new == [pa EXCEPT !.leader = leader, !.isr = isr]
  <2>1. /\ new \in [leader : Broker, replicas : SUBSET Broker, isr : SUBSET Broker]
        /\ new.leader = leader /\ new.isr = isr /\ new.replicas = pa.replicas
      BY <1>2
  <2>2. new # Absent
      BY <1>4, <2>1 DEF Absent
  <2> HIDE DEF new
  <2>3. Promoted(pa, alive) = new
      BY <1>6 DEF new
  <2>4. QED
      BY <1>6, <2>1, <2>2, <2>3 DEF PartitionAssignment
<1> HIDE DEF insync, others
<1>7. CASE insync # {} /\ Promoted(pa, alive) = [pa EXCEPT !.leader = Least(insync), !.isr = insync]
  <2>1. Least(insync) \in insync
      BY <1>3, <1>7, LeastIsMember
  <2>2. QED
      BY <1>1, <1>3, <1>6, <1>7, <2>1
<1>8. CASE others # {} /\ Promoted(pa, alive) = [pa EXCEPT !.leader = Least(others), !.isr = {Least(others)}]
  <2>1. Least(others) \in others
      BY <1>3, <1>8, LeastIsMember
  <2>2. /\ Least(others) \in Broker /\ Least(others) \in pa.isr \cup pa.replicas
        /\ {Least(others)} \in SUBSET Broker /\ {Least(others)} \subseteq pa.isr \cup pa.replicas
      BY <1>3, <2>1
  <2>3. QED
      BY <1>1, <1>6, <1>8, <2>2
<1>9. QED
    BY <1>5, <1>7, <1>8

-----------------------------------------------------------------------------
(* Types *)

\* An entry that is not absent is a record.
LEMMA EntryFields ==
    ASSUME NEW pa \in PartitionAssignment
    PROVE  /\ pa = Absent \/ pa.leader \in Broker
           /\ pa.replicas \in SUBSET Broker /\ pa.isr \in SUBSET Broker
           /\ \A isr \in SUBSET Broker : pa # Absent =>
                /\ [pa EXCEPT !.isr = isr] \in PartitionAssignment
                /\ [pa EXCEPT !.isr = isr] # Absent
                /\ [pa EXCEPT !.isr = isr].leader = pa.leader
                /\ [pa EXCEPT !.isr = isr].replicas = pa.replicas
                /\ [pa EXCEPT !.isr = isr].isr = isr
BY BrokerAssumption DEF PartitionAssignment, Absent, NoBroker

\* A table without entries.
LEMMA NoTableType == NoTable \in Table /\ \A p \in Partition : NoTable[p] = Absent
BY DEF NoTable, Table, PartitionAssignment

\* The requests of a broadcast.
LEMMA BroadcastTypes ==
    ASSUME NEW b \in Broker, NEW thread \in {"loop", "create", "isr"}, NEW n \in 0 .. MaxReports,
           NEW entries \in Table
    PROVE  /\ Broadcast(b, thread, n, entries) \subseteq Task
           /\ \A m \in Broadcast(b, thread, n, entries) :
                m.entries = entries /\ m.copy = NoTable /\ m.stage = "sent"
           /\ thread \in {"loop", "create"} => OwnReconcile(b, thread) \in Task
BY NoTableType, BoundAssumption DEF Broadcast, OwnReconcile, Task

\* What a step may write into a table keeps it a table.
LEMMA SetTableTypes ==
    ASSUME TypeOK, NEW b \in Broker, NEW table \in Table, SetTable(b, table)
    PROVE  /\ assignments' \in [Broker -> Table] /\ file' \in [Broker -> Table]
BY DEF TypeOK, SetTable

\* The table after check_partition_failover, and the entries that changed.
LEMMA FailoverTables ==
    ASSUME TypeOK, NEW b \in Broker
    PROVE  LET table == [p \in Partition |-> Promoted(assignments[b][p], Alive(b))]
               entries == [p \in Partition |->
                             IF table[p] # assignments[b][p] THEN table[p] ELSE Absent]
           IN  table \in Table /\ entries \in Table
<1> DEFINE table == [p \in Partition |-> Promoted(assignments[b][p], Alive(b))]
           entries == [p \in Partition |->
                         IF table[p] # assignments[b][p] THEN table[p] ELSE Absent]
<1>1. Alive(b) \in SUBSET Broker
    BY DEF TypeOK, Alive
<1>2. \A p \in Partition : assignments[b][p] \in PartitionAssignment
    BY DEF TypeOK, Table
<1>3. \A p \in Partition : Promoted(assignments[b][p], Alive(b)) \in PartitionAssignment
    BY <1>1, <1>2, PromotedIsAReplica
<1>4. Absent \in PartitionAssignment
    BY DEF PartitionAssignment
<1>5. QED
    BY <1>3, <1>4 DEF Table

\* The table create_topic makes.
LEMMA CreatedTable ==
    ASSUME NEW alive \in SUBSET Broker, alive # {}
    PROVE  [p \in Partition |-> Placement(alive, p)] \in Table
BY PlacementIsSane DEF Table

\* A turned-over replica is registered or not, and fetches from a broker or from none.
LEMMA ReconcileTypes ==
    ASSUME NEW b \in Broker, NEW pa \in PartitionAssignment, NEW st \in PartitionState
    PROVE  /\ StateAfter(b, pa, st) \in PartitionState
           /\ FetcherAfter(b, pa) \in Broker \cup {NoBroker}
<1>1. pa.replicas \in SUBSET Broker /\ (pa = Absent \/ pa.leader \in Broker)
    BY EntryFields
<1>2. Follows(b, pa) => pa # Absent
    BY DEF Follows, Absent
<1>3. QED
    BY <1>1, <1>2 DEF StateAfter, FetcherAfter, PartitionState, NotLed

\* What a crash leaves of calls and reports.
LEMMA CrashTypes ==
    ASSUME TypeOK, NEW b \in Broker, Crash(b)
    PROVE  /\ tasks' \subseteq Task
           /\ \A m \in tasks' : \E o \in tasks : m.entries = o.entries /\ m.copy = o.copy
           /\ reports' \subseteq Report
           /\ \A r \in reports' : \E o \in reports : r.p = o.p /\ r.isr = o.isr
<1>1. PICK kept \in SUBSET tasks :
        tasks' = {m \in tasks : m.from # b /\ m.at # b} \cup {Orphan(m) : m \in kept}
    BY DEF Crash
<1>2. ASSUME NEW m \in Task
      PROVE  Orphan(m) \in Task /\ Orphan(m).entries = m.entries /\ Orphan(m).copy = m.copy
    BY DEF Orphan, Task
<1>3. tasks \subseteq Task
    BY DEF TypeOK
<1>4. tasks' \subseteq Task
    BY <1>1, <1>2, <1>3
<1>5. \A m \in tasks' : \E o \in tasks : m.entries = o.entries /\ m.copy = o.copy
    BY <1>1, <1>2, <1>3
<1> DEFINE left(r) == [r EXCEPT !.from = IF @ = b THEN NoBroker ELSE @,
                                !.by = IF b \in {@, r.from} THEN NoBroker ELSE @]
<1>6. ASSUME NEW r \in Report
      PROVE  left(r) \in Report /\ left(r).p = r.p /\ left(r).isr = r.isr
    BY DEF Report
<1>7. reports' = {left(r) : r \in reports}
    BY DEF Crash
<1>8. reports \subseteq Report
    BY DEF TypeOK
<1> HIDE DEF left
<1>9. reports' \subseteq Report /\ \A r \in reports' : \E o \in reports : r.p = o.p /\ r.isr = o.isr
    BY <1>6, <1>7, <1>8
<1>10. QED
    BY <1>4, <1>5, <1>9

\* No step of a controller, a broker or a connection takes a variable out of its range.
LEMMA TypeStep ==
    ASSUME TypeOK, [Next]_vars
    PROVE  TypeOK'
<1> USE DEF tableVars, loopVars, roleVars, countVars, pastVars
<1> BoundAssumption
    BY BoundAssumption
<1>1. ASSUME NEW b \in Broker, BecomeLeader(b) PROVE TypeOK'
    BY <1>1 DEF BecomeLeader, TypeOK
<1>2. ASSUME NEW b \in Broker, StepDown(b) PROVE TypeOK'
    BY <1>2 DEF StepDown, TypeOK
<1>3. ASSUME NEW b \in Broker, BroadcastBrokerHeartbeats(b) PROVE TypeOK'
  <2>1. PICK late \in SUBSET (up \ {b}) :
          /\ suspicions + Cardinality(late) <= MaxSuspicions
          /\ suspicions' = suspicions + Cardinality(late)
          /\ fresh' = [fresh EXCEPT ![b] = @ \cup (up \ ({b} \cup late))]
      BY <1>3 DEF BroadcastBrokerHeartbeats
  <2>2. Cardinality(late) \in Nat
    <3>1. late \in SUBSET Broker
        BY DEF TypeOK
    <3>2. QED
        BY <3>1, BrokerAssumption, FS_Subset, FS_CardinalityType
  <2>3. suspicions' \in 0 .. MaxSuspicions
      BY <2>1, <2>2 DEF TypeOK
  <2>4. fresh' \in [Broker -> SUBSET Broker]
      BY <2>1 DEF TypeOK
  <2>5. QED
      BY <1>3, <2>3, <2>4 DEF BroadcastBrokerHeartbeats, TypeOK
<1>4. ASSUME NEW b \in Broker, NEW x \in Broker, Lapse(b, x) PROVE TypeOK'
    BY <1>4 DEF Lapse, TypeOK
<1>5. ASSUME NEW b \in Broker, CheckPartitionFailover(b) PROVE TypeOK'
  <2> DEFINE table == [p \in Partition |-> Promoted(assignments[b][p], Alive(b))]
             entries == [p \in Partition |->
                           IF table[p] # assignments[b][p] THEN table[p] ELSE Absent]
  <2>1. table \in Table /\ entries \in Table
      BY FailoverTables
  <2>2. \/ UNCHANGED <<tableVars, tasks, callback>>
        \/ /\ SetTable(b, table)
           /\ tasks' = tasks \cup Broadcast(b, "loop", 0, entries)
           /\ callback' = [callback EXCEPT ![b] = @ \cup {"loop"}]
      BY <1>5 DEF CheckPartitionFailover
  <2>3. /\ assignments' \in [Broker -> Table] /\ file' \in [Broker -> Table]
        /\ tasks' \subseteq Task /\ callback' \in [Broker -> SUBSET {"loop", "create"}]
    <3> HIDE DEF table, entries
    <3>1. CASE UNCHANGED <<tableVars, tasks, callback>>
        BY <3>1 DEF TypeOK
    <3>2. CASE /\ SetTable(b, table)
               /\ tasks' = tasks \cup Broadcast(b, "loop", 0, entries)
               /\ callback' = [callback EXCEPT ![b] = @ \cup {"loop"}]
      <4>1. Broadcast(b, "loop", 0, entries) \subseteq Task
          BY <2>1, BroadcastTypes
      <4>2. QED
          BY <2>1, <3>2, <4>1, SetTableTypes DEF TypeOK
    <3>3. QED
        BY <2>2, <3>1, <3>2
  <2>4. stayed' = stayed /\ apart' \in BOOLEAN
    <3>1. UNCHANGED pastVars \/ StayApart
        BY <1>5 DEF CheckPartitionFailover
    <3>2. QED
        BY <3>1 DEF StayApart, TypeOK
  <2>5. QED
      BY <1>5, <2>3, <2>4 DEF CheckPartitionFailover, TypeOK
<1>6. ASSUME NEW b \in Broker, CreateTopic(b) PROVE TypeOK'
  <2> DEFINE table == [p \in Partition |-> Placement(Alive(b), p)]
  <2>1. table \in Table
    <3>1. Alive(b) \in SUBSET Broker /\ Alive(b) # {}
        BY DEF TypeOK, Alive
    <3>2. QED
        BY <3>1, CreatedTable
  <2>2. SetTable(b, table) /\ tasks' = tasks \cup Broadcast(b, "create", 0, table)
      BY <1>6 DEF CreateTopic
  <2>3. /\ assignments' \in [Broker -> Table] /\ file' \in [Broker -> Table]
        /\ tasks' \subseteq Task
    <3> HIDE DEF table
    <3>1. Broadcast(b, "create", 0, table) \subseteq Task
        BY <2>1, BroadcastTypes
    <3>2. QED
        BY <2>1, <2>2, <3>1, SetTableTypes DEF TypeOK
  <2>4. creates' \in 0 .. MaxCreates /\ callback' \in [Broker -> SUBSET {"loop", "create"}]
      BY <1>6 DEF CreateTopic, TypeOK
  <2>5. stayed' = stayed /\ apart' \in BOOLEAN
      BY <1>6 DEF CreateTopic, StayApart, TypeOK
  <2>6. QED
      BY <1>6, <2>3, <2>4, <2>5 DEF CreateTopic, TypeOK
<1>7. ASSUME NEW b \in Broker, NEW thread \in {"loop", "create"}, FinishBroadcast(b, thread)
      PROVE  TypeOK'
  <2>1. OwnReconcile(b, thread) \in Task
      BY BroadcastTypes, NoTableType
  <2>2. QED
      BY <1>7, <2>1 DEF FinishBroadcast, TypeOK
<1>8. ASSUME NEW b \in Broker, NEW p \in Partition, ReportIsr(b, p) PROVE TypeOK'
  <2>1. PICK others \in SUBSET (isrState[b][p].replicas \ {b}), to \in Broker,
             by \in {NoBroker} \cup {f \in up : fetcher[f][p] = b /\ ~FetchWaits(f, p)} :
          LET isr == others \cup ({b} \cap isrState[b][p].replicas)
          IN  /\ isrState' = [isrState EXCEPT ![b][p].isr = isr]
              /\ reports' = reports \cup {[from |-> b, by |-> by, to |-> to, p |-> p,
                                           isr |-> isr, n |-> changes', stage |-> "sent"]}
      BY <1>8 DEF ReportIsr
  <2> DEFINE isr == others \cup ({b} \cap isrState[b][p].replicas)
             r == [from |-> b, by |-> by, to |-> to, p |-> p,
                   isr |-> isr, n |-> changes', stage |-> "sent"]
  <2>2. isrState[b][p] \in PartitionState
      BY DEF TypeOK
  <2>3. isr \in SUBSET Broker
      BY <2>2 DEF PartitionState
  <2>4. changes' \in 1 .. MaxReports
      BY <1>8 DEF ReportIsr, TypeOK
  <2>5. by \in Broker \cup {NoBroker}
      BY DEF TypeOK
  <2> HIDE DEF isr
  <2>6. r \in Report
      BY <2>3, <2>4, <2>5 DEF Report
  <2>7. isrState' \in [Broker -> [Partition -> PartitionState]]
    <3>1. isrState' = [isrState EXCEPT ![b][p].isr = isr]
        BY <2>1 DEF isr
    <3>2. [isrState[b][p] EXCEPT !.isr = isr] \in PartitionState
        BY <2>2, <2>3 DEF PartitionState
    <3>3. QED
        BY <3>1, <3>2 DEF TypeOK
  <2>8. reports' \subseteq Report
    <3>1. reports' = reports \cup {r}
        BY <2>1 DEF isr
    <3>2. QED
        BY <2>6, <3>1 DEF TypeOK
  <2>9. QED
      BY <1>8, <2>4, <2>7, <2>8 DEF ReportIsr, TypeOK
<1>9. ASSUME NEW b \in Broker, Crash(b) PROVE TypeOK'
  <2>1. tasks' \subseteq Task /\ reports' \subseteq Report
      BY <1>9, CrashTypes
  <2>2. file' \in [Broker -> Table]
    <3>1. file \in [Broker -> Table]
        BY DEF TypeOK
    <3>2. file' = file \/ file' = [file EXCEPT ![b] = NoTable]
        BY <1>9 DEF Crash
    <3>3. QED
        BY <3>1, <3>2, NoTableType
  <2>3. isrState' \in [Broker -> [Partition -> PartitionState]]
    <3>1. [p \in Partition |-> NotLed] \in [Partition -> PartitionState]
        BY DEF NotLed, PartitionState
    <3>2. QED
        BY <1>9, <3>1 DEF Crash, TypeOK
  <2>4. /\ controller' \subseteq up' /\ up' \subseteq Broker /\ reconciled' \subseteq up'
        /\ assignments' \in [Broker -> Table]
        /\ fresh' \in [Broker -> SUBSET Broker] /\ loop' \in [Broker -> {"idle", "check"}]
        /\ callback' \in [Broker -> SUBSET {"loop", "create"}]
        /\ leading' \in [Broker -> SUBSET Partition]
        /\ fetcher' \in [Broker -> [Partition -> Broker \cup {NoBroker}]]
        /\ stayed' \subseteq up' /\ apart' \in BOOLEAN
      BY <1>9 DEF Crash, TypeOK
  <2>5. /\ crashes < MaxCrashes /\ crashes' = crashes + 1
        /\ UNCHANGED <<creates, elections, changes, suspicions, breaks>>
      BY <1>9 DEF Crash
  <2>6. crashes' \in 0 .. MaxCrashes
      BY <2>5 DEF TypeOK
  <2>7. QED
      BY <2>1, <2>2, <2>3, <2>4, <2>5, <2>6 DEF TypeOK
<1>10. ASSUME NEW b \in Broker, Restart(b) PROVE TypeOK'
    BY <1>10 DEF Restart, TypeOK
<1>11. ASSUME NEW r \in reports, UpdateIsr(r) PROVE TypeOK'
  <2> DEFINE entry == [assignments[r.to][r.p] EXCEPT !.isr = r.isr]
             table == [assignments[r.to] EXCEPT ![r.p] = entry]
             entries == [NoTable EXCEPT ![r.p] = entry]
  <2>1. /\ r \in Report /\ r.to \in Broker /\ r.p \in Partition /\ r.isr \in SUBSET Broker
        /\ r.n \in 0 .. MaxReports /\ [r EXCEPT !.stage = "broadcast"] \in Report
    <3>1. r \in Report
        BY DEF TypeOK
    <3>2. [r EXCEPT !.stage = "broadcast"] \in Report
        BY <3>1 DEF Report
    <3>3. /\ r.to \in Broker /\ r.p \in Partition /\ r.isr \in SUBSET Broker
          /\ r.n \in 0 .. MaxReports
        BY <3>1 DEF Report
    <3>4. QED
        BY <3>1, <3>2, <3>3
  <2>2. CASE /\ assignments[r.to][r.p] # Absent
             /\ SetTable(r.to, table) /\ StayApart
             /\ tasks' = tasks \cup Broadcast(r.to, "isr", r.n, entries)
             /\ reports' = (reports \ {r}) \cup {[r EXCEPT !.stage = "broadcast"]}
    <3>1. entry \in PartitionAssignment
      <4>1. assignments[r.to][r.p] \in PartitionAssignment
          BY <2>1 DEF TypeOK, Table
      <4>2. QED
          BY <2>1, <2>2, <4>1, EntryFields
    <3> HIDE DEF entry
    <3>2. table \in Table /\ entries \in Table
        BY <2>1, <3>1, NoTableType DEF TypeOK, Table
    <3> HIDE DEF table, entries
    <3>3. Broadcast(r.to, "isr", r.n, entries) \subseteq Task
        BY <2>1, <3>2, BroadcastTypes
    <3>4. assignments' \in [Broker -> Table] /\ file' \in [Broker -> Table]
        BY <2>1, <2>2, <3>2, SetTableTypes
    <3>5. stayed' = stayed /\ apart' \in BOOLEAN
        BY <2>2 DEF StayApart, TypeOK
    <3>6. QED
        BY <1>11, <2>1, <2>2, <3>3, <3>4, <3>5 DEF UpdateIsr, TypeOK
  <2>3. CASE reports' = reports \ {r} /\ UNCHANGED <<tableVars, tasks, pastVars>>
      BY <1>11, <2>3 DEF UpdateIsr, TypeOK
  <2>4. QED
      BY <1>11, <2>2, <2>3 DEF UpdateIsr
<1>12. ASSUME NEW r \in reports, AnswerReport(r) \/ LoseReport(r) PROVE TypeOK'
    BY <1>12 DEF AnswerReport, LoseReport, TypeOK
<1>13. ASSUME NEW m \in tasks PROVE
         /\ m \in Task /\ Orphan(m) \in Task /\ m.at \in Broker
         /\ m.entries \in Table /\ m.copy \in Table
         /\ \A stage \in {"applied", "locked"} : [m EXCEPT !.stage = stage] \in Task
         /\ \A copy \in Table : [m EXCEPT !.stage = "read", !.copy = copy] \in Task
    BY DEF TypeOK, Orphan, Task
<1>14. ASSUME NEW m \in tasks, CallFails(m) PROVE TypeOK'
    BY <1>14 DEF CallFails, TypeOK
<1>15. ASSUME NEW m \in tasks, CallRetry(m) PROVE TypeOK'
  <2>1. tasks' \subseteq Task
      BY <1>13, <1>15 DEF CallRetry, TypeOK
  <2>2. QED
      BY <1>15, <2>1 DEF CallRetry, TypeOK
<1>16. ASSUME NEW m \in tasks, ApplyLeaderAndIsr(m) PROVE TypeOK'
  <2>1. Overlay(assignments[m.at], m.entries) \in Table
    <3>1. assignments[m.at] \in Table /\ m.entries \in Table
        BY <1>13 DEF TypeOK
    <3>2. QED
        BY <3>1 DEF Overlay, Table
  <2>2. assignments' \in [Broker -> Table] /\ file' \in [Broker -> Table]
      BY <1>13, <1>16, <2>1, SetTableTypes DEF ApplyLeaderAndIsr
  <2>3. tasks' \subseteq Task
      BY <1>13, <1>16 DEF ApplyLeaderAndIsr, TypeOK
  <2>4. QED
      BY <1>16, <2>2, <2>3 DEF ApplyLeaderAndIsr, TypeOK
<1>17. ASSUME NEW m \in tasks, AllAssignments(m) PROVE TypeOK'
  <2>1. tasks' \subseteq Task
      BY <1>13, <1>17 DEF AllAssignments, TypeOK
  <2>2. QED
      BY <1>17, <2>1 DEF AllAssignments, TypeOK
<1>18. ASSUME NEW m \in tasks, LockFollowers(m) PROVE TypeOK'
  <2>1. tasks' \subseteq Task
      BY <1>13, <1>18 DEF LockFollowers, TypeOK
  <2>2. QED
      BY <1>18, <2>1 DEF LockFollowers, TypeOK
<1>19. ASSUME NEW m \in tasks, ReconcileReplication(m) PROVE TypeOK'
  <2>1. \A p \in Partition :
          /\ StateAfter(m.at, m.copy[p], isrState[m.at][p]) \in PartitionState
          /\ FetcherAfter(m.at, m.copy[p]) \in Broker \cup {NoBroker}
    <3>1. \A p \in Partition : m.copy[p] \in PartitionAssignment
        BY <1>13 DEF Table
    <3>2. \A p \in Partition : isrState[m.at][p] \in PartitionState
        BY <1>13 DEF TypeOK
    <3>3. QED
        BY <1>13, <3>1, <3>2, ReconcileTypes
  <2>2. /\ isrState' \in [Broker -> [Partition -> PartitionState]]
        /\ fetcher' \in [Broker -> [Partition -> Broker \cup {NoBroker}]]
        /\ leading' \in [Broker -> SUBSET Partition]
      BY <1>19, <2>1 DEF ReconcileReplication, TypeOK
  <2>3. QED
      BY <1>19, <2>2 DEF ReconcileReplication, TypeOK
<1>20. CASE UNCHANGED vars
    BY <1>20 DEF vars, TypeOK
<1>21. QED
    BY <1>1, <1>2, <1>3, <1>4, <1>5, <1>6, <1>7, <1>8, <1>9, <1>10, <1>11, <1>12, <1>14,
       <1>15, <1>16, <1>17, <1>18, <1>19, <1>20 DEF Next

-----------------------------------------------------------------------------
(* Where the replicas are *)

\* An entry for a partition whose replicas are held: it names them, its leader is one
\* of them and so is everyone in its ISR.
Fits(pa, held) ==
    pa # Absent => /\ pa.replicas = held
                   /\ pa.leader \in held
                   /\ pa.isr \subseteq held

TableFits(table, R) == \A p \in Partition : Fits(table[p], R[p])

\* Everything that is or may become an entry of some table fits one placement R of the
\* replicas: tables, files, calls, copies, the ISRs that leaders keep and report.
PlacedOn(R) ==
    /\ \A b \in Broker : TableFits(assignments[b], R) /\ TableFits(file[b], R)
    /\ \A m \in tasks : TableFits(m.entries, R) /\ TableFits(m.copy, R)
    /\ \A b \in Broker, p \in Partition :
          isrState[b][p].replicas \subseteq R[p] /\ isrState[b][p].isr \subseteq R[p]
    /\ \A r \in reports : r.isr \subseteq R[r.p]

Placements == [Partition -> SUBSET Broker]
Nowhere == [p \in Partition |-> {}]

\* A table fits when a fitting one is overlaid with fitting entries.
LEMMA OverlayFits ==
    ASSUME NEW R, NEW table, NEW entries, TableFits(table, R), TableFits(entries, R)
    PROVE  TableFits(Overlay(table, entries), R)
BY DEF TableFits, Overlay

\* The empty table fits every placement.
LEMMA NoTableFits == ASSUME NEW R PROVE TableFits(NoTable, R)
BY DEF TableFits, NoTable, Fits

\* check_partition_failover trusts what it finds, and leaves it fitting.
LEMMA FailoverFits ==
    ASSUME TypeOK, NEW b \in Broker, NEW R, TableFits(assignments[b], R)
    PROVE  LET table == [p \in Partition |-> Promoted(assignments[b][p], Alive(b))]
               entries == [p \in Partition |->
                             IF table[p] # assignments[b][p] THEN table[p] ELSE Absent]
           IN  TableFits(table, R) /\ TableFits(entries, R)
<1> DEFINE table == [p \in Partition |-> Promoted(assignments[b][p], Alive(b))]
           entries == [p \in Partition |->
                         IF table[p] # assignments[b][p] THEN table[p] ELSE Absent]
<1>1. Alive(b) \in SUBSET Broker
    BY DEF TypeOK, Alive
<1>2. ASSUME NEW p \in Partition PROVE Fits(Promoted(assignments[b][p], Alive(b)), R[p])
  <2>1. assignments[b][p] \in PartitionAssignment /\ Fits(assignments[b][p], R[p])
      BY DEF TypeOK, Table, TableFits
  <2>2. QED
      BY <1>1, <2>1, PromotedIsAReplica DEF Fits
<1>3. QED
    BY <1>2 DEF TableFits, Fits

\* Whatever a step writes into one broker's table and sends to the others.
LEMMA WriteFits ==
    ASSUME TypeOK, NEW R, PlacedOn(R), NEW b \in Broker, NEW table, NEW entries,
           NEW thread, NEW n, TableFits(table, R), TableFits(entries, R),
           SetTable(b, table), tasks' = tasks \cup Broadcast(b, thread, n, entries)
    PROVE  /\ \A x \in Broker : TableFits(assignments'[x], R) /\ TableFits(file'[x], R)
           /\ \A m \in tasks' : TableFits(m.entries, R) /\ TableFits(m.copy, R)
<1>1. \A x \in Broker : /\ assignments'[x] = IF x = b THEN table ELSE assignments[x]
                        /\ file'[x] = IF x = b THEN table ELSE file[x]
    BY DEF SetTable, TypeOK
<1>2. \A m \in Broadcast(b, thread, n, entries) : m.entries = entries /\ m.copy = NoTable
    BY DEF Broadcast
<1>3. QED
    BY <1>1, <1>2, NoTableFits DEF PlacedOn

\* No step but a create_topic moves a replica, names a leader or grows an ISR beyond them.
LEMMA PlacedStep ==
    ASSUME TypeOK, NEW R \in Placements, PlacedOn(R), [Next]_vars, creates' = creates
    PROVE  PlacedOn(R)'
<1> USE DEF tableVars, loopVars, roleVars, countVars, pastVars
<1> DEFINE States == \A b \in Broker, p \in Partition :
                        /\ isrState[b][p].replicas \subseteq R[p]
                        /\ isrState[b][p].isr \subseteq R[p]
<1>1. CASE UNCHANGED <<assignments, file, tasks, isrState, reports>>
    BY <1>1 DEF PlacedOn
<1>2. ASSUME NEW b \in Broker, CheckPartitionFailover(b) PROVE PlacedOn(R)'
  <2> DEFINE table == [p \in Partition |-> Promoted(assignments[b][p], Alive(b))]
             entries == [p \in Partition |->
                           IF table[p] # assignments[b][p] THEN table[p] ELSE Absent]
  <2>1. TableFits(table, R) /\ TableFits(entries, R)
      BY FailoverFits DEF PlacedOn
  <2>2. \/ UNCHANGED <<tableVars, tasks>>
        \/ SetTable(b, table) /\ tasks' = tasks \cup Broadcast(b, "loop", 0, entries)
      BY <1>2 DEF CheckPartitionFailover
  <2>3. UNCHANGED <<isrState, reports>>
      BY <1>2 DEF CheckPartitionFailover
  <2> HIDE DEF table, entries
  <2>4. QED
      BY <1>1, <2>1, <2>2, <2>3, WriteFits DEF PlacedOn
<1>3. ASSUME NEW b \in Broker, CreateTopic(b) PROVE FALSE
    BY <1>3 DEF CreateTopic, TypeOK
<1>4. ASSUME NEW b \in Broker, NEW thread \in {"loop", "create"}, FinishBroadcast(b, thread)
      PROVE  PlacedOn(R)'
  <2>1. OwnReconcile(b, thread).entries = NoTable /\ OwnReconcile(b, thread).copy = NoTable
      BY DEF OwnReconcile
  <2>2. QED
      BY <1>4, <2>1, NoTableFits DEF FinishBroadcast, PlacedOn
<1>5. ASSUME NEW b \in Broker, NEW p \in Partition, ReportIsr(b, p) PROVE PlacedOn(R)'
  <2>1. PICK others \in SUBSET (isrState[b][p].replicas \ {b}), to \in Broker,
             by \in {NoBroker} \cup {f \in up : fetcher[f][p] = b /\ ~FetchWaits(f, p)} :
          LET isr == others \cup ({b} \cap isrState[b][p].replicas)
          IN  /\ isrState' = [isrState EXCEPT ![b][p].isr = isr]
              /\ reports' = reports \cup {[from |-> b, by |-> by, to |-> to, p |-> p,
                                           isr |-> isr, n |-> changes', stage |-> "sent"]}
      BY <1>5 DEF ReportIsr
  <2> DEFINE isr == others \cup ({b} \cap isrState[b][p].replicas)
  <2>2. isr \subseteq R[p]
      BY DEF PlacedOn
  <2>3. \A x \in Broker, q \in Partition :
          /\ isrState'[x][q].replicas = isrState[x][q].replicas
          /\ isrState'[x][q].isr = IF x = b /\ q = p THEN isr ELSE isrState[x][q].isr
      BY <2>1 DEF TypeOK, PartitionState
  <2>4. \A r \in reports' : r \in reports \/ (r.p = p /\ r.isr = isr)
      BY <2>1
  <2> HIDE DEF isr
  <2>5. UNCHANGED <<assignments, file, tasks>>
      BY <1>5 DEF ReportIsr
  <2>6. QED
      BY <2>2, <2>3, <2>4, <2>5 DEF PlacedOn
<1>6. ASSUME NEW b \in Broker, Crash(b) PROVE PlacedOn(R)'
  <2>1. /\ \A m \in tasks' : \E o \in tasks : m.entries = o.entries /\ m.copy = o.copy
        /\ \A r \in reports' : \E o \in reports : r.p = o.p /\ r.isr = o.isr
      BY <1>6, CrashTypes
  <2>2. /\ assignments' = assignments
        /\ file' = file \/ file' = [file EXCEPT ![b] = NoTable]
        /\ isrState' = [isrState EXCEPT ![b] = [p \in Partition |-> NotLed]]
      BY <1>6 DEF Crash
  <2>3. \A x \in Broker : TableFits(file'[x], R)
    <3>1. \A x \in Broker : file'[x] = file[x] \/ file'[x] = NoTable
        BY <2>2 DEF TypeOK
    <3>2. QED
        BY <3>1, NoTableFits DEF PlacedOn
  <2>4. \A x \in Broker, p \in Partition :
          isrState'[x][p].replicas \subseteq R[p] /\ isrState'[x][p].isr \subseteq R[p]
      BY <2>2 DEF PlacedOn, TypeOK, NotLed
  <2>5. QED
      BY <2>1, <2>2, <2>3, <2>4 DEF PlacedOn
<1>7. ASSUME NEW b \in Broker, Restart(b) PROVE PlacedOn(R)'
    BY <1>7 DEF Restart, PlacedOn, TypeOK
<1>8. ASSUME NEW r \in reports, UpdateIsr(r) PROVE PlacedOn(R)'
  <2> DEFINE entry == [assignments[r.to][r.p] EXCEPT !.isr = r.isr]
             table == [assignments[r.to] EXCEPT ![r.p] = entry]
             entries == [NoTable EXCEPT ![r.p] = entry]
  <2>1. /\ r.to \in Broker /\ r.p \in Partition /\ r.isr \in SUBSET Broker
        /\ [r EXCEPT !.stage = "broadcast"].p = r.p
        /\ [r EXCEPT !.stage = "broadcast"].isr = r.isr
    <3>1. r \in Report
        BY DEF TypeOK
    <3>2. QED
        BY <3>1 DEF Report
  <2>2. \A o \in reports' : o.isr \subseteq R[o.p]
    <3>1. reports' \subseteq reports \cup {[r EXCEPT !.stage = "broadcast"]}
        BY <1>8 DEF UpdateIsr
    <3>2. QED
        BY <2>1, <3>1 DEF PlacedOn
  <2>3. isrState' = isrState
      BY <1>8 DEF UpdateIsr
  <2>4. CASE /\ assignments[r.to][r.p] # Absent
             /\ SetTable(r.to, table)
             /\ tasks' = tasks \cup Broadcast(r.to, "isr", r.n, entries)
    <3>1. Fits(entry, R[r.p])
      <4>1. assignments[r.to][r.p] \in PartitionAssignment /\ Fits(assignments[r.to][r.p], R[r.p])
          BY <2>1 DEF TypeOK, Table, PlacedOn, TableFits
      <4>2. r.isr \subseteq R[r.p]
          BY DEF PlacedOn
      <4>3. QED
          BY <2>1, <2>4, <4>1, <4>2, EntryFields DEF Fits
    <3> HIDE DEF entry
    <3>2. TableFits(table, R)
        BY <2>1, <3>1 DEF TypeOK, Table, PlacedOn, TableFits
    <3>3. TableFits(entries, R)
        BY <2>1, <3>1, NoTableFits DEF TableFits, NoTable
    <3> HIDE DEF table, entries
    <3>4. QED
        BY <2>1, <2>2, <2>3, <2>4, <3>2, <3>3, WriteFits DEF PlacedOn
  <2>5. CASE UNCHANGED <<tableVars, tasks>>
      BY <2>2, <2>3, <2>5 DEF PlacedOn
  <2>6. QED
      BY <1>8, <2>4, <2>5 DEF UpdateIsr
<1>9. ASSUME NEW r \in reports, AnswerReport(r) \/ LoseReport(r) PROVE PlacedOn(R)'
    BY <1>9 DEF AnswerReport, LoseReport, PlacedOn
<1>10. ASSUME NEW m \in tasks
       PROVE  /\ m \in Task /\ m.at \in Broker
              /\ Orphan(m).entries = m.entries /\ Orphan(m).copy = m.copy
              /\ TableFits(m.entries, R) /\ TableFits(m.copy, R)
    BY DEF TypeOK, Orphan, Task, PlacedOn
<1>11. ASSUME NEW m \in tasks, CallFails(m) \/ CallRetry(m) PROVE PlacedOn(R)'
    BY <1>10, <1>11 DEF CallFails, CallRetry, PlacedOn
<1>12. ASSUME NEW m \in tasks, ApplyLeaderAndIsr(m) PROVE PlacedOn(R)'
  <2>1. TableFits(Overlay(assignments[m.at], m.entries), R)
      BY <1>10, OverlayFits DEF PlacedOn
  <2>2. \A x \in Broker : TableFits(assignments'[x], R) /\ TableFits(file'[x], R)
      BY <1>12, <2>1 DEF ApplyLeaderAndIsr, SetTable, TypeOK, PlacedOn
  <2>3. \A o \in tasks' : TableFits(o.entries, R) /\ TableFits(o.copy, R)
    <3>0. /\ [m EXCEPT !.stage = "applied"].entries = m.entries
          /\ [m EXCEPT !.stage = "applied"].copy = m.copy
        BY <1>10 DEF Task
    <3>1. tasks' = (tasks \ {m}) \cup {[m EXCEPT !.stage = "applied"]}
        BY <1>12 DEF ApplyLeaderAndIsr
    <3>2. QED
        BY <1>10, <3>0, <3>1 DEF PlacedOn
  <2>4. UNCHANGED <<isrState, reports>>
      BY <1>12 DEF ApplyLeaderAndIsr
  <2>5. QED
      BY <2>2, <2>3, <2>4 DEF PlacedOn
<1>13. ASSUME NEW m \in tasks, AllAssignments(m) PROVE PlacedOn(R)'
  <2>1. \A o \in tasks' : TableFits(o.entries, R) /\ TableFits(o.copy, R)
    <3>0. /\ [m EXCEPT !.stage = "read", !.copy = assignments[m.at]].entries = m.entries
          /\ [m EXCEPT !.stage = "read", !.copy = assignments[m.at]].copy = assignments[m.at]
        BY <1>10 DEF Task
    <3>1. tasks' = (tasks \ {m}) \cup {[m EXCEPT !.stage = "read", !.copy = assignments[m.at]]}
        BY <1>13 DEF AllAssignments
    <3>2. TableFits(assignments[m.at], R)
        BY <1>10 DEF PlacedOn
    <3>3. QED
        BY <1>10, <3>0, <3>1, <3>2 DEF PlacedOn
  <2>2. UNCHANGED <<assignments, file, isrState, reports>>
      BY <1>13 DEF AllAssignments
  <2>3. QED
      BY <2>1, <2>2 DEF PlacedOn
<1>14. ASSUME NEW m \in tasks, LockFollowers(m) PROVE PlacedOn(R)'
  <2>1. \A o \in tasks' : TableFits(o.entries, R) /\ TableFits(o.copy, R)
    <3>0. /\ [m EXCEPT !.stage = "locked"].entries = m.entries
          /\ [m EXCEPT !.stage = "locked"].copy = m.copy
        BY <1>10 DEF Task
    <3>1. tasks' = (tasks \ {m}) \cup {[m EXCEPT !.stage = "locked"]}
        BY <1>14 DEF LockFollowers
    <3>2. QED
        BY <1>10, <3>0, <3>1 DEF PlacedOn
  <2>2. UNCHANGED <<assignments, file, isrState, reports>>
      BY <1>14 DEF LockFollowers
  <2>3. QED
      BY <2>1, <2>2 DEF PlacedOn
<1>15. ASSUME NEW m \in tasks, ReconcileReplication(m) PROVE PlacedOn(R)'
  <2>1. ASSUME NEW p \in Partition
        PROVE  LET st == StateAfter(m.at, m.copy[p], isrState[m.at][p])
               IN  st.replicas \subseteq R[p] /\ st.isr \subseteq R[p]
    <3>1. /\ Fits(m.copy[p], R[p])
          /\ isrState[m.at][p].replicas \subseteq R[p] /\ isrState[m.at][p].isr \subseteq R[p]
        BY <1>10 DEF PlacedOn, TableFits
    <3>2. Leads(m.at, m.copy[p]) => m.copy[p] # Absent
        BY <1>10, BrokerAssumption DEF Leads, Absent, NoBroker
    <3>3. QED
        BY <3>1, <3>2 DEF StateAfter, NotLed, Fits
  <2>2. \A x \in Broker, p \in Partition :
          isrState'[x][p] = IF x = m.at THEN StateAfter(x, m.copy[p], isrState[x][p])
                                        ELSE isrState[x][p]
      BY <1>10, <1>15 DEF ReconcileReplication, TypeOK
  <2>3. \A x \in Broker, p \in Partition :
          isrState'[x][p].replicas \subseteq R[p] /\ isrState'[x][p].isr \subseteq R[p]
      BY <2>1, <2>2 DEF PlacedOn
  <2>4. UNCHANGED <<assignments, file, reports>> /\ tasks' \subseteq tasks
      BY <1>15 DEF ReconcileReplication
  <2>5. QED
      BY <2>3, <2>4 DEF PlacedOn
<1>16. QED
    BY <1>1, <1>2, <1>3, <1>4, <1>5, <1>6, <1>7, <1>8, <1>9, <1>11, <1>12, <1>13, <1>14, <1>15
       DEF Next, vars, BecomeLeader, StepDown, BroadcastBrokerHeartbeats, Lapse

\* The first create_topic finds nothing it could contradict.
LEMMA CreatePlaces ==
    ASSUME TypeOK, PlacedOn(Nowhere), NEW b \in Broker, CreateTopic(b)
    PROVE  \E R \in Placements : PlacedOn(R)'
<1> DEFINE table == [p \in Partition |-> Placement(Alive(b), p)]
<1>1. Alive(b) \in SUBSET Broker /\ Alive(b) # {}
    BY DEF TypeOK, Alive
<1>2. [p \in Partition |-> Placement(Alive(b), p).replicas] \in Placements
    BY <1>1, PlacementIsSane, EntryFields DEF Placements
<1>3. PICK R \in Placements : TableFits(table, R)
    BY <1>1, <1>2, PlacementIsSane DEF TableFits, Fits
<1>4. PlacedOn(R)
  <2>1. ASSUME NEW t, TableFits(t, Nowhere) PROVE TableFits(t, R)
      BY <2>1 DEF TableFits, Nowhere, Fits
  <2>2. QED
      BY <2>1 DEF PlacedOn, Nowhere, TypeOK, Report
<1>5. SetTable(b, table) /\ tasks' = tasks \cup Broadcast(b, "create", 0, table)
    BY DEF CreateTopic
<1>6. UNCHANGED <<isrState, reports>>
    BY DEF CreateTopic, roleVars
<1> HIDE DEF table
<1>7. PlacedOn(R)'
    BY <1>3, <1>4, <1>5, <1>6, WriteFits DEF PlacedOn
<1>8. QED
    BY <1>2, <1>7

\* Before the first create_topic nothing is placed; after it, one placement holds.
OncePlaced ==
    /\ creates = 0 => PlacedOn(Nowhere)
    /\ creates <= 1 => \E R \in Placements : PlacedOn(R)

PlacedInv == TypeOK /\ OncePlaced

\* No counter is set back or passes a value over, and only create_topic places replicas.
CountsUp ==
    /\ elections' \in {elections, elections + 1} /\ breaks' \in {breaks, breaks + 1}
    /\ crashes' \in {crashes, crashes + 1} /\ changes' \in {changes, changes + 1}
    /\ creates' \in {creates, creates + 1}

\* Every step of every thread leaves the counters as they are or adds one.
LEMMA CountersGrow ==
    ASSUME [Next]_vars
    PROVE  CountsUp /\ (creates' = creates \/ \E b \in Broker : CreateTopic(b))
<1> DEFINE Goal == CountsUp /\ (creates' = creates \/ \E b \in Broker : CreateTopic(b))
<1>1. ASSUME UNCHANGED countVars PROVE Goal
    BY <1>1 DEF countVars, CountsUp
<1>2. ASSUME UNCHANGED vars PROVE Goal
    BY <1>1, <1>2 DEF vars, countVars
<1>3. ASSUME NEW b \in Broker, BecomeLeader(b) PROVE Goal
    BY <1>3 DEF BecomeLeader, CountsUp
<1>4. ASSUME NEW b \in Broker, StepDown(b) PROVE Goal
  <2>1. UNCHANGED countVars
      BY <1>4 DEF StepDown
  <2>2. QED
      BY <1>1, <2>1
<1>5. ASSUME NEW b \in Broker, BroadcastBrokerHeartbeats(b) PROVE Goal
    BY <1>5 DEF BroadcastBrokerHeartbeats, CountsUp
<1>6. ASSUME NEW b \in Broker, CheckPartitionFailover(b) PROVE Goal
  <2>1. UNCHANGED countVars
      BY <1>6 DEF CheckPartitionFailover
  <2>2. QED
      BY <1>1, <2>1
<1>7. ASSUME NEW b \in Broker, NEW x \in Broker, Lapse(b, x) PROVE Goal
    BY <1>7 DEF Lapse, CountsUp
<1>8. ASSUME NEW b \in Broker, CreateTopic(b) PROVE Goal
    BY <1>8 DEF CreateTopic, CountsUp
<1>9. ASSUME NEW b \in Broker, NEW thread, FinishBroadcast(b, thread) PROVE Goal
  <2>1. UNCHANGED countVars
      BY <1>9 DEF FinishBroadcast
  <2>2. QED
      BY <1>1, <2>1
<1>10. ASSUME NEW b \in Broker, NEW p \in Partition, ReportIsr(b, p) PROVE Goal
    BY <1>10 DEF ReportIsr, CountsUp
<1>11. ASSUME NEW b \in Broker, Crash(b) PROVE Goal
    BY <1>11 DEF Crash, CountsUp
<1>12. ASSUME NEW b \in Broker, Restart(b) PROVE Goal
  <2>1. UNCHANGED countVars
      BY <1>12 DEF Restart
  <2>2. QED
      BY <1>1, <2>1
<1>13. ASSUME NEW r \in reports, UpdateIsr(r) PROVE Goal
  <2>1. UNCHANGED countVars
      BY <1>13 DEF UpdateIsr
  <2>2. QED
      BY <1>1, <2>1
<1>14. ASSUME NEW r \in reports, AnswerReport(r) PROVE Goal
  <2>1. UNCHANGED countVars
      BY <1>14 DEF AnswerReport
  <2>2. QED
      BY <1>1, <2>1
<1>15. ASSUME NEW r \in reports, LoseReport(r) PROVE Goal
    BY <1>15 DEF LoseReport, CountsUp
<1>16. ASSUME NEW m \in tasks, CallFails(m) PROVE Goal
    BY <1>16 DEF CallFails, CountsUp
<1>17. ASSUME NEW m \in tasks, CallRetry(m) PROVE Goal
    BY <1>17 DEF CallRetry, CountsUp
<1>18. ASSUME NEW m \in tasks, ApplyLeaderAndIsr(m) PROVE Goal
  <2>1. UNCHANGED countVars
      BY <1>18 DEF ApplyLeaderAndIsr
  <2>2. QED
      BY <1>1, <2>1
<1>19. ASSUME NEW m \in tasks, AllAssignments(m) PROVE Goal
  <2>1. UNCHANGED countVars
      BY <1>19 DEF AllAssignments
  <2>2. QED
      BY <1>1, <2>1
<1>20. ASSUME NEW m \in tasks, LockFollowers(m) PROVE Goal
  <2>1. UNCHANGED countVars
      BY <1>20 DEF LockFollowers
  <2>2. QED
      BY <1>1, <2>1
<1>21. ASSUME NEW m \in tasks, ReconcileReplication(m) PROVE Goal
  <2>1. UNCHANGED countVars
      BY <1>21 DEF ReconcileReplication
  <2>2. QED
      BY <1>1, <2>1
<1> HIDE DEF Goal
<1> DEFINE OfBroker(b) ==
             \/ BecomeLeader(b) \/ StepDown(b)
             \/ BroadcastBrokerHeartbeats(b) \/ CheckPartitionFailover(b)
             \/ \E x \in Broker : Lapse(b, x)
             \/ CreateTopic(b)
             \/ \E thread \in {"loop", "create"} : FinishBroadcast(b, thread)
             \/ \E p \in Partition : ReportIsr(b, p)
             \/ Crash(b) \/ Restart(b)
           OfReport(r) == UpdateIsr(r) \/ AnswerReport(r) \/ LoseReport(r)
           OfCall(m) ==
             \/ CallFails(m) \/ CallRetry(m)
             \/ ApplyLeaderAndIsr(m) \/ AllAssignments(m)
             \/ LockFollowers(m) \/ ReconcileReplication(m)
<1>22. ASSUME NEW b \in Broker, OfBroker(b) PROVE Goal
  <2>1. CASE BecomeLeader(b) \/ StepDown(b)
      BY <1>3, <1>4, <2>1
  <2>2. CASE BroadcastBrokerHeartbeats(b) \/ CheckPartitionFailover(b)
      BY <1>5, <1>6, <2>2
  <2>3. CASE \E x \in Broker : Lapse(b, x)
      BY <1>7, <2>3
  <2>4. CASE CreateTopic(b)
      BY <1>8, <2>4
  <2>5. CASE \E thread \in {"loop", "create"} : FinishBroadcast(b, thread)
      BY <1>9, <2>5
  <2>6. CASE \E p \in Partition : ReportIsr(b, p)
      BY <1>10, <2>6
  <2>7. CASE Crash(b) \/ Restart(b)
      BY <1>11, <1>12, <2>7
  <2>8. QED
      BY <1>22, <2>1, <2>2, <2>3, <2>4, <2>5, <2>6, <2>7
<1>23. ASSUME NEW r \in reports, OfReport(r) PROVE Goal
    BY <1>13, <1>14, <1>15, <1>23
<1>24. ASSUME NEW m \in tasks, OfCall(m) PROVE Goal
  <2>1. CASE CallFails(m) \/ CallRetry(m)
      BY <1>16, <1>17, <2>1
  <2>2. CASE ApplyLeaderAndIsr(m) \/ AllAssignments(m)
      BY <1>18, <1>19, <2>2
  <2>3. CASE LockFollowers(m) \/ ReconcileReplication(m)
      BY <1>20, <1>21, <2>3
  <2>4. QED
      BY <1>24, <2>1, <2>2, <2>3
<1>25. Next => \/ \E b \in Broker : OfBroker(b)
               \/ \E r \in reports : OfReport(r)
               \/ \E m \in tasks : OfCall(m)
    BY DEF Next
<1> HIDE DEF OfBroker, OfReport, OfCall
<1>26. Goal
    BY <1>2, <1>22, <1>23, <1>24, <1>25
<1>27. QED
    BY <1>26 DEF Goal

\* The first create_topic places the replicas, and no other step touches them.
LEMMA PlacedInvStep ==
    ASSUME PlacedInv, [Next]_vars
    PROVE  PlacedInv'
<1>1. TypeOK /\ TypeOK'
    BY TypeStep DEF PlacedInv
<1>2. Nowhere \in Placements
    BY DEF Nowhere, Placements
<1>3. CASE creates' = creates
  <2>1. creates' = 0 => PlacedOn(Nowhere)'
      BY <1>1, <1>2, <1>3, PlacedStep DEF PlacedInv, OncePlaced
  <2>2. ASSUME creates' <= 1 PROVE \E R \in Placements : PlacedOn(R)'
    <3>1. PICK R \in Placements : PlacedOn(R)
        BY <1>3, <2>2 DEF PlacedInv, OncePlaced
    <3>2. QED
        BY <1>1, <1>3, <3>1, PlacedStep
  <2>3. QED
      BY <1>1, <2>1, <2>2 DEF PlacedInv, OncePlaced
<1>4. ASSUME NEW b \in Broker, CreateTopic(b) PROVE PlacedInv'
  <2>1. creates' = creates + 1 /\ creates \in Nat
      BY <1>1, <1>4 DEF CreateTopic, TypeOK
  <2>2. creates' <= 1 => \E R \in Placements : PlacedOn(R)'
    <3>1. creates' <= 1 => creates = 0
        BY <2>1
    <3>2. QED
        BY <1>1, <1>4, <3>1, CreatePlaces DEF PlacedInv, OncePlaced
  <2>3. QED
      BY <1>1, <2>1, <2>2 DEF PlacedInv, OncePlaced
<1>5. creates' = creates \/ \E b \in Broker : CreateTopic(b)
    BY CountersGrow
<1>6. QED
    BY <1>3, <1>4, <1>5

\* A new cluster holds no table.
LEMMA PlacedInvInit == Init => PlacedInv
<1> SUFFICES ASSUME Init PROVE PlacedInv
    OBVIOUS
<1>1. TypeOK
    BY NoTableType, BoundAssumption
       DEF Init, InitWith, TypeOK, PartitionState, NotLed
<1>2. PlacedOn(Nowhere)
    BY NoTableFits DEF Init, InitWith, PlacedOn, Nowhere, NotLed
<1>3. Nowhere \in Placements
    BY DEF Nowhere, Placements
<1>4. QED
    BY <1>1, <1>2, <1>3 DEF PlacedInv, OncePlaced

\* A cluster that has its topic: every broker has the table and does what it says.
LEMMA CreatedInit ==
    ASSUME InitCreated
    PROVE  TypeOK /\ \E R \in Placements : PlacedOn(R)
<1> DEFINE table == [p \in Partition |-> Placement(Broker, p)]
           R == [p \in Partition |-> Placement(Broker, p).replicas]
<1>1. Broker \in SUBSET Broker /\ Broker # {}
    BY BrokerAssumption
<1>2. table \in Table /\ TableFits(table, R) /\ R \in Placements
    BY <1>1, CreatedTable, PlacementIsSane, EntryFields DEF TableFits, Fits, Placements
<1>3. \A p \in Partition : table[p] \in PartitionAssignment /\ table[p] # Absent
                           /\ R[p] = table[p].replicas
    BY <1>1, PlacementIsSane
<1>4. InitWith(table,
            [b \in Broker |-> [p \in Partition |-> StateAfter(b, table[p], NotLed)]],
            [b \in Broker |-> [p \in Partition |->
                IF Follows(b, table[p]) THEN table[p].leader ELSE NoBroker]],
            [b \in Broker |-> {p \in Partition : Leads(b, table[p])}], Broker)
    BY DEF InitCreated
<1> HIDE DEF table, R
<1>5. NotLed \in PartitionState
    BY DEF NotLed, PartitionState
<1>6. \A b \in Broker, p \in Partition :
        /\ StateAfter(b, table[p], NotLed) \in PartitionState
        /\ StateAfter(b, table[p], NotLed).replicas \subseteq R[p]
        /\ StateAfter(b, table[p], NotLed).isr \subseteq R[p]
        /\ FetcherAfter(b, table[p]) \in Broker \cup {NoBroker}
    BY <1>3, <1>5, ReconcileTypes DEF StateAfter, NotLed
<1>7. TypeOK
  <2>1. assignments \in [Broker -> Table] /\ file \in [Broker -> Table]
      BY <1>2, <1>4 DEF InitWith
  <2>2. /\ isrState \in [Broker -> [Partition -> PartitionState]]
        /\ fetcher \in [Broker -> [Partition -> Broker \cup {NoBroker}]]
        /\ leading \in [Broker -> SUBSET Partition]
      BY <1>4, <1>6 DEF InitWith, FetcherAfter
  <2>3. QED
      BY <1>4, <2>1, <2>2, BoundAssumption DEF InitWith, TypeOK
<1>8. PlacedOn(R)
    BY <1>2, <1>4, <1>6 DEF InitWith, PlacedOn
<1>9. QED
    BY <1>2, <1>7, <1>8

-----------------------------------------------------------------------------
(* The theorems *)

\* Tables, calls and replication roles keep their types, in a new cluster and in one that
\* has its topic.
THEOREM TypeCorrect == Spec \/ SpecCreated => []TypeOK
<1>1. Init => TypeOK
    BY PlacedInvInit DEF PlacedInv
<1>2. InitCreated => TypeOK
    BY CreatedInit
<1>3. TypeOK /\ [Next]_vars => TypeOK'
    BY TypeStep
<1>4. QED
    BY <1>1, <1>2, <1>3, PTL DEF Spec, SpecCreated

\* Up to the first create_topic nothing is placed, and then once.
LEMMA PlacedInvHolds == Spec => []PlacedInv
<1>1. PlacedInv /\ [Next]_vars => PlacedInv'
    BY PlacedInvStep
<1>2. QED
    BY <1>1, PlacedInvInit, PTL DEF Spec

\* What one placement implies of the tables.
LEMMA PlacedTables ==
    ASSUME TypeOK, NEW R \in Placements, PlacedOn(R)
    PROVE  LeadersHoldReplicas /\ ReplicasAgree
<1>1. \A pa, held : Fits(pa, held) => Sane(pa)
    BY DEF Fits, Sane
<1>2. LeadersHoldReplicas
    BY <1>1 DEF LeadersHoldReplicas, PlacedOn, TableFits
<1>3. ReplicasAgree
    BY DEF ReplicasAgree, PlacedOn, TableFits, Fits
<1>4. QED
    BY <1>2, <1>3

\* No table, file, call or copy ever names a leader or an ISR member that holds no
\* replica, whichever controllers, failovers, ISR reports, retries and crashes met.
THEOREM LeadersAreReplicas == Spec => []LeadersHoldReplicas
<1>1. PlacedInv => LeadersHoldReplicas
    BY PlacedTables DEF PlacedInv, OncePlaced, LeadersHoldReplicas
<1>2. QED
    BY <1>1, PlacedInvHolds, PTL

\* All tables agree on where the replicas are.
THEOREM PlacementIsUnique == Spec => []ReplicasAgree
<1>1. PlacedInv => ReplicasAgree
    BY PlacedTables DEF PlacedInv, OncePlaced, ReplicasAgree
<1>2. QED
    BY <1>1, PlacedInvHolds, PTL

\* A cluster that has its topic keeps sane and agreeing tables for as long as nobody
\* creates it again.
THEOREM CreatedTablesStaySane ==
    SpecCreated /\ [](creates = 0) => [](LeadersHoldReplicas /\ ReplicasAgree)
<1> DEFINE I == TypeOK /\ \E R \in Placements : PlacedOn(R)
<1>1. InitCreated => I
    BY CreatedInit
<1>2. I /\ [Next]_vars /\ creates = 0 /\ (creates = 0)' => I'
  <2> SUFFICES ASSUME I, [Next]_vars, creates = 0, creates' = 0 PROVE I'
      OBVIOUS
  <2>1. PICK R \in Placements : PlacedOn(R)
      OBVIOUS
  <2>2. PlacedOn(R)'
      BY <2>1, PlacedStep
  <2>3. QED
      BY <2>2, TypeStep
<1>3. I => LeadersHoldReplicas /\ ReplicasAgree
    BY PlacedTables
<1> HIDE DEF I
<1>4. QED
    BY <1>1, <1>2, <1>3, PTL DEF SpecCreated
=============================================================================
