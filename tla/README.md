# Verification of the distributed log broker

TLA+ models of the C++ broker under `src/`, checked with TLC on small instances, and theorems about
them checked with TLAPS for every value of the constants. Paths below are relative to the
repository; `broker.cpp` is `src/src/broker/broker.cpp`, `controller.cpp` is
`src/src/cluster/controller.cpp`, and so on.

## 1. The system

Every broker is one process with the same `--cluster` map of broker ids. It runs one connection
thread per client (`net/server.cpp`), the controller's `run_loop` thread, one `IsrManager` sweep
thread, and one `FollowerFetcher` thread per partition it follows. Brokers talk to each other with
blocking request/response calls (`ClusterMembership::call`), at most one at a time per peer, tried
at most twice.

| Component | State | Operations | Talks to |
|---|---|---|---|
| Controller election (`cluster/controller.*`, `membership.*`) | `role_`, `currentTerm_`, `votedFor_`, `currentLeaderId_`; file `raft_state` | `start_election`, `become_leader`, `step_down`, `broadcast_heartbeats`, `handle_request_vote`, `handle_controller_heartbeat`, `persist_state`, `load_state` | peers, over `call` |
| Partition assignment and failover (`cluster/controller.*`, `broker/broker.*`) | `assignments_`, file `cluster_assignments`, `lastAliveMs_`; `leadingPartitions_`, `followers_` | `create_topic`, `update_isr`, `check_partition_failover`, `broadcast_broker_heartbeats`, `apply_leader_and_isr`, `reconcile_replication` | every broker's `IsrManager`, fetchers, logs |
| Leader replication and ISR (`replication/isr_manager.*`, `follower.*`, `broker.cpp`) | per partition: `isr`, `followerProgress`, last fetch times; `hwm_` | `handle_produce`, `on_leader_append`, `wait_for_hwm`, `on_replica_fetch`, `recompute`, the sweep, the fetch loop | controller (ISR reports), logs |
| Commit log storage (`storage/*`) | segments with `.log` and `.index` files, `nextOffset_`, `hwm_` | `append`, `append_replicated`, `read`, `read_up_to_leo`, `set_high_watermark`, `recover` | produce, fetch and replication handlers |
| Group coordinator (`group/coordinator.*`) | `GroupState` per group; file `__consumer_offsets/<group>.offsets` | `join_group`, `sync_group`, `heartbeat`, `leave_group`, `commit_offset`, `fetch_offset` | consumers |
| Consumer, group mode (`cli/mk-consume.cpp`) | member id, generation, partitions, positions; heartbeat thread | join, sync, resume, poll, commit, rejoin, leave | coordinator, partition leaders |
| Consumer, direct mode (`cli/mk-consume.cpp`) | its position | poll loop over one partition | partition leader |
| Producer (`cli/mk-produce.cpp`) | batches, connection | send, retry, redirect | partition leader |
| Dispatch and metadata (`broker/broker.*`) | connection state | route a request to a component | all |
| Network (`net/*`) | sockets | frames, accept loop | all |
| Wire protocol and codec (`protocol/*`, `common/codec.*`) | none | encode, decode | all |
| Hashing, checksums (`common/murmur2.*`, `crc32.*`) | none | pure functions | producer, storage |
| Command line tools (`cli/mk-broker.cpp`, `mk-admin.cpp`) | none | argument parsing | broker |

What is hard about it:

- *Decisions outlive their locks.* `run_loop` reads the role, releases the lock and then reads the
  term; a controller computes assignments under `mu_` and broadcasts them afterwards;
  `reconcile_replication` copies the table before it takes `followersMu_`; ISR changes are reported
  after `IsrManager::mu_` is released.
- *Two mutexes, one watermark.* `Partition::append` and `IsrManager::recompute` set the same high
  watermark under different locks.
- *No epochs.* `LeaderAndISR`, `IsrUpdate` and commits carry no term or generation that the
  receiver checks, so a late or repeated one overwrites a newer one.
- *Retries.* `call` repeats a request the peer may have handled already.
- *Crashes* between two writes of `raft_state`, inside the rewrite of one of the small files,
  inside an append, inside recovery, inside a rebalance.
- *Handovers.* A deposed leader appends what it had checked before it was deposed, a fetcher is
  replaced while it has a batch in hand, clients retry at whatever a stale table names.
- *Waiting on each other.* A follower's reconcile waits for its fetcher, a fetch for an ISR report,
  a report for the controller's broadcast, a broadcast for the follower. No socket has a timeout.
- *No reaper.* Dead group members are noticed only by another member's heartbeat, blocked threads
  outlive the consumer they serve.

`PROJECT.json` lists each of these as a hazard, at the line where it bites, with the properties
that cover it.

What makes the components correct: one controller per term, elected by votes that survive crashes;
tables that name leaders and ISRs among the replicas, and brokers that do what their tables say;
followers that hold a prefix of the leader's log, a watermark and acknowledgements that never
outrun the ISR; a log that no crash shortens below what was acknowledged and that reads return
exactly; a topic that is split among a group without overlap or gap, with no record skipped; and,
under fair scheduling, that stale controllers step down, replicas converge, dead members are
evicted and partitions get a new leader.

## 2. The modules

| Module | Models | Depends on |
|---|---|---|
| `ControllerElection` | terms, votes, `raft_state`, the two kinds of rounds of `run_loop`, calls with one retry, crashes | |
| `ControllerElection_proof` | theorems about it | `ControllerElection`, TLAPS |
| `MCControllerElection` | model values, symmetry | `ControllerElection` |
| `PartitionFailover` | tables, broadcasts, `reconcile_replication`, failover, ISR reports, crashes | |
| `PartitionFailover_proof` | theorems about its tables | `PartitionFailover`, `NaturalOrder`, TLAPS |
| `FailoverRoles_proof` | theorems about it with one controller | `PartitionFailover_proof` |
| `LeaderHandover` | one partition, several leaders: logs, fetchers, tables, the producer and any reader | |
| `LeaderHandover_proof` | theorems about it | `LeaderHandover`, `NaturalOrder`, TLAPS |
| `LeaderReplication` | one partition, one tenure of its leader: produce, fetch, ISR, watermark | |
| `LeaderReplication_proof` | theorems about it | `LeaderReplication`, TLAPS |
| `MCLeaderReplication` | model values | `LeaderReplication` |
| `AppendOnlyLog` | what storage promises: a log that only grows, its acknowledged part for good | |
| `CommitLog` | segments, sparse index, torn frames, recovery; implements `AppendOnlyLog` | `AppendOnlyLog` |
| `CommitLog_proof` | theorems about it | `CommitLog`, `NaturalOrder`, TLAPS |
| `GroupCoordinator` | one group: coordinator and `mk-consume` processes | |
| `GroupCoordinator_proof` | theorems about it | `GroupCoordinator`, `NaturalOrder`, TLAPS |
| `NaturalOrder` | lemmas: least elements, ranks, and recursion over natural numbers | TLAPS |
| `MCGroupCoordinator` | model values, symmetry | `GroupCoordinator` |

An action is what one thread does in one critical section (`lock_guard`), or between two requests.
Operators named `..._bug` are mutants: plausible mistakes in the operator that follows them. No
behaviour of the specifications uses them; each breaks the property it is listed with.

### ControllerElection

`role`, `currentTerm`, `votedFor`, `currentLeaderId` are the fields under `mu_`; `raftState` is the
file. `StartElection`, `FinishElection`, `ReadRole`, `BroadcastHeartbeats` and `FinishHeartbeats`
are the sections of `run_loop`; the role is read in one section and the term in another
(`controller.cpp:356` and `:505`), which the model keeps apart. `HandleRequestVote` and
`HandleControllerHeartbeat` are the handlers, `ReceiveReply` is what a vote or heartbeat thread does
with its response. `CallRetry` and `CallFails` are the two ways out of `call`: a request whose
connection broke stays in `requests` and may be handled after the caller has gone on. `Crash` keeps
the file, `CrashBetweenWrites` dies between `step_down`'s write and the grant's write in
`handle_request_vote`, `CrashInPersist` dies after `persist_state` emptied the file, wherever it is
called, `Restart` is the constructor. `torn` remembers the brokers that lost their file that way:
term and vote of such a broker start again from nothing. Time is abstracted: an election deadline
may pass whenever the broker is not Leader, which covers every value of the randomised timeouts and
the resets of the deadline by heartbeats and votes. `ballots`, `elected` and `torn` are history
variables.

### PartitionFailover

`assignments[b]` and `file[b]` are a broker's table in memory and on disk; both change in one
critical section. The election is abstracted to its outcome (`BecomeLeader`, `StepDown` at any time,
several at once), since nothing in a `LeaderAndISR` tells terms apart. `BroadcastBrokerHeartbeats`,
`CheckPartitionFailover` and `FinishBroadcast` are a turn of `run_loop`; `CreateTopic` and
`UpdateIsr` are connection threads. A broadcast is one task per peer; `ApplyLeaderAndIsr`,
`AllAssignments` and `ReconcileReplication` are the three sections a task goes through on the peer,
and the last two also run on the controller's own broker after `create_topic` and failover (not
after `update_isr`, as in the code). `CallRetry` leaves a copy of the request behind. A restarted
broker loads its table and does not reconcile (`Restart`); a crash while the table is written leaves
an empty file. The logs are abstracted; a leader's ISR may change to any set its replicas allow
(`ReportIsr`), on a thread of its own or on one that serves a follower's fetch (`by`). Two history
variables: `stayed`, the brokers that never crashed, and `apart`, TRUE until a broadcast begins while
calls of another are under way. The code does not prevent that, and what an overtaken broadcast
leaves behind is then decided by the order of arrival.

What waits for what is part of the model: an ISR report is answered when the broadcast it causes is
over (`AnswerReport`), the fetch it arose from is answered after that, the destructor of that
follower's fetcher waits for the fetch under `followersMu_` (`LockFollowers`, `MustWait`), and
`PeerConn::mu` lets one call at a time through to a peer (`ConnectionFree`), heartbeats included.

### LeaderHandover

`leaders` is the list of the appointments; a broker's `view` is the one its table holds, `role` the
one it has last reconciled, `due` a `LeaderAndISR` that is applied and not reconciled. A broker may
learn of an appointment at any time or miss it, and never goes back (what `PartitionFailover` says
about overtaking broadcasts is not repeated here). `Reconcile` starts the new fetcher before the old
one is waited for (`FinishReconcile`), so both may append; `FetchBatch` reads with the log end of
the moment, `AppendReplicated` appends whatever became of the log since. `Locate`, `CheckLeader`,
`Produce`, `Ack`, `TimedOut`, `Refused`, `Fail`, `Retry` are `mk-produce` with its attempts and
`handle_produce`, whose check and append are two critical sections; `LateProduce` handles a request
whose client has given up. A producer may use acks=all (`acksAll`): it is answered only by a broker
whose `IsrManager` knows the partition (`Registered`: reconciled since its start, and not deposed
since), any other answers `RequestTimedOut` after it has appended.

What a fetch returns is one of `Pages`. `read_clamped` does not scan from the head: it takes the
segment and the index entry that a search over ascending offsets finds (`segment.cpp:144`). In a log
whose offsets ascend that changes nothing (`CommitLog` has the search itself), so there is one page;
in a log that two fetchers wrote, the search may end at any entry, and `StartPositions` lets a page
start at any record. Of such a log only `TypeOK` and
`ProducerGetsThrough` say anything; that `recover` orders segments by name and `roll_segment` names one by a
`nextOffset_` that went back (`partition.cpp:103`) is not modelled. `mk-consume` in direct mode keeps only an offset, so it has no variable:
`ReaderSeesOneLog` considers every page it may have read and every broker it may turn to.

Left to the other modules: ISR, watermark and how long acks wait (`LeaderReplication`), segments and
torn writes (`CommitLog`), the calls (`PartitionFailover`). The history variable `inTurn` is TRUE as
long as every batch arrived at the log end it was asked for, `clean` as long as, besides, every
append extended the longest log there is. The code does not guarantee that: a leader
appointed with a shorter log, a deposed one that still appends, or the second of two fetchers make
logs differ for good. The properties say that nothing else does.

### LeaderReplication

`Produce`, `OnLeaderAppend`, `Ack`, `Timeout` are the steps of `handle_produce`; between the first
two the watermark stands at the log end (the *append window*). `Recompute` is
`IsrManager::recompute`, called by producers, fetches and the sweep; the log end it reads may be
older than the one at the end of its section because `Partition` has a mutex of its own (`LeoRead`).
`FetchSend`, `FetchRead`, `OnReplicaFetch`, `FetchReply` are a fetch, on the follower and in
`handle_replicate`; `LateFetch` is a fetch whose follower has hung up. `FollowerCrash` may leave any
prefix of the batch. `UpdateIsr` and `DropReport` are the best-effort call to the controller.
`Promote` is `reconcile_replication`'s part on a new leader; requests may arrive before it.

### CommitLog and AppendOnlyLog

A segment is its file as a sequence of frames (offset, size) with the index entries, and the
`Segment` object that the process has of it. `AppendRecords` and `AppendReplicated` roll, index and
write; `CrashInAppend` leaves any number of bytes of the buffer in the file, with a torn last frame,
and index entries that run ahead of it; `Recover` scans the last segment and trusts the index of the
others; `CrashInRecover` dies between emptying the index and truncating the log. `ReadClamped`
is `Partition::read_clamped` with `segment_for_offset`, `find_start_position` and `read_from`.
The refinement is `Abstract == INSTANCE AppendOnlyLog WITH log <- Stored, acked <- acked`, where
`Stored` is what can be decoded from the files; `ImplementsLog == Abstract!Spec`. Every batch is
assumed to start at `nextOffset_`. `append` sees to that; `append_replicated` takes the offsets as
they come, and `LogsAreNumbered` in `LeaderHandover` says when they fit.

### GroupCoordinator

`join_group` and `sync_group` block on a condition variable, so each is two steps (`Join`,
`JoinReturns`; `SyncWaits`, `SyncReturns` or `SyncFails`; `SyncPosts` for the leader's), and the
second one runs even when the consumer has died. `Heartbeat` is the heartbeat thread with the
coordinator's eviction sweep, `Leave`, `FetchOffset`, `Poll`, `Commit`, `Rejoin`, `Aborts` are the
steps of `run_group_mode`. Join windows are numbered and `clock` says which deadlines are over.
`CoordinatorRestart` loses every group and keeps the offset files; when it strikes inside
`commit_offset`, `FileAtDeath` may be cut short, and readers start again where the log starts.
`OffsetOverride` gives each consumer its `--offset` (0 for `--from-beginning`) or none: a consumer
with one does not ask `fetch_offset` but takes the override at every join (`ResumePosition`), and its
commits are the whole group's all the same.

## 3. The runs

| Run | Instance | Shows |
|---|---|---|
| `election_crash` | 3 brokers, three elections, terms up to 2, one crash of any kind | `OneVotePerTerm`, `ElectionSafety`, `LeaderWasElected`, `TermsAndVotesStick`, and `VotesRestOnDisk`, the strengthening the proof uses |
| `election_live` | 2 brokers, four elections, terms up to 2, two broken calls, one crash | redirects name brokers that won an election (`KnownLeaderWasElected`); a controller that was outgrown steps down (`OutgrownLeaderStepsDown`) |
| `replication` | one follower, two producers (one with acks=all), lag bound 1, one fault, one lost report | prefix property, real progress, watermark and acks held back by the ISR; convergence |
| `replication_ack_window` | two acks=all producers, no fault | **violated**: an ack is given while an ISR member lacks the record |
| `replication_lost` | one acks=all producer, no fault | **violated**: the controller's ISR holds a follower without an acknowledged record |
| `group_rebalance` | 3 consumers, 3 partitions, five joins, one fault | one owner per partition and generation, a stable group covers the topic, sessions match the assignment, a posted assignment is final |
| `group_offsets` | 2 consumers, one started with `--offset 1`, 2 partitions of up to 2 records, three joins, one fault, one coordinator restart, also inside a commit | at-least-once delivery of everything nobody was told to skip, resuming from disk without `--offset`, eviction of dead members |
| `commit_log` | 5 records of 1 or 2 bytes, 4-byte segments, index every 2 bytes, two crashes | refinement of `AppendOnlyLog`, durable log end, exact reads for every start, clamp and byte budget |
| `failover` | 3 brokers, one partition with 2 replicas, unclean election on, two elections, one suspicion, one broken call | every table names leaders and ISRs among the replicas; tables agree on the replicas |
| `failover_live` | 3 brokers, 3 replicas, one ISR change, one suspicion, one crash | roles follow the table; tables stay sane through lost files; while broadcasts do not overlap, tables of brokers that never crashed become equal and failover completes |
| `failover_deadlock` | 3 brokers, 3 replicas, one ISR change, one suspicion, no crash | **violated**: a follower's reconcile waits for its fetcher for ever |
| `handover` | 3 replicas, one change of leader, one producer with two attempts, one crash or one attempt that fails by itself | records are where their offsets say, unless a batch met a moved log end; logs, copies and what a reader sees, as far as appends went to the longest log; live followers catch up; the producer gets through |

**Bounds.** They cap what would be unbounded: terms (`MaxTerm`), elections (`MaxRounds`), crashes,
broken connections, ISR changes, joins, faults, records. Each is chosen so that the hazard it stands
for happens at least once in every position: one crash may come at any step, one retry at any call;
two terms and three elections are enough for an old leader, a rival in its term, a candidate of the
next one and votes for all of them to coexist; three brokers are the least with a majority short of
all; two elections put two controllers in office at once or one after another; one partition is
enough because partitions are handled independently within one table; one change of leader gives two
tenures, an old leader and a fetcher that is replaced, and a crash and a lost answer, which share a
bound there, each meet every step of both; five joins let three consumers form a
generation and all but one rejoin; segments of 4 bytes with records of 1 and 2 roll after two to
four records, so index entries, rolls and torn frames meet in every alignment within five records.
Two crashes in `commit_log` cover a crash inside the recovery from a crash. The two-broker election
run uses no symmetry, since liveness is checked.

Deadlock checking is off in every run: when a bound is reached (no term, no join, no record left)
the models stop, and a program without clients also comes to rest. That the systems do not stop
earlier is what the liveness properties check.

**Violations.** The three violating runs refute statements of the repository, quoted in
`PROJECT.json` under `findings`:

- *Ack window* (`partition.cpp:94`, `broker.cpp:168`): `append` puts the watermark at the log end,
  `on_leader_append` takes it back later; another request's `wait_for_hwm` in between sees its
  record covered and is acknowledged. `HwmIsReplicated` and `AckIsReplicated` say what does hold:
  outside the window.
- *Lagging ISR member* (`isr_manager.cpp:112`): a follower may lag by `kReplicaMaxLagMessages` and
  be in the ISR, whose watermark then falls back below records that were acknowledged when the ISR
  was smaller.
- *Deadlock* (`broker.cpp:472`): the controller takes a live leader for dead while that leader
  reports an ISR change that a follower's fetch gave rise to. The broadcast reaches the follower,
  whose reconcile destroys its fetcher and so joins its thread; the thread waits for the old leader,
  which has to finish its report first; the report's broadcast waits for the follower's connection,
  which is held by the first one. Nothing times out; `follower.cpp:60` counts on the reconcile. In the
  run the follower is the one that was promoted, and it keeps fetching from the old leader. A follower
  that is only to follow another leader has started its new fetcher by then (`broker.cpp:513`), but
  its reconcile, every later one and the controller's loop hang just the same.

**Fairness.**

- Election: WF of the steps of each running broker's loop, of handling a request whose connection
  still holds (one on a broken connection may be lost), of taking a reply, and of noticing a
  connection that is gone (`CallFails` without spending the bound on breaks). Each is a running
  thread of the code. That none of them is blocked for good is an assumption: the calls of
  `LeaderAndISR` share `PeerConn::mu` with the heartbeats and do not belong to this module, and the
  run `failover_deadlock` shows such a call, and `run_loop` with it, stuck for ever. Nothing is
  assumed of election deadlines, crashes, restarts and breaking connections.
- Replication: WF of `Promote` (the `LeaderAndISR` handler goes on), of the producers' connection
  threads, of each fetcher's loop, of a follower's restart (assumption about the operator), and of
  the reports. Nothing forces a timeout, a lapse, a fault or a lost report, so `Converges` must hold
  with and without them.
- Group: deadlines pass, sessions of members nobody answers for lapse, threads and consumers
  proceed. `Poll` is fair, since the poll loop runs whenever the process does.
- Failover: `run_loop` and the connection threads proceed; dead peers lapse; calls to dead peers,
  of the controller and of leaders that report, fail; a request whose caller died may be lost.
  `FailoverCompletes` speaks of behaviours in which a controller stays in office and its broadcasts
  do not overlap (`apart`). The leaders before and after the failover may change their ISR, as every
  promotion makes them do, and the controller broadcasts that; only a broadcast that begins while
  calls of another are under way is excluded. TLC refutes the property without that premise: a
  survivor is left with the overtaken broadcast's leader, or everyone waits (`failover_deadlock`).
- Handover: reconciles and fetch loops proceed, producers go on. `FinishReconcile` is strongly fair:
  an old fetcher that loops stops after the request it is in. `FollowersCatchUp` and
  `ProducerGetsThrough` assume of the environment that appointments stop and reach everybody; the
  second also that connections hold and the ISR answers in time (`faults = 0`), and for a producer
  with acks=all that the leader has reconciled its appointment since it started. Without the last a
  restarted leader answers `RequestTimedOut` until the attempts are used up (`broker.cpp:173`,
  `isr_manager.cpp:87`), and appends another copy each time.

## 4. The proofs

`ControllerElection_proof` (assumptions: `Broker` finite, `None` not in it, the bounds naturals).
The inductive invariant is `TypeOK /\ VotesRestOnDisk`. `OneVotePerTerm` alone is not inductive: a
restart reads the vote from `raft_state`, so the invariant has to say that the file holds the fields
of a running broker and nothing older of a dead one (`DiskCurrent`), and that every vote ever cast
is on the voter's disk or of an older term (`BallotsOnDisk`). From there a chain leads to the
elections: a granting reply was preceded by the vote (`GrantsCast`), a counted vote was cast in the
round's term (`VotesCast`), a won election rests on a majority of votes cast (`MajorityCast`). Two
majorities of a finite set intersect, in a broker that voted once; that gives `ElectionSafety`.
`LeaderWasElected` and `TermsAndVotesStick` follow with the same invariant. A crash inside
`persist_state` breaks the chain at its first link, and only there: `DiskCurrent` and
`BallotsOnDisk` exempt the brokers in `torn`, and two controllers of one term must share a voter of
that set (`ElectionSafety`).

`KnownLeaderWasElected` needs an invariant of its own (`KnownInv`), since a heartbeat carries a term
that was read after the role: whoever has read the role Leader, is sending heartbeats or has one on
its way won an election of a term up to the one it announces (`BeatersWon`, `HeartbeatsWon`);
retried calls belong to the round (`CallsInRound`), rounds to running brokers (`LoopsRun`). It
rests on `LeaderWasElected` and on terms that do not fall while a broker runs. The theorems hold
for any number of brokers, terms, breaks and crashes.

`LeaderReplication_proof` (assumptions: `Follower` finite and without `Leader`; producers are not
replicas; the bounds naturals). The inductive invariant adds to `TypeOK` that a response in flight
holds records the leader has, from the follower's end on (`BatchIsCurrent`), that followers are
prefixes (`FollowerIsPrefix`), that recorded and pending progress is real (`ProgressIsReal`), and
`HwmIsRecorded`: outside the append window the watermark is at most the recorded progress of every
ISR member. `HwmIsReplicated` is not inductive without the last two, because `recompute` only sees
the recorded progress, never the follower's log. Proved: `TypeOK`, `FollowerIsPrefix`,
`ProgressIsReal`, `HwmIsReplicated`, and from it `AckIsReplicated`.

`GroupCoordinator_proof` (assumptions: `Consumer` finite, the bounds naturals, at least one
partition). The inductive invariant is `GroupInv`. `OneOwner` alone is not inductive: a consumer takes
its partitions from the coordinator's answer, which a thread may fetch long after it was woken. The
invariant says what each consumer remembers of the coordinator (`ClientsInStep`), that member ids are
drawn once (`IdsAreDrawn`), that a generation is made by closing a window and not twice
(`WindowsMakeGenerations`), that the members of a generation are the ones that joined it
(`MembersAreCurrent`), that the assignment is posted once, by the leader (`LeaderPostsOnce`), that
sleepers in `sync_group` and holders of partitions have what was posted (`WaitersAreAssigned`,
`HoldersAreAssigned`), and that what was posted splits the topic (`AssignmentSplits`). The last rests
on `RangeAssignmentSplits`: `compute_range_assignment` gives every partition to one member, for any
number of partitions and members, which needs that members can be ranked (`NaturalOrder`). Proved:
`TypeOK`, `OneOwner`, `HeldIsAssigned`, `StableGroupCoversTopic`, `AssignmentIsFinal`,
`ResumesFromLastCommit` and `NothingSkipped`; for the last two, the offsets in memory are the ones
on disk once the group has been loaded. Both hold whatever overrides the consumers were started with
(`OffsetOverride`): what lies before some consumer's override is exempt in `NothingSkipped`, since
that consumer's commits may carry the group past it, and `ResumesFromLastCommit` is about consumers
without one.

`PartitionFailover_proof` (assumptions: `Broker` a finite set of naturals, not empty; any number of
partitions, any replication factor, unclean election on or off, all bounds naturals). The inductive
invariant is `PlacedInv`. `LeadersHoldReplicas` says nothing of ISR reports and of the ISRs the
leaders keep, from which `update_isr` and `check_partition_failover` fill the tables, so it is not
inductive; and "the ISR is among the replicas" cannot be said of a report, which carries no
replicas. What is inductive is that everything fits one placement of the replicas (`PlacedOn(R)`):
tables, files, calls, copies, kept ISRs and reports. Nothing is placed before the first
`create_topic`, so the placement it computes contradicts nothing (`CreatePlaces`); every other step
keeps it (`PlacedStep`). `TypeOK`, `LeadersHoldReplicas` and `ReplicasAgree` follow, from `Init` and
from `InitCreated`.

`FailoverRoles_proof` proves `RolesFollowTable` and `ViewsStayCurrent`. The first is a theorem under
three conditions: at most one election, no broken call between live brokers, no second
`create_topic`; ISR changes, suspicions, crashes and restarts are free. TLC finds it violated when
any one of the three is dropped: each lets two reconciles of a broker copy its table in one order and
apply it in the other. The proof shows that a broker then works on one `LeaderAndISR` at a time,
calls of a crashed controller included (`OnlyController`), hence a copy of the table stays current
until it is applied (`CopiesAreCurrent`), and that a broker only ever leads partitions it has a
replica of (`LedAreReplicas`): `reconcile_replication` does not unregister a partition it has no
replica of. `ViewsStayCurrent` names its own conditions: one election, no call that fails between live brokers,
no overlapping broadcasts; crashes, restarts, lost files, failovers, ISR changes and created topics
are free. The invariant (`UpToDate`) is that only the controller calls, that what a call carries is
what the controller's table says, and that whatever a broker that never crashed lacks of that table
is on its way to it (`OnItsWay`); a broadcast that begins when no call is under way finds them all
alike. Before the election every table is the same, on disk too (`AllAlike`), so a restart then does
no harm; a broker that restarts later comes back with what its file holds and is left out.

`LeaderHandover_proof` (assumptions: `Broker` finite, with `First` and `Entry` in it, at least one
attempt; any number of producers, elections, crashes and faults) has four invariants.
`HandoverTypes` adds to `TypeOK` that a request is under way only while an attempt is left.
`LogsAreNumbered` says nothing of batches in flight, which `append_replicated` appends
unseen; `Numbered` adds that a batch in hand continues the log end it was asked for, for every
fetcher, replaced ones included. A page of a numbered log is a stretch of it (`PagesAreStretches`),
because there the index search starts at or before the offset; so a batch that meets the log end it
was asked for keeps the log numbered. The other three are about clean runs. `LogsAgree` needs
`OneLog`: offsets are positions, logs are equal where both have a record, and a batch is a stretch
of the log it was read from, which may have moved on. `ReaderSeesOneLog` follows, because a page of
such a log is a stretch of it. `RetriesBoundCopies` counts the requests that may
still be appended along with the copies: each is owed to an attempt (`CopiesOwed`), and a follower
has no more copies than the leader its batch came from (`BatchCopies`). What `read_clamped` returns
is proved of `Picked` by ranks: record k of a page is the one with k - 1 chosen positions before it
(`PickedInOrder`).

`CommitLog_proof` (assumptions: sizes of records and segments are positive, the bounds naturals)
rests on the inductive invariant `LogInv`. `LogEndIsDurable` says nothing of what the files look like while
no process runs, which is what recovery starts from. `Sound` does: the records of every file follow
its base, at most one torn frame follows them, and the records of all files together are as many as
the last file's end and carry their positions as offsets. A running process has its last file whole
and the log end in `nextOffset_` (`Working`). Every operation replaces the frames and the index of
the last file, perhaps a new one (`NewFile`), by ones whose records go on by t (`Lengthened`): t is
the batch, the part of it that a crash kept (`FirstBytesParts`), or empty for a recovery, finished
or not (`RepairedFiles`). That t is what the step adds to the log of `AppendOnlyLog`
(`LogStepRefines`), so `ImplementsLog` needs no other invariant. `Bytes`, `IndexAll` and `Stored`
are folds and recursive functions of the community modules; that their recursions have values at
all, and which, is proved by least counterexample (`RunExists`, `FoldExists` in `NaturalOrder`).

`ReadIsExact` needs two facts that `LogInv` does not give and `FilesInv` adds: files follow one
another, each base the end of the file before it, which is whole (`Chained`), and every entry of an
index that a running process uses names a frame and the byte where that frame starts (`PointsInto`).
An entry may be wrong while no process runs, because a crash leaves index entries ahead of the
records; `recover()` rebuilds the index of the only file this can happen to, and a file is closed
only by a running process, so `load_index` may trust the others. Then decoding starts at a frame at
or before the offset (`ReadFromStart`, `FindsStart`), what is decoded is the log without a start of
it (`DecodedIsTail`), the records before the offset are passed over (`SkippedIsTail`) and the rest
ends at the clamp (`ReadIsPart`).

Only model-checked: every liveness property, which with ENABLED is out of the prover's reach.

## 5. Not modelled, and why

- Files cut in the middle of a line: `raft_state` and a group's offsets are shorter than a stream's
  buffer, so the models lose the whole file or nothing (an offsets file may also keep its first
  entries). A `cluster_assignments` of more than a buffer may end inside an entry; the models have
  it whole or empty.
- Write errors (a full disk): no return value is looked at, so there is no behaviour to model but
  the loss.
- Codec, hashing, framing, the command line tools: straight-line code without shared state.
- Time itself. The join window (1000 ms) is shorter than the heartbeat interval (3333 ms), so two
  consumers can take turns in opening windows that the other one misses (`coordinator.cpp:58`): with
  deadlines that may pass at any time this is one behaviour among many, and whether it can go on for
  ever is a question about the two intervals that needs a timed model.
- A second `CreateTopic` for an existing topic in `failover`: `LeadersHoldReplicas` and
  `ReplicasAgree` are about one creation. With two, TLC finds both violated; nothing in the
  repository says what a second one should do.
- Standalone mode (topics created by the broker itself), `find_coordinator`: no shared state beyond
  the topic map.
- Power loss: files are never synced by the code; the models keep what a process wrote.
- The time between a broker's restart and the next `LeaderAndISR`: it is modelled (`Restart`), but
  `RolesFollowTable` and `FailoverCompletes` are about brokers that have reconciled. A restarted
  broker serves produce requests by its table without being registered with `IsrManager`, and does
  not fetch.

Behaviours seen while modelling that deserve a look and have no run of their own:

- `controller.cpp:505` reads the term after `:356` read the role: a heartbeat may carry a term its
  sender did not win. It names a broker that won an older term (`KnownLeaderWasElected` holds), but
  two brokers may announce the same term.
- `controller.cpp:64`: a crash inside `persist_state` forgets term and vote; two controllers of one
  term are then possible (with `torn` left out of `ElectionSafety`, TLC finds them).
- `controller.cpp:80`: a crash inside `persist_assignments` forgets the table; a broker that comes
  back as controller knows no partition.
- `controller.cpp:291`: entries are computed under `mu_` and sent after it; two threads reach a peer
  in either order and the older entries win for good. `ViewsStayCurrent` and `FailoverCompletes` exclude it
  (`apart`).
- `broker.cpp:495`: an old leader follows from its own log end and keeps a divergent suffix, and
  `broker.cpp:513`: two fetchers may append the same records. `LogsAgree` says when neither
  happens; `LogsAreNumbered` holds in spite of the first, and without it the index search of
  `segment.cpp:146` may start behind records that were asked for.
- `coordinator.cpp:65`: a joiner that gets the lock only after the next window was opened closes
  that window at once and is given a generation it is not a member of. Its `SyncGroup` is refused,
  so ownership stays disjoint (`OneOwner`).
- `broker.cpp:498`: between applying the table and `set_leading`, produce requests meet an
  unregistered partition; the promotion's jump of the watermark then acknowledges them.
- `partition.cpp:94`: consumers can be served records in the append window that the ISR does not
  have.
- `isr_manager.cpp:63`, `:74`, `:149`: reports are sent without the lock and may arrive out of
  order.
- `mk-consume.cpp:266`: a group consumer with `--offset` or `--from-beginning` starts over at every
  join, not only at its first, and its commits move the group's offset back or ahead for everyone.
- `broker.cpp:173`: a leader that restarted and has not reconciled appends acks=all requests and lets
  each of them time out, though it is the leader its table names.
- `coordinator.cpp:187`: a late commit of an old owner moves the offset back; records are
  delivered again, never skipped (`NothingSkipped`).
- `mk-consume.cpp:157`: when only the heartbeat connection breaks, the consumer keeps polling
  partitions that others own by then.
- `create_topic` on an existing topic overwrites its assignments; a broker that leads a partition
  and is no replica afterwards is never told to stop.
- Two controllers at once, and the copy of the table that `broker.cpp:471` takes before
  `followersMu_`, can leave a broker acting on a table it no longer has, until its next
  reconcile. `RolesFollowTable` is checked with one controller.

## 6. Plan for what is left

1. A timed model of the join window against the heartbeat interval.
2. Standalone topic creation.
