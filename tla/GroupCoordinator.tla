-------------------------- MODULE GroupCoordinator --------------------------
(***************************************************************************)
(* One consumer group: GroupCoordinator on the group's coordinator broker  *)
(* and the mk-consume processes that run the group protocol against it.    *)
(*                                                                         *)
(* A consumer has one request outstanding on its main connection; while it *)
(* waits, a connection thread of the broker works for it.  A step is what  *)
(* that thread does in one critical section of GroupState::mu, or what the *)
(* consumer does between two requests.  join_group and sync_group block on *)
(* GroupState::cv, so they take two steps, and the second one runs even    *)
(* when the consumer that asked has died.  A heartbeat thread per consumer *)
(* has its own connection.                                                 *)
(*                                                                         *)
(* Time is only compared with deadlines.  Join windows are numbered; clock *)
(* is the last window whose deadline is over.  stale holds the members     *)
(* whose last heartbeat is more than sessionTimeoutMs ago.  Member ids are *)
(* the numbers generate_member_id appends to the group's name.             *)
(*                                                                         *)
(* An operator whose name ends in _bug is a mutant: a plausible mistake in *)
(* the operator that follows it.                                           *)
(***************************************************************************)
EXTENDS Integers, FiniteSets, FiniteSetsExt

CONSTANTS
    Consumer,       \* mk-consume processes
    OffsetOverride, \* a consumer's --offset (0: --from-beginning), NoOffset without
    PartitionCount, \* partitions of the topic
    MaxRecords,     \* bound: records of a partition
    MaxJoins,       \* bound: join requests one coordinator process handles
    MaxFaults,      \* bound: consumers that crash, heartbeat connections that break
    MaxRestarts     \* bound: restarts of the coordinator broker

Partition == 0 .. PartitionCount - 1
MemberId == 0 .. MaxJoins - 1
NoMember == -1
NoOffset == -1

ASSUME ConsumerAssumption == IsFiniteSet(Consumer)
ASSUME BoundAssumption ==
    /\ PartitionCount \in Nat \ {0} /\ MaxRecords \in Nat /\ MaxJoins \in Nat
    /\ MaxFaults \in Nat /\ MaxRestarts \in Nat
ASSUME OverrideAssumption == OffsetOverride \in [Consumer -> 0 .. MaxRecords \cup {NoOffset}]

VARIABLES
    \* GroupState
    generationId, leaderId, members, rebalanceInProgress, needsRebalance,
    syncReady,
    assignment,      \* member id -> partitions
    window,          \* number of the last join window; its deadline is joinDeadlineMs
    stale,           \* members whose lastHeartbeatMs is too old
    offsets,         \* committed offset of a partition, NoOffset if absent
    offsetsLoaded,
    nextMemberSeq,   \* GroupCoordinator::nextMemberSeq_
    clock,
    file,            \* <dataDir>/__consumer_offsets/<group>.offsets
    \* consumers
    pc,              \* where run_group_mode is
    session,         \* what the consumer was told by the last join and sync
    pending,         \* partition whose commit is outstanding
    heartbeat,       \* heartbeat_loop: "off", "on", "rejoin" (needRejoin), "dead"
    alive,           \* the process runs
    connected,       \* the coordinator still has the consumer's connections
    \* bounds and history
    faults, restarts,
    printed          \* offsets of a partition some consumer has printed

windowVars   == <<rebalanceInProgress, window, clock>>
memberVars   == <<members, stale, needsRebalance>>
syncVars     == <<syncReady, assignment>>
genVars      == <<generationId, leaderId>>
groupVars    == <<windowVars, memberVars, syncVars, genVars, nextMemberSeq>>
offsetVars   == <<offsets, offsetsLoaded, file>>
consumerVars == <<pc, session, pending, heartbeat, alive, connected>>
bounds       == <<faults, restarts>>
vars == <<groupVars, offsetVars, consumerVars, bounds, printed>>

NoSession == [id |-> NoMember, gen |-> 0, window |-> 0, view |-> {},
              parts |-> {}, pos |-> <<>>]

\* The consumer owns the partitions it was assigned.
Holding(c) == pc[c] \in {"resume", "consuming", "committing"}

InitialGroup ==
    /\ generationId = 0
    /\ leaderId = NoMember
    /\ members = {}
    /\ stale = {}
    /\ rebalanceInProgress = FALSE
    /\ needsRebalance = FALSE
    /\ syncReady = FALSE
    /\ assignment = <<>>
    /\ window = 0
    /\ clock = 0
    /\ nextMemberSeq = 0
    /\ offsets = [p \in Partition |-> NoOffset]
    /\ offsetsLoaded = FALSE

Init ==
    /\ InitialGroup
    /\ file = [p \in Partition |-> NoOffset]
    /\ pc = [c \in Consumer |-> "idle"]
    /\ session = [c \in Consumer |-> NoSession]
    /\ pending = [c \in Consumer |-> NoOffset]
    /\ heartbeat = [c \in Consumer |-> "off"]
    /\ alive = [c \in Consumer |-> TRUE]
    /\ connected = [c \in Consumer |-> TRUE]
    /\ faults = 0
    /\ restarts = 0
    /\ printed = [p \in Partition |-> {}]

-----------------------------------------------------------------------------
(* join_group *)

\* A new member joins the open window, or opens one.
EnterWindow(id) ==
    IF rebalanceInProgress
      THEN /\ members' = members \cup {id}
           /\ UNCHANGED <<rebalanceInProgress, window, stale>>
      ELSE /\ members' = {id}
           /\ rebalanceInProgress' = TRUE
           /\ window' = window + 1
           /\ stale' = {}

\* Up to the wait for the window's deadline.  The member id is drawn under
\* another mutex just before; ids of different windows are never compared.
Join(c) ==
    /\ pc[c] = "idle"
    /\ nextMemberSeq < MaxJoins
    /\ nextMemberSeq' = nextMemberSeq + 1
    /\ EnterWindow(nextMemberSeq)
    /\ pc' = [pc EXCEPT ![c] = "joining"]
    /\ session' = [session EXCEPT ![c].id = nextMemberSeq, ![c].window = window']
    /\ UNCHANGED <<clock, needsRebalance, syncVars, genVars, offsetVars,
                   pending, heartbeat, alive, connected, bounds, printed>>

DeadlinePasses ==
    /\ clock < window
    /\ clock' = clock + 1
    /\ UNCHANGED <<rebalanceInProgress, window, memberVars, syncVars, genVars,
                   nextMemberSeq, offsetVars, consumerVars, bounds, printed>>

\* A thread that finds a window open after its own deadline closes that window.
CloseWindow_bug ==
    /\ generationId' = generationId + 1
    /\ leaderId' = IF members = {} THEN NoMember ELSE Min(members)
    /\ rebalanceInProgress' = FALSE
    /\ needsRebalance' = FALSE
    /\ UNCHANGED syncVars

CloseWindow ==
    /\ generationId' = generationId + 1
    /\ leaderId' = IF members = {} THEN NoMember ELSE Min(members)
    /\ rebalanceInProgress' = FALSE
    /\ needsRebalance' = FALSE
    /\ syncReady' = FALSE
    /\ assignment' = <<>>

\* The thread that served c is done; the consumer, if it lives, goes on at next
\* with session s.
Return(c, next, s) ==
    /\ pc' = [pc EXCEPT ![c] = IF alive[c] THEN next ELSE "gone"]
    /\ session' = [session EXCEPT ![c] = IF alive[c] THEN s ELSE NoSession]

\* The rest of join_group.  Only the leader looks at the list of members.
JoinReturns(c) ==
    /\ pc[c] = "joining"
    /\ \/ /\ ~rebalanceInProgress
          /\ UNCHANGED <<genVars, rebalanceInProgress, needsRebalance, syncVars>>
       \/ /\ rebalanceInProgress
          /\ session[c].window =< clock
          /\ CloseWindow
    /\ Return(c, "joined",
              [session[c] EXCEPT
                 !.gen = generationId',
                 !.view = IF leaderId' = session[c].id THEN members ELSE {}])
    /\ UNCHANGED <<window, clock, members, stale, nextMemberSeq, offsetVars,
                   pending, heartbeat, alive, connected, bounds, printed>>

-----------------------------------------------------------------------------
(* sync_group *)

\* compute_range_assignment: member number i in the sorted list gets the
\* partitions from i * base + min(i, extra) on, one more if i < extra.
RangeAssignment_bug(ms, count) ==
    LET n == Cardinality(ms)
        base == count \div n
        Rank(m) == Cardinality({k \in ms : k < m})
    IN [m \in ms |-> Rank(m) * base .. (Rank(m) + 1) * base]

RangeAssignment(ms, count) ==
    LET n == Cardinality(ms)
        base == count \div n
        extra == count % n
        Rank(m) == Cardinality({k \in ms : k < m})
        First(i) == i * base + IF i < extra THEN i ELSE extra
    IN [m \in ms |-> First(Rank(m)) .. First(Rank(m) + 1) - 1]

\* The checks at the head of sync_group.
Accepted(c) == session[c].gen = generationId /\ session[c].id \in members

SyncRefused(c) ==
    /\ pc[c] = "joined"
    /\ ~Accepted(c)
    /\ Return(c, "idle", NoSession)
    /\ UNCHANGED <<groupVars, offsetVars, pending, heartbeat, alive, connected,
                   bounds, printed>>

\* The leader's request carries the assignment.
SyncPosts(c) ==
    /\ pc[c] = "joined"
    /\ Accepted(c)
    /\ session[c].view # {}
    /\ assignment' = RangeAssignment(session[c].view, PartitionCount)
    /\ syncReady' = TRUE
    /\ Return(c, "resume", [session[c] EXCEPT !.view = {},
                                              !.parts = assignment'[session[c].id]])
    /\ UNCHANGED <<windowVars, memberVars, genVars, nextMemberSeq, offsetVars,
                   pending, heartbeat, alive, connected, bounds, printed>>

\* A request without assignments waits on cv for the leader's.
SyncWaits(c) ==
    /\ pc[c] = "joined"
    /\ Accepted(c)
    /\ session[c].view = {}
    /\ pc' = [pc EXCEPT ![c] = "syncing"]
    /\ UNCHANGED <<groupVars, offsetVars, session, pending, heartbeat, alive,
                   connected, bounds, printed>>

\* What the wait's predicate and the checks after it let through.
SyncDone_bug(c) == session[c].gen = generationId
SyncDone(c) == syncReady /\ session[c].gen = generationId

SyncReturns(c) ==
    /\ pc[c] = "syncing"
    /\ SyncDone(c)
    /\ Return(c, "resume", [session[c] EXCEPT
                !.parts = IF session[c].id \in DOMAIN assignment
                            THEN assignment[session[c].id] ELSE {}])
    /\ UNCHANGED <<groupVars, offsetVars, pending, heartbeat, alive, connected,
                   bounds, printed>>

\* The wait times out, or a new generation was formed meanwhile.
SyncFails(c) ==
    /\ pc[c] = "syncing"
    /\ ~SyncDone(c)
    /\ Return(c, "idle", NoSession)
    /\ UNCHANGED <<groupVars, offsetVars, pending, heartbeat, alive, connected,
                   bounds, printed>>

-----------------------------------------------------------------------------
(* heartbeat, leave_group *)

\* A live consumer's heartbeat thread is running.
Beating(c) == alive[c] /\ heartbeat[c] = "on"

\* The members whose session is over by the time m's heartbeat is handled.
Evicted_bug(m) == {}
Evicted(m) == stale \ {m}

Heartbeat(c) ==
    LET m == session[c].id
        refused == \/ m \notin members
                   \/ session[c].gen # generationId
                   \/ needsRebalance
    IN /\ Beating(c)
       /\ connected[c]
       /\ \/ /\ refused
             /\ heartbeat' = [heartbeat EXCEPT ![c] = "rejoin"]
             /\ UNCHANGED memberVars
          \/ /\ ~refused
             /\ members' = members \ Evicted(m)
             /\ stale' = stale \ (Evicted(m) \cup {m})
             /\ needsRebalance' = (Evicted(m) # {})
             /\ UNCHANGED heartbeat
       /\ UNCHANGED <<windowVars, syncVars, genVars, nextMemberSeq, offsetVars, pc,
                      session, pending, alive, connected, bounds, printed>>

\* sessionTimeoutMs pass without a heartbeat of m.  Only a heartbeat that is
\* not refused reads this, and none is while a rebalance is due.
SessionLapses(m) ==
    /\ ~rebalanceInProgress
    /\ ~needsRebalance
    /\ m \in members \ stale
    /\ stale' = stale \cup {m}
    /\ UNCHANGED <<windowVars, members, needsRebalance, syncVars, genVars,
                   nextMemberSeq, offsetVars, consumerVars, bounds, printed>>

\* The heartbeat connection fails: heartbeat_loop ends without needRejoin.
HeartbeatBreaks(c) ==
    /\ Beating(c)
    /\ \/ ~connected[c] /\ UNCHANGED faults
       \/ connected[c] /\ faults < MaxFaults /\ faults' = faults + 1
    /\ heartbeat' = [heartbeat EXCEPT ![c] = "dead"]
    /\ UNCHANGED <<groupVars, offsetVars, pc, session, pending, alive, connected,
                   restarts, printed>>

\* The process ends; its heartbeat thread, its session and its sockets with it.
Gone(c) ==
    /\ pc' = [pc EXCEPT ![c] = "gone"]
    /\ heartbeat' = [heartbeat EXCEPT ![c] = "off"]
    /\ session' = [session EXCEPT ![c] = NoSession]
    /\ pending' = [pending EXCEPT ![c] = NoOffset]
    /\ alive' = [alive EXCEPT ![c] = FALSE]

\* SIGINT: the poll loop ends and the consumer leaves the group.
Leave(c) ==
    LET m == session[c].id
        known == connected[c] /\ m \in members
    IN /\ pc[c] = "consuming"
       /\ members' = IF known THEN members \ {m} ELSE members
       /\ needsRebalance' = (needsRebalance \/ known)
       /\ stale' = IF known THEN stale \ {m} ELSE stale
       /\ Gone(c)
       /\ UNCHANGED <<windowVars, syncVars, genVars, nextMemberSeq, offsetVars,
                      connected, bounds, printed>>

-----------------------------------------------------------------------------
(* commit_offset, fetch_offset and the poll loop *)

\* load_offsets_if_needed
Loaded_bug == offsets
Loaded == IF offsetsLoaded THEN offsets ELSE file

\* Where a consumer starts in p after a join: at its --offset, whatever the group
\* has committed and however often it has joined, or where fetch_offset says.
ResumePosition(c, p) ==
    IF OffsetOverride[c] # NoOffset THEN OffsetOverride[c]
    ELSE IF Loaded[p] >= 0 THEN Loaded[p] ELSE 0

FetchOffset(c, p) ==
    /\ pc[c] = "resume"
    /\ p \in session[c].parts \ DOMAIN session[c].pos
    /\ \/ /\ OffsetOverride[c] # NoOffset
          /\ UNCHANGED <<offsets, offsetsLoaded>>
       \/ /\ OffsetOverride[c] = NoOffset
          /\ offsetsLoaded' = TRUE
          /\ offsets' = Loaded
    /\ session' = [session EXCEPT ![c].pos = [q \in DOMAIN @ \cup {p} |->
                     IF q = p THEN ResumePosition(c, p) ELSE @[q]]]
    /\ UNCHANGED <<groupVars, file, pc, pending, heartbeat, alive, connected,
                   bounds, printed>>

\* Every partition has its position: the heartbeat thread and the poll loop start.
StartPolling(c) ==
    /\ pc[c] = "resume"
    /\ DOMAIN session[c].pos = session[c].parts
    /\ pc' = [pc EXCEPT ![c] = "consuming"]
    /\ heartbeat' = [heartbeat EXCEPT ![c] = "on"]
    /\ UNCHANGED <<groupVars, offsetVars, session, pending, alive, connected,
                   bounds, printed>>

\* The position after a response whose last record has the given offset.
PositionAfter_bug(last) == last + 2
PositionAfter(last) == last + 1

\* A fetch returns some of the records from the position on; they are printed.
Poll(c, p) ==
    /\ pc[c] = "consuming"
    /\ p \in session[c].parts
    /\ \E last \in session[c].pos[p] .. MaxRecords - 1 :
         /\ printed' = [printed EXCEPT ![p] = @ \cup (session[c].pos[p] .. last)]
         /\ session' = [session EXCEPT ![c].pos[p] = PositionAfter(last)]
    /\ pc' = [pc EXCEPT ![c] = "committing"]
    /\ pending' = [pending EXCEPT ![c] = p]
    /\ UNCHANGED <<groupVars, offsetVars, heartbeat, alive, connected, bounds>>

Committed(c) == [Loaded EXCEPT ![pending[c]] = session[c].pos[pending[c]]]

\* commit_offset checks neither the member nor its generation.
Commit(c) ==
    /\ pc[c] = "committing"
    /\ connected[c]
    /\ offsetsLoaded' = TRUE
    /\ offsets' = Committed(c)
    /\ file' = offsets'
    /\ pc' = [pc EXCEPT ![c] = "consuming"]
    /\ pending' = [pending EXCEPT ![c] = NoOffset]
    /\ UNCHANGED <<groupVars, session, heartbeat, alive, connected, bounds, printed>>

\* The poll loop sees needRejoin between two rounds, or later.
Rejoin(c) ==
    /\ pc[c] = "consuming"
    /\ heartbeat[c] = "rejoin"
    /\ connected[c]
    /\ pc' = [pc EXCEPT ![c] = "idle"]
    /\ heartbeat' = [heartbeat EXCEPT ![c] = "off"]
    /\ session' = [session EXCEPT ![c] = NoSession]
    /\ UNCHANGED <<groupVars, offsetVars, pending, alive, connected, bounds, printed>>

\* A request on the lost main connection throws out of main.
Aborts(c) ==
    /\ ~connected[c]
    /\ \/ pc[c] = "committing"
       \/ pc[c] = "consuming" /\ heartbeat[c] = "rejoin"
    /\ Gone(c)
    /\ UNCHANGED <<groupVars, offsetVars, connected, bounds, printed>>

-----------------------------------------------------------------------------
(* Failures *)

\* The process is killed.  A thread that is blocked for it stays blocked.
Crash(c) ==
    /\ alive[c]
    /\ faults < MaxFaults
    /\ faults' = faults + 1
    /\ IF pc[c] \in {"joining", "syncing"}
         THEN /\ alive' = [alive EXCEPT ![c] = FALSE]
              /\ UNCHANGED <<pc, session, pending, heartbeat>>
         ELSE Gone(c)
    /\ UNCHANGED <<groupVars, offsetVars, connected, restarts, printed>>

\* persist_offsets truncates the file and writes the entries in their order: a
\* process that dies in between leaves the first n of them.
CutShort(table, n) == [p \in Partition |-> IF p < n THEN table[p] ELSE NoOffset]

FileAtDeath ==
    {file} \cup {CutShort(Committed(c), n) :
                    c \in {d \in Consumer : pc[d] = "committing" /\ connected[d]},
                    n \in 0 .. PartitionCount}

\* The broker restarts, perhaps in the middle of a commit: groups are gone, their
\* offset files are not.  Consumers with a request outstanding or about to be sent
\* abort; the others poll on.  An idle consumer that had a connection aborts too
\* and is launched again.
CoordinatorRestart ==
    LET survives(c) == pc[c] \in {"idle", "consuming", "gone"}
    IN /\ restarts < MaxRestarts
       /\ restarts' = restarts + 1
       /\ generationId' = 0
       /\ leaderId' = NoMember
       /\ members' = {}
       /\ stale' = {}
       /\ rebalanceInProgress' = FALSE
       /\ needsRebalance' = FALSE
       /\ syncReady' = FALSE
       /\ assignment' = <<>>
       /\ window' = 0
       /\ clock' = 0
       /\ nextMemberSeq' = 0
       /\ offsets' = [p \in Partition |-> NoOffset]
       /\ offsetsLoaded' = FALSE
       /\ pc' = [c \in Consumer |-> IF survives(c) THEN pc[c] ELSE "gone"]
       /\ session' = [c \in Consumer |-> IF survives(c) THEN session[c] ELSE NoSession]
       /\ pending' = [c \in Consumer |-> NoOffset]
       /\ heartbeat' = [c \in Consumer |-> IF survives(c) THEN heartbeat[c] ELSE "off"]
       /\ alive' = [c \in Consumer |-> survives(c) /\ alive[c]]
       /\ connected' = [c \in Consumer |-> connected[c] /\ pc[c] # "consuming"]
       /\ file' \in FileAtDeath
       /\ UNCHANGED <<faults, printed>>

Next ==
    \/ DeadlinePasses
    \/ CoordinatorRestart
    \/ \E m \in MemberId : SessionLapses(m)
    \/ \E c \in Consumer :
         \/ Join(c) \/ JoinReturns(c)
         \/ SyncRefused(c) \/ SyncPosts(c) \/ SyncWaits(c) \/ SyncReturns(c) \/ SyncFails(c)
         \/ Heartbeat(c) \/ HeartbeatBreaks(c)
         \/ StartPolling(c) \/ Commit(c) \/ Rejoin(c) \/ Leave(c)
         \/ Aborts(c) \/ Crash(c)
         \/ \E p \in Partition : FetchOffset(c, p) \/ Poll(c, p)

Spec == Init /\ [][Next]_vars

\* A member no live consumer with a running heartbeat thread answers for.
Orphan(m) == ~\E c \in Consumer : /\ session[c].id = m
                                  /\ alive[c]
                                  /\ heartbeat[c] # "dead"
                                  /\ connected[c]

\* Threads run, deadlines and session timeouts pass, and a consumer that can go
\* on does.  Nothing is assumed of faults and of consumers leaving.
Fairness ==
    /\ WF_vars(DeadlinePasses)
    /\ \A m \in MemberId : WF_vars(Orphan(m) /\ SessionLapses(m))
    /\ \A c \in Consumer :
         /\ WF_vars(Join(c)) /\ WF_vars(JoinReturns(c))
         /\ WF_vars(SyncRefused(c) \/ SyncPosts(c) \/ SyncWaits(c))
         /\ WF_vars(SyncReturns(c) \/ SyncFails(c))
         /\ WF_vars(StartPolling(c))
         /\ WF_vars(Heartbeat(c))
         /\ WF_vars(Commit(c) \/ Aborts(c))
         /\ WF_vars(Rejoin(c))
         /\ \A p \in Partition : WF_vars(FetchOffset(c, p)) /\ WF_vars(Poll(c, p))

FairSpec == Init /\ [][Next]_vars /\ Fairness

-----------------------------------------------------------------------------
(* Properties *)

Session ==
    [id : MemberId \cup {NoMember}, gen : 0 .. MaxJoins, window : 0 .. MaxJoins,
     view : SUBSET MemberId, parts : SUBSET Partition,
     pos : UNION {[D -> 0 .. MaxRecords] : D \in SUBSET Partition}]

Offsets == [Partition -> 0 .. MaxRecords \cup {NoOffset}]

\* Every variable has its type: among the rest, generations, windows and ids
\* never outrun the joins that make them, an assignment names members that got
\* an id, and a committed offset is one past a record.
TypeOK ==
    /\ generationId \in 0 .. MaxJoins
    /\ leaderId \in MemberId \cup {NoMember}
    /\ members \subseteq MemberId
    /\ stale \subseteq members
    /\ rebalanceInProgress \in BOOLEAN
    /\ needsRebalance \in BOOLEAN
    /\ syncReady \in BOOLEAN
    /\ assignment \in [DOMAIN assignment -> SUBSET Partition]
    /\ DOMAIN assignment \subseteq MemberId
    /\ window \in 0 .. MaxJoins
    /\ clock \in 0 .. window
    /\ nextMemberSeq \in 0 .. MaxJoins
    /\ offsets \in Offsets
    /\ file \in Offsets
    /\ offsetsLoaded \in BOOLEAN
    /\ pc \in [Consumer -> {"idle", "joining", "joined", "syncing", "resume",
                            "consuming", "committing", "gone"}]
    /\ session \in [Consumer -> Session]
    /\ \A c \in Consumer : DOMAIN session[c].pos \subseteq session[c].parts
    /\ pending \in [Consumer -> Partition \cup {NoOffset}]
    /\ heartbeat \in [Consumer -> {"off", "on", "rejoin", "dead"}]
    /\ alive \in [Consumer -> BOOLEAN]
    /\ connected \in [Consumer -> BOOLEAN]
    /\ faults \in 0 .. MaxFaults
    /\ restarts \in 0 .. MaxRestarts
    /\ printed \in [Partition -> SUBSET (0 .. MaxRecords)]

\* join_group and sync_group split the topic: two consumers that were assigned
\* partitions in the same generation share none, however late either of them
\* woke up, and whoever died or was evicted in between.
OneOwner ==
    \A c, d \in Consumer :
      /\ c # d
      /\ Holding(c) /\ Holding(d)
      /\ connected[c] /\ connected[d]
      /\ session[c].gen = session[d].gen
      => session[c].parts \cap session[d].parts = {}

\* A group that sees no reason to rebalance (neither a window is open nor
\* needsRebalance set) and has its assignment covers the topic with the
\* partitions of its present members: the partitions of a member that was
\* evicted, left or was dropped by a new window are never orphaned silently.
StableGroupCoversTopic ==
    syncReady /\ ~rebalanceInProgress /\ ~needsRebalance
      => /\ members \subseteq DOMAIN assignment
         /\ UNION {assignment[m] : m \in members} = Partition

\* A consumer of the present generation works on exactly what the leader's
\* SyncGroup gave it: no follower's sync_group returns early, empty-handed or
\* with partitions of another generation.
HeldIsAssigned ==
    \A c \in Consumer :
      Holding(c) /\ connected[c] /\ session[c].gen = generationId
        => /\ session[c].id \in DOMAIN assignment
           /\ session[c].parts = assignment[session[c].id]

\* Records below somebody's --offset, which that consumer skips on purpose, and
\* for the whole group once it commits.
SkippedOnPurpose == UNION {0 .. OffsetOverride[c] - 1 : c \in Consumer}

\* The offsets k - 1, k - 2, ..., 0 of p have been printed or were to be skipped.
AllPrinted(p, k) == 0 .. k - 1 \subseteq printed[p] \cup SkippedOnPurpose

\* Every record is delivered at least once, except those some consumer was told
\* to skip with --offset (none, if the group's consumers use no --offset or only
\* --from-beginning): whatever order commits of old and new owners are applied
\* in, with a consumer that takes the group's offset back at every join, and
\* across a restart of the coordinator that cuts the offset file short, no
\* consumer starts or stands behind another record that nobody has printed, and
\* neither does an offset that a consumer could resume from.
NothingSkipped ==
    \A p \in Partition :
      /\ AllPrinted(p, file[p])
      /\ AllPrinted(p, offsets[p])
      /\ \A c \in Consumer :
           p \in DOMAIN session[c].pos => AllPrinted(p, session[c].pos[p])

\* A consumer without --offset and --from-beginning resumes from the last commit
\* of the group, also when another consumer with an override has moved that commit
\* back or ahead, and when the coordinator has restarted since and loads its
\* offset file lazily: whatever offset fetch_offset answers is the one on disk.
ResumesFromLastCommit ==
    [][\A c \in {d \in Consumer : OffsetOverride[d] = NoOffset} :
       \A p \in DOMAIN session'[c].pos \ DOMAIN session[c].pos :
         session'[c].pos[p] = IF file[p] = NoOffset THEN 0 ELSE file[p]]_vars

\* Once the leader's assignment of a generation is posted it is final: no late
\* sync_group of another thread changes it while the generation lasts.
AssignmentIsFinal ==
    [][syncReady /\ generationId' = generationId /\ restarts' = restarts
         => syncReady' /\ assignment' = assignment]_vars

\* heartbeat()'s sweep replaces a reaper thread: a member that stopped
\* heartbeating (its consumer died or its heartbeat connection broke) is out of
\* the group eventually, as long as some other consumer of the group works and
\* the bound on joins is not reached.
Working(c) == alive[c] /\ connected[c] /\ heartbeat[c] # "dead"

DeadMemberIsEvicted ==
    \A m \in MemberId :
      m \in members /\ Orphan(m)
        ~> \/ m \notin members \/ ~Orphan(m)
           \/ \A c \in Consumer : ~Working(c)
           \/ nextMemberSeq = MaxJoins
=============================================================================
