----------------------- MODULE GroupCoordinator_proof -----------------------
(***************************************************************************)
(* Proofs about GroupCoordinator for every set of consumers, every number  *)
(* of partitions and every value of the bounds.                            *)
(***************************************************************************)
EXTENDS GroupCoordinator, NaturalOrder

-----------------------------------------------------------------------------
(* compute_range_assignment *)

\* Member number i gets the partitions from Start(n, count, i) to the next member's.
Start(n, count, i) ==
    i * (count \div n) + IF i < count % n THEN i ELSE count % n

\* The ranges of n members follow one another from the first partition to the last.
LEMMA RangesMeet ==
    ASSUME NEW n \in Nat \ {0}, NEW count \in Nat
    PROVE  /\ \A i \in 0 .. n : Start(n, count, i) \in 0 .. count
           /\ \A i \in 0 .. n : \A j \in i .. n : Start(n, count, i) <= Start(n, count, j)
           /\ Start(n, count, 0) = 0 /\ Start(n, count, n) = count
<1> DEFINE base == count \div n
           extra == count % n
<1>1. base \in Nat /\ extra \in 0 .. n - 1 /\ count = n * base + extra
    OBVIOUS
<1>2. ASSUME NEW i \in Nat, NEW j \in Nat, i <= j PROVE i * base \in Nat /\ i * base <= j * base
  <2> HIDE DEF base
  <2>1. PICK d \in Nat : j = i + d
      BY <1>2
  <2>2. j * base = i * base + d * base
      BY <2>1, <1>1
  <2>3. i * base \in Nat /\ d * base \in Nat
      BY <1>1
  <2>4. QED
      BY <2>2, <2>3
<1>3. \A i \in 0 .. n : Start(n, count, i) = i * base + IF i < extra THEN i ELSE extra
    BY DEF Start
<1> HIDE DEF base, extra
<1>4. ASSUME NEW i \in 0 .. n, NEW j \in i .. n
      PROVE  Start(n, count, i) \in Nat /\ Start(n, count, i) <= Start(n, count, j)
  <2>1. i * base \in Nat /\ j * base \in Nat /\ i * base <= j * base
      BY <1>2
  <2>2. QED
      BY <2>1, <1>1, <1>3
<1>5. Start(n, count, 0) = 0 /\ Start(n, count, n) = count
  <2>1. 0 * base = 0
      BY <1>1
  <2>2. QED
      BY <2>1, <1>1, <1>3
<1>6. \A i \in 0 .. n : Start(n, count, i) \in 0 .. count
    BY <1>4, <1>5
<1>7. QED
    BY <1>4, <1>5, <1>6

\* compute_range_assignment deals out every partition, to one member each.
LEMMA RangeAssignmentSplits ==
    ASSUME NEW ms \in SUBSET Nat, IsFiniteSet(ms), ms # {}, NEW count \in Nat
    PROVE  LET a == RangeAssignment(ms, count)
           IN  /\ a \in [ms -> SUBSET (0 .. count - 1)]
               /\ \A m, k \in ms : m # k => a[m] \cap a[k] = {}
               /\ UNION {a[m] : m \in ms} = 0 .. count - 1
<1> DEFINE n == Cardinality(ms)
           rank(m) == Cardinality(Below(ms, m))
           a == RangeAssignment(ms, count)
<1>1. n \in Nat \ {0}
    BY FS_CardinalityType, FS_EmptySet
<1>2. a = [m \in ms |-> Start(n, count, rank(m)) .. Start(n, count, rank(m) + 1) - 1]
    BY DEF RangeAssignment, Start, Below
<1>3. /\ \A m \in ms : rank(m) \in 0 .. n - 1
      /\ \A m, k \in ms : m < k => rank(m) < rank(k)
      /\ \A i \in 0 .. n - 1 : \E m \in ms : rank(m) = i
    BY RanksNumber
<1> HIDE DEF n, rank, a
<1>4. ASSUME NEW m \in ms
      PROVE  /\ Start(n, count, rank(m)) \in 0 .. count
             /\ Start(n, count, rank(m) + 1) \in 0 .. count
    BY <1>1, <1>3, RangesMeet
<1>5. a \in [ms -> SUBSET (0 .. count - 1)]
    BY <1>2, <1>4
<1>6. ASSUME NEW m \in ms, NEW k \in ms, m < k PROVE a[m] \cap a[k] = {}
  <2>1. rank(m) + 1 \in 0 .. n /\ rank(k) \in rank(m) + 1 .. n
      BY <1>1, <1>3, <1>6
  <2>2. Start(n, count, rank(m) + 1) <= Start(n, count, rank(k))
      BY <2>1, <1>1, RangesMeet
  <2>3. QED
      BY <2>2, <1>2, <1>4
<1>7. \A m, k \in ms : m # k => a[m] \cap a[k] = {}
    BY <1>6
<1>8. ASSUME NEW q \in 0 .. count - 1 PROVE \E m \in ms : q \in a[m]
  <2> DEFINE T == {i \in 0 .. n - 1 : q < Start(n, count, i + 1)}
  <2>1. n - 1 \in T
      BY <1>1, RangesMeet
  <2>2. PICK i \in T : \A j \in T : i <= j
    <3>1. T \in SUBSET Nat /\ T # {}
        BY <2>1
    <3>2. QED
        BY <3>1, LeastExists
  <2>3. Start(n, count, i) <= q
    <3>1. CASE i = 0
      <4>1. Start(n, count, 0) = 0
          BY <1>1, RangesMeet
      <4>2. QED
          BY <3>1, <4>1
    <3>2. CASE i # 0
      <4>1. i - 1 \notin T /\ i - 1 \in 0 .. n - 1
        <5>1. i \in 0 .. n - 1 /\ n \in Nat
            BY <1>1, <2>2
        <5>2. i - 1 \in 0 .. n - 1 /\ ~(i <= i - 1)
            BY <5>1, <3>2
        <5>3. QED
            BY <5>2, <2>2
      <4>2. ~(q < Start(n, count, (i - 1) + 1)) /\ (i - 1) + 1 = i
          BY <4>1
      <4>3. Start(n, count, i) \in 0 .. count
        <5>1. i \in 0 .. n
            BY <1>1, <2>2
        <5>2. QED
            BY <5>1, <1>1, RangesMeet
      <4>4. QED
          BY <4>2, <4>3
    <3>3. QED
        BY <3>1, <3>2
  <2>4. PICK m \in ms : rank(m) = i
      BY <1>3
  <2>5. q \in Start(n, count, i) .. Start(n, count, i + 1) - 1
      BY <2>2, <2>3, <1>4, <2>4
  <2>6. QED
      BY <2>4, <2>5, <1>2
<1>9. UNION {a[m] : m \in ms} = 0 .. count - 1
  <2>1. \A m \in ms : a[m] \subseteq 0 .. count - 1
      BY <1>5
  <2>2. QED
      BY <2>1, <1>8
<1>10. QED
    BY <1>5, <1>7, <1>9 DEF a

-----------------------------------------------------------------------------
(* The inductive invariant *)

\* A consumer has joined and is, as far as the coordinator knows, still there.
Joined(c) == connected[c] /\ pc[c] \notin {"idle", "gone"}

\* Its join_group has returned.
Answered(c) == Joined(c) /\ pc[c] # "joining"

\* It is about to post the assignment of the present generation.
MayPost(c) ==
    /\ Joined(c) /\ pc[c] = "joined"
    /\ session[c].gen = generationId /\ session[c].view # {}

\* Where a consumer stands bounds what its session, its heartbeat thread and its
\* connections can be.
InStep(c) ==
    /\ pc[c] \in {"idle", "gone"} => session[c] = NoSession
    /\ ~connected[c] => pc[c] \in {"consuming", "committing", "gone"}
    /\ heartbeat[c] # "off" => pc[c] \in {"consuming", "committing"}
    /\ pc[c] \in {"joining", "joined", "syncing"} => DOMAIN session[c].pos = {}
    /\ pc[c] \in {"consuming", "committing"} => DOMAIN session[c].pos = session[c].parts
    /\ pc[c] = "committing" => pending[c] \in session[c].parts

ClientsInStep == \A c \in Consumer : InStep(c)

\* Member ids are drawn once.
IdsAreDrawn ==
    /\ \A c \in Consumer : Joined(c) => session[c].id \in 0 .. nextMemberSeq - 1
    /\ \A c, d \in Consumer :
         c # d /\ Joined(c) /\ Joined(d) => session[c].id # session[d].id
    /\ members \subseteq 0 .. nextMemberSeq - 1
    /\ leaderId \in {NoMember} \cup 0 .. nextMemberSeq - 1

\* A window that is closed makes a generation.
WindowsMakeGenerations ==
    /\ window = generationId + IF rebalanceInProgress THEN 1 ELSE 0
    /\ window <= nextMemberSeq
    /\ \A c \in Consumer : Answered(c) => session[c].gen <= generationId

\* Members of an open window still wait in join_group; of a closed one, those that
\* have their answer are of its generation.
MembersAreCurrent ==
    \A c \in Consumer :
      Answered(c) /\ session[c].id \in members
        => ~rebalanceInProgress /\ session[c].gen = generationId

\* The assignment of a generation is posted once: by the leader, with the members its
\* join_group found, who are all still there.
LeaderPostsOnce ==
    \A c \in Consumer :
      /\ MayPost(c) =>
           /\ session[c].id = leaderId
           /\ ~syncReady
           /\ rebalanceInProgress \/ session[c].view = members
      /\ syncReady /\ Joined(c) /\ session[c].id = leaderId => pc[c] # "joining"

\* Whoever waits in sync_group for the present generation will be in its assignment.
WaitersAreAssigned ==
    \A c \in Consumer :
      Joined(c) /\ pc[c] = "syncing" /\ session[c].gen = generationId =>
        IF syncReady THEN session[c].id \in DOMAIN assignment
        ELSE rebalanceInProgress \/ session[c].id \in members

\* Whoever holds partitions of the present generation has them from its assignment.
HoldersAreAssigned ==
    \A c \in Consumer :
      connected[c] /\ Holding(c) /\ session[c].gen = generationId =>
        /\ syncReady
        /\ session[c].id \in DOMAIN assignment
        /\ session[c].parts = assignment[session[c].id]

\* A posted assignment splits the topic among the members of its generation.
AssignmentSplits ==
    syncReady =>
      /\ \A m, k \in DOMAIN assignment : m # k => assignment[m] \cap assignment[k] = {}
      /\ UNION {assignment[m] : m \in DOMAIN assignment} = Partition
      /\ rebalanceInProgress \/ members \subseteq DOMAIN assignment
      /\ rebalanceInProgress \/ needsRebalance \/ members = DOMAIN assignment

GroupInv ==
    /\ TypeOK
    /\ ClientsInStep
    /\ IdsAreDrawn
    /\ WindowsMakeGenerations
    /\ MembersAreCurrent
    /\ LeaderPostsOnce
    /\ WaitersAreAssigned
    /\ HoldersAreAssigned
    /\ AssignmentSplits
    /\ OneOwner

-----------------------------------------------------------------------------
(* Types *)

\* The least of a set of member ids is one of them.
LEMMA MinIsMember ==
    ASSUME NEW S \in SUBSET Nat, S # {}
    PROVE  Min(S) \in S
BY LeastExists DEF Min

\* A session without partitions.
LEMMA NoSessionType == NoSession \in Session /\ DOMAIN NoSession.pos = {} /\ NoSession.parts = {}
<1>1. <<>> \in [{} -> 0 .. MaxRecords] /\ DOMAIN <<>> = {}
    OBVIOUS
<1>2. <<>> \in UNION {[D -> 0 .. MaxRecords] : D \in SUBSET Partition}
    BY <1>1
<1>3. QED
    BY <1>1, <1>2, BoundAssumption DEF NoSession, Session, NoMember

\* join_group and sync_group leave a well-formed session.
LEMMA ReturnTypes ==
    ASSUME TypeOK, NEW c \in Consumer, NEW next \in {"idle", "joined", "resume"},
           NEW s \in Session, DOMAIN s.pos \subseteq s.parts, Return(c, next, s)
    PROVE  /\ pc' \in [Consumer -> {"idle", "joining", "joined", "syncing", "resume",
                                    "consuming", "committing", "gone"}]
           /\ session' \in [Consumer -> Session]
           /\ \A d \in Consumer : DOMAIN session'[d].pos \subseteq session'[d].parts
<1>1. pc' \in [Consumer -> {"idle", "joining", "joined", "syncing", "resume",
                             "consuming", "committing", "gone"}]
    BY DEF TypeOK, Return
<1>2. session' = [session EXCEPT ![c] = IF alive[c] THEN s ELSE NoSession]
    BY DEF Return
<1>3. session' \in [Consumer -> Session]
    BY <1>2, NoSessionType DEF TypeOK
<1>4. \A d \in Consumer : DOMAIN session'[d].pos \subseteq session'[d].parts
    BY <1>2, NoSessionType DEF TypeOK
<1>5. QED
    BY <1>1, <1>3, <1>4

\* What load_offsets_if_needed finds and what commit_offset makes of it are offsets.
LEMMA OffsetTypes ==
    ASSUME GroupInv
    PROVE  /\ Loaded \in Offsets
           /\ \A c \in Consumer : pc[c] = "committing" => Committed(c) \in Offsets
<1>1. Loaded \in Offsets
    BY DEF GroupInv, TypeOK, Loaded
<1>2. ASSUME NEW c \in Consumer, pc[c] = "committing" PROVE Committed(c) \in Offsets
  <2>1. session[c] \in Session /\ pending[c] \in DOMAIN session[c].pos
      BY <1>2 DEF GroupInv, TypeOK, ClientsInStep, InStep
  <2>2. PICK D \in SUBSET Partition : session[c].pos \in [D -> 0 .. MaxRecords]
      BY <2>1 DEF Session
  <2>3. session[c].pos[pending[c]] \in 0 .. MaxRecords
      BY <2>1, <2>2
  <2>4. QED
      BY <1>1, <2>3 DEF Committed, Offsets
<1>3. QED
    BY <1>1, <1>2

\* So is what a process that dies in the middle of a commit leaves on disk.
LEMMA FileAtDeathType ==
    ASSUME GroupInv
    PROVE  FileAtDeath \subseteq Offsets
<1>1. ASSUME NEW table \in Offsets, NEW n \in 0 .. PartitionCount
      PROVE  CutShort(table, n) \in Offsets
    BY DEF CutShort, Offsets, NoOffset
<1>2. file \in Offsets
    BY DEF GroupInv, TypeOK
<1>3. QED
    BY <1>1, <1>2, OffsetTypes DEF FileAtDeath

\* A consumer that ends leaves no session behind.
LEMMA GoneTypes ==
    ASSUME TypeOK, NEW c \in Consumer, Gone(c)
    PROVE  /\ pc' \in [Consumer -> {"idle", "joining", "joined", "syncing", "resume",
                                    "consuming", "committing", "gone"}]
           /\ session' \in [Consumer -> Session]
           /\ \A d \in Consumer : DOMAIN session'[d].pos \subseteq session'[d].parts
           /\ pending' \in [Consumer -> Partition \cup {NoOffset}]
           /\ heartbeat' \in [Consumer -> {"off", "on", "rejoin", "dead"}]
           /\ alive' \in [Consumer -> BOOLEAN]
BY NoSessionType DEF TypeOK, Gone

\* Closing a window leaves a well-formed generation.
LEMMA CloseTypes ==
    ASSUME GroupInv, rebalanceInProgress, CloseWindow
    PROVE  /\ generationId' \in 0 .. MaxJoins
           /\ leaderId' \in MemberId \cup {NoMember}
           /\ rebalanceInProgress' \in BOOLEAN /\ needsRebalance' \in BOOLEAN
           /\ syncReady' \in BOOLEAN
           /\ assignment' \in [DOMAIN assignment' -> SUBSET Partition]
           /\ DOMAIN assignment' \subseteq MemberId
<1>1. generationId' \in 0 .. MaxJoins
    BY DEF GroupInv, TypeOK, WindowsMakeGenerations, CloseWindow
<1>2. leaderId' \in MemberId \cup {NoMember}
  <2>1. members \in SUBSET Nat
      BY BoundAssumption DEF GroupInv, TypeOK, MemberId
  <2>2. members # {} => Min(members) \in members
      BY <2>1, MinIsMember
  <2>3. QED
      BY <2>2 DEF GroupInv, TypeOK, CloseWindow
<1>3. <<>> \in [DOMAIN <<>> -> SUBSET Partition] /\ DOMAIN <<>> = {}
    OBVIOUS
<1>4. QED
    BY <1>1, <1>2, <1>3 DEF CloseWindow

\* The leader posts an assignment for members it is one of.
LEMMA PosterIsMember ==
    ASSUME GroupInv, NEW c \in Consumer, SyncPosts(c)
    PROVE  /\ Joined(c) /\ MayPost(c) /\ ~syncReady /\ ~rebalanceInProgress
           /\ session[c].view = members /\ session[c].id \in members
<1>1. Joined(c) /\ MayPost(c) /\ session[c].id \in members
    BY DEF GroupInv, TypeOK, ClientsInStep, InStep, SyncPosts, Accepted, MayPost, Joined
<1>2. ~rebalanceInProgress
    BY <1>1 DEF GroupInv, MembersAreCurrent, Answered, MayPost
<1>3. QED
    BY <1>1, <1>2 DEF GroupInv, LeaderPostsOnce

\* What it posts splits the topic among them.
LEMMA PostedSplits ==
    ASSUME GroupInv, NEW c \in Consumer, SyncPosts(c)
    PROVE  /\ assignment' \in [members -> SUBSET Partition]
           /\ \A m, k \in members : m # k => assignment'[m] \cap assignment'[k] = {}
           /\ UNION {assignment'[m] : m \in members} = Partition
<1>1. members \in SUBSET Nat /\ IsFiniteSet(members) /\ members # {}
  <2>1. members \in SUBSET MemberId /\ MemberId \in SUBSET Nat
      BY BoundAssumption DEF GroupInv, TypeOK, MemberId
  <2>2. IsFiniteSet(MemberId)
      BY BoundAssumption, FS_Interval DEF MemberId
  <2>3. QED
      BY <2>1, <2>2, FS_Subset, PosterIsMember
<1>2. assignment' = RangeAssignment(members, PartitionCount)
    BY PosterIsMember DEF SyncPosts
<1>3. QED
    BY <1>1, <1>2, RangeAssignmentSplits, BoundAssumption DEF Partition

\* fetch_offset adds the position of one partition.
LEMMA FetchedSession ==
    ASSUME GroupInv, NEW c \in Consumer, NEW p \in Partition, FetchOffset(c, p)
    PROVE  /\ session' \in [Consumer -> Session]
           /\ \A d \in Consumer : DOMAIN session'[d].pos \subseteq session'[d].parts
           /\ \A d \in Consumer : session'[d] = [session[d] EXCEPT !.pos = session'[d].pos]
           /\ \A d \in Consumer \ {c} : session'[d] = session[d]
           /\ DOMAIN session'[c].pos = DOMAIN session[c].pos \cup {p}
           /\ \A q \in DOMAIN session'[c].pos :
                session'[c].pos[q] = IF q \in DOMAIN session[c].pos THEN session[c].pos[q]
                                     ELSE ResumePosition(c, p)
<1> DEFINE pos == session[c].pos
           at == ResumePosition(c, p)
           new == [q \in DOMAIN pos \cup {p} |-> IF q = p THEN at ELSE pos[q]]
<1>1. session[c] \in Session /\ p \notin DOMAIN pos /\ p \in session[c].parts
      /\ DOMAIN pos \subseteq session[c].parts
    BY DEF GroupInv, TypeOK, FetchOffset
<1>2. PICK D \in SUBSET Partition : pos \in [D -> 0 .. MaxRecords]
    BY <1>1 DEF Session
<1>3. at \in 0 .. MaxRecords
    BY OffsetTypes, BoundAssumption, OverrideAssumption DEF Offsets, NoOffset, ResumePosition
<1>4. /\ DOMAIN new = D \cup {p}
      /\ \A q \in D : new[q] = pos[q]
      /\ new[p] = at
      /\ new = [q \in D \cup {p} |-> new[q]]
    BY <1>1, <1>2
<1>5. session' = [session EXCEPT ![c] = [session[c] EXCEPT !.pos = new]]
    BY DEF FetchOffset
<1> HIDE DEF new, at
<1>6. new \in [D \cup {p} -> 0 .. MaxRecords]
    BY <1>2, <1>3, <1>4
<1>7. [session[c] EXCEPT !.pos = new] \in Session
    BY <1>1, <1>6 DEF Session
<1>8. session' \in [Consumer -> Session]
    BY <1>5, <1>7 DEF GroupInv, TypeOK
<1>9. session'[c] = [session[c] EXCEPT !.pos = new] /\ \A d \in Consumer \ {c} : session'[d] = session[d]
    BY <1>5 DEF GroupInv, TypeOK
<1>10. session'[c].pos = new /\ session'[c].parts = session[c].parts
    BY <1>1, <1>9 DEF Session
<1>11. ASSUME NEW d \in Consumer PROVE DOMAIN session'[d].pos \subseteq session'[d].parts
  <2>1. CASE d = c
    <3>1. DOMAIN pos = D
        BY <1>2
    <3>2. DOMAIN new \subseteq session[c].parts
        BY <1>1, <1>4, <3>1
    <3>3. QED
        BY <1>10, <2>1, <3>2
  <2>2. CASE d # c
    <3>1. DOMAIN session[d].pos \subseteq session[d].parts
        BY DEF GroupInv, TypeOK
    <3>2. QED
        BY <1>9, <2>2, <3>1
  <2>3. QED
      BY <2>1, <2>2
<1>12. \A d \in Consumer : session'[d] = [session[d] EXCEPT !.pos = session'[d].pos]
    BY <1>9, <1>10 DEF GroupInv, TypeOK, Session
<1>13. \A q \in DOMAIN session'[c].pos :
          session'[c].pos[q] = IF q \in DOMAIN session[c].pos THEN session[c].pos[q] ELSE at
    BY <1>1, <1>2, <1>4, <1>10
<1>14. QED
    BY <1>2, <1>4, <1>8, <1>9, <1>10, <1>11, <1>12, <1>13 DEF at

\* A poll prints what follows the position of one partition and moves it behind.
LEMMA PolledSession ==
    ASSUME GroupInv, NEW c \in Consumer, NEW p \in Partition, Poll(c, p)
    PROVE  /\ session' \in [Consumer -> Session]
           /\ \A d \in Consumer : DOMAIN session'[d].pos \subseteq session'[d].parts
           /\ \A d \in Consumer : session'[d] = [session[d] EXCEPT !.pos = session'[d].pos]
           /\ \A d \in Consumer \ {c} : session'[d] = session[d]
           /\ DOMAIN session'[c].pos = DOMAIN session[c].pos
           /\ p \in DOMAIN session[c].pos /\ session[c].pos[p] \in 0 .. MaxRecords
           /\ \E last \in session[c].pos[p] .. MaxRecords - 1 :
                /\ printed' = [printed EXCEPT ![p] = @ \cup (session[c].pos[p] .. last)]
                /\ \A q \in DOMAIN session[c].pos :
                     session'[c].pos[q] = IF q = p THEN last + 1 ELSE session[c].pos[q]
<1>0. PICK last \in session[c].pos[p] .. MaxRecords - 1 :
        /\ printed' = [printed EXCEPT ![p] = @ \cup (session[c].pos[p] .. last)]
        /\ session' = [session EXCEPT ![c].pos[p] = PositionAfter(last)]
    BY DEF Poll
<1> DEFINE new == [session[c].pos EXCEPT ![p] = last + 1]
<1>1. session[c] \in Session /\ DOMAIN session[c].pos = session[c].parts /\ p \in session[c].parts
    BY DEF GroupInv, TypeOK, ClientsInStep, InStep, Poll
<1>2. PICK D \in SUBSET Partition : session[c].pos \in [D -> 0 .. MaxRecords]
    BY <1>1 DEF Session
<1>3. p \in D /\ session[c].pos[p] \in 0 .. MaxRecords /\ last + 1 \in 0 .. MaxRecords
    BY <1>0, <1>1, <1>2, BoundAssumption
<1>4. /\ new \in [D -> 0 .. MaxRecords]
      /\ \A q \in D : new[q] = IF q = p THEN last + 1 ELSE session[c].pos[q]
    BY <1>2, <1>3
<1>5. session' = [session EXCEPT ![c] = [session[c] EXCEPT !.pos = new]]
    BY <1>0 DEF PositionAfter
<1> HIDE DEF new
<1>6. [session[c] EXCEPT !.pos = new] \in Session
    BY <1>1, <1>4 DEF Session
<1>7. session' \in [Consumer -> Session]
    BY <1>5, <1>6 DEF GroupInv, TypeOK
<1>8. session'[c] = [session[c] EXCEPT !.pos = new] /\ \A d \in Consumer \ {c} : session'[d] = session[d]
    BY <1>5 DEF GroupInv, TypeOK
<1>9. session'[c].pos = new /\ session'[c].parts = session[c].parts
    BY <1>1, <1>8 DEF Session
<1>10. \A d \in Consumer : DOMAIN session'[d].pos \subseteq session'[d].parts
    BY <1>1, <1>2, <1>4, <1>8, <1>9 DEF GroupInv, TypeOK
<1>11. \A d \in Consumer : session'[d] = [session[d] EXCEPT !.pos = session'[d].pos]
    BY <1>8, <1>9 DEF GroupInv, TypeOK, Session
<1>12. /\ DOMAIN session'[c].pos = DOMAIN session[c].pos /\ p \in DOMAIN session[c].pos
       /\ \A q \in DOMAIN session[c].pos :
            session'[c].pos[q] = IF q = p THEN last + 1 ELSE session[c].pos[q]
    BY <1>2, <1>3, <1>4, <1>9
<1>13. QED
    BY <1>0, <1>3, <1>7, <1>8, <1>10, <1>11, <1>12

\* No step of coordinator, consumer or heartbeat thread takes a variable out of its range.
LEMMA TypeStep ==
    ASSUME GroupInv, [Next]_vars
    PROVE  TypeOK'
<1> USE BoundAssumption DEF GroupInv
<1>1. ASSUME DeadlinePasses PROVE TypeOK'
    BY <1>1 DEF DeadlinePasses, TypeOK, memberVars, syncVars, genVars, offsetVars,
       consumerVars, bounds
<1>2. ASSUME CoordinatorRestart PROVE TypeOK'
  <2>1. file' \in Offsets
      BY <1>2, FileAtDeathType DEF CoordinatorRestart
  <2>2. /\ pc' \in [Consumer -> {"idle", "joining", "joined", "syncing", "resume",
                                 "consuming", "committing", "gone"}]
        /\ heartbeat' \in [Consumer -> {"off", "on", "rejoin", "dead"}]
        /\ alive' \in [Consumer -> BOOLEAN]
        /\ connected' \in [Consumer -> BOOLEAN]
        /\ pending' \in [Consumer -> Partition \cup {NoOffset}]
      BY <1>2 DEF CoordinatorRestart, TypeOK
  <2>3. /\ session' \in [Consumer -> Session]
        /\ \A d \in Consumer : DOMAIN session'[d].pos \subseteq session'[d].parts
      BY <1>2, NoSessionType DEF CoordinatorRestart, TypeOK
  <2>4. <<>> \in [DOMAIN <<>> -> SUBSET Partition] /\ DOMAIN <<>> = {}
      OBVIOUS
  <2>5. offsets' \in Offsets
      BY <1>2 DEF CoordinatorRestart, Offsets, NoOffset
  <2>6. /\ generationId' \in 0 .. MaxJoins /\ leaderId' \in MemberId \cup {NoMember}
        /\ members' \subseteq MemberId /\ stale' \subseteq members'
        /\ rebalanceInProgress' \in BOOLEAN /\ needsRebalance' \in BOOLEAN
        /\ syncReady' \in BOOLEAN /\ offsetsLoaded' \in BOOLEAN
        /\ window' \in 0 .. MaxJoins /\ clock' \in 0 .. window'
        /\ nextMemberSeq' \in 0 .. MaxJoins
    <3>1. /\ generationId' = 0 /\ leaderId' = NoMember /\ members' = {} /\ stale' = {}
          /\ rebalanceInProgress' = FALSE /\ needsRebalance' = FALSE /\ syncReady' = FALSE
          /\ offsetsLoaded' = FALSE /\ window' = 0 /\ clock' = 0 /\ nextMemberSeq' = 0
        BY <1>2 DEF CoordinatorRestart
    <3>2. /\ rebalanceInProgress' \in BOOLEAN /\ needsRebalance' \in BOOLEAN
          /\ syncReady' \in BOOLEAN /\ offsetsLoaded' \in BOOLEAN
        BY <3>1, Zenon
    <3>3. 0 \in 0 .. MaxJoins /\ 0 \in 0 .. 0
        OBVIOUS
    <3>4. QED
        BY <3>1, <3>2, <3>3, Zenon
  <2>7. restarts' \in 0 .. MaxRestarts /\ UNCHANGED <<faults, printed>>
      BY <1>2 DEF CoordinatorRestart, TypeOK
  <2>8. assignment' \in [DOMAIN assignment' -> SUBSET Partition] /\ DOMAIN assignment' \subseteq MemberId
      BY <1>2, <2>4 DEF CoordinatorRestart
  <2>9. QED
      BY <2>1, <2>2, <2>3, <2>5, <2>6, <2>7, <2>8 DEF TypeOK
<1>3. ASSUME NEW m \in MemberId, SessionLapses(m) PROVE TypeOK'
    BY <1>3 DEF SessionLapses, TypeOK, windowVars, syncVars, genVars, offsetVars,
       consumerVars, bounds
<1>4. ASSUME NEW c \in Consumer, Join(c) PROVE TypeOK'
  <2>1. /\ nextMemberSeq \in MemberId
        /\ nextMemberSeq' \in 0 .. MaxJoins
      BY <1>4 DEF Join, TypeOK, MemberId
  <2>2. /\ members' \subseteq MemberId /\ stale' \subseteq members'
        /\ rebalanceInProgress' \in BOOLEAN
        /\ window' \in 0 .. MaxJoins /\ clock' \in 0 .. window'
    <3>1. CASE rebalanceInProgress
        BY <1>4, <2>1, <3>1 DEF Join, EnterWindow, TypeOK
    <3>2. CASE ~rebalanceInProgress
        BY <1>4, <2>1, <3>2 DEF Join, EnterWindow, TypeOK, WindowsMakeGenerations
    <3>3. QED
        BY <3>1, <3>2
  <2>3. /\ session' \in [Consumer -> Session]
        /\ \A d \in Consumer : DOMAIN session'[d].pos \subseteq session'[d].parts
    <3>1. session' = [session EXCEPT ![c] = [session[c] EXCEPT !.id = nextMemberSeq,
                                                               !.window = window']]
        BY <1>4 DEF Join
    <3>2. [session[c] EXCEPT !.id = nextMemberSeq, !.window = window'] \in Session
      <4>1. session[c] \in Session
          BY DEF TypeOK
      <4>2. QED
          BY <2>1, <2>2, <4>1 DEF Session
    <3>3. /\ [session[c] EXCEPT !.id = nextMemberSeq, !.window = window'].pos = session[c].pos
          /\ [session[c] EXCEPT !.id = nextMemberSeq, !.window = window'].parts
               = session[c].parts
        BY DEF TypeOK, Session
    <3>4. QED
        BY <3>1, <3>2, <3>3 DEF TypeOK
  <2>4. QED
      BY <1>4, <2>1, <2>2, <2>3 DEF Join, TypeOK, syncVars, genVars, offsetVars, bounds
<1>5. ASSUME NEW c \in Consumer, JoinReturns(c) PROVE TypeOK'
  <2>1. /\ generationId' \in 0 .. MaxJoins
        /\ leaderId' \in MemberId \cup {NoMember}
        /\ rebalanceInProgress' \in BOOLEAN /\ needsRebalance' \in BOOLEAN
        /\ syncReady' \in BOOLEAN
        /\ assignment' \in [DOMAIN assignment' -> SUBSET Partition]
        /\ DOMAIN assignment' \subseteq MemberId
    <3>1. CASE UNCHANGED <<genVars, rebalanceInProgress, needsRebalance, syncVars>>
        BY <3>1 DEF TypeOK, genVars, syncVars
    <3>2. CASE rebalanceInProgress /\ CloseWindow
        BY <3>2, CloseTypes
    <3>3. QED
        BY <1>5, <3>1, <3>2 DEF JoinReturns
  <2> DEFINE s == [session[c] EXCEPT
                     !.gen = generationId',
                     !.view = IF leaderId' = session[c].id THEN members ELSE {}]
  <2>2. s \in Session /\ DOMAIN s.pos \subseteq s.parts
    <3>1. session[c] \in Session /\ DOMAIN session[c].pos \subseteq session[c].parts
        BY DEF TypeOK
    <3>2. (IF leaderId' = session[c].id THEN members ELSE {}) \subseteq MemberId
        BY DEF TypeOK
    <3> DEFINE view == IF leaderId' = session[c].id THEN members ELSE {}
    <3>3. s = [session[c] EXCEPT !.gen = generationId', !.view = view]
        OBVIOUS
    <3> HIDE DEF s, view
    <3>4. s \in Session
        BY <2>1, <3>1, <3>2, <3>3 DEF Session, view
    <3>5. s.pos = session[c].pos /\ s.parts = session[c].parts
        BY <3>1, <3>3 DEF Session
    <3>6. QED
        BY <3>1, <3>4, <3>5
  <2>3. Return(c, "joined", s)
      BY <1>5 DEF JoinReturns
  <2>4. /\ pc' \in [Consumer -> {"idle", "joining", "joined", "syncing", "resume",
                                 "consuming", "committing", "gone"}]
        /\ session' \in [Consumer -> Session]
        /\ \A d \in Consumer : DOMAIN session'[d].pos \subseteq session'[d].parts
    <3> HIDE DEF s
    <3>1. QED
        BY <2>2, <2>3, ReturnTypes
  <2>5. QED
      BY <1>5, <2>1, <2>4 DEF JoinReturns, TypeOK, offsetVars, bounds
<1>6. ASSUME NEW c \in Consumer, SyncRefused(c) \/ SyncFails(c) PROVE TypeOK'
  <2>1. Return(c, "idle", NoSession)
      BY <1>6 DEF SyncRefused, SyncFails
  <2>2. /\ pc' \in [Consumer -> {"idle", "joining", "joined", "syncing", "resume",
                                 "consuming", "committing", "gone"}]
        /\ session' \in [Consumer -> Session]
        /\ \A d \in Consumer : DOMAIN session'[d].pos \subseteq session'[d].parts
      BY <2>1, NoSessionType, ReturnTypes
  <2>3. QED
      BY <1>6, <2>2 DEF SyncRefused, SyncFails, TypeOK, groupVars, windowVars, memberVars,
         syncVars, genVars, offsetVars, bounds
<1>7. ASSUME NEW c \in Consumer, SyncPosts(c) PROVE TypeOK'
  <2> DEFINE s == [session[c] EXCEPT !.view = {}, !.parts = assignment'[session[c].id]]
  <2>1. /\ session[c] \in Session /\ session[c].view \in SUBSET MemberId
        /\ session[c].view # {}
      BY <1>7 DEF SyncPosts, TypeOK, Session
  <2>2. assignment' \in [members -> SUBSET Partition]
      BY <1>7, PostedSplits
  <2>3. session[c].id \in members
      BY <1>7, PosterIsMember
  <2>4. s \in Session /\ DOMAIN s.pos \subseteq s.parts
    <3>1. DOMAIN session[c].pos = {}
        BY <1>7 DEF SyncPosts, ClientsInStep, InStep
    <3>2. QED
        BY <2>1, <2>2, <2>3, <3>1 DEF Session
  <2>5. Return(c, "resume", s)
      BY <1>7 DEF SyncPosts
  <2>6. /\ pc' \in [Consumer -> {"idle", "joining", "joined", "syncing", "resume",
                                 "consuming", "committing", "gone"}]
        /\ session' \in [Consumer -> Session]
        /\ \A d \in Consumer : DOMAIN session'[d].pos \subseteq session'[d].parts
    <3> HIDE DEF s
    <3>1. QED
        BY <2>4, <2>5, ReturnTypes
  <2>7. QED
      BY <1>7, <2>1, <2>2, <2>6 DEF SyncPosts, TypeOK, windowVars, memberVars, genVars,
         offsetVars, bounds
<1>8. ASSUME NEW c \in Consumer, SyncWaits(c) PROVE TypeOK'
    BY <1>8 DEF SyncWaits, TypeOK, groupVars, windowVars, memberVars, syncVars, genVars,
       offsetVars, bounds
<1>9. ASSUME NEW c \in Consumer, SyncReturns(c) PROVE TypeOK'
  <2> DEFINE s == [session[c] EXCEPT
                     !.parts = IF session[c].id \in DOMAIN assignment
                                 THEN assignment[session[c].id] ELSE {}]
  <2>1. s \in Session /\ DOMAIN s.pos \subseteq s.parts
    <3>1. session[c] \in Session /\ DOMAIN session[c].pos = {}
        BY <1>9 DEF SyncReturns, TypeOK, ClientsInStep, InStep
    <3>2. QED
        BY <3>1 DEF TypeOK, Session
  <2>2. Return(c, "resume", s)
      BY <1>9 DEF SyncReturns
  <2>3. /\ pc' \in [Consumer -> {"idle", "joining", "joined", "syncing", "resume",
                                 "consuming", "committing", "gone"}]
        /\ session' \in [Consumer -> Session]
        /\ \A d \in Consumer : DOMAIN session'[d].pos \subseteq session'[d].parts
    <3> HIDE DEF s
    <3>1. QED
        BY <2>1, <2>2, ReturnTypes
  <2>4. QED
      BY <1>9, <2>3 DEF SyncReturns, TypeOK, groupVars, windowVars, memberVars, syncVars,
         genVars, offsetVars, bounds
<1>10. ASSUME NEW c \in Consumer, Heartbeat(c) PROVE TypeOK'
  <2>1. /\ members' \subseteq MemberId /\ stale' \subseteq members'
        /\ needsRebalance' \in BOOLEAN
        /\ heartbeat' \in [Consumer -> {"off", "on", "rejoin", "dead"}]
      BY <1>10 DEF Heartbeat, TypeOK, memberVars, Evicted
  <2>2. QED
      BY <1>10, <2>1 DEF Heartbeat, TypeOK, windowVars, syncVars, genVars, offsetVars, bounds
<1>11. ASSUME NEW c \in Consumer, HeartbeatBreaks(c) PROVE TypeOK'
    BY <1>11 DEF HeartbeatBreaks, TypeOK, groupVars, windowVars, memberVars, syncVars,
       genVars, offsetVars
<1>12. ASSUME NEW c \in Consumer, StartPolling(c) \/ Rejoin(c) PROVE TypeOK'
    BY <1>12, NoSessionType DEF StartPolling, Rejoin, TypeOK, groupVars, windowVars,
       memberVars, syncVars, genVars, offsetVars, bounds
<1>13. ASSUME NEW c \in Consumer, Commit(c) PROVE TypeOK'
  <2>1. offsets' \in Offsets /\ file' \in Offsets
      BY <1>13, OffsetTypes DEF Commit
  <2>2. QED
      BY <1>13, <2>1 DEF Commit, TypeOK, groupVars, windowVars, memberVars, syncVars,
         genVars, bounds
<1>14. ASSUME NEW c \in Consumer, Leave(c) PROVE TypeOK'
  <2>1. Gone(c)
      BY <1>14 DEF Leave
  <2>2. members' \subseteq MemberId /\ stale' \subseteq members' /\ needsRebalance' \in BOOLEAN
      BY <1>14 DEF Leave, TypeOK
  <2>3. QED
      BY <1>14, <2>1, <2>2, GoneTypes DEF Leave, TypeOK, windowVars, syncVars, genVars,
         offsetVars, bounds
<1>15. ASSUME NEW c \in Consumer, Aborts(c) PROVE TypeOK'
  <2>1. Gone(c)
      BY <1>15 DEF Aborts
  <2>2. QED
      BY <1>15, <2>1, GoneTypes DEF Aborts, TypeOK, groupVars, windowVars, memberVars,
         syncVars, genVars, offsetVars, bounds
<1>16. ASSUME NEW c \in Consumer, Crash(c) PROVE TypeOK'
  <2>1. CASE Gone(c)
      BY <1>16, <2>1, GoneTypes DEF Crash, TypeOK, groupVars, windowVars, memberVars,
         syncVars, genVars, offsetVars
  <2>2. CASE alive' = [alive EXCEPT ![c] = FALSE] /\ UNCHANGED <<pc, session, pending, heartbeat>>
      BY <1>16, <2>2 DEF Crash, TypeOK, groupVars, windowVars, memberVars,
         syncVars, genVars, offsetVars
  <2>3. QED
      BY <1>16, <2>1, <2>2 DEF Crash
<1>17. ASSUME NEW c \in Consumer, NEW p \in Partition, FetchOffset(c, p) PROVE TypeOK'
  <2>1. offsets' \in Offsets
      BY <1>17, OffsetTypes DEF FetchOffset, GroupInv, TypeOK
  <2>2. /\ session' \in [Consumer -> Session]
        /\ \A d \in Consumer : DOMAIN session'[d].pos \subseteq session'[d].parts
      BY <1>17, FetchedSession
  <2>3. QED
      BY <1>17, <2>1, <2>2 DEF FetchOffset, TypeOK, groupVars, windowVars, memberVars,
         syncVars, genVars, bounds
<1>18. ASSUME NEW c \in Consumer, NEW p \in Partition, Poll(c, p) PROVE TypeOK'
  <2>1. PICK last \in session[c].pos[p] .. MaxRecords - 1 :
          printed' = [printed EXCEPT ![p] = @ \cup (session[c].pos[p] .. last)]
      BY <1>18, PolledSession
  <2>2. /\ session' \in [Consumer -> Session]
        /\ \A d \in Consumer : DOMAIN session'[d].pos \subseteq session'[d].parts
        /\ session[c].pos[p] \in 0 .. MaxRecords
      BY <1>18, PolledSession
  <2>3. printed' \in [Partition -> SUBSET (0 .. MaxRecords)]
      BY <2>1, <2>2 DEF TypeOK
  <2>4. QED
      BY <1>18, <2>2, <2>3 DEF Poll, TypeOK, groupVars, windowVars, memberVars, syncVars,
         genVars, offsetVars, bounds
<1>19. CASE UNCHANGED vars
    BY <1>19 DEF vars, TypeOK, groupVars, windowVars, memberVars, syncVars, genVars,
       offsetVars, consumerVars, bounds
<1>20. QED
    BY <1>1, <1>2, <1>3, <1>4, <1>5, <1>6, <1>7, <1>8, <1>9, <1>10, <1>11, <1>12, <1>13,
       <1>14, <1>15, <1>16, <1>17, <1>18, <1>19 DEF Next

-----------------------------------------------------------------------------
(* Consumers stay in step with their threads and connections *)

\* A step of one consumer.
LEMMA OneClientSteps ==
    ASSUME GroupInv, NEW c \in Consumer, InStep(c)',
           \A d \in Consumer \ {c} :
             /\ pc'[d] = pc[d] /\ session'[d] = session[d] /\ pending'[d] = pending[d]
             /\ heartbeat'[d] = heartbeat[d] /\ connected'[d] = connected[d]
    PROVE  ClientsInStep'
BY DEF GroupInv, ClientsInStep, InStep

\* No step puts a consumer's threads, session and connections out of step.
LEMMA ClientsStep ==
    ASSUME GroupInv, [Next]_vars
    PROVE  ClientsInStep'
<1> USE DEF GroupInv
<1> TypeOK /\ \A c \in Consumer : InStep(c)
    BY DEF ClientsInStep
<1>1. ASSUME UNCHANGED consumerVars PROVE ClientsInStep'
    BY <1>1 DEF consumerVars, ClientsInStep, InStep
<1>2. ASSUME CoordinatorRestart PROVE ClientsInStep'
    BY <1>2, NoSessionType DEF CoordinatorRestart, ClientsInStep, InStep, TypeOK
<1>4. ASSUME NEW c \in Consumer, Join(c) PROVE ClientsInStep'
  <2>1. session'[c].pos = session[c].pos /\ session[c] = NoSession /\ connected[c] /\ heartbeat[c] = "off"
      BY <1>4 DEF Join, TypeOK, Session, InStep
  <2>2. InStep(c)'
      BY <1>4, <2>1, NoSessionType DEF Join, TypeOK, InStep
  <2>3. QED
      BY <1>4, <2>2, OneClientSteps DEF Join, TypeOK
<1>5. ASSUME NEW c \in Consumer, JoinReturns(c) PROVE ClientsInStep'
  <2>1. session'[c].pos = session[c].pos \/ session'[c] = NoSession
      BY <1>5 DEF JoinReturns, Return, TypeOK, Session
  <2>2. InStep(c)'
      BY <1>5, <2>1, NoSessionType DEF JoinReturns, Return, TypeOK, InStep
  <2>3. QED
      BY <1>5, <2>2, OneClientSteps DEF JoinReturns, Return, TypeOK
<1>6. ASSUME NEW c \in Consumer, SyncRefused(c) \/ SyncFails(c) PROVE ClientsInStep'
  <2>1. InStep(c)'
      BY <1>6, NoSessionType DEF SyncRefused, SyncFails, Return, TypeOK, InStep
  <2>2. QED
      BY <1>6, <2>1, OneClientSteps DEF SyncRefused, SyncFails, Return, TypeOK
<1>7. ASSUME NEW c \in Consumer, SyncPosts(c) \/ SyncReturns(c) PROVE ClientsInStep'
  <2>1. InStep(c)'
      BY <1>7, NoSessionType DEF SyncPosts, SyncReturns, Return, TypeOK, InStep
  <2>2. QED
      BY <1>7, <2>1, OneClientSteps DEF SyncPosts, SyncReturns, Return, TypeOK
<1>8. ASSUME NEW c \in Consumer, SyncWaits(c) PROVE ClientsInStep'
  <2>1. InStep(c)'
      BY <1>8 DEF SyncWaits, TypeOK, InStep
  <2>2. QED
      BY <1>8, <2>1, OneClientSteps DEF SyncWaits, TypeOK
<1>9. ASSUME NEW c \in Consumer, Heartbeat(c) \/ HeartbeatBreaks(c) PROVE ClientsInStep'
  <2>1. InStep(c)'
      BY <1>9 DEF Heartbeat, HeartbeatBreaks, Beating, TypeOK, InStep
  <2>2. QED
      BY <1>9, <2>1, OneClientSteps DEF Heartbeat, HeartbeatBreaks, TypeOK
<1>10. ASSUME NEW c \in Consumer, StartPolling(c) \/ Rejoin(c) \/ Commit(c) PROVE ClientsInStep'
  <2>1. InStep(c)'
      BY <1>10, NoSessionType DEF StartPolling, Rejoin, Commit, TypeOK, InStep
  <2>2. QED
      BY <1>10, <2>1, OneClientSteps DEF StartPolling, Rejoin, Commit, TypeOK
<1>11. ASSUME NEW c \in Consumer, Gone(c), UNCHANGED connected PROVE ClientsInStep'
  <2>1. InStep(c)'
      BY <1>11, NoSessionType DEF Gone, TypeOK, InStep
  <2>2. QED
      BY <1>11, <2>1, OneClientSteps DEF Gone, TypeOK
<1>12. ASSUME NEW c \in Consumer, Crash(c) PROVE ClientsInStep'
  <2>1. CASE UNCHANGED <<pc, session, pending, heartbeat, connected>>
      BY <2>1 DEF ClientsInStep, InStep
  <2>2. QED
      BY <1>11, <1>12, <2>1 DEF Crash
<1>13. ASSUME NEW c \in Consumer, NEW p \in Partition, FetchOffset(c, p) PROVE ClientsInStep'
  <2>1. InStep(c)'
      BY <1>13 DEF FetchOffset, TypeOK, InStep
  <2>2. QED
      BY <1>13, <2>1, FetchedSession, OneClientSteps DEF FetchOffset, TypeOK
<1>14. ASSUME NEW c \in Consumer, NEW p \in Partition, Poll(c, p) PROVE ClientsInStep'
  <2>1. /\ session'[c].parts = session[c].parts
        /\ DOMAIN session'[c].pos = DOMAIN session[c].pos
        /\ \A d \in Consumer \ {c} : session'[d] = session[d]
    <3>1. session[c] \in Session
        BY DEF TypeOK
    <3>2. /\ session'[c] = [session[c] EXCEPT !.pos = session'[c].pos]
          /\ DOMAIN session'[c].pos = DOMAIN session[c].pos
          /\ \A d \in Consumer \ {c} : session'[d] = session[d]
        BY <1>14, PolledSession
    <3>3. QED
        BY <3>1, <3>2 DEF Session
  <2>2. InStep(c)'
      BY <1>14, <2>1 DEF Poll, TypeOK, InStep
  <2>3. QED
      BY <1>14, <2>1, <2>2, OneClientSteps DEF Poll, TypeOK
<1>15. QED
    BY <1>1, <1>2, <1>4, <1>5, <1>6, <1>7, <1>8, <1>9, <1>10, <1>11, <1>12, <1>13, <1>14
       DEF Next, vars, DeadlinePasses, SessionLapses, Leave, Aborts

-----------------------------------------------------------------------------
(* The coordinator and its consumers *)

\* In one generation nobody shares, because nobody shares a member id.
LEMMA OwnersDiffer ==
    ASSUME HoldersAreAssigned, IdsAreDrawn, AssignmentSplits,
           NEW c \in Consumer, NEW d \in Consumer, c # d, Holding(c), Holding(d),
           connected[c], connected[d],
           session[c].gen = generationId, session[d].gen = generationId
    PROVE  session[c].parts \cap session[d].parts = {}
<1>1. Joined(c) /\ Joined(d)
    BY DEF Holding, Joined
<1>2. session[c].id # session[d].id
    BY <1>1 DEF IdsAreDrawn
<1>3. QED
    BY <1>2 DEF HoldersAreAssigned, AssignmentSplits

\* A step that leaves the generation, its window and its assignment alone, and lets
\* members go only when the assignment is posted and a rebalance is due, moves
\* consumers only out of the group or from one state of holding partitions to another.
LEMMA QuietStep ==
    ASSUME GroupInv, TypeOK', ClientsInStep',
           UNCHANGED <<generationId, leaderId, rebalanceInProgress, window, syncReady,
                       assignment, nextMemberSeq>>,
           \/ UNCHANGED <<members, needsRebalance>>
           \/ members' \subseteq members /\ needsRebalance' /\ syncReady,
           \A d \in Consumer : Joined(d)' =>
             /\ Joined(d)
             /\ session'[d].id = session[d].id /\ session'[d].gen = session[d].gen
             /\ session'[d].view = session[d].view /\ session'[d].parts = session[d].parts
             /\ pc'[d] = pc[d] \/ (Holding(d) /\ Holding(d)')
    PROVE  GroupInv'
<1> USE DEF GroupInv
<1>1. \A d \in Consumer :
        /\ Answered(d)' => Answered(d)
        /\ MayPost(d)' => MayPost(d) /\ UNCHANGED <<members, session[d].id, session[d].view>>
        /\ (connected[d] /\ Holding(d))' => connected[d] /\ Holding(d) /\ Joined(d)'
  <2> SUFFICES ASSUME NEW d \in Consumer
               PROVE  /\ Answered(d)' => Answered(d)
                      /\ MayPost(d)' => MayPost(d) /\ UNCHANGED <<members, session[d].id, session[d].view>>
                      /\ (connected[d] /\ Holding(d))' => connected[d] /\ Holding(d) /\ Joined(d)'
      OBVIOUS
  <2>1. Answered(d)' => Answered(d)
      BY DEF Answered, Holding
  <2>2. ASSUME MayPost(d)' PROVE MayPost(d) /\ UNCHANGED <<members, session[d].id, session[d].view>>
      BY <2>2 DEF MayPost, Holding, LeaderPostsOnce
  <2>3. (connected[d] /\ Holding(d))' => connected[d] /\ Holding(d) /\ Joined(d)'
      BY DEF Joined, Holding
  <2>4. QED
      BY <2>1, <2>2, <2>3
<1>2. IdsAreDrawn'
    BY DEF IdsAreDrawn
<1>3. WindowsMakeGenerations'
    BY <1>1 DEF WindowsMakeGenerations, Answered
<1>4. MembersAreCurrent'
    BY <1>1 DEF MembersAreCurrent, Answered
<1>5. LeaderPostsOnce'
    BY <1>1 DEF LeaderPostsOnce, Holding
<1>6. WaitersAreAssigned'
    BY DEF WaitersAreAssigned, Holding
<1>7. HoldersAreAssigned'
    BY <1>1 DEF HoldersAreAssigned
<1>8. AssignmentSplits'
    BY DEF AssignmentSplits
<1>9. OneOwner'
  <2> SUFFICES ASSUME NEW c \in Consumer, NEW d \in Consumer, c # d,
                      (connected[c] /\ Holding(c))', (connected[d] /\ Holding(d))',
                      session'[c].gen = session'[d].gen
               PROVE  session'[c].parts \cap session'[d].parts = {}
      BY DEF OneOwner
  <2>1. session[c].parts \cap session[d].parts = {}
      BY <1>1 DEF OneOwner
  <2>2. QED
      BY <1>1, <2>1
<1>10. QED
    BY <1>2, <1>3, <1>4, <1>5, <1>6, <1>7, <1>8, <1>9

\* A consumer joins.
LEMMA JoinKeeps ==
    ASSUME GroupInv, NEW c \in Consumer, Join(c), TypeOK', ClientsInStep'
    PROVE  GroupInv'
<1> USE DEF GroupInv
<1>1. nextMemberSeq \in Nat /\ nextMemberSeq' = nextMemberSeq + 1
    BY DEF Join, TypeOK
<1>2. /\ rebalanceInProgress'
      /\ members' \subseteq members \cup {nextMemberSeq}
      /\ ~rebalanceInProgress => members' = {nextMemberSeq}
      /\ window' = generationId + 1 /\ window' <= nextMemberSeq'
    BY <1>1 DEF Join, EnterWindow, TypeOK, WindowsMakeGenerations
<1>3. UNCHANGED <<generationId, leaderId, syncReady, assignment, connected>>
    BY DEF Join, genVars, syncVars
<1>4. /\ pc[c] = "idle" /\ pc'[c] = "joining" /\ session'[c].id = nextMemberSeq
      /\ \A d \in Consumer \ {c} : pc'[d] = pc[d] /\ session'[d] = session[d]
    BY DEF Join, TypeOK, Session
<1>5. \A d \in Consumer :
        /\ Joined(d)' => d = c \/ (Joined(d) /\ session'[d] = session[d])
        /\ Answered(d)' => d # c /\ Answered(d) /\ session'[d] = session[d]
        /\ MayPost(d)' => d # c /\ MayPost(d) /\ session'[d] = session[d]
        /\ (connected[d] /\ Holding(d))' => d # c /\ connected[d] /\ Holding(d) /\ session'[d] = session[d]
    BY <1>3, <1>4 DEF Joined, Answered, MayPost, Holding
<1>6. IdsAreDrawn'
  <2>1. \A d \in Consumer : Joined(d)' => session'[d].id \in 0 .. nextMemberSeq' - 1
      BY <1>1, <1>4, <1>5 DEF IdsAreDrawn
  <2>2. \A d \in Consumer \ {c} : Joined(d)' => session'[d].id \in 0 .. nextMemberSeq - 1
      BY <1>5 DEF IdsAreDrawn
  <2>3. \A d, e \in Consumer : d # e /\ Joined(d)' /\ Joined(e)' => session'[d].id # session'[e].id
      BY <1>1, <1>4, <1>5, <2>2 DEF IdsAreDrawn
  <2>4. members' \subseteq 0 .. nextMemberSeq' - 1 /\ leaderId' \in {NoMember} \cup 0 .. nextMemberSeq' - 1
    <3>1. nextMemberSeq' - 1 = nextMemberSeq
        BY <1>1
    <3>2. 0 .. nextMemberSeq - 1 \subseteq 0 .. nextMemberSeq /\ nextMemberSeq \in 0 .. nextMemberSeq
        BY <1>1
    <3>3. QED
        BY <1>2, <1>3, <3>1, <3>2 DEF IdsAreDrawn
  <2>5. QED
      BY <2>1, <2>3, <2>4 DEF IdsAreDrawn
<1>7. WindowsMakeGenerations'
    BY <1>2, <1>3, <1>5 DEF WindowsMakeGenerations
<1>8. MembersAreCurrent'
  <2> SUFFICES ASSUME NEW d \in Consumer, Answered(d)', session'[d].id \in members'
               PROVE  FALSE
      BY DEF MembersAreCurrent
  <2>1. Answered(d) /\ session[d].id \in 0 .. nextMemberSeq - 1 /\ session'[d] = session[d]
      BY <1>5 DEF IdsAreDrawn, Answered
  <2>2. session[d].id \in members /\ rebalanceInProgress
      BY <1>1, <1>2, <2>1
  <2>3. QED
      BY <2>1, <2>2 DEF MembersAreCurrent
<1>9. LeaderPostsOnce'
  <2>1. session'[c].id # leaderId'
      BY <1>1, <1>3, <1>4 DEF IdsAreDrawn, NoMember
  <2>2. QED
      BY <1>2, <1>3, <1>4, <1>5, <2>1 DEF LeaderPostsOnce
<1>10. WaitersAreAssigned'
    BY <1>2, <1>3, <1>4, <1>5 DEF WaitersAreAssigned
<1>11. HoldersAreAssigned'
    BY <1>3, <1>5 DEF HoldersAreAssigned
<1>12. AssignmentSplits'
    BY <1>2, <1>3 DEF AssignmentSplits
<1>13. OneOwner'
    BY <1>5 DEF OneOwner
<1>14. QED
    BY <1>6, <1>7, <1>8, <1>9, <1>10, <1>11, <1>12, <1>13

\* A consumer that joined gets its answer; the first one of its window closes it.
LEMMA JoinReturnsKeeps ==
    ASSUME GroupInv, NEW c \in Consumer, JoinReturns(c), TypeOK', ClientsInStep'
    PROVE  GroupInv'
<1> USE DEF GroupInv
<1>1. /\ pc[c] = "joining" /\ connected[c] /\ Joined(c)
      /\ pc'[c] \in {"joined", "gone"}
      /\ pc'[c] = "joined" => /\ session'[c].id = session[c].id
                              /\ session'[c].gen = generationId'
                              /\ session'[c].view = IF leaderId' = session[c].id THEN members ELSE {}
      /\ \A d \in Consumer \ {c} : pc'[d] = pc[d] /\ session'[d] = session[d]
  <2>1. pc[c] = "joining" /\ connected[c] /\ Joined(c)
      BY DEF JoinReturns, ClientsInStep, InStep, Joined
  <2>2. /\ pc'[c] \in {"joined", "gone"}
        /\ pc'[c] = "joined" => /\ session'[c].id = session[c].id
                                /\ session'[c].gen = generationId'
                                /\ session'[c].view = IF leaderId' = session[c].id THEN members ELSE {}
        /\ \A d \in Consumer \ {c} : pc'[d] = pc[d] /\ session'[d] = session[d]
      BY DEF JoinReturns, Return, TypeOK, Session
  <2>3. QED
      BY <2>1, <2>2
<1>2. UNCHANGED <<window, members, nextMemberSeq, connected>>
    BY DEF JoinReturns
<1>3. \A d \in Consumer \ {c} :
        /\ Joined(d)' <=> Joined(d)
        /\ Answered(d)' <=> Answered(d)
        /\ Holding(d)' <=> Holding(d)
    BY <1>1, <1>2 DEF Joined, Answered, Holding
<1>4. ~Holding(c) /\ ~Holding(c)'
    BY <1>1 DEF Holding
<1>5. CASE /\ ~rebalanceInProgress
           /\ UNCHANGED <<genVars, rebalanceInProgress, needsRebalance, syncVars>>
  <2>1. UNCHANGED <<generationId, leaderId, rebalanceInProgress, needsRebalance, syncReady, assignment>>
      BY <1>5 DEF genVars, syncVars
  <2>2. IdsAreDrawn'
      BY <1>1, <1>2, <1>3, <2>1 DEF IdsAreDrawn, Joined
  <2>3. WindowsMakeGenerations'
    <3>1. Answered(c)' => session'[c].gen <= generationId'
        BY <1>1, <2>1 DEF Answered, Joined, TypeOK
    <3>2. QED
        BY <1>1, <1>2, <1>3, <2>1, <3>1 DEF WindowsMakeGenerations
  <2>4. MembersAreCurrent'
    <3>1. Answered(c)' => session'[c].gen = generationId'
        BY <1>1 DEF Answered, Joined
    <3>2. QED
        BY <1>2, <1>3, <1>5, <2>1, <1>1, <3>1 DEF MembersAreCurrent
  <2>5. LeaderPostsOnce'
    <3>1. MayPost(c)' => session'[c].id = leaderId' /\ ~syncReady' /\ session'[c].view = members'
        BY <1>1, <1>2, <2>1 DEF MayPost, LeaderPostsOnce
    <3>2. \A d \in Consumer \ {c} : MayPost(d)' => MayPost(d) /\ session'[d] = session[d]
        BY <1>1, <1>3, <2>1 DEF MayPost
    <3>3. \A d \in Consumer : syncReady' /\ Joined(d)' /\ session'[d].id = leaderId' => pc'[d] # "joining"
        BY <1>1, <1>3, <2>1 DEF LeaderPostsOnce
    <3>4. QED
        BY <1>2, <2>1, <3>1, <3>2, <3>3 DEF LeaderPostsOnce
  <2>6. WaitersAreAssigned' /\ HoldersAreAssigned' /\ AssignmentSplits'
      BY <1>1, <1>2, <1>3, <1>4, <2>1 DEF WaitersAreAssigned, HoldersAreAssigned, AssignmentSplits
  <2>7. OneOwner'
      BY <1>1, <1>2, <1>3, <1>4 DEF OneOwner
  <2>8. QED
      BY <2>2, <2>3, <2>4, <2>5, <2>6, <2>7
<1>6. CASE rebalanceInProgress /\ CloseWindow
  <2>1. /\ generationId' = generationId + 1 /\ ~rebalanceInProgress' /\ ~syncReady'
        /\ leaderId' \in {NoMember} \cup members
    <3>1. members \in SUBSET Nat
        BY BoundAssumption DEF TypeOK, MemberId
    <3>2. members # {} => Min(members) \in members
        BY <3>1, MinIsMember
    <3>3. QED
        BY <1>6, <3>2 DEF CloseWindow
  <2>2. \A d \in Consumer \ {c} : Answered(d) => session'[d].gen < generationId'
      BY <1>1, <2>1 DEF TypeOK, Session, WindowsMakeGenerations
  <2>3. IdsAreDrawn'
    <3>1. \A d \in Consumer : Joined(d)' => Joined(d) /\ session'[d].id = session[d].id
        BY <1>1, <1>3 DEF Joined
    <3>2. leaderId' \in {NoMember} \cup 0 .. nextMemberSeq - 1
        BY <2>1 DEF IdsAreDrawn
    <3>3. QED
        BY <1>2, <3>1, <3>2 DEF IdsAreDrawn
  <2>4. WindowsMakeGenerations'
    <3>1. \A d \in Consumer : Answered(d)' => session'[d].gen <= generationId'
      <4>1. generationId' \in Nat
          BY <2>1 DEF TypeOK
      <4>2. Answered(c)' => session'[c].gen <= generationId'
          BY <1>1, <4>1 DEF Answered, Joined
      <4>3. \A d \in Consumer : session'[d].gen \in Nat
          BY DEF TypeOK, Session
      <4>4. QED
          BY <1>3, <2>2, <4>1, <4>2, <4>3
    <3>2. QED
        BY <1>2, <1>6, <2>1, <3>1 DEF WindowsMakeGenerations, TypeOK
  <2>5. MembersAreCurrent'
    <3>1. Answered(c)' => session'[c].gen = generationId'
        BY <1>1 DEF Answered, Joined
    <3>2. QED
        BY <1>1, <1>2, <1>3, <1>6, <2>1, <3>1 DEF MembersAreCurrent
  <2>6. LeaderPostsOnce'
    <3>1. \A d \in Consumer : MayPost(d)' => d = c
      <4>1. ASSUME NEW d \in Consumer \ {c}, MayPost(d)' PROVE FALSE
        <5>1. Answered(d)' /\ session'[d].gen = generationId'
            BY <4>1 DEF MayPost, Answered
        <5>2. session'[d].gen < generationId'
            BY <5>1, <1>3, <2>2
        <5>3. QED
            BY <5>1, <5>2 DEF TypeOK
      <4>2. QED
          BY <4>1
    <3>2. MayPost(c)' => session'[c].id = leaderId' /\ session'[c].view = members'
        BY <1>1, <1>2 DEF MayPost
    <3>3. QED
        BY <2>1, <3>1, <3>2 DEF LeaderPostsOnce
  <2>7. \A d \in Consumer \ {c} : Answered(d)' => session'[d].gen # generationId'
      BY <1>3, <2>1, <2>2 DEF TypeOK, Session
  <2>8. WaitersAreAssigned' /\ HoldersAreAssigned' /\ AssignmentSplits'
      BY <1>1, <1>4, <2>1, <2>7 DEF WaitersAreAssigned, HoldersAreAssigned, AssignmentSplits,
         Answered, Joined, Holding
  <2>9. OneOwner'
      BY <1>1, <1>2, <1>3, <1>4 DEF OneOwner
  <2>10. QED
      BY <2>3, <2>4, <2>5, <2>6, <2>8, <2>9
<1>7. QED
    BY <1>5, <1>6 DEF JoinReturns

\* The leader posts the assignment.
LEMMA SyncPostsKeeps ==
    ASSUME GroupInv, NEW c \in Consumer, SyncPosts(c), TypeOK', ClientsInStep'
    PROVE  GroupInv'
<1> USE DEF GroupInv
<1>1. /\ Joined(c) /\ MayPost(c) /\ ~syncReady /\ ~rebalanceInProgress
      /\ session[c].view = members /\ session[c].id \in members /\ session[c].id = leaderId
      /\ session[c].gen = generationId
    BY PosterIsMember DEF LeaderPostsOnce, MayPost
<1>2. /\ assignment' \in [members -> SUBSET Partition]
      /\ \A m, k \in members : m # k => assignment'[m] \cap assignment'[k] = {}
      /\ UNION {assignment'[m] : m \in members} = Partition
    BY PostedSplits
<1>3. /\ UNCHANGED <<generationId, leaderId, rebalanceInProgress, window, members,
                     needsRebalance, nextMemberSeq, connected>>
      /\ syncReady'
    BY DEF SyncPosts, genVars, windowVars, memberVars
<1>4. /\ pc'[c] \in {"resume", "gone"}
      /\ pc'[c] = "resume" => /\ session'[c].id = session[c].id
                              /\ session'[c].gen = session[c].gen
                              /\ session'[c].parts = assignment'[session[c].id]
      /\ \A d \in Consumer \ {c} : pc'[d] = pc[d] /\ session'[d] = session[d]
  <2> DEFINE given == assignment'[session[c].id]
             s == [session[c] EXCEPT !.view = {}, !.parts = given]
  <2>1. Return(c, "resume", s)
      BY DEF SyncPosts
  <2>2. session[c] \in Session
      BY DEF TypeOK
  <2>3. s.id = session[c].id /\ s.gen = session[c].gen /\ s.parts = given
      BY <2>2 DEF Session
  <2> HIDE DEF s, given
  <2>4. /\ pc'[c] = IF alive[c] THEN "resume" ELSE "gone"
        /\ session'[c] = IF alive[c] THEN s ELSE NoSession
        /\ \A d \in Consumer \ {c} : pc'[d] = pc[d] /\ session'[d] = session[d]
      BY <2>1, <2>2 DEF Return, TypeOK
  <2>5. QED
      BY <2>3, <2>4 DEF given
<1>5. /\ \A d \in Consumer \ {c} : /\ Joined(d)' <=> Joined(d)
                                   /\ Answered(d)' <=> Answered(d)
                                   /\ Holding(d)' <=> Holding(d)
      /\ Joined(c)' => pc'[c] = "resume"
    BY <1>3, <1>4 DEF Joined, Answered, Holding
<1>6. \A d \in Consumer \ {c} : Joined(d) => session[d].id # leaderId
    BY <1>1 DEF IdsAreDrawn
<1>7. IdsAreDrawn'
    BY <1>1, <1>3, <1>4, <1>5 DEF IdsAreDrawn
<1>8. WindowsMakeGenerations'
    BY <1>1, <1>3, <1>4, <1>5 DEF WindowsMakeGenerations, Answered, TypeOK
<1>9. MembersAreCurrent'
    BY <1>1, <1>3, <1>4, <1>5 DEF MembersAreCurrent, Answered
<1>10. LeaderPostsOnce'
  <2>1. \A d \in Consumer : ~MayPost(d)'
      BY <1>3, <1>4, <1>5, <1>6 DEF MayPost, LeaderPostsOnce
  <2>2. \A d \in Consumer : Joined(d)' /\ session'[d].id = leaderId' => pc'[d] # "joining"
      BY <1>3, <1>4, <1>5, <1>6
  <2>3. QED
      BY <2>1, <2>2 DEF LeaderPostsOnce
<1>11. WaitersAreAssigned'
    BY <1>1, <1>2, <1>3, <1>4, <1>5 DEF WaitersAreAssigned
<1>12. HoldersAreAssigned'
    BY <1>1, <1>2, <1>3, <1>4, <1>5 DEF HoldersAreAssigned, Joined, Holding
<1>13. AssignmentSplits'
    BY <1>2, <1>3 DEF AssignmentSplits
<1>14. OneOwner'
  <2> SUFFICES ASSUME NEW d \in Consumer, NEW e \in Consumer, d # e, Holding(d)', Holding(e)',
                      connected'[d], connected'[e], session'[d].gen = session'[e].gen
               PROVE  session'[d].parts \cap session'[e].parts = {}
      BY DEF OneOwner
  <2>1. CASE c \notin {d, e}
      BY <2>1, <1>3, <1>4, <1>5 DEF OneOwner
  <2>2. CASE c \in {d, e}
    <3>1. session'[d].gen = generationId' /\ session'[e].gen = generationId'
        BY <2>2, <1>1, <1>3, <1>4 DEF Holding
    <3>2. QED
      <4> HIDE DEF GroupInv
      <4>1. (session[d].parts \cap session[e].parts = {})'
          BY <1>7, <1>12, <1>13, <3>1, OwnersDiffer
             DEF Holding, Joined, IdsAreDrawn, HoldersAreAssigned, AssignmentSplits
      <4>2. QED
          BY <4>1
  <2>3. QED
      BY <2>1, <2>2
<1>15. QED
    BY <1>7, <1>8, <1>9, <1>10, <1>11, <1>12, <1>13, <1>14

\* A follower goes to wait in sync_group.
LEMMA SyncWaitsKeeps ==
    ASSUME GroupInv, NEW c \in Consumer, SyncWaits(c), TypeOK', ClientsInStep'
    PROVE  GroupInv'
<1> USE DEF GroupInv
<1>1. /\ pc[c] = "joined" /\ pc'[c] = "syncing" /\ session[c].gen = generationId
      /\ session[c].id \in members /\ Joined(c) /\ ~rebalanceInProgress
      /\ \A d \in Consumer \ {c} : pc'[d] = pc[d]
      /\ session' = session /\ connected' = connected
    BY DEF SyncWaits, Accepted, TypeOK, ClientsInStep, InStep, Joined, MembersAreCurrent, Answered
<1>2. UNCHANGED <<generationId, leaderId, rebalanceInProgress, window, members, syncReady,
                  assignment, needsRebalance, nextMemberSeq>>
    BY DEF SyncWaits, groupVars, windowVars, memberVars, syncVars, genVars
<1>3. \A d \in Consumer : /\ Joined(d)' <=> Joined(d)
                          /\ Answered(d)' <=> Answered(d)
                          /\ Holding(d)' <=> Holding(d)
                          /\ MayPost(d)' => MayPost(d)
    BY <1>1, <1>2 DEF Joined, Answered, Holding, MayPost
<1>4. IdsAreDrawn' /\ WindowsMakeGenerations' /\ MembersAreCurrent'
    BY <1>1, <1>2, <1>3 DEF IdsAreDrawn, WindowsMakeGenerations, MembersAreCurrent
<1>5. LeaderPostsOnce' /\ HoldersAreAssigned' /\ AssignmentSplits' /\ OneOwner'
    BY <1>1, <1>2, <1>3 DEF LeaderPostsOnce, HoldersAreAssigned, AssignmentSplits, OneOwner
<1>6. WaitersAreAssigned'
    BY <1>1, <1>2, <1>3 DEF WaitersAreAssigned, AssignmentSplits
<1>7. QED
    BY <1>4, <1>5, <1>6

\* A follower gets its part of the assignment.
LEMMA SyncReturnsKeeps ==
    ASSUME GroupInv, NEW c \in Consumer, SyncReturns(c), TypeOK', ClientsInStep'
    PROVE  GroupInv'
<1> USE DEF GroupInv
<1>1. /\ pc[c] = "syncing" /\ session[c].gen = generationId /\ syncReady /\ Joined(c)
      /\ session[c].id \in DOMAIN assignment
    BY DEF SyncReturns, SyncDone, ClientsInStep, InStep, Joined, WaitersAreAssigned
<1>2. /\ pc'[c] \in {"resume", "gone"}
      /\ pc'[c] = "resume" => /\ session'[c].id = session[c].id
                              /\ session'[c].gen = session[c].gen
                              /\ session'[c].parts = assignment[session[c].id]
      /\ \A d \in Consumer \ {c} : pc'[d] = pc[d] /\ session'[d] = session[d]
    BY <1>1 DEF SyncReturns, Return, TypeOK, Session
<1>3. UNCHANGED <<generationId, leaderId, rebalanceInProgress, window, members, syncReady,
                  assignment, needsRebalance, nextMemberSeq, connected>>
    BY DEF SyncReturns, groupVars, windowVars, memberVars, syncVars, genVars
<1>4. /\ \A d \in Consumer \ {c} : /\ Joined(d)' <=> Joined(d)
                                   /\ Answered(d)' <=> Answered(d)
                                   /\ Holding(d)' <=> Holding(d)
                                   /\ MayPost(d)' => MayPost(d)
      /\ Joined(c)' => pc'[c] = "resume"
      /\ Answered(c) /\ ~MayPost(c)'
    BY <1>1, <1>2, <1>3 DEF Joined, Answered, Holding, MayPost
<1>5. IdsAreDrawn' /\ WindowsMakeGenerations' /\ MembersAreCurrent'
    BY <1>1, <1>2, <1>3, <1>4
       DEF IdsAreDrawn, WindowsMakeGenerations, MembersAreCurrent, Answered
<1>6. LeaderPostsOnce' /\ WaitersAreAssigned' /\ AssignmentSplits'
    BY <1>1, <1>2, <1>3, <1>4 DEF LeaderPostsOnce, WaitersAreAssigned, AssignmentSplits
<1>7. HoldersAreAssigned'
    BY <1>1, <1>2, <1>3, <1>4 DEF HoldersAreAssigned, Joined, Holding
<1>8. OneOwner'
  <2> SUFFICES ASSUME NEW d \in Consumer, NEW e \in Consumer, d # e, Holding(d)', Holding(e)',
                      connected'[d], connected'[e], session'[d].gen = session'[e].gen
               PROVE  session'[d].parts \cap session'[e].parts = {}
      BY DEF OneOwner
  <2>1. CASE c \notin {d, e}
      BY <2>1, <1>2, <1>3, <1>4 DEF OneOwner
  <2>2. CASE c \in {d, e}
    <3>1. session'[d].gen = generationId' /\ session'[e].gen = generationId'
        BY <2>2, <1>1, <1>2, <1>3 DEF Holding
    <3>2. QED
      <4> HIDE DEF GroupInv
      <4>1. (session[d].parts \cap session[e].parts = {})'
          BY <1>5, <1>6, <1>7, <3>1, OwnersDiffer
             DEF Holding, Joined, IdsAreDrawn, HoldersAreAssigned, AssignmentSplits
      <4>2. QED
          BY <4>1
  <2>3. QED
      BY <2>1, <2>2
<1>9. QED
    BY <1>5, <1>6, <1>7, <1>8

\* After a restart of the coordinator nobody is in the group.
LEMMA CoordinatorRestartKeeps ==
    ASSUME GroupInv, CoordinatorRestart, TypeOK', ClientsInStep'
    PROVE  GroupInv'
<1>1. \A c \in Consumer : ~Joined(c)'
    BY DEF CoordinatorRestart, Joined
<1>2. /\ generationId' = 0 /\ leaderId' = NoMember /\ members' = {} /\ ~rebalanceInProgress'
      /\ ~syncReady' /\ window' = 0 /\ nextMemberSeq' = 0
    BY DEF CoordinatorRestart
<1>3. IdsAreDrawn' /\ WindowsMakeGenerations' /\ MembersAreCurrent' /\ AssignmentSplits'
    BY <1>1, <1>2 DEF IdsAreDrawn, WindowsMakeGenerations, MembersAreCurrent, Answered,
       AssignmentSplits
<1>4. LeaderPostsOnce' /\ WaitersAreAssigned' /\ HoldersAreAssigned' /\ OneOwner'
    BY <1>1 DEF LeaderPostsOnce, MayPost, WaitersAreAssigned, HoldersAreAssigned, OneOwner,
       Joined, Holding
<1>5. QED
    BY <1>3, <1>4 DEF GroupInv

\* A heartbeat that is not refused is of a holder of the present generation.
LEMMA HeartbeatIsQuiet ==
    ASSUME GroupInv, NEW c \in Consumer, Heartbeat(c)
    PROVE  \/ UNCHANGED <<members, needsRebalance>>
           \/ members' \subseteq members /\ needsRebalance' /\ syncReady
<1>1. CASE UNCHANGED memberVars
    BY <1>1 DEF memberVars
<1>2. CASE /\ session[c].gen = generationId /\ ~needsRebalance
           /\ members' = members \ Evicted(session[c].id)
           /\ needsRebalance' = (Evicted(session[c].id) # {})
  <2>1. connected[c] /\ Holding(c)
      BY DEF GroupInv, ClientsInStep, InStep, Heartbeat, Beating, Holding
  <2>2. syncReady
      BY <1>2, <2>1 DEF GroupInv, HoldersAreAssigned
  <2>3. QED
      BY <1>2, <2>2 DEF GroupInv, TypeOK
<1>3. QED
    BY <1>1, <1>2 DEF Heartbeat

\* A member that leaves is a holder of the present generation.
LEMMA LeaveIsQuiet ==
    ASSUME GroupInv, NEW c \in Consumer, Leave(c)
    PROVE  \/ UNCHANGED <<members, needsRebalance>>
           \/ members' \subseteq members /\ needsRebalance' /\ syncReady
<1>1. CASE connected[c] /\ session[c].id \in members
  <2>1. Holding(c) /\ Answered(c)
      BY <1>1 DEF Leave, Holding, Answered, Joined
  <2>2. syncReady
      BY <1>1, <2>1 DEF GroupInv, MembersAreCurrent, HoldersAreAssigned
  <2>3. QED
      BY <1>1, <2>2 DEF Leave, GroupInv, TypeOK
<1>2. CASE ~(connected[c] /\ session[c].id \in members)
    BY <1>2 DEF Leave, GroupInv, TypeOK
<1>3. QED
    BY <1>1, <1>2

\* Every step keeps the invariant.
LEMMA GroupInvStep ==
    ASSUME GroupInv, [Next]_vars
    PROVE  GroupInv'
<1>1. TypeOK' /\ ClientsInStep'
    BY TypeStep, ClientsStep
<1>2. ASSUME UNCHANGED <<generationId, leaderId, rebalanceInProgress, window, syncReady,
                         assignment, nextMemberSeq>>,
             UNCHANGED <<members, needsRebalance>>,
             UNCHANGED <<pc, session, connected>>
      PROVE  GroupInv'
  <2>1. \A d \in Consumer : Joined(d)' => Joined(d)
      BY <1>2 DEF Joined
  <2>2. QED
      BY <1>1, <1>2, <2>1, QuietStep
<1>3. ASSUME NEW c \in Consumer,
             UNCHANGED <<generationId, leaderId, rebalanceInProgress, window, syncReady,
                         assignment, nextMemberSeq>>,
             \/ UNCHANGED <<members, needsRebalance>>
             \/ members' \subseteq members /\ needsRebalance' /\ syncReady,
             UNCHANGED connected, pc'[c] \in {"idle", "gone"},
             \A d \in Consumer \ {c} : pc'[d] = pc[d] /\ session'[d] = session[d]
      PROVE  GroupInv'
  <2>1. \A d \in Consumer : Joined(d)' => d # c /\ Joined(d)
      BY <1>3 DEF Joined
  <2>2. QED
      BY <1>1, <1>3, <2>1, QuietStep
<1>4. ASSUME NEW c \in Consumer, UNCHANGED groupVars, UNCHANGED connected,
             connected[c] => Joined(c), Holding(c), Holding(c)',
             \A d \in Consumer \ {c} : pc'[d] = pc[d] /\ session'[d] = session[d],
             session'[c].id = session[c].id, session'[c].gen = session[c].gen,
             session'[c].view = session[c].view, session'[c].parts = session[c].parts
      PROVE  GroupInv'
  <2>1. UNCHANGED <<generationId, leaderId, rebalanceInProgress, window, syncReady,
                    assignment, nextMemberSeq, members, needsRebalance>>
      BY <1>4 DEF groupVars, windowVars, memberVars, syncVars, genVars
  <2>2. \A d \in Consumer : Joined(d)' => Joined(d)
      BY <1>4 DEF Joined
  <2>3. QED
      BY <1>1, <1>4, <2>1, <2>2, QuietStep
<1>5. ASSUME DeadlinePasses \/ \E m \in MemberId : SessionLapses(m) PROVE GroupInv'
    BY <1>2, <1>5 DEF DeadlinePasses, SessionLapses, windowVars, memberVars, syncVars, genVars,
       consumerVars
<1>6. ASSUME CoordinatorRestart PROVE GroupInv'
    BY <1>1, <1>6, CoordinatorRestartKeeps
<1>7. ASSUME NEW c \in Consumer,
             Join(c) \/ JoinReturns(c) \/ SyncPosts(c) \/ SyncWaits(c) \/ SyncReturns(c)
      PROVE  GroupInv'
    BY <1>1, <1>7, JoinKeeps, JoinReturnsKeeps, SyncPostsKeeps, SyncWaitsKeeps, SyncReturnsKeeps
<1>8. ASSUME NEW c \in Consumer, SyncRefused(c) \/ SyncFails(c) \/ Rejoin(c) PROVE GroupInv'
  <2>1. UNCHANGED <<groupVars, connected>>
      BY <1>8 DEF SyncRefused, SyncFails, Rejoin
  <2>2. /\ pc'[c] \in {"idle", "gone"}
        /\ \A d \in Consumer \ {c} : pc'[d] = pc[d] /\ session'[d] = session[d]
      BY <1>8 DEF SyncRefused, SyncFails, Rejoin, Return, GroupInv, TypeOK
  <2>3. QED
      BY <1>3, <2>1, <2>2 DEF groupVars, windowVars, memberVars, syncVars, genVars
<1>9. ASSUME NEW c \in Consumer, Gone(c)
      PROVE  /\ pc'[c] \in {"idle", "gone"}
             /\ \A d \in Consumer \ {c} : pc'[d] = pc[d] /\ session'[d] = session[d]
    BY <1>9 DEF Gone, GroupInv, TypeOK
<1>10. ASSUME NEW c \in Consumer, Aborts(c) \/ Crash(c) PROVE GroupInv'
  <2>1. UNCHANGED <<generationId, leaderId, rebalanceInProgress, window, syncReady,
                    assignment, nextMemberSeq, members, needsRebalance, connected>>
      BY <1>10 DEF Aborts, Crash, groupVars, windowVars, memberVars, syncVars, genVars
  <2>2. Gone(c) \/ UNCHANGED <<pc, session>>
      BY <1>10 DEF Aborts, Crash
  <2>3. QED
      BY <1>2, <1>3, <1>9, <2>1, <2>2
<1>11. ASSUME NEW c \in Consumer, Leave(c) PROVE GroupInv'
  <2>1. UNCHANGED <<generationId, leaderId, rebalanceInProgress, window, syncReady,
                    assignment, nextMemberSeq, connected>>
      BY <1>11 DEF Leave, windowVars, syncVars, genVars
  <2>2. Gone(c)
      BY <1>11 DEF Leave
  <2>3. \/ UNCHANGED <<members, needsRebalance>>
        \/ members' \subseteq members /\ needsRebalance' /\ syncReady
      BY <1>11, LeaveIsQuiet
  <2>4. QED
      BY <1>3, <1>9, <2>1, <2>2, <2>3
<1>12. ASSUME NEW c \in Consumer, Heartbeat(c) PROVE GroupInv'
  <2>1. UNCHANGED <<generationId, leaderId, rebalanceInProgress, window, syncReady,
                    assignment, nextMemberSeq, connected, pc, session>>
      BY <1>12 DEF Heartbeat, windowVars, syncVars, genVars
  <2>2. \A d \in Consumer : Joined(d)' => Joined(d)
      BY <2>1 DEF Joined
  <2>3. QED
      BY <1>1, <1>12, <2>1, <2>2, HeartbeatIsQuiet, QuietStep
<1>13. ASSUME NEW c \in Consumer, HeartbeatBreaks(c) PROVE GroupInv'
    BY <1>2, <1>13 DEF HeartbeatBreaks, groupVars, windowVars, memberVars, syncVars, genVars
<1>14. ASSUME NEW c \in Consumer, StartPolling(c) \/ Commit(c) PROVE GroupInv'
  <2>1. /\ UNCHANGED groupVars /\ UNCHANGED <<connected, session>>
        /\ Holding(c) /\ Holding(c)' /\ (connected[c] => Joined(c))
        /\ \A d \in Consumer \ {c} : pc'[d] = pc[d]
      BY <1>14 DEF StartPolling, Commit, Holding, Joined, GroupInv, TypeOK
  <2>2. QED
      BY <1>4, <2>1
<1>15. ASSUME NEW c \in Consumer, NEW p \in Partition, FetchOffset(c, p) PROVE GroupInv'
  <2>1. /\ UNCHANGED groupVars /\ UNCHANGED <<connected, pc>>
        /\ Holding(c) /\ Holding(c)' /\ (connected[c] => Joined(c))
      BY <1>15 DEF FetchOffset, Holding, Joined
  <2>2. /\ \A d \in Consumer \ {c} : session'[d] = session[d]
        /\ session'[c] = [session[c] EXCEPT !.pos = session'[c].pos]
      BY <1>15, FetchedSession DEF FetchOffset, GroupInv, TypeOK
  <2>3. /\ session'[c].id = session[c].id /\ session'[c].gen = session[c].gen
        /\ session'[c].view = session[c].view /\ session'[c].parts = session[c].parts
      BY <2>2 DEF GroupInv, TypeOK, Session
  <2>4. QED
      BY <1>4, <2>1, <2>2, <2>3
<1>16. ASSUME NEW c \in Consumer, NEW p \in Partition, Poll(c, p) PROVE GroupInv'
  <2>1. /\ UNCHANGED groupVars /\ UNCHANGED connected
        /\ Holding(c) /\ Holding(c)' /\ (connected[c] => Joined(c))
        /\ \A d \in Consumer \ {c} : pc'[d] = pc[d]
      BY <1>16 DEF Poll, Holding, Joined, GroupInv, TypeOK
  <2>2. /\ \A d \in Consumer \ {c} : session'[d] = session[d]
        /\ session'[c] = [session[c] EXCEPT !.pos = session'[c].pos]
      BY <1>16, PolledSession
  <2>3. /\ session'[c].id = session[c].id /\ session'[c].gen = session[c].gen
        /\ session'[c].view = session[c].view /\ session'[c].parts = session[c].parts
      BY <2>2 DEF GroupInv, TypeOK, Session
  <2>4. QED
      BY <1>4, <2>1, <2>2, <2>3
<1>17. ASSUME UNCHANGED vars PROVE GroupInv'
    BY <1>2, <1>17 DEF vars, groupVars, windowVars, memberVars, syncVars, genVars, consumerVars
<1>18. QED
    BY <1>5, <1>6, <1>7, <1>8, <1>10, <1>11, <1>12, <1>13, <1>14, <1>15, <1>16, <1>17 DEF Next

-----------------------------------------------------------------------------
(* The theorems about membership and assignment *)

\* Initially there is no group and no consumer in it.
LEMMA GroupInvInit == Init => GroupInv
<1> SUFFICES ASSUME Init PROVE GroupInv
    OBVIOUS
<1> USE BoundAssumption
<1>1. TypeOK
  <2>0. 0 \in 0 .. MaxJoins /\ 0 \in 0 .. 0
      OBVIOUS
  <2>1. <<>> \in [{} -> SUBSET Partition] /\ DOMAIN <<>> = {}
      OBVIOUS
  <2>2. [p \in Partition |-> NoOffset] \in Offsets
      BY DEF Offsets
  <2>3. [p \in Partition |-> {}] \in [Partition -> SUBSET (0 .. MaxRecords)]
      OBVIOUS
  <2>4. /\ session \in [Consumer -> Session]
        /\ \A c \in Consumer : DOMAIN session[c].pos \subseteq session[c].parts
      BY NoSessionType DEF Init
  <2>5. /\ generationId \in 0 .. MaxJoins /\ leaderId \in MemberId \cup {NoMember}
        /\ members \subseteq MemberId /\ stale \subseteq members
        /\ rebalanceInProgress \in BOOLEAN /\ needsRebalance \in BOOLEAN /\ syncReady \in BOOLEAN
        /\ window \in 0 .. MaxJoins /\ clock \in 0 .. window /\ nextMemberSeq \in 0 .. MaxJoins
      BY Zenon, <2>0 DEF Init, InitialGroup
  <2>6. /\ assignment \in [DOMAIN assignment -> SUBSET Partition]
        /\ DOMAIN assignment \subseteq MemberId
      BY <2>1 DEF Init, InitialGroup
  <2>7. offsets \in Offsets /\ file \in Offsets /\ offsetsLoaded \in BOOLEAN
      BY <2>2 DEF Init, InitialGroup
  <2>8. QED
      BY <2>3, <2>4, <2>5, <2>6, <2>7 DEF Init, TypeOK
<1>2. ClientsInStep
    BY NoSessionType DEF Init, ClientsInStep, InStep
<1>3. \A c \in Consumer : ~Joined(c) /\ ~Holding(c)
    BY DEF Init, Joined, Holding
<1>4. IdsAreDrawn /\ WindowsMakeGenerations /\ MembersAreCurrent /\ AssignmentSplits
    BY <1>3 DEF Init, InitialGroup, IdsAreDrawn, WindowsMakeGenerations, MembersAreCurrent,
       Answered, AssignmentSplits
<1>5. LeaderPostsOnce /\ WaitersAreAssigned /\ HoldersAreAssigned /\ OneOwner
    BY <1>3 DEF LeaderPostsOnce, MayPost, WaitersAreAssigned, HoldersAreAssigned, OneOwner
<1>6. QED
    BY <1>1, <1>2, <1>4, <1>5 DEF GroupInv

\* The invariant holds at every moment of every behaviour.
LEMMA GroupInvHolds == Spec => []GroupInv
<1>1. GroupInv /\ [Next]_vars => GroupInv'
    BY GroupInvStep
<1>2. QED
    BY <1>1, GroupInvInit, PTL DEF Spec

\* The group, its offset file and its consumers keep their types: generations, windows and
\* ids stay within the joins that make them and offsets within the records.
THEOREM TypeCorrect == Spec => []TypeOK
<1>1. GroupInv => TypeOK
    BY DEF GroupInv
<1>2. QED
    BY <1>1, GroupInvHolds, PTL

\* No two consumers of one generation share a partition, whoever woke up late in join_group
\* or sync_group, died, was evicted or holds on to an old generation.
THEOREM OwnersAreUnique == Spec => []OneOwner
<1>1. GroupInv => OneOwner
    BY DEF GroupInv
<1>2. QED
    BY <1>1, GroupInvHolds, PTL

\* A consumer of the present generation works on what the leader's sync_group gave it.
THEOREM HoldingsAreAssigned == Spec => []HeldIsAssigned
<1>1. GroupInv => HeldIsAssigned
    BY DEF GroupInv, HoldersAreAssigned, HeldIsAssigned
<1>2. QED
    BY <1>1, GroupInvHolds, PTL

\* A group that sees no reason to rebalance covers the topic with its present members.
THEOREM StableGroupsCover == Spec => []StableGroupCoversTopic
<1>1. GroupInv => StableGroupCoversTopic
    BY DEF GroupInv, AssignmentSplits, StableGroupCoversTopic
<1>2. QED
    BY <1>1, GroupInvHolds, PTL

\* The assignment of a generation is posted once: only a sync_group of its leader that was
\* not answered yet can post it.
THEOREM AssignmentsAreFinal == Spec => AssignmentIsFinal
<1> DEFINE A == syncReady /\ generationId' = generationId /\ restarts' = restarts
                  => syncReady' /\ assignment' = assignment
<1>1. ASSUME GroupInv, [Next]_vars PROVE [A]_vars
  <2> SUFFICES ASSUME syncReady, generationId' = generationId, restarts' = restarts
               PROVE  UNCHANGED syncVars
      BY DEF syncVars
  <2>1. CASE CoordinatorRestart
      BY <1>1, <2>1 DEF CoordinatorRestart, GroupInv, TypeOK
  <2>2. ASSUME NEW c \in Consumer, SyncPosts(c) PROVE UNCHANGED syncVars
      BY <1>1, <2>2, PosterIsMember
  <2>3. ASSUME NEW c \in Consumer, JoinReturns(c) PROVE UNCHANGED syncVars
    <3>1. generationId + 1 # generationId
        BY <1>1 DEF GroupInv, TypeOK
    <3>2. QED
        BY <2>3, <3>1 DEF JoinReturns, CloseWindow
  <2>4. CASE DeadlinePasses
      BY <2>4 DEF DeadlinePasses
  <2>5. ASSUME NEW m \in MemberId, SessionLapses(m) PROVE UNCHANGED syncVars
      BY <2>5 DEF SessionLapses
  <2>6. ASSUME NEW c \in Consumer, Join(c) \/ Rejoin(c) \/ Leave(c) PROVE UNCHANGED syncVars
      BY <2>6 DEF Join, Rejoin, Leave, groupVars
  <2>7. ASSUME NEW c \in Consumer,
               SyncRefused(c) \/ SyncWaits(c) \/ SyncReturns(c) \/ SyncFails(c)
        PROVE  UNCHANGED syncVars
      BY <2>7 DEF SyncRefused, SyncWaits, SyncReturns, SyncFails, groupVars
  <2>8. ASSUME NEW c \in Consumer,
               Heartbeat(c) \/ HeartbeatBreaks(c) \/ Aborts(c) \/ Crash(c)
        PROVE  UNCHANGED syncVars
      BY <2>8 DEF Heartbeat, HeartbeatBreaks, Aborts, Crash, groupVars
  <2>9. ASSUME NEW c \in Consumer, StartPolling(c) \/ Commit(c) PROVE UNCHANGED syncVars
      BY <2>9 DEF StartPolling, Commit, groupVars
  <2>10. ASSUME NEW c \in Consumer, NEW p \in Partition, FetchOffset(c, p) \/ Poll(c, p)
         PROVE  UNCHANGED syncVars
      BY <2>10 DEF FetchOffset, Poll, groupVars
  <2>11. CASE UNCHANGED vars
      BY <2>11 DEF vars, groupVars, syncVars
  <2>12. QED
      BY <1>1, <2>1, <2>2, <2>3, <2>4, <2>5, <2>6, <2>7, <2>8, <2>9, <2>10, <2>11 DEF Next
<1>2. GroupInv /\ [Next]_vars => [A]_vars
    BY <1>1
<1>3. QED
    BY <1>2, GroupInvHolds, PTL DEF Spec, AssignmentIsFinal

-----------------------------------------------------------------------------
(* Committed offsets *)

\* Once they are loaded, the offsets in memory are those on disk.
LoadedIsFile == offsetsLoaded => offsets = file

\* A consumer's positions stay as they are, or it has none left.
Stays(c) == session'[c].pos = session[c].pos \/ DOMAIN session'[c].pos = {}

\* What steps do to positions, printed records and offsets.
LEMMA PositionSteps ==
    ASSUME GroupInv, [Next]_vars
    PROVE  \/ /\ \A c \in Consumer : Stays(c)
              /\ UNCHANGED printed
              /\ \/ UNCHANGED offsetVars
                 \/ \E c \in Consumer : Commit(c)
                 \/ CoordinatorRestart
           \/ \E c \in Consumer, p \in Partition : FetchOffset(c, p) \/ Poll(c, p)
<1> DEFINE Quiet == /\ \A c \in Consumer : Stays(c)
                    /\ UNCHANGED printed
                    /\ \/ UNCHANGED offsetVars
                       \/ \E c \in Consumer : Commit(c)
                       \/ CoordinatorRestart
<1> USE DEF GroupInv, TypeOK
<1>1. CASE UNCHANGED <<session, printed, offsetVars>>
    BY <1>1 DEF Stays
<1>2. CASE CoordinatorRestart
    BY <1>2, NoSessionType DEF CoordinatorRestart, Stays
<1>3. ASSUME NEW c \in Consumer, Commit(c) PROVE Quiet
    BY <1>3 DEF Commit, Stays
<1>4. ASSUME NEW c \in Consumer, Join(c) \/ JoinReturns(c) \/ SyncPosts(c) \/ SyncReturns(c)
      PROVE  Quiet
  <2>1. \A d \in Consumer \ {c} : session'[d] = session[d]
      BY <1>4 DEF Join, JoinReturns, SyncPosts, SyncReturns, Return
  <2>2. session[c] \in Session
      OBVIOUS
  <2>3. ASSUME Join(c) PROVE Stays(c)
      BY <2>2, <2>3 DEF Join, Stays, Session
  <2>4. ASSUME JoinReturns(c) \/ SyncPosts(c) \/ SyncReturns(c) PROVE Stays(c)
    <3>1. session' = [session EXCEPT ![c] = session'[c]]
        BY <2>4 DEF JoinReturns, SyncPosts, SyncReturns, Return
    <3>2. CASE session'[c] = NoSession
        BY <3>2, NoSessionType DEF Stays
    <3>3. CASE alive[c]
      <4>1. CASE JoinReturns(c)
          BY <2>2, <3>3, <4>1 DEF JoinReturns, Return, Stays, Session
      <4>2. CASE SyncPosts(c)
          BY <2>2, <3>3, <4>2 DEF SyncPosts, Return, Stays, Session
      <4>3. CASE SyncReturns(c)
          BY <2>2, <3>3, <4>3 DEF SyncReturns, Return, Stays, Session
      <4>4. QED
          BY <2>4, <4>1, <4>2, <4>3
    <3>4. QED
        BY <2>4, <3>2, <3>3 DEF JoinReturns, SyncPosts, SyncReturns, Return
  <2>5. QED
      BY <1>4, <2>1, <2>3, <2>4 DEF Join, JoinReturns, SyncPosts, SyncReturns, groupVars, Stays
<1>5. ASSUME NEW c \in Consumer,
             SyncRefused(c) \/ SyncFails(c) \/ Rejoin(c) \/ Leave(c) \/ Aborts(c) \/ Crash(c)
      PROVE  Quiet
  <2>1. Stays(c) /\ \A d \in Consumer \ {c} : session'[d] = session[d]
      BY <1>5, NoSessionType DEF SyncRefused, SyncFails, Rejoin, Leave, Aborts, Crash, Return,
         Gone, Stays
  <2>2. QED
      BY <1>5, <2>1 DEF SyncRefused, SyncFails, Rejoin, Leave, Aborts, Crash, Stays
<1>6. QED
    BY <1>1, <1>2, <1>3, <1>4, <1>5
       DEF Next, vars, consumerVars, DeadlinePasses, SessionLapses, SyncWaits, Heartbeat,
           HeartbeatBreaks, StartPolling

\* The offset table is loaded from the file and written through.
LEMMA LoadedIsFileStep ==
    ASSUME GroupInv, LoadedIsFile, [Next]_vars
    PROVE  LoadedIsFile'
<1>1. CASE UNCHANGED offsetVars
    BY <1>1 DEF LoadedIsFile, offsetVars
<1>2. ASSUME NEW c \in Consumer, Commit(c) PROVE LoadedIsFile'
    BY <1>2 DEF Commit, LoadedIsFile
<1>3. ASSUME CoordinatorRestart PROVE LoadedIsFile'
    BY <1>3 DEF CoordinatorRestart, LoadedIsFile
<1>4. ASSUME NEW c \in Consumer, NEW p \in Partition, FetchOffset(c, p) PROVE LoadedIsFile'
    BY <1>4 DEF FetchOffset, Loaded, LoadedIsFile
<1>5. ASSUME NEW c \in Consumer, NEW p \in Partition, Poll(c, p) PROVE LoadedIsFile'
    BY <1>5 DEF Poll, LoadedIsFile, offsetVars
<1>6. QED
    BY <1>1, <1>2, <1>3, <1>4, <1>5, PositionSteps

\* Neither commits nor a file that is cut short nor a position run ahead of what was printed.
LEMMA NothingSkippedStep ==
    ASSUME GroupInv, LoadedIsFile, NothingSkipped, [Next]_vars
    PROVE  NothingSkipped'
<1> USE DEF GroupInv
<1>1. /\ \A p \in Partition : AllPrinted(p, NoOffset) /\ AllPrinted(p, 0)
      /\ \A c \in Consumer, p \in Partition : AllPrinted(p, OffsetOverride[c])
    BY DEF AllPrinted, NoOffset, SkippedOnPurpose
<1>2. \A p \in Partition : AllPrinted(p, Loaded[p])
    BY DEF NothingSkipped, Loaded
<1>3. ASSUME NEW c \in Consumer, pc[c] = "committing"
      PROVE  \A p \in Partition : AllPrinted(p, Committed(c)[p])
  <2>1. pending[c] \in Partition /\ pending[c] \in DOMAIN session[c].pos
    <3>1. pending[c] \in DOMAIN session[c].pos
        BY <1>3 DEF ClientsInStep, InStep
    <3>2. DOMAIN session[c].pos \subseteq session[c].parts /\ session[c].parts \subseteq Partition
        BY DEF TypeOK, Session
    <3>3. QED
        BY <3>1, <3>2
  <2>2. Loaded \in Offsets
      BY OffsetTypes
  <2>3. QED
      BY <1>2, <2>1, <2>2 DEF Committed, NothingSkipped, Offsets
<1>4. ASSUME \A c \in Consumer : Stays(c), UNCHANGED printed,
             \A p \in Partition : AllPrinted(p, file'[p]) /\ AllPrinted(p, offsets'[p])
      PROVE  NothingSkipped'
    BY <1>4 DEF NothingSkipped, Stays, AllPrinted
<1>5. CASE /\ \A c \in Consumer : Stays(c)
           /\ UNCHANGED printed
           /\ \/ UNCHANGED offsetVars
              \/ \E c \in Consumer : Commit(c)
              \/ CoordinatorRestart
  <2>1. CASE UNCHANGED offsetVars
      BY <1>4, <1>5, <2>1 DEF offsetVars, NothingSkipped
  <2>2. ASSUME NEW c \in Consumer, Commit(c) PROVE NothingSkipped'
      BY <1>3, <1>4, <1>5, <2>2 DEF Commit
  <2>3. ASSUME CoordinatorRestart PROVE NothingSkipped'
    <3>1. \A p \in Partition : offsets'[p] = NoOffset
        BY <2>3 DEF CoordinatorRestart
    <3>2. ASSUME NEW p \in Partition PROVE AllPrinted(p, file'[p])
      <4>1. CASE file' = file
          BY <4>1 DEF NothingSkipped
      <4>2. ASSUME NEW c \in Consumer, pc[c] = "committing", NEW n \in 0 .. PartitionCount,
                   file' = CutShort(Committed(c), n)
            PROVE  AllPrinted(p, file'[p])
          BY <1>1, <1>3, <4>2 DEF CutShort
      <4>3. QED
          BY <2>3, <4>1, <4>2 DEF CoordinatorRestart, FileAtDeath
    <3>3. QED
        BY <1>1, <1>4, <1>5, <3>1, <3>2
  <2>4. QED
      BY <1>5, <2>1, <2>2, <2>3
<1>6. ASSUME NEW c \in Consumer, NEW p \in Partition, FetchOffset(c, p) PROVE NothingSkipped'
  <2>1. UNCHANGED <<printed, file>> /\ offsets' \in {offsets, Loaded}
      BY <1>6 DEF FetchOffset
  <2>2. ASSUME NEW q \in Partition, q \in DOMAIN session'[c].pos
        PROVE  AllPrinted(q, session'[c].pos[q])
    <3>1. CASE q \in DOMAIN session[c].pos
      <4>1. session'[c].pos[q] = session[c].pos[q]
          BY <1>6, <2>2, <3>1, FetchedSession
      <4>2. QED
          BY <3>1, <4>1 DEF NothingSkipped
    <3>2. CASE q \notin DOMAIN session[c].pos
      <4>1. q = p /\ session'[c].pos[q] = ResumePosition(c, p)
          BY <1>6, <2>2, <3>2, FetchedSession
      <4>2. QED
          BY <4>1, <1>1, <1>2 DEF ResumePosition
    <3>3. QED
        BY <3>1, <3>2
  <2>3. \A d \in Consumer \ {c} : session'[d] = session[d]
      BY <1>6, FetchedSession
  <2>4. QED
      BY <1>2, <2>1, <2>2, <2>3 DEF NothingSkipped, AllPrinted
<1>7. ASSUME NEW c \in Consumer, NEW p \in Partition, Poll(c, p) PROVE NothingSkipped'
  <2>1. /\ \A d \in Consumer \ {c} : session'[d] = session[d]
        /\ DOMAIN session'[c].pos = DOMAIN session[c].pos
        /\ p \in DOMAIN session[c].pos /\ session[c].pos[p] \in 0 .. MaxRecords
      BY <1>7, PolledSession
  <2>2. PICK last \in session[c].pos[p] .. MaxRecords - 1 :
          /\ printed' = [printed EXCEPT ![p] = @ \cup (session[c].pos[p] .. last)]
          /\ \A q \in DOMAIN session[c].pos :
               session'[c].pos[q] = IF q = p THEN last + 1 ELSE session[c].pos[q]
      BY <1>7, PolledSession
  <2>3. \A q \in Partition : printed[q] \subseteq printed'[q]
      BY <2>2 DEF TypeOK
  <2>4. AllPrinted(p, last + 1)'
    <3>1. 0 .. session[c].pos[p] - 1 \subseteq printed[p] \cup SkippedOnPurpose
        BY <2>1 DEF NothingSkipped, AllPrinted
    <3>2. printed'[p] = printed[p] \cup (session[c].pos[p] .. last)
        BY <2>2 DEF TypeOK
    <3>3. 0 .. (last + 1) - 1 \subseteq (0 .. session[c].pos[p] - 1) \cup (session[c].pos[p] .. last)
        BY <2>1, <2>2, BoundAssumption
    <3>4. QED
        BY <3>1, <3>2, <3>3 DEF AllPrinted
  <2>5. UNCHANGED <<offsets, file>>
      BY <1>7 DEF Poll, offsetVars
  <2>6. ASSUME NEW q \in Partition, q \in DOMAIN session'[c].pos
        PROVE  0 .. session'[c].pos[q] - 1 \subseteq printed'[q] \cup SkippedOnPurpose
    <3>1. CASE q = p
        BY <2>1, <2>2, <2>4, <3>1 DEF AllPrinted
    <3>2. CASE q # p
      <4>1. session'[c].pos[q] = session[c].pos[q] /\ q \in DOMAIN session[c].pos
          BY <2>1, <2>2, <2>6, <3>2
      <4>2. QED
          BY <2>3, <4>1 DEF NothingSkipped, AllPrinted
    <3>3. QED
        BY <3>1, <3>2
  <2>7. QED
      BY <2>1, <2>3, <2>5, <2>6 DEF NothingSkipped, AllPrinted
<1>8. QED
    BY <1>5, <1>6, <1>7, PositionSteps

\* The offsets' part of the invariant holds at every moment.
LEMMA OffsetsHold == Spec => [](GroupInv /\ LoadedIsFile /\ NothingSkipped)
<1>1. Init => LoadedIsFile /\ NothingSkipped
  <2>1. \A p \in Partition : AllPrinted(p, NoOffset)
      BY DEF AllPrinted, NoOffset
  <2>2. QED
      BY <2>1, NoSessionType DEF Init, InitialGroup, LoadedIsFile, NothingSkipped
<1>2. GroupInv /\ LoadedIsFile /\ NothingSkipped /\ [Next]_vars => LoadedIsFile' /\ NothingSkipped'
    BY LoadedIsFileStep, NothingSkippedStep
<1>3. QED
    BY <1>1, <1>2, GroupInvHolds, PTL DEF Spec

\* Every record that no consumer's --offset skips is printed before anybody stands or
\* could resume behind it, whatever overrides the consumers were started with.
THEOREM RecordsAreNotSkipped == Spec => []NothingSkipped
BY OffsetsHold, PTL

\* A consumer without an override starts at the group's last commit, on disk.
THEOREM ResumesAreFromDisk == Spec => ResumesFromLastCommit
<1> DEFINE A == \A c \in {d \in Consumer : OffsetOverride[d] = NoOffset} :
                  \A p \in DOMAIN session'[c].pos \ DOMAIN session[c].pos :
                  session'[c].pos[p] = IF file[p] = NoOffset THEN 0 ELSE file[p]
<1>1. ASSUME GroupInv, LoadedIsFile, [Next]_vars PROVE [A]_vars
  <2> SUFFICES ASSUME NEW c \in Consumer, OffsetOverride[c] = NoOffset,
                      NEW p \in DOMAIN session'[c].pos \ DOMAIN session[c].pos
               PROVE  session'[c].pos[p] = IF file[p] = NoOffset THEN 0 ELSE file[p]
      OBVIOUS
  <2>1. ~Stays(c)
      BY DEF Stays
  <2>2. PICK d \in Consumer, q \in Partition : FetchOffset(d, q) \/ Poll(d, q)
      BY <1>1, <2>1, PositionSteps
  <2>3. CASE Poll(d, q)
    <3>1. DOMAIN session'[c].pos = DOMAIN session[c].pos
        BY <1>1, <2>3, PolledSession
    <3>2. QED
        BY <3>1
  <2>4. CASE FetchOffset(d, q)
    <3>1. d = c /\ p = q
        BY <1>1, <2>4, FetchedSession
    <3>2. session'[c].pos[p] = IF Loaded[p] >= 0 THEN Loaded[p] ELSE 0
        BY <1>1, <2>4, <3>1, FetchedSession DEF ResumePosition
    <3>3. Loaded = file /\ file \in Offsets
        BY <1>1 DEF Loaded, LoadedIsFile, GroupInv, TypeOK
    <3>4. file[p] \in 0 .. MaxRecords \cup {NoOffset}
        BY <2>2, <3>1, <3>3 DEF Offsets
    <3>5. QED
        BY <3>2, <3>3, <3>4 DEF NoOffset
  <2>5. QED
      BY <2>2, <2>3, <2>4
<1>2. GroupInv /\ LoadedIsFile /\ [Next]_vars => [A]_vars
    BY <1>1
<1>3. QED
    BY <1>2, OffsetsHold, PTL DEF Spec, ResumesFromLastCommit
=============================================================================
