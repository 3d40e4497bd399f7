----------------------- MODULE ControllerElection_proof -----------------------
(***************************************************************************)
(* Proofs about ControllerElection for every finite set of brokers and     *)
(* every value of the bounds.                                              *)
(***************************************************************************)
EXTENDS ControllerElection, FiniteSetTheorems, TLAPS

\* The inductive invariant: types, the chain from disk to election, and the uniqueness
\* of votes that the chain protects.
Inv == TypeOK /\ VotesRestOnDisk /\ OneVotePerTerm

\* The fields after a heartbeat that handle_controller_heartbeat accepts.
Accepts(m) ==
    /\ m.term >= currentTerm[m.dst]
    /\ role' = [role EXCEPT ![m.dst] = "Follower"]
    /\ currentTerm' = [currentTerm EXCEPT ![m.dst] = TermAfter(m.dst, m.term)]
    /\ votedFor' = [votedFor EXCEPT ![m.dst] = VoteAfter(m.dst, m.term)]
    /\ currentLeaderId' = [currentLeaderId EXCEPT ![m.dst] = m.src]
    /\ raftState' = [raftState EXCEPT ![m.dst] =
          [term |-> TermAfter(m.dst, m.term), votedFor |-> VoteAfter(m.dst, m.term)]]

\* Two majorities of the brokers (start_election's broker_count / 2 + 1) share a broker.
LEMMA MajoritiesIntersect ==
    ASSUME NEW P \in SUBSET Broker, NEW Q \in SUBSET Broker, Majority(P), Majority(Q)
    PROVE  P \cap Q # {}
<1>1. /\ Cardinality(P) \in Nat
      /\ Cardinality(Q) \in Nat
      /\ Cardinality(Broker) \in Nat
    BY FS_Subset, FS_CardinalityType, BrokerAssumption
<1>2. Cardinality(P) + Cardinality(Q) > Cardinality(Broker)
    BY <1>1 DEF Majority
<1>3. QED
    BY <1>2, FS_MajoritiesIntersect, BrokerAssumption

\* The requests of a round are well formed.
LEMMA StartRoundTypes ==
    ASSUME TypeOK, NEW b \in Broker, NEW t \in Nat,
           NEW type \in {"RequestVote", "ControllerHeartbeat"}, StartRound(b, type, t)
    PROVE  /\ roundTerm' \in [Broker -> Nat]
           /\ attempt' \in [Broker -> [Broker -> 0..2]]
           /\ requests' \subseteq Request
           /\ replies' \subseteq Reply
BY DEF TypeOK, StartRound, RequestTo, Request

\* An answer leaves the requests and the replies well formed.
LEMMA AnswerTypes ==
    ASSUME TypeOK, NEW m \in requests, NEW t \in Nat, NEW g \in BOOLEAN, Answer(m, t, g)
    PROVE  requests' \subseteq Request /\ replies' \subseteq Reply
BY DEF TypeOK, Answer, Request, Reply

\* Every state of the election is well typed: no handler, retry or restart leaves a
\* field of ClusterController outside its range.
THEOREM TypeCorrect == Spec => []TypeOK
<1>1. Init => TypeOK
    BY DEF Init, TypeOK, Role, RaftState, NoCalls, Empty
<1>2. TypeOK /\ [Next]_vars => TypeOK'
  <2> SUFFICES ASSUME TypeOK, [Next]_vars PROVE TypeOK'
      OBVIOUS
  <2> USE DEF TypeOK
  <2>1. ASSUME NEW b \in Broker, StartElection(b) PROVE TypeOK'
    <3>1. /\ roundTerm' \in [Broker -> Nat]
          /\ attempt' \in [Broker -> [Broker -> 0..2]]
          /\ requests' \subseteq Request
          /\ replies' \subseteq Reply
        BY <2>1, StartRoundTypes DEF StartElection
    <3>2. currentTerm' \in [Broker -> Nat] /\ ballots' \subseteq Broker \X Nat \X Broker
        BY <2>1 DEF StartElection
    <3>3. raftState' \in [Broker -> RaftState]
        BY <2>1 DEF StartElection, RaftState, Persist
    <3>4. role' \in [Broker -> Role] /\ votedFor' \in [Broker -> Broker \cup {None}]
        BY <2>1 DEF StartElection, Role
    <3>5. QED
        BY <2>1, <3>1, <3>2, <3>3, <3>4 DEF StartElection, bounds
  <2>2. ASSUME NEW b \in Broker, FinishElection(b) PROVE TypeOK'
    <3>1. /\ role' \in [Broker -> Role]
          /\ currentLeaderId' \in [Broker -> Broker \cup {None}]
          /\ elected' \subseteq Nat \X Broker
      <4>1. CASE UNCHANGED <<role, currentLeaderId, elected>>
          BY <4>1
      <4>2. CASE /\ role' = [role EXCEPT ![b] = "Leader"]
                 /\ currentLeaderId' = [currentLeaderId EXCEPT ![b] = b]
                 /\ elected' = elected \cup {<<currentTerm[b], b>>}
          BY <4>2 DEF Role
      <4>3. QED
          BY <2>2, <4>1, <4>2 DEF FinishElection
    <3>2. QED
        BY <2>2, <3>1 DEF FinishElection, processVars, netVars, bounds
  <2>3. ASSUME NEW b \in Broker, ReadRole(b) PROVE TypeOK'
      BY <2>3 DEF ReadRole, serverVars, processVars, netVars, history, bounds
  <2>4. ASSUME NEW b \in Broker, BroadcastHeartbeats(b) PROVE TypeOK'
    <3>1. /\ roundTerm' \in [Broker -> Nat]
          /\ attempt' \in [Broker -> [Broker -> 0..2]]
          /\ requests' \subseteq Request
          /\ replies' \subseteq Reply
        BY <2>4, StartRoundTypes DEF BroadcastHeartbeats
    <3>2. QED
        BY <2>4, <3>1 DEF BroadcastHeartbeats, serverVars, processVars, history, bounds
  <2>5. ASSUME NEW b \in Broker, FinishHeartbeats(b) PROVE TypeOK'
      BY <2>5 DEF FinishHeartbeats, serverVars, processVars, netVars, history, bounds
  <2>6. ASSUME NEW b \in Broker, NEW s \in RaftState, Die(b, s), torn' \subseteq Broker
        PROVE  TypeOK'
      BY <2>6 DEF Die, NoCalls, serverVars
  <2>7. ASSUME NEW b \in Broker, Crash(b) \/ CrashInPersist(b) PROVE TypeOK'
    <3>1. Empty \in RaftState
        BY DEF Empty, RaftState
    <3>2. QED
        BY <2>6, <2>7, <3>1 DEF Crash, CrashInPersist
  <2>8. ASSUME NEW m \in requests, CrashBetweenWrites(m.dst, m) PROVE TypeOK'
    <3>1. m.dst \in Broker /\ [term |-> m.term, votedFor |-> None] \in RaftState
        BY DEF Request, RaftState
    <3>2. QED
        BY <2>8, <3>1, <2>6 DEF CrashBetweenWrites
  <2>9. ASSUME NEW b \in Broker, Restart(b) PROVE TypeOK'
      BY <2>9 DEF Restart, LoadState, RaftState, Role, loopVars, netVars, history, bounds
  <2>10. ASSUME NEW m \in requests, HandleRequestVote(m) PROVE TypeOK'
    <3> DEFINE b == m.dst
               t == TermAfter(b, m.term)
               v == VoteAfter(b, m.term)
               g == MayGrant(m, t, v)
               w == IF g THEN m.src ELSE v
    <3>1. m \in Request /\ b \in Broker /\ m.src \in Broker /\ m.term \in Nat
        BY DEF Request
    <3>2. t \in Nat /\ v \in Broker \cup {None} /\ g \in BOOLEAN
        BY <3>1 DEF TermAfter, VoteAfter, MayGrant
    <3>3. w \in Broker \cup {None}
        BY <3>1, <3>2
    <3>4. requests' \subseteq Request /\ replies' \subseteq Reply
        BY <2>10, <3>2, AnswerTypes DEF HandleRequestVote
    <3>5. ballots' \subseteq Broker \X Nat \X Broker
        BY <2>10, <3>1, <3>2 DEF HandleRequestVote
    <3>6. role' \in [Broker -> Role]
        BY <2>10, <3>1 DEF HandleRequestVote, RoleAfter, Role
    <3>7. /\ currentTerm' = [currentTerm EXCEPT ![b] = t]
          /\ votedFor' = [votedFor EXCEPT ![b] = w]
          /\ raftState' = [raftState EXCEPT ![b] = [term |-> t, votedFor |-> w]]
          /\ UNCHANGED <<currentLeaderId, up, loopVars, elected, torn, bounds>>
        BY <2>10 DEF HandleRequestVote, Persist
    <3> HIDE DEF t, v, g, w
    <3>8. QED
        BY <3>1, <3>2, <3>3, <3>4, <3>5, <3>6, <3>7 DEF RaftState, loopVars, bounds
  <2>11. ASSUME NEW m \in requests, HandleControllerHeartbeat(m) PROVE TypeOK'
    <3>1. m \in Request /\ m.dst \in Broker /\ m.src \in Broker /\ m.term \in Nat
        BY DEF Request
    <3>2. /\ TermAfter(m.dst, m.term) \in Nat
          /\ VoteAfter(m.dst, m.term) \in Broker \cup {None}
        BY <3>1 DEF TermAfter, VoteAfter
    <3>3. requests' \subseteq Request /\ replies' \subseteq Reply
        BY <2>11, <3>1, <3>2, AnswerTypes DEF HandleControllerHeartbeat
    <3>4. UNCHANGED <<up, loopVars, history, bounds>>
        BY <2>11, Zenon DEF HandleControllerHeartbeat
    <3>5. \/ UNCHANGED <<serverVars, raftState>>
          \/ Accepts(m)
        BY <2>11, Zenon DEF HandleControllerHeartbeat, Persist, Accepts
    <3>6. CASE UNCHANGED <<serverVars, raftState>>
        BY <3>3, <3>4, <3>6 DEF serverVars, loopVars, history, bounds
    <3>7. CASE Accepts(m)
      <4>1. raftState' \in [Broker -> RaftState]
          BY <3>1, <3>2, <3>7 DEF RaftState, Accepts
      <4>2. /\ role' \in [Broker -> Role]
            /\ currentTerm' \in [Broker -> Nat]
            /\ votedFor' \in [Broker -> Broker \cup {None}]
            /\ currentLeaderId' \in [Broker -> Broker \cup {None}]
          BY <3>1, <3>2, <3>7 DEF Role, Accepts
      <4>3. QED
          BY <3>3, <3>4, <4>1, <4>2 DEF loopVars, history, bounds
    <3>8. QED
        BY <3>5, <3>6, <3>7
  <2>12. ASSUME NEW r \in replies, ReceiveReply(r.dst, r) PROVE TypeOK'
    <3>1. r \in Reply /\ r.dst \in Broker /\ r.src \in Broker /\ r.term \in Nat
        BY DEF Reply
    <3>2. /\ TermAfter(r.dst, r.term) \in Nat
          /\ VoteAfter(r.dst, r.term) \in Broker \cup {None}
          /\ RoleAfter(r.dst, r.term) \in Role
        BY <3>1 DEF TermAfter, VoteAfter, RoleAfter, Role
    <3>3. QED
        BY <2>12, <3>1, <3>2 DEF ReceiveReply, Persist, RaftState, history, bounds
  <2>13. ASSUME NEW b \in Broker, NEW p \in Broker, CallRetry(b, p) PROVE TypeOK'
    <3>1. requests' \subseteq Request
        BY <2>13 DEF CallRetry, RequestTo, RoundType, Request
    <3>2. QED
        BY <2>13, <3>1 DEF CallRetry, Breaks, serverVars, processVars, history
  <2>14. ASSUME NEW b \in Broker, NEW p \in Broker, CallFails(b, p) PROVE TypeOK'
      BY <2>14 DEF CallFails, Breaks, serverVars, processVars, history
  <2>15. CASE UNCHANGED vars
      BY <2>15 DEF vars, serverVars, processVars, loopVars, netVars, history, bounds
  <2>16. QED
      BY <2>1, <2>2, <2>3, <2>4, <2>5, <2>7, <2>8, <2>9, <2>10, <2>11, <2>12, <2>13,
         <2>14, <2>15 DEF Next, Loop, Handle
<1>3. QED
    BY <1>1, <1>2, PTL DEF Spec
-----------------------------------------------------------------------------
\* A broker that moves its fields and raft_state to term t and vote w, where a vote
\* already cast in t is kept, and that casts at most the vote w, keeps the disk in step
\* with the fields and every vote unique.
LEMMA CastStep ==
    ASSUME TypeOK, DiskCurrent, BallotsOnDisk, OneVotePerTerm,
           NEW b \in Broker, NEW t \in Nat, NEW w \in Broker \cup {None}, up[b],
           t > currentTerm[b] \/ (t = currentTerm[b] /\ votedFor[b] \in {None, w}),
           currentTerm' = [currentTerm EXCEPT ![b] = t],
           votedFor' = [votedFor EXCEPT ![b] = w],
           raftState' = [raftState EXCEPT ![b] = [term |-> t, votedFor |-> w]],
           up' = up, torn' = torn,
           ballots' = ballots \/ ballots' = ballots \cup {<<b, t, w>>}
    PROVE  DiskCurrent' /\ BallotsOnDisk' /\ OneVotePerTerm'
<1>1. DiskCurrent'
    BY DEF DiskCurrent, TypeOK, RaftState
<1>2. b \notin torn => raftState[b] = [term |-> currentTerm[b], votedFor |-> votedFor[b]]
    BY DEF DiskCurrent
<1>3. ASSUME NEW x \in ballots PROVE x[1] \in Broker /\ x[2] \in Nat /\ x[3] \in Broker
    BY <1>3 DEF TypeOK
<1>4. ASSUME NEW x \in ballots, x[1] = b, b \notin torn
      PROVE  x[2] <= t /\ (x[2] = t => x[3] = w)
  <2>1. \/ x[2] < currentTerm[b]
        \/ x[2] = currentTerm[b] /\ x[3] = votedFor[b]
      BY <1>2, <1>4 DEF BallotsOnDisk
  <2>2. x[3] # None
      BY <1>3, <1>4, BrokerAssumption
  <2>3. currentTerm[b] \in Nat
      BY DEF TypeOK
  <2>4. QED
      BY <1>3, <1>4, <2>1, <2>2, <2>3
<1>5. BallotsOnDisk'
  <2>1. ASSUME NEW x \in ballots, x[1] # b
        PROVE  raftState'[x[1]] = raftState[x[1]]
      BY <1>3, <2>1 DEF TypeOK
  <2>2. raftState'[b].term = t /\ raftState'[b].votedFor = w
      BY DEF TypeOK
  <2>3. ASSUME NEW x \in ballots
        PROVE  \/ x[1] \in torn
               \/ x[2] < raftState'[x[1]].term
               \/ x[2] = raftState'[x[1]].term /\ x[3] = raftState'[x[1]].votedFor
    <3>1. CASE x[1] = b
        BY <1>3, <1>4, <2>2, <3>1
    <3>2. CASE x[1] # b
        BY <2>1, <3>2 DEF BallotsOnDisk
    <3>3. QED
        BY <3>1, <3>2
  <2>4. QED
      BY <2>2, <2>3 DEF BallotsOnDisk
<1>6. OneVotePerTerm'
    BY <1>4 DEF OneVotePerTerm
<1>7. QED
    BY <1>1, <1>5, <1>6

\* A won election stays backed while votes are only ever added.
LEMMA MajorityStep ==
    ASSUME MajorityCast, elected' = elected, ballots \subseteq ballots'
    PROVE  MajorityCast'
BY DEF MajorityCast, Majority

\* An answer is backed when the vote it grants has been cast.
LEMMA AnswerStep ==
    ASSUME TypeOK, GrantsCast, ballots \subseteq ballots', NEW m \in requests,
           NEW t \in Nat, NEW g \in BOOLEAN, Answer(m, t, g),
           m.type = "RequestVote" /\ g => <<m.dst, t, m.src>> \in ballots'
    PROVE  GrantsCast'
BY DEF GrantsCast, Answer

\* The vote a broker keeps after it saw term u is one CastStep allows.
LEMMA AfterStep ==
    ASSUME TypeOK, NEW b \in Broker, NEW u \in Nat
    PROVE  /\ TermAfter(b, u) \in Nat
           /\ TermAfter(b, u) >= u
           /\ VoteAfter(b, u) \in Broker \cup {None}
           /\ \/ TermAfter(b, u) > currentTerm[b] /\ VoteAfter(b, u) = None
              \/ TermAfter(b, u) = currentTerm[b] /\ VoteAfter(b, u) = votedFor[b]
BY DEF TermAfter, VoteAfter, TypeOK

\* Every step keeps the chain from raft_state to the elections and the uniqueness of
\* votes.
LEMMA VotesStep ==
    ASSUME Inv, [Next]_vars
    PROVE  VotesRestOnDisk' /\ OneVotePerTerm'
<1> USE DEF VotesRestOnDisk, Inv
<1>1. ASSUME NEW b \in Broker, StartElection(b)
      PROVE  VotesRestOnDisk' /\ OneVotePerTerm'
  <2> DEFINE t == currentTerm[b] + 1
  <2>1. t \in Nat /\ t > currentTerm[b]
      BY DEF TypeOK
  <2>2. ballots' = ballots \cup {<<b, t, b>>}
      BY <1>1 DEF StartElection
  <2>3. DiskCurrent' /\ BallotsOnDisk' /\ OneVotePerTerm'
    <3>1. /\ up[b]
          /\ currentTerm' = [currentTerm EXCEPT ![b] = t]
          /\ votedFor' = [votedFor EXCEPT ![b] = b]
          /\ raftState' = [raftState EXCEPT ![b] = [term |-> t, votedFor |-> b]]
          /\ up' = up /\ torn' = torn
        BY <1>1 DEF StartElection, Persist
    <3> HIDE DEF t
    <3>2. QED
        BY <2>1, <2>2, <3>1, CastStep
  <2>4. GrantsCast'
      BY <1>1, <2>2 DEF GrantsCast, StartElection, StartRound
  <2>5. VotesCast'
      BY <1>1, <2>2 DEF VotesCast, StartElection, StartRound, TypeOK
  <2>6. MajorityCast'
      BY <1>1, <2>2, MajorityStep DEF StartElection
  <2>7. QED
      BY <2>3, <2>4, <2>5, <2>6
<1>2. ASSUME NEW b \in Broker, FinishElection(b)
      PROVE  VotesRestOnDisk' /\ OneVotePerTerm'
  <2>1. UNCHANGED <<currentTerm, votedFor, up, raftState, attempt, requests, replies, ballots,
                    torn>>
      BY <1>2 DEF FinishElection, processVars, netVars
  <2>2. DiskCurrent' /\ BallotsOnDisk' /\ GrantsCast' /\ OneVotePerTerm'
      BY <2>1 DEF DiskCurrent, BallotsOnDisk, GrantsCast, OneVotePerTerm
  <2>3. VotesCast'
      BY <1>2, <2>1 DEF FinishElection, VotesCast, TypeOK
  <2>4. MajorityCast'
    <3>1. CASE StillCandidate(b) /\ Majority(votes[b])
      <4>1. elected' = elected \cup {<<currentTerm[b], b>>}
          BY <1>2, <3>1 DEF FinishElection
      <4>2. \A v \in votes[b] : <<v, currentTerm[b], b>> \in ballots
          BY <1>2, <3>1 DEF FinishElection, StillCandidate, VotesCast
      <4>3. votes[b] \in SUBSET Broker
          BY DEF TypeOK
      <4>4. QED
          BY <2>1, <3>1, <4>1, <4>2, <4>3 DEF MajorityCast, Majority
    <3>2. CASE ~(StillCandidate(b) /\ Majority(votes[b]))
        BY <1>2, <2>1, <3>2, MajorityStep DEF FinishElection
    <3>3. QED
        BY <3>1, <3>2
  <2>5. QED
      BY <2>2, <2>3, <2>4
<1>3. ASSUME NEW b \in Broker, ReadRole(b) \/ BroadcastHeartbeats(b) \/ FinishHeartbeats(b)
      PROVE  VotesRestOnDisk' /\ OneVotePerTerm'
  <2>1. UNCHANGED <<currentTerm, votedFor, up, raftState, votes, replies, ballots, elected,
                    torn>>
      BY <1>3 DEF ReadRole, BroadcastHeartbeats, FinishHeartbeats, StartRound, serverVars,
                  processVars, netVars, history
  <2>2. DiskCurrent' /\ BallotsOnDisk' /\ GrantsCast' /\ OneVotePerTerm'
      BY <2>1 DEF DiskCurrent, BallotsOnDisk, GrantsCast, OneVotePerTerm
  <2>3. VotesCast'
      BY <1>3, <2>1
      DEF ReadRole, BroadcastHeartbeats, FinishHeartbeats, StartRound, VotesCast, TypeOK
  <2>4. QED
      BY <2>1, <2>2, <2>3, MajorityStep
<1>4. ASSUME NEW b \in Broker, NEW s \in RaftState, Die(b, s),
             torn \subseteq torn', torn' \subseteq Broker,
             \/ b \in torn' \/ s = raftState[b]
             \/ s.term > currentTerm[b] /\ s.term > raftState[b].term
      PROVE  VotesRestOnDisk' /\ OneVotePerTerm'
  <2>1. UNCHANGED <<currentTerm, votedFor, ballots, elected>>
      BY <1>4 DEF Die, serverVars
  <2>2. raftState' = [raftState EXCEPT ![b] = s] /\ up' = [up EXCEPT ![b] = FALSE]
      BY <1>4 DEF Die
  <2>3. DiskCurrent'
      BY <1>4, <2>1, <2>2 DEF DiskCurrent, TypeOK
  <2>4. BallotsOnDisk'
    <3>1. SUFFICES ASSUME NEW x \in ballots, x[1] \notin torn'
                   PROVE  \/ x[2] < raftState'[x[1]].term
                          \/ x[2] = raftState'[x[1]].term /\ x[3] = raftState'[x[1]].votedFor
        BY <2>1 DEF BallotsOnDisk
    <3>2. x[1] \in Broker /\ x[2] \in Nat
        BY DEF TypeOK
    <3>3. \/ x[2] < raftState[x[1]].term
          \/ x[2] = raftState[x[1]].term /\ x[3] = raftState[x[1]].votedFor
        BY <1>4, <3>1 DEF BallotsOnDisk
    <3>4. raftState[x[1]].term \in Nat /\ s.term \in Nat
        BY <3>2 DEF TypeOK, RaftState
    <3>5. CASE x[1] = b /\ s # raftState[b]
        BY <1>4, <2>2, <3>1, <3>2, <3>3, <3>4, <3>5 DEF TypeOK
    <3>6. CASE ~(x[1] = b /\ s # raftState[b])
        BY <2>2, <3>2, <3>3, <3>6 DEF TypeOK
    <3>7. QED
        BY <3>5, <3>6
  <2>5. GrantsCast' /\ VotesCast'
      BY <1>4, <2>1 DEF Die, GrantsCast, VotesCast, TypeOK
  <2>6. QED
      BY <1>4, <2>1, <2>3, <2>4, <2>5, MajorityStep DEF OneVotePerTerm
<1>5. ASSUME NEW b \in Broker, Crash(b) \/ CrashInPersist(b)
      PROVE  VotesRestOnDisk' /\ OneVotePerTerm'
  <2>1. Empty \in RaftState
      BY DEF Empty, RaftState
  <2>2. QED
      BY <1>4, <1>5, <2>1 DEF Crash, CrashInPersist, TypeOK
<1>6. ASSUME NEW m \in requests, CrashBetweenWrites(m.dst, m)
      PROVE  VotesRestOnDisk' /\ OneVotePerTerm'
  <2> DEFINE s == [term |-> m.term, votedFor |-> None]
  <2>1. m.dst \in Broker /\ s \in RaftState /\ s.term = m.term
      BY DEF TypeOK, Request, RaftState
  <2>2. Die(m.dst, s) /\ m.term > currentTerm[m.dst] /\ up[m.dst] /\ torn' = torn
      BY <1>6 DEF CrashBetweenWrites, Die
  <2>3. m.dst \notin torn => raftState[m.dst].term = currentTerm[m.dst]
    <3>1. m.dst \notin torn => raftState[m.dst] = [term |-> currentTerm[m.dst], votedFor |-> votedFor[m.dst]]
        BY <2>1, <2>2, Zenon DEF DiskCurrent
    <3>2. QED
        BY <3>1
  <2> HIDE DEF s
  <2>4. QED
      BY <1>4, <2>1, <2>2, <2>3 DEF TypeOK
<1>7. ASSUME NEW b \in Broker, Restart(b)
      PROVE  VotesRestOnDisk' /\ OneVotePerTerm'
  <2>1. UNCHANGED <<raftState, pc, roundTerm, votes, replies, ballots, elected, torn>>
      BY <1>7 DEF Restart, loopVars, netVars, history
  <2>2. DiskCurrent'
      BY <1>7, <2>1 DEF Restart, LoadState, DiskCurrent, TypeOK, RaftState
  <2>3. BallotsOnDisk' /\ GrantsCast' /\ VotesCast' /\ OneVotePerTerm'
      BY <2>1 DEF BallotsOnDisk, GrantsCast, VotesCast, OneVotePerTerm
  <2>4. QED
      BY <2>1, <2>2, <2>3, MajorityStep
<1>8. ASSUME NEW m \in requests, HandleRequestVote(m)
      PROVE  VotesRestOnDisk' /\ OneVotePerTerm'
  <2> DEFINE b == m.dst
             t == TermAfter(b, m.term)
             v == VoteAfter(b, m.term)
             g == MayGrant(m, t, v)
             w == IF g THEN m.src ELSE v
  <2>1. b \in Broker /\ m.src \in Broker /\ m.term \in Nat
      BY DEF TypeOK, Request
  <2>2. /\ up[b]
        /\ currentTerm' = [currentTerm EXCEPT ![b] = t]
        /\ votedFor' = [votedFor EXCEPT ![b] = w]
        /\ raftState' = [raftState EXCEPT ![b] = [term |-> t, votedFor |-> w]]
        /\ ballots' = IF g THEN ballots \cup {<<b, t, m.src>>} ELSE ballots
        /\ UNCHANGED <<up, pc, roundTerm, votes, elected, torn>>
      BY <1>8 DEF HandleRequestVote, Persist, loopVars
  <2>3. Answer(m, t, g)
      BY <1>8, Zenon DEF HandleRequestVote
  <2>4. /\ t \in Nat
        /\ v \in Broker \cup {None}
        /\ \/ t > currentTerm[b] /\ v = None
           \/ t = currentTerm[b] /\ v = votedFor[b]
      BY <2>1, AfterStep
  <2>5. g \in BOOLEAN
      BY DEF MayGrant
  <2>6. g => v \in {None, m.src}
      BY DEF MayGrant
  <2> HIDE DEF t, v, g
  <2>7. /\ w \in Broker \cup {None}
        /\ t > currentTerm[b] \/ (t = currentTerm[b] /\ votedFor[b] \in {None, w})
        /\ ballots' = ballots \/ ballots' = ballots \cup {<<b, t, w>>}
      BY <2>1, <2>2, <2>4, <2>6
  <2> HIDE DEF w
  <2>8. DiskCurrent' /\ BallotsOnDisk' /\ OneVotePerTerm'
      BY <2>1, <2>2, <2>4, <2>7, CastStep
  <2>9. ballots \subseteq ballots' /\ (g => <<b, t, m.src>> \in ballots')
      BY <2>2
  <2>10. GrantsCast'
      BY <2>3, <2>4, <2>5, <2>9, AnswerStep
  <2>11. VotesCast' /\ MajorityCast'
      BY <2>2, <2>9, MajorityStep DEF VotesCast
  <2>12. QED
      BY <2>8, <2>10, <2>11
<1>9. ASSUME NEW m \in requests, HandleControllerHeartbeat(m)
      PROVE  VotesRestOnDisk' /\ OneVotePerTerm'
  <2>1. m.dst \in Broker /\ m.src \in Broker /\ m.term \in Nat
      BY DEF TypeOK, Request
  <2>2. /\ UNCHANGED <<up, loopVars, history, bounds>>
        /\ up[m.dst]
        /\ m.type = "ControllerHeartbeat"
        /\ UNCHANGED <<serverVars, raftState>> \/ Accepts(m)
      BY <1>9, Zenon DEF HandleControllerHeartbeat, Persist, Accepts
  <2>3. UNCHANGED <<up, pc, roundTerm, votes, ballots, elected, torn>>
      BY <2>2 DEF loopVars, history
  <2>4. DiskCurrent' /\ BallotsOnDisk' /\ OneVotePerTerm'
    <3>1. CASE UNCHANGED <<serverVars, raftState>>
        BY <2>3, <3>1 DEF serverVars, DiskCurrent, BallotsOnDisk, OneVotePerTerm
    <3>2. CASE Accepts(m)
        BY <2>1, <2>2, <2>3, <3>2, AfterStep, CastStep DEF Accepts
    <3>3. QED
        BY <2>2, <3>1, <3>2
  <2>5. \E t \in Nat, g \in BOOLEAN : Answer(m, t, g)
    <3>1. currentTerm[m.dst] \in Nat /\ TermAfter(m.dst, m.term) \in Nat
        BY <2>1, AfterStep DEF TypeOK
    <3>2. QED
        BY <1>9, <3>1, Zenon DEF HandleControllerHeartbeat
  <2>6. GrantsCast'
      BY <2>2, <2>3, <2>5, AnswerStep
  <2>7. VotesCast' /\ MajorityCast'
      BY <2>3, MajorityStep DEF VotesCast
  <2>8. QED
      BY <2>4, <2>6, <2>7
<1>10. ASSUME NEW r \in replies, ReceiveReply(r.dst, r)
       PROVE  VotesRestOnDisk' /\ OneVotePerTerm'
  <2> DEFINE b == r.dst
  <2>1. b \in Broker /\ r.src \in Broker /\ r.term \in Nat
      BY DEF TypeOK, Reply
  <2>2. UNCHANGED <<up, pc, roundTerm, ballots, elected, torn>>
      BY <1>10 DEF ReceiveReply, history
  <2>3. DiskCurrent' /\ BallotsOnDisk' /\ OneVotePerTerm'
    <3>1. /\ up[b]
          /\ currentTerm' = [currentTerm EXCEPT ![b] = TermAfter(b, r.term)]
          /\ votedFor' = [votedFor EXCEPT ![b] = VoteAfter(b, r.term)]
          /\ raftState' = [raftState EXCEPT ![b] =
                [term |-> TermAfter(b, r.term), votedFor |-> VoteAfter(b, r.term)]]
        BY <1>10 DEF ReceiveReply, Persist
    <3>2. QED
        BY <2>1, <2>2, <3>1, AfterStep, CastStep
  <2>4. GrantsCast'
      BY <1>10, <2>2 DEF ReceiveReply, GrantsCast
  <2>5. VotesCast'
    <3>1. ASSUME NEW c \in Broker, pc[c] = "voting", NEW v \in votes'[c]
          PROVE  <<v, roundTerm[c], c>> \in ballots
      <4>1. CASE v \in votes[c]
          BY <3>1, <4>1 DEF VotesCast
      <4>2. CASE v \notin votes[c]
        <5>1. c = b /\ v = r.src /\ Counts(b, r)
            BY <1>10, <2>1, <3>1, <4>2 DEF ReceiveReply, TypeOK
        <5>2. QED
            BY <5>1 DEF Counts, GrantsCast
      <4>3. QED
          BY <4>1, <4>2
    <3>2. QED
        BY <2>2, <3>1 DEF VotesCast
  <2>6. QED
      BY <2>2, <2>3, <2>4, <2>5, MajorityStep
<1>11. ASSUME NEW b \in Broker, NEW p \in Broker, CallRetry(b, p) \/ CallFails(b, p)
       PROVE  VotesRestOnDisk' /\ OneVotePerTerm'
  <2>1. /\ UNCHANGED <<currentTerm, votedFor, up, raftState, pc, roundTerm, votes, ballots,
                       elected, torn>>
        /\ replies' \subseteq replies
      BY <1>11 DEF CallRetry, CallFails, Breaks, serverVars, processVars, history
  <2>2. QED
      BY <2>1, MajorityStep DEF DiskCurrent, BallotsOnDisk, GrantsCast, VotesCast, OneVotePerTerm
<1>12. ASSUME UNCHANGED vars
       PROVE  VotesRestOnDisk' /\ OneVotePerTerm'
  <2>1. UNCHANGED <<currentTerm, votedFor, up, raftState, pc, roundTerm, votes, replies,
                    ballots, elected, torn>>
      BY <1>12 DEF vars, serverVars, processVars, loopVars, netVars, history
  <2>2. QED
      BY <2>1, MajorityStep DEF DiskCurrent, BallotsOnDisk, GrantsCast, VotesCast, OneVotePerTerm
<1>13. QED
    BY <1>1, <1>2, <1>3, <1>5, <1>6, <1>7, <1>8, <1>9, <1>10, <1>11, <1>12 DEF Next, Loop, Handle

\* The chain from raft_state to the elections, and the uniqueness of votes, hold in every
\* state of every run of any number of brokers, terms, broken connections and crashes.
THEOREM VotesAreUnique == Spec => [](VotesRestOnDisk /\ OneVotePerTerm)
<1>1. Init => Inv
  <2>1. Init => TypeOK
      BY DEF Init, TypeOK, Role, RaftState, NoCalls, Empty
  <2>2. Init => VotesRestOnDisk /\ OneVotePerTerm
      BY DEF Init, Empty, VotesRestOnDisk, DiskCurrent, BallotsOnDisk, GrantsCast, VotesCast,
             MajorityCast, OneVotePerTerm
  <2>3. QED
      BY <2>1, <2>2 DEF Inv
<1>2. TypeOK' /\ Inv /\ [Next]_vars => Inv'
    BY VotesStep DEF Inv
<1>3. QED
    BY <1>1, <1>2, TypeCorrect, PTL DEF Spec, Inv

\* At most one broker becomes controller of a term (start_election / become_leader),
\* unless a broker that lost its raft_state voted for two.
THEOREM ElectionIsSafe == Spec => []ElectionSafety
<1>1. ASSUME TypeOK, VotesRestOnDisk, OneVotePerTerm
      PROVE  ElectionSafety
  <2>1. SUFFICES ASSUME NEW t, NEW b \in Broker, NEW c \in Broker,
                        <<t, b>> \in elected, <<t, c>> \in elected
                 PROVE  \/ b = c
                        \/ \E v \in torn : <<v, t, b>> \in ballots /\ <<v, t, c>> \in ballots
      BY DEF ElectionSafety
  <2>2. PICK P \in SUBSET Broker : Majority(P) /\ \A v \in P : <<v, t, b>> \in ballots
      BY <1>1, <2>1 DEF VotesRestOnDisk, MajorityCast
  <2>3. PICK Q \in SUBSET Broker : Majority(Q) /\ \A v \in Q : <<v, t, c>> \in ballots
      BY <1>1, <2>1 DEF VotesRestOnDisk, MajorityCast
  <2>4. PICK v : v \in P \cap Q
      BY <2>2, <2>3, MajoritiesIntersect
  <2>5. QED
      BY <1>1, <2>2, <2>3, <2>4 DEF OneVotePerTerm
<1>2. QED
    BY <1>1, TypeCorrect, VotesAreUnique, PTL
-----------------------------------------------------------------------------
\* A step leaves Leader only brokers that were Leader in the same term before, or that
\* this step elected.
LEMMA LeaderStep ==
    ASSUME TypeOK, [Next]_vars, NEW c \in Broker, up'[c], role'[c] = "Leader"
    PROVE  \/ up[c] /\ role[c] = "Leader" /\ currentTerm'[c] = currentTerm[c]
              /\ elected \subseteq elected'
           \/ <<currentTerm'[c], c>> \in elected'
<1> DEFINE Kept == /\ up[c] /\ role[c] = "Leader" /\ currentTerm'[c] = currentTerm[c]
                   /\ elected \subseteq elected'
           Won == <<currentTerm'[c], c>> \in elected'
<1> USE DEF TypeOK
<1>1. ASSUME NEW b \in Broker, StartElection(b) PROVE Kept
    BY <1>1 DEF StartElection
<1>2. ASSUME NEW b \in Broker, FinishElection(b) PROVE Kept \/ Won
    BY <1>2 DEF FinishElection, processVars
<1>3. ASSUME NEW b \in Broker, ReadRole(b) \/ BroadcastHeartbeats(b) \/ FinishHeartbeats(b)
      PROVE  Kept
    BY <1>3 DEF ReadRole, BroadcastHeartbeats, FinishHeartbeats, serverVars, processVars, history
<1>4. ASSUME NEW b \in Broker, NEW x, Die(b, x) PROVE Kept
    BY <1>4 DEF Die, serverVars
<1>5. ASSUME NEW b \in Broker, Restart(b) PROVE Kept
    BY <1>5 DEF Restart, history
<1>6. ASSUME NEW m \in requests, HandleRequestVote(m) PROVE Kept
  <2>1. m.dst \in Broker /\ m.term \in Nat
      BY DEF Request
  <2>2. /\ role' = [role EXCEPT ![m.dst] = RoleAfter(m.dst, m.term)]
        /\ currentTerm' = [currentTerm EXCEPT ![m.dst] = TermAfter(m.dst, m.term)]
        /\ UNCHANGED <<up, elected>>
      BY <1>6 DEF HandleRequestVote
  <2>3. QED
      BY <2>1, <2>2 DEF RoleAfter, TermAfter
<1>7. ASSUME NEW m \in requests, HandleControllerHeartbeat(m) PROVE Kept
  <2>1. m.dst \in Broker
      BY DEF Request
  <2>2. /\ UNCHANGED <<up, loopVars, history, bounds>>
        /\ UNCHANGED <<serverVars, raftState>> \/ Accepts(m)
      BY <1>7, Zenon DEF HandleControllerHeartbeat, Persist, Accepts
  <2>3. QED
      BY <2>1, <2>2 DEF Accepts, serverVars, history
<1>8. ASSUME NEW r \in replies, ReceiveReply(r.dst, r) PROVE Kept
  <2>1. r.dst \in Broker /\ r.term \in Nat
      BY DEF Reply
  <2>2. QED
      BY <1>8, <2>1 DEF ReceiveReply, RoleAfter, TermAfter, history
<1>9. ASSUME NEW b \in Broker, NEW p \in Broker, CallRetry(b, p) \/ CallFails(b, p) PROVE Kept
    BY <1>9 DEF CallRetry, CallFails, serverVars, processVars, history
<1>10. ASSUME UNCHANGED vars PROVE Kept
    BY <1>10 DEF vars, serverVars, processVars, history
<1>11. ASSUME NEW m \in requests, CrashBetweenWrites(m.dst, m) PROVE Kept
  <2>1. m.dst \in Broker
      BY DEF Request
  <2>2. QED
      BY <1>4, <1>11, <2>1 DEF CrashBetweenWrites
<1>12. QED
    BY <1>1, <1>2, <1>3, <1>4, <1>5, <1>6, <1>7, <1>8, <1>9, <1>10, <1>11
    DEF Next, Loop, Handle, Crash, CrashInPersist

\* A broker that acts as Leader has won the election of its current term: no handler
\* raises the term of a Leader without making it a Follower.
THEOREM LeadersAreElected == Spec => []LeaderWasElected
<1>1. Init => LeaderWasElected
    BY DEF Init, LeaderWasElected
<1>2. ASSUME TypeOK, LeaderWasElected, [Next]_vars
      PROVE  LeaderWasElected'
    BY <1>2, LeaderStep DEF LeaderWasElected
<1>3. QED
    BY <1>1, <1>2, TypeCorrect, PTL DEF Spec

\* One step on one broker: the term does not fall, and a vote stays while the term does.
Sticks(b) ==
    /\ currentTerm'[b] >= currentTerm[b]
    /\ currentTerm'[b] = currentTerm[b] /\ votedFor[b] # None => votedFor'[b] = votedFor[b]

\* A broker that moves its fields the way CastStep allows sticks to its term and vote, and
\* so do the others.
LEMMA StickStep ==
    ASSUME TypeOK, NEW b \in Broker, NEW t \in Nat, NEW w,
           t > currentTerm[b] \/ (t = currentTerm[b] /\ votedFor[b] \in {None, w}),
           currentTerm' = [currentTerm EXCEPT ![b] = t],
           votedFor' = [votedFor EXCEPT ![b] = w],
           NEW c \in Broker
    PROVE  Sticks(c)
<1>1. currentTerm[c] \in Nat
    BY DEF TypeOK
<1>2. CASE c = b
    BY <1>1, <1>2 DEF Sticks, TypeOK
<1>3. CASE c # b
    BY <1>1, <1>3 DEF Sticks, TypeOK
<1>4. QED
    BY <1>2, <1>3

\* Unchanged fields stick.
LEMMA StickSame ==
    ASSUME TypeOK, UNCHANGED <<currentTerm, votedFor>>, NEW c \in Broker
    PROVE  Sticks(c)
BY DEF TypeOK, Sticks

\* Every step sticks to the terms and votes of all brokers, except that one may come
\* back without its raft_state.
LEMMA StickingStep ==
    ASSUME TypeOK, VotesRestOnDisk, [Next]_vars, NEW c \in Broker, up[c] \/ c \notin torn
    PROVE  Sticks(c)
<1>1. ASSUME NEW b \in Broker, StartElection(b) PROVE Sticks(c)
  <2>1. currentTerm[b] + 1 \in Nat /\ currentTerm[b] + 1 > currentTerm[b]
      BY DEF TypeOK
  <2>2. QED
      BY <1>1, <2>1, StickStep DEF StartElection
<1>2. ASSUME NEW b \in Broker, Restart(b) PROVE Sticks(c)
  <2>1. CASE b \notin torn
    <3>1. /\ raftState[b].term \in Nat
          /\ \/ raftState[b].term > currentTerm[b]
             \/ raftState[b].term = currentTerm[b] /\ raftState[b].votedFor = votedFor[b]
        BY <2>1 DEF VotesRestOnDisk, DiskCurrent, TypeOK, RaftState
    <3>2. QED
        BY <1>2, <3>1, StickStep DEF Restart, LoadState
  <2>2. CASE b # c
      BY <1>2, <2>2 DEF Restart, Sticks, TypeOK
  <2>3. QED
      BY <1>2, <2>1, <2>2 DEF Restart
<1>3. ASSUME NEW m \in requests, HandleRequestVote(m) PROVE Sticks(c)
  <2> DEFINE b == m.dst
             t == TermAfter(b, m.term)
             v == VoteAfter(b, m.term)
             w == IF MayGrant(m, t, v) THEN m.src ELSE v
  <2>1. b \in Broker /\ m.term \in Nat
      BY DEF TypeOK, Request
  <2>2. /\ t \in Nat
        /\ \/ t > currentTerm[b] /\ v = None
           \/ t = currentTerm[b] /\ v = votedFor[b]
      BY <2>1, AfterStep
  <2>3. v \in {None, w}
      BY DEF MayGrant
  <2>4. /\ currentTerm' = [currentTerm EXCEPT ![b] = t]
        /\ votedFor' = [votedFor EXCEPT ![b] = w]
      BY <1>3 DEF HandleRequestVote
  <2> HIDE DEF t, v, w
  <2>5. QED
      BY <2>1, <2>2, <2>3, <2>4, StickStep
<1>4. ASSUME NEW m \in requests, HandleControllerHeartbeat(m) PROVE Sticks(c)
  <2>1. m.dst \in Broker /\ m.term \in Nat
      BY DEF TypeOK, Request
  <2>2. UNCHANGED <<serverVars, raftState>> \/ Accepts(m)
      BY <1>4, Zenon DEF HandleControllerHeartbeat, Persist, Accepts
  <2>3. CASE UNCHANGED <<serverVars, raftState>>
      BY <2>3, StickSame DEF serverVars
  <2>4. CASE Accepts(m)
      BY <2>1, <2>4, AfterStep, StickStep DEF Accepts
  <2>5. QED
      BY <2>2, <2>3, <2>4
<1>5. ASSUME NEW r \in replies, ReceiveReply(r.dst, r) PROVE Sticks(c)
  <2>1. r.dst \in Broker /\ r.term \in Nat
      BY DEF TypeOK, Reply
  <2>2. QED
      BY <1>5, <2>1, AfterStep, StickStep DEF ReceiveReply
<1>6. ASSUME NEW b \in Broker,
             \/ FinishElection(b) \/ ReadRole(b) \/ BroadcastHeartbeats(b)
             \/ FinishHeartbeats(b) \/ Crash(b) \/ CrashInPersist(b)
      PROVE  Sticks(c)
    BY <1>6, StickSame
    DEF FinishElection, ReadRole, BroadcastHeartbeats, FinishHeartbeats, Crash, CrashInPersist,
        Die, serverVars
<1>7. ASSUME NEW m \in requests, CrashBetweenWrites(m.dst, m) PROVE Sticks(c)
    BY <1>7, StickSame DEF CrashBetweenWrites, Die, serverVars
<1>8. ASSUME NEW b \in Broker, NEW p \in Broker, CallRetry(b, p) \/ CallFails(b, p)
      PROVE  Sticks(c)
    BY <1>8, StickSame DEF CallRetry, CallFails, serverVars
<1>9. ASSUME UNCHANGED vars PROVE Sticks(c)
    BY <1>9, StickSame DEF vars, serverVars
<1>10. QED
    BY <1>1, <1>2, <1>3, <1>4, <1>5, <1>6, <1>7, <1>8, <1>9 DEF Next, Loop, Handle

\* A raft_state that was lost stays lost.
LEMMA TornGrows ==
    ASSUME [Next]_vars
    PROVE  torn \subseteq torn'
BY DEF Next, vars, history, Loop, Handle, StartElection, FinishElection, ReadRole,
       BroadcastHeartbeats, FinishHeartbeats, Crash, CrashInPersist, Restart,
       HandleRequestVote, HandleControllerHeartbeat, ReceiveReply, CallRetry, CallFails,
       CrashBetweenWrites

\* Terms never go back and a vote is kept for its term, on every broker that keeps its
\* raft_state and through every crash and restart.
THEOREM TermsStick == Spec => TermsAndVotesStick
<1>1. ASSUME TypeOK, VotesRestOnDisk, [Next]_vars
      PROVE  [\A b \in Broker \ torn' :
                 /\ currentTerm'[b] >= currentTerm[b]
                 /\ currentTerm'[b] = currentTerm[b] /\ votedFor[b] # None
                      => votedFor'[b] = votedFor[b]]_vars
    BY <1>1, TornGrows, StickingStep DEF Sticks
<1>2. QED
    BY <1>1, TypeCorrect, VotesAreUnique, PTL DEF Spec, TermsAndVotesStick

\* c has won an election of a term up to t.
Won(es, c, t) == \E e \in es : e[2] = c /\ e[1] <= t

\* The strengthening of KnownLeaderWasElected: whoever is about to send heartbeats, is
\* sending them or has sent one won an election of a term up to the one it announces,
\* though it may be deposed by then.
CallsInRound ==
    \A b, p \in Broker : attempt[b][p] # 0 => pc[b] \in {"voting", "beating"}
LoopsRun == \A b \in Broker : pc[b] # "top" => up[b]
BeatersWon ==
    \A b \in Broker :
        /\ pc[b] = "beat" => Won(elected, b, currentTerm[b])
        /\ pc[b] = "beating" => Won(elected, b, roundTerm[b])
HeartbeatsWon ==
    \A m \in requests : m.type = "ControllerHeartbeat" => Won(elected, m.src, m.term)
KnownInv ==
    KnownLeaderWasElected /\ CallsInRound /\ LoopsRun /\ BeatersWon /\ HeartbeatsWon

\* A broker that is elected in t has won in t or earlier.
LEMMA WonNow ==
    ASSUME NEW es, NEW c, NEW t \in Nat, <<t, c>> \in es
    PROVE  Won(es, c, t)
<1>1. <<t, c>>[2] = c /\ <<t, c>>[1] <= t
    OBVIOUS
<1>2. QED
    BY <1>1 DEF Won

\* A win is remembered, and stays one for every later term.
LEMMA WonStays ==
    ASSUME NEW es \in SUBSET (Nat \X Broker), NEW fs, es \subseteq fs, NEW c,
           NEW t \in Nat, NEW u \in Nat, t <= u, Won(es, c, t)
    PROVE  Won(fs, c, u)
<1>1. PICK e \in es : e[2] = c /\ e[1] <= t
    BY DEF Won
<1>2. e[1] \in Nat
    BY <1>1
<1>3. e \in fs /\ e[1] <= u
    BY <1>1, <1>2
<1>4. QED
    BY <1>1, <1>3 DEF Won

\* History only grows.
LEMMA ElectedGrows ==
    ASSUME [Next]_vars
    PROVE  elected \subseteq elected'
BY DEF Next, vars, history, Loop, Handle, StartElection, FinishElection, ReadRole,
       BroadcastHeartbeats, FinishHeartbeats, Crash, CrashInPersist, Die, Restart,
       HandleRequestVote, HandleControllerHeartbeat, ReceiveReply, CallRetry, CallFails,
       CrashBetweenWrites

\* A step that starts no round and sends nothing keeps KnownInv if it leaves the leaders
\* the brokers know alone.
LEMMA KnownSame ==
    ASSUME TypeOK, TypeOK', KnownInv, elected \subseteq elected',
           \A c \in Broker : up[c] => currentTerm'[c] >= currentTerm[c],
           \A c \in Broker : up[c] => up'[c] \/ pc'[c] = "top",
           \A c \in Broker : up'[c] => \/ up[c] /\ currentLeaderId'[c] = currentLeaderId[c]
                                      \/ currentLeaderId'[c] = None
                                      \/ Won(elected', currentLeaderId'[c], currentTerm'[c]),
           \A c \in Broker : \/ pc'[c] = pc[c] /\ roundTerm'[c] = roundTerm[c]
                             \/ pc'[c] = "top",
           \A c, p \in Broker : attempt'[c][p] # 0 => attempt[c][p] # 0 /\ pc'[c] = pc[c],
           requests' \subseteq requests
    PROVE  KnownInv'
<1>1. KnownLeaderWasElected'
  <2>1. SUFFICES ASSUME NEW c \in Broker, up'[c], currentLeaderId'[c] # None
                 PROVE  Won(elected', currentLeaderId'[c], currentTerm'[c])
      BY DEF KnownLeaderWasElected, Won
  <2>2. CASE up[c] /\ currentLeaderId'[c] = currentLeaderId[c]
    <3>1. Won(elected, currentLeaderId[c], currentTerm[c])
        BY <2>1, <2>2 DEF KnownInv, KnownLeaderWasElected, Won
    <3>2. QED
        BY <2>2, <3>1, WonStays DEF TypeOK
  <2>3. QED
      BY <2>1, <2>2
<1>2. CallsInRound' /\ LoopsRun'
    BY DEF KnownInv, CallsInRound, LoopsRun
<1>3. BeatersWon'
  <2>1. SUFFICES ASSUME NEW c \in Broker
                 PROVE  /\ pc'[c] = "beat" => Won(elected', c, currentTerm'[c])
                        /\ pc'[c] = "beating" => Won(elected', c, roundTerm'[c])
      BY DEF BeatersWon
  <2>2. /\ currentTerm[c] \in Nat /\ currentTerm'[c] \in Nat
        /\ roundTerm[c] \in Nat /\ elected \in SUBSET (Nat \X Broker)
      BY DEF TypeOK
  <2>3. CASE pc[c] = "beat" /\ pc'[c] = pc[c]
      BY <2>2, <2>3, WonStays DEF KnownInv, BeatersWon, LoopsRun
  <2>4. CASE pc[c] = "beating" /\ pc'[c] = pc[c] /\ roundTerm'[c] = roundTerm[c]
      BY <2>2, <2>4, WonStays DEF KnownInv, BeatersWon, LoopsRun
  <2>5. QED
      BY <2>3, <2>4
<1>4. HeartbeatsWon'
  <2>1. SUFFICES ASSUME NEW m \in requests, m.type = "ControllerHeartbeat"
                 PROVE  Won(elected', m.src, m.term)
      BY DEF HeartbeatsWon
  <2>2. m.term \in Nat /\ elected \in SUBSET (Nat \X Broker)
      BY DEF TypeOK, Request
  <2>3. QED
      BY <2>1, <2>2, WonStays DEF KnownInv, HeartbeatsWon
<1>5. QED
    BY <1>1, <1>2, <1>3, <1>4 DEF KnownInv

\* A step of b that sends requests of its round, and only moves b's part of the loop.
LEMMA KnownSends ==
    ASSUME TypeOK, TypeOK', KnownInv, elected' = elected, NEW b \in Broker,
           up[b], \A c \in Broker : up[c] => currentTerm'[c] >= currentTerm[c],
           UNCHANGED <<up, currentLeaderId>>,
           \A c \in Broker \ {b} : pc'[c] = pc[c] /\ roundTerm'[c] = roundTerm[c],
           \A c \in Broker \ {b} : attempt'[c] = attempt[c],
           pc'[b] \in {"voting", "beating"},
           pc'[b] = "beating" => Won(elected, b, roundTerm'[b]),
           \A m \in requests' \ requests :
              /\ m.src = b /\ m.term = roundTerm'[b]
              /\ m.type = "ControllerHeartbeat" => pc'[b] = "beating"
    PROVE  KnownInv'
<1>1. elected \in SUBSET (Nat \X Broker)
    BY DEF TypeOK
<1>2. KnownLeaderWasElected'
  <2>1. SUFFICES ASSUME NEW c \in Broker, up'[c], currentLeaderId'[c] # None
                 PROVE  Won(elected', currentLeaderId'[c], currentTerm'[c])
      BY DEF KnownLeaderWasElected, Won
  <2>2. Won(elected, currentLeaderId[c], currentTerm[c])
      BY <2>1 DEF KnownInv, KnownLeaderWasElected, Won
  <2>3. currentTerm[c] <= currentTerm'[c]
      BY <2>1 DEF TypeOK
  <2>4. QED
      BY <1>1, <2>2, <2>3, WonStays DEF TypeOK
<1>3. CallsInRound' /\ LoopsRun'
    BY DEF KnownInv, CallsInRound, LoopsRun
<1>4. BeatersWon'
  <2>1. SUFFICES ASSUME NEW c \in Broker
                 PROVE  /\ pc'[c] = "beat" => Won(elected', c, currentTerm'[c])
                        /\ pc'[c] = "beating" => Won(elected', c, roundTerm'[c])
      BY DEF BeatersWon
  <2>2. CASE c = b
      BY <2>2
  <2>3. CASE c # b
      BY <1>1, <2>3, WonStays DEF KnownInv, BeatersWon, LoopsRun, TypeOK
  <2>4. QED
      BY <2>2, <2>3
<1>5. HeartbeatsWon'
    BY DEF KnownInv, HeartbeatsWon
<1>6. QED
    BY <1>2, <1>3, <1>4, <1>5 DEF KnownInv

\* A round that starts sends b's requests only.
LEMMA RoundSends ==
    ASSUME TypeOK, NEW b \in Broker, NEW t \in Nat, NEW type, StartRound(b, type, t)
    PROVE  /\ \A m \in requests' \ requests : m.src = b /\ m.term = t /\ m.type = type
           /\ \A c \in Broker \ {b} : attempt'[c] = attempt[c] /\ roundTerm'[c] = roundTerm[c]
           /\ roundTerm'[b] = t
BY DEF TypeOK, StartRound, RequestTo

\* KnownInv is inductive, given what is proved above.
LEMMA KnownStep ==
    ASSUME TypeOK, TypeOK', LeaderWasElected, VotesRestOnDisk, KnownInv, [Next]_vars
    PROVE  KnownInv'
<1> DEFINE Later == \A c \in Broker : up[c] => currentTerm'[c] >= currentTerm[c]
<1>1. elected \subseteq elected' /\ Later
    BY ElectedGrows, StickingStep DEF Sticks
<1>2. ASSUME NEW b \in Broker, StartElection(b) PROVE KnownInv'
  <2>1. currentTerm[b] + 1 \in Nat /\ StartRound(b, "RequestVote", currentTerm[b] + 1)
      BY <1>2 DEF StartElection, TypeOK
  <2>2. /\ pc'[b] = "voting" /\ \A c \in Broker \ {b} : pc'[c] = pc[c]
        /\ up[b] /\ UNCHANGED <<up, currentLeaderId, elected>>
      BY <1>2 DEF StartElection, TypeOK
  <2>3. /\ \A m \in requests' \ requests :
              m.src = b /\ m.term = currentTerm[b] + 1 /\ m.type = "RequestVote"
        /\ \A c \in Broker \ {b} : attempt'[c] = attempt[c] /\ roundTerm'[c] = roundTerm[c]
        /\ roundTerm'[b] = currentTerm[b] + 1
      BY <2>1, RoundSends
  <2>4. QED
      BY <1>1, <2>2, <2>3, KnownSends
<1>3. ASSUME NEW b \in Broker, BroadcastHeartbeats(b) PROVE KnownInv'
  <2>1. Won(elected, b, currentTerm[b])
      BY <1>3 DEF BroadcastHeartbeats, KnownInv, BeatersWon
  <2>2. currentTerm[b] \in Nat /\ StartRound(b, "ControllerHeartbeat", currentTerm[b])
      BY <1>3 DEF BroadcastHeartbeats, TypeOK
  <2>3. /\ pc'[b] = "beating" /\ \A c \in Broker \ {b} : pc'[c] = pc[c]
        /\ up[b] /\ UNCHANGED <<up, currentLeaderId, elected>>
      BY <1>3 DEF BroadcastHeartbeats, TypeOK, serverVars, processVars, history
  <2>4. /\ \A m \in requests' \ requests : m.src = b /\ m.term = currentTerm[b]
        /\ \A c \in Broker \ {b} : attempt'[c] = attempt[c] /\ roundTerm'[c] = roundTerm[c]
        /\ roundTerm'[b] = currentTerm[b]
      BY <2>2, RoundSends
  <2>5. QED
      BY <1>1, <2>1, <2>3, <2>4, KnownSends
<1>4. ASSUME NEW b \in Broker, NEW p \in Broker, CallRetry(b, p) PROVE KnownInv'
  <2>1. /\ pc' = pc /\ roundTerm' = roundTerm /\ attempt[b][p] = 1
        /\ attempt' = [attempt EXCEPT ![b][p] = 2]
        /\ requests' = requests \cup {RequestTo(b, p, RoundType(b), roundTerm[b], 2)}
        /\ up[b] /\ UNCHANGED <<up, currentLeaderId, elected>>
      BY <1>4 DEF CallRetry, Breaks, serverVars, processVars, history
  <2>2. pc[b] \in {"voting", "beating"}
      BY <2>1 DEF KnownInv, CallsInRound
  <2>3. pc[b] = "beating" => Won(elected, b, roundTerm[b])
      BY DEF KnownInv, BeatersWon
  <2>4. \A m \in requests' \ requests :
           /\ m.src = b /\ m.term = roundTerm'[b]
           /\ m.type = "ControllerHeartbeat" => pc'[b] = "beating"
      BY <2>1, <2>2 DEF RequestTo, RoundType
  <2>5. \A c \in Broker \ {b} : attempt'[c] = attempt[c]
      BY <2>1 DEF TypeOK
  <2>6. QED
      BY <1>1, <2>1, <2>2, <2>3, <2>4, <2>5, KnownSends
<1>5. ASSUME NEW b \in Broker, FinishElection(b) PROVE KnownInv'
  <2>1. /\ pc' = [pc EXCEPT ![b] = "top"] /\ roundTerm' = [roundTerm EXCEPT ![b] = 0]
        /\ UNCHANGED <<up, currentTerm, attempt, requests>>
        /\ \A p \in Broker : attempt[b][p] = 0
        /\ \/ currentLeaderId' = currentLeaderId
           \/ /\ currentLeaderId' = [currentLeaderId EXCEPT ![b] = b]
              /\ <<currentTerm[b], b>> \in elected'
      BY <1>5 DEF FinishElection, processVars, netVars, RoundOver
  <2>2. <<currentTerm[b], b>> \in elected' => Won(elected', b, currentTerm'[b])
      BY <2>1, WonNow DEF TypeOK
  <2>3. /\ pc'[b] = "top" /\ \A c \in Broker \ {b} : pc'[c] = pc[c] /\ roundTerm'[c] = roundTerm[c]
        /\ \A c \in Broker \ {b} : currentLeaderId'[c] = currentLeaderId[c]
        /\ \/ currentLeaderId'[b] = currentLeaderId[b]
           \/ Won(elected', currentLeaderId'[b], currentTerm'[b])
      BY <2>1, <2>2 DEF TypeOK
  <2>4. /\ \A c \in Broker : \/ currentLeaderId'[c] = currentLeaderId[c]
                           \/ Won(elected', currentLeaderId'[c], currentTerm'[c])
        /\ \A c \in Broker : \/ pc'[c] = pc[c] /\ roundTerm'[c] = roundTerm[c]
                           \/ pc'[c] = "top"
      BY <2>3
  <2>5. \A c, p \in Broker : attempt'[c][p] # 0 => attempt[c][p] # 0 /\ pc'[c] = pc[c]
      BY <2>1, <2>3
  <2>6. QED
      BY <1>1, <2>1, <2>4, <2>5, KnownSame
<1>6. ASSUME NEW b \in Broker, ReadRole(b) PROVE KnownInv'
  <2>1. Won(elected, b, currentTerm[b])
      BY <1>6, WonNow DEF ReadRole, LeaderWasElected, TypeOK
  <2>2. /\ up[b] /\ pc[b] = "top" /\ pc' = [pc EXCEPT ![b] = "beat"]
        /\ UNCHANGED <<up, currentTerm, currentLeaderId, roundTerm, attempt, requests, elected>>
      BY <1>6 DEF ReadRole, serverVars, processVars, netVars, history
  <2>3. QED
      BY <2>1, <2>2
      DEF KnownInv, KnownLeaderWasElected, CallsInRound, LoopsRun, BeatersWon, HeartbeatsWon,
          TypeOK
<1>7. ASSUME NEW b \in Broker, FinishHeartbeats(b) PROVE KnownInv'
    BY <1>1, <1>7, KnownSame
    DEF FinishHeartbeats, RoundOver, serverVars, processVars, netVars, history, TypeOK
<1>8. ASSUME NEW b \in Broker, NEW x, Die(b, x) PROVE KnownInv'
    BY <1>1, <1>8, KnownSame DEF Die, NoCalls, serverVars, TypeOK
<1>9. ASSUME NEW b \in Broker, Restart(b) PROVE KnownInv'
    BY <1>1, <1>9, KnownSame DEF Restart, loopVars, netVars, history, TypeOK
<1>10. ASSUME NEW m \in requests, HandleRequestVote(m) PROVE KnownInv'
    BY <1>1, <1>10, KnownSame DEF HandleRequestVote, Answer, loopVars, TypeOK
<1>11. ASSUME NEW m \in requests, HandleControllerHeartbeat(m) PROVE KnownInv'
  <2>1. m.dst \in Broker /\ m.src \in Broker /\ m.term \in Nat
      BY DEF TypeOK, Request
  <2>2. /\ UNCHANGED <<up, loopVars, history, bounds>>
        /\ UNCHANGED <<serverVars, raftState>> \/ Accepts(m)
        /\ requests' \subseteq requests /\ m.type = "ControllerHeartbeat"
      BY <1>11, Zenon DEF HandleControllerHeartbeat, Persist, Accepts, Answer
  <2>3. CASE UNCHANGED <<serverVars, raftState>>
      BY <1>1, <2>2, <2>3, KnownSame DEF loopVars, serverVars, history
  <2>4. CASE Accepts(m)
    <3>1. /\ currentLeaderId' = [currentLeaderId EXCEPT ![m.dst] = m.src]
          /\ currentTerm'[m.dst] = TermAfter(m.dst, m.term)
        BY <2>1, <2>4 DEF Accepts, TypeOK
    <3>2. TermAfter(m.dst, m.term) >= m.term /\ TermAfter(m.dst, m.term) \in Nat
        BY <2>1, AfterStep
    <3>3. Won(elected, m.src, m.term)
        BY <2>2 DEF KnownInv, HeartbeatsWon
    <3>4. Won(elected', m.src, currentTerm'[m.dst])
      <4>1. elected \in SUBSET (Nat \X Broker) /\ elected \subseteq elected'
          BY <1>1 DEF TypeOK
      <4>2. m.term <= TermAfter(m.dst, m.term)
          BY <2>1, <3>2
      <4>3. Won(elected', m.src, TermAfter(m.dst, m.term))
          BY <2>1, <3>2, <3>3, <4>1, <4>2, WonStays
      <4>4. QED
          BY <3>1, <4>3
    <3>5. /\ \A c \in Broker \ {m.dst} : currentLeaderId'[c] = currentLeaderId[c]
          /\ currentLeaderId'[m.dst] = m.src
        BY <2>1, <3>1 DEF TypeOK
    <3>6. /\ UNCHANGED <<up, pc, roundTerm, attempt>>
          /\ \A c \in Broker : \/ currentLeaderId'[c] = currentLeaderId[c]
                             \/ Won(elected', currentLeaderId'[c], currentTerm'[c])
        BY <2>2, <3>4, <3>5 DEF loopVars
    <3> HIDE DEF Later
    <3>7. QED
        BY <1>1, <2>2, <3>6, KnownSame DEF Later
  <2>5. QED
      BY <2>2, <2>3, <2>4
<1>12. ASSUME NEW r \in replies, ReceiveReply(r.dst, r) PROVE KnownInv'
  <2>1. r.dst \in Broker /\ r.src \in Broker
      BY DEF TypeOK, Reply
  <2>2. /\ UNCHANGED <<currentLeaderId, up, pc, roundTerm, requests, elected>>
        /\ attempt' = [attempt EXCEPT ![r.dst][r.src] = 0]
        /\ currentTerm' = [currentTerm EXCEPT ![r.dst] = TermAfter(r.dst, r.term)]
      BY <1>12 DEF ReceiveReply, history
  <2>3. \A c \in Broker : currentTerm'[c] >= currentTerm[c]
    <3>1. currentTerm \in [Broker -> Nat] /\ r.term \in Nat
        BY DEF TypeOK, Reply
    <3>2. /\ TermAfter(r.dst, r.term) >= currentTerm[r.dst]
          /\ \A c \in Broker : currentTerm[c] >= currentTerm[c]
        BY <2>1, <3>1 DEF TermAfter
    <3>3. QED
        BY <2>1, <2>2, <3>1, <3>2
  <2>4. \A c, p \in Broker : attempt'[c][p] # 0 => attempt[c][p] # 0
      BY <2>1, <2>2 DEF TypeOK
  <2>5. QED
      BY <1>1, <2>2, <2>3, <2>4, KnownSame
<1>13. ASSUME NEW b \in Broker, NEW p \in Broker, CallFails(b, p) PROVE KnownInv'
    BY <1>1, <1>13, KnownSame DEF CallFails, serverVars, processVars, history, TypeOK
<1>14. ASSUME UNCHANGED vars PROVE KnownInv'
    BY <1>1, <1>14, KnownSame
    DEF vars, serverVars, processVars, loopVars, netVars, history
<1>15. ASSUME NEW m \in requests, CrashBetweenWrites(m.dst, m) PROVE KnownInv'
  <2>1. m.dst \in Broker
      BY DEF TypeOK, Request
  <2>2. QED
      BY <1>8, <1>15, <2>1 DEF CrashBetweenWrites
<1>16. QED
    BY <1>2, <1>3, <1>4, <1>5, <1>6, <1>7, <1>8, <1>9, <1>10, <1>11, <1>12, <1>13, <1>14, <1>15
    DEF Next, Loop, Handle, Crash, CrashInPersist

\* The broker that current_leader_id() names, and clients are redirected to, has won an
\* election: a deposed controller's late heartbeats announce nobody who never led.
THEOREM KnownLeadersWereElected == Spec => []KnownLeaderWasElected
<1>1. Init => KnownInv
    BY DEF Init, NoCalls, KnownInv, KnownLeaderWasElected, CallsInRound, LoopsRun, BeatersWon,
           HeartbeatsWon
<1>2. TypeOK /\ TypeOK' /\ LeaderWasElected /\ VotesRestOnDisk /\ KnownInv /\ [Next]_vars
        => KnownInv'
    BY KnownStep
<1>3. KnownInv => KnownLeaderWasElected
    BY DEF KnownInv
<1>4. QED
    BY <1>1, <1>2, <1>3, TypeCorrect, VotesAreUnique, LeadersAreElected, PTL DEF Spec

\* raft_state carries every vote on which an election rests.
THEOREM VotesOutliveCrashes == Spec => []VotesRestOnDisk
BY VotesAreUnique, PTL
=============================================================================
