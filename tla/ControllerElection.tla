------------------------- MODULE ControllerElection -------------------------
(***************************************************************************)
(* The controller election of ClusterController (cluster/controller.cpp):  *)
(* a Raft-inspired, leader-only election.  Every broker runs one           *)
(* background thread (run_loop) that either waits for its election         *)
(* deadline and then asks every peer for a vote, or, as Leader, sends      *)
(* ControllerHeartbeat to every peer; connection threads answer the        *)
(* requests of the peers.  Every lock_guard(mu_) section is one action.    *)
(*                                                                         *)
(* Requests travel through ClusterMembership::call: a round trip that is   *)
(* tried at most twice, where a request whose first attempt broke may      *)
(* still be handled by the peer after the caller has given up on it.       *)
(* Time is abstracted: an election deadline may pass whenever the broker   *)
(* is not Leader.                                                          *)
(***************************************************************************)
EXTENDS Integers, FiniteSets

CONSTANTS
    Broker,      \* the ids of --cluster, the same map on every broker
    None,        \* votedFor_ = -1 and currentLeaderId_ = -1
    MaxTerm,     \* bound: no election is started beyond this term
    MaxRounds,   \* bound: elections started over all the brokers
    MaxBreaks,   \* bound: connections that break while both ends are alive
    MaxCrashes   \* bound: crashes over all the brokers

ASSUME BrokerAssumption == IsFiniteSet(Broker) /\ None \notin Broker
ASSUME BoundAssumption ==
    /\ MaxTerm \in Nat /\ MaxRounds \in Nat /\ MaxBreaks \in Nat /\ MaxCrashes \in Nat

VARIABLES
    \* ClusterController's fields, guarded by mu_
    role,            \* role_
    currentTerm,     \* currentTerm_
    votedFor,        \* votedFor_
    currentLeaderId, \* currentLeaderId_
    \* the process and its disk
    up,              \* the broker process is running
    raftState,       \* the contents of <dataDir>/raft_state
    \* run_loop's thread and the threads it joins
    pc,              \* "top", "voting", "beat" (role read, term not), "beating"
    roundTerm,       \* termForThisElection, or broadcast_heartbeats' term
    votes,           \* the brokers counted in start_election's votes
    attempt,         \* attempt[b][p]: try of b's outstanding call to p, 0 if none
    \* the network
    requests,        \* requests sent and not yet handled
    replies,         \* replies on their way to a caller that still waits
    \* history: read by properties only
    ballots,         \* <<voter, term, candidate>> for every vote ever cast
    elected,         \* <<term, broker>> for every become_leader
    torn,            \* brokers that lost raft_state in persist_state()
    rounds,          \* elections so far
    breaks,          \* broken connections so far
    crashes          \* crashes so far

serverVars  == <<role, currentTerm, votedFor, currentLeaderId>>
processVars == <<up, raftState>>
loopVars    == <<pc, roundTerm, votes, attempt>>
netVars     == <<requests, replies>>
history     == <<ballots, elected, torn>>
bounds      == <<rounds, breaks, crashes>>
vars == <<serverVars, processVars, loopVars, netVars, history, bounds>>

Role == {"Follower", "Candidate", "Leader"}
Request == [type : {"RequestVote", "ControllerHeartbeat"}, src : Broker,
            dst : Broker, term : Nat, attempt : {1, 2}]
Reply == [type : {"RequestVote", "ControllerHeartbeat"}, src : Broker,
          dst : Broker, term : Nat, granted : BOOLEAN, attempt : {1, 2}]
RaftState == [term : Nat, votedFor : Broker \cup {None}]

NoCalls == [p \in Broker |-> 0]

\* What load_state makes of no file, or of one that is empty.
Empty == [term |-> 0, votedFor |-> None]

-----------------------------------------------------------------------------
(***************************************************************************)
(* Helpers.  An operator whose name ends in _bug is a mutant: a plausible  *)
(* mistake in the operator that follows it.                                *)
(***************************************************************************)

\* persist_state() after the fields of b became t and v.  The handlers write only when
\* the fields changed; writing the same contents again (DiskCurrent) is no change.
Persist(b, t, v) == raftState' = [raftState EXCEPT ![b] = [term |-> t, votedFor |-> v]]

\* load_state(): what a restarted broker reads back.
LoadState_bug(s) == [term |-> 0, votedFor |-> s.votedFor]
LoadState(s) == s

\* The fields after step_down(newTerm) saw newTerm: a newer term clears the vote.
TermAfter(b, t) == IF t > currentTerm[b] THEN t ELSE currentTerm[b]
RoleAfter_bug(b, t) == role[b]
RoleAfter(b, t) == IF t > currentTerm[b] THEN "Follower" ELSE role[b]
VoteAfter_bug(b, t) == IF t > currentTerm[b] THEN 0 ELSE votedFor[b]
VoteAfter(b, t) == IF t > currentTerm[b] THEN None ELSE votedFor[b]

\* handle_request_vote's condition, on the fields step_down left.
MayGrant_bug(m, t, v) == m.term = t
MayGrant(m, t, v) == m.term = t /\ v \in {None, m.src}

\* start_election's "votes >= broker_count / 2 + 1".
Majority_bug(vs) == Cardinality(vs) >= Cardinality(Broker) \div 2
Majority(vs) == Cardinality(vs) >= Cardinality(Broker) \div 2 + 1

\* start_election's re-check under the lock, after the vote threads joined.
StillCandidate(b) == role[b] = "Candidate" /\ currentTerm[b] = roundTerm[b]

\* A request of b's round, sent to p.
RequestTo(b, p, type, t, n) ==
    [type |-> type, src |-> b, dst |-> p, term |-> t, attempt |-> n]

\* A round: one thread per peer, each in call().  A peer that is down gets nothing.
StartRound(b, type, t) ==
    /\ roundTerm' = [roundTerm EXCEPT ![b] = t]
    /\ attempt' = [attempt EXCEPT ![b] = [p \in Broker |-> IF p = b THEN 0 ELSE 1]]
    /\ requests' = requests \cup
         {RequestTo(b, p, type, t, 1) : p \in {q \in Broker \ {b} : up[q]}}
    /\ UNCHANGED replies

\* The type of the requests of the round b is in.
RoundType(b) == IF pc[b] = "voting" THEN "RequestVote" ELSE "ControllerHeartbeat"

\* The caller of request m still blocks in read_response_frame for it.
Awaited(m) ==
    /\ up[m.src]
    /\ pc[m.src] \in {"voting", "beating"}
    /\ RoundType(m.src) = m.type
    /\ roundTerm[m.src] = m.term
    /\ attempt[m.src][m.dst] = m.attempt

\* The peer handled m: it answers, and the answer to an abandoned call is lost.
\* (The mutant echoes the term of the request.)
Answer_bug(m, t, granted) ==
    /\ requests' = requests \ {m}
    /\ replies' = IF Awaited(m)
                  THEN replies \cup {[type |-> m.type, src |-> m.dst, dst |-> m.src,
                                      term |-> m.term, granted |-> granted,
                                      attempt |-> m.attempt]}
                  ELSE replies

Answer(m, t, granted) ==
    /\ requests' = requests \ {m}
    /\ replies' = IF Awaited(m)
                  THEN replies \cup {[type |-> m.type, src |-> m.dst, dst |-> m.src,
                                      term |-> t, granted |-> granted,
                                      attempt |-> m.attempt]}
                  ELSE replies

\* Every thread of b's round has returned (t.join()).
RoundOver(b) == \A p \in Broker : attempt[b][p] = 0

-----------------------------------------------------------------------------
Init ==
    /\ role = [b \in Broker |-> "Follower"]
    /\ currentTerm = [b \in Broker |-> 0]
    /\ votedFor = [b \in Broker |-> None]
    /\ currentLeaderId = [b \in Broker |-> None]
    /\ up = [b \in Broker |-> TRUE]
    /\ raftState = [b \in Broker |-> Empty]
    /\ pc = [b \in Broker |-> "top"]
    /\ roundTerm = [b \in Broker |-> 0]
    /\ votes = [b \in Broker |-> {}]
    /\ attempt = [b \in Broker |-> NoCalls]
    /\ requests = {}
    /\ replies = {}
    /\ ballots = {}
    /\ elected = {}
    /\ torn = {}
    /\ rounds = 0
    /\ breaks = 0
    /\ crashes = 0

(* run_loop finds the deadline passed and start_election opens a round. *)
StartElection(b) ==
    /\ up[b] /\ pc[b] = "top" /\ role[b] # "Leader"
    /\ currentTerm[b] < MaxTerm /\ rounds < MaxRounds
    /\ rounds' = rounds + 1
    /\ role' = [role EXCEPT ![b] = "Candidate"]
    /\ currentTerm' = [currentTerm EXCEPT ![b] = @ + 1]
    /\ votedFor' = [votedFor EXCEPT ![b] = b]
    /\ Persist(b, currentTerm[b] + 1, b)
    /\ StartRound(b, "RequestVote", currentTerm[b] + 1)
    /\ votes' = [votes EXCEPT ![b] = {b}]
    /\ pc' = [pc EXCEPT ![b] = "voting"]
    /\ ballots' = ballots \cup {<<b, currentTerm[b] + 1, b>>}
    /\ UNCHANGED <<currentLeaderId, up, elected, torn, breaks, crashes>>

(* A connection thread of the peer runs handle_request_vote. *)
HandleRequestVote(m) ==
    LET b == m.dst
        t == TermAfter(b, m.term)
        v == VoteAfter(b, m.term)
        grant == MayGrant(m, t, v)
        w == IF grant THEN m.src ELSE v
    IN /\ m \in requests /\ m.type = "RequestVote" /\ up[b]
       /\ role' = [role EXCEPT ![b] = RoleAfter(b, m.term)]
       /\ currentTerm' = [currentTerm EXCEPT ![b] = t]
       /\ votedFor' = [votedFor EXCEPT ![b] = w]
       /\ Persist(b, t, w)
       /\ Answer(m, t, grant)
       /\ ballots' = IF grant THEN ballots \cup {<<b, t, m.src>>} ELSE ballots
       /\ UNCHANGED <<currentLeaderId, up, loopVars, elected, torn, bounds>>

(* A connection thread of the peer runs handle_controller_heartbeat. *)
HandleControllerHeartbeat(m) ==
    LET b == m.dst
        t == TermAfter(b, m.term)
        v == VoteAfter(b, m.term)
    IN /\ m \in requests /\ m.type = "ControllerHeartbeat" /\ up[b]
       /\ \/ /\ m.term < currentTerm[b]
             /\ UNCHANGED <<serverVars, raftState>>
             /\ Answer(m, currentTerm[b], FALSE)
          \/ /\ m.term >= currentTerm[b]
             /\ role' = [role EXCEPT ![b] = "Follower"]
             /\ currentTerm' = [currentTerm EXCEPT ![b] = t]
             /\ votedFor' = [votedFor EXCEPT ![b] = v]
             /\ currentLeaderId' = [currentLeaderId EXCEPT ![b] = m.src]
             /\ Persist(b, t, v)
             /\ Answer(m, t, TRUE)
       /\ UNCHANGED <<up, loopVars, history, bounds>>

(* A thread of the round gets its response and takes the lock: it steps    *)
(* down on a newer term, else it counts a vote granted in its own term.    *)
Counts(b, r) ==
    /\ r.type = "RequestVote" /\ r.term = roundTerm[b] /\ r.granted

ReceiveReply(b, r) ==
    LET newer == r.term > currentTerm[b]
    IN /\ up[b] /\ r \in replies /\ r.dst = b
       /\ replies' = replies \ {r}
       /\ attempt' = [attempt EXCEPT ![b][r.src] = 0]
       /\ role' = [role EXCEPT ![b] = RoleAfter(b, r.term)]
       /\ currentTerm' = [currentTerm EXCEPT ![b] = TermAfter(b, r.term)]
       /\ votedFor' = [votedFor EXCEPT ![b] = VoteAfter(b, r.term)]
       /\ Persist(b, TermAfter(b, r.term), VoteAfter(b, r.term))
       /\ votes' = [votes EXCEPT ![b] = IF ~newer /\ Counts(b, r)
                                        THEN @ \cup {r.src} ELSE @]
       /\ UNCHANGED <<currentLeaderId, up, pc, roundTerm, requests, history, bounds>>

(* The connection of b's call to p breaks before the response is read.    *)
(* The request may still be handled, its answer goes nowhere.  A           *)
(* connection that p's crash closed costs nothing of the bound.            *)
Breaks(b, p) ==
    /\ up[b] /\ attempt[b][p] # 0
    /\ replies' = {r \in replies : ~(r.dst = b /\ r.src = p)}
    /\ IF \/ \E m \in requests : m.src = b /\ m.dst = p /\ Awaited(m)
          \/ \E r \in replies : r.dst = b /\ r.src = p
       THEN breaks < MaxBreaks /\ breaks' = breaks + 1
       ELSE breaks' = breaks

(* call(): the first attempt threw, one more on a fresh connection. *)
CallRetry(b, p) ==
    /\ Breaks(b, p)
    /\ attempt[b][p] = 1 /\ up[p]
    /\ attempt' = [attempt EXCEPT ![b][p] = 2]
    /\ requests' = requests \cup {RequestTo(b, p, RoundType(b), roundTerm[b], 2)}
    /\ UNCHANGED <<serverVars, processVars, pc, roundTerm, votes, history, rounds, crashes>>

(* call() returns nullopt: no (new) connection, or the second attempt threw. *)
CallFails(b, p) ==
    /\ Breaks(b, p)
    /\ attempt' = [attempt EXCEPT ![b][p] = 0]
    /\ UNCHANGED <<serverVars, processVars, pc, roundTerm, votes, requests, history,
                   rounds, crashes>>

(* start_election after the joins: become_leader, or stay as one is. *)
FinishElection(b) ==
    /\ up[b] /\ pc[b] = "voting" /\ RoundOver(b)
    /\ pc' = [pc EXCEPT ![b] = "top"]
    /\ votes' = [votes EXCEPT ![b] = {}]
    /\ IF StillCandidate(b) /\ Majority(votes[b])
       THEN /\ role' = [role EXCEPT ![b] = "Leader"]
            /\ currentLeaderId' = [currentLeaderId EXCEPT ![b] = b]
            /\ elected' = elected \cup {<<currentTerm[b], b>>}
       ELSE UNCHANGED <<role, currentLeaderId, elected>>
    /\ roundTerm' = [roundTerm EXCEPT ![b] = 0]
    /\ UNCHANGED <<currentTerm, votedFor, processVars, attempt, netVars, ballots, torn, bounds>>

(* run_loop reads role_ == Leader and releases the lock. *)
ReadRole_bug(b) ==
    /\ up[b] /\ pc[b] = "top" /\ role[b] # "Follower"
    /\ pc' = [pc EXCEPT ![b] = "beat"]
    /\ UNCHANGED <<serverVars, processVars, roundTerm, votes, attempt, netVars, history, bounds>>
ReadRole(b) ==
    /\ up[b] /\ pc[b] = "top" /\ role[b] = "Leader"
    /\ pc' = [pc EXCEPT ![b] = "beat"]
    /\ UNCHANGED <<serverVars, processVars, roundTerm, votes, attempt, netVars, history, bounds>>

(* broadcast_heartbeats takes the lock again, reads currentTerm_, sends. *)
BroadcastHeartbeats(b) ==
    /\ up[b] /\ pc[b] = "beat"
    /\ StartRound(b, "ControllerHeartbeat", currentTerm[b])
    /\ pc' = [pc EXCEPT ![b] = "beating"]
    /\ UNCHANGED <<serverVars, processVars, votes, history, bounds>>

FinishHeartbeats(b) ==
    /\ up[b] /\ pc[b] = "beating" /\ RoundOver(b)
    /\ pc' = [pc EXCEPT ![b] = "top"]
    /\ roundTerm' = [roundTerm EXCEPT ![b] = 0]
    /\ UNCHANGED <<serverVars, processVars, votes, attempt, netVars, history, bounds>>

-----------------------------------------------------------------------------
(* The process of b dies and its disk keeps s.  Its connections close: what *)
(* peers sent it and what was on its way back to it is lost, what it sent   *)
(* may still be handled.                                                    *)
Die(b, s) ==
    /\ up[b] /\ crashes < MaxCrashes
    /\ crashes' = crashes + 1
    /\ up' = [up EXCEPT ![b] = FALSE]
    /\ raftState' = [raftState EXCEPT ![b] = s]
    /\ pc' = [pc EXCEPT ![b] = "top"]
    /\ votes' = [votes EXCEPT ![b] = {}]
    /\ attempt' = [attempt EXCEPT ![b] = NoCalls]
    /\ requests' = {m \in requests : m.dst # b}
    /\ replies' = {r \in replies : r.dst # b /\ r.src # b}
    /\ roundTerm' = [roundTerm EXCEPT ![b] = 0]
    /\ UNCHANGED <<serverVars, ballots, elected, rounds, breaks>>

Crash(b) == Die(b, raftState[b]) /\ UNCHANGED torn

(* handle_request_vote persists twice when the term is newer (step_down,   *)
(* then the grant): the process may die between the two writes.            *)
CrashBetweenWrites(b, m) ==
    /\ m \in requests /\ m.type = "RequestVote" /\ m.dst = b
    /\ m.term > currentTerm[b]
    /\ Die(b, [term |-> m.term, votedFor |-> None])
    /\ UNCHANGED torn

(* persist_state empties the file when it opens it and writes when it is    *)
(* done: the process may die in between, wherever it persists.  Without a   *)
(* state to lose that is a Crash.                                           *)
MayPersist(b) ==
    \/ pc[b] = "top" /\ role[b] # "Leader" /\ currentTerm[b] < MaxTerm /\ rounds < MaxRounds
    \/ \E m \in requests :
         /\ m.dst = b
         /\ \/ m.term > currentTerm[b]
            \/ m.type = "RequestVote" /\ MayGrant(m, currentTerm[b], votedFor[b])
    \/ \E r \in replies : r.dst = b /\ r.term > currentTerm[b]

CrashInPersist(b) ==
    /\ MayPersist(b) /\ raftState[b] # Empty
    /\ Die(b, Empty)
    /\ torn' = torn \cup {b}

(* The constructor: load_state, then the initial values of controller.h. *)
Restart(b) ==
    /\ ~up[b]
    /\ up' = [up EXCEPT ![b] = TRUE]
    /\ role' = [role EXCEPT ![b] = "Follower"]
    /\ currentTerm' = [currentTerm EXCEPT ![b] = LoadState(raftState[b]).term]
    /\ votedFor' = [votedFor EXCEPT ![b] = LoadState(raftState[b]).votedFor]
    /\ currentLeaderId' = [currentLeaderId EXCEPT ![b] = None]
    /\ UNCHANGED <<raftState, loopVars, netVars, history, bounds>>

Handle(m) == HandleRequestVote(m) \/ HandleControllerHeartbeat(m)

Loop(b) ==
    \/ StartElection(b)
    \/ FinishElection(b)
    \/ ReadRole(b)
    \/ BroadcastHeartbeats(b)
    \/ FinishHeartbeats(b)

Next ==
    \/ \E b \in Broker : Loop(b) \/ Crash(b) \/ CrashInPersist(b) \/ Restart(b)
    \/ \E m \in requests : Handle(m)
    \/ \E r \in replies : ReceiveReply(r.dst, r)
    \/ \E b, p \in Broker : CallRetry(b, p) \/ CallFails(b, p)
    \/ \E m \in requests : CrashBetweenWrites(m.dst, m)

Spec == Init /\ [][Next]_vars

(***************************************************************************)
(* Fairness: running threads proceed, a request on a connection that holds *)
(* is handled, an answer reaches a caller that waits, and a caller learns  *)
(* that its connection is gone.  A request on a broken connection may be   *)
(* lost.  Nothing is assumed of election deadlines, crashes and restarts,  *)
(* and of connections that break.                                          *)
(***************************************************************************)
Fairness ==
    /\ \A b \in Broker :
          WF_vars(FinishElection(b) \/ ReadRole(b) \/ BroadcastHeartbeats(b) \/ FinishHeartbeats(b))
    /\ \A b, p \in Broker :
          /\ WF_vars(\E m \in requests : m.src = b /\ m.dst = p /\ Awaited(m) /\ Handle(m))
          /\ WF_vars(\E r \in replies : r.src = p /\ ReceiveReply(b, r))
          /\ WF_vars(CallFails(b, p) /\ UNCHANGED breaks)

FairSpec == Spec /\ Fairness

\* b leads a term that some running broker has left behind.
Outgrown(b) ==
    /\ up[b] /\ role[b] = "Leader"
    /\ \E c \in Broker : up[c] /\ currentTerm[c] > currentTerm[b]

-----------------------------------------------------------------------------
(***************************************************************************)
(* Properties.                                                             *)
(***************************************************************************)

\* The fields of controller.h, the file and the calls have the values the code gives
\* them.
TypeOK ==
    /\ role \in [Broker -> Role]
    /\ currentTerm \in [Broker -> Nat]
    /\ votedFor \in [Broker -> Broker \cup {None}]
    /\ currentLeaderId \in [Broker -> Broker \cup {None}]
    /\ up \in [Broker -> BOOLEAN]
    /\ raftState \in [Broker -> RaftState]
    /\ pc \in [Broker -> {"top", "voting", "beat", "beating"}]
    /\ roundTerm \in [Broker -> Nat]
    /\ votes \in [Broker -> SUBSET Broker]
    /\ attempt \in [Broker -> [Broker -> 0..2]]
    /\ requests \subseteq Request
    /\ replies \subseteq Reply
    /\ ballots \subseteq Broker \X Nat \X Broker
    /\ elected \subseteq Nat \X Broker
    /\ torn \subseteq Broker
    /\ rounds \in Nat
    /\ breaks \in Nat
    /\ crashes \in Nat

\* start_election makes at most one broker the controller of a term, whatever is
\* delayed, retried or crashes between the votes.  The exception has a culprit: a
\* broker that lost its raft_state voted for both.
ElectionSafety ==
    \A t \in {e[1] : e \in elected} : \A b, c \in Broker :
        <<t, b>> \in elected /\ <<t, c>> \in elected =>
            \/ b = c
            \/ \E v \in torn : <<v, t, b>> \in ballots /\ <<v, t, c>> \in ballots

\* handle_request_vote and start_election together give the vote of one broker in one
\* term to one candidate only, across restarts of the voter too, unless its file was cut
\* short.
OneVotePerTerm ==
    \A x, y \in ballots :
        x[1] = y[1] /\ x[2] = y[2] => x[3] = y[3] \/ x[1] \in torn

\* A broker whose role_ is Leader was elected in exactly its current term: the re-check
\* of start_election and the resets of role_ never leave a Leader in a term it did not
\* win.
LeaderWasElected ==
    \A b \in Broker : up[b] /\ role[b] = "Leader" => <<currentTerm[b], b>> \in elected

\* The broker that current_leader_id() names (where requests are redirected to) has won
\* some election of a term that the naming broker has reached.
KnownLeaderWasElected ==
    \A b \in Broker :
        up[b] /\ currentLeaderId[b] # None =>
            \E e \in elected : e[2] = currentLeaderId[b] /\ e[1] <= currentTerm[b]

\* currentTerm_ never goes back on any broker, through a crash and a restart too, and
\* while it stays the same a vote that was cast is neither changed nor forgotten, unless
\* the crash was inside persist_state.
TermsAndVotesStick ==
    [][\A b \in Broker \ torn' :
         /\ currentTerm'[b] >= currentTerm[b]
         /\ currentTerm'[b] = currentTerm[b] /\ votedFor[b] # None
              => votedFor'[b] = votedFor[b]]_vars

\* raft_state of a running broker holds its fields, of a dead one nothing older, as long
\* as it was never cut short.
DiskCurrent ==
    \A b \in Broker \ torn :
        \/ raftState[b] = [term |-> currentTerm[b], votedFor |-> votedFor[b]]
        \/ ~up[b] /\ raftState[b].term > currentTerm[b]

\* A vote ever cast is recorded in the voter's raft_state, or belongs to an older term.
\* Not so on brokers whose raft_state was cut short.
BallotsOnDisk ==
    \A x \in ballots :
        \/ x[1] \in torn
        \/ x[2] < raftState[x[1]].term
        \/ x[2] = raftState[x[1]].term /\ x[3] = raftState[x[1]].votedFor

\* A reply that grants a vote was preceded by the vote.
GrantsCast ==
    \A r \in replies :
        r.type = "RequestVote" /\ r.granted => <<r.src, r.term, r.dst>> \in ballots

\* A vote that start_election counts was cast, in the term of the round.
VotesCast ==
    \A b \in Broker : pc[b] = "voting" =>
        \A v \in votes[b] : <<v, roundTerm[b], b>> \in ballots

\* A won election rests on a majority of votes really cast.
MajorityCast ==
    \A e \in elected : \E Q \in SUBSET Broker :
        Majority(Q) /\ \A v \in Q : <<v, e[1], e[2]>> \in ballots

\* What makes votes trustworthy across persist_state, crashes and load_state: the chain
\* from raft_state over the votes cast and the replies to the elections that were won.
VotesRestOnDisk ==
    DiskCurrent /\ BallotsOnDisk /\ GrantsCast /\ VotesCast /\ MajorityCast

\* A Leader that a peer has outgrown (it slept through an election, or the votes of its
\* successor never reached it) finds out from the answers to its own heartbeats and does
\* not stay Leader.
OutgrownLeaderStepsDown ==
    \A b \in Broker : Outgrown(b) ~> ~Outgrown(b)
=============================================================================
