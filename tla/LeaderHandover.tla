---------------------------- MODULE LeaderHandover ----------------------------
(***************************************************************************)
(* One partition across several leaders: what Broker::handle_produce,      *)
(* handle_fetch, handle_replicate, reconcile_replication, FollowerFetcher  *)
(* and the clients mk-produce and mk-consume (direct mode) do to its       *)
(* replicas' logs while the leadership moves.                              *)
(*                                                                         *)
(* The controllers are abstracted to the list of the leaders they appoint; *)
(* a broker learns of an appointment at any time, may miss some, and never *)
(* goes back (PartitionFailover has the calls that carry them).  What one  *)
(* tenure does to the ISR, lag bounds, cut-short batches and the window    *)
(* between append and recompute are LeaderReplication's; segments, index   *)
(* and torn writes are CommitLog's.                                        *)
(*                                                                         *)
(* Concurrent threads: a connection thread per client on every broker, the *)
(* threads that handle LeaderAndISR, the sweep of IsrManager, and the      *)
(* fetchers, of which a broker has two while it replaces one.              *)
(*                                                                         *)
(* A record is named by the producer that sent it.  An operator whose name *)
(* ends in _bug is a mutant of the operator that follows it.               *)
(***************************************************************************)
EXTENDS Integers, Sequences, SequencesExt, FiniteSets

CONSTANTS
    Broker,        \* the replicas of the partition
    First,         \* its first leader
    Entry,         \* --broker of the clients
    Producer,      \* runs of mk-produce
    MaxAttempts,   \* kMaxProduceAttempts
    MaxElections,  \* bound: leaders appointed after the first
    MaxFaults      \* bound: crashes of brokers and attempts that fail though the
                   \* broker lives, together

ASSUME BrokerAssumption == First \in Broker /\ Entry \in Broker /\ IsFiniteSet(Broker)
ASSUME BoundAssumption ==
    /\ MaxAttempts \in Nat \ {0} /\ MaxElections \in Nat /\ MaxFaults \in Nat

VARIABLES
    leaders,   \* the leaders appointed so far
    up,        \* brokers that run
    \* a broker's table, threads and roles
    view,      \* assignments_: the appointment the table holds
    due,       \* a LeaderAndISR is applied and not reconciled yet
    role,      \* the appointment of the last reconcile, 0 if none since the start
    \* a broker's Partition
    log,       \* its records, in the order of the file
    \* FollowerFetcher
    fetcher,   \* followers_, and the old fetcher that is waited for
    \* mk-produce
    pc, target, attempts,
    late,      \* requests whose client has hung up
    acksAll,   \* the runs with --acks all, while they last
    \* bounds and history
    crashes, faults,
    inTurn,    \* every batch was appended at the log end it was asked for
    clean      \* and every record to the end of the longest log

tableVars == <<view, due, role>>
produceVars == <<pc, target, attempts, late, acksAll>>
boundVars == <<crashes, faults>>
history == <<inTurn, clean>>
vars == <<leaders, up, tableVars, log, fetcher, produceVars, boundVars, history>>

Record == [offset : Nat, rec : Producer]
Fetcher == [pc : {"none", "idle", "got"}, from : Broker, end : Nat, batch : Seq(Record)]
None == [pc |-> "none", from |-> First, end |-> 0, batch |-> <<>>]
Idle(leader) == [None EXCEPT !.pc = "idle", !.from = leader]
Slot == {"current", "old"}

-----------------------------------------------------------------------------
(* Tables and logs *)

Leader == leaders[Len(leaders)]
Names(b) == leaders[view[b]]

\* nextOffset_, in memory as after a recovery.
LogEnd(records) == IF records = <<>> THEN 0 ELSE Last(records).offset + 1

\* The records at the positions in I, in their order.
Picked(s, I) ==
    LET Position(k) == CHOOSE i \in I : Cardinality({j \in I : j < i}) = k
    IN  [k \in 1 .. Cardinality(I) |-> s[Position(k - 1)]]

\* read_clamped from position i on: in the order of the file, up to the first
\* record at the clamp, without what lies before start.  The mutant misses the
\* record at start.
Read_bug(b, i, start, clamp) ==
    LET before == {k \in i .. Len(log[b]) : \A j \in i .. k : log[b][j].offset < clamp}
    IN  Picked(log[b], {k \in before : log[b][k].offset > start})

Read(b, i, start, clamp) ==
    LET before == {k \in i .. Len(log[b]) : \A j \in i .. k : log[b][j].offset < clamp}
    IN  IF start >= clamp THEN <<>>
        ELSE Picked(log[b], {k \in before : log[b][k].offset >= start})

Ascending(s) == \A i, j \in 1 .. Len(s) : i < j => s[i].offset < s[j].offset

\* Where segment_for_offset and find_start_position make it start.  If the
\* offsets ascend, as they take for granted, they miss no record that is asked
\* for (CommitLog has the search), and starting at the head gives the same.  If
\* not, the binary search may end anywhere.
StartPositions(b) == IF Ascending(log[b]) THEN {1} ELSE 1 .. Len(log[b]) + 1

\* What a fetch may be answered with.
Pages(b, start, clamp) == {Read(b, i, start, clamp) : i \in StartPositions(b)}

\* Partition::append and on_leader_append.
AppendAt(b, p) ==
    LET end == LogEnd(log[b])
    IN  /\ log' = [log EXCEPT ![b] = Append(@, [offset |-> end, rec |-> p])]
        /\ UNCHANGED inTurn
        /\ clean' = (clean /\ \A x \in Broker : Len(log[x]) <= Len(log[b]))

-----------------------------------------------------------------------------
(* Appointments *)

\* check_partition_failover: the leader is down, or was taken for dead.
Elect(b) ==
    /\ b \in up /\ b # Leader
    /\ Len(leaders) <= MaxElections
    /\ leaders' = Append(leaders, b)
    /\ UNCHANGED <<up, tableVars, log, fetcher, produceVars, boundVars, history>>

\* handle_leader_and_isr, up to apply_leader_and_isr.  A call that brings
\* nothing new, or is about another partition, is reconciled as well.
LeaderAndIsr(b) ==
    /\ b \in up
    /\ \E i \in view[b] .. Len(leaders) :
         /\ i > (IF due[b] THEN view[b] ELSE role[b])
         /\ view' = [view EXCEPT ![b] = i]
    /\ due' = [due EXCEPT ![b] = TRUE]
    /\ UNCHANGED <<leaders, up, role, log, fetcher, produceVars, boundVars, history>>

\* The fetcher is recreated when the leader's address differs.
KeepsFetcher_bug(f, leader) == f # None
KeepsFetcher(f, leader) == f # None /\ f.from = leader

\* reconcile_replication, up to the fetcher it has to wait for, if there is
\* one: the fetcher that replaces it runs already.
Reconcile(b) ==
    LET leads == Names(b) = b
        now == fetcher[b]["current"]
        next == IF leads THEN None ELSE Idle(Names(b))
        keeps == ~leads /\ KeepsFetcher(now, Names(b))
    IN  /\ b \in up /\ due[b] /\ fetcher[b]["old"] = None
        /\ role' = [role EXCEPT ![b] = view[b]]
        /\ due' = [due EXCEPT ![b] = ~(keeps \/ now = None)]
        /\ IF keeps THEN UNCHANGED fetcher
           ELSE fetcher' = [fetcher EXCEPT ![b] = [current |-> next, old |-> now]]
        /\ UNCHANGED <<leaders, up, view, log, produceVars, boundVars, history>>

\* The old fetcher's thread has ended.
FinishReconcile(b) ==
    /\ b \in up /\ fetcher[b]["old"].pc = "idle"
    /\ fetcher' = [fetcher EXCEPT ![b]["old"] = None]
    /\ due' = [due EXCEPT ![b] = role[b] # view[b]]
    /\ UNCHANGED <<leaders, up, view, role, log, produceVars, boundVars, history>>

-----------------------------------------------------------------------------
(* FollowerFetcher::run_loop of b's fetcher s, and handle_replicate *)

\* The offset it asks for.  The mutants ask for the last record again, and for
\* the record after the next.
FetchFrom_again_bug(b) == IF log[b] = <<>> THEN 0 ELSE LogEnd(log[b]) - 1
FetchFrom_skip_bug(b) == LogEnd(log[b]) + 1
FetchFrom(b) == LogEnd(log[b])

\* A request that is answered with records; after an error or an empty batch
\* the fetcher backs off and asks again.  What others append to b's log before
\* the leader reads the request they may as well append before b has the reply.
FetchBatch(b, s) ==
    LET f == fetcher[b][s]
    IN  /\ f.pc = "idle" /\ f.from \in up
        /\ Names(f.from) = f.from
        /\ \E batch \in Pages(f.from, FetchFrom(b), LogEnd(log[f.from])) :
             /\ batch # <<>>
             /\ fetcher' = [fetcher EXCEPT ![b][s] =
                    [pc |-> "got", from |-> f.from, end |-> LogEnd(log[b]), batch |-> batch]]
        /\ UNCHANGED <<leaders, up, tableVars, log, produceVars, boundVars, history>>

\* append_replicated, whatever became of the log since the request.
AppendReplicated(b, s) ==
    LET f == fetcher[b][s]
    IN  /\ f.pc = "got"
        /\ log' = [log EXCEPT ![b] = @ \o f.batch]
        /\ inTurn' = (inTurn /\ f.end = LogEnd(log[b]))
        /\ clean' = (clean /\ f.end = LogEnd(log[b]))
        /\ fetcher' = [fetcher EXCEPT ![b][s] = Idle(f.from)]
        /\ UNCHANGED <<leaders, up, tableVars, produceVars, boundVars>>

-----------------------------------------------------------------------------
(* mk-produce and handle_produce *)

\* The first Metadata, unless --partition makes it start at the entry point.
Locate(p) ==
    /\ pc[p] = "start"
    /\ acksAll' \in {acksAll, acksAll \cup {p}}
    /\ \/ /\ Entry \in up
          /\ target' = [target EXCEPT ![p] = Names(Entry)]
          /\ pc' = [pc EXCEPT ![p] = "ready"]
       \/ /\ target' = [target EXCEPT ![p] = Entry]
          /\ pc' = [pc EXCEPT ![p] = "ready"]
       \/ /\ Entry \notin up
          /\ pc' = [pc EXCEPT ![p] = "unreachable"]
          /\ UNCHANGED target
    /\ UNCHANGED <<leaders, up, tableVars, log, fetcher, attempts, late, boundVars,
                   history>>

\* An attempt of every producer in P ends without an answer it can use.
AttemptsFail(P) ==
    /\ pc' = [p \in Producer |-> IF p \in P THEN "backoff" ELSE pc[p]]
    /\ attempts' = [p \in Producer |-> IF p \in P THEN attempts[p] + 1 ELSE attempts[p]]

\* The loop's condition after n attempts.
After_bug(n) == IF n <= MaxAttempts THEN "ready" ELSE "gaveUp"
After(n) == IF n < MaxAttempts THEN "ready" ELSE "gaveUp"

\* handle_produce finds itself named by its table, or redirects.
CheckLeader(p) ==
    LET b == target[p]
    IN  /\ pc[p] = "ready" /\ b \in up
        /\ IF Names(b) = b
             THEN pc' = [pc EXCEPT ![p] = "checked"] /\ UNCHANGED <<target, attempts>>
             ELSE /\ target' = [target EXCEPT ![p] = Names(b)]
                  /\ attempts' = [attempts EXCEPT ![p] = @ + 1]
                  /\ pc' = [pc EXCEPT ![p] = After(attempts[p] + 1)]
        /\ UNCHANGED <<leaders, up, tableVars, log, fetcher, late, acksAll,
                       boundVars, history>>

\* The leader may have been deposed since the check.
Produce(p) ==
    /\ pc[p] = "checked"
    /\ AppendAt(target[p], p)
    /\ pc' = [pc EXCEPT ![p] = "waiting"]
    /\ UNCHANGED <<leaders, up, tableVars, fetcher, target, attempts, late,
                   acksAll, boundVars>>

\* set_leading was called for b: by the reconcile of an appointment that names
\* it, once its fetcher has ended, and not by a restart.
Registered(b) == role[b] # 0 /\ leaders[role[b]] = b /\ fetcher[b]["old"] = None

\* The answer reaches the client, which exits.  With acks=all wait_for_hwm lets
\* it through, for a partition that IsrManager knows.
Ack(p) ==
    /\ pc[p] = "waiting"
    /\ p \in acksAll => Registered(target[p])
    /\ pc' = [pc EXCEPT ![p] = "done"]
    /\ target' = [target EXCEPT ![p] = Entry]
    /\ acksAll' = acksAll \ {p}
    /\ UNCHANGED <<leaders, up, tableVars, log, fetcher, attempts, late, boundVars,
                   history>>

\* wait_for_hwm gives up and the answer is RequestTimedOut: always if IsrManager
\* does not know the partition; otherwise if the ISR takes longer than the wait,
\* which is a fault here (LeaderReplication has the watermark).
TimedOut(p) ==
    /\ pc[p] = "waiting" /\ p \in acksAll
    /\ \/ ~Registered(target[p]) /\ UNCHANGED faults
       \/ /\ Registered(target[p])
          /\ crashes + faults < MaxFaults /\ faults' = faults + 1
    /\ AttemptsFail({p})
    /\ UNCHANGED <<leaders, up, tableVars, log, fetcher, target, late,
                   acksAll, crashes, history>>

\* Nobody listens at the target.
Refused(p) ==
    /\ pc[p] = "ready" /\ target[p] \notin up
    /\ AttemptsFail({p})
    /\ UNCHANGED <<leaders, up, tableVars, log, fetcher, target, late,
                   acksAll, boundVars, history>>

\* The connection breaks.  A request that was not handled before it broke may be
\* later.
Fail(p) ==
    /\ pc[p] \in {"ready", "checked", "waiting"} /\ target[p] \in up
    /\ crashes + faults < MaxFaults
    /\ faults' = faults + 1
    /\ AttemptsFail({p})
    /\ late' = IF pc[p] = "waiting" THEN late
               ELSE late \cup {[rec |-> p, at |-> target[p], checked |-> pc[p] = "checked"]}
    /\ UNCHANGED <<leaders, up, tableVars, log, fetcher, target, acksAll,
                   crashes, history>>

\* handle_produce of a client that has hung up.
LateProduce(r) ==
    /\ late' = late \ {r}
    /\ IF r.checked \/ Names(r.at) = r.at
         THEN AppendAt(r.at, r.rec)
         ELSE UNCHANGED <<log, history>>
    /\ UNCHANGED <<leaders, up, tableVars, fetcher, pc, target, attempts,
                   acksAll, boundVars>>

\* resolve_leader after the backoff; the target stays if the lookup fails.
Resolved_bug(p) == target[p]
Resolved(p) == IF Entry \in up THEN Names(Entry) ELSE target[p]

Retry(p) ==
    /\ pc[p] = "backoff"
    /\ target' = [target EXCEPT ![p] =
           IF attempts[p] < MaxAttempts THEN Resolved(p) ELSE Entry]
    /\ acksAll' = IF attempts[p] < MaxAttempts THEN acksAll ELSE acksAll \ {p}
    /\ pc' = [pc EXCEPT ![p] = After(attempts[p])]
    /\ UNCHANGED <<leaders, up, tableVars, log, fetcher, attempts, late, boundVars,
                   history>>

-----------------------------------------------------------------------------
(* Crashes *)

\* Whoever is connected to b gets an exception; its log and table are on disk.
Crash(b) ==
    /\ b \in up
    /\ crashes + faults < MaxFaults
    /\ crashes' = crashes + 1
    /\ up' = up \ {b}
    /\ due' = [due EXCEPT ![b] = FALSE]
    /\ role' = [role EXCEPT ![b] = 0]
    /\ fetcher' = [fetcher EXCEPT ![b] = [current |-> None, old |-> None]]
    /\ AttemptsFail({p \in Producer : target[p] = b /\ pc[p] \in {"checked", "waiting"}})
    /\ late' = {r \in late : r.at # b}
    /\ UNCHANGED <<leaders, view, log, target, acksAll, faults, history>>

\* load_assignments and recover; nothing reconciles.
Restart(b) ==
    /\ b \notin up
    /\ up' = up \cup {b}
    /\ UNCHANGED <<leaders, tableVars, log, fetcher, produceVars, boundVars, history>>

-----------------------------------------------------------------------------
\* The topic was created and every broker has reconciled.
Init ==
    /\ leaders = <<First>> /\ up = Broker
    /\ view = [b \in Broker |-> 1] /\ role = [b \in Broker |-> 1]
    /\ due = [b \in Broker |-> FALSE]
    /\ log = [b \in Broker |-> <<>>]
    /\ fetcher = [b \in Broker |->
           [current |-> IF b = First THEN None ELSE Idle(First),
            old |-> None]]
    /\ pc = [p \in Producer |-> "start"]
    /\ target = [p \in Producer |-> Entry]
    /\ attempts = [p \in Producer |-> 0]
    /\ late = {} /\ acksAll = {}
    /\ crashes = 0 /\ faults = 0
    /\ inTurn = TRUE /\ clean = TRUE

FetchStep(b, s) == FetchBatch(b, s) \/ AppendReplicated(b, s)

ProducerStep(p) ==
    \/ Locate(p) \/ CheckLeader(p) \/ Produce(p)
    \/ Ack(p) \/ TimedOut(p) \/ Refused(p) \/ Retry(p)

Next ==
    \/ \E b \in Broker :
         \/ Elect(b) \/ LeaderAndIsr(b) \/ Reconcile(b) \/ FinishReconcile(b)
         \/ \E s \in Slot : FetchStep(b, s)
         \/ Crash(b) \/ Restart(b)
    \/ \E p \in Producer : ProducerStep(p) \/ Fail(p)
    \/ \E r \in late : LateProduce(r)

Spec == Init /\ [][Next]_vars

\* Threads run while their process does, and the clients go on.  An old fetcher
\* stops at the latest after the request it is in.
FairSpec ==
    /\ Spec
    /\ \A b \in Broker :
         /\ WF_vars(Reconcile(b)) /\ SF_vars(FinishReconcile(b))
         /\ \A s \in Slot : WF_vars(FetchStep(b, s))
    /\ \A p \in Producer : WF_vars(ProducerStep(p))

-----------------------------------------------------------------------------
(* Properties *)

\* Appointments, tables, logs, fetchers and clients are well formed; a producer
\* makes at most kMaxProduceAttempts attempts.
TypeOK ==
    /\ leaders \in Seq(Broker) /\ Len(leaders) \in 1 .. MaxElections + 1
    /\ up \subseteq Broker
    /\ view \in [Broker -> 1 .. Len(leaders)] /\ role \in [Broker -> 0 .. Len(leaders)]
    /\ due \in [Broker -> BOOLEAN]
    /\ log \in [Broker -> Seq(Record)]
    /\ fetcher \in [Broker -> [Slot -> Fetcher]]
    /\ pc \in [Producer -> {"start", "ready", "checked", "waiting", "backoff", "done",
                            "gaveUp", "unreachable"}]
    /\ target \in [Producer -> Broker] /\ attempts \in [Producer -> 0 .. MaxAttempts]
    /\ late \subseteq [rec : Producer, at : Broker, checked : BOOLEAN]
    /\ acksAll \subseteq Producer
    /\ crashes \in 0 .. MaxFaults /\ faults \in 0 .. MaxFaults
    /\ inTurn \in BOOLEAN /\ clean \in BOOLEAN

\* append_replicated trusts its batch to start at the log end, and the index
\* search trusts the offsets to be "ascending by construction".  Both are right
\* up to exactly one thing, a batch that was asked for before somebody else (the
\* other fetcher of the broker, a producer) appended: until then every record is
\* at the position its offset says, without gap or repetition, also in a deposed
\* leader's log that has diverged and goes on from its own log end.
LogsAreNumbered ==
    inTurn => \A b \in Broker : \A i \in 1 .. Len(log[b]) : log[b][i].offset = i - 1

\* reconcile_replication's "followers only ever pull (never diverge ahead of a
\* leader)" holds up to exactly two things: a record that a replica without the
\* longest log appended, deposed or newly appointed, and a batch that was asked
\* for before somebody else appended.
LogsAgree ==
    clean => \A b, x \in Broker : IsPrefix(log[b], log[x]) \/ IsPrefix(log[x], log[b])

Copies(b, p) == Cardinality({i \in 1 .. Len(log[b]) : log[b][i].rec = p})

\* mk-produce repeats a request whose answer it did not get: every copy of its
\* record beyond the first is owed to an attempt that failed (a redirect counts
\* as one, as in the code), none to the replication or to a change of leaders.
RetriesBoundCopies ==
    clean => \A b \in Broker, p \in Producer : Copies(b, p) <= 1 + attempts[p]

\* mk-consume may be redirected from any replica x to any other b: what it has
\* printed and the page it gets next, up to any watermark, are one log without
\* gap or repetition.
ReaderSeesOneLog ==
    clean => \A x, b \in Broker : \A n \in 0 .. Len(log[x]) : \A h \in 0 .. LogEnd(log[b]) :
      \A page \in Pages(b, n, h) :
        LET printed == SubSeq(log[x], 1, n) \o page
        IN  IsPrefix(printed, log[x]) \/ IsPrefix(printed, log[b])

\* Every table that a client can meet is up to date.
Reachable ==
    /\ \A b \in up : view[b] = Len(leaders)
    /\ Leader \in up /\ Entry \in up

\* Every live broker has reconciled the last appointment.
Settled ==
    /\ Leader \in up
    /\ \A b \in up : view[b] = Len(leaders) /\ role[b] = view[b] /\ ~due[b]

\* Once the leadership is settled every live follower gets hold of everything
\* its leader has, whichever fetchers and records the changes left behind.
FollowersCatchUp ==
    <>[](Settled /\ clean) => <>[](\A f \in up : IsPrefix(log[Leader], log[f]))

\* The leader can answer p.
Served(p) == p \in acksAll => Registered(Leader)

\* A producer that has two attempts left, however stale its target, gets its
\* record through when the tables are up to date.  With acks=leader that includes
\* a leader that only restarted and has reconciled nothing; with acks=all such a
\* leader answers RequestTimedOut for good, and the leader must have reconciled
\* its appointment since it started.  Neither holds if connections break or the
\* ISR keeps up too slowly, which is what a fault is.
ProducerGetsThrough ==
    \A p \in Producer :
        []((/\ [](Reachable /\ faults = 0 /\ Served(p))
            /\ pc[p] \in {"start", "ready", "checked", "waiting", "backoff"}
            /\ attempts[p] + 2 <= MaxAttempts) => <>(pc[p] = "done"))
=============================================================================
